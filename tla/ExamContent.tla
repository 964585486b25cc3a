----------------------------- MODULE ExamContent -----------------------------
(* The content of an exam as the exam modules see it: every version has its  *)
(* own questions (their ids are drawn afresh) and an answer key, and a sheet *)
(* of saved answers is graded against one version.                           *)
EXTENDS Integers

CONSTANTS
  Question, Selection, \* question ids, sets of chosen options
  Version, Key         \* content versions; Key[v] maps a question of v to its answer

ASSUME ContentAssumption ==
  /\ Version \subseteq Nat \ {0} /\ 1 \in Version
  /\ DOMAIN Key = Version
  /\ \A v \in Version : /\ DOMAIN Key[v] \subseteq Question
                        /\ \A q \in DOMAIN Key[v] : Key[v][q] \in Selection
  /\ "none" \notin Selection

Answer == [rev : Nat, sel : Selection \cup {"none"}]
NoAnswer == [rev |-> 0, sel |-> "none"]
Sheet == [Question -> Answer]
Blank == [q \in Question |-> NoAnswer]

(* The grade of a sheet: which of the version's questions are right, wrong,  *)
(* or have no row. Marks, percentage and passed are functions of these sets. *)
Verdict(sheet, v) ==
  LET answered == {q \in DOMAIN Key[v] : sheet[q].rev > 0}
      correct  == {q \in answered : sheet[q].sel = Key[v][q]}
  IN  [correct |-> correct, incorrect |-> answered \ correct,
       unanswered |-> DOMAIN Key[v] \ answered]

Grade == [correct : SUBSET Question, incorrect : SUBSET Question,
          unanswered : SUBSET Question]
NoResult == [correct |-> {}, incorrect |-> {}, unanswered |-> {}]
=============================================================================
