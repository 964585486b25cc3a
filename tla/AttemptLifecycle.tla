--------------------------- MODULE AttemptLifecycle ---------------------------
(* What taking an exam promises of every attempt, whoever races to save,     *)
(* submit, expire or grade it: it opens blank on one content version, its    *)
(* answers only move to higher revisions and only while it is open, it       *)
(* closes once, and the grade it is given, however often it is recomputed,   *)
(* is the grade of the sheet it closed with.                                 *)
EXTENDS ExamContent

CONSTANT AttemptId

VARIABLES phase,  \* none, open, closed or graded
          paper,  \* the content version the attempt is on, 0 before it opens
          sheet,  \* its answers
          grade

lifecycle == <<phase, paper, sheet, grade>>

Init ==
  /\ phase = [a \in AttemptId |-> "none"]
  /\ paper = [a \in AttemptId |-> 0]
  /\ sheet = [a \in AttemptId |-> Blank]
  /\ grade = [a \in AttemptId |-> NoResult]

Opens(a) ==
  /\ phase[a] = "none" /\ phase'[a] = "open"
  /\ paper'[a] \in Version
  /\ sheet'[a] = sheet[a] /\ grade'[a] = grade[a]

Writes(a) ==
  /\ phase[a] = "open" /\ phase'[a] = "open"
  /\ \E q \in DOMAIN Key[paper[a]] :
       /\ sheet'[a][q] \in Answer /\ sheet'[a][q].rev > sheet[a][q].rev
       /\ sheet'[a] = [sheet[a] EXCEPT ![q] = sheet'[a][q]]
  /\ paper'[a] = paper[a] /\ grade'[a] = grade[a]

Closes(a) ==
  /\ phase[a] = "open" /\ phase'[a] = "closed"
  /\ paper'[a] = paper[a] /\ sheet'[a] = sheet[a] /\ grade'[a] = grade[a]

Grades(a) ==
  /\ phase[a] = "closed" /\ phase'[a] = "graded"
  /\ grade'[a] = Verdict(sheet[a], paper[a])
  /\ paper'[a] = paper[a] /\ sheet'[a] = sheet[a]

Rests(a) ==
  /\ phase'[a] = phase[a] /\ paper'[a] = paper[a]
  /\ sheet'[a] = sheet[a] /\ grade'[a] = grade[a]

(* One transaction may move several attempts: each follows its own life.     *)
Next == \A a \in AttemptId :
          Opens(a) \/ Writes(a) \/ Closes(a) \/ Grades(a) \/ Rests(a)

Spec == Init /\ [][Next]_lifecycle
=============================================================================
