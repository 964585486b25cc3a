--------------------------- MODULE LiveExamProofs ---------------------------
(* Proofs about LiveExam for every value of its constants.                   *)
EXTENDS LiveExam, FiniteSetTheorems, TLAPS

(* A server's clock shows a natural number.                                  *)
LEMMA ServerNowType == ASSUME clock \in Nat PROVE ServerNow \subseteq Nat
  BY BoundAssumption DEF ServerNow

(* A row that exists has all its fields.                                     *)
LEMMA RowType ==
  ASSUME attempt \in [AttemptId -> Attempt \cup {NoAttempt}],
         NEW a \in AttemptId, attempt[a].status # "NONE"
  PROVE  attempt[a] \in Attempt
  BY DEF NoAttempt

(* What a call holds follows from its op.                                    *)
LEMMA CallType ==
  ASSUME NEW c \in Call
  PROVE  /\ c.op = "start" => c \in StartCall
         /\ c.op = "create" => c \in CreateCall
         /\ c.op = "edit" => c \in EditCall
         /\ c.op = "save" => c \in SaveCall
         /\ c.op = "finalize" => c \in FinalizeCall
         /\ c.op = "grade" => c \in GradeCall
         /\ c.op = "persist" => c \in PersistCall
  BY DEF Call, Idle, StartCall, CreateCall, EditCall, SaveCall, FinalizeCall,
         GradeCall, PersistCall

(* A verdict is a grade.                                                     *)
LEMMA VerdictType ==
  ASSUME NEW sheet, NEW v \in Version PROVE Verdict(sheet, v) \in Grade
  BY ContentAssumption DEF Verdict, Grade

(* What a start writes is an attempt.                                        *)
LEMMA CreateType ==
  ASSUME NEW c \in CreateCall
  PROVE  NewAttempt(c) \in Attempt /\ NewAttempt(c).status = "IN_PROGRESS"
  <1>1. ExpiresAt(c) \in Nat
    BY DEF ExpiresAt, CreateCall, Exam
  <1> QED BY <1>1 DEF CreateCall, NewAttempt, Attempt, Exam

(* Closing an expired attempt keeps it an attempt.                           *)
LEMMA AutoSubmittedType ==
  ASSUME NEW a \in AttemptId, attempt[a] \in Attempt, NEW t \in Nat
  PROVE  AutoSubmitted(a, t) \in Attempt
  BY DEF AutoSubmitted, Attempt, Gradable, Closed

(* A candidate has finitely many attempts.                                   *)
LEMMA OfFinite ==
  ASSUME NEW u, NEW k PROVE IsFiniteSet(Of(u, k))
  BY BoundAssumption, FS_Subset DEF Of

(* Closing an expired attempt moves its status and submittedAt only.         *)
LEMMA AutoSubmittedFields ==
  ASSUME NEW a \in AttemptId, attempt[a] \in Attempt, NEW t, NEW r,
         r = AutoSubmitted(a, t)
  PROVE  /\ r.status = "AUTO_SUBMITTED" /\ r.submittedAt = t
         /\ r.user = attempt[a].user /\ r.kind = attempt[a].kind
         /\ r.number = attempt[a].number /\ r.version = attempt[a].version
         /\ r.startedAt = attempt[a].startedAt /\ r.expiresAt = attempt[a].expiresAt
  BY DEF AutoSubmitted, Attempt

(* The initial state has the types.                                          *)
LEMMA TypeInit == Init => TypeOK
  <1> SUFFICES ASSUME Init PROVE TypeOK  OBVIOUS
  <1>1. exam \in Exam
    <2>1. PICK s \in Schedule : exam = [startsAt |-> s.startsAt, closesAt |-> s.closesAt,
                                    duration |-> s.duration, mode |-> s.mode,
                                    maxAttempts |-> s.maxAttempts, version |-> 1]
      BY DEF Init
    <2>2. s \in ScheduleType  BY ScheduleAssumption
    <2> QED BY <2>1, <2>2, ContentAssumption DEF Exam, ScheduleType
  <1>2. answer \in [AttemptId -> Sheet]
    BY DEF Init, Blank, NoAnswer, Sheet, Answer
  <1>3. result \in [AttemptId -> Grade]
    BY DEF Init, NoResult, Grade
  <1>4. call \in [Proc \cup Worker -> Call] /\ tick \in [Worker -> Tick]
    BY DEF Init, Call, Tick, Asleep
  <1> QED BY <1>1, <1>2, <1>3, <1>4 DEF Init, TypeOK

(* Every action keeps the types; what it does not change is in its UNCHANGED.*)
LEMMA TypeNext == TypeOK /\ [Next]_vars => TypeOK'
  <1> SUFFICES ASSUME TypeOK, [Next]_vars PROVE TypeOK'  OBVIOUS
  <1> USE DEF TypeOK
  <1>idle. Idle \in Call  BY DEF Call
  <1>1. ASSUME NEW p \in Proc, NEW u \in User, NEW k \in Kind, Authorize(p, u, k)
        PROVE TypeOK'
    <2>1. [op |-> "start", user |-> u, kind |-> k, mode |-> exam.mode] \in Call
      BY DEF Exam, Call, StartCall
    <2> QED BY <1>1, <2>1 DEF Authorize, rows
  <1>2. ASSUME NEW p \in Proc, StartEnds(p) PROVE TypeOK'
    BY <1>2, <1>idle DEF StartEnds, Finish, rows
  <1>3. ASSUME NEW p \in Proc, StartReads(p) PROVE TypeOK'
    <2>1. call[p] \in StartCall
      BY <1>3, CallType DEF StartReads
    <2>2. Cardinality(Of(call[p].user, call[p].kind)) \in Nat
      BY OfFinite, FS_CardinalityType
    <2>3. [op |-> "create", user |-> call[p].user, kind |-> call[p].kind, now |-> clock,
           used |-> Cardinality(Of(call[p].user, call[p].kind)), exam |-> exam] \in Call
      BY <2>1, <2>2 DEF Call, StartCall, CreateCall
    <2> QED BY <1>3, <2>3 DEF StartReads, rows
  <1>4. ASSUME NEW p \in Proc, StartCreates(p) PROVE TypeOK'
    <2>1. call[p] \in CreateCall
      BY <1>4, CallType DEF StartCreates
    <2> DEFINE c == call[p]
    <2>2. c.now \in Nat  BY <2>1 DEF CreateCall
    <2>3. NewAttempt(c) \in Attempt  BY <2>1, CreateType
    <2>4. \A a \in Stale(c.user, c.kind, c.now) : AutoSubmitted(a, c.now) \in Attempt
      BY <2>2, RowType, AutoSubmittedType DEF Stale, Of, Exists
    <2>5. attempt' \in [AttemptId -> Attempt \cup {NoAttempt}]
      BY <1>4, <2>3, <2>4 DEF StartCreates
    <2> QED BY <1>4, <1>idle, <2>5 DEF StartCreates, Finish, Release
  <1>5. ASSUME NEW p \in Proc, StartOverBudget(p) PROVE TypeOK'
    <2>1. call[p] \in CreateCall
      BY <1>5, CallType DEF StartOverBudget
    <2> DEFINE c == call[p]
    <2>2. c.now \in Nat  BY <2>1 DEF CreateCall
    <2>3. \A a \in Stale(c.user, c.kind, c.now) : AutoSubmitted(a, c.now) \in Attempt
      BY <2>2, RowType, AutoSubmittedType DEF Stale, Of, Exists
    <2>4. attempt' \in [AttemptId -> Attempt \cup {NoAttempt}]
      BY <1>5, <2>3 DEF StartOverBudget
    <2> QED BY <1>5, <1>idle, <2>4 DEF StartOverBudget, Finish, Release
  <1>6. ASSUME NEW p \in Proc, NEW a \in AttemptId, NEW q \in Question,
               NEW s \in Selection, NEW r \in Revision, ReceiveAnswer(p, a, q, s, r)
        PROVE TypeOK'
    <2>1. PICK t \in ServerNow : call' = [call EXCEPT ![p] =
             [op |-> "save", attempt |-> a, question |-> q, sel |-> s, rev |-> r, now |-> t]]
      BY <1>6 DEF ReceiveAnswer
    <2>2. [op |-> "save", attempt |-> a, question |-> q, sel |-> s, rev |-> r, now |-> t]
             \in Call
      BY ServerNowType DEF Call, SaveCall
    <2> QED BY <1>6, <2>1, <2>2 DEF ReceiveAnswer, rows
  <1>7. ASSUME NEW p \in Proc, SaveAnswer(p) PROVE TypeOK'
    <2>1. call[p] \in SaveCall
      BY <1>7, CallType DEF SaveAnswer
    <2> DEFINE c == call[p]
    <2>2. /\ c.attempt \in AttemptId /\ c.question \in Question
          /\ [rev |-> c.rev, sel |-> c.sel] \in Answer
      BY <2>1, BoundAssumption DEF SaveCall, Answer
    <2>3. answer' = [answer EXCEPT ![c.attempt][c.question] =
                       [rev |-> c.rev, sel |-> c.sel]]
          \/ answer' = answer
      BY <1>7 DEF SaveAnswer
    <2> HIDE DEF c
    <2>4. answer' \in [AttemptId -> Sheet]
      BY <2>2, <2>3 DEF Sheet
    <2> QED BY <1>7, <1>idle, <2>4 DEF SaveAnswer, Finish, rows
  <1>8. ASSUME NEW p \in Proc, NEW a \in AttemptId, Submit(p, a) PROVE TypeOK'
    <2>1. PICK t \in ServerNow :
             call' = [call EXCEPT ![p] = [op |-> "finalize", attempt |-> a, now |-> t]]
      BY <1>8 DEF Submit
    <2>2. [op |-> "finalize", attempt |-> a, now |-> t] \in Call
      BY ServerNowType DEF Call, FinalizeCall
    <2> QED BY <1>8, <2>1, <2>2 DEF Submit, rows
  <1>9. ASSUME NEW p \in Proc, Finalize(p) PROVE TypeOK'
    <2>1. call[p] \in FinalizeCall
      BY <1>9, CallType DEF Finalize
    <2> DEFINE a == call[p].attempt
    <2>2. a \in AttemptId /\ call[p].now \in Nat
      BY <2>1 DEF FinalizeCall
    <2>3. [op |-> "grade", attempt |-> a] \in Call
      BY <2>2 DEF Call, GradeCall
    <2>4. ASSUME Open(a)
          PROVE  [attempt[a] EXCEPT !.status = ClosingStatus(a, call[p].now),
                                    !.submittedAt = call[p].now] \in Attempt
      <3>1. attempt[a] \in Attempt  BY <2>2, <2>4, RowType DEF Open
      <3>2. ClosingStatus(a, call[p].now) \in Gradable
        BY DEF ClosingStatus, Gradable, Closed
      <3> QED BY <2>2, <3>1, <3>2 DEF Attempt
    <2>5. attempt' \in [AttemptId -> Attempt \cup {NoAttempt}]
      BY <1>9, <2>2, <2>4 DEF Finalize
    <2> QED BY <1>9, <2>3, <2>5 DEF Finalize
  <1>10. ASSUME NEW p \in Proc \cup Worker, GradeReads(p) PROVE TypeOK'
    <2>1. call[p] \in GradeCall
      BY <1>10, CallType DEF GradeReads
    <2> DEFINE a == call[p].attempt
    <2>2. a \in AttemptId /\ attempt[a].version \in Version
      BY <1>10, <2>1, RowType DEF GradeReads, CanGrade, GradeCall, Gradable, Closed, Attempt
    <2>3. [op |-> "persist", attempt |-> a,
           grade |-> Verdict(answer[a], attempt[a].version)] \in Call
      BY <2>2, VerdictType DEF Call, PersistCall
    <2> QED BY <1>10, <2>3 DEF GradeReads, rows
  <1>11. ASSUME NEW p \in Proc \cup Worker, PersistGrade(p) PROVE TypeOK'
    <2>1. call[p] \in PersistCall
      BY <1>11, CallType DEF PersistGrade
    <2> DEFINE a == call[p].attempt
    <2>2. a \in AttemptId /\ call[p].grade \in Grade /\ attempt[a] \in Attempt
      BY <1>11, <2>1, RowType DEF PersistGrade, PersistCall, Gradable, Closed
    <2>3. [attempt[a] EXCEPT !.status = "GRADED"] \in Attempt
      BY <2>2 DEF Attempt, Gradable
    <2> QED BY <1>11, <1>idle, <2>2, <2>3 DEF PersistGrade, Finish
  <1>12. ASSUME NEW w \in Worker, TickStarts(w) PROVE TypeOK'
    <2>1. PICK t \in ServerNow :
             \E B \in Batches([a \in Expired(t) |-> attempt[a].expiresAt]) :
               tick' = [tick EXCEPT ![w] = [phase |-> "claim", todo |-> B, now |-> t]]
      BY <1>12 DEF TickStarts
    <2>2. \A B \in Batches([a \in Expired(t) |-> attempt[a].expiresAt]) : [phase |-> "claim", todo |-> B, now |-> t] \in Tick
      BY ServerNowType DEF Batches, Expired, Tick
    <2> QED BY <1>12, <2>1, <2>2 DEF TickStarts, rows
  <1>13. ASSUME NEW w \in Worker, ClaimExpired(w) PROVE TypeOK'
    <2>1. PICK a \in tick[w].todo :
             /\ attempt' = IF Open(a)
                           THEN [attempt EXCEPT ![a] = AutoSubmitted(a, tick[w].now)]
                           ELSE attempt
             /\ tick' = [tick EXCEPT ![w].todo = @ \ {a}]
      BY <1>13 DEF ClaimExpired
    <2>2. a \in AttemptId /\ tick[w].now \in Nat  BY DEF Tick
    <2>3. Open(a) => AutoSubmitted(a, tick[w].now) \in Attempt
      BY <2>2, RowType, AutoSubmittedType DEF Open
    <2>4. tick' \in [Worker -> Tick]  BY <2>1 DEF Tick
    <2> QED BY <1>13, <2>1, <2>2, <2>3, <2>4 DEF ClaimExpired
  <1>14. ASSUME NEW w \in Worker, FindPendingGrading(w) PROVE TypeOK'
    <2>1. PICK B \in Batches([a \in Pending |-> attempt[a].submittedAt]) :
             tick' = [tick EXCEPT ![w] = [phase |-> "grade", todo |-> B, now |-> 0]]
      BY <1>14 DEF FindPendingGrading
    <2>2. [phase |-> "grade", todo |-> B, now |-> 0] \in Tick
      BY DEF Batches, Pending, Tick
    <2> QED BY <1>14, <2>1, <2>2 DEF FindPendingGrading, rows
  <1>15. ASSUME NEW w \in Worker, GradeNext(w) PROVE TypeOK'
    <2>1. PICK a \in tick[w].todo :
             /\ call' = [call EXCEPT ![w] = [op |-> "grade", attempt |-> a]]
             /\ tick' = [tick EXCEPT ![w].todo = @ \ {a}]
      BY <1>15 DEF GradeNext
    <2>2. [op |-> "grade", attempt |-> a] \in Call
      BY DEF Tick, Call, GradeCall
    <2>3. tick' \in [Worker -> Tick]  BY <2>1 DEF Tick
    <2> QED BY <1>15, <2>1, <2>2, <2>3 DEF GradeNext, rows
  <1>16. ASSUME NEW w \in Worker, TickEnds(w) PROVE TypeOK'
    BY <1>16 DEF TickEnds, Asleep, Tick, rows
  <1>17. ASSUME NEW p \in Proc, NEW s \in Schedule, UpdateMetadata(p, s) PROVE TypeOK'
    <2> DEFINE new == [startsAt |-> s.startsAt, closesAt |-> s.closesAt,
                       duration |-> s.duration, maxAttempts |-> s.maxAttempts,
                       mode |-> s.mode, version |-> exam.version]
    <2>1. new \in Exam
      BY ScheduleAssumption DEF ScheduleType, Exam
    <2>2. [op |-> "edit", exam |-> new] \in Call
      BY <2>1 DEF Call, EditCall
    <2> QED BY <1>17, <2>2 DEF UpdateMetadata, EditReads, rows
  <1>18. ASSUME NEW p \in Proc, UpdateContent(p) PROVE TypeOK'
    <2>1. [exam EXCEPT !.version = @ + 1] \in Exam
      BY <1>18 DEF UpdateContent, Exam
    <2>2. [op |-> "edit", exam |-> [exam EXCEPT !.version = @ + 1]] \in Call
      BY <2>1 DEF Call, EditCall
    <2> QED BY <1>18, <2>2 DEF UpdateContent, EditReads, rows
  <1>19. ASSUME NEW p \in Proc, EditCommits(p) PROVE TypeOK'
    <2>1. call[p].exam \in Exam
      BY <1>19, CallType DEF EditCommits, EditCall
    <2> QED BY <1>19, <1>idle, <2>1 DEF EditCommits, Finish, Release, rows
  <1>20. ASSUME NEW u \in User, ChangeEntitlement(u) PROVE TypeOK'
    BY <1>20 DEF ChangeEntitlement, rows
  <1>21. ASSUME ClockTicks PROVE TypeOK'
    BY <1>21 DEF ClockTicks, rows
  <1>22. ASSUME NEW p \in Proc \cup Worker, CallFails(p) PROVE TypeOK'
    BY <1>22, <1>idle DEF CallFails, Finish, Release, rows
  <1>23. ASSUME NEW w \in Worker, TickAborts(w) PROVE TypeOK'
    BY <1>23, <1>idle DEF TickAborts, Asleep, Tick, Finish, rows
  <1>25. ASSUME NEW p \in Proc \cup Worker, GradeSkips(p) PROVE TypeOK'
    BY <1>25, <1>idle DEF GradeSkips, Finish, rows
  <1>24. ASSUME UNCHANGED vars PROVE TypeOK'
    BY <1>24 DEF vars, rows
  <1> QED
    BY <1>1, <1>2, <1>3, <1>4, <1>5, <1>6, <1>7, <1>8, <1>9, <1>10, <1>11, <1>12,
       <1>13, <1>14, <1>15, <1>16, <1>17, <1>18, <1>19, <1>20, <1>21, <1>22, <1>23,
       <1>24, <1>25 DEF Next, Handler, Grader, WorkerStep

(* Rows, handlers and ticks always have the types TypeOK gives them.         *)
THEOREM TypeCorrect == Spec => []TypeOK
  BY TypeInit, TypeNext, PTL DEF Spec
-----------------------------------------------------------------------------
(* How a step treats the rows. Held: the exam and everything about an        *)
(* attempt but its closing stay, nothing opens or appears. Grown: the same   *)
(* of the attempts there already are; a new one may appear.                  *)
SameAttempt(a) ==
  /\ attempt'[a].status # "NONE"
  /\ attempt'[a].user = attempt[a].user /\ attempt'[a].kind = attempt[a].kind
  /\ attempt'[a].number = attempt[a].number
  /\ attempt'[a].version = attempt[a].version
  /\ attempt'[a].startedAt = attempt[a].startedAt
  /\ attempt'[a].expiresAt = attempt[a].expiresAt
  /\ attempt'[a].status = "IN_PROGRESS" => attempt[a].status = "IN_PROGRESS"
  /\ attempt[a].status \in Gradable =>
       attempt'[a].status \in Gradable /\ answer'[a] = answer[a]

Grown ==
  /\ exam' = exam /\ clock' \in Nat /\ clock <= clock'
  /\ \A a \in AttemptId : Exists(a) => SameAttempt(a)

Held == Grown /\ \A a \in AttemptId : ~Exists(a) => attempt'[a].status = "NONE"

LEMMA UnchangedHolds ==
  ASSUME TypeOK, exam' = exam, clock' = clock, attempt' = attempt,
         \A a \in AttemptId : attempt[a].status \in Gradable => answer'[a] = answer[a]
  PROVE  Held
  BY DEF TypeOK, Held, Grown, SameAttempt, Exists

(* The rows of one candidate are the same rows after a step that holds them. *)
LEMMA HeldOf == ASSUME Held, NEW u, NEW k PROVE Of(u, k)' = Of(u, k)
  BY DEF Held, Grown, SameAttempt, Of, Exists

(* What is said of the rows survives a step that holds them.                 *)
LEMMA HeldRows == RowsOK /\ Held => RowsOK'
  <1> SUFFICES ASSUME RowsOK, Held PROVE RowsOK'  OBVIOUS
  <1>1. OneOpenAttempt'
    BY HeldOf DEF RowsOK, OneOpenAttempt, Held, Grown, SameAttempt, Open, Of
  <1>2. AttemptBudget'
    <2>1. \A u, k : {attempt'[a].number : a \in Of(u, k)} = {attempt[a].number : a \in Of(u, k)}
      BY DEF Held, Grown, SameAttempt, Of
    <2> QED BY <2>1, HeldOf DEF RowsOK, AttemptBudget, Held, Grown
  <1>3. ScheduleHolds'
    BY DEF RowsOK, ScheduleHolds, Held, Grown, SameAttempt, Exists
  <1>4. OnlyInvited'
    BY DEF RowsOK, OnlyInvited, Held, Grown, SameAttempt, Exists
  <1> QED BY <1>1, <1>2, <1>3, <1>4 DEF RowsOK

(* A call that a step leaves alone stays right: a pending create because the *)
(* rows are held, any other call because they only grow.                     *)
LEMMA CallStays ==
  ASSUME TypeOK, NEW p \in Proc \cup Worker, CallOK(p), call'[p] = call[p],
         \/ Held /\ (lock = p => lock' = p)
         \/ Grown /\ call[p].op \notin {"create", "edit"}
  PROVE  CallOK(p)'
  <1>0. Grown  BY DEF Held
  <1>c. call[p] \in Call  BY DEF TypeOK
  <1>1. ASSUME call[p].op = "create" PROVE CreatesOnFacts(p)'
    <2>1. Held /\ lock' = p /\ CreatesOnFacts(p)
      BY <1>1 DEF CallOK, CreatesOnFacts
    <2>2. Of(call[p].user, call[p].kind)' = Of(call[p].user, call[p].kind)
      BY <2>1, HeldOf
    <2> QED BY <2>1, <2>2 DEF CreatesOnFacts, Held, Grown, SameAttempt, Live, Open, Of
  <1>2. ASSUME call[p].op = "edit"
        PROVE  lock' = p /\ \A a \in AttemptId : attempt'[a].status = "NONE"
    BY <1>2 DEF CallOK, Held, Exists
  <1>3. ASSUME call[p].op \in {"save", "finalize", "grade", "persist"}
        PROVE  call[p].attempt \in AttemptId
    BY <1>3, <1>c, CallType DEF SaveCall, FinalizeCall, GradeCall, PersistCall
  <1>4. ASSUME call[p].op \in {"save", "finalize"}
        PROVE  /\ attempt'[call[p].attempt].status # "NONE"
               /\ call[p].op = "save" =>
                    call[p].question \in DOMAIN Key[attempt'[call[p].attempt].version]
    BY <1>0, <1>3, <1>4 DEF CallOK, Grown, SameAttempt, Exists
  <1>5. ASSUME call[p].op \in {"grade", "persist"} PROVE GradesOnFacts(call[p])'
    <2>1. GradesOnFacts(call[p]) /\ call[p].attempt \in AttemptId
      BY <1>3, <1>5 DEF CallOK
    <2>2. Exists(call[p].attempt)
      BY <2>1 DEF GradesOnFacts, Gradable, Closed, Exists
    <2> QED BY <1>0, <2>1, <2>2 DEF GradesOnFacts, Grown, SameAttempt
  <1> QED BY <1>1, <1>2, <1>4, <1>5 DEF CallOK, Exists

(* So does what a tick has read.                                             *)
LEMMA TickStays ==
  ASSUME TypeOK, Grown, NEW w \in Worker, TickOK(w), tick'[w] = tick[w],
         call'[w].op \in {"idle", "grade", "persist"}
  PROVE  TickOK(w)'
  <1>1. \A a \in tick[w].todo : a \in AttemptId  BY DEF TypeOK, Tick
  <1>2. \A a \in tick[w].todo : attempt[a].status \in Gradable => Exists(a)
    BY DEF Gradable, Closed, Exists
  <1> QED BY <1>1, <1>2 DEF TickOK, Grown, SameAttempt, Exists

(* A step of one handler, or of one grader, that holds the rows.             *)
LEMMA HandlerStep ==
  ASSUME Inv, TypeOK', Held, ClosedAsDated', GradedRight', tick' = tick,
         NEW p \in Proc \cup Worker, CallOK(p)',
         p \in Worker => call'[p].op \in {"idle", "grade", "persist"},
         \A q \in (Proc \cup Worker) \ {p} :
           call'[q] = call[q] /\ (lock = q => lock' = q)
  PROVE  Inv'
  <1>1. RowsOK'  BY HeldRows DEF Inv
  <1>2. \A q \in Proc \cup Worker : CallOK(q)'
    BY CallStays DEF Inv
  <1>3. ASSUME NEW w \in Worker PROVE TickOK(w)'
    <2>1. TickOK(w) /\ TypeOK /\ Grown  BY DEF Inv, Held
    <2>2. call'[w].op \in {"idle", "grade", "persist"}
      BY <2>1 DEF TickOK
    <2> QED BY <2>1, <2>2, TickStays
  <1> QED BY <1>1, <1>2, <1>3 DEF Inv

(* A step of one worker's tick that holds the rows.                          *)
LEMMA TickStep ==
  ASSUME Inv, TypeOK', Held, ClosedAsDated', GradedRight', lock' = lock,
         NEW w \in Worker, CallOK(w)', TickOK(w)',
         \A q \in (Proc \cup Worker) \ {w} : call'[q] = call[q],
         \A v \in Worker \ {w} : tick'[v] = tick[v]
  PROVE  Inv'
  <1>1. RowsOK'  BY HeldRows DEF Inv
  <1>2. \A q \in Proc \cup Worker : CallOK(q)'
    BY CallStays DEF Inv
  <1>3. ASSUME NEW v \in Worker PROVE TickOK(v)'
    <2>1. TickOK(v) /\ TypeOK /\ Grown  BY DEF Inv, Held
    <2>2. CASE v = w  BY <2>2
    <2>3. CASE v # w
      <3>1. call'[v] = call[v] /\ tick'[v] = tick[v]  BY <2>3
      <3> QED BY <2>1, <3>1, TickStays DEF TickOK
    <2> QED BY <2>2, <2>3
  <1> QED BY <1>1, <1>2, <1>3 DEF Inv

(* An open row that a step closes: the closing status and date go together.  *)
Closing(a) ==
  /\ Open(a) /\ attempt'[a].status \in Closed
  /\ attempt'[a].user = attempt[a].user /\ attempt'[a].kind = attempt[a].kind
  /\ attempt'[a].number = attempt[a].number
  /\ attempt'[a].version = attempt[a].version
  /\ attempt'[a].startedAt = attempt[a].startedAt
  /\ attempt'[a].expiresAt = attempt[a].expiresAt
  /\ IF attempt'[a].status = "SUBMITTED"
     THEN attempt'[a].submittedAt < attempt[a].expiresAt
     ELSE attempt'[a].submittedAt >= attempt[a].expiresAt

(* Closing expired attempts only closes attempts, at a true date.            *)
LEMMA AutoSubmitCloses ==
  ASSUME TypeOK, NEW a \in AttemptId, Open(a), NEW t \in Nat,
         attempt[a].expiresAt <= t, attempt'[a] = AutoSubmitted(a, t)
  PROVE  Closing(a)
  <1>1. attempt[a] \in Attempt  BY RowType DEF Open, TypeOK
  <1>2. attempt[a].expiresAt \in Nat  BY <1>1 DEF Attempt
  <1>3. /\ attempt'[a].status = "AUTO_SUBMITTED" /\ attempt'[a].submittedAt = t
        /\ attempt'[a].user = attempt[a].user /\ attempt'[a].kind = attempt[a].kind
        /\ attempt'[a].number = attempt[a].number
        /\ attempt'[a].version = attempt[a].version
        /\ attempt'[a].startedAt = attempt[a].startedAt
        /\ attempt'[a].expiresAt = attempt[a].expiresAt
    BY <1>1, AutoSubmittedFields
  <1> QED BY <1>2, <1>3 DEF Closing, Closed

(* A step that does no more to the rows than close some.                     *)
LEMMA ClosingHolds ==
  ASSUME TypeOK, ClosedAsDated, GradedRight, exam' = exam, clock' = clock,
         answer' = answer, result' = result,
         \A a \in AttemptId : attempt'[a] = attempt[a] \/ Closing(a)
  PROVE  Held /\ ClosedAsDated' /\ GradedRight'
  <1>1. Held
    BY DEF TypeOK, Held, Grown, SameAttempt, Closing, Open, Exists, Gradable, Closed
  <1>2. ClosedAsDated'
    BY DEF ClosedAsDated, Closing, Closed
  <1>3. GradedRight'
    BY DEF GradedRight, Closing, Closed
  <1> QED BY <1>1, <1>2, <1>3

(* The steps that leave every row alone. *)
LEMMA RowsUntouched ==
  ASSUME Inv, exam' = exam, attempt' = attempt, answer' = answer, result' = result,
         clock' = clock
  PROVE  Held /\ ClosedAsDated' /\ GradedRight'
  BY UnchangedHolds DEF Inv, ClosedAsDated, GradedRight

(* The initial state satisfies the inductive invariant.                      *)
LEMMA InvInit == Init => Inv
  <1> SUFFICES ASSUME Init PROVE Inv  OBVIOUS
  <1>1. TypeOK  BY TypeInit
  <1>2. \A a \in AttemptId : attempt[a] = NoAttempt  BY DEF Init
  <1>3. \A a \in AttemptId : ~Exists(a) /\ ~Open(a) /\ attempt[a].status \notin Gradable
    BY <1>2 DEF Exists, Open, NoAttempt, Gradable, Closed
  <1>4. \A u, k : Of(u, k) = {}
    BY <1>3 DEF Of
  <1>5. AttemptBudget
    <2>1. \A u, k : Cardinality(Of(u, k)) = 0 /\ {attempt[a].number : a \in Of(u, k)} = {}
      BY <1>4, FS_EmptySet
    <2>2. exam.maxAttempts \in Nat /\ 1 .. 0 = {}  BY <1>1 DEF TypeOK, Exam
    <2>3. ASSUME NEW u, NEW k
          PROVE  /\ Cardinality(Of(u, k)) <= exam.maxAttempts
                 /\ {attempt[a].number : a \in Of(u, k)} = 1 .. Cardinality(Of(u, k))
      <3>1. Cardinality(Of(u, k)) = 0 /\ {attempt[a].number : a \in Of(u, k)} = {}
        BY <2>1
      <3>2. 1 .. Cardinality(Of(u, k)) = {}  BY <2>2, <3>1, Zenon
      <3>3. Cardinality(Of(u, k)) <= exam.maxAttempts  BY <2>2, <3>1
      <3> QED BY <3>1, <3>2, <3>3, Zenon
    <2> QED BY <2>3 DEF AttemptBudget
  <1>6. RowsOK
    BY <1>3, <1>4, <1>5 DEF RowsOK, OneOpenAttempt, ScheduleHolds, OnlyInvited
  <1>7. ClosedAsDated /\ GradedRight
    BY <1>3 DEF ClosedAsDated, GradedRight, Gradable, Closed
  <1>8. \A p \in Proc \cup Worker : call[p] = Idle /\ CallOK(p)
    BY DEF Init, CallOK, Idle
  <1>9. \A w \in Worker : TickOK(w)
    BY <1>8 DEF Init, TickOK, Asleep, Idle
  <1> QED BY <1>1, <1>6, <1>7, <1>8, <1>9 DEF Inv

(* A start that creates: the candidate's other attempts are closed or were,  *)
(* so the new one is the only one open, and its number is the next.          *)
LEMMA CreatesInv ==
  ASSUME Inv, TypeOK', NEW p \in Proc, StartCreates(p)
  PROVE  Inv'
  <1> DEFINE c == call[p]
  <1>t. TypeOK  BY DEF Inv
  <1>f. "free" \notin Proc \cup Worker /\ Proc \cap Worker = {}  BY ActorAssumption
  <1>c. /\ c \in CreateCall /\ CreatesOnFacts(p) /\ ~OverBudget(c)
        /\ c.user \in User /\ c.kind \in Kind /\ c.now \in Nat /\ c.used \in Nat
    BY <1>t, CallType DEF StartCreates, Inv, CallOK, TypeOK, CreateCall
  <1>v. PICK u0 \in User, k0 \in Kind : u0 = c.user /\ k0 = c.kind
    BY <1>c
  <1>u. /\ UNCHANGED <<exam, entitled, clock, answer, result, tick>>
        /\ call' = [call EXCEPT ![p] = Idle] /\ lock' = IF lock = p THEN "free" ELSE lock
    BY DEF StartCreates, Finish, Release
  <1>1. PICK n \in AttemptId :
          /\ ~Exists(n)
          /\ attempt' = [a \in AttemptId |->
                           IF a = n THEN NewAttempt(c)
                           ELSE IF a \in Stale(c.user, c.kind, c.now)
                                THEN AutoSubmitted(a, c.now) ELSE attempt[a]]
    BY DEF StartCreates
  <1> DEFINE new == NewAttempt(c)
  <1>2. /\ attempt'[n] = new /\ new.status = "IN_PROGRESS"
        /\ new.user = c.user /\ new.kind = c.kind /\ new.number = c.used + 1
        /\ new.version = exam.version /\ new.startedAt = c.now
        /\ new.expiresAt = ExpiresAt(c)
    BY <1>1, <1>c DEF NewAttempt, CreatesOnFacts
  <1>3. \A a \in AttemptId \ {n} :
          \/ attempt'[a] = attempt[a] /\ a \notin Stale(c.user, c.kind, c.now)
          \/ Closing(a)
    <2>1. ASSUME NEW a \in AttemptId \ {n}, a \in Stale(c.user, c.kind, c.now)
          PROVE  Closing(a)
      BY <1>t, <1>c, <1>1, <2>1, AutoSubmitCloses DEF Stale
    <2> QED BY <1>1, <2>1
  <1> HIDE DEF c, new
  <1>4. Grown
    BY <1>t, <1>u, <1>1, <1>3
       DEF Grown, SameAttempt, Closing, Open, Exists, Gradable, Closed, TypeOK
  <1>5. /\ Of(u0, k0)' = Of(u0, k0) \cup {n}
        /\ n \notin Of(u0, k0)
        /\ \A u, k : u # u0 \/ k # k0 => Of(u, k)' = Of(u, k)
    <2>1. \A a \in AttemptId \ {n} :
            /\ (attempt'[a].status # "NONE") <=> Exists(a)
            /\ Exists(a) => attempt'[a].user = attempt[a].user
                            /\ attempt'[a].kind = attempt[a].kind
      BY <1>3, <1>4 DEF Grown, SameAttempt, Closing, Exists, Open
    <2>2. /\ n \in AttemptId /\ ~Exists(n) /\ attempt'[n].status # "NONE"
          /\ attempt'[n].user = u0 /\ attempt'[n].kind = k0
      BY <1>v, <1>1, <1>2
    <2>3. \A u, k : n \notin Of(u, k)
      BY <2>2 DEF Of
    <2>4. ASSUME NEW u, NEW k
          PROVE  Of(u, k)' = IF u = u0 /\ k = k0
                             THEN Of(u, k) \cup {n} ELSE Of(u, k)
      <3>1. ASSUME NEW a \in AttemptId \ {n}
            PROVE  a \in Of(u, k)' <=> a \in Of(u, k)
        BY <2>1, <3>1 DEF Of, Exists
      <3>2. n \in Of(u, k)' <=> u = u0 /\ k = k0
        <4>1. n \in Of(u, k)' <=> attempt'[n].user = u /\ attempt'[n].kind = k
          BY <2>2 DEF Of, Exists
        <4> QED BY <2>2, <4>1
      <3>3. Of(u, k) \subseteq AttemptId /\ Of(u, k)' \subseteq AttemptId
        BY DEF Of
      <3> QED BY <2>2, <2>3, <3>1, <3>2, <3>3
    <2>7. Of(u0, k0)' = Of(u0, k0) \cup {n}
      BY <2>4
    <2>8. ASSUME NEW u, NEW k, u # u0 \/ k # k0
          PROVE  Of(u, k)' = Of(u, k)
      BY <2>4, <2>8
    <2> QED BY <2>3, <2>7, <2>8
  <1>6. \A a \in Of(u0, k0) : attempt'[a].status # "IN_PROGRESS"
    <2>1. ASSUME NEW a \in Of(u0, k0), Open(a)
          PROVE  a \in Stale(u0, k0, c.now)
      <3>1. ~Live(a, c.now)  BY <1>c, <1>v DEF CreatesOnFacts, c
      <3>2. attempt[a].expiresAt \in Nat
        BY <1>t, <2>1, RowType DEF Of, Exists, TypeOK, Attempt
      <3> QED BY <1>c, <2>1, <3>1, <3>2 DEF Live, Stale
    <2>2. \A a \in Of(u0, k0) : a \in AttemptId \ {n}
      BY <1>5 DEF Of
    <2> QED BY <1>v, <1>3, <2>1, <2>2 DEF Closing, Closed, Open
  <1>7. OneOpenAttempt'
    <2> SUFFICES ASSUME NEW u \in User, NEW k \in Kind,
                        NEW a \in Of(u, k)', NEW b \in Of(u, k)',
                        attempt'[a].status = "IN_PROGRESS", attempt'[b].status = "IN_PROGRESS"
                 PROVE  a = b
      BY DEF OneOpenAttempt, Open
    <2>1. CASE u = u0 /\ k = k0
      <3>1. a \in Of(u0, k0) \cup {n} /\ b \in Of(u0, k0) \cup {n}
        BY <1>5, <2>1 DEF Of
      <3> QED BY <1>6, <3>1
    <2>2. CASE u # u0 \/ k # k0
      <3>1. a \in Of(u, k) /\ b \in Of(u, k)  BY <1>5, <2>2
      <3>2. Open(a) /\ Open(b)
        BY <1>4, <3>1 DEF Grown, SameAttempt, Of, Open
      <3> QED BY <3>1, <3>2 DEF Inv, RowsOK, OneOpenAttempt
    <2> QED BY <2>1, <2>2
  <1>8. AttemptBudget'
    <2>1. ASSUME NEW u, NEW k
          PROVE  {attempt'[a].number : a \in Of(u, k)} = {attempt[a].number : a \in Of(u, k)}
      BY <1>4 DEF Grown, SameAttempt, Of
    <2>2. ASSUME NEW u \in User, NEW k \in Kind, u # u0 \/ k # k0
          PROVE  /\ k = "live" => Cardinality(Of(u, k)') <= exam'.maxAttempts
                 /\ {attempt'[a].number : a \in Of(u, k)'} = 1 .. Cardinality(Of(u, k)')
      <3>1. Of(u, k)' = Of(u, k)  BY <1>5, <2>2
      <3>2. {attempt'[a].number : a \in Of(u, k)'} = {attempt[a].number : a \in Of(u, k)}
        BY <2>1, <3>1, Zenon
      <3> QED BY <1>u, <3>1, <3>2 DEF Inv, RowsOK, AttemptBudget
    <2>3. /\ k0 = "live" => Cardinality(Of(u0, k0)') <= exam'.maxAttempts
          /\ {attempt'[a].number : a \in Of(u0, k0)'}
                = 1 .. Cardinality(Of(u0, k0)')
      <3> DEFINE S == Of(u0, k0)
      <3>1. Cardinality(S) = c.used /\ IsFiniteSet(S)
        BY <1>c, <1>v, OfFinite DEF CreatesOnFacts, c
      <3>2. Cardinality(S \cup {n}) = c.used + 1
        BY <1>5, <3>1, FS_AddElement
      <3>3. {attempt'[a].number : a \in S} = 1 .. c.used
        BY <1>c, <2>1, <3>1 DEF Inv, RowsOK, AttemptBudget
      <3>4. {attempt'[a].number : a \in S \cup {n}}
              = {attempt'[a].number : a \in S} \cup {c.used + 1}
        BY <1>2
      <3>5. (1 .. c.used) \cup {c.used + 1} = 1 .. (c.used + 1)
        BY <1>c
      <3>6. k0 = "live" => c.used + 1 <= exam.maxAttempts
        <4>1. exam.maxAttempts \in Nat  BY <1>t DEF TypeOK, Exam
        <4> QED BY <1>c, <1>v, <4>1 DEF OverBudget, CreatesOnFacts, c
      <3> HIDE DEF S
      <3>7. Of(u0, k0)' = S \cup {n}  BY <1>5 DEF S
      <3>8. {attempt'[a].number : a \in S \cup {n}} = 1 .. (c.used + 1)
        BY <3>3, <3>4, <3>5
      <3> QED BY <1>u, <3>2, <3>6, <3>7, <3>8
    <2>4. ASSUME NEW u \in User, NEW k \in Kind
          PROVE  /\ k = "live" => Cardinality(Of(u, k)') <= exam'.maxAttempts
                 /\ {attempt'[a].number : a \in Of(u, k)'} = 1 .. Cardinality(Of(u, k)')
      <3>1. CASE u = u0 /\ k = k0
        <4>1. Of(u, k)' = Of(u0, k0)'  BY <3>1 DEF Of
        <4> QED BY <2>3, <3>1, <4>1
      <3>2. CASE u # u0 \/ k # k0  BY <2>2, <3>2
      <3> QED BY <3>1, <3>2
    <2>5. "live" \in Kind  BY DEF Kind
    <2>6. ASSUME NEW u \in User
          PROVE  /\ Cardinality(Of(u, "live")') <= exam'.maxAttempts
                 /\ \A k \in Kind : {attempt'[a].number : a \in Of(u, k)'}
                                     = 1 .. Cardinality(Of(u, k)')
      BY <2>4, <2>5
    <2> QED BY <2>6 DEF AttemptBudget
  <1>9. ScheduleHolds'
    <2>1. /\ c.kind = "live" => /\ exam.startsAt <= c.now /\ c.now < ExpiresAt(c)
                               /\ ExpiresAt(c) <= exam.closesAt
          /\ c.kind = "practice" => exam.closesAt <= c.now
      <3>1. /\ exam.closesAt \in Nat /\ exam.duration \in Nat \ {0} /\ c.exam = exam
            /\ c.kind = "live" => exam.startsAt <= c.now /\ c.now < exam.closesAt
            /\ c.kind = "practice" => exam.closesAt <= c.now
        BY <1>c, <1>t DEF CreatesOnFacts, c, TypeOK, Exam
      <3> QED BY <1>c, <3>1 DEF ExpiresAt
    <2>2. ASSUME NEW a \in AttemptId \ {n}, attempt'[a].status # "NONE"
          PROVE  Exists(a) /\ SameAttempt(a)
      BY <1>3, <1>4, <2>2 DEF Closing, Open, Exists, Grown
    <2> QED BY <1>u, <1>2, <2>1, <2>2
            DEF Inv, RowsOK, ScheduleHolds, SameAttempt, Exists
  <1>10. OnlyInvited'
    <2>1. c.kind = "live" /\ exam.mode = "INVITE_ONLY" => c.user \in Invited
      BY <1>c DEF CreatesOnFacts, c
    <2>2. ASSUME NEW a \in AttemptId \ {n}, attempt'[a].status # "NONE"
          PROVE  Exists(a) /\ SameAttempt(a)
      BY <1>3, <1>4, <2>2 DEF Closing, Open, Exists, Grown
    <2> QED BY <1>u, <1>2, <2>1, <2>2
            DEF Inv, RowsOK, OnlyInvited, SameAttempt, Exists
  <1>11. ClosedAsDated'
    BY <1>2, <1>3 DEF Inv, ClosedAsDated, Closing, Closed
  <1>12. GradedRight'
    BY <1>u, <1>2, <1>3 DEF Inv, GradedRight, Closing, Closed
  <1>13. \A q \in Proc \cup Worker : CallOK(q)'
    <2>1. CallOK(p)'
      <3>1. call'[p] = Idle  BY <1>u, <1>t DEF TypeOK
      <3> QED BY <3>1 DEF CallOK, Idle
    <2>2. ASSUME NEW q \in (Proc \cup Worker) \ {p} PROVE CallOK(q)'
      <3>1. CallOK(q) /\ call'[q] = call[q]  BY <1>u DEF Inv
      <3>2. lock = p  BY <1>c DEF CreatesOnFacts
      <3>3. call[q].op \notin {"create", "edit"}
        BY <3>1, <3>2 DEF CallOK, CreatesOnFacts
      <3> QED BY <1>t, <1>4, <3>1, <3>3, CallStays
    <2> QED BY <2>1, <2>2
  <1>14. \A w \in Worker : TickOK(w)'
    <2> SUFFICES ASSUME NEW w \in Worker PROVE TickOK(w)'  OBVIOUS
    <2>1. call'[w] = call[w] /\ TickOK(w)  BY <1>u, <1>f DEF Inv
    <2> QED BY <1>t, <1>u, <1>4, <2>1, TickStays DEF TickOK
  <1> QED BY <1>7, <1>8, <1>9, <1>10, <1>11, <1>12, <1>13, <1>14 DEF Inv, RowsOK

(* An edit commits only while there are no attempts at all.                  *)
LEMMA EditInv ==
  ASSUME Inv, TypeOK', NEW p \in Proc, EditCommits(p)
  PROVE  Inv'
  <1>t. TypeOK  BY DEF Inv
  <1>u. /\ UNCHANGED <<attempt, answer, result, clock, tick>>
        /\ call' = [call EXCEPT ![p] = Idle]
    BY DEF EditCommits, Finish, rows
  <1>1. lock = p /\ \A a \in AttemptId : ~Exists(a)
    BY DEF Inv, CallOK, EditCommits
  <1>2. \A a \in AttemptId : attempt'[a].status = "NONE"
    BY <1>u, <1>1 DEF Exists
  <1>3. \A u, k : Of(u, k)' = {}
    BY <1>2 DEF Of, Exists
  <1>4. AttemptBudget'
    <2>1. exam'.maxAttempts \in Nat /\ 1 .. 0 = {}  BY DEF TypeOK, Exam
    <2>2. ASSUME NEW u, NEW k
          PROVE  /\ Cardinality(Of(u, k)') <= exam'.maxAttempts
                 /\ {attempt'[a].number : a \in Of(u, k)'} = 1 .. Cardinality(Of(u, k)')
      <3>1. Cardinality(Of(u, k)') = 0  BY <1>3, FS_EmptySet
      <3>2. {attempt'[a].number : a \in Of(u, k)'} = {}  BY <1>3
      <3>3. 1 .. Cardinality(Of(u, k)') = {}  BY <2>1, <3>1, Zenon
      <3>4. Cardinality(Of(u, k)') <= exam'.maxAttempts  BY <2>1, <3>1
      <3> QED BY <3>2, <3>3, <3>4, Zenon
    <2> QED BY <2>2 DEF AttemptBudget
  <1>5. OneOpenAttempt' /\ ScheduleHolds' /\ OnlyInvited'
    BY <1>2, <1>3 DEF OneOpenAttempt, ScheduleHolds, OnlyInvited, Exists
  <1>6. ClosedAsDated' /\ GradedRight'
    BY <1>u DEF Inv, ClosedAsDated, GradedRight
  <1>7. ASSUME NEW q \in Proc \cup Worker PROVE CallOK(q)'
    <2>1. CASE q = p
      <3>1. call'[p] = Idle  BY <1>u, <1>t DEF TypeOK
      <3> QED BY <2>1, <3>1 DEF CallOK, Idle
    <2>2. CASE q # p
      <3>1. CallOK(q) /\ call'[q] = call[q]  BY <1>u, <2>2 DEF Inv
      <3>2. call[q].op \notin {"create", "edit"}
        BY <1>1, <2>2, <3>1 DEF CallOK, CreatesOnFacts
      <3> QED BY <1>u, <3>1, <3>2 DEF CallOK, GradesOnFacts, Exists
    <2> QED BY <2>1, <2>2
  <1>8. ASSUME NEW w \in Worker PROVE TickOK(w)'
    <2>1. call'[w] = call[w] /\ TickOK(w)
      BY <1>u, ActorAssumption DEF Inv
    <2> QED BY <1>u, <2>1 DEF TickOK, Exists
  <1> QED BY <1>4, <1>5, <1>6, <1>7, <1>8 DEF Inv, RowsOK

(* Every action keeps the inductive invariant.                               *)
LEMMA InvNext == Inv /\ [Next]_vars => Inv'
  <1> SUFFICES ASSUME Inv, [Next]_vars PROVE Inv'  OBVIOUS
  <1>t. TypeOK /\ TypeOK'  BY TypeNext DEF Inv
  <1>f. "free" \notin Proc \cup Worker /\ Proc \cap Worker = {}  BY ActorAssumption
  <1>1. ASSUME NEW p \in Proc, NEW u \in User, NEW k \in Kind, Authorize(p, u, k)
        PROVE Inv'
    <2>1. CallOK(p)'
      BY <1>1, <1>t DEF Authorize, CallOK, TypeOK
    <2> QED BY <1>1, <1>t, <1>f, <2>1, RowsUntouched, HandlerStep DEF Authorize, rows, TypeOK
  <1>2. ASSUME NEW p \in Proc, StartEnds(p) PROVE Inv'
    <2>1. CallOK(p)'
      BY <1>2, <1>t DEF StartEnds, Finish, CallOK, Idle, TypeOK
    <2> QED BY <1>2, <1>t, <1>f, <2>1, RowsUntouched, HandlerStep
            DEF StartEnds, Finish, rows, TypeOK
  <1>3. ASSUME NEW p \in Proc, StartReads(p) PROVE Inv'
    <2> DEFINE c == call[p]
    <2> DEFINE new == [op |-> "create", user |-> c.user, kind |-> c.kind, now |-> clock,
                       used |-> Cardinality(Of(c.user, c.kind)), exam |-> exam]
    <2>1. call'[p] = new /\ lock' = p /\ UNCHANGED <<exam, attempt, clock>>
      BY <1>3, <1>t DEF StartReads, rows, TypeOK
    <2>2. c.kind = "live" /\ exam.mode = "INVITE_ONLY" => c.user \in Invited
      BY <1>3 DEF StartReads, Admits, Inv, CallOK
    <2>3. CreatesOnFacts(p)'
      <3>1. \A u, k : Of(u, k)' = Of(u, k)
        BY <2>1 DEF Of, Exists
      <3>2. \A a \in Of(c.user, c.kind) : ~Live(a, clock)
        BY <1>3 DEF StartReads, Resumes
      <3>3. /\ c.kind = "live" => exam.startsAt <= clock /\ clock < exam.closesAt
            /\ c.kind = "practice" => exam.closesAt <= clock
        BY <1>3 DEF StartReads, Admits
      <3> HIDE DEF c
      <3>4. /\ new.user = c.user /\ new.kind = c.kind /\ new.now = clock
            /\ new.used = Cardinality(Of(c.user, c.kind)) /\ new.exam = exam
        OBVIOUS
      <3> HIDE DEF new
      <3> QED BY <2>1, <2>2, <3>1, <3>2, <3>3, <3>4 DEF CreatesOnFacts, Live, Open
    <2>4. CallOK(p)'  BY <2>1, <2>3 DEF CallOK
    <2> QED BY <1>3, <1>t, <1>f, <2>4, RowsUntouched, HandlerStep DEF StartReads, rows, TypeOK
  <1>4. ASSUME NEW p \in Proc, StartCreates(p) PROVE Inv'
    BY <1>4, <1>t, CreatesInv
  <1>5. ASSUME NEW p \in Proc, StartOverBudget(p) PROVE Inv'
    <2> DEFINE c == call[p]
    <2>1. c \in CreateCall  BY <1>5, <1>t, CallType DEF StartOverBudget, TypeOK
    <2>2. \A a \in AttemptId : attempt'[a] = attempt[a] \/ Closing(a)
      <3>1. ASSUME NEW a \in AttemptId, a \in Stale(c.user, c.kind, c.now),
                   attempt'[a] = AutoSubmitted(a, c.now)
            PROVE  Closing(a)
        BY <1>t, <2>1, <3>1, AutoSubmitCloses DEF Stale, CreateCall
      <3> QED BY <1>5, <3>1 DEF StartOverBudget
    <2>3. Held /\ ClosedAsDated' /\ GradedRight'
      <3>1. answer' = answer /\ result' = result /\ exam' = exam /\ clock' = clock
        BY <1>5 DEF StartOverBudget
      <3> QED BY <2>2, <3>1, ClosingHolds DEF Inv
    <2>4. CallOK(p)'
      BY <1>5, <1>t DEF StartOverBudget, Finish, CallOK, Idle, TypeOK
    <2> QED BY <1>5, <1>t, <1>f, <2>3, <2>4, HandlerStep
            DEF StartOverBudget, Finish, Release, TypeOK
  <1>6. ASSUME NEW p \in Proc, NEW a \in AttemptId, NEW q \in Question,
               NEW s \in Selection, NEW r \in Revision, ReceiveAnswer(p, a, q, s, r)
        PROVE Inv'
    <2>1. PICK t \in ServerNow : call'[p] =
            [op |-> "save", attempt |-> a, question |-> q, sel |-> s, rev |-> r, now |-> t]
      BY <1>6, <1>t DEF ReceiveAnswer, TypeOK
    <2>2. CallOK(p)'
      BY <1>6, <2>1 DEF ReceiveAnswer, CallOK, Exists, rows
    <2> QED BY <1>6, <1>t, <1>f, <2>2, RowsUntouched, HandlerStep
            DEF ReceiveAnswer, rows, TypeOK
  <1>7. ASSUME NEW p \in Proc, SaveAnswer(p) PROVE Inv'
    <2> DEFINE c == call[p]
    <2>1. \A a \in AttemptId : attempt[a].status \in Gradable => answer'[a] = answer[a]
      BY <1>7, <1>t DEF SaveAnswer, Accepts, Live, Open, Gradable, Closed, TypeOK
    <2>2. Held
      BY <1>7, <1>t, <2>1, UnchangedHolds DEF SaveAnswer
    <2>3. ClosedAsDated' /\ GradedRight'
      BY <1>7, <2>1 DEF SaveAnswer, Inv, ClosedAsDated, GradedRight, Gradable
    <2>4. CallOK(p)'
      BY <1>7, <1>t DEF SaveAnswer, Finish, CallOK, Idle, TypeOK
    <2> QED BY <1>7, <1>t, <1>f, <2>2, <2>3, <2>4, HandlerStep DEF SaveAnswer, Finish, TypeOK
  <1>8. ASSUME NEW p \in Proc, NEW a \in AttemptId, Submit(p, a) PROVE Inv'
    <2>1. PICK t \in ServerNow :
            call'[p] = [op |-> "finalize", attempt |-> a, now |-> t]
      BY <1>8, <1>t DEF Submit, TypeOK
    <2>2. CallOK(p)'
      BY <1>8, <2>1 DEF Submit, CallOK, Exists, rows
    <2> QED BY <1>8, <1>t, <1>f, <2>2, RowsUntouched, HandlerStep DEF Submit, rows, TypeOK
  <1>9. ASSUME NEW p \in Proc, Finalize(p) PROVE Inv'
    <2> DEFINE a == call[p].attempt
    <2>1. a \in AttemptId /\ call[p].now \in Nat
      BY <1>9, <1>t, CallType DEF Finalize, FinalizeCall, TypeOK
    <2>2. Open(a) => Closing(a)
      <3> SUFFICES ASSUME Open(a) PROVE Closing(a)  OBVIOUS
      <3>1. attempt[a] \in Attempt  BY <1>t, <2>1, RowType DEF Open, TypeOK
      <3>2. attempt'[a] = [attempt[a] EXCEPT !.status = ClosingStatus(a, call[p].now),
                                            !.submittedAt = call[p].now]
        BY <1>9, <1>t, <2>1 DEF Finalize, TypeOK
      <3>3. /\ attempt'[a].status = ClosingStatus(a, call[p].now)
            /\ attempt'[a].submittedAt = call[p].now
            /\ attempt'[a].user = attempt[a].user /\ attempt'[a].kind = attempt[a].kind
            /\ attempt'[a].number = attempt[a].number
            /\ attempt'[a].version = attempt[a].version
            /\ attempt'[a].startedAt = attempt[a].startedAt
            /\ attempt'[a].expiresAt = attempt[a].expiresAt
            /\ attempt[a].expiresAt \in Nat
        BY <3>1, <3>2 DEF Attempt
      <3> QED BY <2>1, <3>3 DEF Closing, ClosingStatus, Closed
    <2>3. Held /\ ClosedAsDated' /\ GradedRight'
      <3>1. \A b \in AttemptId : attempt'[b] = attempt[b] \/ Closing(b)
        BY <1>9, <1>t, <2>1, <2>2 DEF Finalize, TypeOK
      <3>2. exam' = exam /\ clock' = clock /\ answer' = answer /\ result' = result
        BY <1>9 DEF Finalize
      <3> QED BY <3>1, <3>2, ClosingHolds DEF Inv
    <2>4. CallOK(p)'
      <3>1. call'[p] = [op |-> "grade", attempt |-> a]
        BY <1>9, <1>t DEF Finalize, TypeOK
      <3>2. Exists(a)  BY <1>9 DEF Finalize, Inv, CallOK
      <3>3. attempt'[a].status \in Gradable
        <4>1. attempt[a] \in Attempt  BY <1>t, <2>1, <3>2, RowType DEF Exists, TypeOK
        <4>2. CASE Open(a)  BY <2>2, <4>2 DEF Closing, Gradable
        <4>3. CASE ~Open(a)
          <5>1. attempt' = attempt  BY <1>9, <4>3 DEF Finalize
          <5> QED BY <4>1, <4>3, <5>1 DEF Open, Attempt
        <4> QED BY <4>2, <4>3
      <3> QED BY <3>1, <3>3 DEF CallOK, GradesOnFacts
    <2> QED BY <1>9, <1>t, <1>f, <2>3, <2>4, HandlerStep DEF Finalize, TypeOK
  <1>10. ASSUME NEW p \in Proc \cup Worker, GradeReads(p) PROVE Inv'
    <2> DEFINE a == call[p].attempt
    <2>1. call'[p] = [op |-> "persist", attempt |-> a,
                      grade |-> Verdict(answer[a], attempt[a].version)]
      BY <1>10, <1>t DEF GradeReads, TypeOK
    <2>2. CallOK(p)'
      BY <1>10, <2>1 DEF GradeReads, CanGrade, CallOK, GradesOnFacts, rows
    <2> QED BY <1>10, <1>t, <1>f, <2>1, <2>2, RowsUntouched, HandlerStep
            DEF GradeReads, rows, TypeOK
  <1>11. ASSUME NEW p \in Proc \cup Worker, PersistGrade(p) PROVE Inv'
    <2> DEFINE a == call[p].attempt
    <2>1. a \in AttemptId /\ attempt[a] \in Attempt /\ attempt[a].status \in Gradable
      BY <1>11, <1>t, CallType, RowType
         DEF PersistGrade, PersistCall, Gradable, Closed, TypeOK
    <2>2. attempt'[a] = [attempt[a] EXCEPT !.status = "GRADED"]
      BY <1>11, <1>t, <2>1 DEF PersistGrade, TypeOK
    <2>3. /\ attempt'[a].status = "GRADED"
          /\ attempt'[a].user = attempt[a].user /\ attempt'[a].kind = attempt[a].kind
          /\ attempt'[a].number = attempt[a].number
          /\ attempt'[a].version = attempt[a].version
          /\ attempt'[a].startedAt = attempt[a].startedAt
          /\ attempt'[a].expiresAt = attempt[a].expiresAt
      BY <2>1, <2>2 DEF Attempt
    <2>4. /\ \A b \in AttemptId : b # a => attempt'[b] = attempt[b]
          /\ exam' = exam /\ clock' = clock /\ answer' = answer
          /\ result' = [result EXCEPT ![a] = call[p].grade]
      BY <1>11, <1>t DEF PersistGrade, TypeOK
    <2>5. Held
      BY <1>t, <2>1, <2>3, <2>4
         DEF Held, Grown, SameAttempt, Exists, Gradable, Closed, TypeOK
    <2>6. ClosedAsDated'
      BY <2>3, <2>4 DEF Inv, ClosedAsDated
    <2>7. GradedRight'
      <3>1. call[p].grade = Verdict(answer[a], attempt[a].version)
        BY <1>11 DEF PersistGrade, Inv, CallOK, GradesOnFacts
      <3> QED BY <1>t, <2>1, <2>3, <2>4, <3>1 DEF Inv, GradedRight, TypeOK
    <2>8. CallOK(p)' /\ call'[p].op = "idle"
      BY <1>11, <1>t DEF PersistGrade, Finish, CallOK, Idle, TypeOK
    <2> QED BY <1>11, <1>t, <1>f, <2>5, <2>6, <2>7, <2>8, HandlerStep
            DEF PersistGrade, Finish, TypeOK
  <1>12. ASSUME NEW w \in Worker, TickStarts(w) PROVE Inv'
    <2>1. PICK t \in ServerNow :
             \E B \in Batches([a \in Expired(t) |-> attempt[a].expiresAt]) :
               tick' = [tick EXCEPT ![w] = [phase |-> "claim", todo |-> B, now |-> t]]
      BY <1>12 DEF TickStarts
    <2>2. PICK B \in Batches([a \in Expired(t) |-> attempt[a].expiresAt]) :
             tick' = [tick EXCEPT ![w] = [phase |-> "claim", todo |-> B, now |-> t]]
      BY <2>1
    <2>3. tick'[w] = [phase |-> "claim", todo |-> B, now |-> t] /\ B \subseteq Expired(t)
      BY <1>t, <2>2 DEF Batches, TypeOK
    <2>4. UNCHANGED <<exam, attempt, answer, result, clock, call, lock>>
      BY <1>12 DEF TickStarts, rows
    <2>5. TickOK(w)'
      BY <2>3, <2>4 DEF TickOK, Inv, Expired, Open, Exists
    <2>6. CallOK(w)'  BY <2>4, <1>t, RowsUntouched, CallStays DEF Inv
    <2>7. \A v \in Worker \ {w} : tick'[v] = tick[v]
      BY <2>2
    <2> QED BY <1>t, <2>4, <2>5, <2>6, <2>7, RowsUntouched, TickStep
  <1>13. ASSUME NEW w \in Worker, ClaimExpired(w) PROVE Inv'
    <2>1. PICK a \in tick[w].todo :
             /\ attempt' = IF Open(a)
                           THEN [attempt EXCEPT ![a] = AutoSubmitted(a, tick[w].now)]
                           ELSE attempt
             /\ tick' = [tick EXCEPT ![w].todo = @ \ {a}]
      BY <1>13 DEF ClaimExpired
    <2>2. a \in AttemptId /\ tick[w].now \in Nat /\ attempt[a].expiresAt <= tick[w].now
      BY <1>13, <1>t DEF ClaimExpired, Inv, TickOK, TypeOK, Tick
    <2>3. \A b \in AttemptId : attempt'[b] = attempt[b] \/ Closing(b)
      <3>1. CASE ~Open(a)  BY <2>1, <3>1
      <3>2. CASE Open(a)
        <4>1. attempt'[a] = AutoSubmitted(a, tick[w].now)
          BY <1>t, <2>1, <2>2, <3>2 DEF TypeOK
        <4>2. Closing(a)  BY <1>t, <2>2, <3>2, <4>1, AutoSubmitCloses
        <4>3. \A b \in AttemptId : b # a => attempt'[b] = attempt[b]
          BY <1>t, <2>1, <2>2, <3>2 DEF TypeOK
        <4> QED BY <4>2, <4>3
      <3> QED BY <3>1, <3>2
    <2>4. UNCHANGED <<exam, answer, result, clock, call, lock>>
      BY <1>13 DEF ClaimExpired
    <2>5. Held /\ ClosedAsDated' /\ GradedRight'
      BY <2>3, <2>4, ClosingHolds DEF Inv
    <2>6. /\ tick'[w].phase = "claim" /\ tick'[w].now = tick[w].now
          /\ tick'[w].todo \subseteq tick[w].todo
          /\ \A v \in Worker \ {w} : tick'[v] = tick[v]
      BY <1>13, <1>t, <2>1 DEF ClaimExpired, TypeOK, Tick
    <2>7. TickOK(w)'
      <3>1. \A b \in tick[w].todo :
              b \in AttemptId /\ Exists(b) /\ attempt[b].expiresAt <= tick[w].now
        BY <1>13, <1>t DEF ClaimExpired, Inv, TickOK, TypeOK, Tick
      <3> QED BY <2>4, <2>5, <2>6, <3>1 DEF Inv, TickOK, Held, Grown, SameAttempt, Exists
    <2>8. CallOK(w)'  BY <1>t, <2>4, <2>5, CallStays DEF Inv
    <2> QED BY <1>t, <2>4, <2>5, <2>6, <2>7, <2>8, TickStep
  <1>14. ASSUME NEW w \in Worker, FindPendingGrading(w) PROVE Inv'
    <2>1. PICK B \in Batches([a \in Pending |-> attempt[a].submittedAt]) :
             tick' = [tick EXCEPT ![w] = [phase |-> "grade", todo |-> B, now |-> 0]]
      BY <1>14 DEF FindPendingGrading
    <2>2. tick'[w] = [phase |-> "grade", todo |-> B, now |-> 0] /\ B \subseteq Pending
      BY <1>t, <2>1 DEF Batches, TypeOK
    <2>3. UNCHANGED <<exam, attempt, answer, result, clock, call, lock>>
      BY <1>14 DEF FindPendingGrading, rows
    <2>4. TickOK(w)'
      BY <2>2, <2>3 DEF TickOK, Inv, Pending, Gradable
    <2>5. CallOK(w)'  BY <2>3, <1>t, RowsUntouched, CallStays DEF Inv
    <2>6. \A v \in Worker \ {w} : tick'[v] = tick[v]
      BY <2>1
    <2> QED BY <1>t, <2>3, <2>4, <2>5, <2>6, RowsUntouched, TickStep
  <1>15. ASSUME NEW w \in Worker, GradeNext(w) PROVE Inv'
    <2>1. PICK a \in tick[w].todo :
             /\ call' = [call EXCEPT ![w] = [op |-> "grade", attempt |-> a]]
             /\ tick' = [tick EXCEPT ![w].todo = @ \ {a}]
      BY <1>15 DEF GradeNext
    <2>2. call'[w] = [op |-> "grade", attempt |-> a] /\ attempt[a].status \in Gradable
      BY <1>15, <1>t, <2>1 DEF GradeNext, Inv, TickOK, TypeOK
    <2>3. UNCHANGED <<exam, attempt, answer, result, clock, lock>>
      BY <1>15 DEF GradeNext, rows
    <2>4. CallOK(w)'
      BY <2>2, <2>3 DEF CallOK, GradesOnFacts
    <2>5. /\ tick'[w].phase = "grade" /\ tick'[w].todo \subseteq tick[w].todo
          /\ \A v \in Worker \ {w} : tick'[v] = tick[v]
      BY <1>15, <1>t, <2>1 DEF GradeNext, TypeOK, Tick
    <2>6. TickOK(w)'
      BY <1>15, <2>2, <2>3, <2>5 DEF GradeNext, Inv, TickOK
    <2>7. \A q \in (Proc \cup Worker) \ {w} : call'[q] = call[q]
      BY <2>1
    <2> QED BY <1>t, <2>3, <2>4, <2>5, <2>6, <2>7, RowsUntouched, TickStep
  <1>16. ASSUME NEW w \in Worker, TickEnds(w) PROVE Inv'
    <2>1. tick'[w] = Asleep /\ \A v \in Worker \ {w} : tick'[v] = tick[v]
      BY <1>16, <1>t DEF TickEnds, TypeOK
    <2>2. UNCHANGED <<exam, attempt, answer, result, clock, call, lock>>
      BY <1>16 DEF TickEnds, rows
    <2>3. TickOK(w)'
      BY <2>1, <2>2 DEF TickOK, Inv, Asleep
    <2>4. CallOK(w)'  BY <2>2, <1>t, RowsUntouched, CallStays DEF Inv
    <2> QED BY <1>t, <2>1, <2>2, <2>3, <2>4, RowsUntouched, TickStep
  <1>17. ASSUME NEW p \in Proc, NEW t, NEW new, EditReads(p, t, new) PROVE Inv'
    <2>1. call'[p] = [op |-> "edit", exam |-> new] /\ lock' = p
      BY <1>17, <1>t DEF EditReads, TypeOK
    <2>2. CallOK(p)'
      BY <1>17, <2>1 DEF EditReads, Editable, CallOK, Exists, rows
    <2> QED BY <1>17, <1>t, <1>f, <2>2, RowsUntouched, HandlerStep DEF EditReads, rows, TypeOK
  <1>18. ASSUME NEW p \in Proc, EditCommits(p) PROVE Inv'
    BY <1>18, <1>t, EditInv
  <1>19. ASSUME UNCHANGED <<exam, attempt, answer, result, call, tick, lock>>,
                clock' \in Nat, clock <= clock'
         PROVE  Inv'
    <2>1. Held
      BY <1>19, <1>t DEF Held, Grown, SameAttempt, Exists, TypeOK
    <2>2. RowsOK' /\ ClosedAsDated' /\ GradedRight'
      BY <1>19, <2>1, HeldRows DEF Inv, ClosedAsDated, GradedRight
    <2>3. \A p \in Proc \cup Worker : CallOK(p)'
      BY <1>19, <2>1, CallStays DEF Inv
    <2>4. \A w \in Worker : TickOK(w)'
      BY <1>19 DEF Inv, TickOK, Exists
    <2> QED BY <1>t, <2>2, <2>3, <2>4 DEF Inv
  <1>20. ASSUME NEW u \in User, ChangeEntitlement(u) PROVE Inv'
    BY <1>19, <1>20, <1>t DEF ChangeEntitlement, rows, TypeOK
  <1>21. ASSUME ClockTicks PROVE Inv'
    BY <1>19, <1>21, <1>t DEF ClockTicks, rows, TypeOK
  <1>22. ASSUME NEW p \in Proc \cup Worker, CallFails(p) PROVE Inv'
    <2>1. CallOK(p)' /\ call'[p].op = "idle"
      BY <1>22, <1>t DEF CallFails, Finish, CallOK, Idle, TypeOK
    <2> QED BY <1>22, <1>t, <1>f, <2>1, RowsUntouched, HandlerStep
            DEF CallFails, Finish, Release, rows, TypeOK
  <1>23. ASSUME NEW w \in Worker, TickAborts(w) PROVE Inv'
    <2>1. /\ tick'[w] = Asleep /\ call'[w] = Idle
          /\ \A v \in Worker \ {w} : tick'[v] = tick[v]
          /\ \A q \in (Proc \cup Worker) \ {w} : call'[q] = call[q]
      BY <1>23, <1>t DEF TickAborts, Finish, TypeOK
    <2>2. UNCHANGED <<exam, attempt, answer, result, clock, lock>>
      BY <1>23 DEF TickAborts, rows
    <2>3. TickOK(w)' /\ CallOK(w)'
      BY <2>1 DEF TickOK, CallOK, Asleep, Idle
    <2> QED BY <1>t, <2>1, <2>2, <2>3, RowsUntouched, TickStep
  <1>25. ASSUME NEW p \in Proc \cup Worker, GradeSkips(p) PROVE Inv'
    <2>1. CallOK(p)' /\ call'[p].op = "idle"
      BY <1>25, <1>t DEF GradeSkips, Finish, CallOK, Idle, TypeOK
    <2> QED BY <1>25, <1>t, <1>f, <2>1, RowsUntouched, HandlerStep
            DEF GradeSkips, Finish, rows, TypeOK
  <1>24. ASSUME UNCHANGED vars PROVE Inv'
    BY <1>19, <1>24, <1>t DEF vars, rows, TypeOK
  <1> QED
    BY <1>1, <1>2, <1>3, <1>4, <1>5, <1>6, <1>7, <1>8, <1>9, <1>10, <1>11, <1>12,
       <1>13, <1>14, <1>15, <1>16, <1>17, <1>18, <1>20, <1>21, <1>22, <1>23, <1>24,
       <1>25 DEF Next, Handler, Grader, WorkerStep, UpdateMetadata, UpdateContent

(* The inductive invariant holds: what a handler read before it writes is    *)
(* still true when it writes, and the rows are consistent.                   *)
THEOREM InvHolds == Spec => []Inv
  BY InvInit, InvNext, PTL DEF Spec

(* startOrResumeLocked never leaves a candidate with two attempts of a kind  *)
(* in progress.                                                              *)
THEOREM OneOpenAttemptHolds == Spec => []OneOpenAttempt
  <1>1. Inv => OneOpenAttempt  BY DEF Inv, RowsOK
  <1> QED BY <1>1, InvHolds, PTL

(* startOrResumeLocked grants at most maxAttempts live attempts and numbers  *)
(* them without a gap or a repetition.                                       *)
THEOREM AttemptBudgetHolds == Spec => []AttemptBudget
  <1>1. Inv => AttemptBudget  BY DEF Inv, RowsOK
  <1> QED BY <1>1, InvHolds, PTL

(* An edit of the schedule or content never overtakes a start: the exam row  *)
(* an attempt was created from is the exam row from then on.                 *)
THEOREM ScheduleHoldsAlways == Spec => []ScheduleHolds
  <1>1. Inv => ScheduleHolds  BY DEF Inv, RowsOK
  <1> QED BY <1>1, InvHolds, PTL

(* No candidate without an invitation starts an invite-only exam, whenever   *)
(* it became invite-only.                                                    *)
THEOREM OnlyInvitedHolds == Spec => []OnlyInvited
  <1>1. Inv => OnlyInvited  BY DEF Inv, RowsOK
  <1> QED BY <1>1, InvHolds, PTL

(* finalize, claimExpired and the next start agree on what a closing status  *)
(* says about the closing time.                                              *)
THEOREM ClosedAsDatedHolds == Spec => []ClosedAsDated
  <1>1. Inv => ClosedAsDated  BY DEF Inv
  <1> QED BY <1>1, InvHolds, PTL
-----------------------------------------------------------------------------
(* What one step may do to one attempt, its sheet and its result.            *)
Kept(a) == attempt'[a] = attempt[a] /\ answer'[a] = answer[a] /\ result'[a] = result[a]

Opened(a) ==
  /\ ~Exists(a) /\ attempt'[a].status = "IN_PROGRESS"
  /\ attempt'[a].version \in Version
  /\ answer'[a] = answer[a] /\ result'[a] = result[a]

Written(a) ==
  /\ Open(a) /\ attempt'[a] = attempt[a] /\ result'[a] = result[a]
  /\ \E q \in DOMAIN Key[attempt[a].version] :
       /\ answer'[a][q] \in Answer /\ answer'[a][q].rev > answer[a][q].rev
       /\ answer'[a] = [answer[a] EXCEPT ![q] = answer'[a][q]]

Shut(a) == Closing(a) /\ answer'[a] = answer[a] /\ result'[a] = result[a]

Marked(a) ==
  /\ attempt[a].status \in Gradable /\ attempt'[a].status = "GRADED"
  /\ attempt'[a].version = attempt[a].version
  /\ attempt'[a].submittedAt = attempt[a].submittedAt
  /\ answer'[a] = answer[a]
  /\ result'[a] = Verdict(answer[a], attempt[a].version)

AttemptStep(a) == Kept(a) \/ Opened(a) \/ Written(a) \/ Shut(a) \/ Marked(a)

(* A step either leaves an attempt alone or moves it one phase on.           *)
LEMMA AttemptSteps ==
  ASSUME Inv, [Next]_vars, NEW a \in AttemptId
  PROVE  AttemptStep(a)
  <1>t. TypeOK  BY DEF Inv
  <1>1. ASSUME UNCHANGED rows PROVE AttemptStep(a)
    BY <1>1 DEF rows, AttemptStep, Kept
  <1>2. ASSUME NEW p \in Proc, StartCreates(p) PROVE AttemptStep(a)
    <2> DEFINE c == call[p]
    <2>1. c \in CreateCall /\ c.exam = exam /\ exam.version \in Version
      BY <1>2, <1>t, CallType DEF StartCreates, TypeOK, Inv, CallOK, CreatesOnFacts, Exam
    <2>2. PICK n \in AttemptId :
            /\ ~Exists(n)
            /\ attempt' = [b \in AttemptId |->
                             IF b = n THEN NewAttempt(c)
                             ELSE IF b \in Stale(c.user, c.kind, c.now)
                                  THEN AutoSubmitted(b, c.now) ELSE attempt[b]]
      BY <1>2 DEF StartCreates
    <2>3. answer' = answer /\ result' = result  BY <1>2 DEF StartCreates
    <2>4. CASE a = n
      <3>1. attempt'[a] = NewAttempt(c)  BY <2>2, <2>4
      <3> QED BY <2>1, <2>2, <2>3, <2>4, <3>1 DEF NewAttempt, AttemptStep, Opened
    <2>5. CASE a # n /\ a \in Stale(c.user, c.kind, c.now)
      <3>1. Closing(a)
        BY <1>t, <2>1, <2>2, <2>5, AutoSubmitCloses DEF Stale, CreateCall
      <3> QED BY <2>3, <3>1 DEF AttemptStep, Shut
    <2>6. CASE a # n /\ a \notin Stale(c.user, c.kind, c.now)
      BY <2>2, <2>3, <2>6 DEF AttemptStep, Kept
    <2> QED BY <2>4, <2>5, <2>6
  <1>3. ASSUME NEW p \in Proc, StartOverBudget(p) PROVE AttemptStep(a)
    <2> DEFINE c == call[p]
    <2>1. c \in CreateCall  BY <1>3, <1>t, CallType DEF StartOverBudget, TypeOK
    <2>2. answer' = answer /\ result' = result  BY <1>3 DEF StartOverBudget
    <2>3. CASE a \in Stale(c.user, c.kind, c.now)
      <3>1. attempt'[a] = AutoSubmitted(a, c.now)  BY <1>3, <2>3 DEF StartOverBudget
      <3>2. Closing(a)
        BY <1>t, <2>1, <2>3, <3>1, AutoSubmitCloses DEF Stale, CreateCall
      <3> QED BY <2>2, <3>2 DEF AttemptStep, Shut
    <2>4. CASE a \notin Stale(c.user, c.kind, c.now)
      BY <1>3, <2>2, <2>4 DEF StartOverBudget, AttemptStep, Kept
    <2> QED BY <2>3, <2>4
  <1>4. ASSUME NEW p \in Proc, SaveAnswer(p) PROVE AttemptStep(a)
    <2> DEFINE c == call[p]
    <2>1. /\ c \in SaveCall /\ c.attempt \in AttemptId /\ c.question \in Question
          /\ c.rev \in Nat /\ c.sel \in Selection
      BY <1>4, <1>t, CallType, BoundAssumption DEF SaveAnswer, TypeOK, SaveCall
    <2>2. attempt' = attempt /\ result' = result  BY <1>4 DEF SaveAnswer
    <2>3. CASE ~Accepts(c) \/ a # c.attempt
      <3>1. answer'[a] = answer[a]  BY <1>4, <1>t, <2>3 DEF SaveAnswer, TypeOK
      <3> QED BY <2>2, <3>1 DEF AttemptStep, Kept
    <2>4. CASE Accepts(c) /\ a = c.attempt
      <3>1. answer'[a] = [answer[a] EXCEPT ![c.question] = [rev |-> c.rev, sel |-> c.sel]]
        BY <1>4, <1>t, <2>4 DEF SaveAnswer, TypeOK
      <3>2. answer[a] \in [Question -> Answer]  BY <1>t DEF TypeOK, Sheet
      <3>3. answer'[a][c.question] = [rev |-> c.rev, sel |-> c.sel]
        BY <2>1, <3>1, <3>2
      <3>4. c.question \in DOMAIN Key[attempt[a].version]
        BY <1>4, <2>4 DEF SaveAnswer, Inv, CallOK
      <3>5. Open(a) /\ c.rev > answer[a][c.question].rev
        <4>1. answer[a][c.question].rev \in Nat  BY <2>1, <3>2 DEF Answer
        <4> QED BY <2>1, <2>4, <4>1 DEF Accepts, Live
      <3>6. [rev |-> c.rev, sel |-> c.sel] \in Answer  BY <2>1 DEF Answer
      <3>7. /\ answer'[a][c.question] \in Answer
            /\ answer'[a][c.question].rev > answer[a][c.question].rev
            /\ answer'[a] = [answer[a] EXCEPT ![c.question] = answer'[a][c.question]]
        BY <3>1, <3>3, <3>5, <3>6
      <3> HIDE DEF c
      <3> QED BY <2>2, <3>4, <3>5, <3>7 DEF AttemptStep, Written
    <2> QED BY <2>3, <2>4
  <1>5. ASSUME NEW p \in Proc, Finalize(p) PROVE AttemptStep(a)
    <2> DEFINE c == call[p]
    <2>1. c.attempt \in AttemptId /\ c.now \in Nat
      BY <1>5, <1>t, CallType DEF Finalize, FinalizeCall, TypeOK
    <2>2. answer' = answer /\ result' = result  BY <1>5 DEF Finalize
    <2>3. CASE Open(a) /\ a = c.attempt
      <3>1. attempt[a] \in Attempt  BY <1>t, <2>3, RowType DEF Open, TypeOK
      <3>2. attempt'[a] = [attempt[a] EXCEPT !.status = ClosingStatus(a, c.now),
                                            !.submittedAt = c.now]
        BY <1>5, <1>t, <2>1, <2>3 DEF Finalize, TypeOK
      <3>3. /\ attempt'[a].status = ClosingStatus(a, c.now)
            /\ attempt'[a].submittedAt = c.now
            /\ attempt'[a].user = attempt[a].user /\ attempt'[a].kind = attempt[a].kind
            /\ attempt'[a].number = attempt[a].number
            /\ attempt'[a].version = attempt[a].version
            /\ attempt'[a].startedAt = attempt[a].startedAt
            /\ attempt'[a].expiresAt = attempt[a].expiresAt
            /\ attempt[a].expiresAt \in Nat
        BY <3>1, <3>2 DEF Attempt
      <3>4. Closing(a)  BY <2>1, <2>3, <3>3 DEF Closing, ClosingStatus, Closed
      <3> QED BY <2>2, <3>4 DEF AttemptStep, Shut
    <2>4. CASE ~(Open(a) /\ a = c.attempt)
      <3>1. attempt'[a] = attempt[a]  BY <1>5, <1>t, <2>4 DEF Finalize, TypeOK
      <3> QED BY <2>2, <3>1 DEF AttemptStep, Kept
    <2> QED BY <2>3, <2>4
  <1>6. ASSUME NEW p \in Proc \cup Worker, PersistGrade(p) PROVE AttemptStep(a)
    <2> DEFINE c == call[p]
    <2>1. /\ c.attempt \in AttemptId /\ attempt[c.attempt] \in Attempt
          /\ attempt[c.attempt].status \in Gradable
      BY <1>6, <1>t, CallType, RowType
         DEF PersistGrade, PersistCall, Gradable, Closed, TypeOK
    <2>2. c.grade = Verdict(answer[c.attempt], attempt[c.attempt].version)
      BY <1>6 DEF PersistGrade, Inv, CallOK, GradesOnFacts
    <2>3. CASE a = c.attempt
      <3>1. /\ attempt'[a] = [attempt[a] EXCEPT !.status = "GRADED"]
            /\ result'[a] = c.grade /\ answer' = answer
        BY <1>6, <1>t, <2>3 DEF PersistGrade, TypeOK
      <3>2. /\ attempt'[a].status = "GRADED" /\ attempt'[a].version = attempt[a].version
            /\ attempt'[a].submittedAt = attempt[a].submittedAt
        BY <2>1, <2>3, <3>1 DEF Attempt
      <3> QED BY <2>1, <2>2, <2>3, <3>1, <3>2 DEF AttemptStep, Marked
    <2>4. CASE a # c.attempt
      <3>1. attempt'[a] = attempt[a] /\ result'[a] = result[a] /\ answer' = answer
        BY <1>6, <1>t, <2>4 DEF PersistGrade, TypeOK
      <3> QED BY <3>1 DEF AttemptStep, Kept
    <2> QED BY <2>3, <2>4
  <1>7. ASSUME NEW w \in Worker, ClaimExpired(w) PROVE AttemptStep(a)
    <2>1. PICK b \in tick[w].todo :
             attempt' = IF Open(b) THEN [attempt EXCEPT ![b] = AutoSubmitted(b, tick[w].now)]
                        ELSE attempt
      BY <1>7 DEF ClaimExpired
    <2>2. b \in AttemptId /\ tick[w].now \in Nat /\ attempt[b].expiresAt <= tick[w].now
      BY <1>7, <1>t DEF ClaimExpired, Inv, TickOK, TypeOK, Tick
    <2>3. answer' = answer /\ result' = result  BY <1>7 DEF ClaimExpired
    <2>4. CASE Open(a) /\ a = b
      <3>1. attempt'[a] = AutoSubmitted(a, tick[w].now)
        BY <1>t, <2>1, <2>4 DEF TypeOK
      <3>2. Closing(a)  BY <1>t, <2>2, <2>4, <3>1, AutoSubmitCloses
      <3> QED BY <2>3, <3>2 DEF AttemptStep, Shut
    <2>5. CASE ~(Open(a) /\ a = b)
      <3>1. attempt'[a] = attempt[a]  BY <1>t, <2>1, <2>5 DEF TypeOK
      <3> QED BY <2>3, <3>1 DEF AttemptStep, Kept
    <2> QED BY <2>4, <2>5
  <1>8. ASSUME NEW p \in Proc, Handler(p) PROVE AttemptStep(a)
    <2>1. \/ UNCHANGED rows \/ StartCreates(p) \/ StartOverBudget(p)
          \/ SaveAnswer(p) \/ Finalize(p)
      BY <1>8 DEF Handler, Authorize, StartEnds, StartReads, Submit, ReceiveAnswer,
                  UpdateMetadata, UpdateContent, EditReads, EditCommits, rows
    <2> QED BY <1>1, <1>2, <1>3, <1>4, <1>5, <2>1
  <1>9. ASSUME NEW p \in Proc \cup Worker, Grader(p) \/ CallFails(p) PROVE AttemptStep(a)
    <2>1. UNCHANGED rows \/ PersistGrade(p)
      BY <1>9 DEF Grader, GradeReads, GradeSkips, CallFails, rows
    <2> QED BY <1>1, <1>6, <2>1
  <1>10. ASSUME NEW w \in Worker, WorkerStep(w) \/ TickAborts(w) PROVE AttemptStep(a)
    <2>1. UNCHANGED rows \/ ClaimExpired(w)
      BY <1>10 DEF WorkerStep, TickStarts, FindPendingGrading, GradeNext, TickEnds,
                   TickAborts, rows
    <2> QED BY <1>1, <1>7, <2>1
  <1> QED BY <1>1, <1>8, <1>9, <1>10 DEF Next, ChangeEntitlement, ClockTicks, vars, rows

(* Once closed, an attempt keeps its submittedAt: no slower finalize, worker *)
(* or start, and no regrading, moves it.                                     *)
THEOREM FirstCloserWinsHolds == Spec => FirstCloserWins
  <1>1. Inv /\ [Next]_vars =>
          \A a \in AttemptId : attempt[a].status \in Gradable =>
            attempt'[a].submittedAt = attempt[a].submittedAt
    <2> SUFFICES ASSUME Inv, [Next]_vars, NEW a \in AttemptId, attempt[a].status \in Gradable
                 PROVE  attempt'[a].submittedAt = attempt[a].submittedAt
      OBVIOUS
    <2>1. Exists(a) /\ ~Open(a)  BY DEF Exists, Open, Gradable, Closed
    <2> QED BY <2>1, AttemptSteps
            DEF AttemptStep, Kept, Opened, Written, Shut, Marked, Closing
  <1> QED BY <1>1, InvHolds, PTL DEF Spec, FirstCloserWins
-----------------------------------------------------------------------------
(* Every status has its phase.                                               *)
LEMMA PhaseOfStatus ==
  /\ PhaseOf("NONE") = "none" /\ PhaseOf("IN_PROGRESS") = "open"
  /\ PhaseOf("SUBMITTED") = "closed" /\ PhaseOf("AUTO_SUBMITTED") = "closed"
  /\ PhaseOf("GRADED") = "graded"
  BY DEF PhaseOf, Closed

(* Both specifications grade by ExamContent.                                 *)
LEMMA SameContent ==
  /\ \A s, v : Lifecycle!Verdict(s, v) = Verdict(s, v)
  /\ Lifecycle!Blank = Blank /\ Lifecycle!NoResult = NoResult /\ Lifecycle!Answer = Answer
  <1>1. \A s, v : Lifecycle!Verdict(s, v) = Verdict(s, v)
    BY Zenon DEF Lifecycle!Verdict, Verdict
  <1>2. Lifecycle!NoAnswer = NoAnswer /\ Lifecycle!Answer = Answer
    BY DEF Lifecycle!NoAnswer, NoAnswer, Lifecycle!Answer, Answer
  <1>3. Lifecycle!Blank = Blank /\ Lifecycle!NoResult = NoResult
    BY <1>2 DEF Lifecycle!Blank, Blank, Lifecycle!NoResult, NoResult
  <1> QED BY <1>1, <1>2, <1>3

(* Before any attempt, every lifecycle is at its start.                      *)
LEMMA LifecycleInit == Init => Lifecycle!Init
  <1> SUFFICES ASSUME Init PROVE Lifecycle!Init  OBVIOUS
  <1>1. \A a \in AttemptId : attempt[a].status = "NONE"
    BY DEF Init, NoAttempt
  <1>2. answer = [a \in AttemptId |-> Blank] /\ result = [a \in AttemptId |-> NoResult]
    BY DEF Init
  <1> QED BY <1>1, <1>2, SameContent, PhaseOfStatus DEF Lifecycle!Init, Exists

(* Each step moves every attempt along its lifecycle, or leaves it alone.    *)
LEMMA LifecycleStep ==
  ASSUME Inv, [Next]_vars, NEW a \in AttemptId
  PROVE  \/ Lifecycle!Opens(a) \/ Lifecycle!Writes(a) \/ Lifecycle!Closes(a)
         \/ Lifecycle!Grades(a) \/ Lifecycle!Rests(a)
  <1>t. attempt[a] = NoAttempt \/ attempt[a] \in Attempt
    BY RowType DEF Inv, TypeOK
  <1>1. CASE Kept(a)
    BY <1>1 DEF Kept, Lifecycle!Rests, Exists
  <1>2. CASE Opened(a)
    BY <1>2, PhaseOfStatus DEF Opened, Lifecycle!Opens, Exists
  <1>3. CASE Written(a)
    BY <1>3, SameContent, PhaseOfStatus DEF Written, Open, Lifecycle!Writes, Exists
  <1>4. CASE Shut(a)
    BY <1>4, PhaseOfStatus DEF Shut, Closing, Open, Closed, Lifecycle!Closes, Exists
  <1>5. CASE Marked(a)
    <2>1. CASE attempt[a].status \in Closed
      BY <1>5, <2>1, SameContent, PhaseOfStatus DEF Marked, Closed, Lifecycle!Grades, Exists
    <2>2. CASE attempt[a].status = "GRADED"
      <3>1. result'[a] = result[a]  BY <1>5, <2>2 DEF Marked, Inv, GradedRight
      <3> QED BY <1>5, <2>2, <3>1 DEF Marked, Lifecycle!Rests, Exists
    <2> QED BY <1>5, <2>1, <2>2 DEF Marked, Gradable
  <1> QED BY <1>1, <1>2, <1>3, <1>4, <1>5, AttemptSteps DEF AttemptStep

(* The rows implement the abstract lifecycle: answers only move to higher    *)
(* revisions and only while the attempt is open, it closes once, and every   *)
(* grading, also a repeated one, stores the grade of the sheet it closed with*)
THEOREM LifecycleImplemented == Spec => ImplementsLifecycle
  <1>1. Inv /\ [Next]_vars => [Lifecycle!Next]_Lifecycle!lifecycle
    BY LifecycleStep DEF Lifecycle!Next
  <1> QED BY <1>1, LifecycleInit, InvHolds, PTL DEF Spec, ImplementsLifecycle, Lifecycle!Spec
=============================================================================
