------------------------------ MODULE LiveExam ------------------------------
(* Taking one exam: live and practice attempts, answers, submission, expiry  *)
(* and grading, as in src/src/features/exams/exam-live (and the access check *)
(* of exams/shared, the schedule edits of exams/admin-exam, which share the  *)
(* exam row and its advisory lock).                                          *)
(*                                                                           *)
(* PostgreSQL rows are the variables exam, attempt, answer and result. Every *)
(* HTTP or socket handler is a slot p of Proc, whose call[p] says where it   *)
(* is between two awaits and what it already read. The expired-attempts      *)
(* workers, one per server instance, keep their batch in tick[w] and grade   *)
(* through the same use case, in call[w].                                    *)
EXTENDS ExamContent, FiniteSets

CONSTANTS
  User, Invited,     \* candidates; those who hold an invitation token
  Scope,             \* PUBLIC, or INSTITUTIONAL: enrolled users only
  AttemptId,         \* row ids
  Revision,          \* revisions clients send
  Schedule,          \* the schedules an editor may store
  Proc, Worker,
  Unreadable,        \* attempts whose content the content store does not return
  MinWindow,         \* MINIMUM_EXAM_WINDOW_MS
  Limit,             \* batch size of a worker tick
  Skew,              \* how far a server's clock may be from the database's
  MaxTime, MaxFaults \* bounds of the model

Mode == {"OPEN", "INVITE_ONLY"}
Kind == {"live", "practice"}
ScheduleType == [startsAt : Nat, closesAt : Nat, duration : Nat \ {0},
                 maxAttempts : Nat \ {0}, mode : Mode]
Fits(s) == s.closesAt - s.startsAt >= MinWindow

ASSUME ScheduleAssumption ==
  /\ MinWindow \in Nat \ {0}
  /\ Schedule \subseteq ScheduleType
ASSUME BoundAssumption ==
  /\ IsFiniteSet(AttemptId)          \* UUIDs
  /\ Revision \subseteq Nat \ {0}
  /\ Limit \in Nat \ {0} /\ Skew \in Nat /\ MaxTime \in Nat /\ MaxFaults \in Nat
ASSUME ActorAssumption ==
  /\ Scope \in {"PUBLIC", "INSTITUTIONAL"}
  /\ Invited \subseteq User /\ Unreadable \subseteq AttemptId
  /\ Proc \cap Worker = {}
  /\ "free" \notin Proc \cup Worker

VARIABLES
  exam,      \* the exam row; it is SCHEDULED throughout
  entitled,  \* users whom the institution and enrollment rows let in right now
  clock,     \* the database's clock
  attempt, answer, result,
  call,      \* what each handler, and each worker's grader, is doing
  tick,      \* each worker's tick
  lock,      \* holder of pg_advisory_xact_lock('exam:' + id)
  faults

rows == <<attempt, answer, result>>
vars == <<exam, entitled, clock, attempt, answer, result, call, tick, lock, faults>>
-----------------------------------------------------------------------------
Closed == {"SUBMITTED", "AUTO_SUBMITTED"}
Gradable == Closed \cup {"GRADED"}
Unset == -1          \* a null timestamp

NoAttempt == [status |-> "NONE"]
Attempt == [status : {"IN_PROGRESS"} \cup Gradable, user : User, kind : Kind,
            number : Nat \ {0}, version : Version, startedAt : Nat,
            expiresAt : Nat, submittedAt : Nat \cup {Unset}]

Exam == [startsAt : Nat, closesAt : Nat, duration : Nat \ {0},
         maxAttempts : Nat \ {0}, mode : Mode, version : Version]

Idle == [op |-> "idle"]
StartCall == [op : {"start"}, user : User, kind : Kind, mode : Mode]
CreateCall == [op : {"create"}, user : User, kind : Kind, now : Nat, used : Nat,
               exam : Exam]
EditCall == [op : {"edit"}, exam : Exam]
SaveCall == [op : {"save"}, attempt : AttemptId, question : Question,
             sel : Selection, rev : Revision, now : Nat]
FinalizeCall == [op : {"finalize"}, attempt : AttemptId, now : Nat]
GradeCall == [op : {"grade"}, attempt : AttemptId]
PersistCall == [op : {"persist"}, attempt : AttemptId, grade : Grade]
Call == {Idle} \cup StartCall \cup CreateCall \cup EditCall \cup SaveCall
          \cup FinalizeCall \cup GradeCall \cup PersistCall

Asleep == [phase |-> "asleep", todo |-> {}, now |-> 0]
Tick == [phase : {"asleep", "claim", "grade"}, todo : SUBSET AttemptId, now : Nat]
-----------------------------------------------------------------------------
Exists(a) == attempt[a].status # "NONE"
Open(a) == attempt[a].status = "IN_PROGRESS"
Of(u, k) == {a \in AttemptId :
               Exists(a) /\ attempt[a].user = u /\ attempt[a].kind = k}
Live(a, t) == Open(a) /\ attempt[a].expiresAt > t
Stale_Forgotten(u, k, t) == {}
Stale(u, k, t) == {a \in Of(u, k) : Open(a) /\ attempt[a].expiresAt <= t}

(* new Date() on some server.                                                *)
ServerNow == (IF clock < Skew THEN 0 ELSE clock - Skew) .. clock + Skew

Finish(p) == call' = [call EXCEPT ![p] = Idle]
Release(p) == lock' = IF lock = p THEN "free" ELSE lock
-----------------------------------------------------------------------------
Init ==
  /\ \E s \in Schedule : /\ Fits(s)
                         /\ exam = [startsAt |-> s.startsAt, closesAt |-> s.closesAt,
                                    duration |-> s.duration, mode |-> s.mode,
                                    maxAttempts |-> s.maxAttempts, version |-> 1]
  /\ entitled \in SUBSET User /\ (Scope = "PUBLIC" => entitled = User)
  /\ clock = 0
  /\ attempt = [a \in AttemptId |-> NoAttempt]
  /\ answer = [a \in AttemptId |-> Blank]
  /\ result = [a \in AttemptId |-> NoResult]
  /\ call = [p \in Proc \cup Worker |-> Idle]
  /\ tick = [w \in Worker |-> Asleep]
  /\ lock = "free"
  /\ faults = 0

-----------------------------------------------------------------------------
(* Starting.                                                                 *)

(* ExamAccessService.authorize / authorizePractice, before any lock.         *)
Authorize(p, u, k) ==
  /\ call[p] = Idle
  /\ u \in entitled
  /\ \E t \in ServerNow :
       \/ /\ k = "live"
          /\ exam.startsAt <= t /\ t < exam.closesAt
          /\ exam.mode = "INVITE_ONLY" => u \in Invited
       \/ /\ k = "practice"
          /\ exam.closesAt <= t
  /\ call' = [call EXCEPT ![p] =
                [op |-> "start", user |-> u, kind |-> k, mode |-> exam.mode]]
  /\ UNCHANGED <<exam, entitled, clock, rows, tick, lock, faults>>

(* What startOrResumeLocked re-checks against the rows it reads again.       *)
Admits_StaleMode(c) ==
  /\ c.user \in entitled
  /\ \/ /\ c.kind = "live"
        /\ exam.startsAt <= clock /\ clock < exam.closesAt
     \/ /\ c.kind = "practice"
        /\ exam.closesAt <= clock
Admits(c) ==
  /\ c.user \in entitled
  /\ \/ /\ c.kind = "live"
        /\ exam.startsAt <= clock /\ clock < exam.closesAt
        /\ exam.mode = "INVITE_ONLY" => c.mode = "INVITE_ONLY"
     \/ /\ c.kind = "practice"
        /\ exam.closesAt <= clock

Resumes(c) == \E a \in Of(c.user, c.kind) : Live(a, clock)

(* Under the lock: refuse, or hand back the attempt that is still running.   *)
StartEnds(p) ==
  /\ call[p].op = "start" /\ lock = "free"
  /\ ~Admits(call[p]) \/ Resumes(call[p])
  /\ Finish(p)
  /\ UNCHANGED <<exam, entitled, clock, rows, tick, lock, faults>>

(* Under the lock: read the exam and count the attempts, then go on to write.*)
StartReads_Unlocked(p) ==
  /\ call[p].op = "start"
  /\ Admits(call[p]) /\ ~Resumes(call[p])
  /\ LET c == call[p]
     IN  call' = [call EXCEPT ![p] =
           [op |-> "create", user |-> c.user, kind |-> c.kind, now |-> clock,
            used |-> Cardinality(Of(c.user, c.kind)), exam |-> exam]]
  /\ UNCHANGED <<exam, entitled, clock, rows, tick, lock, faults>>
StartReads(p) ==
  /\ call[p].op = "start" /\ lock = "free"
  /\ Admits(call[p]) /\ ~Resumes(call[p])
  /\ lock' = p
  /\ LET c == call[p]
     IN  call' = [call EXCEPT ![p] =
           [op |-> "create", user |-> c.user, kind |-> c.kind, now |-> clock,
            used |-> Cardinality(Of(c.user, c.kind)), exam |-> exam]]
  /\ UNCHANGED <<exam, entitled, clock, rows, tick, faults>>

(* The updateMany that closes the user's expired attempts, with the insert.  *)
AutoSubmitted(a, t) ==
  [attempt[a] EXCEPT !.status = "AUTO_SUBMITTED", !.submittedAt = t]

ExpiresAt(c) ==
  IF c.kind = "live" /\ c.exam.closesAt < c.now + c.exam.duration
  THEN c.exam.closesAt ELSE c.now + c.exam.duration

NewAttempt(c) ==
  [status |-> "IN_PROGRESS", user |-> c.user, kind |-> c.kind,
   number |-> c.used + 1, version |-> c.exam.version, startedAt |-> c.now,
   expiresAt |-> ExpiresAt(c), submittedAt |-> Unset]

OverBudget_ByOne(c) == c.kind = "live" /\ c.used > c.exam.maxAttempts
OverBudget(c) == c.kind = "live" /\ c.used >= c.exam.maxAttempts

StartCreates(p) ==
  LET c == call[p] IN
  /\ c.op = "create" /\ ~OverBudget(c)
  /\ \E n \in AttemptId :
       /\ ~Exists(n)
       /\ attempt' = [a \in AttemptId |->
                        IF a = n THEN NewAttempt(c)
                        ELSE IF a \in Stale(c.user, c.kind, c.now)
                             THEN AutoSubmitted(a, c.now) ELSE attempt[a]]
  /\ Finish(p) /\ Release(p)
  /\ UNCHANGED <<exam, entitled, clock, answer, result, tick, faults>>

(* No attempt left: null is returned, and the transaction still commits.     *)
StartOverBudget(p) ==
  LET c == call[p] IN
  /\ c.op = "create" /\ OverBudget(c)
  /\ attempt' = [a \in AttemptId |->
                   IF a \in Stale(c.user, c.kind, c.now)
                   THEN AutoSubmitted(a, c.now) ELSE attempt[a]]
  /\ Finish(p) /\ Release(p)
  /\ UNCHANGED <<exam, entitled, clock, answer, result, tick, faults>>
-----------------------------------------------------------------------------
(* Answering. The use case reads the attempt, checks the question against    *)
(* its content version, takes the time, and only then opens a transaction.   *)
ReceiveAnswer(p, a, q, s, r) ==
  /\ call[p] = Idle /\ Exists(a)
  /\ q \in DOMAIN Key[attempt[a].version]
  /\ \E t \in ServerNow :
       call' = [call EXCEPT ![p] = [op |-> "save", attempt |-> a, question |-> q,
                                    sel |-> s, rev |-> r, now |-> t]]
  /\ UNCHANGED <<exam, entitled, clock, rows, tick, lock, faults>>

Accepts_SameRevision(c) ==
  /\ Live(c.attempt, c.now)
  /\ answer[c.attempt][c.question].rev <= c.rev
Accepts_Closed(c) ==
  /\ attempt[c.attempt].expiresAt > c.now
  /\ answer[c.attempt][c.question].rev < c.rev
Accepts(c) ==
  /\ Live(c.attempt, c.now)
  /\ answer[c.attempt][c.question].rev < c.rev

SaveAnswer(p) ==
  LET c == call[p] IN
  /\ c.op = "save"
  /\ IF Accepts(c)
     THEN answer' = [answer EXCEPT ![c.attempt][c.question] =
                       [rev |-> c.rev, sel |-> c.sel]]
     ELSE UNCHANGED answer
  /\ Finish(p)
  /\ UNCHANGED <<exam, entitled, clock, attempt, result, tick, lock, faults>>
-----------------------------------------------------------------------------
(* Submitting and grading.                                                   *)
Submit(p, a) ==
  /\ call[p] = Idle /\ Exists(a)
  /\ \E t \in ServerNow :
       call' = [call EXCEPT ![p] = [op |-> "finalize", attempt |-> a, now |-> t]]
  /\ UNCHANGED <<exam, entitled, clock, rows, tick, lock, faults>>

ClosingStatus_Late(a, t) ==
  IF attempt[a].expiresAt < t THEN "AUTO_SUBMITTED" ELSE "SUBMITTED"
ClosingStatus(a, t) ==
  IF attempt[a].expiresAt <= t THEN "AUTO_SUBMITTED" ELSE "SUBMITTED"

Finalize(p) ==
  LET c == call[p] IN
  /\ c.op = "finalize"
  /\ IF Open(c.attempt)
     THEN attempt' = [attempt EXCEPT
            ![c.attempt].status = ClosingStatus(c.attempt, c.now),
            ![c.attempt].submittedAt = c.now]
     ELSE UNCHANGED attempt
  /\ call' = [call EXCEPT ![p] = [op |-> "grade", attempt |-> c.attempt]]
  /\ UNCHANGED <<exam, entitled, clock, answer, result, tick, lock, faults>>

(* findForGrading, the answer key, and the comparison in memory.             *)
CanGrade(a) == attempt[a].status \in Gradable /\ a \notin Unreadable

GradeReads(p) ==
  LET c == call[p] IN
  /\ c.op = "grade" /\ CanGrade(c.attempt)
  /\ call' = [call EXCEPT ![p] =
       [op |-> "persist", attempt |-> c.attempt,
        grade |-> Verdict(answer[c.attempt], attempt[c.attempt].version)]]
  /\ UNCHANGED <<exam, entitled, clock, rows, tick, lock, faults>>

(* Without the content there is no grade, and no error either.               *)
GradeSkips(p) ==
  /\ call[p].op = "grade" /\ ~CanGrade(call[p].attempt)
  /\ Finish(p)
  /\ UNCHANGED <<exam, entitled, clock, rows, tick, lock, faults>>

PersistGrade(p) ==
  LET c == call[p] IN
  /\ c.op = "persist" /\ attempt[c.attempt].status \in Gradable
  /\ result' = [result EXCEPT ![c.attempt] = c.grade]
  /\ attempt' = [attempt EXCEPT ![c.attempt].status = "GRADED"]
  /\ Finish(p)
  /\ UNCHANGED <<exam, entitled, clock, answer, tick, lock, faults>>
-----------------------------------------------------------------------------
(* The expired-attempts worker: one tick at a time (the running flag).       *)

(* The rows of at in its order (orderBy), Limit of them (take), ties any way.*)
Batches(at) ==
  {B \in SUBSET DOMAIN at :
     /\ Cardinality(B) = IF Cardinality(DOMAIN at) < Limit
                         THEN Cardinality(DOMAIN at) ELSE Limit
     /\ \A a \in B, b \in DOMAIN at \ B : at[a] <= at[b]}

Expired(t) == {a \in AttemptId : Open(a) /\ attempt[a].expiresAt <= t}
Pending_SubmittedOnly == {a \in AttemptId : attempt[a].status = "SUBMITTED"}
Pending == {a \in AttemptId : attempt[a].status \in Closed}

TickStarts(w) ==
  /\ tick[w].phase = "asleep"
  /\ \E t \in ServerNow :
       \E B \in Batches([a \in Expired(t) |-> attempt[a].expiresAt]) :
         tick' = [tick EXCEPT ![w] = [phase |-> "claim", todo |-> B, now |-> t]]
  /\ UNCHANGED <<exam, entitled, clock, rows, call, lock, faults>>

ClaimExpired_Unchecked(w) ==
  /\ tick[w].phase = "claim"
  /\ \E a \in tick[w].todo :
       /\ attempt' = [attempt EXCEPT ![a] = AutoSubmitted(a, tick[w].now)]
       /\ tick' = [tick EXCEPT ![w].todo = @ \ {a}]
  /\ UNCHANGED <<exam, entitled, clock, answer, result, call, lock, faults>>
ClaimExpired(w) ==
  /\ tick[w].phase = "claim"
  /\ \E a \in tick[w].todo :
       /\ attempt' = IF Open(a)
                     THEN [attempt EXCEPT ![a] = AutoSubmitted(a, tick[w].now)]
                     ELSE attempt
       /\ tick' = [tick EXCEPT ![w].todo = @ \ {a}]
  /\ UNCHANGED <<exam, entitled, clock, answer, result, call, lock, faults>>

FindPendingGrading(w) ==
  /\ tick[w].phase = "claim" /\ tick[w].todo = {}
  /\ \E B \in Batches([a \in Pending |-> attempt[a].submittedAt]) :
       tick' = [tick EXCEPT ![w] = [phase |-> "grade", todo |-> B, now |-> 0]]
  /\ UNCHANGED <<exam, entitled, clock, rows, call, lock, faults>>

GradeNext(w) ==
  /\ tick[w].phase = "grade" /\ call[w] = Idle
  /\ \E a \in tick[w].todo :
       /\ call' = [call EXCEPT ![w] = [op |-> "grade", attempt |-> a]]
       /\ tick' = [tick EXCEPT ![w].todo = @ \ {a}]
  /\ UNCHANGED <<exam, entitled, clock, rows, lock, faults>>

TickEnds(w) ==
  /\ tick[w].phase = "grade" /\ tick[w].todo = {} /\ call[w] = Idle
  /\ tick' = [tick EXCEPT ![w] = Asleep]
  /\ UNCHANGED <<exam, entitled, clock, rows, call, lock, faults>>
-----------------------------------------------------------------------------
(* Editing the schedule or the content, under the exam's lock.               *)
Editable(t) == exam.startsAt > t /\ \A a \in AttemptId : ~Exists(a)

ValidMetadata(s, t) ==
  s.startsAt > t /\ Fits(s) /\ s.closesAt - t >= MinWindow

EditReads_Unlocked(p, t, new) ==
  /\ call[p] = Idle /\ Editable(t)
  /\ call' = [call EXCEPT ![p] = [op |-> "edit", exam |-> new]]
  /\ UNCHANGED <<exam, entitled, clock, rows, tick, lock, faults>>
EditReads(p, t, new) ==
  /\ call[p] = Idle /\ lock = "free" /\ Editable(t)
  /\ lock' = p
  /\ call' = [call EXCEPT ![p] = [op |-> "edit", exam |-> new]]
  /\ UNCHANGED <<exam, entitled, clock, rows, tick, faults>>

UpdateMetadata(p, s) ==
  \E t \in ServerNow :
    /\ ValidMetadata(s, t)
    /\ EditReads(p, t, [startsAt |-> s.startsAt, closesAt |-> s.closesAt,
                        duration |-> s.duration, maxAttempts |-> s.maxAttempts,
                        mode |-> s.mode, version |-> exam.version])

UpdateContent(p) ==
  /\ exam.version + 1 \in Version
  /\ \E t \in ServerNow : EditReads(p, t, [exam EXCEPT !.version = @ + 1])

EditCommits(p) ==
  /\ call[p].op = "edit"
  /\ exam' = call[p].exam
  /\ Finish(p) /\ Release(p)
  /\ UNCHANGED <<entitled, clock, rows, tick, faults>>
-----------------------------------------------------------------------------
(* The environment.                                                          *)

(* Enrollments start, are cancelled or expire; the institution is suspended. *)
ChangeEntitlement(u) ==
  /\ Scope = "INSTITUTIONAL"
  /\ entitled' = IF u \in entitled THEN entitled \ {u} ELSE entitled \cup {u}
  /\ UNCHANGED <<exam, clock, rows, call, tick, lock, faults>>

ClockTicks ==
  /\ clock < MaxTime
  /\ clock' = clock + 1
  /\ UNCHANGED <<exam, entitled, rows, call, tick, lock, faults>>

(* A handler dies or its database call throws: an open transaction rolls     *)
(* back and its advisory lock is released. A worker's failed grading is      *)
(* caught and its batch goes on.                                             *)
CallFails(p) ==
  /\ call[p] # Idle /\ faults < MaxFaults
  /\ Finish(p) /\ Release(p)
  /\ faults' = faults + 1
  /\ UNCHANGED <<exam, entitled, clock, rows, tick>>

(* The instance restarts, or claimExpired / findPendingGrading throws.       *)
TickAborts(w) ==
  /\ tick[w].phase # "asleep" /\ faults < MaxFaults
  /\ tick' = [tick EXCEPT ![w] = Asleep]
  /\ Finish(w)
  /\ faults' = faults + 1
  /\ UNCHANGED <<exam, entitled, clock, rows, lock>>
-----------------------------------------------------------------------------
Handler(p) ==
  \/ \E u \in User, k \in Kind : Authorize(p, u, k)
  \/ StartEnds(p) \/ StartReads(p) \/ StartCreates(p) \/ StartOverBudget(p)
  \/ \E a \in AttemptId :
       \/ Submit(p, a)
       \/ \E q \in Question, s \in Selection, r \in Revision :
            ReceiveAnswer(p, a, q, s, r)
  \/ SaveAnswer(p) \/ Finalize(p)
  \/ \E s \in Schedule : UpdateMetadata(p, s)
  \/ UpdateContent(p) \/ EditCommits(p)

Grader(p) == GradeReads(p) \/ GradeSkips(p) \/ PersistGrade(p)

WorkerStep(w) ==
  \/ TickStarts(w) \/ ClaimExpired(w) \/ FindPendingGrading(w)
  \/ GradeNext(w) \/ TickEnds(w)

Next ==
  \/ \E p \in Proc : Handler(p)
  \/ \E p \in Proc \cup Worker : Grader(p) \/ CallFails(p)
  \/ \E w \in Worker : WorkerStep(w) \/ TickAborts(w)
  \/ \E u \in User : ChangeEntitlement(u)
  \/ ClockTicks

Spec == Init /\ [][Next]_vars

(* setInterval keeps ticking and awaited calls return: a worker never stops  *)
(* for good. Nothing makes a candidate act or a handler finish.              *)
Fairness == \A w \in Worker : WF_vars(WorkerStep(w)) /\ WF_vars(Grader(w))
FairSpec == Spec /\ Fairness
-----------------------------------------------------------------------------
TypeOK ==
  /\ exam \in Exam /\ entitled \subseteq User /\ clock \in Nat
  /\ attempt \in [AttemptId -> Attempt \cup {NoAttempt}]
  /\ answer \in [AttemptId -> Sheet] /\ result \in [AttemptId -> Grade]
  /\ call \in [Proc \cup Worker -> Call]
  /\ tick \in [Worker -> Tick]
  /\ lock \in Proc \cup {"free"} /\ faults \in Nat

(* A candidate has at most one attempt of a kind in progress, however many   *)
(* tabs start at once and whether or not the worker closed the expired one.  *)
OneOpenAttempt ==
  \A u \in User, k \in Kind :
    \A a, b \in Of(u, k) : Open(a) /\ Open(b) => a = b

(* A candidate never gets more live attempts than maxAttempts, and the       *)
(* attempts of a kind are numbered 1, 2, 3... with no number used twice: the *)
(* unique index on the attempt number never rejects an insert.               *)
AttemptBudget ==
  \A u \in User :
    /\ Cardinality(Of(u, "live")) <= exam.maxAttempts
    /\ \A k \in Kind :
         {attempt[a].number : a \in Of(u, k)} = 1 .. Cardinality(Of(u, k))

(* Once anyone has an attempt the schedule and content no longer change under*)
(* it: every attempt is on the current version; a live one lies inside the   *)
(* current window, and no practice attempt starts before it closes.          *)
ScheduleHolds ==
  \A a \in AttemptId : Exists(a) =>
    /\ attempt[a].version = exam.version
    /\ attempt[a].kind = "live" =>
         /\ exam.startsAt <= attempt[a].startedAt
         /\ attempt[a].startedAt < attempt[a].expiresAt
         /\ attempt[a].expiresAt <= exam.closesAt
    /\ attempt[a].kind = "practice" => exam.closesAt <= attempt[a].startedAt

(* Whoever has a live attempt of an exam that is invite-only now holds an    *)
(* invitation, even if access was checked while the exam was still open.     *)
OnlyInvited ==
  \A a \in AttemptId :
    Exists(a) /\ attempt[a].kind = "live" /\ exam.mode = "INVITE_ONLY"
      => attempt[a].user \in Invited

(* The closing status tells the truth about the closing time, whichever of   *)
(* the candidate, the worker or the next start closed the attempt.           *)
ClosedAsDated ==
  \A a \in AttemptId :
    /\ attempt[a].status = "SUBMITTED" =>
         attempt[a].submittedAt < attempt[a].expiresAt
    /\ attempt[a].status = "AUTO_SUBMITTED" =>
         attempt[a].submittedAt >= attempt[a].expiresAt

(* The first to close an attempt dates it: a slower submission, worker or    *)
(* start never moves submittedAt.                                            *)
FirstCloserWins ==
  [][\A a \in AttemptId : attempt[a].status \in Gradable =>
       attempt'[a].submittedAt = attempt[a].submittedAt]_vars

(* The rows implement the lifecycle promised for each attempt.               *)
PhaseOf(s) == CASE s = "NONE" -> "none" [] s = "IN_PROGRESS" -> "open"
                [] s \in Closed -> "closed" [] OTHER -> "graded"

Lifecycle == INSTANCE AttemptLifecycle WITH
  phase <- [a \in AttemptId |-> PhaseOf(attempt[a].status)],
  paper <- [a \in AttemptId |-> IF Exists(a) THEN attempt[a].version ELSE 0],
  sheet <- answer,
  grade <- result

ImplementsLifecycle == Lifecycle!Spec

(* The workers finish what candidates and crashed handlers leave: an expired *)
(* or submitted attempt is eventually graded, even if some attempts (fewer   *)
(* than the batch limit) can never be.                                       *)
EventuallyGraded ==
  \A a \in AttemptId \ Unreadable :
    (a \in Expired(clock - Skew) \/ attempt[a].status \in Closed) ~> attempt[a].status = "GRADED"
-----------------------------------------------------------------------------
(* The inductive invariant: what a handler read is still true when it writes.*)

(* A start that goes on to write holds the lock, has the exam row as it is,  *)
(* counted the attempts as they are, and found none running.                 *)
CreatesOnFacts(p) ==
  LET c == call[p] IN
  /\ lock = p /\ c.exam = exam
  /\ c.used = Cardinality(Of(c.user, c.kind))
  /\ \A a \in Of(c.user, c.kind) : ~Live(a, c.now)
  /\ c.kind = "live" =>
       /\ exam.startsAt <= c.now /\ c.now < exam.closesAt
       /\ exam.mode = "INVITE_ONLY" => c.user \in Invited
  /\ c.kind = "practice" => exam.closesAt <= c.now

GradesOnFacts(c) ==
  /\ attempt[c.attempt].status \in Gradable
  /\ c.op = "persist" =>
       c.grade = Verdict(answer[c.attempt], attempt[c.attempt].version)

CallOK(p) ==
  LET c == call[p] IN
  /\ c.op = "start" /\ c.kind = "live" /\ c.mode = "INVITE_ONLY" => c.user \in Invited
  /\ c.op = "create" => CreatesOnFacts(p)
  /\ c.op = "edit" => lock = p /\ \A a \in AttemptId : ~Exists(a)
  /\ c.op = "save" => /\ Exists(c.attempt)
                      /\ c.question \in DOMAIN Key[attempt[c.attempt].version]
  /\ c.op = "finalize" => Exists(c.attempt)
  /\ c.op \in {"grade", "persist"} => GradesOnFacts(c)

TickOK(w) ==
  /\ call[w].op \in {"idle", "grade", "persist"}
  /\ \A a \in tick[w].todo :
       /\ tick[w].phase = "claim" =>
            Exists(a) /\ attempt[a].expiresAt <= tick[w].now
       /\ tick[w].phase = "grade" => attempt[a].status \in Gradable

(* A graded attempt carries the grade of its own sheet.                      *)
GradedRight ==
  \A a \in AttemptId : attempt[a].status = "GRADED" =>
    result[a] = Verdict(answer[a], attempt[a].version)

RowsOK == OneOpenAttempt /\ AttemptBudget /\ ScheduleHolds /\ OnlyInvited

Inv ==
  /\ TypeOK /\ RowsOK /\ ClosedAsDated /\ GradedRight
  /\ \A p \in Proc \cup Worker : CallOK(p)
  /\ \A w \in Worker : TickOK(w)
=============================================================================
