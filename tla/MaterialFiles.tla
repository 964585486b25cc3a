---------------------------- MODULE MaterialFiles ----------------------------
(* The files of one study material, as in src/src/features/Resources: upload *)
(* intents, direct uploads to the storage provider, completion, replacement, *)
(* deletion, and the cleanup workers. Rows live in PostgreSQL, objects at the*)
(* provider; every service transaction is serializable and takes one lock,   *)
(* so it is one step, and storage calls lie between transactions.            *)
(*                                                                           *)
(* Dates are kept relative to now, since only their distance from now is ever*)
(* asked for: left[f] is how long the intent of f is still valid (negative   *)
(* once it expired), a job's next how long it has to wait, its age how long  *)
(* ago it was claimed. The material's version is only compared with the one  *)
(* the caller saw: c.fresh says that it has not moved since.                 *)
EXTENDS Integers, FiniteSets

CONSTANTS
  File,              \* file ids (random UUIDs)
  Purpose, Required, \* attachments; those publication asks for
  Proc, Worker,
  Ttl,               \* validity of an upload intent
  Grace, Lease,      \* cleanupGraceMs; how long a claimed job is left alone
  Delay,             \* waits after a failed deletion
  LateBy,            \* how long after its expiry a signed upload may still land
  MaxPending, Batch, \* maxPending; cleanupBatch
  MaxFaults          \* bound of the model

ASSUME MaterialAssumption ==
  /\ Required \subseteq Purpose /\ Required # {}
  /\ {Ttl, Grace, Lease, MaxPending, Batch} \subseteq Nat \ {0}
  /\ Delay \subseteq Nat \ {0} /\ MaxFaults \in Nat
  /\ LateBy \in Grace .. 2 * Grace
  /\ "none" \notin Worker \cup File
ASSUME FileAssumption == IsFiniteSet(File)

VARIABLES
  status,  \* of the material
  managed, \* whether the uploader may manage it right now
  file, job, left,
  object,  \* what the storage provider has under each file's key
  issued,  \* files whose upload URL reached the client
  call, tick,
  faults

rows == <<file, job>>
vars == <<status, managed, file, job, left, object, issued, call, tick, faults>>
-----------------------------------------------------------------------------
Status == {"DRAFT", "PUBLISHED", "ARCHIVED", "DELETED"}
NoFile == [state |-> "NONE"]
FileRow == [purpose : Purpose, state : {"PENDING", "READY", "REJECTED"},
            attached : BOOLEAN, cleanup : {"NONE", "QUEUED", "DONE"}]
NoJob == [state |-> "NONE"]
(* late: last_error is VERIFY_LATE_UPLOAD, one deletion has been made.       *)
JobRow == [state : {"OPEN", "COMPLETED"}, next : Nat, late : BOOLEAN,
           claim : Worker \cup {"none"}, age : 0 .. Lease + 1]

Idle == [op |-> "idle"]
SaveCall == [op : {"save", "compensate"}, file : File, purpose : Purpose, fresh : BOOLEAN]
CompleteCall == [op : {"inspect", "attach", "reject"}, file : File, fresh : BOOLEAN]
Call == {Idle} \cup SaveCall \cup CompleteCall

Asleep == [phase |-> "asleep"]
Tick == {Asleep} \cup [phase : {"next", "delete", "settle", "postpone"}, todo : SUBSET File,
                       late : SUBSET File, file : File \cup {"none"}]

Exists(f) == file[f] # NoFile
Pending(f) == Exists(f) /\ file[f].state = "PENDING"
Attached(f) == Exists(f) /\ file[f].attached
Waiting == {f \in File : Pending(f) /\ left[f] > 0}
Manages == managed /\ status # "DELETED"

Finish(p) == call' = [call EXCEPT ![p] = Idle]
Goto(p, op) == call' = [call EXCEPT ![p].op = op]

(* bump: p's own call is over, and every other one has seen an old version.  *)
Bump(p) ==
  call' = [q \in Proc |-> IF q = p \/ call[q] = Idle THEN Idle
                          ELSE [call[q] EXCEPT !.fresh = FALSE]]

Init ==
  /\ status = "DRAFT" /\ managed = TRUE
  /\ file = [f \in File |-> NoFile] /\ job = [f \in File |-> NoJob]
  /\ left = [f \in File |-> 0]
  /\ object = [f \in File |-> "none"] /\ issued = {}
  /\ call = [p \in Proc |-> Idle] /\ tick = [w \in Worker |-> Asleep]
  /\ faults = 0
-----------------------------------------------------------------------------
(* queue: detach and hand over to the cleanup, keeping a job that is there.  *)
Retired(r) == [r EXCEPT !.attached = FALSE, !.cleanup = "QUEUED",
                        !.state = IF @ = "PENDING" THEN "REJECTED" ELSE @]
After(f) == IF left[f] + Grace < 0 THEN 0 ELSE left[f] + Grace
Job(f) == [state |-> "OPEN", next |-> After(f), late |-> FALSE, claim |-> "none", age |-> 0]

RetireFiles(S) == [f \in File |-> IF f \in S THEN Retired(file[f]) ELSE file[f]]
Enqueue(S) == [f \in File |-> IF f \in S /\ job[f] = NoJob THEN Job(f) ELSE job[f]]

(* upload: two transactions with the signing of the URL between them.        *)
Intent(u) == [purpose |-> u, state |-> "PENDING", attached |-> FALSE, cleanup |-> "NONE"]
Held(f) == \E p \in Proc : call[p] # Idle /\ call[p].file = f

RequestUpload(p, u) ==
  /\ call[p] = Idle /\ Manages
  /\ Cardinality(Waiting) < MaxPending
  /\ \E f \in File :
       /\ ~Exists(f) /\ ~Held(f)
       /\ left' = [left EXCEPT ![f] = Ttl]
       /\ call' = [call EXCEPT ![p] =
                     [op |-> "save", file |-> f, purpose |-> u, fresh |-> TRUE]]
  /\ UNCHANGED <<status, managed, rows, object, issued, tick, faults>>

MaySave_Checked(c) == Manages /\ c.fresh
MaySave(c) == Manages /\ c.fresh /\ Cardinality(Waiting) < MaxPending

SaveUpload(p) ==
  LET c == call[p] IN
  /\ c.op = "save" /\ MaySave(c)
  /\ file' = [file EXCEPT ![c.file] = Intent(c.purpose)]
  /\ issued' = issued \cup {c.file}
  /\ Finish(p)
  /\ UNCHANGED <<status, managed, job, left, object, tick, faults>>

SaveRefused(p) ==
  /\ call[p].op = "save" /\ ~MaySave(call[p])
  /\ Goto(p, "compensate")
  /\ UNCHANGED <<status, managed, rows, left, object, issued, tick, faults>>

(* The URL has not left the server: the row is written as one to clean up.   *)
Compensates(p) ==
  LET c == call[p] IN
  /\ c.op = "compensate"
  /\ file' = [file EXCEPT ![c.file] = Retired(Intent(c.purpose))]
  /\ job' = Enqueue({c.file})
  /\ Finish(p)
  /\ UNCHANGED <<status, managed, left, object, issued, tick, faults>>
-----------------------------------------------------------------------------
(* complete: check, inspect the object, check again and attach.              *)
Usable(f) == Pending(f) /\ file[f].cleanup = "NONE" /\ left[f] > 0

(* A completion that finds the file attached, or not usable, changes nothing.*)
Previous(f) == {g \in File \ {f} : Attached(g) /\ file[g].purpose = file[f].purpose}

Complete_RetiresFirst(p, f) ==
  /\ call[p] = Idle /\ Manages /\ Usable(f)
  /\ call' = [call EXCEPT ![p] = [op |-> "inspect", file |-> f, fresh |-> TRUE]]
  /\ file' = RetireFiles(Previous(f)) /\ job' = Enqueue(Previous(f))
  /\ UNCHANGED <<status, managed, left, object, issued, tick, faults>>
Complete(p, f) ==
  /\ call[p] = Idle /\ Manages /\ Usable(f)
  /\ call' = [call EXCEPT ![p] = [op |-> "inspect", file |-> f, fresh |-> TRUE]]
  /\ UNCHANGED <<status, managed, rows, left, object, issued, tick, faults>>

Inspects(p) ==
  LET c == call[p] IN
  /\ c.op = "inspect"
  /\ CASE object[c.file] = "good" -> Goto(p, "attach")
       [] object[c.file] = "bad"  -> Goto(p, "reject")
       [] OTHER                   -> Finish(p)
  /\ UNCHANGED <<status, managed, rows, left, object, issued, tick, faults>>

MayAttach_Stale(c) == Manages /\ c.fresh
MayAttach(c) == Manages /\ c.fresh /\ Usable(c.file)

Attaches_KeepsPrevious(p) ==
  LET c == call[p] IN
  /\ c.op = "attach" /\ MayAttach(c)
  /\ file' = [file EXCEPT ![c.file].state = "READY", ![c.file].attached = TRUE]
  /\ Bump(p)
  /\ UNCHANGED <<status, managed, job, left, object, issued, tick, faults>>
Attaches(p) ==
  LET c == call[p]
      R == Previous(c.file) IN
  /\ c.op = "attach" /\ MayAttach(c)
  /\ file' = [RetireFiles(R) EXCEPT ![c.file].state = "READY", ![c.file].attached = TRUE]
  /\ job' = Enqueue(R)
  /\ Bump(p)
  /\ UNCHANGED <<status, managed, left, object, issued, tick, faults>>

AttachEnds(p) ==
  /\ call[p].op = "attach" /\ ~MayAttach(call[p])
  /\ Finish(p)
  /\ UNCHANGED <<status, managed, rows, left, object, issued, tick, faults>>

(* What was uploaded is not what was declared.                               *)
Rejects(p) ==
  LET S == {call[p].file} \cap {f \in File : Pending(f)} IN
  /\ call[p].op = "reject"
  /\ file' = RetireFiles(S) /\ job' = Enqueue(S)
  /\ Finish(p)
  /\ UNCHANGED <<status, managed, left, object, issued, tick, faults>>
-----------------------------------------------------------------------------
(* transition and update, one transaction each, by any manager (or, to       *)
(* feature the material, a global admin); managed is about the uploader.     *)
Active(f, u) == /\ Attached(f) /\ file[f].purpose = u
                /\ file[f].state = "READY" /\ file[f].cleanup = "NONE"
Ready == \A u \in Required : \E f \in File : Active(f, u)

BumpAll ==
  call' = [q \in Proc |-> IF call[q] = Idle THEN Idle ELSE [call[q] EXCEPT !.fresh = FALSE]]

Moves(from, to) ==
  /\ status = from /\ status' = to
  /\ to = "PUBLISHED" => Ready
  /\ BumpAll
  /\ UNCHANGED <<managed, rows, left, object, issued, tick, faults>>

Transition ==
  Moves("DRAFT", "PUBLISHED") \/ Moves("PUBLISHED", "ARCHIVED") \/ Moves("ARCHIVED", "DRAFT")

Update ==
  /\ status # "DELETED" /\ BumpAll
  /\ UNCHANGED <<status, managed, rows, left, object, issued, tick, faults>>

Delete ==
  LET S == {f \in File : Attached(f) \/ Pending(f)} IN
  /\ status # "DELETED" /\ status' = "DELETED"
  /\ file' = RetireFiles(S) /\ job' = Enqueue(S)
  /\ BumpAll
  /\ UNCHANGED <<managed, left, object, issued, tick, faults>>
-----------------------------------------------------------------------------
(* The cleanup worker, one tick at a time (the running flag). The claim token*)
(* is new for every tick; the worker's name serves, since a tick asks only   *)
(* about jobs that it claimed itself.                                        *)

(* Batch of the files in at, the oldest first, ties any way.                 *)
Oldest(at) ==
  {B \in SUBSET DOMAIN at :
     /\ Cardinality(B) = IF Cardinality(DOMAIN at) < Batch THEN Cardinality(DOMAIN at) ELSE Batch
     /\ \A f \in B, g \in DOMAIN at \ B : at[f] <= at[g]}

Overdue_Never == {}
Overdue == {f \in File : Pending(f) /\ file[f].cleanup = "NONE" /\ left[f] <= 0}
Claimable(fs, js) ==
  {f \in File :
     /\ js[f].state = "OPEN" /\ js[f].next = 0
     /\ js[f].claim = "none" \/ js[f].age > Lease
     /\ ~fs[f].attached /\ fs[f].cleanup = "QUEUED" /\ left[f] + Grace <= 0}

TickClaims(w) ==
  /\ tick[w] = Asleep
  /\ \E S \in Oldest([f \in Overdue |-> left[f]]) :
       LET fs == RetireFiles(S)
           js == Enqueue(S)
       IN  \E B \in Oldest([f \in Claimable(fs, js) |-> js[f].next]) :
             /\ file' = fs
             /\ job' = [f \in File |-> IF f \in B THEN [js[f] EXCEPT !.claim = w, !.age = 0]
                                       ELSE js[f]]
             /\ tick' = [tick EXCEPT ![w] =
                  [phase |-> "next", todo |-> B, late |-> {f \in B : js[f].late},
                   file |-> "none"]]
  /\ UNCHANGED <<status, managed, left, object, issued, call, faults>>

(* The row is read again, and passed over when it is no longer ours to clean.*)
TickNext(w) ==
  LET t == tick[w] IN
  /\ t.phase = "next"
  /\ \E f \in t.todo :
       tick' = [tick EXCEPT ![w] =
         IF ~file[f].attached /\ file[f].cleanup = "QUEUED" /\ job[f].claim = w
         THEN [t EXCEPT !.phase = "delete", !.todo = t.todo \ {f}, !.file = f]
         ELSE [t EXCEPT !.todo = t.todo \ {f}]]
  /\ UNCHANGED <<status, managed, rows, left, object, issued, call, faults>>

(* An object that is not there counts as deleted.                            *)
DeletesObject(w) ==
  /\ tick[w].phase = "delete"
  /\ object' = [object EXCEPT ![tick[w].file] = "none"]
  /\ tick' = [tick EXCEPT ![w].phase = "settle"]
  /\ UNCHANGED <<status, managed, rows, left, issued, call, faults>>

(* After the first deletion the job waits another grace period, for an upload*)
(* that comes late; after the second it is done.                             *)
Settles_AtOnce(w) ==
  LET f == tick[w].file IN
  /\ tick[w].phase = "settle"
  /\ IF job[f].claim = w
     THEN /\ job' = [job EXCEPT ![f] = [@ EXCEPT !.claim = "none", !.age = 0, !.next = Grace,
                                                 !.late = FALSE, !.state = "COMPLETED"]]
          /\ file' = [file EXCEPT ![f].cleanup = "DONE"]
     ELSE UNCHANGED rows
  /\ tick' = [tick EXCEPT ![w] = [@ EXCEPT !.phase = "next", !.file = "none"]]
  /\ UNCHANGED <<status, managed, left, object, issued, call, faults>>
Settles(w) ==
  LET f == tick[w].file
      done == f \in tick[w].late IN
  /\ tick[w].phase = "settle"
  /\ IF job[f].claim = w
     THEN /\ job' = [job EXCEPT ![f] = [@ EXCEPT !.claim = "none", !.age = 0, !.next = Grace,
                       !.late = ~done, !.state = IF done THEN "COMPLETED" ELSE "OPEN"]]
          /\ file' = IF done /\ ~file[f].attached /\ file[f].cleanup = "QUEUED"
                     THEN [file EXCEPT ![f].cleanup = "DONE"] ELSE file
     ELSE UNCHANGED rows
  /\ tick' = [tick EXCEPT ![w] = [@ EXCEPT !.phase = "next", !.file = "none"]]
  /\ UNCHANGED <<status, managed, left, object, issued, call, faults>>

(* The deletion, or settling it, threw: the job is tried again later.        *)
Postpones(w) ==
  LET f == tick[w].file IN
  /\ tick[w].phase = "postpone"
  /\ IF job[f].claim = w
     THEN \E d \in Delay :
            job' = [job EXCEPT ![f] = [@ EXCEPT !.claim = "none", !.age = 0, !.next = d,
                                                !.late = FALSE]]
     ELSE UNCHANGED job
  /\ tick' = [tick EXCEPT ![w] = [@ EXCEPT !.phase = "next", !.file = "none"]]
  /\ UNCHANGED <<status, managed, file, left, object, issued, call, faults>>

TickEnds(w) ==
  /\ tick[w].phase = "next" /\ tick[w].todo = {}
  /\ tick' = [tick EXCEPT ![w] = Asleep]
  /\ UNCHANGED <<status, managed, rows, left, object, issued, call, faults>>
-----------------------------------------------------------------------------
(* The environment.                                                          *)

(* The client uploads to the provider, which overwrites nothing. An upload   *)
(* begun in time may land late, also where an object was deleted.            *)
Uploads(f) ==
  /\ f \in issued /\ object[f] = "none" /\ left[f] > -LateBy
  /\ \E o \in {"good", "bad"} : object' = [object EXCEPT ![f] = o]
  /\ UNCHANGED <<status, managed, rows, left, issued, call, tick, faults>>

(* Time passes; what is far enough in the past stays there.                  *)
ClockTicks ==
  /\ left' = [f \in File |-> IF (Exists(f) \/ Held(f)) /\ left[f] > -LateBy
                             THEN left[f] - 1 ELSE left[f]]
  /\ job' = [f \in File |->
       IF job[f] = NoJob THEN NoJob
       ELSE [job[f] EXCEPT !.next = IF @ = 0 THEN 0 ELSE @ - 1,
                           !.age = IF job[f].claim = "none" \/ @ > Lease THEN @ ELSE @ + 1]]
  /\ UNCHANGED <<status, managed, file, object, issued, call, tick, faults>>

Fault == faults < MaxFaults /\ faults' = faults + 1

(* An institution's admin leaves or returns.                                 *)
ChangeManager ==
  /\ Fault /\ managed' = ~managed
  /\ UNCHANGED <<status, rows, left, object, issued, call, tick>>

(* A call dies, or the database or the provider throws.                      *)
CallFails(p) ==
  /\ Fault /\ call[p] # Idle /\ Finish(p)
  /\ UNCHANGED <<status, managed, rows, left, object, issued, tick>>

(* The second transaction of an upload fails, or commits unnoticed.          *)
SaveThrows(p) ==
  LET c == call[p] IN
  /\ Fault /\ c.op = "save"
  /\ \/ UNCHANGED file
     \/ MaySave(c) /\ file' = [file EXCEPT ![c.file] = Intent(c.purpose)]
  /\ Goto(p, "compensate")
  /\ UNCHANGED <<status, managed, job, left, object, issued, tick>>

(* The deletion throws, done or not, or the transaction after it does.       *)
DeleteFails(w) ==
  /\ Fault /\ tick[w].phase \in {"delete", "settle"}
  /\ tick' = [tick EXCEPT ![w].phase = "postpone"]
  /\ UNCHANGED <<status, managed, rows, left, object, issued, call>>

(* The instance restarts, or a query of the tick throws.                     *)
TickAborts(w) ==
  /\ Fault /\ tick[w] # Asleep
  /\ tick' = [tick EXCEPT ![w] = Asleep]
  /\ UNCHANGED <<status, managed, rows, left, object, issued, call>>
-----------------------------------------------------------------------------
Handler(p) ==
  \/ \E u \in Purpose : RequestUpload(p, u)
  \/ SaveUpload(p) \/ SaveRefused(p) \/ Compensates(p)
  \/ \E f \in File : Complete(p, f)
  \/ Inspects(p) \/ Attaches(p) \/ AttachEnds(p) \/ Rejects(p)
  \/ CallFails(p) \/ SaveThrows(p)

WorkerStep(w) ==
  \/ TickClaims(w) \/ TickNext(w) \/ DeletesObject(w) \/ Settles(w)
  \/ Postpones(w) \/ TickEnds(w)

Next ==
  \/ \E p \in Proc : Handler(p)
  \/ Transition \/ Update \/ Delete
  \/ \E w \in Worker : WorkerStep(w) \/ DeleteFails(w) \/ TickAborts(w)
  \/ \E f \in File : Uploads(f)
  \/ ClockTicks \/ ChangeManager

Spec == Init /\ [][Next]_vars

(* setInterval keeps ticking, what is awaited returns, and time passes.      *)
FairSpec ==
  /\ Spec /\ WF_vars(ClockTicks)
  /\ \A w \in Worker : WF_vars(WorkerStep(w))
-----------------------------------------------------------------------------
TypeOK ==
  /\ status \in Status /\ managed \in BOOLEAN
  /\ file \in [File -> FileRow \cup {NoFile}] /\ job \in [File -> JobRow \cup {NoJob}]
  /\ left \in [File -> -LateBy .. Ttl]
  /\ object \in [File -> {"none", "good", "bad"}] /\ issued \subseteq File
  /\ call \in [Proc -> Call] /\ tick \in [Worker -> Tick] /\ faults \in Nat

(* What is attached can be read: its object is the verified one, no cleanup, *)
(* late claim or compensation ever deletes it.                               *)
AttachedStored == \A f \in File : Attached(f) => object[f] = "good"

(* One attachment per purpose: the unique indexes never reject a completion. *)
OneAttached ==
  \A f, g \in File : Attached(f) /\ Attached(g) /\ file[f].purpose = file[g].purpose => f = g

(* A published material keeps what publication asked for, through every      *)
(* replacement, failed or not.                                               *)
PublishedReady == status = "PUBLISHED" => Ready

(* One uploader never has more than MaxPending intents that can be used.     *)
PendingCap == Cardinality(Waiting) <= MaxPending

(* Cleaned up means gone for good: no upload can land there any more.        *)
DoneIsGone ==
  \A f \in File : Exists(f) /\ file[f].cleanup = "DONE" =>
    object[f] = "none" /\ (f \in issued => left[f] <= -LateBy)

(* The two sides of the cleanup, with all types: it never takes what is in   *)
(* use, and what it has taken does not come back.                            *)
CleanupSound == TypeOK /\ AttachedStored /\ DoneIsGone

(* A file once handed over to the cleanup is never attached again.           *)
NeverReattached ==
  [][\A f \in File : Exists(f) /\ file[f].cleanup # "NONE" => ~file'[f].attached]_vars

(* In the end the provider keeps no object but the attached ones, unless     *)
(* leases go on running out under workers that are still at it.              *)
TakesOver ==
  \E w \in Worker, f \in File :
    /\ tick[w] # Asleep /\ f \in tick[w].todo \cup {tick[w].file}
    /\ job[f].claim = w /\ job'[f].claim \notin {w, "none"}
NoOrphans ==
  <>[][~TakesOver]_vars => <>[](\A f \in File : object[f] # "none" => Attached(f))

(* Why: only an upload whose URL was given out has an object; a file with a  *)
(* cleanup job is never attached again, and no call but the one that drew its*)
(* id writes a file that is not there yet; who is to delete an object for the*)
(* last time does so after any upload to it may land.                        *)
FileOK(f) ==
  /\ Attached(f) => /\ file[f].state = "READY" /\ file[f].cleanup = "NONE"
                    /\ object[f] = "good"
  /\ f \in issued => Exists(f)
  /\ object[f] # "none" => f \in issued
  /\ job[f] # NoJob => /\ Exists(f) /\ file[f].cleanup # "NONE"
                       /\ job[f].late => left[f] + LateBy <= job[f].next
  /\ Exists(f) /\ file[f].cleanup = "DONE" => left[f] + LateBy <= 0 /\ object[f] = "none"

Saving == {"save", "compensate"}
CallOK(p) ==
  LET c == call[p] IN
  /\ c.op = "save" => ~Exists(c.file)
  /\ c.op = "compensate" => c.file \notin issued
  /\ c.op \in Saving => \A q \in Proc \ {p} : call[q].op \in Saving => call[q].file # c.file
  /\ c.op \in {"inspect", "attach", "reject"} => Exists(c.file)
  /\ c.op = "attach" /\ file[c.file].cleanup = "NONE" => object[c.file] = "good"

TickOK(w) ==
  LET t == tick[w] IN
  t.phase # "asleep" =>
    /\ t.phase = "next" \/ t.file \in File
    /\ \A f \in File \cap (t.todo \cup {t.file}) :
         /\ job[f] # NoJob /\ left[f] + Grace <= 0
         /\ f \in t.late => left[f] + LateBy <= 0
    /\ t.phase = "settle" /\ t.file \in t.late => object[t.file] = "none"

Inv ==
  /\ TypeOK /\ OneAttached /\ PublishedReady /\ PendingCap
  /\ \A f \in File : FileOK(f)
  /\ \A p \in Proc : CallOK(p)
  /\ \A w \in Worker : TickOK(w)
=============================================================================
