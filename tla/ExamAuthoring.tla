---------------------------- MODULE ExamAuthoring ----------------------------
(* Authoring one exam, as in src/src/features/exams/admin-exam: a draft is   *)
(* scheduled, its metadata and its questions are edited until it starts. The *)
(* exam row lives in PostgreSQL and points at a version of the content, which*)
(* lives in MongoDB: no transaction spans the two. An edit takes the exam's  *)
(* advisory lock in a PostgreSQL transaction, writes the next version in     *)
(* MongoDB, commits the row, and then marks the version published.           *)
(*                                                                           *)
(* call[p] says which await the handler p is at. A transaction is open while *)
(* its handler holds lock. Prisma ends an interactive transaction that is    *)
(* older than its timeout, and the handler's code runs on until it next uses *)
(* the transaction: TxTimesOut.                                              *)
EXTENDS Integers

CONSTANTS
  Editor,            \* handler slots
  Pub,               \* publication ids (random UUIDs)
  Window,            \* schedules a scheduling request may ask for
  Patch,             \* partial records a metadata request may carry
  MinWindow,         \* MINIMUM_EXAM_WINDOW_MS
  MaxVersion, MaxTime, MaxFaults \* bounds of the model

Null == -1
Version == 1 .. MaxVersion
Field == {"startsAt", "closesAt", "duration"}
Metadata == [Field -> Nat \cup {Null}]
Unplanned == [f \in Field |-> Null]
Complete(m) == \A f \in Field : m[f] # Null
Fits(m) == m.closesAt - m.startsAt >= MinWindow

ASSUME AuthoringAssumption ==
  /\ MinWindow \in Nat \ {0} /\ MaxVersion \in Nat /\ MaxTime \in Nat /\ MaxFaults \in Nat
  /\ \A w \in Window : w \in [Field -> Nat]
  /\ \A d \in Patch : DOMAIN d \subseteq Field /\ \A f \in DOMAIN d : d[f] \in Nat \cup {Null}
  /\ "free" \notin Editor /\ "none" \notin Pub

VARIABLES
  exam,       \* the row: status, contentVersion and metadata
  committed,  \* history: the publication that committed each version
  content,    \* the ExamData documents, one per version (unique index)
  used,       \* publication ids drawn so far
  started,    \* whether the exam has an attempt
  admin,      \* whether the editors are, right now, admins of an active institution
  call, lock, clock, faults,
  timedOut    \* history: has a transaction timed out

vars == <<exam, committed, content, used, started, admin, call, lock, clock, faults, timedOut>>
env == <<used, started, admin, clock, faults, timedOut>>
-----------------------------------------------------------------------------
NoContent == [pub |-> "none", state |-> "NONE"]
(* The document an edit writes.                                              *)
PendingBy(c) == [pub |-> c.pub, state |-> "PENDING"]
Content == [pub : Pub, state : {"PENDING", "PUBLISHED"}]
Row == [status : {"DRAFT", "SCHEDULED"}, version : {0} \cup Version, meta : Metadata]

Idle == [op |-> "idle"]
RequestCall == [op : {"schedule"}, meta : [Field -> Nat], version : Version]
            \cup [op : {"metadata"}, patch : Patch] \cup [op : {"content"}]
WriteCall == [op : {"write"}, patch : Patch, version : {0} \cup Version, now : Nat]
ContentCall == [op : {"delete", "create", "update", "discard", "publish"},
                version : Version, pub : Pub, now : Nat, plan : Metadata]
Call == {Idle} \cup RequestCall \cup WriteCall \cup ContentCall

Finish(p) == call' = [call EXCEPT ![p] = Idle]
Goto(p, op) == call' = [call EXCEPT ![p].op = op]
Release(p) == lock' = IF lock = p THEN "free" ELSE lock

Init ==
  /\ exam = [status |-> "DRAFT", version |-> 0, meta |-> Unplanned]
  /\ committed = [v \in Version |-> "none"]
  /\ content = [v \in Version |-> NoContent]
  /\ used = {} /\ started = FALSE /\ admin = TRUE
  /\ call = [p \in Editor |-> Idle]
  /\ lock = "free" /\ clock = 0 /\ faults = 0 /\ timedOut = FALSE
-----------------------------------------------------------------------------
(* Requests: what the use cases check before any lock is taken.              *)
NotStarted(r, t) == r.meta["startsAt"] = Null \/ r.meta["startsAt"] > t

(* The DTO and scheduleDraft check the window against the clock.             *)
RequestSchedule(p, m) ==
  /\ call[p] = Idle /\ admin
  /\ exam.status = "DRAFT" /\ exam.version < MaxVersion
  /\ Fits(m) /\ m.closesAt - clock >= MinWindow
  /\ call' = [call EXCEPT ![p] =
                [op |-> "schedule", meta |-> m, version |-> exam.version + 1]]
  /\ UNCHANGED <<exam, committed, content, lock, env>>

RequestEdit(p, c) ==
  /\ call[p] = Idle /\ admin
  /\ NotStarted(exam, clock)
  /\ call' = [call EXCEPT ![p] = c]
  /\ UNCHANGED <<exam, committed, content, lock, env>>
-----------------------------------------------------------------------------
(* Under the advisory lock: the row is read again, and the edit goes on or   *)
(* returns null.                                                             *)
CanSchedule_AnyVersion(c) == admin /\ exam.status = "DRAFT"
CanSchedule(c) ==
  admin /\ exam.status = "DRAFT" /\ exam.version = c.version - 1
CanEditContent == NotStarted(exam, clock) /\ ~started /\ exam.version < MaxVersion

Merge(m, d) == [f \in Field |-> IF f \in DOMAIN d THEN d[f] ELSE m[f]]
ValidMetadata(r, m, t) ==
  \/ r.status = "DRAFT"
  \/ /\ Complete(m) /\ m["startsAt"] > t
     /\ Fits(m) /\ m["closesAt"] - t >= MinWindow
CanEditMetadata(c) ==
  /\ admin /\ NotStarted(exam, clock) /\ ~started
  /\ ValidMetadata(exam, Merge(exam.meta, c.patch), clock)

Refused(p) ==
  LET c == call[p] IN
  /\ lock = "free"
  /\ \/ c.op = "schedule" /\ ~CanSchedule(c)
     \/ c.op = "content" /\ ~CanEditContent
     \/ c.op = "metadata" /\ ~CanEditMetadata(c)
  /\ Finish(p)
  /\ UNCHANGED <<exam, committed, content, lock, env>>

LocksMetadata_Unlocked(p) ==
  LET c == call[p] IN
  /\ c.op = "metadata" /\ CanEditMetadata(c)
  /\ call' = [call EXCEPT ![p] = [op |-> "write", patch |-> c.patch,
                                  version |-> exam.version, now |-> clock]]
  /\ UNCHANGED <<exam, committed, content, lock, env>>
LocksMetadata(p) ==
  LET c == call[p] IN
  /\ c.op = "metadata" /\ lock = "free" /\ CanEditMetadata(c)
  /\ lock' = p
  /\ call' = [call EXCEPT ![p] = [op |-> "write", patch |-> c.patch,
                                  version |-> exam.version, now |-> clock]]
  /\ UNCHANGED <<exam, committed, content, env>>

(* A new version, with a publication id of its own; plan is what scheduling  *)
(* will write to the row, Unplanned when only the questions are edited.      *)
LocksContent(p) ==
  LET c == call[p] IN
  /\ lock = "free"
  /\ \/ c.op = "schedule" /\ CanSchedule(c)
     \/ c.op = "content" /\ CanEditContent
  /\ lock' = p
  /\ \E pub \in Pub \ used :
       /\ used' = used \cup {pub}
       /\ call' = [call EXCEPT ![p] =
            [op |-> "delete", pub |-> pub, now |-> clock,
             version |-> IF c.op = "schedule" THEN c.version ELSE exam.version + 1,
             plan |-> IF c.op = "schedule" THEN c.meta ELSE Unplanned]]
  /\ UNCHANGED <<exam, committed, content, started, admin, clock, faults, timedOut>>
-----------------------------------------------------------------------------
(* The updateMany repeats what was read in its where.                        *)
WritesMetadata(p) ==
  LET c == call[p] IN
  /\ c.op = "write"
  /\ exam' = IF admin /\ exam.version = c.version /\ NotStarted(exam, c.now)
             THEN [exam EXCEPT !.meta = Merge(@, c.patch)] ELSE exam
  /\ Finish(p) /\ Release(p)
  /\ UNCHANGED <<committed, content, env>>

(* deleteOne({examId, version}): whatever an earlier, failed edit left there.*)
DeletesContent(p) ==
  LET c == call[p] IN
  /\ c.op = "delete"
  /\ content' = [content EXCEPT ![c.version] = NoContent]
  /\ Goto(p, "create")
  /\ UNCHANGED <<exam, committed, lock, env>>

(* create: the unique index refuses a second document of the version, which  *)
(* throws and rolls the transaction back.                                    *)
CreatesContent(p) ==
  LET c == call[p] IN
  /\ c.op = "create" /\ content[c.version] = NoContent
  /\ content' = [content EXCEPT ![c.version] = PendingBy(c)]
  /\ Goto(p, "update")
  /\ UNCHANGED <<exam, committed, lock, env>>

CreateCollides(p) ==
  /\ call[p].op = "create" /\ content[call[p].version] # NoContent
  /\ Finish(p) /\ Release(p)
  /\ UNCHANGED <<exam, committed, content, env>>

(* updateMany and commit. A query on a transaction that was ended throws.    *)
Matches(c) ==
  /\ exam.version = c.version - 1
  /\ IF c.plan = Unplanned THEN NotStarted(exam, c.now) ELSE admin /\ exam.status = "DRAFT"

CommitsContent(p) ==
  LET c == call[p] IN
  /\ c.op = "update" /\ lock = p /\ Matches(c)
  /\ exam' = IF c.plan = Unplanned THEN [exam EXCEPT !.version = c.version]
             ELSE [status |-> "SCHEDULED", version |-> c.version, meta |-> c.plan]
  /\ committed' = [committed EXCEPT ![c.version] = c.pub]
  /\ Goto(p, "publish") /\ Release(p)
  /\ UNCHANGED <<content, env>>

UpdateMisses(p) ==
  LET c == call[p] IN
  /\ c.op = "update"
  /\ IF lock = p THEN ~Matches(c) /\ Goto(p, "discard") ELSE Finish(p)
  /\ UNCHANGED <<exam, committed, content, lock, env>>

(* discardPendingContent: only what this edit wrote, then null is returned.  *)
DiscardsContent(p) ==
  LET c == call[p] IN
  /\ c.op = "discard"
  /\ content' = IF content[c.version] = PendingBy(c)
                THEN [content EXCEPT ![c.version] = NoContent] ELSE content
  /\ Finish(p) /\ Release(p)
  /\ UNCHANGED <<exam, committed, env>>

(* publishContent, after the commit.                                         *)
PublishesContent_ByVersion(p) ==
  LET c == call[p] IN
  /\ c.op = "publish"
  /\ content' = IF content[c.version] # NoContent
                THEN [content EXCEPT ![c.version].state = "PUBLISHED"] ELSE content
  /\ Finish(p)
  /\ UNCHANGED <<exam, committed, lock, env>>
PublishesContent(p) ==
  LET c == call[p] IN
  /\ c.op = "publish"
  /\ content' = IF content[c.version] = PendingBy(c)
                THEN [content EXCEPT ![c.version].state = "PUBLISHED"] ELSE content
  /\ Finish(p)
  /\ UNCHANGED <<exam, committed, lock, env>>
-----------------------------------------------------------------------------
(* The environment.                                                          *)

(* A candidate starts (startOrResumeLocked takes the same lock).             *)
Starts ==
  /\ ~started /\ lock = "free"
  /\ exam.status = "SCHEDULED"
  /\ exam.meta["startsAt"] <= clock /\ clock < exam.meta["closesAt"]
  /\ started' = TRUE
  /\ UNCHANGED <<exam, committed, content, used, admin, call, lock, clock, faults, timedOut>>

ClockTicks ==
  /\ clock < MaxTime /\ clock' = clock + 1
  /\ UNCHANGED <<exam, committed, content, used, started, admin, call, lock, faults, timedOut>>

(* Faults, MaxFaults of them.                                                *)
ChangeAdmin ==
  /\ faults < MaxFaults /\ faults' = faults + 1
  /\ admin' = ~admin
  /\ UNCHANGED <<exam, committed, content, used, started, call, lock, clock, timedOut>>

(* The server dies, or a MongoDB or PostgreSQL call throws.                  *)
EditFails(p) ==
  /\ call[p] # Idle /\ faults < MaxFaults /\ faults' = faults + 1
  /\ Finish(p) /\ Release(p)
  /\ UNCHANGED <<exam, committed, content, used, started, admin, clock, timedOut>>

(* The transaction is ended under a handler that waits for MongoDB.          *)
TxTimesOut(p) ==
  /\ lock = p /\ call[p].op \in {"delete", "create", "update", "discard"}
  /\ faults < MaxFaults /\ faults' = faults + 1
  /\ lock' = "free" /\ timedOut' = TRUE
  /\ UNCHANGED <<exam, committed, content, used, started, admin, call, clock>>

Edit(p) ==
  \/ \E m \in Window : RequestSchedule(p, m)
  \/ \E d \in Patch : RequestEdit(p, [op |-> "metadata", patch |-> d])
  \/ RequestEdit(p, [op |-> "content"])
  \/ Refused(p) \/ LocksMetadata(p) \/ WritesMetadata(p)
  \/ LocksContent(p) \/ DeletesContent(p) \/ CreatesContent(p) \/ CreateCollides(p)
  \/ CommitsContent(p) \/ UpdateMisses(p) \/ DiscardsContent(p) \/ PublishesContent(p)

Next ==
  \/ \E p \in Editor : Edit(p) \/ EditFails(p)
  \/ Starts \/ ClockTicks \/ ChangeAdmin

Spec == Init /\ [][Next]_vars

(* The same, where transactions may also time out.                           *)
LossyNext == Next \/ \E p \in Editor : TxTimesOut(p)
LossySpec == Init /\ [][LossyNext]_vars
-----------------------------------------------------------------------------
TypeOK ==
  /\ exam \in Row /\ committed \in [Version -> Pub \cup {"none"}]
  /\ content \in [Version -> Content \cup {NoContent}]
  /\ used \subseteq Pub /\ started \in BOOLEAN /\ admin \in BOOLEAN
  /\ call \in [Editor -> Call] /\ lock \in Editor \cup {"free"}
  /\ clock \in Nat /\ faults \in Nat /\ timedOut \in BOOLEAN

(* Every version the row ever pointed at has its document, and it is the one *)
(* written by the edit that committed that version: what candidates see, and *)
(* are graded against, is what was committed.                                *)
ContentOwned ==
  \A v \in Version : v <= exam.version => content[v].pub = committed[v]

(* That holds, whatever fails and however edits race, as long as no          *)
(* transaction times out.                                                    *)
OwnedUnlessTimedOut == timedOut \/ ContentOwned

(* PUBLISHED is said only of the document whose edit committed.              *)
PublishedCommitted ==
  \A v \in Version : content[v].state = "PUBLISHED" =>
    v <= exam.version /\ content[v].pub = committed[v]

(* A scheduled exam always has a window and a duration that can be taken, and*)
(* content: concurrent edits, each valid against the row it read, do not mix.*)
ScheduledComplete ==
  exam.status = "SCHEDULED" => Complete(exam.meta) /\ Fits(exam.meta) /\ exam.version >= 1

(* The row of an exam that can be taken, with all types.                     *)
ScheduleSound == TypeOK /\ ScheduledComplete

(* Once a candidate has started, the row stays as it is.                     *)
FrozenOnceStarted == [][started => exam' = exam]_vars

(* Why: a transaction that is open writes what it checked, since only the    *)
(* handler with the lock moves the row or the next version's document; one   *)
(* that was ended commits nothing; and a version is committed once.          *)
InTransaction == {"delete", "create", "update", "discard"}
WriteOK(p, c) ==
  /\ lock = p
  /\ exam.status = "SCHEDULED" =>
       Complete(Merge(exam.meta, c.patch)) /\ Fits(Merge(exam.meta, c.patch))
TransactionOK(p, c) ==
  /\ c.plan # Unplanned => c.plan \in [Field -> Nat] /\ Fits(c.plan)
  /\ ~timedOut => lock = p /\ c.version = exam.version + 1
  /\ ~timedOut /\ c.op = "update" => content[c.version] = PendingBy(c)
CallOK(p, c) ==
  /\ c.op = "schedule" => Fits(c.meta)
  /\ c.op = "write" => WriteOK(p, c)
  /\ c.op \in InTransaction => TransactionOK(p, c)
  /\ c.op = "publish" => c.version <= exam.version /\ committed[c.version] = c.pub

Inv ==
  /\ ScheduleSound /\ OwnedUnlessTimedOut /\ PublishedCommitted
  /\ started => exam.status = "SCHEDULED"
  /\ \A p \in Editor :
       /\ CallOK(p, call[p])
       /\ lock = p => call[p].op \in InTransaction \cup {"write"} /\ ~started
=============================================================================
