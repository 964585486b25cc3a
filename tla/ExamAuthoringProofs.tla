------------------------- MODULE ExamAuthoringProofs -------------------------
(* Proofs about ExamAuthoring for every value of its constants. They are     *)
(* about LossySpec, whose transactions may time out; Spec is a part of it.   *)
EXTENDS ExamAuthoring, TLAPS

(* What a call holds follows from its op.                                    *)
LEMMA CallFields ==
  ASSUME NEW c \in Call
  PROVE  /\ c.op = "schedule" => c.meta \in [Field -> Nat] /\ c.version \in Version
         /\ c.op = "metadata" => c.patch \in Patch
         /\ c.op = "write" => c \in WriteCall
         /\ c.op \in InTransaction \cup {"publish"} => c \in ContentCall
  BY DEF Call, Idle, RequestCall, WriteCall, ContentCall, InTransaction

LEMMA ContentFields ==
  ASSUME NEW c \in ContentCall
  PROVE  /\ c.version \in Version /\ c.pub \in Pub /\ c.now \in Nat /\ c.plan \in Metadata
         /\ PendingBy(c) \in Content
  BY DEF ContentCall, PendingBy, Content

(* Moving a call on within an edit of the content keeps what it holds.       *)
LEMMA GotoFacts ==
  ASSUME call \in [Editor -> Call], NEW p \in Editor, call[p] \in ContentCall,
         NEW op \in {"delete", "create", "update", "discard", "publish"}, Goto(p, op)
  PROVE  /\ call' \in [Editor -> Call] /\ call'[p] \in ContentCall
         /\ call'[p].op = op
         /\ call'[p].version = call[p].version /\ call'[p].pub = call[p].pub
         /\ call'[p].now = call[p].now /\ call'[p].plan = call[p].plan
         /\ \A q \in Editor : q # p => call'[q] = call[q]
  <1>1. [call[p] EXCEPT !.op = op] \in ContentCall  BY DEF ContentCall
  <1>2. call' = [call EXCEPT ![p] = [call[p] EXCEPT !.op = op]]  BY DEF Goto
  <1>3. call'[p] = [call[p] EXCEPT !.op = op]  BY <1>2
  <1>4. /\ call'[p].op = op
        /\ call'[p].version = call[p].version /\ call'[p].pub = call[p].pub
        /\ call'[p].now = call[p].now /\ call'[p].plan = call[p].plan
    BY <1>3 DEF ContentCall
  <1>5. call' \in [Editor -> Call]  BY <1>1, <1>2 DEF Call
  <1> QED BY <1>1, <1>2, <1>3, <1>4, <1>5

LEMMA FinishFacts ==
  ASSUME call \in [Editor -> Call], NEW p \in Editor, Finish(p)
  PROVE  /\ call' \in [Editor -> Call] /\ call'[p] = Idle
         /\ \A q \in Editor : q # p => call'[q] = call[q]
  BY DEF Finish, Call

(* The lock that is released is one's own.                                   *)
LEMMA ReleaseFacts ==
  ASSUME lock \in Editor \cup {"free"}, NEW p \in Editor, Release(p)
  PROVE  /\ lock' \in Editor \cup {"free"} /\ lock' # p
         /\ \A q \in Editor : q # p => (lock' = q <=> lock = q)
  BY AuthoringAssumption DEF Release

(* Metadata stay metadata when a patch is merged in.                         *)
LEMMA MergeType ==
  ASSUME NEW m \in Metadata, NEW d \in Patch
  PROVE  Merge(m, d) \in Metadata
  BY AuthoringAssumption DEF Merge, Metadata

(* The row's metadata are replaced, or its version moved on.                 *)
LEMMA RowMeta ==
  ASSUME NEW r \in Row, NEW m \in Metadata
  PROVE  /\ [r EXCEPT !.meta = m] \in Row
         /\ [r EXCEPT !.meta = m].meta = m /\ [r EXCEPT !.meta = m].status = r.status
         /\ [r EXCEPT !.meta = m].version = r.version
  BY DEF Row

LEMMA RowVersion ==
  ASSUME NEW r \in Row, NEW v \in Version
  PROVE  /\ [r EXCEPT !.version = v] \in Row
         /\ [r EXCEPT !.version = v].version = v /\ [r EXCEPT !.version = v].status = r.status
         /\ [r EXCEPT !.version = v].meta = r.meta
  BY DEF Row

LEMMA InvInit == Init => Inv
  <1> SUFFICES ASSUME Init PROVE Inv  OBVIOUS
  <1>1. Unplanned \in Metadata  BY DEF Unplanned, Metadata
  <1>2. [status |-> "DRAFT", version |-> 0, meta |-> Unplanned] \in Row
    BY <1>1 DEF Row
  <1>3. TypeOK  BY <1>2 DEF Init, TypeOK, Call
  <1>4. /\ exam.status = "DRAFT" /\ exam.version = 0 /\ started = FALSE /\ lock = "free"
        /\ \A v \in Version : content[v].state = "NONE"
        /\ \A p \in Editor : call[p].op = "idle"
    BY DEF Init, NoContent, Idle
  <1>5. ScheduleSound  BY <1>3, <1>4 DEF ScheduleSound, ScheduledComplete
  <1>6. OwnedUnlessTimedOut /\ PublishedCommitted
    BY <1>4 DEF OwnedUnlessTimedOut, ContentOwned, PublishedCommitted, Version
  <1>7. \A p \in Editor : /\ CallOK(p, call[p])
                          /\ lock # p
    BY <1>4, AuthoringAssumption DEF CallOK, InTransaction
  <1> QED BY <1>4, <1>5, <1>6, <1>7 DEF Inv

-----------------------------------------------------------------------------
(* A call that is not touched stays in order as long as nobody writes what   *)
(* it has locked: who writes, or is in a transaction that stands, holds it.  *)
LEMMA CallStays ==
  ASSUME Inv, NEW q \in Editor, call'[q] = call[q],
         timedOut => timedOut', lock = q => (lock' = q \/ timedOut'),
         call[q].op = "write" => UNCHANGED <<exam, lock>>,
         call[q].op \in InTransaction /\ ~timedOut' =>
           /\ exam'.version = exam.version
           /\ content'[call[q].version] = content[call[q].version],
         call[q].op = "publish" =>
           /\ exam.version <= exam'.version /\ exam'.version \in Nat
           /\ committed'[call[q].version] = committed[call[q].version]
  PROVE  CallOK(q, call[q])'
  <1> DEFINE c == call[q]
  <1>1. c \in Call /\ CallOK(q, c) /\ exam \in Row
    BY DEF Inv, ScheduleSound, TypeOK
  <1>2. CASE c.op = "write"
    BY <1>1, <1>2 DEF CallOK, WriteOK, InTransaction
  <1>3. CASE c.op \in InTransaction
    BY <1>1, <1>3 DEF CallOK, TransactionOK, InTransaction
  <1>4. CASE c.op = "publish"
    <2>1. c.version \in Nat /\ exam.version \in Nat
      BY <1>1, <1>4, CallFields, ContentFields, AuthoringAssumption DEF Row, Version
    <2> QED BY <1>1, <1>4, <2>1 DEF CallOK, InTransaction
  <1>5. CASE c.op \notin InTransaction \cup {"write", "publish"}
    BY <1>1, <1>5 DEF CallOK
  <1> QED BY <1>2, <1>3, <1>4, <1>5

(* A step that moves calls and the lock only.                                *)
LEMMA RowsStay ==
  ASSUME Inv, TypeOK', UNCHANGED <<exam, committed, content>>, timedOut => timedOut',
         started' # started => exam.status = "SCHEDULED",
         \A p \in Editor :
           /\ CallOK(p, call[p])'
           /\ lock' = p => call'[p].op \in InTransaction \cup {"write"} /\ ~started'
  PROVE  Inv'
  BY DEF Inv, ScheduleSound, ScheduledComplete, OwnedUnlessTimedOut, ContentOwned,
     PublishedCommitted, TypeOK

(* Only the handler that holds the lock writes, or is in a transaction that  *)
(* stands.                                                                   *)
LEMMA Exclusive ==
  ASSUME Inv, NEW q \in Editor,
         call[q].op = "write" \/ (call[q].op \in InTransaction /\ ~timedOut)
  PROVE  lock = q
  BY DEF Inv, CallOK, WriteOK, TransactionOK, InTransaction

(* Steps of the environment, or of a handler that holds no lock and ends, or *)
(* begins what it will look at only under the lock.                          *)
LEMMA Asks ==
  ASSUME Inv, NEW p \in Editor, NEW c \in Call, call' = [call EXCEPT ![p] = c],
         c.op \in {"idle", "schedule", "metadata", "content"},
         c.op = "schedule" => Fits(c.meta),
         (lock' = lock /\ lock # p) \/ Release(p),
         UNCHANGED <<exam, committed, content, started, timedOut>>,
         used' \subseteq Pub, admin' \in BOOLEAN, clock' \in Nat, faults' \in Nat
  PROVE  Inv'
  <1>1. TypeOK  BY DEF Inv, ScheduleSound
  <1>2. /\ lock' \in Editor \cup {"free"} /\ lock' # p
        /\ \A q \in Editor : q # p => (lock' = q <=> lock = q)
    BY <1>1, ReleaseFacts DEF TypeOK
  <1>3. call' \in [Editor -> Call] /\ call'[p] = c
        /\ \A q \in Editor : q # p => call'[q] = call[q]
    BY <1>1 DEF TypeOK
  <1>4. TypeOK'  BY <1>1, <1>2, <1>3 DEF TypeOK
  <1>5. ASSUME NEW q \in Editor
        PROVE  /\ CallOK(q, call[q])'
               /\ lock' = q => call'[q].op \in InTransaction \cup {"write"} /\ ~started'
    <2>1. CASE q = p
      BY <1>2, <1>3, <2>1 DEF CallOK, InTransaction
    <2>2. CASE q # p
      <3>1. call[q].op = "write" => lock' = lock  BY <1>2, <2>2, Exclusive
      <3>2. exam \in Row  BY <1>1 DEF TypeOK
      <3>3. exam.version \in Nat /\ exam.version <= exam.version
        BY <3>2, AuthoringAssumption DEF Row, Version
      <3>4. CallOK(q, call[q])'  BY <1>2, <1>3, <2>2, <3>1, <3>3, CallStays
      <3> QED BY <1>2, <1>3, <2>2, <3>4 DEF Inv
    <2> QED BY <2>1, <2>2
  <1> QED BY <1>4, <1>5, RowsStay

-----------------------------------------------------------------------------
(* A handler takes the lock: its call becomes one of a transaction, which    *)
(* will write what it checks here.                                           *)
LEMMA Locks ==
  ASSUME Inv, NEW p \in Editor, NEW c \in Call, call' = [call EXCEPT ![p] = c],
         c.op \in {"delete", "write"}, lock = "free", lock' = p, ~started,
         c.op = "write" => WriteOK(p, c)',
         c.op = "delete" => TransactionOK(p, c)',
         UNCHANGED <<exam, committed, content, started, admin, clock, faults, timedOut>>,
         used' \subseteq Pub
  PROVE  Inv'
  <1>1. TypeOK  BY DEF Inv, ScheduleSound
  <1>2. call' \in [Editor -> Call] /\ call'[p] = c
        /\ \A q \in Editor : q # p => call'[q] = call[q]
    BY <1>1 DEF TypeOK
  <1>3. TypeOK'  BY <1>1, <1>2 DEF TypeOK
  <1>4. ASSUME NEW q \in Editor
        PROVE  /\ CallOK(q, call[q])'
               /\ lock' = q => call'[q].op \in InTransaction \cup {"write"} /\ ~started'
    <2>1. CASE q = p
      BY <1>2, <2>1 DEF CallOK, InTransaction
    <2>2. CASE q # p
      <3>1. lock # q /\ lock' # q  BY <2>2, AuthoringAssumption
      <3>2. call[q].op # "write"  BY <3>1, Exclusive
      <3>3. exam \in Row  BY <1>1 DEF TypeOK
      <3>4. exam.version \in Nat /\ exam.version <= exam.version
        BY <3>3, AuthoringAssumption DEF Row, Version
      <3>5. CallOK(q, call[q])'  BY <1>2, <2>2, <3>1, <3>2, <3>4, CallStays
      <3> QED BY <3>1, <3>5
    <2> QED BY <2>1, <2>2
  <1> QED BY <1>3, <1>4, RowsStay

(* A handler in a transaction, standing or not, writes or removes a document.*)
LEMMA WritesDocument ==
  ASSUME Inv, NEW p \in Editor, call[p].op \in InTransaction, TypeOK',
         UNCHANGED <<exam, committed, started, timedOut>>,
         NEW d \in {PendingBy(call[p]), NoContent},
         content' = content \/ content' = [content EXCEPT ![call[p].version] = d],
         (lock' = lock /\ call'[p].op \in InTransaction) \/ Release(p),
         \A q \in Editor : q # p => call'[q] = call[q],
         CallOK(p, call[p])'
  PROVE  Inv'
  <1>1. TypeOK /\ ScheduleSound /\ OwnedUnlessTimedOut /\ PublishedCommitted
    BY DEF Inv, ScheduleSound
  <1>2. call[p] \in ContentCall /\ call[p].version \in Version
    BY <1>1, CallFields, ContentFields DEF TypeOK
  <1>3. exam \in Row /\ exam.version \in Nat
    BY <1>1, AuthoringAssumption DEF TypeOK, Row, Version
  <1>4. ASSUME ~timedOut PROVE lock = p /\ call[p].version = exam.version + 1
    BY <1>4 DEF Inv, CallOK, TransactionOK
  <1>5. /\ d.state # "PUBLISHED"
        /\ \A v \in Version : content'[v] # content[v] => v = call[p].version /\ content'[v] = d
    BY <1>1, <1>2 DEF TypeOK, PendingBy, NoContent
  <1>6. OwnedUnlessTimedOut'
    <2> SUFFICES ASSUME ~timedOut, NEW v \in Version, v <= exam.version
                 PROVE content'[v].pub = committed[v]
      BY DEF OwnedUnlessTimedOut, ContentOwned
    <2>1. v # call[p].version  BY <1>3, <1>4, AuthoringAssumption DEF Version
    <2> QED BY <1>1, <1>5, <2>1 DEF OwnedUnlessTimedOut, ContentOwned
  <1>7. PublishedCommitted'  BY <1>1, <1>5 DEF PublishedCommitted
  <1>8. /\ \A q \in Editor : q # p => (lock' = q <=> lock = q)
        /\ lock' = p => call'[p].op \in InTransaction /\ lock = p
    BY <1>1, ReleaseFacts DEF TypeOK
  <1>9. ASSUME NEW q \in Editor, q # p PROVE CallOK(q, call[q])'
    <2>1. call[q].op = "write" => lock' = lock  BY <1>8, <1>9, Exclusive
    <2>2. call[q].op \in InTransaction => timedOut
      BY <1>4, <1>9, Exclusive
    <2>3. exam.version <= exam.version  BY <1>3
    <2> QED BY <1>3, <1>8, <1>9, <2>1, <2>2, <2>3, CallStays
  <1>10. \A q \in Editor : lock' = q => call'[q].op \in InTransaction \cup {"write"} /\ ~started
    BY <1>8 DEF Inv
  <1>11. ScheduleSound'  BY <1>1 DEF ScheduleSound, ScheduledComplete
  <1> QED BY <1>6, <1>7, <1>9, <1>10, <1>11 DEF Inv

-----------------------------------------------------------------------------
(* The metadata are written as they were found valid under the lock.         *)
LEMMA WritesMetadataKeeps ==
  ASSUME Inv, NEW p \in Editor, WritesMetadata(p)
  PROVE  Inv' /\ ~started
  <1> DEFINE c == call[p]
             m == Merge(exam.meta, c.patch)
  <1>1. TypeOK /\ ScheduledComplete /\ OwnedUnlessTimedOut /\ PublishedCommitted
    BY DEF Inv, ScheduleSound
  <1>2. c \in WriteCall /\ c.op = "write"  BY <1>1, CallFields DEF WritesMetadata, TypeOK
  <1>3. WriteOK(p, c) /\ lock = p /\ ~started
    BY <1>2 DEF Inv, CallOK, WriteOK
  <1>4. exam \in Row /\ exam.meta \in Metadata /\ exam.version \in Nat
    BY <1>1, AuthoringAssumption DEF TypeOK, Row, Version
  <1>5. m \in Metadata  BY <1>2, <1>4, MergeType DEF WriteCall
  <1>6. /\ exam' = exam \/ exam' = [exam EXCEPT !.meta = m]
        /\ UNCHANGED <<committed, content, used, started, admin, clock, faults, timedOut>>
        /\ Finish(p) /\ Release(p)
    BY <1>4 DEF WritesMetadata, env
  <1> HIDE DEF m
  <1>7. /\ exam' \in Row /\ exam'.status = exam.status /\ exam'.version = exam.version
        /\ exam' # exam => exam'.meta = m
    <2>1. /\ [exam EXCEPT !.meta = m] \in Row
          /\ [exam EXCEPT !.meta = m].meta = m
          /\ [exam EXCEPT !.meta = m].status = exam.status
          /\ [exam EXCEPT !.meta = m].version = exam.version
      BY <1>4, <1>5, RowMeta
    <2>2. CASE exam' = exam  BY <1>4, <2>2
    <2>3. CASE exam' = [exam EXCEPT !.meta = m]  BY <2>1, <2>3, Zenon
    <2> QED BY <1>6, <2>2, <2>3
  <1>8. /\ call' \in [Editor -> Call] /\ call'[p] = Idle
        /\ \A q \in Editor : q # p => call'[q] = call[q]
        /\ lock' \in Editor \cup {"free"} /\ lock' # p
        /\ \A q \in Editor : q # p => (lock' = q <=> lock = q)
    BY <1>1, <1>6, FinishFacts, ReleaseFacts DEF TypeOK
  <1>9. TypeOK'  BY <1>1, <1>6, <1>7, <1>8 DEF TypeOK
  <1>10. ScheduledComplete'
    BY <1>1, <1>3, <1>7 DEF ScheduledComplete, WriteOK, m
  <1>11. OwnedUnlessTimedOut' /\ PublishedCommitted'
    BY <1>1, <1>6, <1>7 DEF OwnedUnlessTimedOut, ContentOwned, PublishedCommitted
  <1>12. ASSUME NEW q \in Editor
         PROVE  CallOK(q, call[q])' /\ lock' # q
    <2>1. CASE q = p  BY <1>8, <2>1 DEF CallOK, Idle, InTransaction
    <2>2. CASE q # p
      <3>1. lock # q /\ lock' # q  BY <1>3, <1>8, <2>2
      <3>2. call[q].op # "write" /\ (call[q].op \in InTransaction => timedOut)
        BY <3>1, Exclusive
      <3>3. exam.version <= exam'.version /\ exam'.version \in Nat  BY <1>4, <1>7
      <3> QED BY <1>6, <1>8, <2>2, <3>1, <3>2, <3>3, CallStays
    <2> QED BY <2>1, <2>2
  <1>13. started' => exam'.status = "SCHEDULED"  BY <1>3, <1>6
  <1> QED BY <1>3, <1>9, <1>10, <1>11, <1>12, <1>13 DEF Inv, ScheduleSound

(* The row moves to the version this edit has written, which no edit had     *)
(* committed before.                                                         *)
LEMMA CommitsContentKeeps ==
  ASSUME Inv, NEW p \in Editor, CommitsContent(p)
  PROVE  Inv' /\ ~started
  <1> DEFINE c == call[p]
  <1>1. TypeOK /\ ScheduledComplete /\ OwnedUnlessTimedOut /\ PublishedCommitted
    BY DEF Inv, ScheduleSound
  <1>2. c \in ContentCall /\ c.op = "update" /\ c.op \in InTransaction
    BY <1>1, CallFields DEF CommitsContent, TypeOK, InTransaction
  <1>3. TransactionOK(p, c) /\ lock = p /\ ~started
    BY <1>2 DEF Inv, CallOK, CommitsContent
  <1>4. /\ exam \in Row /\ exam.version \in Nat
        /\ c.version \in Version /\ c.version \in Nat /\ c.pub \in Pub /\ c.plan \in Metadata
        /\ exam.version = c.version - 1
    BY <1>1, <1>2, ContentFields, AuthoringAssumption
    DEF CommitsContent, Matches, TypeOK, Row, Version
  <1>5. /\ exam' \in Row /\ exam'.version = c.version /\ exam.version < c.version
        /\ c.plan = Unplanned => exam'.status = exam.status /\ exam'.meta = exam.meta
        /\ c.plan # Unplanned => exam'.status = "SCHEDULED" /\ exam'.meta = c.plan
    <2>1. CASE c.plan = Unplanned
      BY <1>4, <2>1, RowVersion DEF CommitsContent
    <2>2. CASE c.plan # Unplanned
      BY <1>4, <2>2 DEF CommitsContent, Row
    <2> QED BY <2>1, <2>2
  <1>6. /\ committed' = [committed EXCEPT ![c.version] = c.pub]
        /\ UNCHANGED <<content, used, started, admin, clock, faults, timedOut>>
        /\ Goto(p, "publish") /\ Release(p)
    BY DEF CommitsContent, env
  <1>7. /\ call' \in [Editor -> Call] /\ call'[p] \in ContentCall
        /\ call'[p].op = "publish" /\ call'[p].version = c.version /\ call'[p].pub = c.pub
        /\ \A q \in Editor : q # p => call'[q] = call[q]
    BY <1>1, <1>2, <1>6, GotoFacts DEF TypeOK
  <1>8. /\ lock' \in Editor \cup {"free"} /\ lock' # p
        /\ \A q \in Editor : q # p => (lock' = q <=> lock = q)
    BY <1>1, <1>6, ReleaseFacts DEF TypeOK
  <1>9. TypeOK'  BY <1>1, <1>4, <1>5, <1>6, <1>7, <1>8 DEF TypeOK
  <1>10. ScheduledComplete'
    <2>1. c.version >= 1  BY <1>4, AuthoringAssumption DEF Version
    <2>2. CASE c.plan = Unplanned
      BY <1>1, <1>5, <2>1, <2>2 DEF ScheduledComplete
    <2>3. CASE c.plan # Unplanned
      <3>1. c.plan \in [Field -> Nat] /\ Fits(c.plan)  BY <1>3, <2>3 DEF TransactionOK
      <3>2. Complete(c.plan)  BY <3>1 DEF Complete, Null
      <3> QED BY <1>5, <2>1, <2>3, <3>1, <3>2 DEF ScheduledComplete
    <2> QED BY <2>2, <2>3
  <1>11. /\ committed'[c.version] = c.pub
         /\ \A v \in Version : v # c.version => committed'[v] = committed[v]
    BY <1>1, <1>4, <1>6 DEF TypeOK
  <1>12. OwnedUnlessTimedOut'
    <2> SUFFICES ASSUME ~timedOut, NEW v \in Version, v <= c.version
                 PROVE content[v].pub = committed'[v]
      BY <1>5, <1>6 DEF OwnedUnlessTimedOut, ContentOwned
    <2>1. CASE v = c.version
      BY <1>2, <1>3, <1>11, <2>1 DEF TransactionOK, PendingBy
    <2>2. CASE v # c.version
      <3>1. v <= exam.version  BY <1>4, <2>2, AuthoringAssumption DEF Version
      <3> QED BY <1>1, <1>11, <2>2, <3>1 DEF OwnedUnlessTimedOut, ContentOwned
    <2> QED BY <2>1, <2>2
  <1>13. PublishedCommitted'
    <2> SUFFICES ASSUME NEW v \in Version, content[v].state = "PUBLISHED"
                 PROVE v <= c.version /\ content[v].pub = committed'[v]
      BY <1>5, <1>6 DEF PublishedCommitted
    <2>1. v <= exam.version /\ content[v].pub = committed[v]
      BY <1>1 DEF PublishedCommitted
    <2>2. v < c.version  BY <1>4, <2>1, AuthoringAssumption DEF Version
    <2> QED BY <1>4, <1>11, <2>1, <2>2, AuthoringAssumption DEF Version
  <1>14. ASSUME NEW q \in Editor
         PROVE  CallOK(q, call[q])' /\ lock' # q
    <2>1. CASE q = p
      BY <1>4, <1>5, <1>7, <1>8, <1>11, <2>1 DEF CallOK, InTransaction
    <2>2. CASE q # p
      <3>1. lock # q /\ lock' # q  BY <1>3, <1>8, <2>2
      <3>2. call[q].op # "write" /\ (call[q].op \in InTransaction => timedOut)
        BY <3>1, Exclusive
      <3>3. exam.version <= exam'.version /\ exam'.version \in Nat  BY <1>4, <1>5
      <3>4. ASSUME call[q].op = "publish"
            PROVE committed'[call[q].version] = committed[call[q].version]
        <4>1. call[q].version \in Version  BY <1>1, <3>4, CallFields, ContentFields DEF TypeOK
        <4>2. call[q].version <= exam.version  BY <3>4 DEF Inv, CallOK
        <4>3. call[q].version # c.version
          BY <1>4, <4>1, <4>2, AuthoringAssumption DEF Version
        <4> QED BY <1>11, <4>1, <4>3
      <3>5. CallOK(q, call[q])'
        BY <1>6, <1>7, <2>2, <3>1, <3>2, <3>3, <3>4, CallStays
      <3> QED BY <3>1, <3>5
    <2> QED BY <2>1, <2>2
  <1>15. started' => exam'.status = "SCHEDULED"  BY <1>3, <1>6
  <1> QED BY <1>3, <1>9, <1>10, <1>12, <1>13, <1>14, <1>15 DEF Inv, ScheduleSound

(* A version is marked published only by the edit that committed it.         *)
LEMMA PublishesContentKeeps ==
  ASSUME Inv, NEW p \in Editor, PublishesContent(p)
  PROVE  Inv' /\ exam' = exam
  <1> DEFINE c == call[p]
  <1>1. TypeOK /\ ScheduledComplete /\ OwnedUnlessTimedOut /\ PublishedCommitted
    BY DEF Inv, ScheduleSound
  <1>2. c \in ContentCall /\ c.op = "publish"
    BY <1>1, CallFields DEF PublishesContent, TypeOK
  <1>3. /\ c.version \in Version /\ c.pub \in Pub
        /\ c.version <= exam.version /\ committed[c.version] = c.pub
    BY <1>2, ContentFields DEF Inv, CallOK
  <1>4. lock # p  BY <1>2 DEF Inv, InTransaction
  <1>5. /\ UNCHANGED <<exam, committed, lock, used, started, admin, clock, faults, timedOut>>
        /\ Finish(p)
    BY DEF PublishesContent, env
  <1>6. /\ call' \in [Editor -> Call] /\ call'[p] = Idle
        /\ \A q \in Editor : q # p => call'[q] = call[q]
    BY <1>1, <1>5, FinishFacts DEF TypeOK
  <1> DEFINE d == [pub |-> c.pub, state |-> "PUBLISHED"]
  <1>7. \/ content' = content
        \/ content[c.version].pub = c.pub /\ content' = [content EXCEPT ![c.version] = d]
    <2>1. CASE content[c.version] = PendingBy(c)
      <3>1. content' = [content EXCEPT ![c.version] = [content[c.version] EXCEPT !.state = "PUBLISHED"]]
        BY <2>1 DEF PublishesContent
      <3>2. [PendingBy(c) EXCEPT !.state = "PUBLISHED"] = d  BY DEF PendingBy
      <3>3. PendingBy(c).pub = c.pub  BY DEF PendingBy
      <3> QED BY <2>1, <3>1, <3>2, <3>3, Zenon
    <2>2. CASE content[c.version] # PendingBy(c)  BY <2>2 DEF PublishesContent
    <2> QED BY <2>1, <2>2
  <1>8. d \in Content /\ d.pub = c.pub  BY <1>3 DEF Content
  <1> HIDE DEF d
  <1>9. /\ content' \in [Version -> Content \cup {NoContent}]
        /\ \A v \in Version : /\ content'[v].pub = content[v].pub
                              /\ content'[v] # content[v] => v = c.version
    BY <1>1, <1>3, <1>7, <1>8 DEF TypeOK
  <1>10. TypeOK'  BY <1>1, <1>5, <1>6, <1>9 DEF TypeOK
  <1>11. OwnedUnlessTimedOut'
    BY <1>1, <1>5, <1>9 DEF OwnedUnlessTimedOut, ContentOwned
  <1>12. PublishedCommitted'
    <2> SUFFICES ASSUME NEW v \in Version, content'[v].state = "PUBLISHED"
                 PROVE v <= exam.version /\ content'[v].pub = committed[v]
      BY <1>5 DEF PublishedCommitted
    <2>1. CASE content'[v] = content[v]  BY <1>1, <2>1 DEF PublishedCommitted
    <2>2. CASE content'[v] # content[v]
      <3>1. v = c.version /\ content'[v].pub = c.pub
        BY <1>1, <1>3, <1>7, <1>8, <1>9, <2>2 DEF TypeOK
      <3> QED BY <1>3, <3>1
    <2> QED BY <2>1, <2>2
  <1>13. ASSUME NEW q \in Editor
         PROVE  /\ CallOK(q, call[q])'
                /\ lock' = q => call'[q].op \in InTransaction \cup {"write"} /\ ~started'
    <2>1. CASE q = p  BY <1>4, <1>5, <1>6, <2>1 DEF CallOK, Idle, InTransaction
    <2>2. CASE q # p
      <3>1. exam.version \in Nat /\ exam.version <= exam.version
        BY <1>1, AuthoringAssumption DEF TypeOK, Row, Version
      <3>2. ASSUME call[q].op \in InTransaction, ~timedOut
            PROVE content'[call[q].version] = content[call[q].version]
        <4>1. call[q].version = exam.version + 1 /\ call[q].version \in Version
          BY <1>1, <3>2, CallFields, ContentFields DEF Inv, CallOK, TransactionOK, TypeOK
        <4>2. call[q].version # c.version
          BY <1>3, <3>1, <4>1, AuthoringAssumption DEF Version
        <4> QED BY <1>9, <4>1, <4>2
      <3>3. CallOK(q, call[q])'
        BY <1>5, <1>6, <2>2, <3>1, <3>2, CallStays
      <3> QED BY <1>5, <1>6, <2>2, <3>3 DEF Inv
    <2> QED BY <2>1, <2>2
  <1>14. ScheduledComplete' /\ (started' => exam'.status = "SCHEDULED")
    BY <1>1, <1>5 DEF ScheduledComplete, Inv
  <1> QED BY <1>5, <1>10, <1>11, <1>12, <1>13, <1>14 DEF Inv, ScheduleSound

(* Steps that move no call.                                                  *)
LEMMA Passes ==
  ASSUME Inv, TypeOK', UNCHANGED <<exam, committed, content, call>>, timedOut => timedOut',
         lock' = lock \/ (timedOut' /\ lock' = "free"),
         started' = started \/ (lock = "free" /\ exam.status = "SCHEDULED"),
         \A q \in Editor : lock' # lock => call[q].op # "write"
  PROVE  Inv'
  <1>1. exam \in Row  BY DEF Inv, ScheduleSound, TypeOK
  <1>2. exam.version \in Nat /\ exam.version <= exam.version
    BY <1>1, AuthoringAssumption DEF Row, Version
  <1>3. ASSUME NEW q \in Editor
        PROVE  /\ CallOK(q, call[q])'
               /\ lock' = q => call'[q].op \in InTransaction \cup {"write"} /\ ~started'
    <2>1. CallOK(q, call[q])'  BY <1>2, CallStays
    <2>2. lock' = q => lock = q  BY AuthoringAssumption
    <2>3. lock' = q => ~started'  BY <2>2, AuthoringAssumption DEF Inv
    <2> QED BY <2>1, <2>2, <2>3 DEF Inv
  <1> QED BY <1>3, RowsStay

LEMMA RequestsKeep ==
  ASSUME Inv, NEW p \in Editor,
         \/ \E m \in Window : RequestSchedule(p, m)
         \/ \E d \in Patch : RequestEdit(p, [op |-> "metadata", patch |-> d])
         \/ RequestEdit(p, [op |-> "content"])
         \/ Refused(p)
  PROVE  Inv' /\ exam' = exam
  <1>1. TypeOK  BY DEF Inv, ScheduleSound
  <1>2. ASSUME call[p].op \notin InTransaction \cup {"write"} PROVE lock # p
    BY <1>2 DEF Inv
  <1>3. ASSUME NEW m \in Window, RequestSchedule(p, m)
        PROVE  Inv' /\ exam' = exam
    <2> DEFINE c == [op |-> "schedule", meta |-> m, version |-> exam.version + 1]
    <2>1. call[p].op = "idle"  BY <1>3 DEF RequestSchedule, Idle
    <2>2. lock # p  BY <1>2, <2>1 DEF InTransaction
    <2>3. exam.version + 1 \in Version
      BY <1>1, <1>3, AuthoringAssumption DEF TypeOK, Row, Version, RequestSchedule
    <2>4. c \in Call  BY <2>3, AuthoringAssumption DEF Call, RequestCall
    <2>5. /\ call' = [call EXCEPT ![p] = c] /\ Fits(m)
          /\ UNCHANGED <<exam, committed, content, lock, env>>
      BY <1>3 DEF RequestSchedule
    <2>6. c.op = "schedule" /\ c.meta = m  OBVIOUS
    <2> HIDE DEF c
    <2> QED BY <1>1, <2>2, <2>4, <2>5, <2>6, Asks DEF TypeOK, env
  <1>4. ASSUME NEW c \in Call, c.op \in {"metadata", "content"}, RequestEdit(p, c)
        PROVE  Inv' /\ exam' = exam
    <2>1. call[p].op = "idle"  BY <1>4 DEF RequestEdit, Idle
    <2>2. lock # p  BY <1>2, <2>1 DEF InTransaction
    <2> QED BY <1>1, <1>4, <2>2, Asks DEF RequestEdit, TypeOK, env
  <1>5. ASSUME NEW d \in Patch, RequestEdit(p, [op |-> "metadata", patch |-> d])
        PROVE  Inv' /\ exam' = exam
    <2>1. [op |-> "metadata", patch |-> d] \in Call  BY DEF Call, RequestCall
    <2> QED BY <1>4, <1>5, <2>1
  <1>6. CASE RequestEdit(p, [op |-> "content"])
    <2>1. [op |-> "content"] \in Call  BY DEF Call, RequestCall
    <2> QED BY <1>4, <1>6, <2>1
  <1>7. CASE Refused(p)
    <2>1. Idle \in Call /\ Idle.op = "idle"  BY DEF Call, Idle
    <2>2. lock # p /\ call' = [call EXCEPT ![p] = Idle]
      BY <1>7, AuthoringAssumption DEF Refused, Finish
    <2> QED BY <1>1, <1>7, <2>1, <2>2, Asks DEF Refused, TypeOK, env
  <1> QED BY <1>3, <1>5, <1>6, <1>7

(* The handler ends: its transaction is rolled back, or had been ended.      *)
LEMMA Ends ==
  ASSUME Inv, NEW p \in Editor, Finish(p),
         (lock' = lock /\ lock # p) \/ Release(p),
         UNCHANGED <<exam, committed, content, used, started, admin, clock, timedOut>>,
         faults' \in Nat
  PROVE  Inv'
  <1>1. TypeOK  BY DEF Inv, ScheduleSound
  <1>2. Idle \in Call /\ Idle.op = "idle"  BY DEF Call, Idle
  <1>3. call' = [call EXCEPT ![p] = Idle]  BY DEF Finish
  <1> QED BY <1>1, <1>2, <1>3, Asks DEF TypeOK

LEMMA LocksKeep ==
  ASSUME Inv, NEW p \in Editor, LocksMetadata(p) \/ LocksContent(p)
  PROVE  Inv' /\ exam' = exam
  <1>1. TypeOK /\ ScheduledComplete /\ (started => exam.status = "SCHEDULED")
    BY DEF Inv, ScheduleSound
  <1>2. exam \in Row /\ exam.version \in {0} \cup Version /\ exam.version \in Nat
    BY <1>1, AuthoringAssumption DEF TypeOK, Row, Version
  <1>3. CASE LocksMetadata(p)
    <2>0. PICK c : c = [op |-> "write", patch |-> call[p].patch,
                        version |-> exam.version, now |-> clock]
      OBVIOUS
    <2>1. call[p].patch \in Patch
      BY <1>1, <1>3, CallFields DEF LocksMetadata, TypeOK
    <2>2. c \in Call  BY <1>1, <1>2, <2>0, <2>1 DEF Call, WriteCall, TypeOK
    <2>3. /\ call' = [call EXCEPT ![p] = c] /\ lock = "free" /\ lock' = p
          /\ UNCHANGED <<exam, committed, content, env>>
          /\ CanEditMetadata(call[p])
      BY <1>3, <2>0 DEF LocksMetadata
    <2>4. c.op = "write" /\ c.patch = call[p].patch  BY <2>0
    <2>5. exam.status = "SCHEDULED" =>
            Complete(Merge(exam.meta, c.patch)) /\ Fits(Merge(exam.meta, c.patch))
      BY <2>3, <2>4 DEF CanEditMetadata, ValidMetadata
    <2>6. WriteOK(p, c)'  BY <2>3, <2>5 DEF WriteOK
    <2> QED BY <1>1, <2>2, <2>3, <2>4, <2>6, Locks DEF TypeOK, env, CanEditMetadata
  <1>4. CASE LocksContent(p)
    <2>1. PICK pub \in Pub \ used :
            /\ used' = used \cup {pub}
            /\ call' = [call EXCEPT ![p] =
                 [op |-> "delete", pub |-> pub, now |-> clock,
                  version |-> IF call[p].op = "schedule" THEN call[p].version ELSE exam.version + 1,
                  plan |-> IF call[p].op = "schedule" THEN call[p].meta ELSE Unplanned]]
      BY <1>4 DEF LocksContent
    <2>0. PICK v, m, c :
            /\ v = IF call[p].op = "schedule" THEN call[p].version ELSE exam.version + 1
            /\ m = IF call[p].op = "schedule" THEN call[p].meta ELSE Unplanned
            /\ c = [op |-> "delete", pub |-> pub, now |-> clock, version |-> v, plan |-> m]
      OBVIOUS
    <2>2. /\ call' = [call EXCEPT ![p] = c] /\ lock = "free" /\ lock' = p
          /\ UNCHANGED <<exam, committed, content, started, admin, clock, faults, timedOut>>
          /\ \/ call[p].op = "schedule" /\ CanSchedule(call[p])
             \/ call[p].op = "content" /\ CanEditContent
      BY <1>4, <2>0, <2>1 DEF LocksContent
    <2>3. c.op = "delete" /\ c.version = v /\ c.plan = m  BY <2>0
    <2>4. /\ v \in Version /\ v = exam.version + 1 /\ ~started /\ m \in Metadata
          /\ m # Unplanned => m \in [Field -> Nat] /\ Fits(m)
      <3>1. CASE call[p].op = "schedule" /\ CanSchedule(call[p])
        <4>1. /\ call[p].meta \in [Field -> Nat] /\ call[p].version \in Version
              /\ Fits(call[p].meta)
          BY <1>1, <3>1, CallFields DEF TypeOK, Inv, CallOK
        <4>2. call[p].meta \in Metadata  BY <4>1 DEF Metadata
        <4>3. call[p].version \in Nat  BY <4>1, AuthoringAssumption DEF Version
        <4> QED BY <1>1, <1>2, <2>0, <3>1, <4>1, <4>2, <4>3 DEF CanSchedule
      <3>2. CASE call[p].op = "content" /\ CanEditContent
        <4>1. Unplanned \in Metadata  BY DEF Unplanned, Metadata
        <4> QED BY <1>2, <2>0, <3>2, <4>1, AuthoringAssumption DEF CanEditContent, Version
      <3> QED BY <2>2, <3>1, <3>2
    <2>5. c \in Call
      BY <1>1, <2>0, <2>4 DEF Call, ContentCall, TypeOK
    <2>6. TransactionOK(p, c)'
      BY <2>2, <2>3, <2>4 DEF TransactionOK
    <2>7. used' \subseteq Pub  BY <1>1, <2>1 DEF TypeOK
    <2> QED BY <2>2, <2>3, <2>4, <2>5, <2>6, <2>7, Locks
  <1> QED BY <1>3, <1>4

(* A handler writes its document, or removes it again.                       *)
LEMMA DocumentsKeep ==
  ASSUME Inv, NEW p \in Editor,
         DeletesContent(p) \/ CreatesContent(p) \/ UpdateMisses(p) \/ DiscardsContent(p)
  PROVE  Inv' /\ exam' = exam
  <1> DEFINE c == call[p]
  <1>1. TypeOK /\ call \in [Editor -> Call]  BY DEF Inv, ScheduleSound, TypeOK
  <1>2. c.op \in InTransaction /\ c \in ContentCall
    BY <1>1, CallFields
    DEF DeletesContent, CreatesContent, UpdateMisses, DiscardsContent, InTransaction, TypeOK
  <1>3. c.version \in Version /\ PendingBy(c) \in Content /\ TransactionOK(p, c)
    BY <1>2, ContentFields DEF Inv, CallOK
  <1>4. ASSUME NEW op \in {"create", "update", "discard"}, Goto(p, op),
               UNCHANGED <<exam, committed, lock, env>>,
               NEW d \in {PendingBy(c), NoContent},
               content' = content \/ content' = [content EXCEPT ![c.version] = d],
               op = "update" => content'[c.version] = PendingBy(c)
        PROVE  Inv'
    <2>1. /\ call' \in [Editor -> Call] /\ call'[p] \in ContentCall /\ call'[p].op = op
          /\ call'[p].version = c.version /\ call'[p].pub = c.pub /\ call'[p].plan = c.plan
          /\ \A q \in Editor : q # p => call'[q] = call[q]
      BY <1>1, <1>2, <1>4, GotoFacts
    <2>2. content' \in [Version -> Content \cup {NoContent}]
      BY <1>1, <1>3, <1>4 DEF TypeOK
    <2>3. TypeOK'  BY <1>1, <1>4, <2>1, <2>2 DEF TypeOK, env
    <2>4. PendingBy(call'[p]) = PendingBy(c)  BY <2>1 DEF PendingBy
    <2>5. TransactionOK(p, call[p])'
      BY <1>3, <1>4, <2>1, <2>4 DEF TransactionOK, env, PendingBy
    <2>6. CallOK(p, call[p])'
      BY <2>1, <2>5 DEF CallOK, InTransaction
    <2>7. call'[p].op \in InTransaction  BY <2>1 DEF InTransaction
    <2> QED BY <1>2, <1>4, <2>1, <2>3, <2>6, <2>7, WritesDocument DEF env
  <1>5. CASE DeletesContent(p)
    BY <1>4, <1>5 DEF DeletesContent
  <1>6. CASE CreatesContent(p)
    <2>1. content'[c.version] = PendingBy(c)
      BY <1>1, <1>3, <1>6 DEF CreatesContent, TypeOK
    <2> QED BY <1>4, <1>6, <2>1 DEF CreatesContent
  <1>7. CASE UpdateMisses(p)
    <2>1. CASE lock = p
      BY <1>4, <1>7, <2>1 DEF UpdateMisses
    <2>2. CASE lock # p
      BY <1>1, <1>7, <2>2, Ends DEF UpdateMisses, TypeOK, env
    <2> QED BY <2>1, <2>2, <1>7 DEF UpdateMisses
  <1>8. CASE DiscardsContent(p)
    <2>1. /\ call' \in [Editor -> Call] /\ call'[p] = Idle
          /\ \A q \in Editor : q # p => call'[q] = call[q]
      BY <1>1, <1>8, FinishFacts DEF DiscardsContent
    <2>2. /\ content' = content \/ content' = [content EXCEPT ![c.version] = NoContent]
          /\ UNCHANGED <<exam, committed, env>> /\ Release(p)
      BY <1>8 DEF DiscardsContent
    <2>3. content' \in [Version -> Content \cup {NoContent}]
      BY <1>1, <1>3, <2>2 DEF TypeOK
    <2>4. lock' \in Editor \cup {"free"}  BY <1>1, <2>2, ReleaseFacts DEF TypeOK
    <2>5. TypeOK'  BY <1>1, <2>1, <2>2, <2>3, <2>4 DEF TypeOK, env
    <2>6. CallOK(p, call[p])'  BY <2>1 DEF CallOK, Idle, InTransaction
    <2>7. exam' = exam  BY <2>2
    <2> QED BY <1>2, <2>1, <2>2, <2>5, <2>6, <2>7, WritesDocument DEF env
  <1>9. exam' = exam
    BY DEF DeletesContent, CreatesContent, UpdateMisses, DiscardsContent
  <1> QED BY <1>5, <1>6, <1>7, <1>8, <1>9

(* Every step keeps the invariant, and the row of an exam that has started.  *)
LEMMA InvNext == Inv /\ [LossyNext]_vars => Inv' /\ (started => exam' = exam)
  <1> SUFFICES ASSUME Inv, [LossyNext]_vars
               PROVE  Inv' /\ (started => exam' = exam)
    OBVIOUS
  <1>1. TypeOK  BY DEF Inv, ScheduleSound
  <1>2. ASSUME NEW p \in Editor, Edit(p)
        PROVE  Inv' /\ (started => exam' = exam)
    <2>1. CASE \/ \E m \in Window : RequestSchedule(p, m)
               \/ \E d \in Patch : RequestEdit(p, [op |-> "metadata", patch |-> d])
               \/ RequestEdit(p, [op |-> "content"])
               \/ Refused(p)
      BY <2>1, RequestsKeep
    <2>2. CASE LocksMetadata(p) \/ LocksContent(p)  BY <2>2, LocksKeep
    <2>3. CASE DeletesContent(p) \/ CreatesContent(p) \/ UpdateMisses(p) \/ DiscardsContent(p)
      BY <2>3, DocumentsKeep
    <2>4. CASE WritesMetadata(p)  BY <2>4, WritesMetadataKeeps
    <2>5. CASE CommitsContent(p)  BY <2>5, CommitsContentKeeps
    <2>6. CASE PublishesContent(p)  BY <2>6, PublishesContentKeeps
    <2>7. CASE CreateCollides(p)
      BY <1>1, <2>7, Ends DEF CreateCollides, env, TypeOK
    <2> QED BY <1>2, <2>1, <2>2, <2>3, <2>4, <2>5, <2>6, <2>7 DEF Edit
  <1>3. ASSUME NEW p \in Editor, EditFails(p)
        PROVE  Inv' /\ (started => exam' = exam)
    BY <1>1, <1>3, Ends DEF EditFails, TypeOK
  <1>4. CASE Starts
    BY <1>1, <1>4, Passes DEF Starts, TypeOK
  <1>5. CASE ClockTicks
    BY <1>1, <1>5, Passes DEF ClockTicks, TypeOK
  <1>6. CASE ChangeAdmin
    BY <1>1, <1>6, Passes DEF ChangeAdmin, TypeOK
  <1>7. ASSUME NEW p \in Editor, TxTimesOut(p)
        PROVE  Inv' /\ (started => exam' = exam)
    <2>1. \A q \in Editor : call[q].op # "write"
      <3> SUFFICES ASSUME NEW q \in Editor, call[q].op = "write" PROVE FALSE
        OBVIOUS
      <3>1. lock = q  BY Exclusive
      <3> QED BY <1>7, <3>1 DEF TxTimesOut
    <2>2. TypeOK'  BY <1>1, <1>7 DEF TxTimesOut, TypeOK
    <2> QED BY <1>7, <2>1, <2>2, Passes DEF TxTimesOut
  <1>8. CASE UNCHANGED vars
    <2>1. UNCHANGED <<exam, committed, content, used, started, admin, call, lock, clock,
                      faults, timedOut>>
      BY <1>8 DEF vars
    <2>2. TypeOK'  BY <1>1, <2>1 DEF TypeOK
    <2> QED BY <2>1, <2>2, Passes
  <1> QED BY <1>2, <1>3, <1>4, <1>5, <1>6, <1>7, <1>8 DEF LossyNext, Next

-----------------------------------------------------------------------------
(* However edits race, fail and time out, a scheduled exam has a window, a   *)
(* duration and content, and everything has its type.                        *)
THEOREM SchedulesAreSound == LossySpec => []ScheduleSound
  <1>1. Inv => ScheduleSound  BY DEF Inv
  <1> QED BY <1>1, InvInit, InvNext, PTL DEF LossySpec

(* As long as no transaction is ended under its handler, every version the   *)
(* row pointed at has the document of the edit that committed it.            *)
THEOREM ContentIsOwned == LossySpec => []OwnedUnlessTimedOut
  <1>1. Inv => OwnedUnlessTimedOut  BY DEF Inv
  <1> QED BY <1>1, InvInit, InvNext, PTL DEF LossySpec

(* Only a committed edit's document is ever marked published.                *)
THEOREM PublishedIsCommitted == LossySpec => []PublishedCommitted
  <1>1. Inv => PublishedCommitted  BY DEF Inv
  <1> QED BY <1>1, InvInit, InvNext, PTL DEF LossySpec

(* The row of an exam that somebody takes is never written.                  *)
THEOREM RowIsFrozen == LossySpec => FrozenOnceStarted
  <1>1. Inv /\ [LossyNext]_vars => [started => exam' = exam]_vars
    BY InvNext
  <1> QED BY <1>1, InvInit, InvNext, PTL DEF LossySpec, FrozenOnceStarted
=============================================================================
