-------------------------- MODULE MaterialFilesProofs --------------------------
(* Proofs about MaterialFiles for every number of files, handlers and        *)
(* workers, every lease, grace period and limit. An upload may land no later *)
(* than two grace periods after its intent expired (LateBy): a deletion is   *)
(* final only because the second one comes after that.                       *)
EXTENDS MaterialFiles, FiniteSetTheorems, TLAPS

LEMMA Constants ==
  /\ Grace \in Nat /\ Lease \in Nat /\ LateBy \in Nat /\ Ttl \in Nat /\ MaxPending \in Nat
  /\ LateBy <= 2 * Grace /\ Grace <= LateBy /\ Grace > 0
  /\ Delay \subseteq Nat
  /\ "none" \notin File /\ "none" \notin Worker
  BY MaterialAssumption

LEMMA RowFacts ==
  ASSUME NEW r \in FileRow \cup {NoFile}, r # NoFile
  PROVE  /\ r \in FileRow /\ r.purpose \in Purpose /\ r.attached \in BOOLEAN
         /\ r.state \in {"PENDING", "READY", "REJECTED"}
         /\ r.cleanup \in {"NONE", "QUEUED", "DONE"}
  BY DEF FileRow

LEMMA RetiredFacts ==
  ASSUME NEW r \in FileRow
  PROVE  /\ Retired(r) \in FileRow /\ Retired(r).attached = FALSE /\ Retired(r) # NoFile
         /\ Retired(r).cleanup = "QUEUED" /\ Retired(r).state # "PENDING"
         /\ Retired(r).purpose = r.purpose
  <1> DEFINE r1 == [r EXCEPT !.attached = FALSE]
             r2 == [r1 EXCEPT !.cleanup = "QUEUED"]
             st == IF r.state = "PENDING" THEN "REJECTED" ELSE r.state
  <1>1. r1 \in FileRow /\ r1.attached = FALSE /\ r1.state = r.state /\ r1.purpose = r.purpose
    BY DEF FileRow
  <1>2. /\ r2 \in FileRow /\ r2.attached = FALSE /\ r2.cleanup = "QUEUED"
        /\ r2.state = r.state /\ r2.purpose = r.purpose
    BY <1>1 DEF FileRow
  <1>3. st \in {"READY", "REJECTED"}  BY DEF FileRow
  <1>4. Retired(r) = [r2 EXCEPT !.state = st]  BY <1>2 DEF Retired
  <1> HIDE DEF r2, st
  <1> QED BY <1>2, <1>3, <1>4 DEF FileRow, NoFile

LEMMA IntentFacts ==
  ASSUME NEW u \in Purpose
  PROVE  /\ Intent(u) \in FileRow /\ Intent(u) # NoFile
         /\ Intent(u).attached = FALSE /\ Intent(u).cleanup = "NONE"
         /\ Intent(u).state = "PENDING"
  BY DEF Intent, FileRow, NoFile

LEMMA JobFacts ==
  ASSUME left \in [File -> -LateBy .. Ttl], NEW f \in File
  PROVE  /\ Job(f) \in JobRow /\ Job(f) # NoJob /\ Job(f).late = FALSE
         /\ Job(f).state = "OPEN"
  <1>1. After(f) \in Nat  BY Constants DEF After
  <1> QED BY <1>1, Constants DEF Job, JobRow, NoJob

(* A job that is there is kept.                                              *)
LEMMA EnqueueFacts ==
  ASSUME Inv, NEW S \in SUBSET File
  PROVE  /\ Enqueue(S) \in [File -> JobRow \cup {NoJob}]
         /\ \A f \in S : Enqueue(S)[f] # NoJob
         /\ \A f \in File \ S : Enqueue(S)[f] = job[f]
         /\ \A f \in File :
              /\ job[f] # NoJob => Enqueue(S)[f] = job[f]
              /\ Enqueue(S)[f] # NoJob /\ Enqueue(S)[f].late =>
                   left[f] + LateBy <= Enqueue(S)[f].next
  <1>1. TypeOK  BY DEF Inv
  <1>2. Enqueue(S) \in [File -> JobRow \cup {NoJob}]
    BY <1>1, JobFacts DEF Enqueue, TypeOK
  <1>3. \A f \in File : Enqueue(S)[f] = IF f \in S /\ job[f] = NoJob THEN Job(f) ELSE job[f]
    BY DEF Enqueue
  <1>4. \A f \in File : Job(f) # NoJob /\ Job(f).late = FALSE
    BY <1>1, JobFacts DEF TypeOK
  <1>5. \A f \in File : job[f] # NoJob /\ job[f].late => left[f] + LateBy <= job[f].next
    BY DEF Inv, FileOK
  <1>6. \A f \in File : Enqueue(S)[f] # NoJob /\ Enqueue(S)[f].late =>
                   left[f] + LateBy <= Enqueue(S)[f].next
    BY <1>3, <1>4, <1>5
  <1> QED BY <1>2, <1>3, <1>4, <1>6

LEMMA RetireFacts ==
  ASSUME Inv, NEW S \in SUBSET File, \A f \in S : Exists(f)
  PROVE  /\ RetireFiles(S) \in [File -> FileRow \cup {NoFile}]
         /\ \A f \in S : RetireFiles(S)[f] = Retired(file[f])
         /\ \A f \in File \ S : RetireFiles(S)[f] = file[f]
  <1>1. TypeOK  BY DEF Inv
  <1>2. RetireFiles(S) \in [File -> FileRow \cup {NoFile}]
    BY <1>1, RetiredFacts, RowFacts DEF RetireFiles, TypeOK, Exists
  <1> QED BY <1>2 DEF RetireFiles

-----------------------------------------------------------------------------
(* What a call holds follows from its op.                                    *)
LEMMA CallFields ==
  ASSUME NEW c \in Call
  PROVE  /\ c.op \in Saving => c \in SaveCall /\ c.file \in File /\ c.purpose \in Purpose
         /\ c.op \in {"inspect", "attach", "reject"} => c \in CompleteCall /\ c.file \in File
         /\ c = Idle <=> c.op = "idle"
         /\ c # Idle => c.file \in File
  BY DEF Call, Idle, SaveCall, CompleteCall, Saving

LEMMA FinishFacts ==
  ASSUME call \in [Proc -> Call], NEW p \in Proc, Finish(p)
  PROVE  /\ call' \in [Proc -> Call] /\ call'[p] = Idle
         /\ \A q \in Proc : q # p => call'[q] = call[q]
  BY DEF Finish, Call

LEMMA GotoFacts ==
  ASSUME call \in [Proc -> Call], NEW p \in Proc, NEW op, Goto(p, op),
         \/ call[p] \in SaveCall /\ op \in Saving
         \/ call[p] \in CompleteCall /\ op \in {"attach", "reject"}
  PROVE  /\ call' \in [Proc -> Call]
         /\ call'[p].op = op /\ call'[p].file = call[p].file
         /\ \A q \in Proc : q # p => call'[q] = call[q]
  <1>1. [call[p] EXCEPT !.op = op] \in Call /\ [call[p] EXCEPT !.op = op].op = op
        /\ [call[p] EXCEPT !.op = op].file = call[p].file
    BY DEF Call, SaveCall, CompleteCall, Saving
  <1>2. call' = [call EXCEPT ![p] = [call[p] EXCEPT !.op = op]]  BY DEF Goto
  <1> QED BY <1>1, <1>2

(* bump changes what calls know about the version only.                      *)
LEMMA BumpFacts ==
  ASSUME call \in [Proc -> Call], BumpAll \/ \E p \in Proc : Bump(p)
  PROVE  /\ call' \in [Proc -> Call]
         /\ \A q \in Proc : \/ call'[q] = Idle
                            \/ call'[q].op = call[q].op /\ call'[q].file = call[q].file
  <1>1. ASSUME NEW c \in Call, c # Idle
        PROVE  LET d == [c EXCEPT !.fresh = FALSE] IN d \in Call /\ d.op = c.op /\ d.file = c.file
    BY <1>1 DEF Call, SaveCall, CompleteCall
  <1>2. Idle \in Call  BY DEF Call
  <1>3. \A q \in Proc : call'[q] = Idle \/ (call[q] # Idle /\ call'[q] = [call[q] EXCEPT !.fresh = FALSE])
    BY DEF BumpAll, Bump
  <1>4. \A q \in Proc : call'[q] \in Call /\
          (call'[q] = Idle \/ (call'[q].op = call[q].op /\ call'[q].file = call[q].file))
    BY <1>1, <1>2, <1>3
  <1>5. call' \in [Proc -> Call]
    <2>1. call' = [q \in Proc |-> call'[q]]  BY DEF BumpAll, Bump
    <2> QED BY <1>4, <2>1
  <1> QED BY <1>4, <1>5

(* What becomes of a call while files move.                                  *)
Continues(q) ==
  \/ call'[q] = Idle
  \/ /\ call'[q].file = call[q].file
     /\ \/ call'[q].op = call[q].op
        \/ call[q].op = "save" /\ call'[q].op = "compensate"
        \/ call[q].op = "inspect" /\ call'[q].op = "reject"
        \/ call[q].op = "inspect" /\ call'[q].op = "attach" /\ object[call[q].file] = "good"

LEMMA CallsStay ==
  ASSUME Inv, call' \in [Proc -> Call], \A q \in Proc : Continues(q),
         \A f \in File : Exists(f) =>
           /\ Exists(f)'
           /\ file'[f].cleanup = "NONE" =>
                file[f].cleanup = "NONE" /\ (object[f] = "good" => object'[f] = "good"),
         \A q \in Proc : call'[q].op = "save" => file'[call[q].file] = file[call[q].file],
         \A q \in Proc : call'[q].op = "compensate" => call[q].file \notin issued'
  PROVE  \A p \in Proc : CallOK(p)'
  <1>1. TypeOK  BY DEF Inv
  <1> SUFFICES ASSUME NEW p \in Proc PROVE CallOK(p)'  OBVIOUS
  <1>3. CASE call'[p] = Idle
    BY <1>3 DEF CallOK, Idle, Saving
  <1>4. CASE call'[p] # Idle
    <2>1. call[p] \in Call /\ CallOK(p) /\ Continues(p) /\ call'[p].op # "idle"
      BY <1>1, <1>4, CallFields DEF TypeOK, Inv
    <2>2. call'[p].file = call[p].file /\ call[p].op # "idle" /\ call[p] # Idle
      BY <1>4, <2>1, CallFields DEF Continues
    <2>3. call[p].file \in File  BY <2>1, <2>2, CallFields
    <2>4. call'[p].op = "save" => ~Exists(call[p].file)'
      BY <1>4, <2>1, <2>2 DEF CallOK, Continues, Exists
    <2>5. call'[p].op = "compensate" => call'[p].file \notin issued'
      BY <2>2
    <2>6. ASSUME call'[p].op \in Saving, NEW q \in Proc \ {p}, call'[q].op \in Saving
          PROVE  call'[q].file # call'[p].file
      <3>1. call[p].op \in Saving  BY <1>4, <2>1, <2>6 DEF Continues, Saving
      <3>2. call'[q] # Idle  BY <2>6 DEF Idle, Saving
      <3>3. call[q].op \in Saving /\ call'[q].file = call[q].file
        BY <2>6, <3>2 DEF Continues, Saving
      <3> QED BY <2>1, <2>2, <3>1, <3>3 DEF CallOK
    <2>7. call'[p].op \in {"inspect", "attach", "reject"} => Exists(call[p].file)'
      BY <1>4, <2>1, <2>3 DEF CallOK, Continues
    <2>8. call'[p].op = "attach" /\ file'[call[p].file].cleanup = "NONE" =>
            object'[call[p].file] = "good"
      BY <1>4, <2>1, <2>3 DEF CallOK, Continues
    <2> QED BY <2>2, <2>4, <2>5, <2>6, <2>7, <2>8 DEF CallOK, Exists
  <1> QED BY <1>3, <1>4

(* A tick that waits finds its files as they were, or further gone.          *)
LEMMA TickStays ==
  ASSUME Inv, NEW w \in Worker, tick'[w] = tick[w], left' \in [File -> -LateBy .. Ttl],
         \A f \in File : job[f] # NoJob =>
           /\ job'[f] # NoJob /\ left'[f] <= left[f]
           /\ object[f] = "none" /\ left[f] + LateBy <= 0 => object'[f] = "none"
  PROVE  TickOK(w)'
  <1>1. TypeOK /\ TickOK(w)  BY DEF Inv
  <1> DEFINE t == tick[w]
  <1>2. CASE t.phase = "asleep"  BY <1>2 DEF TickOK
  <1>3. CASE t.phase # "asleep"
    <2>1. /\ t.phase = "next" \/ t.file \in File
          /\ \A f \in File \cap (t.todo \cup {t.file}) :
               /\ job[f] # NoJob /\ left[f] + Grace <= 0
               /\ f \in t.late => left[f] + LateBy <= 0
          /\ t.phase = "settle" /\ t.file \in t.late => object[t.file] = "none"
      BY <1>1, <1>3 DEF TickOK
    <2>2. \A f \in File : left[f] \in Int /\ left'[f] \in Int
      BY <1>1, Constants DEF TypeOK
    <2>3. \A f \in File \cap (t.todo \cup {t.file}) :
               /\ job'[f] # NoJob /\ left'[f] + Grace <= 0
               /\ f \in t.late => left'[f] + LateBy <= 0
      BY <2>1, <2>2, Constants
    <2>4. t.phase = "settle" /\ t.file \in t.late => object'[t.file] = "none"
      BY <2>1
    <2> QED BY <2>1, <2>3, <2>4 DEF TickOK
  <1> QED BY <1>2, <1>3

-----------------------------------------------------------------------------
LEMMA CapKeeps ==
  ASSUME PendingCap,
         \A f \in File : Pending(f)' /\ left'[f] > 0 => Pending(f) /\ left[f] > 0
  PROVE  PendingCap'
  <1>1. Waiting' \subseteq Waiting /\ Waiting \subseteq File  BY DEF Waiting
  <1>2. IsFiniteSet(Waiting)  BY <1>1, FileAssumption, FS_Subset
  <1>3. Cardinality(Waiting') <= Cardinality(Waiting)  BY <1>1, <1>2, FS_Subset
  <1>4. Cardinality(Waiting) \in Nat /\ Cardinality(Waiting') \in Nat
    BY <1>1, <1>2, FS_Subset, FS_CardinalityType
  <1> QED BY <1>3, <1>4, Constants DEF PendingCap

LEMMA ReadyStays ==
  ASSUME Ready, \A f \in File : Attached(f) => file'[f] = file[f]
  PROVE  Ready'
  BY DEF Ready, Active, Attached, Exists

(* Retired, with a job whose wait is long enough.                            *)
RetiresTo(f) ==
  /\ Exists(f)' /\ file'[f].attached = FALSE
  /\ file'[f].cleanup = "QUEUED" /\ file'[f].state # "PENDING"
  /\ job'[f] # NoJob
  /\ job'[f].late => left'[f] + LateBy <= job'[f].next

(* Steps that retire files at most.                                          *)
LEMMA RowsKeep ==
  ASSUME Inv, TypeOK', UNCHANGED <<object, issued>>,
         \A f \in File : Exists(f) => left'[f] = left[f],
         \A f \in File :
           \/ /\ file'[f] = file[f]
              /\ \/ job'[f] = job[f]
                 \/ /\ job[f] # NoJob /\ job'[f] # NoJob
                    /\ job'[f].late => left'[f] + LateBy <= job'[f].next
           \/ RetiresTo(f),
         \A p \in Proc : CallOK(p)', \A w \in Worker : TickOK(w)',
         status' = "PUBLISHED" => Ready /\ \A f \in File : Attached(f) => file'[f] = file[f]
  PROVE  Inv'
  <1>1. TypeOK /\ OneAttached /\ PendingCap /\ \A f \in File : FileOK(f)  BY DEF Inv
  <1>2. \A f \in File : Attached(f)' => file'[f] = file[f]
    BY DEF RetiresTo, Attached
  <1>3. OneAttached'  BY <1>1, <1>2 DEF OneAttached, Attached, Exists
  <1>4. PublishedReady'  BY ReadyStays DEF PublishedReady
  <1>5. \A f \in File : Pending(f)' /\ left'[f] > 0 => Pending(f) /\ left[f] > 0
    BY DEF RetiresTo, Pending, Exists
  <1>6. PendingCap'  BY <1>1, <1>5, CapKeeps
  <1>7. ASSUME NEW f \in File PROVE FileOK(f)'
    <2>1. FileOK(f)  BY <1>1
    <2>2. CASE RetiresTo(f)
      BY <2>1, <2>2 DEF FileOK, RetiresTo, Attached, Exists
    <2>3. CASE file'[f] = file[f] /\ job'[f] = job[f]
      BY <2>1, <2>3 DEF FileOK, Attached, Exists
    <2>4. CASE /\ file'[f] = file[f] /\ job[f] # NoJob /\ job'[f] # NoJob
               /\ job'[f].late => left'[f] + LateBy <= job'[f].next
      BY <2>1, <2>4 DEF FileOK, Attached, Exists
    <2> QED BY <2>2, <2>3, <2>4
  <1> QED BY <1>3, <1>4, <1>6, <1>7 DEF Inv

(* Steps of calls, and of managers, that write no row.                       *)
LEMMA CallsKeep ==
  ASSUME Inv, UNCHANGED <<file, job, left, object, issued, tick>>,
         call' \in [Proc -> Call], \A q \in Proc : Continues(q),
         status' \in Status, managed' \in BOOLEAN, faults' \in Nat,
         status' = "PUBLISHED" => Ready
  PROVE  Inv'
  <1>1. TypeOK /\ \A f \in File : FileOK(f)  BY DEF Inv
  <1>2. TypeOK'  BY <1>1 DEF TypeOK
  <1>3. ASSUME NEW q \in Proc, call'[q].op = "compensate" PROVE call[q].file \notin issued'
    <2>1. call'[q] # Idle  BY <1>3 DEF Idle
    <2>2. call[q].op \in Saving  BY <1>3, <2>1 DEF Continues, Saving
    <2>3. call[q].file \in File  BY <1>1, <2>2, CallFields DEF TypeOK
    <2> QED BY <1>1, <1>3, <2>1, <2>2, <2>3 DEF Inv, CallOK, FileOK, Saving
  <1>4. \A p \in Proc : CallOK(p)'
    BY <1>3, CallsStay DEF Exists
  <1>5. \A w \in Worker : TickOK(w)'
    <2>1. \A f \in File : left[f] <= left[f]  BY <1>1, Constants DEF TypeOK
    <2> QED BY <1>1, <2>1, TickStays DEF TypeOK
  <1> QED BY <1>1, <1>2, <1>4, <1>5, RowsKeep

LEMMA CallEnds ==
  ASSUME Inv, NEW p \in Proc, Finish(p)
  PROVE  call' \in [Proc -> Call] /\ \A q \in Proc : Continues(q)
  BY FinishFacts DEF Inv, TypeOK, Continues

LEMMA HandlersKeep ==
  ASSUME Inv, NEW p \in Proc,
         SaveRefused(p) \/ Inspects(p) \/ AttachEnds(p) \/ CallFails(p)
  PROVE  Inv' /\ file' = file
  <1>1. TypeOK /\ call \in [Proc -> Call] /\ (status = "PUBLISHED" => Ready)
    BY DEF Inv, TypeOK, PublishedReady
  <1>2. call' \in [Proc -> Call] /\ \A q \in Proc : Continues(q)
    <2>1. CASE Finish(p)  BY <2>1, CallEnds
    <2>2. CASE SaveRefused(p)
      BY <1>1, <2>2, CallFields, GotoFacts DEF SaveRefused, Saving, Continues
    <2>3. CASE Inspects(p)
      <3>1. call[p] \in CompleteCall  BY <1>1, <2>3, CallFields DEF Inspects
      <3>2. \/ Finish(p) \/ Goto(p, "reject")
            \/ object[call[p].file] = "good" /\ Goto(p, "attach")
        BY <2>3 DEF Inspects
      <3> QED BY <1>1, <2>1, <2>3, <3>1, <3>2, GotoFacts DEF Inspects, Continues
    <2> QED BY <2>1, <2>2, <2>3 DEF AttachEnds, CallFails
  <1>3. /\ UNCHANGED <<file, job, left, object, issued, tick, status, managed>>
        /\ faults' \in Nat
    BY <1>1 DEF SaveRefused, Inspects, AttachEnds, CallFails, Fault, rows, TypeOK
  <1> QED BY <1>1, <1>2, <1>3, CallsKeep DEF TypeOK

LEMMA ManagersKeep ==
  ASSUME Inv, Transition \/ Update \/ ChangeManager
  PROVE  Inv' /\ file' = file
  <1>1. TypeOK /\ call \in [Proc -> Call] /\ (status = "PUBLISHED" => Ready)
    BY DEF Inv, TypeOK, PublishedReady
  <1>2. call' \in [Proc -> Call] /\ \A q \in Proc : Continues(q)
    <2>1. CASE BumpAll  BY <1>1, <2>1, BumpFacts DEF Continues
    <2>2. CASE call' = call  BY <1>1, <2>2 DEF Continues
    <2> QED BY <2>1, <2>2 DEF Transition, Moves, Update, ChangeManager
  <1>3. /\ UNCHANGED <<file, job, left, object, issued, tick>>
        /\ faults' \in Nat /\ managed' \in BOOLEAN /\ status' \in Status
        /\ status' = "PUBLISHED" => Ready
    <2>1. CASE Transition
      BY <1>1, <2>1 DEF Transition, Moves, rows, TypeOK, Status
    <2>2. CASE Update  BY <1>1, <2>2 DEF Update, rows, TypeOK
    <2>3. CASE ChangeManager
      <3>1. managed' = ~managed  BY <2>3 DEF ChangeManager
      <3>2. managed' \in BOOLEAN  BY <3>1, Zenon
      <3> QED BY <1>1, <2>3, <3>2 DEF ChangeManager, Fault, rows, TypeOK
    <2> QED BY <2>1, <2>2, <2>3
  <1> QED BY <1>2, <1>3, CallsKeep

LEMMA BeginsKeep ==
  ASSUME Inv, NEW p \in Proc,
         (\E u \in Purpose : RequestUpload(p, u)) \/ \E f \in File : Complete(p, f)
  PROVE  Inv' /\ file' = file
  <1>1. /\ TypeOK /\ call \in [Proc -> Call] /\ (status = "PUBLISHED" => Ready)
        /\ \A f \in File : FileOK(f)
    BY DEF Inv, TypeOK, PublishedReady
  <1>2. ASSUME NEW u \in Purpose, RequestUpload(p, u)
        PROVE  Inv' /\ file' = file
    <2>1. PICK f \in File :
            /\ ~Exists(f) /\ ~Held(f)
            /\ left' = [left EXCEPT ![f] = Ttl]
            /\ call' = [call EXCEPT ![p] =
                        [op |-> "save", file |-> f, purpose |-> u, fresh |-> TRUE]]
      BY <1>2 DEF RequestUpload
    <2>2. UNCHANGED <<status, managed, file, job, object, issued, tick, faults>>
      BY <1>2 DEF RequestUpload, rows
    <2>3. [op |-> "save", file |-> f, purpose |-> u, fresh |-> TRUE] \in Call
      BY DEF Call, SaveCall
    <2>4. /\ call' \in [Proc -> Call] /\ call'[p].op = "save" /\ call'[p].file = f
          /\ \A q \in Proc : q # p => call'[q] = call[q]
      BY <1>1, <2>1, <2>3
    <2>5. /\ left' \in [File -> -LateBy .. Ttl]
          /\ \A g \in File : Exists(g) => left'[g] = left[g] /\ left'[g] <= left[g]
      <3>1. Ttl \in -LateBy .. Ttl  BY Constants
      <3>2. \A g \in File : left[g] \in Int  BY <1>1, Constants DEF TypeOK
      <3> QED BY <1>1, <2>1, <3>1, <3>2 DEF TypeOK
    <2>6. TypeOK'  BY <1>1, <2>2, <2>4, <2>5 DEF TypeOK
    <2>7. ASSUME NEW q \in Proc PROVE CallOK(q)'
      <3>1. \A r \in Proc \ {p} : call[r].op \in Saving => call[r].file # f
        BY <2>1 DEF Held, Idle, Saving
      <3>2. CASE q = p
        BY <2>1, <2>2, <2>4, <3>1, <3>2 DEF CallOK, Exists, Saving
      <3>3. CASE q # p
        BY <2>2, <2>4, <3>1, <3>3 DEF Inv, CallOK, Exists
      <3> QED BY <3>2, <3>3
    <2>8. \A w \in Worker : TickOK(w)'
      <3>1. \A g \in File : job[g] # NoJob => Exists(g)  BY <1>1 DEF FileOK
      <3> QED BY <2>2, <2>5, <3>1, TickStays
    <2> QED BY <1>1, <2>2, <2>5, <2>6, <2>7, <2>8, RowsKeep
  <1>3. ASSUME NEW f \in File, Complete(p, f)
        PROVE  Inv' /\ file' = file
    <2>1. UNCHANGED <<status, managed, file, job, left, object, issued, tick, faults>>
      BY <1>3 DEF Complete, rows
    <2>2. [op |-> "inspect", file |-> f, fresh |-> TRUE] \in Call
      BY DEF Call, CompleteCall
    <2>3. /\ call' \in [Proc -> Call] /\ call'[p].op = "inspect" /\ call'[p].file = f
          /\ \A q \in Proc : q # p => call'[q] = call[q]
      BY <1>1, <1>3, <2>2 DEF Complete
    <2>4. TypeOK'  BY <1>1, <2>1, <2>3 DEF TypeOK
    <2>5. Exists(f)  BY <1>3 DEF Complete, Usable, Pending
    <2>6. ASSUME NEW q \in Proc PROVE CallOK(q)'
      <3>1. CASE q = p
        BY <2>1, <2>3, <2>5, <3>1 DEF CallOK, Exists, Saving
      <3>2. CASE q # p
        BY <2>1, <2>3, <3>2 DEF Inv, CallOK, Exists, Saving
      <3> QED BY <3>1, <3>2
    <2>7. \A w \in Worker : TickOK(w)'
      <3>1. \A g \in File : left[g] <= left[g]  BY <1>1, Constants DEF TypeOK
      <3> QED BY <1>1, <2>1, <3>1, TickStays DEF TypeOK
    <2> QED BY <1>1, <2>1, <2>4, <2>6, <2>7, RowsKeep
  <1> QED BY <1>2, <1>3

(* Files are retired, and calls go on or end.                                *)
LEMMA RetiresKeep ==
  ASSUME Inv, NEW S \in SUBSET File, \A f \in S : Exists(f),
         file' = RetireFiles(S), job' = Enqueue(S),
         UNCHANGED <<managed, left, object, issued, tick, faults>>,
         call' \in [Proc -> Call], \A q \in Proc : Continues(q),
         \A q \in Proc : call'[q].op = "compensate" => call[q].op = "compensate",
         \/ status' = "DELETED"
         \/ status' = status /\ \A f \in S : ~Attached(f)
  PROVE  Inv'
  <1>1. TypeOK /\ (status = "PUBLISHED" => Ready) /\ \A f \in File : FileOK(f)
    BY DEF Inv, PublishedReady
  <1>2. /\ file' \in [File -> FileRow \cup {NoFile}] /\ job' \in [File -> JobRow \cup {NoJob}]
        /\ \A f \in S : file'[f] = Retired(file[f]) /\ job'[f] # NoJob
        /\ \A f \in File \ S : file'[f] = file[f] /\ job'[f] = job[f]
        /\ \A f \in File :
             /\ job[f] # NoJob => job'[f] = job[f]
             /\ job'[f] # NoJob /\ job'[f].late => left[f] + LateBy <= job'[f].next
    BY RetireFacts, EnqueueFacts
  <1>3. TypeOK'  BY <1>1, <1>2 DEF TypeOK, Status
  <1>4. ASSUME NEW f \in S PROVE RetiresTo(f)
    <2>1. file[f] \in FileRow  BY <1>1 DEF TypeOK, Exists
    <2> QED BY <1>2, <2>1, RetiredFacts DEF RetiresTo, Exists
  <1>5. \A p \in Proc : CallOK(p)'
    <2>1. ASSUME NEW f \in File, Exists(f)
          PROVE  /\ Exists(f)'
                 /\ file'[f].cleanup = "NONE" => file[f].cleanup = "NONE"
      BY <1>2, <1>4, <2>1 DEF RetiresTo, Exists
    <2>2. ASSUME NEW q \in Proc, call'[q].op = "save"
          PROVE  file'[call[q].file] = file[call[q].file]
      <3>1. call[q].op = "save"  BY <2>2 DEF Continues, Idle
      <3>2. ~Exists(call[q].file) /\ call[q].file \in File
        BY <1>1, <3>1, CallFields DEF Inv, CallOK, TypeOK, Saving
      <3> QED BY <1>2, <3>2
    <2>3. \A q \in Proc : call'[q].op = "compensate" => call[q].file \notin issued'
      BY DEF Inv, CallOK
    <2> QED BY <2>1, <2>2, <2>3, CallsStay
  <1>6. \A w \in Worker : TickOK(w)'
    <2>1. \A f \in File : left[f] <= left[f]  BY <1>1, Constants DEF TypeOK
    <2> QED BY <1>1, <1>2, <2>1, TickStays DEF TypeOK
  <1>7. status' = "PUBLISHED" => Ready /\ \A f \in File : Attached(f) => file'[f] = file[f]
    BY <1>1, <1>2
  <1> QED BY <1>2, <1>3, <1>4, <1>5, <1>6, <1>7, RowsKeep

(* A file that has been handed over is not attached by the step.             *)
Stays(f) == Exists(f) /\ file[f].cleanup # "NONE" => ~file'[f].attached

LEMMA RetiredStays ==
  ASSUME Inv, NEW S \in SUBSET File, \A f \in S : Exists(f), file' = RetireFiles(S)
  PROVE  \A f \in File : Stays(f)
  <1>1. TypeOK /\ \A f \in File : FileOK(f)  BY DEF Inv
  <1>2. ASSUME NEW f \in File, Exists(f), file[f].cleanup # "NONE" PROVE ~file'[f].attached
    <2>1. file[f] \in FileRow  BY <1>1, <1>2 DEF TypeOK, Exists
    <2>2. CASE f \in S  BY <2>1, <2>2, RetireFacts, RetiredFacts
    <2>3. CASE f \notin S
      BY <1>1, <1>2, <2>3, RetireFacts DEF FileOK, Attached
    <2> QED BY <2>2, <2>3
  <1> QED BY <1>2 DEF Stays

LEMMA RejectsKeeps ==
  ASSUME Inv, NEW p \in Proc, Rejects(p)
  PROVE  Inv' /\ \A f \in File : Stays(f)
  <1>1. TypeOK /\ \A f \in File : FileOK(f)  BY DEF Inv
  <1> DEFINE S == {call[p].file} \cap {f \in File : Pending(f)}
  <1>2. /\ file' = RetireFiles(S) /\ job' = Enqueue(S) /\ Finish(p)
        /\ UNCHANGED <<status, managed, left, object, issued, tick, faults>>
    BY DEF Rejects
  <1>3. S \in SUBSET File /\ \A f \in S : Exists(f) /\ ~Attached(f)
    BY <1>1 DEF Pending, FileOK
  <1> HIDE DEF S
  <1>4. /\ call' \in [Proc -> Call] /\ \A q \in Proc : Continues(q)
        /\ \A q \in Proc : call'[q] = call[q] \/ call'[q] = Idle
    BY <1>1, <1>2, CallEnds, FinishFacts DEF TypeOK
  <1>5. Inv'  BY <1>2, <1>3, <1>4, RetiresKeep DEF Idle
  <1> QED BY <1>2, <1>3, <1>5, RetiredStays

LEMMA DeleteKeeps ==
  ASSUME Inv, Delete
  PROVE  Inv' /\ \A f \in File : Stays(f)
  <1>1. TypeOK  BY DEF Inv
  <1> DEFINE S == {f \in File : Attached(f) \/ Pending(f)}
  <1>2. /\ file' = RetireFiles(S) /\ job' = Enqueue(S) /\ BumpAll /\ status' = "DELETED"
        /\ UNCHANGED <<managed, left, object, issued, tick, faults>>
    BY DEF Delete
  <1>3. S \in SUBSET File /\ \A f \in S : Exists(f)
    BY DEF Pending, Attached
  <1> HIDE DEF S
  <1>4. /\ call' \in [Proc -> Call]
        /\ \A q \in Proc : \/ call'[q] = Idle
                           \/ call'[q].op = call[q].op /\ call'[q].file = call[q].file
    BY <1>1, <1>2, BumpFacts DEF TypeOK
  <1>5. /\ \A q \in Proc : Continues(q)
        /\ \A q \in Proc : call'[q].op = "compensate" => call[q].op = "compensate"
    BY <1>4 DEF Continues, Idle
  <1>6. Inv'  BY <1>2, <1>3, <1>4, <1>5, RetiresKeep
  <1> QED BY <1>2, <1>3, <1>6, RetiredStays

-----------------------------------------------------------------------------
(* The row of an upload whose URL cannot have reached anybody.               *)
LEMMA CompensatesKeeps ==
  ASSUME Inv, NEW p \in Proc, Compensates(p)
  PROVE  Inv' /\ \A f \in File : Stays(f)
  <1> DEFINE c == call[p]
             r == Retired(Intent(c.purpose))
  <1>1. TypeOK /\ (status = "PUBLISHED" => Ready) /\ \A f \in File : FileOK(f)
    BY DEF Inv, PublishedReady
  <1>2. c.file \in File /\ c.purpose \in Purpose /\ c.file \notin issued /\ c.op = "compensate"
    BY <1>1, CallFields DEF Compensates, TypeOK, Inv, CallOK, Saving
  <1>3. r \in FileRow /\ r.attached = FALSE /\ r # NoFile
        /\ r.cleanup = "QUEUED" /\ r.state # "PENDING"
    BY <1>2, IntentFacts, RetiredFacts
  <1>4. /\ file' = [file EXCEPT ![c.file] = r] /\ job' = Enqueue({c.file}) /\ Finish(p)
        /\ UNCHANGED <<status, managed, left, object, issued, tick, faults>>
    BY DEF Compensates
  <1> HIDE DEF r
  <1>5. /\ file' \in [File -> FileRow \cup {NoFile}] /\ file'[c.file] = r
        /\ \A f \in File : f # c.file => file'[f] = file[f]
    BY <1>1, <1>2, <1>3, <1>4 DEF TypeOK
  <1>6. /\ job' \in [File -> JobRow \cup {NoJob}] /\ job'[c.file] # NoJob
        /\ \A f \in File : f # c.file => job'[f] = job[f]
        /\ \A f \in File :
             /\ job[f] # NoJob => job'[f] = job[f]
             /\ job'[f] # NoJob /\ job'[f].late => left[f] + LateBy <= job'[f].next
    BY <1>2, <1>4, EnqueueFacts
  <1>7. /\ call' \in [Proc -> Call] /\ call'[p] = Idle
        /\ \A q \in Proc : q # p => call'[q] = call[q]
    BY <1>1, <1>4, FinishFacts DEF TypeOK
  <1>8. TypeOK'  BY <1>1, <1>4, <1>5, <1>6, <1>7 DEF TypeOK
  <1>9. \A f \in File : f = c.file => RetiresTo(f)
    BY <1>2, <1>3, <1>4, <1>5, <1>6 DEF RetiresTo, Exists
  <1>10. \A q \in Proc : CallOK(q)'
    <2>1. \A q \in Proc : Continues(q)  BY <1>7 DEF Continues
    <2>2. \A f \in File : Exists(f) =>
           /\ Exists(f)'
           /\ file'[f].cleanup = "NONE" =>
                file[f].cleanup = "NONE" /\ (object[f] = "good" => object'[f] = "good")
      BY <1>3, <1>4, <1>5 DEF Exists
    <2>3. ASSUME NEW q \in Proc, call'[q].op = "save"
          PROVE  file'[call[q].file] = file[call[q].file]
      <3>1. q # p /\ call[q].op = "save"  BY <1>7, <2>3 DEF Idle
      <3>2. call[q].file # c.file /\ call[q].file \in File
        BY <1>1, <1>2, <3>1, CallFields DEF Inv, CallOK, TypeOK, Saving
      <3> QED BY <1>5, <3>2
    <2>4. ASSUME NEW q \in Proc, call'[q].op = "compensate"
          PROVE  call[q].file \notin issued'
      <3>1. q # p /\ call[q].op = "compensate"  BY <1>7, <2>4 DEF Idle
      <3> QED BY <1>4, <3>1 DEF Inv, CallOK
    <2> QED BY <1>7, <2>1, <2>2, <2>3, <2>4, CallsStay
  <1>11. \A w \in Worker : TickOK(w)'
    <2>1. \A f \in File : left[f] <= left[f]  BY <1>1, Constants DEF TypeOK
    <2> QED BY <1>1, <1>4, <1>6, <2>1, TickStays DEF TypeOK
  <1>12. \A f \in File : Attached(f) => file'[f] = file[f]
    BY <1>1, <1>2, <1>5 DEF FileOK
  <1>13. Inv'
    BY <1>1, <1>4, <1>5, <1>6, <1>8, <1>9, <1>10, <1>11, <1>12, RowsKeep
  <1>14. \A f \in File : Stays(f)
    BY <1>1, <1>3, <1>5 DEF Stays, FileOK, Attached
  <1> QED BY <1>13, <1>14

(* The row of an upload is written, its answer sent or lost.                 *)
LEMMA SavesKeep ==
  ASSUME Inv, NEW p \in Proc, call[p].op = "save", MaySave(call[p]),
         file' = [file EXCEPT ![call[p].file] = Intent(call[p].purpose)],
         UNCHANGED <<status, managed, job, left, object, tick>>, faults' \in Nat,
         \/ Finish(p) /\ issued' = issued \cup {call[p].file}
         \/ Goto(p, "compensate") /\ issued' = issued
  PROVE  Inv' /\ \A f \in File : Stays(f)
  <1> DEFINE c == call[p]
             r == Intent(c.purpose)
  <1>1. TypeOK /\ OneAttached /\ PublishedReady /\ \A f \in File : FileOK(f)
    BY DEF Inv
  <1>2. c.file \in File /\ c.purpose \in Purpose /\ c \in SaveCall /\ ~Exists(c.file)
    BY <1>1, CallFields DEF TypeOK, Inv, CallOK, Saving
  <1>3. r \in FileRow /\ r.attached = FALSE /\ r # NoFile /\ r.cleanup = "NONE"
    BY <1>2, IntentFacts
  <1> HIDE DEF r
  <1>4. /\ file' \in [File -> FileRow \cup {NoFile}] /\ file'[c.file] = r
        /\ \A f \in File : f # c.file => file'[f] = file[f]
    BY <1>1, <1>2, <1>3 DEF TypeOK, r
  <1>5. /\ call' \in [Proc -> Call]
        /\ \A q \in Proc : q # p => call'[q] = call[q]
        /\ \/ call'[p] = Idle
           \/ call'[p].op = "compensate" /\ call'[p].file = c.file /\ issued' = issued
    BY <1>1, <1>2, FinishFacts, GotoFacts DEF TypeOK, Saving
  <1>6. issued' \subseteq File /\ \A f \in File : f # c.file => (f \in issued' <=> f \in issued)
    BY <1>1, <1>2 DEF TypeOK
  <1>7. TypeOK'  BY <1>1, <1>4, <1>5, <1>6 DEF TypeOK
  <1>8. c.file \notin issued /\ object[c.file] = "none" /\ job[c.file] = NoJob
    BY <1>1, <1>2 DEF FileOK
  <1>9. \A f \in File : Attached(f) \/ Attached(f)' => file'[f] = file[f]
    BY <1>2, <1>3, <1>4 DEF Attached
  <1>10. OneAttached'  BY <1>1, <1>9 DEF OneAttached, Attached, Exists
  <1>11. PublishedReady'  BY <1>1, <1>9, ReadyStays DEF PublishedReady
  <1>12. PendingCap'
    <2>1. Waiting' \subseteq Waiting \cup {c.file}
      BY <1>4 DEF Waiting, Pending, Exists
    <2>2. IsFiniteSet(Waiting)
      <3>1. Waiting \subseteq File  BY DEF Waiting
      <3> QED BY <3>1, FileAssumption, FS_Subset
    <2>3. /\ IsFiniteSet(Waiting \cup {c.file})
          /\ Cardinality(Waiting \cup {c.file}) <= Cardinality(Waiting) + 1
      <3>1. /\ IsFiniteSet(Waiting \cup {c.file})
            /\ \/ Cardinality(Waiting \cup {c.file}) = Cardinality(Waiting)
               \/ Cardinality(Waiting \cup {c.file}) = Cardinality(Waiting) + 1
        BY <2>2, FS_AddElement
      <3>2. Cardinality(Waiting) \in Nat  BY <2>2, FS_CardinalityType
      <3> QED BY <3>1, <3>2
    <2>4. /\ IsFiniteSet(Waiting')
          /\ Cardinality(Waiting') <= Cardinality(Waiting \cup {c.file})
      BY <2>1, <2>3, FS_Subset
    <2>5. /\ Cardinality(Waiting) \in Nat /\ Cardinality(Waiting') \in Nat
          /\ Cardinality(Waiting \cup {c.file}) \in Nat
      BY <2>2, <2>3, <2>4, FS_CardinalityType
    <2> QED BY <2>3, <2>4, <2>5, Constants DEF PendingCap, MaySave
  <1>13. ASSUME NEW f \in File PROVE FileOK(f)'
    <2>1. FileOK(f)  BY <1>1
    <2>2. CASE f = c.file
      BY <1>3, <1>4, <1>8, <2>2 DEF FileOK, Attached, Exists
    <2>3. CASE f # c.file
      BY <1>4, <1>6, <2>1, <2>3 DEF FileOK, Attached, Exists
    <2> QED BY <2>2, <2>3
  <1>14. \A q \in Proc : CallOK(q)'
    <2>1. \A q \in Proc : Continues(q)  BY <1>5 DEF Continues
    <2>2. \A f \in File : Exists(f) =>
           /\ Exists(f)'
           /\ file'[f].cleanup = "NONE" =>
                file[f].cleanup = "NONE" /\ (object[f] = "good" => object'[f] = "good")
      BY <1>2, <1>4 DEF Exists
    <2>3. ASSUME NEW q \in Proc, q # p, call[q].op \in Saving
          PROVE  call[q].file # c.file /\ call[q].file \in File
      BY <1>1, <2>3, CallFields DEF Inv, CallOK, TypeOK, Saving
    <2>4. ASSUME NEW q \in Proc, call'[q].op = "save"
          PROVE  file'[call[q].file] = file[call[q].file]
      <3>1. q # p /\ call[q].op = "save"  BY <1>5, <2>4 DEF Idle
      <3> QED BY <1>4, <2>3, <3>1 DEF Saving
    <2>5. ASSUME NEW q \in Proc, call'[q].op = "compensate"
          PROVE  call[q].file \notin issued'
      <3>1. CASE q = p  BY <1>5, <1>8, <2>5, <3>1 DEF Idle
      <3>2. CASE q # p
        <4>1. call[q].op = "compensate"  BY <1>5, <2>5, <3>2
        <4> QED BY <1>6, <2>3, <3>2, <4>1 DEF Inv, CallOK, Saving
      <3> QED BY <3>1, <3>2
    <2> QED BY <1>5, <2>1, <2>2, <2>4, <2>5, CallsStay
  <1>15. \A w \in Worker : TickOK(w)'
    <2>1. \A f \in File : left[f] <= left[f]  BY <1>1, Constants DEF TypeOK
    <2> QED BY <1>1, <2>1, TickStays DEF TypeOK
  <1>16. \A f \in File : Stays(f)
    BY <1>1, <1>3, <1>4 DEF Stays, FileOK, Attached
  <1> QED BY <1>7, <1>10, <1>11, <1>12, <1>13, <1>14, <1>15, <1>16 DEF Inv

(* What an attachment replaces is retired in the same step.                  *)
LEMMA AttachesKeeps ==
  ASSUME Inv, NEW p \in Proc, Attaches(p)
  PROVE  Inv' /\ \A f \in File : Stays(f)
  <1>0. PICK h, R : h = call[p].file /\ R = Previous(h)
    OBVIOUS
  <1>1. TypeOK /\ OneAttached /\ PublishedReady /\ PendingCap /\ \A f \in File : FileOK(f)
    BY DEF Inv
  <1>2. /\ h \in File /\ Usable(h) /\ object[h] = "good"
    <2>1. call[p].op = "attach" /\ call[p].file \in File /\ Usable(call[p].file)
      BY <1>1, CallFields DEF Attaches, MayAttach, TypeOK
    <2> QED BY <1>0, <2>1 DEF Inv, CallOK, Usable
  <1>3. /\ file[h] \in FileRow /\ file[h].state = "PENDING" /\ file[h].cleanup = "NONE"
        /\ Exists(h)
    BY <1>1, <1>2 DEF Usable, Pending, Exists, TypeOK
  <1>4. /\ R \in SUBSET File /\ h \notin R
        /\ \A f \in File : f \in R <=> f # h /\ Attached(f) /\ file[f].purpose = file[h].purpose
        /\ \A f \in R : Exists(f)
    BY <1>0 DEF Previous, Attached
  <1>5. PICK r : r = [[file[h] EXCEPT !.state = "READY"] EXCEPT !.attached = TRUE]
    OBVIOUS
  <1>6. /\ r \in FileRow /\ r.state = "READY" /\ r.cleanup = "NONE" /\ r # NoFile
        /\ r.purpose = file[h].purpose /\ r.attached
    <2> DEFINE r1 == [file[h] EXCEPT !.state = "READY"]
    <2>1. /\ r1 \in FileRow /\ r1.state = "READY" /\ r1.cleanup = "NONE"
          /\ r1.purpose = file[h].purpose
      BY <1>3 DEF FileRow
    <2>2. r = [r1 EXCEPT !.attached = TRUE]  BY <1>5
    <2> HIDE DEF r1
    <2>3. /\ r \in FileRow /\ r.state = "READY" /\ r.cleanup = "NONE"
          /\ r.purpose = file[h].purpose /\ r.attached = TRUE
      BY <2>1, <2>2 DEF FileRow
    <2> QED BY <2>3 DEF FileRow, NoFile
  <1>7. /\ file' = [RetireFiles(R) EXCEPT ![h] = r]
        /\ job' = Enqueue(R) /\ Bump(p)
        /\ UNCHANGED <<status, managed, left, object, issued, tick, faults>>
    <2>1. RetireFiles(R)[h] = file[h]  BY <1>2, <1>4, RetireFacts
    <2>2. file' = [RetireFiles(R) EXCEPT ![h] =
                     [[RetireFiles(R)[h] EXCEPT !.state = "READY"] EXCEPT !.attached = TRUE]]
      <3>1. RetireFiles(R) \in [File -> FileRow \cup {NoFile}]  BY <1>4, RetireFacts
      <3>2. file' = [[RetireFiles(R) EXCEPT ![h].state = "READY"] EXCEPT ![h].attached = TRUE]
        BY <1>0 DEF Attaches
      <3> QED BY <1>2, <3>1, <3>2
    <2> QED BY <1>0, <1>5, <2>1, <2>2 DEF Attaches
  <1>8. /\ file' \in [File -> FileRow \cup {NoFile}] /\ file'[h] = r
        /\ \A f \in R : file'[f] = Retired(file[f])
        /\ \A f \in File \ R : f # h => file'[f] = file[f]
    BY <1>2, <1>4, <1>6, <1>7, RetireFacts
  <1>9. /\ job' \in [File -> JobRow \cup {NoJob}]
        /\ \A f \in R : job'[f] # NoJob
        /\ \A f \in File \ R : job'[f] = job[f]
        /\ \A f \in File :
             /\ job[f] # NoJob => job'[f] = job[f]
             /\ job'[f] # NoJob /\ job'[f].late => left[f] + LateBy <= job'[f].next
    BY <1>4, <1>7, EnqueueFacts
  <1>10. /\ call' \in [Proc -> Call]
         /\ \A q \in Proc : \/ call'[q] = Idle
                            \/ call'[q].op = call[q].op /\ call'[q].file = call[q].file
    BY <1>1, <1>7, BumpFacts DEF TypeOK
  <1>11. TypeOK'  BY <1>1, <1>7, <1>8, <1>9, <1>10 DEF TypeOK
  <1>12. ASSUME NEW f \in R PROVE RetiresTo(f)
    <2>1. file[f] \in FileRow  BY <1>1, <1>4 DEF TypeOK, Exists
    <2>2. /\ file'[f] # NoFile /\ file'[f].attached = FALSE
          /\ file'[f].cleanup = "QUEUED" /\ file'[f].state # "PENDING"
      BY <1>8, <2>1, RetiredFacts
    <2>3. job'[f] # NoJob /\ (job'[f].late => left'[f] + LateBy <= job'[f].next)
      BY <1>4, <1>7, <1>9
    <2> QED BY <2>2, <2>3 DEF RetiresTo, Exists
  <1>13. ASSUME NEW f \in File PROVE FileOK(f)'
    <2>1. FileOK(f) /\ FileOK(h)  BY <1>1, <1>2
    <2>2. CASE f = h
      <3>1. job'[h] = NoJob  BY <1>2, <1>3, <1>4, <1>9, <2>1 DEF FileOK
      <3>2. object'[h] = "good" /\ h \in issued'  BY <1>2, <1>7, <2>1 DEF FileOK
      <3> QED BY <1>6, <1>8, <2>2, <3>1, <3>2 DEF FileOK, Attached, Exists
    <2>3. CASE f \in R
      BY <1>7, <1>12, <2>1, <2>3 DEF FileOK, RetiresTo, Attached, Exists
    <2>4. CASE f \notin R /\ f # h
      BY <1>7, <1>8, <1>9, <2>1, <2>4 DEF FileOK, Attached, Exists
    <2> QED BY <2>2, <2>3, <2>4
  <1>14. OneAttached'
    <2>1. ASSUME NEW f \in File, Attached(f)', f # h
          PROVE  f \notin R /\ Attached(f) /\ file'[f] = file[f]
      BY <1>8, <1>12, <2>1 DEF RetiresTo, Attached, Exists
    <2>2. \A f \in File : Attached(f)' /\ f # h => file'[f].purpose # file'[h].purpose
      BY <1>4, <1>6, <1>8, <2>1
    <2>3. ASSUME NEW f \in File, NEW g \in File, Attached(f)', Attached(g)',
                 file'[f].purpose = file'[g].purpose
          PROVE  f = g
      BY <1>1, <2>1, <2>2, <2>3 DEF OneAttached
    <2> QED BY <2>3 DEF OneAttached, Attached, Exists
  <1>15. PublishedReady'
    <2> SUFFICES ASSUME status = "PUBLISHED", NEW u \in Required
                 PROVE \E f \in File : Active(f, u)'
      BY <1>7 DEF PublishedReady, Ready
    <2>1. PICK f \in File : Active(f, u)  BY <1>1 DEF PublishedReady, Ready
    <2>2. f # h  BY <1>3, <2>1 DEF Active
    <2>3. CASE f \in R
      <3>1. file'[h].purpose = u  BY <1>4, <1>6, <1>8, <2>1, <2>3 DEF Active
      <3>2. Active(h, u)'  BY <1>6, <1>8, <3>1 DEF Active, Attached, Exists
      <3> QED BY <1>2, <3>2
    <2>4. CASE f \notin R
      BY <1>8, <2>1, <2>2, <2>4 DEF Active, Attached, Exists
    <2> QED BY <2>3, <2>4
  <1>16. PendingCap'
    <2>1. \A f \in File : Pending(f)' => file'[f] = file[f]
      BY <1>6, <1>8, <1>12 DEF RetiresTo, Pending, Exists
    <2>2. \A f \in File : Pending(f)' /\ left'[f] > 0 => Pending(f) /\ left[f] > 0
      BY <1>7, <2>1 DEF Pending, Exists
    <2> QED BY <1>1, <2>2, CapKeeps
  <1>17. \A q \in Proc : CallOK(q)'
    <2>1. \A q \in Proc : Continues(q)  BY <1>10 DEF Continues
    <2>2. ASSUME NEW f \in File, Exists(f)
          PROVE  /\ Exists(f)'
                 /\ file'[f].cleanup = "NONE" => file[f].cleanup = "NONE"
      <3>1. CASE f = h  BY <1>3, <1>6, <1>8, <3>1 DEF Exists
      <3>2. CASE f \in R  BY <1>12, <3>2 DEF RetiresTo
      <3>3. CASE f \notin R /\ f # h  BY <1>8, <2>2, <3>3 DEF Exists
      <3> QED BY <3>1, <3>2, <3>3
    <2>3. ASSUME NEW q \in Proc, call'[q].op = "save"
          PROVE  file'[call[q].file] = file[call[q].file]
      <3>1. call[q].op = "save"  BY <1>10, <2>3 DEF Idle
      <3>2. ~Exists(call[q].file) /\ call[q].file \in File
        BY <1>1, <3>1, CallFields DEF Inv, CallOK, TypeOK, Saving
      <3> QED BY <1>3, <1>4, <1>8, <3>2
    <2>4. \A q \in Proc : call'[q].op = "compensate" => call[q].file \notin issued'
      BY <1>7, <1>10 DEF Inv, CallOK, Idle
    <2> QED BY <1>7, <1>10, <2>1, <2>2, <2>3, <2>4, CallsStay
  <1>18. \A w \in Worker : TickOK(w)'
    <2>1. \A f \in File : left[f] <= left[f]  BY <1>1, Constants DEF TypeOK
    <2> QED BY <1>1, <1>7, <1>9, <2>1, TickStays DEF TypeOK
  <1>19. ASSUME NEW f \in File PROVE Stays(f)
    <2>1. CASE f = h  BY <1>3, <2>1 DEF Stays
    <2>2. CASE f \in R  BY <1>12, <2>2 DEF Stays, RetiresTo
    <2>3. CASE f \notin R /\ f # h  BY <1>1, <1>8, <2>3 DEF Stays, FileOK, Attached
    <2> QED BY <2>1, <2>2, <2>3
  <1> QED BY <1>11, <1>13, <1>14, <1>15, <1>16, <1>17, <1>18, <1>19 DEF Inv

-----------------------------------------------------------------------------
Awake == [phase : {"next", "delete", "settle", "postpone"}, todo : SUBSET File,
          late : SUBSET File, file : File \cup {"none"}]

LEMMA TickFields ==
  ASSUME NEW t \in Tick, t.phase # "asleep"
  PROVE  /\ t \in Awake /\ t.todo \in SUBSET File /\ t.late \in SUBSET File
         /\ t.file \in File \cup {"none"}
  BY DEF Tick, Asleep, Awake

(* Steps of one worker that write no row and no object.                      *)
LEMMA WorkersKeep ==
  ASSUME Inv, NEW w \in Worker, NEW t \in Tick, tick' = [tick EXCEPT ![w] = t],
         UNCHANGED <<status, managed, file, job, left, object, issued, call>>, faults' \in Nat,
         TickOK(w)'
  PROVE  Inv'
  <1>1. TypeOK /\ (status = "PUBLISHED" => Ready) /\ \A f \in File : FileOK(f)
    BY DEF Inv, PublishedReady
  <1>2. tick' \in [Worker -> Tick] /\ \A v \in Worker : v # w => tick'[v] = tick[v]
    BY <1>1 DEF TypeOK
  <1>3. TypeOK'  BY <1>1, <1>2 DEF TypeOK
  <1>4. \A p \in Proc : CallOK(p)'  BY DEF Inv, CallOK, Exists
  <1>5. ASSUME NEW v \in Worker PROVE TickOK(v)'
    <2>1. \A f \in File : left[f] <= left[f]  BY <1>1, Constants DEF TypeOK
    <2>2. CASE v # w  BY <1>1, <1>2, <2>1, <2>2, TickStays DEF TypeOK
    <2> QED BY <2>2
  <1> QED BY <1>1, <1>3, <1>4, <1>5, RowsKeep

LEMMA TicksKeep ==
  ASSUME Inv, NEW w \in Worker,
         TickNext(w) \/ TickEnds(w) \/ DeleteFails(w) \/ TickAborts(w)
  PROVE  Inv' /\ file' = file
  <1>1. TypeOK /\ TickOK(w) /\ tick \in [Worker -> Tick] /\ \A f \in File : FileOK(f)
    BY DEF Inv, TypeOK
  <1>2. /\ UNCHANGED <<status, managed, file, job, left, object, issued, call>>
        /\ faults' \in Nat
    <2>1. CASE TickNext(w)  BY <1>1, <2>1 DEF TickNext, rows, TypeOK
    <2>2. CASE TickEnds(w)  BY <1>1, <2>2 DEF TickEnds, rows, TypeOK
    <2>3. CASE DeleteFails(w)  BY <1>1, <2>3 DEF DeleteFails, Fault, rows, TypeOK
    <2>4. CASE TickAborts(w)  BY <1>1, <2>4 DEF TickAborts, Fault, rows, TypeOK
    <2> QED BY <2>1, <2>2, <2>3, <2>4
  <1>3. CASE TickEnds(w) \/ TickAborts(w)
    <2>1. tick' = [tick EXCEPT ![w] = Asleep]  BY <1>3 DEF TickEnds, TickAborts
    <2>2. Asleep \in Tick  BY DEF Tick
    <2>3. TickOK(w)'  BY <1>1, <2>1 DEF TickOK, Asleep
    <2> QED BY <1>2, <2>1, <2>2, <2>3, WorkersKeep
  <1>4. ASSUME NEW t \in Awake, tick' = [tick EXCEPT ![w] = t],
               tick[w].phase # "asleep", t.late = tick[w].late,
               t.phase # "settle", t.phase = "next" \/ t.file \in File,
               t.todo \cup {t.file} \subseteq tick[w].todo \cup {tick[w].file}
        PROVE  Inv'
    <2>1. t \in Tick  BY DEF Tick, Awake
    <2>2. tick'[w] = t  BY <1>1, <1>4
    <2>3. TickOK(w)'  BY <1>1, <1>2, <1>4, <2>2 DEF TickOK
    <2> QED BY <1>2, <1>4, <2>1, <2>3, WorkersKeep
  <1>5. CASE TickNext(w)
    <2>1. /\ tick[w].phase = "next" /\ tick[w] \in Awake
          /\ tick[w].file \in File \cup {"none"}
      BY <1>1, <1>5, TickFields DEF TickNext
    <2>2. PICK f, t :
            /\ f \in tick[w].todo /\ tick' = [tick EXCEPT ![w] = t]
            /\ \/ t = [tick[w] EXCEPT !.phase = "delete", !.todo = tick[w].todo \ {f}, !.file = f]
               \/ t = [tick[w] EXCEPT !.todo = tick[w].todo \ {f}]
      BY <1>5 DEF TickNext
    <2>3. f \in File  BY <2>1, <2>2 DEF Awake
    <2>4. /\ t \in Awake /\ t.late = tick[w].late /\ t.todo = tick[w].todo \ {f}
          /\ \/ t.phase = "delete" /\ t.file = f
             \/ t.phase = "next" /\ t.file = tick[w].file
      BY <2>1, <2>2, <2>3 DEF Awake
    <2>5. t.todo \cup {t.file} \subseteq tick[w].todo \cup {tick[w].file}
      BY <2>2, <2>4
    <2>6. t.phase # "settle" /\ (t.phase = "next" \/ t.file \in File)
      BY <2>3, <2>4
    <2>7. Inv'  BY <1>4, <2>1, <2>2, <2>4, <2>5, <2>6
    <2> QED BY <1>2, <2>7
  <1>6. CASE DeleteFails(w)
    <2>1. /\ tick[w].phase \in {"delete", "settle"} /\ tick[w] \in Awake
          /\ tick[w].file \in File
      BY <1>1, <1>6, TickFields DEF DeleteFails, TickOK
    <2>2. PICK t : t = [tick[w] EXCEPT !.phase = "postpone"]  OBVIOUS
    <2>3. /\ t \in Awake /\ t.late = tick[w].late /\ t.todo = tick[w].todo
          /\ t.phase = "postpone" /\ t.file = tick[w].file
      BY <2>1, <2>2 DEF Awake
    <2>4. tick' = [tick EXCEPT ![w] = t]  BY <1>6, <2>2 DEF DeleteFails
    <2>5. Inv'  BY <1>4, <2>1, <2>3, <2>4
    <2> QED BY <1>2, <2>5
  <1> QED BY <1>2, <1>3, <1>5, <1>6

LEMMA OldestFacts ==
  ASSUME NEW at, NEW B \in Oldest(at)
  PROVE  B \subseteq DOMAIN at
  BY DEF Oldest

(* A tick hands expired intents over, and takes jobs whose files no upload   *)
(* begun in time can reach, or which get another deletion.                   *)
LEMMA TickClaimsKeeps ==
  ASSUME Inv, NEW w \in Worker, TickClaims(w)
  PROVE  Inv' /\ \A f \in File : Stays(f)
  <1>1. TypeOK /\ (status = "PUBLISHED" => Ready) /\ \A f \in File : FileOK(f)
    BY DEF Inv, PublishedReady
  <1>a. PICK S \in Oldest([f \in Overdue |-> left[f]]) :
          \E B \in Oldest([f \in Claimable(RetireFiles(S), Enqueue(S)) |-> Enqueue(S)[f].next]) :
             /\ file' = RetireFiles(S)
             /\ job' = [f \in File |-> IF f \in B
                                          THEN [Enqueue(S)[f] EXCEPT !.claim = w, !.age = 0]
                                          ELSE Enqueue(S)[f]]
             /\ tick' = [tick EXCEPT ![w] =
                  [phase |-> "next", todo |-> B, late |-> {f \in B : Enqueue(S)[f].late},
                   file |-> "none"]]
    BY DEF TickClaims
  <1>2. PICK B \in Oldest([f \in Claimable(RetireFiles(S), Enqueue(S)) |-> Enqueue(S)[f].next]) :
          /\ file' = RetireFiles(S)
          /\ job' = [f \in File |-> IF f \in B
                                    THEN [Enqueue(S)[f] EXCEPT !.claim = w, !.age = 0]
                                    ELSE Enqueue(S)[f]]
          /\ tick' = [tick EXCEPT ![w] =
               [phase |-> "next", todo |-> B, late |-> {f \in B : Enqueue(S)[f].late},
                file |-> "none"]]
    BY <1>a
  <1>3. UNCHANGED <<status, managed, left, object, issued, call, faults>>
    BY DEF TickClaims
  <1>4. S \subseteq Overdue /\ B \subseteq Claimable(RetireFiles(S), Enqueue(S))
    BY OldestFacts
  <1>5. S \in SUBSET File /\ \A f \in S : Exists(f) /\ ~Attached(f)
    BY <1>1, <1>4 DEF Overdue, Pending, FileOK
  <1>6. PICK js : js = Enqueue(S)  OBVIOUS
  <1>7. /\ js \in [File -> JobRow \cup {NoJob}]
        /\ \A f \in S : js[f] # NoJob
        /\ \A f \in File \ S : js[f] = job[f]
        /\ \A f \in File : /\ job[f] # NoJob => js[f] = job[f]
                           /\ js[f] # NoJob /\ js[f].late => left[f] + LateBy <= js[f].next
    BY <1>5, <1>6, EnqueueFacts
  <1>8. /\ file' \in [File -> FileRow \cup {NoFile}]
        /\ \A f \in S : file'[f] = Retired(file[f])
        /\ \A f \in File \ S : file'[f] = file[f]
    BY <1>2, <1>5, RetireFacts
  <1>9. \A f \in B : /\ f \in File /\ js[f] # NoJob /\ js[f] \in JobRow /\ js[f].next = 0
                    /\ left[f] + Grace <= 0
    BY <1>4, <1>6, <1>7 DEF Claimable, NoJob
  <1>10. ASSUME NEW f \in B, NEW j, j = [js[f] EXCEPT !.claim = w, !.age = 0]
         PROVE  j \in JobRow /\ j # NoJob /\ j.late = js[f].late /\ j.next = js[f].next
    <2>1. 0 \in 0 .. Lease + 1  BY Constants
    <2>2. js[f] \in JobRow  BY <1>9
    <2> QED BY <1>10, <2>1, <2>2 DEF JobRow, NoJob
  <1>11. /\ job' \in [File -> JobRow \cup {NoJob}]
         /\ \A f \in File : \/ job'[f] = js[f]
                            \/ /\ js[f] # NoJob /\ job'[f] # NoJob
                               /\ job'[f].late = js[f].late /\ job'[f].next = js[f].next
    BY <1>2, <1>6, <1>7, <1>9, <1>10
  <1>12. PICK t : t = [phase |-> "next", todo |-> B, late |-> {f \in B : js[f].late},
                       file |-> "none"]
    OBVIOUS
  <1>13. /\ t.phase = "next" /\ t.todo = B /\ t.file = "none" /\ t.late = {f \in B : js[f].late}
         /\ t \in Tick
    BY <1>9, <1>12 DEF Tick
  <1>14. /\ tick' \in [Worker -> Tick] /\ tick'[w] = t
         /\ \A v \in Worker : v # w => tick'[v] = tick[v]
    BY <1>1, <1>2, <1>6, <1>12, <1>13 DEF TypeOK
  <1>15. TypeOK'  BY <1>1, <1>3, <1>8, <1>11, <1>14 DEF TypeOK
  <1>16. ASSUME NEW f \in S PROVE RetiresTo(f)
    <2>1. file[f] \in FileRow  BY <1>1, <1>5 DEF TypeOK, Exists
    <2>2. /\ file'[f] # NoFile /\ file'[f].attached = FALSE
          /\ file'[f].cleanup = "QUEUED" /\ file'[f].state # "PENDING"
      BY <1>8, <2>1, RetiredFacts
    <2>3. job'[f] # NoJob /\ (job'[f].late => left'[f] + LateBy <= job'[f].next)
      BY <1>3, <1>5, <1>7, <1>11
    <2> QED BY <2>2, <2>3 DEF RetiresTo, Exists
  <1>17. ASSUME NEW f \in File, f \notin S
         PROVE  /\ file'[f] = file[f]
                /\ \/ job'[f] = job[f]
                   \/ /\ job[f] # NoJob /\ job'[f] # NoJob
                      /\ job'[f].late => left'[f] + LateBy <= job'[f].next
    BY <1>3, <1>7, <1>8, <1>11, <1>17
  <1>18. \A q \in Proc : CallOK(q)'
    <2>1. \A q \in Proc : Continues(q)  BY <1>3 DEF Continues
    <2>2. ASSUME NEW f \in File, Exists(f)
          PROVE  /\ Exists(f)'
                 /\ file'[f].cleanup = "NONE" => file[f].cleanup = "NONE"
      BY <1>8, <1>16, <2>2 DEF RetiresTo, Exists
    <2>3. ASSUME NEW q \in Proc, call'[q].op = "save"
          PROVE  file'[call[q].file] = file[call[q].file]
      <3>1. call[q].op = "save"  BY <1>3, <2>3
      <3>2. ~Exists(call[q].file) /\ call[q].file \in File
        BY <1>1, <3>1, CallFields DEF Inv, CallOK, TypeOK, Saving
      <3> QED BY <1>5, <1>8, <3>2
    <2>4. \A q \in Proc : call'[q].op = "compensate" => call[q].file \notin issued'
      BY <1>3 DEF Inv, CallOK
    <2> QED BY <1>1, <1>3, <2>1, <2>2, <2>3, <2>4, CallsStay DEF TypeOK
  <1>19. ASSUME NEW v \in Worker PROVE TickOK(v)'
    <2>1. CASE v # w
      <3>1. \A f \in File : left[f] <= left[f]  BY <1>1, Constants DEF TypeOK
      <3>2. \A f \in File : job[f] # NoJob => job'[f] # NoJob  BY <1>7, <1>11
      <3> QED BY <1>1, <1>3, <1>14, <2>1, <3>1, <3>2, TickStays DEF TypeOK
    <2>2. CASE v = w
      <3>1. ASSUME NEW f \in File \cap (B \cup {"none"})
            PROVE  /\ job'[f] # NoJob /\ left'[f] + Grace <= 0
                   /\ f \in t.late => left'[f] + LateBy <= 0
        <4>1. f \in B  BY Constants
        <4>2. job'[f] # NoJob /\ left[f] + Grace <= 0 /\ js[f].next = 0 /\ f \in File
          BY <1>9, <1>11, <4>1
        <4>3. f \in t.late => left[f] + LateBy <= 0  BY <1>7, <1>9, <1>13, <4>1
        <4> QED BY <1>3, <4>2, <4>3
      <3> QED BY <1>13, <1>14, <2>2, <3>1 DEF TickOK
    <2> QED BY <2>1, <2>2
  <1>20. \A f \in File : Attached(f) => file'[f] = file[f]
    BY <1>5, <1>8
  <1>21. Inv'
    BY <1>1, <1>3, <1>15, <1>16, <1>17, <1>18, <1>19, <1>20, RowsKeep
  <1> QED BY <1>2, <1>5, <1>21, RetiredStays

(* An object is deleted only when its file is with the cleanup; the last     *)
(* deletion comes when no upload can land any more.                          *)
LEMMA DeletesObjectKeeps ==
  ASSUME Inv, NEW w \in Worker, DeletesObject(w)
  PROVE  Inv' /\ file' = file
  <1>1. /\ TypeOK /\ OneAttached /\ PublishedReady /\ PendingCap
        /\ TickOK(w) /\ \A f \in File : FileOK(f)
    BY DEF Inv
  <1>2. /\ tick[w].phase = "delete" /\ tick[w] \in Awake /\ tick[w].file \in File
        /\ \A f \in File \cap (tick[w].todo \cup {tick[w].file}) :
             /\ job[f] # NoJob /\ left[f] + Grace <= 0
             /\ f \in tick[w].late => left[f] + LateBy <= 0
    BY <1>1, TickFields DEF DeletesObject, TypeOK, TickOK
  <1>3. PICK h, t : h = tick[w].file /\ t = [tick[w] EXCEPT !.phase = "settle"]
    OBVIOUS
  <1>4. /\ t \in Awake /\ t.late = tick[w].late /\ t.todo = tick[w].todo
        /\ t.phase = "settle" /\ t.file = h /\ t \in Tick
    BY <1>2, <1>3 DEF Awake, Tick
  <1>5. /\ UNCHANGED <<status, managed, file, job, left, issued, call, faults>>
        /\ tick' \in [Worker -> Tick] /\ tick'[w] = t
        /\ \A v \in Worker : v # w => tick'[v] = tick[v]
    BY <1>1, <1>3, <1>4 DEF DeletesObject, rows, TypeOK
  <1>6. /\ object' \in [File -> {"none", "good", "bad"}] /\ object'[h] = "none"
        /\ \A f \in File : f # h => object'[f] = object[f]
    BY <1>1, <1>2, <1>3 DEF DeletesObject, TypeOK
  <1>7. TypeOK'  BY <1>1, <1>5, <1>6 DEF TypeOK
  <1>8. Exists(h) /\ file[h].cleanup # "NONE" /\ ~Attached(h)
    BY <1>1, <1>2, <1>3 DEF FileOK
  <1>9. ASSUME NEW f \in File PROVE FileOK(f)'
    BY <1>1, <1>5, <1>6, <1>8 DEF FileOK, Attached, Exists
  <1>10. \A q \in Proc : CallOK(q)'
    <2>1. \A q \in Proc : Continues(q)  BY <1>5 DEF Continues
    <2>2. \A f \in File : Exists(f) =>
           /\ Exists(f)'
           /\ file'[f].cleanup = "NONE" =>
                file[f].cleanup = "NONE" /\ (object[f] = "good" => object'[f] = "good")
      BY <1>5, <1>6, <1>8 DEF Exists
    <2>3. \A q \in Proc : call'[q].op = "compensate" => call[q].file \notin issued'
      BY <1>5 DEF Inv, CallOK
    <2> QED BY <1>1, <1>5, <2>1, <2>2, <2>3, CallsStay DEF TypeOK
  <1>11. ASSUME NEW v \in Worker PROVE TickOK(v)'
    <2>1. CASE v # w
      <3>1. \A f \in File : left[f] <= left[f]  BY <1>1, Constants DEF TypeOK
      <3>2. \A f \in File : object[f] = "none" => object'[f] = "none"  BY <1>6
      <3> QED BY <1>1, <1>5, <2>1, <3>1, <3>2, TickStays DEF TypeOK
    <2>2. CASE v = w
      <3>1. object'[t.file] = "none" /\ t.file \in File  BY <1>2, <1>3, <1>4, <1>6
      <3> QED BY <1>2, <1>3, <1>4, <1>5, <2>2, <3>1 DEF TickOK
    <2> QED BY <2>1, <2>2
  <1>12. OneAttached' /\ PublishedReady' /\ PendingCap'
    BY <1>1, <1>5 DEF OneAttached, PublishedReady, PendingCap, Waiting, Ready, Active,
       Attached, Pending, Exists
  <1> QED BY <1>5, <1>7, <1>9, <1>10, <1>11, <1>12 DEF Inv

(* A worker is done with a file: after its second deletion for good, or the  *)
(* job waits.                                                                *)
LEMMA SettlesKeep ==
  ASSUME Inv, NEW w \in Worker, Settles(w) \/ Postpones(w)
  PROVE  Inv' /\ \A f \in File : Stays(f)
  <1>1. /\ TypeOK /\ OneAttached /\ PublishedReady /\ PendingCap
        /\ TickOK(w) /\ \A f \in File : FileOK(f)
    BY DEF Inv
  <1>2. PICK h : h = tick[w].file  OBVIOUS
  <1>3. /\ tick[w].phase \in {"settle", "postpone"} /\ tick[w] \in Awake /\ h \in File
        /\ job[h] # NoJob /\ job[h] \in JobRow /\ left[h] + Grace <= 0
        /\ h \in tick[w].late => left[h] + LateBy <= 0
        /\ h \in tick[w].late /\ Settles(w) => object[h] = "none"
    BY <1>1, <1>2, TickFields DEF Settles, Postpones, TypeOK, TickOK
  <1>4. Exists(h) /\ file[h] \in FileRow /\ file[h].cleanup # "NONE" /\ ~Attached(h)
    BY <1>1, <1>3 DEF FileOK, TypeOK, Exists
  <1>5. UNCHANGED <<status, managed, left, object, issued, call, faults>>
    BY DEF Settles, Postpones
  <1>6. PICK t : t = [tick[w] EXCEPT !.phase = "next", !.file = "none"]  OBVIOUS
  <1>7. /\ t \in Tick /\ t.phase = "next" /\ t.file = "none" /\ t.todo = tick[w].todo
        /\ t.late = tick[w].late
    BY <1>3, <1>6 DEF Awake, Tick
  <1>8. /\ tick' \in [Worker -> Tick] /\ tick'[w] = t
        /\ \A v \in Worker : v # w => tick'[v] = tick[v]
    BY <1>1, <1>6, <1>7 DEF Settles, Postpones, TypeOK
  <1>9. PICK j : /\ job' = job \/ job' = [job EXCEPT ![h] = j]
                 /\ j \in JobRow /\ j # NoJob
                 /\ j.late => left[h] + LateBy <= j.next
    <2>0. \A d \in Delay : d \in Nat  BY Constants
    <2>1. CASE job' = job
      BY <1>1, <1>3, <2>1 DEF FileOK
    <2>2. CASE Settles(w) /\ job' # job
      <3>1. PICK b, st, j : /\ job' = [job EXCEPT ![h] = j] /\ b \in BOOLEAN
                            /\ st \in {"OPEN", "COMPLETED"}
                            /\ j = [job[h] EXCEPT !.claim = "none", !.age = 0, !.next = Grace,
                                                  !.late = b, !.state = st]
        <4> DEFINE b0 == ~(h \in tick[w].late)
                   st0 == IF h \in tick[w].late THEN "COMPLETED" ELSE "OPEN"
        <4>1. b0 \in BOOLEAN /\ st0 \in {"OPEN", "COMPLETED"}  OBVIOUS
        <4>2. job' = [job EXCEPT ![h] = [job[h] EXCEPT !.claim = "none", !.age = 0,
                                           !.next = Grace, !.late = b0, !.state = st0]]
          BY <1>2, <2>2 DEF Settles, rows
        <4> HIDE DEF b0, st0
        <4> QED BY <4>1, <4>2
      <3>2. /\ j \in JobRow /\ j # NoJob /\ j.next = Grace
        <4>1. 0 \in 0 .. Lease + 1  BY Constants
        <4> QED BY <1>3, <3>1, <4>1, Constants DEF JobRow, NoJob
      <3>3. left[h] + LateBy <= Grace
        <4>1. left[h] \in Int  BY <1>1, <1>3, Constants DEF TypeOK
        <4> QED BY <1>3, <4>1, Constants
      <3> QED BY <3>1, <3>2, <3>3
    <2>3. CASE Postpones(w) /\ job' # job
      <3>1. PICK d \in Delay : job' = [job EXCEPT ![h] = [job[h] EXCEPT
                                  !.claim = "none", !.age = 0, !.next = d, !.late = FALSE]]
        BY <1>2, <2>3 DEF Postpones
      <3>2. PICK j : j = [job[h] EXCEPT !.claim = "none", !.age = 0, !.next = d, !.late = FALSE]
        OBVIOUS
      <3>3. j \in JobRow /\ j # NoJob /\ j.late = FALSE
        <4>1. 0 \in 0 .. Lease + 1  BY Constants
        <4> QED BY <1>3, <2>0, <3>2, <4>1 DEF JobRow, NoJob
      <3> QED BY <3>1, <3>2, <3>3
    <2> QED BY <2>1, <2>2, <2>3
  <1>10. /\ job' \in [File -> JobRow \cup {NoJob}] /\ job'[h] # NoJob
         /\ job'[h].late => left[h] + LateBy <= job'[h].next
         /\ \A f \in File : f # h => job'[f] = job[f]
    <2>1. CASE job' = job  BY <1>1, <1>3, <2>1 DEF TypeOK, FileOK
    <2>2. CASE job' = [job EXCEPT ![h] = j]  BY <1>1, <1>3, <1>9, <2>2 DEF TypeOK
    <2> QED BY <1>9, <2>1, <2>2
  <1>11. \/ file' = file
         \/ /\ file' = [file EXCEPT ![h] = [file[h] EXCEPT !.cleanup = "DONE"]]
            /\ h \in tick[w].late /\ Settles(w)
    BY <1>2 DEF Settles, Postpones, rows
  <1>12. PICK r : r = [file[h] EXCEPT !.cleanup = "DONE"]  OBVIOUS
  <1>13. /\ r \in FileRow /\ r # NoFile /\ r.cleanup = "DONE" /\ r.state = file[h].state
         /\ r.attached = file[h].attached /\ ~r.attached
    <2>1. /\ r \in FileRow /\ r.cleanup = "DONE" /\ r.state = file[h].state
          /\ r.attached = file[h].attached
      BY <1>4, <1>12 DEF FileRow
    <2> QED BY <1>4, <2>1 DEF FileRow, NoFile, Attached
  <1>14. /\ file' \in [File -> FileRow \cup {NoFile}]
         /\ \A f \in File : f # h => file'[f] = file[f]
         /\ \/ file'[h] = file[h]
            \/ file'[h] = r /\ left[h] + LateBy <= 0 /\ object[h] = "none"
    BY <1>1, <1>3, <1>11, <1>12, <1>13 DEF TypeOK
  <1>15. TypeOK'  BY <1>1, <1>5, <1>8, <1>10, <1>14 DEF TypeOK
  <1>16. /\ Exists(h)' /\ ~Attached(h)' /\ file'[h].cleanup # "NONE"
         /\ file'[h].state = file[h].state
    BY <1>4, <1>13, <1>14 DEF Attached, Exists
  <1>17. ASSUME NEW f \in File PROVE FileOK(f)'
    <2>1. FileOK(f)  BY <1>1
    <2>2. CASE f # h
      BY <1>5, <1>10, <1>14, <2>1, <2>2 DEF FileOK, Attached, Exists
    <2>3. CASE f = h
      <3>1. file'[h].cleanup = "DONE" => left[h] + LateBy <= 0 /\ object[h] = "none"
        BY <1>4, <1>14, <2>1, <2>3 DEF FileOK
      <3> QED BY <1>4, <1>5, <1>10, <1>16, <2>1, <2>3, <3>1 DEF FileOK, Exists, Attached
    <2> QED BY <2>2, <2>3
  <1>18. \A f \in File : Attached(f) \/ Attached(f)' => file'[f] = file[f]
    BY <1>4, <1>14, <1>16
  <1>19. OneAttached'  BY <1>1, <1>18 DEF OneAttached, Attached, Exists
  <1>20. PublishedReady'  BY <1>1, <1>5, <1>18, ReadyStays DEF PublishedReady
  <1>21. PendingCap'
    <2>1. \A f \in File : Pending(f)' /\ left'[f] > 0 => Pending(f) /\ left[f] > 0
      BY <1>4, <1>5, <1>14, <1>16 DEF Pending, Exists
    <2> QED BY <1>1, <2>1, CapKeeps
  <1>22. \A q \in Proc : CallOK(q)'
    <2>1. \A q \in Proc : Continues(q)  BY <1>5 DEF Continues
    <2>2. \A f \in File : Exists(f) =>
           /\ Exists(f)'
           /\ file'[f].cleanup = "NONE" => file[f].cleanup = "NONE"
      BY <1>14, <1>16 DEF Exists
    <2>3. ASSUME NEW q \in Proc, call'[q].op = "save"
          PROVE  file'[call[q].file] = file[call[q].file]
      <3>1. call[q].op = "save"  BY <1>5, <2>3
      <3>2. ~Exists(call[q].file) /\ call[q].file \in File
        BY <1>1, <3>1, CallFields DEF Inv, CallOK, TypeOK, Saving
      <3> QED BY <1>4, <1>14, <3>2
    <2>4. \A q \in Proc : call'[q].op = "compensate" => call[q].file \notin issued'
      BY <1>5 DEF Inv, CallOK
    <2> QED BY <1>1, <1>5, <2>1, <2>2, <2>3, <2>4, CallsStay DEF TypeOK
  <1>23. ASSUME NEW v \in Worker PROVE TickOK(v)'
    <2>0. \A f \in File : job[f] # NoJob => job'[f] # NoJob  BY <1>10
    <2>1. CASE v # w
      <3>1. \A f \in File : left[f] <= left[f]  BY <1>1, Constants DEF TypeOK
      <3> QED BY <1>1, <1>5, <1>8, <2>0, <2>1, <3>1, TickStays DEF TypeOK
    <2>2. CASE v = w
      BY <1>1, <1>3, <1>5, <1>7, <1>8, <2>0, <2>2, Constants DEF TickOK
    <2> QED BY <2>1, <2>2
  <1>24. \A f \in File : Stays(f)
    BY <1>1, <1>14, <1>16 DEF Stays, FileOK, Attached
  <1> QED BY <1>15, <1>17, <1>19, <1>20, <1>21, <1>22, <1>23, <1>24 DEF Inv

-----------------------------------------------------------------------------
LEMMA UploadsKeeps ==
  ASSUME Inv, NEW h \in File, Uploads(h)
  PROVE  Inv' /\ file' = file
  <1>1. /\ TypeOK /\ OneAttached /\ PublishedReady /\ PendingCap
        /\ \A f \in File : FileOK(f)
    BY DEF Inv
  <1>2. PICK o \in {"good", "bad"} : object' = [object EXCEPT ![h] = o]
    BY DEF Uploads
  <1>3. /\ UNCHANGED <<status, managed, file, job, left, issued, call, tick, faults>>
        /\ h \in issued /\ object[h] = "none" /\ left[h] > -LateBy
    BY DEF Uploads, rows
  <1>4. ~(left[h] + LateBy <= 0)
    <2>1. left[h] \in Int  BY <1>1, Constants DEF TypeOK
    <2> QED BY <1>3, <2>1, Constants
  <1>5. /\ object' \in [File -> {"none", "good", "bad"}] /\ object'[h] # "none"
        /\ \A f \in File : f # h => object'[f] = object[f]
    BY <1>1, <1>2 DEF TypeOK
  <1>6. TypeOK'  BY <1>1, <1>3, <1>5 DEF TypeOK
  <1>7. ASSUME NEW f \in File PROVE FileOK(f)'
    BY <1>1, <1>3, <1>4, <1>5 DEF FileOK, Attached, Exists
  <1>8. \A q \in Proc : CallOK(q)'
    <2>1. \A q \in Proc : Continues(q)  BY <1>3 DEF Continues
    <2>2. \A f \in File : Exists(f) =>
           /\ Exists(f)'
           /\ file'[f].cleanup = "NONE" =>
                file[f].cleanup = "NONE" /\ (object[f] = "good" => object'[f] = "good")
      BY <1>3, <1>5 DEF Exists
    <2>3. \A q \in Proc : call'[q].op = "compensate" => call[q].file \notin issued'
      BY <1>3 DEF Inv, CallOK
    <2> QED BY <1>1, <1>3, <2>1, <2>2, <2>3, CallsStay DEF TypeOK
  <1>9. \A w \in Worker : TickOK(w)'
    <2>1. \A f \in File : left[f] <= left[f]  BY <1>1, Constants DEF TypeOK
    <2>2. \A f \in File : object[f] = "none" /\ left[f] + LateBy <= 0 => object'[f] = "none"
      BY <1>4, <1>5
    <2> QED BY <1>1, <1>3, <2>1, <2>2, TickStays DEF TypeOK
  <1>10. OneAttached' /\ PublishedReady' /\ PendingCap'
    BY <1>1, <1>3 DEF OneAttached, PublishedReady, PendingCap, Waiting, Ready, Active,
       Attached, Pending, Exists
  <1> QED BY <1>3, <1>6, <1>7, <1>8, <1>9, <1>10 DEF Inv

(* A job never waits less than the upload it waits for.                      *)
LEMMA ClockTicksKeeps ==
  ASSUME Inv, ClockTicks
  PROVE  Inv' /\ file' = file
  <1>1. /\ TypeOK /\ OneAttached /\ PublishedReady /\ PendingCap
        /\ \A f \in File : FileOK(f)
    BY DEF Inv
  <1>2. UNCHANGED <<status, managed, file, object, issued, call, tick, faults>>
    BY DEF ClockTicks
  <1>3. \A f \in File : left[f] \in Int /\ -LateBy <= left[f] /\ left[f] <= Ttl
    BY <1>1, Constants DEF TypeOK
  <1>4. \A f \in File : left'[f] = IF (Exists(f) \/ Held(f)) /\ left[f] > -LateBy
                                  THEN left[f] - 1 ELSE left[f]
    BY DEF ClockTicks
  <1>5. \A f \in File :
          /\ left'[f] \in -LateBy .. Ttl /\ left'[f] <= left[f]
          /\ Exists(f) => left'[f] = left[f] - 1 \/ left'[f] + LateBy = 0
    BY <1>3, <1>4, Constants
  <1>6. left' \in [File -> -LateBy .. Ttl]  BY <1>5 DEF ClockTicks
  <1>7. ASSUME NEW f \in File, job[f] # NoJob
        PROVE  /\ job'[f] \in JobRow /\ job'[f] # NoJob /\ job'[f].late = job[f].late
               /\ job'[f].next = IF job[f].next = 0 THEN 0 ELSE job[f].next - 1
    <2>1. PICK n, a, j :
            /\ n = IF job[f].next = 0 THEN 0 ELSE job[f].next - 1
            /\ a = IF job[f].claim = "none" \/ job[f].age > Lease THEN job[f].age ELSE job[f].age + 1
            /\ j = [job[f] EXCEPT !.next = n, !.age = a]
      OBVIOUS
    <2>2. job'[f] = j  BY <1>7, <2>1 DEF ClockTicks
    <2>3. /\ job[f] \in JobRow /\ job[f].next \in Nat /\ job[f].age \in 0 .. Lease + 1
      BY <1>1, <1>7 DEF TypeOK, JobRow
    <2>4. n \in Nat /\ a \in 0 .. Lease + 1  BY <2>1, <2>3, Constants
    <2>5. j \in JobRow /\ j # NoJob /\ j.late = job[f].late /\ j.next = n
      BY <2>1, <2>3, <2>4 DEF JobRow, NoJob
    <2> QED BY <2>1, <2>2, <2>5
  <1>8. ASSUME NEW f \in File, job[f] = NoJob PROVE job'[f] = NoJob
    BY <1>8 DEF ClockTicks
  <1>9. job' \in [File -> JobRow \cup {NoJob}]
    <2>1. \A f \in File : job'[f] \in JobRow \cup {NoJob}  BY <1>7, <1>8
    <2>2. job' = [f \in File |-> job'[f]]  BY DEF ClockTicks
    <2> QED BY <2>1, <2>2
  <1>10. TypeOK'  BY <1>1, <1>2, <1>6, <1>9 DEF TypeOK
  <1>11. ASSUME NEW f \in File PROVE FileOK(f)'
    <2>1. FileOK(f)  BY <1>1
    <2>2. ASSUME job[f] # NoJob, job[f].late PROVE left'[f] + LateBy <= job'[f].next
      <3>1. Exists(f) /\ left[f] + LateBy <= job[f].next /\ job[f].next \in Nat
        BY <1>1, <2>1, <2>2 DEF FileOK, TypeOK, JobRow
      <3> QED BY <1>3, <1>5, <1>7, <2>2, <3>1, Constants
    <2>3. job'[f] # NoJob => job[f] # NoJob /\ job'[f].late = job[f].late
      BY <1>7, <1>8
    <2>4. Exists(f) /\ file[f].cleanup = "DONE" => left'[f] + LateBy <= 0
      BY <1>3, <1>5, <2>1, Constants DEF FileOK
    <2> QED BY <1>2, <2>1, <2>2, <2>3, <2>4 DEF FileOK, Attached, Exists
  <1>12. \A q \in Proc : CallOK(q)'  BY <1>2 DEF Inv, CallOK, Exists
  <1>13. \A w \in Worker : TickOK(w)'
    <2>1. \A f \in File : job[f] # NoJob => job'[f] # NoJob  BY <1>7
    <2> QED BY <1>2, <1>5, <1>6, <2>1, TickStays
  <1>14. OneAttached' /\ PublishedReady'
    BY <1>1, <1>2 DEF OneAttached, PublishedReady, Ready, Active, Attached, Exists
  <1>15. PendingCap'
    <2>1. \A f \in File : Pending(f)' /\ left'[f] > 0 => Pending(f) /\ left[f] > 0
      BY <1>2, <1>3, <1>5, Constants DEF Pending, Exists
    <2> QED BY <1>1, <2>1, CapKeeps
  <1> QED BY <1>2, <1>10, <1>11, <1>12, <1>13, <1>14, <1>15 DEF Inv

LEMMA InvInit == Init => Inv
  <1> SUFFICES ASSUME Init PROVE Inv  OBVIOUS
  <1>1. /\ \A f \in File : /\ ~Exists(f) /\ ~Attached(f) /\ ~Pending(f) /\ job[f] = NoJob
                          /\ object[f] = "none" /\ f \notin issued
        /\ \A p \in Proc : call[p].op = "idle"
        /\ \A w \in Worker : tick[w].phase = "asleep"
        /\ status = "DRAFT"
    BY DEF Init, Exists, Attached, Pending, Idle, Asleep
  <1>2. 0 \in -LateBy .. Ttl  BY Constants
  <1>3. TypeOK  BY <1>2 DEF Init, TypeOK, Status, Call, Tick
  <1>4. PendingCap
    <2>1. Waiting = {}  BY <1>1 DEF Waiting
    <2>2. Cardinality(Waiting) = 0  BY <2>1, FS_EmptySet
    <2> QED BY <2>2, Constants DEF PendingCap
  <1>5. OneAttached /\ PublishedReady  BY <1>1 DEF OneAttached, PublishedReady
  <1>6. \A f \in File : FileOK(f)  BY <1>1 DEF FileOK
  <1>7. \A p \in Proc : CallOK(p)  BY <1>1 DEF CallOK, Saving
  <1>8. \A w \in Worker : TickOK(w)  BY <1>1 DEF TickOK
  <1> QED BY <1>3, <1>4, <1>5, <1>6, <1>7, <1>8 DEF Inv

LEMMA UnchangedStays ==
  ASSUME Inv, file' = file
  PROVE  \A f \in File : Stays(f)
  BY DEF Inv, FileOK, Attached, Stays

LEMMA SaveStepsKeep ==
  ASSUME Inv, NEW p \in Proc, SaveUpload(p) \/ SaveThrows(p)
  PROVE  Inv' /\ \A f \in File : Stays(f)
  <1>1. /\ TypeOK /\ call \in [Proc -> Call] /\ (status = "PUBLISHED" => Ready)
        /\ \A f \in File : FileOK(f)
    BY DEF Inv, TypeOK, PublishedReady
  <1>2. CASE SaveUpload(p)
    BY <1>1, <1>2, SavesKeep DEF SaveUpload, TypeOK
  <1>3. CASE SaveThrows(p)
    <2>1. /\ UNCHANGED <<status, managed, job, left, object, issued, tick>>
          /\ faults' \in Nat /\ Goto(p, "compensate") /\ call[p].op = "save"
          /\ \/ file' = file
             \/ /\ MaySave(call[p])
                /\ file' = [file EXCEPT ![call[p].file] = Intent(call[p].purpose)]
      BY <1>1, <1>3 DEF SaveThrows, Fault, TypeOK
    <2>2. CASE file' = file
      <3>1. call[p] \in SaveCall  BY <1>1, <2>1, CallFields DEF Saving
      <3>2. call' \in [Proc -> Call] /\ \A q \in Proc : Continues(q)
        BY <1>1, <2>1, <3>1, GotoFacts DEF Saving, Continues
      <3>3. Inv'  BY <1>1, <2>1, <2>2, <3>2, CallsKeep DEF TypeOK
      <3> QED BY <2>2, <3>3, UnchangedStays
    <2>3. CASE file' # file
      BY <2>1, <2>3, SavesKeep
    <2> QED BY <2>2, <2>3
  <1> QED BY <1>2, <1>3

LEMMA InvNext == Inv /\ [Next]_vars => Inv' /\ \A f \in File : Stays(f)
  <1> SUFFICES ASSUME Inv, [Next]_vars
               PROVE  Inv' /\ \A f \in File : Stays(f)
    OBVIOUS
  <1>1. ASSUME NEW p \in Proc, Handler(p)
        PROVE  Inv' /\ \A f \in File : Stays(f)
    <2>1. CASE (\E u \in Purpose : RequestUpload(p, u)) \/ \E f \in File : Complete(p, f)
      BY <2>1, BeginsKeep, UnchangedStays
    <2>2. CASE SaveRefused(p) \/ Inspects(p) \/ AttachEnds(p) \/ CallFails(p)
      BY <2>2, HandlersKeep, UnchangedStays
    <2>3. CASE SaveUpload(p) \/ SaveThrows(p)  BY <2>3, SaveStepsKeep
    <2>4. CASE Compensates(p)  BY <2>4, CompensatesKeeps
    <2>5. CASE Attaches(p)  BY <2>5, AttachesKeeps
    <2>6. CASE Rejects(p)  BY <2>6, RejectsKeeps
    <2> QED BY <1>1, <2>1, <2>2, <2>3, <2>4, <2>5, <2>6 DEF Handler
  <1>2. CASE Transition \/ Update \/ ChangeManager
    BY <1>2, ManagersKeep, UnchangedStays
  <1>3. CASE Delete  BY <1>3, DeleteKeeps
  <1>4. ASSUME NEW w \in Worker, WorkerStep(w) \/ DeleteFails(w) \/ TickAborts(w)
        PROVE  Inv' /\ \A f \in File : Stays(f)
    <2>1. CASE TickClaims(w)  BY <2>1, TickClaimsKeeps
    <2>2. CASE TickNext(w) \/ TickEnds(w) \/ DeleteFails(w) \/ TickAborts(w)
      BY <2>2, TicksKeep, UnchangedStays
    <2>3. CASE DeletesObject(w)  BY <2>3, DeletesObjectKeeps, UnchangedStays
    <2>4. CASE Settles(w) \/ Postpones(w)  BY <2>4, SettlesKeep
    <2> QED BY <1>4, <2>1, <2>2, <2>3, <2>4 DEF WorkerStep
  <1>5. ASSUME NEW f \in File, Uploads(f)
        PROVE  Inv' /\ \A g \in File : Stays(g)
    BY <1>5, UploadsKeeps, UnchangedStays
  <1>6. CASE ClockTicks  BY <1>6, ClockTicksKeeps, UnchangedStays
  <1>7. CASE UNCHANGED vars
    <2>1. UNCHANGED <<status, managed, file, job, left, object, issued, call, tick, faults>>
      BY <1>7 DEF vars, rows
    <2>2. TypeOK /\ call' \in [Proc -> Call] /\ (status' = "PUBLISHED" => Ready)
      BY <2>1 DEF Inv, TypeOK, PublishedReady
    <2>3. \A q \in Proc : Continues(q)  BY <2>1 DEF Continues
    <2>4. status' \in Status /\ managed' \in BOOLEAN /\ faults' \in Nat
      BY <2>1, <2>2 DEF TypeOK
    <2>5. Inv'  BY <2>1, <2>2, <2>3, <2>4, CallsKeep
    <2> QED BY <2>1, <2>5, UnchangedStays
  <1> QED BY <1>1, <1>2, <1>3, <1>4, <1>5, <1>6, <1>7 DEF Next

LEMMA Invariance == Spec => []Inv
  BY InvInit, InvNext, PTL DEF Spec

-----------------------------------------------------------------------------
(* Whatever fails or is late, what is attached has its verified object.      *)
THEOREM AttachedIsStored == Spec => []AttachedStored
  <1>1. Inv => AttachedStored  BY DEF Inv, FileOK, AttachedStored
  <1> QED BY <1>1, Invariance, PTL

(* The two completions that race for a purpose leave one attachment.         *)
THEOREM OneIsAttached == Spec => []OneAttached
  <1>1. Inv => OneAttached  BY DEF Inv
  <1> QED BY <1>1, Invariance, PTL

(* A published material never loses a required attachment.                   *)
THEOREM PublishedIsReady == Spec => []PublishedReady
  <1>1. Inv => PublishedReady  BY DEF Inv
  <1> QED BY <1>1, Invariance, PTL

(* No interleaving of uploads opens more intents than the limit.             *)
THEOREM PendingIsCapped == Spec => []PendingCap
  <1>1. Inv => PendingCap  BY DEF Inv
  <1> QED BY <1>1, Invariance, PTL

(* Two deletions a grace period apart are enough: what is cleaned up stays   *)
(* so, and nothing in use is ever cleaned up.                                *)
THEOREM CleanupIsSound == Spec => []CleanupSound
  <1>1. Inv => CleanupSound
    <2> SUFFICES ASSUME Inv PROVE CleanupSound  OBVIOUS
    <2>1. TypeOK /\ AttachedStored  BY DEF Inv, FileOK, AttachedStored
    <2>2. ASSUME NEW f \in File, Exists(f), file[f].cleanup = "DONE"
          PROVE  object[f] = "none" /\ left[f] <= -LateBy
      <3>1. object[f] = "none" /\ left[f] + LateBy <= 0  BY <2>2 DEF Inv, FileOK
      <3>2. left[f] \in Int  BY <2>1, Constants DEF TypeOK
      <3> QED BY <3>1, <3>2, Constants
    <2> QED BY <2>1, <2>2 DEF CleanupSound, DoneIsGone
  <1> QED BY <1>1, Invariance, PTL

(* No step attaches a file that has been handed over to the cleanup.         *)
THEOREM NeverIsReattached == Spec => NeverReattached
  <1>1. Inv /\ [Next]_vars =>
          [\A f \in File : Exists(f) /\ file[f].cleanup # "NONE" => ~file'[f].attached]_vars
    BY InvNext DEF Stays
  <1> QED BY <1>1, Invariance, PTL DEF Spec, NeverReattached
=============================================================================
