--------------------------- MODULE PlatformProofs ---------------------------
(* The components of Platform, for every value of their constants: any       *)
(* number of institutions, users, handlers, requests and exams, any limit    *)
(* and any difference of the clocks.                                         *)
(*                                                                           *)
(* For each component: its invariant Inv holds initially and its steps keep  *)
(* it.  A step of Platform is a step of one component and a stutter of every *)
(* other, which gives the theorems at the end.                               *)
EXTENDS Platform, Integers, TLAPS

-----------------------------------------------------------------------------
(* Institutions.                                                             *)

LEMMA InstInit == N!InstitutionAssumption /\ N!Init => N!Inv
  BY DEF N!InstitutionAssumption, N!Init, N!Inv, N!TypeOK, N!ApprovedComplete, N!CallOK,
         N!InstRow, N!Status, N!CallType, N!Absent, N!Idle, N!Active

(* What has been decided, asked for and approved stays.                      *)
Grows ==
  \A i \in Name :
    /\ N!Active(i) => N!Active(i)'
    /\ asked[i] \subseteq asked'[i] /\ approved[i] \subseteq approved'[i]

LEMMA EarnedStays ==
  ASSUME N!TypeOK, Grows, NEW i \in Name, NEW u \in Member, NEW s \in N!Status,
         N!Earned(i, u, s)
  PROVE  N!Earned(i, u, s)'
  BY DEF Grows, N!Earned

(* A step keeps what handlers rest on if it lets nothing go and begins no    *)
(* upsert that is not earned.                                                *)
LEMMA CallsStay ==
  ASSUME N!TypeOK, N!CallOK, Grows, NEW p \in Handler, NEW c, N!Goes(p, c),
         c.op = "upsert" =>
           /\ c.name \in Name /\ c.user \in Member /\ c.status \in N!Status
           /\ N!Earned(c.name, c.user, c.status)'
           /\ c.status # "ACTIVE" => c.read # "ACTIVE"
  PROVE  N!CallOK'
  <1> SUFFICES ASSUME NEW q \in Handler, NEW d, d = instCall'[q], d.op = "upsert"
               PROVE  N!Earned(d.name, d.user, d.status)' /\ (d.status # "ACTIVE" => d.read # "ACTIVE")
    BY DEF N!CallOK
  <1>1. CASE q = p
    BY <1>1 DEF N!Goes, N!TypeOK
  <1>2. CASE q # p
    <2>1. d = instCall[q]  BY <1>2 DEF N!Goes, N!TypeOK
    <2>2. d.name \in Name /\ d.user \in Member /\ d.status \in N!Status
      BY <2>1 DEF N!TypeOK, N!CallType, N!Idle
    <2>3. N!Earned(d.name, d.user, d.status) /\ (d.status # "ACTIVE" => d.read # "ACTIVE")
      BY <2>1 DEF N!CallOK
    <2> QED BY <2>2, <2>3, EarnedStays
  <1> QED BY <1>1, <1>2

(* Only Writes changes enrollments; the other steps leave them earned.       *)
LEMMA EnrollmentsStay ==
  ASSUME N!Inv, Grows, enrollment' = enrollment
  PROVE  \A i \in Name, u \in Member :
           enrollment'[i][u] # "NONE" => N!Earned(i, u, enrollment[i][u])'
  BY EarnedStays DEF N!Inv, N!TypeOK

(* The answer to an application, one step after another.                     *)
LEMMA Approving ==
  ASSUME N!InstitutionAssumption, N!Inv, NEW p \in Handler, NEW c \in Code, N!Approves(p, c)
  PROVE  N!Inv'
  <1> DEFINE i == instCall[p].name
  <1>1. i \in Name /\ inst[i].status = "PENDING_APPROVAL" /\ inst[i] \in N!InstRow \ {N!Absent}
    BY DEF N!Approves, N!Inv, N!TypeOK, N!CallType, N!Idle, N!Respondable, N!InstRow, N!Absent
  <1>2. inst' = [inst EXCEPT ![i] = [inst[i] EXCEPT !.status = "ACTIVE", !.code = c]]
    BY <1>1 DEF N!Approves, N!Inv, N!TypeOK
  <1>3. inst[i].createdBy \in Member
    BY <1>1 DEF N!InstRow, N!Absent
  <1>4. /\ inst'[i] = [status |-> "ACTIVE", createdBy |-> inst[i].createdBy, code |-> c]
        /\ \A j \in Name \ {i} : inst'[j] = inst[j]
    BY <1>1, <1>2 DEF N!Inv, N!TypeOK, N!InstRow, N!Absent
  <1>5. /\ instAdmins'[i] = instAdmins[i] \cup {inst[i].createdBy}
        /\ \A j \in Name \ {i} : instAdmins'[j] = instAdmins[j]
    BY <1>1 DEF N!Approves, N!AdminsOf, N!Inv, N!TypeOK
  <1>6. Grows
    BY <1>1, <1>4 DEF Grows, N!Active, N!Approves
  <1>7. N!TypeOK'
    <2>1. inst' \in [Name -> N!InstRow]
      BY <1>1, <1>2, <1>3, <1>4 DEF N!Inv, N!TypeOK, N!InstRow
    <2>2. instAdmins' \in [Name -> SUBSET Member]
      BY <1>1, <1>3 DEF N!Approves, N!AdminsOf, N!Inv, N!TypeOK
    <2>3. instCall' \in [Handler -> N!CallType]
      BY DEF N!Approves, N!Goes, N!Inv, N!TypeOK, N!CallType
    <2> QED BY <2>1, <2>2, <2>3 DEF N!Approves, N!Inv, N!TypeOK
  <1>8. N!ApprovedComplete'
    <2> USE DEF N!Active, N!Absent
    <2>1. \A k \in Name : inst[k].status = "ACTIVE" =>
            /\ inst[k].code # N!NoCode /\ inst[k].code # c
            /\ inst[k].createdBy \in instAdmins[k]
            /\ \A j \in Name \ {k} : ~(inst[j].status = "ACTIVE" /\ inst[j].code = inst[k].code)
      BY DEF N!Approves, N!Taken, N!ApprovedComplete, N!Inv
    <2>2. \A k \in Name : inst[k].status # "ACTIVE" =>
            instAdmins[k] = {} /\ (inst[k] = N!Absent \/ inst[k].code = N!NoCode)
      BY DEF N!ApprovedComplete, N!Inv
    <2>3. c # N!NoCode  BY DEF N!InstitutionAssumption
    <2>4. \A k \in Name : inst'[k].status = "ACTIVE" =>
            /\ inst'[k].code # N!NoCode
            /\ inst'[k].createdBy \in instAdmins'[k]
            /\ \A j \in Name \ {k} : ~(inst'[j].status = "ACTIVE" /\ inst'[j].code = inst'[k].code)
      BY <1>1, <1>4, <1>5, <2>1, <2>3
    <2>5. \A k \in Name : inst'[k].status # "ACTIVE" =>
            instAdmins'[k] = {} /\ (inst'[k] = N!Absent \/ inst'[k].code = N!NoCode)
      BY <1>1, <1>4, <1>5, <2>2
    <2> QED BY <2>4, <2>5 DEF N!ApprovedComplete, N!NoCode
  <1>9. N!CallOK'
    BY <1>6, CallsStay DEF N!Approves, N!Inv, N!Idle
  <1>10. enrollment' = enrollment  BY DEF N!Approves
  <1> QED BY <1>6, <1>7, <1>8, <1>9, <1>10, EnrollmentsStay DEF N!Inv

LEMMA Rejecting ==
  ASSUME N!InstitutionAssumption, N!Inv, NEW p \in Handler, N!Rejects(p)
  PROVE  N!Inv'
  <1> DEFINE i == instCall[p].name
  <1>1. i \in Name /\ inst[i].status = "PENDING_APPROVAL" /\ inst[i] \in N!InstRow \ {N!Absent}
    BY DEF N!Rejects, N!Inv, N!TypeOK, N!CallType, N!Idle, N!Respondable, N!InstRow, N!Absent
  <1>2. inst' = [inst EXCEPT ![i] = [inst[i] EXCEPT !.status = "REJECTED", !.code = N!NoCode]]
    BY <1>1 DEF N!Rejects, N!Inv, N!TypeOK
  <1>3. /\ inst'[i] = [status |-> "REJECTED", createdBy |-> inst[i].createdBy, code |-> N!NoCode]
        /\ inst[i].createdBy \in Member
        /\ \A j \in Name \ {i} : inst'[j] = inst[j]
    BY <1>1, <1>2 DEF N!Inv, N!TypeOK, N!InstRow, N!Absent
  <1>4. Grows
    BY <1>1, <1>3 DEF Grows, N!Active, N!Rejects
  <1>5. N!TypeOK'
    <2>1. inst' \in [Name -> N!InstRow]
      BY <1>1, <1>2, <1>3 DEF N!Inv, N!TypeOK, N!InstRow
    <2>2. instCall' \in [Handler -> N!CallType]
      BY DEF N!Rejects, N!Goes, N!Inv, N!TypeOK, N!CallType
    <2> QED BY <2>1, <2>2 DEF N!Rejects, N!Inv, N!TypeOK
  <1>6. N!ApprovedComplete'
    <2> USE DEF N!Active, N!Absent
    <2>1. \A k \in Name : inst'[k].status = "ACTIVE" => inst'[k] = inst[k]
      BY <1>1, <1>3
    <2>2. \A k \in Name : inst'[k].status # "ACTIVE" =>
            instAdmins[k] = {} /\ (inst'[k] = N!Absent \/ inst'[k].code = N!NoCode)
      BY <1>1, <1>3 DEF N!ApprovedComplete, N!Inv
    <2>3. instAdmins' = instAdmins  BY DEF N!Rejects
    <2>4. \A k \in Name : inst[k].status = "ACTIVE" =>
            /\ inst[k].code # N!NoCode /\ inst[k].createdBy \in instAdmins[k]
            /\ \A j \in Name \ {k} : ~(inst[j].status = "ACTIVE" /\ inst[j].code = inst[k].code)
      BY DEF N!ApprovedComplete, N!Inv
    <2> QED BY <2>1, <2>2, <2>3, <2>4 DEF N!ApprovedComplete, N!NoCode
  <1>7. N!CallOK'
    BY <1>4, CallsStay DEF N!Rejects, N!Inv, N!Idle
  <1>8. enrollment' = enrollment  BY DEF N!Rejects
  <1> QED BY <1>4, <1>5, <1>6, <1>7, <1>8, EnrollmentsStay DEF N!Inv

(* A step that writes neither institutions nor enrollments.                  *)
LEMMA OnlyCalls ==
  ASSUME N!Inv, UNCHANGED <<inst, instAdmins, enrollment>>, instCalls' \in Nat,
         asked' \in [Name -> SUBSET Member], approved' \in [Name -> SUBSET Member],
         \A i \in Name : asked[i] \subseteq asked'[i] /\ approved[i] \subseteq approved'[i],
         NEW p \in Handler, NEW c \in N!CallType, N!Goes(p, c),
         c.op = "upsert" =>
           /\ N!Earned(c.name, c.user, c.status)'
           /\ c.status # "ACTIVE" => c.read # "ACTIVE"
  PROVE  N!Inv'
  <1>1. Grows  BY DEF Grows, N!Active
  <1>2. N!TypeOK'  BY DEF N!Goes, N!Inv, N!TypeOK
  <1>3. N!ApprovedComplete'
    BY DEF N!Inv, N!ApprovedComplete, N!Active
  <1>4. c.op = "upsert" => c.name \in Name /\ c.user \in Member /\ c.status \in N!Status
    BY DEF N!CallType, N!Idle
  <1>5. N!CallOK'  BY <1>1, <1>4, CallsStay DEF N!Inv
  <1> QED BY <1>1, <1>2, <1>3, <1>5, EnrollmentsStay DEF N!Inv

LEMMA Responding ==
  ASSUME N!InstitutionAssumption, N!Inv, NEW p \in Handler,
         \/ \E i \in Name, v \in {"APPROVED", "REJECTED"} : N!Respond(p, i, v)
         \/ \E c \in Code : N!CodeConflicts(p, c)
         \/ N!RespondRefused(p)
         \/ N!CallFails(p)
  PROVE  N!Inv'
  <1> USE DEF N!Inv, N!TypeOK
  <1>1. N!Idle \in N!CallType /\ N!Idle.op # "upsert"  BY DEF N!CallType, N!Idle
  <1>2. ASSUME NEW i \in Name, NEW v \in {"APPROVED", "REJECTED"}, N!Respond(p, i, v)
        PROVE  N!Inv'
    <2> DEFINE c == [op |-> "respond", name |-> i, verdict |-> v, left |-> Tries]
    <2>1. c \in N!CallType /\ c.op # "upsert"
      BY <1>2 DEF N!CallType, N!InstitutionAssumption
    <2>2. N!Goes(p, c) /\ instCalls' \in Nat /\ UNCHANGED <<inst, instAdmins, enrollment, asked, approved>>
      BY <1>2 DEF N!Respond, N!Begins
    <2> QED BY <2>1, <2>2, OnlyCalls
  <1>3. ASSUME NEW d \in Code, N!CodeConflicts(p, d)
        PROVE  N!Inv'
    <2>1. PICK c : c = N!Again(instCall[p])  OBVIOUS
    <2>2. PICK b : b = instCall[p]  OBVIOUS
    <2>3. b \in [op : {"respond"}, name : Name, verdict : {"APPROVED", "REJECTED"}, left : 1..Tries]
      BY <1>3, <2>2 DEF N!CodeConflicts, N!CallType, N!Idle
    <2>4. c \in N!CallType /\ c.op # "upsert"
      BY <1>1, <2>1, <2>2, <2>3 DEF N!Again, N!CallType, N!InstitutionAssumption
    <2> QED BY <1>3, <2>1, <2>4, OnlyCalls DEF N!CodeConflicts
  <1>4. CASE N!RespondRefused(p)  BY <1>1, <1>4, OnlyCalls DEF N!RespondRefused
  <1>5. CASE N!CallFails(p)       BY <1>1, <1>5, OnlyCalls DEF N!CallFails
  <1> QED BY <1>2, <1>3, <1>4, <1>5

(* Enrolling, paying and reviewing decide on facts that stay true.           *)
LEMMA Enrolling ==
  ASSUME N!InstitutionAssumption, N!Inv, NEW p \in Handler, NEW i \in Name, NEW u \in Member,
         N!Enroll(p, i, u) \/ N!Pay(p, i, u)
  PROVE  N!Inv'
  <1> USE DEF N!Inv, N!TypeOK
  <1> DEFINE s == IF N!Pay(p, i, u) THEN "ACTIVE" ELSE N!EnrolsAs[TypeOf[i]]
             c == N!Upsert(i, u, s)
  <1>1. TypeOf[i] \in {"FREE", "PAID", "INVITE_ONLY"}  BY DEF N!InstitutionAssumption
  <1>2. s \in {"ACTIVE", "PENDING"} /\ (s = "ACTIVE" => TypeOf[i] # "INVITE_ONLY")
    <2>1. CASE N!Pay(p, i, u)  BY <2>1 DEF N!Pay
    <2>2. CASE ~N!Pay(p, i, u)  BY <1>1, <2>2 DEF N!EnrolsAs
    <2> QED BY <2>1, <2>2
  <1>3. PICK d : d = N!Upsert(i, u, s)  OBVIOUS
  <1>4. /\ N!Goes(p, d) /\ instCalls' = instCalls + 1
        /\ N!Active(i) /\ enrollment[i][u] # "ACTIVE"
        /\ asked' = [asked EXCEPT ![i] = @ \cup {u}]
        /\ UNCHANGED <<inst, instAdmins, enrollment, approved>>
    BY <1>3 DEF N!Enroll, N!Pay, N!Enrollable, N!Begins
  <1>5. d = [op |-> "upsert", name |-> i, user |-> u, status |-> s, read |-> enrollment[i][u]]
    BY <1>3 DEF N!Upsert
  <1>6. enrollment[i][u] \in N!Status  OBVIOUS
  <1>7. d \in N!CallType /\ d.name = i /\ d.user = u /\ d.status = s /\ d.read = enrollment[i][u]
    <2> HIDE DEF s
    <2> QED BY <1>2, <1>5, <1>6 DEF N!CallType, N!Status
  <1>8. N!Earned(i, u, d.status)'
    BY <1>2, <1>4, <1>7 DEF N!Earned, N!Active
  <1> HIDE DEF s
  <1> QED BY <1>4, <1>7, <1>8, OnlyCalls

LEMMA Reviewing ==
  ASSUME N!InstitutionAssumption, N!Inv, NEW p \in Handler, NEW i \in Name, NEW u \in Member,
         NEW a \in Member, NEW v \in {"APPROVED", "REJECTED"}, N!Review(p, a, i, u, v)
  PROVE  N!Inv'
  <1> USE DEF N!Inv, N!TypeOK
  <1> DEFINE s == IF v = "APPROVED" THEN "ACTIVE" ELSE "CANCELLED"
  <1>1. PICK d : d = N!Upsert(i, u, s)  OBVIOUS
  <1>2. /\ N!Goes(p, d) /\ instCalls' = instCalls + 1
        /\ enrollment[i][u] = "PENDING"
        /\ UNCHANGED <<inst, instAdmins, enrollment, asked>>
    BY <1>1 DEF N!Review, N!Reviewable, N!Begins
  <1>3. N!Active(i) /\ u \in asked[i]
    BY <1>2 DEF N!Earned
  <1>4. inst[i].createdBy \in instAdmins[i]
    BY <1>3 DEF N!ApprovedComplete
  <1>5. a \in GlobalAdmin \cup instAdmins[i]
    BY <1>4 DEF N!Review, N!MayReview
  <1>6. approved' = [approved EXCEPT ![i] = IF v = "APPROVED" THEN @ \cup {u} ELSE @]
    BY <1>5 DEF N!Review
  <1>7. d = [op |-> "upsert", name |-> i, user |-> u, status |-> s, read |-> "PENDING"]
    BY <1>1, <1>2 DEF N!Upsert
  <1>8. d \in N!CallType /\ d.name = i /\ d.user = u /\ d.status = s /\ d.read = "PENDING"
    BY <1>7 DEF N!CallType, N!Status
  <1>9. N!Earned(i, u, d.status)'
    BY <1>2, <1>3, <1>6, <1>8 DEF N!Earned, N!Active
  <1> HIDE DEF s
  <1>10. approved' \in [Name -> SUBSET Member] /\ \A j \in Name : approved[j] \subseteq approved'[j]
    BY <1>6
  <1> QED BY <1>2, <1>8, <1>9, <1>10, OnlyCalls

LEMMA Registering ==
  ASSUME N!Inv, NEW i \in Name, NEW u \in Member, N!Register(i, u)
  PROVE  N!Inv'
  <1> USE DEF N!Inv, N!TypeOK
  <1> DEFINE r == [status |-> "PENDING_APPROVAL", createdBy |-> u, code |-> N!NoCode]
  <1>1. /\ inst[i] = N!Absent /\ inst' = [inst EXCEPT ![i] = r]
        /\ UNCHANGED <<instAdmins, enrollment, instCall, instCalls, asked, approved>>
    BY DEF N!Register
  <1>2. inst' \in [Name -> N!InstRow]  BY <1>1 DEF N!InstRow
  <1>3. Grows  BY <1>1 DEF Grows, N!Active, N!Absent
  <1>4. N!ApprovedComplete'
    <2>1. \A k \in Name : inst'[k].status = "ACTIVE" => inst'[k] = inst[k]
      BY <1>1
    <2>2. instAdmins[i] = {}
      BY <1>1 DEF N!ApprovedComplete, N!Active, N!Absent
    <2>3. \A k \in Name : k # i => inst'[k] = inst[k]
      BY <1>1
    <2>4. inst'[i] = r /\ r.code = N!NoCode  BY <1>1
    <2> HIDE DEF r
    <2> QED BY <1>1, <2>1, <2>2, <2>3, <2>4 DEF N!ApprovedComplete, N!Active, N!Absent, N!NoCode
  <1>5. N!CallOK'
    <2> SUFFICES ASSUME NEW q \in Handler, NEW d, d = instCall[q], d.op = "upsert"
                 PROVE  N!Earned(d.name, d.user, d.status)' /\ (d.status # "ACTIVE" => d.read # "ACTIVE")
      BY <1>1 DEF N!CallOK
    <2>1. d.name \in Name /\ d.user \in Member /\ d.status \in N!Status
      BY DEF N!CallType, N!Idle
    <2> QED BY <1>3, <2>1, EarnedStays DEF N!CallOK
  <1> QED BY <1>1, <1>2, <1>3, <1>4, <1>5, EnrollmentsStay

LEMMA Writing ==
  ASSUME N!Inv, NEW p \in Handler, N!Writes(p)
  PROVE  N!Inv'
  <1> USE DEF N!Inv, N!TypeOK
  <1>1. PICK c : c = instCall[p]  OBVIOUS
  <1>2. c.op = "upsert" /\ c.name \in Name /\ c.user \in Member /\ c.status \in N!Status
    BY <1>1 DEF N!Writes, N!CallType, N!Idle
  <1>3. N!Earned(c.name, c.user, c.status)  BY <1>1, <1>2 DEF N!CallOK
  <1>4. /\ enrollment' = [enrollment EXCEPT ![c.name] = [enrollment[c.name] EXCEPT ![c.user] = c.status]]
        /\ N!Goes(p, N!Idle)
        /\ UNCHANGED <<inst, instAdmins, instCalls, asked, approved>>
    BY <1>1, <1>2 DEF N!Writes
  <1>5. Grows  BY <1>4 DEF Grows, N!Active
  <1>6. enrollment' \in [Name -> [Member -> N!Status]]  BY <1>2, <1>4
  <1>7. N!TypeOK'  BY <1>4, <1>6 DEF N!Goes, N!CallType
  <1>8. N!ApprovedComplete'  BY <1>4 DEF N!ApprovedComplete, N!Active
  <1>9. N!CallOK'  BY <1>4, <1>5, CallsStay DEF N!Idle
  <1>10. ASSUME NEW i \in Name, NEW u \in Member, NEW s, s = enrollment'[i][u], s # "NONE"
         PROVE  N!Earned(i, u, s)'
    <2>1. s \in N!Status  BY <1>6, <1>10
    <2>2. N!Earned(i, u, s)
      <3>1. CASE i = c.name /\ u = c.user  BY <1>2, <1>3, <1>4, <1>10, <3>1
      <3>2. CASE ~(i = c.name /\ u = c.user)
        <4>1. s = enrollment[i][u]  BY <1>2, <1>4, <1>10, <3>2
        <4> QED BY <1>10, <4>1
      <3> QED BY <3>1, <3>2
    <2> QED BY <1>5, <2>1, <2>2, EarnedStays
  <1>11. \A i \in Name, u \in Member :
            enrollment'[i][u] # "NONE" => \A s : s = enrollment'[i][u] => N!Earned(i, u, s)'
    BY <1>10
  <1> QED BY <1>7, <1>8, <1>9, <1>11 DEF N!Earned

LEMMA InstNext ==
  ASSUME N!InstitutionAssumption, N!Inv, [N!Next]_(N!vars)
  PROVE  N!Inv'
  <1>1. CASE UNCHANGED N!vars
    <2> USE <1>1 DEF N!vars
    <2>1. N!TypeOK' /\ N!ApprovedComplete'
      BY DEF N!Inv, N!TypeOK, N!ApprovedComplete, N!Active
    <2>2. N!CallOK'
      BY DEF N!Inv, N!CallOK, N!Earned, N!Active
    <2>3. \A i \in Name, u \in Member :
            enrollment'[i][u] # "NONE" => N!Earned(i, u, enrollment[i][u])'
      BY DEF N!Inv, N!Earned, N!Active
    <2> QED BY <2>1, <2>2, <2>3 DEF N!Inv
  <1>2. CASE N!Next
    BY <1>2, Registering, Responding, Approving, Rejecting, Enrolling, Reviewing, Writing DEF N!Next
  <1> QED BY <1>1, <1>2

LEMMA InstHolds == N!Inv => InstitutionsSound
  BY DEF N!Inv, N!MembersAdmitted, N!Earned, InstitutionsSound

(* An answered application is not answered again, and only a handler that    *)
(* had not seen the member writes over a membership.                         *)
LEMMA InstDecisions ==
  ASSUME N!Inv, N!Next
  PROVE  N!DecidedOnce /\ N!LostOnlyToRace
  <1> USE DEF N!Inv, N!TypeOK
  <1>1. N!DecidedOnce
    <2> SUFFICES ASSUME NEW i \in Name, inst[i].status \in {"ACTIVE", "REJECTED"}
                 PROVE  inst'[i] = inst[i]
      BY DEF N!DecidedOnce
    <2>1. ASSUME NEW j \in Name, NEW u \in Member, N!Register(j, u)  PROVE inst'[i] = inst[i]
      BY <2>1 DEF N!Register, N!Absent
    <2>2. ASSUME NEW p \in Handler, NEW c \in Code, N!Approves(p, c)  PROVE inst'[i] = inst[i]
      BY <2>2 DEF N!Approves, N!Respondable
    <2>3. ASSUME NEW p \in Handler, N!Rejects(p)  PROVE inst'[i] = inst[i]
      BY <2>3 DEF N!Rejects, N!Respondable
    <2> QED BY <2>1, <2>2, <2>3
        DEF N!Next, N!Respond, N!CodeConflicts, N!RespondRefused, N!Enroll, N!Pay, N!Review,
            N!Writes, N!CallFails
  <1>2. N!LostOnlyToRace
    <2> SUFFICES ASSUME NEW i \in Name, NEW u \in Member,
                        enrollment[i][u] = "ACTIVE", enrollment'[i][u] # "ACTIVE"
                 PROVE  \E p \in Handler : /\ instCall[p].op = "upsert" /\ instCall'[p] = N!Idle
                                           /\ instCall[p].read # "ACTIVE"
      BY DEF N!LostOnlyToRace
    <2>1. enrollment' # enrollment  OBVIOUS
    <2>2. /\ \A j \in Name, v \in Member : ~N!Register(j, v)
          /\ \A p \in Handler, j \in Name, v \in {"APPROVED", "REJECTED"} : ~N!Respond(p, j, v)
          /\ \A p \in Handler, c \in Code : ~N!Approves(p, c) /\ ~N!CodeConflicts(p, c)
          /\ \A p \in Handler : ~N!Rejects(p) /\ ~N!RespondRefused(p) /\ ~N!CallFails(p)
      BY <2>1 DEF N!Register, N!Respond, N!Approves, N!CodeConflicts, N!Rejects,
                  N!RespondRefused, N!CallFails
    <2>3. \A p \in Handler, j \in Name, v \in Member :
            /\ ~N!Enroll(p, j, v) /\ ~N!Pay(p, j, v)
            /\ \A a \in Member, d \in {"APPROVED", "REJECTED"} : ~N!Review(p, a, j, v, d)
      BY <2>1 DEF N!Enroll, N!Pay, N!Review
    <2>4. PICK p \in Handler : N!Writes(p)
      BY <2>2, <2>3 DEF N!Next
    <2>5. PICK c : c = instCall[p]  OBVIOUS
    <2>6. c.op = "upsert" /\ c.name \in Name /\ c.user \in Member
      BY <2>4, <2>5 DEF N!Writes, N!CallType, N!Idle
    <2>7. enrollment' = [enrollment EXCEPT ![c.name] = [enrollment[c.name] EXCEPT ![c.user] = c.status]]
      BY <2>4, <2>5, <2>6 DEF N!Writes
    <2>8. c.status # "ACTIVE"  BY <2>6, <2>7
    <2>9. instCall'[p] = N!Idle  BY <2>4 DEF N!Writes, N!Goes
    <2> QED BY <2>5, <2>6, <2>8, <2>9 DEF N!CallOK
  <1> QED BY <1>1, <1>2

-----------------------------------------------------------------------------
(* Articles.                                                                 *)

LEMMA ArtInit == A!ArticleAssumption /\ A!Init => A!Inv
  <1> SUFFICES ASSUME A!ArticleAssumption, A!Init PROVE A!Inv  OBVIOUS
  <1> USE DEF A!ArticleAssumption, A!Init
  <1>1. A!TypeOK
    <2>1. article \in A!Document
      <3> HIDE DEF A!Init
      <3>1. PICK a : a = article  OBVIOUS
      <3>2. a \in [status : {"DRAFT"}, policy : {"FREE", "PURCHASE"}, pin : ArticlePin \cup {A!None},
                  text : {0}, reason : {FALSE}, unlocked : {{}}]
        BY <3>1 DEF A!Init
      <3>3. /\ a = [status |-> a.status, policy |-> a.policy, pin |-> a.pin,
                    text |-> a.text, reason |-> a.reason, unlocked |-> a.unlocked]
            /\ a.status = "DRAFT" /\ a.policy \in {"FREE", "PURCHASE"}
            /\ a.pin \in ArticlePin \cup {A!None}
            /\ a.text = 0 /\ a.reason = FALSE /\ a.unlocked = {}
        BY <3>2
      <3>4. a.text \in 0..MaxEdits /\ a.unlocked \in SUBSET Reader  BY <3>3
      <3>5. a.reason \in BOOLEAN  BY <3>3
      <3>6. a \in A!Document  BY <3>3, <3>4, <3>5 DEF A!Document
      <3> QED BY <3>1, <3>6
    <2>2. artCall \in [Handler -> A!CallType]  BY DEF A!CallType
    <2> QED BY <2>1, <2>2 DEF A!TypeOK
  <1>2. A!CallOK  BY DEF A!CallOK, A!Idle
  <1>3. A!PurchaseHasPin /\ A!RejectedExplained /\ article.unlocked \subseteq readers
    BY DEF A!PurchaseHasPin, A!RejectedExplained
  <1> QED BY <1>1, <1>2, <1>3 DEF A!Inv

(* A handler's facts stay true in a step that keeps the PIN, lets nobody go  *)
(* and writes the status only by counting it.                                *)
LEMMA ArtCallsStay ==
  ASSUME A!TypeOK, A!CallOK, NEW p \in Handler, NEW c, A!Goes(p, c),
         readers \subseteq readers',
         article.pin # A!None => article'.pin # A!None,
         \/ moves' = moves /\ article'.status = article.status
         \/ moves' = moves + 1,
         c.op = "update" =>
           /\ c.policy = "PURCHASE" => c.pin # A!None \/ article'.pin # A!None
           /\ c.read = moves /\ moves' = moves /\ A!Editable,
         c.op = "unlock" => c.user \in readers'
  PROVE  A!CallOK'
  <1> USE DEF A!TypeOK, A!None
  <1> SUFFICES ASSUME NEW q \in Handler, NEW d, d = artCall'[q]
               PROVE  /\ d.op = "update" =>
                           /\ d.policy = "PURCHASE" => d.pin # A!None \/ article'.pin # A!None
                           /\ d.read <= moves'
                           /\ d.read = moves' => A!Editable'
                      /\ d.op = "unlock" => d.user \in readers'
    BY DEF A!CallOK
  <1>1. CASE q = p
    <2>1. d = c  BY <1>1 DEF A!Goes
    <2> QED BY <2>1 DEF A!Editable
  <1>2. CASE q # p
    <2>1. d = artCall[q]  BY <1>2 DEF A!Goes
    <2>2. d.op = "update" => d.read \in Nat
      BY <2>1 DEF A!CallType, A!Idle
    <2>3. /\ d.op = "update" =>
               /\ d.policy = "PURCHASE" => d.pin # A!None \/ article.pin # A!None
               /\ d.read <= moves
               /\ d.read = moves => A!Editable
          /\ d.op = "unlock" => d.user \in readers
      BY <2>1 DEF A!CallOK
    <2> QED BY <2>2, <2>3 DEF A!Editable
  <1> QED BY <1>1, <1>2

(* A step that only begins or ends a handler.                                *)
LEMMA ArtOnlyCalls ==
  ASSUME A!Inv, UNCHANGED <<article, moves>>, artCalls' \in 0..MaxArtCalls,
         readers \subseteq readers', readers' \subseteq Reader,
         NEW p \in Handler, NEW c \in A!CallType, A!Goes(p, c),
         c.op = "update" =>
           /\ c.policy = "PURCHASE" => c.pin # A!None \/ article.pin # A!None
           /\ c.read = moves /\ A!Editable,
         c.op = "unlock" => c.user \in readers'
  PROVE  A!Inv'
  <1>1. A!TypeOK'  BY DEF A!Goes, A!Inv, A!TypeOK
  <1>2. A!CallOK'
    <2>1. article'.pin = article.pin /\ article'.status = article.status  OBVIOUS
    <2> QED BY <2>1, ArtCallsStay DEF A!Inv
  <1>3. A!PurchaseHasPin' /\ A!RejectedExplained' /\ article'.unlocked \subseteq readers'
    BY DEF A!Inv, A!PurchaseHasPin, A!RejectedExplained, A!None
  <1> QED BY <1>1, <1>2, <1>3 DEF A!Inv

LEMMA ArtBegins ==
  ASSUME A!ArticleAssumption, A!Inv, NEW p \in Handler, NEW c, A!Begins(p, c)
  PROVE  A!Goes(p, c) /\ artCalls' \in 0..MaxArtCalls
  BY DEF A!Begins, A!Inv, A!TypeOK, A!ArticleAssumption

LEMMA ArtReading ==
  ASSUME A!ArticleAssumption, A!Inv, NEW p \in Handler,
         \/ \E policy \in {"FREE", "PURCHASE", A!None}, pin \in ArticlePin \cup {A!None} :
              A!Update(p, policy, pin)
         \/ A!Submit(p)
         \/ \E v \in {"PUBLISHED", "REJECTED"} : A!Review(p, v)
         \/ \E u \in Reader, pin \in ArticlePin : A!Unlock(p, u, pin)
         \/ A!CallFails(p)
  PROVE  A!Inv'
  <1>1. artCalls \in 0..MaxArtCalls /\ readers \subseteq Reader /\ moves \in Nat
        /\ article.unlocked \in SUBSET Reader
    BY DEF A!Inv, A!TypeOK, A!Document
  <1>2. ASSUME NEW policy \in {"FREE", "PURCHASE", A!None}, NEW pin \in ArticlePin \cup {A!None},
               A!Update(p, policy, pin)
        PROVE  A!Inv'
    <2> DEFINE new == A!NewPin(policy, pin)
    <2>1. PICK c : c = [op |-> "update", policy |-> policy, pin |-> new, read |-> moves]  OBVIOUS
    <2>2. A!Begins(p, c) /\ A!Editable /\ A!Accepted(policy, pin) /\ UNCHANGED <<article, moves, readers>>
      BY <1>2, <2>1 DEF A!Update
    <2>3. new \in ArticlePin \cup {A!None}  BY DEF A!NewPin
    <2>4. policy = "PURCHASE" => new # A!None \/ article.pin # A!None
      BY <2>2 DEF A!Accepted, A!NewPin, A!None
    <2> HIDE DEF new
    <2>5. c \in A!CallType /\ c.op = "update" /\ c.policy = policy /\ c.pin = new /\ c.read = moves
      BY <1>1, <2>1, <2>3 DEF A!CallType
    <2> QED BY <1>1, <2>2, <2>4, <2>5, ArtBegins, ArtOnlyCalls
  <1>3. ASSUME NEW to \in {"PENDING_REVIEW", "PUBLISHED", "REJECTED"},
               A!Begins(p, [op |-> "move", to |-> to]), UNCHANGED <<article, moves, readers>>
        PROVE  A!Inv'
    <2> DEFINE c == [op |-> "move", to |-> to]
    <2>1. c \in A!CallType /\ c.op = "move"  BY DEF A!CallType
    <2> HIDE DEF c
    <2>2. A!Begins(p, c)  BY <1>3 DEF c
    <2> QED BY <1>1, <1>3, <2>1, <2>2, ArtBegins, ArtOnlyCalls
  <1>4. ASSUME NEW u \in Reader, NEW pin \in ArticlePin, A!Unlock(p, u, pin)
        PROVE  A!Inv'
    <2>1. PICK c : c = [op |-> "unlock", user |-> u, read |-> article.unlocked]  OBVIOUS
    <2>2. A!Begins(p, c) /\ UNCHANGED <<article, moves>> /\ readers' = readers \cup {u}
      BY <1>4, <2>1 DEF A!Unlock, A!PinMatches
    <2>3. c \in A!CallType /\ c.op = "unlock" /\ c.user = u
      BY <1>1, <2>1 DEF A!CallType
    <2> QED BY <1>1, <2>2, <2>3, ArtBegins, ArtOnlyCalls
  <1>5. CASE A!CallFails(p)
    <2>1. A!Idle \in A!CallType /\ A!Idle.op = "idle"  BY DEF A!CallType, A!Idle
    <2> QED BY <1>1, <1>5, <2>1, ArtOnlyCalls DEF A!CallFails
  <1> QED BY <1>2, <1>3, <1>4, <1>5 DEF A!Submit, A!Review

LEMMA ArtUpdating ==
  ASSUME A!ArticleAssumption, A!Inv, NEW p \in Handler, A!UpdateWrites(p)
  PROVE  A!Inv'
  <1> USE DEF A!Inv, A!TypeOK
  <1>1. PICK c : c = artCall[p]  OBVIOUS
  <1>2. /\ c.op = "update" /\ c.policy \in {"FREE", "PURCHASE", A!None}
        /\ c.pin \in ArticlePin \cup {A!None}
        /\ c.policy = "PURCHASE" => c.pin # A!None \/ article.pin # A!None
    BY <1>1 DEF A!UpdateWrites, A!CallType, A!Idle, A!CallOK
  <1> DEFINE pol == IF c.policy = A!None THEN article.policy ELSE c.policy
             new == IF c.pin = A!None THEN article.pin ELSE c.pin
  <1>3. article' = [article EXCEPT !.text = article.text + 1, !.policy = pol, !.pin = new]
    BY <1>1 DEF A!UpdateWrites, A!Edited
  <1>4. article.text + 1 \in 0..MaxEdits
    BY DEF A!UpdateWrites, A!Document, A!ArticleAssumption
  <1>5. pol \in {"FREE", "PURCHASE"} /\ new \in ArticlePin \cup {A!None}
    BY <1>2 DEF A!Document, A!None
  <1>6. /\ article.pin # A!None => new # A!None
        /\ pol = "PURCHASE" => new # A!None
    BY <1>2 DEF A!PurchaseHasPin, A!None
  <1> HIDE DEF pol, new
  <1>7. /\ article' \in A!Document
        /\ article'.pin = new /\ article'.policy = pol /\ article'.status = article.status
        /\ article'.reason = article.reason /\ article'.unlocked = article.unlocked
    BY <1>3, <1>4, <1>5 DEF A!Document
  <1>8. A!Goes(p, A!Idle) /\ UNCHANGED <<artCalls, moves, readers>>
    BY DEF A!UpdateWrites
  <1>9. A!TypeOK'  BY <1>7, <1>8 DEF A!Goes, A!CallType
  <1>10. A!CallOK'  BY <1>6, <1>7, <1>8, ArtCallsStay DEF A!Idle
  <1> QED BY <1>6, <1>7, <1>8, <1>9, <1>10 DEF A!PurchaseHasPin, A!RejectedExplained, A!None

LEMMA ArtMoving ==
  ASSUME A!ArticleAssumption, A!Inv, NEW p \in Handler, A!MoveWrites(p)
  PROVE  A!Inv'
  <1> USE DEF A!Inv, A!TypeOK
  <1>1. PICK c : c = artCall[p]  OBVIOUS
  <1>2. c.op = "move" /\ c.to \in {"PENDING_REVIEW", "PUBLISHED", "REJECTED"}
    BY <1>1 DEF A!MoveWrites, A!CallType, A!Idle
  <1>3. PICK r : r = A!Explained(c.to)  OBVIOUS
  <1>4. r \in BOOLEAN /\ (c.to = "REJECTED" => r)
    BY <1>2, <1>3 DEF A!Explained, A!Document
  <1>5. article' = [article EXCEPT !.status = c.to, !.reason = r]
    BY <1>1, <1>3 DEF A!MoveWrites
  <1>6. /\ article' \in A!Document
        /\ article'.pin = article.pin /\ article'.policy = article.policy /\ article'.status = c.to
        /\ article'.reason = r /\ article'.unlocked = article.unlocked
    BY <1>2, <1>4, <1>5 DEF A!Document
  <1>7. A!Goes(p, A!Idle) /\ UNCHANGED <<artCalls, readers>> /\ moves' = moves + 1
    BY DEF A!MoveWrites
  <1>8. A!TypeOK'  BY <1>6, <1>7 DEF A!Goes, A!CallType
  <1>9. A!CallOK'  BY <1>6, <1>7, ArtCallsStay DEF A!Idle
  <1>10. A!PurchaseHasPin' /\ article'.unlocked \subseteq readers'
    BY <1>6, <1>7 DEF A!PurchaseHasPin, A!None
  <1>11. A!RejectedExplained'  BY <1>4, <1>6 DEF A!RejectedExplained
  <1> QED BY <1>8, <1>9, <1>10, <1>11

LEMMA ArtUnlocking ==
  ASSUME A!ArticleAssumption, A!Inv, NEW p \in Handler, A!UnlockWrites(p)
  PROVE  A!Inv'
  <1> USE DEF A!Inv, A!TypeOK
  <1>1. PICK c : c = artCall[p]  OBVIOUS
  <1>2. c.op = "unlock" /\ c.user \in readers
    BY <1>1 DEF A!UnlockWrites, A!CallOK
  <1>3. PICK s : s = article.unlocked \cup {c.user}  OBVIOUS
  <1>4. s \subseteq readers  BY <1>2, <1>3
  <1>5. article' = [article EXCEPT !.unlocked = s]
    BY <1>1, <1>3 DEF A!UnlockWrites, A!Unlocked
  <1>6. /\ article' \in A!Document
        /\ article'.pin = article.pin /\ article'.policy = article.policy
        /\ article'.status = article.status /\ article'.reason = article.reason
        /\ article'.unlocked = s
    BY <1>4, <1>5 DEF A!Document
  <1>7. A!Goes(p, A!Idle) /\ UNCHANGED <<artCalls, readers, moves>>
    BY DEF A!UnlockWrites
  <1>8. A!TypeOK'  BY <1>6, <1>7 DEF A!Goes, A!CallType
  <1>9. A!CallOK'  BY <1>6, <1>7, ArtCallsStay DEF A!Idle
  <1> QED BY <1>4, <1>6, <1>7, <1>8, <1>9 DEF A!PurchaseHasPin, A!RejectedExplained, A!None

LEMMA ArtNext ==
  ASSUME A!ArticleAssumption, A!Inv, [A!Next]_(A!vars)
  PROVE  A!Inv'
  <1>1. CASE UNCHANGED A!vars
    BY <1>1 DEF A!vars, A!Inv, A!TypeOK, A!CallOK, A!Editable, A!PurchaseHasPin, A!RejectedExplained, A!None
  <1>2. CASE A!Next
    BY <1>2, ArtReading, ArtUpdating, ArtMoving, ArtUnlocking DEF A!Next
  <1> QED BY <1>1, <1>2

LEMMA ArtHolds == A!Inv => ArticlesSound
  BY DEF A!Inv, A!ReadersPaid, A!Readable, ArticlesSound

(* An update changes neither the readers nor, but for races, what is under   *)
(* review; nothing else changes the text.                                    *)
LEMMA ArtKept ==
  ASSUME A!Inv, A!Next
  PROVE  A!UnlocksKept /\ A!FrozenButForRaces
  <1> USE DEF A!Inv, A!TypeOK
  <1>1. PICK p \in Handler :
          \/ article' = article
          \/ A!UpdateWrites(p) \/ A!MoveWrites(p) \/ A!UnlockWrites(p)
    BY DEF A!Next, A!Update, A!Submit, A!Review, A!Unlock, A!CallFails
  <1>2. CASE article' = article
    BY <1>2 DEF A!UnlocksKept, A!FrozenButForRaces
  <1>3. CASE A!UpdateWrites(p)
    <2>1. article'.unlocked = article.unlocked
      BY <1>3 DEF A!UpdateWrites, A!Edited, A!Document
    <2>2. artCall[p].op = "update" /\ artCall'[p] = A!Idle
      BY <1>3 DEF A!UpdateWrites, A!Goes
    <2>3. article.status \in {"PENDING_REVIEW", "PUBLISHED"} => artCall[p].read < moves
      <3>1. artCall[p].read \in Nat  BY <2>2 DEF A!CallType, A!Idle
      <3> QED BY <2>2, <3>1 DEF A!CallOK, A!Editable
    <2> QED BY <2>1, <2>2, <2>3 DEF A!UnlocksKept, A!FrozenButForRaces
  <1>4. CASE A!MoveWrites(p)
    BY <1>4 DEF A!MoveWrites, A!Document, A!UnlocksKept, A!FrozenButForRaces
  <1>5. CASE A!UnlockWrites(p)
    BY <1>5 DEF A!UnlockWrites, A!Unlocked, A!Document, A!UnlocksKept, A!FrozenButForRaces
  <1> QED BY <1>1, <1>2, <1>3, <1>4, <1>5

-----------------------------------------------------------------------------
(* Profile pictures.                                                         *)

LEMMA PicInit == P!Init => P!Inv
  <1> SUFFICES ASSUME P!Init PROVE P!Inv  OBVIOUS
  <1> USE DEF P!Init
  <1>1. P!Current = {}  BY DEF P!Current, P!None
  <1>2. P!TypeOK  BY <1>1 DEF P!TypeOK
  <1>3. picCall \in [Handler -> P!CallType]  BY DEF P!CallType
  <1>4. P!CallOK  BY DEF P!CallOK, P!Idle
  <1> QED BY <1>1, <1>2, <1>3, <1>4 DEF P!Inv, P!OneAvatar, P!CurrentStored

(* Everything of Inv that speaks of rows and objects.                        *)
RowsOK ==
  /\ row \in [File -> {P!None, "pending", "current", "replaced"}]
  /\ object \in [File -> {P!None, "good", "bad"}]
  /\ expired \subseteq File /\ avatarUrl \in Url \cup {P!None}
  /\ \A f, g \in File : row[f] = "current" /\ row[g] = "current" => f = g
  /\ \A f \in File : row[f] = "current" => avatarUrl = P!None /\ object[f] = "good"

LEMMA PicInvIs == P!Inv <=> RowsOK /\ picCall \in [Handler -> P!CallType] /\ P!CallOK
  <1>1. P!Inv => RowsOK
    BY DEF P!Inv, P!TypeOK, P!OneAvatar, P!CurrentStored, P!Current, RowsOK
  <1>2. RowsOK => P!TypeOK /\ P!OneAvatar /\ P!CurrentStored
    BY DEF P!TypeOK, P!OneAvatar, P!CurrentStored, P!Current, RowsOK
  <1> QED BY <1>1, <1>2 DEF P!Inv

(* An upload never goes back, and a good object stays until its upload is    *)
(* replaced.                                                                 *)
Onward ==
  \A f \in File :
    /\ row[f] # P!None => row'[f] # P!None
    /\ row[f] = "replaced" => row'[f] = "replaced"
    /\ row[f] # P!None /\ row'[f] = "pending" =>
         row[f] = "pending" /\ (object[f] = "good" => object'[f] = "good")

(* What a completion rests on in the next state.                             *)
RestsOn(c) ==
  /\ c.at \in {"inspect", "activate"} => row[c.file] # P!None
  /\ c.at = "activate" /\ row[c.file] = "pending" => P!Verified(c.file)
  /\ c.at = "delete" => \A f \in c.files : row[f] = "replaced"

LEMMA PicCallsStay ==
  ASSUME P!Inv, Onward, RowsOK',
         picCall' \in [Handler -> P!CallType],
         \A p \in Handler, c \in P!CallType : picCall'[p] = c => c = picCall[p] \/ RestsOn(c)'
  PROVE  P!Inv'
  <1> SUFFICES ASSUME NEW p \in Handler, NEW c \in P!CallType, c = picCall'[p]
               PROVE  RestsOn(c)'
    <2>1. (P!Inv <=> RowsOK /\ picCall \in [Handler -> P!CallType] /\ P!CallOK)'
      BY PicInvIs, PTL
    <2> QED BY <2>1 DEF P!CallOK, RestsOn, P!CallType, P!Idle
  <1>1. CASE c = picCall[p]
    <2>1. RestsOn(c)  BY <1>1 DEF P!Inv, P!CallOK, RestsOn
    <2>2. c.at \in {"inspect", "activate"} => c.file \in File
      BY DEF P!CallType, P!Idle
    <2>3. c.at = "delete" => c.files \subseteq File
      BY DEF P!CallType, P!Idle
    <2> QED BY <2>1, <2>2, <2>3 DEF Onward, RestsOn, P!Verified, P!None
  <1> QED BY <1>1

(* Uploads, expiries and the client touch no current picture.                *)
LEMMA PicRowsMove ==
  ASSUME P!Inv, NEW f \in File,
         P!CreateUpload(f) \/ P!Expires(f) \/ \E size \in {"good", "bad"} : P!Uploads(f, size)
  PROVE  P!Inv'
  <1>1. RowsOK /\ picCall \in [Handler -> P!CallType]  BY PicInvIs
  <1>2. RowsOK' /\ Onward
    BY <1>1 DEF RowsOK, Onward, P!CreateUpload, P!Expires, P!Uploads, P!None
  <1>3. picCall' = picCall  BY DEF P!CreateUpload, P!Expires, P!Uploads
  <1> QED BY <1>1, <1>2, <1>3, PicCallsStay

(* A step that only begins, continues or ends a completion.                  *)
LEMMA PicOnlyCalls ==
  ASSUME P!Inv, UNCHANGED <<row, expired, object, avatarUrl>>,
         NEW p \in Handler, NEW c \in P!CallType, P!Goes(p, c), RestsOn(c)
  PROVE  P!Inv'
  <1>1. RowsOK /\ picCall \in [Handler -> P!CallType]  BY PicInvIs
  <1>2. RowsOK' /\ Onward
    BY <1>1 DEF RowsOK, Onward, P!None
  <1>3. RestsOn(c)'  BY DEF RestsOn, P!Verified, P!None
  <1>4. picCall' \in [Handler -> P!CallType]
    BY <1>1 DEF P!Goes
  <1>5. \A q \in Handler, d \in P!CallType : picCall'[q] = d => d = picCall[q] \/ RestsOn(d)'
    BY <1>1, <1>3 DEF P!Goes
  <1> QED BY <1>2, <1>4, <1>5, PicCallsStay

LEMMA PicCompleting ==
  ASSUME P!Inv, NEW p \in Handler,
         (\E f \in File : P!Complete(p, f)) \/ P!Inspects(p) \/ P!CallFails(p)
  PROVE  P!Inv'
  <1>1. P!Idle \in P!CallType /\ RestsOn(P!Idle)  BY DEF P!CallType, P!Idle, RestsOn
  <1>2. ASSUME NEW f \in File, P!Complete(p, f)  PROVE P!Inv'
    <2>1. PICK c : c = [at |-> "inspect", file |-> f]  OBVIOUS
    <2>2. c \in P!CallType /\ RestsOn(c)
      BY <1>2, <2>1 DEF P!Complete, P!MayComplete, P!CallType, RestsOn, P!None
    <2> QED BY <1>2, <2>1, <2>2, PicOnlyCalls DEF P!Complete
  <1>3. CASE P!Inspects(p)
    <2>1. PICK c : c = picCall[p]  OBVIOUS
    <2>2. /\ c.at = "inspect" /\ c \in [at : {"inspect", "activate"}, file : File]
          /\ row[c.file] # P!None
      BY <1>3, <2>1 DEF P!Inspects, P!Inv, P!CallOK, P!CallType, P!Idle
    <2>3. PICK d : d = [c EXCEPT !.at = "activate"]  OBVIOUS
    <2>4. d \in P!CallType /\ d.at = "activate" /\ d.file = c.file
      BY <2>2, <2>3 DEF P!CallType
    <2>5. CASE P!Verified(c.file)
      BY <1>3, <2>1, <2>2, <2>3, <2>4, <2>5, PicOnlyCalls DEF P!Inspects, RestsOn
    <2>6. CASE ~P!Verified(c.file)
      BY <1>1, <1>3, <2>1, <2>6, PicOnlyCalls DEF P!Inspects
    <2> QED BY <2>5, <2>6
  <1>4. CASE P!CallFails(p)  BY <1>1, <1>4, PicOnlyCalls DEF P!CallFails
  <1> QED BY <1>2, <1>3, <1>4

(* The new picture is good, since it was verified and is still pending; the  *)
(* ones before it are replaced in the same step, and only then deleted.      *)
LEMMA PicActivating ==
  ASSUME P!Inv, NEW p \in Handler, P!Activate(p)
  PROVE  P!Inv'
  <1>1. RowsOK /\ picCall \in [Handler -> P!CallType]  BY PicInvIs
  <1>2. PICK c : c = picCall[p]  OBVIOUS
  <1>3. c.at = "activate" /\ c.file \in File
    BY <1>1, <1>2 DEF P!Activate, P!CallType, P!Idle
  <1>4. P!Idle \in P!CallType /\ RestsOn(P!Idle)'  BY DEF P!CallType, P!Idle, RestsOn
  <1>5. CASE ~P!MayActivate(c.file)
    <2>1. RestsOn(P!Idle)  BY DEF P!Idle, RestsOn
    <2> QED BY <1>2, <1>4, <1>5, <2>1, PicOnlyCalls DEF P!Activate
  <1>6. CASE P!MayActivate(c.file)
    <2>1. row[c.file] = "pending" /\ object[c.file] = "good"
      BY <1>2, <1>3, <1>6 DEF P!MayActivate, P!MayComplete, P!Inv, P!CallOK, P!Verified
    <2>2. PICK d : d = IF P!Current = {} THEN P!Idle ELSE [at |-> "delete", files |-> P!Current]
      OBVIOUS
    <2>3. /\ row' = [[f \in File |-> IF row[f] = "current" THEN "replaced" ELSE row[f]]
                       EXCEPT ![c.file] = "current"]
          /\ avatarUrl' = P!None /\ P!Goes(p, d) /\ UNCHANGED <<expired, object>>
      BY <1>2, <1>6, <2>2 DEF P!Activate, P!Replaced, P!ActivatedUrl
    <2>4. RowsOK'
      BY <1>1, <1>3, <2>1, <2>3 DEF RowsOK, P!None
    <2>5. Onward
      BY <1>1, <1>3, <2>1, <2>3 DEF RowsOK, Onward, P!None
    <2>6. d \in P!CallType
      BY <2>2 DEF P!CallType, P!Current
    <2>7. RestsOn(d)'
      <3>1. CASE P!Current = {}  BY <1>4, <2>2, <3>1 DEF P!Idle, RestsOn
      <3>2. CASE P!Current # {}
        <4>1. d.at = "delete" /\ d.files = P!Current  BY <2>2, <3>2
        <4>2. \A f \in P!Current : row'[f] = "replaced"
          BY <1>3, <2>1, <2>3 DEF P!Current
        <4> QED BY <4>1, <4>2 DEF RestsOn
      <3> QED BY <3>1, <3>2
    <2>8. picCall' \in [Handler -> P!CallType]
      BY <1>1, <2>3, <2>6 DEF P!Goes
    <2>9. \A q \in Handler, e \in P!CallType : picCall'[q] = e => e = picCall[q] \/ RestsOn(e)'
      BY <1>1, <2>3, <2>7 DEF P!Goes
    <2> QED BY <2>4, <2>5, <2>8, <2>9, PicCallsStay
  <1> QED BY <1>5, <1>6

LEMMA PicDeleting ==
  ASSUME P!Inv, NEW p \in Handler, P!DeletesPrevious(p)
  PROVE  P!Inv'
  <1>1. RowsOK /\ picCall \in [Handler -> P!CallType]  BY PicInvIs
  <1>2. PICK c : c = picCall[p]  OBVIOUS
  <1>3. c.at = "delete" /\ \A f \in c.files : row[f] = "replaced"
    BY <1>2 DEF P!DeletesPrevious, P!Inv, P!CallOK
  <1>4. /\ object' = [f \in File |-> IF f \in c.files THEN P!None ELSE object[f]]
        /\ P!Goes(p, P!Idle) /\ UNCHANGED <<row, expired, avatarUrl>>
    BY <1>2 DEF P!DeletesPrevious
  <1>5. RowsOK' /\ Onward
    BY <1>1, <1>3, <1>4 DEF RowsOK, Onward, P!None
  <1>6. picCall' \in [Handler -> P!CallType]
    BY <1>1, <1>4 DEF P!Goes, P!CallType
  <1>7. RestsOn(P!Idle)'  BY DEF P!Idle, RestsOn
  <1>8. \A q \in Handler, e \in P!CallType : picCall'[q] = e => e = picCall[q] \/ RestsOn(e)'
    BY <1>1, <1>4, <1>7 DEF P!Goes, P!Idle, RestsOn
  <1> QED BY <1>5, <1>6, <1>8, PicCallsStay

LEMMA PicUpdating ==
  ASSUME P!Inv, NEW url \in Url \cup {P!None}, P!UpdateProfile(url)
  PROVE  P!Inv'
  <1>1. RowsOK /\ picCall \in [Handler -> P!CallType]  BY PicInvIs
  <1>2. /\ row' = [f \in File |-> IF row[f] = "current" THEN "replaced" ELSE row[f]]
        /\ avatarUrl' = url /\ UNCHANGED <<expired, object, picCall>>
    BY DEF P!UpdateProfile, P!Deactivated, P!Replaced
  <1>3. RowsOK' /\ Onward
    BY <1>1, <1>2 DEF RowsOK, Onward, P!None
  <1> QED BY <1>1, <1>2, <1>3, PicCallsStay

LEMMA PicNext ==
  ASSUME P!Inv, [P!Next]_(P!vars)
  PROVE  P!Inv'
  <1>1. CASE UNCHANGED P!vars
    <2>1. RowsOK /\ picCall \in [Handler -> P!CallType]  BY PicInvIs
    <2>2. RowsOK' /\ Onward /\ picCall' = picCall
      BY <1>1, <2>1 DEF P!vars, RowsOK, Onward, P!None
    <2> QED BY <2>1, <2>2, PicCallsStay
  <1>2. CASE P!Next
    BY <1>2, PicRowsMove, PicCompleting, PicActivating, PicDeleting, PicUpdating DEF P!Next
  <1> QED BY <1>1, <1>2

LEMMA PicHolds == P!Inv => PicturesSound
  BY DEF P!Inv, PicturesSound

-----------------------------------------------------------------------------
(* Rate limits.                                                              *)

LEMMA LimInit == R!RateLimitAssumption /\ R!Init => R!Inv
  BY DEF R!RateLimitAssumption, R!Init, R!Inv, R!TypeOK, R!Quota, R!NoLockout, R!NoBucket

(* One more request on a bucket: the count is one more, or a new window has  *)
(* begun with the first.                                                     *)
LEMMA Counting ==
  ASSUME R!RateLimitAssumption, NEW b \in [count : Nat, resetsAt : Int], NEW now \in Int
  PROVE  /\ R!Upserted(b, now) \in [count : Nat, resetsAt : Int]
         /\ R!Upserted(b, now).count > 0
         /\ R!Over(b, now) => R!Upserted(b, now) = [count |-> 1, resetsAt |-> now + Window]
         /\ ~R!Over(b, now) => /\ R!Upserted(b, now).count = b.count + 1
                               /\ R!Upserted(b, now).resetsAt = b.resetsAt
                               /\ b # R!NoBucket
  BY DEF R!Upserted, R!Over, R!RateLimitAssumption

(* What a statement does to a bucket other than its own.                     *)
LEMMA Keeping ==
  ASSUME NEW b, NEW now
  PROVE  R!Kept(b, now) \in {b, R!NoBucket}
  BY DEF R!Kept

LEMMA Enforcing ==
  ASSUME R!RateLimitAssumption, R!Inv, NEW r \in Request, R!Enforces(r)
  PROVE  R!Inv'
  <1> USE DEF R!Inv, R!TypeOK
  <1>1. PICK q : q = request[r]  OBVIOUS
  <1>2. q.at = "query" /\ q.key \in Key /\ q.now \in Int
    BY <1>1 DEF R!Enforces
  <1> DEFINE k == q.key
             now == q.now
  <1>3. PICK b : b = bucket[k]  OBVIOUS
  <1>4. PICK n : n = R!Upserted(b, now)  OBVIOUS
  <1>5. PICK a : a = (IF R!Over(b, now) THEN 0 ELSE admitted[k]) + (IF n.count <= Limit THEN 1 ELSE 0)
    OBVIOUS
  <1>6. PICK o : o = IF R!Over(b, now) THEN now ELSE opened[k]  OBVIOUS
  <1>7. /\ bucket' = [[j \in Key |-> R!Kept(bucket[j], now)] EXCEPT ![k] = n]
        /\ admitted' = [admitted EXCEPT ![k] = a]
        /\ opened' = [opened EXCEPT ![k] = o]
        /\ request' = [request EXCEPT ![r] =
             [at |-> IF n.count <= Limit THEN "admitted" ELSE "refused"]]
        /\ limClock' = limClock
    BY <1>1, <1>3, <1>4, <1>5, <1>6 DEF R!Enforces
  <1>8. /\ b \in [count : Nat, resetsAt : Int]
        /\ b # R!NoBucket => b.resetsAt <= opened[k] + Window /\ admitted[k] <= b.count
        /\ admitted[k] \in Nat /\ admitted[k] <= Limit /\ opened[k] \in Int
    BY <1>2, <1>3 DEF R!Quota, R!NoLockout
  <1>9. /\ n \in [count : Nat, resetsAt : Int] /\ a \in Nat /\ o \in Int
        /\ a <= Limit /\ a <= n.count /\ n.resetsAt <= o + Window
    <2>1. CASE R!Over(b, now)
      <3>1. n = [count |-> 1, resetsAt |-> now + Window] /\ o = now
        BY <1>2, <1>4, <1>6, <1>8, <2>1, Counting
      <3>2. n.count = 1 /\ n.resetsAt = now + Window /\ a = IF 1 <= Limit THEN 1 ELSE 0
        BY <1>5, <2>1, <3>1
      <3> QED BY <1>2, <3>1, <3>2 DEF R!RateLimitAssumption
    <2>2. CASE ~R!Over(b, now)
      <3>1. n \in [count : Nat, resetsAt : Int] /\ n.count = b.count + 1 /\ n.resetsAt = b.resetsAt
            /\ b # R!NoBucket
        BY <1>2, <1>4, <1>8, <2>2, Counting
      <3>2. o = opened[k] /\ a = admitted[k] + IF n.count <= Limit THEN 1 ELSE 0
        BY <1>5, <1>6, <2>2
      <3> QED BY <1>8, <3>1, <3>2 DEF R!RateLimitAssumption
    <2> QED BY <2>1, <2>2
  <1>10. \A j \in Key : j # k => /\ bucket'[j] \in {bucket[j], R!NoBucket}
                                 /\ admitted'[j] = admitted[j] /\ opened'[j] = opened[j]
    BY <1>7, Keeping
  <1>11. bucket'[k] = n /\ admitted'[k] = a /\ opened'[k] = o
    BY <1>2, <1>7
  <1>12. R!NoBucket \in [count : Nat, resetsAt : Int]  BY DEF R!NoBucket
  <1>13. R!TypeOK'
    <2>1. bucket' \in [Key -> [count : Nat, resetsAt : Int]]
      BY <1>2, <1>7, <1>9, <1>12, Keeping
    <2>2. admitted' \in [Key -> Nat] /\ opened' \in [Key -> Int]
      BY <1>7, <1>9
    <2>3. request' \in [Request -> [at : {"client", "admitted", "refused"}]
                                    \cup [at : {"query"}, key : Key, now : Int]]
      BY <1>7
    <2> QED BY <1>7, <2>1, <2>2, <2>3
  <1>14. R!Quota'
    BY <1>9, <1>10, <1>11 DEF R!Quota
  <1>15. \A j \in Key : bucket'[j] # R!NoBucket =>
           bucket'[j].resetsAt <= opened'[j] + Window /\ admitted'[j] <= bucket'[j].count
    BY <1>9, <1>10, <1>11 DEF R!NoLockout
  <1>16. \A s \in Request : request'[s].at = "query" => request'[s].now <= limClock' + Skew
    BY <1>7
  <1> QED BY <1>13, <1>14, <1>15, <1>16 DEF R!NoLockout, R!NoBucket

LEMMA LimNext ==
  ASSUME R!RateLimitAssumption, R!Inv, [R!Next]_(R!vars)
  PROVE  R!Inv'
  <1> USE DEF R!Inv, R!TypeOK
  <1>1. CASE UNCHANGED R!vars
    BY <1>1 DEF R!vars, R!Quota, R!NoLockout, R!NoBucket
  <1>2. ASSUME NEW r \in Request, NEW k \in Key, R!Arrives(r, k)  PROVE R!Inv'
    <2>1. PICK now \in limClock - Skew .. limClock + Skew :
            request' = [request EXCEPT ![r] = [at |-> "query", key |-> k, now |-> now]]
      BY <1>2 DEF R!Arrives
    <2>2. now \in Int /\ now <= limClock + Skew
      BY <2>1 DEF R!RateLimitAssumption
    <2>3. UNCHANGED <<limClock, bucket, admitted, opened>>
      BY <1>2 DEF R!Arrives
    <2>4. request' \in [Request -> [at : {"client", "admitted", "refused"}]
                                    \cup [at : {"query"}, key : Key, now : Int]]
      BY <2>1, <2>2
    <2>5. \A s \in Request : request'[s].at = "query" => request'[s].now <= limClock + Skew
      BY <2>1, <2>2
    <2> QED BY <2>3, <2>4, <2>5 DEF R!Quota, R!NoLockout, R!NoBucket
  <1>3. ASSUME NEW r \in Request, R!Enforces(r)  PROVE R!Inv'
    BY <1>3, Enforcing
  <1>4. CASE R!ClockTicks
    <2>1. limClock' \in 0..MaxLimitTime /\ limClock <= limClock' /\ UNCHANGED <<bucket, request, admitted, opened>>
      BY <1>4 DEF R!ClockTicks, R!RateLimitAssumption
    <2>2. \A s \in Request : request[s].at = "query" => request[s].now \in Int
      OBVIOUS
    <2>3. \A s \in Request : request[s].at = "query" => request[s].now <= limClock' + Skew
      BY <2>1, <2>2 DEF R!RateLimitAssumption
    <2> QED BY <2>1, <2>3 DEF R!Quota, R!NoLockout, R!NoBucket
  <1> QED BY <1>1, <1>2, <1>3, <1>4 DEF R!Next

LEMMA LimHolds == R!Inv => LimitsSound
  BY DEF R!Inv, LimitsSound

(* A request's time is at most Skew ahead of the clock, and it ends only     *)
(* windows that were over by that time.                                      *)
LEMMA LimHonoured ==
  ASSUME R!RateLimitAssumption, R!Inv, [R!Next]_(R!vars), NEW k \in Key,
         bucket'[k].resetsAt # bucket[k].resetsAt
  PROVE  bucket[k].resetsAt <= limClock + Skew
  <1> USE DEF R!Inv, R!TypeOK, R!RateLimitAssumption
  <1>1. bucket' # bucket  OBVIOUS
  <1>2. PICK r \in Request : R!Enforces(r)
    BY <1>1 DEF R!Next, R!vars, R!Arrives, R!ClockTicks
  <1>3. PICK now : now = request[r].now  OBVIOUS
  <1>4. now \in Int /\ now <= limClock + Skew /\ request[r].key \in Key
    BY <1>2, <1>3 DEF R!Enforces
  <1>5. PICK b : b = bucket[k]  OBVIOUS
  <1>6. b \in [count : Nat, resetsAt : Int]  BY <1>5
  <1>7. bucket'[k] \in {R!Upserted(b, now), R!Kept(b, now)}
    BY <1>2, <1>3, <1>4, <1>5 DEF R!Enforces
  <1>8. R!NoBucket.resetsAt = -1  BY DEF R!NoBucket
  <1>9. CASE bucket'[k] = R!Upserted(b, now)
    <2>1. R!Over(b, now)
      BY <1>4, <1>5, <1>6, <1>9, Counting
    <2> QED BY <1>4, <1>5, <1>6, <1>8, <2>1 DEF R!Over
  <1>10. CASE bucket'[k] = R!Kept(b, now)
    BY <1>4, <1>5, <1>6, <1>10 DEF R!Kept
  <1> QED BY <1>7, <1>9, <1>10

-----------------------------------------------------------------------------
(* Listings and the history.                                                 *)

LEMMA LstInit == E!ListingAssumption /\ E!Init => E!Inv
  <1> SUFFICES ASSUME E!ListingAssumption, E!Init PROVE E!Inv  OBVIOUS
  <1>1. page.at = E!None  BY DEF E!Init, E!NoPage
  <1>2. 0 \in E!Time /\ 0 \in 0..E!Forever
    BY DEF E!Time, E!Forever, E!ListingAssumption
  <1>3. exam \in [E!Exam -> E!Row]  BY DEF E!Init, E!Row
  <1>4. E!TypeOK  BY <1>1, <1>2, <1>3 DEF E!Init, E!TypeOK
  <1>5. E!ResultsStand /\ E!ResultHasMarks /\ E!AnswersPrivate
    BY <1>1 DEF E!ResultsStand, E!ResultHasMarks, E!AnswersPrivate, E!None
  <1> QED BY <1>4, <1>5 DEF E!Inv

(* A step beside the history: what was graded stays graded.                  *)
LEMMA PageStays ==
  ASSUME E!Inv, E!TypeOK', page' = page,
         \A e \in E!Exam : attempt[e] = "graded" => attempt'[e] = "graded"
  PROVE  E!Inv'
  BY DEF E!Inv, E!ResultsStand, E!ResultHasMarks, E!AnswersPrivate, E!Exam

LEMMA LstChanges ==
  ASSUME E!ListingAssumption, E!Inv,
         \/ \E e \in E!Exam :
              \/ E!Starts(e) \/ E!Grades(e)
              \/ \E start, close \in E!Time, mode \in {"OPEN", "INVITE_ONLY"} :
                   E!Schedules(e, start, close, mode)
         \/ \E u \in Viewer : E!InstitutionChanges(u)
         \/ E!ClockTicks
         \/ UNCHANGED E!vars
  PROVE  E!Inv'
  <1>1. E!TypeOK  BY DEF E!Inv
  <1>2. ASSUME NEW e \in E!Exam, E!Starts(e) \/ E!Grades(e)  PROVE E!Inv'
    <2>1. E!TypeOK' /\ page' = page
      BY <1>1, <1>2 DEF E!Starts, E!Grades, E!TypeOK, E!None
    <2>2. \A x \in E!Exam : attempt[x] = "graded" => attempt'[x] = "graded"
      BY <1>1, <1>2 DEF E!Starts, E!Grades, E!TypeOK, E!None
    <2> QED BY <2>1, <2>2, PageStays
  <1>3. ASSUME NEW e \in E!Exam, NEW start \in E!Time, NEW close \in E!Time,
               NEW mode \in {"OPEN", "INVITE_ONLY"}, E!Schedules(e, start, close, mode)
        PROVE  E!Inv'
    <2>1. E!TypeOK' /\ page' = page /\ attempt' = attempt
      BY <1>1, <1>3 DEF E!Schedules, E!TypeOK, E!Row, E!None
    <2> QED BY <2>1, PageStays
  <1>4. ASSUME NEW u \in Viewer, E!InstitutionChanges(u)  PROVE E!Inv'
    <2>1. lstClock + 1 \in 0..E!Forever /\ E!Forever \in 0..E!Forever
      BY <1>1 DEF E!TypeOK, E!Time, E!Forever, E!ListingAssumption
    <2>2. enrolledUntil' \in [Viewer -> 0..E!Forever]
      BY <1>1, <1>4, <2>1 DEF E!InstitutionChanges, E!TypeOK
    <2>3. lstActive' \in BOOLEAN /\ lstAdmins' \subseteq Viewer
      BY <1>1, <1>4 DEF E!InstitutionChanges, E!TypeOK
    <2>4. UNCHANGED <<lstClock, exam, attempt, page>>
      BY <1>4 DEF E!InstitutionChanges
    <2>5. E!TypeOK'
      BY <1>1, <2>2, <2>3, <2>4 DEF E!TypeOK, E!None, E!Forever
    <2> QED BY <2>4, <2>5, PageStays
  <1>5. CASE E!ClockTicks
    <2>1. E!TypeOK' /\ page' = page /\ attempt' = attempt
      BY <1>1, <1>5 DEF E!ClockTicks, E!TypeOK, E!Time, E!None, E!ListingAssumption
    <2> QED BY <2>1, PageStays
  <1>6. CASE UNCHANGED E!vars
    <2>1. E!TypeOK' /\ page' = page /\ attempt' = attempt
      BY <1>1, <1>6 DEF E!vars, E!TypeOK, E!None
    <2> QED BY <2>1, PageStays
  <1> QED BY <1>2, <1>3, <1>4, <1>5, <1>6

(* The history's queries, one after another.                                 *)
LEMMA LstHistory ==
  ASSUME E!Inv,
         \/ \E v \in Viewer : E!HistoryAccess(v)
         \/ E!HistoryRows \/ E!HistoryAnswers \/ E!HistoryEnds
  PROVE  E!Inv'
  <1> USE DEF E!Inv
  <1>1. /\ E!TypeOK
        /\ UNCHANGED <<lstClock, exam, lstActive, lstAdmins, enrolledUntil, attempt>>
    BY DEF E!HistoryAccess, E!HistoryRows, E!HistoryAnswers, E!HistoryEnds
  <1>2. page'.at \in {E!None, "rows", "answers", "sent"} => E!TypeOK'
    BY <1>1 DEF E!TypeOK, E!None
  <1>3. ASSUME page'.at \in {E!None, "rows"}  PROVE E!Inv'
    BY <1>2, <1>3 DEF E!ResultsStand, E!ResultHasMarks, E!AnswersPrivate, E!None
  <1>4. ASSUME NEW v \in Viewer, E!HistoryAccess(v)  PROVE page'.at \in {E!None, "rows"}
    BY <1>4 DEF E!HistoryAccess
  <1>5. CASE E!HistoryEnds
    BY <1>3, <1>5 DEF E!HistoryEnds, E!NoPage
  <1>6. CASE E!HistoryRows
    <2>1. PICK res : res = [e \in {x \in E!Exam : E!Found(x)} |-> attempt[e] = "graded"]
      OBVIOUS
    <2>2. page'.at = "answers" /\ page'.result = res
      BY <1>6, <2>1 DEF E!HistoryRows
    <2>3. DOMAIN res \subseteq E!Exam /\ \A e \in DOMAIN res : res[e] => attempt[e] = "graded"
      BY <2>1
    <2> QED BY <1>1, <1>2, <2>2, <2>3 DEF E!ResultsStand, E!ResultHasMarks, E!AnswersPrivate, E!Exam
  <1>7. CASE E!HistoryAnswers
    <2>1. PICK its : its = [e \in {x \in E!Exam : E!CanReadAnswers(x)} |-> E!Item(e)]
      OBVIOUS
    <2>2. page.at = "answers" /\ page'.at = "sent" /\ page'.items = its /\ page'.viewer = page.viewer
      BY <1>7, <2>1 DEF E!HistoryAnswers
    <2>3. \A e \in DOMAIN its : e \in E!Exam /\ E!CanReadAnswers(e) /\ its[e] = E!Item(e)
      BY <2>1
    <2>4. \A e \in DOMAIN its : its[e].result => its[e].marks
      <3> SUFFICES ASSUME NEW e \in DOMAIN its, its[e].result  PROVE its[e].marks
        OBVIOUS
      <3> DEFINE seen == page.result[e]
                 graded == attempt[e] = "graded"
      <3>1. its[e] = [result |-> seen, marks |-> graded]
        BY <2>3 DEF E!Item
      <3>2. its[e].result = seen /\ its[e].marks = graded
        <4> HIDE DEF seen, graded
        <4> QED BY <3>1
      <3>3. e \in DOMAIN page.result  BY <2>3 DEF E!CanReadAnswers
      <3>4. page.result[e] => attempt[e] = "graded"  BY <2>2, <3>3 DEF E!ResultsStand
      <3>5. page.result[e]  BY <3>2, Zenon
      <3> QED BY <3>2, <3>4, <3>5, Zenon
    <2>5. page.viewer \notin Global \cup {Student} => DOMAIN its \subseteq InstitutionExam
      BY <2>3 DEF E!CanReadAnswers, E!FullAccess
    <2> QED BY <1>1, <1>2, <2>2, <2>4, <2>5 DEF E!ResultsStand, E!ResultHasMarks, E!AnswersPrivate
  <1> QED BY <1>3, <1>4, <1>5, <1>6, <1>7

LEMMA LstNext ==
  ASSUME E!ListingAssumption, E!Inv, [E!Next]_(E!vars)
  PROVE  E!Inv'
  BY LstChanges, LstHistory DEF E!Next

(* The filters divide the times as the shown status does.                    *)
LEMMA FiltersDivide == E!ListingAssumption /\ E!TypeOK => E!FiltersAgree
  <1> SUFFICES ASSUME E!ListingAssumption, E!TypeOK, NEW e \in PublicExam, NEW s \in E!Filter
               PROVE  E!ListedPublic(e, {s}) <=> E!ListedPublic(e, E!Filter) /\ E!DisplayStatus(e) = s
    BY DEF E!FiltersAgree
  <1>1. CASE ~E!Visible(e)  BY <1>1 DEF E!ListedPublic
  <1>2. CASE E!Visible(e)
    <2>1. exam[e].startsAt \in Nat /\ exam[e].closesAt \in Nat /\ lstClock \in Nat
      BY <1>2 DEF E!TypeOK, E!Row, E!Draft, E!Visible, E!Exam, E!Time, E!ListingAssumption
    <2>2. \A t \in E!Filter : E!ScheduleWhere(e, t) <=> E!DisplayStatus(e) = t
      BY <2>1 DEF E!ScheduleWhere, E!DisplayStatus, E!Filter
    <2>3. E!DisplayStatus(e) \in E!Filter  BY DEF E!DisplayStatus, E!Filter
    <2> QED BY <1>2, <2>2, <2>3 DEF E!ListedPublic
  <1> QED BY <1>1, <1>2

(* Who finds an exam may do with it what its shown status says.              *)
LEMMA ListedServes == E!ListingAssumption /\ E!TypeOK => E!ListedUsable
  <1> SUFFICES ASSUME E!ListingAssumption, E!TypeOK, NEW e \in E!Exam, NEW u \in Viewer,
                      E!ListedPublic(e, E!Filter) \/ E!ListedToEnrolled(e, u)
               PROVE  /\ E!DisplayStatus(e) = "RUNNING" <=> E!Enters(e, u, TRUE)
                      /\ E!DisplayStatus(e) = "COMPLETED" <=> E!AuthorizePractice(e, u)
    BY DEF E!ListedUsable
  <1>1. E!Visible(e) /\ E!InScope(e, u)
    BY DEF E!ListedPublic, E!ListedToEnrolled, E!InScope, E!ListingAssumption
  <1>2. exam[e].startsAt \in Nat /\ exam[e].closesAt \in Nat /\ lstClock \in Nat
    BY <1>1 DEF E!TypeOK, E!Row, E!Draft, E!Visible, E!Exam, E!Time, E!ListingAssumption
  <1>3. exam[e].status = "SCHEDULED"
    BY <1>1 DEF E!TypeOK, E!Row, E!Draft, E!Visible, E!Exam
  <1> QED BY <1>1, <1>2, <1>3 DEF E!DisplayStatus, E!Enters, E!Authorize, E!AuthorizePractice

LEMMA LstHolds == E!ListingAssumption /\ E!Inv => ListingsSound /\ HistorySound
  BY FiltersDivide, ListedServes DEF E!Inv, ListingsSound, HistorySound

-----------------------------------------------------------------------------
(* A step of Platform is a step or a stutter of each component.              *)
LEMMA Steps ==
  ASSUME [PlatformNext]_platformVars
  PROVE  /\ [N!Next]_(N!vars) /\ [A!Next]_(A!vars) /\ [P!Next]_(P!vars)
         /\ [R!Next]_(R!vars) /\ [E!Next]_(E!vars)
  BY DEF PlatformNext, platformVars, instVars, artVars, picVars, limVars, lstVars,
         N!vars, A!vars, P!vars, R!vars, E!vars

Invs == N!Inv /\ A!Inv /\ P!Inv /\ R!Inv /\ E!Inv

LEMMA Invariance == PlatformSpec => []Invs
  <1>1. PlatformInit => Invs
    BY PlatformAssumption, InstInit, ArtInit, PicInit, LimInit, LstInit DEF PlatformInit, Invs
  <1>2. Invs /\ [PlatformNext]_platformVars => Invs'
    BY PlatformAssumption, Steps, InstNext, ArtNext, PicNext, LimNext, LstNext DEF Invs
  <1> QED BY <1>1, <1>2, PTL DEF PlatformSpec

(* A live institution is complete and all its members were admitted, however *)
(* responses, enrolments, payments and reviews race.                         *)
THEOREM InstitutionsAreSound == PlatformSpec => []InstitutionsSound
  <1>1. Invs => InstitutionsSound  BY InstHolds DEF Invs
  <1> QED BY <1>1, Invariance, PTL

(* No second answer changes the first, and no handler that saw the member    *)
(* ends a membership.                                                        *)
THEOREM DecisionsDoStand == PlatformSpec => DecisionsStand
  <1>1. Invs /\ [PlatformNext]_platformVars => [N!DecidedOnce /\ N!LostOnlyToRace]_(N!vars)
    BY Steps, InstDecisions DEF Invs
  <1> QED BY <1>1, Invariance, PTL DEF PlatformSpec, DecisionsStand, N!DecisionsStand

(* Whatever updates race on the document, a paid article has a PIN, its      *)
(* readers presented it, and a rejected one says why.                        *)
THEOREM ArticlesAreSound == PlatformSpec => []ArticlesSound
  <1>1. Invs => ArticlesSound  BY ArtHolds DEF Invs
  <1> QED BY <1>1, Invariance, PTL

(* No update loses an unlock or, but for one that read before the status was *)
(* written, changes a submitted text.                                        *)
THEOREM ArticlesAreKept == PlatformSpec => ArticleKept
  <1>1. Invs /\ [PlatformNext]_platformVars => [A!UnlocksKept /\ A!FrozenButForRaces]_(A!vars)
    BY Steps, ArtKept DEF Invs
  <1> QED BY <1>1, Invariance, PTL DEF PlatformSpec, ArticleKept, A!ArticleKept

(* Completions and profile updates leave one avatar, and it is stored.       *)
THEOREM PicturesAreSound == PlatformSpec => []PicturesSound
  <1>1. Invs => PicturesSound  BY PicHolds DEF Invs
  <1> QED BY <1>1, Invariance, PTL

(* For any limit, window and difference of the clocks, a window admits no    *)
(* more than its limit and ends when it said it would.                       *)
THEOREM LimitsAreSound == PlatformSpec => []LimitsSound
  <1>1. Invs => LimitsSound  BY LimHolds DEF Invs
  <1> QED BY <1>1, Invariance, PTL

(* No statement empties a bucket before its window is over.                  *)
THEOREM WindowsAreHonoured == PlatformSpec => WindowHonoured
  <1>1. Invs /\ [PlatformNext]_platformVars =>
          [\A k \in Key : bucket'[k].resetsAt # bucket[k].resetsAt
                            => bucket[k].resetsAt <= limClock + Skew]_(R!vars)
    BY PlatformAssumption, Steps, LimHonoured DEF Invs
  <1> QED BY <1>1, Invariance, PTL DEF PlatformSpec, WindowHonoured, R!WindowHonoured

(* The listing's query, the status it shows and the access check agree at    *)
(* every time.                                                               *)
THEOREM ListingsAreSound == PlatformSpec => []ListingsSound
  <1>1. Invs => ListingsSound  BY PlatformAssumption, LstHolds DEF Invs
  <1> QED BY <1>1, Invariance, PTL

(* A history shows results with their marks, and answers only to those who   *)
(* may read them, whatever is graded or changed between its queries.         *)
THEOREM HistoriesAreSound == PlatformSpec => []HistorySound
  <1>1. Invs => HistorySound  BY PlatformAssumption, LstHolds DEF Invs
  <1> QED BY <1>1, Invariance, PTL

=============================================================================
