----------------------------- MODULE Institution -----------------------------
(* An institution from its application to its members.                       *)
(*                                                                           *)
(* A user applies, a global administrator approves (drawing a code nobody    *)
(* has) or rejects, and users enrol: at once, by paying, or on an            *)
(* administrator's approval.  Every handler but the first reads, decides and *)
(* writes later, at another await; upsertEnrollment has no condition.        *)
EXTENDS Naturals, FiniteSets

CONSTANTS
  Name,         \* institutions, by their unique name
  User, Code,
  TypeOf,       \* the enrollment type an institution will have: no code sets it
  GlobalAdmin,  \* users whose platformRole is GLOBAL_ADMIN
  Proc,
  Tries,        \* codes drawn before giving up
  MaxCalls      \* bound on the calls made

NoCode == "no code"

InstitutionAssumption ==
  /\ NoCode \notin Code
  /\ TypeOf \in [Name -> {"FREE", "PAID", "INVITE_ONLY"}]
  /\ GlobalAdmin \subseteq User
  /\ Tries \in Nat \ {0} /\ MaxCalls \in Nat

VARIABLES
  inst,       \* rows of institutions
  admins,     \* rows of institution_admins
  enrollment, \* status of the row of enrollments
  call, calls,
  asked,      \* history: users who requested, or paid for, what is on record
  approved    \* history: users an administrator approved
vars == <<inst, admins, enrollment, call, calls, asked, approved>>

Absent == [status |-> "NONE"]
Idle == [op |-> "idle"]

Goes(p, c) == call' = [call EXCEPT ![p] = c]
Begins(p, c) == call[p] = Idle /\ calls < MaxCalls /\ calls' = calls + 1 /\ Goes(p, c)
Active(i) == inst[i].status = "ACTIVE"

Init ==
  /\ inst = [i \in Name |-> Absent]
  /\ admins = [i \in Name |-> {}]
  /\ enrollment = [i \in Name |-> [u \in User |-> "NONE"]]
  /\ call = [p \in Proc |-> Idle] /\ calls = 0
  /\ asked = [i \in Name |-> {}] /\ approved = [i \in Name |-> {}]

-----------------------------------------------------------------------------
(* RegisterInstitutionUseCase: one insert; a name is taken once.             *)
Register(i, u) ==
  /\ inst[i] = Absent
  /\ inst' = [inst EXCEPT ![i] =
       [status |-> "PENDING_APPROVAL", createdBy |-> u, code |-> NoCode]]
  /\ UNCHANGED <<admins, enrollment, call, calls, asked, approved>>

(* GlobalAdminUseCases.respond, which tries again when the code is taken.    *)
Respond(p, i, verdict) ==
  /\ inst[i] # Absent
  /\ Begins(p, [op |-> "respond", name |-> i, verdict |-> verdict, left |-> Tries])
  /\ UNCHANGED <<inst, admins, enrollment, asked, approved>>

Taken(c) == \E j \in Name : inst[j] # Absent /\ inst[j].code = c

(* respondToPending: the condition is in its updateMany.                     *)
Respondable_Any(i) == inst[i] # Absent
Respondable(i) == inst[i].status = "PENDING_APPROVAL"

AdminsOf(i) == {inst[i].createdBy}

Approves(p, c) ==
  LET i == call[p].name IN
  /\ call[p].op = "respond" /\ call[p].verdict = "APPROVED"
  /\ Respondable(i) /\ ~Taken(c)
  /\ inst' = [inst EXCEPT ![i].status = "ACTIVE", ![i].code = c]
  /\ admins' = [admins EXCEPT ![i] = @ \cup AdminsOf(i)]
  /\ Goes(p, Idle)
  /\ UNCHANGED <<enrollment, calls, asked, approved>>

Rejects(p) ==
  LET i == call[p].name IN
  /\ call[p].op = "respond" /\ call[p].verdict = "REJECTED"
  /\ Respondable(i)
  /\ inst' = [inst EXCEPT ![i].status = "REJECTED", ![i].code = NoCode]
  /\ Goes(p, Idle)
  /\ UNCHANGED <<admins, enrollment, calls, asked, approved>>

Again(c) == IF c.left = 1 THEN Idle ELSE [c EXCEPT !.left = @ - 1]

(* The unique index refuses the code and the transaction is undone.          *)
CodeConflicts(p, c) ==
  /\ call[p].op = "respond" /\ call[p].verdict = "APPROVED"
  /\ Respondable(call[p].name) /\ Taken(c)
  /\ Goes(p, Again(call[p]))
  /\ UNCHANGED <<inst, admins, enrollment, calls, asked, approved>>

RespondRefused(p) ==
  /\ call[p].op = "respond" /\ ~Respondable(call[p].name)
  /\ Goes(p, Idle)
  /\ UNCHANGED <<inst, admins, enrollment, calls, asked, approved>>

-----------------------------------------------------------------------------
Upsert(i, u, status) == [op |-> "upsert", name |-> i, user |-> u, status |-> status,
                         read |-> enrollment[i][u]]

(* enroll, up to its write.  PAID without payment only answers what to do.   *)
Enrollable(i, u) == Active(i) /\ enrollment[i][u] \notin {"ACTIVE", "PENDING"}
EnrolsAs == [FREE |-> "ACTIVE", PAID |-> "ACTIVE", INVITE_ONLY |-> "PENDING"]

Enroll(p, i, u) ==
  /\ Enrollable(i, u)
  /\ Begins(p, Upsert(i, u, EnrolsAs[TypeOf[i]]))
  /\ asked' = [asked EXCEPT ![i] = @ \cup {u}]
  /\ UNCHANGED <<inst, admins, enrollment, approved>>

(* processDummyPayment also takes one whose request is pending.              *)
Pay(p, i, u) ==
  /\ Active(i) /\ TypeOf[i] = "PAID" /\ enrollment[i][u] # "ACTIVE"
  /\ Begins(p, Upsert(i, u, "ACTIVE"))
  /\ asked' = [asked EXCEPT ![i] = @ \cup {u}]
  /\ UNCHANGED <<inst, admins, enrollment, approved>>

(* reviewEnrollmentRequest, up to its write.                                 *)
MayReview_Anyone(i, a) == TRUE
MayReview(i, a) == a \in GlobalAdmin \/ a = inst[i].createdBy \/ a \in admins[i]

Reviewable(i, u) == enrollment[i][u] = "PENDING"

Review(p, a, i, u, decision) ==
  /\ inst[i] # Absent /\ MayReview(i, a) /\ Reviewable(i, u)
  /\ Begins(p, Upsert(i, u, IF decision = "APPROVED" THEN "ACTIVE" ELSE "CANCELLED"))
  /\ approved' = [approved EXCEPT ![i] =
       IF decision = "APPROVED" /\ a \in GlobalAdmin \cup admins[i] THEN @ \cup {u} ELSE @]
  /\ UNCHANGED <<inst, admins, enrollment, asked>>

Writes(p) ==
  /\ call[p].op = "upsert"
  /\ enrollment' = [enrollment EXCEPT ![call[p].name][call[p].user] = call[p].status]
  /\ Goes(p, Idle)
  /\ UNCHANGED <<inst, admins, calls, asked, approved>>

CallFails(p) ==
  /\ call[p] # Idle
  /\ Goes(p, Idle)
  /\ UNCHANGED <<inst, admins, enrollment, calls, asked, approved>>

Next ==
  \/ \E i \in Name, u \in User : Register(i, u)
  \/ \E p \in Proc :
       \/ \E i \in Name, v \in {"APPROVED", "REJECTED"} : Respond(p, i, v)
       \/ \E c \in Code : Approves(p, c) \/ CodeConflicts(p, c)
       \/ Rejects(p) \/ RespondRefused(p)
       \/ \E i \in Name, u \in User :
            \/ Enroll(p, i, u) \/ Pay(p, i, u)
            \/ \E a \in User, d \in {"APPROVED", "REJECTED"} : Review(p, a, i, u, d)
       \/ Writes(p) \/ CallFails(p)

Spec == Init /\ [][Next]_vars
-----------------------------------------------------------------------------
InstRow == {Absent} \cup [status : {"PENDING_APPROVAL", "ACTIVE", "REJECTED"},
                          createdBy : User, code : Code \cup {NoCode}]
Status == {"NONE", "PENDING", "ACTIVE", "CANCELLED"}
CallType ==
  {Idle}
  \cup [op : {"respond"}, name : Name, verdict : {"APPROVED", "REJECTED"}, left : 1..Tries]
  \cup [op : {"upsert"}, name : Name, user : User, status : Status, read : Status]

(* Rows and handlers are well-formed; a response never draws more codes than *)
(* it may (`left' stays positive).                                           *)
TypeOK ==
  /\ inst \in [Name -> InstRow]
  /\ admins \in [Name -> SUBSET User]
  /\ enrollment \in [Name -> [User -> Status]]
  /\ call \in [Proc -> CallType] /\ calls \in Nat
  /\ asked \in [Name -> SUBSET User] /\ approved \in [Name -> SUBSET User]

(* An institution that went live has a code of its own and its creator as    *)
(* administrator, and any other has neither: the decision, the code and the  *)
(* administrator are one transaction, also when codes collide.               *)
ApprovedComplete ==
  \A i \in Name :
    /\ Active(i) => /\ inst[i].code # NoCode /\ inst[i].createdBy \in admins[i]
                    /\ \A j \in Name \ {i} : ~(Active(j) /\ inst[j].code = inst[i].code)
    /\ ~Active(i) => admins[i] = {} /\ (inst[i] = Absent \/ inst[i].code = NoCode)

(* Two administrators may answer the same application: the first decides and *)
(* nothing of its decision is changed by the other.                          *)
DecidedOnce ==
  \A i \in Name : inst[i].status \in {"ACTIVE", "REJECTED"} => inst'[i] = inst[i]

(* A member asked (or paid) and, where the institution says so, was approved *)
(* by one of its administrators, of an institution that is live.             *)
MembersAdmitted ==
  \A i \in Name, u \in User : enrollment[i][u] = "ACTIVE" =>
    Active(i) /\ u \in asked[i] /\ (TypeOf[i] = "INVITE_ONLY" => u \in approved[i])

(* Membership is only lost to a handler that read the row before it became   *)
(* ACTIVE (a second request or a second decision under way at the time):     *)
(* nobody takes it from somebody he can see is a member.                     *)
LostOnlyToRace ==
  \A i \in Name, u \in User :
    enrollment[i][u] = "ACTIVE" /\ enrollment'[i][u] # "ACTIVE"
      => \E p \in Proc : call[p].op = "upsert" /\ call'[p] = Idle /\ call[p].read # "ACTIVE"

(* What was decided stands: the application and, but for races, membership.  *)
DecisionsStand == [][DecidedOnce /\ LostOnlyToRace]_vars

-----------------------------------------------------------------------------
(* What a row of enrollments, and a handler about to write one, rest on.     *)
Earned(i, u, status) ==
  /\ Active(i) /\ u \in asked[i]
  /\ status = "ACTIVE" /\ TypeOf[i] = "INVITE_ONLY" => u \in approved[i]

CallOK ==
  \A p \in Proc : call[p].op = "upsert" =>
    /\ Earned(call[p].name, call[p].user, call[p].status)
    /\ call[p].status # "ACTIVE" => call[p].read # "ACTIVE"

(* The inductive invariant: an institution stays live and what a user asked  *)
(* or was approved for stays on record, so that what a handler read before   *)
(* its upsert, which has no condition, still holds when it writes.           *)
Inv ==
  /\ TypeOK /\ ApprovedComplete /\ CallOK
  /\ \A i \in Name, u \in User : enrollment[i][u] # "NONE" => Earned(i, u, enrollment[i][u])
=============================================================================
