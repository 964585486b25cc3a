---------------------------- MODULE SessionProofs ----------------------------
(* Proofs about Session for every value of its constants.                    *)
EXTENDS Session, FiniteSetTheorems, TLAPS

(* What a call holds follows from its op.                                    *)
LEMMA CallType ==
  ASSUME NEW c \in Call
  PROVE  /\ c.op = "rotate" => c \in RotateCall
         /\ c.op \in {"rotated", "revoke", "revoked"} => c \in SessionCall
         /\ c.op \in {"revokeUser", "deleteUser", "clearUser"} => c \in UserCall
         /\ c.op = "lookup" => c \in LookupCall
         /\ c.op = "found" => c \in FoundCall
  BY DEF Call, Idle, RotateCall, SessionCall, UserCall, LookupCall, FoundCall

(* A row that exists has all its fields.                                     *)
LEMMA RowType ==
  ASSUME TypeOK, NEW s \in SessionId, Exists(s) PROVE session[s] \in Row
  BY DEF TypeOK, Exists, NoSession

(* Invalidating makes lookups stale and empties cache entries, no more.      *)
LEMMA InvalidateFacts ==
  ASSUME TypeOK, NEW p \in Proc, NEW i \in Instance, NEW S, Invalidate(p, i, S)
  PROVE  /\ call' \in [Proc -> Call] /\ cache' \in [Instance -> [SessionId -> Nat]]
         /\ call'[p] = Idle
         /\ \A j \in Instance, s \in SessionId :
              cache'[j][s] = IF j = i /\ s \in S THEN Absent ELSE cache[j][s]
         /\ \A q \in Proc : q # p =>
              IF call[q].op \in {"lookup", "found"} /\ call[q].at = i
              THEN call'[q] = [call[q] EXCEPT !.fresh = FALSE] ELSE call'[q] = call[q]
  <1>1. ASSUME NEW q \in Proc, call[q].op \in {"lookup", "found"}
        PROVE [call[q] EXCEPT !.fresh = FALSE] \in Call
    <2>1. call[q] \in LookupCall \/ call[q] \in FoundCall
      BY <1>1, CallType DEF TypeOK
    <2>2. CASE call[q] \in LookupCall
      BY <2>2 DEF LookupCall, Call
    <2>3. CASE call[q] \in FoundCall
      BY <2>3 DEF FoundCall, Call
    <2> QED BY <2>1, <2>2, <2>3
  <1>2. call' \in [Proc -> Call]
    BY <1>1 DEF TypeOK, Invalidate, Call
  <1>3. cache' \in [Instance -> [SessionId -> Nat]]
    BY DEF TypeOK, Invalidate, Absent
  <1>4. \A j \in Instance, s \in SessionId :
          cache'[j][s] = IF j = i /\ s \in S THEN Absent ELSE cache[j][s]
    BY DEF TypeOK, Invalidate
  <1>5. /\ call'[p] = Idle
        /\ \A q \in Proc : q # p =>
              IF call[q].op \in {"lookup", "found"} /\ call[q].at = i
              THEN call'[q] = [call[q] EXCEPT !.fresh = FALSE] ELSE call'[q] = call[q]
    BY DEF Invalidate
  <1> QED BY <1>2, <1>3, <1>4, <1>5

(* The initial state has the types.                                          *)
LEMMA TypeInit == Init => TypeOK
  BY DEF Init, TypeOK, Exists, NoSession, Call, Absent, Unset

(* Every action keeps the types.                                             *)
LEMMA TypeNext == TypeOK /\ [Next]_vars => TypeOK'
  <1> SUFFICES ASSUME TypeOK, [Next]_vars PROVE TypeOK'  OBVIOUS
  <1> USE DEF TypeOK
  <1>idle. Idle \in Call  BY DEF Call
  <1>1. ASSUME NEW s \in SessionId, Create(s) PROVE TypeOK'
    <2>1. PICK t \in Family(s) :
            /\ token' = [token EXCEPT ![t] = "unused"]
            /\ session' = [session EXCEPT ![s] = [token |-> t, revoked |-> FALSE,
                                                  expiresAt |-> clock + RefreshTtl]]
      BY <1>1 DEF Create
    <2>2. [token |-> t, revoked |-> FALSE, expiresAt |-> clock + RefreshTtl] \in Row
      BY SessionAssumption DEF Row, Family
    <2>3. session' \in [SessionId -> Row \cup {NoSession}]  BY <2>1, <2>2
    <2>4. \A r \in SessionId : Exists(r)' => session'[r].token \in Family(r)
      BY <2>1 DEF Exists
    <2> QED BY <1>1, <2>1, <2>3, <2>4 DEF Create, Family
  <1>2. ASSUME NEW p \in Proc, NEW i \in Instance, NEW t \in Token, RotateReads(p, i, t)
        PROVE TypeOK'
    BY <1>2 DEF RotateReads, Become, Call, RotateCall, Exists
  <1>3. ASSUME NEW p \in Proc, NEW i \in Instance, NEW t \in Token,
               RotateDetectsReuse(p, i, t)
        PROVE TypeOK'
    BY <1>3, SessionAssumption DEF RotateDetectsReuse, Become, Call, SessionCall, Exists
  <1>4. ASSUME NEW p \in Proc, NEW i \in Instance, NEW t \in Token, RotateRefuses(p, i, t)
        PROVE TypeOK'
    BY <1>4, InvalidateFacts DEF RotateRefuses, Exists
  <1>5. ASSUME NEW p \in Proc, RotateCommits(p) PROVE TypeOK'
    <2>1. call[p] \in RotateCall  BY <1>5, CallType DEF RotateCommits
    <2>2. PICK s \in SessionId, i \in Instance, t \in Token :
            s = FamilyOf[call[p].token] /\ i = call[p].at /\ t = call[p].token
      BY <2>1, SessionAssumption DEF RotateCall
    <2>3. PICK n \in NextToken(s) :
            /\ token' = [token EXCEPT ![t] = "used", ![n] = "unused"]
            /\ session' = [session EXCEPT ![s].token = n]
            /\ call' = [call EXCEPT ![p] = [op |-> "rotated", at |-> i, session |-> s]]
            /\ Live(s)
      BY <1>5, <2>2 DEF RotateCommits, MovesOn, Become
    <2>4. n \in Token /\ n \in Family(s)  BY DEF NextToken, Family
    <2>5. session[s] \in Row  BY <2>3, RowType DEF Live
    <2>6. session' \in [SessionId -> Row \cup {NoSession}]
      BY <2>3, <2>4, <2>5 DEF Row
    <2>7. \A r \in SessionId : Exists(r)' => session'[r].token \in Family(r)
      BY <2>3, <2>4, <2>5 DEF Exists, Row
    <2>8. call' \in [Proc -> Call]  BY <2>3 DEF Call, SessionCall
    <2> QED BY <1>5, <2>3, <2>4, <2>6, <2>7, <2>8 DEF RotateCommits
  <1>6. ASSUME NEW p \in Proc, RotateLoses(p) PROVE TypeOK'
    <2>1. call[p] \in RotateCall  BY <1>6, CallType DEF RotateLoses
    <2>2. call' \in [Proc -> Call]
      BY <1>6, <2>1, SessionAssumption DEF RotateLoses, Become, Call, RotateCall, SessionCall
    <2>3. token' \in [Token -> {"none", "unused", "used"}]
      BY <1>6, <2>1 DEF RotateLoses, RotateCall
    <2> QED BY <1>6, <2>2, <2>3 DEF RotateLoses, Exists
  <1>7. ASSUME NEW p \in Proc, RotateReturns(p) PROVE TypeOK'
    <2>1. call[p].at \in Instance
      BY <1>7, CallType DEF RotateReturns, SessionCall
    <2> QED BY <1>7, <2>1, InvalidateFacts DEF RotateReturns, Exists
  <1>8. ASSUME NEW p \in Proc, NEW i \in Instance, NEW s \in SessionId, Logout(p, i, s)
        PROVE TypeOK'
    BY <1>8 DEF Logout, Become, Call, SessionCall, Exists
  <1>9. ASSUME NEW p \in Proc, RevokeCommits(p) PROVE TypeOK'
    <2>1. call[p] \in SessionCall  BY <1>9, CallType DEF RevokeCommits
    <2>2. PICK s \in SessionId : s = call[p].session  BY <2>1 DEF SessionCall
    <2>3. session[s] \in Row  BY <1>9, <2>2, RowType DEF RevokeCommits
    <2>4. session' = [session EXCEPT ![s].revoked = TRUE]
      BY <1>9, <2>2 DEF RevokeCommits
    <2>5. session' \in [SessionId -> Row \cup {NoSession}]
      BY <2>3, <2>4 DEF Row
    <2>6. \A r \in SessionId : Exists(r)' => session'[r].token \in Family(r)
      BY <2>3, <2>4 DEF Exists, Row
    <2>7. call' \in [Proc -> Call]
      BY <1>9, <2>1 DEF RevokeCommits, Call, SessionCall
    <2>8. dead' \in [SessionId -> Nat \cup {Unset}]
      BY <1>9 DEF RevokeCommits, Buries
    <2> QED BY <1>9, <2>5, <2>6, <2>7, <2>8 DEF RevokeCommits
  <1>10. ASSUME NEW p \in Proc, RevokeMisses(p) PROVE TypeOK'
    BY <1>10, <1>idle DEF RevokeMisses, Finish, Become, Exists
  <1>11. ASSUME NEW p \in Proc, RevokeReturns(p) PROVE TypeOK'
    <2>1. call[p].at \in Instance /\ call[p].session \in SessionId
      BY <1>11, CallType DEF RevokeReturns, SessionCall
    <2>2. barred' \in [Instance -> SUBSET SessionId]
      BY <1>11, <2>1 DEF RevokeReturns
    <2> QED BY <1>11, <2>1, <2>2, InvalidateFacts DEF RevokeReturns, Exists
  <1>12. ASSUME NEW p \in Proc, NEW i \in Instance, NEW u \in User, RevokeForUser(p, i, u)
        PROVE TypeOK'
    BY <1>12 DEF RevokeForUser, Become, Call, UserCall, Exists
  <1>13. ASSUME NEW p \in Proc, RevokesUser(p) PROVE TypeOK'
    <2>1. call[p] \in UserCall  BY <1>13, CallType DEF RevokesUser
    <2>2. call' \in [Proc -> Call]
      BY <1>13, <2>1 DEF RevokesUser, Call, UserCall
    <2>3. \A s \in SessionId : \/ session'[s] = session[s]
                               \/ Exists(s) /\ session'[s] = [session[s] EXCEPT !.revoked = TRUE]
      BY <1>13 DEF RevokesUser, Live
    <2>4. \A s \in SessionId : session'[s] \in Row \cup {NoSession}
      BY <2>3, RowType DEF Row
    <2>5. session' \in [SessionId -> Row \cup {NoSession}]
      BY <1>13, <2>4 DEF RevokesUser
    <2>6. \A s \in SessionId : Exists(s)' => session'[s].token \in Family(s)
      BY <2>3, RowType DEF Exists, Row
    <2>7. dead' \in [SessionId -> Nat \cup {Unset}]
      BY <1>13 DEF RevokesUser, Buries
    <2> QED BY <1>13, <2>2, <2>5, <2>6, <2>7 DEF RevokesUser
  <1>14. ASSUME NEW p \in Proc, DeletesUser(p) PROVE TypeOK'
    <2>1. call[p] \in UserCall  BY <1>14, CallType DEF DeletesUser
    <2>2. call' \in [Proc -> Call]
      BY <1>14, <2>1 DEF DeletesUser, Call, UserCall
    <2>3. \A s \in SessionId : session'[s] = session[s] \/ session'[s] = NoSession
      BY <1>14 DEF DeletesUser
    <2>4. session' \in [SessionId -> Row \cup {NoSession}]
      BY <1>14, <2>3 DEF DeletesUser
    <2>5. \A s \in SessionId : Exists(s)' => session'[s].token \in Family(s)
      BY <2>3 DEF Exists, NoSession
    <2>6. dead' \in [SessionId -> Nat \cup {Unset}]
      BY <1>14 DEF DeletesUser, Buries
    <2> QED BY <1>14, <2>2, <2>4, <2>5, <2>6 DEF DeletesUser
  <1>15. ASSUME NEW p \in Proc, ClearsUser(p) PROVE TypeOK'
    <2>1. call[p].at \in Instance
      BY <1>15, CallType DEF ClearsUser, UserCall
    <2>2. barred' \in [Instance -> SUBSET SessionId]
      BY <1>15, <2>1 DEF ClearsUser, Of
    <2> QED BY <1>15, <2>1, <2>2, InvalidateFacts DEF ClearsUser, Exists
  <1>16. ASSUME NEW p \in Proc, NEW i \in Instance, NEW s \in SessionId, Lookup(p, i, s)
        PROVE TypeOK'
    BY <1>16 DEF Lookup, Become, Call, LookupCall, Absent, Exists
  <1>17. ASSUME NEW p \in Proc, LookupFinds(p) PROVE TypeOK'
    <2>1. call[p] \in LookupCall  BY <1>17, CallType DEF LookupFinds
    <2>2. session[call[p].session].expiresAt \in Nat
      BY <1>17, <2>1, RowType DEF LookupFinds, Active, Live, LookupCall, Row
    <2>3. call' \in [Proc -> Call]
      BY <1>17, <2>1, <2>2 DEF LookupFinds, Become, Call, LookupCall, FoundCall
    <2> QED BY <1>17, <2>3 DEF LookupFinds, Exists
  <1>18. ASSUME NEW p \in Proc, LookupMisses(p) PROVE TypeOK'
    BY <1>18, <1>idle DEF LookupMisses, Finish, Become, Exists
  <1>19. ASSUME NEW p \in Proc, LookupReturns(p) PROVE TypeOK'
    <2>1. call[p] \in FoundCall  BY <1>19, CallType DEF LookupReturns
    <2>2. PICK i \in Instance, s \in SessionId, u \in Nat :
            i = call[p].at /\ s = call[p].session /\ u = Until(call[p])
      BY <2>1, SessionAssumption DEF FoundCall, Until
    <2>3. Caches(i, s, u) \/ cache' = cache
      BY <1>19, <2>2 DEF LookupReturns
    <2>4. ASSUME NEW r \in SessionId,
                 cache' = [cache EXCEPT ![i][r] = Absent, ![i][s] = u]
          PROVE cache' \in [Instance -> [SessionId -> Nat]]
      BY <2>4 DEF Absent
    <2>5. cache' \in [Instance -> [SessionId -> Nat]]
      BY <2>3, <2>4 DEF Caches, Cached
    <2> QED BY <1>19, <1>idle, <2>5 DEF LookupReturns, Finish, Become, Exists
  <1>20. ASSUME ClockTicks PROVE TypeOK'
    BY <1>20 DEF ClockTicks, Exists
  <1>21. ASSUME NEW u \in User, ChangeStatus(u) PROVE TypeOK'
    BY <1>21 DEF ChangeStatus, Exists
  <1>22. ASSUME NEW p \in Proc, CallFails(p) PROVE TypeOK'
    BY <1>22, <1>idle DEF CallFails, Finish, Become, Exists
  <1>23. ASSUME NEW i \in Instance, Restart(i) PROVE TypeOK'
    BY <1>23, <1>idle DEF Restart, Absent, Exists
  <1>24. ASSUME UNCHANGED vars PROVE TypeOK'
    BY <1>24 DEF vars, Exists
  <1> QED BY <1>1, <1>2, <1>3, <1>4, <1>5, <1>6, <1>7, <1>8, <1>9, <1>10, <1>11, <1>12,
             <1>13, <1>14, <1>15, <1>16, <1>17, <1>18, <1>19, <1>20, <1>21, <1>22,
             <1>23, <1>24 DEF Next, Rotate, Revoke, Authenticate

(* Rows, calls and caches always have the types TypeOK gives them.           *)
THEOREM TypeCorrect == Spec => []TypeOK
  BY TypeInit, TypeNext, PTL DEF Spec
-----------------------------------------------------------------------------
(* What time and every step do to the rows: a death is final and dated by the*)
(* clock, a row's expiresAt stays, and a deleted row never returns.          *)
Aged ==
  /\ clock' \in Nat /\ clock <= clock'
  /\ \A s \in SessionId :
       /\ dead[s] # Unset => dead'[s] = dead[s]
       /\ dead[s] = Unset => dead'[s] \in {Unset, clock}
       /\ Exists(s) /\ Exists(s)' => session'[s].expiresAt = session[s].expiresAt
       /\ Exists(s) /\ ~Exists(s)' => dead'[s] # Unset
       /\ ~Exists(s) /\ Exists(s)' => dead[s] = Unset

(* What an untouched call knows stays true.                                  *)
LEMMA CallStays ==
  ASSUME Inv, Aged, NEW q \in Proc, call'[q] = call[q],
         \/ call[q].op # "found"
         \/ barred'[call[q].at] = barred[call[q].at]
  PROVE  CallOK(q)'
  <1> DEFINE c == call[q]
  <1>1. c \in Call /\ CallOK(q)  BY DEF Inv, TypeOK
  <1>2. ASSUME c.op = "rotate"
        PROVE IF Exists(FamilyOf[c.token])'
              THEN session'[FamilyOf[c.token]].expiresAt > c.now
              ELSE dead'[FamilyOf[c.token]] # Unset
    <2>1. PICK s \in SessionId : s = FamilyOf[c.token]
      BY <1>1, <1>2, CallType, SessionAssumption DEF RotateCall
    <2>2. IF Exists(s) THEN session[s].expiresAt > c.now ELSE dead[s] # Unset
      BY <1>1, <1>2, <2>1 DEF CallOK
    <2>3. IF Exists(s)' THEN session'[s].expiresAt > c.now ELSE dead'[s] # Unset
      BY <2>2 DEF Aged
    <2> QED BY <2>1, <2>3 DEF Exists
  <1>3. c.op = "revoked" => dead'[c.session] # Unset
    BY <1>1, CallType DEF CallOK, SessionCall, Aged
  <1>4. c.op \in {"lookup", "found"} => c.now <= clock'
    <2>1. c.op \in {"lookup", "found"} => c.now \in Nat /\ c.now <= clock
      BY <1>1, CallType DEF CallOK, LookupCall, FoundCall
    <2>2. clock \in Nat /\ clock <= clock'  BY DEF Inv, TypeOK, Aged
    <2> QED BY <2>1, <2>2 DEF Aged
  <1>5. ASSUME c.op = "found"
        PROVE /\ dead'[c.session] # Unset => c.now <= dead'[c.session]
              /\ c.fresh => c.session \notin barred'[c.at]
    <2>1. c.session \in SessionId /\ c.now <= clock
      BY <1>1, <1>5, CallType DEF CallOK, FoundCall
    <2>2. /\ dead[c.session] # Unset => c.now <= dead[c.session]
          /\ c.fresh => c.session \notin barred[c.at]
      BY <1>1, <1>5 DEF CallOK
    <2>3. barred'[c.at] = barred[c.at]  BY <1>5
    <2>4. dead'[c.session] # Unset => c.now <= dead'[c.session]
      BY <2>1, <2>2 DEF Aged
    <2> QED BY <2>2, <2>3, <2>4
  <1> QED BY <1>2, <1>3, <1>4, <1>5 DEF CallOK, Exists

(* So does what a lookup knows when it is made stale.                        *)
LEMMA StaleStays ==
  ASSUME Inv, Aged, NEW q \in Proc, call[q].op \in {"lookup", "found"},
         call'[q] = [call[q] EXCEPT !.fresh = FALSE]
  PROVE  CallOK(q)'
  <1> DEFINE c == call[q]
  <1>1. c \in Call /\ CallOK(q)  BY DEF Inv, TypeOK
  <1>2. c \in LookupCall \/ c \in FoundCall  BY <1>1, CallType
  <1>3. /\ call'[q].op = c.op /\ call'[q].session = c.session /\ call'[q].now = c.now
        /\ call'[q].fresh = FALSE /\ c.session \in SessionId /\ c.now \in Nat
    <2>1. CASE c \in LookupCall  BY <2>1 DEF LookupCall
    <2>2. CASE c \in FoundCall  BY <2>2 DEF FoundCall
    <2> QED BY <1>2, <2>1, <2>2
  <1>4. c.now <= clock /\ clock \in Nat /\ clock <= clock' /\ clock' \in Nat
    BY <1>1 DEF CallOK, Inv, TypeOK, Aged
  <1>5. c.op = "found" /\ dead'[c.session] # Unset => c.now <= dead'[c.session]
    BY <1>1, <1>3, <1>4 DEF CallOK, Aged
  <1> QED BY <1>3, <1>4, <1>5 DEF CallOK, Aged

(* Caches that only lose entries stay as honest as they were.                *)
LEMMA CachesStay ==
  ASSUME Inv, TypeOK', Aged, barred' = barred,
         \A i \in Instance, s \in SessionId : cache'[i][s] \in {cache[i][s], Absent}
  PROVE  CachesOK' /\ BarredStaysOut' /\ StaleAtMostTtl'
  <1>1. /\ AccessTtl \in Nat /\ clock \in Nat /\ clock' \in Nat
        /\ cache \in [Instance -> [SessionId -> Nat]]
        /\ dead \in [SessionId -> Nat \cup {Unset}] /\ barred \in [Instance -> SUBSET SessionId]
    BY SessionAssumption DEF Inv, TypeOK
  <1>2. CachesOK'
    <2>1. \A i \in Instance, s \in SessionId : cache'[i][s] <= clock' + AccessTtl
      BY <1>1 DEF Inv, CachesOK, Aged, Absent
    <2>2. \A i \in Instance : \A s \in barred[i] : s \in SessionId /\ dead[s] # Unset
      BY <1>1 DEF Inv, CachesOK
    <2>3. \A i \in Instance : \A s \in barred'[i] : dead'[s] # Unset
      BY <2>2 DEF Aged
    <2> QED BY <2>1, <2>3 DEF CachesOK
  <1>3. BarredStaysOut'
    BY <1>1 DEF Inv, BarredStaysOut
  <1>4. StaleAtMostTtl'
    <2> SUFFICES ASSUME NEW i \in Instance, NEW s \in SessionId, dead'[s] # Unset
                 PROVE cache'[i][s] <= dead'[s] + AccessTtl
      BY DEF StaleAtMostTtl
    <2>1. CASE dead[s] # Unset
      BY <1>1, <2>1 DEF Inv, StaleAtMostTtl, Aged, Absent, Unset
    <2>2. CASE dead[s] = Unset
      BY <1>1, <2>2 DEF Inv, CachesOK, Aged, Absent, Unset
    <2> QED BY <2>1, <2>2
  <1> QED BY <1>2, <1>3, <1>4

(* Rows that are left alone are as they were.                                *)
LEMMA RowsStay ==
  ASSUME Inv, TypeOK', session' = session, token' = token, dead' = dead, clock <= clock'
  PROVE  Aged /\ RowsOK' /\ OneUsableToken'
  <1>1. Aged  BY DEF Aged, Exists, TypeOK
  <1>2. RowsOK'
    <2>1. \A s \in SessionId : dead[s] \in Nat \cup {Unset}  BY DEF Inv, TypeOK
    <2>2. clock \in Nat /\ clock' \in Nat  BY DEF Inv, TypeOK
    <2> QED BY <2>1, <2>2 DEF Inv, RowsOK, Live, Exists, Unset
  <1>3. OneUsableToken'
    BY DEF Inv, OneUsableToken, Live, Exists
  <1> QED BY <1>1, <1>2, <1>3

(* A step of call p that revokes nothing for good.                           *)
LEMMA StepKeepsInv ==
  ASSUME Inv, TypeOK', Aged, RowsOK', OneUsableToken',
         CachesOK', BarredStaysOut', StaleAtMostTtl', barred' = barred,
         NEW p \in Proc, \A q \in Proc : q # p => call'[q] = call[q], CallOK(p)'
  PROVE  Inv'
  <1>1. \A q \in Proc : CallOK(q)'  BY CallStays
  <1> QED BY <1>1 DEF Inv

(* A step of call p that does nothing but move the call.                     *)
LEMMA CallMoves ==
  ASSUME Inv, TypeOK', UNCHANGED <<session, token, dead, clock, cache, barred>>,
         NEW p \in Proc, \A q \in Proc : q # p => call'[q] = call[q], CallOK(p)'
  PROVE  Inv'
  <1>1. clock <= clock'  BY DEF Inv, TypeOK
  <1>2. Aged /\ RowsOK' /\ OneUsableToken'  BY <1>1, RowsStay
  <1>3. CachesOK' /\ BarredStaysOut' /\ StaleAtMostTtl'  BY <1>2, CachesStay
  <1> QED BY <1>2, <1>3, StepKeepsInv

(* A call that ends, or that has yet to do anything, knows nothing.          *)
LEMMA NothingKnown ==
  ASSUME NEW q \in Proc, call'[q].op \notin {"rotate", "revoked", "lookup", "found"}
  PROVE  CallOK(q)'
  BY DEF CallOK

(* Invalidating S on instance i, and barring dead sessions D of S there.     *)
LEMMA InvalidateInv ==
  ASSUME Inv, TypeOK', NEW p \in Proc, NEW i \in Instance, NEW S, Invalidate(p, i, S),
         UNCHANGED <<session, token, dead, clock>>,
         NEW D, \A s \in D : s \in S /\ s \in SessionId /\ dead[s] # Unset,
         \A j \in Instance : barred'[j] = IF j = i THEN barred[j] \cup D ELSE barred[j]
  PROVE  Inv'
  <1>t. TypeOK  BY DEF Inv
  <1>1. clock <= clock'  BY DEF Inv, TypeOK
  <1>2. Aged /\ RowsOK' /\ OneUsableToken'  BY <1>1, RowsStay
  <1>3. \A j \in Instance, s \in SessionId :
          cache'[j][s] = IF j = i /\ s \in S THEN Absent ELSE cache[j][s]
    BY <1>t, InvalidateFacts
  <1>4. /\ AccessTtl \in Nat /\ clock \in Nat
        /\ cache \in [Instance -> [SessionId -> Nat]]
        /\ dead \in [SessionId -> Nat \cup {Unset}] /\ barred \in [Instance -> SUBSET SessionId]
    BY SessionAssumption, <1>t DEF TypeOK
  <1>5. CachesOK'
    <2>1. \A j \in Instance, s \in SessionId : cache'[j][s] <= clock' + AccessTtl
      BY <1>3, <1>4 DEF Inv, CachesOK, Absent
    <2>2. \A j \in Instance : \A s \in barred[j] : dead[s] # Unset
      BY DEF Inv, CachesOK
    <2>3. \A j \in Instance : \A s \in barred'[j] : dead'[s] # Unset
      BY <2>2
    <2> QED BY <2>1, <2>3 DEF CachesOK
  <1>6. BarredStaysOut'
    <2> SUFFICES ASSUME NEW j \in Instance, NEW s \in barred'[j]
                 PROVE cache'[j][s] = Absent
      BY DEF BarredStaysOut
    <2>1. CASE s \in barred[j]
      <3>1. s \in SessionId /\ cache[j][s] = Absent
        BY <1>4, <2>1 DEF Inv, BarredStaysOut
      <3> QED BY <1>3, <3>1
    <2>2. CASE s \notin barred[j]
      BY <1>3, <2>2
    <2> QED BY <2>1, <2>2
  <1>7. StaleAtMostTtl'
    BY <1>3, <1>4 DEF Inv, StaleAtMostTtl, Absent, Unset
  <1>c. /\ call'[p] = Idle
        /\ \A q \in Proc : q # p =>
              IF call[q].op \in {"lookup", "found"} /\ call[q].at = i
              THEN call'[q] = [call[q] EXCEPT !.fresh = FALSE] ELSE call'[q] = call[q]
    BY <1>t, InvalidateFacts
  <1>8. ASSUME NEW q \in Proc PROVE CallOK(q)'
    <2>1. CASE q = p
      <3>1. call'[q] = Idle  BY <1>c, <2>1
      <3> QED BY <3>1, NothingKnown DEF Idle
    <2>2. CASE q # p /\ call[q].op \in {"lookup", "found"} /\ call[q].at = i
      <3>1. call'[q] = [call[q] EXCEPT !.fresh = FALSE]
        BY <1>c, <2>2
      <3> QED BY <1>2, <2>2, <3>1, StaleStays
    <2>3. CASE q # p /\ ~(call[q].op \in {"lookup", "found"} /\ call[q].at = i)
      <3>1. call'[q] = call[q]
        BY <1>c, <2>3
      <3>2. call[q].op = "found" => call[q].at \in Instance /\ call[q].at # i
        BY <1>t, <2>3, CallType DEF TypeOK, FoundCall
      <3> QED BY <1>2, <3>1, <3>2, CallStays
    <2> QED BY <2>1, <2>2, <2>3
  <1> QED BY <1>2, <1>5, <1>6, <1>7, <1>8 DEF Inv
(* Invalidating alone.                                                       *)
LEMMA InvalidateOnly ==
  ASSUME Inv, TypeOK', NEW p \in Proc, NEW i \in Instance, NEW S, Invalidate(p, i, S),
         UNCHANGED <<session, token, dead, clock, barred>>
  PROVE  Inv'
  <1> DEFINE D == {}
  <1>1. \A s \in D : s \in S /\ s \in SessionId /\ dead[s] # Unset  OBVIOUS
  <1>2. \A j \in Instance : barred'[j] = IF j = i THEN barred[j] \cup D ELSE barred[j]
    OBVIOUS
  <1> HIDE DEF D
  <1> QED BY <1>1, <1>2, InvalidateInv
-----------------------------------------------------------------------------
(* The initial state satisfies the inductive invariant.                      *)
LEMMA InvInit == Init => Inv
  <1> SUFFICES ASSUME Init PROVE Inv  OBVIOUS
  <1>1. TypeOK  BY TypeInit
  <1>2. RowsOK /\ OneUsableToken
    BY DEF Init, RowsOK, OneUsableToken, Live, Exists, NoSession, Family, Unset
  <1>3. CachesOK /\ BarredStaysOut /\ StaleAtMostTtl
    BY SessionAssumption DEF Init, CachesOK, BarredStaysOut, StaleAtMostTtl, Absent
  <1>4. \A p \in Proc : CallOK(p)
    BY DEF Init, CallOK, Idle
  <1> QED BY <1>1, <1>2, <1>3, <1>4 DEF Inv

(* Every step of a refresh keeps the inductive invariant.                    *)
LEMMA RotateInv ==
  ASSUME Inv, TypeOK', NEW p \in Proc, Rotate(p) PROVE Inv'
  <1>t. TypeOK  BY DEF Inv
  <1>1. ASSUME NEW i \in Instance, NEW t \in Token, RotateReads(p, i, t) PROVE Inv'
    <2>1. PICK s \in SessionId : s = FamilyOf[t]  BY SessionAssumption
    <2>2. call'[p] = [op |-> "rotate", at |-> i, token |-> t, now |-> clock]
      BY <1>1, <1>t DEF RotateReads, Become, TypeOK
    <2>3. Exists(s)' /\ session'[s].expiresAt > clock
      BY <1>1, <2>1 DEF RotateReads, Renewable, Live, Exists
    <2>4. CallOK(p)'
      BY <2>1, <2>2, <2>3 DEF CallOK, Exists
    <2>5. \A q \in Proc : q # p => call'[q] = call[q]
      BY <1>1, <1>t DEF RotateReads, Become, TypeOK
    <2> QED BY <1>1, <2>4, <2>5, CallMoves DEF RotateReads
  <1>2. ASSUME NEW i \in Instance, NEW t \in Token, RotateDetectsReuse(p, i, t) PROVE Inv'
    <2>1. CallOK(p)'
      BY <1>2, <1>t, NothingKnown DEF RotateDetectsReuse, Become, TypeOK
    <2>2. \A q \in Proc : q # p => call'[q] = call[q]
      BY <1>2, <1>t DEF RotateDetectsReuse, Become, TypeOK
    <2> QED BY <1>2, <2>1, <2>2, CallMoves DEF RotateDetectsReuse
  <1>3. ASSUME NEW i \in Instance, NEW t \in Token, RotateRefuses(p, i, t) PROVE Inv'
    BY <1>3, InvalidateOnly DEF RotateRefuses
  <1>4. ASSUME RotateCommits(p) PROVE Inv'
    <2>1. call[p] \in RotateCall  BY <1>4, <1>t, CallType DEF RotateCommits, TypeOK
    <2>2. PICK s \in SessionId, i \in Instance, t \in Token :
            s = FamilyOf[call[p].token] /\ i = call[p].at /\ t = call[p].token
      BY <2>1, SessionAssumption DEF RotateCall
    <2>3. PICK n \in NextToken(s) :
            /\ token' = [token EXCEPT ![t] = "used", ![n] = "unused"]
            /\ session' = [session EXCEPT ![s].token = n]
            /\ call' = [call EXCEPT ![p] = [op |-> "rotated", at |-> i, session |-> s]]
            /\ Live(s) /\ session[s].token = t /\ token[t] = "unused"
      BY <1>4, <2>2 DEF RotateCommits, MovesOn, Claims, Become
    <2>4. /\ n \in Token /\ n \in Family(s) /\ token[n] = "none" /\ n # t
          /\ t \in Family(s) /\ s = FamilyOf[t] /\ s = FamilyOf[n]
      BY <2>2, <2>3 DEF NextToken, Family
    <2>5. session[s] \in Row /\ Exists(s)  BY <1>t, <2>3, RowType DEF Live
    <2>6. /\ session'[s].token = n /\ session'[s].expiresAt = session[s].expiresAt
          /\ session'[s].revoked = session[s].revoked
          /\ \A r \in SessionId : r # s => session'[r] = session[r]
      BY <1>t, <2>3, <2>5 DEF TypeOK, Row
    <2>7. \A r \in SessionId : (Exists(r)' <=> Exists(r)) /\ (Live(r)' <=> Live(r))
      BY <2>4, <2>5, <2>6, SessionAssumption DEF Exists, Live
    <2>8. UNCHANGED <<cache, dead, clock, barred>> /\ clock \in Nat
      BY <1>4, <1>t DEF RotateCommits, TypeOK
    <2>9. Aged
      BY <2>6, <2>7, <2>8 DEF Aged
    <2>10. \A r \in SessionId : r # s => \A x \in Family(r) : token'[x] = token[x]
      BY <1>t, <2>3, <2>4 DEF Family, TypeOK
    <2>11. \A x \in Family(s) :
             token'[x] = IF x = n THEN "unused" ELSE IF x = t THEN "used" ELSE token[x]
      BY <1>t, <2>3, <2>4 DEF Family, TypeOK
    <2>12. {x \in Family(s) : token[x] = "unused"} = {t}
      BY <2>3 DEF Inv, OneUsableToken
    <2>13. {x \in Family(s) : token'[x] = "unused"} = {n}
      BY <2>4, <2>11, <2>12
    <2>14. OneUsableToken'
      BY <2>6, <2>7, <2>10, <2>13 DEF Inv, OneUsableToken
    <2>15. RowsOK'
      BY <2>5, <2>7, <2>8, <2>10 DEF Inv, RowsOK
    <2>16. CachesOK' /\ BarredStaysOut' /\ StaleAtMostTtl'
      BY <2>8, <2>9, CachesStay
    <2>17. CallOK(p)' /\ \A q \in Proc : q # p => call'[q] = call[q]
      BY <1>t, <2>3, NothingKnown DEF TypeOK
    <2> QED BY <2>8, <2>9, <2>14, <2>15, <2>16, <2>17, StepKeepsInv
  <1>5. ASSUME RotateLoses(p) PROVE Inv'
    <2>1. call[p] \in RotateCall /\ CallOK(p)
      BY <1>5, <1>t, CallType DEF RotateLoses, TypeOK, Inv
    <2>2. PICK s \in SessionId, i \in Instance, t \in Token :
            s = FamilyOf[call[p].token] /\ i = call[p].at /\ t = call[p].token
      BY <2>1, SessionAssumption DEF RotateCall
    <2>3. /\ UNCHANGED <<session, cache, dead, clock, barred>> /\ clock \in Nat
          /\ call' = [call EXCEPT ![p] = [op |-> "revoke", at |-> i, session |-> s]]
      BY <1>5, <1>t, <2>2 DEF RotateLoses, Become, TypeOK
    <2>4. token' = token \/ /\ token[t] = "unused" /\ ~MovesOn(call[p])
                            /\ token' = [token EXCEPT ![t] = "used"]
      BY <1>5, <2>2 DEF RotateLoses, Claims
    <2>5. ASSUME token[t] = "unused", ~MovesOn(call[p]) PROVE ~Live(s)
      <3> SUFFICES ASSUME Live(s) PROVE FALSE  OBVIOUS
      <3>1. t \in {x \in Family(s) : token[x] = "unused"}
        BY <2>2, <2>5 DEF Family
      <3>2. session[s].token = t
        BY <3>1 DEF Inv, OneUsableToken
      <3>3. session[s].expiresAt > call[p].now
        BY <1>5, <2>1, <2>2 DEF CallOK, Live, RotateLoses
      <3> QED BY <2>2, <2>5, <3>2, <3>3 DEF MovesOn
    <2>6. \A r \in SessionId : \A x \in Family(r) :
            token'[x] = token[x] \/ (~Live(r) /\ Exists(r) /\ token'[x] = "used")
      <3>1. \A x \in Token : token'[x] = token[x] \/ (x = t /\ token[t] = "unused"
                             /\ ~MovesOn(call[p]) /\ token'[x] = "used")
        BY <1>t, <2>4 DEF TypeOK
      <3>2. token[t] = "unused" => Exists(s)
        BY <2>2 DEF Inv, RowsOK, Family
      <3> QED BY <2>2, <2>5, <3>1, <3>2 DEF Family
    <2>7. Aged /\ \A r \in SessionId : (Exists(r)' <=> Exists(r)) /\ (Live(r)' <=> Live(r))
      BY <2>3 DEF Aged, Exists, Live
    <2>8. OneUsableToken'
      BY <2>3, <2>6, <2>7 DEF Inv, OneUsableToken
    <2>9. RowsOK'
      BY <2>3, <2>6, <2>7 DEF Inv, RowsOK
    <2>10. CachesOK' /\ BarredStaysOut' /\ StaleAtMostTtl'
      BY <2>3, <2>7, CachesStay
    <2>11. CallOK(p)' /\ \A q \in Proc : q # p => call'[q] = call[q]
      BY <1>t, <2>3, NothingKnown DEF TypeOK
    <2> QED BY <2>3, <2>7, <2>8, <2>9, <2>10, <2>11, StepKeepsInv
  <1>6. ASSUME RotateReturns(p) PROVE Inv'
    <2>1. PICK i \in Instance, S \in SUBSET SessionId : Invalidate(p, i, S)
      BY <1>6, <1>t, CallType DEF RotateReturns, SessionCall, TypeOK
    <2> QED BY <1>6, <2>1, InvalidateOnly DEF RotateReturns
  <1> QED BY <1>1, <1>2, <1>3, <1>4, <1>5, <1>6 DEF Rotate

(* Every step that revokes or deletes keeps the inductive invariant.         *)
LEMMA RevokeInv ==
  ASSUME Inv, TypeOK', NEW p \in Proc, Revoke(p) PROVE Inv'
  <1>t. TypeOK  BY DEF Inv
  <1>1. ASSUME NEW i \in Instance, NEW s \in SessionId, Logout(p, i, s) PROVE Inv'
    <2>1. CallOK(p)' /\ \A q \in Proc : q # p => call'[q] = call[q]
      BY <1>1, <1>t, NothingKnown DEF Logout, Become, TypeOK
    <2> QED BY <1>1, <2>1, CallMoves DEF Logout
  <1>2. ASSUME RevokeCommits(p) PROVE Inv'
    <2>1. call[p] \in SessionCall  BY <1>2, <1>t, CallType DEF RevokeCommits, TypeOK
    <2>2. PICK s \in SessionId : s = call[p].session  BY <2>1 DEF SessionCall
    <2>3. /\ Exists(s) /\ session' = [session EXCEPT ![s].revoked = TRUE]
          /\ dead' = [r \in SessionId |-> IF r = s /\ dead[r] = Unset THEN clock ELSE dead[r]]
          /\ call' = [call EXCEPT ![p].op = "revoked"]
          /\ UNCHANGED <<token, cache, clock, barred>>
      BY <1>2, <2>2 DEF RevokeCommits, Buries
    <2>4. session[s] \in Row  BY <1>t, <2>3, RowType
    <2>5. /\ session'[s].token = session[s].token /\ session'[s].revoked = TRUE
          /\ session'[s].expiresAt = session[s].expiresAt
          /\ \A r \in SessionId : r # s => session'[r] = session[r]
      BY <1>t, <2>3, <2>4 DEF TypeOK, Row
    <2>6. /\ \A r \in SessionId : (Exists(r)' <=> Exists(r)) /\ (Live(r)' => Live(r) /\ r # s)
          /\ \A r \in SessionId : r # s => dead'[r] = dead[r]
          /\ dead'[s] = IF dead[s] = Unset THEN clock ELSE dead[s]
          /\ clock \in Nat /\ clock' = clock
      BY <1>t, <2>3, <2>5 DEF Exists, Live, TypeOK
    <2>7. Aged  BY <2>5, <2>6 DEF Aged
    <2>8. OneUsableToken'
      BY <2>3, <2>5, <2>6 DEF Inv, OneUsableToken
    <2>9. RowsOK'
      <3>1. \A r \in SessionId : dead'[r] <= clock'
        BY <2>6 DEF Inv, RowsOK
      <3> QED BY <2>3, <2>6, <3>1 DEF Inv, RowsOK
    <2>10. CachesOK' /\ BarredStaysOut' /\ StaleAtMostTtl'
      BY <2>3, <2>7, CachesStay
    <2>11. \A q \in Proc : q # p => call'[q] = call[q]
      BY <1>t, <2>3 DEF TypeOK
    <2>12. CallOK(p)'
      <3>1. call'[p].op = "revoked" /\ call'[p].session = s
        BY <1>t, <2>1, <2>2, <2>3 DEF TypeOK, SessionCall
      <3>2. dead'[s] # Unset  BY <2>6 DEF Unset
      <3> QED BY <3>1, <3>2 DEF CallOK
    <2> QED BY <2>3, <2>7, <2>8, <2>9, <2>10, <2>11, <2>12, StepKeepsInv
  <1>3. ASSUME RevokeMisses(p) PROVE Inv'
    <2>1. CallOK(p)' /\ \A q \in Proc : q # p => call'[q] = call[q]
      BY <1>3, <1>t, NothingKnown DEF RevokeMisses, Finish, Become, TypeOK, Idle
    <2> QED BY <1>3, <2>1, CallMoves DEF RevokeMisses
  <1>4. ASSUME RevokeReturns(p) PROVE Inv'
    <2>1. call[p] \in SessionCall /\ CallOK(p)
      BY <1>4, <1>t, CallType DEF RevokeReturns, TypeOK, Inv
    <2>2. PICK i \in Instance, s \in SessionId : i = call[p].at /\ s = call[p].session
      BY <2>1 DEF SessionCall
    <2> DEFINE S == {s}
               D == {s}
    <2>3. Invalidate(p, i, S)
      BY <1>4, <2>2 DEF RevokeReturns
    <2>4. \A j \in Instance : barred'[j] = IF j = i THEN barred[j] \cup D ELSE barred[j]
      BY <1>4, <1>t, <2>2 DEF RevokeReturns, TypeOK
    <2>5. \A r \in D : r \in S /\ r \in SessionId /\ dead[r] # Unset
      BY <1>4, <2>1, <2>2 DEF RevokeReturns, CallOK
    <2>6. UNCHANGED <<session, token, dead, clock>>  BY <1>4 DEF RevokeReturns
    <2> HIDE DEF S, D
    <2> QED BY <2>3, <2>4, <2>5, <2>6, InvalidateInv
  <1>5. ASSUME NEW i \in Instance, NEW u \in User, RevokeForUser(p, i, u) PROVE Inv'
    <2>1. CallOK(p)' /\ \A q \in Proc : q # p => call'[q] = call[q]
      BY <1>5, <1>t, NothingKnown DEF RevokeForUser, Become, TypeOK
    <2> QED BY <1>5, <2>1, CallMoves DEF RevokeForUser
  <1>6. ASSUME RevokesUser(p) PROVE Inv'
    <2>1. call[p] \in UserCall  BY <1>6, <1>t, CallType DEF RevokesUser, TypeOK
    <2>2. PICK S \in SUBSET SessionId :
            /\ \A s \in S : Live(s)
            /\ session' = [s \in SessionId |->
                 IF s \in S THEN [session[s] EXCEPT !.revoked = TRUE] ELSE session[s]]
            /\ dead' = [s \in SessionId |->
                 IF s \in S /\ dead[s] = Unset THEN clock ELSE dead[s]]
      BY <1>6 DEF RevokesUser, Buries, Of
    <2>3. \A s \in S : session[s] \in Row  BY <1>t, <2>2, RowType DEF Live
    <2>4. \A s \in SessionId :
            /\ session'[s].token = session[s].token
            /\ s \notin S => session'[s] = session[s]
            /\ s \in S => /\ session'[s].revoked = TRUE
                          /\ session'[s].expiresAt = session[s].expiresAt
      BY <2>2, <2>3 DEF Row
    <2>5. /\ \A s \in SessionId : (Exists(s)' <=> Exists(s)) /\ (Live(s)' => Live(s) /\ s \notin S)
          /\ clock \in Nat /\ clock' = clock
          /\ UNCHANGED <<token, cache, barred>>
      BY <1>6, <1>t, <2>4 DEF Exists, Live, TypeOK, RevokesUser
    <2>6. Aged  BY <2>2, <2>4, <2>5 DEF Aged
    <2>7. OneUsableToken'
      BY <2>4, <2>5 DEF Inv, OneUsableToken
    <2>8. RowsOK'
      <3>1. \A s \in SessionId : dead'[s] <= clock'
        BY <2>2, <2>5 DEF Inv, RowsOK
      <3> QED BY <2>2, <2>5, <3>1 DEF Inv, RowsOK
    <2>9. CachesOK' /\ BarredStaysOut' /\ StaleAtMostTtl'
      BY <2>5, <2>6, CachesStay
    <2>10. call'[p].op = "clearUser" /\ \A q \in Proc : q # p => call'[q] = call[q]
      BY <1>6, <1>t, <2>1 DEF RevokesUser, TypeOK, UserCall
    <2>11. CallOK(p)'  BY <2>10, NothingKnown
    <2> QED BY <2>5, <2>6, <2>7, <2>8, <2>9, <2>10, <2>11, StepKeepsInv
  <1>7. ASSUME DeletesUser(p) PROVE Inv'
    <2>1. call[p] \in UserCall  BY <1>7, <1>t, CallType DEF DeletesUser, TypeOK
    <2>2. PICK S \in SUBSET SessionId :
            /\ \A s \in S : Exists(s)
            /\ session' = [s \in SessionId |-> IF s \in S THEN NoSession ELSE session[s]]
            /\ token' = [t \in Token |-> IF FamilyOf[t] \in S THEN "none" ELSE token[t]]
            /\ dead' = [s \in SessionId |->
                 IF s \in S /\ dead[s] = Unset THEN clock ELSE dead[s]]
      BY <1>7 DEF DeletesUser, Buries, Of
    <2>3. /\ \A s \in SessionId : /\ s \in S => ~Exists(s)'
                                  /\ s \notin S => session'[s] = session[s]
          /\ \A s \in SessionId : s \notin S =>
               (Exists(s)' <=> Exists(s)) /\ (Live(s)' <=> Live(s))
          /\ clock \in Nat /\ clock' = clock
          /\ UNCHANGED <<cache, barred>>
      BY <1>7, <1>t, <2>2 DEF Exists, Live, NoSession, TypeOK, DeletesUser
    <2>4. \A s \in SessionId : \A t \in Family(s) :
            token'[t] = IF s \in S THEN "none" ELSE token[t]
      BY <2>2 DEF Family
    <2>5. Aged
      <3>1. \A s \in S : dead'[s] # Unset  BY <2>2, <2>3 DEF Unset
      <3> QED BY <2>2, <2>3, <3>1 DEF Aged
    <2>6. OneUsableToken'
      BY <2>3, <2>4 DEF Inv, OneUsableToken, Live
    <2>7. RowsOK'
      <3>1. \A s \in SessionId : dead'[s] <= clock'
        BY <2>2, <2>3 DEF Inv, RowsOK
      <3>2. \A s \in SessionId : Live(s)' => dead'[s] = Unset
        BY <2>2, <2>3 DEF Inv, RowsOK, Live
      <3>3. \A s \in SessionId : ~Exists(s)' => \A t \in Family(s) : token'[t] = "none"
        BY <2>3, <2>4 DEF Inv, RowsOK
      <3> QED BY <3>1, <3>2, <3>3 DEF RowsOK
    <2>8. CachesOK' /\ BarredStaysOut' /\ StaleAtMostTtl'
      BY <2>3, <2>5, CachesStay
    <2>9. call'[p].op = "clearUser" /\ \A q \in Proc : q # p => call'[q] = call[q]
      BY <1>7, <1>t, <2>1 DEF DeletesUser, TypeOK, UserCall
    <2>10. CallOK(p)'  BY <2>9, NothingKnown
    <2> QED BY <2>3, <2>5, <2>6, <2>7, <2>8, <2>9, <2>10, StepKeepsInv
  <1>8. ASSUME ClearsUser(p) PROVE Inv'
    <2>1. call[p] \in UserCall  BY <1>8, <1>t, CallType DEF ClearsUser, TypeOK
    <2>2. PICK i \in Instance, S \in SUBSET SessionId : i = call[p].at /\ S = Of(call[p].user)
      BY <2>1 DEF UserCall, Of
    <2> DEFINE D == {s \in S : dead[s] # Unset}
    <2>3. Invalidate(p, i, S)  BY <1>8, <2>2 DEF ClearsUser
    <2>4. \A j \in Instance : barred'[j] = IF j = i THEN barred[j] \cup D ELSE barred[j]
      BY <1>8, <1>t, <2>2 DEF ClearsUser, TypeOK
    <2>5. \A s \in D : s \in S /\ s \in SessionId /\ dead[s] # Unset  OBVIOUS
    <2> HIDE DEF D
    <2> QED BY <1>8, <2>3, <2>4, <2>5, InvalidateInv DEF ClearsUser
  <1> QED BY <1>1, <1>2, <1>3, <1>4, <1>5, <1>6, <1>7, <1>8 DEF Revoke

(* Every step of an access check keeps the inductive invariant.              *)
LEMMA AuthenticateInv ==
  ASSUME Inv, TypeOK', NEW p \in Proc, Authenticate(p) PROVE Inv'
  <1>t. TypeOK  BY DEF Inv
  <1>1. ASSUME NEW i \in Instance, NEW s \in SessionId, Lookup(p, i, s) PROVE Inv'
    <2>1. Aged /\ RowsOK' /\ OneUsableToken'
      BY <1>1, <1>t, RowsStay DEF Lookup, TypeOK
    <2>2. CachesOK' /\ BarredStaysOut' /\ StaleAtMostTtl'
      BY <1>1, <1>t, <2>1, CachesStay DEF Lookup, TypeOK
    <2>3. call'[p] = [op |-> "lookup", at |-> i, session |-> s, now |-> clock, fresh |-> TRUE]
      BY <1>1, <1>t DEF Lookup, Become, TypeOK
    <2>4. CallOK(p)'
      <3>1. clock' = clock /\ clock \in Nat  BY <1>1, <1>t DEF Lookup, TypeOK
      <3> QED BY <2>3, <3>1 DEF CallOK
    <2>5. \A q \in Proc : q # p => call'[q] = call[q]
      BY <1>1, <1>t DEF Lookup, Become, TypeOK
    <2> QED BY <1>1, <2>1, <2>2, <2>4, <2>5, StepKeepsInv DEF Lookup
  <1>2. ASSUME LookupFinds(p) PROVE Inv'
    <2>1. call[p] \in LookupCall /\ CallOK(p)
      BY <1>2, <1>t, CallType DEF LookupFinds, TypeOK, Inv
    <2>2. PICK s \in SessionId, i \in Instance : s = call[p].session /\ i = call[p].at
      BY <2>1 DEF LookupCall
    <2>3. Live(s) /\ dead[s] = Unset /\ s \notin barred[i]
      BY <1>2, <2>2 DEF LookupFinds, Active, Inv, RowsOK, CachesOK
    <2>4. /\ call'[p].op = "found" /\ call'[p].session = s /\ call'[p].at = i
          /\ call'[p].now = call[p].now
      BY <1>2, <1>t, <2>2 DEF LookupFinds, Become, TypeOK
    <2>5. call[p].now <= clock
      BY <1>2, <2>1 DEF CallOK, LookupFinds
    <2>6. CallOK(p)'
      BY <1>2, <2>3, <2>4, <2>5 DEF CallOK, LookupFinds
    <2>7. \A q \in Proc : q # p => call'[q] = call[q]
      BY <1>2, <1>t DEF LookupFinds, Become, TypeOK
    <2> QED BY <1>2, <2>6, <2>7, CallMoves DEF LookupFinds
  <1>3. ASSUME LookupMisses(p) PROVE Inv'
    <2>1. CallOK(p)' /\ \A q \in Proc : q # p => call'[q] = call[q]
      BY <1>3, <1>t, NothingKnown DEF LookupMisses, Finish, Become, TypeOK, Idle
    <2> QED BY <1>3, <2>1, CallMoves DEF LookupMisses
  <1>4. ASSUME LookupReturns(p) PROVE Inv'
    <2>1. call[p] \in FoundCall /\ CallOK(p)
      BY <1>4, <1>t, CallType DEF LookupReturns, TypeOK, Inv
    <2>2. PICK s \in SessionId, i \in Instance, n \in Nat :
            s = call[p].session /\ i = call[p].at /\ n = call[p].now
      BY <2>1 DEF FoundCall
    <2>3. /\ UNCHANGED <<session, token, dead, clock, barred>>
          /\ AccessTtl \in Nat /\ clock \in Nat
          /\ cache \in [Instance -> [SessionId -> Nat]]
          /\ dead \in [SessionId -> Nat \cup {Unset}]
      BY <1>4, <1>t, SessionAssumption DEF LookupReturns, TypeOK
    <2>4. Aged /\ RowsOK' /\ OneUsableToken'
      BY <2>3, RowsStay
    <2>5. CallOK(p)' /\ \A q \in Proc : q # p => call'[q] = call[q]
      BY <1>4, <1>t, NothingKnown DEF LookupReturns, Finish, Become, TypeOK, Idle
    <2>6. CASE cache' = cache
      <3>1. CachesOK' /\ BarredStaysOut' /\ StaleAtMostTtl'
        BY <2>3, <2>4, <2>6, CachesStay
      <3> QED BY <2>3, <2>4, <2>5, <3>1, StepKeepsInv
    <2>7. CASE cache' # cache
      <3>1. PICK u \in Nat : u = Until(call[p])
        BY <2>1, SessionAssumption DEF FoundCall, Until
      <3>2. call[p].fresh /\ Caches(i, s, u)
        BY <1>4, <2>2, <2>7, <3>1 DEF LookupReturns
      <3>3. u <= n + AccessTtl
        BY <2>1, <2>2, <2>3, <3>1 DEF Until, FoundCall
      <3>4. /\ n <= clock /\ s \notin barred[i]
            /\ dead[s] # Unset => n <= dead[s]
        BY <1>4, <2>1, <2>2, <3>2 DEF CallOK, LookupReturns
      <3>5. \A j \in Instance, r \in SessionId :
              \/ cache'[j][r] \in {cache[j][r], Absent}
              \/ j = i /\ r = s /\ cache'[j][r] = u
        <4>1. CASE cache' = [cache EXCEPT ![i][s] = u]
          BY <2>3, <4>1
        <4>2. CASE \E o \in SessionId : cache' = [cache EXCEPT ![i][o] = Absent, ![i][s] = u]
          BY <2>3, <4>2
        <4> QED BY <3>2, <4>1, <4>2 DEF Caches, Cached
      <3>6. u <= clock + AccessTtl /\ (dead[s] # Unset => u <= dead[s] + AccessTtl)
        BY <2>3, <3>3, <3>4 DEF Unset
      <3>7. CachesOK'
        <4>1. \A j \in Instance, r \in SessionId : cache'[j][r] <= clock' + AccessTtl
          BY <2>3, <3>5, <3>6 DEF Inv, CachesOK, Absent
        <4> QED BY <2>3, <4>1 DEF Inv, CachesOK
      <3>8. BarredStaysOut'
        <4> SUFFICES ASSUME NEW j \in Instance, NEW r \in barred[j]
                     PROVE cache'[j][r] = Absent
          BY <2>3 DEF BarredStaysOut
        <4>1. r \in SessionId /\ cache[j][r] = Absent
          BY <1>t DEF Inv, BarredStaysOut, TypeOK
        <4> QED BY <3>4, <3>5, <4>1
      <3>9. StaleAtMostTtl'
        BY <2>3, <3>5, <3>6 DEF Inv, StaleAtMostTtl, Absent, Unset
      <3> QED BY <2>3, <2>4, <2>5, <3>7, <3>8, <3>9, StepKeepsInv
    <2> QED BY <2>6, <2>7
  <1> QED BY <1>1, <1>2, <1>3, <1>4 DEF Authenticate

(* A new session keeps it, for its id was never used.                        *)
LEMMA CreateInv ==
  ASSUME Inv, TypeOK', NEW s \in SessionId, Create(s) PROVE Inv'
  <1>t. TypeOK  BY DEF Inv
  <1>1. PICK t \in Family(s) :
          /\ token[t] = "none" /\ token' = [token EXCEPT ![t] = "unused"]
          /\ session' = [session EXCEPT ![s] = [token |-> t, revoked |-> FALSE,
                                                expiresAt |-> clock + RefreshTtl]]
    BY DEF Create
  <1>2. /\ t \in Token /\ t # "none" /\ FamilyOf[t] = s
        /\ ~Exists(s) /\ dead[s] = Unset
        /\ UNCHANGED <<cache, call, clock, dead, barred>> /\ clock \in Nat
    BY <1>t, SessionAssumption DEF Create, Family, TypeOK
  <1>3. /\ session'[s].token = t /\ Exists(s)' /\ Live(s)'
        /\ \A r \in SessionId : r # s =>
             /\ session'[r] = session[r]
             /\ (Exists(r)' <=> Exists(r)) /\ (Live(r)' <=> Live(r))
    BY <1>t, <1>1, <1>2 DEF TypeOK, Exists, Live
  <1>4. \A r \in SessionId : \A x \in Family(r) :
          token'[x] = IF r = s /\ x = t THEN "unused" ELSE token[x]
    BY <1>t, <1>1, <1>2 DEF TypeOK, Family
  <1>5. \A x \in Family(s) : token[x] = "none"
    BY <1>2 DEF Inv, RowsOK
  <1>6. Aged  BY <1>2, <1>3 DEF Aged
  <1>7. OneUsableToken'
    <2>1. {x \in Family(s) : token'[x] = "unused"} = {t}
      BY <1>1, <1>4, <1>5
    <2>2. \A r \in SessionId : r # s /\ Live(r)' =>
            {x \in Family(r) : token'[x] = "unused"} = {session'[r].token}
      BY <1>3, <1>4 DEF Inv, OneUsableToken
    <2> QED BY <1>3, <2>1, <2>2 DEF OneUsableToken, Family
  <1>8. RowsOK'
    BY <1>2, <1>3, <1>4 DEF Inv, RowsOK, Family
  <1>9. CachesOK' /\ BarredStaysOut' /\ StaleAtMostTtl'
    BY <1>2, <1>6, CachesStay
  <1>10. \A q \in Proc : CallOK(q)'
    BY <1>2, <1>6, CallStays
  <1> QED BY <1>7, <1>8, <1>9, <1>10 DEF Inv

(* Neither time nor a failure disturbs it.                                   *)
LEMMA EnvironmentInv ==
  ASSUME Inv, TypeOK', \/ ClockTicks \/ UNCHANGED vars
                       \/ \E u \in User : ChangeStatus(u)
                       \/ \E p \in Proc : CallFails(p)
                       \/ \E i \in Instance : Restart(i)
  PROVE  Inv'
  <1>t. TypeOK  BY DEF Inv
  <1>1. /\ UNCHANGED <<session, token, dead, barred>> /\ clock <= clock'
    BY <1>t DEF ClockTicks, vars, ChangeStatus, CallFails, Restart, TypeOK
  <1>2. \A i \in Instance, s \in SessionId : cache'[i][s] \in {cache[i][s], Absent}
    BY <1>t DEF ClockTicks, vars, ChangeStatus, CallFails, Restart, TypeOK
  <1>3. \A p \in Proc : call'[p] \in {call[p], Idle}
    BY <1>t DEF ClockTicks, vars, ChangeStatus, CallFails, Finish, Become, Restart, TypeOK
  <1>4. Aged /\ RowsOK' /\ OneUsableToken'  BY <1>1, RowsStay
  <1>5. CachesOK' /\ BarredStaysOut' /\ StaleAtMostTtl'
    BY <1>1, <1>2, <1>4, CachesStay
  <1>6. ASSUME NEW p \in Proc PROVE CallOK(p)'
    <2>1. CASE call'[p] = call[p]
      BY <1>1, <1>4, <2>1, CallStays
    <2>2. CASE call'[p] = Idle
      BY <2>2, NothingKnown DEF Idle
    <2> QED BY <1>3, <2>1, <2>2
  <1> QED BY <1>4, <1>5, <1>6 DEF Inv

(* Every step keeps the inductive invariant.                                 *)
LEMMA InvNext == Inv /\ [Next]_vars => Inv'
  <1> SUFFICES ASSUME Inv, [Next]_vars PROVE Inv'  OBVIOUS
  <1>1. TypeOK'  BY TypeNext DEF Inv
  <1> QED BY <1>1, RotateInv, RevokeInv, AuthenticateInv, CreateInv, EnvironmentInv DEF Next
-----------------------------------------------------------------------------
(* The inductive invariant holds of every behaviour.                         *)
THEOREM InvHolds == Spec => []Inv
  BY InvInit, InvNext, PTL DEF Spec

(* However refreshes, logouts and deletions interleave, a live session has   *)
(* exactly one refresh token that can still be used, its current one.        *)
THEOREM OneUsableTokenHolds == Spec => []OneUsableToken
  <1>1. Inv => OneUsableToken  BY DEF Inv
  <1> QED BY <1>1, InvHolds, PTL

(* An instance on which a revocation or deletion returned never takes the    *)
(* session for active again, whatever lookups were under way on it.          *)
THEOREM BarredStaysOutHolds == Spec => []BarredStaysOut
  <1>1. Inv => BarredStaysOut  BY DEF Inv
  <1> QED BY <1>1, InvHolds, PTL

(* No instance takes a dead session for active longer than AccessTtl after   *)
(* its death.                                                                *)
THEOREM StaleAtMostTtlHolds == Spec => []StaleAtMostTtl
  <1>1. Inv => StaleAtMostTtl  BY DEF Inv
  <1> QED BY <1>1, InvHolds, PTL

-----------------------------------------------------------------------------
(* Every entry an instance holds was cached, in its turn: no step but        *)
(* cacheSession adds one.                                                    *)
LEMMA CacheSteps ==
  ASSUME TypeOK, Next
  PROVE  \/ \A i \in Instance : Cached(i)' \subseteq Cached(i)
         \/ \E i \in Instance, s \in SessionId, u \in Nat : Caches(i, s, u)
  <1> DEFINE Shrinks == \A i \in Instance : Cached(i)' \subseteq Cached(i)
  <1>1. UNCHANGED cache => Shrinks
    BY DEF Cached
  <1>2. ASSUME NEW p \in Proc, NEW i \in Instance, NEW S, Invalidate(p, i, S)
        PROVE Shrinks
    BY <1>2, InvalidateFacts DEF Cached
  <1>3. ASSUME NEW s \in SessionId, Create(s) PROVE Shrinks
    BY <1>1, <1>3 DEF Create
  <1>4. ASSUME NEW p \in Proc, Rotate(p) PROVE Shrinks
    <2>1. CASE UNCHANGED cache  BY <1>1, <2>1
    <2>2. CASE RotateReturns(p)
      <3>1. call[p].at \in Instance
        BY <2>2, CallType DEF RotateReturns, SessionCall, TypeOK
      <3> QED BY <1>2, <2>2, <3>1 DEF RotateReturns
    <2>3. CASE \E i \in Instance, t \in Token : RotateRefuses(p, i, t)
      BY <1>2, <2>3 DEF RotateRefuses
    <2> QED BY <1>4, <2>1, <2>2, <2>3
            DEF Rotate, RotateReads, RotateDetectsReuse, RotateCommits, RotateLoses
  <1>5. ASSUME NEW p \in Proc, Revoke(p) PROVE Shrinks
    <2>1. CASE UNCHANGED cache  BY <1>1, <2>1
    <2>2. CASE RevokeReturns(p)
      <3>1. call[p].at \in Instance
        BY <2>2, CallType DEF RevokeReturns, SessionCall, TypeOK
      <3> QED BY <1>2, <2>2, <3>1 DEF RevokeReturns
    <2>3. CASE ClearsUser(p)
      <3>1. call[p].at \in Instance
        BY <2>3, CallType DEF ClearsUser, UserCall, TypeOK
      <3> QED BY <1>2, <2>3, <3>1 DEF ClearsUser
    <2> QED BY <1>5, <2>1, <2>2, <2>3
            DEF Revoke, Logout, RevokeCommits, RevokeMisses, RevokeForUser,
                RevokesUser, DeletesUser
  <1>6. ASSUME NEW p \in Proc, NEW i \in Instance, NEW s \in SessionId, Lookup(p, i, s)
        PROVE Shrinks
    BY <1>6 DEF Lookup, Cached, TypeOK
  <1>7. ASSUME NEW p \in Proc, LookupReturns(p)
        PROVE \/ Shrinks
              \/ \E i \in Instance, s \in SessionId, u \in Nat : Caches(i, s, u)
    <2>1. call[p] \in FoundCall
      BY <1>7, CallType DEF LookupReturns, TypeOK
    <2>2. call[p].at \in Instance /\ call[p].session \in SessionId
          /\ Until(call[p]) \in Nat
      BY <2>1, SessionAssumption DEF FoundCall, Until
    <2> QED BY <1>1, <1>7, <2>2 DEF LookupReturns
  <1>8. ASSUME NEW i \in Instance, Restart(i) PROVE Shrinks
    BY <1>8 DEF Restart, Cached, TypeOK
  <1> QED
    BY <1>1, <1>3, <1>4, <1>5, <1>6, <1>7, <1>8
    DEF Next, Authenticate, LookupFinds, LookupMisses, CallFails, ClockTicks, ChangeStatus

(* What an instance holds is finite, as sessions are.                        *)
LEMMA CachedFinite ==
  ASSUME NEW i \in Instance
  PROVE  IsFiniteSet(Cached(i)) /\ Cardinality(Cached(i)) \in Nat
  <1>1. Cached(i) \subseteq SessionId  BY DEF Cached
  <1> QED BY <1>1, SessionAssumption, FS_Subset, FS_CardinalityType

(* cacheSession: a session cached anew makes room when there is none.        *)
LEMMA CachesBounded ==
  ASSUME TypeOK, CacheBounded,
         NEW i \in Instance, NEW s \in SessionId, NEW u \in Nat, Caches(i, s, u)
  PROVE  CacheBounded'
  <1> DEFINE others == Cached(i) \ {s}
  <1>1. IsFiniteSet(Cached(i)) /\ Cardinality(Cached(i)) \in Nat
        /\ Cardinality(Cached(i)) <= CacheSize
    BY CachedFinite DEF CacheBounded
  <1>2. CacheSize \in Nat \ {0}  BY SessionAssumption
  <1>3. IsFiniteSet(others) /\ Cardinality(others) \in Nat
        /\ Cardinality(others) <= CacheSize
    BY <1>1, <1>2, FS_Subset, FS_CardinalityType
  <1>4. \A j \in Instance : j # i => Cached(j)' = Cached(j)
    BY DEF Caches, Cached, TypeOK
  <1>5. Cardinality(Cached(i)') <= CacheSize
    <2>1. CASE Full(others)
      <3>1. PICK r \in others : cache' = [cache EXCEPT ![i][r] = Absent, ![i][s] = u]
        BY <2>1 DEF Caches
      <3>2. Cached(i)' \subseteq (others \ {r}) \cup {s}
        BY <3>1 DEF Cached, TypeOK
      <3>3. IsFiniteSet(others \ {r}) /\ Cardinality(others \ {r}) = Cardinality(others) - 1
        BY <1>3, <3>1, FS_RemoveElement
      <3>4. IsFiniteSet((others \ {r}) \cup {s})
            /\ Cardinality((others \ {r}) \cup {s}) = Cardinality(others)
        <4>1. s \notin others \ {r}  OBVIOUS
        <4>2. Cardinality((others \ {r}) \cup {s}) = Cardinality(others \ {r}) + 1
              /\ IsFiniteSet((others \ {r}) \cup {s})
          BY <3>3, <4>1, FS_AddElement
        <4>3. Cardinality(others \ {r}) + 1 = Cardinality(others)
          BY <1>3, <3>3
        <4> QED BY <4>2, <4>3
      <3>5. Cardinality(Cached(i)') <= Cardinality((others \ {r}) \cup {s})
        BY <3>2, <3>4, FS_Subset
      <3>6. Cardinality(Cached(i)') \in Nat
        BY <3>2, <3>4, FS_Subset, FS_CardinalityType
      <3> QED BY <1>2, <1>3, <3>4, <3>5, <3>6
    <2>2. CASE ~Full(others)
      <3>1. Cached(i)' \subseteq others \cup {s}
        BY <2>2 DEF Caches, Cached, TypeOK
      <3>2. IsFiniteSet(others \cup {s})
            /\ Cardinality(others \cup {s}) = Cardinality(others) + 1
        BY <1>3, FS_AddElement
      <3>3. Cardinality(Cached(i)') <= Cardinality(others \cup {s})
            /\ Cardinality(Cached(i)') \in Nat
        BY <3>1, <3>2, FS_Subset, FS_CardinalityType
      <3>4. Cardinality(others) < CacheSize
        BY <1>2, <1>3, <2>2 DEF Full
      <3> QED BY <1>2, <1>3, <3>2, <3>3, <3>4
    <2> QED BY <2>1, <2>2
  <1> QED BY <1>4, <1>5 DEF CacheBounded

(* The cache of an instance never holds more than MAX_ACCESS_CACHE_ENTRIES   *)
(* sessions, a session cached again counting once.                           *)
THEOREM CacheBoundedHolds == Spec => []CacheBounded
  <1>1. Init => CacheBounded
    <2> SUFFICES ASSUME Init, NEW i \in Instance PROVE Cardinality(Cached(i)) <= CacheSize
      BY DEF CacheBounded
    <2>1. Cached(i) = {}  BY DEF Init, Cached
    <2> QED BY <2>1, FS_EmptySet, SessionAssumption
  <1>2. TypeOK /\ CacheBounded /\ [Next]_vars => CacheBounded'
    <2> SUFFICES ASSUME TypeOK, CacheBounded, [Next]_vars PROVE CacheBounded'
      OBVIOUS
    <2>1. CASE UNCHANGED vars
      BY <2>1 DEF vars, CacheBounded, Cached
    <2>2. CASE Next
      <3>1. ASSUME \A i \in Instance : Cached(i)' \subseteq Cached(i) PROVE CacheBounded'
        <4> SUFFICES ASSUME NEW i \in Instance
                     PROVE Cardinality(Cached(i)') <= CacheSize
          BY DEF CacheBounded
        <4>1. IsFiniteSet(Cached(i)) /\ Cardinality(Cached(i)) \in Nat
          BY CachedFinite
        <4>2. Cardinality(Cached(i)') <= Cardinality(Cached(i))
              /\ Cardinality(Cached(i)') \in Nat
          BY <3>1, <4>1, FS_Subset, FS_CardinalityType
        <4> QED BY <4>1, <4>2, SessionAssumption DEF CacheBounded
      <3> QED BY <2>2, <3>1, CacheSteps, CachesBounded
    <2> QED BY <2>1, <2>2
  <1> QED BY <1>1, <1>2, TypeCorrect, PTL DEF Spec
=============================================================================
