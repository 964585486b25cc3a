---------------------------- MODULE AccountProofs ----------------------------
(* Proofs about Account for every value of its constants.                    *)
EXTENDS Account, TLAPS

(* What a call holds follows from its op.                                    *)
LEMMA CallFields ==
  ASSUME NEW c \in CallType
  PROVE  /\ c.op = "login" => c.read \in Era /\ c.context \in Context
         /\ c.op = "record" => c.context \in Context
         /\ c.op = "issue" => c.seen \in SUBSET ResetToken /\ c.expiresAt \in Nat
         /\ c.op = "mail" => c.token \in ResetToken
         /\ c.op = "confirm" => c.token \in ResetToken /\ c.now \in Nat
         /\ c.op = "change" => c.read \in Era
         /\ c.op = "delete" => /\ c.by \in {"token", "password"}
                               /\ c.read \in Era /\ c.set \in Era
  BY DEF CallType, Idle

(* A row that exists has all its fields.                                     *)
LEMMA ResetFields ==
  ASSUME TypeOK, NEW t \in ResetToken, reset[t] # None
  PROVE  reset[t] \in ResetRow
  BY DEF TypeOK

LEMMA SessionFields ==
  ASSUME TypeOK, NEW s \in SessionId, session[s] # None
  PROVE  session[s] \in SessionRow
  BY DEF TypeOK

(* The second of a moment is a number.                                       *)
LEMMA SecondType ==
  ASSUME NEW t \in Nat PROVE Second(t) \in Nat
  BY AccountAssumption, SMT DEF Second

(* Consuming changes no row but to mark it, and makes none.                  *)
LEMMA ConsumeFacts ==
  ASSUME TypeOK, NEW S, \A t \in ResetToken \cap S : reset[t] # None
  PROVE  /\ Consume(S) \in [ResetToken -> ResetRow \cup {None}]
         /\ \A t \in ResetToken :
              /\ Consume(S)[t] = None <=> reset[t] = None
              /\ reset[t] # None =>
                   /\ Consume(S)[t].born = reset[t].born
                   /\ Consume(S)[t].expiresAt = reset[t].expiresAt
                   /\ Consume(S)[t].mailed = reset[t].mailed
                   /\ Consume(S)[t].consumed <=> (t \in S \/ reset[t].consumed)
  <1>1. ASSUME NEW t \in ResetToken, reset[t] # None
        PROVE  /\ Consume(S)[t] \in ResetRow /\ Consume(S)[t] # None
               /\ Consume(S)[t].born = reset[t].born
               /\ Consume(S)[t].expiresAt = reset[t].expiresAt
               /\ Consume(S)[t].mailed = reset[t].mailed
               /\ Consume(S)[t].consumed <=> (t \in S \/ reset[t].consumed)
    <2>1. reset[t] \in ResetRow  BY <1>1, ResetFields
    <2>2. CASE t \in S
      BY <2>1, <2>2 DEF Consume, ResetRow, None
    <2>3. CASE t \notin S
      BY <2>1, <2>3, <1>1 DEF Consume
    <2> QED BY <2>2, <2>3
  <1>2. ASSUME NEW t \in ResetToken, reset[t] = None PROVE Consume(S)[t] = None
    BY <1>2 DEF Consume
  <1>3. Consume(S) \in [ResetToken -> ResetRow \cup {None}]
    <2>1. \A t \in ResetToken : Consume(S)[t] \in ResetRow \cup {None}
      BY <1>1, <1>2
    <2> QED BY <2>1 DEF Consume
  <1> QED BY <1>1, <1>2, <1>3

(* The initial state has the types.                                          *)
LEMMA TypeInit == Init => TypeOK
  BY AccountAssumption DEF Init, TypeOK, Era, CallType, Never

(* A request for a link reads the rows and a date.                           *)
LEMMA IssuesType ==
  ASSUME TypeOK, NEW p \in Proc, Issues(p)
  PROVE  call' \in [Proc -> CallType]
  <1>1. Unconsumed \in SUBSET ResetToken  BY DEF Unconsumed
  <1>2. clock + ResetTtl \in Nat  BY AccountAssumption DEF TypeOK
  <1>3. [op |-> "issue", seen |-> Unconsumed, expiresAt |-> clock + ResetTtl] \in CallType
    BY <1>1, <1>2 DEF CallType
  <1> QED BY <1>3 DEF TypeOK, Issues, Goes

(* Every action keeps the types; the tokens that calls name have rows.       *)
LEMMA TypeNext == TypeOK /\ InOrder /\ [Next]_vars => TypeOK'
  <1> SUFFICES ASSUME TypeOK, InOrder, [Next]_vars PROVE TypeOK'  OBVIOUS
  <1> USE DEF TypeOK
  <1>idle. \A p \in Proc : Ends(p) => call' \in [Proc -> CallType]
    BY DEF Ends, Goes, CallType
  <1>era. era < MaxEra => era + 1 \in Era  BY AccountAssumption DEF Era
  <1>1. ASSUME NEW p \in Proc, NEW c \in Context, Login(p, c) PROVE TypeOK'
    <2>1. [op |-> "login", read |-> era, context |-> c] \in CallType  BY DEF CallType
    <2> QED BY <1>1, <2>1 DEF Login, Goes
  <1>2. ASSUME NEW p \in Proc, NEW s \in SessionId, CreatesSession(p, s) PROVE TypeOK'
    <2>1. call[p].read \in Era /\ call[p].context \in Context
      BY <1>2, CallFields DEF CreatesSession
    <2>2. [live |-> TRUE, read |-> call[p].read, made |-> era, issued |-> Second(clock)]
            \in SessionRow
      BY <2>1, SecondType DEF SessionRow
    <2>3. [op |-> "record", context |-> call[p].context] \in CallType
      BY <2>1 DEF CallType
    <2> QED BY <1>2, <2>2, <2>3 DEF CreatesSession, Goes
  <1>3. ASSUME NEW p \in Proc, RecordsLogin(p) PROVE TypeOK'
    <2>1. call[p].context \in Context  BY <1>3, CallFields DEF RecordsLogin
    <2> QED BY <1>3, <2>1, <1>idle DEF RecordsLogin
  <1>4. ASSUME NEW p \in Proc, RequestReset(p) PROVE TypeOK'
    BY <1>4, IssuesType DEF RequestReset
  <1>5. ASSUME NEW p \in Proc, NEW t \in ResetToken, InsertsReset(p, t) PROVE TypeOK'
    <2>1. call[p].seen \in SUBSET ResetToken /\ call[p].expiresAt \in Nat
      BY <1>5, CallFields DEF InsertsReset
    <2>2. Consume(call[p].seen) \in [ResetToken -> ResetRow \cup {None}]
      BY <1>5, ConsumeFacts DEF InsertsReset, InOrder, CallInOrder
    <2>3. [expiresAt |-> call[p].expiresAt, consumed |-> FALSE, mailed |-> FALSE,
           born |-> era] \in ResetRow
      BY <2>1 DEF ResetRow
    <2>4. reset' \in [ResetToken -> ResetRow \cup {None}]
      BY <1>5, <2>2, <2>3 DEF InsertsReset, Inserted
    <2>5. [op |-> "mail", token |-> t] \in CallType  BY DEF CallType
    <2> QED BY <1>5, <2>4, <2>5 DEF InsertsReset, Goes
  <1>6. ASSUME NEW p \in Proc, NEW t \in ResetToken, Confirm(p, t) PROVE TypeOK'
    <2>1. [op |-> "confirm", token |-> t, now |-> clock] \in CallType  BY DEF CallType
    <2> QED BY <1>6, <2>1 DEF Confirm, Goes
  <1>7. ASSUME NEW p \in Proc, SendsMail(p) PROVE TypeOK'
    <2>1. PICK t \in ResetToken : t = call[p].token  BY <1>7, CallFields DEF SendsMail
    <2>2. reset[t] \in ResetRow  BY <1>7, <2>1, ResetFields DEF SendsMail, InOrder, CallInOrder
    <2>3. [reset[t] EXCEPT !.mailed = TRUE] \in ResetRow  BY <2>2 DEF ResetRow
    <2>4. reset' = [reset EXCEPT ![t] = [reset[t] EXCEPT !.mailed = TRUE]]
      BY <1>7, <2>1 DEF SendsMail
    <2>5. reset' \in [ResetToken -> ResetRow \cup {None}]  BY <2>3, <2>4
    <2> QED BY <1>7, <2>5, <1>idle DEF SendsMail
  <1>8. ASSUME NEW p \in Proc, ConfirmWrites(p) PROVE TypeOK'
    <2>1. PICK t \in ResetToken : t = call[p].token /\ call[p].now \in Nat
      BY <1>8, CallFields DEF ConfirmWrites
    <2>2. t \in Unconsumed  BY <1>8, <2>1 DEF ConfirmWrites, Consumable
    <2>3. \A u \in ResetToken \cap ({t} \cup Unconsumed) : reset[u] # None
      BY <2>2 DEF Unconsumed
    <2>4. reset' \in [ResetToken -> ResetRow \cup {None}]
      BY <1>8, <2>1, <2>3, ConsumeFacts DEF ConfirmWrites, ConsumedBy
    <2>5. [op |-> "delete", by |-> "token", read |-> era, set |-> era + 1] \in CallType
      BY <1>8, <1>era DEF ConfirmWrites, CallType
    <2>6. uses' \in [ResetToken -> Nat]  BY <1>8, <2>1 DEF ConfirmWrites
    <2>7. user' \in [changedAt : Nat \cup {Never}, context : Context]
      BY <1>8, <2>1 DEF ConfirmWrites
    <2> QED BY <1>8, <1>era, <2>4, <2>5, <2>6, <2>7 DEF ConfirmWrites, Goes
  <1>9. ASSUME NEW p \in Proc, ConfirmRefused(p) PROVE TypeOK'
    BY <1>9, <1>idle DEF ConfirmRefused
  <1>10. ASSUME NEW p \in Proc, NEW s \in SessionId, NEW c \in Context, Change(p, s, c)
         PROVE TypeOK'
    <2>1. [op |-> "change", read |-> era] \in CallType  BY DEF CallType
    <2>2. call' \in [Proc -> CallType]  BY <1>10, <2>1, IssuesType DEF Change, Goes
    <2> QED BY <1>10, <2>2 DEF Change
  <1>11. ASSUME NEW p \in Proc, ChangeWrites(p) PROVE TypeOK'
    <2>1. call[p].read \in Era  BY <1>11, CallFields DEF ChangeWrites
    <2>2. [op |-> "delete", by |-> "password", read |-> call[p].read, set |-> era + 1]
            \in CallType
      BY <1>11, <2>1, <1>era DEF ChangeWrites, CallType
    <2>3. reset' \in [ResetToken -> ResetRow \cup {None}]
      BY <1>11, ConsumeFacts DEF ChangeWrites, Unconsumed
    <2> QED BY <1>11, <1>era, <2>2, <2>3 DEF ChangeWrites, Goes
  <1>12. ASSUME NEW p \in Proc, DeletesSessions(p) PROVE TypeOK'
    <2>1. call[p].set \in Era  BY <1>12, CallFields DEF DeletesSessions
    <2>2. ASSUME NEW s \in SessionId, session[s] # None
          PROVE [session[s] EXCEPT !.live = FALSE] \in SessionRow
      BY <2>2, SessionFields DEF SessionRow
    <2>3. session' \in [SessionId -> SessionRow \cup {None}]
      BY <1>12, <2>2 DEF DeletesSessions, Deleted, Gone
    <2> QED BY <1>12, <2>1, <2>3, <1>idle DEF DeletesSessions
  <1>13. ASSUME NEW p \in Proc, CallFails(p) PROVE TypeOK'
    BY <1>13, <1>idle DEF CallFails
  <1>14. ASSUME NEW s \in SessionId, Refreshes(s) PROVE TypeOK'
    <2>1. session[s] \in SessionRow  BY <1>14, SessionFields DEF Refreshes
    <2>2. [session[s] EXCEPT !.issued = Second(clock)] \in SessionRow
      BY <2>1, SecondType DEF SessionRow
    <2>3. session' \in [SessionId -> SessionRow \cup {None}]
      BY <1>14, <2>2 DEF Refreshes
    <2> QED BY <1>14, <2>3 DEF Refreshes
  <1>15. CASE Suspend  BY <1>15 DEF Suspend
  <1>16. CASE ClockTicks  BY <1>16 DEF ClockTicks
  <1>17. CASE UNCHANGED vars  BY <1>17 DEF vars
  <1> QED BY <1>1, <1>2, <1>3, <1>4, <1>5, <1>6, <1>7, <1>8, <1>9, <1>10, <1>11, <1>12,
             <1>13, <1>14, <1>15, <1>16, <1>17 DEF Next

-----------------------------------------------------------------------------
(* What every step does to the rows a call may know: eras go up, rows stay.  *)
Onward ==
  /\ era' \in Era /\ era <= era'
  /\ \A t \in ResetToken : reset[t] # None => reset'[t] # None

(* A call that is not touched keeps knowing what is there.                   *)
LEMMA CallStays ==
  ASSUME Inv, Onward, NEW q \in Proc, call'[q] = call[q]
  PROVE  CallInOrder(q)'
  <1>1. call[q] \in CallType /\ CallInOrder(q)
    BY DEF Inv, InOrder, TokensSound, TypeOK
  <1>2. ASSUME call[q].op = "delete" PROVE call[q].set <= era'
    <2>1. call[q].set \in Era /\ call[q].set <= era
      BY <1>1, <1>2, CallFields DEF CallInOrder
    <2>2. era \in Era  BY DEF Inv, TokensSound, TypeOK
    <2> QED BY <2>1, <2>2 DEF Onward, Era
  <1>3. ASSUME call[q].op = "issue" PROVE \A t \in call[q].seen : reset'[t] # None
    BY <1>1, <1>3, CallFields DEF CallInOrder, Onward
  <1>4. ASSUME call[q].op = "mail" PROVE reset'[call[q].token] # None
    BY <1>1, <1>4, CallFields DEF CallInOrder, Onward
  <1> QED BY <1>2, <1>3, <1>4 DEF CallInOrder

(* So a step that moves one call on need only say what that one now knows.   *)
LEMMA CallsStay ==
  ASSUME Inv, Onward, NEW p \in Proc, NEW c, Goes(p, c),
         c.op = "issue" => \A t \in c.seen : reset'[t] # None,
         c.op = "mail" => reset'[c.token] # None,
         c.op = "delete" => c.set <= era'
  PROVE  \A q \in Proc : CallInOrder(q)'
  <1>1. call \in [Proc -> CallType]  BY DEF Inv, TokensSound, TypeOK
  <1>2. CallInOrder(p)'  BY <1>1 DEF Goes, CallInOrder
  <1>3. ASSUME NEW q \in Proc, q # p PROVE CallInOrder(q)'
    BY <1>1, <1>3, CallStays DEF Goes
  <1> QED BY <1>2, <1>3

LEMMA CallEnds ==
  ASSUME Inv, Onward, NEW p \in Proc, Ends(p) PROVE \A q \in Proc : CallInOrder(q)'
  BY CallsStay DEF Ends, Idle

LEMMA CallIssues ==
  ASSUME Inv, UNCHANGED <<era, reset>>, NEW p \in Proc, Issues(p)
  PROVE  \A q \in Proc : CallInOrder(q)'
  <1>1. Onward  BY DEF Onward, Inv, TokensSound, TypeOK, Era
  <1>2. \A t \in Unconsumed : reset'[t] # None  BY DEF Unconsumed
  <1> QED BY <1>1, <1>2, CallsStay DEF Issues

(* A step that leaves tokens and passwords alone keeps what is said of them. *)
LEMMA TokensStay ==
  ASSUME Inv, UNCHANGED <<reset, era, uses>>
  PROVE  TokenOnce' /\ OlderTokensDead' /\ LinkRemains' /\ Onward
  BY DEF Inv, TokensSound, TypeOK, TokenOnce, OlderTokensDead, LinkRemains, Unconsumed,
         Onward, Era

(* A step that leaves the sessions and what has answered alone, too.         *)
LEMMA SessionsStay ==
  ASSUME Inv, Onward, UNCHANGED <<session, done>>
  PROVE  /\ SurvivorsAreNew' /\ done' <= era'
         /\ \A s \in SessionId : session'[s] # None => session'[s].made <= era'
  <1>1. era \in Era /\ done \in Era /\ done <= era
    BY DEF Inv, InOrder, TokensSound, TypeOK
  <1>2. ASSUME NEW s \in SessionId, session[s] # None PROVE session[s].made <= era'
    <2>1. session[s].made \in Era /\ session[s].made <= era
      BY <1>2, SessionFields DEF Inv, InOrder, TokensSound, SessionRow
    <2> QED BY <1>1, <2>1 DEF Onward, Era
  <1> QED BY <1>1, <1>2 DEF Onward, Era, Inv, SurvivorsAreNew

(* A new password: every token is dead, and none is of the new one yet.      *)
LEMMA PasswordChanges ==
  ASSUME Inv, TypeOK', era' = era + 1,
         NEW S, Unconsumed \subseteq S, S \subseteq {t \in ResetToken : reset[t] # None},
         reset' = Consume(S), UNCHANGED <<session, done>>,
         \A t \in ResetToken : uses'[t] # uses[t] => t \in Unconsumed /\ uses'[t] = uses[t] + 1,
         Onward => \A p \in Proc : CallInOrder(p)'
  PROVE  Inv'
  <1>1. /\ TypeOK /\ TokenOnce /\ InOrder
        /\ \A t \in ResetToken \cap S : reset[t] # None
    BY DEF Inv, TokensSound
  <1>2. \A t \in ResetToken :
          /\ reset'[t] = None <=> reset[t] = None
          /\ reset[t] # None => reset'[t].consumed /\ reset'[t].born = reset[t].born
    BY <1>1, ConsumeFacts DEF Unconsumed
  <1>3. Onward  BY <1>1, <1>2 DEF Onward, TypeOK, Era
  <1>4. Unconsumed' = {}  BY <1>2 DEF Unconsumed
  <1>5. ASSUME NEW t \in ResetToken, reset'[t] # None
        PROVE reset'[t].born <= era /\ reset'[t].born # era'
    <2>1. reset[t] \in ResetRow /\ reset[t].born <= era
      BY <1>1, <1>2, <1>5, ResetFields DEF InOrder
    <2>2. reset'[t].born = reset[t].born /\ reset[t].born \in Era /\ era \in Era
      BY <1>1, <1>2, <1>5, <2>1 DEF ResetRow, TypeOK
    <2> QED BY <2>1, <2>2 DEF Era
  <1>6. \A t \in ResetToken : uses'[t] <= 1
    BY <1>1 DEF TokenOnce, TypeOK, InOrder, Unconsumed
  <1>7. \A t \in ResetToken : reset'[t] = None \/ ~reset'[t].consumed => uses'[t] = 0
    BY <1>1, <1>2 DEF InOrder, Unconsumed
  <1>8. \A t \in ResetToken : reset'[t] # None => reset'[t].born <= era'
    <2> TAKE t \in ResetToken
    <2> HAVE reset'[t] # None
    <2>1. reset'[t].born \in Era  BY <1>1, <1>2, ResetFields DEF ResetRow
    <2> QED BY <1>5, <1>1, <2>1 DEF TypeOK, Era
  <1>9. InOrder'  BY <1>3, <1>7, <1>8, SessionsStay DEF InOrder
  <1>10. TokenOnce' /\ OlderTokensDead' /\ LinkRemains'
    BY <1>4, <1>5, <1>6 DEF TokenOnce, OlderTokensDead, LinkRemains
  <1> QED BY <1>3, <1>9, <1>10, SessionsStay DEF Inv, TokensSound

(* Inv holds at the start.                                                   *)
LEMMA InvInit == Init => Inv
  BY TypeInit DEF Init, Inv, TokensSound, TokenOnce, OlderTokensDead, LinkRemains,
     SurvivorsAreNew, InOrder, CallInOrder, Unconsumed, Idle

(* Every step keeps it.                                                      *)
LEMMA InvNext == Inv /\ [Next]_vars => Inv'
  <1> SUFFICES ASSUME Inv, [Next]_vars PROVE Inv'  OBVIOUS
  <1>t. TypeOK' /\ TypeOK /\ InOrder
    BY TypeNext DEF Inv, TokensSound
  (* What is left for a step that changes neither tokens nor password ...    *)
  <1>q. ASSUME UNCHANGED <<reset, era, uses>>, SurvivorsAreNew', done' <= era,
               \A s \in SessionId : session'[s] # None => session'[s].made <= era,
               Onward => \A p \in Proc : CallInOrder(p)'
        PROVE Inv'
    <2>1. InOrder'  BY <1>q, <1>t, TokensStay DEF InOrder
    <2> QED BY <1>q, <1>t, <2>1, TokensStay DEF Inv, TokensSound
  (* ... nor the sessions.                                                   *)
  <1>c. ASSUME UNCHANGED <<reset, era, uses, session, done>>,
               Onward => \A p \in Proc : CallInOrder(p)'
        PROVE Inv'
    BY <1>c, <1>q, <1>t, TokensStay, SessionsStay
  <1>1. ASSUME NEW p \in Proc, NEW c \in Context, Login(p, c) PROVE Inv'
    BY <1>1, <1>c, CallsStay DEF Login
  <1>2. ASSUME NEW p \in Proc, NEW s \in SessionId, CreatesSession(p, s) PROVE Inv'
    <2>1. \A r \in SessionId :
            session'[r] = session[r] \/ session'[r].made = era
      BY <1>2, <1>t DEF CreatesSession, TypeOK
    <2>2. SurvivorsAreNew'
      BY <1>2, <1>t, <2>1 DEF Inv, InOrder, SurvivorsAreNew, CreatesSession
    <2>3. \A r \in SessionId : session'[r] # None => session'[r].made <= era
      BY <1>t, <2>1 DEF InOrder, TypeOK, Era
    <2> QED BY <1>2, <1>q, <1>t, <2>2, <2>3, CallsStay DEF CreatesSession, InOrder
  <1>3. ASSUME NEW p \in Proc, RecordsLogin(p) PROVE Inv'
    BY <1>3, <1>c, CallEnds DEF RecordsLogin
  <1>4. ASSUME NEW p \in Proc, RequestReset(p) PROVE Inv'
    BY <1>4, <1>c, CallIssues DEF RequestReset
  <1>5. ASSUME NEW p \in Proc, NEW t \in ResetToken, InsertsReset(p, t) PROVE Inv'
    <2> DEFINE seen == call[p].seen
    <2>1. seen \in SUBSET ResetToken /\ \A u \in ResetToken \cap seen : reset[u] # None
      BY <1>5, <1>t, CallFields DEF InsertsReset, InOrder, CallInOrder, TypeOK
    <2>2. /\ reset[t] = None /\ reset'[t] # None
          /\ ~reset'[t].consumed /\ reset'[t].born = era
          /\ \A u \in ResetToken : u # t => reset'[u] = Consume(seen)[u]
      <3>1. Consume(seen) \in [ResetToken -> ResetRow \cup {None}]
        BY <1>t, <2>1, ConsumeFacts
      <3>2. reset'[t] = [expiresAt |-> call[p].expiresAt, consumed |-> FALSE,
                         mailed |-> FALSE, born |-> era]
        BY <1>5, <3>1 DEF InsertsReset, Inserted
      <3> QED BY <1>5, <3>1, <3>2 DEF InsertsReset, Inserted, None
    <2>3. \A u \in ResetToken : u # t =>
            /\ reset'[u] = None <=> reset[u] = None
            /\ reset[u] # None => /\ reset'[u].born = reset[u].born
                                  /\ reset[u].consumed => reset'[u].consumed
      BY <1>t, <2>1, <2>2, ConsumeFacts
    <2>4. Onward /\ UNCHANGED <<era, uses, session, done>>
      BY <1>5, <1>t, <2>2, <2>3 DEF InsertsReset, Onward, TypeOK, Era
    <2>5. TokenOnce'  BY <2>4 DEF Inv, TokensSound, TokenOnce
    <2>6. OlderTokensDead'
      BY <2>2, <2>3, <2>4 DEF Inv, TokensSound, OlderTokensDead, Unconsumed
    <2>7. LinkRemains'  BY <2>2, <2>4 DEF LinkRemains, Unconsumed
    <2>8. \A q \in Proc : CallInOrder(q)'
      BY <1>5, <2>2, <2>4, CallsStay DEF InsertsReset
    <2>9. \A u \in ResetToken : reset'[u] # None => reset'[u].born <= era
      BY <1>t, <2>2, <2>3 DEF InOrder, TypeOK, Era
    <2>10. \A u \in ResetToken : reset'[u] = None \/ ~reset'[u].consumed => uses[u] = 0
      BY <1>t, <2>2, <2>3 DEF InOrder
    <2>11. InOrder'  BY <2>4, <2>8, <2>9, <2>10, SessionsStay DEF InOrder
    <2> QED BY <1>t, <2>4, <2>5, <2>6, <2>7, <2>11, SessionsStay DEF Inv, TokensSound
  <1>6. ASSUME NEW p \in Proc, NEW t \in ResetToken, Confirm(p, t) PROVE Inv'
    BY <1>6, <1>c, CallsStay DEF Confirm
  <1>7. ASSUME NEW p \in Proc, SendsMail(p) PROVE Inv'
    <2>1. PICK t \in ResetToken : t = call[p].token
      BY <1>7, <1>t, CallFields DEF SendsMail, TypeOK
    <2>2. reset[t] \in ResetRow
      BY <1>7, <1>t, <2>1, ResetFields DEF SendsMail, InOrder, CallInOrder
    <2>3. reset'[t] = [reset[t] EXCEPT !.mailed = TRUE]
      BY <1>7, <1>t, <2>1 DEF SendsMail, TypeOK
    <2>4. \A u \in ResetToken :
            /\ reset'[u] = None <=> reset[u] = None
            /\ reset[u] # None => /\ reset'[u].born = reset[u].born
                                  /\ reset'[u].consumed = reset[u].consumed
      BY <1>7, <1>t, <2>1, <2>2, <2>3 DEF SendsMail, TypeOK, ResetRow, None
    <2>5. Onward /\ UNCHANGED <<era, uses, session, done>>
      BY <1>7, <1>t, <2>4 DEF SendsMail, Onward, TypeOK, Era
    <2>6. TokenOnce' /\ OlderTokensDead' /\ LinkRemains'
      BY <2>4, <2>5 DEF Inv, TokensSound, TokenOnce, OlderTokensDead, LinkRemains, Unconsumed
    <2>7. InOrder'
      BY <1>7, <1>t, <2>4, <2>5, CallEnds, SessionsStay DEF SendsMail, InOrder
    <2> QED BY <1>t, <2>5, <2>6, <2>7, SessionsStay DEF Inv, TokensSound
  <1>8. ASSUME NEW p \in Proc, ConfirmWrites(p) PROVE Inv'
    <2>1. PICK t \in ResetToken : t = call[p].token
      BY <1>8, <1>t, CallFields DEF ConfirmWrites, TypeOK
    <2>2. t \in Unconsumed  BY <1>8, <2>1 DEF ConfirmWrites, Consumable
    <2>3. {t} \cup Unconsumed \subseteq {u \in ResetToken : reset[u] # None}
      BY <2>2 DEF Unconsumed
    <2>4. \A u \in ResetToken : uses'[u] # uses[u] => u \in Unconsumed /\ uses'[u] = uses[u] + 1
      <3>1. uses' = [uses EXCEPT ![t] = uses[t] + 1]  BY <1>8, <2>1 DEF ConfirmWrites
      <3> QED BY <1>t, <2>2, <3>1 DEF TypeOK
    <2>5. Onward => \A q \in Proc : CallInOrder(q)'
      BY <1>8, <1>t, CallsStay DEF ConfirmWrites, TypeOK, Era
    <2> QED BY <1>8, <1>t, <2>1, <2>3, <2>4, <2>5, PasswordChanges
            DEF ConfirmWrites, ConsumedBy
  <1>9. ASSUME NEW p \in Proc, ConfirmRefused(p) PROVE Inv'
    BY <1>9, <1>c, CallEnds DEF ConfirmRefused
  <1>10. ASSUME NEW p \in Proc, NEW s \in SessionId, NEW c \in Context, Change(p, s, c)
         PROVE Inv'
    BY <1>10, <1>c, CallIssues, CallsStay DEF Change
  <1>11. ASSUME NEW p \in Proc, ChangeWrites(p) PROVE Inv'
    <2>1. Unconsumed \subseteq {u \in ResetToken : reset[u] # None}  BY DEF Unconsumed
    <2>2. Onward => \A q \in Proc : CallInOrder(q)'
      BY <1>11, <1>t, CallsStay DEF ChangeWrites, TypeOK, Era
    <2>3. reset' = Consume(Unconsumed) /\ era' = era + 1 /\ UNCHANGED <<session, done, uses>>
      BY <1>11 DEF ChangeWrites
    <2> QED BY <1>t, <2>1, <2>2, <2>3, PasswordChanges
  <1>12. ASSUME NEW p \in Proc, DeletesSessions(p) PROVE Inv'
    <2>1. call[p].set \in Era /\ call[p].set <= era
      BY <1>12, <1>t, CallFields DEF DeletesSessions, InOrder, CallInOrder, TypeOK
    <2>2. \A s \in SessionId :
            session'[s] # None => /\ session[s] # None /\ ~session'[s].live
                                  /\ session'[s].made = session[s].made
      BY <1>12, <1>t, SessionFields DEF DeletesSessions, Deleted, Gone, SessionRow
    <2>3. SurvivorsAreNew'  BY <2>2 DEF SurvivorsAreNew
    <2>4. done' <= era  BY <1>12, <1>t, <2>1 DEF DeletesSessions, InOrder
    <2> QED BY <1>12, <1>q, <1>t, <2>2, <2>3, <2>4, CallEnds DEF DeletesSessions, InOrder
  <1>13. ASSUME NEW p \in Proc, CallFails(p) PROVE Inv'
    BY <1>13, <1>c, CallEnds DEF CallFails
  <1>14. ASSUME NEW s \in SessionId, Refreshes(s) PROVE Inv'
    <2>1. session[s] \in SessionRow  BY <1>14, <1>t, SessionFields DEF Refreshes
    <2>2. \A r \in SessionId :
            session'[r] # None => /\ session[r] # None
                                  /\ session'[r].live = session[r].live
                                  /\ session'[r].made = session[r].made
      BY <1>14, <1>t, <2>1 DEF Refreshes, TypeOK, SessionRow
    <2>3. SurvivorsAreNew'  BY <1>14, <2>2 DEF Inv, SurvivorsAreNew, Refreshes
    <2> QED BY <1>14, <1>q, <1>t, <2>2, <2>3, CallStays DEF Refreshes, InOrder
  <1>15. ASSUME UNCHANGED <<call, reset, era, uses, session, done>> PROVE Inv'
    BY <1>15, <1>c, CallStays
  <1> QED BY <1>1, <1>2, <1>3, <1>4, <1>5, <1>6, <1>7, <1>8, <1>9, <1>10, <1>11, <1>12,
             <1>13, <1>14, <1>15 DEF Next, Suspend, ClockTicks, vars

LEMMA Invariance == Spec => []Inv
  BY InvInit, InvNext, PTL DEF Spec
-----------------------------------------------------------------------------
(* Rows and calls are well typed; a mailed token changes the password at most*)
(* once, and never after another change of it                                *)
(* (consumeResetAndChangePassword, changePassword).                          *)
THEOREM TokensAreSound == Spec => []TokensSound
  BY Invariance, PTL DEF Inv

(* However requests for a link race, the links of the current password are   *)
(* never all revoked (replaceActiveReset).                                   *)
THEOREM ALinkRemains == Spec => []LinkRemains
  BY Invariance, PTL DEF Inv

(* When a change of the password has answered, the sessions that are left    *)
(* were created after it (deleteForUser).                                    *)
THEOREM SurvivorsAreNewer == Spec => []SurvivorsAreNew
  BY Invariance, PTL DEF Inv
=============================================================================
