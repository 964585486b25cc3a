------------------------------ MODULE Account ------------------------------
(* One user's password and what it opens: login, reset by mail and change.   *)
(*                                                                           *)
(* A password is named by the change that set it: `era' is the one in force  *)
(* and also how often it was changed.  Every handler is split at its awaits, *)
(* and replaceActiveReset between its two statements, since READ COMMITTED   *)
(* lets a second one run in between.  The other transactions are one step,   *)
(* at their last statement.  Sessions are rows here; module Session has      *)
(* their tokens and caches.                                                  *)
EXTENDS Integers

CONSTANTS
  ResetToken,   \* tokens ever mailed
  SessionId,    \* sessions ever created
  Context,      \* pairs of IP address and region
  Proc,         \* handlers under way
  PerSecond,    \* clock ticks per second: an access token carries its second
  ResetTtl,     \* lifetime of a reset token
  MaxTime, MaxEra, MaxFaults

VARIABLES
  clock,
  active,    \* the user's status is ACTIVE
  user,      \* passwordChangedAt, lastLoginIp and lastLoginRegion
  era,       \* the password in force
  reset,     \* rows of pass_resets, and whether the mail went out
  session,   \* rows of auth_sessions, with the second of the newest access token
  call,      \* the await each handler is at
  faults,
  done,      \* history: the last change whose handler also deleted the sessions
  uses       \* history: how often a token changed the password

vars == <<clock, active, user, era, reset, session, call, faults, done, uses>>

None == [row |-> "none"]
Never == -1
Idle == [op |-> "idle"]

ASSUME AccountAssumption ==
  /\ PerSecond \in Nat \ {0} /\ ResetTtl \in Nat
  /\ MaxTime \in Nat /\ MaxEra \in Nat /\ MaxFaults \in Nat

Second(t) == t \div PerSecond

IsIdle(p) == call[p] = Idle
Goes(p, c) == call' = [call EXCEPT ![p] = c]
Ends(p) == Goes(p, Idle)

Unconsumed == {t \in ResetToken : reset[t] # None /\ ~reset[t].consumed}
Consume(S) == [t \in ResetToken |->
                 IF t \in S THEN [reset[t] EXCEPT !.consumed = TRUE] ELSE reset[t]]

Init ==
  /\ clock = 0 /\ active = TRUE /\ era = 0
  /\ user \in [changedAt : {Never}, context : Context]
  /\ reset = [t \in ResetToken |-> None]
  /\ session = [s \in SessionId |-> None]
  /\ call = [p \in Proc |-> Idle]
  /\ faults = 0 /\ done = 0
  /\ uses = [t \in ResetToken |-> 0]

-----------------------------------------------------------------------------
(* Login: the password is compared with the hash read before.                *)
Login(p, c) ==
  /\ IsIdle(p) /\ active
  /\ Goes(p, [op |-> "login", read |-> era, context |-> c])
  /\ UNCHANGED <<clock, active, user, era, reset, session, faults, done, uses>>

CreatesSession(p, s) ==
  /\ call[p].op = "login" /\ session[s] = None
  /\ session' = [session EXCEPT ![s] = [live |-> TRUE, read |-> call[p].read,
                                        made |-> era, issued |-> Second(clock)]]
  /\ Goes(p, [op |-> "record", context |-> call[p].context])
  /\ UNCHANGED <<clock, active, user, era, reset, faults, done, uses>>

RecordsLogin(p) ==
  /\ call[p].op = "record"
  /\ user' = [user EXCEPT !.context = call[p].context]
  /\ Ends(p)
  /\ UNCHANGED <<clock, active, era, reset, session, faults, done, uses>>

(* A refresh: the session's next access token is younger (module Session).   *)
Refreshes(s) ==
  /\ session[s] # None /\ session[s].live /\ session[s].issued < Second(clock)
  /\ session' = [session EXCEPT ![s].issued = Second(clock)]
  /\ UNCHANGED <<clock, active, user, era, reset, call, faults, done, uses>>

-----------------------------------------------------------------------------
(* replaceActiveReset: the rows its updateMany finds, then the new row.      *)
Issues(p) ==
  Goes(p, [op |-> "issue", seen |-> Unconsumed, expiresAt |-> clock + ResetTtl])

RequestReset(p) ==
  /\ IsIdle(p) /\ active
  /\ Issues(p)
  /\ UNCHANGED <<clock, active, user, era, reset, session, faults, done, uses>>

Inserted_ConsumesLast(p, t) ==
  LET r == [expiresAt |-> call[p].expiresAt, consumed |-> TRUE, mailed |-> FALSE, born |-> era]
  IN  [Consume(call[p].seen) EXCEPT ![t] = r]
Inserted(p, t) ==
  [Consume(call[p].seen) EXCEPT ![t] =
     [expiresAt |-> call[p].expiresAt, consumed |-> FALSE, mailed |-> FALSE, born |-> era]]

InsertsReset(p, t) ==
  /\ call[p].op = "issue" /\ reset[t] = None
  /\ reset' = Inserted(p, t)
  /\ Goes(p, [op |-> "mail", token |-> t])
  /\ UNCHANGED <<clock, active, user, era, session, faults, done, uses>>

SendsMail(p) ==
  /\ call[p].op = "mail"
  /\ reset' = [reset EXCEPT ![call[p].token].mailed = TRUE]
  /\ Ends(p)
  /\ UNCHANGED <<clock, active, user, era, session, faults, done, uses>>

(* confirm: the token as read, the user, the new hash.                       *)
Confirm(p, t) ==
  /\ IsIdle(p) /\ active
  /\ t \in Unconsumed /\ reset[t].mailed /\ reset[t].expiresAt > clock
  /\ Goes(p, [op |-> "confirm", token |-> t, now |-> clock])
  /\ UNCHANGED <<clock, active, user, era, reset, session, faults, done, uses>>

(* consumeResetAndChangePassword repeats the conditions in its updateMany.   *)
Consumable_StaleRead(t, now) == reset[t] # None /\ reset[t].expiresAt > now
Consumable(t, now) == t \in Unconsumed /\ reset[t].expiresAt > now
ConsumedBy(t) == Consume({t} \cup Unconsumed)

ConfirmWrites(p) ==
  LET t == call[p].token IN
  /\ call[p].op = "confirm" /\ Consumable(t, call[p].now) /\ era < MaxEra
  /\ reset' = ConsumedBy(t)
  /\ user' = [user EXCEPT !.changedAt = call[p].now]
  /\ era' = era + 1
  /\ uses' = [uses EXCEPT ![t] = @ + 1]
  /\ Goes(p, [op |-> "delete", by |-> "token", read |-> era, set |-> era + 1])
  /\ UNCHANGED <<clock, active, session, faults, done>>

ConfirmRefused(p) ==
  /\ call[p].op = "confirm" /\ ~Consumable(call[p].token, call[p].now)
  /\ Ends(p)
  /\ UNCHANGED <<clock, active, user, era, reset, session, faults, done, uses>>

-----------------------------------------------------------------------------
(* changeAuthenticated.  The guard let the access token in: its session is   *)
(* there, or still cached by an instance.                                    *)
TokenStands(s) == user.changedAt = Never \/ session[s].issued >= Second(user.changedAt)

Change(p, s, c) ==
  /\ IsIdle(p) /\ active
  /\ session[s] # None /\ TokenStands(s)
  /\ \/ c # user.context /\ Issues(p)
     \/ c = user.context /\ Goes(p, [op |-> "change", read |-> era])
  /\ UNCHANGED <<clock, active, user, era, reset, session, faults, done, uses>>

(* changePassword has no condition.                                          *)
ChangeWrites(p) ==
  /\ call[p].op = "change" /\ era < MaxEra
  /\ reset' = Consume(Unconsumed)
  /\ user' = [user EXCEPT !.changedAt = clock]
  /\ era' = era + 1
  /\ Goes(p, [op |-> "delete", by |-> "password", read |-> call[p].read, set |-> era + 1])
  /\ UNCHANGED <<clock, active, session, faults, done, uses>>

(* deleteForUser, by the controllers, after the use case.                    *)
Gone == [s \in SessionId |->
           IF session[s] = None THEN None ELSE [session[s] EXCEPT !.live = FALSE]]
Deleted_OnlyOnChange(p) == IF call[p].by = "password" THEN Gone ELSE session
Deleted(p) == Gone

DeletesSessions(p) ==
  /\ call[p].op = "delete"
  /\ session' = Deleted(p)
  /\ done' = IF done < call[p].set THEN call[p].set ELSE done
  /\ Ends(p)
  /\ UNCHANGED <<clock, active, user, era, reset, faults, uses>>

-----------------------------------------------------------------------------
CallFails(p) ==
  /\ ~IsIdle(p) /\ faults < MaxFaults
  /\ Ends(p)
  /\ faults' = faults + 1
  /\ UNCHANGED <<clock, active, user, era, reset, session, done, uses>>

Suspend ==
  /\ active /\ active' = FALSE
  /\ UNCHANGED <<clock, user, era, reset, session, call, faults, done, uses>>

ClockTicks ==
  /\ clock < MaxTime /\ clock' = clock + 1
  /\ UNCHANGED <<active, user, era, reset, session, call, faults, done, uses>>

Next ==
  \/ \E p \in Proc :
       \/ \E c \in Context : Login(p, c)
       \/ \E s \in SessionId : CreatesSession(p, s)
       \/ RecordsLogin(p)
       \/ RequestReset(p)
       \/ \E t \in ResetToken : InsertsReset(p, t) \/ Confirm(p, t)
       \/ SendsMail(p) \/ ConfirmWrites(p) \/ ConfirmRefused(p)
       \/ \E s \in SessionId, c \in Context : Change(p, s, c)
       \/ ChangeWrites(p) \/ DeletesSessions(p) \/ CallFails(p)
  \/ \E s \in SessionId : Refreshes(s)
  \/ Suspend \/ ClockTicks

Spec == Init /\ [][Next]_vars
-----------------------------------------------------------------------------
Era == 0..MaxEra
ResetRow == [expiresAt : Nat, consumed : BOOLEAN, mailed : BOOLEAN, born : Era]
SessionRow == [live : BOOLEAN, read : Era, made : Era, issued : Nat]
CallType ==
  {Idle}
  \cup [op : {"login"}, read : Era, context : Context]
  \cup [op : {"record"}, context : Context]
  \cup [op : {"issue"}, seen : SUBSET ResetToken, expiresAt : Nat]
  \cup [op : {"mail"}, token : ResetToken]
  \cup [op : {"confirm"}, token : ResetToken, now : Nat]
  \cup [op : {"change"}, read : Era]
  \cup [op : {"delete"}, by : {"token", "password"}, read : Era, set : Era]

(* The rows and handlers are what the schema and the code make them.         *)
TypeOK ==
  /\ clock \in Nat /\ active \in BOOLEAN /\ era \in Era
  /\ user \in [changedAt : Nat \cup {Never}, context : Context]
  /\ reset \in [ResetToken -> ResetRow \cup {None}]
  /\ session \in [SessionId -> SessionRow \cup {None}]
  /\ call \in [Proc -> CallType]
  /\ faults \in Nat /\ done \in Era
  /\ uses \in [ResetToken -> Nat]

(* A reset token changes the password once, whoever presents it at the same  *)
(* time (consumeResetAndChangePassword).                                     *)
TokenOnce == \A t \in ResetToken : uses[t] <= 1

(* No token issued before a change of the password works after it, whether   *)
(* the change came from another token or from a signed-in user.              *)
OlderTokensDead == \A t \in Unconsumed : reset[t].born = era

(* Requests that race revoke one another's tokens but never the last one: a  *)
(* user who asked for a link since the last change has one that works (until *)
(* it expires).                                                              *)
LinkRemains ==
  (\E t \in ResetToken : reset[t] # None /\ reset[t].born = era)
    => \E t \in Unconsumed : reset[t].born = era

(* Once a change has answered, every session that is left was created after  *)
(* the change.                                                               *)
SurvivorsAreNew == \A s \in SessionId : session[s] # None /\ session[s].live => session[s].made >= done

(* What a mailed token can do, with all types: change the password once, and *)
(* only while no other change came after it.                                 *)
TokensSound == TypeOK /\ TokenOnce /\ OlderTokensDead

(* What the three invariants above rest on, step by step: nothing names a    *)
(* password that was not set yet, a call knows a token only once its row is  *)
(* there, and a token that was not consumed changed nothing.                 *)
CallInOrder(p) ==
  /\ call[p].op = "issue" => \A t \in call[p].seen : reset[t] # None
  /\ call[p].op = "mail" => reset[call[p].token] # None
  /\ call[p].op = "delete" => call[p].set <= era
InOrder ==
  /\ done <= era
  /\ \A t \in ResetToken : reset[t] # None => reset[t].born <= era
  /\ \A t \in ResetToken : reset[t] = None \/ ~reset[t].consumed => uses[t] = 0
  /\ \A s \in SessionId : session[s] # None => session[s].made <= era
  /\ \A p \in Proc : CallInOrder(p)

Inv == TokensSound /\ LinkRemains /\ SurvivorsAreNew /\ InOrder
=============================================================================
