------------------------------- MODULE Session -------------------------------
(* Sessions, refresh tokens and access checks: SessionService in             *)
(* src/src/core/auth, as login, refresh, logout, password changes, the HTTP  *)
(* guard and the exam sockets call it. The rows are shared; every server     *)
(* instance has its own cache of sessions it found active.                   *)
(*                                                                           *)
(* call[p] says at which await a call is, and on which instance. An instance *)
(* runs one piece of code between two awaits at a time. Its cacheEpoch is    *)
(* only ever compared with its value when a lookup began: c.fresh says that  *)
(* it has not moved since.                                                   *)
EXTENDS Integers, FiniteSets

CONSTANTS
  User, SessionId, Token,
  Owner,               \* the user a session id is drawn for
  FamilyOf,            \* the session id a refresh token's text starts with
  Instance, Proc,
  RefreshTtl, AccessTtl,
  CacheSize,           \* MAX_CACHED_SESSIONS
  MaxTime, MaxFaults   \* bounds of the model

ASSUME SessionAssumption ==
  /\ Owner \in [SessionId -> User] /\ FamilyOf \in [Token -> SessionId]
  /\ IsFiniteSet(SessionId) /\ "none" \notin Token
  /\ RefreshTtl \in Nat \ {0} /\ AccessTtl \in Nat \ {0} /\ CacheSize \in Nat \ {0}
  /\ MaxTime \in Nat /\ MaxFaults \in Nat

VARIABLES
  session,  \* auth_sessions
  token,    \* auth_refresh_tokens: none, unused or used
  active,   \* users whose status is ACTIVE
  cache,    \* cache[i][s]: until when instance i takes s for active
  call, clock, faults,
  dead,     \* history: when a session was first revoked or deleted
  barred    \* history: sessions whose revocation or deletion returned on i

vars == <<session, token, active, cache, call, clock, faults, dead, barred>>
-----------------------------------------------------------------------------
Absent == 0          \* not in the cache
Unset == -1

NoSession == [token |-> "none"]
Row == [token : Token, expiresAt : Nat, revoked : BOOLEAN]
Family(s) == {t \in Token : FamilyOf[t] = s}

Exists(s) == session[s].token # "none"
Live(s) == Exists(s) /\ ~session[s].revoked
Of(u) == {s \in SessionId : Owner[s] = u}

Idle == [op |-> "idle"]
RotateCall == [op : {"rotate"}, at : Instance, token : Token, now : Nat]
SessionCall == [op : {"rotated", "revoke", "revoked"}, at : Instance, session : SessionId]
UserCall == [op : {"revokeUser", "deleteUser", "clearUser"}, at : Instance, user : User]
LookupCall == [op : {"lookup"}, at : Instance, session : SessionId, now : Nat,
               fresh : BOOLEAN]
FoundCall == [op : {"found"}, at : Instance, session : SessionId, now : Nat,
              fresh : BOOLEAN, expiresAt : Nat]
Call == {Idle} \cup RotateCall \cup SessionCall \cup UserCall \cup LookupCall \cup FoundCall

Become(p, c) == call' = [call EXCEPT ![p] = c]
Finish(p) == Become(p, Idle)

(* invalidateSession / invalidateUserSessions, at the end of call p: the     *)
(* epoch moves under every lookup of the instance.                           *)
Invalidate(p, i, S) ==
  /\ cache' = [cache EXCEPT ![i] =
                 [s \in SessionId |-> IF s \in S THEN Absent ELSE cache[i][s]]]
  /\ call' = [q \in Proc |->
       IF q = p THEN Idle
       ELSE IF call[q].op \in {"lookup", "found"} /\ call[q].at = i
            THEN [call[q] EXCEPT !.fresh = FALSE] ELSE call[q]]

Buries(S) ==
  dead' = [s \in SessionId |->
             IF s \in S /\ dead[s] = Unset THEN clock ELSE dead[s]]

Init ==
  /\ session = [s \in SessionId |-> NoSession]
  /\ token = [t \in Token |-> "none"]
  /\ active = User
  /\ cache = [i \in Instance |-> [s \in SessionId |-> Absent]]
  /\ call = [p \in Proc |-> Idle]
  /\ clock = 0 /\ faults = 0
  /\ dead = [s \in SessionId |-> Unset]
  /\ barred = [i \in Instance |-> {}]
-----------------------------------------------------------------------------
(* create: one insert with its first token. UUIDs are never drawn twice.     *)
Create(s) ==
  /\ ~Exists(s) /\ dead[s] = Unset
  /\ \E t \in Family(s) :
       /\ token[t] = "none"
       /\ token' = [token EXCEPT ![t] = "unused"]
       /\ session' = [session EXCEPT ![s] = [token |-> t, revoked |-> FALSE,
                                             expiresAt |-> clock + RefreshTtl]]
  /\ UNCHANGED <<active, cache, call, clock, faults, dead, barred>>
-----------------------------------------------------------------------------
(* rotate.                                                                   *)
Renewable(s) == Live(s) /\ session[s].expiresAt > clock /\ Owner[s] \in active

(* The token and its session are read.                                       *)
RotateReads(p, i, t) ==
  LET s == FamilyOf[t] IN
  /\ call[p] = Idle
  /\ token[t] = "unused" /\ Renewable(s)
  /\ Become(p, [op |-> "rotate", at |-> i, token |-> t, now |-> clock])
  /\ UNCHANGED <<session, token, active, cache, clock, faults, dead, barred>>

RotateDetectsReuse(p, i, t) ==
  /\ call[p] = Idle
  /\ token[t] = "used"
  /\ Become(p, [op |-> "revoke", at |-> i, session |-> FamilyOf[t]])
  /\ UNCHANGED <<session, token, active, cache, clock, faults, dead, barred>>

RotateRefuses(p, i, t) ==
  /\ call[p] = Idle
  /\ token[t] = "unused" /\ ~Renewable(FamilyOf[t])
  /\ Invalidate(p, i, {FamilyOf[t]})
  /\ UNCHANGED <<session, token, active, clock, faults, dead, barred>>

(* The transaction: claim the token, move the session on to a new one.       *)
Claims(c) == token[c.token] = "unused"
MovesOn(c) ==
  LET s == FamilyOf[c.token] IN
  Live(s) /\ session[s].token = c.token /\ session[s].expiresAt > c.now

NextToken(s) == {t \in Family(s) : token[t] = "none"}

RotateCommits_KeepsOld(p) ==
  LET c == call[p]  s == FamilyOf[c.token] IN
  /\ c.op = "rotate" /\ Claims(c) /\ MovesOn(c)
  /\ \E n \in NextToken(s) :
       /\ token' = [token EXCEPT ![n] = "unused"]
       /\ session' = [session EXCEPT ![s].token = n]
  /\ Become(p, [op |-> "rotated", at |-> c.at, session |-> s])
  /\ UNCHANGED <<active, cache, clock, faults, dead, barred>>
RotateCommits(p) ==
  LET c == call[p]  s == FamilyOf[c.token] IN
  /\ c.op = "rotate" /\ Claims(c) /\ MovesOn(c)
  /\ \E n \in NextToken(s) :
       /\ token' = [token EXCEPT ![c.token] = "used", ![n] = "unused"]
       /\ session' = [session EXCEPT ![s].token = n]
  /\ Become(p, [op |-> "rotated", at |-> c.at, session |-> s])
  /\ UNCHANGED <<active, cache, clock, faults, dead, barred>>

(* Another call was first, or the session is gone: what was claimed stays    *)
(* claimed, and the whole family is revoked.                                 *)
RotateLoses_Quietly(p) ==
  LET c == call[p] IN
  /\ c.op = "rotate" /\ ~(Claims(c) /\ MovesOn(c))
  /\ token' = IF Claims(c) THEN [token EXCEPT ![c.token] = "used"] ELSE token
  /\ Finish(p)
  /\ UNCHANGED <<session, active, cache, clock, faults, dead, barred>>
RotateLoses(p) ==
  LET c == call[p] IN
  /\ c.op = "rotate" /\ ~(Claims(c) /\ MovesOn(c))
  /\ token' = IF Claims(c) THEN [token EXCEPT ![c.token] = "used"] ELSE token
  /\ Become(p, [op |-> "revoke", at |-> c.at, session |-> FamilyOf[c.token]])
  /\ UNCHANGED <<session, active, cache, clock, faults, dead, barred>>

RotateReturns(p) ==
  /\ call[p].op = "rotated"
  /\ Invalidate(p, call[p].at, {call[p].session})
  /\ UNCHANGED <<session, token, active, clock, faults, dead, barred>>
-----------------------------------------------------------------------------
(* revoke (logout, reuse), revokeForUser, deleteForUser.                     *)
Logout(p, i, s) ==
  /\ call[p] = Idle /\ Exists(s)
  /\ Become(p, [op |-> "revoke", at |-> i, session |-> s])
  /\ UNCHANGED <<session, token, active, cache, clock, faults, dead, barred>>

RevokeCommits(p) ==
  LET s == call[p].session IN
  /\ call[p].op = "revoke" /\ Exists(s)
  /\ session' = [session EXCEPT ![s].revoked = TRUE]
  /\ Buries({s})
  /\ call' = [call EXCEPT ![p].op = "revoked"]
  /\ UNCHANGED <<token, active, cache, clock, faults, barred>>

(* No row (the user's sessions were deleted): the cache is left as it is.    *)
RevokeMisses(p) ==
  /\ call[p].op = "revoke" /\ ~Exists(call[p].session)
  /\ Finish(p)
  /\ UNCHANGED <<session, token, active, cache, clock, faults, dead, barred>>

RevokeReturns(p) ==
  LET c == call[p] IN
  /\ c.op = "revoked"
  /\ Invalidate(p, c.at, {c.session})
  /\ barred' = [barred EXCEPT ![c.at] = @ \cup {c.session}]
  /\ UNCHANGED <<session, token, active, clock, faults, dead>>

RevokeForUser(p, i, u) ==
  /\ call[p] = Idle
  /\ \E op \in {"revokeUser", "deleteUser"} : Become(p, [op |-> op, at |-> i, user |-> u])
  /\ UNCHANGED <<session, token, active, cache, clock, faults, dead, barred>>

RevokesUser(p) ==
  LET S == {s \in Of(call[p].user) : Live(s)} IN
  /\ call[p].op = "revokeUser"
  /\ session' = [s \in SessionId |->
                   IF s \in S THEN [session[s] EXCEPT !.revoked = TRUE] ELSE session[s]]
  /\ Buries(S)
  /\ call' = [call EXCEPT ![p].op = "clearUser"]
  /\ UNCHANGED <<token, active, cache, clock, faults, barred>>

(* The tokens go with their sessions (onDelete: Cascade).                    *)
DeletesUser(p) ==
  LET S == {s \in Of(call[p].user) : Exists(s)} IN
  /\ call[p].op = "deleteUser"
  /\ session' = [s \in SessionId |-> IF s \in S THEN NoSession ELSE session[s]]
  /\ token' = [t \in Token |-> IF FamilyOf[t] \in S THEN "none" ELSE token[t]]
  /\ Buries(S)
  /\ call' = [call EXCEPT ![p].op = "clearUser"]
  /\ UNCHANGED <<active, cache, clock, faults, barred>>

(* Every session of the user that was dead by then is barred here from now.  *)
ClearsUser(p) ==
  LET c == call[p] IN
  /\ c.op = "clearUser"
  /\ Invalidate(p, c.at, Of(c.user))
  /\ barred' = [barred EXCEPT ![c.at] = @ \cup {s \in Of(c.user) : dead[s] # Unset}]
  /\ UNCHANGED <<session, token, active, clock, faults, dead>>
-----------------------------------------------------------------------------
(* authenticateAccessToken. A hit changes nothing; anything else is looked up*)
(* in the rows, and cached unless the epoch moved meanwhile.                 *)
Lookup(p, i, s) ==
  /\ call[p] = Idle
  /\ cache[i][s] <= clock
  /\ cache' = [cache EXCEPT ![i][s] = Absent]
  /\ Become(p, [op |-> "lookup", at |-> i, session |-> s, now |-> clock, fresh |-> TRUE])
  /\ UNCHANGED <<session, token, active, clock, faults, dead, barred>>

Active(c) ==
  /\ Live(c.session) /\ session[c.session].expiresAt > c.now
  /\ Owner[c.session] \in active

LookupFinds(p) ==
  LET c == call[p] IN
  /\ c.op = "lookup" /\ Active(c)
  /\ Become(p, [op |-> "found", at |-> c.at, session |-> c.session, now |-> c.now,
                fresh |-> c.fresh, expiresAt |-> session[c.session].expiresAt])
  /\ UNCHANGED <<session, token, active, cache, clock, faults, dead, barred>>

LookupMisses(p) ==
  /\ call[p].op = "lookup" /\ ~Active(call[p])
  /\ Finish(p)
  /\ UNCHANGED <<session, token, active, cache, clock, faults, dead, barred>>

(* cacheSession: the oldest entry makes room for a new one (here: any entry).*)
Cached(i) == {s \in SessionId : cache[i][s] # Absent}
Full(S) == Cardinality(S) >= CacheSize

Caches(i, s, until) ==
  LET others == Cached(i) \ {s} IN
  IF Full(others)
  THEN \E r \in others : cache' = [cache EXCEPT ![i][r] = Absent, ![i][s] = until]
  ELSE cache' = [cache EXCEPT ![i][s] = until]

Until_FromAnswer(c) ==
  IF c.expiresAt < clock + AccessTtl THEN c.expiresAt ELSE clock + AccessTtl
Until(c) == IF c.expiresAt < c.now + AccessTtl THEN c.expiresAt ELSE c.now + AccessTtl

LookupReturns_AnyEpoch(p) ==
  LET c == call[p] IN
  /\ c.op = "found"
  /\ Caches(c.at, c.session, Until(c))
  /\ Finish(p)
  /\ UNCHANGED <<session, token, active, clock, faults, dead, barred>>
LookupReturns(p) ==
  LET c == call[p] IN
  /\ c.op = "found"
  /\ IF c.fresh THEN Caches(c.at, c.session, Until(c)) ELSE UNCHANGED cache
  /\ Finish(p)
  /\ UNCHANGED <<session, token, active, clock, faults, dead, barred>>
-----------------------------------------------------------------------------
(* The environment.                                                          *)
ClockTicks ==
  /\ clock < MaxTime /\ clock' = clock + 1
  /\ UNCHANGED <<session, token, active, cache, call, faults, dead, barred>>

(* A user is suspended or reinstated in the database.                        *)
ChangeStatus(u) ==
  /\ faults < MaxFaults /\ faults' = faults + 1
  /\ active' = IF u \in active THEN active \ {u} ELSE active \cup {u}
  /\ UNCHANGED <<session, token, cache, call, clock, dead, barred>>

(* A query throws, or its client stops waiting for a dead instance.          *)
CallFails(p) ==
  /\ call[p] # Idle /\ faults < MaxFaults /\ faults' = faults + 1
  /\ Finish(p)
  /\ UNCHANGED <<session, token, active, cache, clock, dead, barred>>

(* An instance restarts: its calls and its cache are gone.                   *)
Restart(i) ==
  /\ faults < MaxFaults /\ faults' = faults + 1
  /\ cache' = [cache EXCEPT ![i] = [s \in SessionId |-> Absent]]
  /\ call' = [p \in Proc |->
                IF call[p] # Idle /\ call[p].at = i THEN Idle ELSE call[p]]
  /\ UNCHANGED <<session, token, active, clock, dead, barred>>

Rotate(p) ==
  \/ \E i \in Instance, t \in Token :
       RotateReads(p, i, t) \/ RotateDetectsReuse(p, i, t) \/ RotateRefuses(p, i, t)
  \/ RotateCommits(p) \/ RotateLoses(p) \/ RotateReturns(p)

Revoke(p) ==
  \/ \E i \in Instance, s \in SessionId : Logout(p, i, s)
  \/ RevokeCommits(p) \/ RevokeMisses(p) \/ RevokeReturns(p)
  \/ \E i \in Instance, u \in User : RevokeForUser(p, i, u)
  \/ RevokesUser(p) \/ DeletesUser(p) \/ ClearsUser(p)

Authenticate(p) ==
  \/ \E i \in Instance, s \in SessionId : Lookup(p, i, s)
  \/ LookupFinds(p) \/ LookupMisses(p) \/ LookupReturns(p)

Next ==
  \/ \E s \in SessionId : Create(s)
  \/ \E p \in Proc : Rotate(p) \/ Revoke(p) \/ Authenticate(p) \/ CallFails(p)
  \/ ClockTicks
  \/ \E u \in User : ChangeStatus(u)
  \/ \E i \in Instance : Restart(i)

Spec == Init /\ [][Next]_vars

(* Queries return: a call that began goes on. Nothing makes a client call.   *)
Continues(p) ==
  \/ RotateCommits(p) \/ RotateLoses(p) \/ RotateReturns(p)
  \/ RevokeCommits(p) \/ RevokeMisses(p) \/ RevokeReturns(p)
FairSpec == Spec /\ \A p \in Proc : WF_vars(Continues(p))
-----------------------------------------------------------------------------
TypeOK ==
  /\ session \in [SessionId -> Row \cup {NoSession}]
  /\ \A s \in SessionId : Exists(s) => session[s].token \in Family(s)
  /\ token \in [Token -> {"none", "unused", "used"}]
  /\ active \subseteq User
  /\ cache \in [Instance -> [SessionId -> Nat]]
  /\ call \in [Proc -> Call] /\ clock \in Nat /\ faults \in Nat
  /\ dead \in [SessionId -> Nat \cup {Unset}]
  /\ barred \in [Instance -> SUBSET SessionId]

(* A live session has exactly one refresh token that can still be used, the  *)
(* current one: no fork of the family, no lock-out.                          *)
OneUsableToken ==
  \A s \in SessionId : Live(s) =>
    {t \in Family(s) : token[t] = "unused"} = {session[s].token}

(* A spent token presented again ends its session: a refresh that was beaten *)
(* to its token, or that finds it used, revokes the whole family; only a     *)
(* call that fails in between, which nothing retries, may leave it alive.    *)
Revoking(s) ==
  \E p \in Proc :
    \/ call[p].op = "rotate" /\ FamilyOf[call[p].token] = s /\ ~Claims(call[p])
    \/ call[p].op = "revoke" /\ call[p].session = s
ReplayEndsSession == \A s \in SessionId : Revoking(s) ~> ~Live(s) \/ faults > 0

(* Once a revocation or deletion returned on an instance, that instance never*)
(* again takes the session for active from its cache, whatever lookups were  *)
(* under way.  (A lookup that had read the row before still answers its own  *)
(* request.)                                                                 *)
BarredStaysOut ==
  \A i \in Instance : \A s \in barred[i] : cache[i][s] = Absent

(* Another instance takes a dead session for active no longer than the life  *)
(* of an access token after its death.                                       *)
StaleAtMostTtl ==
  \A i \in Instance, s \in SessionId :
    dead[s] # Unset => cache[i][s] <= dead[s] + AccessTtl

(* The cache never outgrows its limit.                                       *)
CacheBounded == \A i \in Instance : Cardinality(Cached(i)) <= CacheSize

(* Revoked credentials are rejected, by every instance.                      *)
RevokedRejected ==
  \A i, j \in Instance : \A s \in barred[j] : cache[i][s] <= clock
-----------------------------------------------------------------------------
(* The inductive invariant.                                                  *)

(* A session that was once revoked or deleted never comes back to life; its  *)
(* tokens are gone when its row is.                                          *)
RowsOK ==
  \A s \in SessionId :
    /\ Live(s) => dead[s] = Unset
    /\ ~Exists(s) => \A t \in Family(s) : token[t] = "none"
    /\ dead[s] <= clock

CachesOK ==
  \A i \in Instance :
    /\ \A s \in SessionId : cache[i][s] <= clock + AccessTtl
    /\ \A s \in barred[i] : dead[s] # Unset

(* What a call knows between two awaits.                                     *)
CallOK(p) ==
  LET c == call[p] IN
  /\ c.op = "rotate" => IF Exists(FamilyOf[c.token])
                        THEN session[FamilyOf[c.token]].expiresAt > c.now
                        ELSE dead[FamilyOf[c.token]] # Unset
  /\ c.op = "revoked" => dead[c.session] # Unset
  /\ c.op \in {"lookup", "found"} => c.now <= clock
  /\ c.op = "found" =>
       /\ dead[c.session] # Unset => c.now <= dead[c.session]
       /\ c.fresh => c.session \notin barred[c.at]

Inv ==
  /\ TypeOK /\ OneUsableToken /\ BarredStaysOut /\ StaleAtMostTtl
  /\ RowsOK /\ CachesOK /\ \A p \in Proc : CallOK(p)
=============================================================================
