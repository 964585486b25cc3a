------------------------------ MODULE RateLimit ------------------------------
(* RateLimitService.enforce: one counter per scope and identity, kept in the *)
(* database and shared by every instance.  The clocks of the instances may   *)
(* differ; a request takes its time first and reaches the database later.    *)
EXTENDS Integers

CONSTANTS
  Key, Request,
  Limit,       \* requests a window admits
  Window,      \* its length
  Retention,   \* how long an expired bucket is kept (24 hours)
  Skew,        \* how far a server's clock may be off
  MaxTime

RateLimitAssumption ==
  /\ Limit \in Nat \ {0} /\ Window \in Nat \ {0} /\ MaxTime \in Nat
  /\ Skew \in Nat /\ Retention \in Nat

VARIABLES
  clock,
  bucket,     \* rate_limit_buckets
  request,    \* before, on its way with the time it took, admitted or refused
  admitted,   \* history: requests admitted in the bucket's window
  opened      \* history: the time of the request that opened the window

vars == <<clock, bucket, request, admitted, opened>>

NoBucket == [count |-> 0, resetsAt |-> -1]

Init ==
  /\ clock = 0
  /\ bucket = [k \in Key |-> NoBucket]
  /\ request = [r \in Request |-> [at |-> "client"]]
  /\ admitted = [k \in Key |-> 0]
  /\ opened = [k \in Key |-> 0]

Arrives(r, k) ==
  /\ request[r].at = "client"
  /\ \E now \in clock - Skew .. clock + Skew :
       request' = [request EXCEPT ![r] = [at |-> "query", key |-> k, now |-> now]]
  /\ UNCHANGED <<clock, bucket, admitted, opened>>

(* The window is over at resetsAt itself.                                    *)
Over(b, now) == b = NoBucket \/ b.resetsAt <= now

(* The upsert: a new window, or one more request in this one.                *)
Upserted_Saturates(b, now) ==
  IF Over(b, now) THEN [count |-> 1, resetsAt |-> now + Window]
                  ELSE [b EXCEPT !.count = IF @ < Limit THEN @ + 1 ELSE @]
Upserted(b, now) ==
  IF Over(b, now) THEN [count |-> 1, resetsAt |-> now + Window]
                  ELSE [b EXCEPT !.count = @ + 1]

(* The same statement removes what expired long ago.                         *)
Kept_AheadOfTime(b, now) == IF b.resetsAt < now + Retention THEN NoBucket ELSE b
Kept(b, now) == IF b.resetsAt < now - Retention THEN NoBucket ELSE b

Enforces(r) ==
  LET k == request[r].key
      now == request[r].now
      b == Upserted(bucket[k], now)
      opens == Over(bucket[k], now)
      ok == b.count <= Limit
  IN
  /\ request[r].at = "query"
  /\ bucket' = [[j \in Key |-> Kept(bucket[j], now)] EXCEPT ![k] = b]
  /\ admitted' = [admitted EXCEPT ![k] =
       (IF opens THEN 0 ELSE @) + (IF ok THEN 1 ELSE 0)]
  /\ opened' = [opened EXCEPT ![k] = IF opens THEN now ELSE @]
  /\ request' = [request EXCEPT ![r] = [at |-> IF ok THEN "admitted" ELSE "refused"]]
  /\ UNCHANGED clock

ClockTicks ==
  /\ clock < MaxTime /\ clock' = clock + 1
  /\ UNCHANGED <<bucket, request, admitted, opened>>

Next ==
  \/ \E r \in Request : (\E k \in Key : Arrives(r, k)) \/ Enforces(r)
  \/ ClockTicks

Spec == Init /\ [][Next]_vars
-----------------------------------------------------------------------------
(* The buckets and requests are well-formed.                                 *)
TypeOK ==
  /\ clock \in 0..MaxTime
  /\ bucket \in [Key -> [count : Nat, resetsAt : Int]]
  /\ request \in [Request -> [at : {"client", "admitted", "refused"}]
                              \cup [at : {"query"}, key : Key, now : Int]]
  /\ admitted \in [Key -> Nat] /\ opened \in [Key -> Int]

(* However requests race, a window admits at most its limit.                 *)
Quota == \A k \in Key : admitted[k] <= Limit

(* Requests, refused ones included, do not put off the end of the window     *)
(* that refuses them: nobody who keeps trying is locked out for longer.      *)
NoLockout == \A k \in Key : bucket[k] # NoBucket => bucket[k].resetsAt <= opened[k] + Window

(* A window that has begun is honoured: a bucket is emptied or begins anew   *)
(* only when, but for the clocks' difference and the time a request was on   *)
(* its way, its window is over.                                              *)
WindowHonoured ==
  [][\A k \in Key : bucket'[k].resetsAt # bucket[k].resetsAt
                      => bucket[k].resetsAt <= clock + Skew]_vars

-----------------------------------------------------------------------------
(* The inductive invariant: the counter of a window has counted whatever it  *)
(* admitted, and no request took a time that no server's clock shows.        *)
Inv ==
  /\ TypeOK /\ Quota /\ NoLockout
  /\ \A k \in Key : bucket[k] # NoBucket => admitted[k] <= bucket[k].count
  /\ \A r \in Request : request[r].at = "query" => request[r].now <= clock + Skew
=============================================================================
