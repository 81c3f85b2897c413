----------------------------- MODULE RateLimiter -----------------------------
(***************************************************************************)
(* The token buckets of the operator API (ratelimit.py and                 *)
(* rate_limit_middleware of heartbeat.py).  Every agent has a bucket, made *)
(* at its first request, that refills with time up to its capacity.  Time  *)
(* is in ticks, Second of them to a second; tokens are counted in parts, a *)
(* request costs Cost of them and a tick refills Refill.                   *)
(***************************************************************************)
EXTENDS Naturals

CONSTANTS
    Agents,    \* what resolve_agent_name can return
    Capacity,  \* parts in a full bucket
    Cost,      \* parts of one token
    Refill,    \* parts per tick
    Second,    \* ticks per second
    MaxTime    \* bound on time

ASSUME RateAssumption ==
    /\ Capacity \in Nat /\ Cost \in Nat \ {0} /\ Refill \in Nat \ {0}
    /\ Second \in Nat \ {0} /\ MaxTime \in Nat
    /\ Cost <= Capacity

VARIABLES
    now,
    bucket,    \* agent -> [made, tokens, at]
    since,     \* when the window of observation was opened
    admitted,  \* agent -> parts granted in the window
    promise    \* agent -> when a refused request was told to come back; 0: no promise

vars == <<now, bucket, since, admitted, promise>>

NoBucket == [made |-> FALSE, tokens |-> 0, at |-> 0]

Init ==
    /\ now = 0
    /\ bucket = [a \in Agents |-> NoBucket]
    /\ since = 0
    /\ admitted = [a \in Agents |-> 0]
    /\ promise = [a \in Agents |-> 0]

\* _get_or_create: a new bucket is full.
Bucket(a) == IF bucket[a].made THEN bucket[a]
             ELSE [made |-> TRUE, tokens |-> Capacity, at |-> now]

\* The tokens of a bucket at time now, in try_consume.
Filled(a) ==
    LET t == Bucket(a).tokens + (now - Bucket(a).at) * Refill
    IN  IF t < Capacity THEN t ELSE Capacity

\* try_consume with enough tokens: the request goes to its handler.
AdmitKeepsClock(a) ==
    /\ Filled(a) >= Cost
    /\ bucket' = [bucket EXCEPT ![a] = [made |-> TRUE, tokens |-> Filled(a) - Cost, at |-> Bucket(a).at]]
    /\ admitted' = [admitted EXCEPT ![a] = @ + Cost]
    /\ promise' = [promise EXCEPT ![a] = 0]
    /\ UNCHANGED <<now, since>>

Admit(a) ==
    /\ Filled(a) >= Cost
    /\ bucket' = [bucket EXCEPT ![a] = [made |-> TRUE, tokens |-> Filled(a) - Cost, at |-> now]]
    /\ admitted' = [admitted EXCEPT ![a] = @ + Cost]
    /\ promise' = [promise EXCEPT ![a] = 0]
    /\ UNCHANGED <<now, since>>

\* retry_after: the time until the deficit is refilled, in ticks rounded up.
Deficit(a) == Cost - Filled(a)
RetryTicks(a) == (Deficit(a) + Refill - 1) \div Refill

\* The Retry-After header: whole seconds, rounded up, at least one.
RetryAfter(ticks) ==
    LET s == (ticks + Second - 1) \div Second IN IF s > 1 THEN s ELSE 1

\* try_consume without: 429.  The first promise of a series stands.
Refuse(a) ==
    /\ Filled(a) < Cost
    /\ bucket' = [bucket EXCEPT ![a] = [made |-> TRUE, tokens |-> Filled(a), at |-> now]]
    /\ promise' = [promise EXCEPT ![a] = IF @ = 0 THEN now + RetryAfter(RetryTicks(a)) * Second ELSE @]
    /\ UNCHANGED <<now, since, admitted>>

Tick ==
    /\ now < MaxTime
    /\ now' = now + 1
    /\ UNCHANGED <<bucket, since, admitted, promise>>

\* Observation starts again: any moment may open a window.
Open ==
    /\ since # now
    /\ since' = now
    /\ admitted' = [a \in Agents |-> 0]
    /\ UNCHANGED <<now, bucket, promise>>

Next == Tick \/ Open \/ \E a \in Agents : Admit(a) \/ Refuse(a)
Spec == Init /\ [][Next]_vars

-----------------------------------------------------------------------------
(* Properties *)

\* Every variable is of its type.
TypeOK ==
    /\ now \in 0..MaxTime /\ since \in 0..now
    /\ bucket \in [Agents -> [made : BOOLEAN, tokens : Nat, at : Nat]]
    /\ \A a \in Agents : bucket[a].tokens <= Capacity /\ bucket[a].at <= now
    /\ admitted \in [Agents -> Nat] /\ promise \in [Agents -> Nat]

\* In every window of time an agent is granted at most one burst and what
\* refills meanwhile, however its requests are spaced.
WindowBound == \A a \in Agents : admitted[a] <= Capacity + (now - since) * Refill

\* What makes it inductive: the grants of the window and what the bucket
\* still holds stay within that budget.
BudgetInvariant ==
    \A a \in Agents : admitted[a] + Filled(a) <= Capacity + (now - since) * Refill

\* An agent that comes back when Retry-After said, and has not been granted
\* anything in between, is not refused again.
RetryAfterHolds ==
    [][\A a \in Agents : promise[a] # 0 /\ promise[a] <= now /\ bucket'[a] # bucket[a]
        => promise'[a] = 0]_vars
=============================================================================
