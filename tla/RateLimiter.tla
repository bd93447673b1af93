------------------------------ MODULE RateLimiter ------------------------------
(***************************************************************************)
(* The rate limiter of the admin API: a sliding window of admitted         *)
(* requests per client, kept in the memory of the process.                 *)
(*                                                                         *)
(* allow reads the clock first and takes the lock after, so requests may   *)
(* be decided in another order than that of their stamps, and any time     *)
(* later.  locked is history: nothing in the program keeps it, or the      *)
(* verdicts of requests that have left the window.                         *)
(***************************************************************************)
EXTENDS Integers, FiniteSets

CONSTANTS
    Request,    \* requests to /admin/ that carry the API key
    ClientOf,   \* ClientOf[r]: the address clientIP finds for r
    Limit,      \* rateLimiter.limit
    Window,     \* rateLimiter.window
    MaxTime     \* bound: the clock stops there

Client == {ClientOf[r] : r \in Request}

ASSUME LimiterAssumption ==
    /\ IsFiniteSet(Request)
    /\ Limit \in Nat \ {0} /\ Window \in Nat \ {0} /\ MaxTime \in Nat

VARIABLES
    now,        \* the clock
    verdict,    \* verdict[r]: "none", "stamped", "admitted", "refused", or "lost"
    stamp,      \* stamp[r]: the time allow read before it waited for the lock
    locked,     \* locked[r]: the time r had the lock
    hits        \* hits[k]: the requests whose stamps the window of client k holds

limiterVars == <<now, verdict, stamp, locked, hits>>

LimiterInit ==
    /\ now = 0
    /\ verdict = [r \in Request |-> "none"]
    /\ stamp = [r \in Request |-> 0]
    /\ locked = [r \in Request |-> 0]
    /\ hits = [k \in Client |-> {}]

\* A request is authenticated, and allow reads the clock.
Arrive(r) ==
    /\ verdict[r] = "none"
    /\ verdict' = [verdict EXCEPT ![r] = "stamped"]
    /\ stamp' = [stamp EXCEPT ![r] = now]
    /\ UNCHANGED <<now, locked, hits>>

\* A seeded bug: the window is one tick short.
KeptLoosely(r) == {q \in hits[ClientOf[r]] : stamp[q] > stamp[r] - Window + 1}

\* A seeded bug: the edge of the window belongs to it.
KeptTooLong(r) == {q \in hits[ClientOf[r]] : stamp[q] >= stamp[r] - Window}

\* What allow keeps of the window: the stamps after its own cutoff.
Kept(r) == {q \in hits[ClientOf[r]] : stamp[q] > stamp[r] - Window}

\* allow, under the lock: the window is filtered in place and, if it has room,
\* takes the stamp of r.
Decide(r) ==
    LET room == Cardinality(Kept(r)) < Limit
    IN  /\ verdict[r] = "stamped"
        /\ hits' = [hits EXCEPT ![ClientOf[r]] = IF room THEN Kept(r) \cup {r} ELSE Kept(r)]
        /\ verdict' = [verdict EXCEPT ![r] = IF room THEN "admitted" ELSE "refused"]
        /\ locked' = [locked EXCEPT ![r] = now]
        /\ UNCHANGED <<now, stamp>>

\* The process ends: its windows are gone, and with them what it was deciding.
LimiterRestart ==
    /\ hits' = [k \in Client |-> {}]
    /\ verdict' = [r \in Request |-> IF verdict[r] = "none" THEN "none" ELSE "lost"]
    /\ UNCHANGED <<now, stamp, locked>>

Tick ==
    /\ now < MaxTime
    /\ now' = now + 1
    /\ UNCHANGED <<verdict, stamp, locked, hits>>

LimiterNext ==
    \/ \E r \in Request : Arrive(r) \/ Decide(r)
    \/ LimiterRestart
    \/ Tick

LimiterSpec == LimiterInit /\ [][LimiterNext]_limiterVars

-----------------------------------------------------------------------------
Admitted(k) == {r \in Request : ClientOf[r] = k /\ verdict[r] = "admitted"}

\* What one process admits of a client in any span as long as the window, of
\* requests that both came and were decided in it, is no more than the limit, in
\* whatever order the lock was had.  (Requests that came in the span and waited
\* for the lock beyond it may exceed it; the code promises no more.)
WithinLimit ==
    \A k \in Client, s \in -Window..MaxTime :
        Cardinality({r \in Admitted(k) : stamp[r] > s /\ locked[r] <= s + Window}) <= Limit

\* A request is refused only for as many others of its client, admitted before it
\* was refused, none of them older than the window: what has left the window, and
\* what was itself refused, is not counted.
RefusedAtLimit ==
    \A r \in Request :
        verdict[r] = "refused" =>
            Cardinality({q \in Admitted(ClientOf[r]) :
                             stamp[q] > stamp[r] - Window /\ locked[q] <= locked[r]}) >= Limit
=============================================================================
