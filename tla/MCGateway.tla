------------------------------ MODULE MCGateway ------------------------------
(***************************************************************************)
(* Two calls of one org on its default bucket, three requests of one       *)
(* administrator, a limit of two in a window of two.  max_tokens 3 is 4    *)
(* with the buffer, and 7 wraps to -8.                        *)
(***************************************************************************)
EXTENDS Gateway, TLC

CONSTANTS
    admin, o1,
    CallTime    \* bound: calls are under way no later than this

ASSUME CallTime \in Nat

OneClient == [r \in Request |-> admin]
OneOrg == {o1}
MCDefaultBucket == [o \in Org |-> NoName]
MCHook == {"own"}
MCMaxTokens == {0, 3, 7}
MCUsage == {1}
MCGrant == {2}
Indistinct == Permutations(Call) \cup Permutations(Request)

(***************************************************************************)
(* Bound: the limiter reads and writes nothing of the calls, nor they of   *)
(* it, so every order of stamps, locks, ticks and restarts is tried while  *)
(* no call is under way, and calls begin only after requests that were all *)
(* decided, or all lost, at once.  Handlers of the admitted requests, the  *)
(* restarts and the clock go on among the calls.                           *)
(***************************************************************************)
CallsAfterLimiter ==
    (\E c \in Call : pc[c] # "idle") =>
        /\ now <= CallTime
        /\ \A r \in Request : locked[r] = 0
        /\ \/ \A r \in Request : verdict[r] \in {"admitted", "refused"}
           \/ \A r \in Request : verdict[r] = "lost"

MCSpec == GatewayInit /\ [][GatewayNext /\ CallsAfterLimiter']_gatewayVars
=============================================================================
