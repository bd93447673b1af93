------------------------- MODULE MCRequestLifecycle -------------------------
(***************************************************************************)
(* One or two exchanges over one bucket.  Each .cfg says whether they share *)
(* a request id: with SharedId, x2 is a client's retry of x1, or an id two *)
(* clients happen to choose.                                               *)
(***************************************************************************)
EXTENDS RequestLifecycle

CONSTANTS x1, x2, i1, i2, b1

SharedId == [x \in Exchange |-> i1]
OwnId == [x \in Exchange |-> IF x = x2 THEN i2 ELSE i1]
OneBucket == [x \in Exchange |-> b1]

\* A single exchange that names a bucket, one that names none.
SomeBucket == [x \in Exchange |-> IF x = x2 THEN NoBucket ELSE b1]

\* x1 is answered by an event stream, x2 by a JSON body.
Kinds == [x \in Exchange |-> IF x = x2 THEN "json" ELSE "stream"]

\* Below what an upstream may report, and more than half a bucket.
MCEstimate == [x \in Exchange |-> 2]
MCUsage == {3}
MCUsages == {1, 3}
MCHugeUsage == {6}
MCGrant == {3}
MCMaxFunds == 3
=============================================================================
