--------------------------- MODULE MCProvisioning ---------------------------
(***************************************************************************)
(* Ids and keys are drawn at random by the code: any permutation of them   *)
(* is the same behaviour, as is any permutation of the deliveries, the     *)
(* sessions and the addresses.                                             *)
(***************************************************************************)
EXTENDS Provisioning, TLC

Symmetric ==
    UNION {Permutations(Delivery), Permutations(Session), Permutations(Org),
           Permutations(Key), Permutations(Email)}
=============================================================================
