-------------------------- MODULE MCObjectDatabase --------------------------
(* Instance of ObjectDatabase for TLC.  A key with two values, so that an  *)
(* object parsed from one may be cached with the other, and a second key,  *)
(* so that versions of one outlive those of the other.                     *)
EXTENDS ObjectDatabase, TLC

CONSTANTS v1, v2, k1, k2, x1, x2
Symmetry == Permutations({v1, v2})

MCInit == InitOn((k1 :> x1) @@ (k2 :> None))
MCWriting == \E v \in Views : Write(v, k1, x2) \/ Write(v, k1, None) \/ Write(v, k2, x1)
MCNext == Reading \/ Opening \/ MCWriting \/ Leaving \/ ClearCache
MCSpec == MCInit /\ [][MCNext]_vars
=============================================================================
