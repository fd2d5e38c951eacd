------------------------- MODULE MCRefreshRotation -------------------------
(* Instances of RefreshRotation for TLC. *)
EXTENDS RefreshRotation, TLC

CONSTANTS d1, i1

(* A client with a device and a string for it. *)
MCClients == {<<d1, i1>>}

(* Calls differ only in the steps they take. *)
MCSymmetry == Permutations(Calls)
=============================================================================
