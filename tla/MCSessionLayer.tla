--------------------------- MODULE MCSessionLayer ---------------------------
(* Instances of SessionLayer for TLC. *)
EXTENDS SessionLayer, TLC

CONSTANTS r1, r2, r3, k1, k2, c1, c2, alice, bob, seedLogin, seedValue

MCBag(S) == [k \in Keys |-> IF k \in S THEN seedValue ELSE NoVal]

MCRow(auth, S) == [DefaultData EXCEPT !.auth = auth, !.custom = MCBag(S), !.revision = 1]

(* A guest session that holds a value, and a logged-in one that does. *)
MCSeeds == {MCRow(Guest, {k1}), MCRow(set_authenticated(alice, seedLogin), {k1})}

(* A guest session that holds a value. *)
MCGuestSeed == {MCRow(Guest, {k1})}

(* A logged-in session with an empty bag. *)
MCAuthedSeed == {MCRow(set_authenticated(alice, seedLogin), {})}

(* Sessions with an empty bag: two requests may fill it at once. *)
MCEmptySeeds == {MCRow(Guest, {}), MCRow(set_authenticated(alice, seedLogin), {})}

(* Requests differ only in the steps they take. *)
MCSymmetry == Permutations(Requests)
=============================================================================
