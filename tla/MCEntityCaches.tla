-------------------------- MODULE MCEntityCaches --------------------------
(* Instances of EntityCaches: two resources in one folder. *)
EXTENDS EntityCaches

CONSTANTS c1, c2, c3, i1, i2, p1, p2, t1, r1, r2, f

K1 == [principal |-> p1, tenant |-> t1, resource |-> r1, action |-> "read"]
K2 == [principal |-> p2, tenant |-> None, resource |-> r2, action |-> "read"]
K3 == [principal |-> p1, tenant |-> t1, resource |-> r1, action |-> "write"]

MCKeys == {K1, K2, K3}
MCFolder == r1 :> f @@ r2 :> f
(* p1 and p2 share a counter, and so do the folder and r2. *)
MCStripe == p1 :> 1 @@ p2 :> 1 @@ t1 :> 1 @@ r1 :> 1 @@ r2 :> 2 @@ f :> 2

Quiet == [layers |-> {"l1"}, callers |-> {c1, c2}, invs |-> {i1}, keys |-> {K1}, scopes |-> {},
          faults |-> FALSE, ticks |-> 0, cap |-> 1, lookups |-> 3, changes |-> 1]

OnP1 == [kind |-> "principal", of |-> p1]
OnT1 == [kind |-> "tenant", of |-> t1]
OnF == [kind |-> "resource", of |-> f]
OnR1 == [kind |-> "resource", of |-> r1]
All == [kind |-> "all"]
One == [kind |-> "one", of |-> K1]

MCScenes ==
    {\* the in-process cache: three requests for one key, failures and cancellations
     [Quiet EXCEPT !.callers = {c1, c2, c3}, !.scopes = {OnP1}, !.faults = TRUE],
     \* every scope, two keys of one principal and one of another
     [Quiet EXCEPT !.scopes = {OnP1, OnT1, OnF, OnR1, All, One}, !.keys = {K1, K2}, !.cap = 2, !.lookups = 2],
     \* two invalidations at once
     [Quiet EXCEPT !.invs = {i1, i2}, !.scopes = {OnP1, OnF}, !.changes = 2, !.lookups = 2],
     \* the list: capacity, hits and expiry
     [Quiet EXCEPT !.callers = {c1}, !.keys = {K1, K2, K3}, !.cap = 2, !.ticks = 1, !.lookups = 5, !.scopes = {OnP1}],
     \* Valkey alone
     [Quiet EXCEPT !.layers = {"l2"}, !.scopes = {OnP1}, !.changes = 2],
     [Quiet EXCEPT !.layers = {"l2"}, !.scopes = {OnT1, OnF, OnR1, All, One}, !.keys = {K1, K2}, !.lookups = 2],
     [Quiet EXCEPT !.layers = {"l2"}, !.scopes = {OnP1, OnR1}, !.faults = TRUE, !.ticks = 1],
     \* both
     [Quiet EXCEPT !.layers = {"l1", "l2"}, !.scopes = {OnP1, OnR1}, !.lookups = 2]}
(* Two requests are alike in every scene. *)
MCSymmetry == Permutations({c1, c2})
MCStacked == {[Quiet EXCEPT !.layers = {"l1", "l2"}, !.scopes = {OnP1}, !.lookups = 2]}
MCUnindexed == {[Quiet EXCEPT !.layers = {"l2"}, !.scopes = {OnF}, !.lookups = 2]}
MCOrphan == {[Quiet EXCEPT !.faults = TRUE, !.lookups = 2, !.changes = 0]}
=============================================================================
