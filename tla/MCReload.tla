------------------------------ MODULE MCReload ------------------------------
(* Instances of Reload for TLC. *)
EXTENDS Reload, TLC

MCHooks == <<"valkey", "local">>
MCRp == 0 :> "none" @@ 1 :> "a" @@ 2 :> "b" @@ 3 :> "b"

NoPolicy == [edits |-> 0, calls |-> 0, faults |-> 0, drops |-> 0, starts |-> 0, loads |-> 0]
NoProvider == [edits |-> 0, calls |-> 0, faults |-> 0, drops |-> 0, starts |-> 0, notices |-> 0]
Still == [running |-> {"p"}, following |-> {}, policy |-> NoPolicy, follows |-> FALSE, provider |-> NoProvider, hashed |-> FALSE, touched |-> Keys,
          attached |-> [k \in Keys |-> 0]]
Policy == [Still EXCEPT !.following = Nodes]
Provider == [Still EXCEPT !.follows = TRUE, !.attached[Fido2] = 1, !.attached[Ldap] = 1]

(* Policies: two instances and lost notices; one whose tasks are dropped;  *)
(* a caller and a follower while requests fill the caches.  Providers: a  *)
(* follower alone, with notices and restarts; with an operator beside it.  *)
MCScenes ==
    {[Policy EXCEPT !.policy = [NoPolicy EXCEPT !.edits = 1, !.calls = 2, !.faults = 1]],
     [Policy EXCEPT !.following = {1}, !.policy =
        [edits |-> 1, calls |-> 1, faults |-> 1, drops |-> 1, starts |-> 1, loads |-> 0]],
     [Policy EXCEPT !.following = {1}, !.policy = [NoPolicy EXCEPT !.calls = 1, !.faults = 1, !.drops = 1, !.starts = 1, !.loads = 1]],
     [Provider EXCEPT !.provider = [edits |-> 2, calls |-> 0, faults |-> 1, drops |-> 1, starts |-> 1, notices |-> 2]],
     [Provider EXCEPT !.touched = {Fido2}, !.provider = [NoProvider EXCEPT !.edits = 2, !.calls = 2]],
     [Provider EXCEPT !.touched = OAuthKeys, !.provider = [NoProvider EXCEPT !.edits = 1, !.calls = 2]],
     [Provider EXCEPT !.provider = [NoProvider EXCEPT !.edits = 1, !.calls = 1, !.faults = 1, !.drops = 1, !.starts = 1]]}

(* A caller and a load, with nothing failing. *)
MCLate == {[Policy EXCEPT !.policy = [NoPolicy EXCEPT !.calls = 1, !.loads = 1]]}

MCRollback == {[Provider EXCEPT !.provider.edits = 3, !.hashed = TRUE]}
=============================================================================
