----------------------------- MODULE SessionData -----------------------------
(***************************************************************************)
(* The session payload (axess-core/src/session/data.rs) and the three-way  *)
(* merge of a session two requests wrote at once (session/data/merge.rs).  *)
(*                                                                         *)
(* The custom bag is a function from Keys to Values with NoVal for an      *)
(* absent key; a bag that is not a JSON object counts as empty, as it does *)
(* in merge_custom.  The schema version, the device id and the refresh     *)
(* stamp follow the same field rule as the fingerprint and are left out.   *)
(* An authenticated state carries the login that produced it (the code's   *)
(* authn_time and factors), which tells two logins of one user apart.      *)
(***************************************************************************)
EXTENDS Naturals, FiniteSets

CONSTANTS
    Keys, Values, NoVal,      \* custom-bag keys and values
    Preserved,                \* with_preserved_custom_keys, and the flow key
    Users, NoUser,
    Logins, NoLogin,          \* one per completed login
    Clients, NoFp,            \* a client stands for the fingerprint it yields
    MaxKeys                   \* max_custom_bytes, counted in keys; 0 is no cap

ASSUME DataAssumption ==
    /\ NoVal \notin Values /\ NoUser \notin Users
    /\ NoLogin \notin Logins /\ NoFp \notin Clients
    /\ Preserved \subseteq Keys
    /\ IsFiniteSet(Keys)
    /\ MaxKeys \in Nat

(* AuthState.  "StepUp" is the Authenticating variant that begin_step_up   *)
(* makes of an Authenticated one: it keeps the login's factors.            *)
Kinds == {"Guest", "Authenticating", "StepUp", "Authenticated"}

Guest == [kind |-> "Guest", user |-> NoUser, login |-> NoLogin]

AuthState ==
    {Guest} \cup [kind : {"Authenticating"}, user : Users, login : {NoLogin}]
            \cup [kind : {"StepUp", "Authenticated"}, user : Users, login : Logins]

Bag == [Keys -> Values \cup {NoVal}]

EmptyBag == [k \in Keys |-> NoVal]

Data == [auth : AuthState, custom : Bag, fp : Clients \cup {NoFp}, revision : Nat]

DefaultData == [auth |-> Guest, custom |-> EmptyBag, fp |-> NoFp, revision |-> 0]

begin_authenticating(u) == [kind |-> "Authenticating", user |-> u, login |-> NoLogin]

set_authenticated(u, l) == [kind |-> "Authenticated", user |-> u, login |-> l]

is_authenticated(auth) == auth.kind = "Authenticated"

begin_step_up(auth) == [auth EXCEPT !.kind = "StepUp"]

finish_step_up(auth) == [auth EXCEPT !.kind = "Authenticated"]

retain_across_login(bag) == [k \in Keys |-> IF k \in Preserved THEN bag[k] ELSE NoVal]

cap_custom(bag) ==
    IF MaxKeys > 0 /\ Cardinality({k \in Keys : bag[k] # NoVal}) > MaxKeys
    THEN EmptyBag
    ELSE bag

-----------------------------------------------------------------------------
(* merge.rs: the local value when this request changed it, else the stored *)
(* one; key by key in the bag.  keep says whether a key only the stored    *)
(* bag holds is carried over.                                              *)

pick(base, local, fresh) == IF local # base THEN local ELSE fresh

(* Bug: a key this request only carries wins over the stored bag, so one a *)
(* concurrent request took comes back.                                     *)
merge_bags_local_wins(base, local, fresh, keep) ==
    [k \in Keys |-> IF local[k] # NoVal THEN local[k]
                    ELSE IF keep THEN fresh[k] ELSE NoVal]

merge_bags(base, local, fresh, keep) ==
    [k \in Keys |->
        IF base[k] # local[k] THEN local[k]
        ELSE IF keep \/ local[k] # NoVal THEN fresh[k]
        ELSE NoVal]

merge(base, local, fresh, keep) ==
    [auth     |-> pick(base.auth, local.auth, fresh.auth),
     custom   |-> merge_bags(base.custom, local.custom, fresh.custom, keep),
     fp       |-> pick(base.fp, local.fp, fresh.fp),
     revision |-> fresh.revision]

merge_concurrent(base, local, fresh) == merge(base, local, fresh, TRUE)

(* Bug: a login carries over keys written to the retired row meanwhile. *)
merge_rotating_keeping(base, local, fresh) == merge(base, local, fresh, TRUE)

merge_rotating(base, local, fresh) ==
    merge(base, local, fresh, local.auth = base.auth)

=============================================================================
