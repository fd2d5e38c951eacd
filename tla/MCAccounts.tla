----------------------------- MODULE MCAccounts -----------------------------
(* Instances of Accounts for TLC. *)
EXTENDS Accounts, TLC

CONSTANTS l1, l2, l3

MCSymmetry == Permutations(Logins)

Quiet == [method |-> "password", timed |-> TRUE, outage |-> "Lock", known |-> FALSE,
          logins |-> 2, guesses |-> 2, tokens |-> 0, resets |-> 0, faults |-> 0, ticks |-> FALSE, admin |-> {}]

(* Logins against a suspension, against resets, against each other at the  *)
(* session limit, against the lockout, with one-time codes, and with calls *)
(* that fail.                                                              *)
MCLoginScenes ==
    {[Quiet EXCEPT !.admin = {"suspend"}, !.guesses = 3],
     [Quiet EXCEPT !.admin = {"suspend"}, !.logins = 1, !.tokens = 1, !.resets = 2],
     [Quiet EXCEPT !.tokens = 1, !.resets = 1],
     [Quiet EXCEPT !.tokens = 2, !.resets = 2, !.logins = 1],
     [Quiet EXCEPT !.tokens = 1, !.resets = 1, !.logins = 1, !.faults = 1, !.ticks = TRUE, !.admin = {"delete"}],
     [Quiet EXCEPT !.logins = 3, !.guesses = 3],
     [Quiet EXCEPT !.guesses = 4, !.ticks = TRUE, !.known = TRUE, !.timed = FALSE],
     [Quiet EXCEPT !.method = "hotp", !.logins = 3, !.guesses = 3],
     [Quiet EXCEPT !.method = "hotp", !.guesses = 3, !.ticks = TRUE],
     [Quiet EXCEPT !.faults = 2, !.outage = "Allow", !.guesses = 3]}

OneLogin == [Quiet EXCEPT !.logins = 1]
NoLogin == [Quiet EXCEPT !.logins = 0]
MCScenes == MCLoginScenes \cup {OneLogin, NoLogin}

(* An erasure and a login. *)
MCErasure == {[Quiet EXCEPT !.admin = {"delete"}, !.logins = 1]}

-----------------------------------------------------------------------------
Ensure(user) == [kind |-> "ensure", user |-> user]
Resolve(user, id, session) == [kind |-> "resolve", user |-> user, id |-> id, session |-> session]
Promote(id, on_login) == [kind |-> "promote", id |-> id, on_login |-> on_login]
On(kind, id) == [kind |-> kind, id |-> id]
Set(id, level) == [kind |-> "set", id |-> id, level |-> level]
Cred(kind, id, cred) == [kind |-> kind, id |-> id, cred |-> cred]
Sweep == [kind |-> "sweep"]

Row(user, level) == [NewRow(user, 0, {}) EXCEPT !.level = level]
TokenRow(user, level) == [Row(user, level) EXCEPT !.bindings = {[cred |-> "token", used |-> 0]}]

Roles(a, b, c) == 1 :> a @@ 2 :> b @@ 3 :> c
NoDevices == [rows |-> [d \in {} |-> Absent], cached |-> FALSE, roles |-> Roles({}, {}, {}), calls |-> 0, time |-> 0]
CachedDevices == [NoDevices EXCEPT !.cached = TRUE]

(* A user's and nobody's first sightings in parallel, over the life of the *)
(* guard; nobody's device met by two users; a revocation or a deletion of  *)
(* a device in use; edits of its bindings; a sweep of devices in use; a    *)
(* save and a deletion among lookups that prune.                           *)
MCDevicePlans ==
    {[NoDevices EXCEPT !.roles = Roles({Ensure("u")}, {Ensure("u"), Set(1, "Revoked")}, {}), !.calls = 3, !.time = 3],
     [NoDevices EXCEPT !.roles = Roles({Ensure(NoUser)}, {Ensure(NoUser), Set(1, "Revoked")}, {}), !.calls = 3, !.time = 3],
     [NoDevices EXCEPT !.rows = 1 :> Row(NoUser, "Seen"), !.calls = 3, !.time = 1,
                       !.roles = Roles({Ensure("u")}, {Ensure("v")}, {Set(1, "Revoked"), Ensure(NoUser)})],
     [CachedDevices EXCEPT !.rows = 1 :> TokenRow("u", "Unknown"), !.calls = 3, !.time = 1,
                           !.roles = Roles({Resolve("u", 1, NoId), Promote(1, FALSE)},
                                           {Set(1, "Revoked"), On("delete", 1)}, {Resolve("u", NoId, 1)})],
     [CachedDevices EXCEPT !.rows = 1 :> Row("u", "Seen"), !.calls = 3, !.time = 1,
                           !.roles = Roles({Cred("bind", 1, "a"), Cred("use", 1, "a")}, {Cred("bind", 1, "b")},
                                           {Set(1, "Revoked"), Promote(1, FALSE)})],
     [CachedDevices EXCEPT !.rows = 1 :> Row("u", "Trusted") @@ 2 :> Row("u", "Seen"), !.calls = 3, !.time = 4,
                           !.roles = Roles({Sweep}, {Promote(1, FALSE), Resolve("u", NoId, 2)}, {})],
     [NoDevices EXCEPT !.rows = 1 :> TokenRow(NoUser, "Seen"), !.calls = 4,
                       !.roles = Roles({On("save", 1), Resolve("u", 1, NoId)},
                                       {On("delete", 1), Set(1, "Revoked"), Set(1, "Trusted")},
                                       {Ensure("u"), Resolve(NoUser, 1, NoId)})]}

(* A login from a device that is revoked meanwhile. *)
MCLoginPlan ==
    [CachedDevices EXCEPT !.rows = 1 :> TokenRow("u", "Unknown"), !.calls = 3,
                          !.roles = Roles({Resolve("u", 1, NoId)}, {Promote(1, TRUE)}, {Set(1, "Revoked")})]

MCPlansOf(s) == IF s = NoLogin THEN MCDevicePlans ELSE IF s = OneLogin THEN {MCLoginPlan} ELSE {NoDevices}
=============================================================================
