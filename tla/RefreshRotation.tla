-------------------------- MODULE RefreshRotation --------------------------
(***************************************************************************)
(* Refresh tokens: issue under a cap, rotation on use, detection of a      *)
(* rotated-out token that is used again, and the cascade to its device     *)
(* (session/refresh/rotation.rs, rotation/pipeline.rs, device_check.rs,    *)
(* device_binding.rs, device/cascade.rs, device/cascade_store.rs), over    *)
(* the SQL store of examples/sqlite, each store call a step of its own.    *)
(*                                                                         *)
(* Records are numbered in the order they are written.  The plaintext of a *)
(* token is the number of the record that first stored it and the id of a  *)
(* family that of its first record, as the random values of the code are.  *)
(***************************************************************************)
EXTENDS Integers, FiniteSets

CONSTANTS
    Calls,         \* refresh and logout calls, each made once
    Users, Devices, Infos,
    Clients,       \* the <<device, device string>> pairs logins come with
    NoDevice, NoInfo, NoToken,
    MaxTokens,     \* bound: records written
    MaxTime,       \* bound: the clock
    MaxEvents,     \* bound: revocations and changes from outside
    MaxSkew,       \* how far a node's clock is from the store's
    Ttl,           \* RefreshTokenConfig::ttl
    MaxLifetime,   \* RefreshTokenConfig::max_lifetime
    Grace,         \* RefreshTokenConfig::reuse_grace
    MaxPerUser,    \* RefreshTokenConfig::max_per_user
    Rotations,     \* the values RefreshTokenConfig::rotation may have
    MayFail,       \* a store call may return an error, without effect
    Revocations    \* what else ends tokens: "user", "device", "logout", "suspend", "pepper", "owner"

ASSUME RefreshAssumption ==
    /\ MaxTokens \in Nat /\ MaxTime \in Nat /\ MaxSkew \in Nat /\ MaxEvents \in Nat
    /\ Ttl \in Nat \ {0} /\ MaxLifetime \in Nat /\ MaxLifetime >= Ttl
    /\ Grace \in Nat /\ MaxPerUser \in Nat \ {0}
    /\ Rotations \subseteq BOOLEAN /\ MayFail \in BOOLEAN
    /\ NoToken \notin 1 .. MaxTokens
    /\ NoDevice \notin Devices /\ NoInfo \notin Infos
    /\ Clients \subseteq (Devices \cup {NoDevice}) \X (Infos \cup {NoInfo})

VARIABLES
    token,     \* the refresh_tokens table: the record of each id
    written,   \* how many records were written
    clock,
    pepper,    \* the current hash_pepper; the one before it is previous_hash_pepper
    trust,     \* the device store: "ok", "revoked" or "other" (another owner)
    inactive,  \* users the status check refuses
    rotation,  \* RefreshTokenConfig::rotation, which never changes
    call,      \* locals of each call
    events,    \* how many revocations and changes from outside there were
    revoking,  \* devices revoke_device has marked and not yet taken the tokens of
    \* history, read by no action:
    swept      \* families that revoke_family ended

vars == <<token, written, clock, pepper, trust, inactive, rotation, call, events, revoking, swept>>

Ids == 1 .. MaxTokens
Reasons == {"rotated", "explicit", "evicted", "compromise", "device"}
Bindings == {NoInfo} \cup (Infos \X {1, 2})

Token == [plain : Ids, pepper : {1, 2}, user : Users, family : Ids, device : Devices \cup {NoDevice},
          info : Bindings, issued : Nat, expires : Nat, authn : Nat,
          reason : Reasons \cup {"live"}, at : Nat]

ASSUME TokenAssumption == NoToken \notin Token

Stored == {i \in Ids : token[i] # NoToken}
Live == {i \in Stored : token[i].reason = "live"}

(* find_token: the record of a hash; a plaintext has one record per pepper. *)
find_token(plain, pep) ==
    LET hits == {i \in Stored : token[i].plain = plain /\ token[i].pepper = pep}
    IN  IF hits = {} THEN NoToken ELSE CHOOSE i \in hits : TRUE

(* A revocation never overwrites the reason of a token that is revoked.    *)
(* Its time, revoked_at, is kept for a rotation; of others no one reads it.*)
revoke(ids, reason, at) ==
    [i \in Ids |-> IF i \in ids /\ i \in Live
                   THEN [token[i] EXCEPT !.reason = reason, !.at = at]
                   ELSE token[i]]

OfUser(u) == {i \in Stored : token[i].user = u}
OfFamily(f) == {i \in Stored : token[i].family = f}
OfDevice(d) == {i \in Stored : token[i].device = d}

Earlier(a, b) == IF a <= b THEN a ELSE b
Distance(a, b) == IF a <= b THEN b - a ELSE a - b

lifetime_end(authn) == authn + MaxLifetime

token_expired(t, now) == now >= t.expires \/ now >= lifetime_end(t.authn)

(* device_binding::bind: the digest of a device string under a pepper. *)
bind(info, pep) == IF info = NoInfo THEN NoInfo ELSE <<info, pep>>

(* device_binding::verify, the digest taken under the record's own pepper. *)
verify(t, presented) == t.info = NoInfo \/ (presented # NoInfo /\ t.info = bind(presented, t.pepper))

(* build_refresh_token for a login: a family of its own. *)
build_refresh_token(id, u, d, info, now) ==
    [plain |-> id, pepper |-> pepper, user |-> u, family |-> id, device |-> d,
     info |-> bind(info, pepper), issued |-> now,
     expires |-> Earlier(now + Ttl, lifetime_end(now)), authn |-> now,
     reason |-> "live", at |-> 0]

(* Bug: the replacement counts its lifetime from the refresh. *)
replacement_for_relogin(t, id, now, presented) ==
    [t EXCEPT !.plain = IF rotation THEN id ELSE t.plain, !.pepper = pepper, !.issued = now,
              !.info = IF t.info = NoInfo THEN NoInfo ELSE bind(presented, pepper),
              !.authn = now, !.expires = now + Ttl]

(* Bug: the replacement keeps the digest of the record it replaces. *)
replacement_for_old_digest(t, id, now, presented) ==
    [t EXCEPT !.plain = IF rotation THEN id ELSE t.plain, !.pepper = pepper, !.issued = now,
              !.expires = IF rotation THEN Earlier(now + Ttl, lifetime_end(t.authn)) ELSE t.expires]

(* replacement_for: the child that takes over, under the current pepper.   *)
(* Without rotation it is the same plaintext, moved, and ends when it was  *)
(* due to.                                                                 *)
replacement_for(t, id, now, presented) ==
    [t EXCEPT !.plain = IF rotation THEN id ELSE t.plain,
              !.pepper = pepper,
              !.info = IF t.info = NoInfo THEN NoInfo ELSE bind(presented, pepper),
              !.issued = now,
              !.expires = IF rotation THEN Earlier(now + Ttl, lifetime_end(t.authn)) ELSE t.expires]

-----------------------------------------------------------------------------
NewCall == [op |-> "refresh", at |-> "idle", plain |-> NoToken, presented |-> NoInfo, now |-> 0,
            id |-> NoToken, targets |-> {}, target |-> NoDevice, answer |-> "none"]

Init ==
    /\ token = [i \in Ids |-> NoToken]
    /\ written = 0
    /\ clock = 0
    /\ pepper = 1
    /\ trust = [d \in Devices |-> "ok"]
    /\ inactive = {}
    /\ rotation \in Rotations
    /\ call = [c \in Calls |-> NewCall]
    /\ events = 0
    /\ revoking = {}
    /\ swept = {}

At(c, place) == call[c].at = place
Go(c, place) == call' = [call EXCEPT ![c].at = place]

(* A call that has answered keeps what the properties read of it. *)
Answered(k, answer) ==
    IF answer \in {"session", "revoked"}
    THEN [NewCall EXCEPT !.op = k.op, !.at = "done", !.plain = k.plain, !.now = k.now, !.id = k.id, !.answer = answer]
    ELSE [NewCall EXCEPT !.at = "done", !.answer = answer]
Answer(c, answer) == call' = [call EXCEPT ![c] = Answered(call[c], answer)]

(* Bug: the count leaves out the token that is about to be inserted. *)
issue_capped_late(t, evicted) ==
    LET active == OfUser(t.user) \cap Live
    IN  /\ evicted \subseteq active
        /\ Cardinality(evicted) = IF Cardinality(active) > MaxPerUser
                                  THEN Cardinality(active) - MaxPerUser ELSE 0
        /\ token' = [revoke(evicted, "evicted", 0) EXCEPT ![written + 1] = t]
        /\ written' = written + 1

(* issue_capped: the oldest live tokens of the user are evicted and the    *)
(* new one inserted in one transaction.                                    *)
issue_capped(t, evicted) ==
    LET active == OfUser(t.user) \cap Live
    IN  /\ evicted \subseteq active
        /\ Cardinality(evicted) = IF Cardinality(active) + 1 > MaxPerUser
                                  THEN Cardinality(active) + 1 - MaxPerUser ELSE 0
        /\ \A e \in evicted, a \in active \ evicted : token[e].issued <= token[a].issued
        /\ token' = [revoke(evicted, "evicted", 0) EXCEPT ![written + 1] = t]
        /\ written' = written + 1

(* issue_refresh_token, called by a login. *)
issue_refresh_token(u, d, info) ==
    /\ written < MaxTokens
    /\ \E evicted \in SUBSET (OfUser(u) \cap Live) :
           issue_capped(build_refresh_token(written + 1, u, d, info, clock), evicted)
    /\ UNCHANGED <<clock, pepper, trust, inactive, call, revoking, swept>>

(* What a found record is answered before anything else is asked: the      *)
(* tenant, check_revoked, check_expiry, and handle_revoked_reuse up to its *)
(* first store call.  A logout revokes what it finds.                      *)
Found(c, k, i, sameTenant) ==
    LET t == token[i]
        next == IF ~sameTenant THEN "not_found"
                ELSE IF k.op = "logout" THEN "revoke"
                ELSE IF t.reason \in Reasons \ {"rotated"} THEN "revoked"
                ELSE IF t.reason = "rotated"
                     THEN IF Distance(k.now, t.at) < Grace THEN "concurrent" ELSE "collect"
                ELSE IF token_expired(t, k.now) THEN "expired"
                ELSE "status"
    IN  call' = [call EXCEPT ![c] =
            IF next \in {"revoke", "collect", "status"}
            THEN [k EXCEPT !.at = next, !.id = i]
            ELSE Answered([k EXCEPT !.id = i], next)]

(* Refresh::run or revoke_scoped starts at the time its node reads, with a *)
(* token some client was handed, and locate looks it up under the current  *)
(* pepper.                                                                 *)
locate(c, op, plain, presented, now, sameTenant) ==
    LET i == find_token(plain, pepper)
        k == [NewCall EXCEPT !.op = op, !.plain = plain, !.presented = presented, !.now = now]
    IN  /\ At(c, "idle")
        /\ plain \in {token[j].plain : j \in Stored}
        /\ now \in (clock - MaxSkew) .. (clock + MaxSkew)
        /\ now >= 0
        /\ IF i # NoToken THEN Found(c, k, i, sameTenant)
           ELSE call' = [call EXCEPT ![c] = IF pepper = 2
                                            THEN [k EXCEPT !.at = "previous"]
                                            ELSE Answered(k, "not_found")]
        /\ UNCHANGED <<token, written, clock, pepper, trust, inactive, revoking, swept>>

(* locate, under the previous pepper, when the first lookup missed. *)
locate_previous(c, sameTenant) ==
    LET i == find_token(call[c].plain, pepper - 1)
    IN  /\ At(c, "previous")
        /\ IF i # NoToken THEN Found(c, call[c], i, sameTenant) ELSE Answer(c, "not_found")
        /\ UNCHANGED <<token, written, clock, pepper, trust, inactive, revoking, swept>>

(* check_status, the caller's predicate. *)
check_status(c) ==
    /\ At(c, "status")
    /\ IF token[call[c].id].user \in inactive THEN Answer(c, "inactive") ELSE Go(c, "device")
    /\ UNCHANGED <<token, written, clock, pepper, trust, inactive, revoking, swept>>

(* check_device against the device store, then check_binding, and the end  *)
(* of a refresh that has nothing to replace.                               *)
check_device(c) ==
    LET t == token[call[c].id]
        device == IF t.device = NoDevice THEN "ok" ELSE trust[t.device]
    IN  /\ At(c, "device")
        /\ \/ device = "revoked" /\ Answer(c, "device_revoked")
           \/ device = "other" /\ Answer(c, "device_mismatch")
           \/ /\ device = "ok"
              /\ IF ~verify(t, call[c].presented) THEN Answer(c, "device_mismatch")
                 ELSE IF rotation \/ t.pepper # pepper THEN Go(c, "rotate")
                 ELSE Answer(c, "session")
        /\ UNCHANGED <<token, written, clock, pepper, trust, inactive, revoking, swept>>

(* Bug: the parent is replaced whether or not it is live. *)
rotate_token_anyway(c, i, child) ==
    /\ written < MaxTokens
    /\ token' = [revoke({i}, "rotated", call[c].now) EXCEPT ![written + 1] = child]
    /\ written' = written + 1
    /\ Answer(c, "session")

(* Bug: the parent is revoked and the child stored in two transactions. *)
rotate_token_in_two(c, i, child) ==
    /\ written < MaxTokens
    /\ \/ /\ token' = [revoke({i}, "rotated", call[c].now) EXCEPT ![written + 1] = child]
          /\ written' = written + 1
          /\ Answer(c, "session")
       \/ /\ MayFail
          /\ token' = revoke({i}, "rotated", call[c].now)
          /\ Answer(c, "store_error")
          /\ UNCHANGED written

(* rotate_token: the parent is revoked only if it is live, and the child   *)
(* is stored with it or not at all.                                        *)
rotate_token(c, i, child) ==
    IF i \in Live
    THEN /\ written < MaxTokens
         /\ token' = [revoke({i}, "rotated", call[c].now) EXCEPT ![written + 1] = child]
         /\ written' = written + 1
         /\ Answer(c, "session")
    ELSE /\ Go(c, IF rotation THEN "reread" ELSE "kept")
         /\ UNCHANGED <<token, written>>

rotate(c) ==
    LET i == call[c].id
    IN  /\ At(c, "rotate")
        /\ rotate_token(c, i, replacement_for(token[i], written + 1, call[c].now, call[c].presented))
        /\ UNCHANGED <<clock, pepper, trust, inactive, revoking, swept>>

(* Without rotation the winner stored this very token under the current    *)
(* pepper.                                                                 *)
rotate_kept(c) ==
    LET i == find_token(call[c].plain, pepper)
    IN  /\ At(c, "kept")
        /\ IF i # NoToken /\ i \in Live THEN Answer(c, "session") ELSE Go(c, "reread")
        /\ UNCHANGED <<token, written, clock, pepper, trust, inactive, revoking, swept>>

(* Bug: a parent that was rotated meanwhile is a reuse at once. *)
rotate_reread_strict(c) ==
    /\ At(c, "reread")
    /\ IF token[call[c].id].reason = "rotated" THEN Go(c, "collect") ELSE Answer(c, "revoked")
    /\ UNCHANGED <<token, written, clock, pepper, trust, inactive, revoking, swept>>

(* The parent is read again for the reason and the time. *)
rotate_reread(c) ==
    LET t == token[call[c].id]
    IN  /\ At(c, "reread")
        /\ \/ t.reason \in Reasons \ {"rotated"} /\ Answer(c, "revoked")
           \/ t.reason = "rotated" /\ Distance(call[c].now, t.at) < Grace /\ Answer(c, "concurrent")
           \/ t.reason = "rotated" /\ Distance(call[c].now, t.at) >= Grace /\ Go(c, "collect")
        /\ UNCHANGED <<token, written, clock, pepper, trust, inactive, revoking, swept>>

(* collect_family_device_targets: the devices of the record and of the     *)
(* live tokens of its family; a failed read leaves the record's own.       *)
collect_family_device_targets(c) ==
    LET t == token[call[c].id]
        siblings == OfUser(t.user) \cap Live \cap OfFamily(t.family)
        own == {t.device} \ {NoDevice}
    IN  /\ At(c, "collect")
        /\ \/ call' = [call EXCEPT ![c].at = "family",
                                   ![c].targets = own \cup ({token[i].device : i \in siblings} \ {NoDevice})]
           \/ MayFail /\ call' = [call EXCEPT ![c].at = "family", ![c].targets = own]
        /\ UNCHANGED <<token, written, clock, pepper, trust, inactive, revoking, swept>>

(* revoke_family; the compromise hook runs whether or not it succeeded. *)
revoke_family(c) ==
    LET t == token[call[c].id]
    IN  /\ At(c, "family")
        /\ \/ /\ token' = revoke(OfUser(t.user) \cap OfFamily(t.family), "compromise", 0)
              /\ swept' = swept \cup {t.family}
           \/ MayFail /\ UNCHANGED <<token, swept>>
        /\ IF call[c].targets = {} THEN Answer(c, "revoked") ELSE Go(c, "cascade")
        /\ UNCHANGED <<written, clock, pepper, trust, inactive, revoking>>

(* on_token_compromise: revoke_device, which marks the device in the       *)
(* device store and takes its tokens even if the first call failed.        *)
cascade_trust(c, d) ==
    /\ At(c, "cascade")
    /\ d \in call[c].targets
    /\ \/ trust' = [trust EXCEPT ![d] = "revoked"]
       \/ MayFail /\ UNCHANGED trust
    /\ call' = [call EXCEPT ![c].at = "cascade_tokens", ![c].target = d, ![c].targets = @ \ {d}]
    /\ UNCHANGED <<token, written, clock, pepper, inactive, revoking, swept>>

cascade_tokens(c) ==
    /\ At(c, "cascade_tokens")
    /\ \/ token' = revoke(OfDevice(call[c].target), "device", 0)
       \/ MayFail /\ UNCHANGED token
    /\ IF call[c].targets = {} THEN Answer(c, "revoked") ELSE Go(c, "cascade")
    /\ UNCHANGED <<written, clock, pepper, trust, inactive, revoking, swept>>

(* revoke_refresh_token_in_tenant. *)
logout(c, plain, sameTenant) ==
    /\ "logout" \in Revocations
    /\ locate(c, "logout", plain, NoInfo, clock, sameTenant)

(* revoke_scoped, once the token is located. *)
revoke_token(c) ==
    /\ At(c, "revoke")
    /\ token' = revoke({call[c].id}, "explicit", 0)
    /\ Answer(c, "logged_out")
    /\ UNCHANGED <<written, clock, pepper, trust, inactive, revoking, swept>>

(* A store error at a call that returns it to the caller. *)
StoreError(c) ==
    /\ MayFail
    /\ call[c].at \in {"previous", "device", "rotate", "kept", "reread", "revoke"}
    /\ Answer(c, "store_error")
    /\ UNCHANGED <<token, written, clock, pepper, trust, inactive, revoking, swept>>

-----------------------------------------------------------------------------
(* revoke_user_tokens, in one statement. *)
revoke_user_tokens(u) ==
    /\ "user" \in Revocations
    /\ token' = revoke(OfUser(u), "explicit", 0)
    /\ UNCHANGED <<written, clock, pepper, trust, inactive, call, revoking, swept>>

(* revoke_device: the device store first, then the tokens whatever it said. *)
revoke_device(d) ==
    /\ "device" \in Revocations
    /\ d \notin revoking
    /\ \/ trust' = [trust EXCEPT ![d] = "revoked"]
       \/ MayFail /\ UNCHANGED trust
    /\ revoking' = revoking \cup {d}
    /\ UNCHANGED <<token, written, clock, pepper, inactive, call, swept>>

revoke_device_tokens(d) ==
    /\ d \in revoking
    /\ token' = revoke(OfDevice(d), "device", 0)
    /\ revoking' = revoking \ {d}
    /\ UNCHANGED <<written, clock, pepper, trust, inactive, call, swept>>

(* The environment: an account is suspended, a device gets another owner,  *)
(* a deployment with a new pepper takes over, time passes.                 *)
Suspend(u) ==
    /\ "suspend" \in Revocations
    /\ inactive' = inactive \cup {u}
    /\ UNCHANGED <<token, written, clock, pepper, trust, call, revoking, swept>>

NewOwner(d) ==
    /\ "owner" \in Revocations
    /\ trust[d] = "ok"
    /\ trust' = [trust EXCEPT ![d] = "other"]
    /\ UNCHANGED <<token, written, clock, pepper, inactive, call, revoking, swept>>

NewPepper ==
    /\ "pepper" \in Revocations
    /\ pepper = 1
    /\ \A c \in Calls : call[c].at \in {"idle", "done"}
    /\ pepper' = 2
    /\ UNCHANGED <<token, written, clock, trust, inactive, call, revoking, swept>>

Tick ==
    /\ clock < MaxTime
    /\ clock' = clock + 1
    /\ UNCHANGED <<token, written, pepper, trust, inactive, call, revoking, swept>>

CallStep(c) ==
    \/ \E b \in BOOLEAN : locate_previous(c, b)
    \/ check_status(c) \/ check_device(c)
    \/ rotate(c) \/ rotate_kept(c) \/ rotate_reread(c)
    \/ collect_family_device_targets(c) \/ revoke_family(c)
    \/ (\E d \in Devices : cascade_trust(c, d)) \/ cascade_tokens(c)
    \/ revoke_token(c) \/ StoreError(c)

Step ==
    \/ \E u \in Users, k \in Clients : issue_refresh_token(u, k[1], k[2])
    \/ \E c \in Calls, plain \in Ids, info \in Infos \cup {NoInfo}, now \in 0 .. MaxTime + MaxSkew,
          b \in BOOLEAN : locate(c, "refresh", plain, info, now, b)
    \/ \E c \in Calls : CallStep(c)
    \/ \E d \in Devices : revoke_device_tokens(d)
    \/ Tick

(* What comes from outside the calls. *)
Event ==
    \/ \E c \in Calls, plain \in Ids, b \in BOOLEAN : logout(c, plain, b)
    \/ \E u \in Users : revoke_user_tokens(u) \/ Suspend(u)
    \/ \E d \in Devices : revoke_device(d) \/ NewOwner(d)
    \/ NewPepper

Next ==
    /\ \/ Step /\ UNCHANGED events
       \/ Event /\ events < MaxEvents /\ events' = events + 1
    /\ UNCHANGED rotation

Spec == Init /\ [][Next]_vars

-----------------------------------------------------------------------------
TypeOK ==
    /\ token \in [Ids -> Token \cup {NoToken}]
    /\ written \in 0 .. MaxTokens
    /\ Stored = 1 .. written
    /\ clock \in Nat /\ pepper \in {1, 2}
    /\ trust \in [Devices -> {"ok", "revoked", "other"}]
    /\ rotation \in BOOLEAN /\ events \in 0 .. MaxEvents
    /\ inactive \subseteq Users /\ revoking \subseteq Devices
    /\ swept \subseteq Ids

(* A family is accused (revoke_family) only when one of its tokens was     *)
(* presented twice, at times at least the grace apart: a client that       *)
(* refreshes in parallel within the grace is never taken for a thief, and  *)
(* neither is one whose token was logged out, evicted or revoked with its  *)
(* device.  (handle_revoked_reuse)                                         *)
AccusedOnlyOnReuse ==
    \A f \in swept : \E c, d \in Calls :
        /\ c # d
        /\ call[c].plain = call[d].plain /\ call[c].plain \in Ids
        /\ token[call[c].plain].family = f
        /\ Distance(call[c].now, call[d].now) >= Grace

(* Rotation never logs a user out: a family all of whose tokens are        *)
(* revoked was ended by something other than rotation.  (rotate_token is   *)
(* one transaction)                                                        *)
RotationKeepsOne ==
    \A i \in Stored : \E j \in OfFamily(token[i].family) : token[j].reason # "rotated"

(* However often a family is refreshed, its sessions carry the time of the *)
(* login it descends from and stop at the end of its lifetime.             *)
(* (session_for, token_expired)                                            *)
LoginTimeKept ==
    \A c \in Calls : call[c].op = "refresh" /\ call[c].answer = "session" =>
        LET login == token[token[call[c].id].family].issued
        IN  /\ token[call[c].id].authn = login
            /\ call[c].now < login + MaxLifetime

(* Two issues for one user, or an issue and a rotation, never leave more   *)
(* than max_per_user live tokens.  (issue_capped)                          *)
WithinCap == \A u \in Users : Cardinality(OfUser(u) \cap Live) <= MaxPerUser

(* A token's digest of its device string is keyed by the pepper the token  *)
(* is stored under, so the client it was issued to keeps passing the check *)
(* across a change of pepper.  (check_binding, replacement_for)            *)
BindingFollowsPepper ==
    \A i \in Live : token[i].info # NoInfo => token[i].info[2] = token[i].pepper

(* A replacement inherits what its family was issued with: the time of the *)
(* login, and a device binding its own hash can be checked against.        *)
(* (replacement_for)                                                       *)
SuccessorInherits == LoginTimeKept /\ BindingFollowsPepper

(* Without rotation a client keeps presenting its token; it is never read  *)
(* as a thief for that.  (previous_hash_pepper: "is reached only when the  *)
(* current-pepper lookup misses, which for a kept token it no longer does")*)
KeptNeverAccused == swept = {}

-----------------------------------------------------------------------------
(* The usable tokens of each family, and the records that ever were it. *)
Families == INSTANCE TokenFamilies WITH
    usable <- [f \in Ids |-> OfFamily(f) \cap Live], spent <- Stored

(* Rotation implements token families: parallel refreshes of one token     *)
(* leave one usable token, and a family that was revoked, by any of the    *)
(* five ways, has no usable token again, whatever refresh was in flight.   *)
ImplementsFamilies == Families!FamiliesSpec
=============================================================================
