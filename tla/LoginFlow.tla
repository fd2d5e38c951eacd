----------------------------- MODULE LoginFlow -----------------------------
(***************************************************************************)
(* The logins of one account, the password resets that replace its         *)
(* password and the administrator who suspends or erases it                *)
(* (authn/service/login.rs, login/*.rs, factor_pipeline.rs,                *)
(* factor_pipeline/reserve.rs, verification.rs, account.rs,                *)
(* account/admin.rs, account/password_reset.rs), over the SQL store of     *)
(* examples/sqlite and the registry in memory.  Each call of a store or of *)
(* the registry is a step of its own.                                      *)
(*                                                                         *)
(* A login is also the id of its session: advance_factor gives every login *)
(* an id of its own.  Time has two ages, and no duration of the            *)
(* configuration (attempt window, timed lockout, backoff of a one-time     *)
(* code, flow and token lifetimes) reaches from the first to the second.   *)
(***************************************************************************)
EXTENDS Integers, Sequences, FiniteSets

CONSTANTS
    Logins,        \* login attempts, each with one session
    Resets,        \* calls of complete_password_reset; each chooses password number r
    Codes,         \* counters of one-time codes that are tried
    MaxSessions,   \* max_sessions_per_user
    MaxAttempts,   \* LockoutPolicy::effective_max_attempts
    OtpAttempts,   \* HotpConfig::max_attempts
    FailRetries,   \* MAX_FAIL_UPDATE_RETRIES
    Scenes         \* deployments and the bounds of what happens in them: see Scene

(* A deployment: the factor its method asks for, whether a lockout ends    *)
(* with time, what an unreachable counter means, whether sessions may be   *)
(* on a device the account has used.  Its bounds: how many logins and      *)
(* guesses are made, reset tokens asked for and used, how many calls fail, *)
(* whether the clock moves, and what the administrator may do.                         *)
Scene == [method : {"password", "hotp"}, timed : BOOLEAN, outage : {"Lock", "Allow"}, known : BOOLEAN,
          logins : Nat, guesses : Nat, tokens : Nat, resets : Nat, faults : Nat, ticks : BOOLEAN,
          admin : SUBSET {"suspend", "delete"}]

ASSUME LoginFlowAssumption ==
    /\ IsFiniteSet(Logins) /\ Resets \subseteq Nat \ {0} /\ Codes \subseteq Nat
    /\ MaxSessions \in Nat \ {0} /\ MaxAttempts \in Nat \ {0} /\ OtpAttempts \in Nat \ {0}
    /\ FailRetries \in Nat
    /\ Scenes \subseteq Scene

VARIABLES
    scene,      \* which never changes
    status,     \* account status: "active", "suspended" or "gone"
    clock,      \* 0 or 1
    attempts,   \* users.failed_attempts and last_failed_at
    password,   \* the password factor: its identity, and whether its hash is outdated
    otp,        \* the user's own HOTP row, or NoRow while the template is inherited
    history,    \* password_history: hashes, oldest first
    resetToken, \* password_reset_tokens
    registry,   \* the registered sessions, oldest first
    login, reset, admin,   \* locals of the calls
    guesses, faults,       \* counts towards the bounds
    \* history, read by no action:
    book

vars == <<scene, status, clock, attempts, password, otp, history, resetToken, registry,
          login, reset, admin, guesses, faults, book>>

accountVars == <<status, password, history, resetToken>>

Wrong == -1
NoRow == [row |-> "absent"]
NoToken == [id |-> 0, at |-> 0]
NoConfig == [row |-> "none"]

(* The HOTP configuration a tenant's users inherit. *)
Template == [row |-> "template", counter |-> 0, fails |-> 0, until |-> 0]

NewLogin == [at |-> "idle", known |-> FALSE, stamp |-> 0, since |-> 0, now |-> 0, config |-> NoConfig, guess |-> Wrong,
             reserved |-> 0, round |-> 0, next |-> NoConfig, tries |-> 0, victims |-> {},
             verdict |-> "none", answer |-> "none"]

NewReset == [at |-> "idle", token |-> 0, replaced |-> <<>>, failed |-> FALSE, answer |-> "none"]

Init ==
    /\ scene \in Scenes
    /\ status = "active"
    /\ clock = 0
    /\ attempts = [count |-> 0, last |-> 0]
    /\ password = [id |-> 0, outdated |-> TRUE]
    /\ otp = NoRow
    /\ history = <<>>
    /\ resetToken = NoToken
    /\ registry = <<>>
    /\ login = [l \in Logins |-> NewLogin]
    /\ reset = [r \in Resets |-> NewReset]
    /\ admin = [op |-> "none", at |-> "idle", failed |-> FALSE]
    /\ guesses = 0
    /\ faults = 0
    /\ book = [tokens |-> 0, round |-> 0, wrong |-> 0, late |-> 0, installed |-> 0, used |-> <<>>,
               fails |-> 0, newest |-> <<>>]

At(l, place) == login[l].at = place
Go(l, place) == login' = [login EXCEPT ![l].at = place]
Answer(l, answer) == login' = [login EXCEPT ![l] = [NewLogin EXCEPT !.at = "done", !.stamp = login[l].stamp,
                                                                    !.answer = answer]]

(* A call that returns an error, without effect. *)
Fault == faults < scene.faults /\ faults' = faults + 1

allows_login == status = "active"

(* derived_lockout: at the limit, until a timed lockout has run out. *)
derived_lockout == attempts.count >= MaxAttempts /\ ~(scene.timed /\ clock > attempts.last)

(* fresh_count: no failure, an old one below the limit, or a lockout that  *)
(* has ended.                                                              *)
fresh_count ==
    \/ attempts.count = 0
    \/ attempts.count < MaxAttempts /\ clock > attempts.last
    \/ attempts.count >= MaxAttempts /\ scene.timed /\ clock > attempts.last

(* A count that starts over opens a round of guesses of its own. *)
NewRound == book' = [book EXCEPT !.round = @ + 1, !.wrong = 0, !.late = 0]

Held(l) == \E i \in 1 .. Len(registry) : registry[i] = l
Without(l) ==
    IF ~Held(l) THEN registry
    ELSE LET p == CHOOSE i \in 1 .. Len(registry) : registry[i] = l
         IN  [i \in 1 .. Len(registry) - 1 |-> registry[IF i < p THEN i ELSE i + 1]]

-----------------------------------------------------------------------------
(* begin_login: the account is looked up, its status and lockout read. *)
begin_login(l, known) ==
    /\ At(l, "idle")
    /\ Cardinality({k \in Logins : ~At(k, "idle")}) < scene.logins
    /\ known => scene.known
    /\ IF allows_login /\ (derived_lockout => known)
       THEN login' = [login EXCEPT ![l].at = "epoch", ![l].known = known]
       ELSE Answer(l, "InvalidCredentials")
    /\ UNCHANGED <<accountVars, attempts, otp, registry, guesses, faults, book>>

(* credential_epoch and stamp_flow. *)
stamp_flow(l) ==
    /\ At(l, "epoch")
    /\ login' = [login EXCEPT ![l].at = "current", ![l].stamp = password.id, ![l].since = clock]
    /\ UNCHANGED <<accountVars, attempts, otp, registry, guesses, faults, book>>

(* verify_factor: require_current_flow, on the flow's age and its epoch. *)
require_current_flow(l) ==
    /\ At(l, "current")
    /\ IF clock > login[l].since \/ password.id # login[l].stamp
       THEN Answer(l, "NoFlow") ELSE Go(l, "status")
    /\ UNCHANGED <<accountVars, attempts, otp, registry, guesses, faults, book>>

(* enforce_account_status, the throttle aside. *)
enforce_account_status(l) ==
    /\ At(l, "status")
    /\ \/ status = "suspended" /\ Answer(l, "Locked")
       \/ status = "gone" /\ Answer(l, "NotActive")
       \/ allows_login /\ derived_lockout /\ ~login[l].known /\ Answer(l, "Locked")
       \/ allows_login /\ (derived_lockout => login[l].known) /\ Go(l, "config")
    /\ UNCHANGED <<accountVars, attempts, otp, registry, guesses, faults, book>>

(* prepare_factor_step resolves the configuration the credential is        *)
(* checked against.                                                        *)
resolve_factor(l) ==
    /\ At(l, "config")
    /\ IF status = "gone" THEN Answer(l, "NoFlow")
       ELSE login' = [login EXCEPT ![l].at = "reserve",
                                   ![l].config = IF scene.method = "password" THEN password
                                                 ELSE IF otp = NoRow THEN Template ELSE otp]
    /\ UNCHANGED <<accountVars, attempts, otp, registry, guesses, faults, book>>

(* Bug: the count is raised whatever it is. *)
reserve_attempt_unguarded(l) ==
    /\ attempts' = [count |-> IF fresh_count THEN 1 ELSE attempts.count + 1, last |-> clock]
    /\ IF fresh_count /\ attempts.count > 0 THEN NewRound ELSE UNCHANGED book
    /\ login' = [login EXCEPT ![l].at = "verify", ![l].reserved = attempts'.count, ![l].round = book'.round]

(* reserve_attempt, test and increment in one statement. *)
reserve_attempt(l) ==
    /\ fresh_count \/ attempts.count < MaxAttempts
    /\ attempts' = [count |-> IF fresh_count THEN 1 ELSE attempts.count + 1, last |-> clock]
    /\ IF fresh_count /\ attempts.count > 0 THEN NewRound ELSE UNCHANGED book
    /\ login' = [login EXCEPT ![l].at = "verify", ![l].reserved = attempts'.count, ![l].round = book'.round]

(* reserve_guess: a known device goes on without a reservation, and so     *)
(* does every guess when the counter cannot be reached and the policy      *)
(* allows it.                                                              *)
reserve_guess(l) ==
    /\ At(l, "reserve")
    /\ \/ reserve_attempt(l) /\ UNCHANGED faults
       \/ /\ ~(fresh_count \/ attempts.count < MaxAttempts)
          /\ IF login[l].known THEN Go(l, "verify") ELSE Answer(l, "Locked")
          /\ UNCHANGED <<attempts, book, faults>>
       \/ /\ Fault
          /\ IF scene.outage = "Allow" THEN Go(l, "verify") ELSE Answer(l, "Locked")
          /\ UNCHANGED <<attempts, book>>
    /\ UNCHANGED <<accountVars, otp, registry, guesses>>

is_locked_at(c, now) == c.until > now

(* apply_hotp_failure: no change while locked, else one more, and a lock   *)
(* with the count started over at the limit.                               *)
apply_hotp_failure(c, now) ==
    IF is_locked_at(c, now) THEN c
    ELSE IF c.fails + 1 >= OtpAttempts
         THEN [c EXCEPT !.row = "own", !.fails = 0, !.until = now + 1]
         ELSE [c EXCEPT !.row = "own", !.fails = @ + 1]

(* verify_credential: what the guess is against the configuration.  A code *)
(* matches from the counter on (the lookahead covers every code tried).    *)
Matches(c, guess) ==
    IF scene.method = "password" THEN guess = c.id
    ELSE guess # Wrong /\ guess >= c.counter /\ ~is_locked_at(c, clock)

verify_credential(l, guess) ==
    LET c == login[l].config
    IN  /\ At(l, "verify")
        /\ guesses < scene.guesses
        /\ guesses' = guesses + 1
        /\ login' = [login EXCEPT
               ![l].guess = guess,
               ![l].next = IF scene.method = "password" THEN c
                           ELSE IF Matches(c, guess)
                                THEN [c EXCEPT !.row = "own", !.counter = guess + 1, !.fails = 0, !.until = 0]
                                ELSE apply_hotp_failure(c, clock),
               ![l].at = IF Matches(c, guess) THEN IF scene.method = "password" THEN "release" ELSE "pass"
                         ELSE IF scene.method = "hotp" /\ ~is_locked_at(c, clock) THEN "fail" ELSE "count"]
        /\ book' = IF ~Matches(c, guess) /\ login[l].reserved > 0 /\ login[l].round = book.round
                   THEN [book EXCEPT !.wrong = @ + 1] ELSE book
        /\ UNCHANGED <<accountVars, attempts, otp, registry, faults>>

-----------------------------------------------------------------------------
(* What a failure that is stored makes of the count. *)
FailureStored(prior, next) ==
    book' = IF next = prior THEN book
            ELSE [book EXCEPT !.fails = IF next.until > prior.until THEN 0 ELSE @ + 1]

(* persist_fail_with_update: insert_factor_if_absent where the user has no *)
(* row, else the failure is recounted from the row that is there.          *)
persist_fail_load(l) ==
    /\ At(l, "fail")
    /\ IF otp = NoRow
       THEN /\ otp' = login[l].next
            /\ FailureStored(Template, login[l].next)
            /\ Go(l, "count")
       ELSE /\ login' = [login EXCEPT ![l].at = "fail_swap", ![l].config = otp, ![l].now = clock,
                                      ![l].next = apply_hotp_failure(otp, clock)]
            /\ UNCHANGED <<otp, book>>
    /\ UNCHANGED <<accountVars, attempts, registry, guesses, faults>>

(* Bug: the failure is written over whatever row is there. *)
persist_fail_swap_blind(l) ==
    /\ At(l, "fail_swap")
    /\ otp' = login[l].next
    /\ FailureStored(otp, login[l].next)
    /\ Go(l, "count")
    /\ UNCHANGED <<accountVars, attempts, registry, guesses, faults>>

(* compare_and_save_factor, in the bounded loop. *)
persist_fail_swap(l) ==
    /\ At(l, "fail_swap")
    /\ IF otp = login[l].config
       THEN /\ otp' = login[l].next
            /\ FailureStored(otp, login[l].next)
            /\ Go(l, "count")
       ELSE /\ login' = [login EXCEPT ![l].at = "fail_reload"]
            /\ UNCHANGED <<otp, book>>
    /\ UNCHANGED <<accountVars, attempts, registry, guesses, faults>>

(* The row is read again and the failure recounted from it, a bounded      *)
(* number of times.                                                        *)
persist_fail_reload(l) ==
    /\ At(l, "fail_reload")
    /\ login' = [login EXCEPT ![l].at = IF login[l].tries + 1 < FailRetries THEN "fail_swap" ELSE "count",
                              ![l].tries = @ + 1,
                              ![l].config = otp, ![l].next = apply_hotp_failure(otp, login[l].now)]
    /\ UNCHANGED <<accountVars, attempts, otp, registry, guesses, faults, book>>

(* Bug: the new counter is saved without comparing the old one. *)
persist_pass_blind(l) ==
    /\ At(l, "pass")
    /\ otp' = login[l].next
    /\ book' = [book EXCEPT !.fails = 0, !.used = Append(@, login[l].guess)]
    /\ Go(l, "release")
    /\ UNCHANGED <<accountVars, attempts, registry, guesses, faults>>

(* persist_pass_with_update: against the configuration the code was        *)
(* verified with; a lost swap is a replay and counts as a failure.         *)
persist_pass_with_update(l) ==
    LET verified == login[l].config
        swapped == IF verified = Template THEN otp = NoRow ELSE otp = verified
    IN  /\ At(l, "pass")
        /\ IF swapped
           THEN /\ otp' = login[l].next
                /\ book' = [book EXCEPT !.fails = 0, !.used = Append(@, login[l].guess)]
                /\ Go(l, "release")
           ELSE /\ Go(l, "count")
                /\ UNCHANGED <<otp, book>>
        /\ UNCHANGED <<accountVars, attempts, registry, guesses, faults>>

(* record_factor_failure_after: the reservation is the count, and a guess  *)
(* without one is counted now.  The session may try again.                 *)
Again(l, answer) ==
    login' = [login EXCEPT ![l] = [NewLogin EXCEPT !.at = IF answer = "Locked" THEN "done" ELSE "current",
                                                   !.known = login[l].known,
                                                   !.stamp = login[l].stamp, !.since = login[l].since,
                                                   !.answer = answer]]
LockedFrom(count) == IF count >= MaxAttempts THEN "Locked" ELSE "InvalidCredential"

record_factor_failure_after(l) ==
    /\ At(l, "count")
    /\ \/ /\ login[l].reserved > 0
          /\ Again(l, LockedFrom(login[l].reserved))
          /\ UNCHANGED <<attempts, book, faults>>
       \/ /\ login[l].reserved = 0
          /\ attempts' = [count |-> IF fresh_count THEN 1 ELSE attempts.count + 1, last |-> clock]
          /\ IF fresh_count /\ attempts.count > 0 THEN NewRound ELSE UNCHANGED book
          /\ Again(l, LockedFrom(attempts'.count))
          /\ UNCHANGED faults
       \/ /\ login[l].reserved = 0
          /\ Fault
          /\ Again(l, IF scene.outage = "Lock" THEN "Locked" ELSE "InvalidCredential")
          /\ UNCHANGED <<attempts, book>>
    /\ UNCHANGED <<accountVars, otp, registry, guesses>>

(* release_guess: never below zero; a failure leaves the guess counted.    *)
(* The one given back may belong to a count that was since started over.   *)
release_guess(l) ==
    /\ At(l, "release")
    /\ Go(l, IF scene.method = "password" THEN "rehash" ELSE "list")
    /\ \/ login[l].reserved = 0 /\ UNCHANGED <<attempts, book, faults>>
       \/ /\ login[l].reserved > 0
          /\ attempts' = [attempts EXCEPT !.count = IF @ > 0 THEN @ - 1 ELSE 0]
          /\ book' = IF login[l].round # book.round THEN [book EXCEPT !.late = @ + 1] ELSE book
          /\ UNCHANGED faults
       \/ login[l].reserved > 0 /\ Fault /\ UNCHANGED <<attempts, book>>
    /\ UNCHANGED <<accountVars, otp, registry, guesses>>

(* Bug: the rehash is saved without comparing what it replaces. *)
rehash_blind(l) ==
    /\ At(l, "rehash")
    /\ Go(l, "list")
    /\ password' = IF login[l].config.outdated THEN [login[l].config EXCEPT !.outdated = FALSE] ELSE password
    /\ UNCHANGED <<status, history, resetToken, attempts, otp, registry, guesses, faults, book>>

(* rehash_outdated_password: against the configuration that was verified,  *)
(* and the password keeps its identity.                                    *)
rehash_outdated_password(l) ==
    LET verified == login[l].config
    IN  /\ At(l, "rehash")
        /\ Go(l, "list")
        /\ password' = IF verified.outdated /\ password = verified
                       THEN [verified EXCEPT !.outdated = FALSE] ELSE password
        /\ UNCHANGED <<status, history, resetToken, attempts, otp, registry, guesses, faults, book>>

-----------------------------------------------------------------------------
(* register_authenticated_session, after advance_factor: under the limit   *)
(* the oldest sessions make room first.                                    *)
OldestFirst(n) == {registry[i] : i \in 1 .. n}
Excess(n) == IF n > MaxSessions THEN n - MaxSessions ELSE 0
victims_before_register == OldestFirst(IF Excess(Len(registry) + 1) > Len(registry) THEN Len(registry)
                                       ELSE Excess(Len(registry) + 1))
(* Bug: the sessions are not counted again once this one is registered. *)
victims_after_nobody == {}

(* Bug: the newest sessions go. *)
victims_after_newest == {registry[i] : i \in {j \in 1 .. Len(registry) : j > MaxSessions}}

victims_after_register == OldestFirst(Excess(Len(registry)))

held_sessions(l) ==
    /\ At(l, "list")
    /\ \/ /\ login' = [login EXCEPT ![l].at = IF victims_before_register = {} THEN "register" ELSE "evict",
                                    ![l].victims = victims_before_register]
          /\ UNCHANGED faults
       \/ Fault /\ Answer(l, "NoFlow")
    /\ UNCHANGED <<accountVars, attempts, otp, registry, guesses, book>>

(* evict_sessions, one call for each; a failure is only noted. *)
evict_sessions(l, v) ==
    LET left == login[l].victims \ {v}
    IN  /\ login[l].at \in {"evict", "trim"}
        /\ v \in login[l].victims
        /\ \/ registry' = Without(v) /\ UNCHANGED faults
           \/ Fault /\ UNCHANGED registry
        /\ IF left # {} THEN login' = [login EXCEPT ![l].victims = left]
           ELSE IF At(l, "evict") THEN login' = [login EXCEPT ![l].victims = {}, ![l].at = "register"]
           ELSE IF login[l].verdict = "lost" THEN Answer(l, "NoFlow")
           ELSE login' = [login EXCEPT ![l].victims = {}, ![l].at = "flow"]
        /\ UNCHANGED <<accountVars, attempts, otp, guesses, book>>

register(l) ==
    /\ At(l, "register")
    /\ \/ /\ registry' = Append(registry, l)
          /\ Go(l, "relist")
          /\ book' = [book EXCEPT !.newest = <<l>>]
          /\ UNCHANGED faults
       \/ Fault /\ Answer(l, "NoFlow") /\ UNCHANGED <<registry, book>>
    /\ UNCHANGED <<accountVars, attempts, otp, guesses>>

(* The second count: the newest stay, whoever they are, this login         *)
(* included among those that may go.                                       *)
held_sessions_again(l) ==
    /\ At(l, "relist")
    /\ \/ /\ login' = [login EXCEPT ![l].at = IF victims_after_register = {} THEN "flow" ELSE "trim",
                                    ![l].victims = victims_after_register,
                                    ![l].verdict = IF l \in victims_after_register THEN "lost" ELSE "kept"]
          /\ UNCHANGED faults
       \/ Fault /\ login' = [login EXCEPT ![l].at = "undo", ![l].verdict = "NoFlow"]
    /\ UNCHANGED <<accountVars, attempts, otp, registry, guesses, book>>

(* Bug: the epoch of the password is not read again. *)
flow_unread(l) ==
    /\ At(l, "flow")
    /\ Go(l, "recheck")
    /\ UNCHANGED <<accountVars, attempts, otp, registry, guesses, faults, book>>

(* flow_still_current: a reset that landed since is seen here or sees the  *)
(* session.                                                                *)
flow_still_current(l) ==
    /\ At(l, "flow")
    /\ \/ /\ IF password.id = login[l].stamp THEN Go(l, "recheck")
             ELSE login' = [login EXCEPT ![l].at = "undo", ![l].verdict = "NoFlow"]
          /\ UNCHANGED faults
       \/ Fault /\ login' = [login EXCEPT ![l].at = "undo", ![l].verdict = "Err"]
    /\ UNCHANGED <<accountVars, attempts, otp, registry, guesses, book>>

(* Bug: the status is not read again. *)
recheck_skipped(l) ==
    /\ At(l, "recheck")
    /\ Go(l, "clear")
    /\ UNCHANGED <<accountVars, attempts, otp, registry, guesses, faults, book>>

recheck_status_after_register(l) ==
    /\ At(l, "recheck")
    /\ \/ /\ IF allows_login THEN Go(l, "clear")
             ELSE login' = [login EXCEPT ![l].at = "undo", ![l].verdict = "Locked"]
          /\ UNCHANGED faults
       \/ Fault /\ login' = [login EXCEPT ![l].at = "undo", ![l].verdict = "Err"]
    /\ UNCHANGED <<accountVars, attempts, otp, registry, guesses, book>>

(* The session of a refused login is dropped from the registry, which only *)
(* notes a failure, and cleared.                                           *)
undo_register(l) ==
    /\ At(l, "undo")
    /\ \/ registry' = Without(l) /\ UNCHANGED faults
       \/ Fault /\ UNCHANGED registry
    /\ Answer(l, login[l].verdict)
    /\ UNCHANGED <<accountVars, attempts, otp, guesses, book>>

(* complete_factor_step: the counter starts over, unless the store fails,  *)
(* and then the audit row, without which the session ends.                 *)
reset_failed_attempts(l) ==
    /\ At(l, "clear")
    /\ Go(l, "audit")
    /\ \/ attempts' = [count |-> 0, last |-> 0] /\ NewRound /\ UNCHANGED faults
       \/ Fault /\ UNCHANGED <<attempts, book>>
    /\ UNCHANGED <<accountVars, otp, registry, guesses>>

emit_audit(l) ==
    /\ At(l, "audit")
    /\ \/ Answer(l, "Authenticated") /\ UNCHANGED faults
       \/ Fault /\ login' = [login EXCEPT ![l].at = "undo", ![l].verdict = "Err"]
    /\ UNCHANGED <<accountVars, attempts, otp, registry, guesses, book>>

LoginStep(l) ==
    \/ (\E known \in BOOLEAN : begin_login(l, known)) \/ stamp_flow(l)
    \/ require_current_flow(l) \/ enforce_account_status(l) \/ resolve_factor(l) \/ reserve_guess(l)
    \/ \E guess \in (IF scene.method = "password" THEN {0} \cup Resets ELSE Codes) \cup {Wrong} :
           verify_credential(l, guess)
    \/ persist_fail_load(l) \/ persist_fail_swap(l) \/ persist_fail_reload(l)
    \/ persist_pass_with_update(l) \/ record_factor_failure_after(l)
    \/ release_guess(l) \/ rehash_outdated_password(l)
    \/ held_sessions(l) \/ (\E v \in Logins : evict_sessions(l, v)) \/ register(l)
    \/ held_sessions_again(l) \/ flow_still_current(l) \/ recheck_status_after_register(l)
    \/ undo_register(l) \/ reset_failed_attempts(l) \/ emit_audit(l)

-----------------------------------------------------------------------------
sessionVars == <<attempts, otp, login, guesses>>

(* begin_password_reset: a new token replaces the one before it. *)
begin_password_reset ==
    /\ book.tokens < scene.tokens
    /\ allows_login
    /\ resetToken' = [id |-> book.tokens + 1, at |-> clock]
    /\ book' = [book EXCEPT !.tokens = @ + 1]
    /\ UNCHANGED <<status, password, history, sessionVars, registry, reset, faults>>

token_valid(t) == resetToken.id = t /\ clock = resetToken.at

InReset(r, place) == reset[r].at = place
GoReset(r, place) == reset' = [reset EXCEPT ![r].at = place]
Refuse(r, answer) == reset' = [reset EXCEPT ![r] = [NewReset EXCEPT !.at = "done", !.answer = answer]]

(* complete_password_reset: the account is admitted, ... *)
reset_refusal_reason(r, t) ==
    /\ InReset(r, "idle")
    /\ Cardinality({q \in Resets : ~InReset(q, "idle")}) < scene.resets
    /\ t \in 1 .. book.tokens
    /\ IF allows_login THEN reset' = [reset EXCEPT ![r].at = "peek", ![r].token = t]
       ELSE Refuse(r, "refused")
    /\ UNCHANGED <<accountVars, sessionVars, registry, faults, book>>

(* ... the token looked at, not yet spent, ... *)
peek_reset_token(r) ==
    /\ InReset(r, "peek")
    /\ IF token_valid(reset[r].token) THEN GoReset(r, "replaced") ELSE Refuse(r, "refused")
    /\ UNCHANGED <<accountVars, sessionVars, registry, faults, book>>

(* ... the hash to be replaced read, when the newest of the history is     *)
(* another, ...                                                            *)
replaced_hash_to_record(r) ==
    /\ InReset(r, "replaced")
    /\ reset' = [reset EXCEPT ![r].at = "readmit",
                              ![r].replaced = IF status = "gone" THEN <<>>
                                              ELSE IF history # <<>> /\ history[Len(history)] = password THEN <<>>
                                              ELSE <<password>>]
    /\ UNCHANGED <<accountVars, sessionVars, registry, faults, book>>

(* ... the account admitted once more, after the hashing, ... *)
readmit(r) ==
    /\ InReset(r, "readmit")
    /\ IF allows_login THEN GoReset(r, "spend") ELSE Refuse(r, "refused")
    /\ UNCHANGED <<accountVars, sessionVars, registry, faults, book>>

(* Bug: the token that was looked at is deleted without looking again. *)
spend_peeked_token(r) ==
    /\ InReset(r, "spend")
    /\ resetToken' = NoToken
    /\ GoReset(r, IF reset[r].replaced = <<>> THEN "record" ELSE "record_replaced")
    /\ UNCHANGED <<status, password, history, sessionVars, registry, faults, book>>

(* ... and the token spent, compared and deleted in one transaction.  What *)
(* follows runs on a task of its own.                                      *)
spend_reset_token(r) ==
    /\ InReset(r, "spend")
    /\ IF token_valid(reset[r].token)
       THEN /\ resetToken' = NoToken
            /\ GoReset(r, IF reset[r].replaced = <<>> THEN "record" ELSE "record_replaced")
       ELSE Refuse(r, "refused") /\ UNCHANGED resetToken
    /\ UNCHANGED <<status, password, history, sessionVars, registry, faults, book>>

Recorded(hash) == IF \E i \in 1 .. Len(history) : history[i] = hash THEN history ELSE Append(history, hash)

(* Bug: a history that cannot be written does not stop the reset. *)
record_replaced_best_effort(r) ==
    /\ InReset(r, "record_replaced")
    /\ GoReset(r, "record")
    /\ \/ history' = Recorded(reset[r].replaced[1]) /\ UNCHANGED faults
       \/ Fault /\ UNCHANGED history
    /\ UNCHANGED <<status, password, resetToken, sessionVars, registry, book>>

(* install_new_password: record_password_hash of the replaced hash, *)
record_replaced(r) ==
    /\ InReset(r, "record_replaced")
    /\ \/ history' = Recorded(reset[r].replaced[1]) /\ GoReset(r, "record") /\ UNCHANGED faults
       \/ Fault /\ Refuse(r, "error") /\ UNCHANGED history
    /\ UNCHANGED <<status, password, resetToken, sessionVars, registry, book>>

(* then of the new one, *)
record_password_hash(r) ==
    /\ InReset(r, "record")
    /\ \/ history' = Recorded([id |-> r, outdated |-> FALSE]) /\ GoReset(r, "install") /\ UNCHANGED faults
       \/ Fault /\ Refuse(r, "error") /\ UNCHANGED history
    /\ UNCHANGED <<status, password, resetToken, sessionVars, registry, book>>

(* and save_factor, which writes whatever is there. *)
save_factor(r) ==
    /\ InReset(r, "install")
    /\ \/ /\ status # "gone"
          /\ password' = [id |-> r, outdated |-> FALSE]
          /\ book' = [book EXCEPT !.installed = r]
          /\ GoReset(r, "sessions")
          /\ UNCHANGED faults
       \/ status = "gone" /\ Refuse(r, "error") /\ UNCHANGED <<password, book, faults>>
       \/ Fault /\ Refuse(r, "error") /\ UNCHANGED <<password, book>>
    /\ UNCHANGED <<status, history, resetToken, sessionVars, registry>>

(* finish_password_reset: the sessions end, *)
end_sessions_of_reset(r) ==
    /\ InReset(r, "sessions")
    /\ \/ registry' = <<>> /\ GoReset(r, "counter") /\ UNCHANGED faults
       \/ Fault /\ reset' = [reset EXCEPT ![r].at = "counter", ![r].failed = TRUE] /\ UNCHANGED registry
    /\ UNCHANGED <<accountVars, sessionVars, book>>

(* the counter is cleared and, the refresh tokens revoked, the outcome of  *)
(* every step reported.                                                    *)
finish_password_reset(r) ==
    /\ InReset(r, "counter")
    /\ reset' = [reset EXCEPT ![r] = [NewReset EXCEPT !.at = "done", !.token = reset[r].token,
                                      !.answer = IF reset[r].failed THEN "error" ELSE "reset"]]
    /\ \/ attempts' = [count |-> 0, last |-> 0] /\ NewRound /\ UNCHANGED faults
       \/ Fault /\ UNCHANGED <<attempts, book>>
    /\ UNCHANGED <<accountVars, otp, login, guesses, registry>>

ResetStep(r) ==
    \/ \E t \in 1 .. scene.tokens : reset_refusal_reason(r, t)
    \/ peek_reset_token(r) \/ replaced_hash_to_record(r) \/ readmit(r) \/ spend_reset_token(r)
    \/ record_replaced(r) \/ record_password_hash(r) \/ save_factor(r)
    \/ end_sessions_of_reset(r) \/ finish_password_reset(r)

-----------------------------------------------------------------------------
GoAdmin(place) == admin' = [admin EXCEPT !.at = place]

(* suspend_user: the status first, then the sessions. *)
suspend_user ==
    /\ "suspend" \in scene.admin
    /\ admin.at = "idle"
    /\ status = "active"
    /\ status' = "suspended"
    /\ admin' = [op |-> "suspend", at |-> "sessions", failed |-> FALSE]
    /\ UNCHANGED <<password, history, resetToken, registry, faults>>

(* delete_user: the sessions first. *)
delete_user ==
    /\ "delete" \in scene.admin
    /\ admin.at = "idle"
    /\ admin' = [op |-> "delete", at |-> "sessions", failed |-> FALSE]
    /\ UNCHANGED <<accountVars, registry, faults>>

(* end_user_sessions; a failure stops an erasure and is reported at the    *)
(* end of a suspension.                                                    *)
end_user_sessions ==
    /\ admin.at = "sessions"
    /\ \/ /\ registry' = <<>>
          /\ GoAdmin(IF admin.op = "delete" THEN "erase" ELSE "done")
          /\ UNCHANGED faults
       \/ Fault /\ admin' = [admin EXCEPT !.at = "done", !.failed = TRUE] /\ UNCHANGED registry
    /\ UNCHANGED accountVars

(* IdentityAdmin::delete_user: the user and every row naming it. *)
erase_user ==
    /\ admin.at = "erase"
    /\ \/ /\ status' = "gone"
          /\ history' = <<>>
          /\ resetToken' = NoToken
          /\ GoAdmin("done")
          /\ UNCHANGED faults
       \/ Fault /\ admin' = [admin EXCEPT !.at = "done", !.failed = TRUE] /\ UNCHANGED <<status, history, resetToken>>
    /\ UNCHANGED <<password, registry>>

(* activate_user, once the suspension is done: the failed attempts go with *)
(* the status.                                                             *)
activate_user ==
    /\ admin.at = "done" /\ admin.op = "suspend" /\ status = "suspended"
    /\ status' = "active"
    /\ attempts' = [count |-> 0, last |-> 0] /\ NewRound
    /\ admin' = [admin EXCEPT !.op = "activate"]
    /\ UNCHANGED <<password, history, resetToken, registry, faults>>

AdminStep ==
    /\ \/ (suspend_user \/ delete_user \/ end_user_sessions \/ erase_user) /\ UNCHANGED <<attempts, book>>
       \/ activate_user
    /\ UNCHANGED <<otp, login, guesses, reset>>

(* Every window, lockout and lifetime runs out. *)
Tick ==
    /\ scene.ticks /\ clock = 0
    /\ clock' = 1
    /\ UNCHANGED <<accountVars, sessionVars, registry, reset, admin, faults, book>>

Next ==
    /\ \/ /\ \/ (\E l \in Logins : LoginStep(l)) /\ UNCHANGED <<reset, admin>>
             \/ begin_password_reset /\ UNCHANGED admin
             \/ (\E r \in Resets : ResetStep(r)) /\ UNCHANGED admin
             \/ AdminStep
          /\ UNCHANGED clock
       \/ Tick
    /\ UNCHANGED scene

Spec == Init /\ [][Next]_vars

-----------------------------------------------------------------------------
Configs == [row : {"template", "own"}, counter : Nat, fails : Nat, until : Nat]
Passwords == [id : {0} \cup Resets, outdated : BOOLEAN]

TypeOK ==
    /\ scene \in Scenes /\ clock \in {0, 1}
    /\ status \in {"active", "suspended", "gone"}
    /\ attempts \in [count : Nat, last : {0, 1}]
    /\ password \in Passwords
    /\ otp # NoRow => otp \in Configs /\ otp.row = "own"
    /\ history \in Seq(Passwords)
    /\ resetToken.id \in 0 .. scene.tokens
    /\ registry \in Seq(Logins) /\ Cardinality({registry[i] : i \in 1 .. Len(registry)}) = Len(registry)
    /\ \A l \in Logins : login[l].victims \subseteq Logins \ {l} \/ login[l].at = "trim"
    /\ faults \in 0 .. scene.faults /\ guesses \in 0 .. scene.guesses

(* A registered login that has not yet been asked what it must be asked    *)
(* after registering.                                                      *)
Unchecked == {"relist", "trim", "flow", "undo"}

(* Once a suspension has reported success, and while the account stays     *)
(* suspended, no login that raced it keeps a session: each is still to     *)
(* read the status (account.rs:335) and will be refused.                   *)
SuspendedStayOut ==
    (status = "suspended" /\ admin.at = "done" /\ ~admin.failed /\ faults = 0)
        => \A l \in Logins : Held(l) => login[l].at \in Unchecked \cup {"recheck"}

(* Once a reset has reported success no session of an earlier password is  *)
(* registered, except one whose login has yet to look at the password      *)
(* (account.rs:310): the reset saw the session or the login sees the reset.*)
ResetEndsSessions ==
    (faults = 0 /\ \A r \in Resets : ~InReset(r, "sessions"))
        => \A l \in Logins : Held(l) /\ login[l].stamp # password.id => login[l].at \in Unchecked

(* Whatever ends an account's sessions ends those of the logins that race  *)
(* it too. (register_authenticated_session)                                *)
EndedStayOut == SuspendedStayOut /\ ResetEndsSessions

(* No more sessions than the limit outlive their logins (account.rs:276),  *)
(* however the logins interleave, unless a registry call failed.           *)
CapHolds ==
    faults = 0 => Cardinality({l \in Logins : Held(l) /\ login[l].at \notin {"relist", "trim"}}) <= MaxSessions

(* Parallel logins at the limit do not evict each other: when all of them  *)
(* are over, the one that registered last still has its session, unless a  *)
(* reset or an administrator ended it or its credentials were refused.     *)
NewestSurvives ==
    (/\ book.newest # <<>> /\ faults = 0
     /\ \A l \in Logins : login[l].at \in {"idle", "done"}
     /\ admin.at = "idle" /\ \A r \in Resets : InReset(r, "idle"))
        => Held(book.newest[1])

(* Parallel logins at the limit leave at most the limit and at least the   *)
(* newest. (victims_before_register, victims_after_register)               *)
CapKeepsNewest == CapHolds /\ NewestSurvives

(* Of the guesses that were metered, wrong ones of one round are at most   *)
(* the limit, however many run at once (reserve.rs:45), plus one for every *)
(* right guess that gave back, after the count was started over, what it   *)
(* had reserved before.                                                    *)
LockoutHolds == book.wrong <= MaxAttempts + book.late

(* No one-time code opens two logins (factor_pipeline.rs:645). *)
CodeUsedOnce == \A i, j \in 1 .. Len(book.used) : book.used[i] = book.used[j] => i = j

(* The wrong codes of parallel logins are all counted (factor_pipeline.rs: *)
(* 483): the row holds every failure stored since it was last started over.*)
FailuresCounted == otp # NoRow => otp.fails = book.fails

(* Parallel wrong guesses are each counted, whichever of the two counters  *)
(* holds them. (reserve_attempt, persist_fail_with_update)                 *)
GuessesCounted == LockoutHolds /\ FailuresCounted

(* The password in force is the one installed last: the rehash of a login  *)
(* that verified the password before it never puts that one back           *)
(* (rehash.rs:83).                                                         *)
LastInstalledInForce == password.id = book.installed

(* Of the resets that were sent the same token one goes on to install its  *)
(* password (password_reset.rs:528), however far the others had come.      *)
TokenSpentOnce ==
    LET committed == {r \in Resets : \/ reset[r].answer = "reset"
                                     \/ reset[r].at \in {"record_replaced", "record", "install", "sessions", "counter"}}
    IN  \A r, q \in committed : reset[r].token = reset[q].token => r = q

(* A one-time secret is good for one use, however many present it at once. *)
(* (persist_pass_with_update, spend_reset_token)                           *)
SpentOnce == CodeUsedOnce /\ TokenSpentOnce

(* Every password that a reset replaced is in the history, and so is the   *)
(* one in force after a reset, whichever of the store calls failed         *)
(* (install.rs:60), so a check over the history covers them.               *)
HistoryCovers ==
    status # "gone" /\ book.installed # 0 =>
        \A p \in {0, password.id} \cup {r \in Resets : reset[r].answer = "reset"} : \E i \in 1 .. Len(history) : history[i].id = p

(* Passwords follow one another in the order they were installed in, each  *)
(* replaced one on record. (install_new_password,                          *)
(* rehash_outdated_password)                                               *)
PasswordsInOrder == LastInstalledInForce /\ HistoryCovers

(* What delete_user's doc says (admin.rs:158): no live credential is left  *)
(* pointing at a user that no longer exists.                               *)
ErasedHasNoSession ==
    (status = "gone" /\ faults = 0) => \A l \in Logins : Held(l) => login[l].at \in Unchecked \cup {"recheck"}
=============================================================================
