----------------------------- MODULE DeviceRows -----------------------------
(***************************************************************************)
(* A device's row and what each operation of a device store decides on it  *)
(* (device/store.rs, device/storage/valkey/policy.rs and valkey.rs).  A    *)
(* write is decided on the row that was read and lands if that row is      *)
(* still there, so an operation is a function from the row to a decision.  *)
(***************************************************************************)
EXTENDS Integers, FiniteSets, FiniteSetsExt

CONSTANTS NoUser, Absent,
          TrustedIdle, SeenIdle, RevokedGrace   \* SweepConfig

ASSUME SweepAssumption == {TrustedIdle, SeenIdle, RevokedGrace} \subseteq Nat

Levels == {"Unknown", "Seen", "Trusted", "Revoked"}
Never == -1

(* A device as ensure_device and resolve_proven make it. *)
NewRow(user, now, bindings) ==
    [user |-> user, level |-> "Unknown", seen |-> now, revoked_at |-> Never, demoted_at |-> Never, bindings |-> bindings]

live(row) == row # Absent /\ row.level # "Revoked"
is_usable_by(row, user) == live(row) /\ (row.user = user \/ NoUser \in {row.user, user})
shares_create_key(row, user) == live(row) /\ row.user = user

seen_clock(row) == Max({row.seen, row.demoted_at})

(* Bug: the window of a demoted device runs from its last sighting. *)
level_after_sighting(row, now) ==
    CASE row.level = "Trusted" /\ now - row.seen > TrustedIdle -> "Seen"
      [] row.level = "Seen" /\ now - row.seen > SeenIdle -> "Revoked"
      [] OTHER -> row.level
(* One step down the ladder, in whole seconds. *)
level_after(row, now) ==
    CASE row.level = "Trusted" /\ now - row.seen > TrustedIdle -> "Seen"
      [] row.level = "Seen" /\ now - seen_clock(row) > SeenIdle -> "Revoked"
      [] OTHER -> row.level
purge_due(row, now) == row.level = "Revoked" /\ now - row.revoked_at > RevokedGrace

(* Seconds until Valkey drops the row by itself. *)
ttl_seconds(row, now) ==
    LET left(from, windows) == Max({1, from + windows - now})
    IN  CASE row.level = "Unknown" -> Never
          [] row.level = "Trusted" -> left(row.seen, TrustedIdle + SeenIdle + RevokedGrace)
          [] row.level = "Seen" -> left(seen_clock(row), SeenIdle + RevokedGrace)
          [] row.level = "Revoked" -> left(row.revoked_at, RevokedGrace)

demotion_stamp(row, level, now) ==
    IF level # "Seen" THEN Never ELSE IF row.level = "Trusted" THEN now ELSE row.demoted_at
revocation_stamp(row, level, now) ==
    IF level # "Revoked" THEN Never ELSE IF row.level = "Revoked" THEN row.revoked_at ELSE now
Moved(row, level, now) ==
    [row EXCEPT !.level = level, !.demoted_at = demotion_stamp(row, level, now),
                !.revoked_at = revocation_stamp(row, level, now)]

---------------------------------------------------------------------------
(* Decisions: Skip, Remove or the row to write.                            *)
Skip == [step |-> "skip", row |-> Absent]
Remove == [step |-> "remove", row |-> Absent]
Write(row) == [step |-> "write", row |-> row]

(* Bug: a revoked device is sighted, too. *)
record_any_sighting(row, now) == IF now <= row.seen THEN Skip ELSE Write([row EXCEPT !.seen = now])
record_sighting(row, now) == IF ~live(row) \/ now <= row.seen THEN Skip ELSE Write([row EXCEPT !.seen = now])

set_trust_level(row, level, now) == Write(Moved(row, level, now))
set_trust_level_if(row, expected, level, now) ==
    IF row.level # expected THEN Skip ELSE Write(Moved(row, level, now))
(* Bug: the bindings are written whatever they are by now. *)
put_bindings(row, expected, bindings) == IF ~live(row) THEN Skip ELSE Write([row EXCEPT !.bindings = bindings])
(* A set for the sequence of bindings: their order is never looked at. *)
replace_bindings(row, expected, bindings) ==
    IF ~live(row) \/ row.bindings # expected THEN Skip ELSE Write([row EXCEPT !.bindings = bindings])
(* Bug: a device is claimed whoever has it by now. *)
claim_any(row, user) == IF ~live(row) THEN Skip ELSE Write([row EXCEPT !.user = user])
claim_owner(row, user) == IF row.user # NoUser \/ ~live(row) THEN Skip ELSE Write([row EXCEPT !.user = user])
(* save_row, of a row that may not be there. *)
save(stored, row) == IF stored # Absent /\ ~live(stored) THEN Skip ELSE Write(row)

(* plan_sweep, and what the sweep makes of it. *)
sweep(row, now) ==
    IF row.level = "Revoked" THEN (IF purge_due(row, now) THEN Remove ELSE Skip)
    ELSE IF level_after(row, now) = row.level THEN Skip
    ELSE Write(Moved(row, level_after(row, now), now))
=============================================================================
