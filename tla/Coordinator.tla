----------------------------- MODULE Coordinator -----------------------------
(***************************************************************************)
(* What a subscriber of a ReloadCoordinator has waiting (reload/           *)
(* coordinator.rs, reload/valkey.rs): a broadcast receiver of at most      *)
(* capacity unread notices.  A notice carries nothing its receiver         *)
(* applies, so a receiver is a number and whether it has lagged.           *)
(***************************************************************************)
EXTENDS Naturals, FiniteSets

Receivers(capacity) == [unread : 0 .. capacity, lagged : BOOLEAN, open : BOOLEAN]

subscribe == [unread |-> 0, lagged |-> FALSE, open |-> TRUE]

(* A notice reaches the receiver; beyond the capacity the oldest is lost. *)
sent(r, capacity) ==
    IF r.unread = capacity THEN [r EXCEPT !.lagged = TRUE] ELSE [r EXCEPT !.unread = @ + 1]

(* announce: the subscribers in R, and not the others, are told. *)
announced(inbox, R, capacity) ==
    [n \in DOMAIN inbox |-> IF n \in R /\ inbox[n].open THEN sent(inbox[n], capacity) ELSE inbox[n]]

(* next_notice: a notice, or the report that some were missed. *)
waiting(r) == r.open /\ (r.lagged \/ r.unread > 0)
received(r) == IF r.lagged THEN [r EXCEPT !.lagged = FALSE] ELSE [r EXCEPT !.unread = @ - 1]

(* RecvError::Closed, once all was read: the follower goes on by poll only. *)
closed(r) == [subscribe EXCEPT !.open = FALSE]
=============================================================================
