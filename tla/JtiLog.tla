------------------------------- MODULE JtiLog -------------------------------
(***************************************************************************)
(* The replay log of logout tokens                                         *)
(* (federation/backchannel_logout/jti_log.rs).  One mutex guards it.  A    *)
(* partition of the code is the set of pairs of one issuer.                *)
(***************************************************************************)
EXTENDS Naturals, Integers, Sequences, FiniteSets, Functions, TLC

EmptyLog == [held |-> [p \in {} |-> {}], order |-> << >>]

(* State::take, of each pair in P. *)
take(log, P) == [log EXCEPT !.held = Restrict(@, DOMAIN @ \ P)]

(* State::expire_before: items leave from the front, in arrival order. *)
expire_before(log, cutoff) ==
    LET gone == {i \in DOMAIN log.order : \A j \in 1 .. i : log.order[j][1] < cutoff}
        short == take(log, {log.order[i][2] : i \in gone})
    IN  [short EXCEPT !.order = SubSeq(@, Cardinality(gone) + 1, Len(@))]

(* What JtiLog::record answers, on a log that has just expired. *)
Recorded(log, p, capacity) ==
    IF p \in DOMAIN log.held THEN (IF log.held[p].in_flight THEN "InFlight" ELSE "Replay")
    ELSE IF Cardinality({q \in DOMAIN log.held : q[1] = p[1]}) >= capacity THEN "Full" ELSE "New"

(* Bug: a pair counts as carried out from its first delivery on. *)
record_settled(log, p, now) ==
    [held |-> (p :> [seen_at |-> now, in_flight |-> FALSE]) @@ log.held, order |-> Append(log.order, <<now, p>>)]

record(log, p, now) ==
    [held |-> (p :> [seen_at |-> now, in_flight |-> TRUE]) @@ log.held, order |-> Append(log.order, <<now, p>>)]

settle(log, p) == IF p \in DOMAIN log.held THEN [log EXCEPT !.held[p].in_flight = FALSE] ELSE log


forget(log, p) ==
    IF p \notin DOMAIN log.held THEN log
    ELSE [take(log, {p}) EXCEPT !.order = SelectSeq(@, LAMBDA x: x # <<log.held[p].seen_at, p>>)]

(* One queue item for each pair held. *)
Orderly(log) ==
    /\ {log.order[i][2] : i \in DOMAIN log.order} = DOMAIN log.held
    /\ Len(log.order) = Cardinality(DOMAIN log.held)
    /\ \A i \in DOMAIN log.order : log.order[i][1] = log.held[log.order[i][2]].seen_at
=============================================================================
