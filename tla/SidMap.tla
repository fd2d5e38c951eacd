------------------------------- MODULE SidMap -------------------------------
(***************************************************************************)
(* The OIDC `sid` map (federation/sid_map.rs): which local session a       *)
(* logout of the identity provider ends.  One mutex guards all of it, so   *)
(* every operation is a function from the map to the map.                  *)
(*                                                                         *)
(*   entries          (issuer, sid) -> the session mapped there            *)
(*   order            the entries by insertion time                        *)
(*   by_subject       (issuer, subject) -> the sids of that subject        *)
(*   keys_of_session  session -> the keys that map to it                   *)
(*   subject_of       session -> the login that established it             *)
(*   subjects         (issuer, subject) -> (user, session) of its logins   *)
(*   subject_order    the rotation queue of the sweep                      *)
(***************************************************************************)
EXTENDS Naturals, Integers, Sequences, FiniteSets, FiniteSetsExt, Functions, SequencesExt, TLC

Put(f, k, v) == [x \in DOMAIN f \cup {k} |-> IF x = k THEN v ELSE f[x]]

(* HashMap<K, HashSet<V>>: a key without a value is not kept. *)
AddTo(f, k, v) == Put(f, k, (IF k \in DOMAIN f THEN f[k] ELSE {}) \cup {v})
Without(f, k, P) == {v \in f[k] : <<k, v>> \notin P}
DropAll(f, P) == [k \in {x \in DOMAIN f : Without(f, x, P) # {}} |-> Without(f, k, P)]
DropFrom(f, k, v) == DropAll(f, {<<k, v>>})

NoEntries == [k \in {} |-> {}]
Empty == [entries |-> NoEntries, order |-> {}, by_subject |-> NoEntries, keys_of_session |-> NoEntries,
          subject_of |-> NoEntries, subjects |-> NoEntries, subject_order |-> << >>]

Slot(k, e) == <<k[1], e.subject>>

(* Bug: the item of a displaced entry stays in the time order. *)
insert_leaving_order(m, k, e) ==
    LET old == m.entries[k]
        vacated == IF k \notin DOMAIN m.entries THEN m
                   ELSE [m EXCEPT !.by_subject = DropFrom(@, Slot(k, old), k[2]),
                                  !.keys_of_session = DropFrom(@, old.session, k)]
    IN  [vacated EXCEPT !.entries = Put(@, k, e),
                        !.keys_of_session = AddTo(@, e.session, k),
                        !.by_subject = AddTo(@, Slot(k, e), k[2]),
                        !.order = @ \cup {<<e.at, k>>}]

(* SidState::insert.  The index of the subject is touched only if the      *)
(* displaced entry was another subject's.                                  *)
insert(m, k, e) ==
    LET vacated == IF k \notin DOMAIN m.entries THEN m
                   ELSE LET old == m.entries[k] IN
                        [m EXCEPT !.by_subject = IF old.subject = e.subject THEN @
                                                 ELSE DropFrom(@, Slot(k, old), k[2]),
                                  !.keys_of_session = DropFrom(@, old.session, k),
                                  !.order = @ \ {<<old.at, k>>}]
    IN  [vacated EXCEPT !.entries = Put(@, k, e),
                        !.keys_of_session = AddTo(@, e.session, k),
                        !.by_subject = AddTo(@, Slot(k, e), k[2]),
                        !.order = @ \cup {<<e.at, k>>}]

(* SidState::remove, of each key in K. *)
removeAll(m, K) ==
    LET gone == K \cap DOMAIN m.entries IN
    [m EXCEPT !.entries = Restrict(@, DOMAIN @ \ gone),
              !.order = @ \ {<<m.entries[k].at, k>> : k \in gone},
              !.by_subject = DropAll(@, {<<Slot(k, m.entries[k]), k[2]>> : k \in gone}),
              !.keys_of_session = DropAll(@, {<<m.entries[k].session, k>> : k \in gone})]
remove(m, k) == removeAll(m, {k})

RecordedFor(m, iss, user, session) ==
    /\ session \in DOMAIN m.subject_of
    /\ m.subject_of[session].issuer = iss
    /\ m.subject_of[session].user = user

(* forget_subject, of each (issuer, user, session) in Q. *)
forget_subjects(m, Q) ==
    LET gone == {q \in Q : RecordedFor(m, q[1], q[2], q[3])} IN
    [m EXCEPT !.subject_of = Restrict(@, DOMAIN @ \ {q[3] : q \in gone}),
              !.subjects = DropAll(@, {<<<<q[1], m.subject_of[q[3]].subject>>, <<q[2], q[3]>>>> : q \in gone})]
forget_subject(m, iss, user, session) == forget_subjects(m, {<<iss, user, session>>})

(* register_subject, with the compaction of the sweep queue at its end. *)
register_subject(m, iss, subject, user, session, slack) ==
    IF RecordedFor(m, iss, user, session) /\ m.subject_of[session].subject = subject THEN m
    ELSE LET free == IF session \notin DOMAIN m.subject_of THEN m
                     ELSE forget_subject(m, m.subject_of[session].issuer, m.subject_of[session].user, session)
             added == [free EXCEPT
                         !.subjects = AddTo(@, <<iss, subject>>, <<user, session>>),
                         !.subject_of = Put(@, session, [issuer |-> iss, subject |-> subject, user |-> user]),
                         !.subject_order = Append(@, <<iss, user, session>>)]
         IN  [added EXCEPT !.subject_order =
                IF Len(@) > 2 * Cardinality(DOMAIN added.subject_of) + slack
                THEN SelectSeq(@, LAMBDA q: RecordedFor(added, q[1], q[2], q[3])) ELSE @]

(* restore_if_vacant: not if the key was mapped again, nor if the session  *)
(* has left the subject registry.                                          *)
Restorable(m, k, e) == k \notin DOMAIN m.entries /\ e.session \in DOMAIN m.subject_of
restore_if_vacant(m, k, e) == IF Restorable(m, k, e) THEN insert(m, k, e) ELSE m

(* remove_if the key still maps to `session`, which is forgotten as well. *)
remove_if(m, k, session) ==
    IF k \in DOMAIN m.entries /\ m.entries[k].session = session
    THEN forget_subject(remove(m, k), k[1], m.entries[k].user, session) ELSE m

remove_session(m, session) ==
    LET unmapped == IF session \in DOMAIN m.keys_of_session
                    THEN removeAll(m, m.keys_of_session[session]) ELSE m
    IN  IF session \in DOMAIN m.subject_of
        THEN forget_subject(unmapped, m.subject_of[session].issuer, m.subject_of[session].user, session)
        ELSE unmapped

(* The (user, session) pairs of a subject: its logins and its sids. *)
subject_sessions(m, iss, subject) ==
    LET slot == <<iss, subject>> IN
    (IF slot \in DOMAIN m.subjects THEN m.subjects[slot] ELSE {})
    \cup (IF slot \notin DOMAIN m.by_subject THEN {}
          ELSE {<<m.entries[<<iss, sid>>].user, m.entries[<<iss, sid>>].session>> :
                  sid \in {x \in m.by_subject[slot] : <<iss, x>> \in DOMAIN m.entries}})

(* The front of the sweep queue: the items still recorded are handed out   *)
(* once each and go to the back, the others are dropped.                   *)
SweepFront(m, max) ==
    LET front == SubSeq(m.subject_order, 1, Min({max, Len(m.subject_order)}))
        live == {i \in DOMAIN front : /\ RecordedFor(m, front[i][1], front[i][2], front[i][3])
                                      /\ \A j \in 1 .. i - 1 : front[j] # front[i]}
        places == SetToSortSeq(live, <)
    IN  [n \in DOMAIN places |-> front[places[n]]]

(* Bug: what the sweep hands out leaves the queue for good. *)
sweep_once(m, max) == [m EXCEPT !.subject_order = SubSeq(@, Min({max, Len(@)}) + 1, Len(@))]

sweep_subject_candidates(m, max) ==
    [m EXCEPT !.subject_order =
        SubSeq(@, Min({max, Len(@)}) + 1, Len(@)) \o SweepFront(m, max)]

(* The keys evict_front may take: the oldest of those due, `max` at most.  *)
(* Entries of one instant go in the order of their keys, which the model   *)
(* leaves open.                                                            *)
Due(m, cutoff) == {x \in m.order : x[1] < cutoff}
evict_front(m, max, due) ==
    {{x[2] : x \in v} : v \in {w \in SUBSET due :
        /\ Cardinality(w) = Min({max, Cardinality(due)})
        /\ \A x \in w, y \in due \ w : x[1] <= y[1]}}

(***************************************************************************)
(* The indexes say what the entries say, and the order holds exactly one   *)
(* item for each entry.                                                    *)
(***************************************************************************)
Agrees(m) ==
    /\ m.order = {<<m.entries[k].at, k>> : k \in DOMAIN m.entries}
    /\ DOMAIN m.keys_of_session = {m.entries[k].session : k \in DOMAIN m.entries}
    /\ \A s \in DOMAIN m.keys_of_session :
          m.keys_of_session[s] = {k \in DOMAIN m.entries : m.entries[k].session = s}
    /\ DOMAIN m.by_subject = {Slot(k, m.entries[k]) : k \in DOMAIN m.entries}
    /\ \A t \in DOMAIN m.by_subject :
          m.by_subject[t] = {k[2] : k \in {x \in DOMAIN m.entries : Slot(x, m.entries[x]) = t}}
    /\ DOMAIN m.subjects = {<<m.subject_of[s].issuer, m.subject_of[s].subject>> : s \in DOMAIN m.subject_of}
    /\ \A t \in DOMAIN m.subjects :
          m.subjects[t] = {<<m.subject_of[s].user, s>> :
              s \in {x \in DOMAIN m.subject_of : <<m.subject_of[x].issuer, m.subject_of[x].subject>> = t}}

(* Every recorded subject is in the sweep's queue. *)
Queued(m) == \A s \in DOMAIN m.subject_of : \E i \in DOMAIN m.subject_order : m.subject_order[i][3] = s
=============================================================================
