--------------------------- MODULE FederatedLogout ---------------------------
(***************************************************************************)
(* Federated logins and the logouts an identity provider sends: the tail   *)
(* of complete_oauth_login, which registers the session, keeps the `sid`   *)
(* map and owes an end to the sessions it displaced or aged out; the       *)
(* back-channel handler, which records a token, ends what it names and     *)
(* answers; the front-channel handler; and the session registry the three  *)
(* share.  Each call that can suspend is a step of its own.  A future can  *)
(* be dropped wherever it waits.                                           *)
(***************************************************************************)
EXTENDS SidMap, JtiLog

CONSTANTS
    Logins,         \* completions of a federated login
    Claims,         \* login -> its issuer, subject, sid and local user
    Deliveries,     \* requests that carry a logout token
    Fronts,         \* front-channel requests
    Scenes,         \* what happens in a behaviour, see `scene`
    NoSid, NoSub,   \* a claim that is not there
    MaxAge,         \* MAX_IAT_AGE_SECS
    MaxFuture,      \* MAX_IAT_FUTURE_SECS
    TicksPerSec,    \* instants the clock tells apart within a second
    SidTtl,         \* SID_MAP_TTL, in ticks
    SidCapacity,    \* sid_map_capacity
    Batch,          \* PRUNE_BATCH, EVICT_BATCH and SWEEP_BATCH
    QueueSlack,     \* QUEUE_SLACK
    JtiCapacity     \* JTI_CACHE_MAX

ASSUME FederationAssumption ==
    /\ \A l \in Logins : Claims[l].sub # NoSub
    /\ {MaxAge, MaxFuture, SidTtl, QueueSlack} \subseteq Nat
    /\ {TicksPerSec, SidCapacity, Batch, JtiCapacity} \subseteq Nat \ {0}
    /\ \A s \in Scenes : s.logins \subseteq Logins /\ s.deliveries \subseteq Deliveries /\ s.fronts \subseteq Fronts

VARIABLES
    scene,      \* rigid: [logins, tokens, deliveries, fronts, faults, drops, ends, time]
    now,        \* the clock
    registry,   \* the session registry: (user, session) pairs
    sidmap,     \* SidMap
    log,        \* JtiLog
    login,      \* login -> where it is and the PendingEnds it holds
    owed,       \* login -> ends its spawned task has still to carry out
    ended,      \* login -> ends carried out, not yet forgotten
    delivery,   \* delivery -> where it is, its token and what it has to end
    front,      \* front-channel request -> likewise
    left,       \* faults, drops and other ends that may still happen
    book        \* what happened, for the properties

vars == <<scene, now, registry, sidmap, log, login, owed, ended, delivery, front, left, book>>
serviceVars == <<scene, now, log, delivery, front>>
handlerVars == <<scene, now, login, owed>>

Nothing == [key |-> << >>]
NewLogin == [at |-> "idle", now |-> 0, sweep |-> {}, aged |-> {}, displaced |-> Nothing, mapped |-> FALSE]
NewDelivery == [at |-> "idle", token |-> << >>, by |-> "", todo |-> {}, current |-> << >>, failed |-> FALSE, answer |-> 0,
                seen |-> 0]
NewFront == [at |-> "idle", key |-> << >>, target |-> << >>]

(* The session a login establishes, and the id it is given when the        *)
(* session is regenerated afterwards.                                      *)
SessionOf(l) == <<l, 0>>
RotatedOf(l) == <<l, 1>>
PairOf(l) == <<Claims[l].user, SessionOf(l)>>
KeyOf(l) == <<Claims[l].iss, Claims[l].sid>>
StoredOf(l) == [subject |-> Claims[l].sub, user |-> Claims[l].user, session |-> SessionOf(l), at |-> login[l].now]
SubjectSession(iss, e) == <<iss, e.user, e.session>>

(* A session is authenticated until its login is refused and the session   *)
(* cleared; `mapped` logins have reached the sid map.                      *)
Registered(l) == PairOf(l) \in registry
Refused(l) == login[l].at \in {"restore", "revoke", "refused", "cut"}
PastSubject(l) ==
    login[l].at \in {"candidates", "sweep", "prune", "evict", "full", "evicted", "insert", "audit", "done", "cancelled"}

Spend(kind) == left[kind] > 0 /\ left' = [left EXCEPT ![kind] = @ - 1]
Fault == Spend("faults")
Ends(pair, cause) ==
    /\ registry' = registry \ {pair}
    /\ book' = IF pair \in registry THEN [book EXCEPT !.cause = Put(@, pair[2], cause)] ELSE book

Goto(l, at) == login' = [login EXCEPT ![l].at = at]
At(l, at) == l \in scene.logins /\ login[l].at = at

-----------------------------------------------------------------------------
(* complete_oauth_login.  The claim lock, the ceremony's tenant and the    *)
(* tenant's admission have passed; `now` is read once, here.               *)
begin_login(l) ==
    /\ At(l, "idle")
    /\ login' = [login EXCEPT ![l].at = "register", ![l].now = now]
    /\ UNCHANGED <<serviceVars, registry, sidmap, owed, ended, left, book>>

(* register_oauth_session_or_clear. *)
register_session(l) ==
    /\ At(l, "register")
    /\ \/ registry' = registry \cup {PairOf(l)} /\ Goto(l, "status") /\ UNCHANGED left
       \/ Fault /\ Goto(l, "refused") /\ UNCHANGED registry
    /\ UNCHANGED <<serviceVars, sidmap, owed, ended, book>>

(* refuse_unless_active: the status is read again after registering. *)
refuse_unless_active(l) ==
    /\ At(l, "status")
    /\ \/ Goto(l, "subject") /\ UNCHANGED left
       \/ Fault /\ Goto(l, "revoke")
    /\ UNCHANGED <<serviceVars, registry, sidmap, owed, ended, book>>

(* The refused login ends its own session, once its task has run: the      *)
(* registry call may fail, the session is cleared either way.              *)
end_own_session(l) ==
    /\ At(l, "revoke") /\ owed[l] = {} /\ ended[l] = {}
    /\ Goto(l, "refused")
    /\ \/ Ends(PairOf(l), [by |-> "own", who |-> l]) /\ UNCHANGED left
       \/ Fault /\ UNCHANGED <<registry, book>>
    /\ UNCHANGED <<serviceVars, sidmap, owed, ended>>

(* maintain_oidc_sid_map: every call of the map takes its lock once, so    *)
(* that other logins come between the calls.                               *)
register_subject_session(l) ==
    /\ At(l, "subject")
    /\ sidmap' = register_subject(sidmap, Claims[l].iss, Claims[l].sub, Claims[l].user, SessionOf(l), QueueSlack)
    /\ Goto(l, "candidates")
    /\ UNCHANGED <<serviceVars, registry, owed, ended, left, book>>

(* sweep_subject_registry, up to its questions to the session registry. *)
sweep_candidates(l) ==
    /\ At(l, "candidates")
    /\ sidmap' = sweep_subject_candidates(sidmap, Batch)
    /\ login' = [login EXCEPT ![l].at = "sweep", ![l].sweep = ToSet(SweepFront(sidmap, Batch))]
    /\ UNCHANGED <<serviceVars, registry, owed, ended, left, book>>

(* Bug: a session the registry could not be asked about counts as gone. *)
forget_unanswered(l, next) ==
    /\ \/ /\ sidmap' = forget_subjects(sidmap, {q \in login[l].sweep : <<q[2], q[3]>> \notin registry})
          /\ UNCHANGED left
       \/ /\ Fault
          /\ sidmap' = forget_subjects(sidmap, login[l].sweep)
    /\ login' = [login EXCEPT ![l].at = next, ![l].sweep = {}]
    /\ UNCHANGED <<serviceVars, registry, owed, ended, book>>

(* forget_gone_subject_sessions: only those the registry says are gone.    *)
(* Nothing registers a session again, so `gone` stays true.                *)
forget_gone_subject_sessions(l, next) ==
    /\ \/ /\ sidmap' = forget_subjects(sidmap, {q \in login[l].sweep : <<q[2], q[3]>> \notin registry})
          /\ UNCHANGED left
       \/ Fault /\ login[l].sweep # {} /\ UNCHANGED sidmap
    /\ login' = [login EXCEPT ![l].at = next, ![l].sweep = {}]
    /\ UNCHANGED <<serviceVars, registry, owed, ended, book>>

sweep_subject_registry(l) ==
    At(l, "sweep") /\ forget_gone_subject_sessions(l, IF Claims[l].sid = NoSid THEN "audit" ELSE "prune")

(* The entries past the TTL leave the map and their sessions are owed an   *)
(* end.                                                                    *)
prune(l) ==
    /\ At(l, "prune")
    /\ \E K \in evict_front(sidmap, Batch, Due(sidmap, login[l].now - SidTtl)) :
          /\ sidmap' = removeAll(sidmap, K)
          /\ login' = [login EXCEPT ![l].at = "evict",
                                    ![l].aged = {SubjectSession(k[1], sidmap.entries[k]) : k \in K}]
    /\ UNCHANGED <<serviceVars, registry, owed, ended, left, book>>

(* SidMap::len, compared with the capacity. *)
at_capacity(l) ==
    /\ At(l, "evict")
    /\ Goto(l, IF Cardinality(DOMAIN sidmap.entries) < SidCapacity THEN "insert" ELSE "full")
    /\ UNCHANGED <<serviceVars, registry, sidmap, owed, ended, left, book>>

(* At capacity the oldest mappings go; their sessions stay. *)
evict_oldest(l) ==
    /\ At(l, "full")
    /\ \E K \in evict_front(sidmap, Batch, sidmap.order) :
          LET out == {SubjectSession(k[1], sidmap.entries[k]) : k \in K} IN
          /\ sidmap' = removeAll(sidmap, K)
          /\ login' = [login EXCEPT ![l].at = "evicted", ![l].sweep = out]
          /\ book' = [book EXCEPT !.unmapped = @ \cup {q[3] : q \in out}]
    /\ UNCHANGED <<serviceVars, registry, owed, ended, left>>

forget_evicted(l) == At(l, "evicted") /\ forget_gone_subject_sessions(l, "insert")

insert_displacing(l) ==
    /\ At(l, "insert")
    /\ sidmap' = insert(sidmap, KeyOf(l), StoredOf(l))
    /\ login' = [login EXCEPT ![l].at = "audit", ![l].mapped = TRUE,
                              ![l].displaced = IF KeyOf(l) \in DOMAIN sidmap.entries
                                               THEN [key |-> KeyOf(l), was |-> sidmap.entries[KeyOf(l)]] ELSE Nothing]
    /\ UNCHANGED <<serviceVars, registry, owed, ended, left, book>>

-----------------------------------------------------------------------------
(* PendingEnds: what a login owes when it stands or is dropped. *)
DisplacedBy(l) ==
    IF login[l].displaced = Nothing THEN {}
    ELSE {SubjectSession(login[l].displaced.key[1], login[l].displaced.was)}
Settled(l, at) == login' = [login EXCEPT ![l].at = at, ![l].aged = {}, ![l].displaced = Nothing]

commit(l) ==
    /\ At(l, "audit")
    /\ Settled(l, "done")
    /\ owed' = [owed EXCEPT ![l] = login[l].aged \cup DisplacedBy(l)]
    /\ UNCHANGED <<serviceVars, registry, sidmap, ended, left, book>>

(* The audit row could not be written: nothing of the login may stay. *)
audit_failed(l) ==
    /\ At(l, "audit") /\ Fault
    /\ sidmap' = remove_session(sidmap, SessionOf(l))
    /\ Goto(l, "restore")
    /\ UNCHANGED <<serviceVars, registry, owed, ended, book>>

(* Bug: a refused login does not put back the mapping it displaced. *)
refuse_without_restoring(l) ==
    /\ At(l, "restore")
    /\ Settled(l, "revoke")
    /\ owed' = [owed EXCEPT ![l] = login[l].aged]
    /\ UNCHANGED <<serviceVars, registry, sidmap, ended, left, book>>

(* Bug: a refused login ends the session it displaced, as one that stands. *)
refuse_ending_displaced(l) ==
    /\ At(l, "restore")
    /\ Settled(l, "revoke")
    /\ owed' = [owed EXCEPT ![l] = login[l].aged \cup DisplacedBy(l)]
    /\ UNCHANGED <<serviceVars, registry, sidmap, ended, left, book>>

(* The displaced mapping goes back, and only the aged sessions end. *)
refuse(l) ==
    LET d == login[l].displaced IN
    /\ At(l, "restore")
    /\ sidmap' = IF d = Nothing THEN sidmap ELSE restore_if_vacant(sidmap, d.key, d.was)
    /\ Settled(l, "revoke")
    /\ owed' = [owed EXCEPT ![l] = login[l].aged]
    /\ book' = IF d # Nothing /\ d.key \in DOMAIN sidmap.entries
               THEN [book EXCEPT !.overtaken = @ \cup {d.was.session}] ELSE book
    /\ UNCHANGED <<serviceVars, registry, ended, left>>

(* The future is dropped where it waits.  Unsettled, it leaves what it     *)
(* owes to a task; a login dropped while it was being refused is `cut`.    *)
drop_login(l) ==
    /\ l \in scene.logins
    /\ login[l].at \in {"register", "status", "subject", "sweep", "evicted", "audit", "revoke"}
    /\ Spend("drops")
    /\ owed' = [owed EXCEPT ![l] = @ \cup login[l].aged \cup DisplacedBy(l)]
    /\ Settled(l, IF login[l].at = "revoke" THEN "cut"
                  ELSE IF PastSubject(l) THEN "cancelled" ELSE "refused")
    /\ UNCHANGED <<serviceVars, registry, sidmap, ended, book>>

(* end_sessions, on its task: a session the registry could not end stays   *)
(* in the subject registry.                                                *)
end_session(l, q) ==
    /\ q \in owed[l]
    /\ owed' = [owed EXCEPT ![l] = @ \ {q}]
    /\ \/ /\ Ends(<<q[2], q[3]>>, [by |-> "login", who |-> l])
          /\ ended' = [ended EXCEPT ![l] = @ \cup {q}] /\ UNCHANGED left
       \/ /\ Fault /\ UNCHANGED <<registry, ended>>
          /\ book' = [book EXCEPT !.unmapped = @ \cup {q[3]}]
    /\ UNCHANGED <<serviceVars, sidmap, login>>

forget_ended(l) ==
    /\ owed[l] = {} /\ ended[l] # {}
    /\ sidmap' = forget_subjects(sidmap, ended[l])
    /\ ended' = [ended EXCEPT ![l] = {}]
    /\ UNCHANGED <<serviceVars, registry, login, owed, left, book>>

-----------------------------------------------------------------------------
(* What else happens to a session: it ends (a local logout, an             *)
(* administrator, its TTL), or it is regenerated and the registry follows  *)
(* the new id.                                                             *)
other_end(l) ==
    /\ login[l].at = "done" /\ Registered(l) /\ Spend("ends")
    /\ Ends(PairOf(l), [by |-> "other", who |-> l])
    /\ UNCHANGED <<serviceVars, sidmap, login, owed, ended>>

regenerate(l) ==
    /\ login[l].at = "done" /\ Registered(l) /\ Spend("ends")
    /\ registry' = (registry \ {PairOf(l)}) \cup {<<Claims[l].user, RotatedOf(l)>>}
    /\ UNCHANGED <<serviceVars, sidmap, login, owed, ended, book>>

tick ==
    /\ now < scene.time
    /\ now' = now + 1
    /\ UNCHANGED <<scene, registry, sidmap, log, login, owed, ended, delivery, front, left, book>>

-----------------------------------------------------------------------------
(* Bug: the log forgets a token that the future allowance still admits. *)
Retention_age == MaxAge * TicksPerSec

(* The back-channel handler. *)
Retention == (MaxAge + MaxFuture) * TicksPerSec     \* JTI_RETENTION_SECS
PairOfToken(t) == <<t.iss, t.jti>>
HasAnswer(d, code) == delivery' = [delivery EXCEPT ![d].at = "answered", ![d].answer = code]
DAt(d, at) == delivery[d].at = at

(* validate_logout_token, for a token the provider signed: `iat` is        *)
(* compared with the whole seconds of the clock.  A provider source that   *)
(* is down is retryable.                                                   *)
iat_within(iat, secs) == iat - MaxFuture <= secs /\ secs <= iat + MaxAge

(* admit_jti: the log expires, and answers what it makes of the pair. *)
admit_jti(d, t) ==
    LET fresh == expire_before(log, now - Retention)
        answer == Recorded(fresh, PairOfToken(t), JtiCapacity)
    IN  /\ log' = IF answer = "New" THEN record(fresh, PairOfToken(t), now) ELSE fresh
        /\ delivery' = [delivery EXCEPT ![d].token = t, ![d].seen = now,
               ![d].at = IF answer = "New" THEN "lookup" ELSE "answered",
               ![d].answer = CASE answer = "New" -> 0 [] answer = "Replay" -> 400 [] OTHER -> 503]
        /\ book' = IF answer = "Replay" THEN [book EXCEPT !.replays = @ \cup {t}] ELSE book

(* No await lies between the check of `iat` and the log, so the clock      *)
(* stands still from the one to the other.                                 *)
receive(d, t) ==
    /\ DAt(d, "idle")
    /\ \/ iat_within(t.iat, now \div TicksPerSec) /\ admit_jti(d, t) /\ UNCHANGED left
       \/ /\ \/ ~iat_within(t.iat, now \div TicksPerSec) /\ UNCHANGED left
             \/ Fault
          /\ delivery' = [delivery EXCEPT ![d].token = t, ![d].seen = now, ![d].at = "answered",
                                          ![d].answer = IF left' = left THEN 400 ELSE 503]
          /\ UNCHANGED <<log, book>>
    /\ UNCHANGED <<handlerVars, registry, sidmap, ended, front>>

(* The live sessions a token speaks of: the one its sid maps to, else      *)
(* those of its subject.                                                   *)
Named(t) ==
    IF <<t.iss, t.sid>> \in DOMAIN sidmap.entries
    THEN {sidmap.entries[<<t.iss, t.sid>>].session}
    ELSE {SessionOf(l) : l \in {x \in scene.logins : PastSubject(x) /\ Registered(x)
                                      /\ Claims[x].iss = t.iss /\ Claims[x].sub = t.sub}}

(* end_by_sid and end_by_sub, up to the first registry call: a sid that    *)
(* maps to a session names that session alone.                             *)
look_up(d) ==
    LET t == delivery[d].token
        key == <<t.iss, t.sid>>
        bySid == t.sid # NoSid /\ key \in DOMAIN sidmap.entries
    IN  /\ DAt(d, "lookup")
        /\ delivery' = [delivery EXCEPT ![d].at = "end", ![d].by = IF bySid THEN "sid" ELSE "sub",
               ![d].todo = IF bySid THEN {<<sidmap.entries[key].user, sidmap.entries[key].session>>}
                           ELSE IF t.sub = NoSub THEN {} ELSE subject_sessions(sidmap, t.iss, t.sub)]
        /\ book' = [book EXCEPT !.named[d] = Named(t)]
        /\ UNCHANGED <<handlerVars, registry, sidmap, log, ended, front, left>>

(* Bug: a session that could not be ended is only noted. *)
end_one_best_effort(d, p) ==
    /\ DAt(d, "end") /\ p \in delivery[d].todo
    /\ \/ Ends(p, [by |-> "logout", who |-> d]) /\ UNCHANGED left
       \/ Fault /\ UNCHANGED <<registry, book>>
    /\ delivery' = [delivery EXCEPT ![d].at = "unmap", ![d].todo = @ \ {p}, ![d].current = p]
    /\ UNCHANGED <<handlerVars, sidmap, log, ended, front>>

(* end_one: the registry first. *)
end_one(d, p) ==
    /\ DAt(d, "end") /\ p \in delivery[d].todo
    /\ \/ /\ Ends(p, [by |-> "logout", who |-> d])
          /\ delivery' = [delivery EXCEPT ![d].at = "unmap", ![d].todo = @ \ {p}, ![d].current = p]
          /\ UNCHANGED left
       \/ /\ Fault
          /\ delivery' = [delivery EXCEPT ![d].todo = @ \ {p}, ![d].failed = TRUE]
          /\ UNCHANGED <<registry, book>>
    /\ UNCHANGED <<handlerVars, sidmap, log, ended, front>>

(* Then its mappings: this one if it came by sid, all of them if by sub. *)
drop_mapping(d) ==
    LET t == delivery[d].token
        s == delivery[d].current[2]
    IN  /\ DAt(d, "unmap")
        /\ sidmap' = IF delivery[d].by = "sid" THEN remove_if(sidmap, <<t.iss, t.sid>>, s)
                     ELSE remove_session(sidmap, s)
        /\ delivery' = [delivery EXCEPT ![d].at = "end", ![d].current = << >>]
        /\ UNCHANGED <<handlerVars, registry, log, ended, front, left, book>>

(* The end of handle_outcome, and ActingOn's drop: a token that did its    *)
(* work is settled, any other is forgotten.                                *)
answer_logout(d) ==
    LET t == delivery[d].token IN
    /\ DAt(d, "end") /\ delivery[d].todo = {}
    /\ IF delivery[d].failed
       THEN log' = forget(log, PairOfToken(t)) /\ HasAnswer(d, 503) /\ UNCHANGED book
       ELSE /\ log' = settle(log, PairOfToken(t)) /\ HasAnswer(d, 200)
            /\ book' = [book EXCEPT !.done[t.jti] = @ + 1]
    /\ UNCHANGED <<handlerVars, registry, sidmap, ended, front, left>>

drop_delivery(d) ==
    /\ delivery[d].at \in {"end", "unmap"} /\ Spend("drops")
    /\ log' = forget(log, PairOfToken(delivery[d].token))
    /\ HasAnswer(d, 0)
    /\ UNCHANGED <<handlerVars, registry, sidmap, ended, front, book>>

-----------------------------------------------------------------------------
(* The front-channel handler: by sid alone, and only the caller's own      *)
(* session when the request carries one.                                   *)
front_look_up(f, key, caller) ==
    /\ front[f].at = "idle"
    /\ front' = [front EXCEPT ![f] =
          IF /\ key \in DOMAIN sidmap.entries
             /\ caller \in {<< >>, sidmap.entries[key].session}
          THEN [at |-> "end", key |-> key, target |-> <<sidmap.entries[key].user, sidmap.entries[key].session>>]
          ELSE [NewFront EXCEPT !.at = "answered"]]
    /\ UNCHANGED <<handlerVars, registry, sidmap, log, ended, delivery, left, book>>

front_end(f) ==
    /\ front[f].at = "end"
    /\ \/ /\ Ends(front[f].target, [by |-> "front", who |-> f])
          /\ front' = [front EXCEPT ![f].at = "unmap"] /\ UNCHANGED left
       \/ Fault /\ front' = [front EXCEPT ![f].at = "answered"] /\ UNCHANGED <<registry, book>>
    /\ UNCHANGED <<handlerVars, sidmap, log, ended, delivery>>

front_drop_mapping(f) ==
    /\ front[f].at = "unmap"
    /\ sidmap' = remove_if(sidmap, front[f].key, front[f].target[2])
    /\ front' = [front EXCEPT ![f].at = "answered"]
    /\ UNCHANGED <<handlerVars, registry, log, ended, delivery, left, book>>

-----------------------------------------------------------------------------
Init ==
    /\ scene \in Scenes
    /\ now = 0 /\ registry = {} /\ sidmap = Empty /\ log = EmptyLog
    /\ login = [l \in Logins |-> NewLogin]
    /\ owed = [l \in Logins |-> {}] /\ ended = [l \in Logins |-> {}]
    /\ delivery = [d \in Deliveries |-> NewDelivery]
    /\ front = [f \in Fronts |-> NewFront]
    /\ left = [faults |-> scene.faults, drops |-> scene.drops, ends |-> scene.ends]
    /\ book = [cause |-> [s \in {} |-> {}], unmapped |-> {}, overtaken |-> {}, replays |-> {},
               named |-> [d \in Deliveries |-> {}], done |-> [j \in {t.jti : t \in scene.tokens} |-> 0]]

LoginStep(l) ==
    \/ begin_login(l) \/ register_session(l) \/ refuse_unless_active(l) \/ end_own_session(l)
    \/ register_subject_session(l) \/ sweep_candidates(l) \/ sweep_subject_registry(l)
    \/ prune(l) \/ at_capacity(l) \/ evict_oldest(l) \/ forget_evicted(l) \/ insert_displacing(l) \/ commit(l) \/ audit_failed(l) \/ refuse(l)
TaskStep(l) == (\E q \in owed[l] : end_session(l, q)) \/ forget_ended(l)
DeliveryStep(d) ==
    \/ look_up(d) \/ (\E p \in delivery[d].todo : end_one(d, p))
    \/ drop_mapping(d) \/ answer_logout(d)

Callers == {<< >>} \cup {SessionOf(l) : l \in scene.logins}

(* Requests of a provider or a browser, and everything else. *)
Arrival ==
    \/ \E d \in scene.deliveries, t \in scene.tokens : receive(d, t)
    \/ \E f \in scene.fronts, l \in scene.logins, c \in Callers : front_look_up(f, KeyOf(l), c)
Work ==
    \/ \E l \in Logins : LoginStep(l) \/ TaskStep(l)
    \/ \E l \in Logins : drop_login(l)
    \/ \E l \in Logins : other_end(l)
    \/ \E l \in Logins : regenerate(l)
    \/ tick
    \/ \E d \in Deliveries : DeliveryStep(d) \/ drop_delivery(d)
    \/ \E f \in Fronts : front_end(f) \/ front_drop_mapping(f)
Next == Arrival \/ Work

Spec == Init /\ [][Next]_vars

-----------------------------------------------------------------------------
Sessions == {SessionOf(l) : l \in Logins} \cup {RotatedOf(l) : l \in Logins}

(* The states of the parts, and the bound of the replay log: no issuer     *)
(* holds more pairs than its partition may.                                *)
TypeOK ==
    /\ now \in 0 .. scene.time
    /\ registry \subseteq {Claims[l].user : l \in Logins} \X Sessions
    /\ \A k \in DOMAIN sidmap.entries : sidmap.entries[k].session \in Sessions
    /\ \A l \in Logins : login[l].at \in {"idle", "register", "status", "revoke", "refused", "cut", "subject",
          "candidates", "sweep", "prune", "evict", "full", "evicted", "insert", "audit", "restore", "done", "cancelled"}
    /\ \A d \in Deliveries : /\ delivery[d].at \in {"idle", "lookup", "end", "unmap", "answered"}
                             /\ delivery[d].answer \in {0, 200, 400, 503}
    /\ \A f \in Fronts : front[f].at \in {"idle", "end", "unmap", "answered"}
    /\ \A t \in scene.tokens : Cardinality({p \in DOMAIN log.held : p[1] = t.iss}) <= JtiCapacity

(* Whatever order logins, refusals and logouts touch the map in, its       *)
(* indexes and its time order describe its entries.                        *)
IndexesAgree == Agrees(sidmap)

(* A session whose login is not refused is in the subject registry for as  *)
(* long as the session registry holds it, so that a logout by `sub`        *)
(* reaches it whatever became of its `sid` mapping.                        *)
SubjectReaches ==
    \A l \in Logins : PastSubject(l) /\ Registered(l) => SessionOf(l) \in DOMAIN sidmap.subject_of

Promised(s) ==
    \E l \in Logins : \E q \in login[l].aged \cup DisplacedBy(l) \cup owed[l] : q[3] = s

(* A session that had a `sid` mapping and is still registered has it       *)
(* still, or a login holds the promise to end it or to put the mapping     *)
(* back, or the mapping went at capacity or its end failed.  (A session    *)
(* whose displacer was itself displaced before it was refused is excepted: *)
(* `overtaken`.)                                                           *)
SidReaches ==
    \A l \in Logins :
        login[l].mapped /\ ~Refused(l) /\ Registered(l) =>
            \/ SessionOf(l) \in DOMAIN sidmap.keys_of_session
            \/ Promised(SessionOf(l))
            \/ SessionOf(l) \in book.unmapped \cup book.overtaken

(* A logout finds the sessions it speaks of: the indexes agree, and        *)
(* neither the subject nor the sid of a live session is lost from them.    *)
(* (SidMap, JtiLog, complete.rs)                                           *)
LogoutReaches == IndexesAgree /\ SubjectReaches /\ SidReaches

(* Whatever is swept, forgotten, expired or put back, the sweep comes by   *)
(* every recorded subject again, and the log's queue has one item for each *)
(* pair it holds, so that each expires in its turn.                        *)
(* (sweep_subject_candidates, JtiLog)                                      *)
QueuesComplete == Queued(sidmap) /\ Orderly(log)

(* A session ends only for a cause: a logout token of its own issuer that  *)
(* carries its sid or its subject; a front-channel request for its sid; a  *)
(* login under its key that was not refused; its age; or its own login's   *)
(* refusal.  A login that is refused ends nobody's session.                *)
EndedForCause ==
    \A s \in DOMAIN book.cause :
        LET c == book.cause[s] IN
        CASE c.by = "logout" -> LET t == delivery[c.who].token IN
                 /\ Claims[s[1]].iss = t.iss
                 /\ t.sid = Claims[s[1]].sid \/ t.sub = Claims[s[1]].sub
          [] c.by = "front" -> front[c.who].key = KeyOf(s[1])
          [] c.by = "login" -> \/ login[s[1]].now + SidTtl < login[c.who].now
                               \/ KeyOf(s[1]) = KeyOf(c.who) /\ ~Refused(c.who)
          [] c.by = "own" -> c.who = s[1] /\ login[s[1]].at = "refused"
          [] OTHER -> TRUE

(* A token whose delivery was answered 200 has ended every session it      *)
(* spoke of when the handler looked: the one its sid mapped to, or all the *)
(* live sessions of its subject under that issuer.                         *)
LogoutDone ==
    \A d \in Deliveries : delivery[d].answer = 200 =>
        \A s \in book.named[d] : <<Claims[s[1]].user, s>> \notin registry

(* A token is carried out at most once, however it is resent (JtiLog).     *)
(* Its age is compared in whole seconds, the log forgets it by the clock:  *)
(* with a finer clock than that this does not hold.                        *)
CarriedOutOnce == \A j \in DOMAIN book.done : book.done[j] <= 1

(* A resend is refused as a replay only if the token was carried out: one  *)
(* that failed, was dropped half-way or is still in flight is not lost.    *)
ReplayOnlyIfDone == \A t \in book.replays : book.done[t.jti] >= 1

(* A token is carried out again only by a resend that comes more than the  *)
(* width of the acceptance window after the delivery before: what the log  *)
(* forgets, expires or drops, it remembers a token for that long.          *)
AgainOnlyWhenOld ==
    \A c, d \in Deliveries :
        /\ c # d /\ delivery[c].answer = 200 /\ delivery[d].answer = 200
        /\ PairOfToken(delivery[c].token) = PairOfToken(delivery[d].token)
        => \E x, y \in {c, d} : delivery[x].seen > delivery[y].seen + (MaxAge + MaxFuture) * TicksPerSec


(* Every federated session the registry holds, under the id it has now, is *)
(* in the subject registry.  (Not so after the id was regenerated.)        *)
EverySessionReached ==
    \A l \in Logins : \A s \in {SessionOf(l), RotatedOf(l)} :
        PastSubject(l) /\ <<Claims[l].user, s>> \in registry => s \in DOMAIN sidmap.subject_of
=============================================================================
