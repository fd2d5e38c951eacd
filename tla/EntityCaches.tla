--------------------------- MODULE EntityCaches ---------------------------
(***************************************************************************)
(* The authorization entity caches of one pod: EntityCache (l1), an        *)
(* in-process ClockTtlCache with single-flight loads, ValkeyEntityCache    *)
(* (l2), entries in a shared Valkey, or l1 stacked over l2, in front of    *)
(* the application's entity provider.  The application changes the state   *)
(* of a thing (a principal, a tenant, a resource or the folder a resource  *)
(* is in) and then invalidates; requests look entities up meanwhile.       *)
(* What a load read is the version of every thing its entities show.       *)
(***************************************************************************)
EXTENDS LruMap, Integers, FiniteSetsExt

CONSTANTS Callers,        \* requests that look entities up
          Invalidators,   \* tasks of the application that change and invalidate
          Keys,           \* what is asked for: [principal, tenant, resource, action]
          Folder,         \* the folder a resource is in
          Stripe,         \* generation.rs stripe: the counter of a thing
          None,           \* no tenant, no value, no cell
          TTL,            \* the time to live of an entry, in ticks
          Scenes          \* what a run enumerates, see Init

ASSUME TTLAssumption == TTL \in Nat \ {0}

VARIABLES truth, gens, lru, recent, inflight, cells, struck, valkey, index, caller, inv, floor, now, lookups, changes, scene

vars == <<truth, gens, lru, recent, inflight, cells, struck, valkey, index, caller, inv, floor, now, lookups, changes, scene>>
l1vars == <<lru, recent, inflight, cells, struck>>
l2vars == <<valkey, index>>

L1 == "l1" \in scene.layers
L2 == "l2" \in scene.layers

Resources == {k.resource : k \in Keys}
Things == {k.principal : k \in Keys} \cup ({k.tenant : k \in Keys} \ {None}) \cup Resources \cup Range(Folder)
Stripes == Range(Stripe)
Uids(k) == {k.principal, k.resource, Folder[k.resource]}

(* The cells of loads that are in flight, or were left behind: a bound. *)
Cells == 1 .. (2 * Cardinality(Callers))

(* A value that was read is the version of every thing. *)
Versions == [Things -> Nat]

ASSUME CachesAssumption ==
    /\ IsFiniteSet(Callers)
    /\ None \notin Cells \cup Versions
    /\ \A s \in Scenes : s.callers \subseteq Callers /\ s.keys \subseteq Keys

---------------------------------------------------------------------------
(* generation.rs.  Each cache has its own counters. *)
Zero == [all |-> 0, principals |-> [s \in Stripes |-> 0],
         tenants |-> [s \in Stripes |-> 0], resources |-> [s \in Stripes |-> 0]]

snapshot(g, k) ==
    [all |-> g.all, principal |-> g.principals[Stripe[k.principal]],
     tenant |-> IF k.tenant = None THEN 0 ELSE g.tenants[Stripe[k.tenant]],
     resource |-> g.resources[Stripe[k.resource]]]

is_current(taken, g, k) == snapshot(g, k) = taken

(* What an invalidation names, and the counter it bumps. *)
Scopes == [kind: {"all"}] \cup [kind: {"principal"}, of: {k.principal : k \in Keys}]
          \cup [kind: {"tenant"}, of: {k.tenant : k \in Keys} \ {None}]
          \cup [kind: {"resource"}, of: Resources \cup Range(Folder)]
          \cup [kind: {"one"}, of: Keys]

bump(g, s) ==
    CASE s.kind = "all" -> [g EXCEPT !.all = @ + 1]
      [] s.kind = "principal" -> [g EXCEPT !.principals[Stripe[s.of]] = @ + 1]
      [] s.kind = "one" -> [g EXCEPT !.principals[Stripe[s.of.principal]] = @ + 1]
      [] s.kind = "tenant" -> [g EXCEPT !.tenants[Stripe[s.of]] = @ + 1]
      [] s.kind = "resource" -> [g EXCEPT !.resources[Stripe[s.of]] = @ + 1]

(* The keys an invalidation's own pattern or predicate matches.  L1 drops  *)
(* the whole principal for `invalidate`, Valkey the one key.               *)
Matches(s, k) ==
    \/ s.kind = "all"
    \/ s.kind = "principal" /\ k.principal = s.of
    \/ s.kind = "tenant" /\ k.tenant = s.of
    \/ s.kind = "resource" /\ k.resource = s.of
    \/ s.kind = "one" /\ k = s.of
MatchesL1(s, k) == Matches(s, k) \/ (s.kind = "one" /\ k.principal = s.of.principal)

(* The things whose change calls for the scope. *)
ChangedBy(s) ==
    CASE s.kind = "all" -> Things
      [] s.kind = "one" -> {s.of.principal, s.of.resource}
      [] OTHER -> {s.of}

---------------------------------------------------------------------------
Idle == [pc |-> "idle", k |-> None, g1 |-> None, g2 |-> None, cell |-> None, val |-> None, start |-> None]
Resting == [pc |-> "idle", scope |-> None, upto |-> None, members |-> {}, left |-> {}, quiet |-> {}]

Init ==
    /\ truth = [t \in Things |-> 0]
    /\ gens = [l1 |-> Zero, l2 |-> Zero]
    /\ lru = New /\ recent = << >> /\ inflight = [x \in {} |-> None]
    /\ cells = [i \in Cells |-> None] /\ struck = {}
    /\ valkey = [k \in Keys |-> None]
    /\ index = [t \in Things |-> [members |-> {}, till |-> 0]]
    /\ caller = [c \in Callers |-> Idle]
    /\ inv = [i \in Invalidators |-> Resting]
    /\ floor = [k \in Keys |-> [own |-> [t \in Things |-> 0], parent |-> [t \in Things |-> 0]]]
    /\ now = 0
    /\ scene \in Scenes
    /\ lookups = scene.lookups /\ changes = scene.changes

Max2(f, g) == [t \in Things |-> IF f[t] > g[t] THEN f[t] ELSE g[t]]
Unexpired(e) == e # None /\ e.till > now

---------------------------------------------------------------------------
(* ClockTtlCache. *)
Slot(c) == [k |-> caller[c].k, g |-> caller[c].g1]
Holds(c, i) == caller[c].cell = i
Fetching == {"l2get", "read", "check", "index", "set", "recheck", "takeback"}
Runs(c, i) == Holds(c, i) /\ caller[c].pc \in Fetching

(* The strong count of a cell: the map's reference, and two of every       *)
(* participant, its local handle and its guard's.                          *)
strong_count(i) == (IF i \in Range(inflight) THEN 1 ELSE 0) + 2 * Cardinality({c \in Callers : Holds(c, i)})
IDLE_CELL_REFS == 3

Mine(c) == Slot(c) \in DOMAIN inflight /\ inflight[Slot(c)] = caller[c].cell
Removed(m, K) == Restrict(m, DOMAIN m \ K)
Forgotten(K) == SelectSeq(recent, LAMBDA x: x \notin K)

(* The request has its answer, or None. *)
Answered(r, v) == [Idle EXCEPT !.val = v, !.start = IF v = None THEN None ELSE r.start]

(* begin_lookup: entities_for takes the generation before anything else. *)
begin_lookup(c, k) ==
    /\ caller[c].pc = "idle" /\ lookups > 0
    /\ lookups' = lookups - 1
    /\ caller' = [caller EXCEPT ![c] =
         [pc |-> IF L1 THEN "lookup" ELSE "l2get", k |-> k,
          g1 |-> IF L1 THEN snapshot(gens.l1, k) ELSE None,
          g2 |-> IF L1 THEN None ELSE snapshot(gens.l2, k),
          cell |-> None, val |-> None, start |-> Max2(floor[k].own, floor[k].parent)]]
    /\ UNCHANGED <<truth, gens, l1vars, l2vars, inv, floor, now, changes, scene>>

(* get: a hit is moved to the front; an expired entry is popped. *)
lookup(c) ==
    LET s == Slot(c)
        hit == s \in DOMAIN lru.map /\ ValueOf(lru, s).till > now
    IN  /\ caller[c].pc = "lookup"
        /\ lru' = IF hit THEN get(lru, s) ELSE pop(lru, s)
        /\ recent' = IF hit THEN <<s>> \o Forgotten({s}) ELSE Forgotten({s})
        /\ caller' = [caller EXCEPT ![c] = IF hit THEN Answered(@, ValueOf(lru, s).val) ELSE [@ EXCEPT !.pc = "claim"]]
        /\ UNCHANGED <<truth, gens, inflight, cells, struck, l2vars, inv, floor, now, lookups, changes, scene>>

(* claim: join the load in flight for the key, or start one. *)
claim(c) ==
    LET s == Slot(c)
        free == {i \in Cells : i \notin Range(inflight) /\ ~ \E d \in Callers : Holds(d, i)}
        fresh == CHOOSE i \in free : TRUE
        joins == s \in DOMAIN inflight
    IN  /\ caller[c].pc = "claim" /\ (joins \/ free # {})
        /\ inflight' = IF joins THEN inflight
                       ELSE [x \in DOMAIN inflight \cup {s} |-> IF x = s THEN fresh ELSE inflight[x]]
        /\ cells' = IF joins THEN cells ELSE [cells EXCEPT ![fresh] = None]
        /\ struck' = IF joins THEN struck ELSE struck \ {fresh}
        /\ caller' = [caller EXCEPT ![c].pc = "wait", ![c].cell = IF joins THEN inflight[s] ELSE fresh]
        /\ UNCHANGED <<truth, gens, lru, recent, l2vars, inv, floor, now, lookups, changes, scene>>

(* OnceCell::get_or_try_init: a filled cell answers every participant; an  *)
(* empty one lets one of them run its own fetcher.                         *)
wait(c) ==
    LET i == caller[c].cell
    IN  /\ caller[c].pc = "wait"
        /\ \/ /\ cells[i] # None
              /\ caller' = [caller EXCEPT ![c].pc = "publish", ![c].val = cells[i]]
           \/ /\ cells[i] = None /\ ~ \E d \in Callers : Runs(d, i)
              /\ caller' = [caller EXCEPT ![c].pc = IF L2 THEN "l2get" ELSE "read",
                                          ![c].g2 = IF L2 THEN snapshot(gens.l2, caller[c].k) ELSE None]
        /\ UNCHANGED <<truth, gens, l1vars, l2vars, inv, floor, now, lookups, changes, scene>>

(* The load of c has its value: it fills the cell, or it is the answer. *)
Loaded(c, v) ==
    /\ cells' = IF L1 THEN [cells EXCEPT ![caller[c].cell] = v] ELSE cells
    /\ caller' = [caller EXCEPT ![c] = IF L1 THEN [@ EXCEPT !.pc = "publish", !.val = v] ELSE Answered(@, v)]

(* The Ok arm of get_or_try_insert_with, under the inflight lock. *)
publish(c) ==
    LET s == Slot(c)
        e == [val |-> caller[c].val, till |-> now + TTL]
    IN  /\ caller[c].pc = "publish"
        /\ IF Mine(c)
           THEN /\ lru' = put(lru, s, e, scene.cap)
                /\ recent' = LET kept == Forgotten({s})
                             IN  <<s>> \o SubSeq(kept, 1, Min({Len(kept), scene.cap - 1}))
                /\ inflight' = Removed(inflight, {s})
           ELSE UNCHANGED <<lru, recent, inflight>>
        /\ caller' = [caller EXCEPT ![c].pc = "guard"]
        /\ UNCHANGED <<truth, gens, cells, struck, l2vars, inv, floor, now, lookups, changes, scene>>

(* Bug: a participant that leaves takes the slot with it. *)
guard_uncounted(c) ==
    /\ caller[c].pc = "guard"
    /\ inflight' = IF Mine(c) THEN Removed(inflight, {Slot(c)}) ELSE inflight
    /\ caller' = [caller EXCEPT ![c].pc = "release"]
    /\ UNCHANGED <<truth, gens, lru, recent, cells, struck, l2vars, inv, floor, now, lookups, changes, scene>>

(* InflightGuard::drop, its critical section. *)
guard(c) ==
    /\ caller[c].pc = "guard"
    /\ inflight' = IF Mine(c) /\ strong_count(caller[c].cell) <= IDLE_CELL_REFS
                   THEN Removed(inflight, {Slot(c)}) ELSE inflight
    /\ caller' = [caller EXCEPT ![c].pc = "release"]
    /\ UNCHANGED <<truth, gens, lru, recent, cells, struck, l2vars, inv, floor, now, lookups, changes, scene>>

(* The guard's reference and the local one go after the lock. *)
drop_refs(c) ==
    /\ caller[c].pc = "release"
    /\ caller' = [caller EXCEPT ![c] = Answered(@, @.val)]
    /\ UNCHANGED <<truth, gens, l1vars, l2vars, inv, floor, now, lookups, changes, scene>>

(* The provider failed, or the request was cancelled at an await.  What a  *)
(* cancelled writer had stored stays (`cut`).                              *)
Abandon(c) == caller' = [caller EXCEPT ![c] = IF L1 THEN [@ EXCEPT !.pc = "guard", !.val = None] ELSE Answered(@, None)]
Cut(k) == [valkey EXCEPT ![k] = IF @ = None THEN None ELSE [@ EXCEPT !.cut = TRUE]]
cancel(c) ==
    /\ scene.faults /\ caller[c].pc \in Fetching \cup {"wait"}
    /\ Abandon(c)
    /\ valkey' = IF caller[c].pc \in {"recheck", "takeback"} THEN Cut(caller[c].k) ELSE valkey
    /\ UNCHANGED <<truth, gens, l1vars, index, inv, floor, now, lookups, changes, scene>>

---------------------------------------------------------------------------
(* ValkeyEntityCache::entities_for, after its snapshot. *)
l2get(c) ==
    LET e == valkey[caller[c].k]
    IN  /\ caller[c].pc = "l2get"
        /\ \/ Unexpired(e) /\ Loaded(c, e.val)
           \/ /\ ~ Unexpired(e) \/ scene.faults
              /\ caller' = [caller EXCEPT ![c].pc = "read"]
              /\ UNCHANGED cells
        /\ UNCHANGED <<truth, gens, lru, recent, inflight, struck, l2vars, inv, floor, now, lookups, changes, scene>>

(* The application's provider, external: it reads the current state. *)
read(c) ==
    LET v == [t \in Things |-> truth[t]]
    IN  /\ caller[c].pc = "read"
        /\ \/ /\ ~ L2
              /\ Loaded(c, v)
           \/ /\ L2
              /\ caller' = [caller EXCEPT ![c].pc = "check", ![c].val = v]
              /\ UNCHANGED cells
        /\ UNCHANGED <<truth, gens, lru, recent, inflight, struck, l2vars, inv, floor, now, lookups, changes, scene>>

check(c) ==
    /\ caller[c].pc = "check"
    /\ IF is_current(caller[c].g2, gens.l2, caller[c].k)
       THEN caller' = [caller EXCEPT ![c].pc = "index"] /\ UNCHANGED cells
       ELSE Loaded(c, caller[c].val)
    /\ UNCHANGED <<truth, gens, lru, recent, inflight, struck, l2vars, inv, floor, now, lookups, changes, scene>>

Members(t) == IF index[t].till > now THEN index[t].members ELSE {}
write_index(c) ==
    LET k == caller[c].k
        written == [t \in Things |-> IF t \in Uids(k)
                      THEN [members |-> Members(t) \cup {k}, till |-> now + TTL] ELSE index[t]]
    IN  /\ caller[c].pc = "index"
        /\ \/ /\ index' = written
              /\ caller' = [caller EXCEPT ![c].pc = "set"]
              /\ UNCHANGED cells
           \/ /\ scene.faults /\ index' \in {index, written}
              /\ Loaded(c, caller[c].val)
        /\ UNCHANGED <<truth, gens, lru, recent, inflight, struck, valkey, inv, floor, now, lookups, changes, scene>>

(* SET.  A failed one may have been applied, and is not checked again. *)
set(c) ==
    LET k == caller[c].k
        e(cut) == [val |-> caller[c].val, till |-> now + TTL, cut |-> cut]
    IN  /\ caller[c].pc = "set"
        /\ \/ /\ valkey' = [valkey EXCEPT ![k] = e(FALSE)]
              /\ caller' = [caller EXCEPT ![c].pc = "recheck"]
              /\ UNCHANGED cells
           \/ /\ scene.faults
              /\ valkey' \in {valkey, [valkey EXCEPT ![k] = e(TRUE)]}
              /\ Loaded(c, caller[c].val)
        /\ UNCHANGED <<truth, gens, lru, recent, inflight, struck, index, inv, floor, now, lookups, changes, scene>>

(* Bug: the generation is not looked at again after the entry was written. *)
recheck_skipped(c) ==
    /\ caller[c].pc = "recheck"
    /\ Loaded(c, caller[c].val)
    /\ UNCHANGED <<truth, gens, lru, recent, inflight, struck, l2vars, inv, floor, now, lookups, changes, scene>>

recheck(c) ==
    /\ caller[c].pc = "recheck"
    /\ IF is_current(caller[c].g2, gens.l2, caller[c].k)
       THEN Loaded(c, caller[c].val)
       ELSE caller' = [caller EXCEPT ![c].pc = "takeback"] /\ UNCHANGED cells
    /\ UNCHANGED <<truth, gens, lru, recent, inflight, struck, l2vars, inv, floor, now, lookups, changes, scene>>

take_back(c) ==
    LET k == caller[c].k
    IN  /\ caller[c].pc = "takeback"
        /\ \/ valkey' = [valkey EXCEPT ![k] = None]
           \/ scene.faults /\ valkey' = Cut(k)
        /\ Loaded(c, caller[c].val)
        /\ UNCHANGED <<truth, gens, lru, recent, inflight, struck, index, inv, floor, now, lookups, changes, scene>>

(* A load whose provider failed; the error is not cached. *)
read_failed(c) ==
    /\ caller[c].pc = "read" /\ scene.faults
    /\ Abandon(c)
    /\ UNCHANGED <<truth, gens, l1vars, l2vars, inv, floor, now, lookups, changes, scene>>

---------------------------------------------------------------------------
(* The application changes a thing, then invalidates Valkey, then L1.      *)
Loading(k) == \E c \in Callers : caller[c].pc # "idle" /\ caller[c].k = k

change(i, s, t) ==
    /\ inv[i].pc = "idle" /\ changes > 0
    /\ truth' = [truth EXCEPT ![t] = @ + 1]
    /\ changes' = changes - 1
    /\ inv' = [inv EXCEPT ![i] = [Resting EXCEPT !.pc = IF L2 THEN "bump2" ELSE "bump1", !.scope = s]]
    /\ UNCHANGED <<gens, l1vars, l2vars, caller, floor, now, lookups, scene>>

(* Ghost: what this call must make every later lookup see, and the keys    *)
(* with no load under way.                                                 *)
Starting(r) == [r EXCEPT !.upto = truth, !.quiet = {k \in Keys : ~ Loading(k)}]

(* The Valkey part: bump; for a resource the index's members; then the     *)
(* keyspace, a page at a time.                                             *)
bump_l2(i) ==
    /\ inv[i].pc = "bump2"
    /\ gens' = [gens EXCEPT !.l2 = bump(@, inv[i].scope)]
    /\ inv' = [inv EXCEPT ![i] = [Starting(@) EXCEPT !.left = Keys,
                 !.pc = IF inv[i].scope.kind = "resource" THEN "members" ELSE "scan"]]
    /\ UNCHANGED <<truth, l1vars, l2vars, caller, floor, now, lookups, changes, scene>>

smembers(i) ==
    /\ inv[i].pc = "members"
    /\ inv' = [inv EXCEPT ![i].members = Members(inv[i].scope.of), ![i].pc = "delmembers"]
    /\ UNCHANGED <<truth, gens, l1vars, l2vars, caller, floor, now, lookups, changes, scene>>

del_members(i) ==
    /\ inv[i].pc = "delmembers"
    /\ valkey' = [k \in Keys |-> IF k \in inv[i].members THEN None ELSE valkey[k]]
    /\ inv' = [inv EXCEPT ![i].pc = "delindex", ![i].members = {}]
    /\ UNCHANGED <<truth, gens, l1vars, index, caller, floor, now, lookups, changes, scene>>

del_index(i) ==
    /\ inv[i].pc = "delindex"
    /\ index' = [index EXCEPT ![inv[i].scope.of] = [members |-> {}, till |-> 0]]
    /\ inv' = [inv EXCEPT ![i].pc = "scan"]
    /\ UNCHANGED <<truth, gens, l1vars, valkey, caller, floor, now, lookups, changes, scene>>

(* The invalidation is over: later lookups are held to it.  For a folder,  *)
(* those of the keys under it that nobody was loading.                     *)
Under(s, k) == s.kind = "resource" /\ Folder[k.resource] = s.of
Over(i) ==
    LET r == inv[i]
    IN  /\ floor' = [k \in Keys |->
             [own |-> IF Matches(r.scope, k) THEN Max2(floor[k].own, r.upto) ELSE floor[k].own,
              parent |-> IF Under(r.scope, k) /\ k \in r.quiet THEN Max2(floor[k].parent, r.upto)
                         ELSE floor[k].parent]]
        /\ inv' = [inv EXCEPT ![i] = Resting]

scan(i, k) ==
    LET left == inv[i].left \ {k}
    IN  /\ inv[i].pc = "scan" /\ k \in inv[i].left
        /\ valkey' = IF Matches(inv[i].scope, k) THEN [valkey EXCEPT ![k] = None] ELSE valkey
        /\ IF left # {} THEN inv' = [inv EXCEPT ![i].left = left] /\ UNCHANGED floor
           ELSE IF L1 THEN inv' = [inv EXCEPT ![i].left = {}, ![i].pc = "bump1"] /\ UNCHANGED floor
           ELSE Over(i)
        /\ UNCHANGED <<truth, gens, l1vars, index, caller, now, lookups, changes, scene>>

(* A command of the invalidation fails: the caller gets the error. *)
inv_failed(i) ==
    /\ scene.faults /\ inv[i].pc \in {"members", "delmembers", "delindex", "scan"}
    /\ inv' = [inv EXCEPT ![i] = Resting]
    /\ UNCHANGED <<truth, gens, l1vars, l2vars, caller, floor, now, lookups, changes, scene>>

(* EntityCache: bump, then ClockTtlCache::invalidate_by: the loads in      *)
(* flight, then the entries; for a resource also the entries that hold it. *)
bump_l1(i) ==
    /\ inv[i].pc = "bump1"
    /\ gens' = [gens EXCEPT !.l1 = bump(@, inv[i].scope)]
    /\ inv' = [inv EXCEPT ![i] = [(IF L2 THEN @ ELSE Starting(@)) EXCEPT !.pc = "inflight"]]
    /\ UNCHANGED <<truth, l1vars, l2vars, caller, floor, now, lookups, changes, scene>>

drop_inflight(i) ==
    /\ inv[i].pc = "inflight"
    /\ LET hit == {s \in DOMAIN inflight : MatchesL1(inv[i].scope, s.k)}
       IN  /\ inflight' = Removed(inflight, hit)
           /\ struck' = struck \cup {inflight[s] : s \in hit}
    /\ inv' = [inv EXCEPT ![i].pc = "entries"]
    /\ UNCHANGED <<truth, gens, lru, recent, cells, l2vars, caller, floor, now, lookups, changes, scene>>

DropEntries(K) == lru' = popAll(lru, K) /\ recent' = Forgotten(K)

drop_entries(i) ==
    /\ inv[i].pc = "entries"
    /\ IF inv[i].scope.kind = "all" THEN lru' = New /\ recent' = << >>
       ELSE DropEntries({s \in DOMAIN lru.map : MatchesL1(inv[i].scope, s.k)})
    /\ IF inv[i].scope.kind = "resource"
       THEN inv' = [inv EXCEPT ![i].pc = "values"] /\ UNCHANGED floor
       ELSE Over(i)
    /\ UNCHANGED <<truth, gens, inflight, cells, struck, l2vars, caller, now, lookups, changes, scene>>

(* Bug: entries that only hold the resource as a parent stay. *)
drop_values_skipped(i) ==
    /\ inv[i].pc = "values"
    /\ Over(i)
    /\ UNCHANGED <<truth, gens, l1vars, l2vars, caller, now, lookups, changes, scene>>

drop_values(i) ==
    /\ inv[i].pc = "values"
    /\ DropEntries({s \in DOMAIN lru.map : inv[i].scope.of \in Uids(s.k)})
    /\ Over(i)
    /\ UNCHANGED <<truth, gens, inflight, cells, struck, l2vars, caller, now, lookups, changes, scene>>

cleanup_expired ==
    /\ scene.ticks > 0 /\ L1
    /\ DropEntries({s \in DOMAIN lru.map : ValueOf(lru, s).till <= now})
    /\ UNCHANGED <<truth, gens, inflight, cells, struck, l2vars, caller, inv, floor, now, lookups, changes, scene>>

tick ==
    /\ now < scene.ticks
    /\ now' = now + 1
    /\ UNCHANGED <<truth, gens, l1vars, l2vars, caller, inv, floor, lookups, changes, scene>>

Next ==
    \/ \E c \in scene.callers, k \in scene.keys : begin_lookup(c, k)
    \/ \E c \in scene.callers :
          \/ lookup(c) \/ claim(c) \/ wait(c) \/ publish(c) \/ guard(c) \/ drop_refs(c) \/ cancel(c)
          \/ l2get(c) \/ read(c) \/ check(c) \/ write_index(c) \/ set(c) \/ recheck(c) \/ take_back(c)
          \/ read_failed(c)
    \/ \E i \in scene.invs : \E s \in scene.scopes : \E t \in ChangedBy(s) : change(i, s, t)
    \/ \E i \in scene.invs :
          \/ bump_l2(i) \/ smembers(i) \/ del_members(i) \/ del_index(i) \/ inv_failed(i)
          \/ bump_l1(i) \/ drop_inflight(i) \/ drop_entries(i) \/ drop_values(i)
          \/ \E k \in Keys : scan(i, k)
    \/ cleanup_expired \/ tick

Spec == Init /\ [][Next]_vars

---------------------------------------------------------------------------
(* The type of the state: every value served or stored is a version of     *)
(* every thing, no newer than the thing is.                                *)
Served(v) == v = None \/ (v \in Versions /\ \A t \in Things : v[t] <= truth[t])
TypeOK ==
    /\ truth \in Versions /\ now \in Nat /\ lookups \in Nat /\ changes \in Nat
    /\ \A c \in Callers : Served(caller[c].val) /\ caller[c].cell \in Cells \cup {None}
    /\ \A i \in Cells : Served(cells[i])
    /\ \A k \in Keys : valkey[k] = None \/ Served(valkey[k].val)
    /\ \A s \in DOMAIN lru.map : Served(ValueOf(lru, s).val)
    /\ \A s \in DOMAIN inflight : inflight[s] \in Cells
    /\ IsInjective(inflight)

(* The linked list, the key map and the free chain of the LRU map agree,   *)
(* and the list is in the order of use, whatever hits, inserts at the      *)
(* capacity, expiries and invalidations came in which order (lru.rs).      *)
LruSound == Sound(lru, recent, scene.cap)

AtLeast(v, f) == \A t \in Things : v[t] >= f[t]

(* With the in-process cache alone, a lookup that starts after an          *)
(* invalidation returned is answered with nothing older than what that     *)
(* invalidation announced, although loads that began before it still run,  *)
(* are joined and finish (entity_cache.rs, generation.rs, cache.rs).  For  *)
(* a folder this holds of the keys under it no load of which was under way.*)
FreshAfterInvalidation ==
    scene.layers = {"l1"} =>
        \A c \in Callers :
            caller[c].pc = "idle" /\ caller[c].val # None =>
                AtLeast(caller[c].val, caller[c].start)

(* A Valkey entry older than an invalidation of its key that has returned  *)
(* is there only as long as the load that wrote it has not looked at the   *)
(* generation again, or because that load was cut off or its command       *)
(* failed (valkey_cache.rs, "Invalidation racing a load").                 *)
StaleIsTakenBack ==
    \A k \in Keys :
        valkey[k] # None /\ ~ AtLeast(valkey[k].val, floor[k].own) =>
            \/ valkey[k].cut
            \/ \E c \in Callers : caller[c].k = k /\ caller[c].pc \in {"recheck", "takeback"}

(* What an invalidation that returned made stale is neither served by the  *)
(* in-process cache nor kept in Valkey. (generation.rs, entities_for)      *)
NothingStaleKept == FreshAfterInvalidation /\ StaleIsTakenBack

(* Two requests fetch the same entry at once only if an invalidation       *)
(* struck one of the two loads from the in-flight map: failures and        *)
(* cancellations of others never start a second fetch (cache.rs            *)
(* get_or_try_insert_with and InflightGuard).                              *)
SingleFlight ==
    \A c, d \in Callers :
        /\ L1 /\ c # d
        /\ caller[c].pc \in Fetching /\ caller[d].pc \in Fetching
        /\ Slot(c) = Slot(d)
        => caller[c].cell \in struck \/ caller[d].cell \in struck

(* "The last participant out removes it" (cache.rs InflightGuard): a slot  *)
(* in the in-flight map has a participant.                                 *)
NoOrphanSlot == \A s \in DOMAIN inflight : \E c \in Callers : Holds(c, inflight[s])

(* "an entry is never stored unindexed" (valkey_cache.rs write_index):     *)
(* every live entry is in the index set of every entity it holds.          *)
NeverUnindexed ==
    \A k \in Keys : Unexpired(valkey[k]) => \A t \in Uids(k) : k \in Members(t)

(* "a stale build cannot outlive the invalidation that should have removed *)
(* it", stacked: once nothing is under way and no command failed, no       *)
(* cache holds entities older than an invalidation that returned.          *)
Quiescent == (\A c \in Callers : caller[c].pc = "idle") /\ (\A i \in Invalidators : inv[i].pc = "idle")
NoStaleAtRest ==
    Quiescent =>
        \A s \in DOMAIN lru.map :
            s.g = snapshot(gens.l1, s.k) => AtLeast(ValueOf(lru, s).val, floor[s.k].own)
=============================================================================
