-------------------------- MODULE DevicesInvariant --------------------------
(***************************************************************************)
(* The inductive invariant of Devices, from which follows that a           *)
(* revocation holds, that a user is given their own device, and that rows, *)
(* bindings and index entries are kept.                                    *)
(*                                                                         *)
(* None of the three is inductive: each depends on what a call that is     *)
(* under way has read and will act on.  DevicesInv adds that.              *)
(*   - Calls: the locals of every call agree with the state that it left   *)
(*     behind (Sound): what it is about to write was decided from the row  *)
(*     that the write compares with (Decided), the devices it holds are    *)
(*     known (Knowing), are not barred for it (Clear) and belong to whom   *)
(*     it will answer (Owning).                                            *)
(*   - Apart: an id that is being made is in the hands of one call.        *)
(*     Known are the minted ids that are not being made; rows, guards and  *)
(*     history are about known ids only (KnownRows, KnownHistory), so a    *)
(*     device that appears meets nothing of its own in the state.          *)
(*   - RowsInv: a revoked row is the row that was left (Frozen), and the   *)
(*     expiry of a live row lies beyond its window (Sighted).              *)
(*   - KeyInv: a call that searches for a rival before its insert either   *)
(*     lost its guard, so that the insert will be refused, or still has    *)
(*     every rival ahead of it (Searches).                                 *)
(*   - CacheInv: a device whose end was told is live neither in the store  *)
(*     nor in the cache nor with a load that may still fill it (OutHolds), *)
(*     and one whose end was not told yet is owed an invalidation          *)
(*     (EndsHold).                                                         *)
(***************************************************************************)
EXTENDS Devices

(* Where a call stands, behind the invalidation it may owe the cache. *)
Place(l) == IF l.pc = "drop" THEN l.next ELSE l.pc
Lookups == {"members", "rows", "prune", "stray"}
Makings == {"guard", "named", "insert"} \cup Lookups
Writing == {"get", "cas"}
Loading == {"load", "fetch", "keep"}
Pcs == {"new", "none", "mint", "unlist", "each", "drop", "done"} \cup Makings \cup Writing \cup Loading

(* Rows seen by time t, and the locals of a call that may hold them. *)
Rows(t) == {r \in DeviceRow : r.seen <= t}

Op(t) ==
    [kind : {"none", "sight", "claim", "promote", "set", "sweep", "delete"}] \cup
    [kind : {"bindings"}, expected : SUBSET Binding, bindings : SUBSET Binding] \cup
    [kind : {"save"}, row : Rows(t)]

(* The ids a sweep is left with, or the rows that were read. *)
Finds(t) == SUBSET (Ids \cup (Ids \X Rows(t)))
Locals(t, R) ==
    [pc : Pcs, role : R, now : 0 .. t, id : Ids \cup {NoId},
     stage : {"none", "own", "fp", "key", "presented", "session", "tenant"},
     row : Rows(t) \cup {Absent}, was : Rows(t) \cup {Absent}, op : Op(t),
     new : [step : {"skip", "remove", "write"}, row : Rows(t) \cup {Absent}],
     listed : SUBSET Ids, found : Finds(t),
     held : Guard \cup {NoGuard}, at : Nat, tries : Nat, retries : Nat,
     out : {"none", "served", "error", "bound", "ok", "contended"} \cup Levels,
     stale : SUBSET Ids, next : Pcs]
Call(t) == Locals(t, Role)

Staged(l) ==
    /\ l.role.kind = "ensure" => l.stage \in {"own", "fp", "key", "none"}
    /\ l.role.kind = "resolve" => l.stage \in {"presented", "session", "none"}
    /\ l.role.kind = "sweep" => l.stage \in {"tenant", "none"}
    /\ l.role.kind \notin {"ensure", "resolve", "sweep"} => l.stage = "none"
    /\ l.op.kind = "sweep" => l.role.kind = "sweep"

(* The calls that a write of this kind is part of. *)
Writers(op) ==
    CASE op.kind = "none" -> {}
      [] op.kind = "sight" -> {"ensure", "resolve", "promote"}
      [] op.kind = "claim" -> {"ensure", "resolve"}
      [] op.kind = "bindings" -> {"bind", "use"}
      [] op.kind = "save" -> {"save", "resolve"}
      [] OTHER -> {op.kind}

(* A call with the id of a device that is not there yet. *)
Making(l) ==
    \/ l.role.kind = "ensure" /\ l.stage = "key" /\ Place(l) \in Makings
    \/ l.role.kind = "resolve" /\ l.op.kind = "save" /\ Place(l) \in Writing

Placed(l, t) ==
    /\ Place(l) \in Loading =>
            /\ l.id \in Ids
            /\ \/ l.role.kind \in {"promote", "bind", "use", "save"}
               \/ l.role.kind = "resolve" /\ l.stage \in {"presented", "session"}
    /\ Place(l) \in Lookups => (l.role.kind = "ensure" /\ l.stage # "none") \/ (l.role.kind = "sweep" /\ l.stage = "tenant")
    /\ Place(l) = "mint" => l.role.kind \in {"ensure", "resolve"}
    /\ Place(l) \in {"guard", "named", "insert"} => l.role.kind = "ensure" /\ l.stage = "key"
    /\ Place(l) \in Makings /\ l.stage = "key" => l.id \in Ids
    /\ Place(l) = "named" => l.held # NoGuard
    /\ Place(l) \in Writing => l.id \in Ids /\ l.role.kind \in Writers(l.op)
    /\ Place(l) \in Writing /\ l.op.kind = "claim" => l.role.user # NoUser
    /\ Place(l) = "unlist" => l.id \in Ids /\ l.role.kind \in {"sweep", "delete"} /\ l.op.kind = l.role.kind
    /\ Place(l) = "each" => l.role.kind = "sweep"
    /\ Place(l) \in {"each", "unlist"} \cup Writing /\ l.role.kind = "sweep" => l.found \in SUBSET Ids
    /\ Place(l) \in {"prune", "stray"} => l.found \in SUBSET (Ids \X Rows(t))
    /\ Place(l) = "keep" => l.row \in Rows(t)
    /\ Place(l) \notin {"drop", "new", "none"}
    /\ l.pc = "drop" => Place(l) \notin {"fetch", "keep", "cas", "rows", "prune", "stray"} /\ ~Making(l)

Holds(l, K) == l.held # NoGuard => l.held.id \in K
(* What the ids at hand have to do with the ones that are known. *)
Knowing(l, K) ==
    /\ l.pc = "keep" => l.id \in K
    /\ l.pc \in {"prune", "stray"} => \A x \in l.found : x[1] \in K
    /\ Place(l) \in Writing /\ l.op.kind \in {"sight", "claim", "promote"} => l.id \in K
    /\ Place(l) \in Writing /\ l.op.kind = "save" /\ l.role.kind = "save" => l.id \in K
    /\ Place(l) = "done" /\ l.out = "served" => l.id \in K
    /\ Holds(l, K)

Decided(l) == l.pc = "cas" => l.new = decide(l, l.was) /\ l.new # Skip /\ (l.was = Absent => l.op.kind = "save")
Binds(l) ==
    Place(l) \in Writing /\ l.op.kind = "bindings" =>
        /\ \A b \in l.op.expected : \E x \in l.op.bindings : x.cred = b.cred
        /\ \E x \in l.op.bindings : x.cred = l.role.cred

ServedOuts == {"served", "Unknown", "Seen", "Trusted"}
Clear(l, B) ==
    /\ l.pc = "keep" /\ live(l.row) => l.id \notin B
    /\ l.pc \in {"prune", "stray"} => \A x \in l.found : live(x[2]) => x[1] \notin B
    /\ Place(l) \in Writing /\ (l.op.kind \in {"sight", "claim", "promote"} \/ l.role.kind = "resolve") => l.id \notin B
    /\ Place(l) = "done" /\ l.out \in ServedOuts => l.id \notin B

(* Device d is u's, in rows D, unless it was saved over. *)
OwnerIs(d, u, D, V) == d \in V \/ D[d] = Absent \/ D[d].user = u
Belongs(d, row, D, V) == row.user # NoUser => OwnerIs(d, row.user, D, V)
Owning(l, D, V) ==
    /\ l.pc = "keep" => Belongs(l.id, l.row, D, V)
    /\ l.pc \in {"prune", "stray"} => \A x \in l.found : Belongs(x[1], x[2], D, V)
    /\ Place(l) \in Writing /\ l.op.kind = "sight" /\ l.role.kind \in {"ensure", "resolve"} /\ l.role.user # NoUser
            => OwnerIs(l.id, l.role.user, D, V)
    /\ Place(l) = "done" /\ l.out = "served" =>
            /\ l.role.kind \in {"ensure", "resolve"}
            /\ l.role.user # NoUser => OwnerIs(l.id, l.role.user, D, V)
    /\ Place(l) \in Writing /\ l.op.kind = "save" /\ l.role.kind = "resolve" => l.op.row.user = l.role.user

(* All but the search for a rival. *)
Sound(l, t, K, B, D, V) ==
    /\ l \in Call(t) /\ Staged(l) /\ Placed(l, t) /\ Decided(l) /\ Binds(l)
    /\ Knowing(l, K) /\ Clear(l, B) /\ Owning(l, D, V)

-----------------------------------------------------------------------------
(* The state.  Devices are known once their making is over. *)
Known == {d \in minted : \A c \in DOMAIN call : Making(call[c]) => call[c].id # d}

Shaped(r) ==
    r \in [ended : {r.ended}, gone : {r.gone}, ending : {r.ending}, barred : {r.barred}, born : {r.born},
           bound : {r.bound}, saved : {r.saved}, unlisted : {r.unlisted}, sighted : {r.sighted}, early : {r.early}]
RecordOK(r) ==
    /\ Shaped(r)
    /\ r.ending \in [Callers -> SUBSET Ids] /\ r.barred \in [Callers -> SUBSET Ids]
    /\ r.sighted \in [Ids -> Int]

Typed ==
    /\ IsPlan(plan)
    /\ device \in [Ids -> Rows(plan.time) \cup {Absent}]
    /\ expiry \in [Ids -> Int]
    /\ guard \in [Owners -> Guard \cup {NoGuard}]
    /\ index \in [tenant : SUBSET Ids, fp : SUBSET Ids, own : [Users -> SUBSET Ids]]
    /\ minted \subseteq Ids
    /\ cached \in [Ids -> Rows(plan.time) \cup {Absent}]
    /\ loading \in [Ids -> SUBSET Callers]
    /\ DOMAIN call \subseteq Callers /\ call = [c \in DOMAIN call |-> call[c]]
    /\ time \in 0 .. plan.time
    /\ RecordOK(record)

Calls ==
    \A c \in DOMAIN call :
        Sound(call[c], plan.time, Known, record.barred[c], device, record.saved) /\ call[c].now <= time

Apart ==
    /\ \A c \in DOMAIN call : Making(call[c]) => call[c].id \in minted
    /\ \A c, x \in DOMAIN call : Making(call[c]) /\ Making(call[x]) /\ c # x => call[c].id # call[x].id

KnownRows ==
    /\ \A d \in Ids : device[d] # Absent \/ cached[d] # Absent => d \in Known
    /\ \A d \in Ids : device[d] = Absent => expiry[d] = Never
    /\ \A o \in Owners : guard[o] # NoGuard => guard[o].id \in Known
KnownHistory ==
    /\ record.gone \subseteq Known /\ record.saved \subseteq Known
    /\ DOMAIN record.ended \subseteq Known /\ DOMAIN record.born \subseteq Known
    /\ \A c \in Callers : record.ending[c] \subseteq Known /\ record.barred[c] \subseteq Known
    /\ \A b \in record.bound : b[1] \in Known

Frozen == \A d \in DOMAIN record.ended : device[d] = record.ended[d] /\ ~live(device[d]) /\ device[d] # Absent
Sighted ==
    \A d \in Ids : device[d] # Absent =>
        /\ record.sighted[d] = seen_clock(device[d])
        /\ live(device[d]) /\ expiry[d] # Never => expiry[d] >= seen_clock(device[d]) + SeenIdle + RevokedGrace
BornOwned ==
    \A e \in DOMAIN record.born : device[e] # Absent /\ (record.born[e] = NoUser \/ device[e].user = record.born[e])

Loads1 ==
    \A d \in Ids : \A y \in loading[d] : y \in DOMAIN call /\ call[y].id = d /\ call[y].pc \in {"fetch", "keep"}
Uncached ==
    ~plan.cached => /\ \A d \in Ids : cached[d] = Absent /\ loading[d] = {}
                    /\ \A c \in DOMAIN call : call[c].pc \notin {"drop", "fetch", "keep"}
CachedOwn == \A d \in Ids : cached[d] # Absent => Belongs(d, cached[d], device, record.saved)
(* Nobody who asks for d gets it from anywhere. *)
Out(d) == ~live(device[d]) /\ ~live(cached[d]) /\ \A y \in loading[d] : call[y].pc = "keep" => ~live(call[y].row)
OutHolds ==
    /\ \A d \in record.gone : Out(d)
    /\ \A c \in Callers : \A d \in record.barred[c] : Out(d)
(* Devices a call has ended, but not yet said so. *)
EndsOf(c, d) ==
    /\ ~live(device[d])
    /\ c \in DOMAIN call /\ call[c].pc # "done" /\ call[c].role.kind # "ensure"
    /\ plan.cached => IF call[c].pc = "drop" THEN call[c].next = "done" /\ d \in call[c].stale
                      ELSE call[c].role.kind = "sweep"
EndsHold == \A c \in Callers : \A d \in record.ending[c] : EndsOf(c, d)
CacheInv == Loads1 /\ Uncached /\ CachedOwn /\ OutHolds /\ EndsHold

(* The search of a call that is about to insert a device: with guards G,   *)
(* rows D and those that were inserted, N, it will meet each rival, or     *)
(* its insert will not be made.                                            *)
Searching(l) == l.role.kind = "ensure" /\ l.stage = "key" /\ l.pc \in {"named", "insert"} \cup Lookups
Passed(l, G, t) ==
    IF l.held # NoGuard THEN G[l.role.user] # l.held
    ELSE \/ G[l.role.user] # NoGuard /\ G[l.role.user].until >= l.at + GuardTtl
         \/ t >= l.at + GuardTtl
Rival(u, e, D, N) == AllRead(u) /\ e \in DOMAIN N /\ N[e] = u /\ shares_create_key(D[e], u)
Ahead(l, e) ==
    \/ l.pc \in {"named", "members"}
    \/ l.pc = "rows" /\ e \in l.listed
    \/ l.pc \in {"prune", "stray"} /\ \E x \in l.found : x[1] = e /\ shares_create_key(x[2], l.role.user)
Keyed(l, G, t, D, N) ==
    Searching(l) => l.at <= t /\ (Passed(l, G, t) \/ \A e \in Ids : Rival(l.role.user, e, D, N) => Ahead(l, e))
Searches == \A c \in DOMAIN call : Keyed(call[c], guard, time, device, record.born)

RowsInv == Frozen /\ Sighted /\ RetentionFair /\ BindingsKept /\ Listed
KeyInv == BornOwned /\ OneLivePerKey /\ Searches
DevicesInv == Typed /\ Calls /\ Apart /\ KnownRows /\ KnownHistory /\ RowsInv /\ KeyInv /\ CacheInv
=============================================================================
