------------------------------ MODULE Devices ------------------------------
(***************************************************************************)
(* The devices of one tenant that share a fingerprint: the calls of        *)
(* DeviceLifecycleService (device/lifecycle.rs, lifecycle/proof.rs), the   *)
(* application's trust changes and the retention sweep, over the Valkey    *)
(* store (device/storage/valkey/...), with or without CachedDeviceStore    *)
(* (device/cache.rs) in front of it.  Each command and each script of      *)
(* Valkey is a step.  The bytes of a row are the row.                      *)
(*                                                                         *)
(* A call has a role: its kind and its arguments.                          *)
(*   ensure(user)                 ensure_device                            *)
(*   resolve(user, id, session)   resolve_proven: the device whose token   *)
(*                                is presented, and the session's          *)
(*   promote(id)                  promote_on_authn                         *)
(*   bind(id, cred), use(id, cred)   bind_webauthn_credential,             *)
(*                                record_webauthn_usage                    *)
(*   set(id, level)               set_trust_level                          *)
(*   save(id)                     an application's load and save           *)
(*   delete(id), sweep            the store's                              *)
(***************************************************************************)
EXTENDS DeviceRows, Functions

CONSTANTS
    Callers, Users,
    Ids,             \* device ids: numbers, compared where the code compares ids
    NoId, NoGuard,
    Granularity,     \* with_sighting_granularity
    GuardTtl,        \* CREATE_GUARD_TTL
    ReadMaxAge,      \* CREATE_READ_MAX_AGE
    MaxTries,        \* MAX_ATTEMPTS
    BindingsRetries, \* BINDINGS_RETRIES
    ReadLimit        \* FINGERPRINT_READ_LIMIT

Owners == Users \cup {NoUser}
Credential == {"token"} \cup STRING   \* the cookie, or a WebAuthn credential
Binding == [cred : Credential, used : Nat]
(* A row carries the time of its demotion only while it is Seen. *)
DeviceRow == {r \in [user : Owners, level : Levels, seen : Nat, revoked_at : Nat \cup {Never},
               demoted_at : Nat \cup {Never}, bindings : SUBSET Binding] :
            r.level # "Seen" => r.demoted_at = Never}
Guard == [gen : Nat, id : Ids, until : Nat]
Role ==
    [kind : {"ensure"}, user : Owners] \cup
    [kind : {"resolve"}, user : Owners, id : Ids \cup {NoId}, session : Ids \cup {NoId}] \cup
    [kind : {"promote"}, id : Ids, on_login : BOOLEAN] \cup
    [kind : {"bind", "use"}, id : Ids, cred : Credential] \cup
    [kind : {"set"}, id : Ids, level : Levels] \cup
    [kind : {"save", "delete"}, id : Ids] \cup
    [kind : {"sweep"}]

ASSUME DevicesAssumption ==
    /\ Ids \subseteq Nat \ {0} /\ NoId \notin Ids /\ NoUser \notin Users
    /\ {Granularity, GuardTtl, ReadMaxAge, MaxTries, BindingsRetries, ReadLimit} \subseteq Nat
    /\ ReadMaxAge < GuardTtl
    /\ Absent \notin DeviceRow /\ NoGuard \notin Guard

(* A plan: the first rows, seen within the time it covers, whether there   *)
(* is a cache, and the calls.                                              *)
IsPlan(p) ==
    /\ DOMAIN p.rows \subseteq Ids
    /\ \A d \in DOMAIN p.rows : p.rows[d] \in DeviceRow /\ p.rows[d].seen <= p.time
    /\ p.cached \in BOOLEAN /\ p.time \in Nat /\ p.calls \in Nat
    /\ \A c \in Callers : p.roles[c] \subseteq Role

VARIABLES
    device,    \* the rows
    expiry,    \* when Valkey drops them
    guard,     \* owner -> the create guard: generation, device, expiry
    index,     \* the tenant's, the fingerprint's and the owners' sets
    minted,    \* ids that were handed out
    cached, loading,   \* the cache and, per device, the loads it will keep
    call,      \* locals of the calls that were made
    time,
    plan,      \* rigid: first rows, cached, roles of each caller, calls, time
    left,      \* calls still to come
    \* history, read by no action:
    record

storeVars == <<device, expiry, guard, index>>
cacheVars == <<cached, loading>>
deviceVars == <<storeVars, cacheVars, minted, call, time, plan, left, record>>

NewCall == [pc |-> "new", role |-> [kind |-> "none", user |-> NoUser], now |-> 0, id |-> NoId, stage |-> "none",
            row |-> Absent, was |-> Absent, op |-> [kind |-> "none"], new |-> Skip, listed |-> {}, found |-> {},
            held |-> NoGuard, at |-> 0, tries |-> 0, retries |-> 0, out |-> "none", stale |-> {}, next |-> "none"]

(* Rows as they may be found at time 0. *)
DevicesInit(p) ==
    /\ plan = p
    /\ device = [d \in Ids |-> IF d \in DOMAIN p.rows THEN p.rows[d] ELSE Absent]
    /\ expiry = [d \in Ids |-> IF d \in DOMAIN p.rows THEN ttl_seconds(p.rows[d], 0) ELSE Never]
    /\ guard = [o \in Owners |-> NoGuard]
    /\ index = [tenant |-> DOMAIN p.rows, fp |-> DOMAIN p.rows,
                own |-> [u \in Users |-> {d \in DOMAIN p.rows : p.rows[d].user = u}]]
    /\ minted = DOMAIN p.rows
    /\ cached = [d \in Ids |-> Absent]
    /\ loading = [d \in Ids |-> {}]
    /\ call = [c \in {} |-> NewCall]
    /\ time = 0
    /\ left = p.calls
    /\ record = [ended |-> [d \in {} |-> Absent], gone |-> {}, ending |-> [c \in Callers |-> {}], barred |-> [c \in Callers |-> {}],
                 born |-> [d \in {} |-> NoUser], bound |-> {}, saved |-> {}, unlisted |-> {},
                 sighted |-> [d \in Ids |-> IF d \in DOMAIN p.rows THEN seen_clock(p.rows[d]) ELSE Never], early |-> {}]

---------------------------------------------------------------------------
(* Where a call goes next, as a function of its locals.                    *)
Goes(l, pc) == [l EXCEPT !.pc = pc]
Answers(l, out) == [NewCall EXCEPT !.pc = "done", !.role = l.role, !.id = l.id, !.out = out]
Applies(l, op) == [l EXCEPT !.pc = "get", !.op = op, !.tries = 0, !.was = Absent, !.new = Skip]
Looks(l, stage) == [l EXCEPT !.pc = "members", !.stage = stage]
Loads(l, stage, id) == [l EXCEPT !.pc = "load", !.stage = stage, !.id = id]

(* What is tried when the device at hand cannot be used. *)
NextStage(l) ==
    CASE l.stage = "own" -> Looks(l, "fp")
      [] l.stage = "presented" ->
            IF l.role.user = NoUser THEN Answers([l EXCEPT !.id = NoId], "none")
            ELSE IF l.role.session = NoId THEN Goes(l, "mint") ELSE Loads(l, "session", l.role.session)
      [] OTHER -> Goes(l, "mint")

Serves(l) == Answers(l, "served")

(* No sighting is due of a device seen a moment ago: the level that was    *)
(* loaded stands.                                                          *)
note_sighting(l) ==
    IF l.now <= l.row.seen \/ l.now - l.row.seen < Granularity THEN Serves(l)
    ELSE Applies(l, [kind |-> "sight"])

(* A usable device; nobody's is claimed first. *)
Uses(l) ==
    IF l.row.user = NoUser /\ l.role.user # NoUser THEN Applies(l, [kind |-> "claim"]) ELSE note_sighting(l)

order_newest_first(x, y) == x[2].seen > y[2].seen \/ (x[2].seen = y[2].seen /\ x[1] <= y[1])
newest(R) == CHOOSE x \in R : \A y \in R : order_newest_first(x, y)

(* What the rows behind an index mean to the lookup that read them: the    *)
(* two of ensure_device, live_of_key, and the sweep.                       *)
Found(l, R) ==
    LET user == l.role.user
        kept == IF l.stage = "key" THEN {x \in R : shares_create_key(x[2], user)} ELSE R
        m == [l EXCEPT !.listed = {}, !.found = {}]
        best == [m EXCEPT !.id = newest(kept)[1], !.row = newest(kept)[2]]
    IN  CASE l.stage = "tenant" -> [m EXCEPT !.pc = "each", !.found = {x[1] : x \in {y \in R : sweep(y[2], l.now) # Skip}}]
          [] l.stage = "key" -> IF kept = {} THEN Goes(m, "insert") ELSE Serves(best)
          [] OTHER -> IF kept # {} /\ is_usable_by(newest(kept)[2], user) THEN Uses(best) ELSE NextStage(m)

(* The bindings with one added, or with the time of its use. *)
HasBinding(row, cred) == \E b \in row.bindings : b.cred = cred
Bind(l) ==
    [kind |-> "bindings", expected |-> l.row.bindings,
     bindings |-> {b \in l.row.bindings : b.cred # l.role.cred} \cup {[cred |-> l.role.cred, used |-> l.now]}]

(* What each call makes of the row that load returned. *)
promote_on_authn(l) ==
    IF l.row = Absent THEN Answers(l, "none")
    ELSE IF l.row.level = "Revoked" THEN Answers(l, "Revoked")
    ELSE Applies(l, [kind |-> IF l.row.level = "Unknown" THEN "promote" ELSE "sight"])
bind_webauthn_credential(l) ==
    IF ~live(l.row) \/ HasBinding(l.row, l.role.cred) THEN Answers(l, "none") ELSE Applies(l, Bind(l))
record_webauthn_usage(l) ==
    IF l.row = Absent \/ ~HasBinding(l.row, l.role.cred) THEN Answers(l, "none") ELSE Applies(l, Bind(l))
SaveAgain(l) ==
    IF l.row = Absent THEN Answers(l, "none") ELSE Applies(l, [kind |-> "save", row |-> l.row])
resolve_presented(l) ==
    IF ~(live(l.row) /\ HasBinding(l.row, "token") /\ is_usable_by(l.row, l.role.user)) THEN NextStage(l)
    ELSE IF l.role.user = NoUser THEN Serves(l) ELSE Uses(l)
resolve_session(l) ==
    IF live(l.row) /\ l.row.user = l.role.user THEN note_sighting(l) ELSE NextStage(l)
Loaded(l) ==
    CASE l.role.kind = "promote" -> promote_on_authn(l)
      [] l.role.kind = "bind" -> bind_webauthn_credential(l)
      [] l.role.kind = "use" -> record_webauthn_usage(l)
      [] l.role.kind = "save" -> SaveAgain(l)
      [] l.stage = "presented" -> resolve_presented(l)
      [] l.stage = "session" -> resolve_session(l)

---------------------------------------------------------------------------
(* ValkeyDeviceStore::apply and save_row: read the row, decide on it, and  *)
(* write with a script that finds the row unchanged, or begin again.       *)
decide(l, row) ==
    CASE l.op.kind = "sight" -> record_sighting(row, l.now)
      [] l.op.kind = "claim" -> claim_owner(row, l.role.user)
      [] l.op.kind = "promote" -> set_trust_level_if(row, "Unknown", "Seen", l.now)
      [] l.op.kind = "set" -> set_trust_level(row, l.role.level, l.now)
      [] l.op.kind = "bindings" -> replace_bindings(row, l.op.expected, l.op.bindings)
      [] l.op.kind = "save" -> save(row, l.op.row)
      [] l.op.kind = "sweep" -> sweep(row, l.now)
      [] l.op.kind = "delete" -> Remove

(* What the call makes of it: applied is "Missing", "Skipped", "Written"   *)
(* or "Removed", row the one the decision was taken on.                    *)
Concludes(l, applied, row) ==
    CASE l.op.kind = "sight" ->
           IF applied = "Missing" THEN Answers(l, "error")
           ELSE IF l.role.kind = "promote" THEN Answers(l, row.level)
           ELSE IF row.level = "Revoked" THEN NextStage(l) ELSE Serves(l)
      [] l.op.kind = "claim" ->
           IF applied = "Written" \/ (applied = "Skipped" /\ row.user = l.role.user) THEN note_sighting(l)
           ELSE NextStage(l)
      [] l.op.kind = "promote" ->
           IF applied = "Missing" THEN Answers(l, "none")
           ELSE IF applied = "Skipped" /\ row.level = "Revoked" THEN Answers(l, "Revoked")
           ELSE Applies(l, [kind |-> "sight"])
      [] l.op.kind = "bindings" ->
           IF applied = "Written" THEN Answers(l, "bound")
           ELSE IF applied = "Skipped" /\ live(row) /\ l.retries < BindingsRetries
           THEN [l EXCEPT !.pc = "load", !.retries = @ + 1] ELSE Answers(l, "none")
      [] l.op.kind = "sweep" -> Goes(l, IF applied = "Missing" THEN "unlist" ELSE "each")
      [] l.op.kind = "delete" /\ applied = "Missing" -> Goes(l, "unlist")
      [] l.op.kind = "set" /\ applied = "Missing" -> Answers(l, "error")
      [] l.op.kind = "save" /\ l.role.kind = "resolve" -> Serves(l)
      [] OTHER -> Answers(l, "ok")

(* InvalidateOnDrop, after every write but a sighting; the sweep has its   *)
(* own at its end.                                                         *)
Drops(l, then) ==
    IF ~plan.cached \/ l.op.kind \in {"sight", "sweep"} \/ (l.op.kind = "delete" /\ then.pc = "unlist") THEN then
    ELSE [then EXCEPT !.pc = "drop", !.next = then.pc, !.stale = {l.id}]

Retries(l, pc) ==
    IF l.tries + 1 < MaxTries THEN [l EXCEPT !.pc = pc, !.tries = @ + 1]
    ELSE IF l.op.kind = "sweep" THEN Goes(l, "each") ELSE Drops(l, Answers(l, "contended"))

---------------------------------------------------------------------------
Put(f, x, v) == [y \in DOMAIN f \cup {x} |-> IF y = x THEN v ELSE f[y]]

(* A step of call c that leaves the store alone.                           *)
Ended(c, l, r) == IF l.pc = "done" THEN [r EXCEPT !.gone = @ \cup r.ending[c], !.ending[c] = {}] ELSE r
Locally(c, l) ==
    /\ call' = [call EXCEPT ![c] = l]
    /\ record' = Ended(c, l, record)
    /\ UNCHANGED <<storeVars, minted, time, plan, left>>

Start(c, r) ==
    /\ c \in DOMAIN call => call[c].pc = "done"
    /\ left > 0 /\ r \in plan.roles[c]
    /\ left' = left - 1
    /\ LET l == [NewCall EXCEPT !.role = r, !.now = time]
           first == CASE r.kind = "ensure" -> Looks(l, IF r.user = NoUser THEN "fp" ELSE "own")
                      [] r.kind = "resolve" ->
                           IF r.id = NoId THEN NextStage([l EXCEPT !.stage = "presented"]) ELSE Loads(l, "presented", r.id)
                      [] r.kind \in {"set", "delete"} -> Applies([l EXCEPT !.id = r.id], [kind |-> r.kind])
                      [] r.kind = "sweep" -> Looks(l, "tenant")
                      [] OTHER -> Loads(l, "none", r.id)
       IN  call' = Put(call, c, first)
    /\ record' = [record EXCEPT !.barred[c] = record.gone]
    /\ UNCHANGED <<storeVars, cacheVars, minted, time, plan>>

(* CachedDeviceStore::load: a hit, a load that another call has in flight, *)
(* or a load of its own, kept unless a write strikes it meanwhile          *)
(* (EntityCaches has this cache in detail).                                *)
InFlight(d) == {c \in loading[d] : call[c].pc = "keep"}
load(c) ==
    LET l == call[c]
        With(row) == Loaded([l EXCEPT !.row = row])
    IN  /\ l.pc = "load"
        /\ IF ~plan.cached THEN Locally(c, With(device[l.id])) /\ UNCHANGED cacheVars
           ELSE IF cached[l.id] # Absent THEN Locally(c, With(cached[l.id])) /\ UNCHANGED cacheVars
           ELSE IF InFlight(l.id) # {}
           THEN (\E d \in InFlight(l.id) : Locally(c, With(call[d].row))) /\ UNCHANGED cacheVars
           ELSE /\ loading' = [loading EXCEPT ![l.id] = @ \cup {c}]
                /\ Locally(c, Goes(l, "fetch")) /\ UNCHANGED cached
fetch(c) ==
    LET l == [call[c] EXCEPT !.row = device[call[c].id]]
    IN  /\ call[c].pc = "fetch"
        /\ IF l.row # Absent THEN Locally(c, Goes(l, "keep")) /\ UNCHANGED cacheVars
           ELSE /\ loading' = [loading EXCEPT ![l.id] = @ \ {c}]
                /\ Locally(c, Loaded(l)) /\ UNCHANGED cached
(* Bug: the load is kept although a write struck it. *)
keep_any(c) ==
    LET l == call[c]
    IN  /\ l.pc = "keep"
        /\ cached' = [cached EXCEPT ![l.id] = l.row]
        /\ loading' = [loading EXCEPT ![l.id] = @ \ {c}]
        /\ Locally(c, Loaded(l))
keep(c) ==
    LET l == call[c]
    IN  /\ l.pc = "keep"
        /\ cached' = IF c \in loading[l.id] THEN [cached EXCEPT ![l.id] = l.row] ELSE cached
        /\ loading' = [loading EXCEPT ![l.id] = @ \ {c}]
        /\ Locally(c, Loaded(l))
drop(c) ==
    LET l == call[c]
    IN  /\ l.pc = "drop"
        /\ cached' = [d \in Ids |-> IF d \in l.stale THEN Absent ELSE cached[d]]
        /\ loading' = [d \in Ids |-> IF d \in l.stale THEN {} ELSE loading[d]]
        /\ Locally(c, [l EXCEPT !.pc = l.next, !.next = "none", !.stale = {}])

(* read_index, in one command for the members and one for their rows.  Of  *)
(* the fingerprint's members only the newest come, by the sightings in     *)
(* their rows; a member without a row still has the place it had.          *)
OfOwner(l) == l.stage \in {"own", "key"} /\ l.role.user # NoUser
Newest(S) ==
    {L \in SUBSET S :
        IF IsFiniteSet(S) /\ Cardinality(S) <= ReadLimit THEN L = S
        ELSE /\ Cardinality(L) = ReadLimit
             /\ \A d \in L, e \in S \ L : device[d] # Absent /\ device[e] # Absent => device[d].seen >= device[e].seen}
Listings(l) ==
    CASE l.stage = "tenant" -> {index.tenant}
      [] OfOwner(l) -> {index.own[l.role.user]}
      [] OTHER -> Newest(index.fp)
Stray(l, R) == {x \in R : OfOwner(l) /\ x[2].user # l.role.user}
Kept(l, R) == IF Stray(l, R) = {} THEN Found(l, R) ELSE [l EXCEPT !.pc = "stray", !.found = R]
members(c) ==
    LET l == call[c]
    IN  /\ l.pc = "members"
        /\ \E L \in Listings(l) :
              Locally(c, IF L = {} THEN Found(l, {}) ELSE [l EXCEPT !.pc = "rows", !.listed = L])
        /\ UNCHANGED cacheVars
rows(c) ==
    LET l == call[c]
        absent == {d \in l.listed : device[d] = Absent}
        read == {<<d, device[d]>> : d \in l.listed \ absent}
    IN  /\ l.pc = "rows"
        /\ Locally(c, IF absent = {} THEN Kept(l, read)
                      ELSE [l EXCEPT !.pc = "prune", !.listed = absent, !.found = read])
        /\ UNCHANGED cacheVars

Unlisted(l, D) ==
    CASE l.stage = "tenant" -> [index EXCEPT !.tenant = @ \ D]
      [] OfOwner(l) -> [index EXCEPT !.own[l.role.user] = @ \ D]
      [] OTHER -> [index EXCEPT !.fp = @ \ D]
(* A step of call c that changes an index, never a row. *)
Indexing(c, l, idx) ==
    /\ call' = [call EXCEPT ![c] = l]
    /\ index' = idx
    /\ record' = Ended(c, l, record)
    /\ UNCHANGED <<device, expiry, guard, cacheVars, minted, time, plan, left>>
(* Bug: the members are dropped although a row may be back. *)
prune_any(c) ==
    LET l == call[c]
    IN  /\ l.pc = "prune"
        /\ Indexing(c, Kept(l, l.found), Unlisted(l, l.listed))
(* PRUNE_ABSENT: only those that are still absent. *)
prune(c) ==
    LET l == call[c]
        absent == {d \in l.listed : device[d] = Absent}
    IN  /\ l.pc = "prune"
        /\ Indexing(c, Kept(l, l.found), Unlisted(l, absent))
(* PRUNE_MISMATCH: rows of another owner, if they are still as read. *)
prune_mismatched(c) ==
    LET l == call[c]
        stray == Stray(l, l.found)
    IN  /\ l.pc = "stray"
        /\ Indexing(c, Found(l, l.found \ stray), Unlisted(l, {x[1] : x \in {y \in stray : device[y[1]] = y[2]}}))
(* The sweep prunes a row that is gone; delete takes its id out as it is.  *)
unlist(c) ==
    LET l == call[c]
        gone == IF l.op.kind = "delete" \/ device[l.id] = Absent THEN {l.id} ELSE {}
        then == IF l.op.kind = "delete" THEN Drops([l EXCEPT !.op = [kind |-> "deleted"]], Answers(l, "ok")) ELSE Goes(l, "each")
    IN  /\ l.pc = "unlist"
        /\ call' = [call EXCEPT ![c] = then]
        /\ index' = [index EXCEPT !.tenant = @ \ gone]
        /\ record' = [Ended(c, then, record) EXCEPT !.unlisted = @ \cup {d \in gone : device[d] # Absent}]
        /\ UNCHANGED <<device, expiry, guard, cacheVars, minted, time, plan, left>>

(* plan_indexes: where a row that is written is listed, and from where one *)
(* that is removed is taken out.                                           *)
Owned(u, row) == row # Absent /\ row.user = u
Indexed(d, was, row) ==
    [tenant |-> index.tenant \cup {d}, fp |-> index.fp \cup {d},
     own |-> [u \in Users |-> IF Owned(u, row) THEN index.own[u] \cup {d}
                             ELSE IF Owned(u, was) THEN index.own[u] \ {d} ELSE index.own[u]]]
Delisted(d, was) ==
    [tenant |-> index.tenant \ {d}, fp |-> index.fp \ {d},
     own |-> [u \in Users |-> IF Owned(u, was) THEN index.own[u] \ {d} ELSE index.own[u]]]

---------------------------------------------------------------------------
(* A device that is made: its id is the application's, and never used      *)
(* before.                                                                 *)
mint(c) ==
    LET l == call[c]
    IN  /\ l.pc = "mint"
        /\ \E d \in Ids \ minted :
              /\ minted' = minted \cup {d}
              /\ call' = [call EXCEPT ![c] =
                    IF l.role.kind = "ensure" THEN [l EXCEPT !.pc = "guard", !.id = d, !.stage = "key", !.tries = 0]
                    ELSE Applies([l EXCEPT !.id = d],
                                 [kind |-> "save", row |-> NewRow(l.role.user, l.now, {[cred |-> "token", used |-> l.now]})])]
        /\ UNCHANGED <<storeVars, cacheVars, time, plan, left, record>>

(* create_or_find_row.  The guard, the device it names, the indexes; then  *)
(* the script CREATE_ROW, which reaches Valkey at once or, by its age, not *)
(* at all.  The cache drops the new id afterwards, which nobody can have   *)
(* loaded: no step of its own.                                             *)
read_guard(c) ==
    LET l == [call[c] EXCEPT !.held = guard[call[c].role.user], !.at = time]
    IN  /\ call[c].pc = "guard"
        /\ Locally(c, IF l.held = NoGuard THEN Goes(l, "members") ELSE Goes(l, "named"))
        /\ UNCHANGED cacheVars
guarded_device(c) ==
    LET l == call[c]
    IN  /\ l.pc = "named"
        /\ Locally(c, IF shares_create_key(device[l.held.id], l.role.user) THEN Serves([l EXCEPT !.id = l.held.id])
                      ELSE Goes(l, "members"))
        /\ UNCHANGED cacheVars

Inserts(c, l) ==
    /\ device' = [device EXCEPT ![l.id] = NewRow(l.role.user, l.now, {})]
    /\ index' = Indexed(l.id, Absent, NewRow(l.role.user, l.now, {}))
    /\ guard' = [guard EXCEPT ![l.role.user] = [gen |-> IF l.held = NoGuard THEN 1 ELSE l.held.gen + 1,
                                                id |-> l.id, until |-> time + GuardTtl]]
    /\ call' = [call EXCEPT ![c] = Serves(l)]
    /\ record' = [record EXCEPT !.born = Put(@, l.id, l.role.user), !.sighted[l.id] = l.now]
    /\ UNCHANGED <<expiry, cacheVars, minted, time, plan, left>>
(* Bug: a round that took long sends its insert all the same. *)
create_row_late(c) ==
    LET l == call[c]
    IN  /\ l.pc = "insert"
        /\ IF guard[l.role.user] = l.held THEN Inserts(c, l)
           ELSE Locally(c, Retries(l, "guard")) /\ UNCHANGED cacheVars
create_row(c) ==
    LET l == call[c]
    IN  /\ l.pc = "insert"
        /\ IF time - l.at <= ReadMaxAge /\ guard[l.role.user] = l.held /\ device[l.id] = Absent THEN Inserts(c, l)
           ELSE Locally(c, Retries(l, "guard")) /\ UNCHANGED cacheVars

---------------------------------------------------------------------------
(* The read and the script of a conditional write.                         *)
get(c) ==
    LET l == call[c]
        row == device[l.id]
        step == decide(l, row)
        missing == row = Absent /\ l.op.kind # "save"
        then == IF missing THEN Drops(l, Concludes(l, "Missing", row))
                ELSE IF step = Skip THEN Drops(l, Concludes(l, "Skipped", row))
                ELSE [l EXCEPT !.pc = "cas", !.was = row, !.new = step]
    IN  /\ l.pc = "get"
        /\ Locally(c, then) /\ UNCHANGED cacheVars

(* History of a write: which devices were revoked, and as what; which were *)
(* brought back on purpose; credentials that were bound; sightings, and    *)
(* devices the sweep revoked within the window of their last.              *)
Noted(c, l, then, row) ==
    LET d == l.id
        was == l.was
        saves == l.op.kind = "save"
        revokes == row # Absent /\ row.level = "Revoked" /\ (was = Absent \/ live(was))
        freed == row = Absent \/ (live(row) /\ ~live(was) /\ (l.op.kind = "set" \/ was = Absent))
        back == IF l.op.kind \in {"set", "save"} /\ live(row) THEN {d} ELSE {}
        ends == IF row = Absent \/ row.level = "Revoked" THEN {d} ELSE {}
        bound == IF l.op.kind = "bindings" /\ l.role.kind = "bind" THEN {<<d, l.role.cred>>} ELSE {}
    IN  Ended(c, then,
          [record EXCEPT
              !.ended = IF revokes THEN Put(@, d, row) ELSE IF freed THEN Restrict(@, DOMAIN @ \ {d}) ELSE @,
              !.gone = @ \ back,
              !.barred = [x \in Callers |-> @[x] \ back],
              !.ending = [x \in Callers |-> IF x = c THEN (@[x] \ back) \cup ends ELSE @[x] \ back],
              !.born = IF (freed /\ was # Absent) \/ saves THEN Restrict(@, DOMAIN @ \ {d}) ELSE @,
              !.bound = (IF row = Absent \/ saves THEN {b \in @ : b[1] # d} ELSE @) \cup bound,
              !.saved = IF saves /\ l.role.kind = "save" THEN @ \cup {d} ELSE @,
              !.unlisted = @ \ {d},
              !.sighted[d] = IF row # Absent THEN seen_clock(row) ELSE @,
              !.early = IF l.op.kind = "sweep" /\ revokes /\ l.now - record.sighted[d] <= SeenIdle THEN @ \cup {d} ELSE @])

(* WRITE_ROW and REMOVE_DEVICE, on the row that was read, ... *)
Writes(c, l) ==
    LET d == l.id
        row == l.new.row
        then == Drops(l, Concludes(l, IF row = Absent THEN "Removed" ELSE "Written", l.was))
    IN  /\ device' = [device EXCEPT ![d] = row]
        /\ expiry' = [expiry EXCEPT ![d] = IF row = Absent \/ ttl_seconds(row, l.now) = Never THEN Never
                                           ELSE time + ttl_seconds(row, l.now)]
        /\ index' = IF row = Absent THEN Delisted(d, l.was) ELSE Indexed(d, l.was, row)
        /\ call' = [call EXCEPT ![c] = then]
        /\ record' = Noted(c, l, then, row)
        /\ UNCHANGED <<guard, cacheVars, minted, time, plan, left>>
(* ... and on no row: a removal tidies the indexes all the same. *)
Misses(c, l) ==
    Indexing(c, Drops(l, Concludes(l, "Missing", l.was)), IF l.new = Remove THEN Delisted(l.id, l.was) ELSE index)
(* Bug: the row is written whatever it is by now. *)
cas_blind(c) ==
    LET l == call[c]
    IN  /\ l.pc = "cas"
        /\ IF device[l.id] # Absent \/ l.was = Absent THEN Writes(c, l) ELSE Misses(c, l)
cas(c) ==
    LET l == call[c]
    IN  /\ l.pc = "cas"
        /\ IF device[l.id] = l.was THEN Writes(c, l)
           ELSE IF device[l.id] = Absent /\ l.op.kind # "save" THEN Misses(c, l)
           ELSE Locally(c, Retries(l, "get")) /\ UNCHANGED cacheVars

(* The sweep goes on to a row of the chunk for which something was due.    *)
each(c) ==
    LET l == call[c]
    IN  /\ l.pc = "each" /\ UNCHANGED cacheVars
        /\ IF l.found = {}
           THEN Locally(c, IF plan.cached THEN [Answers(l, "ok") EXCEPT !.pc = "drop", !.next = "done", !.stale = Ids]
                           ELSE Answers(l, "ok"))
           ELSE \E d \in l.found : Locally(c, Applies([l EXCEPT !.id = d, !.found = @ \ {d}], [kind |-> "sweep"]))

(* Time passes: Valkey drops rows and guards, and the cache may have       *)
(* expired by then.                                                        *)
Later ==
    LET t == time + 1
        due == {d \in Ids : device[d] # Absent /\ expiry[d] # Never /\ expiry[d] <= t}
        live_due == {d \in due : live(device[d])}
    IN  /\ time < plan.time /\ time' = t
        /\ device' = [d \in Ids |-> IF d \in due THEN Absent ELSE device[d]]
        /\ expiry' = [d \in Ids |-> IF d \in due THEN Never ELSE expiry[d]]
        /\ guard' = [o \in Owners |-> IF guard[o] # NoGuard /\ guard[o].until <= t THEN NoGuard ELSE guard[o]]
        /\ cached' \in {cached, [d \in Ids |-> Absent]}
        /\ record' = [record EXCEPT !.ended = Restrict(@, DOMAIN @ \ due), !.born = Restrict(@, DOMAIN @ \ due),
                                    !.bound = {b \in @ : b[1] \notin due},
                                    !.early = @ \cup {d \in live_due : t - record.sighted[d] < SeenIdle + RevokedGrace}]
        /\ UNCHANGED <<index, minted, loading, call, plan, left>>

CallStep(c) ==
    \/ load(c) \/ fetch(c) \/ keep(c) \/ drop(c)
    \/ members(c) \/ rows(c) \/ prune(c) \/ prune_mismatched(c) \/ unlist(c)
    \/ mint(c) \/ read_guard(c) \/ guarded_device(c) \/ create_row(c)
    \/ get(c) \/ cas(c) \/ each(c)

DevicesStep == Later \/ \E c \in DOMAIN call : CallStep(c)

---------------------------------------------------------------------------
(* A revoked device stays as it was revoked until it is removed, or an     *)
(* operator sets its level: no sighting, promotion, claim, binding, save   *)
(* or sweep that was under way when it was revoked writes to it.           *)
(* (record_sighting, set_trust_level_if, replace_bindings, claim_owner,    *)
(* blocks_save)                                                            *)
RevokedFrozen == \A d \in DOMAIN record.ended : device[d] \in {Absent, record.ended[d]}

(* A call that begins after a device was revoked or deleted is not given   *)
(* it, from the cache neither. (InvalidateOnDrop, note_sighting)           *)
RevokedNotServed ==
    \A c \in DOMAIN call :
        call[c].pc = "done" /\ call[c].out \in {"served", "Unknown", "Seen", "Trusted"} =>
            call[c].id \notin record.barred[c]

(* A revocation holds, for the row and for those who ask. *)
RevokedStaysOut == RevokedFrozen /\ RevokedNotServed

(* A user is given a device that is theirs, whoever else met it first      *)
(* (claim_owner), as long as no application saved over it.                 *)
OwnDeviceOnly ==
    \A c \in DOMAIN call :
        LET l == call[c]
        IN  l.pc = "done" /\ l.out = "served" /\ l.role.user # NoUser /\ l.id \notin record.saved /\ device[l.id] # Absent
                => device[l.id].user = l.role.user

(* Parallel first sightings make one device: of those that create_or_find  *)
(* inserted for an owner, one is live, and of those for nobody, unless the *)
(* fingerprint has more devices than a lookup reads. (CREATE_ROW, the      *)
(* create guard, devices_with_fingerprint)                                 *)
AllRead(owner) == owner # NoUser \/ (IsFiniteSet(Ids) /\ Cardinality(Ids) <= ReadLimit)
OneLivePerKey ==
    \A d, e \in DOMAIN record.born :
        d # e /\ record.born[d] = record.born[e] /\ AllRead(record.born[d]) =>
            ~(shares_create_key(device[d], record.born[d]) /\ shares_create_key(device[e], record.born[e]))

DevicesApart == OwnDeviceOnly /\ OneLivePerKey

(* A credential that was bound stays bound, whatever edit raced with it    *)
(* (replace_bindings).                                                     *)
BindingsKept == \A b \in record.bound : device[b[1]] # Absent => HasBinding(device[b[1]], b[2])

(* A row is in each index a reader or the sweep looks for it in, although  *)
(* readers take out members whose row is gone. (PRUNE_ABSENT)              *)
Listed ==
    \A d \in Ids : device[d] # Absent =>
        /\ d \in index.fp
        /\ d \in index.tenant \cup record.unlisted
        /\ device[d].user # NoUser => d \in index.own[device[d].user]

(* A device is revoked for idleness, or dropped by Valkey, only when the   *)
(* window since its last sighting or its demotion has run out, also if it  *)
(* was sighted while the sweep was under way. (plan_sweep, ttl_seconds)    *)
RetentionFair == record.early = {}

RowsKept == BindingsKept /\ Listed /\ RetentionFair
=============================================================================
