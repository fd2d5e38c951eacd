---------------------------- MODULE SessionLayer ----------------------------
(***************************************************************************)
(* The session layer of axess-core: requests that share a session load its *)
(* row, run their handlers and write, rotate or end it, each store call    *)
(* and each registry call a step of its own, while an administrator        *)
(* revokes sessions and rows expire.                                       *)
(*                                                                         *)
(* A request is one pass through SessionService::call                      *)
(* (session/layer/service.rs): load_session (lifecycle.rs), the handler's  *)
(* session operations (extractor.rs, handle.rs and the authn service's     *)
(* login, logout, step-up and impersonation), finalize_session             *)
(* (lifecycle/finalize.rs) and settle_registry (lifecycle/registry.rs).    *)
(* The handler holds its own copy of the session, so its local operations  *)
(* commute with other requests and need no finer steps.                    *)
(*                                                                         *)
(* Session ids are 128-bit random values in the code and are never minted  *)
(* twice; here a request numbers the ids it mints.                         *)
(***************************************************************************)
EXTENDS SessionData

CONSTANTS
    Requests,          \* each runs once; request r writes value r and makes login r
    Seed,              \* the id of the session stored at the start
    SeedRows,          \* the rows Seed may have
    NoId, NoRow, NoKey,
    Ops,               \* the operations handlers use
    MaxOps,            \* bound: operations per request
    MaxMint,           \* bound: ids a request mints; large enough never to bind
    SwapAttempts,      \* SWAP_ATTEMPTS
    CycleAttempts,     \* CYCLE_ATTEMPTS
    Binding,           \* the layer has a session binding
    Accept,            \* UnknownLiveness is Accept, not Reject
    StoreMayFail,      \* a store call may return an error, without effect
    RegistryMayFail,   \* a registry call may return an error, without effect
    MayExpire,         \* rows reach their TTL, sessions their age cap
    Revocations,       \* what the administrator may do: "user", "session"
    RowsWired          \* the authn service was given the session store

ASSUME LayerAssumption ==
    /\ Requests \subseteq Values /\ Requests \subseteq Logins
    /\ SeedRows \subseteq Data
    /\ Seed \notin Requests \X Nat
    /\ NoId # Seed /\ NoId \notin Requests \X (1 .. MaxMint)
    /\ NoRow \notin Data
    /\ NoKey \notin Keys
    /\ MaxOps \in Nat /\ MaxMint \in Nat
    /\ SwapAttempts \in Nat /\ CycleAttempts \in Nat

(* What is stored at the start was stored by an earlier request. *)
ASSUME SeedAssumption ==
    \A row \in SeedRows :
        /\ cap_custom(row.custom) = row.custom
        /\ \A k \in Keys : row.custom[k] \notin Requests

Ids == {Seed} \cup (Requests \X (1 .. MaxMint))

VARIABLES
    store,      \* SessionStore: the row of each id, NoRow when there is none
    registry,   \* SessionRegistry: the <<user, id>> pairs it holds
    issued,     \* ids the server ever put in a cookie
    pc,         \* what each request does next
    inner,      \* SessionInner: the request's own copy of the session
    work,       \* locals of the store call in progress (Swap, cycle_session)
    call,       \* the request itself: its client, its operations, ids minted
    admin,      \* the revocation in progress
    \* History, read by no action:
    loginOf,    \* the login each id was minted for
    line,       \* the first id of the session each id belongs to
    revoked,    \* logins that were revoked or logged out
    planted,    \* <<key, value>> pairs put in a session that was not logged in
    got         \* <<request, key, value>>: one-shot values handed out

shared == <<store, registry, issued>>
history == <<loginOf, line, revoked, planted, got>>
vars == <<store, registry, issued, pc, inner, work, call, admin,
          loginOf, line, revoked, planted, got>>

Finished == {"cookie", "nocookie", "closed", "ended"}

PCs == {"idle", "verdict", "endrow", "handler", "register", "recheck",
        "swap", "swapload", "touch", "save", "merge", "remove", "move",
        "failclosed", "liveold", "livenew", "regnew", "reread", "invold",
        "endrevoked", "enduntracked"} \cup Finished

(* modified and regenerate: every rotation also sets modified. *)
Dirt == {"clean", "modified", "regenerate"}

Inner == [id : Ids \cup {NoId}, pre_cycle_id : Ids \cup {NoId}, data : Data,
          dirty : Dirt, pending : Clients \cup {NoFp}, loaded : Data \cup {NoRow}]

Work == [key : Keys \cup {NoKey}, val : Values \cup {NoVal}, local : Data,
         next : Data, expected : Nat, att : Nat, was : Kinds]

OpNames == {"set", "remove", "clear_custom", "take", "begin", "factor", "oauth",
            "logout", "regenerate", "step_up", "impersonate"}

Call == [client : Clients \cup {NoFp}, ops : SUBSET (OpNames \X (Keys \cup {NoKey})),
         minted : 0 .. MaxMint]

Admin == [pc : {"idle", "user", "session", "rows", "done"}, user : Users \cup {NoUser},
          ids : SUBSET Ids]

NewInner == [id |-> NoId, pre_cycle_id |-> NoId, data |-> DefaultData,
             dirty |-> "clean", pending |-> NoFp, loaded |-> NoRow]

NoWork == [key |-> NoKey, val |-> NoVal, local |-> DefaultData,
           next |-> DefaultData, expected |-> 0, att |-> 0, was |-> "Guest"]

LoggedIn(auth) == auth.login # NoLogin

Init ==
    /\ \E row \in SeedRows :
        /\ store = [i \in Ids |-> IF i = Seed THEN row ELSE NoRow]
        /\ registry = IF is_authenticated(row.auth) THEN {<<row.auth.user, Seed>>} ELSE {}
        /\ loginOf = [i \in Ids |-> IF i = Seed THEN row.auth.login ELSE NoLogin]
        /\ planted = IF LoggedIn(row.auth) THEN {}
                     ELSE {<<k, row.custom[k]>> : k \in {j \in Keys : row.custom[j] # NoVal}}
    /\ issued = {Seed}
    /\ pc = [r \in Requests |-> "idle"]
    /\ inner = [r \in Requests |-> NewInner]
    /\ work = [r \in Requests |-> NoWork]
    /\ call = [r \in Requests |-> [client |-> NoFp, ops |-> {}, minted |-> 0]]
    /\ admin = [pc |-> "idle", user |-> NoUser, ids |-> {}]
    /\ line = [i \in Ids |-> i]
    /\ revoked = {}
    /\ got = {}

-----------------------------------------------------------------------------
(* The shared services. *)

(* SessionRegistryHandle::liveness: an error is Unknown, never Gone. *)
liveness(u, i) ==
    {IF <<u, i>> \in registry THEN "Valid" ELSE "Gone"}
        \cup (IF RegistryMayFail THEN {"Unknown"} ELSE {})

register(u, i) == registry' = registry \cup {<<u, i>>}

(* invalidate_session: a failure is logged by note_revocation and ignored. *)
invalidate_session(u, i) ==
    \/ registry' = registry \ {<<u, i>>}
    \/ RegistryMayFail /\ registry' = registry

save(i, row) == store' = [store EXCEPT ![i] = row]

delete(i) == store' = [store EXCEPT ![i] = NoRow]

(* A best-effort delete, whose failure is logged and ignored. *)
try_delete(i) == delete(i) \/ (StoreMayFail /\ UNCHANGED store)

existing(r) == inner[r].loaded # NoRow

Goto(r, l) == pc' = [pc EXCEPT ![r] = l]

SetInner(r, q) == inner' = [inner EXCEPT ![r] = q]

SetWork(r, w) == work' = [work EXCEPT ![r] = w]

(* apply_session_cookie: the response carries the id of the session. *)
SendCookie(r) ==
    /\ Goto(r, "cookie")
    /\ issued' = issued \cup {inner[r].id}

CanMint(r, n) == call[r].minted + n <= MaxMint

Minted(r, n) == <<r, call[r].minted + n>>

Mint(r, n) == call' = [call EXCEPT ![r].minted = @ + n]

-----------------------------------------------------------------------------
(* load_session *)

(* A request whose cookie is trusted for nothing runs as a fresh guest     *)
(* under a new id, never under the id it presented.                        *)
StartFresh(r, c, dirt) ==
    /\ CanMint(r, 1)
    /\ SetInner(r, [NewInner EXCEPT !.id = Minted(r, 1), !.dirty = dirt,
                                    !.pending = IF Binding THEN c ELSE NoFp])
    /\ call' = [call EXCEPT ![r] = [client |-> c, ops |-> call[r].ops,
                                    minted |-> call[r].minted + 1]]
    /\ Goto(r, "handler")

(* Bug: a session bound to one client is trusted from another. *)
check_binding_skipped(row, fp) ==
    IF row.fp = NoFp /\ row.auth.kind # "Guest" THEN [row EXCEPT !.fp = fp] ELSE row

(* The data the request runs with, or NoRow when the fingerprint of the    *)
(* session is not the request's.  A session past Guest without one is      *)
(* bound now.                                                              *)
check_binding(row, fp) ==
    IF row.fp \notin {NoFp, fp} THEN NoRow
    ELSE IF row.fp = NoFp /\ row.auth.kind # "Guest" THEN [row EXCEPT !.fp = fp]
    ELSE row

Trust(r, c, i, row) ==
    LET fp   == IF Binding THEN c ELSE NoFp
        data == check_binding(row, fp)
    IN  IF data = NoRow
        THEN StartFresh(r, c, "regenerate")
        ELSE /\ SetInner(r, [id |-> i, pre_cycle_id |-> NoId, data |-> data,
                             dirty |-> IF data = row THEN "clean" ELSE "modified",
                             pending |-> IF data.fp = NoFp THEN fp ELSE NoFp,
                             loaded |-> row])
             /\ call' = [call EXCEPT ![r].client = c]
             /\ Goto(r, "handler")

(* No cookie, a cookie that names no row, or a store that cannot answer. *)
LoadNothing(r) ==
    /\ pc[r] = "idle"
    /\ \E c \in Clients : StartFresh(r, c, "clean")
    /\ UNCHANGED <<shared, work, admin, history>>

(* An authenticated row is vetted first; any other is trusted as it is. *)
LoadRow(r) ==
    /\ pc[r] = "idle"
    /\ \E c \in Clients, i \in issued :
        /\ store[i] # NoRow
        /\ IF is_authenticated(store[i].auth)
           THEN /\ SetInner(r, [NewInner EXCEPT !.id = i, !.data = store[i]])
                /\ call' = [call EXCEPT ![r].client = c]
                /\ Goto(r, "verdict")
           ELSE Trust(r, c, i, store[i])
    /\ UNCHANGED <<shared, work, admin, history>>

(* Bug: a session the registry no longer holds is kept. *)
VerdictGoneKept(r) ==
    /\ pc[r] = "verdict"
    /\ Trust(r, call[r].client, inner[r].id, inner[r].data)
    /\ UNCHANGED <<shared, work, admin, history>>

(* authenticated_session_verdict: Keep, End or Distrust. *)
Verdict(r) ==
    LET q == inner[r]
    IN  /\ pc[r] = "verdict"
        /\ \/ MayExpire /\ Goto(r, "endrow") /\ UNCHANGED <<inner, call>>
           \/ \E answer \in liveness(q.data.auth.user, q.id) :
                \/ answer = "Valid" /\ Trust(r, call[r].client, q.id, q.data)
                \/ answer = "Gone" /\ Goto(r, "endrow") /\ UNCHANGED <<inner, call>>
                \/ /\ answer = "Unknown"
                   /\ IF Accept THEN Trust(r, call[r].client, q.id, q.data)
                                ELSE StartFresh(r, call[r].client, "clean")
        /\ UNCHANGED <<shared, work, admin, history>>

(* SessionVerdict::End deletes the row; the response replaces the cookie. *)
EndRow(r) ==
    /\ pc[r] = "endrow"
    /\ try_delete(inner[r].id)
    /\ StartFresh(r, call[r].client, "modified")
    /\ UNCHANGED <<registry, issued, work, admin, history>>

-----------------------------------------------------------------------------
(* The handler's operations on its own copy of the session. *)

Handler(r, op, k) ==
    /\ pc[r] = "handler"
    /\ op \in Ops
    /\ <<op, k>> \notin call[r].ops
    /\ Cardinality(call[r].ops) < MaxOps

(* The operation is counted, with the n ids it minted. *)
Called(r, op, k, n) ==
    call' = [call EXCEPT ![r] = [client |-> call[r].client, ops |-> call[r].ops \cup {<<op, k>>},
                                 minted |-> call[r].minted + n]]

dirtied(q) == IF q.dirty = "clean" THEN "modified" ELSE q.dirty

(* SessionInner::rotate_id: the id the request came with is kept once. *)
rotate_id(q, new) ==
    [q EXCEPT !.pre_cycle_id = IF @ = NoId THEN q.id ELSE @,
              !.id = new, !.dirty = "regenerate"]

bind_fingerprint(q) ==
    IF q.data.fp = NoFp /\ q.pending # NoFp
    THEN [q EXCEPT !.data = [@ EXCEPT !.fp = q.pending], !.pending = NoFp]
    ELSE q

with_auth(q, auth, bag) == [q EXCEPT !.data = [@ EXCEPT !.auth = auth, !.custom = bag]]

with_custom(q, bag) ==
    [q EXCEPT !.data = [@ EXCEPT !.custom = bag], !.dirty = dirtied(q)]

(* AuthSession::clear *)
clear(q, new) == rotate_id([q EXCEPT !.data = DefaultData], new)

(* The session takes id q.id for the login q carries. *)
Rotated(r, q) ==
    /\ SetInner(r, q)
    /\ loginOf' = [loginOf EXCEPT ![q.id] = q.data.auth.login]

(* set_custom_value refuses a value that would pass the cap. *)
SetCustom(r) ==
    \E k \in Keys :
        LET bag == [inner[r].data.custom EXCEPT ![k] = r]
        IN  /\ Handler(r, "set", k)
            /\ Called(r, "set", k, 0)
            /\ IF cap_custom(bag) = bag
               THEN /\ SetInner(r, with_custom(inner[r], bag))
                    /\ planted' = IF LoggedIn(inner[r].data.auth) THEN planted
                                  ELSE planted \cup {<<k, r>>}
               ELSE UNCHANGED <<inner, planted>>
            /\ UNCHANGED <<shared, pc, work, admin, loginOf, line, revoked, got>>

RemoveCustom(r) ==
    \E k \in Keys :
        /\ Handler(r, "remove", k)
        /\ inner[r].data.custom[k] # NoVal
        /\ Called(r, "remove", k, 0)
        /\ SetInner(r, with_custom(inner[r], [inner[r].data.custom EXCEPT ![k] = NoVal]))
        /\ UNCHANGED <<shared, pc, work, admin, history>>

ClearCustom(r) ==
    /\ Handler(r, "clear_custom", NoKey)
    /\ Called(r, "clear_custom", NoKey, 0)
    /\ SetInner(r, with_custom(inner[r], EmptyBag))
    /\ UNCHANGED <<shared, pc, work, admin, history>>

Regenerate(r) ==
    /\ Handler(r, "regenerate", NoKey) /\ CanMint(r, 1)
    /\ Called(r, "regenerate", NoKey, 1)
    /\ Rotated(r, rotate_id(inner[r], Minted(r, 1)))
    /\ UNCHANGED <<shared, pc, work, admin, line, revoked, planted, got>>

(* begin_authenticating: a login starts, from whatever state. *)
BeginLogin(r) ==
    /\ Handler(r, "begin", NoKey) /\ CanMint(r, 1)
    /\ Called(r, "begin", NoKey, 1)
    /\ \E u \in Users :
        Rotated(r, bind_fingerprint(rotate_id(
            with_auth(inner[r], begin_authenticating(u), inner[r].data.custom), Minted(r, 1))))
    /\ UNCHANGED <<shared, pc, work, admin, line, revoked, planted, got>>

authenticated(q, auth, new) ==
    rotate_id(bind_fingerprint(with_auth(q, auth, retain_across_login(q.data.custom))), new)

(* advance_factor completes a login or a step-up; register follows. *)
CompleteFactor(r) ==
    LET auth == inner[r].data.auth
    IN  /\ Handler(r, "factor", NoKey) /\ CanMint(r, 1)
        /\ auth.kind \in {"Authenticating", "StepUp"}
        /\ Called(r, "factor", NoKey, 1)
        /\ Rotated(r, authenticated(inner[r],
                IF auth.kind = "StepUp" THEN finish_step_up(auth)
                ELSE set_authenticated(auth.user, r), Minted(r, 1)))
        /\ Goto(r, "register")
        /\ UNCHANGED <<shared, work, admin, line, revoked, planted, got>>

(* set_authenticated_keeping: a login of another kind, from any state. *)
OAuthLogin(r) ==
    /\ Handler(r, "oauth", NoKey) /\ CanMint(r, 1)
    /\ Called(r, "oauth", NoKey, 1)
    /\ \E u \in Users :
        Rotated(r, authenticated(inner[r], set_authenticated(u, r), Minted(r, 1)))
    /\ Goto(r, "register")
    /\ UNCHANGED <<shared, work, admin, line, revoked, planted, got>>

(* begin_step_up: the session is asked for another factor, under its id. *)
StepUp(r) ==
    /\ Handler(r, "step_up", NoKey)
    /\ is_authenticated(inner[r].data.auth)
    /\ Called(r, "step_up", NoKey, 0)
    /\ SetInner(r, with_custom(
            with_auth(inner[r], begin_step_up(inner[r].data.auth), inner[r].data.custom),
            inner[r].data.custom))
    /\ UNCHANGED <<shared, pc, work, admin, history>>

(* begin_impersonation up to the end of the administrator's own entry: the *)
(* session takes the target's identity, with an empty bag and a second     *)
(* rotation; register follows.                                             *)
Impersonate(r) ==
    /\ Handler(r, "impersonate", NoKey) /\ CanMint(r, 2)
    /\ is_authenticated(inner[r].data.auth)
    /\ Called(r, "impersonate", NoKey, 2)
    /\ \E u \in Users \ {inner[r].data.auth.user} :
        Rotated(r, rotate_id(
            authenticated(with_custom(inner[r], EmptyBag), set_authenticated(u, r), Minted(r, 1)),
            Minted(r, 2)))
    /\ invalidate_session(inner[r].data.auth.user, inner[r].id)
    /\ Goto(r, "register")
    /\ UNCHANGED <<store, issued, work, admin, line, revoked, planted, got>>

ClearSession(r) ==
    /\ CanMint(r, 1)
    /\ Mint(r, 1)
    /\ Rotated(r, clear(inner[r], Minted(r, 1)))

(* The handler registers the id its login was given; a session the         *)
(* registry cannot take is cleared.                                        *)
Register(r) ==
    /\ pc[r] = "register"
    /\ \/ /\ register(inner[r].data.auth.user, inner[r].id)
          /\ Goto(r, "recheck")
          /\ UNCHANGED <<call, inner, loginOf>>
       \/ /\ RegistryMayFail
          /\ ClearSession(r)
          /\ Goto(r, "handler")
          /\ UNCHANGED registry
    /\ UNCHANGED <<store, issued, work, admin, line, revoked, planted, got>>

(* After registering, the service reads again what the login was checked   *)
(* against (flow stamp, account status) and writes its audit row: the      *)
(* login stands, or its entry is dropped and the session cleared.  The     *)
(* service here has no cap on a user's sessions (max_sessions_per_user).   *)
Recheck(r) ==
    /\ pc[r] = "recheck"
    /\ Goto(r, "handler")
    /\ \/ UNCHANGED <<registry, call, inner, loginOf>>
       \/ /\ invalidate_session(inner[r].data.auth.user, inner[r].id)
          /\ ClearSession(r)
    /\ UNCHANGED <<store, issued, work, admin, line, revoked, planted, got>>

(* logout drops the registry entry, then clears the session. *)
Logout(r) ==
    /\ Handler(r, "logout", NoKey) /\ CanMint(r, 1)
    /\ Called(r, "logout", NoKey, 1)
    /\ Rotated(r, clear(inner[r], Minted(r, 1)))
    /\ IF inner[r].data.auth.user = NoUser THEN UNCHANGED registry
       ELSE invalidate_session(inner[r].data.auth.user, inner[r].id)
    /\ revoked' = IF registry' # registry THEN revoked \cup {inner[r].data.auth.login}
                  ELSE revoked
    /\ UNCHANGED <<store, issued, pc, work, admin, line, planted, got>>

-----------------------------------------------------------------------------
(* swap_merging: the compare-and-swap write of a stored session, retried   *)
(* with this request's changes merged onto what a concurrent request       *)
(* wrote.  A Work with a key takes that key's value (consume_custom); one  *)
(* without writes the session back at the end (write_changes).             *)

row_id(q) == IF q.pre_cycle_id = NoId THEN q.id ELSE q.pre_cycle_id

(* Bug: what is about to be stored is not capped again. *)
capped_not(d) == d

(* cap_custom, on the data about to be stored, a merge included. *)
capped(d) == [d EXCEPT !.custom = cap_custom(@)]

first_attempt(k, v, local, expected) ==
    [key |-> k, val |-> v, local |-> local,
     next |-> [capped(local) EXCEPT !.revision = expected + 1],
     expected |-> expected, att |-> 1, was |-> "Guest"]

without(d, k) == [d EXCEPT !.custom = [@ EXCEPT ![k] = NoVal]]

(* Bug: after a rotation the retired row gets all of the request's data. *)
take_local_everything(q, k) == without(q.data, k)

(* What the removal of k is written as: once the id has rotated, the       *)
(* retired row gets the removal alone, never a login made meanwhile.       *)
take_local(q, k) == without(IF q.pre_cycle_id = NoId THEN q.data ELSE q.loaded, k)

(* take_custom of a stored value starts a compare-and-swap; a value only   *)
(* this request holds is simply handed out.                                *)
Take(r) ==
    \E k \in Keys :
        LET q     == inner[r]
            v     == q.data.custom[k]
            local == take_local(q, k)
            inRow == /\ q.loaded # NoRow
                     /\ q.pre_cycle_id = NoId \/ q.loaded.custom[k] # NoVal
        IN  /\ Handler(r, "take", k)
            /\ v # NoVal
            /\ Called(r, "take", k, 0)
            /\ SetInner(r, with_custom(q, without(q.data, k).custom))
            /\ IF inRow
               THEN /\ SetWork(r, first_attempt(k, v, local, local.revision))
                    /\ Goto(r, "swap")
                    /\ UNCHANGED got
               ELSE /\ got' = got \cup {<<r, k, v>>}
                    /\ UNCHANGED <<pc, work>>
            /\ UNCHANGED <<shared, admin, loginOf, line, revoked, planted>>

(* The outcomes of a swap for its caller. *)
SwapWritten(r) ==
    LET q == inner[r]
        w == work[r]
        data == IF w.key # NoKey /\ q.pre_cycle_id # NoId
                THEN merge_rotating(q.loaded, q.data, w.next)
                ELSE w.next
    IN  /\ SetInner(r, [q EXCEPT !.data = data, !.loaded = w.next])
        /\ IF w.key = NoKey
           THEN SendCookie(r) /\ UNCHANGED got
           ELSE /\ Goto(r, "handler")
                /\ got' = got \cup {<<r, w.key, w.val>>}
                /\ UNCHANGED issued

SwapFailed(r) ==
    /\ Goto(r, IF work[r].key = NoKey THEN "nocookie" ELSE "handler")
    /\ UNCHANGED inner

SwapGone(r) ==
    IF work[r].key = NoKey
    THEN /\ Goto(r, "nocookie")
         /\ SetInner(r, [inner[r] EXCEPT !.data = DefaultData])
    ELSE SwapFailed(r)

(* Bug: the write does not look at the revision of the row. *)
SwapTryBlind(r) ==
    LET i == row_id(inner[r])
    IN  /\ pc[r] = "swap"
        /\ \/ /\ store[i] = NoRow
              /\ SwapGone(r)
              /\ UNCHANGED <<store, issued, got>>
           \/ /\ store[i] # NoRow
              /\ save(i, work[r].next)
              /\ SwapWritten(r)
        /\ UNCHANGED <<registry, work, call, admin, loginOf, line, revoked, planted>>

(* update_if_revision *)
SwapTry(r) ==
    LET i == row_id(inner[r])
    IN  /\ pc[r] = "swap"
        /\ \/ /\ store[i] = NoRow
              /\ SwapGone(r)
              /\ UNCHANGED <<store, issued, got>>
           \/ /\ store[i] # NoRow /\ store[i].revision = work[r].expected
              /\ save(i, work[r].next)
              /\ SwapWritten(r)
           \/ /\ store[i] # NoRow /\ store[i].revision # work[r].expected
              /\ Goto(r, "swapload")
              /\ UNCHANGED <<store, issued, inner, got>>
           \/ /\ StoreMayFail
              /\ SwapFailed(r)
              /\ UNCHANGED <<store, issued, got>>
        /\ UNCHANGED <<registry, work, call, admin, loginOf, line, revoked, planted>>

(* Bug: a consumption goes on without looking at the stored value. *)
declines_never(w, row) == FALSE

(* consume_custom declines a value another request took meanwhile. *)
declines(w, row) == w.key # NoKey /\ row.custom[w.key] = NoVal

(* A conflict reads the row again.  A consumption hands out the value      *)
(* stored now, and none when another request took it; after SwapAttempts   *)
(* the write is given up.                                                  *)
SwapLoad(r) ==
    LET q     == inner[r]
        w     == work[r]
        row   == store[row_id(q)]
        fresh == IF w.key = NoKey THEN row ELSE without(row, w.key)
        next  == merge_concurrent(q.loaded, w.local, fresh)
    IN  /\ pc[r] = "swapload"
        /\ \/ row = NoRow /\ SwapGone(r) /\ UNCHANGED work
           \/ StoreMayFail /\ SwapFailed(r) /\ UNCHANGED work
           \/ /\ row # NoRow
              /\ declines(w, row)
              /\ SwapFailed(r) /\ UNCHANGED work
           \/ /\ row # NoRow
              /\ ~declines(w, row)
              /\ IF w.att = SwapAttempts
                 THEN SwapFailed(r) /\ UNCHANGED work
                 ELSE /\ SetWork(r, [w EXCEPT
                            !.val = IF w.key = NoKey THEN @ ELSE row.custom[w.key],
                            !.expected = row.revision, !.att = @ + 1,
                            !.next = [capped(next) EXCEPT !.revision = row.revision + 1]])
                      /\ Goto(r, "swap")
                      /\ UNCHANGED inner
        /\ UNCHANGED <<shared, call, admin, history>>

-----------------------------------------------------------------------------
(* finalize_session *)

(* The handler returned, or was dropped: FinishGuard runs the rest either  *)
(* way.  due is a touch that is due (a stored session that only read) or   *)
(* a need to persist (a fresh guest whose id was read).                    *)
FinishHandler(r) ==
    \E due \in BOOLEAN :
        LET q    == inner[r]
            data == [capped(q.data) EXCEPT !.revision = @ + 1]
            p    == IF q.dirty = "regenerate" /\ q.pre_cycle_id = NoId
                    THEN [q EXCEPT !.pre_cycle_id = q.id, !.id = Minted(r, 1), !.data = data]
                    ELSE [q EXCEPT !.data = data]
        IN  /\ pc[r] = "handler"
            /\ IF q.dirty = "clean" /\ ~due
               THEN Goto(r, "nocookie") /\ UNCHANGED <<inner, work, call>>
               ELSE /\ SetInner(r, p)
                    /\ IF p.id # q.id THEN CanMint(r, 1) /\ Mint(r, 1) ELSE UNCHANGED call
                    /\ SetWork(r, [first_attempt(NoKey, NoVal, data, q.data.revision) EXCEPT
                                    !.was = IF existing(r) THEN q.loaded.auth.kind ELSE "Guest"])
                    /\ Goto(r, CASE q.dirty = "regenerate" /\ existing(r)  -> "merge"
                                 [] q.dirty = "regenerate" /\ ~existing(r) -> "remove"
                                 [] q.dirty = "modified" /\ existing(r)    -> "swap"
                                 [] q.dirty = "clean" /\ existing(r)       -> "touch"
                                 [] OTHER                                  -> "save")
            /\ UNCHANGED <<shared, admin, history>>

(* The idle refresh: a concurrent write re-armed the row, so a conflict    *)
(* writes nothing and still sends the cookie.                              *)
Touch(r) ==
    LET row == store[inner[r].id]
    IN  /\ pc[r] = "touch"
        /\ \/ /\ row # NoRow
              /\ IF row.revision = work[r].expected
                 THEN save(inner[r].id, inner[r].data)
                 ELSE UNCHANGED store
              /\ SendCookie(r)
              /\ UNCHANGED inner
           \/ /\ row = NoRow
              /\ SwapGone(r)
              /\ UNCHANGED <<store, issued>>
           \/ /\ StoreMayFail
              /\ SwapFailed(r)
              /\ UNCHANGED <<store, issued>>
        /\ UNCHANGED <<registry, work, call, admin, history>>

(* A fresh guest is stored under the id it ran with. *)
SaveFresh(r) ==
    /\ pc[r] = "save"
    /\ \/ save(inner[r].id, inner[r].data) /\ SendCookie(r)
       \/ StoreMayFail /\ Goto(r, "nocookie") /\ UNCHANGED <<store, issued>>
    /\ UNCHANGED <<registry, inner, work, call, admin, history>>

(* merge_concurrent_writes: what another request wrote to the old row      *)
(* since it was loaded is merged into the data the rotation carries.       *)
CycleMerge(r) ==
    LET q      == inner[r]
        fresh  == store[q.pre_cycle_id]
        merged == merge_rotating(q.loaded, q.data, fresh)
        moved  == fresh # NoRow /\ fresh.revision # q.loaded.revision
    IN  /\ pc[r] = "merge"
        /\ \/ /\ ~moved
              /\ Goto(r, "remove")
              /\ SetWork(r, [work[r] EXCEPT !.expected = q.loaded.revision])
              /\ UNCHANGED inner
           \/ /\ moved
              /\ Goto(r, "remove")
              /\ SetWork(r, [work[r] EXCEPT !.expected = fresh.revision])
              /\ SetInner(r, [q EXCEPT !.loaded = fresh,
                    !.data = [capped(merged) EXCEPT !.revision = fresh.revision + 1]])
           \/ StoreMayFail /\ Goto(r, "failclosed") /\ UNCHANGED <<inner, work>>
        /\ UNCHANGED <<shared, call, admin, history>>

CycleGone(r) ==
    /\ Goto(r, "nocookie")
    /\ SetInner(r, [inner[r] EXCEPT !.data = DefaultData])
    /\ UNCHANGED work

CycleConflict(r) ==
    /\ Goto(r, IF work[r].att = CycleAttempts THEN "failclosed" ELSE "merge")
    /\ SetWork(r, [work[r] EXCEPT !.att = @ + 1])
    /\ UNCHANGED inner

(* Bug: an old row that is gone does not stop the rotation. *)
CycleRemoveGoneOk(r) ==
    LET old == inner[r].pre_cycle_id
    IN  /\ pc[r] = "remove"
        /\ \/ /\ existing(r) /\ store[old] # NoRow /\ store[old].revision # work[r].expected
              /\ CycleConflict(r)
              /\ UNCHANGED store
           \/ /\ ~(existing(r) /\ store[old] # NoRow /\ store[old].revision # work[r].expected)
              /\ delete(old)
              /\ Goto(r, "move")
              /\ UNCHANGED <<inner, work>>
        /\ UNCHANGED <<registry, issued, call, admin, history>>

(* Bug: an old row that is gone is answered as one more conflict, for ever. *)
CycleRemoveRetries(r) ==
    LET old == inner[r].pre_cycle_id
    IN  /\ pc[r] = "remove"
        /\ \/ /\ existing(r) /\ store[old] # NoRow /\ store[old].revision # work[r].expected
              /\ CycleConflict(r)
              /\ UNCHANGED store
           \/ /\ existing(r) /\ store[old] = NoRow
              /\ Goto(r, "merge")
              /\ UNCHANGED <<store, inner, work>>
           \/ /\ existing(r) => store[old] # NoRow /\ store[old].revision = work[r].expected
              /\ delete(old)
              /\ Goto(r, "move")
              /\ UNCHANGED <<inner, work>>
        /\ UNCHANGED <<registry, issued, call, admin, history>>

(* The removal half of cycle_if_revision (and of cycle, for a guest whose  *)
(* id was never stored): whoever removes the old row owns the rotation.    *)
CycleRemove(r) ==
    LET old  == inner[r].pre_cycle_id
        owns == store[old] # NoRow /\ store[old].revision = work[r].expected
    IN  /\ pc[r] = "remove"
        /\ \/ /\ existing(r) => owns
              /\ delete(old)
              /\ Goto(r, "move")
              /\ UNCHANGED <<inner, work>>
           \/ /\ existing(r) /\ store[old] = NoRow
              /\ CycleGone(r)
              /\ UNCHANGED store
           \/ /\ existing(r) /\ store[old] # NoRow /\ store[old].revision # work[r].expected
              /\ CycleConflict(r)
              /\ UNCHANGED store
           \/ /\ StoreMayFail /\ Goto(r, "failclosed")
              /\ UNCHANGED <<store, inner, work>>
        /\ UNCHANGED <<registry, issued, call, admin, history>>

(* The other half: the data is stored under the new id.  The registry      *)
(* entry of a session that is authenticated is settled before the cookie.  *)
CycleSave(r) ==
    LET q == inner[r]
    IN  /\ pc[r] = "move"
        /\ \/ /\ save(q.id, q.data)
              /\ line' = [line EXCEPT ![q.id] = line[q.pre_cycle_id]]
              /\ IF is_authenticated(q.data.auth)
                 THEN Goto(r, "liveold") /\ UNCHANGED issued
                 ELSE SendCookie(r)
           \/ StoreMayFail /\ Goto(r, "failclosed") /\ UNCHANGED <<store, line, issued>>
        /\ UNCHANGED <<registry, inner, work, call, admin, loginOf, revoked, planted, got>>

(* A rotation that failed deletes the old row and sends the new id, which  *)
(* no row backs.                                                           *)
FailClosed(r) ==
    /\ pc[r] = "failclosed"
    /\ try_delete(inner[r].pre_cycle_id)
    /\ issued' = issued \cup {inner[r].id}
    /\ SetInner(r, [inner[r] EXCEPT !.data = DefaultData])
    /\ Goto(r, "closed")
    /\ UNCHANGED <<registry, work, call, admin, history>>

-----------------------------------------------------------------------------
(* settle_registry: the registry entry follows the session to its new id,  *)
(* and a session revoked while its id rotated ends.                        *)

user(r) == inner[r].data.auth.user

LiveOld(r) ==
    /\ pc[r] = "liveold"
    /\ \E answer \in liveness(user(r), inner[r].pre_cycle_id) :
        Goto(r, IF answer = "Gone" THEN "livenew" ELSE "regnew")
    /\ UNCHANGED <<shared, inner, work, call, admin, history>>

(* Bug: a rotated session the registry cannot track is let through. *)
OnUntrackedAccepted(r) == SendCookie(r)

(* on_untracked: UnknownLiveness decides. *)
OnUntracked(r) ==
    IF Accept THEN SendCookie(r) ELSE Goto(r, "enduntracked") /\ UNCHANGED issued

RegisterNew(r) ==
    /\ pc[r] = "regnew"
    /\ \/ register(user(r), inner[r].id) /\ Goto(r, "reread") /\ UNCHANGED issued
       \/ RegistryMayFail /\ OnUntracked(r) /\ UNCHANGED registry
    /\ UNCHANGED <<store, inner, work, call, admin, history>>

(* Bug: the old id is not read again after the new one was registered. *)
RereadSkipped(r) ==
    /\ pc[r] = "reread"
    /\ Goto(r, "invold")
    /\ UNCHANGED <<shared, inner, work, call, admin, history>>

(* reread_old_id *)
RereadOld(r) ==
    /\ pc[r] = "reread"
    /\ \E answer \in liveness(user(r), inner[r].pre_cycle_id) :
        Goto(r, IF answer = "Valid" \/ (answer = "Unknown" /\ Accept)
                THEN "invold" ELSE "endrevoked")
    /\ UNCHANGED <<shared, inner, work, call, admin, history>>

InvalidateOld(r) ==
    /\ pc[r] = "invold"
    /\ invalidate_session(user(r), inner[r].pre_cycle_id)
    /\ SendCookie(r)
    /\ UNCHANGED <<store, inner, work, call, admin, history>>

(* The old id is gone: a login whose handler registered the new id stands, *)
(* a session that was authenticated when it was loaded was revoked.        *)
LiveNew(r) ==
    /\ pc[r] = "livenew"
    /\ \E answer \in liveness(user(r), inner[r].id) :
        \/ /\ answer = "Valid" /\ work[r].was = "Authenticated"
           /\ Goto(r, "endrevoked") /\ UNCHANGED issued
        \/ answer = "Valid" /\ work[r].was # "Authenticated" /\ SendCookie(r)
        \/ answer = "Gone" /\ Goto(r, "enduntracked") /\ UNCHANGED issued
        \/ answer = "Unknown" /\ OnUntracked(r)
    /\ UNCHANGED <<store, registry, inner, work, call, admin, history>>

(* end_revoked_rotation *)
EndRevoked(r) ==
    /\ pc[r] = "endrevoked"
    /\ invalidate_session(user(r), inner[r].id)
    /\ Goto(r, "enduntracked")
    /\ UNCHANGED <<store, issued, inner, work, call, admin, history>>

EndUntracked(r) ==
    /\ pc[r] = "enduntracked"
    /\ try_delete(inner[r].id)
    /\ Goto(r, "ended")
    /\ UNCHANGED <<registry, issued, inner, work, call, admin, history>>

-----------------------------------------------------------------------------
(* Revocation by an administrator (authn/service/revocation.rs): what the  *)
(* registry holds is listed, the entries are removed, then the rows that   *)
(* were listed are deleted one by one.                                     *)

held_sessions(u) == {i \in Ids : <<u, i>> \in registry}

(* revoke_user_sessions; a listing that fails names no rows. *)
ListUser ==
    /\ admin.pc = "idle" /\ "user" \in Revocations
    /\ \E u \in Users :
        \/ admin' = [pc |-> "user", user |-> u, ids |-> held_sessions(u)]
        \/ RegistryMayFail /\ admin' = [pc |-> "user", user |-> u, ids |-> {}]
    /\ UNCHANGED <<shared, pc, inner, work, call, history>>

(* revoke_session, of a session the registry holds for the user. *)
ListSession ==
    /\ admin.pc = "idle" /\ "session" \in Revocations
    /\ \E u \in Users : \E i \in held_sessions(u) :
        admin' = [pc |-> "session", user |-> u, ids |-> {i}]
    /\ UNCHANGED <<shared, pc, inner, work, call, history>>

(* invalidate_user or invalidate_session; the rows go either way. *)
Revoke ==
    LET gone == IF admin.pc = "user" THEN held_sessions(admin.user)
                ELSE held_sessions(admin.user) \cap admin.ids
    IN  /\ admin.pc \in {"user", "session"}
        /\ \/ /\ registry' = registry \ ({admin.user} \X gone)
              /\ revoked' = revoked \cup {loginOf[i] : i \in gone}
           \/ RegistryMayFail /\ UNCHANGED <<registry, revoked>>
        /\ admin' = [admin EXCEPT !.pc = "rows"]
        /\ UNCHANGED <<store, issued, pc, inner, work, call, loginOf, line, planted, got>>

(* delete_session_rows *)
DeleteRow ==
    /\ admin.pc = "rows"
    /\ IF RowsWired /\ admin.ids # {}
       THEN \E i \in admin.ids :
                /\ try_delete(i)
                /\ admin' = [admin EXCEPT !.ids = @ \ {i}]
       ELSE admin' = [admin EXCEPT !.pc = "done"] /\ UNCHANGED store
    /\ UNCHANGED <<registry, issued, pc, inner, work, call, history>>

(* A row reaches its TTL. *)
Expire ==
    /\ MayExpire
    /\ \E i \in Ids : store[i] # NoRow /\ delete(i)
    /\ UNCHANGED <<registry, issued, pc, inner, work, call, admin, history>>

-----------------------------------------------------------------------------

(* What the server owes a request once it has its cookie. *)
Serve(r) ==
    \/ Verdict(r) \/ EndRow(r) \/ Register(r) \/ Recheck(r)
    \/ SwapTry(r) \/ SwapLoad(r) \/ FinishHandler(r) \/ Touch(r) \/ SaveFresh(r)
    \/ CycleMerge(r) \/ CycleRemove(r) \/ CycleSave(r) \/ FailClosed(r)
    \/ LiveOld(r) \/ RegisterNew(r) \/ RereadOld(r) \/ InvalidateOld(r)
    \/ LiveNew(r) \/ EndRevoked(r) \/ EndUntracked(r)

Operate(r) ==
    \/ SetCustom(r) \/ RemoveCustom(r) \/ ClearCustom(r) \/ Take(r) \/ Regenerate(r)
    \/ BeginLogin(r) \/ CompleteFactor(r) \/ OAuthLogin(r) \/ StepUp(r)
    \/ Impersonate(r) \/ Logout(r)

Administer == ListUser \/ ListSession \/ Revoke \/ DeleteRow

AllServed == (\A r \in Requests : pc[r] \in Finished) /\ UNCHANGED vars

Next ==
    \/ \E r \in Requests : LoadNothing(r) \/ LoadRow(r) \/ Operate(r) \/ Serve(r)
    \/ Administer
    \/ Expire
    \/ AllServed

Spec == Init /\ [][Next]_vars

(* A request in progress is driven to its end: the handler returns or its  *)
(* future is dropped, and the finish runs in a task of its own.            *)
FairSpec == Spec /\ \A r \in Requests : WF_vars(Serve(r))

-----------------------------------------------------------------------------
(* Every variable keeps its type: an id in a cookie, a row or a request is *)
(* one the server minted, and a store call always carries a whole row.     *)
TypeOK ==
    /\ store \in [Ids -> Data \cup {NoRow}]
    /\ registry \subseteq Users \X Ids
    /\ issued \subseteq Ids
    /\ pc \in [Requests -> PCs]
    /\ inner \in [Requests -> Inner]
    /\ work \in [Requests -> Work]
    /\ call \in [Requests -> Call]
    /\ admin \in Admin
    /\ loginOf \in [Ids -> Logins \cup {NoLogin}]
    /\ line \in [Ids -> Ids]
    /\ revoked \subseteq Logins \cup {NoLogin}
    /\ planted \subseteq Keys \X Values
    /\ got \subseteq Requests \X Keys \X Values

(* A session never forks: whatever requests write, rotate and end it at    *)
(* once, at most one stored row descends from the row it began as, so that *)
(* ending that row ends the session (cycle_if_revision, swap_merging).     *)
NoFork ==
    \A i, j \in Ids :
        store[i] # NoRow /\ store[j] # NoRow /\ line[i] = line[j] => i = j

(* A one-shot value (an OAuth state, a passkey challenge) that was put in  *)
(* a session once is handed to one request at most, rotations and retries  *)
(* included (consume_custom).                                              *)
OneShot ==
    \A g, h \in got : g[2] = h[2] /\ g[3] = h[3] => g = h

(* No stored row that is logged in holds a value put there before login,   *)
(* under a key the application did not ask to keep, not even one written   *)
(* to the old row while the login ran (retain_across_login,                *)
(* merge_rotating).                                                        *)
NothingPlanted ==
    \A i \in Ids : store[i] # NoRow /\ is_authenticated(store[i].auth) =>
        \A k \in Keys \ Preserved : <<k, store[i].custom[k]>> \notin planted

(* A custom bag is stored within its cap, also when two requests each put  *)
(* in a value that fits alone and a write or a rotation merged both        *)
(* (cap_custom in swap_merging and merge_concurrent_writes).               *)
WithinCap ==
    \A i \in Ids : store[i] # NoRow /\ MaxKeys > 0 =>
        Cardinality({k \in Keys : store[i].custom[k] # NoVal}) <= MaxKeys

(* A write that was acknowledged is not lost: while no other request       *)
(* changed the key or the login, every later row of the session holds the  *)
(* value, whatever other requests wrote from an older copy of the session  *)
(* (merge_concurrent, merge_concurrent_writes).                            *)
AcknowledgedKept ==
    \A r \in Requests, k \in Keys, i \in Ids :
        /\ pc[r] = "cookie" /\ <<"set", k>> \in call[r].ops
        /\ store[i] # NoRow /\ line[i] = line[inner[r].id]
        /\ store[i].custom[k] # r
        => \E s \in Requests, op \in OpNames :
                \/ <<op, k>> \in call[s].ops /\ (s # r \/ op # "set")
                \/ <<op, NoKey>> \in call[s].ops /\ op # "regenerate"

(* An authenticated row behind a cookie is in the registry, so that        *)
(* invalidate_user reaches it, unless its login was revoked: even when the *)
(* registry fails in the middle of a login or of a rotation.               *)
Tracked ==
    \A i \in issued : store[i] # NoRow /\ is_authenticated(store[i].auth) =>
        \/ <<store[i].auth.user, i>> \in registry
        \/ store[i].auth.login \in revoked

(* A rotation ends its session only when the session was revoked, as       *)
(* move_registry_entry concludes from an old id that is gone.  It does not *)
(* hold of every handler: see Impersonation.cfg.                           *)
EndedOnlyIfRevoked ==
    \A r \in Requests : pc[r] = "ended" =>
        {loginOf[inner[r].id], loginOf[inner[r].pre_cycle_id]} \cap revoked # {}

(* The session of a login is bound to the client that logged in, whoever   *)
(* else holds its cookie (check_binding and the binding at each            *)
(* transition).                                                            *)
BoundToLoginClient ==
    \A i \in Ids : store[i] # NoRow /\ store[i].auth.login \in Requests =>
        store[i].fp = call[store[i].auth.login].client

(* No fixation: an id that is already in some client's cookie never comes  *)
(* to stand for a login it did not stand for; a login moves to an id       *)
(* nobody has seen.                                                        *)
NoFixation ==
    [][\A i \in issued :
          store'[i] # NoRow /\ is_authenticated(store'[i].auth) =>
              store[i] # NoRow /\ store[i].auth = store'[i].auth]_vars

Admitted(r) ==
    pc[r] \in {"idle", "verdict"} /\ pc'[r] = "handler" /\ inner'[r].loaded # NoRow

(* Once a login is revoked, no request is let in with a row of that login, *)
(* wherever the revocation fell between the steps of a rotation.           *)
RevokedRefused ==
    [][\A r \in Requests : Admitted(r) => inner'[r].loaded.auth.login \notin revoked]_vars

(* The registry holds no session of a revoked login that a cookie reaches: *)
(* a revocation of all of a user's sessions reaches the one that is just   *)
(* moving to a new id (reread_old_id, and the window it leaves).           *)
RevokedNotHeld ==
    \A i \in issued : store[i] # NoRow /\ is_authenticated(store[i].auth)
                        /\ <<store[i].auth.user, i>> \in registry =>
        store[i].auth.login \notin revoked

(* Every request that is let in is answered, however often others write    *)
(* its session: the retries of the swap and of the rotation end.           *)
EveryRequestAnswered ==
    \A r \in Requests : (pc[r] # "idle") ~> (pc[r] \in Finished)

=============================================================================
