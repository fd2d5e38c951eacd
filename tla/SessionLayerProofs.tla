------------------------- MODULE SessionLayerProofs -------------------------
(***************************************************************************)
(* Proofs about SessionLayer, for every number of requests, ids, keys,     *)
(* users and clients and every setting of the layer: its types; a session  *)
(* never has two rows; an id in a cookie never comes to stand for another  *)
(* login; a row is within its cap; a session that is logged in holds       *)
(* nothing that was put there before the login.                            *)
(***************************************************************************)
EXTENDS SessionLayer, FiniteSetTheorems, TLAPS

(* What a request in progress relies on from one step to the next. *)
Settling == {"liveold", "livenew", "regnew", "reread", "invold", "endrevoked", "enduntracked"}

Cycling == {"merge", "remove", "move", "failclosed"} \cup Settling

LocalsOf(l, q, w) ==
    /\ l # "idle" => q.id # NoId
    /\ q.pre_cycle_id # NoId => q.dirty = "regenerate"
    /\ l \in {"idle", "verdict", "endrow"} => q.pre_cycle_id = NoId
    /\ l \in Cycling => q.pre_cycle_id # NoId
    /\ l \in {"save", "touch"} => q.pre_cycle_id = NoId
    /\ l \in {"swap", "swapload"} /\ w.key = NoKey => q.pre_cycle_id = NoId
    /\ l \in {"swap", "swapload", "merge", "touch"} => q.loaded # NoRow
    /\ l \in {"swap", "swapload"} /\ w.key # NoKey => w.val # NoVal
    /\ l \in {"verdict", "register", "recheck"} \cup Settling => is_authenticated(q.data.auth)

LocalsOK == \A r \in Requests : LocalsOf(pc[r], inner[r], work[r])

Typed == TypeOK /\ LocalsOK

-----------------------------------------------------------------------------
(* The operators of the session payload keep its type. *)

LEMMA DefaultType == DefaultData \in Data
BY DEF DefaultData, Data, AuthState, Guest, Bag, EmptyBag

LEMMA AuthTypes ==
    /\ Guest \in AuthState
    /\ \A u \in Users : begin_authenticating(u) \in AuthState
    /\ \A u \in Users, l \in Logins : set_authenticated(u, l) \in AuthState
    /\ \A a \in AuthState : is_authenticated(a) => begin_step_up(a) \in AuthState
    /\ \A a \in AuthState : a.kind = "StepUp" => finish_step_up(a) \in AuthState
    /\ \A a \in AuthState : /\ a.kind \in Kinds
                            /\ a.user \in Users \cup {NoUser}
                            /\ a.login \in Logins \cup {NoLogin}
                            /\ a.kind # "Guest" => a.user \in Users
BY DEF AuthState, Guest, begin_authenticating, set_authenticated, is_authenticated,
       begin_step_up, finish_step_up, Kinds

LEMMA BagTypes ==
    /\ EmptyBag \in Bag
    /\ \A b \in Bag : retain_across_login(b) \in Bag /\ cap_custom(b) \in Bag
    /\ \A b \in Bag, k \in Keys, v \in Values \cup {NoVal} : [b EXCEPT ![k] = v] \in Bag
    /\ \A b, c, d \in Bag, keep \in BOOLEAN : merge_bags(b, c, d, keep) \in Bag
BY DEF Bag, EmptyBag, retain_across_login, cap_custom, merge_bags

LEMMA MergeType ==
    ASSUME NEW b \in Data, NEW l \in Data, NEW f \in Data
    PROVE  /\ merge_concurrent(b, l, f) \in Data
           /\ merge_rotating(b, l, f) \in Data
           /\ merge_concurrent(b, l, f).revision = f.revision
           /\ merge_rotating(b, l, f).revision = f.revision
<1>1. ASSUME NEW keep \in BOOLEAN
      PROVE  merge(b, l, f, keep) \in Data /\ merge(b, l, f, keep).revision = f.revision
  <2>1. merge_bags(b.custom, l.custom, f.custom, keep) \in Bag BY BagTypes DEF Data
  <2>2. pick(b.auth, l.auth, f.auth) \in AuthState BY DEF pick, Data
  <2>3. pick(b.fp, l.fp, f.fp) \in Clients \cup {NoFp} BY DEF pick, Data
  <2> QED BY <2>1, <2>2, <2>3 DEF merge, Data
<1> QED BY <1>1 DEF merge_concurrent, merge_rotating

LEMMA DataTypes ==
    ASSUME NEW d \in Data
    PROVE  /\ capped(d) \in Data
           /\ \A n \in Nat : [d EXCEPT !.revision = n] \in Data
           /\ \A k \in Keys : without(d, k) \in Data
           /\ \A f \in Clients \cup {NoFp} : [d EXCEPT !.fp = f] \in Data
           /\ \A b \in Bag : [d EXCEPT !.custom = b] \in Data
           /\ \A a \in AuthState, b \in Bag : [d EXCEPT !.auth = a, !.custom = b] \in Data
           /\ d.revision \in Nat /\ d.auth \in AuthState /\ d.custom \in Bag
           /\ d.fp \in Clients \cup {NoFp}
<1>1. cap_custom(d.custom) \in Bag BY BagTypes DEF Data
<1>2. \A k \in Keys : [d.custom EXCEPT ![k] = NoVal] \in Bag BY BagTypes DEF Data
<1> QED BY <1>1, <1>2 DEF Data, capped, without

-----------------------------------------------------------------------------
(* So do the operators on a request's own copy, which keep what they do    *)
(* not name.                                                               *)

LEMMA InnerFields ==
    ASSUME NEW q \in Inner
    PROVE  /\ q.id \in Ids \cup {NoId} /\ q.pre_cycle_id \in Ids \cup {NoId}
           /\ q.data \in Data /\ q.dirty \in Dirt
           /\ q.pending \in Clients \cup {NoFp} /\ q.loaded \in Data \cup {NoRow}
BY DEF Inner

LEMMA SetDataType ==
    ASSUME NEW q \in Inner, NEW d \in Data
    PROVE  /\ [q EXCEPT !.data = d] \in Inner
           /\ [q EXCEPT !.data = d].id = q.id
           /\ [q EXCEPT !.data = d].pre_cycle_id = q.pre_cycle_id
           /\ [q EXCEPT !.data = d].loaded = q.loaded
           /\ [q EXCEPT !.data = d].dirty = q.dirty
           /\ [q EXCEPT !.data = d].data = d
BY DEF Inner

LEMMA RotateType ==
    ASSUME NEW q \in Inner, NEW new \in Ids
    PROVE  /\ rotate_id(q, new) \in Inner
           /\ rotate_id(q, new).id = new
           /\ rotate_id(q, new).pre_cycle_id = (IF q.pre_cycle_id = NoId THEN q.id
                                                ELSE q.pre_cycle_id)
           /\ rotate_id(q, new).loaded = q.loaded
           /\ rotate_id(q, new).data = q.data
           /\ rotate_id(q, new).dirty = "regenerate"
BY DEF Inner, rotate_id, Dirt

LEMMA BindType ==
    ASSUME NEW q \in Inner
    PROVE  /\ bind_fingerprint(q) \in Inner
           /\ bind_fingerprint(q).id = q.id
           /\ bind_fingerprint(q).pre_cycle_id = q.pre_cycle_id
           /\ bind_fingerprint(q).loaded = q.loaded
           /\ bind_fingerprint(q).dirty = q.dirty
           /\ bind_fingerprint(q).data.auth = q.data.auth
<1>1. [q.data EXCEPT !.fp = q.pending] \in Data BY InnerFields, DataTypes
<1>2. [q.data EXCEPT !.fp = q.pending].auth = q.data.auth BY InnerFields DEF Data
<1>3. NoFp \in Clients \cup {NoFp} OBVIOUS
<1> DEFINE d == [q.data EXCEPT !.fp = q.pending]
<1>4. d \in Data /\ d.auth = q.data.auth BY <1>1, <1>2
<1>5. bind_fingerprint(q) = IF q.data.fp = NoFp /\ q.pending # NoFp
                            THEN [q EXCEPT !.data = d, !.pending = NoFp] ELSE q
      BY DEF bind_fingerprint
<1> HIDE DEF d
<1> QED BY <1>3, <1>4, <1>5 DEF Inner

LEMMA WithAuthType ==
    ASSUME NEW q \in Inner, NEW a \in AuthState, NEW b \in Bag
    PROVE  /\ with_auth(q, a, b) \in Inner
           /\ with_auth(q, a, b).id = q.id
           /\ with_auth(q, a, b).pre_cycle_id = q.pre_cycle_id
           /\ with_auth(q, a, b).loaded = q.loaded
           /\ with_auth(q, a, b).dirty = q.dirty
           /\ with_auth(q, a, b).data.auth = a
<1> DEFINE d == [q.data EXCEPT !.auth = a, !.custom = b]
<1>1. d \in Data BY InnerFields, DataTypes
<1>2. d.auth = a BY InnerFields DEF Data
<1>3. with_auth(q, a, b) = [q EXCEPT !.data = d] BY DEF with_auth
<1> HIDE DEF d
<1> QED BY <1>1, <1>2, <1>3 DEF Inner

LEMMA WithCustomType ==
    ASSUME NEW q \in Inner, NEW b \in Bag
    PROVE  /\ with_custom(q, b) \in Inner
           /\ with_custom(q, b).id = q.id
           /\ with_custom(q, b).pre_cycle_id = q.pre_cycle_id
           /\ with_custom(q, b).loaded = q.loaded
           /\ with_custom(q, b).data.auth = q.data.auth
           /\ q.dirty # "regenerate" => with_custom(q, b).dirty # "regenerate"
           /\ q.dirty = "regenerate" => with_custom(q, b).dirty = "regenerate"
<1> DEFINE d == [q.data EXCEPT !.custom = b]
<1> DEFINE t == dirtied(q)
<1>1. d \in Data BY InnerFields, DataTypes
<1>2. d.auth = q.data.auth BY InnerFields DEF Data
<1>3. t \in Dirt /\ (t = "regenerate" <=> q.dirty = "regenerate")
      BY InnerFields DEF dirtied, Dirt
<1>4. with_custom(q, b) = [q EXCEPT !.data = d, !.dirty = t] BY DEF with_custom
<1> HIDE DEF d, t
<1> QED BY <1>1, <1>2, <1>3, <1>4 DEF Inner

LEMMA AuthenticatedType ==
    ASSUME NEW q \in Inner, NEW a \in AuthState, NEW new \in Ids
    PROVE  /\ authenticated(q, a, new) \in Inner
           /\ authenticated(q, a, new).id = new
           /\ authenticated(q, a, new).pre_cycle_id = (IF q.pre_cycle_id = NoId THEN q.id
                                                       ELSE q.pre_cycle_id)
           /\ authenticated(q, a, new).loaded = q.loaded
           /\ authenticated(q, a, new).dirty = "regenerate"
           /\ authenticated(q, a, new).data.auth = a
<1> DEFINE b == retain_across_login(q.data.custom)
           p == with_auth(q, a, b)
           o == bind_fingerprint(p)
<1>1. b \in Bag BY InnerFields, DataTypes, BagTypes
<1>2. /\ p \in Inner /\ p.id = q.id /\ p.pre_cycle_id = q.pre_cycle_id
      /\ p.loaded = q.loaded /\ p.data.auth = a
      BY <1>1, WithAuthType
<1>3. /\ o \in Inner /\ o.id = q.id /\ o.pre_cycle_id = q.pre_cycle_id
      /\ o.loaded = q.loaded /\ o.data.auth = a
      BY <1>2, BindType
<1>4. authenticated(q, a, new) = rotate_id(o, new) BY DEF authenticated
<1> HIDE DEF o
<1> QED BY <1>3, <1>4, RotateType

LEMMA ClearType ==
    ASSUME NEW q \in Inner, NEW new \in Ids
    PROVE  /\ clear(q, new) \in Inner
           /\ clear(q, new).id = new
           /\ clear(q, new).pre_cycle_id = (IF q.pre_cycle_id = NoId THEN q.id
                                            ELSE q.pre_cycle_id)
           /\ clear(q, new).loaded = q.loaded
           /\ clear(q, new).dirty = "regenerate"
<1> DEFINE p == [q EXCEPT !.data = DefaultData]
<1>1. /\ p \in Inner /\ p.id = q.id /\ p.pre_cycle_id = q.pre_cycle_id
      /\ p.loaded = q.loaded
      BY DefaultType, SetDataType
<1>2. clear(q, new) = rotate_id(p, new) BY DEF clear
<1> HIDE DEF p
<1> QED BY <1>1, <1>2, RotateType

LEMMA AttemptType ==
    ASSUME NEW k \in Keys \cup {NoKey}, NEW v \in Values \cup {NoVal},
           NEW d \in Data, NEW n \in Nat
    PROVE  /\ first_attempt(k, v, d, n) \in Work
           /\ first_attempt(k, v, d, n).key = k
           /\ first_attempt(k, v, d, n).val = v
<1> DEFINE x == [capped(d) EXCEPT !.revision = n + 1]
<1>0. n + 1 \in Nat OBVIOUS
<1>a. capped(d) \in Data BY DataTypes
<1>1. x \in Data BY <1>0, <1>a, DataTypes
<1>2. first_attempt(k, v, d, n) =
        [key |-> k, val |-> v, local |-> d, next |-> x, expected |-> n, att |-> 1,
         was |-> "Guest"]
      BY DEF first_attempt
<1> HIDE DEF x
<1> QED BY <1>1, <1>2 DEF Work, Kinds

-----------------------------------------------------------------------------
(* Type correctness, an action at a time. *)

LEMMA RequestFields ==
    ASSUME Typed, NEW r \in Requests
    PROVE  /\ pc[r] \in PCs /\ inner[r] \in Inner /\ work[r] \in Work /\ call[r] \in Call
           /\ LocalsOf(pc[r], inner[r], work[r])
BY DEF Typed, TypeOK, LocalsOK

(* A step of one request leaves the others as they were. *)
LEMMA OneRequest ==
    ASSUME Typed, NEW r \in Requests,
           LocalsOf(pc'[r], inner'[r], work'[r]),
           \A s \in Requests \ {r} : pc'[s] = pc[s] /\ inner'[s] = inner[s] /\ work'[s] = work[s]
    PROVE  LocalsOK'
<1> SUFFICES ASSUME NEW s \in Requests PROVE LocalsOf(pc'[s], inner'[s], work'[s])
    BY DEF LocalsOK
<1>1. CASE s = r BY <1>1
<1>2. CASE s # r BY <1>2, RequestFields
<1> QED BY <1>1, <1>2

(* A request that rotated its id knows it. *)
LEMMA RotatedDirty ==
    ASSUME Typed, NEW r \in Requests, inner[r].pre_cycle_id # NoId
    PROVE  inner[r].dirty = "regenerate"
BY RequestFields DEF LocalsOf

LEMMA LiveOldTyped ==
    ASSUME Typed, NEW r \in Requests, LiveOld(r) PROVE Typed'
<1>1. TypeOK' BY DEF Typed, TypeOK, LiveOld, Goto, PCs, shared, history
<1>2. LocalsOf(pc'[r], inner'[r], work'[r])
      BY RequestFields DEF LocalsOf, LiveOld, Goto, Settling, Cycling, Typed, TypeOK
<1> QED BY <1>1, <1>2, OneRequest DEF Typed, TypeOK, LiveOld, Goto

LEMMA ActiveFields ==
    ASSUME Typed, NEW r \in Requests, pc[r] # "idle"
    PROVE  /\ inner[r].id \in Ids
           /\ row_id(inner[r]) \in Ids
           /\ pc[r] \in Cycling => inner[r].pre_cycle_id \in Ids
           /\ pc[r] \in {"verdict", "register", "recheck"} \cup Settling =>
                /\ is_authenticated(inner[r].data.auth)
                /\ inner[r].data.auth.user \in Users
<1>1. /\ inner[r].id \in Ids \cup {NoId} /\ inner[r].pre_cycle_id \in Ids \cup {NoId}
      /\ inner[r].data.auth \in AuthState
      BY RequestFields, InnerFields, DataTypes
<1>2. inner[r].data.auth.kind = "Authenticated" => inner[r].data.auth.user \in Users
      BY <1>1, AuthTypes
<1> QED BY <1>1, <1>2, RequestFields DEF LocalsOf, is_authenticated, row_id

LEMMA NoIdFact == NoId \notin Ids
BY LayerAssumption DEF Ids

LEMMA RegisterNewTyped ==
    ASSUME Typed, NEW r \in Requests, RegisterNew(r) PROVE Typed'
<1>0. pc[r] = "regnew" BY DEF RegisterNew
<1>1. user(r) \in Users /\ inner[r].id \in Ids
      BY <1>0, ActiveFields DEF user, Settling
<1>2. TypeOK'
      BY <1>1 DEF Typed, TypeOK, RegisterNew, register, OnUntracked, SendCookie, Goto,
                  PCs, Finished, history
<1>3. LocalsOf(pc'[r], inner'[r], work'[r])
      BY RequestFields DEF LocalsOf, RegisterNew, OnUntracked, SendCookie, Goto,
                           Settling, Cycling, Typed, TypeOK
<1> QED BY <1>2, <1>3, OneRequest
        DEF Typed, TypeOK, RegisterNew, OnUntracked, SendCookie, Goto

LEMMA RereadOldTyped ==
    ASSUME Typed, NEW r \in Requests, RereadOld(r) PROVE Typed'
<1>1. TypeOK' BY DEF Typed, TypeOK, RereadOld, Goto, PCs, shared, history
<1>2. LocalsOf(pc'[r], inner'[r], work'[r])
      BY RequestFields DEF LocalsOf, RereadOld, Goto, Settling, Cycling, Typed, TypeOK
<1> QED BY <1>1, <1>2, OneRequest DEF Typed, TypeOK, RereadOld, Goto

LEMMA InvalidateOldTyped ==
    ASSUME Typed, NEW r \in Requests, InvalidateOld(r) PROVE Typed'
<1>0. pc[r] = "invold" BY DEF InvalidateOld
<1>1. inner[r].id \in Ids BY <1>0, ActiveFields
<1>2. TypeOK'
      BY <1>1 DEF Typed, TypeOK, InvalidateOld, invalidate_session, SendCookie, Goto,
                  PCs, Finished, history
<1>3. LocalsOf(pc'[r], inner'[r], work'[r])
      BY RequestFields DEF LocalsOf, InvalidateOld, SendCookie, Goto,
                           Settling, Cycling, Typed, TypeOK
<1> QED BY <1>2, <1>3, OneRequest DEF Typed, TypeOK, InvalidateOld, SendCookie, Goto

LEMMA LiveNewTyped ==
    ASSUME Typed, NEW r \in Requests, LiveNew(r) PROVE Typed'
<1>0. pc[r] = "livenew" BY DEF LiveNew
<1>1. inner[r].id \in Ids BY <1>0, ActiveFields
<1>2. TypeOK'
      BY <1>1 DEF Typed, TypeOK, LiveNew, OnUntracked, SendCookie, Goto, PCs, Finished, history
<1>3. LocalsOf(pc'[r], inner'[r], work'[r])
      BY RequestFields DEF LocalsOf, LiveNew, OnUntracked, SendCookie, Goto,
                           Settling, Cycling, Typed, TypeOK
<1> QED BY <1>2, <1>3, OneRequest DEF Typed, TypeOK, LiveNew, OnUntracked, SendCookie, Goto

LEMMA EndRevokedTyped ==
    ASSUME Typed, NEW r \in Requests, EndRevoked(r) PROVE Typed'
<1>1. TypeOK' BY DEF Typed, TypeOK, EndRevoked, invalidate_session, Goto, PCs, history
<1>2. LocalsOf(pc'[r], inner'[r], work'[r])
      BY RequestFields DEF LocalsOf, EndRevoked, Goto, Settling, Cycling, Typed, TypeOK
<1> QED BY <1>1, <1>2, OneRequest DEF Typed, TypeOK, EndRevoked, Goto

LEMMA EndUntrackedTyped ==
    ASSUME Typed, NEW r \in Requests, EndUntracked(r) PROVE Typed'
<1>1. TypeOK'
      BY DEF Typed, TypeOK, EndUntracked, try_delete, delete, Goto, PCs, Finished, history
<1>2. LocalsOf(pc'[r], inner'[r], work'[r])
      BY RequestFields DEF LocalsOf, EndUntracked, Goto, Settling, Cycling, Typed, TypeOK
<1> QED BY <1>1, <1>2, OneRequest DEF Typed, TypeOK, EndUntracked, Goto

LEMMA WorkFields ==
    ASSUME NEW w \in Work
    PROVE  /\ w.key \in Keys \cup {NoKey} /\ w.val \in Values \cup {NoVal}
           /\ w.local \in Data /\ w.next \in Data
           /\ w.expected \in Nat /\ w.att \in Nat /\ w.was \in Kinds
BY DEF Work

LEMMA RowField ==
    ASSUME Typed, NEW i \in Ids PROVE store[i] \in Data \cup {NoRow}
BY DEF Typed, TypeOK

LEMMA SaveFreshTyped ==
    ASSUME Typed, NEW r \in Requests, SaveFresh(r) PROVE Typed'
<1>0. pc[r] = "save" BY DEF SaveFresh
<1>1. inner[r].id \in Ids /\ inner[r].data \in Data
      BY <1>0, ActiveFields, RequestFields, InnerFields
<1>2. TypeOK'
      BY <1>1 DEF Typed, TypeOK, SaveFresh, save, SendCookie, Goto, PCs, Finished, history
<1>3. LocalsOf(pc'[r], inner'[r], work'[r])
      BY RequestFields DEF LocalsOf, SaveFresh, SendCookie, Goto, Settling, Cycling, Typed, TypeOK
<1> QED BY <1>2, <1>3, OneRequest DEF Typed, TypeOK, SaveFresh, SendCookie, Goto

LEMMA CycleSaveTyped ==
    ASSUME Typed, NEW r \in Requests, CycleSave(r) PROVE Typed'
<1>0. pc[r] = "move" BY DEF CycleSave
<1>1. /\ inner[r].id \in Ids /\ inner[r].data \in Data
      /\ inner[r].pre_cycle_id \in Ids
      BY <1>0, ActiveFields, RequestFields, InnerFields DEF Cycling
<1>2. TypeOK'
      BY <1>1 DEF Typed, TypeOK, CycleSave, save, SendCookie, Goto, PCs, Finished
<1>3. LocalsOf(pc'[r], inner'[r], work'[r])
      BY RequestFields DEF LocalsOf, CycleSave, SendCookie, Goto, Settling, Cycling, Typed, TypeOK
<1> QED BY <1>2, <1>3, OneRequest DEF Typed, TypeOK, CycleSave, SendCookie, Goto

LEMMA FailClosedTyped ==
    ASSUME Typed, NEW r \in Requests, FailClosed(r) PROVE Typed'
<1>0. pc[r] = "failclosed" BY DEF FailClosed
<1> DEFINE q == [inner[r] EXCEPT !.data = DefaultData]
<1>1. inner[r].id \in Ids BY <1>0, ActiveFields
<1>2. /\ q \in Inner /\ q.id = inner[r].id
      /\ q.pre_cycle_id = inner[r].pre_cycle_id /\ q.dirty = inner[r].dirty
      BY RequestFields, DefaultType, SetDataType
<1>3. inner' = [inner EXCEPT ![r] = q] BY DEF FailClosed, SetInner
<1> HIDE DEF q
<1>4. TypeOK'
      BY <1>1, <1>2, <1>3 DEF Typed, TypeOK, FailClosed, try_delete, delete, Goto, PCs,
                              Finished, history
<1>5. pc'[r] = "closed" /\ inner'[r] = q BY <1>3 DEF FailClosed, Goto, Typed, TypeOK
<1>6. LocalsOf(pc'[r], inner'[r], work'[r])
      BY <1>1, <1>2, <1>5, NoIdFact, RotatedDirty DEF LocalsOf, Settling, Cycling
<1> QED BY <1>3, <1>4, <1>6, OneRequest DEF Typed, TypeOK, FailClosed, Goto

LEMMA CycleRemoveTyped ==
    ASSUME Typed, NEW r \in Requests, CycleRemove(r) PROVE Typed'
<1>0. pc[r] = "remove" BY DEF CycleRemove
<1> DEFINE q == [inner[r] EXCEPT !.data = DefaultData]
           w == [work[r] EXCEPT !.att = work[r].att + 1]
<1>1. inner[r].id \in Ids BY <1>0, ActiveFields
<1>2. /\ q \in Inner /\ q.id = inner[r].id
      /\ q.pre_cycle_id = inner[r].pre_cycle_id /\ q.dirty = inner[r].dirty
      BY RequestFields, DefaultType, SetDataType
<1>3. w \in Work BY RequestFields DEF Work
<1>4. \/ UNCHANGED <<inner, work>> /\ pc' = [pc EXCEPT ![r] = "move"]
      \/ /\ inner' = [inner EXCEPT ![r] = q] /\ UNCHANGED work
         /\ pc' = [pc EXCEPT ![r] = "nocookie"]
      \/ /\ work' = [work EXCEPT ![r] = w] /\ UNCHANGED inner
         /\ existing(r)
         /\ \/ pc' = [pc EXCEPT ![r] = "failclosed"]
            \/ pc' = [pc EXCEPT ![r] = "merge"]
      \/ UNCHANGED <<inner, work>> /\ pc' = [pc EXCEPT ![r] = "failclosed"]
      BY DEF CycleRemove, CycleGone, CycleConflict, SetInner, SetWork, Goto
<1>5. store' \in [Ids -> Data \cup {NoRow}]
      BY DEF CycleRemove, delete, Typed, TypeOK
<1> HIDE DEF q, w
<1>6. TypeOK'
      BY <1>2, <1>3, <1>4, <1>5 DEF Typed, TypeOK, CycleRemove, PCs, Finished, history
<1>7. LocalsOf(pc'[r], inner'[r], work'[r])
      BY <1>0, <1>1, <1>2, <1>4, RequestFields, NoIdFact
      DEF LocalsOf, Settling, Cycling, existing, Typed, TypeOK
<1> QED BY <1>4, <1>6, <1>7, OneRequest DEF Typed, TypeOK

LEMMA CycleMergeTyped ==
    ASSUME Typed, NEW r \in Requests, CycleMerge(r) PROVE Typed'
<1>0. pc[r] = "merge" BY DEF CycleMerge
<1> DEFINE q == inner[r]
           fresh == store[q.pre_cycle_id]
           merged == merge_rotating(q.loaded, q.data, fresh)
           d == [capped(merged) EXCEPT !.revision = fresh.revision + 1]
           p == [q EXCEPT !.loaded = fresh, !.data = d]
           w1 == [work[r] EXCEPT !.expected = q.loaded.revision]
           w2 == [work[r] EXCEPT !.expected = fresh.revision]
<1>1. /\ q \in Inner /\ q.id \in Ids /\ q.pre_cycle_id \in Ids
      /\ q.loaded \in Data /\ q.data \in Data
      BY <1>0, ActiveFields, RequestFields, InnerFields DEF Cycling, LocalsOf
<1>2. fresh \in Data \cup {NoRow} BY <1>1, RowField
<1>3. ASSUME fresh # NoRow PROVE d \in Data /\ fresh.revision \in Nat
  <2>1. fresh \in Data BY <1>2, <1>3
  <2>2. merged \in Data BY <1>1, <2>1, MergeType
  <2>3. capped(merged) \in Data BY <2>2, DataTypes
  <2>4. fresh.revision \in Nat BY <2>1, DataTypes
  <2>5. fresh.revision + 1 \in Nat BY <2>4
  <2> HIDE DEF fresh, merged
  <2> QED BY <2>3, <2>4, <2>5, DataTypes
<1>4. q.loaded.revision \in Nat BY <1>1, DataTypes
<1>5. w1 \in Work BY <1>4, RequestFields DEF Work
<1>6. fresh # NoRow => w2 \in Work BY <1>3, RequestFields DEF Work
<1>7. fresh # NoRow => /\ p \in Inner /\ p.id = q.id /\ p.pre_cycle_id = q.pre_cycle_id
                       /\ p.loaded # NoRow /\ p.dirty = q.dirty
      BY <1>1, <1>2, <1>3 DEF Inner
<1>8. \/ /\ UNCHANGED inner /\ work' = [work EXCEPT ![r] = w1]
         /\ pc' = [pc EXCEPT ![r] = "remove"]
      \/ /\ fresh # NoRow
         /\ inner' = [inner EXCEPT ![r] = p] /\ work' = [work EXCEPT ![r] = w2]
         /\ pc' = [pc EXCEPT ![r] = "remove"]
      \/ UNCHANGED <<inner, work>> /\ pc' = [pc EXCEPT ![r] = "failclosed"]
      BY DEF CycleMerge, SetInner, SetWork, Goto
<1> HIDE DEF p, w1, w2, fresh, merged, d
<1>9. TypeOK'
      BY <1>5, <1>6, <1>7, <1>8 DEF Typed, TypeOK, CycleMerge, PCs, shared, history
<1>10. LocalsOf(pc'[r], inner'[r], work'[r])
      BY <1>0, <1>1, <1>7, <1>8, RequestFields, NoIdFact
      DEF LocalsOf, Settling, Cycling, Typed, TypeOK
<1> QED BY <1>8, <1>9, <1>10, OneRequest DEF Typed, TypeOK

LEMMA TouchTyped ==
    ASSUME Typed, NEW r \in Requests, Touch(r) PROVE Typed'
<1>0. pc[r] = "touch" BY DEF Touch
<1> DEFINE q == [inner[r] EXCEPT !.data = DefaultData]
<1>1. /\ inner[r].id \in Ids /\ inner[r].data \in Data
      BY <1>0, ActiveFields, RequestFields, InnerFields
<1>2. /\ q \in Inner /\ q.id = inner[r].id
      /\ q.pre_cycle_id = inner[r].pre_cycle_id /\ q.dirty = inner[r].dirty
      BY RequestFields, DefaultType, SetDataType
<1>3. /\ \/ UNCHANGED inner
         \/ inner' = [inner EXCEPT ![r] = q]
      /\ \/ pc' = [pc EXCEPT ![r] = "cookie"]
         \/ pc' = [pc EXCEPT ![r] = "nocookie"]
         \/ pc' = [pc EXCEPT ![r] = "handler"]
      /\ UNCHANGED work
      BY DEF Touch, SwapGone, SwapFailed, SendCookie, SetInner, Goto
<1>4. store' \in [Ids -> Data \cup {NoRow}] /\ issued' \subseteq Ids
      BY <1>1 DEF Touch, save, SendCookie, Typed, TypeOK
<1> HIDE DEF q
<1>5. TypeOK'
      BY <1>2, <1>3, <1>4 DEF Typed, TypeOK, Touch, PCs, Finished, history
<1>6. LocalsOf(pc'[r], inner'[r], work'[r])
      BY <1>1, <1>2, <1>3, NoIdFact, RotatedDirty DEF LocalsOf, Settling, Cycling, Typed, TypeOK
<1> QED BY <1>3, <1>5, <1>6, OneRequest DEF Typed, TypeOK

(* What the end of a swap leaves in the request. *)
LEMMA SwapEnds ==
    ASSUME Typed, NEW r \in Requests, pc[r] \in {"swap", "swapload"},
           \/ SwapGone(r) \/ SwapFailed(r) \/ SwapWritten(r),
           UNCHANGED work
    PROVE  /\ pc' \in [Requests -> PCs] /\ inner' \in [Requests -> Inner]
           /\ LocalsOf(pc'[r], inner'[r], work'[r])
           /\ \A s \in Requests \ {r} : pc'[s] = pc[s] /\ inner'[s] = inner[s]
<1> DEFINE q == inner[r]
           w == work[r]
           m == merge_rotating(q.loaded, q.data, w.next)
           d == IF w.key # NoKey /\ q.pre_cycle_id # NoId THEN m ELSE w.next
           p == [q EXCEPT !.data = DefaultData]
           o == [q EXCEPT !.data = d, !.loaded = w.next]
<1>1. /\ q \in Inner /\ q.id \in Ids /\ q.loaded \in Data /\ q.data \in Data
      /\ w.next \in Data
      BY ActiveFields, RequestFields, InnerFields, WorkFields DEF LocalsOf
<1>2. m \in Data BY <1>1, MergeType
<1>3. d \in Data BY <1>1, <1>2
<1>4. /\ p \in Inner /\ p.id = q.id
      /\ p.pre_cycle_id = q.pre_cycle_id /\ p.dirty = q.dirty
      BY <1>1, DefaultType, SetDataType
<1>5. \/ inner' = inner
      \/ inner' = [inner EXCEPT ![r] = p]
      \/ inner' = [inner EXCEPT ![r] = o]
      BY DEF SwapGone, SwapFailed, SwapWritten, SetInner
<1>6. \/ pc' = [pc EXCEPT ![r] = "cookie"]
      \/ pc' = [pc EXCEPT ![r] = "nocookie"]
      \/ pc' = [pc EXCEPT ![r] = "handler"]
      BY DEF SwapGone, SwapFailed, SwapWritten, SendCookie, Goto
<1> HIDE DEF m, d, p
<1>7. /\ o \in Inner /\ o.id = q.id
      /\ o.pre_cycle_id = q.pre_cycle_id /\ o.dirty = q.dirty
      BY <1>1, <1>3 DEF Inner
<1> HIDE DEF o
<1>8. pc' \in [Requests -> PCs] /\ inner' \in [Requests -> Inner]
      BY <1>4, <1>5, <1>6, <1>7 DEF Typed, TypeOK, PCs, Finished
<1>9. /\ inner'[r].id \in Ids /\ pc'[r] \in {"cookie", "nocookie", "handler"}
      /\ inner'[r].pre_cycle_id = q.pre_cycle_id /\ inner'[r].dirty = q.dirty
      BY <1>1, <1>4, <1>5, <1>6, <1>7 DEF Typed, TypeOK
<1>10. LocalsOf(pc'[r], inner'[r], work'[r])
      BY <1>9, NoIdFact, RotatedDirty DEF LocalsOf, Settling, Cycling
<1> QED BY <1>5, <1>6, <1>8, <1>10 DEF Typed, TypeOK

LEMMA SwapTryTyped ==
    ASSUME Typed, NEW r \in Requests, SwapTry(r) PROVE Typed'
<1>0. pc[r] = "swap" BY DEF SwapTry
<1>1. /\ row_id(inner[r]) \in Ids /\ inner[r].id \in Ids
      /\ work[r].next \in Data
      /\ work[r].key \in Keys \cup {NoKey}
      /\ work[r].key # NoKey => work[r].val \in Values
      BY <1>0, ActiveFields, RequestFields, WorkFields DEF LocalsOf
<1>3. store' \in [Ids -> Data \cup {NoRow}] /\ issued' \subseteq Ids
      BY <1>1 DEF SwapTry, SwapWritten, SendCookie, save, Typed, TypeOK
<1>4. got' \subseteq Requests \X Keys \X Values
      BY <1>1 DEF SwapTry, SwapWritten, Typed, TypeOK
<1>5. UNCHANGED <<registry, work, call, admin, loginOf, line, revoked, planted>>
      BY DEF SwapTry
<1>6. CASE SwapGone(r) \/ SwapFailed(r) \/ SwapWritten(r)
  <2>1. /\ pc' \in [Requests -> PCs] /\ inner' \in [Requests -> Inner]
        /\ LocalsOf(pc'[r], inner'[r], work'[r])
        /\ \A s \in Requests \ {r} : pc'[s] = pc[s] /\ inner'[s] = inner[s]
        BY <1>0, <1>5, <1>6, SwapEnds
  <2>2. TypeOK' BY <1>3, <1>4, <1>5, <2>1 DEF Typed, TypeOK
  <2> QED BY <1>5, <2>1, <2>2, OneRequest DEF Typed
<1>7. CASE Goto(r, "swapload") /\ UNCHANGED inner
  <2>1. TypeOK' BY <1>3, <1>4, <1>5, <1>7 DEF Typed, TypeOK, Goto, PCs
  <2>2. LocalsOf(pc'[r], inner'[r], work'[r])
        BY <1>0, <1>5, <1>7, RequestFields
        DEF LocalsOf, Goto, Settling, Cycling, Typed, TypeOK
  <2> QED BY <1>5, <1>7, <2>1, <2>2, OneRequest DEF Typed, TypeOK, Goto
<1> QED BY <1>6, <1>7 DEF SwapTry

LEMMA SwapLoadTyped ==
    ASSUME Typed, NEW r \in Requests, SwapLoad(r) PROVE Typed'
<1>0. pc[r] = "swapload" BY DEF SwapLoad
<1>1. UNCHANGED <<shared, call, admin, history>> BY DEF SwapLoad
<1>2. CASE (SwapGone(r) \/ SwapFailed(r)) /\ UNCHANGED work
  <2>1. /\ pc' \in [Requests -> PCs] /\ inner' \in [Requests -> Inner]
        /\ LocalsOf(pc'[r], inner'[r], work'[r])
        /\ \A s \in Requests \ {r} : pc'[s] = pc[s] /\ inner'[s] = inner[s]
        BY <1>0, <1>2, SwapEnds
  <2>2. TypeOK' BY <1>1, <1>2, <2>1 DEF Typed, TypeOK, shared, history
  <2> QED BY <1>2, <2>1, <2>2, OneRequest DEF Typed
<1> DEFINE q == inner[r]
           w == work[r]
           row == store[row_id(q)]
           fresh == IF w.key = NoKey THEN row ELSE without(row, w.key)
           next == merge_concurrent(q.loaded, w.local, fresh)
           d == [capped(next) EXCEPT !.revision = row.revision + 1]
           v == IF w.key = NoKey THEN w.val ELSE row.custom[w.key]
           x == [w EXCEPT !.val = v, !.expected = row.revision, !.att = w.att + 1, !.next = d]
<1>3. CASE /\ row # NoRow /\ ~(w.key # NoKey /\ row.custom[w.key] = NoVal)
           /\ SetWork(r, x) /\ Goto(r, "swap") /\ UNCHANGED inner
  <2>1. /\ w \in Work /\ w.key \in Keys \cup {NoKey} /\ w.local \in Data
        /\ w.val \in Values \cup {NoVal} /\ w.att \in Nat
        /\ q \in Inner /\ q.loaded \in Data
        BY <1>0, RequestFields, InnerFields, WorkFields DEF LocalsOf
  <2>2. row \in Data BY <1>0, <1>3, ActiveFields, RowField
  <2>3. fresh \in Data BY <2>1, <2>2, DataTypes
  <2>4. next \in Data BY <2>1, <2>3, MergeType
  <2>5. capped(next) \in Data BY <2>4, DataTypes
  <2>6. row.revision \in Nat /\ row.custom \in Bag BY <2>2, DataTypes
  <2>7. row.revision + 1 \in Nat /\ w.att + 1 \in Nat BY <2>1, <2>6
  <2>8. v \in Values \cup {NoVal} /\ (w.key # NoKey => v # NoVal)
        BY <1>3, <2>1, <2>6 DEF Bag
  <2>9. d \in Data
    <3> HIDE DEF next, row
    <3> QED BY <2>5, <2>7, DataTypes
  <2> HIDE DEF d, v
  <2>10. x \in Work /\ x.key = w.key /\ x.val = v
        BY <2>1, <2>6, <2>7, <2>8, <2>9 DEF Work
  <2> HIDE DEF x
  <2>11. TypeOK' BY <1>1, <1>3, <2>10 DEF Typed, TypeOK, SetWork, Goto, PCs, shared, history
  <2>12. LocalsOf(pc'[r], inner'[r], work'[r])
    <3>1. pc'[r] = "swap" /\ inner'[r] = q /\ work'[r] = x
          BY <1>3 DEF SetWork, Goto, Typed, TypeOK
    <3>2. q.id # NoId /\ q.loaded # NoRow BY <1>0, RequestFields DEF LocalsOf
    <3>3. /\ w.key = NoKey => q.pre_cycle_id = NoId
          /\ q.pre_cycle_id # NoId => q.dirty = "regenerate"
          BY <1>0, RequestFields DEF LocalsOf
    <3> QED BY <2>8, <2>10, <3>1, <3>2, <3>3 DEF LocalsOf, Settling, Cycling
  <2> QED BY <1>3, <2>11, <2>12, OneRequest DEF Typed, TypeOK, SetWork, Goto
<1> QED BY <1>2, <1>3 DEF SwapLoad, declines

-----------------------------------------------------------------------------
(* The handler's operations. *)

LEMMA MintType ==
    ASSUME Typed, NEW r \in Requests, NEW n \in {1, 2}, CanMint(r, n)
    PROVE  Minted(r, n) \in Ids /\ Minted(r, 1) \in Ids
<1>1. call[r].minted \in 0 .. MaxMint BY RequestFields DEF Call
<1> QED BY <1>1, LayerAssumption DEF CanMint, Minted, Ids

LEMMA CallType ==
    ASSUME Typed, NEW r \in Requests, NEW op \in OpNames, NEW k \in Keys \cup {NoKey},
           NEW n \in {0, 1, 2}, n = 0 \/ CanMint(r, n),
           Called(r, op, k, n) \/ Mint(r, n)
    PROVE  call' \in [Requests -> Call]
<1> DEFINE c == call[r]
           ops == c.ops \cup {<<op, k>>}
           m == c.minted + n
           d == [client |-> c.client, ops |-> ops, minted |-> m]
           e == [c EXCEPT !.minted = m]
<1>1. c \in Call BY RequestFields
<1>2. m \in 0 .. MaxMint BY <1>1, LayerAssumption DEF Call, CanMint
<1>3. ops \subseteq OpNames \X (Keys \cup {NoKey}) BY <1>1 DEF Call
<1>4. /\ Called(r, op, k, n) => call' = [call EXCEPT ![r] = d]
      /\ Mint(r, n) => call' = [call EXCEPT ![r] = e]
  <2>1. ASSUME Called(r, op, k, n) PROVE call' = [call EXCEPT ![r] = d]
        BY <2>1 DEF Called
  <2>2. ASSUME Mint(r, n) PROVE call' = [call EXCEPT ![r] = e]
        BY <2>2, <1>1 DEF Mint, Typed, TypeOK
  <2> QED BY <2>1, <2>2
<1> HIDE DEF ops, m
<1>5. d \in Call /\ e \in Call BY <1>1, <1>2, <1>3 DEF Call
<1> HIDE DEF d, e
<1> QED BY <1>4, <1>5 DEF Typed, TypeOK

(* A request that stays in its handler, with a new copy of the session. *)
LEMMA HandlerStep ==
    ASSUME Typed, NEW r \in Requests, NEW q \in Inner, q.id \in Ids,
           q.pre_cycle_id # NoId => q.dirty = "regenerate",
           NEW l \in {"handler", "register", "recheck"},
           l # "handler" => is_authenticated(q.data.auth),
           inner' = [inner EXCEPT ![r] = q], pc' = [pc EXCEPT ![r] = l], UNCHANGED work
    PROVE  /\ inner' \in [Requests -> Inner] /\ pc' \in [Requests -> PCs]
           /\ LocalsOK'
<1>1. /\ inner' \in [Requests -> Inner] /\ pc' \in [Requests -> PCs]
      /\ inner'[r] = q /\ pc'[r] = l
      BY DEF Typed, TypeOK, PCs
<1>2. LocalsOf(pc'[r], inner'[r], work'[r])
      BY <1>1, NoIdFact DEF LocalsOf, Settling, Cycling
<1> QED BY <1>1, <1>2, OneRequest DEF Typed, TypeOK

LEMMA SameLabel ==
    ASSUME Typed, NEW r \in Requests, pc[r] = "handler", UNCHANGED pc
    PROVE  pc' = [pc EXCEPT ![r] = "handler"]
BY DEF Typed, TypeOK

(* A rotation to an id just minted, in a handler. *)
LEMMA RotatedStep ==
    ASSUME Typed, NEW r \in Requests, NEW q \in Inner, q.id \in Ids,
           q.dirty = "regenerate", Rotated(r, q),
           NEW l \in {"handler", "register", "recheck"},
           l # "handler" => is_authenticated(q.data.auth),
           pc' = [pc EXCEPT ![r] = l], UNCHANGED work
    PROVE  /\ inner' \in [Requests -> Inner] /\ pc' \in [Requests -> PCs]
           /\ LocalsOK'
           /\ loginOf' \in [Ids -> Logins \cup {NoLogin}]
<1>1. q.data.auth.login \in Logins \cup {NoLogin} BY InnerFields, DataTypes, AuthTypes
<1>2. loginOf' \in [Ids -> Logins \cup {NoLogin}]
      BY <1>1 DEF Rotated, Typed, TypeOK
<1>3. inner' = [inner EXCEPT ![r] = q] BY DEF Rotated, SetInner
<1> QED BY <1>2, <1>3, HandlerStep

LEMMA HandlerFields ==
    ASSUME Typed, NEW r \in Requests, pc[r] \in {"handler", "register", "recheck"}
    PROVE  /\ inner[r] \in Inner /\ inner[r].id \in Ids
           /\ inner[r].pre_cycle_id # NoId => inner[r].dirty = "regenerate"
           /\ inner[r].data \in Data /\ inner[r].data.custom \in Bag
           /\ inner[r].data.auth \in AuthState
BY ActiveFields, RequestFields, RotatedDirty, InnerFields, DataTypes

LEMMA CustomStep ==
    ASSUME Typed, NEW r \in Requests, pc[r] = "handler", NEW b \in Bag,
           SetInner(r, with_custom(inner[r], b)), UNCHANGED <<pc, work>>
    PROVE  /\ inner' \in [Requests -> Inner] /\ pc' \in [Requests -> PCs]
           /\ LocalsOK'
<1> DEFINE q == with_custom(inner[r], b)
<1>1. /\ q \in Inner /\ q.id \in Ids
      /\ q.pre_cycle_id # NoId => q.dirty = "regenerate"
      BY HandlerFields, WithCustomType
<1>2. inner' = [inner EXCEPT ![r] = q] BY DEF SetInner
<1>3. pc' = [pc EXCEPT ![r] = "handler"] BY SameLabel
<1> HIDE DEF q
<1> QED BY <1>1, <1>2, <1>3, HandlerStep

LEMMA SetCustomTyped ==
    ASSUME Typed, NEW r \in Requests, SetCustom(r) PROVE Typed'
<1> PICK k \in Keys :
        LET bag == [inner[r].data.custom EXCEPT ![k] = r]
        IN  /\ Handler(r, "set", k)
            /\ Called(r, "set", k, 0)
            /\ IF cap_custom(bag) = bag
               THEN /\ SetInner(r, with_custom(inner[r], bag))
                    /\ planted' = IF LoggedIn(inner[r].data.auth) THEN planted
                                  ELSE planted \cup {<<k, r>>}
               ELSE UNCHANGED <<inner, planted>>
            /\ UNCHANGED <<shared, pc, work, admin, loginOf, line, revoked, got>>
    BY DEF SetCustom
<1> DEFINE bag == [inner[r].data.custom EXCEPT ![k] = r]
<1>0. pc[r] = "handler" BY DEF Handler
<1>1. r \in Values BY LayerAssumption
<1>2. bag \in Bag BY <1>0, <1>1, HandlerFields, BagTypes
<1>3. call' \in [Requests -> Call]
      BY CallType DEF OpNames
<1>4. planted' \subseteq Keys \X Values BY <1>1 DEF Typed, TypeOK
<1>5. CASE SetInner(r, with_custom(inner[r], bag))
  <2> HIDE DEF bag
  <2>1. /\ inner' \in [Requests -> Inner] /\ pc' \in [Requests -> PCs]
        /\ LocalsOK'
        BY <1>0, <1>2, <1>5, CustomStep
  <2> QED BY <1>3, <1>4, <2>1 DEF Typed, TypeOK, shared
<1>6. CASE UNCHANGED inner
  <2>1. LocalsOK' BY <1>6 DEF Typed, LocalsOK
  <2> QED BY <1>3, <1>4, <1>6, <2>1 DEF Typed, TypeOK, shared
<1> QED BY <1>5, <1>6

LEMMA RemoveCustomTyped ==
    ASSUME Typed, NEW r \in Requests, RemoveCustom(r) PROVE Typed'
<1> PICK k \in Keys :
        /\ Handler(r, "remove", k)
        /\ Called(r, "remove", k, 0)
        /\ SetInner(r, with_custom(inner[r], [inner[r].data.custom EXCEPT ![k] = NoVal]))
        /\ UNCHANGED <<shared, pc, work, admin, history>>
    BY DEF RemoveCustom
<1> DEFINE bag == [inner[r].data.custom EXCEPT ![k] = NoVal]
<1>0. pc[r] = "handler" BY DEF Handler
<1>1. bag \in Bag BY <1>0, HandlerFields, BagTypes
<1>2. call' \in [Requests -> Call] BY CallType DEF OpNames
<1>3. SetInner(r, with_custom(inner[r], bag)) OBVIOUS
<1> HIDE DEF bag
<1>4. /\ inner' \in [Requests -> Inner] /\ pc' \in [Requests -> PCs]
      /\ LocalsOK'
      BY <1>0, <1>1, <1>3, CustomStep
<1> QED BY <1>2, <1>4 DEF Typed, TypeOK, shared, history

LEMMA ClearCustomTyped ==
    ASSUME Typed, NEW r \in Requests, ClearCustom(r) PROVE Typed'
<1>0. pc[r] = "handler" /\ Called(r, "clear_custom", NoKey, 0) BY DEF ClearCustom, Handler
<1>1. call' \in [Requests -> Call] BY <1>0, CallType DEF OpNames
<1>2. EmptyBag \in Bag BY BagTypes
<1>3. SetInner(r, with_custom(inner[r], EmptyBag)) /\ UNCHANGED <<pc, work>>
      BY DEF ClearCustom
<1>4. /\ inner' \in [Requests -> Inner] /\ pc' \in [Requests -> PCs]
      /\ LocalsOK'
      BY <1>0, <1>2, <1>3, CustomStep
<1> QED BY <1>1, <1>4 DEF Typed, TypeOK, ClearCustom, shared, history

LEMMA RegenerateTyped ==
    ASSUME Typed, NEW r \in Requests, Regenerate(r) PROVE Typed'
<1> DEFINE q == rotate_id(inner[r], Minted(r, 1))
<1>0. /\ pc[r] = "handler" /\ CanMint(r, 1) /\ Called(r, "regenerate", NoKey, 1)
      /\ Rotated(r, q) /\ UNCHANGED <<pc, work>>
      BY DEF Regenerate, Handler
<1>1. call' \in [Requests -> Call] BY <1>0, CallType DEF OpNames
<1>2. /\ q \in Inner /\ q.id \in Ids /\ q.dirty = "regenerate"
      BY <1>0, HandlerFields, MintType, RotateType
<1>3. pc' = [pc EXCEPT ![r] = "handler"] BY <1>0, SameLabel
<1> HIDE DEF q
<1>4. /\ inner' \in [Requests -> Inner] /\ pc' \in [Requests -> PCs]
      /\ LocalsOK' /\ loginOf' \in [Ids -> Logins \cup {NoLogin}]
      BY <1>0, <1>2, <1>3, RotatedStep
<1> QED BY <1>1, <1>4 DEF Typed, TypeOK, Regenerate, shared

LEMMA BeginLoginTyped ==
    ASSUME Typed, NEW r \in Requests, BeginLogin(r) PROVE Typed'
<1>0. /\ pc[r] = "handler" /\ CanMint(r, 1) /\ Called(r, "begin", NoKey, 1)
      /\ UNCHANGED <<pc, work>>
      BY DEF BeginLogin, Handler
<1> PICK u \in Users :
        Rotated(r, bind_fingerprint(rotate_id(
            with_auth(inner[r], begin_authenticating(u), inner[r].data.custom), Minted(r, 1))))
    BY DEF BeginLogin
<1> DEFINE o == with_auth(inner[r], begin_authenticating(u), inner[r].data.custom)
           p == rotate_id(o, Minted(r, 1))
           q == bind_fingerprint(p)
<1>1. call' \in [Requests -> Call] BY <1>0, CallType DEF OpNames
<1>2. o \in Inner BY <1>0, HandlerFields, AuthTypes, WithAuthType
<1>3. /\ p \in Inner /\ p.id \in Ids /\ p.dirty = "regenerate"
      BY <1>0, <1>2, MintType, RotateType
<1>4. /\ q \in Inner /\ q.id \in Ids /\ q.dirty = "regenerate"
      BY <1>3, BindType
<1>5. pc' = [pc EXCEPT ![r] = "handler"] BY <1>0, SameLabel
<1>6. Rotated(r, q) OBVIOUS
<1> HIDE DEF q
<1>7. /\ inner' \in [Requests -> Inner] /\ pc' \in [Requests -> PCs]
      /\ LocalsOK' /\ loginOf' \in [Ids -> Logins \cup {NoLogin}]
      BY <1>0, <1>4, <1>5, <1>6, RotatedStep
<1> QED BY <1>1, <1>7 DEF Typed, TypeOK, BeginLogin, shared

(* A completed login or step-up, which goes on to register. *)
LEMMA LoginStep ==
    ASSUME Typed, NEW r \in Requests, pc[r] = "handler", CanMint(r, 1),
           NEW a \in AuthState, is_authenticated(a),
           Rotated(r, authenticated(inner[r], a, Minted(r, 1))),
           Goto(r, "register"), UNCHANGED work
    PROVE  /\ inner' \in [Requests -> Inner] /\ pc' \in [Requests -> PCs]
           /\ LocalsOK' /\ loginOf' \in [Ids -> Logins \cup {NoLogin}]
<1> DEFINE q == authenticated(inner[r], a, Minted(r, 1))
<1>1. /\ q \in Inner /\ q.id \in Ids /\ q.dirty = "regenerate"
      /\ is_authenticated(q.data.auth)
      BY HandlerFields, MintType, AuthenticatedType
<1>2. Rotated(r, q) OBVIOUS
<1> HIDE DEF q
<1> QED BY <1>1, <1>2, RotatedStep DEF Goto

LEMMA CompleteFactorTyped ==
    ASSUME Typed, NEW r \in Requests, CompleteFactor(r) PROVE Typed'
<1> DEFINE auth == inner[r].data.auth
           a == IF auth.kind = "StepUp" THEN finish_step_up(auth)
                ELSE set_authenticated(auth.user, r)
<1>0. /\ pc[r] = "handler" /\ CanMint(r, 1) /\ Called(r, "factor", NoKey, 1)
      /\ auth.kind \in {"Authenticating", "StepUp"}
      /\ Rotated(r, authenticated(inner[r], a, Minted(r, 1)))
      /\ Goto(r, "register") /\ UNCHANGED work
      BY DEF CompleteFactor, Handler
<1>1. call' \in [Requests -> Call] BY <1>0, CallType DEF OpNames
<1>2. r \in Logins BY LayerAssumption
<1>3. auth \in AuthState BY <1>0, HandlerFields
<1>4. a \in AuthState BY <1>0, <1>2, <1>3, AuthTypes
<1>5. is_authenticated(a)
      BY <1>0, <1>3 DEF is_authenticated, finish_step_up, set_authenticated, AuthState, Guest
<1> HIDE DEF a
<1>6. /\ inner' \in [Requests -> Inner] /\ pc' \in [Requests -> PCs]
      /\ LocalsOK' /\ loginOf' \in [Ids -> Logins \cup {NoLogin}]
      BY <1>0, <1>4, <1>5, LoginStep
<1> QED BY <1>1, <1>6 DEF Typed, TypeOK, CompleteFactor, shared

LEMMA OAuthLoginTyped ==
    ASSUME Typed, NEW r \in Requests, OAuthLogin(r) PROVE Typed'
<1> PICK u \in Users :
        Rotated(r, authenticated(inner[r], set_authenticated(u, r), Minted(r, 1)))
    BY DEF OAuthLogin
<1>0. /\ pc[r] = "handler" /\ CanMint(r, 1) /\ Called(r, "oauth", NoKey, 1)
      /\ Goto(r, "register") /\ UNCHANGED work
      BY DEF OAuthLogin, Handler
<1>1. call' \in [Requests -> Call] BY <1>0, CallType DEF OpNames
<1>2. set_authenticated(u, r) \in AuthState BY LayerAssumption, AuthTypes
<1>3. is_authenticated(set_authenticated(u, r)) BY DEF is_authenticated, set_authenticated
<1>4. /\ inner' \in [Requests -> Inner] /\ pc' \in [Requests -> PCs]
      /\ LocalsOK' /\ loginOf' \in [Ids -> Logins \cup {NoLogin}]
      BY <1>0, <1>2, <1>3, LoginStep
<1> QED BY <1>1, <1>4 DEF Typed, TypeOK, OAuthLogin, shared

LEMMA StepUpTyped ==
    ASSUME Typed, NEW r \in Requests, StepUp(r) PROVE Typed'
<1> DEFINE p == with_auth(inner[r], begin_step_up(inner[r].data.auth), inner[r].data.custom)
           q == with_custom(p, inner[r].data.custom)
<1>0. /\ pc[r] = "handler" /\ is_authenticated(inner[r].data.auth)
      /\ Called(r, "step_up", NoKey, 0) /\ SetInner(r, q) /\ UNCHANGED <<pc, work>>
      BY DEF StepUp, Handler
<1>1. call' \in [Requests -> Call] BY <1>0, CallType DEF OpNames
<1>2. /\ p \in Inner /\ p.id \in Ids
      /\ p.pre_cycle_id # NoId => p.dirty = "regenerate"
      BY <1>0, HandlerFields, AuthTypes, WithAuthType
<1> HIDE DEF p
<1>3. /\ q \in Inner /\ q.id \in Ids
      /\ q.pre_cycle_id # NoId => q.dirty = "regenerate"
      BY <1>0, <1>2, HandlerFields, WithCustomType
<1>4. pc' = [pc EXCEPT ![r] = "handler"] BY <1>0, SameLabel
<1>5. inner' = [inner EXCEPT ![r] = q] BY <1>0 DEF SetInner
<1> HIDE DEF q
<1>6. /\ inner' \in [Requests -> Inner] /\ pc' \in [Requests -> PCs]
      /\ LocalsOK'
      BY <1>0, <1>3, <1>4, <1>5, HandlerStep
<1> QED BY <1>1, <1>6 DEF Typed, TypeOK, StepUp, shared, history

LEMMA ImpersonateTyped ==
    ASSUME Typed, NEW r \in Requests, Impersonate(r) PROVE Typed'
<1> PICK u \in Users \ {inner[r].data.auth.user} :
        Rotated(r, rotate_id(
            authenticated(with_custom(inner[r], EmptyBag), set_authenticated(u, r), Minted(r, 1)),
            Minted(r, 2)))
    BY DEF Impersonate
<1> DEFINE o == with_custom(inner[r], EmptyBag)
           p == authenticated(o, set_authenticated(u, r), Minted(r, 1))
           q == rotate_id(p, Minted(r, 2))
<1>0. /\ pc[r] = "handler" /\ CanMint(r, 2) /\ Called(r, "impersonate", NoKey, 2)
      /\ Rotated(r, q) /\ Goto(r, "register") /\ UNCHANGED work
      BY DEF Impersonate, Handler
<1>1. call' \in [Requests -> Call] BY <1>0, CallType DEF OpNames
<1>2. Minted(r, 1) \in Ids /\ Minted(r, 2) \in Ids BY <1>0, MintType
<1>3. o \in Inner BY <1>0, HandlerFields, BagTypes, WithCustomType
<1>4. set_authenticated(u, r) \in AuthState BY LayerAssumption, AuthTypes
<1>5. p \in Inner /\ is_authenticated(p.data.auth)
      BY <1>2, <1>3, <1>4, AuthenticatedType DEF is_authenticated, set_authenticated
<1> HIDE DEF p
<1>6. /\ q \in Inner /\ q.id \in Ids /\ q.dirty = "regenerate"
      /\ is_authenticated(q.data.auth)
      BY <1>2, <1>5, RotateType
<1> HIDE DEF q
<1>7. /\ inner' \in [Requests -> Inner] /\ pc' \in [Requests -> PCs]
      /\ LocalsOK' /\ loginOf' \in [Ids -> Logins \cup {NoLogin}]
      BY <1>0, <1>6, RotatedStep DEF Goto
<1>8. registry' \subseteq Users \X Ids
      BY DEF Impersonate, invalidate_session, Typed, TypeOK
<1> QED BY <1>1, <1>7, <1>8 DEF Typed, TypeOK, Impersonate

LEMMA ClearStep ==
    ASSUME Typed, NEW r \in Requests, pc[r] \in {"handler", "register", "recheck"},
           CanMint(r, 1), Rotated(r, clear(inner[r], Minted(r, 1))),
           pc' = [pc EXCEPT ![r] = "handler"], UNCHANGED work
    PROVE  /\ inner' \in [Requests -> Inner] /\ pc' \in [Requests -> PCs]
           /\ LocalsOK' /\ loginOf' \in [Ids -> Logins \cup {NoLogin}]
<1> DEFINE q == clear(inner[r], Minted(r, 1))
<1>1. /\ q \in Inner /\ q.id \in Ids /\ q.dirty = "regenerate"
      BY HandlerFields, MintType, ClearType
<1>2. Rotated(r, q) OBVIOUS
<1> HIDE DEF q
<1> QED BY <1>1, <1>2, RotatedStep

LEMMA RegisterTyped ==
    ASSUME Typed, NEW r \in Requests, Register(r) PROVE Typed'
<1>0. pc[r] = "register" BY DEF Register
<1>1. /\ inner[r].data.auth.user \in Users /\ inner[r].id \in Ids
      /\ is_authenticated(inner[r].data.auth)
      BY <1>0, ActiveFields
<1>2. registry' \subseteq Users \X Ids BY <1>1 DEF Register, register, Typed, TypeOK
<1>3. CASE UNCHANGED <<call, inner, loginOf>> /\ Goto(r, "recheck")
  <2>1. inner' = [inner EXCEPT ![r] = inner[r]] BY <1>3 DEF Typed, TypeOK
  <2>2. /\ inner' \in [Requests -> Inner] /\ pc' \in [Requests -> PCs]
        /\ LocalsOK'
        BY <1>0, <1>1, <1>3, <2>1, HandlerFields, HandlerStep DEF Goto, Register
  <2> QED BY <1>2, <1>3, <2>2 DEF Typed, TypeOK, Register
<1>4. CASE ClearSession(r) /\ Goto(r, "handler")
  <2>1. call' \in [Requests -> Call]
    <3>1. CanMint(r, 1) /\ Mint(r, 1) BY <1>4 DEF ClearSession
    <3>2. "set" \in OpNames BY DEF OpNames
    <3>3. NoKey \in Keys \cup {NoKey} OBVIOUS
    <3> QED BY <3>1, <3>2, <3>3, CallType
  <2>2. /\ inner' \in [Requests -> Inner] /\ pc' \in [Requests -> PCs]
        /\ LocalsOK' /\ loginOf' \in [Ids -> Logins \cup {NoLogin}]
        BY <1>0, <1>4, ClearStep DEF ClearSession, Goto, Register
  <2> QED BY <1>2, <2>1, <2>2 DEF Typed, TypeOK, Register
<1> QED BY <1>3, <1>4 DEF Register

LEMMA RecheckTyped ==
    ASSUME Typed, NEW r \in Requests, Recheck(r) PROVE Typed'
<1>0. pc[r] = "recheck" /\ Goto(r, "handler") /\ UNCHANGED work BY DEF Recheck
<1>1. registry' \subseteq Users \X Ids
      BY DEF Recheck, invalidate_session, Typed, TypeOK
<1>2. CASE UNCHANGED <<registry, call, inner, loginOf>>
  <2>1. inner' = [inner EXCEPT ![r] = inner[r]] BY <1>2 DEF Typed, TypeOK
  <2>2. /\ inner' \in [Requests -> Inner] /\ pc' \in [Requests -> PCs]
        /\ LocalsOK'
        BY <1>0, <2>1, HandlerFields, HandlerStep DEF Goto
  <2> QED BY <1>1, <1>2, <2>2 DEF Typed, TypeOK, Recheck
<1>3. CASE ClearSession(r)
  <2>1. call' \in [Requests -> Call]
    <3>1. CanMint(r, 1) /\ Mint(r, 1) BY <1>3 DEF ClearSession
    <3>2. "set" \in OpNames BY DEF OpNames
    <3>3. NoKey \in Keys \cup {NoKey} OBVIOUS
    <3> QED BY <3>1, <3>2, <3>3, CallType
  <2>2. /\ inner' \in [Requests -> Inner] /\ pc' \in [Requests -> PCs]
        /\ LocalsOK' /\ loginOf' \in [Ids -> Logins \cup {NoLogin}]
        BY <1>0, <1>3, ClearStep DEF ClearSession, Goto
  <2> QED BY <1>1, <2>1, <2>2 DEF Typed, TypeOK, Recheck
<1> QED BY <1>2, <1>3 DEF Recheck

LEMMA LogoutTyped ==
    ASSUME Typed, NEW r \in Requests, Logout(r) PROVE Typed'
<1>0. /\ pc[r] = "handler" /\ CanMint(r, 1) /\ Called(r, "logout", NoKey, 1)
      /\ Rotated(r, clear(inner[r], Minted(r, 1))) /\ UNCHANGED <<pc, work>>
      BY DEF Logout, Handler
<1>1. call' \in [Requests -> Call] BY <1>0, CallType DEF OpNames
<1>2. pc' = [pc EXCEPT ![r] = "handler"] BY <1>0, SameLabel
<1>3. /\ inner' \in [Requests -> Inner] /\ pc' \in [Requests -> PCs]
      /\ LocalsOK' /\ loginOf' \in [Ids -> Logins \cup {NoLogin}]
      BY <1>0, <1>2, ClearStep
<1>4. registry' \subseteq Users \X Ids
      BY DEF Logout, invalidate_session, Typed, TypeOK
<1>5. inner[r].data.auth.login \in Logins \cup {NoLogin}
      BY <1>0, HandlerFields, AuthTypes
<1>6. revoked' \subseteq Logins \cup {NoLogin} BY <1>5 DEF Logout, Typed, TypeOK
<1> QED BY <1>1, <1>3, <1>4, <1>6 DEF Typed, TypeOK, Logout

LEMMA TakeTyped ==
    ASSUME Typed, NEW r \in Requests, Take(r) PROVE Typed'
<1> PICK k \in Keys :
        LET q     == inner[r]
            v     == q.data.custom[k]
            local == take_local(q, k)
            inRow == /\ q.loaded # NoRow
                     /\ q.pre_cycle_id = NoId \/ q.loaded.custom[k] # NoVal
        IN  /\ Handler(r, "take", k)
            /\ v # NoVal
            /\ Called(r, "take", k, 0)
            /\ SetInner(r, with_custom(q, without(q.data, k).custom))
            /\ IF inRow
               THEN /\ SetWork(r, first_attempt(k, v, local, local.revision))
                    /\ Goto(r, "swap")
                    /\ UNCHANGED got
               ELSE /\ got' = got \cup {<<r, k, v>>}
                    /\ UNCHANGED <<pc, work>>
            /\ UNCHANGED <<shared, admin, loginOf, line, revoked, planted>>
    BY DEF Take
<1> DEFINE q == inner[r]
           v == q.data.custom[k]
           b == without(q.data, k).custom
           p == with_custom(q, b)
           local == take_local(q, k)
           w == first_attempt(k, v, local, local.revision)
<1>0. pc[r] = "handler" /\ Called(r, "take", k, 0) /\ v # NoVal BY DEF Handler
<1>1. call' \in [Requests -> Call] BY <1>0, CallType DEF OpNames
<1>2. /\ q \in Inner /\ q.id \in Ids /\ q.data \in Data /\ q.data.custom \in Bag
      /\ q.loaded \in Data \cup {NoRow}
      /\ q.pre_cycle_id # NoId => q.dirty = "regenerate"
      BY <1>0, HandlerFields, InnerFields
<1>3. v \in Values BY <1>0, <1>2 DEF Bag
<1>4. b \in Bag BY <1>2, DataTypes
<1>5. SetInner(r, with_custom(inner[r], b)) OBVIOUS
<1>6. CASE got' = got \cup {<<r, k, v>>} /\ UNCHANGED <<pc, work>>
  <2>1. got' \subseteq Requests \X Keys \X Values BY <1>3, <1>6 DEF Typed, TypeOK
  <2> HIDE DEF b
  <2>2. /\ inner' \in [Requests -> Inner] /\ pc' \in [Requests -> PCs]
        /\ LocalsOK'
        BY <1>0, <1>4, <1>5, <1>6, CustomStep
  <2> QED BY <1>1, <1>6, <2>1, <2>2 DEF Typed, TypeOK, shared
<1>7. CASE q.loaded # NoRow /\ SetWork(r, w) /\ Goto(r, "swap") /\ UNCHANGED got
  <2>1. local \in Data BY <1>2, <1>7, DataTypes DEF take_local
  <2>2. local.revision \in Nat BY <2>1, DataTypes
  <2> HIDE DEF local
  <2>3. w \in Work /\ w.key = k /\ w.val = v BY <1>3, <2>1, <2>2, AttemptType
  <2>4. inner' = [inner EXCEPT ![r] = p] BY <1>5 DEF SetInner
  <2> HIDE DEF b
  <2>5. /\ p \in Inner /\ p.id \in Ids /\ p.loaded = q.loaded
        /\ p.pre_cycle_id # NoId => p.dirty = "regenerate"
        BY <1>2, <1>4, WithCustomType
  <2> HIDE DEF p, w
  <2>6. TypeOK' BY <1>1, <1>7, <2>3, <2>4, <2>5 DEF Typed, TypeOK, shared, SetWork, Goto, PCs
  <2>7. pc'[r] = "swap" /\ inner'[r] = p /\ work'[r] = w
        BY <1>7, <2>4 DEF SetWork, Goto, Typed, TypeOK
  <2>8. v # NoVal /\ k # NoKey BY <1>0, LayerAssumption
  <2>9. LocalsOf(pc'[r], inner'[r], work'[r])
        BY <1>7, <2>3, <2>5, <2>7, <2>8, NoIdFact DEF LocalsOf, Settling, Cycling
  <2> QED BY <1>7, <2>4, <2>6, <2>9, OneRequest DEF Typed, TypeOK, SetWork, Goto
<1> QED BY <1>6, <1>7

LEMMA FinishHandlerTyped ==
    ASSUME Typed, NEW r \in Requests, FinishHandler(r) PROVE Typed'
<1> DEFINE q == inner[r]
           data == [capped(q.data) EXCEPT !.revision = @ + 1]
           o == [q EXCEPT !.data = data]
           n == [q EXCEPT !.pre_cycle_id = q.id, !.id = Minted(r, 1), !.data = data]
           p == IF q.dirty = "regenerate" /\ q.pre_cycle_id = NoId THEN n ELSE o
           a == first_attempt(NoKey, NoVal, data, q.data.revision)
           was == IF existing(r) THEN q.loaded.auth.kind ELSE "Guest"
           w == [a EXCEPT !.was = was]
           l == CASE q.dirty = "regenerate" /\ existing(r)  -> "merge"
                  [] q.dirty = "regenerate" /\ ~existing(r) -> "remove"
                  [] q.dirty = "modified" /\ existing(r)    -> "swap"
                  [] q.dirty = "clean" /\ existing(r)       -> "touch"
                  [] OTHER                                  -> "save"
<1>0. pc[r] = "handler" /\ UNCHANGED <<shared, admin, history>> BY DEF FinishHandler
<1>1. /\ q \in Inner /\ q.id \in Ids /\ q.data \in Data /\ q.dirty \in Dirt
      /\ q.loaded \in Data \cup {NoRow} /\ q.pre_cycle_id \in Ids \cup {NoId}
      /\ q.pre_cycle_id # NoId => q.dirty = "regenerate"
      BY <1>0, HandlerFields, InnerFields
<1>2. CASE Goto(r, "nocookie") /\ UNCHANGED <<inner, work, call>>
  <2>1. TypeOK' BY <1>0, <1>2 DEF Typed, TypeOK, Goto, PCs, Finished, shared, history
  <2>2. LocalsOf(pc'[r], inner'[r], work'[r])
        BY <1>1, <1>2, NoIdFact DEF LocalsOf, Goto, Settling, Cycling, Typed, TypeOK
  <2> QED BY <1>2, <2>1, <2>2, OneRequest DEF Typed, TypeOK, Goto
<1>3. CASE /\ SetInner(r, p) /\ SetWork(r, w) /\ Goto(r, l)
           /\ IF p.id # q.id THEN CanMint(r, 1) /\ Mint(r, 1) ELSE UNCHANGED call
  <2>1. data \in Data
    <3>1. capped(q.data) \in Data BY <1>1, DataTypes
    <3>2. capped(q.data).revision \in Nat BY <3>1, DataTypes
    <3>3. capped(q.data).revision + 1 \in Nat BY <3>2
    <3> QED BY <3>1, <3>3, DataTypes
  <2>2. a \in Work /\ a.key = NoKey
    <3>1. q.data.revision \in Nat BY <1>1, DataTypes
    <3>2. NoKey \in Keys \cup {NoKey} /\ NoVal \in Values \cup {NoVal} OBVIOUS
    <3> HIDE DEF data
    <3> QED BY <2>1, <3>1, <3>2, AttemptType
  <2>3. was \in Kinds BY <1>1, DataTypes, AuthTypes DEF existing, Kinds
  <2> HIDE DEF data, a, was
  <2>4. w \in Work /\ w.key = NoKey BY <2>2, <2>3 DEF Work
  <2>5. /\ o \in Inner /\ o.id = q.id /\ o.pre_cycle_id = q.pre_cycle_id
        /\ o.loaded = q.loaded /\ o.dirty = q.dirty
        BY <1>1, <2>1, SetDataType
  <2>6. /\ n.id = Minted(r, 1) /\ n.pre_cycle_id = q.id
        /\ n.loaded = q.loaded /\ n.dirty = q.dirty
        /\ Minted(r, 1) \in Ids => n \in Inner
        BY <1>1, <2>1 DEF Inner
  <2> HIDE DEF o, n
  <2>7. p.id = q.id \/ (CanMint(r, 1) /\ Mint(r, 1) /\ Minted(r, 1) \in Ids)
        BY <1>3, MintType
  <2>8. call' \in [Requests -> Call]
    <3>1. CASE UNCHANGED call BY <3>1 DEF Typed, TypeOK
    <3>2. CASE CanMint(r, 1) /\ Mint(r, 1)
      <4>1. "set" \in OpNames /\ NoKey \in Keys \cup {NoKey} BY DEF OpNames
      <4> QED BY <3>2, <4>1, CallType
    <3> QED BY <1>3, <3>1, <3>2
  <2>9. /\ p \in Inner /\ p.id \in Ids
        /\ p.loaded = q.loaded /\ p.dirty = q.dirty
        /\ p.pre_cycle_id # NoId <=> q.dirty = "regenerate"
        BY <1>1, <2>5, <2>6, <2>7, NoIdFact
  <2>10. l \in {"merge", "remove", "swap", "touch", "save"} OBVIOUS
  <2>11. /\ l \in {"merge", "swap", "touch"} => q.loaded # NoRow
         /\ l \in {"merge", "remove"} <=> q.dirty = "regenerate"
        BY <1>1 DEF existing, Dirt
  <2> HIDE DEF p, w, l
  <2>12. TypeOK'
        BY <1>0, <1>3, <2>4, <2>8, <2>9, <2>10
        DEF Typed, TypeOK, SetInner, SetWork, Goto, PCs, shared, history
  <2>13. pc'[r] = l /\ inner'[r] = p /\ work'[r] = w
        BY <1>3 DEF SetInner, SetWork, Goto, Typed, TypeOK
  <2>14. LocalsOf(pc'[r], inner'[r], work'[r])
        BY <2>4, <2>9, <2>10, <2>11, <2>13, NoIdFact DEF LocalsOf, Settling, Cycling
  <2> QED BY <1>3, <2>12, <2>14, OneRequest DEF Typed, TypeOK, SetInner, SetWork, Goto
<1> QED BY <1>2, <1>3 DEF FinishHandler

-----------------------------------------------------------------------------
(* Loading. *)

LEMMA NewInnerType ==
    /\ NewInner \in Inner /\ NewInner.pre_cycle_id = NoId /\ NewInner.id = NoId
    /\ NewInner.loaded = NoRow /\ NewInner.data = DefaultData
BY DefaultType DEF NewInner, Inner, Dirt

LEMMA StartFreshStep ==
    ASSUME Typed, NEW r \in Requests, NEW c \in Clients \cup {NoFp}, NEW dirt \in Dirt,
           StartFresh(r, c, dirt), UNCHANGED work
    PROVE  /\ inner' \in [Requests -> Inner] /\ pc' \in [Requests -> PCs]
           /\ call' \in [Requests -> Call] /\ LocalsOK'
<1> DEFINE f == IF Binding THEN c ELSE NoFp
           q == [NewInner EXCEPT !.id = Minted(r, 1), !.dirty = dirt, !.pending = f]
           d == [client |-> c, ops |-> call[r].ops, minted |-> call[r].minted + 1]
<1>1. CanMint(r, 1) /\ Minted(r, 1) \in Ids BY MintType DEF StartFresh
<1>2. f \in Clients \cup {NoFp} OBVIOUS
<1>3. /\ inner' = [inner EXCEPT ![r] = q] /\ call' = [call EXCEPT ![r] = d]
      /\ pc' = [pc EXCEPT ![r] = "handler"]
      BY DEF StartFresh, SetInner, Goto
<1> HIDE DEF f
<1>4. q \in Inner /\ q.id \in Ids /\ q.pre_cycle_id = NoId
      BY <1>1, <1>2, NewInnerType DEF Inner
<1>5. d \in Call
  <2>1. call[r] \in Call BY RequestFields
  <2>2. call[r].minted + 1 \in 0 .. MaxMint BY <1>1, <2>1, LayerAssumption DEF Call, CanMint
  <2> QED BY <2>1, <2>2 DEF Call
<1> HIDE DEF q, d
<1>6. /\ inner' \in [Requests -> Inner] /\ pc' \in [Requests -> PCs] /\ LocalsOK'
      BY <1>3, <1>4, HandlerStep
<1>7. call' \in [Requests -> Call] BY <1>3, <1>5 DEF Typed, TypeOK
<1> QED BY <1>6, <1>7

LEMMA SetClientType ==
    ASSUME Typed, NEW r \in Requests, NEW c \in Clients \cup {NoFp},
           call' = [call EXCEPT ![r].client = c]
    PROVE  call' \in [Requests -> Call]
<1> DEFINE d == [call[r] EXCEPT !.client = c]
<1>1. call' = [call EXCEPT ![r] = d] OBVIOUS
<1>2. d \in Call BY RequestFields DEF Call
<1> HIDE DEF d
<1> QED BY <1>1, <1>2 DEF Typed, TypeOK

LEMMA TrustStep ==
    ASSUME Typed, NEW r \in Requests, NEW c \in Clients \cup {NoFp}, NEW i \in Ids,
           NEW row \in Data, Trust(r, c, i, row), UNCHANGED work
    PROVE  /\ inner' \in [Requests -> Inner] /\ pc' \in [Requests -> PCs]
           /\ call' \in [Requests -> Call] /\ LocalsOK'
<1> DEFINE fp == IF Binding THEN c ELSE NoFp
           data == check_binding(row, fp)
           t == IF data = row THEN "clean" ELSE "modified"
           e == IF data.fp = NoFp THEN fp ELSE NoFp
           q == [id |-> i, pre_cycle_id |-> NoId, data |-> data, dirty |-> t,
                 pending |-> e, loaded |-> row]
<1>1. CASE data = NoRow
  <2>1. StartFresh(r, c, "regenerate") BY <1>1 DEF Trust
  <2>2. "regenerate" \in Dirt BY DEF Dirt
  <2> QED BY <2>1, <2>2, StartFreshStep
<1>2. CASE data # NoRow
  <2>1. fp \in Clients \cup {NoFp} OBVIOUS
  <2>2. data \in Data BY <1>2, <2>1, DataTypes DEF check_binding
  <2>3. /\ inner' = [inner EXCEPT ![r] = q] /\ pc' = [pc EXCEPT ![r] = "handler"]
        /\ call' = [call EXCEPT ![r].client = c]
        BY <1>2 DEF Trust, SetInner, Goto
  <2>4. t \in Dirt BY DEF Dirt
  <2>5. e \in Clients \cup {NoFp} BY <2>1
  <2> HIDE DEF data, t, e
  <2>6. q \in Inner /\ q.id \in Ids /\ q.pre_cycle_id = NoId
        BY <2>2, <2>4, <2>5 DEF Inner
  <2> HIDE DEF q
  <2>7. /\ inner' \in [Requests -> Inner] /\ pc' \in [Requests -> PCs] /\ LocalsOK'
        BY <2>3, <2>6, HandlerStep
  <2> QED BY <2>3, <2>7, SetClientType
<1> QED BY <1>1, <1>2

LEMMA LoadNothingTyped ==
    ASSUME Typed, NEW r \in Requests, LoadNothing(r) PROVE Typed'
<1>1. PICK c \in Clients : StartFresh(r, c, "clean") BY DEF LoadNothing
<1>2. "clean" \in Dirt BY DEF Dirt
<1>3. UNCHANGED <<shared, work, admin, history>> BY DEF LoadNothing
<1>4. /\ inner' \in [Requests -> Inner] /\ pc' \in [Requests -> PCs]
      /\ call' \in [Requests -> Call] /\ LocalsOK'
      BY <1>1, <1>2, <1>3, StartFreshStep
<1> QED BY <1>3, <1>4 DEF Typed, TypeOK, shared, history

LEMMA LoadRowTyped ==
    ASSUME Typed, NEW r \in Requests, LoadRow(r) PROVE Typed'
<1>0. UNCHANGED <<shared, work, admin, history>> BY DEF LoadRow
<1>1. PICK c \in Clients, i \in issued :
        /\ store[i] # NoRow
        /\ IF is_authenticated(store[i].auth)
           THEN /\ SetInner(r, [NewInner EXCEPT !.id = i, !.data = store[i]])
                /\ call' = [call EXCEPT ![r].client = c]
                /\ Goto(r, "verdict")
           ELSE Trust(r, c, i, store[i])
      BY DEF LoadRow
<1>2. i \in Ids BY DEF Typed, TypeOK
<1>3. store[i] \in Data BY <1>1, <1>2, RowField
<1>4. CASE is_authenticated(store[i].auth)
  <2> DEFINE q == [NewInner EXCEPT !.id = i, !.data = store[i]]
  <2>1. /\ inner' = [inner EXCEPT ![r] = q] /\ pc' = [pc EXCEPT ![r] = "verdict"]
        /\ call' = [call EXCEPT ![r].client = c]
        BY <1>1, <1>4 DEF SetInner, Goto
  <2>2. call' \in [Requests -> Call] BY <2>1, SetClientType
  <2>3. /\ q \in Inner /\ q.id \in Ids /\ q.pre_cycle_id = NoId
        /\ is_authenticated(q.data.auth)
        BY <1>2, <1>3, <1>4, NewInnerType DEF Inner
  <2> HIDE DEF q
  <2>4. TypeOK' BY <1>0, <2>1, <2>2, <2>3 DEF Typed, TypeOK, PCs, shared, history
  <2>5. LocalsOf(pc'[r], inner'[r], work'[r])
        BY <2>1, <2>3, NoIdFact DEF LocalsOf, Settling, Cycling, Typed, TypeOK
  <2> QED BY <1>0, <2>1, <2>4, <2>5, OneRequest DEF Typed, TypeOK
<1>5. CASE ~is_authenticated(store[i].auth)
  <2>1. /\ inner' \in [Requests -> Inner] /\ pc' \in [Requests -> PCs]
        /\ call' \in [Requests -> Call] /\ LocalsOK'
        BY <1>0, <1>1, <1>2, <1>3, <1>5, TrustStep
  <2> QED BY <1>0, <2>1 DEF Typed, TypeOK, shared, history
<1> QED BY <1>4, <1>5

LEMMA VerdictTyped ==
    ASSUME Typed, NEW r \in Requests, Verdict(r) PROVE Typed'
<1>0. pc[r] = "verdict" /\ UNCHANGED <<shared, work, admin, history>> BY DEF Verdict
<1>1. /\ inner[r].id \in Ids /\ inner[r].data \in Data
      /\ call[r].client \in Clients \cup {NoFp}
      BY <1>0, ActiveFields, RequestFields, InnerFields DEF Call
<1>2. CASE Goto(r, "endrow") /\ UNCHANGED <<inner, call>>
  <2>1. TypeOK' BY <1>0, <1>2 DEF Typed, TypeOK, Goto, PCs, shared, history
  <2>2. LocalsOf(pc'[r], inner'[r], work'[r])
        BY <1>0, <1>2, RequestFields DEF LocalsOf, Goto, Settling, Cycling, Typed, TypeOK
  <2> QED BY <1>0, <1>2, <2>1, <2>2, OneRequest DEF Typed, TypeOK, Goto
<1>3. CASE Trust(r, call[r].client, inner[r].id, inner[r].data)
  <2>1. /\ inner' \in [Requests -> Inner] /\ pc' \in [Requests -> PCs]
        /\ call' \in [Requests -> Call] /\ LocalsOK'
        BY <1>0, <1>1, <1>3, TrustStep
  <2> QED BY <1>0, <2>1 DEF Typed, TypeOK, shared, history
<1>4. CASE StartFresh(r, call[r].client, "clean")
  <2>1. "clean" \in Dirt BY DEF Dirt
  <2>2. /\ inner' \in [Requests -> Inner] /\ pc' \in [Requests -> PCs]
        /\ call' \in [Requests -> Call] /\ LocalsOK'
        BY <1>0, <1>1, <1>4, <2>1, StartFreshStep
  <2> QED BY <1>0, <2>2 DEF Typed, TypeOK, shared, history
<1> QED BY <1>2, <1>3, <1>4 DEF Verdict

LEMMA EndRowTyped ==
    ASSUME Typed, NEW r \in Requests, EndRow(r) PROVE Typed'
<1>0. /\ pc[r] = "endrow" /\ StartFresh(r, call[r].client, "modified")
      /\ UNCHANGED work
      BY DEF EndRow
<1>1. call[r].client \in Clients \cup {NoFp} BY RequestFields DEF Call
<1>2. "modified" \in Dirt BY DEF Dirt
<1>3. /\ inner' \in [Requests -> Inner] /\ pc' \in [Requests -> PCs]
      /\ call' \in [Requests -> Call] /\ LocalsOK'
      BY <1>0, <1>1, <1>2, StartFreshStep
<1>4. store' \in [Ids -> Data \cup {NoRow}]
      BY DEF EndRow, try_delete, delete, Typed, TypeOK
<1> QED BY <1>3, <1>4 DEF Typed, TypeOK, EndRow, history

-----------------------------------------------------------------------------
(* The administrator, and the theorem. *)

LEMMA AdministerTyped ==
    ASSUME Typed, Administer \/ Expire PROVE Typed'
<1>1. UNCHANGED <<issued, pc, inner, work, call, loginOf, line, planted, got>>
      BY DEF Administer, Expire, ListUser, ListSession, Revoke, DeleteRow, shared, history
<1>2. LocalsOK' BY <1>1 DEF Typed, LocalsOK
<1>3. held_sessions(admin.user) \subseteq Ids BY DEF held_sessions
<1>4. store' \in [Ids -> Data \cup {NoRow}]
      BY DEF Administer, Expire, ListUser, ListSession, Revoke, DeleteRow, shared,
             try_delete, delete, Typed, TypeOK
<1>5. registry' \subseteq Users \X Ids
      BY DEF Administer, Expire, ListUser, ListSession, Revoke, DeleteRow, shared, Typed, TypeOK
<1>6. revoked' \subseteq Logins \cup {NoLogin}
      BY <1>3 DEF Administer, Expire, ListUser, ListSession, Revoke, DeleteRow, history,
                  Typed, TypeOK
<1>7. admin' \in Admin
  <2>1. CASE ListUser
    <3>1. PICK u \in Users, H \in SUBSET Ids : admin' = [pc |-> "user", user |-> u, ids |-> H]
          BY <2>1 DEF ListUser, held_sessions
    <3> QED BY <3>1 DEF Admin
  <2>2. CASE ListSession BY <2>2 DEF ListSession, held_sessions, Admin
  <2>3. CASE Revoke BY <2>3 DEF Revoke, Admin, Typed, TypeOK
  <2>4. CASE DeleteRow BY <2>4 DEF DeleteRow, Admin, Typed, TypeOK
  <2>5. CASE Expire BY <2>5 DEF Expire, Typed, TypeOK
  <2> QED BY <2>1, <2>2, <2>3, <2>4, <2>5 DEF Administer
<1> QED BY <1>1, <1>2, <1>4, <1>5, <1>6, <1>7 DEF Typed, TypeOK

LEMMA InitTyped == Init => Typed
<1> SUFFICES ASSUME Init PROVE Typed OBVIOUS
<1>1. PICK row \in SeedRows :
        /\ store = [i \in Ids |-> IF i = Seed THEN row ELSE NoRow]
        /\ registry = IF is_authenticated(row.auth) THEN {<<row.auth.user, Seed>>} ELSE {}
        /\ loginOf = [i \in Ids |-> IF i = Seed THEN row.auth.login ELSE NoLogin]
        /\ planted = IF LoggedIn(row.auth) THEN {}
                     ELSE {<<k, row.custom[k]>> : k \in {j \in Keys : row.custom[j] # NoVal}}
      BY DEF Init
<1>2. row \in Data BY LayerAssumption
<1>3. row.auth \in AuthState /\ row.custom \in Bag BY <1>2, DataTypes
<1>4. /\ row.auth.login \in Logins \cup {NoLogin}
      /\ is_authenticated(row.auth) => row.auth.user \in Users
      BY <1>3, AuthTypes DEF is_authenticated
<1>5. Seed \in Ids BY DEF Ids
<1>6. store \in [Ids -> Data \cup {NoRow}] /\ registry \subseteq Users \X Ids
      BY <1>1, <1>2, <1>4, <1>5
<1>7. loginOf \in [Ids -> Logins \cup {NoLogin}] BY <1>1, <1>4
<1>8. planted \subseteq Keys \X Values BY <1>1, <1>3 DEF Bag
<1>9. pc \in [Requests -> PCs] /\ inner \in [Requests -> Inner]
      BY NewInnerType DEF Init, PCs
<1>10. work \in [Requests -> Work] BY DefaultType DEF Init, NoWork, Work, Kinds
<1>11. call \in [Requests -> Call] BY LayerAssumption DEF Init, Call
<1>12. admin \in Admin BY DEF Init, Admin
<1>13. LocalsOK
      BY NewInnerType DEF LocalsOK, LocalsOf, Init, Settling, Cycling
<1> QED BY <1>5, <1>6, <1>7, <1>8, <1>9, <1>10, <1>11, <1>12, <1>13
        DEF Typed, TypeOK, Init

LEMMA NextTyped == Typed /\ [Next]_vars => Typed'
<1> SUFFICES ASSUME Typed, [Next]_vars PROVE Typed' OBVIOUS
<1>1. ASSUME NEW r \in Requests, LoadNothing(r) \/ LoadRow(r) PROVE Typed'
      BY <1>1, LoadNothingTyped, LoadRowTyped
<1>2. ASSUME NEW r \in Requests, Operate(r) PROVE Typed'
      BY <1>2, SetCustomTyped, RemoveCustomTyped, ClearCustomTyped, TakeTyped,
         RegenerateTyped, BeginLoginTyped, CompleteFactorTyped, OAuthLoginTyped,
         StepUpTyped, ImpersonateTyped, LogoutTyped
      DEF Operate
<1>3. ASSUME NEW r \in Requests, Serve(r) PROVE Typed'
      BY <1>3, VerdictTyped, EndRowTyped, RegisterTyped, RecheckTyped, SwapTryTyped,
         SwapLoadTyped, FinishHandlerTyped, TouchTyped, SaveFreshTyped, CycleMergeTyped,
         CycleRemoveTyped, CycleSaveTyped, FailClosedTyped, LiveOldTyped, RegisterNewTyped,
         RereadOldTyped, InvalidateOldTyped, LiveNewTyped, EndRevokedTyped, EndUntrackedTyped
      DEF Serve
<1>4. CASE Administer \/ Expire BY <1>4, AdministerTyped
<1>5. CASE UNCHANGED vars
      BY <1>5 DEF vars, Typed, TypeOK, LocalsOK
<1> QED BY <1>1, <1>2, <1>3, <1>4, <1>5 DEF Next, AllServed

(* Every behaviour of the layer keeps the type invariant, and with it the  *)
(* discipline of a request's locals: a store call always names an id the   *)
(* server minted and a whole row.                                          *)
THEOREM Typing == Spec => []TypeOK
<1>1. Spec => []Typed BY InitTyped, NextTyped, PTL DEF Spec
<1>2. Typed => TypeOK BY DEF Typed
<1> QED BY <1>1, <1>2, PTL

-----------------------------------------------------------------------------
(***************************************************************************)
(* A session of SessionLayer never has two rows: the inductive invariant   *)
(* and its proof, for every number of requests, ids and operations and     *)
(* every failure of the store.                                             *)
(*                                                                         *)
(* The argument: an id a request minted and has not stored under is known  *)
(* to nobody else (Unspent, Unstored), so a row saved under it begins a    *)
(* line of its own or continues the one whose row its request removed; and *)
(* between that removal and the save no row of the line is stored and no   *)
(* other request is about to save one (Vacated, OneMover).                 *)
(***************************************************************************)

(* The ids r minted, and those it has yet to mint, after n of them. *)
MintedBy(r, n) == {r} \X (1 .. n)

NotYet(r, n) == {r} \X (n + 1 .. MaxMint)

(* Nobody knows x: no row, no cookie and no line has it. *)
Unused(st, is, ln, x) ==
    /\ st[x] = NoRow
    /\ x \notin is
    /\ \A i \in Ids : ln[i] = x <=> i = x

(* A request until its session is stored. *)
Before == {"handler", "register", "recheck", "save", "remove"}

(* A request knows ids from a cookie and ids it minted. *)
Origins ==
    \A r \in Requests :
        /\ inner[r].id \in {NoId} \cup issued \cup MintedBy(r, call[r].minted)
        /\ inner[r].pre_cycle_id \in {NoId} \cup issued \cup MintedBy(r, call[r].minted)

(* What a request minted is in no cookie before it is answered. *)
NotSent ==
    \A r \in Requests : pc[r] \notin Finished =>
        \A x \in MintedBy(r, MaxMint) : x \notin issued

Unspent ==
    \A r \in Requests : \A x \in NotYet(r, call[r].minted) : Unused(store, issued, line, x)

(* A fresh session is under an id of its request's own. *)
Unstored ==
    \A r \in Requests : pc[r] \in Before /\ inner[r].loaded = NoRow =>
        /\ row_id(inner[r]) \in MintedBy(r, call[r].minted)
        /\ Unused(store, issued, line, row_id(inner[r]))

(* A rotation goes to an id its request minted. *)
RotatesToOwn ==
    \A r \in Requests : inner[r].pre_cycle_id # NoId =>
        inner[r].id \in MintedBy(r, call[r].minted)

SavesFresh == \A r \in Requests : pc[r] = "save" => inner[r].loaded = NoRow

(* While a request moves a row, its line has none. *)
Vacated ==
    \A r \in Requests : pc[r] = "move" =>
        \A i \in Ids : store[i] # NoRow => line[i] # line[inner[r].pre_cycle_id]

(* No two requests move rows of one line. *)
OneMover ==
    \A r, s \in Requests : pc[r] = "move" /\ pc[s] = "move" /\ r # s =>
        line[inner[r].pre_cycle_id] # line[inner[s].pre_cycle_id]

ForkInv ==
    /\ Typed /\ Origins /\ NotSent /\ Unspent /\ Unstored /\ RotatesToOwn /\ SavesFresh
    /\ Vacated /\ OneMover /\ NoFork

-----------------------------------------------------------------------------
(* Facts about ids. *)

LEMMA MintedNat ==
    ASSUME Typed, NEW r \in Requests
    PROVE  call[r].minted \in Nat /\ call[r].minted <= MaxMint
BY RequestFields, LayerAssumption DEF Call

LEMMA Apart ==
    ASSUME NEW r \in Requests, NEW s \in Requests, NEW m \in Nat, NEW n \in Nat
    PROVE  /\ r # s => \A x \in MintedBy(r, m) : x \notin MintedBy(s, n)
           /\ r # s => \A x \in MintedBy(r, m) : x \notin NotYet(s, n)
           /\ m <= n => \A x \in MintedBy(r, m) : x \notin NotYet(s, n)
BY DEF MintedBy, NotYet

LEMMA Minting ==
    ASSUME NEW r \in Requests, NEW m \in Nat, NEW n \in Nat, m <= n, n <= MaxMint
    PROVE  /\ MintedBy(r, m) \subseteq MintedBy(r, n)
           /\ MintedBy(r, n) \subseteq MintedBy(r, MaxMint)
           /\ MintedBy(r, MaxMint) \subseteq Ids
           /\ NotYet(r, n) \subseteq NotYet(r, m)
           /\ NotYet(r, m) \subseteq Ids
           /\ \A x \in MintedBy(r, n) : x \in MintedBy(r, m) \/ x \in NotYet(r, m)
BY LayerAssumption DEF MintedBy, NotYet, Ids

LEMMA StaysUnused ==
    ASSUME NEW st, NEW ut, NEW is, NEW js, NEW ln, NEW x \in Ids,
           Unused(st, is, ln, x), \A i \in Ids : ut[i] # NoRow => st[i] # NoRow,
           x \notin js
    PROVE  Unused(ut, js, ln, x)
BY DEF Unused

-----------------------------------------------------------------------------
(* Steps that store nothing new: most of them. *)

(* The ids request r mints in the step. *)
MintedNow(r) == MintedBy(r, call'[r].minted) \cap NotYet(r, call[r].minted)

(* A step of request r that stores under no new id, sends at most its own  *)
(* id, and keeps, rotates or replaces its session.                         *)
Ordinary(r) ==
    /\ \A i \in Ids : store'[i] # NoRow => store[i] # NoRow
    /\ line' = line
    /\ \A s \in Requests \ {r} : pc'[s] = pc[s] /\ inner'[s] = inner[s] /\ call'[s] = call[s]
    /\ pc[r] \notin Finished /\ pc'[r] # "move"
    /\ \/ issued' = issued
       \/ pc'[r] \in Finished /\ issued' = issued \cup {inner[r].id} /\ inner[r].id # NoId
    /\ call[r].minted <= call'[r].minted
    /\ inner'[r].id \in {inner[r].id} \cup issued \cup MintedNow(r)
    /\ inner'[r].pre_cycle_id \in {NoId, inner[r].id, inner[r].pre_cycle_id}
    /\ inner'[r].pre_cycle_id # NoId =>
        \/ inner'[r].id \in MintedNow(r)
        \/ inner'[r].id = inner[r].id /\ inner[r].pre_cycle_id # NoId
    /\ pc'[r] \in Before /\ inner'[r].loaded = NoRow =>
        \/ row_id(inner'[r]) \in MintedNow(r)
        \/ pc[r] \in Before /\ inner[r].loaded = NoRow /\ row_id(inner'[r]) = row_id(inner[r])
    /\ pc'[r] = "save" => inner'[r].loaded = NoRow

LEMMA OrdinaryStep ==
    ASSUME ForkInv, Typed', NEW r \in Requests, Ordinary(r)
    PROVE  ForkInv'
<1> DEFINE m == call[r].minted
           n == call'[r].minted
<1>1. /\ m \in Nat /\ n \in Nat /\ m <= n /\ n <= MaxMint
      /\ \A s \in Requests : call[s].minted \in Nat /\ call[s].minted <= MaxMint
      BY MintedNat DEF ForkInv, Ordinary, Typed, TypeOK, Call
<1>2. \A s \in Requests \ {r} : pc'[s] = pc[s] /\ inner'[s] = inner[s] /\ call'[s] = call[s]
      BY DEF Ordinary
<1>3. MintedNow(r) \subseteq MintedBy(r, n) /\ MintedNow(r) \subseteq NotYet(r, m)
      BY DEF MintedNow
<1>4. MintedBy(r, m) \subseteq MintedBy(r, n) /\ NotYet(r, n) \subseteq NotYet(r, m)
      BY <1>1, Minting
<1>5. issued \subseteq issued' BY DEF Ordinary
<1>6. \A x \in issued' : x \in issued \/ (pc'[r] \in Finished /\ x \in MintedBy(r, m))
      BY DEF Ordinary, ForkInv, Origins
<1> HIDE DEF m, n
<1>7. Origins'
  <2> SUFFICES ASSUME NEW s \in Requests
               PROVE  /\ inner'[s].id \in {NoId} \cup issued' \cup MintedBy(s, call'[s].minted)
                      /\ inner'[s].pre_cycle_id \in {NoId} \cup issued' \cup MintedBy(s, call'[s].minted)
      BY DEF Origins
  <2>1. CASE s # r BY <1>2, <1>5, <2>1 DEF ForkInv, Origins
  <2>2. CASE s = r
    <3>1. /\ inner[r].id \in {NoId} \cup issued \cup MintedBy(r, m)
          /\ inner[r].pre_cycle_id \in {NoId} \cup issued \cup MintedBy(r, m)
          BY DEF ForkInv, Origins, m
    <3> QED BY <1>3, <1>4, <1>5, <2>2, <3>1 DEF Ordinary, n
  <2> QED BY <2>1, <2>2
<1>8. NotSent'
  <2> SUFFICES ASSUME NEW s \in Requests, pc'[s] \notin Finished, NEW x \in MintedBy(s, MaxMint)
               PROVE  x \notin issued'
      BY DEF NotSent
  <2>1. pc[s] \notin Finished BY <1>2 DEF Ordinary
  <2>2. x \notin issued BY <2>1 DEF ForkInv, NotSent
  <2>3. CASE s = r BY <1>6, <2>2, <2>3
  <2>4. CASE s # r
    <3>1. x \notin MintedBy(r, m) BY <1>1, <2>4, Apart, LayerAssumption
    <3> QED BY <1>6, <2>2, <3>1
  <2> QED BY <2>3, <2>4
<1>9. ASSUME NEW s \in Requests, NEW x \in NotYet(s, call[s].minted)
      PROVE  Unused(store', issued', line', x)
  <2>1. Unused(store, issued, line, x) BY <1>9 DEF ForkInv, Unspent
  <2>2. x \notin MintedBy(r, m) BY <1>1, <1>9, Apart DEF m
  <2>3. x \notin issued' BY <1>6, <2>1, <2>2 DEF Unused
  <2>4. x \in Ids BY <1>1, <1>9, Minting
  <2> QED BY <2>1, <2>3, <2>4, StaysUnused DEF Ordinary
<1>10. Unspent'
  <2> SUFFICES ASSUME NEW s \in Requests, NEW x \in NotYet(s, call'[s].minted)
               PROVE  Unused(store', issued', line', x)
      BY DEF Unspent
  <2>1. x \in NotYet(s, call[s].minted) BY <1>2, <1>4 DEF m, n
  <2> QED BY <1>9, <2>1
<1>11. Unstored'
  <2> SUFFICES ASSUME NEW s \in Requests, pc'[s] \in Before, inner'[s].loaded = NoRow
               PROVE  /\ row_id(inner'[s]) \in MintedBy(s, call'[s].minted)
                      /\ Unused(store', issued', line', row_id(inner'[s]))
      BY DEF Unstored
  <2> DEFINE x == row_id(inner'[s])
  <2>1. CASE s = r /\ x \in MintedNow(r)
        BY <1>3, <1>9, <2>1 DEF m, n
  <2>2. CASE pc[s] \in Before /\ inner[s].loaded = NoRow /\ x = row_id(inner[s])
    <3>1. x \in MintedBy(s, call[s].minted) /\ Unused(store, issued, line, x)
          BY <2>2 DEF ForkInv, Unstored
    <3>2. x \in MintedBy(s, call'[s].minted) BY <1>2, <1>4, <3>1 DEF m, n
    <3>3. x \in Ids BY <1>1, <3>1, Minting
    <3>4. x \notin issued'
      <4>1. CASE s = r BY <1>6, <3>1, <4>1 DEF Unused, Before, Finished
      <4>2. CASE s # r
        <5>1. x \notin MintedBy(r, m) BY <1>1, <3>1, <4>2, Apart
        <5> QED BY <1>6, <3>1, <5>1 DEF Unused
      <4> QED BY <4>1, <4>2
    <3> HIDE DEF x
    <3>5. Unused(store', issued', line', x) BY <3>1, <3>3, <3>4, StaysUnused DEF Ordinary
    <3> QED BY <3>2, <3>5 DEF x
  <2> QED BY <1>2, <2>1, <2>2 DEF Ordinary
<1>12. RotatesToOwn'
  <2> SUFFICES ASSUME NEW s \in Requests, inner'[s].pre_cycle_id # NoId
               PROVE  inner'[s].id \in MintedBy(s, call'[s].minted)
      BY DEF RotatesToOwn
  <2>1. CASE s # r BY <1>2, <2>1 DEF ForkInv, RotatesToOwn
  <2>2. CASE s = r
    <3>1. inner[r].pre_cycle_id # NoId => inner[r].id \in MintedBy(r, m)
          BY DEF ForkInv, RotatesToOwn, m
    <3> QED BY <1>3, <1>4, <2>2, <3>1 DEF Ordinary, n
  <2> QED BY <2>1, <2>2
<1>13. SavesFresh' BY <1>2 DEF ForkInv, SavesFresh, Ordinary
<1>14. Vacated' BY <1>2 DEF ForkInv, Vacated, Ordinary
<1>15. OneMover' BY <1>2 DEF ForkInv, OneMover, Ordinary
<1>16. NoFork' BY DEF ForkInv, NoFork, Ordinary
<1> QED BY <1>7, <1>8, <1>10, <1>11, <1>12, <1>13, <1>14, <1>15, <1>16 DEF ForkInv

-----------------------------------------------------------------------------
(* The steps that do store, or are about to. *)

(* What a request knows is not what another one minted. *)
LEMMA Foreign ==
    ASSUME ForkInv, NEW r \in Requests, NEW s \in Requests, r # s,
           NEW x \in MintedBy(r, call[r].minted), x \notin issued
    PROVE  inner[s].id # x /\ inner[s].pre_cycle_id # x
<1>1. call[r].minted \in Nat /\ call[s].minted \in Nat BY MintedNat DEF ForkInv
<1>2. x \notin MintedBy(s, call[s].minted) BY <1>1, Apart
<1>3. x # NoId
  <2>1. x \in Ids BY <1>1, MintedNat, Minting DEF ForkInv
  <2> QED BY <2>1, NoIdFact
<1> QED BY <1>2, <1>3 DEF ForkInv, Origins

(* A request whose session takes its place in the store, under id x. *)
LEMMA OthersUnused ==
    ASSUME ForkInv, NEW r \in Requests, pc[r] \notin Finished,
           NEW x \in MintedBy(r, call[r].minted), NEW row, NEW a \in Ids,
           a = x \/ a \in issued \/ a \in MintedBy(r, call[r].minted),
           store' = [store EXCEPT ![x] = row],
           \/ line' = line
           \/ line' = [line EXCEPT ![x] = line[a]],
           issued' = issued \/ issued' = issued \cup {x},
           NEW y \in Ids, y \notin MintedBy(r, call[r].minted), 
           Unused(store, issued, line, y)
    PROVE  Unused(store', issued', line', y)
<1>1. x \in Ids BY MintedNat, Minting DEF ForkInv
<1>2. x # y /\ a # y BY DEF Unused
<1>3. line[a] # y /\ line[x] # y BY <1>1, <1>2 DEF Unused
<1>4. store'[y] = NoRow BY <1>1, <1>2 DEF Unused, ForkInv, Typed, TypeOK
<1>5. y \notin issued' BY <1>2 DEF Unused
<1>6. \A i \in Ids : line'[i] = y <=> i = y
      BY <1>1, <1>2, <1>3 DEF Unused, ForkInv, Typed, TypeOK
<1> QED BY <1>4, <1>5, <1>6 DEF Unused

(* The knowledge part of the invariant, when a row is stored under x. *)
LEMMA StoringStep ==
    ASSUME ForkInv, Typed', NEW r \in Requests, pc[r] \notin Finished, pc'[r] \notin Before,
           inner[r].id \in MintedBy(r, call[r].minted), NEW row, NEW a \in Ids,
           a = inner[r].id \/ a \in issued \/ a \in MintedBy(r, call[r].minted),
           store' = [store EXCEPT ![inner[r].id] = row],
           \/ line' = line
           \/ line' = [line EXCEPT ![inner[r].id] = line[a]],
           \/ issued' = issued
           \/ issued' = issued \cup {inner[r].id} /\ pc'[r] \in Finished,
           UNCHANGED <<inner, call>>, \A s \in Requests \ {r} : pc'[s] = pc[s]
    PROVE  Origins' /\ NotSent' /\ Unspent' /\ Unstored' /\ RotatesToOwn' /\ SavesFresh'
<1> DEFINE m == call[r].minted
           x == inner[r].id
<1>1. \A s \in Requests : call[s].minted \in Nat /\ call[s].minted <= MaxMint
      BY MintedNat DEF ForkInv
<1>2. Origins' BY DEF ForkInv, Origins
<1>3. NotSent'
  <2> SUFFICES ASSUME NEW s \in Requests, pc'[s] \notin Finished, NEW y \in MintedBy(s, MaxMint)
               PROVE  y \notin issued'
      BY DEF NotSent
  <2>1. y \notin issued BY DEF ForkInv, NotSent
  <2>2. s # r => y # x BY <1>1, LayerAssumption, Apart
  <2> QED BY <2>1, <2>2
<1>4. Unspent'
  <2> SUFFICES ASSUME NEW s \in Requests, NEW y \in NotYet(s, call[s].minted)
               PROVE  Unused(store', issued', line', y)
      BY DEF Unspent
  <2>1. Unused(store, issued, line, y) BY DEF ForkInv, Unspent
  <2>2. y \notin MintedBy(r, m) BY <1>1, Apart
  <2>3. y \in Ids BY <1>1, Minting
  <2> QED BY <2>1, <2>2, <2>3, OthersUnused
<1>5. Unstored'
  <2> SUFFICES ASSUME NEW s \in Requests, pc'[s] \in Before, inner[s].loaded = NoRow
               PROVE  /\ row_id(inner[s]) \in MintedBy(s, call[s].minted)
                      /\ Unused(store', issued', line', row_id(inner[s]))
      BY DEF Unstored
  <2>1. s # r /\ pc[s] \in Before OBVIOUS
  <2> DEFINE y == row_id(inner[s])
  <2>2. y \in MintedBy(s, call[s].minted) /\ Unused(store, issued, line, y)
        BY <2>1 DEF ForkInv, Unstored
  <2> HIDE DEF y
  <2>3. y \notin MintedBy(r, m) BY <1>1, <2>1, <2>2, Apart
  <2>4. y \in Ids BY <1>1, <2>2, Minting
  <2>5. Unused(store', issued', line', y) BY <2>2, <2>3, <2>4, OthersUnused
  <2> QED BY <2>2, <2>5 DEF y
<1>6. RotatesToOwn' BY DEF ForkInv, RotatesToOwn
<1>7. SavesFresh' BY DEF ForkInv, SavesFresh, Before
<1> QED BY <1>2, <1>3, <1>4, <1>5, <1>6, <1>7

(* A fresh session begins a line of its own. *)
LEMMA SaveFreshForks ==
    ASSUME ForkInv, Typed', NEW r \in Requests, SaveFresh(r)
    PROVE  ForkInv'
<1> DEFINE x == inner[r].id
<1>0. /\ pc[r] = "save" /\ inner[r].loaded = NoRow /\ inner[r].pre_cycle_id = NoId
      BY RequestFields DEF SaveFresh, ForkInv, SavesFresh, LocalsOf
<1>1. CASE save(x, inner[r].data) /\ SendCookie(r)
  <2>1. x \in MintedBy(r, call[r].minted) /\ Unused(store, issued, line, x)
        BY <1>0 DEF ForkInv, Unstored, Before, row_id
  <2>2. x \in Ids BY <2>1, MintedNat, Minting DEF ForkInv
  <2>3. /\ store' = [store EXCEPT ![x] = inner[r].data] /\ issued' = issued \cup {x}
        /\ pc' = [pc EXCEPT ![r] = "cookie"] /\ UNCHANGED <<inner, call, line>>
        BY <1>1 DEF SaveFresh, save, SendCookie, Goto, history
  <2>4. /\ pc'[r] = "cookie" /\ pc[r] \notin Finished
        /\ \A s \in Requests \ {r} : pc'[s] = pc[s]
        BY <1>0, <2>3 DEF ForkInv, Typed, TypeOK, Finished
  <2>5. Origins' /\ NotSent' /\ Unspent' /\ Unstored' /\ RotatesToOwn' /\ SavesFresh'
        BY <2>1, <2>2, <2>3, <2>4, StoringStep DEF Before, Finished
  <2>6. \A i \in Ids \ {x} : store'[i] = store[i] /\ line[i] # x
        BY <2>1, <2>2, <2>3 DEF Unused, ForkInv, Typed, TypeOK
  <2>7. line[x] = x BY <2>1, <2>2 DEF Unused
  <2>8. NoFork' BY <2>3, <2>6, <2>7 DEF ForkInv, NoFork
  <2>9. \A s \in Requests : pc'[s] = "move" => s # r /\ pc[s] = "move" BY <2>4
  <2>10. ASSUME NEW s \in Requests, pc'[s] = "move"
         PROVE  line[inner[s].pre_cycle_id] # x
    <3>1. inner[s].pre_cycle_id # x BY <2>1, <2>9, <2>10, Foreign DEF Unused
    <3>2. inner[s].pre_cycle_id \in Ids
          BY <2>9, <2>10, ActiveFields DEF ForkInv, Cycling
    <3> QED BY <2>1, <3>1, <3>2 DEF Unused
  <2>11. Vacated' BY <2>3, <2>6, <2>7, <2>9, <2>10 DEF ForkInv, Vacated
  <2>12. OneMover' BY <2>3, <2>9 DEF ForkInv, OneMover
  <2> QED BY <2>5, <2>8, <2>11, <2>12 DEF ForkInv
<1>2. CASE Goto(r, "nocookie") /\ UNCHANGED <<store, issued>>
  <2>1. Ordinary(r)
        BY <1>0, <1>2 DEF Ordinary, SaveFresh, Goto, history, Finished, Before, ForkInv,
                          Typed, TypeOK, Call
  <2> QED BY <2>1, OrdinaryStep
<1> QED BY <1>1, <1>2 DEF SaveFresh

(* A moved row continues a line that has no other. *)
LEMMA CycleSaveForks ==
    ASSUME ForkInv, Typed', NEW r \in Requests, CycleSave(r)
    PROVE  ForkInv'
<1> DEFINE x == inner[r].id
           a == inner[r].pre_cycle_id
<1>0. pc[r] = "move" /\ a # NoId /\ a \in Ids /\ pc[r] \notin Finished /\ x # NoId
      BY RequestFields, ActiveFields DEF CycleSave, ForkInv, LocalsOf, Cycling, Finished
<1>1. CASE /\ save(x, inner[r].data) /\ line' = [line EXCEPT ![x] = line[a]]
           /\ IF is_authenticated(inner[r].data.auth)
              THEN Goto(r, "liveold") /\ UNCHANGED issued
              ELSE SendCookie(r)
  <2>1. x \in MintedBy(r, call[r].minted) BY <1>0 DEF ForkInv, RotatesToOwn
  <2>2. x \in MintedBy(r, MaxMint) /\ x \in Ids
        BY <2>1, MintedNat, Minting DEF ForkInv
  <2>3. x \notin issued BY <1>0, <2>2 DEF ForkInv, NotSent
  <2>4. a \in issued \/ a \in MintedBy(r, call[r].minted)
        BY <1>0 DEF ForkInv, Origins
  <2>5. /\ store' = [store EXCEPT ![x] = inner[r].data] /\ UNCHANGED <<inner, call>>
        /\ \/ issued' = issued /\ pc' = [pc EXCEPT ![r] = "liveold"]
           \/ issued' = issued \cup {x} /\ pc' = [pc EXCEPT ![r] = "cookie"]
        BY <1>1 DEF CycleSave, save, SendCookie, Goto
  <2>6. /\ pc'[r] \in {"liveold", "cookie"} /\ \A s \in Requests \ {r} : pc'[s] = pc[s]
        /\ issued' = issued \/ (issued' = issued \cup {x} /\ pc'[r] \in Finished)
        BY <2>5 DEF ForkInv, Typed, TypeOK, Finished
  <2>7. Origins' /\ NotSent' /\ Unspent' /\ Unstored' /\ RotatesToOwn' /\ SavesFresh'
    <3>1. pc'[r] \notin Before BY <2>6 DEF Before
    <3> QED BY <1>0, <1>1, <2>1, <2>4, <2>5, <2>6, <3>1, StoringStep
  <2>8. /\ \A i \in Ids \ {x} : store'[i] = store[i] /\ line'[i] = line[i]
        /\ line'[x] = line[a]
        BY <1>1, <2>2, <2>5 DEF ForkInv, Typed, TypeOK
  <2>9. \A i \in Ids : store[i] # NoRow => line[i] # line[a]
        BY <1>0 DEF ForkInv, Vacated
  <2>10. NoFork' BY <2>8, <2>9 DEF ForkInv, NoFork
  <2>11. \A s \in Requests : pc'[s] = "move" => s # r /\ pc[s] = "move" BY <2>6
  <2>12. ASSUME NEW s \in Requests, pc'[s] = "move"
         PROVE  /\ line'[inner[s].pre_cycle_id] = line[inner[s].pre_cycle_id]
                /\ line[inner[s].pre_cycle_id] # line[a]
    <3>1. inner[s].pre_cycle_id # x BY <2>1, <2>3, <2>11, <2>12, Foreign
    <3>2. inner[s].pre_cycle_id \in Ids
          BY <2>11, <2>12, ActiveFields DEF ForkInv, Cycling
    <3> QED BY <1>0, <2>8, <2>11, <2>12, <3>1, <3>2 DEF ForkInv, OneMover
  <2>13. Vacated'
    <3> SUFFICES ASSUME NEW s \in Requests, pc'[s] = "move", NEW i \in Ids, store'[i] # NoRow
                 PROVE  line'[i] # line'[inner'[s].pre_cycle_id]
        BY DEF Vacated
    <3>1. inner'[s] = inner[s] BY <2>5
    <3>2. CASE i = x BY <2>8, <2>12, <3>1, <3>2
    <3>3. CASE i # x BY <2>8, <2>11, <2>12, <3>1, <3>3 DEF ForkInv, Vacated
    <3> QED BY <3>2, <3>3
  <2>14. OneMover' BY <2>5, <2>11, <2>12 DEF ForkInv, OneMover
  <2> QED BY <2>7, <2>10, <2>13, <2>14 DEF ForkInv
<1>2. CASE Goto(r, "failclosed") /\ UNCHANGED <<store, line, issued>>
  <2>1. Ordinary(r)
        BY <1>0, <1>2 DEF Ordinary, CycleSave, Goto, Before, ForkInv, Typed, TypeOK, Call
  <2> QED BY <2>1, OrdinaryStep
<1> QED BY <1>1, <1>2 DEF CycleSave

(* The row a rotation removes was the only one of its line. *)
LEMMA RemovingStep ==
    ASSUME ForkInv, Typed', NEW r \in Requests, pc[r] = "remove",
           existing(r) => store[inner[r].pre_cycle_id] # NoRow,
           delete(inner[r].pre_cycle_id), pc' = [pc EXCEPT ![r] = "move"],
           UNCHANGED <<issued, inner, call, line>>
    PROVE  ForkInv'
<1> DEFINE a == inner[r].pre_cycle_id
<1>0. a # NoId /\ a \in Ids BY RequestFields, ActiveFields DEF ForkInv, LocalsOf, Cycling
<1>1. pc'[r] = "move" /\ \A s \in Requests \ {r} : pc'[s] = pc[s]
      BY DEF ForkInv, Typed, TypeOK
<1>2. store'[a] = NoRow /\ \A i \in Ids \ {a} : store'[i] = store[i]
      BY <1>0 DEF delete, ForkInv, Typed, TypeOK
<1>3. Origins' /\ RotatesToOwn' /\ SavesFresh'
      BY <1>1 DEF ForkInv, Origins, RotatesToOwn, SavesFresh
<1>4. NotSent' BY <1>1 DEF ForkInv, NotSent, Finished
<1>5. \A s \in Requests : call[s].minted \in Nat /\ call[s].minted <= MaxMint
      BY MintedNat DEF ForkInv
<1>6. \A x \in Ids : Unused(store, issued, line, x) => Unused(store', issued', line', x)
      BY <1>2, StaysUnused DEF Unused
<1>7. Unspent'
  <2>1. \A s \in Requests : \A x \in NotYet(s, call[s].minted) : x \in Ids
        BY <1>5, Minting
  <2> QED BY <1>6, <2>1 DEF ForkInv, Unspent
<1>8. Unstored'
  <2> SUFFICES ASSUME NEW s \in Requests, pc'[s] \in Before, inner[s].loaded = NoRow
               PROVE  /\ row_id(inner[s]) \in MintedBy(s, call[s].minted)
                      /\ Unused(store', issued', line', row_id(inner[s]))
      BY DEF Unstored
  <2>1. pc[s] \in Before BY <1>1 DEF Before
  <2>2. /\ row_id(inner[s]) \in MintedBy(s, call[s].minted)
        /\ Unused(store, issued, line, row_id(inner[s]))
        BY <2>1 DEF ForkInv, Unstored
  <2>3. row_id(inner[s]) \in Ids BY <1>5, <2>2, Minting
  <2> QED BY <1>6, <2>2, <2>3
<1>9. NoFork' BY <1>2 DEF ForkInv, NoFork
<1>10. /\ \A i \in Ids : store'[i] # NoRow => line[i] # line[a]
       /\ \A s \in Requests \ {r} : pc[s] = "move" => line[inner[s].pre_cycle_id] # line[a]
  <2>1. CASE existing(r)
    <3>1. store[a] # NoRow BY <2>1
    <3> QED BY <1>0, <1>2, <3>1 DEF ForkInv, NoFork, Vacated
  <2>2. CASE ~existing(r)
    <3>1. row_id(inner[r]) = a /\ inner[r].loaded = NoRow
          BY <1>0, <2>2 DEF row_id, existing
    <3>2. a \in MintedBy(r, call[r].minted) /\ Unused(store, issued, line, a)
          BY <3>1 DEF ForkInv, Unstored, Before
    <3>3. line[a] = a BY <1>0, <3>2 DEF Unused
    <3>4. \A i \in Ids : store'[i] # NoRow => line[i] # line[a]
          BY <1>0, <1>2, <3>2, <3>3 DEF Unused
    <3>5. ASSUME NEW s \in Requests \ {r}, pc[s] = "move"
          PROVE  line[inner[s].pre_cycle_id] # line[a]
      <4>1. inner[s].pre_cycle_id # a BY <3>2, <3>5, Foreign DEF Unused
      <4>2. inner[s].pre_cycle_id \in Ids BY <3>5, ActiveFields DEF ForkInv, Cycling
      <4> QED BY <3>2, <3>3, <4>1, <4>2 DEF Unused
    <3> QED BY <3>4, <3>5
  <2> QED BY <2>1, <2>2
<1>11. Vacated' BY <1>1, <1>2, <1>10 DEF ForkInv, Vacated
<1>12. OneMover' BY <1>1, <1>10 DEF ForkInv, OneMover
<1> QED BY <1>3, <1>4, <1>7, <1>8, <1>9, <1>11, <1>12 DEF ForkInv

LEMMA CycleRemoveForks ==
    ASSUME ForkInv, Typed', NEW r \in Requests, CycleRemove(r)
    PROVE  ForkInv'
<1>0. pc[r] = "remove" /\ UNCHANGED <<issued, call, line>> BY DEF CycleRemove, history
<1>1. CASE /\ existing(r) => store[inner[r].pre_cycle_id] # NoRow
           /\ delete(inner[r].pre_cycle_id) /\ Goto(r, "move") /\ UNCHANGED inner
      BY <1>0, <1>1, RemovingStep DEF Goto
<1>2. CASE existing(r) /\ CycleGone(r) /\ UNCHANGED store
  <2> DEFINE q == [inner[r] EXCEPT !.data = DefaultData]
  <2>1. /\ q.id = inner[r].id /\ q.pre_cycle_id = inner[r].pre_cycle_id
        /\ q.loaded = inner[r].loaded
        BY RequestFields, DefaultType, SetDataType DEF ForkInv
  <2>2. inner' = [inner EXCEPT ![r] = q] /\ pc' = [pc EXCEPT ![r] = "nocookie"]
        BY <1>2 DEF CycleGone, SetInner, Goto
  <2> HIDE DEF q
  <2>3. Ordinary(r)
        BY <1>0, <1>2, <2>1, <2>2
        DEF Ordinary, Before, Finished, ForkInv, Typed, TypeOK, Call
  <2> QED BY <2>3, OrdinaryStep
<1>3. CASE existing(r) /\ CycleConflict(r) /\ UNCHANGED store
  <2>1. /\ UNCHANGED inner
        /\ pc' = [pc EXCEPT ![r] = "failclosed"] \/ pc' = [pc EXCEPT ![r] = "merge"]
        BY <1>3 DEF CycleConflict, Goto
  <2>2. Ordinary(r)
        BY <1>0, <1>3, <2>1 DEF Ordinary, Before, Finished, ForkInv, Typed, TypeOK, Call
  <2> QED BY <2>2, OrdinaryStep
<1>4. CASE Goto(r, "failclosed") /\ UNCHANGED <<store, inner, work>>
  <2>1. Ordinary(r)
        BY <1>0, <1>4 DEF Ordinary, Goto, Before, Finished, ForkInv, Typed, TypeOK, Call
  <2> QED BY <2>1, OrdinaryStep
<1> QED BY <1>1, <1>2, <1>3, <1>4 DEF CycleRemove

(* Rows that go, by an administrator or by their TTL. *)
LEMMA DeletingForks ==
    ASSUME ForkInv, Typed', UNCHANGED <<issued, pc, inner, call, line>>,
           \A i \in Ids : store'[i] # NoRow => store[i] # NoRow
    PROVE  ForkInv'
<1>1. \A s \in Requests : call[s].minted \in Nat /\ call[s].minted <= MaxMint
      BY MintedNat DEF ForkInv
<1>2. \A x \in Ids : Unused(store, issued, line, x) => Unused(store', issued', line', x)
      BY StaysUnused DEF Unused
<1>3. Origins' /\ NotSent' /\ RotatesToOwn' /\ SavesFresh'
      BY DEF ForkInv, Origins, NotSent, RotatesToOwn, SavesFresh
<1>4. Unspent'
  <2>1. \A s \in Requests : \A x \in NotYet(s, call[s].minted) : x \in Ids
        BY <1>1, Minting
  <2> QED BY <1>2, <2>1 DEF ForkInv, Unspent
<1>5. Unstored'
  <2>1. \A s \in Requests : \A x \in MintedBy(s, call[s].minted) : x \in Ids
        BY <1>1, Minting
  <2> QED BY <1>2, <2>1 DEF ForkInv, Unstored
<1>6. Vacated' /\ OneMover' /\ NoFork' BY DEF ForkInv, Vacated, OneMover, NoFork
<1> QED BY <1>3, <1>4, <1>5, <1>6 DEF ForkInv

-----------------------------------------------------------------------------
(* Every other action is an ordinary step. *)

(* A step that leaves the request's session as it is. *)
LEMMA IdleStep ==
    ASSUME Typed, NEW r \in Requests, pc[r] \notin Finished, NEW l,
           l \notin Before \cup {"move"}, pc' = [pc EXCEPT ![r] = l],
           \A i \in Ids : store'[i] # NoRow => store[i] # NoRow,
           UNCHANGED <<call, line>>,
           inner'[r].id = inner[r].id, inner'[r].pre_cycle_id = inner[r].pre_cycle_id,
           \A s \in Requests \ {r} : inner'[s] = inner[s],
           \/ issued' = issued
           \/ l \in Finished /\ issued' = issued \cup {inner[r].id} /\ inner[r].id # NoId
    PROVE  Ordinary(r)
<1>1. pc'[r] = l /\ \A s \in Requests \ {r} : pc'[s] = pc[s] BY DEF Typed, TypeOK
<1>2. call[r].minted <= call'[r].minted BY MintedNat
<1>3. l # "save" BY DEF Before
<1> QED BY <1>1, <1>2, <1>3 DEF Ordinary

LEMMA SettlingOrdinary ==
    ASSUME Typed, NEW r \in Requests,
           \/ LiveOld(r) \/ RegisterNew(r) \/ RereadOld(r) \/ InvalidateOld(r)
           \/ LiveNew(r) \/ EndRevoked(r) \/ EndUntracked(r)
    PROVE  Ordinary(r)
<1>1. pc[r] \in Settling /\ UNCHANGED <<inner, call, line>>
      BY DEF LiveOld, RegisterNew, RereadOld, InvalidateOld, LiveNew, EndRevoked,
             EndUntracked, Settling, history
<1>2. inner[r].id # NoId BY <1>1, RequestFields DEF LocalsOf, Settling
<1>3. \A i \in Ids : store'[i] # NoRow => store[i] # NoRow
      BY DEF LiveOld, RegisterNew, RereadOld, InvalidateOld, LiveNew, EndRevoked,
             EndUntracked, shared, try_delete, delete, Typed, TypeOK
<1>4. PICK l \in Settling \cup {"cookie", "ended"} :
        /\ pc' = [pc EXCEPT ![r] = l]
        /\ issued' = issued \/ (l = "cookie" /\ issued' = issued \cup {inner[r].id})
      BY DEF LiveOld, RegisterNew, RereadOld, InvalidateOld, LiveNew, EndRevoked,
             EndUntracked, shared, OnUntracked, SendCookie, Goto, Settling
<1>5. pc[r] \notin Finished /\ l \notin Before \cup {"move"} /\ "cookie" \in Finished
      BY <1>1 DEF Settling, Finished, Before
<1> QED BY <1>1, <1>2, <1>3, <1>4, <1>5, IdleStep

LEMMA FailClosedOrdinary ==
    ASSUME Typed, NEW r \in Requests, FailClosed(r) PROVE Ordinary(r)
<1> DEFINE q == [inner[r] EXCEPT !.data = DefaultData]
<1>0. /\ pc[r] = "failclosed" /\ UNCHANGED <<call, line>>
      /\ pc' = [pc EXCEPT ![r] = "closed"] /\ inner' = [inner EXCEPT ![r] = q]
      /\ issued' = issued \cup {inner[r].id}
      BY DEF FailClosed, history, Goto, SetInner
<1>1. q.id = inner[r].id /\ q.pre_cycle_id = inner[r].pre_cycle_id
      BY RequestFields, DefaultType, SetDataType
<1> HIDE DEF q
<1>2. inner'[r] = q /\ \A s \in Requests \ {r} : inner'[s] = inner[s]
      BY <1>0 DEF Typed, TypeOK
<1>3. \A i \in Ids : store'[i] # NoRow => store[i] # NoRow
      BY DEF FailClosed, try_delete, delete, Typed, TypeOK
<1>4. inner[r].id # NoId BY <1>0, RequestFields DEF LocalsOf
<1>5. /\ pc[r] \notin Finished /\ "closed" \in Finished
      /\ "closed" \notin Before \cup {"move"}
      BY <1>0 DEF Finished, Before
<1> QED BY <1>0, <1>1, <1>2, <1>3, <1>4, <1>5, IdleStep

(* The ends of a swap and of a touch. *)
LEMMA SwapEndsOrdinary ==
    ASSUME Typed, NEW r \in Requests, pc[r] \in {"swap", "swapload", "touch"},
           \/ (SwapGone(r) \/ SwapFailed(r)) /\ UNCHANGED issued
           \/ SwapWritten(r),
           \A i \in Ids : store'[i] # NoRow => store[i] # NoRow,
           UNCHANGED <<call, line>>
    PROVE  Ordinary(r)
<1> DEFINE q == inner[r]
           w == work[r]
           m == merge_rotating(q.loaded, q.data, w.next)
           d == IF w.key # NoKey /\ q.pre_cycle_id # NoId THEN m ELSE w.next
           p == [q EXCEPT !.data = DefaultData]
           o == [q EXCEPT !.data = d, !.loaded = w.next]
<1>1. /\ q \in Inner /\ q.id # NoId /\ w.next \in Data
      /\ q.loaded # NoRow
      BY RequestFields, WorkFields DEF LocalsOf
<1>2. p.id = q.id /\ p.pre_cycle_id = q.pre_cycle_id /\ p.loaded = q.loaded
      BY <1>1, DefaultType, SetDataType
<1>3. \/ inner' = inner
      \/ inner' = [inner EXCEPT ![r] = p]
      \/ inner' = [inner EXCEPT ![r] = o]
      BY DEF SwapGone, SwapFailed, SwapWritten, SetInner
<1>4. \/ pc' = [pc EXCEPT ![r] = "cookie"] /\ issued' = issued \cup {q.id}
      \/ pc' = [pc EXCEPT ![r] = "nocookie"] /\ issued' = issued
      \/ pc' = [pc EXCEPT ![r] = "handler"] /\ issued' = issued /\ w.key # NoKey
      BY DEF SwapGone, SwapFailed, SwapWritten, SendCookie, Goto
<1> HIDE DEF d, p
<1>5. o.id = q.id /\ o.pre_cycle_id = q.pre_cycle_id /\ o.loaded = w.next
      BY <1>1 DEF Inner
<1> HIDE DEF o
<1>6. /\ inner'[r].id = q.id /\ inner'[r].pre_cycle_id = q.pre_cycle_id
      /\ inner'[r].loaded # NoRow
      /\ \A s \in Requests \ {r} : inner'[s] = inner[s]
      BY <1>1, <1>2, <1>3, <1>5, LayerAssumption DEF Typed, TypeOK
<1>7. pc[r] \notin Finished BY DEF Finished
<1>8. CASE pc' = [pc EXCEPT ![r] = "cookie"] /\ issued' = issued \cup {q.id}
      BY <1>1, <1>6, <1>7, <1>8, IdleStep DEF Finished, Before
<1>9. CASE pc' = [pc EXCEPT ![r] = "nocookie"] /\ issued' = issued
      BY <1>6, <1>7, <1>9, IdleStep DEF Before
<1>10. CASE pc' = [pc EXCEPT ![r] = "handler"] /\ issued' = issued /\ w.key # NoKey
  <2>1. pc'[r] = "handler" /\ \A s \in Requests \ {r} : pc'[s] = pc[s]
        BY <1>10 DEF Typed, TypeOK
  <2>2. inner'[r].loaded # NoRow BY <1>6, <1>10
  <2>3. call[r].minted <= call'[r].minted BY MintedNat
  <2> QED BY <1>6, <1>7, <1>10, <2>1, <2>2, <2>3 DEF Ordinary
<1> QED BY <1>4, <1>8, <1>9, <1>10

LEMMA SwapTryOrdinary ==
    ASSUME Typed, NEW r \in Requests, SwapTry(r) PROVE Ordinary(r)
<1>0. pc[r] = "swap" /\ UNCHANGED <<call, line>> BY DEF SwapTry
<1>1. row_id(inner[r]) \in Ids BY <1>0, ActiveFields
<1>2. \A i \in Ids : store'[i] # NoRow => store[i] # NoRow
      BY <1>1 DEF SwapTry, save, Typed, TypeOK
<1>3. CASE (SwapGone(r) \/ SwapFailed(r)) /\ UNCHANGED issued
      BY <1>0, <1>2, <1>3, SwapEndsOrdinary
<1>4. CASE SwapWritten(r)
      BY <1>0, <1>2, <1>4, SwapEndsOrdinary
<1>5. CASE Goto(r, "swapload") /\ UNCHANGED <<inner, issued>>
      BY <1>0, <1>2, <1>5, IdleStep DEF Goto, Finished, Before
<1> QED BY <1>3, <1>4, <1>5 DEF SwapTry

LEMMA SwapLoadOrdinary ==
    ASSUME Typed, NEW r \in Requests, SwapLoad(r) PROVE Ordinary(r)
<1>0. pc[r] = "swapload" /\ UNCHANGED <<store, issued, call, line>>
      BY DEF SwapLoad, shared, history
<1>1. CASE SwapGone(r) \/ SwapFailed(r)
      BY <1>0, <1>1, SwapEndsOrdinary
<1>2. CASE Goto(r, "swap") /\ UNCHANGED inner
      BY <1>0, <1>2, IdleStep DEF Goto, Finished, Before
<1> QED BY <1>1, <1>2 DEF SwapLoad

LEMMA CycleMergeOrdinary ==
    ASSUME Typed, NEW r \in Requests, CycleMerge(r) PROVE Ordinary(r)
<1> DEFINE q == inner[r]
           fresh == store[q.pre_cycle_id]
           d == [capped(merge_rotating(q.loaded, q.data, fresh)) EXCEPT !.revision = fresh.revision + 1]
           p == [q EXCEPT !.loaded = fresh, !.data = d]
<1>0. /\ pc[r] = "merge" /\ UNCHANGED <<store, issued, call, line>>
      BY DEF CycleMerge, shared, history
<1>1. q \in Inner /\ q.loaded # NoRow BY <1>0, RequestFields DEF LocalsOf
<1>2. \/ UNCHANGED inner
      \/ inner' = [inner EXCEPT ![r] = p] /\ fresh # NoRow
      BY DEF CycleMerge, SetInner
<1>3. pc' = [pc EXCEPT ![r] = "remove"] \/ pc' = [pc EXCEPT ![r] = "failclosed"]
      BY DEF CycleMerge, Goto
<1> HIDE DEF d
<1>4. p.id = q.id /\ p.pre_cycle_id = q.pre_cycle_id /\ p.loaded = fresh
      BY <1>1 DEF Inner
<1> HIDE DEF p
<1>5. /\ inner'[r].id = q.id /\ inner'[r].pre_cycle_id = q.pre_cycle_id
      /\ inner'[r].loaded # NoRow
      /\ \A s \in Requests \ {r} : inner'[s] = inner[s]
      BY <1>1, <1>2, <1>4 DEF Typed, TypeOK
<1>6. /\ pc'[r] \in {"remove", "failclosed"} /\ \A s \in Requests \ {r} : pc'[s] = pc[s]
      BY <1>3 DEF Typed, TypeOK
<1>7. call[r].minted <= call'[r].minted BY <1>0, MintedNat
<1> QED BY <1>0, <1>5, <1>6, <1>7 DEF Ordinary, Finished

LEMMA TouchOrdinary ==
    ASSUME Typed, NEW r \in Requests, Touch(r) PROVE Ordinary(r)
<1>0. pc[r] = "touch" /\ UNCHANGED <<call, line>> BY DEF Touch, history
<1>1. inner[r].id \in Ids /\ inner[r].id # NoId BY <1>0, ActiveFields, NoIdFact
<1>2. \A i \in Ids : store'[i] # NoRow => store[i] # NoRow
      BY <1>1 DEF Touch, save, Typed, TypeOK
<1>3. CASE SendCookie(r) /\ UNCHANGED inner
      BY <1>0, <1>1, <1>2, <1>3, IdleStep DEF SendCookie, Goto, Finished, Before
<1>4. CASE (SwapGone(r) \/ SwapFailed(r)) /\ UNCHANGED issued
      BY <1>0, <1>2, <1>4, SwapEndsOrdinary
<1> QED BY <1>3, <1>4 DEF Touch

LEMMA CountedStep ==
    ASSUME Typed, NEW r \in Requests, NEW op, NEW k, NEW n \in {0, 1, 2},
           Called(r, op, k, n) \/ Mint(r, n)
    PROVE  /\ call'[r].minted = call[r].minted + n
           /\ \A s \in Requests \ {r} : call'[s] = call[s]
<1> DEFINE c == call[r]
           m == c.minted + n
           d == [client |-> c.client, ops |-> c.ops \cup {<<op, k>>}, minted |-> m]
           e == [c EXCEPT !.minted = m]
<1>1. c \in Call BY RequestFields
<1>2. \/ call' = [call EXCEPT ![r] = d]
      \/ call' = [call EXCEPT ![r] = e]
  <2>1. ASSUME Called(r, op, k, n) PROVE call' = [call EXCEPT ![r] = d]
        BY <2>1 DEF Called
  <2>2. ASSUME Mint(r, n) PROVE call' = [call EXCEPT ![r] = e]
        BY <2>2, <1>1 DEF Mint, Typed, TypeOK
  <2> QED BY <2>1, <2>2
<1> HIDE DEF m
<1>3. d.minted = m /\ e.minted = m BY <1>1 DEF Call
<1> HIDE DEF d, e
<1> QED BY <1>2, <1>3 DEF Typed, TypeOK, m

(* The handler changes what its session holds, not its ids. *)
LEMMA HeldOrdinary ==
    ASSUME Typed, NEW r \in Requests, pc[r] = "handler", NEW q,
           q.id = inner[r].id, q.pre_cycle_id = inner[r].pre_cycle_id,
           q.loaded = inner[r].loaded, inner' = [inner EXCEPT ![r] = q],
           NEW op, NEW k, Called(r, op, k, 0),
           \/ UNCHANGED pc
           \/ pc' = [pc EXCEPT ![r] = "swap"],
           UNCHANGED <<store, issued, line>>
    PROVE  Ordinary(r)
<1>1. inner'[r] = q /\ \A s \in Requests \ {r} : inner'[s] = inner[s]
      BY DEF Typed, TypeOK
<1>2. pc'[r] \in {"handler", "swap"} /\ \A s \in Requests \ {r} : pc'[s] = pc[s]
      BY DEF Typed, TypeOK
<1>3. /\ call'[r].minted = call[r].minted
      /\ \A s \in Requests \ {r} : call'[s] = call[s]
      BY CountedStep, MintedNat
<1>4. call[r].minted <= call'[r].minted BY <1>3, MintedNat
<1>5. row_id(q) = row_id(inner[r]) BY DEF row_id
<1> QED BY <1>1, <1>2, <1>3, <1>4, <1>5 DEF Ordinary, Finished, Before

(* The handler rotates the id: the row it will move is the same. *)
LEMMA RotationOrdinary ==
    ASSUME Typed, NEW r \in Requests, pc[r] \in {"handler", "register", "recheck"}, NEW q,
           NEW n \in {1, 2}, CanMint(r, n), q.id = Minted(r, n),
           q.pre_cycle_id = (IF inner[r].pre_cycle_id = NoId THEN inner[r].id
                             ELSE inner[r].pre_cycle_id),
           q.loaded = inner[r].loaded, inner' = [inner EXCEPT ![r] = q],
           NEW op, NEW k, Called(r, op, k, n) \/ Mint(r, n),
           NEW l \in {"handler", "register", "recheck"}, pc' = [pc EXCEPT ![r] = l],
           UNCHANGED <<store, issued, line>>
    PROVE  Ordinary(r)
<1>1. inner'[r] = q /\ \A s \in Requests \ {r} : inner'[s] = inner[s]
      BY DEF Typed, TypeOK
<1>2. pc'[r] = l /\ \A s \in Requests \ {r} : pc'[s] = pc[s]
      BY DEF Typed, TypeOK
<1>3. /\ call'[r].minted = call[r].minted + n
      /\ \A s \in Requests \ {r} : call'[s] = call[s]
      BY CountedStep
<1>4. call[r].minted \in Nat BY MintedNat
<1>5. call[r].minted <= call'[r].minted BY <1>3, <1>4
<1>6. Minted(r, n) \in MintedNow(r)
      BY <1>3, <1>4, LayerAssumption DEF MintedNow, MintedBy, NotYet, Minted, CanMint
<1>7. inner[r].id # NoId BY RequestFields DEF LocalsOf
<1>8. row_id(q) = row_id(inner[r]) BY <1>7 DEF row_id
<1> QED BY <1>1, <1>2, <1>3, <1>5, <1>6, <1>8 DEF Ordinary, Finished, Before

LEMMA BagOrdinary ==
    ASSUME Typed, NEW r \in Requests, pc[r] = "handler", NEW b \in Bag,
           \/ inner' = [inner EXCEPT ![r] = with_custom(inner[r], b)]
           \/ UNCHANGED inner,
           NEW op, NEW k, Called(r, op, k, 0), UNCHANGED <<store, issued, line, pc>>
    PROVE  Ordinary(r)
<1>1. CASE UNCHANGED inner
  <2>1. inner' = [inner EXCEPT ![r] = inner[r]] BY <1>1 DEF Typed, TypeOK
  <2> QED BY <2>1, HeldOrdinary
<1>2. CASE inner' = [inner EXCEPT ![r] = with_custom(inner[r], b)]
  <2> DEFINE q == with_custom(inner[r], b)
  <2>1. /\ q.id = inner[r].id /\ q.pre_cycle_id = inner[r].pre_cycle_id
        /\ q.loaded = inner[r].loaded
        BY HandlerFields, WithCustomType
  <2>2. inner' = [inner EXCEPT ![r] = q] BY <1>2
  <2> HIDE DEF q
  <2> QED BY <2>1, <2>2, HeldOrdinary
<1> QED BY <1>1, <1>2

LEMMA CustomOrdinary ==
    ASSUME Typed, NEW r \in Requests, SetCustom(r) \/ RemoveCustom(r) \/ ClearCustom(r)
    PROVE  Ordinary(r)
<1>0. pc[r] = "handler" /\ UNCHANGED <<store, issued, line, pc>>
      BY DEF SetCustom, RemoveCustom, ClearCustom, Handler, shared, history
<1>1. inner[r].data.custom \in Bag BY <1>0, HandlerFields
<1>2. CASE SetCustom(r)
  <2>1. PICK k \in Keys :
          /\ Called(r, "set", k, 0)
          /\ \/ SetInner(r, with_custom(inner[r], [inner[r].data.custom EXCEPT ![k] = r]))
             \/ UNCHANGED inner
        BY <1>2 DEF SetCustom
  <2> DEFINE b == [inner[r].data.custom EXCEPT ![k] = r]
  <2>2. b \in Bag BY <1>1, LayerAssumption DEF Bag
  <2>3. inner' = [inner EXCEPT ![r] = with_custom(inner[r], b)] \/ UNCHANGED inner
        BY <2>1 DEF SetInner
  <2> HIDE DEF b
  <2> QED BY <1>0, <2>1, <2>2, <2>3, BagOrdinary
<1>3. CASE RemoveCustom(r)
  <2>1. PICK k \in Keys :
          /\ Called(r, "remove", k, 0)
          /\ SetInner(r, with_custom(inner[r], [inner[r].data.custom EXCEPT ![k] = NoVal]))
        BY <1>3 DEF RemoveCustom
  <2> DEFINE b == [inner[r].data.custom EXCEPT ![k] = NoVal]
  <2>2. b \in Bag BY <1>1 DEF Bag
  <2>3. inner' = [inner EXCEPT ![r] = with_custom(inner[r], b)]
        BY <2>1 DEF SetInner
  <2> HIDE DEF b
  <2> QED BY <1>0, <2>1, <2>2, <2>3, BagOrdinary
<1>4. CASE ClearCustom(r)
  <2>1. /\ Called(r, "clear_custom", NoKey, 0)
        /\ inner' = [inner EXCEPT ![r] = with_custom(inner[r], EmptyBag)]
        BY <1>4 DEF ClearCustom, SetInner
  <2>2. EmptyBag \in Bag BY BagTypes
  <2> QED BY <1>0, <2>1, <2>2, BagOrdinary
<1> QED BY <1>2, <1>3, <1>4

LEMMA TakeOrdinary ==
    ASSUME Typed, NEW r \in Requests, Take(r) PROVE Ordinary(r)
<1>1. PICK k \in Keys :
        /\ Handler(r, "take", k) /\ Called(r, "take", k, 0)
        /\ SetInner(r, with_custom(inner[r], without(inner[r].data, k).custom))
        /\ Goto(r, "swap") \/ UNCHANGED pc
        /\ UNCHANGED <<store, issued, line>>
      BY DEF Take, shared
<1> DEFINE b == without(inner[r].data, k).custom
           q == with_custom(inner[r], b)
<1>2. pc[r] = "handler" BY <1>1 DEF Handler
<1>3. inner[r] \in Inner /\ b \in Bag BY <1>2, HandlerFields, DataTypes
<1>4. inner' = [inner EXCEPT ![r] = q] BY <1>1 DEF SetInner
<1> HIDE DEF b
<1>5. /\ q.id = inner[r].id /\ q.pre_cycle_id = inner[r].pre_cycle_id
      /\ q.loaded = inner[r].loaded
      BY <1>3, WithCustomType
<1> HIDE DEF q
<1> QED BY <1>1, <1>2, <1>4, <1>5, HeldOrdinary DEF Goto

LEMMA StepUpOrdinary ==
    ASSUME Typed, NEW r \in Requests, StepUp(r) PROVE Ordinary(r)
<1> DEFINE p == with_auth(inner[r], begin_step_up(inner[r].data.auth), inner[r].data.custom)
           q == with_custom(p, inner[r].data.custom)
<1>0. /\ pc[r] = "handler" /\ is_authenticated(inner[r].data.auth)
      /\ Called(r, "step_up", NoKey, 0) /\ inner' = [inner EXCEPT ![r] = q]
      /\ UNCHANGED <<pc, store, issued, line>>
      BY DEF StepUp, Handler, SetInner, shared, history
<1>1. /\ p \in Inner /\ p.id = inner[r].id /\ p.pre_cycle_id = inner[r].pre_cycle_id
      /\ p.loaded = inner[r].loaded
      BY <1>0, HandlerFields, AuthTypes, WithAuthType
<1> HIDE DEF p
<1>2. /\ q.id = inner[r].id /\ q.pre_cycle_id = inner[r].pre_cycle_id
      /\ q.loaded = inner[r].loaded
      BY <1>0, <1>1, HandlerFields, WithCustomType
<1> HIDE DEF q
<1> QED BY <1>0, <1>2, HeldOrdinary

(* A login, of whatever kind, is a rotation. *)
LEMMA LoginOrdinary ==
    ASSUME Typed, NEW r \in Requests, pc[r] = "handler", CanMint(r, 1),
           NEW a \in AuthState, Rotated(r, authenticated(inner[r], a, Minted(r, 1))),
           NEW op, Called(r, op, NoKey, 1), Goto(r, "register"),
           UNCHANGED <<store, issued, line>>
    PROVE  Ordinary(r)
<1> DEFINE q == authenticated(inner[r], a, Minted(r, 1))
<1>1. /\ q.id = Minted(r, 1) /\ q.loaded = inner[r].loaded
      /\ q.pre_cycle_id = (IF inner[r].pre_cycle_id = NoId THEN inner[r].id
                           ELSE inner[r].pre_cycle_id)
      BY HandlerFields, MintType, AuthenticatedType
<1>2. inner' = [inner EXCEPT ![r] = q] BY DEF Rotated, SetInner
<1> HIDE DEF q
<1> QED BY <1>1, <1>2, RotationOrdinary DEF Goto

LEMMA RegenerateOrdinary ==
    ASSUME Typed, NEW r \in Requests, Regenerate(r) PROVE Ordinary(r)
<1> DEFINE q == rotate_id(inner[r], Minted(r, 1))
<1>0. /\ pc[r] = "handler" /\ CanMint(r, 1) /\ Called(r, "regenerate", NoKey, 1)
      /\ inner' = [inner EXCEPT ![r] = q] /\ UNCHANGED <<pc, store, issued, line>>
      BY DEF Regenerate, Handler, Rotated, SetInner, shared
<1>1. /\ q.id = Minted(r, 1) /\ q.loaded = inner[r].loaded
      /\ q.pre_cycle_id = (IF inner[r].pre_cycle_id = NoId THEN inner[r].id
                           ELSE inner[r].pre_cycle_id)
      BY <1>0, HandlerFields, MintType, RotateType
<1>2. pc' = [pc EXCEPT ![r] = "handler"] BY <1>0, SameLabel
<1> HIDE DEF q
<1> QED BY <1>0, <1>1, <1>2, RotationOrdinary

LEMMA BeginLoginOrdinary ==
    ASSUME Typed, NEW r \in Requests, BeginLogin(r) PROVE Ordinary(r)
<1>1. PICK u \in Users :
        Rotated(r, bind_fingerprint(rotate_id(
            with_auth(inner[r], begin_authenticating(u), inner[r].data.custom), Minted(r, 1))))
      BY DEF BeginLogin
<1> DEFINE o == with_auth(inner[r], begin_authenticating(u), inner[r].data.custom)
           p == rotate_id(o, Minted(r, 1))
           q == bind_fingerprint(p)
<1>0. /\ pc[r] = "handler" /\ CanMint(r, 1) /\ Called(r, "begin", NoKey, 1)
      /\ UNCHANGED <<pc, store, issued, line>>
      BY DEF BeginLogin, Handler, shared
<1>2. inner' = [inner EXCEPT ![r] = q] BY <1>1 DEF Rotated, SetInner
<1>3. begin_authenticating(u) \in AuthState BY AuthTypes
<1>4. /\ o \in Inner /\ o.id = inner[r].id /\ o.pre_cycle_id = inner[r].pre_cycle_id
      /\ o.loaded = inner[r].loaded
      BY <1>0, <1>3, HandlerFields, WithAuthType
<1>5. Minted(r, 1) \in Ids BY <1>0, MintType
<1> HIDE DEF o
<1>6. /\ p \in Inner /\ p.id = Minted(r, 1) /\ p.loaded = inner[r].loaded
      /\ p.pre_cycle_id = (IF inner[r].pre_cycle_id = NoId THEN inner[r].id
                           ELSE inner[r].pre_cycle_id)
      BY <1>4, <1>5, RotateType
<1> HIDE DEF p
<1>7. q.id = p.id /\ q.pre_cycle_id = p.pre_cycle_id /\ q.loaded = p.loaded
      BY <1>6, BindType
<1>8. pc' = [pc EXCEPT ![r] = "handler"] BY <1>0, SameLabel
<1> HIDE DEF q
<1> QED BY <1>0, <1>2, <1>6, <1>7, <1>8, RotationOrdinary

LEMMA CompleteFactorOrdinary ==
    ASSUME Typed, NEW r \in Requests, CompleteFactor(r) PROVE Ordinary(r)
<1> DEFINE auth == inner[r].data.auth
           a == IF auth.kind = "StepUp" THEN finish_step_up(auth)
                ELSE set_authenticated(auth.user, r)
<1>0. /\ pc[r] = "handler" /\ CanMint(r, 1) /\ Called(r, "factor", NoKey, 1)
      /\ auth.kind \in {"Authenticating", "StepUp"}
      /\ Rotated(r, authenticated(inner[r], a, Minted(r, 1)))
      /\ Goto(r, "register") /\ UNCHANGED <<store, issued, line>>
      BY DEF CompleteFactor, Handler, shared
<1>1. r \in Logins BY LayerAssumption
<1>2. auth \in AuthState BY <1>0, HandlerFields
<1>3. a \in AuthState BY <1>0, <1>1, <1>2, AuthTypes
<1> HIDE DEF a
<1> QED BY <1>0, <1>3, LoginOrdinary

LEMMA OAuthLoginOrdinary ==
    ASSUME Typed, NEW r \in Requests, OAuthLogin(r) PROVE Ordinary(r)
<1>1. PICK u \in Users :
        Rotated(r, authenticated(inner[r], set_authenticated(u, r), Minted(r, 1)))
      BY DEF OAuthLogin
<1>2. /\ pc[r] = "handler" /\ CanMint(r, 1) /\ Called(r, "oauth", NoKey, 1)
      /\ Goto(r, "register") /\ UNCHANGED <<store, issued, line>>
      BY DEF OAuthLogin, Handler, shared
<1>3. set_authenticated(u, r) \in AuthState BY LayerAssumption, AuthTypes
<1> QED BY <1>1, <1>2, <1>3, LoginOrdinary

LEMMA ImpersonateOrdinary ==
    ASSUME Typed, NEW r \in Requests, Impersonate(r) PROVE Ordinary(r)
<1>1. PICK u \in Users :
        Rotated(r, rotate_id(
            authenticated(with_custom(inner[r], EmptyBag), set_authenticated(u, r), Minted(r, 1)),
            Minted(r, 2)))
      BY DEF Impersonate
<1> DEFINE o == with_custom(inner[r], EmptyBag)
           p == authenticated(o, set_authenticated(u, r), Minted(r, 1))
           q == rotate_id(p, Minted(r, 2))
<1>0. /\ pc[r] = "handler" /\ CanMint(r, 2) /\ Called(r, "impersonate", NoKey, 2)
      /\ Goto(r, "register") /\ UNCHANGED <<store, issued, line>>
      BY DEF Impersonate, Handler
<1>2. inner' = [inner EXCEPT ![r] = q] BY <1>1 DEF Rotated, SetInner
<1>3. Minted(r, 1) \in Ids /\ Minted(r, 2) \in Ids BY <1>0, MintType
<1>4. /\ o \in Inner /\ o.id = inner[r].id /\ o.pre_cycle_id = inner[r].pre_cycle_id
      /\ o.loaded = inner[r].loaded
      BY <1>0, HandlerFields, BagTypes, WithCustomType
<1>5. set_authenticated(u, r) \in AuthState BY LayerAssumption, AuthTypes
<1> HIDE DEF o
<1>6. /\ p \in Inner /\ p.loaded = inner[r].loaded
      /\ p.pre_cycle_id = (IF inner[r].pre_cycle_id = NoId THEN inner[r].id
                           ELSE inner[r].pre_cycle_id)
      BY <1>3, <1>4, <1>5, AuthenticatedType
<1>7. inner[r].id # NoId BY <1>0, RequestFields DEF LocalsOf
<1> HIDE DEF p
<1>8. /\ q.id = Minted(r, 2) /\ q.loaded = inner[r].loaded
      /\ q.pre_cycle_id = (IF inner[r].pre_cycle_id = NoId THEN inner[r].id
                           ELSE inner[r].pre_cycle_id)
      BY <1>3, <1>6, <1>7, RotateType
<1> HIDE DEF q
<1> QED BY <1>0, <1>2, <1>8, RotationOrdinary DEF Goto

(* So are the clearings of a logout and of a login that does not stand. *)
LEMMA ClearOrdinary ==
    ASSUME Typed, NEW r \in Requests, pc[r] \in {"handler", "register", "recheck"},
           CanMint(r, 1), Rotated(r, clear(inner[r], Minted(r, 1))),
           NEW op, NEW k, Called(r, op, k, 1) \/ Mint(r, 1),
           pc' = [pc EXCEPT ![r] = "handler"], UNCHANGED <<store, issued, line>>
    PROVE  Ordinary(r)
<1> DEFINE q == clear(inner[r], Minted(r, 1))
<1>1. /\ q.id = Minted(r, 1) /\ q.loaded = inner[r].loaded
      /\ q.pre_cycle_id = (IF inner[r].pre_cycle_id = NoId THEN inner[r].id
                           ELSE inner[r].pre_cycle_id)
      BY HandlerFields, MintType, ClearType
<1>2. inner' = [inner EXCEPT ![r] = q] BY DEF Rotated, SetInner
<1> HIDE DEF q
<1> QED BY <1>1, <1>2, RotationOrdinary

LEMMA LogoutOrdinary ==
    ASSUME Typed, NEW r \in Requests, Logout(r) PROVE Ordinary(r)
<1>1. /\ pc[r] = "handler" /\ CanMint(r, 1) /\ Called(r, "logout", NoKey, 1)
      /\ Rotated(r, clear(inner[r], Minted(r, 1))) /\ UNCHANGED <<pc, store, issued, line>>
      BY DEF Logout, Handler
<1>2. pc' = [pc EXCEPT ![r] = "handler"] BY <1>1, SameLabel
<1> QED BY <1>1, <1>2, ClearOrdinary

LEMMA RegisteringOrdinary ==
    ASSUME Typed, NEW r \in Requests, Register(r) \/ Recheck(r) PROVE Ordinary(r)
<1>1. pc[r] \in {"register", "recheck"} /\ UNCHANGED <<store, issued, line>>
      BY DEF Register, Recheck
<1>2. CASE ClearSession(r) /\ Goto(r, "handler")
      BY <1>1, <1>2, ClearOrdinary DEF ClearSession, Goto
<1>3. CASE UNCHANGED <<call, inner>> /\ (Goto(r, "handler") \/ Goto(r, "recheck"))
  <2>1. pc'[r] \in {"handler", "recheck"} /\ \A s \in Requests \ {r} : pc'[s] = pc[s]
        BY <1>3 DEF Goto, Typed, TypeOK
  <2>2. call[r].minted <= call'[r].minted BY <1>3, MintedNat
  <2> QED BY <1>1, <1>3, <2>1, <2>2 DEF Ordinary, Finished, Before
<1> QED BY <1>2, <1>3 DEF Register, Recheck

(* The finish keeps the row it will move or write. *)
LEMMA FinishHandlerOrdinary ==
    ASSUME ForkInv, NEW r \in Requests, FinishHandler(r) PROVE Ordinary(r)
<1> DEFINE q == inner[r]
           data == [capped(q.data) EXCEPT !.revision = @ + 1]
           o == [q EXCEPT !.data = data]
           n == [q EXCEPT !.pre_cycle_id = q.id, !.id = Minted(r, 1), !.data = data]
           p == IF q.dirty = "regenerate" /\ q.pre_cycle_id = NoId THEN n ELSE o
           l == CASE q.dirty = "regenerate" /\ existing(r)  -> "merge"
                  [] q.dirty = "regenerate" /\ ~existing(r) -> "remove"
                  [] q.dirty = "modified" /\ existing(r)    -> "swap"
                  [] q.dirty = "clean" /\ existing(r)       -> "touch"
                  [] OTHER                                  -> "save"
<1> USE DEF ForkInv
<1>0. pc[r] = "handler" /\ UNCHANGED <<store, issued, line>>
      BY DEF FinishHandler, shared, history
<1>1. q \in Inner /\ q.id \in Ids /\ q.dirty \in Dirt /\ q.id # NoId
      BY <1>0, HandlerFields, InnerFields, NoIdFact
<1>2. CASE Goto(r, "nocookie") /\ UNCHANGED <<inner, call>>
      BY <1>0, <1>2, IdleStep DEF Goto, Finished, Before
<1>3. CASE /\ SetInner(r, p) /\ Goto(r, l)
           /\ IF p.id # q.id THEN CanMint(r, 1) /\ Mint(r, 1) ELSE UNCHANGED call
  <2> HIDE DEF data
  <2>1. o.id = q.id /\ o.pre_cycle_id = q.pre_cycle_id /\ o.loaded = q.loaded
        BY <1>1 DEF Inner
  <2>2. n.id = Minted(r, 1) /\ n.pre_cycle_id = q.id /\ n.loaded = q.loaded
        BY <1>1 DEF Inner
  <2> HIDE DEF o, n
  <2>3. l \in {"merge", "remove", "swap", "touch", "save"} OBVIOUS
  <2>4. l = "save" => q.loaded = NoRow BY <1>1 DEF existing, Dirt
  <2>5. p.loaded = q.loaded /\ row_id(p) = row_id(q)
        BY <1>1, <2>1, <2>2 DEF row_id
  <2>6. inner' = [inner EXCEPT ![r] = p] /\ pc' = [pc EXCEPT ![r] = l]
        BY <1>3 DEF SetInner, Goto
  <2> HIDE DEF l
  <2>7. /\ inner'[r] = p /\ \A s \in Requests \ {r} : inner'[s] = inner[s]
        /\ pc'[r] = l /\ \A s \in Requests \ {r} : pc'[s] = pc[s]
        BY <2>6 DEF Typed, TypeOK
  <2>8. call[r].minted \in Nat /\ call[r].minted <= MaxMint BY MintedNat
  <2>9. CASE q.dirty = "regenerate" /\ q.pre_cycle_id = NoId
    <3>1. p = n BY <2>9
    <3>2. Minted(r, 1) # q.id
      <4>1. q.id \in issued \/ q.id \in MintedBy(r, call[r].minted) BY <1>1 DEF Origins
      <4>2. Minted(r, 1) \notin MintedBy(r, call[r].minted)
            BY <2>8 DEF Minted, MintedBy
      <4>3. Minted(r, 1) \in Ids => Minted(r, 1) \in NotYet(r, call[r].minted)
            BY <2>8, LayerAssumption DEF Minted, NotYet, Ids
      <4>4. Minted(r, 1) \in NotYet(r, call[r].minted) => Minted(r, 1) \notin issued
            BY DEF Unspent, Unused
      <4> QED BY <1>1, <4>1, <4>2, <4>3, <4>4
    <3>3. CanMint(r, 1) /\ Mint(r, 1) BY <1>3, <2>2, <3>1, <3>2
    <3>4. /\ call'[r].minted = call[r].minted + 1
          /\ \A s \in Requests \ {r} : call'[s] = call[s]
          BY <3>3, CountedStep
    <3>5. Minted(r, 1) \in MintedNow(r)
          BY <2>8, <3>3, <3>4, LayerAssumption
          DEF MintedNow, MintedBy, NotYet, Minted, CanMint
    <3>6. call[r].minted <= call'[r].minted BY <2>8, <3>4
    <3> QED BY <1>0, <2>2, <2>3, <2>4, <2>5, <2>7, <3>1, <3>4, <3>5, <3>6
            DEF Ordinary, Finished, Before
  <2>10. CASE ~(q.dirty = "regenerate" /\ q.pre_cycle_id = NoId)
    <3>1. p = o BY <2>10
    <3>2. UNCHANGED call BY <1>3, <2>1, <3>1
    <3>3. call[r].minted <= call'[r].minted BY <2>8, <3>2
    <3> QED BY <1>0, <2>1, <2>3, <2>4, <2>5, <2>7, <3>1, <3>2, <3>3
            DEF Ordinary, Finished, Before
  <2> QED BY <2>9, <2>10
<1> QED BY <1>2, <1>3 DEF FinishHandler

(* A fresh session is under an id just minted. *)
LEMMA StartFreshOrdinary ==
    ASSUME Typed, NEW r \in Requests, pc[r] \notin Finished, NEW c, NEW dirt,
           StartFresh(r, c, dirt), UNCHANGED <<issued, line>>,
           \A i \in Ids : store'[i] # NoRow => store[i] # NoRow
    PROVE  Ordinary(r)
<1> DEFINE f == IF Binding THEN c ELSE NoFp
           q == [NewInner EXCEPT !.id = Minted(r, 1), !.dirty = dirt, !.pending = f]
           d == [client |-> c, ops |-> call[r].ops, minted |-> call[r].minted + 1]
<1>1. /\ inner' = [inner EXCEPT ![r] = q] /\ call' = [call EXCEPT ![r] = d]
      /\ pc' = [pc EXCEPT ![r] = "handler"] /\ CanMint(r, 1)
      BY DEF StartFresh, SetInner, Goto
<1> HIDE DEF f
<1>2. q.id = Minted(r, 1) /\ q.pre_cycle_id = NoId BY DEF NewInner
<1>3. d.minted = call[r].minted + 1 OBVIOUS
<1> HIDE DEF q, d
<1>4. /\ inner'[r] = q /\ pc'[r] = "handler" /\ call'[r] = d
      /\ \A s \in Requests \ {r} : /\ inner'[s] = inner[s] /\ pc'[s] = pc[s]
                                   /\ call'[s] = call[s]
      BY <1>1 DEF Typed, TypeOK
<1>5. call[r].minted \in Nat BY MintedNat
<1>6. Minted(r, 1) \in MintedNow(r)
      BY <1>1, <1>3, <1>4, <1>5, LayerAssumption
      DEF MintedNow, MintedBy, NotYet, Minted, CanMint
<1>7. call[r].minted <= call'[r].minted BY <1>3, <1>4, <1>5
<1>8. row_id(q) = Minted(r, 1) BY <1>2 DEF row_id
<1> QED BY <1>2, <1>4, <1>6, <1>7, <1>8 DEF Ordinary, Finished, Before

(* A request loads under an id from a cookie. *)
LEMMA LoadedOrdinary ==
    ASSUME Typed, NEW r \in Requests, pc[r] \notin Finished, NEW c, NEW i, NEW q,
           i \in issued \/ i = inner[r].id, q.id = i, q.pre_cycle_id = NoId,
           NEW l \in {"handler", "verdict"}, l = "handler" => q.loaded # NoRow,
           inner' = [inner EXCEPT ![r] = q], pc' = [pc EXCEPT ![r] = l],
           call' = [call EXCEPT ![r].client = c], UNCHANGED <<store, issued, line>>
    PROVE  Ordinary(r)
<1> DEFINE d == [call[r] EXCEPT !.client = c]
<1>1. call' = [call EXCEPT ![r] = d] OBVIOUS
<1>2. d.minted = call[r].minted BY RequestFields DEF Call
<1> HIDE DEF d
<1>3. /\ inner'[r] = q /\ pc'[r] = l /\ call'[r] = d
      /\ \A s \in Requests \ {r} : /\ inner'[s] = inner[s] /\ pc'[s] = pc[s]
                                   /\ call'[s] = call[s]
      BY <1>1 DEF Typed, TypeOK
<1>4. call[r].minted <= call'[r].minted BY <1>2, <1>3, MintedNat
<1> QED BY <1>3, <1>4 DEF Ordinary, Before

LEMMA TrustOrdinary ==
    ASSUME Typed, NEW r \in Requests, pc[r] \notin Finished, NEW c, NEW i, NEW row \in Data,
           i \in issued \/ i = inner[r].id, Trust(r, c, i, row),
           UNCHANGED <<store, issued, line>>
    PROVE  Ordinary(r)
<1> DEFINE fp == IF Binding THEN c ELSE NoFp
           data == check_binding(row, fp)
           t == IF data = row THEN "clean" ELSE "modified"
           e == IF data.fp = NoFp THEN fp ELSE NoFp
           q == [id |-> i, pre_cycle_id |-> NoId, data |-> data, dirty |-> t,
                 pending |-> e, loaded |-> row]
<1>1. CASE data = NoRow
  <2>1. StartFresh(r, c, "regenerate") BY <1>1 DEF Trust
  <2> QED BY <2>1, StartFreshOrdinary
<1>2. CASE data # NoRow
  <2>1. /\ inner' = [inner EXCEPT ![r] = q] /\ pc' = [pc EXCEPT ![r] = "handler"]
        /\ call' = [call EXCEPT ![r].client = c]
        BY <1>2 DEF Trust, SetInner, Goto
  <2> HIDE DEF data, t, e
  <2>2. q.id = i /\ q.pre_cycle_id = NoId /\ q.loaded = row OBVIOUS
  <2>3. row # NoRow BY LayerAssumption
  <2> HIDE DEF q
  <2> QED BY <2>1, <2>2, <2>3, LoadedOrdinary
<1> QED BY <1>1, <1>2

LEMMA LoadingOrdinary ==
    ASSUME Typed, NEW r \in Requests,
           LoadNothing(r) \/ LoadRow(r) \/ Verdict(r) \/ EndRow(r)
    PROVE  Ordinary(r)
<1>1. /\ pc[r] \in {"idle", "verdict", "endrow"} /\ UNCHANGED <<issued, line>>
      BY DEF LoadNothing, LoadRow, Verdict, EndRow, shared, history
<1>2. pc[r] \notin Finished BY <1>1 DEF Finished
<1>3. CASE LoadNothing(r)
      BY <1>1, <1>2, <1>3, StartFreshOrdinary DEF LoadNothing, shared
<1>4. CASE LoadRow(r)
  <2>0. UNCHANGED store BY <1>4 DEF LoadRow, shared
  <2>1. PICK c \in Clients, i \in issued :
          /\ store[i] # NoRow
          /\ IF is_authenticated(store[i].auth)
             THEN /\ SetInner(r, [NewInner EXCEPT !.id = i, !.data = store[i]])
                  /\ call' = [call EXCEPT ![r].client = c]
                  /\ Goto(r, "verdict")
             ELSE Trust(r, c, i, store[i])
        BY <1>4 DEF LoadRow
  <2>2. store[i] \in Data BY <2>1, RowField DEF Typed, TypeOK
  <2>3. CASE is_authenticated(store[i].auth)
    <3> DEFINE q == [NewInner EXCEPT !.id = i, !.data = store[i]]
    <3>1. /\ inner' = [inner EXCEPT ![r] = q] /\ pc' = [pc EXCEPT ![r] = "verdict"]
          /\ call' = [call EXCEPT ![r].client = c]
          BY <2>1, <2>3 DEF SetInner, Goto
    <3>2. q.id = i /\ q.pre_cycle_id = NoId BY DEF NewInner
    <3> HIDE DEF q
    <3> QED BY <1>1, <1>2, <2>0, <3>1, <3>2, LoadedOrdinary
  <2>4. CASE ~is_authenticated(store[i].auth)
        BY <1>1, <1>2, <2>0, <2>1, <2>2, <2>4, TrustOrdinary
  <2> QED BY <2>3, <2>4
<1>5. CASE Verdict(r)
  <2>0. UNCHANGED store /\ pc[r] = "verdict" BY <1>5 DEF Verdict, shared
  <2>1. inner[r].data \in Data BY RequestFields, InnerFields
  <2>2. CASE Trust(r, call[r].client, inner[r].id, inner[r].data)
        BY <1>1, <1>2, <2>0, <2>1, <2>2, TrustOrdinary
  <2>3. CASE StartFresh(r, call[r].client, "clean")
        BY <1>1, <1>2, <2>0, <2>3, StartFreshOrdinary
  <2>4. CASE Goto(r, "endrow") /\ UNCHANGED <<inner, call>>
        BY <1>1, <1>2, <2>0, <2>4, IdleStep DEF Goto, Before
  <2> QED BY <1>5, <2>2, <2>3, <2>4 DEF Verdict
<1>6. CASE EndRow(r)
  <2>1. \A i \in Ids : store'[i] # NoRow => store[i] # NoRow
        BY <1>6 DEF EndRow, try_delete, delete, Typed, TypeOK
  <2> QED BY <1>1, <1>2, <1>6, <2>1, StartFreshOrdinary DEF EndRow
<1> QED BY <1>3, <1>4, <1>5, <1>6

-----------------------------------------------------------------------------
(* The invariant is inductive. *)

LEMMA InitForks == Init => ForkInv
<1> SUFFICES ASSUME Init PROVE ForkInv OBVIOUS
<1>1. Typed BY InitTyped
<1>2. /\ \A i \in Ids : store[i] # NoRow => i = Seed
      /\ line = [i \in Ids |-> i] /\ issued = {Seed}
      /\ \A r \in Requests : pc[r] = "idle" /\ inner[r] = NewInner /\ call[r].minted = 0
      BY DEF Init
<1>3. Origins /\ RotatesToOwn BY <1>2, NewInnerType DEF Origins, RotatesToOwn
<1>4. ASSUME NEW r \in Requests
      PROVE  /\ MintedBy(r, MaxMint) \subseteq Ids \ {Seed}
             /\ NotYet(r, 0) \subseteq Ids \ {Seed}
      BY LayerAssumption DEF MintedBy, NotYet, Ids
<1>5. NotSent BY <1>2, <1>4 DEF NotSent
<1>6. Unspent
  <2> SUFFICES ASSUME NEW r \in Requests, NEW x \in NotYet(r, 0)
               PROVE  Unused(store, issued, line, x)
      BY <1>2 DEF Unspent
  <2>1. x \in Ids /\ x # Seed BY <1>4
  <2> QED BY <1>2, <2>1 DEF Unused
<1>7. Unstored /\ SavesFresh /\ Vacated /\ OneMover
      BY <1>2 DEF Unstored, Before, SavesFresh, Vacated, OneMover
<1>8. NoFork BY <1>2 DEF NoFork
<1> QED BY <1>1, <1>3, <1>5, <1>6, <1>7, <1>8 DEF ForkInv

LEMMA NextForks == ForkInv /\ [Next]_vars => ForkInv'
<1> SUFFICES ASSUME ForkInv, [Next]_vars PROVE ForkInv' OBVIOUS
<1>0. Typed /\ Typed' BY NextTyped DEF ForkInv
<1>1. ASSUME NEW r \in Requests, LoadNothing(r) \/ LoadRow(r) PROVE ForkInv'
      BY <1>0, <1>1, LoadingOrdinary, OrdinaryStep
<1>2. ASSUME NEW r \in Requests, Operate(r) PROVE ForkInv'
  <2>1. Ordinary(r)
        BY <1>0, <1>2, CustomOrdinary, TakeOrdinary, RegenerateOrdinary, BeginLoginOrdinary,
           CompleteFactorOrdinary, OAuthLoginOrdinary, StepUpOrdinary, ImpersonateOrdinary,
           LogoutOrdinary
        DEF Operate
  <2> QED BY <1>0, <2>1, OrdinaryStep
<1>3. ASSUME NEW r \in Requests, Serve(r) PROVE ForkInv'
  <2>1. CASE SaveFresh(r) BY <1>0, <2>1, SaveFreshForks
  <2>2. CASE CycleRemove(r) BY <1>0, <2>2, CycleRemoveForks
  <2>3. CASE CycleSave(r) BY <1>0, <2>3, CycleSaveForks
  <2>4. CASE ~(SaveFresh(r) \/ CycleRemove(r) \/ CycleSave(r))
    <3>1. Ordinary(r)
          BY <1>0, <1>3, <2>4, LoadingOrdinary, RegisteringOrdinary, SwapTryOrdinary,
             SwapLoadOrdinary, FinishHandlerOrdinary, TouchOrdinary, CycleMergeOrdinary,
             FailClosedOrdinary, SettlingOrdinary
          DEF Serve
    <3> QED BY <1>0, <3>1, OrdinaryStep
  <2> QED BY <2>1, <2>2, <2>3, <2>4
<1>4. CASE Administer \/ Expire
  <2>1. UNCHANGED <<issued, pc, inner, call, line>>
        BY <1>4 DEF Administer, Expire, ListUser, ListSession, Revoke, DeleteRow, shared, history
  <2>2. \A i \in Ids : store'[i] # NoRow => store[i] # NoRow
        BY <1>0, <1>4 DEF Administer, Expire, ListUser, ListSession, Revoke, DeleteRow, shared,
                          try_delete, delete, Typed, TypeOK
  <2> QED BY <1>0, <2>1, <2>2, DeletingForks
<1>5. CASE UNCHANGED vars
      BY <1>0, <1>5, DeletingForks DEF vars
<1> QED BY <1>1, <1>2, <1>3, <1>4, <1>5 DEF Next, AllServed

(* Whatever requests do to a session at once, and wherever the store fails *)
(* or a row expires or is deleted, no two stored rows belong to one        *)
(* session: the old row is removed by the one rotation that saves the new. *)
THEOREM NeverForks == Spec => []NoFork
<1>1. Spec => []ForkInv BY InitForks, NextForks, PTL DEF Spec
<1>2. ForkInv => NoFork BY DEF ForkInv
<1> QED BY <1>1, <1>2, PTL

-----------------------------------------------------------------------------
(***************************************************************************)
(* What an id stands for, and what a row may hold.                         *)
(*                                                                         *)
(* The argument: every id belongs to one login for good (loginOf), a write *)
(* raises the revision of its row, so that a request whose revision still  *)
(* matches has seen the row it replaces, and the auth state of a session   *)
(* only changes in place to ask for a step-up.                             *)
(***************************************************************************)

(* A request with a session that it may yet store. *)
Handling == {"handler", "register", "recheck"}
Swapping == {"swap", "swapload"}
Live == Handling \cup Swapping \cup {"touch", "save", "merge", "remove", "move"}

(* Of what row was under id i, st has the same or a later one, or none. *)
Known(st, i, row) == st[i] # NoRow => st[i] = row \/ st[i].revision > row.revision

(* A session keeps its login under its id, and what it was loaded from is  *)
(* known.                                                                  *)
CopyOK(st, lo, q) ==
    /\ q.data.auth.login = lo[q.id]
    /\ q.loaded # NoRow => /\ q.loaded.auth.login = lo[row_id(q)]
                           /\ Known(st, row_id(q), q.loaded)
                           /\ q.dirty = "regenerate" => q.pre_cycle_id # NoId
    /\ q.dirty = "regenerate" /\ q.pre_cycle_id = NoId => q.data.auth = Guest

(* Until its id rotates a stored session is the one that was loaded, or    *)
(* asked for a step-up.                                                    *)
Unrotated(q) ==
    q.loaded # NoRow /\ q.pre_cycle_id = NoId =>
        /\ q.data.revision = q.loaded.revision
        /\ q.data.auth = q.loaded.auth \/ (q.data.auth.kind = "StepUp" /\ q.dirty # "clean")

(* What a write may make of the auth state of a row. *)
AuthKept(new, old) == is_authenticated(new) => new = old

SwapOK(lo, q, w) ==
    /\ w.local.auth.login = lo[row_id(q)]
    /\ w.local.auth = q.loaded.auth \/ w.local.auth.kind = "StepUp"
    /\ w.key # NoKey => Unrotated(q)

(* A write that is about to be tried leads on from the row it expects. *)
SwapReady(st, lo, q, w) ==
    /\ w.next.auth.login = lo[row_id(q)]
    /\ w.next.revision = w.expected + 1
    /\ st[row_id(q)] # NoRow =>
        /\ st[row_id(q)].revision >= w.expected
        /\ st[row_id(q)].revision = w.expected => AuthKept(w.next.auth, st[row_id(q)].auth)

TouchOK(q, w) ==
    /\ w.key = NoKey
    /\ q.data.auth = q.loaded.auth
    /\ w.expected = q.loaded.revision /\ q.data.revision = w.expected + 1

HoldsOK(st, lo, p, q, w) ==
    /\ p = "verdict" => q.data.auth.login = lo[q.id] /\ Known(st, q.id, q.data)
    /\ p \in Live => CopyOK(st, lo, q)
    /\ p \in Handling => Unrotated(q)
    /\ p \in Swapping => SwapOK(lo, q, w)
    /\ p = "swap" => SwapReady(st, lo, q, w)
    /\ p = "touch" => TouchOK(q, w)

RowLogins == \A i \in Ids : store[i] # NoRow => store[i].auth.login = loginOf[i]

NoLoginYet == \A r \in Requests : \A x \in NotYet(r, call[r].minted) : loginOf[x] = NoLogin

Holds == \A r \in Requests : HoldsOK(store, loginOf, pc[r], inner[r], work[r])

LoginInv == RowLogins /\ NoLoginYet /\ Holds

-----------------------------------------------------------------------------
(* A step of request r. *)

Alone(r) ==
    /\ \A s \in Requests \ {r} : /\ pc'[s] = pc[s] /\ inner'[s] = inner[s]
                                 /\ work'[s] = work[s] /\ call'[s] = call[s]
    /\ call[r].minted <= call'[r].minted

(* Only what the step mints is given a login. *)
Assigns(r) == \A x \in Ids : loginOf'[x] = loginOf[x] \/ x \in MintedNow(r)

(* A row stays, goes, is led on from, or is stored under an id that only r *)
(* knows.                                                                  *)
Replaces(i) ==
    /\ store[i] # NoRow /\ store'[i] # NoRow
    /\ store'[i].revision > store[i].revision
    /\ store'[i].auth.login = loginOf[i]
    /\ AuthKept(store'[i].auth, store[i].auth)

Founds(r, i) ==
    /\ i \in MintedBy(r, call[r].minted) /\ i \notin issued
    /\ store'[i] # NoRow /\ store'[i].auth.login = loginOf[i]

Writes(r) ==
    \A i \in Ids : store'[i] = store[i] \/ store'[i] = NoRow \/ Replaces(i) \/ Founds(r, i)

Faithful(r) ==
    /\ Alone(r) /\ Assigns(r) /\ Writes(r)
    /\ HoldsOK(store', loginOf', pc'[r], inner'[r], work'[r])

(* Of the row under x, ut has the same, a later one, or none. *)
Moved(st, ut, x) ==
    ut[x] = st[x] \/ ut[x] = NoRow
        \/ (st[x] # NoRow /\ ut[x] # NoRow /\ ut[x].revision > st[x].revision)

LEMMA KnownMoved ==
    ASSUME NEW st \in [Ids -> Data \cup {NoRow}], NEW ut \in [Ids -> Data \cup {NoRow}],
           NEW x \in Ids, NEW row \in Data, Known(st, x, row), Moved(st, ut, x)
    PROVE  Known(ut, x, row)
<1>1. row.revision \in Nat BY DEF Data
<1>2. ut[x] # NoRow => ut[x].revision \in Nat BY DEF Data
<1>3. st[x] # NoRow => st[x].revision \in Nat BY DEF Data
<1> QED BY <1>1, <1>2, <1>3 DEF Known, Moved

LEMMA SwapMoved ==
    ASSUME NEW st \in [Ids -> Data \cup {NoRow}], NEW ut \in [Ids -> Data \cup {NoRow}],
           NEW lo, NEW mo, NEW q, NEW w \in Work, row_id(q) \in Ids, mo[row_id(q)] = lo[row_id(q)],
           SwapReady(st, lo, q, w), Moved(st, ut, row_id(q))
    PROVE  SwapReady(ut, mo, q, w)
<1> DEFINE x == row_id(q)
<1>1. w.expected \in Nat BY WorkFields
<1>2. ut[x] # NoRow => ut[x].revision \in Nat BY DEF Data
<1>3. st[x] # NoRow => st[x].revision \in Nat BY DEF Data
<1> HIDE DEF x
<1>4. /\ st[x] # NoRow => st[x].revision >= w.expected
      /\ st[x] # NoRow /\ st[x].revision = w.expected => AuthKept(w.next.auth, st[x].auth)
      /\ Moved(st, ut, x)
      BY DEF SwapReady, x
<1>5. /\ ut[x] # NoRow => ut[x].revision >= w.expected
      /\ ut[x] # NoRow /\ ut[x].revision = w.expected => AuthKept(w.next.auth, ut[x].auth)
      BY <1>1, <1>2, <1>3, <1>4 DEF Moved
<1> QED BY <1>5 DEF SwapReady, x

LEMMA HoldsMoved ==
    ASSUME NEW st \in [Ids -> Data \cup {NoRow}], NEW ut \in [Ids -> Data \cup {NoRow}],
           NEW lo, NEW mo, NEW p, NEW q \in Inner, NEW w \in Work,
           HoldsOK(st, lo, p, q, w),
           p \in Live \cup {"verdict"} =>
                \A x \in {q.id, row_id(q)} : x \in Ids /\ mo[x] = lo[x] /\ Moved(st, ut, x)
    PROVE  HoldsOK(ut, mo, p, q, w)
<1>1. q.data \in Data /\ q.loaded \in Data \cup {NoRow} BY InnerFields
<1>2. p = "verdict" => q.data.auth.login = mo[q.id] /\ Known(ut, q.id, q.data)
      BY <1>1, KnownMoved DEF HoldsOK
<1>3. p \in Live => CopyOK(ut, mo, q)
      BY <1>1, KnownMoved DEF HoldsOK, CopyOK
<1>4. p \in Swapping => SwapOK(mo, q, w) BY DEF HoldsOK, SwapOK, Live
<1>5. p = "swap" => SwapReady(ut, mo, q, w) BY SwapMoved DEF HoldsOK, Live, Swapping
<1> QED BY <1>2, <1>3, <1>4, <1>5 DEF HoldsOK

(* What the other requests know of their sessions stays true. *)
LEMMA FaithfulStep ==
    ASSUME ForkInv, LoginInv, Typed', NEW r \in Requests, Faithful(r)
    PROVE  LoginInv'
<1>1. \A s \in Requests : call[s].minted \in Nat /\ call[s].minted <= MaxMint
      BY MintedNat DEF ForkInv
<1>2. call'[r].minted \in Nat /\ call[r].minted <= call'[r].minted
      BY DEF Faithful, Alone, Typed, TypeOK, Call
<1>3. /\ \A x \in MintedNow(r) : x \in NotYet(r, call[r].minted)
      /\ \A x \in MintedNow(r) : x \in MintedBy(r, call'[r].minted)
      BY DEF MintedNow
<1>4. \A x \in MintedNow(r) : store[x] = NoRow /\ x \notin issued
      BY <1>3 DEF ForkInv, Unspent, Unused
<1>5. store \in [Ids -> Data \cup {NoRow}] /\ store' \in [Ids -> Data \cup {NoRow}]
      BY DEF ForkInv, Typed, TypeOK
<1>6. RowLogins'
  <2> SUFFICES ASSUME NEW i \in Ids, store'[i] # NoRow
               PROVE  store'[i].auth.login = loginOf'[i]
      BY DEF RowLogins
  <2>1. CASE store'[i] = store[i]
    <3>1. loginOf'[i] = loginOf[i] BY <1>4, <2>1 DEF Faithful, Assigns
    <3> QED BY <2>1, <3>1 DEF LoginInv, RowLogins
  <2>2. CASE Replaces(i)
    <3>1. loginOf'[i] = loginOf[i] BY <1>4, <2>2 DEF Faithful, Assigns, Replaces
    <3> QED BY <2>2, <3>1 DEF Replaces
  <2>3. CASE Founds(r, i)
    <3>1. i \notin MintedNow(r) BY <1>1, <1>3, <2>3, Apart DEF Founds
    <3> QED BY <2>3, <3>1 DEF Faithful, Assigns, Founds
  <2> QED BY <2>1, <2>2, <2>3 DEF Faithful, Writes
<1>7. NoLoginYet'
  <2> SUFFICES ASSUME NEW s \in Requests, NEW x \in NotYet(s, call'[s].minted)
               PROVE  loginOf'[x] = NoLogin
      BY DEF NoLoginYet
  <2>1. call'[s].minted \in Nat /\ call'[s].minted <= MaxMint /\ call[s].minted <= call'[s].minted
        BY <1>1, <1>2, MintedNat, LayerAssumption DEF Faithful, Alone, Typed, TypeOK, Call
  <2>2. x \in NotYet(s, call[s].minted) /\ x \in Ids BY <1>1, <2>1, Minting
  <2>3. x \notin MintedNow(r) 
    <3>1. CASE s = r BY <1>2, <1>3, <3>1, Apart
    <3>2. CASE s # r BY <1>2, <1>3, <2>1, <3>2, Apart
    <3> QED BY <3>1, <3>2
  <2> QED BY <2>2, <2>3 DEF Faithful, Assigns, LoginInv, NoLoginYet
<1>8. Holds'
  <2> SUFFICES ASSUME NEW s \in Requests
               PROVE  HoldsOK(store', loginOf', pc'[s], inner'[s], work'[s])
      BY DEF Holds
  <2>1. CASE s = r BY <2>1 DEF Faithful
  <2>2. CASE s # r
    <3>1. pc'[s] = pc[s] /\ inner'[s] = inner[s] /\ work'[s] = work[s]
          BY <2>2 DEF Faithful, Alone
    <3>2. HoldsOK(store, loginOf, pc[s], inner[s], work[s]) BY DEF LoginInv, Holds
    <3>3. inner[s] \in Inner /\ work[s] \in Work BY RequestFields DEF ForkInv
    <3>4. ASSUME NEW x \in Ids, x \in issued \/ x \in MintedBy(s, call[s].minted)
          PROVE  loginOf'[x] = loginOf[x] /\ Moved(store, store', x)
      <4>1. x \notin MintedNow(r) BY <1>1, <1>3, <1>4, <2>2, <3>4, Apart
      <4>2. ~Founds(r, x) BY <1>1, <2>2, <3>4, Apart DEF Founds
      <4>3. store'[x] = store[x] \/ store'[x] = NoRow \/ Replaces(x)
            BY <4>2 DEF Faithful, Writes
      <4> QED BY <4>1, <4>3 DEF Faithful, Assigns, Replaces, Moved
    <3>5. ASSUME pc[s] \in Live \cup {"verdict"}
          PROVE  \A x \in {inner[s].id, row_id(inner[s])} :
                    x \in Ids /\ loginOf'[x] = loginOf[x] /\ Moved(store, store', x)
      <4>1. pc[s] # "idle" BY <3>5 DEF Live, Handling, Swapping
      <4>2. inner[s].id \in Ids /\ row_id(inner[s]) \in Ids
            BY <4>1, ActiveFields DEF ForkInv
      <4>3. /\ inner[s].id \in issued \/ inner[s].id \in MintedBy(s, call[s].minted)
            /\ row_id(inner[s]) \in issued \/ row_id(inner[s]) \in MintedBy(s, call[s].minted)
            BY <4>2, NoIdFact DEF ForkInv, Origins, row_id
      <4> QED BY <3>4, <4>2, <4>3
    <3> QED BY <1>5, <3>1, <3>2, <3>3, <3>5, HoldsMoved
  <2> QED BY <2>1, <2>2
<1> QED BY <1>6, <1>7, <1>8 DEF LoginInv

(* No id in a cookie comes to stand for another login. *)
LEMMA FaithfulFixed ==
    ASSUME NEW r \in Requests, Faithful(r), NEW i \in issued, i \in Ids,
           store'[i] # NoRow, is_authenticated(store'[i].auth)
    PROVE  store[i] # NoRow /\ store[i].auth = store'[i].auth
BY DEF Faithful, Writes, Replaces, Founds, AuthKept

-----------------------------------------------------------------------------
(* Steps that store nothing, and what they leave true of the request.      *)

LEMMA AloneOrdinary ==
    ASSUME Typed, NEW r \in Requests, Ordinary(r), NEW w,
           UNCHANGED work \/ work' = [work EXCEPT ![r] = w]
    PROVE  Alone(r)
<1>1. \A s \in Requests \ {r} : work'[s] = work[s] BY DEF Typed, TypeOK
<1> QED BY <1>1 DEF Ordinary, Alone

(* A step that ends the request's hold on its session. *)
LEMMA EndsFaithful ==
    ASSUME NEW r \in Requests, Alone(r), UNCHANGED loginOf,
           \A i \in Ids : store'[i] = store[i] \/ store'[i] = NoRow \/ Replaces(i) \/ Founds(r, i),
           pc'[r] \notin Live \cup {"verdict"}
    PROVE  Faithful(r)
<1>1. HoldsOK(store', loginOf', pc'[r], inner'[r], work'[r])
      BY DEF HoldsOK, Live, Handling, Swapping
<1> QED BY <1>1 DEF Faithful, Assigns, Writes

LEMMA SettlingFaithful ==
    ASSUME Typed, NEW r \in Requests,
           \/ LiveOld(r) \/ RegisterNew(r) \/ RereadOld(r) \/ InvalidateOld(r)
           \/ LiveNew(r) \/ EndRevoked(r) \/ EndUntracked(r)
    PROVE  Faithful(r)
<1>1. UNCHANGED <<work, loginOf>>
      BY DEF LiveOld, RegisterNew, RereadOld, InvalidateOld, LiveNew, EndRevoked,
             EndUntracked, history
<1>2. Alone(r) BY <1>1, SettlingOrdinary, AloneOrdinary
<1>3. \A i \in Ids : store'[i] = store[i] \/ store'[i] = NoRow
      BY DEF LiveOld, RegisterNew, RereadOld, InvalidateOld, LiveNew, EndRevoked,
             EndUntracked, shared, try_delete, delete, Typed, TypeOK
<1>4. pc'[r] \in Settling \cup {"cookie", "ended"}
      BY DEF LiveOld, RegisterNew, RereadOld, InvalidateOld, LiveNew, EndRevoked,
             EndUntracked, OnUntracked, SendCookie, Goto, Settling, Typed, TypeOK
<1>5. pc'[r] \notin Live \cup {"verdict"} BY <1>4 DEF Settling, Live, Handling, Swapping
<1> QED BY <1>1, <1>2, <1>3, <1>5, EndsFaithful

LEMMA FailClosedFaithful ==
    ASSUME Typed, NEW r \in Requests, FailClosed(r) PROVE Faithful(r)
<1>1. UNCHANGED <<work, loginOf>> BY DEF FailClosed, history
<1>2. Alone(r) BY <1>1, FailClosedOrdinary, AloneOrdinary
<1>3. \A i \in Ids : store'[i] = store[i] \/ store'[i] = NoRow
      BY DEF FailClosed, try_delete, delete, Typed, TypeOK
<1>4. pc'[r] = "closed" BY DEF FailClosed, Goto, Typed, TypeOK
<1> QED BY <1>1, <1>2, <1>3, <1>4, EndsFaithful DEF Live, Handling, Swapping

(* Ids that are known have their login. *)
LEMMA OwnIds ==
    ASSUME ForkInv, NEW r \in Requests, pc[r] # "idle"
    PROVE  /\ inner[r].id \in Ids /\ row_id(inner[r]) \in Ids
           /\ inner[r].id \notin MintedNow(r) /\ row_id(inner[r]) \notin MintedNow(r)
<1>1. inner[r].id \in Ids /\ row_id(inner[r]) \in Ids BY ActiveFields DEF ForkInv
<1>2. \A x \in MintedNow(r) : x \in NotYet(r, call[r].minted) BY DEF MintedNow
<1>3. \A x \in MintedNow(r) : x \notin issued BY <1>2 DEF ForkInv, Unspent, Unused
<1>4. \A x \in MintedNow(r) : x \notin MintedBy(r, call[r].minted)
      BY <1>2, MintedNat, Apart DEF ForkInv
<1> QED BY <1>1, <1>3, <1>4, NoIdFact DEF ForkInv, Origins, row_id

(* The handler changes its copy under the same id. *)
Edits(q, p) ==
    /\ p.id = q.id /\ p.pre_cycle_id = q.pre_cycle_id /\ p.loaded = q.loaded
    /\ p.data.revision = q.data.revision
    /\ p.dirty = "regenerate" <=> q.dirty = "regenerate"
    /\ \/ p.data.auth = q.data.auth /\ (q.dirty # "clean" => p.dirty # "clean")
       \/ /\ is_authenticated(q.data.auth) /\ p.data.auth.kind = "StepUp"
          /\ p.data.auth.login = q.data.auth.login /\ p.dirty # "clean"

LEMMA EditsHold ==
    ASSUME NEW st, NEW lo, NEW q, NEW p, Edits(q, p), CopyOK(st, lo, q), Unrotated(q)
    PROVE  CopyOK(st, lo, p) /\ Unrotated(p)
<1>1. row_id(p) = row_id(q) BY DEF Edits, row_id
<1>2. q.dirty = "regenerate" /\ q.pre_cycle_id = NoId => p.data.auth = Guest
      BY DEF Edits, CopyOK, is_authenticated, Guest
<1>3. CopyOK(st, lo, p) BY <1>1, <1>2 DEF Edits, CopyOK
<1>4. Unrotated(p) BY DEF Edits, Unrotated
<1> QED BY <1>3, <1>4

LEMMA EditFaithful ==
    ASSUME ForkInv, LoginInv, NEW r \in Requests, Alone(r), pc[r] \in Handling,
           pc'[r] \in Handling, Edits(inner[r], inner'[r]), UNCHANGED <<store, loginOf>>
    PROVE  Faithful(r)
<1>1. CopyOK(store, loginOf, inner[r]) /\ Unrotated(inner[r])
      BY DEF LoginInv, Holds, HoldsOK, Live
<1>2. CopyOK(store, loginOf, inner'[r]) /\ Unrotated(inner'[r]) BY <1>1, EditsHold
<1>3. HoldsOK(store', loginOf', pc'[r], inner'[r], work'[r])
      BY <1>2 DEF HoldsOK, Handling, Swapping
<1> QED BY <1>3 DEF Faithful, Assigns, Writes

(* The handler takes its session to an id it mints. *)
LEMMA RotationFaithful ==
    ASSUME ForkInv, LoginInv, Typed', NEW r \in Requests, Alone(r), pc[r] \in Handling,
           pc'[r] \in Handling, NEW q, inner'[r] = q, q.id \in MintedNow(r), q.id \in Ids,
           q.pre_cycle_id # NoId, row_id(q) = row_id(inner[r]), q.loaded = inner[r].loaded,
           loginOf' = [loginOf EXCEPT ![q.id] = q.data.auth.login], UNCHANGED store
    PROVE  Faithful(r)
<1>1. CopyOK(store, loginOf, inner[r]) BY DEF LoginInv, Holds, HoldsOK, Live
<1>2. \A x \in Ids : loginOf'[x] = loginOf[x] \/ x = q.id BY DEF ForkInv, Typed, TypeOK
<1>3. loginOf'[q.id] = q.data.auth.login BY DEF ForkInv, Typed, TypeOK
<1>4. loginOf'[row_id(q)] = loginOf[row_id(q)]
      BY <1>2, OwnIds DEF Handling
<1>5. CopyOK(store, loginOf', q) BY <1>1, <1>3, <1>4 DEF CopyOK
<1>6. Unrotated(q) BY DEF Unrotated
<1>7. HoldsOK(store', loginOf', pc'[r], inner'[r], work'[r])
      BY <1>5, <1>6 DEF HoldsOK, Handling, Swapping
<1> QED BY <1>2, <1>7 DEF Faithful, Assigns, Writes

-----------------------------------------------------------------------------
(* The handler's operations. *)

LEMMA WithCustomFields ==
    ASSUME NEW q \in Inner, NEW b \in Bag
    PROVE  /\ with_custom(q, b).data.custom = b
           /\ with_custom(q, b).data.revision = q.data.revision
           /\ with_custom(q, b).dirty # "clean"
           /\ Edits(q, with_custom(q, b))
<1> DEFINE d == [q.data EXCEPT !.custom = b]
           t == dirtied(q)
           p == with_custom(q, b)
<1>1. d \in Data /\ d.custom = b /\ d.revision = q.data.revision /\ d.auth = q.data.auth
      BY InnerFields, DataTypes DEF Data
<1>2. t \in Dirt /\ t # "clean" /\ (t = "regenerate" <=> q.dirty = "regenerate")
      BY InnerFields DEF dirtied, Dirt
<1>3. p = [q EXCEPT !.data = d, !.dirty = t] BY DEF with_custom
<1> HIDE DEF d, t, p
<1>4. p.data = d /\ p.dirty = t BY <1>2, <1>3 DEF Inner
<1>5. p.id = q.id /\ p.pre_cycle_id = q.pre_cycle_id /\ p.loaded = q.loaded
      BY <1>3 DEF Inner
<1>6. Edits(q, p) BY <1>1, <1>2, <1>4, <1>5 DEF Edits
<1> QED BY <1>1, <1>2, <1>4, <1>6 DEF p

LEMMA BagFaithful ==
    ASSUME ForkInv, LoginInv, NEW r \in Requests, pc[r] = "handler", NEW b \in Bag,
           \/ inner' = [inner EXCEPT ![r] = with_custom(inner[r], b)]
           \/ UNCHANGED inner,
           NEW op, NEW k, Called(r, op, k, 0),
           UNCHANGED <<store, issued, line, pc, work, loginOf>>
    PROVE  Faithful(r)
<1>1. Ordinary(r) BY BagOrdinary DEF ForkInv
<1>2. Alone(r) BY <1>1, AloneOrdinary DEF ForkInv
<1>3. inner[r] \in Inner BY HandlerFields DEF ForkInv
<1>4. Edits(inner[r], inner[r]) BY DEF Edits
<1>5. inner'[r] = inner[r] \/ inner'[r] = with_custom(inner[r], b)
      BY DEF ForkInv, Typed, TypeOK
<1>6. Edits(inner[r], inner'[r]) BY <1>3, <1>4, <1>5, WithCustomFields
<1> QED BY <1>2, <1>6, EditFaithful DEF Handling

LEMMA CustomFaithful ==
    ASSUME ForkInv, LoginInv, NEW r \in Requests, SetCustom(r) \/ RemoveCustom(r) \/ ClearCustom(r)
    PROVE  Faithful(r)
<1>0. pc[r] = "handler" /\ UNCHANGED <<store, issued, line, pc, work, loginOf>>
      BY DEF SetCustom, RemoveCustom, ClearCustom, Handler, shared, history
<1>1. inner[r].data.custom \in Bag BY <1>0, HandlerFields DEF ForkInv
<1>2. CASE SetCustom(r)
  <2>1. PICK k \in Keys :
          /\ Called(r, "set", k, 0)
          /\ \/ SetInner(r, with_custom(inner[r], [inner[r].data.custom EXCEPT ![k] = r]))
             \/ UNCHANGED inner
        BY <1>2 DEF SetCustom
  <2> DEFINE b == [inner[r].data.custom EXCEPT ![k] = r]
  <2>2. b \in Bag BY <1>1, LayerAssumption DEF Bag
  <2>3. inner' = [inner EXCEPT ![r] = with_custom(inner[r], b)] \/ UNCHANGED inner
        BY <2>1 DEF SetInner
  <2> HIDE DEF b
  <2> QED BY <1>0, <2>1, <2>2, <2>3, BagFaithful
<1>3. CASE RemoveCustom(r)
  <2>1. PICK k \in Keys :
          /\ Called(r, "remove", k, 0)
          /\ SetInner(r, with_custom(inner[r], [inner[r].data.custom EXCEPT ![k] = NoVal]))
        BY <1>3 DEF RemoveCustom
  <2> DEFINE b == [inner[r].data.custom EXCEPT ![k] = NoVal]
  <2>2. b \in Bag BY <1>1 DEF Bag
  <2>3. inner' = [inner EXCEPT ![r] = with_custom(inner[r], b)]
        BY <2>1 DEF SetInner
  <2> HIDE DEF b
  <2> QED BY <1>0, <2>1, <2>2, <2>3, BagFaithful
<1>4. CASE ClearCustom(r)
  <2>1. /\ Called(r, "clear_custom", NoKey, 0)
        /\ inner' = [inner EXCEPT ![r] = with_custom(inner[r], EmptyBag)]
        BY <1>4 DEF ClearCustom, SetInner
  <2>2. EmptyBag \in Bag BY BagTypes
  <2> QED BY <1>0, <2>1, <2>2, BagFaithful
<1> QED BY <1>2, <1>3, <1>4

LEMMA WithAuthFields ==
    ASSUME NEW q \in Inner, NEW a \in AuthState, NEW b \in Bag
    PROVE  /\ with_auth(q, a, b).data.custom = b
           /\ with_auth(q, a, b).data.revision = q.data.revision
<1> DEFINE d == [q.data EXCEPT !.auth = a, !.custom = b]
<1>0. q.data \in Data BY InnerFields
<1>a. d.custom = b /\ d.revision = q.data.revision BY <1>0 DEF Data
<1>1. d \in Data /\ d.custom = b /\ d.revision = q.data.revision
      BY <1>0, <1>a, DataTypes
<1>2. with_auth(q, a, b) = [q EXCEPT !.data = d] BY DEF with_auth
<1> HIDE DEF d
<1> QED BY <1>1, <1>2 DEF Inner

LEMMA StepUpFaithful ==
    ASSUME ForkInv, LoginInv, NEW r \in Requests, StepUp(r) PROVE Faithful(r)
<1> DEFINE a == begin_step_up(inner[r].data.auth)
           p == with_auth(inner[r], a, inner[r].data.custom)
           q == with_custom(p, inner[r].data.custom)
<1>0. /\ pc[r] = "handler" /\ is_authenticated(inner[r].data.auth)
      /\ inner' = [inner EXCEPT ![r] = q] /\ UNCHANGED <<pc, store, work, loginOf>>
      BY DEF StepUp, Handler, SetInner, shared, history
<1>1. Alone(r) BY <1>0, StepUpOrdinary, AloneOrdinary DEF ForkInv
<1>2. /\ inner[r] \in Inner /\ inner[r].data.custom \in Bag /\ inner[r].data.auth \in AuthState
      BY <1>0, HandlerFields DEF ForkInv
<1>3. /\ a \in AuthState /\ a.kind = "StepUp" /\ a.login = inner[r].data.auth.login
      BY <1>0, <1>2, AuthTypes DEF begin_step_up, AuthState, Guest, is_authenticated
<1> HIDE DEF a
<1>4. /\ p \in Inner /\ p.id = inner[r].id /\ p.pre_cycle_id = inner[r].pre_cycle_id
      /\ p.loaded = inner[r].loaded /\ p.data.auth = a /\ p.dirty = inner[r].dirty
      /\ p.data.revision = inner[r].data.revision
      BY <1>2, <1>3, WithAuthType, WithAuthFields
<1> HIDE DEF p
<1>5. Edits(p, q) /\ q.data.revision = p.data.revision /\ q.dirty # "clean" /\ q.data.auth = p.data.auth
      BY <1>2, <1>4, WithCustomFields, WithCustomType
<1> HIDE DEF q
<1>6. Edits(inner[r], q) BY <1>0, <1>3, <1>4, <1>5 DEF Edits
<1>7. inner'[r] = q BY <1>0 DEF ForkInv, Typed, TypeOK
<1> QED BY <1>0, <1>1, <1>6, <1>7, EditFaithful DEF Handling

LEMMA RotatedFaithful ==
    ASSUME ForkInv, LoginInv, Typed', NEW r \in Requests, pc[r] \in Handling, NEW q,
           NEW n \in {1, 2}, CanMint(r, n), q.id = Minted(r, n),
           q.pre_cycle_id = (IF inner[r].pre_cycle_id = NoId THEN inner[r].id
                             ELSE inner[r].pre_cycle_id),
           q.loaded = inner[r].loaded, Rotated(r, q),
           NEW op, NEW k, Called(r, op, k, n) \/ Mint(r, n),
           NEW l \in Handling, pc' = [pc EXCEPT ![r] = l],
           UNCHANGED <<store, issued, line, work>>
    PROVE  Faithful(r)
<1>1. /\ inner' = [inner EXCEPT ![r] = q]
      /\ loginOf' = [loginOf EXCEPT ![q.id] = q.data.auth.login]
      BY DEF Rotated, SetInner
<1>2. Ordinary(r) BY <1>1, RotationOrdinary DEF ForkInv, Handling
<1>3. Alone(r) BY <1>2, AloneOrdinary DEF ForkInv
<1>4. inner'[r] = q /\ pc'[r] = l BY <1>1 DEF ForkInv, Typed, TypeOK
<1>5. call[r].minted \in Nat /\ call'[r].minted = call[r].minted + n
      BY CountedStep, MintedNat DEF ForkInv
<1>6. q.id \in MintedNow(r)
      BY <1>5, LayerAssumption DEF MintedNow, MintedBy, NotYet, Minted, CanMint
<1>7. q.id \in Ids BY <1>5, LayerAssumption DEF Ids, Minted, CanMint
<1>8. inner[r].id # NoId BY RequestFields DEF LocalsOf, Handling, ForkInv
<1>9. row_id(q) = row_id(inner[r]) /\ q.pre_cycle_id # NoId BY <1>8 DEF row_id
<1> QED BY <1>1, <1>3, <1>4, <1>6, <1>7, <1>9, RotationFaithful

LEMMA LoginFaithful ==
    ASSUME ForkInv, LoginInv, Typed', NEW r \in Requests, pc[r] = "handler", CanMint(r, 1),
           NEW a \in AuthState, Rotated(r, authenticated(inner[r], a, Minted(r, 1))),
           NEW op, Called(r, op, NoKey, 1), Goto(r, "register"),
           UNCHANGED <<store, issued, line, work>>
    PROVE  Faithful(r)
<1> DEFINE q == authenticated(inner[r], a, Minted(r, 1))
<1>1. /\ q.id = Minted(r, 1) /\ q.loaded = inner[r].loaded
      /\ q.pre_cycle_id = (IF inner[r].pre_cycle_id = NoId THEN inner[r].id
                           ELSE inner[r].pre_cycle_id)
      BY HandlerFields, MintType, AuthenticatedType DEF ForkInv
<1>2. Rotated(r, q) OBVIOUS
<1> HIDE DEF q
<1> QED BY <1>1, <1>2, RotatedFaithful DEF Goto, Handling

LEMMA RegenerateFaithful ==
    ASSUME ForkInv, LoginInv, Typed', NEW r \in Requests, Regenerate(r) PROVE Faithful(r)
<1> DEFINE q == rotate_id(inner[r], Minted(r, 1))
<1>0. /\ pc[r] = "handler" /\ CanMint(r, 1) /\ Called(r, "regenerate", NoKey, 1)
      /\ Rotated(r, q) /\ UNCHANGED <<pc, store, issued, line, work>>
      BY DEF Regenerate, Handler, shared
<1>1. /\ q.id = Minted(r, 1) /\ q.loaded = inner[r].loaded
      /\ q.pre_cycle_id = (IF inner[r].pre_cycle_id = NoId THEN inner[r].id
                           ELSE inner[r].pre_cycle_id)
      BY <1>0, HandlerFields, MintType, RotateType DEF ForkInv
<1>2. pc' = [pc EXCEPT ![r] = "handler"] BY <1>0, SameLabel DEF ForkInv
<1> HIDE DEF q
<1> QED BY <1>0, <1>1, <1>2, RotatedFaithful DEF Handling

LEMMA BeginLoginFaithful ==
    ASSUME ForkInv, LoginInv, Typed', NEW r \in Requests, BeginLogin(r) PROVE Faithful(r)
<1>1. PICK u \in Users :
        Rotated(r, bind_fingerprint(rotate_id(
            with_auth(inner[r], begin_authenticating(u), inner[r].data.custom), Minted(r, 1))))
      BY DEF BeginLogin
<1> DEFINE o == with_auth(inner[r], begin_authenticating(u), inner[r].data.custom)
           p == rotate_id(o, Minted(r, 1))
           q == bind_fingerprint(p)
<1>0. /\ pc[r] = "handler" /\ CanMint(r, 1) /\ Called(r, "begin", NoKey, 1)
      /\ UNCHANGED <<pc, store, issued, line, work>>
      BY DEF BeginLogin, Handler, shared
<1>2. Rotated(r, q) BY <1>1
<1>3. begin_authenticating(u) \in AuthState BY AuthTypes
<1>4. /\ o \in Inner /\ o.id = inner[r].id /\ o.pre_cycle_id = inner[r].pre_cycle_id
      /\ o.loaded = inner[r].loaded
      BY <1>0, <1>3, HandlerFields, WithAuthType DEF ForkInv
<1>5. Minted(r, 1) \in Ids BY <1>0, MintType DEF ForkInv
<1> HIDE DEF o
<1>6. /\ p \in Inner /\ p.id = Minted(r, 1) /\ p.loaded = inner[r].loaded
      /\ p.pre_cycle_id = (IF inner[r].pre_cycle_id = NoId THEN inner[r].id
                           ELSE inner[r].pre_cycle_id)
      BY <1>4, <1>5, RotateType
<1> HIDE DEF p
<1>7. q.id = p.id /\ q.pre_cycle_id = p.pre_cycle_id /\ q.loaded = p.loaded
      BY <1>6, BindType
<1>8. pc' = [pc EXCEPT ![r] = "handler"] BY <1>0, SameLabel DEF ForkInv
<1> HIDE DEF q
<1> QED BY <1>0, <1>2, <1>6, <1>7, <1>8, RotatedFaithful DEF Handling

LEMMA CompleteFactorFaithful ==
    ASSUME ForkInv, LoginInv, Typed', NEW r \in Requests, CompleteFactor(r) PROVE Faithful(r)
<1> DEFINE auth == inner[r].data.auth
           a == IF auth.kind = "StepUp" THEN finish_step_up(auth)
                ELSE set_authenticated(auth.user, r)
<1>0. /\ pc[r] = "handler" /\ CanMint(r, 1) /\ Called(r, "factor", NoKey, 1)
      /\ auth.kind \in {"Authenticating", "StepUp"}
      /\ Rotated(r, authenticated(inner[r], a, Minted(r, 1)))
      /\ Goto(r, "register") /\ UNCHANGED <<store, issued, line, work>>
      BY DEF CompleteFactor, Handler, shared
<1>1. r \in Logins BY LayerAssumption
<1>2. auth \in AuthState BY <1>0, HandlerFields DEF ForkInv
<1>3. a \in AuthState BY <1>0, <1>1, <1>2, AuthTypes
<1> HIDE DEF a
<1> QED BY <1>0, <1>3, LoginFaithful

LEMMA OAuthLoginFaithful ==
    ASSUME ForkInv, LoginInv, Typed', NEW r \in Requests, OAuthLogin(r) PROVE Faithful(r)
<1>1. PICK u \in Users :
        Rotated(r, authenticated(inner[r], set_authenticated(u, r), Minted(r, 1)))
      BY DEF OAuthLogin
<1>2. /\ pc[r] = "handler" /\ CanMint(r, 1) /\ Called(r, "oauth", NoKey, 1)
      /\ Goto(r, "register") /\ UNCHANGED <<store, issued, line, work>>
      BY DEF OAuthLogin, Handler, shared
<1>3. set_authenticated(u, r) \in AuthState BY LayerAssumption, AuthTypes
<1> QED BY <1>1, <1>2, <1>3, LoginFaithful

LEMMA ImpersonateFaithful ==
    ASSUME ForkInv, LoginInv, Typed', NEW r \in Requests, Impersonate(r) PROVE Faithful(r)
<1>1. PICK u \in Users :
        Rotated(r, rotate_id(
            authenticated(with_custom(inner[r], EmptyBag), set_authenticated(u, r), Minted(r, 1)),
            Minted(r, 2)))
      BY DEF Impersonate
<1> DEFINE o == with_custom(inner[r], EmptyBag)
           p == authenticated(o, set_authenticated(u, r), Minted(r, 1))
           q == rotate_id(p, Minted(r, 2))
<1>0. /\ pc[r] = "handler" /\ CanMint(r, 2) /\ Called(r, "impersonate", NoKey, 2)
      /\ Goto(r, "register") /\ UNCHANGED <<store, issued, line, work>>
      BY DEF Impersonate, Handler
<1>2. Rotated(r, q) BY <1>1
<1>3. Minted(r, 1) \in Ids /\ Minted(r, 2) \in Ids BY <1>0, MintType DEF ForkInv
<1>4. /\ o \in Inner /\ o.id = inner[r].id /\ o.pre_cycle_id = inner[r].pre_cycle_id
      /\ o.loaded = inner[r].loaded
      BY <1>0, HandlerFields, BagTypes, WithCustomType DEF ForkInv
<1>5. set_authenticated(u, r) \in AuthState BY LayerAssumption, AuthTypes
<1> HIDE DEF o
<1>6. /\ p \in Inner /\ p.loaded = inner[r].loaded
      /\ p.pre_cycle_id = (IF inner[r].pre_cycle_id = NoId THEN inner[r].id
                           ELSE inner[r].pre_cycle_id)
      BY <1>3, <1>4, <1>5, AuthenticatedType
<1>7. inner[r].id # NoId BY <1>0, RequestFields DEF LocalsOf, ForkInv
<1> HIDE DEF p
<1>8. /\ q.id = Minted(r, 2) /\ q.loaded = inner[r].loaded
      /\ q.pre_cycle_id = (IF inner[r].pre_cycle_id = NoId THEN inner[r].id
                           ELSE inner[r].pre_cycle_id)
      BY <1>3, <1>6, <1>7, RotateType
<1> HIDE DEF q
<1> QED BY <1>0, <1>2, <1>8, RotatedFaithful DEF Goto, Handling

LEMMA ClearFaithful ==
    ASSUME ForkInv, LoginInv, Typed', NEW r \in Requests, pc[r] \in Handling,
           CanMint(r, 1), Rotated(r, clear(inner[r], Minted(r, 1))),
           NEW op, NEW k, Called(r, op, k, 1) \/ Mint(r, 1),
           pc' = [pc EXCEPT ![r] = "handler"], UNCHANGED <<store, issued, line, work>>
    PROVE  Faithful(r)
<1> DEFINE q == clear(inner[r], Minted(r, 1))
<1>1. /\ q.id = Minted(r, 1) /\ q.loaded = inner[r].loaded
      /\ q.pre_cycle_id = (IF inner[r].pre_cycle_id = NoId THEN inner[r].id
                           ELSE inner[r].pre_cycle_id)
      BY HandlerFields, MintType, ClearType DEF ForkInv, Handling
<1>2. Rotated(r, q) OBVIOUS
<1> HIDE DEF q
<1> QED BY <1>1, <1>2, RotatedFaithful DEF Handling

LEMMA LogoutFaithful ==
    ASSUME ForkInv, LoginInv, Typed', NEW r \in Requests, Logout(r) PROVE Faithful(r)
<1>1. /\ pc[r] = "handler" /\ CanMint(r, 1) /\ Called(r, "logout", NoKey, 1)
      /\ Rotated(r, clear(inner[r], Minted(r, 1))) /\ UNCHANGED <<pc, store, issued, line, work>>
      BY DEF Logout, Handler
<1>2. pc' = [pc EXCEPT ![r] = "handler"] BY <1>1, SameLabel DEF ForkInv
<1> QED BY <1>1, <1>2, ClearFaithful DEF Handling

LEMMA RegisteringFaithful ==
    ASSUME ForkInv, LoginInv, Typed', NEW r \in Requests, Register(r) \/ Recheck(r)
    PROVE  Faithful(r)
<1>1. pc[r] \in {"register", "recheck"} /\ UNCHANGED <<store, issued, line, work>>
      BY DEF Register, Recheck
<1>2. CASE ClearSession(r) /\ Goto(r, "handler")
      BY <1>1, <1>2, ClearFaithful DEF ClearSession, Goto, Handling
<1>3. CASE UNCHANGED <<call, inner, loginOf>> /\ (Goto(r, "handler") \/ Goto(r, "recheck"))
  <2>1. pc'[r] \in Handling BY <1>3 DEF Goto, ForkInv, Typed, TypeOK, Handling
  <2>2. Alone(r) BY <1>1, RegisteringOrdinary, AloneOrdinary DEF ForkInv
  <2>3. Edits(inner[r], inner'[r]) BY <1>3 DEF Edits
  <2> QED BY <1>1, <1>3, <2>1, <2>2, <2>3, EditFaithful DEF Handling
<1> QED BY <1>2, <1>3 DEF Register, Recheck

-----------------------------------------------------------------------------
(* Loading. *)

LEMMA StartFreshFaithful ==
    ASSUME ForkInv, LoginInv, Typed', NEW r \in Requests, pc[r] \notin Finished, NEW c, NEW dirt,
           StartFresh(r, c, dirt), UNCHANGED <<issued, line, work, loginOf>>,
           \A i \in Ids : store'[i] = store[i] \/ store'[i] = NoRow
    PROVE  Faithful(r)
<1> DEFINE f == IF Binding THEN c ELSE NoFp
           q == [NewInner EXCEPT !.id = Minted(r, 1), !.dirty = dirt, !.pending = f]
<1>1. /\ inner' = [inner EXCEPT ![r] = q] /\ pc' = [pc EXCEPT ![r] = "handler"] /\ CanMint(r, 1)
      BY DEF StartFresh, SetInner, Goto
<1> HIDE DEF f
<1>2. /\ q.id = Minted(r, 1) /\ q.pre_cycle_id = NoId /\ q.data = DefaultData /\ q.loaded = NoRow
      BY DEF NewInner
<1> HIDE DEF q
<1>3. inner'[r] = q /\ pc'[r] = "handler" BY <1>1 DEF ForkInv, Typed, TypeOK
<1>4. \A i \in Ids : store'[i] # NoRow => store[i] # NoRow OBVIOUS
<1>5. Alone(r) BY <1>4, StartFreshOrdinary, AloneOrdinary DEF ForkInv
<1>6. call[r].minted \in Nat BY MintedNat DEF ForkInv
<1>7. Minted(r, 1) \in NotYet(r, call[r].minted)
      BY <1>1, <1>6, LayerAssumption DEF Minted, NotYet, CanMint
<1>8. loginOf[Minted(r, 1)] = NoLogin BY <1>7 DEF LoginInv, NoLoginYet
<1>9. q.data.auth = Guest /\ Guest.login = NoLogin BY <1>2 DEF DefaultData, Guest
<1>10. CopyOK(store', loginOf', q) BY <1>2, <1>8, <1>9 DEF CopyOK
<1>11. Unrotated(q) BY <1>2 DEF Unrotated
<1>12. HoldsOK(store', loginOf', pc'[r], inner'[r], work'[r])
       BY <1>3, <1>10, <1>11 DEF HoldsOK, Handling, Swapping
<1> QED BY <1>5, <1>12 DEF Faithful, Assigns, Writes

(* What check_binding makes of a row. *)
LEMMA BindingFields ==
    ASSUME NEW row \in Data, NEW fp, check_binding(row, fp) # NoRow
    PROVE  /\ check_binding(row, fp).auth = row.auth
           /\ check_binding(row, fp).revision = row.revision
           /\ check_binding(row, fp).custom = row.custom
<1> DEFINE d == [row EXCEPT !.fp = fp]
<1>1. d.auth = row.auth /\ d.revision = row.revision /\ d.custom = row.custom BY DEF Data
<1>2. check_binding(row, fp) = d \/ check_binding(row, fp) = row BY DEF check_binding
<1> QED BY <1>1, <1>2

LEMMA TrustFaithful ==
    ASSUME ForkInv, LoginInv, Typed', NEW r \in Requests, pc[r] \notin Finished, NEW c,
           NEW i \in Ids, NEW row \in Data, i \in issued \/ i = inner[r].id,
           Trust(r, c, i, row), UNCHANGED <<store, issued, line, work, loginOf>>,
           row.auth.login = loginOf[i], Known(store, i, row)
    PROVE  Faithful(r)
<1> DEFINE fp == IF Binding THEN c ELSE NoFp
           data == check_binding(row, fp)
           t == IF data = row THEN "clean" ELSE "modified"
           e == IF data.fp = NoFp THEN fp ELSE NoFp
           q == [id |-> i, pre_cycle_id |-> NoId, data |-> data, dirty |-> t,
                 pending |-> e, loaded |-> row]
<1>1. CASE data = NoRow
  <2>1. StartFresh(r, c, "regenerate") BY <1>1 DEF Trust
  <2> QED BY <2>1, StartFreshFaithful
<1>2. CASE data # NoRow
  <2>1. /\ inner' = [inner EXCEPT ![r] = q] /\ pc' = [pc EXCEPT ![r] = "handler"]
        BY <1>2 DEF Trust, SetInner, Goto
  <2>2. data.auth = row.auth /\ data.revision = row.revision BY <1>2, BindingFields
  <2>3. t # "regenerate" OBVIOUS
  <2> HIDE DEF data, t, e
  <2>4. /\ q.id = i /\ q.pre_cycle_id = NoId /\ q.loaded = row /\ q.data = data
        /\ q.dirty # "regenerate"
        BY <2>3
  <2> HIDE DEF q
  <2>5. row_id(q) = i BY <2>4 DEF row_id
  <2>6. CopyOK(store, loginOf, q) BY <2>2, <2>4, <2>5 DEF CopyOK
  <2>7. Unrotated(q) BY <2>2, <2>4 DEF Unrotated
  <2>8. inner'[r] = q /\ pc'[r] = "handler" BY <2>1 DEF ForkInv, Typed, TypeOK
  <2>9. HoldsOK(store', loginOf', pc'[r], inner'[r], work'[r])
        BY <2>6, <2>7, <2>8 DEF HoldsOK, Handling, Swapping
  <2>10. Ordinary(r) BY TrustOrdinary DEF ForkInv
  <2>11. Alone(r) BY <2>10, AloneOrdinary DEF ForkInv
  <2> QED BY <2>9, <2>11 DEF Faithful, Assigns, Writes
<1> QED BY <1>1, <1>2

LEMMA LoadingFaithful ==
    ASSUME ForkInv, LoginInv, Typed', NEW r \in Requests,
           LoadNothing(r) \/ LoadRow(r) \/ Verdict(r) \/ EndRow(r)
    PROVE  Faithful(r)
<1>0. issued \subseteq Ids BY DEF ForkInv, Typed, TypeOK
<1>1. /\ pc[r] \in {"idle", "verdict", "endrow"} /\ UNCHANGED <<issued, line, work, loginOf>>
      BY DEF LoadNothing, LoadRow, Verdict, EndRow, shared, history
<1>2. pc[r] \notin Finished BY <1>1 DEF Finished
<1>3. CASE LoadNothing(r)
      BY <1>1, <1>2, <1>3, StartFreshFaithful DEF LoadNothing, shared
<1>4. CASE LoadRow(r)
  <2>0. UNCHANGED store BY <1>4 DEF LoadRow, shared
  <2>1. PICK c \in Clients, i \in issued :
          /\ store[i] # NoRow
          /\ IF is_authenticated(store[i].auth)
             THEN /\ SetInner(r, [NewInner EXCEPT !.id = i, !.data = store[i]])
                  /\ call' = [call EXCEPT ![r].client = c]
                  /\ Goto(r, "verdict")
             ELSE Trust(r, c, i, store[i])
        BY <1>4 DEF LoadRow
  <2>2. i \in Ids /\ store[i] \in Data BY <1>0, <2>1, RowField DEF ForkInv
  <2>3. store[i].auth.login = loginOf[i] /\ Known(store, i, store[i])
        BY <2>1, <2>2 DEF LoginInv, RowLogins, Known
  <2>4. CASE is_authenticated(store[i].auth)
    <3> DEFINE q == [NewInner EXCEPT !.id = i, !.data = store[i]]
    <3>1. /\ inner' = [inner EXCEPT ![r] = q] /\ pc' = [pc EXCEPT ![r] = "verdict"]
          BY <2>1, <2>4 DEF SetInner, Goto
    <3>2. q.id = i /\ q.data = store[i] BY DEF NewInner
    <3> HIDE DEF q
    <3>3. inner'[r] = q /\ pc'[r] = "verdict" BY <3>1 DEF ForkInv, Typed, TypeOK
    <3>4. HoldsOK(store', loginOf', pc'[r], inner'[r], work'[r])
          BY <1>1, <2>0, <2>3, <3>2, <3>3 DEF HoldsOK, Live, Handling, Swapping
    <3>5. Alone(r) BY <1>1, <1>4, LoadingOrdinary, AloneOrdinary DEF ForkInv
    <3> QED BY <1>1, <2>0, <3>4, <3>5 DEF Faithful, Assigns, Writes
  <2>5. CASE ~is_authenticated(store[i].auth)
        BY <1>1, <1>2, <2>0, <2>1, <2>2, <2>3, <2>5, TrustFaithful
  <2> QED BY <2>4, <2>5
<1>5. CASE Verdict(r)
  <2>0. UNCHANGED store /\ pc[r] = "verdict" BY <1>5 DEF Verdict, shared
  <2>1. inner[r].data \in Data /\ inner[r].id \in Ids
        BY <2>0, RequestFields, InnerFields, ActiveFields DEF ForkInv
  <2>2. /\ inner[r].data.auth.login = loginOf[inner[r].id]
        /\ Known(store, inner[r].id, inner[r].data)
        BY <2>0 DEF LoginInv, Holds, HoldsOK
  <2>3. CASE Trust(r, call[r].client, inner[r].id, inner[r].data)
        BY <1>1, <1>2, <2>0, <2>1, <2>2, <2>3, TrustFaithful
  <2>4. CASE StartFresh(r, call[r].client, "clean")
        BY <1>1, <1>2, <2>0, <2>4, StartFreshFaithful
  <2>5. CASE Goto(r, "endrow") /\ UNCHANGED <<inner, call>>
    <3>1. Alone(r) BY <1>1, <1>5, LoadingOrdinary, AloneOrdinary DEF ForkInv
    <3>2. pc'[r] = "endrow" BY <2>5 DEF Goto, ForkInv, Typed, TypeOK
    <3> QED BY <1>1, <2>0, <3>1, <3>2, EndsFaithful DEF Live, Handling, Swapping
  <2> QED BY <1>5, <2>3, <2>4, <2>5 DEF Verdict
<1>6. CASE EndRow(r)
  <2>1. \A i \in Ids : store'[i] = store[i] \/ store'[i] = NoRow
        BY <1>6 DEF EndRow, try_delete, delete, ForkInv, Typed, TypeOK
  <2> QED BY <1>1, <1>2, <1>6, <2>1, StartFreshFaithful DEF EndRow
<1> QED BY <1>3, <1>4, <1>5, <1>6

-----------------------------------------------------------------------------
(* The compare-and-swap of a row. *)

(* d as it is stored: capped, under revision n. *)
Stored(d, n) == [capped(d) EXCEPT !.revision = n]

LEMMA StoredFields ==
    ASSUME NEW d \in Data, NEW n \in Nat
    PROVE  /\ Stored(d, n) \in Data
           /\ Stored(d, n).auth = d.auth
           /\ Stored(d, n).revision = n
           /\ Stored(d, n).custom = cap_custom(d.custom)
<1> DEFINE b == cap_custom(d.custom)
           c == [d EXCEPT !.custom = b]
           x == [c EXCEPT !.revision = n]
<1>1. b \in Bag BY DataTypes, BagTypes
<1>2. capped(d) = c BY DEF capped
<1> HIDE DEF b
<1>3. c \in Data /\ c.auth = d.auth /\ c.custom = b BY <1>1 DEF Data
<1> HIDE DEF c
<1>4. x \in Data BY <1>3 DEF Data
<1>5. x.auth = c.auth /\ x.revision = n /\ x.custom = c.custom BY <1>3 DEF Data
<1> QED BY <1>2, <1>3, <1>4, <1>5 DEF Stored, b

LEMMA WithoutFields ==
    ASSUME NEW d \in Data, NEW k \in Keys
    PROVE  /\ without(d, k) \in Data
           /\ without(d, k).auth = d.auth /\ without(d, k).revision = d.revision
           /\ without(d, k).custom = [d.custom EXCEPT ![k] = NoVal]
<1> DEFINE b == [d.custom EXCEPT ![k] = NoVal]
<1>1. without(d, k) = [d EXCEPT !.custom = b] BY DEF without
<1> HIDE DEF b
<1>2. [d EXCEPT !.custom = b].auth = d.auth /\ [d EXCEPT !.custom = b].custom = b
      /\ [d EXCEPT !.custom = b].revision = d.revision
      BY DEF Data
<1> QED BY <1>1, <1>2, DataTypes DEF b

LEMMA AttemptFields ==
    ASSUME NEW k, NEW v, NEW d \in Data, NEW n \in Nat
    PROVE  /\ first_attempt(k, v, d, n).local = d
           /\ first_attempt(k, v, d, n).next = Stored(d, n + 1)
           /\ first_attempt(k, v, d, n).expected = n
           /\ first_attempt(k, v, d, n).key = k
BY DEF first_attempt, Stored

(* A first write leads on from the row that was loaded. *)
LEMMA FirstReady ==
    ASSUME NEW st \in [Ids -> Data \cup {NoRow}], NEW lo, NEW q, NEW w, NEW d \in Data,
           q.loaded \in Data, row_id(q) \in Ids, Known(st, row_id(q), q.loaded),
           d.auth.login = lo[row_id(q)], d.auth = q.loaded.auth \/ d.auth.kind = "StepUp",
           w.expected = q.loaded.revision, w.next = Stored(d, w.expected + 1)
    PROVE  SwapReady(st, lo, q, w)
<1> DEFINE x == row_id(q)
<1>1. w.expected \in Nat /\ w.expected + 1 \in Nat BY DEF Data
<1>a. PICK n \in Nat : n = w.expected + 1 BY <1>1
<1>b. w.next = Stored(d, n) BY <1>a
<1>c. Stored(d, n).auth = d.auth /\ Stored(d, n).revision = n BY StoredFields
<1>2. w.next.auth = d.auth /\ w.next.revision = w.expected + 1 BY <1>a, <1>b, <1>c
<1>3. st[x] # NoRow => st[x].revision \in Nat BY DEF Data
<1>4. st[x] # NoRow => st[x].revision >= w.expected BY <1>1, <1>3 DEF Known
<1>5. st[x] # NoRow /\ st[x].revision = w.expected => st[x] = q.loaded
      BY <1>1, <1>3 DEF Known
<1>6. AuthKept(d.auth, q.loaded.auth) BY DEF AuthKept, is_authenticated
<1> QED BY <1>2, <1>4, <1>5, <1>6 DEF SwapReady

LEMMA TakeFaithful ==
    ASSUME ForkInv, LoginInv, Typed', NEW r \in Requests, Take(r) PROVE Faithful(r)
<1>1. PICK k \in Keys :
        /\ Handler(r, "take", k) /\ Called(r, "take", k, 0)
        /\ SetInner(r, with_custom(inner[r], without(inner[r].data, k).custom))
        /\ \/ /\ inner[r].loaded # NoRow /\ Goto(r, "swap")
              /\ SetWork(r, first_attempt(k, inner[r].data.custom[k], take_local(inner[r], k),
                                          take_local(inner[r], k).revision))
           \/ UNCHANGED <<pc, work>>
        /\ UNCHANGED <<store, issued, line, loginOf>>
      BY DEF Take, shared
<1> DEFINE q == inner[r]
           b == without(q.data, k).custom
           p == with_custom(q, b)
           d == take_local(q, k)
           v == q.data.custom[k]
           w == first_attempt(k, v, d, d.revision)
<1>2. pc[r] = "handler" BY <1>1 DEF Handler
<1>3. q \in Inner /\ q.data \in Data /\ b \in Bag /\ q.loaded \in Data \cup {NoRow}
      BY <1>2, HandlerFields, InnerFields, DataTypes DEF ForkInv
<1>4. inner'[r] = p BY <1>1 DEF SetInner, ForkInv, Typed, TypeOK
<1> HIDE DEF b
<1>5. Edits(q, p) BY <1>3, WithCustomFields
<1>6. CopyOK(store, loginOf, q) /\ Unrotated(q)
      BY <1>2 DEF LoginInv, Holds, HoldsOK, Live, Handling
<1>7. CopyOK(store, loginOf, p) /\ Unrotated(p) BY <1>5, <1>6, EditsHold
<1> HIDE DEF p
<1>8. Alone(r)
  <2>1. UNCHANGED work \/ work' = [work EXCEPT ![r] = w] BY <1>1 DEF SetWork
  <2> HIDE DEF w
  <2> QED BY <2>1, TakeOrdinary, AloneOrdinary DEF ForkInv
<1>9. CASE UNCHANGED <<pc, work>>
      BY <1>1, <1>2, <1>4, <1>5, <1>8, <1>9, EditFaithful DEF Handling
<1>10. CASE q.loaded # NoRow /\ Goto(r, "swap") /\ SetWork(r, w)
  <2>1. /\ d \in Data
        /\ d.auth = (IF q.pre_cycle_id = NoId THEN q.data ELSE q.loaded).auth
        /\ d.revision = (IF q.pre_cycle_id = NoId THEN q.data ELSE q.loaded).revision
        BY <1>3, <1>10, WithoutFields DEF take_local
  <2>2. d.auth.login = loginOf[row_id(q)]
        BY <1>6, <1>10, <2>1 DEF CopyOK, row_id
  <2>3. d.auth = q.loaded.auth \/ d.auth.kind = "StepUp"
        BY <1>6, <1>10, <2>1 DEF Unrotated
  <2>4. d.revision = q.loaded.revision BY <1>6, <1>10, <2>1 DEF Unrotated
  <2>5. d.revision \in Nat BY <2>1 DEF Data
  <2> HIDE DEF d
  <2>6. /\ w.local = d /\ w.expected = d.revision /\ w.next = Stored(d, d.revision + 1) /\ w.key = k
        BY <2>1, <2>5, AttemptFields
  <2>7. work'[r] = w /\ pc'[r] = "swap" BY <1>10 DEF SetWork, Goto, ForkInv, Typed, TypeOK
  <2> HIDE DEF w
  <2>8. p.loaded = q.loaded /\ row_id(p) = row_id(q) BY <1>5 DEF Edits, row_id
  <2>9. Known(store, row_id(q), q.loaded) /\ row_id(q) \in Ids
        BY <1>2, <1>6, <1>10, OwnIds DEF CopyOK
  <2>10. SwapReady(store, loginOf, p, w)
    <3>1. store \in [Ids -> Data \cup {NoRow}] BY DEF ForkInv, Typed, TypeOK
    <3>2. p.loaded \in Data BY <1>3, <1>10, <2>8
    <3> QED BY <2>1, <2>2, <2>3, <2>4, <2>6, <2>8, <2>9, <3>1, <3>2, FirstReady
  <2>11. SwapOK(loginOf, p, w) BY <1>7, <2>2, <2>3, <2>6, <2>8 DEF SwapOK
  <2>12. HoldsOK(store', loginOf', pc'[r], inner'[r], work'[r])
         BY <1>1, <1>4, <1>7, <2>7, <2>10, <2>11 DEF HoldsOK, Handling, Swapping
  <2> QED BY <1>1, <1>8, <2>12 DEF Faithful, Assigns, Writes
<1> QED BY <1>1, <1>9, <1>10

(* A swap that does not write, for a consumption, goes back to the         *)
(* handler; for the end of a request, ends it.                             *)
LEMMA SwapEndsFaithful ==
    ASSUME ForkInv, LoginInv, NEW r \in Requests, pc[r] \in Swapping \cup {"touch"},
           pc[r] = "touch" => work[r].key = NoKey,
           SwapGone(r) \/ SwapFailed(r), UNCHANGED <<store, issued, call, line, work, loginOf>>
    PROVE  Faithful(r)
<1>1. Alone(r)
  <2>1. Ordinary(r) BY SwapEndsOrdinary DEF Swapping, ForkInv
  <2> QED BY <2>1, AloneOrdinary DEF ForkInv
<1>2. CASE work[r].key = NoKey
  <2>1. pc'[r] = "nocookie" BY <1>2 DEF SwapGone, SwapFailed, Goto, ForkInv, Typed, TypeOK
  <2> QED BY <1>1, <2>1, EndsFaithful DEF Live, Handling, Swapping
<1>3. CASE work[r].key # NoKey
  <2>1. pc'[r] = "handler" /\ UNCHANGED inner
        BY <1>3 DEF SwapGone, SwapFailed, Goto, ForkInv, Typed, TypeOK
  <2>2. CopyOK(store, loginOf, inner[r]) /\ Unrotated(inner[r])
        BY <1>3 DEF LoginInv, Holds, HoldsOK, Live, SwapOK, Swapping
  <2>3. HoldsOK(store', loginOf', pc'[r], inner'[r], work'[r])
        BY <2>1, <2>2 DEF HoldsOK, Handling, Swapping
  <2> QED BY <1>1, <2>3 DEF Faithful, Assigns, Writes
<1> QED BY <1>2, <1>3

LEMMA MergeAuth ==
    ASSUME NEW b \in Data, NEW l \in Data, NEW f \in Data
    PROVE  /\ merge_concurrent(b, l, f).auth = pick(b.auth, l.auth, f.auth)
           /\ merge_rotating(b, l, f).auth = pick(b.auth, l.auth, f.auth)
<1>1. ASSUME NEW keep
      PROVE  merge(b, l, f, keep).auth = pick(b.auth, l.auth, f.auth)
      BY DEF merge
<1> QED BY <1>1 DEF merge_concurrent, merge_rotating

(* The row is replaced by the write that leads on from it. *)
LEMMA SwapWrittenFaithful ==
    ASSUME ForkInv, LoginInv, Typed', NEW r \in Requests, pc[r] = "swap",
           store[row_id(inner[r])] # NoRow,
           store[row_id(inner[r])].revision = work[r].expected,
           save(row_id(inner[r]), work[r].next), SwapWritten(r),
           UNCHANGED <<work, call, line, loginOf>>
    PROVE  Faithful(r)
<1> DEFINE q == inner[r]
           w == work[r]
           x == row_id(q)
           m == merge_rotating(q.loaded, q.data, w.next)
           d == IF w.key # NoKey /\ q.pre_cycle_id # NoId THEN m ELSE w.next
           p == [q EXCEPT !.data = d, !.loaded = w.next]
<1>1. x \in Ids /\ q \in Inner /\ w \in Work /\ q.loaded # NoRow
      BY OwnIds, RequestFields DEF ForkInv, LocalsOf
<1>2. w.next \in Data /\ w.expected \in Nat BY <1>1, WorkFields
<1>3. /\ CopyOK(store, loginOf, q) /\ SwapOK(loginOf, q, w) /\ SwapReady(store, loginOf, q, w)
      BY DEF LoginInv, Holds, HoldsOK, Live, Swapping
<1>4. store'[x] = w.next /\ \A i \in Ids \ {x} : store'[i] = store[i]
      BY <1>1 DEF save, ForkInv, Typed, TypeOK
<1>5. w.next # NoRow BY <1>2, LayerAssumption
<1>6. Replaces(x)
      BY <1>2, <1>3, <1>4, <1>5 DEF Replaces, SwapReady
<1>7. \A i \in Ids : store'[i] = store[i] \/ Replaces(i) BY <1>4, <1>6
<1>8. Alone(r)
  <2>1. \A i \in Ids : store'[i] # NoRow => store[i] # NoRow BY <1>4
  <2>2. Ordinary(r) BY <2>1, SwapEndsOrdinary DEF ForkInv
  <2> QED BY <2>2, AloneOrdinary DEF ForkInv
<1>9. CASE w.key = NoKey
  <2>1. pc'[r] = "cookie" BY <1>9 DEF SwapWritten, SendCookie, Goto, ForkInv, Typed, TypeOK
  <2> QED BY <1>7, <1>8, <2>1, EndsFaithful DEF Live, Handling, Swapping
<1>10. CASE w.key # NoKey
  <2>1. inner' = [inner EXCEPT ![r] = p] /\ pc' = [pc EXCEPT ![r] = "handler"]
        BY <1>10 DEF SwapWritten, SetInner, Goto
  <2>2. Unrotated(q) BY <1>3, <1>10 DEF SwapOK
  <2>3. m.auth = pick(q.loaded.auth, q.data.auth, w.next.auth)
    <3>1. q.loaded \in Data /\ q.data \in Data BY <1>1, InnerFields
    <3> QED BY <1>2, <3>1, MergeAuth
  <2>4. w.next.auth.login = loginOf[x] BY <1>3 DEF SwapReady
  <2> HIDE DEF m
  <2>5. d.auth.login = loginOf[q.id]
    <3>1. CASE q.pre_cycle_id = NoId BY <2>4, <3>1 DEF row_id
    <3>2. CASE q.pre_cycle_id # NoId BY <1>1, <1>3, <1>10, <2>3, <2>4, <3>2 DEF CopyOK, pick
    <3> QED BY <3>1, <3>2
  <2>6. q.pre_cycle_id = NoId => d = w.next OBVIOUS
  <2> HIDE DEF d
  <2>7. /\ p.id = q.id /\ p.pre_cycle_id = q.pre_cycle_id /\ p.loaded = w.next /\ p.data = d
        /\ p.dirty = q.dirty
        BY <1>1 DEF Inner
  <2> HIDE DEF p
  <2>8. row_id(p) = x BY <2>7 DEF row_id
  <2>9. Known(store', x, w.next) BY <1>4 DEF Known
  <2>10. CopyOK(store', loginOf, p)
        BY <1>1, <1>3, <2>4, <2>5, <2>7, <2>8, <2>9 DEF CopyOK
  <2>11. Unrotated(p) BY <2>6, <2>7 DEF Unrotated
  <2>12. inner'[r] = p /\ pc'[r] = "handler" BY <2>1 DEF ForkInv, Typed, TypeOK
  <2>13. HoldsOK(store', loginOf', pc'[r], inner'[r], work'[r])
        BY <2>10, <2>11, <2>12 DEF HoldsOK, Handling, Swapping
  <2> QED BY <1>7, <1>8, <2>13 DEF Faithful, Assigns, Writes
<1> QED BY <1>9, <1>10

LEMMA SwapTryFaithful ==
    ASSUME ForkInv, LoginInv, Typed', NEW r \in Requests, SwapTry(r) PROVE Faithful(r)
<1>0. pc[r] = "swap" /\ UNCHANGED <<work, call, line, loginOf>> BY DEF SwapTry
<1>1. CASE (SwapGone(r) \/ SwapFailed(r)) /\ UNCHANGED <<store, issued>>
      BY <1>0, <1>1, SwapEndsFaithful DEF Swapping
<1>2. CASE /\ store[row_id(inner[r])] # NoRow
           /\ store[row_id(inner[r])].revision = work[r].expected
           /\ save(row_id(inner[r]), work[r].next) /\ SwapWritten(r)
      BY <1>0, <1>2, SwapWrittenFaithful
<1>3. CASE Goto(r, "swapload") /\ UNCHANGED <<store, issued, inner>>
  <2>1. Alone(r) BY <1>0, SwapTryOrdinary, AloneOrdinary DEF ForkInv
  <2>2. pc'[r] = "swapload" BY <1>3 DEF Goto, ForkInv, Typed, TypeOK
  <2>3. HoldsOK(store', loginOf', pc'[r], inner'[r], work'[r])
        BY <1>0, <1>3, <2>2 DEF LoginInv, Holds, HoldsOK, Live, Handling, Swapping
  <2> QED BY <1>0, <1>3, <2>1, <2>3 DEF Faithful, Assigns, Writes
<1> QED BY <1>1, <1>2, <1>3 DEF SwapTry

(* A retry leads on from the row as it is now. *)
LEMMA SwapLoadFaithful ==
    ASSUME ForkInv, LoginInv, Typed', NEW r \in Requests, SwapLoad(r) PROVE Faithful(r)
<1> DEFINE q == inner[r]
           w == work[r]
           x == row_id(q)
           row == store[x]
           fresh == IF w.key = NoKey THEN row ELSE without(row, w.key)
           m == merge_concurrent(q.loaded, w.local, fresh)
           v == IF w.key = NoKey THEN w.val ELSE row.custom[w.key]
           y == [w EXCEPT !.val = v, !.expected = row.revision, !.att = w.att + 1,
                          !.next = Stored(m, row.revision + 1)]
<1>0. pc[r] = "swapload" /\ UNCHANGED <<store, issued, call, line, loginOf>>
      BY DEF SwapLoad, shared, history
<1>1. CASE (SwapGone(r) \/ SwapFailed(r)) /\ UNCHANGED work
      BY <1>0, <1>1, SwapEndsFaithful DEF Swapping
<1>2. CASE row # NoRow /\ SetWork(r, y) /\ Goto(r, "swap") /\ UNCHANGED inner
  <2>1. x \in Ids /\ q \in Inner /\ w \in Work /\ q.loaded \in Data
        BY <1>0, OwnIds, RequestFields, InnerFields DEF ForkInv, LocalsOf
  <2>2. w.local \in Data /\ w.key \in Keys \cup {NoKey} BY <2>1, WorkFields
  <2>3. row \in Data /\ row.revision \in Nat /\ row.revision + 1 \in Nat
        BY <1>2, <2>1, RowField DEF ForkInv, Data
  <2>4. fresh \in Data /\ fresh.auth = row.auth
        BY <2>2, <2>3, WithoutFields
  <2> HIDE DEF fresh
  <2>a. m \in Data BY <2>1, <2>2, <2>4, MergeType
  <2>b. m.auth = pick(q.loaded.auth, w.local.auth, fresh.auth)
        BY <2>1, <2>2, <2>4, MergeAuth
  <2>5. m \in Data /\ m.auth = pick(q.loaded.auth, w.local.auth, row.auth)
        BY <2>4, <2>a, <2>b
  <2> HIDE DEF m, v
  <2>6. Stored(m, row.revision + 1).auth = m.auth
        /\ Stored(m, row.revision + 1).revision = row.revision + 1
        BY <2>3, <2>5, StoredFields
  <2>7. /\ y.next = Stored(m, row.revision + 1) /\ y.expected = row.revision
        /\ y.local = w.local /\ y.key = w.key
        BY <2>1 DEF Work
  <2>8. Alone(r)
    <3>1. work' = [work EXCEPT ![r] = y] BY <1>2 DEF SetWork
    <3> HIDE DEF y
    <3> QED BY <3>1, SwapLoadOrdinary, AloneOrdinary DEF ForkInv
  <2>9. work'[r] = y /\ pc'[r] = "swap" /\ inner'[r] = q
        BY <1>2 DEF SetWork, Goto, ForkInv, Typed, TypeOK
  <2> HIDE DEF y
  <2>10. CopyOK(store, loginOf, q) /\ SwapOK(loginOf, q, w)
         BY <1>0 DEF LoginInv, Holds, HoldsOK, Live, Swapping
  <2>11. row.auth.login = loginOf[x] BY <1>2, <2>1 DEF LoginInv, RowLogins
  <2>12. m.auth.login = loginOf[x] BY <2>5, <2>10, <2>11 DEF SwapOK, pick
  <2>13. AuthKept(m.auth, row.auth)
         BY <2>5, <2>10 DEF SwapOK, pick, AuthKept, is_authenticated
  <2>14. SwapReady(store, loginOf, q, y)
         BY <2>3, <2>6, <2>7, <2>12, <2>13 DEF SwapReady
  <2>15. SwapOK(loginOf, q, y) BY <2>7, <2>10 DEF SwapOK
  <2>16. HoldsOK(store', loginOf', pc'[r], inner'[r], work'[r])
         BY <1>0, <2>9, <2>10, <2>14, <2>15 DEF HoldsOK, Handling, Swapping
  <2> QED BY <1>0, <2>8, <2>16 DEF Faithful, Assigns, Writes
<1> QED BY <1>1, <1>2 DEF SwapLoad, Stored

-----------------------------------------------------------------------------
(* finalize_session. *)

(* What the finish of a handler leads to, in the terms of Stored. *)
Finishes(r) ==
    \/ pc'[r] = "nocookie" /\ UNCHANGED <<inner, work, call>>
    \/ LET q == inner[r]
           d == Stored(q.data, q.data.revision + 1)
       IN  /\ inner'[r].data = d /\ inner'[r].loaded = q.loaded /\ inner'[r].dirty = q.dirty
           /\ work'[r].local = d /\ work'[r].expected = q.data.revision
           /\ work'[r].next = Stored(d, q.data.revision + 1) /\ work'[r].key = NoKey
           /\ row_id(inner'[r]) = row_id(q)
           /\ \/ /\ q.dirty = "regenerate" /\ q.pre_cycle_id = NoId
                 /\ inner'[r].id = Minted(r, 1) /\ inner'[r].pre_cycle_id # NoId
                 /\ Minted(r, 1) \in NotYet(r, call[r].minted)
              \/ /\ q.dirty = "regenerate" => q.pre_cycle_id # NoId
                 /\ inner'[r].id = q.id /\ inner'[r].pre_cycle_id = q.pre_cycle_id
           /\ \/ q.dirty = "regenerate" /\ q.loaded # NoRow /\ pc'[r] = "merge"
              \/ q.dirty = "regenerate" /\ q.loaded = NoRow /\ pc'[r] = "remove"
              \/ q.dirty = "modified" /\ q.loaded # NoRow /\ pc'[r] = "swap"
              \/ q.dirty = "clean" /\ q.loaded # NoRow /\ pc'[r] = "touch"
              \/ q.loaded = NoRow /\ pc'[r] = "save"

LEMMA FinishFields ==
    ASSUME ForkInv, NEW r \in Requests, FinishHandler(r) PROVE Finishes(r)
<1> DEFINE q == inner[r]
           n == q.data.revision
           data == Stored(q.data, n + 1)
           o == [q EXCEPT !.data = data]
           m == [q EXCEPT !.pre_cycle_id = q.id, !.id = Minted(r, 1), !.data = data]
           p == IF q.dirty = "regenerate" /\ q.pre_cycle_id = NoId THEN m ELSE o
           l == CASE q.dirty = "regenerate" /\ existing(r)  -> "merge"
                  [] q.dirty = "regenerate" /\ ~existing(r) -> "remove"
                  [] q.dirty = "modified" /\ existing(r)    -> "swap"
                  [] q.dirty = "clean" /\ existing(r)       -> "touch"
                  [] OTHER                                  -> "save"
           k == IF existing(r) THEN q.loaded.auth.kind ELSE "Guest"
           a == first_attempt(NoKey, NoVal, data, n)
           w == [a EXCEPT !.was = k]
<1>0. pc[r] = "handler" BY DEF FinishHandler
<1>1. q \in Inner /\ q.id \in Ids /\ q.dirty \in Dirt /\ q.id # NoId /\ q.data \in Data
      BY <1>0, HandlerFields, InnerFields, NoIdFact DEF ForkInv
<1>2. n \in Nat /\ n + 1 \in Nat BY <1>1 DEF Data
<1>3. capped(q.data) \in Data /\ capped(q.data).revision = n
      BY <1>1, DataTypes DEF capped, Data
<1>4. data = [capped(q.data) EXCEPT !.revision = @ + 1] BY <1>3 DEF Stored, Data
<1>5. data \in Data BY <1>1, <1>2, StoredFields
<1>6. \/ pc' = [pc EXCEPT ![r] = "nocookie"] /\ UNCHANGED <<inner, work, call>>
      \/ /\ inner' = [inner EXCEPT ![r] = p] /\ work' = [work EXCEPT ![r] = w]
         /\ pc' = [pc EXCEPT ![r] = l]
         /\ p.id # q.id => CanMint(r, 1)
      BY <1>4 DEF FinishHandler, SetInner, SetWork, Goto
<1> HIDE DEF data
<1>7. /\ o.id = q.id /\ o.pre_cycle_id = q.pre_cycle_id /\ o.loaded = q.loaded /\ o.data = data
      /\ o.dirty = q.dirty
      BY <1>1 DEF Inner
<1>8. /\ m.id = Minted(r, 1) /\ m.pre_cycle_id = q.id /\ m.loaded = q.loaded /\ m.data = data
      /\ m.dirty = q.dirty
      BY <1>1 DEF Inner
<1> HIDE DEF o, m
<1>9. a.local = data /\ a.expected = n /\ a.next = Stored(data, n + 1) /\ a.key = NoKey
      BY <1>2, <1>5, AttemptFields
<1>10. /\ w.local = a.local /\ w.expected = a.expected /\ w.next = a.next /\ w.key = a.key
       BY DEF first_attempt
<1> HIDE DEF w, a, k
<1>11. p.data = data /\ p.loaded = q.loaded /\ p.dirty = q.dirty /\ row_id(p) = row_id(q)
       BY <1>1, <1>7, <1>8 DEF row_id
<1>12. /\ l \in {"merge", "remove", "swap", "touch", "save"}
       /\ \/ q.dirty = "regenerate" /\ q.loaded # NoRow /\ l = "merge"
          \/ q.dirty = "regenerate" /\ q.loaded = NoRow /\ l = "remove"
          \/ q.dirty = "modified" /\ q.loaded # NoRow /\ l = "swap"
          \/ q.dirty = "clean" /\ q.loaded # NoRow /\ l = "touch"
          \/ q.loaded = NoRow /\ l = "save"
       BY <1>1 DEF existing, Dirt
<1> HIDE DEF l
<1>13. CASE pc' = [pc EXCEPT ![r] = "nocookie"] /\ UNCHANGED <<inner, work, call>>
       BY <1>13 DEF Finishes, ForkInv, Typed, TypeOK
<1>14. CASE /\ inner' = [inner EXCEPT ![r] = p] /\ work' = [work EXCEPT ![r] = w]
            /\ pc' = [pc EXCEPT ![r] = l] /\ (p.id # q.id => CanMint(r, 1))
  <2>1. inner'[r] = p /\ work'[r] = w /\ pc'[r] = l BY <1>14 DEF ForkInv, Typed, TypeOK
  <2>2. call[r].minted \in Nat /\ call[r].minted <= MaxMint BY MintedNat DEF ForkInv
  <2>3. CASE q.dirty = "regenerate" /\ q.pre_cycle_id = NoId
    <3>1. p = m BY <2>3
    <3>2. Minted(r, 1) # q.id
      <4>1. q.id \in issued \/ q.id \in MintedBy(r, call[r].minted)
            BY <1>1 DEF ForkInv, Origins
      <4>2. Minted(r, 1) \notin MintedBy(r, call[r].minted)
            BY <2>2 DEF Minted, MintedBy
      <4>3. Minted(r, 1) \in Ids => Minted(r, 1) \in NotYet(r, call[r].minted)
            BY <2>2, LayerAssumption DEF Minted, NotYet, Ids
      <4>4. Minted(r, 1) \in NotYet(r, call[r].minted) => Minted(r, 1) \notin issued
            BY DEF ForkInv, Unspent, Unused
      <4> QED BY <1>1, <4>1, <4>2, <4>3, <4>4
    <3>3. CanMint(r, 1) BY <1>8, <1>14, <3>1, <3>2
    <3>4. Minted(r, 1) \in NotYet(r, call[r].minted)
          BY <2>2, <3>3, LayerAssumption DEF Minted, NotYet, CanMint
    <3>5. p.id = Minted(r, 1) /\ p.pre_cycle_id # NoId BY <1>1, <1>8, <3>1
    <3> HIDE DEF p
    <3> QED BY <1>9, <1>10, <1>11, <1>12, <2>1, <2>3, <3>4, <3>5 DEF Finishes, data
  <2>4. CASE ~(q.dirty = "regenerate" /\ q.pre_cycle_id = NoId)
    <3>1. p = o BY <2>4
    <3>2. p.id = q.id /\ p.pre_cycle_id = q.pre_cycle_id BY <1>7, <3>1
    <3> HIDE DEF p
    <3> QED BY <1>9, <1>10, <1>11, <1>12, <2>1, <2>4, <3>2 DEF Finishes, data
  <2> QED BY <2>3, <2>4
<1> QED BY <1>6, <1>13, <1>14

LEMMA FinishHandlerFaithful ==
    ASSUME ForkInv, LoginInv, Typed', NEW r \in Requests, FinishHandler(r) PROVE Faithful(r)
<1> DEFINE q == inner[r]
           p == inner'[r]
           w == work'[r]
           n == q.data.revision
           d == Stored(q.data, n + 1)
<1>0. pc[r] = "handler" /\ UNCHANGED <<store, issued, line, loginOf>>
      BY DEF FinishHandler, shared, history
<1>1. Finishes(r) BY FinishFields
<1>2. Alone(r)
  <2>1. \A s \in Requests \ {r} : work'[s] = work[s]
        BY DEF FinishHandler, SetWork, ForkInv, Typed, TypeOK
  <2> QED BY <2>1, FinishHandlerOrdinary DEF Ordinary, Alone
<1>3. CopyOK(store, loginOf, q) /\ Unrotated(q)
      BY <1>0 DEF LoginInv, Holds, HoldsOK, Live, Handling
<1>4. CASE pc'[r] = "nocookie"
      BY <1>0, <1>2, <1>4, EndsFaithful DEF Live, Handling, Swapping
<1>5. CASE pc'[r] # "nocookie"
  <2>1. q.data \in Data /\ q.loaded \in Data \cup {NoRow} /\ q.id \in Ids /\ row_id(q) \in Ids
        BY <1>0, HandlerFields, InnerFields, OwnIds DEF ForkInv
  <2>2. n \in Nat /\ n + 1 \in Nat BY <2>1 DEF Data
  <2>3. d \in Data /\ d.auth = q.data.auth /\ d.revision = n + 1 BY <2>1, <2>2, StoredFields
  <2>a. p.data = d /\ w.next = Stored(d, n + 1) /\ w.local = d BY <1>1, <1>5 DEF Finishes
  <2> HIDE DEF d
  <2>4. /\ p.data.auth = q.data.auth /\ p.data.revision = n + 1 /\ p.loaded = q.loaded
        /\ row_id(p) = row_id(q) /\ p.dirty = q.dirty
        BY <1>1, <1>5, <2>3, <2>a DEF Finishes
  <2>5. CopyOK(store, loginOf, p)
    <3>1. CASE /\ q.dirty = "regenerate" /\ q.pre_cycle_id = NoId /\ p.id = Minted(r, 1)
               /\ p.pre_cycle_id # NoId /\ Minted(r, 1) \in NotYet(r, call[r].minted)
      <4>1. loginOf[p.id] = NoLogin BY <3>1 DEF LoginInv, NoLoginYet
      <4>2. p.data.auth = Guest BY <1>3, <2>4, <3>1 DEF CopyOK
      <4> QED BY <1>3, <2>4, <3>1, <4>1, <4>2 DEF CopyOK, Guest
    <3>2. CASE /\ q.dirty = "regenerate" => q.pre_cycle_id # NoId
               /\ p.id = q.id /\ p.pre_cycle_id = q.pre_cycle_id
          BY <1>3, <2>4, <3>2 DEF CopyOK
    <3> QED BY <1>1, <1>5, <3>1, <3>2 DEF Finishes
  <2>6. CASE pc'[r] \in {"merge", "remove", "save"}
    <3>1. HoldsOK(store', loginOf', pc'[r], inner'[r], work'[r])
          BY <1>0, <2>5, <2>6 DEF HoldsOK, Handling, Swapping
    <3> QED BY <1>0, <1>2, <3>1 DEF Faithful, Assigns, Writes
  <2>7. CASE pc'[r] \in {"swap", "touch"}
    <3>1. /\ q.loaded \in Data /\ q.dirty # "regenerate"
          /\ (pc'[r] = "touch" => q.dirty = "clean")
          BY <1>1, <2>1, <2>7 DEF Finishes
    <3>2. q.pre_cycle_id = NoId /\ p.pre_cycle_id = NoId
          BY <1>0, <1>1, <1>5, <3>1, HandlerFields DEF Finishes, ForkInv
    <3>3. q.loaded # NoRow BY <3>1, LayerAssumption
    <3>4. /\ n = q.loaded.revision
          /\ q.data.auth = q.loaded.auth \/ (q.data.auth.kind = "StepUp" /\ q.dirty # "clean")
          BY <1>3, <3>2, <3>3 DEF Unrotated
    <3>5. w.expected = n /\ w.key = NoKey BY <1>1, <1>5 DEF Finishes
    <3>6. Known(store, row_id(p), p.loaded) /\ row_id(p) \in Ids /\ p.loaded \in Data
          BY <1>3, <2>1, <2>4, <3>1, <3>3 DEF CopyOK
    <3>7. d.auth.login = loginOf[row_id(p)]
          BY <1>3, <2>3, <2>4, <3>2 DEF CopyOK, row_id
    <3>8. CASE pc'[r] = "touch"
      <4>1. TouchOK(p, w) BY <2>4, <3>1, <3>4, <3>5, <3>8 DEF TouchOK
      <4>2. HoldsOK(store', loginOf', pc'[r], inner'[r], work'[r])
            BY <1>0, <2>5, <3>8, <4>1 DEF HoldsOK, Handling, Swapping
      <4> QED BY <1>0, <1>2, <4>2 DEF Faithful, Assigns, Writes
    <3>9. CASE pc'[r] = "swap"
      <4>1. d.auth = p.loaded.auth \/ d.auth.kind = "StepUp" BY <2>3, <2>4, <3>4
      <4>2. w.expected = p.loaded.revision BY <2>4, <3>4, <3>5
      <4>3. w.next = Stored(d, w.expected + 1) BY <2>a, <3>5
      <4>4. store \in [Ids -> Data \cup {NoRow}] BY DEF ForkInv, Typed, TypeOK
      <4>5. SwapReady(store, loginOf, p, w)
            BY <2>3, <3>6, <3>7, <4>1, <4>2, <4>3, <4>4, FirstReady
      <4>6. SwapOK(loginOf, p, w) BY <2>a, <3>5, <3>7, <4>1 DEF SwapOK
      <4>7. HoldsOK(store', loginOf', pc'[r], inner'[r], work'[r])
            BY <1>0, <2>5, <3>9, <4>5, <4>6 DEF HoldsOK, Handling, Swapping
      <4> QED BY <1>0, <1>2, <4>7 DEF Faithful, Assigns, Writes
    <3> QED BY <2>7, <3>8, <3>9
  <2> QED BY <1>1, <1>5, <2>6, <2>7 DEF Finishes
<1> QED BY <1>4, <1>5

LEMMA TouchFaithful ==
    ASSUME ForkInv, LoginInv, Typed', NEW r \in Requests, Touch(r) PROVE Faithful(r)
<1> DEFINE q == inner[r]
           w == work[r]
<1>0. pc[r] = "touch" /\ UNCHANGED <<call, line, work, loginOf>> BY DEF Touch, history
<1>1. q.id \in Ids /\ row_id(q) = q.id /\ q.data \in Data /\ q.loaded \in Data /\ w.expected \in Nat
      BY <1>0, OwnIds, RequestFields, InnerFields, WorkFields DEF ForkInv, LocalsOf, row_id
<1>a. w.key = NoKey BY <1>0 DEF LoginInv, Holds, HoldsOK, TouchOK
<1>2. CASE (SwapGone(r) \/ SwapFailed(r)) /\ UNCHANGED <<store, issued>>
      BY <1>0, <1>a, <1>2, SwapEndsFaithful
<1>3. CASE /\ store[q.id] # NoRow /\ SendCookie(r)
           /\ IF store[q.id].revision = w.expected THEN save(q.id, q.data) ELSE UNCHANGED store
  <2>1. CopyOK(store, loginOf, q) /\ TouchOK(q, w)
        BY <1>0 DEF LoginInv, Holds, HoldsOK, Live
  <2>2. pc'[r] = "cookie" BY <1>3 DEF SendCookie, Goto, ForkInv, Typed, TypeOK
  <2>3. Alone(r) BY <1>0, TouchOrdinary, AloneOrdinary DEF ForkInv
  <2>4. \A i \in Ids : store'[i] = store[i] \/ Replaces(i)
    <3>1. CASE store[q.id].revision = w.expected /\ save(q.id, q.data)
      <4>1. store'[q.id] = q.data /\ \A i \in Ids \ {q.id} : store'[i] = store[i]
            BY <1>1, <3>1 DEF save, ForkInv, Typed, TypeOK
      <4>2. q.data # NoRow /\ q.loaded # NoRow BY <1>1, LayerAssumption
      <4>3. store[q.id] = q.loaded
            BY <1>1, <1>3, <2>1, <3>1, <4>2 DEF CopyOK, Known, TouchOK
      <4>4. Replaces(q.id)
            BY <1>1, <1>3, <2>1, <3>1, <4>1, <4>2, <4>3 DEF Replaces, CopyOK, TouchOK, AuthKept
      <4> QED BY <4>1, <4>4
    <3>2. CASE UNCHANGED store BY <3>2
    <3> QED BY <1>3, <3>1, <3>2
  <2> QED BY <1>0, <2>2, <2>3, <2>4, EndsFaithful DEF Live, Handling, Swapping
<1> QED BY <1>2, <1>3 DEF Touch

(* A session is stored under an id that only its request knows. *)
LEMMA FoundsFaithful ==
    ASSUME ForkInv, LoginInv, Typed', NEW r \in Requests, pc[r] \in {"save", "move"},
           inner[r].id \in MintedBy(r, call[r].minted), save(inner[r].id, inner[r].data),
           pc' = [pc EXCEPT ![r] = "cookie"] \/ pc' = [pc EXCEPT ![r] = "liveold"],
           UNCHANGED <<inner, work, call, loginOf>>
    PROVE  Faithful(r)
<1> DEFINE x == inner[r].id
<1>1. x \in MintedBy(r, MaxMint) /\ x \in Ids BY MintedNat, Minting DEF ForkInv
<1>2. x \notin issued BY <1>1 DEF ForkInv, NotSent, Finished
<1>3. inner[r].data \in Data /\ inner[r].data # NoRow
      BY RequestFields, InnerFields, LayerAssumption DEF ForkInv
<1>4. store'[x] = inner[r].data /\ \A i \in Ids \ {x} : store'[i] = store[i]
      BY <1>1 DEF save, ForkInv, Typed, TypeOK
<1>5. inner[r].data.auth.login = loginOf[x]
      BY DEF LoginInv, Holds, HoldsOK, Live, CopyOK
<1>6. Founds(r, x) BY <1>2, <1>3, <1>4, <1>5 DEF Founds
<1>7. pc'[r] \in {"cookie", "liveold"} /\ \A s \in Requests \ {r} : pc'[s] = pc[s]
      BY DEF ForkInv, Typed, TypeOK
<1>8. Alone(r) BY <1>7, MintedNat DEF Alone, ForkInv
<1> QED BY <1>4, <1>6, <1>7, <1>8, EndsFaithful DEF Live, Handling, Swapping

LEMMA SaveFreshFaithful ==
    ASSUME ForkInv, LoginInv, Typed', NEW r \in Requests, SaveFresh(r) PROVE Faithful(r)
<1>0. /\ pc[r] = "save" /\ inner[r].loaded = NoRow /\ inner[r].pre_cycle_id = NoId
      /\ UNCHANGED <<inner, work, call, loginOf>>
      BY RequestFields DEF SaveFresh, ForkInv, SavesFresh, LocalsOf, history
<1>1. inner[r].id \in MintedBy(r, call[r].minted)
      BY <1>0 DEF ForkInv, Unstored, Before, row_id
<1>2. CASE save(inner[r].id, inner[r].data) /\ SendCookie(r)
      BY <1>0, <1>1, <1>2, FoundsFaithful DEF SendCookie, Goto
<1>3. CASE Goto(r, "nocookie") /\ UNCHANGED <<store, issued>>
  <2>1. pc'[r] = "nocookie" /\ \A s \in Requests \ {r} : pc'[s] = pc[s]
        BY <1>3 DEF Goto, ForkInv, Typed, TypeOK
  <2>2. Alone(r) BY <1>0, <2>1, MintedNat DEF Alone, ForkInv
  <2> QED BY <1>0, <1>3, <2>1, <2>2, EndsFaithful DEF Live, Handling, Swapping
<1> QED BY <1>2, <1>3 DEF SaveFresh

LEMMA CycleSaveFaithful ==
    ASSUME ForkInv, LoginInv, Typed', NEW r \in Requests, CycleSave(r) PROVE Faithful(r)
<1>0. /\ pc[r] = "move" /\ inner[r].pre_cycle_id # NoId
      /\ UNCHANGED <<inner, work, call, loginOf>>
      BY RequestFields DEF CycleSave, ForkInv, LocalsOf, Cycling
<1>1. inner[r].id \in MintedBy(r, call[r].minted) BY <1>0 DEF ForkInv, RotatesToOwn
<1>2. CASE /\ save(inner[r].id, inner[r].data)
           /\ Goto(r, "liveold") \/ SendCookie(r)
      BY <1>0, <1>1, <1>2, FoundsFaithful DEF SendCookie, Goto
<1>3. CASE Goto(r, "failclosed") /\ UNCHANGED <<store, issued>>
  <2>1. pc'[r] = "failclosed" /\ \A s \in Requests \ {r} : pc'[s] = pc[s]
        BY <1>3 DEF Goto, ForkInv, Typed, TypeOK
  <2>2. Alone(r) BY <1>0, <2>1, MintedNat DEF Alone, ForkInv
  <2> QED BY <1>0, <1>3, <2>1, <2>2, EndsFaithful DEF Live, Handling, Swapping
<1> QED BY <1>2, <1>3 DEF CycleSave

(* The rotation goes on with what it has. *)
LEMMA CyclingFaithful ==
    ASSUME ForkInv, LoginInv, Typed', NEW r \in Requests, Alone(r),
           pc[r] \in {"merge", "remove"}, pc'[r] \in {"merge", "remove", "move"},
           inner'[r] = inner[r], UNCHANGED loginOf,
           \A i \in Ids : store'[i] = store[i] \/ store'[i] = NoRow
    PROVE  Faithful(r)
<1>1. CopyOK(store, loginOf, inner[r]) BY DEF LoginInv, Holds, HoldsOK, Live
<1>2. row_id(inner[r]) \in Ids BY OwnIds
<1>3. CopyOK(store', loginOf, inner[r]) BY <1>1, <1>2 DEF CopyOK, Known
<1>4. HoldsOK(store', loginOf', pc'[r], inner'[r], work'[r])
      BY <1>3 DEF HoldsOK, Handling, Swapping
<1> QED BY <1>4 DEF Faithful, Assigns, Writes

LEMMA CycleMergeFaithful ==
    ASSUME ForkInv, LoginInv, Typed', NEW r \in Requests, CycleMerge(r) PROVE Faithful(r)
<1> DEFINE q == inner[r]
           fresh == store[q.pre_cycle_id]
           m == merge_rotating(q.loaded, q.data, fresh)
           n == fresh.revision + 1
           d == Stored(m, n)
           p == [q EXCEPT !.loaded = fresh, !.data = d]
<1>0. /\ pc[r] = "merge" /\ UNCHANGED <<store, issued, call, line, loginOf>>
      BY DEF CycleMerge, shared, history
<1>1. Alone(r)
  <2>1. \A s \in Requests \ {r} : work'[s] = work[s]
        BY DEF CycleMerge, SetWork, ForkInv, Typed, TypeOK
  <2>2. Ordinary(r) BY CycleMergeOrdinary DEF ForkInv
  <2> QED BY <2>1, <2>2 DEF Ordinary, Alone
<1>2. /\ q \in Inner /\ q.loaded \in Data /\ q.data \in Data /\ q.pre_cycle_id # NoId
      /\ q.pre_cycle_id \in Ids
      BY <1>0, RequestFields, InnerFields, ActiveFields DEF LocalsOf, ForkInv, Cycling
<1>3. CASE UNCHANGED inner /\ Goto(r, "remove")
  <2>1. pc'[r] = "remove" BY <1>3 DEF Goto, ForkInv, Typed, TypeOK
  <2> QED BY <1>0, <1>1, <1>3, <2>1, CyclingFaithful
<1>4. CASE Goto(r, "failclosed")
  <2>1. pc'[r] = "failclosed" BY <1>4 DEF Goto, ForkInv, Typed, TypeOK
  <2> QED BY <1>0, <1>1, <2>1, EndsFaithful DEF Live, Handling, Swapping
<1>5. CASE fresh # NoRow /\ SetInner(r, p) /\ Goto(r, "remove")
  <2>1. fresh \in Data /\ n \in Nat BY <1>2, <1>5, RowField DEF ForkInv, Data
  <2>2. m \in Data BY <1>2, <2>1, MergeType
  <2>3. m.auth = pick(q.loaded.auth, q.data.auth, fresh.auth) BY <1>2, <2>1, MergeAuth
  <2> HIDE DEF m, n
  <2>4. d.auth = m.auth BY <2>1, <2>2, StoredFields
  <2> HIDE DEF d
  <2>5. /\ p.id = q.id /\ p.pre_cycle_id = q.pre_cycle_id /\ p.loaded = fresh /\ p.data = d
        /\ p.dirty = q.dirty
        BY <1>2 DEF Inner
  <2>6. inner'[r] = p /\ pc'[r] = "remove" BY <1>5 DEF SetInner, Goto, ForkInv, Typed, TypeOK
  <2> HIDE DEF p
  <2>7. CopyOK(store, loginOf, q) BY <1>0 DEF LoginInv, Holds, HoldsOK, Live
  <2>8. row_id(q) = q.pre_cycle_id /\ row_id(p) = q.pre_cycle_id BY <1>2, <2>5 DEF row_id
  <2>9. fresh.auth.login = loginOf[q.pre_cycle_id]
        BY <1>2, <1>5 DEF LoginInv, RowLogins
  <2>10. q.loaded # NoRow BY <1>2, LayerAssumption
  <2>11. d.auth.login = loginOf[q.id]
         BY <2>3, <2>4, <2>7, <2>8, <2>9, <2>10 DEF CopyOK, pick
  <2>12. Known(store, q.pre_cycle_id, fresh) BY DEF Known
  <2>13. CopyOK(store, loginOf, p)
         BY <1>2, <2>5, <2>8, <2>9, <2>11, <2>12 DEF CopyOK
  <2>14. HoldsOK(store', loginOf', pc'[r], inner'[r], work'[r])
         BY <1>0, <2>6, <2>13 DEF HoldsOK, Handling, Swapping
  <2> QED BY <1>0, <1>1, <2>14 DEF Faithful, Assigns, Writes
<1> QED BY <1>3, <1>4, <1>5 DEF CycleMerge, Stored

LEMMA CycleRemoveFaithful ==
    ASSUME ForkInv, LoginInv, Typed', NEW r \in Requests, CycleRemove(r) PROVE Faithful(r)
<1>0. pc[r] = "remove" /\ UNCHANGED <<issued, call, line, loginOf>> BY DEF CycleRemove, history
<1>1. \A s \in Requests \ {r} : work'[s] = work[s] /\ inner'[s] = inner[s] /\ pc'[s] = pc[s]
      BY DEF CycleRemove, CycleGone, CycleConflict, SetWork, SetInner, Goto, ForkInv, Typed, TypeOK
<1>2. Alone(r) BY <1>0, <1>1, MintedNat DEF Alone, ForkInv
<1>3. \A i \in Ids : store'[i] = store[i] \/ store'[i] = NoRow
      BY DEF CycleRemove, delete, ForkInv, Typed, TypeOK
<1>4. \/ pc'[r] \in {"nocookie", "failclosed"}
      \/ pc'[r] \in {"merge", "move"} /\ UNCHANGED inner
      BY DEF CycleRemove, CycleGone, CycleConflict, Goto, ForkInv, Typed, TypeOK
<1>5. CASE pc'[r] \in {"nocookie", "failclosed"}
      BY <1>0, <1>2, <1>3, <1>5, EndsFaithful DEF Live, Handling, Swapping
<1>6. CASE pc'[r] \in {"merge", "move"} /\ UNCHANGED inner
      BY <1>0, <1>2, <1>3, <1>6, CyclingFaithful
<1> QED BY <1>4, <1>5, <1>6

-----------------------------------------------------------------------------
(* The invariant is inductive. *)

LEMMA RequestFaithful ==
    ASSUME ForkInv, LoginInv, Typed', NEW r \in Requests,
           LoadNothing(r) \/ LoadRow(r) \/ Operate(r) \/ Serve(r)
    PROVE  Faithful(r)
<1>0. Typed BY DEF ForkInv
<1>1. CASE LoadNothing(r) \/ LoadRow(r) \/ Verdict(r) \/ EndRow(r) BY <1>1, LoadingFaithful
<1>2. CASE Operate(r)
      BY <1>2, CustomFaithful, TakeFaithful, RegenerateFaithful, BeginLoginFaithful,
         CompleteFactorFaithful, OAuthLoginFaithful, StepUpFaithful, ImpersonateFaithful,
         LogoutFaithful
      DEF Operate
<1>3. CASE Serve(r)
      BY <1>0, <1>1, <1>3, RegisteringFaithful, SwapTryFaithful, SwapLoadFaithful,
         FinishHandlerFaithful, TouchFaithful, SaveFreshFaithful, CycleMergeFaithful,
         CycleRemoveFaithful, CycleSaveFaithful, FailClosedFaithful, SettlingFaithful
      DEF Serve
<1> QED BY <1>1, <1>2, <1>3

(* Every other step deletes rows, if anything. *)
LEMMA OtherSteps ==
    ASSUME Typed, Administer \/ Expire \/ UNCHANGED vars
    PROVE  /\ UNCHANGED <<issued, pc, inner, work, call, loginOf, line, planted, got>>
           /\ \A i \in Ids : store'[i] = store[i] \/ store'[i] = NoRow
<1>1. UNCHANGED <<issued, pc, inner, work, call, loginOf, line, planted, got>>
      BY DEF Administer, Expire, ListUser, ListSession, Revoke, DeleteRow, shared, history, vars
<1>2. \A i \in Ids : store'[i] = store[i] \/ store'[i] = NoRow
      BY DEF Administer, Expire, ListUser, ListSession, Revoke, DeleteRow, shared, vars,
             try_delete, delete, Typed, TypeOK
<1> QED BY <1>1, <1>2

LEMMA DeletingHolds ==
    ASSUME ForkInv, LoginInv, Typed', UNCHANGED <<issued, pc, inner, work, call, loginOf>>,
           \A i \in Ids : store'[i] = store[i] \/ store'[i] = NoRow
    PROVE  LoginInv'
<1>1. RowLogins' /\ NoLoginYet' BY DEF LoginInv, RowLogins, NoLoginYet
<1>2. ASSUME NEW s \in Requests
      PROVE  HoldsOK(store', loginOf', pc'[s], inner'[s], work'[s])
  <2>1. HoldsOK(store, loginOf, pc[s], inner[s], work[s]) BY DEF LoginInv, Holds
  <2>2. inner[s] \in Inner /\ work[s] \in Work BY RequestFields DEF ForkInv
  <2>3. pc[s] \in Live \cup {"verdict"} => inner[s].id \in Ids /\ row_id(inner[s]) \in Ids
        BY ActiveFields DEF ForkInv, Live, Handling, Swapping
  <2>4. \A x \in Ids : Moved(store, store', x) BY DEF Moved
  <2>5. store \in [Ids -> Data \cup {NoRow}] /\ store' \in [Ids -> Data \cup {NoRow}]
        BY DEF ForkInv, Typed, TypeOK
  <2>6. pc[s] \in Live \cup {"verdict"} =>
            \A x \in {inner[s].id, row_id(inner[s])} :
                x \in Ids /\ loginOf[x] = loginOf[x] /\ Moved(store, store', x)
        BY <2>3, <2>4
  <2>7. HoldsOK(store', loginOf, pc[s], inner[s], work[s])
        BY <2>1, <2>2, <2>5, <2>6, HoldsMoved
  <2> QED BY <2>7
<1>3. Holds' BY <1>2 DEF Holds
<1> QED BY <1>1, <1>3 DEF LoginInv

LEMMA InitLogins == Init => LoginInv
<1> SUFFICES ASSUME Init PROVE LoginInv OBVIOUS
<1>1. \A r \in Requests : pc[r] = "idle" /\ call[r].minted = 0 BY DEF Init
<1>2. RowLogins BY DEF Init, RowLogins
<1>3. NoLoginYet
  <2> SUFFICES ASSUME NEW r \in Requests, NEW x \in NotYet(r, 0) PROVE loginOf[x] = NoLogin
      BY <1>1 DEF NoLoginYet
  <2>1. x \in Ids /\ x # Seed BY LayerAssumption DEF NotYet, Ids
  <2> QED BY <2>1 DEF Init
<1>4. Holds BY <1>1 DEF Holds, HoldsOK, Live, Handling, Swapping
<1> QED BY <1>2, <1>3, <1>4 DEF LoginInv

LEMMA NextLogins ==
    ASSUME ForkInv, LoginInv, [Next]_vars PROVE LoginInv'
<1>0. Typed /\ Typed' BY NextTyped DEF ForkInv
<1>1. ASSUME NEW r \in Requests, LoadNothing(r) \/ LoadRow(r) \/ Operate(r) \/ Serve(r)
      PROVE  LoginInv'
      BY <1>0, <1>1, RequestFaithful, FaithfulStep
<1>2. CASE Administer \/ Expire \/ UNCHANGED vars
      BY <1>0, <1>2, OtherSteps, DeletingHolds
<1> QED BY <1>1, <1>2 DEF Next, AllServed

(* What NoFixation says of a step. *)
Fixed ==
    \A i \in issued : store'[i] # NoRow /\ is_authenticated(store'[i].auth) =>
        store[i] # NoRow /\ store[i].auth = store'[i].auth

LEMMA NextFixed ==
    ASSUME ForkInv, LoginInv, [Next]_vars PROVE Fixed
<1>0. Typed /\ Typed' BY NextTyped DEF ForkInv
<1>1. issued \subseteq Ids BY <1>0 DEF Typed, TypeOK
<1>2. ASSUME NEW r \in Requests, LoadNothing(r) \/ LoadRow(r) \/ Operate(r) \/ Serve(r)
      PROVE  Fixed
      BY <1>0, <1>1, <1>2, RequestFaithful, FaithfulFixed DEF Fixed
<1>3. CASE Administer \/ Expire \/ UNCHANGED vars
      BY <1>0, <1>1, <1>3, OtherSteps DEF Fixed
<1> QED BY <1>2, <1>3 DEF Next, AllServed

(* No fixation: whatever requests do at once, an id that is already in a   *)
(* cookie never comes to stand for a login it did not stand for; a login   *)
(* is stored under an id that was never sent (rotate_id at every           *)
(* transition, the revision check of every write).                         *)
THEOREM Unfixed == Spec => NoFixation
<1>1. Init => ForkInv /\ LoginInv BY InitForks, InitLogins
<1>2. ForkInv /\ LoginInv /\ [Next]_vars => ForkInv' /\ LoginInv' BY NextForks, NextLogins
<1>3. Spec => [](ForkInv /\ LoginInv) BY <1>1, <1>2, PTL DEF Spec
<1>4. ForkInv /\ LoginInv /\ [Next]_vars =>
        [\A i \in issued :
          store'[i] # NoRow /\ is_authenticated(store'[i].auth) =>
              store[i] # NoRow /\ store[i].auth = store'[i].auth]_vars
      BY NextFixed DEF Fixed
<1> QED BY <1>3, <1>4, PTL DEF Spec, NoFixation

-----------------------------------------------------------------------------
(* The cap.  What is stored, and what is about to be, is within it. *)

Within(bag) == MaxKeys > 0 => Cardinality({k \in Keys : bag[k] # NoVal}) <= MaxKeys

Capped(p, q, w) ==
    /\ p = "swap" => Within(w.next.custom)
    /\ p \in {"touch", "save", "merge", "remove", "move"} => Within(q.data.custom)

CapInv ==
    /\ \A i \in Ids : store[i] # NoRow => Within(store[i].custom)
    /\ \A r \in Requests : Capped(pc[r], inner[r], work[r])

Keeps(r) ==
    /\ \A i \in Ids : store'[i] = store[i] \/ store'[i] = NoRow \/ Within(store'[i].custom)
    /\ Capped(pc'[r], inner'[r], work'[r])

LEMMA CapWithin ==
    ASSUME NEW b \in Bag PROVE Within(cap_custom(b))
<1>1. {k \in Keys : EmptyBag[k] # NoVal} = {} BY DEF EmptyBag
<1>2. Cardinality({k \in Keys : EmptyBag[k] # NoVal}) = 0 BY <1>1, FS_EmptySet
<1>3. Within(EmptyBag) BY <1>2, DataAssumption DEF Within
<1> DEFINE n == Cardinality({k \in Keys : b[k] # NoVal})
<1>4. n \in Nat
  <2> DEFINE S == {k \in Keys : b[k] # NoVal}
  <2>1. S \in SUBSET Keys OBVIOUS
  <2> HIDE DEF S
  <2>2. IsFiniteSet(S) BY <2>1, DataAssumption, FS_Subset
  <2> QED BY <2>2, FS_CardinalityType DEF S
<1>5. cap_custom(b) = EmptyBag \/ (cap_custom(b) = b /\ ~(MaxKeys > 0 /\ n > MaxKeys))
      BY DEF cap_custom
<1>6. ~(MaxKeys > 0 /\ n > MaxKeys) => Within(b) BY <1>4, DataAssumption DEF Within
<1> QED BY <1>3, <1>5, <1>6

LEMMA StoredWithin ==
    ASSUME NEW d \in Data, NEW n \in Nat PROVE Within(Stored(d, n).custom)
<1>1. d.custom \in Bag BY DataTypes
<1> QED BY <1>1, StoredFields, CapWithin

LEMMA KeepsStep ==
    ASSUME CapInv, NEW r \in Requests, Alone(r), Keeps(r) PROVE CapInv'
BY DEF CapInv, Keeps, Alone

LEMMA QuietKeeps ==
    ASSUME NEW r \in Requests,
           \A i \in Ids : store'[i] = store[i] \/ store'[i] = NoRow,
           pc'[r] \notin {"swap", "touch", "save", "merge", "remove", "move"}
    PROVE  Keeps(r)
BY DEF Keeps, Capped

LEMMA LoadingKeeps ==
    ASSUME ForkInv, NEW r \in Requests,
           LoadNothing(r) \/ LoadRow(r) \/ Verdict(r) \/ EndRow(r)
    PROVE  Keeps(r)
<1>1. \A i \in Ids : store'[i] = store[i] \/ store'[i] = NoRow
      BY DEF LoadNothing, LoadRow, Verdict, EndRow, shared, try_delete, delete, ForkInv,
             Typed, TypeOK
<1>2. pc'[r] \in {"handler", "verdict", "endrow"}
  <2>1. \A c, d : StartFresh(r, c, d) => pc'[r] = "handler"
        BY DEF StartFresh, Goto, ForkInv, Typed, TypeOK
  <2>2. \A c, i, row : Trust(r, c, i, row) => pc'[r] = "handler"
        BY <2>1 DEF Trust, Goto, ForkInv, Typed, TypeOK
  <2>3. \A l : Goto(r, l) => pc'[r] = l BY DEF Goto, ForkInv, Typed, TypeOK
  <2> QED BY <2>1, <2>2, <2>3 DEF LoadNothing, LoadRow, Verdict, EndRow
<1> QED BY <1>1, <1>2, QuietKeeps

LEMMA OperateKeeps ==
    ASSUME ForkInv, NEW r \in Requests, Operate(r) \/ Register(r) \/ Recheck(r), ~Take(r)
    PROVE  Keeps(r)
<1>1. UNCHANGED store
      BY DEF Operate, Register, Recheck, SetCustom, RemoveCustom, ClearCustom, Regenerate,
             BeginLogin, CompleteFactor, OAuthLogin, StepUp, Impersonate, Logout, shared
<1>2. pc'[r] \in Handling
  <2>1. pc[r] \in Handling
        BY DEF Operate, Register, Recheck, SetCustom, RemoveCustom, ClearCustom, Regenerate,
               BeginLogin, CompleteFactor, OAuthLogin, StepUp, Impersonate, Logout, Handler,
               Handling
  <2>2. UNCHANGED pc \/ Goto(r, "handler") \/ Goto(r, "register") \/ Goto(r, "recheck")
        BY DEF Operate, Register, Recheck, SetCustom, RemoveCustom, ClearCustom, Regenerate,
               BeginLogin, CompleteFactor, OAuthLogin, StepUp, Impersonate, Logout
  <2> QED BY <2>1, <2>2 DEF Goto, Handling, ForkInv, Typed, TypeOK
<1> QED BY <1>1, <1>2, QuietKeeps DEF Handling

LEMMA SettlingKeeps ==
    ASSUME ForkInv, NEW r \in Requests,
           \/ LiveOld(r) \/ RegisterNew(r) \/ RereadOld(r) \/ InvalidateOld(r)
           \/ LiveNew(r) \/ EndRevoked(r) \/ EndUntracked(r) \/ FailClosed(r)
    PROVE  Keeps(r)
<1>1. \A i \in Ids : store'[i] = store[i] \/ store'[i] = NoRow
      BY DEF LiveOld, RegisterNew, RereadOld, InvalidateOld, LiveNew, EndRevoked,
             EndUntracked, FailClosed, shared, try_delete, delete, ForkInv, Typed, TypeOK
<1>2. pc'[r] \in Settling \cup {"cookie", "ended", "closed"}
      BY DEF LiveOld, RegisterNew, RereadOld, InvalidateOld, LiveNew, EndRevoked, FailClosed,
             EndUntracked, OnUntracked, SendCookie, Goto, Settling, ForkInv, Typed, TypeOK
<1> QED BY <1>1, <1>2, QuietKeeps DEF Settling

(* What a take writes. *)
LEMMA TakeWork ==
    ASSUME ForkInv, NEW r \in Requests, Take(r)
    PROVE  /\ UNCHANGED store
           /\ \/ pc'[r] = "handler"
              \/ /\ pc'[r] = "swap" /\ inner[r].loaded \in Data
                 /\ \E k \in Keys :
                        LET d == take_local(inner[r], k)
                        IN  /\ d \in Data /\ work'[r].local = d
                            /\ work'[r].next = Stored(d, d.revision + 1)
                            /\ d.revision + 1 \in Nat
<1>1. PICK k \in Keys :
        /\ Handler(r, "take", k)
        /\ \/ /\ inner[r].loaded # NoRow /\ Goto(r, "swap")
              /\ SetWork(r, first_attempt(k, inner[r].data.custom[k], take_local(inner[r], k),
                                          take_local(inner[r], k).revision))
           \/ UNCHANGED <<pc, work>>
        /\ UNCHANGED store
      BY DEF Take, shared
<1> DEFINE d == take_local(inner[r], k)
           w == first_attempt(k, inner[r].data.custom[k], d, d.revision)
<1>2. pc[r] = "handler" BY <1>1 DEF Handler
<1>3. inner[r].data \in Data /\ inner[r].loaded \in Data \cup {NoRow}
      BY <1>2, HandlerFields, InnerFields DEF ForkInv
<1>4. CASE UNCHANGED <<pc, work>> BY <1>1, <1>2, <1>4
<1>5. CASE inner[r].loaded # NoRow /\ Goto(r, "swap") /\ SetWork(r, w)
  <2>1. d \in Data BY <1>3, <1>5, WithoutFields DEF take_local
  <2>2. d.revision \in Nat /\ d.revision + 1 \in Nat BY <2>1 DEF Data
  <2> HIDE DEF d
  <2>3. w.next = Stored(d, d.revision + 1) /\ w.local = d BY <2>1, <2>2, AttemptFields
  <2>4. work'[r] = w /\ pc'[r] = "swap" BY <1>5 DEF SetWork, Goto, ForkInv, Typed, TypeOK
  <2> HIDE DEF w
  <2>5. inner[r].loaded \in Data BY <1>3, <1>5
  <2> QED BY <1>1, <2>1, <2>2, <2>3, <2>4, <2>5 DEF d
<1> QED BY <1>1, <1>4, <1>5

LEMMA TakeKeeps ==
    ASSUME ForkInv, NEW r \in Requests, Take(r) PROVE Keeps(r)
<1>1. CASE pc'[r] = "handler" BY <1>1, TakeWork, QuietKeeps
<1>2. CASE pc'[r] = "swap"
  <2>1. PICK k \in Keys :
            LET d == take_local(inner[r], k)
            IN  d \in Data /\ work'[r].next = Stored(d, d.revision + 1) /\ d.revision + 1 \in Nat
        BY <1>2, TakeWork
  <2>2. Within(work'[r].next.custom) BY <2>1, StoredWithin
  <2> QED BY <1>2, <2>2, TakeWork DEF Keeps, Capped
<1> QED BY <1>1, <1>2, TakeWork

LEMMA SwapTryKeeps ==
    ASSUME ForkInv, CapInv, NEW r \in Requests, SwapTry(r) PROVE Keeps(r)
<1>0. pc[r] = "swap" BY DEF SwapTry
<1>1. row_id(inner[r]) \in Ids BY <1>0, OwnIds
<1>2. Within(work[r].next.custom) BY <1>0 DEF CapInv, Capped
<1>3. \A i \in Ids : store'[i] = store[i] \/ Within(store'[i].custom)
      BY <1>1, <1>2 DEF SwapTry, save, ForkInv, Typed, TypeOK
<1>4. pc'[r] \in {"swapload", "handler", "cookie", "nocookie"}
      BY DEF SwapTry, SwapGone, SwapFailed, SwapWritten, SendCookie, Goto, ForkInv, Typed, TypeOK
<1> QED BY <1>3, <1>4 DEF Keeps, Capped

(* What a retry of a swap writes. *)
LEMMA SwapLoadWork ==
    ASSUME ForkInv, NEW r \in Requests, SwapLoad(r)
    PROVE  /\ UNCHANGED store
           /\ \/ pc'[r] \in {"handler", "nocookie"}
              \/ /\ pc'[r] = "swap" /\ inner'[r] = inner[r]
                 /\ LET q     == inner[r]
                        w     == work[r]
                        row   == store[row_id(q)]
                        fresh == IF w.key = NoKey THEN row ELSE without(row, w.key)
                        m     == merge_concurrent(q.loaded, w.local, fresh)
                    IN  /\ row \in Data /\ fresh \in Data /\ m \in Data
                        /\ q.loaded \in Data /\ w.local \in Data
                        /\ fresh.custom = row.custom \/ \E k \in Keys :
                                fresh.custom = [row.custom EXCEPT ![k] = NoVal]
                        /\ row.revision + 1 \in Nat
                        /\ work'[r].next = Stored(m, row.revision + 1)
                        /\ work'[r].local = w.local
<1> DEFINE q == inner[r]
           w == work[r]
           x == row_id(q)
           row == store[x]
           fresh == IF w.key = NoKey THEN row ELSE without(row, w.key)
           m == merge_concurrent(q.loaded, w.local, fresh)
           v == IF w.key = NoKey THEN w.val ELSE row.custom[w.key]
           y == [w EXCEPT !.val = v, !.expected = row.revision, !.att = w.att + 1,
                          !.next = Stored(m, row.revision + 1)]
<1>0. pc[r] = "swapload" /\ UNCHANGED store BY DEF SwapLoad, shared
<1>1. CASE SwapGone(r) \/ SwapFailed(r)
      BY <1>0, <1>1 DEF SwapGone, SwapFailed, Goto, ForkInv, Typed, TypeOK
<1>2. CASE row # NoRow /\ SetWork(r, y) /\ Goto(r, "swap") /\ UNCHANGED inner
  <2>1. x \in Ids /\ q \in Inner /\ w \in Work /\ q.loaded \in Data
        BY <1>0, OwnIds, RequestFields, InnerFields DEF ForkInv, LocalsOf
  <2>2. w.local \in Data /\ w.key \in Keys \cup {NoKey} BY <2>1, WorkFields
  <2>3. row \in Data /\ row.revision \in Nat /\ row.revision + 1 \in Nat
        BY <1>2, <2>1, RowField DEF ForkInv, Data
  <2>4. /\ fresh \in Data
        /\ fresh.custom = row.custom \/ \E k \in Keys :
                fresh.custom = [row.custom EXCEPT ![k] = NoVal]
    <3>1. CASE w.key = NoKey BY <2>3, <3>1
    <3>2. CASE w.key # NoKey
      <4>1. w.key \in Keys /\ fresh = without(row, w.key) BY <2>2, <3>2
      <4>2. without(row, w.key).custom = [row.custom EXCEPT ![w.key] = NoVal]
            BY <2>3, <4>1, WithoutFields
      <4>3. without(row, w.key) \in Data BY <2>3, <4>1, WithoutFields
      <4> HIDE DEF fresh
      <4> QED BY <4>1, <4>2, <4>3
    <3> QED BY <3>1, <3>2
  <2> HIDE DEF fresh
  <2>5. m \in Data BY <2>1, <2>2, <2>4, MergeType
  <2> HIDE DEF m, v
  <2>6. y.next = Stored(m, row.revision + 1) /\ y.local = w.local BY <2>1 DEF Work
  <2>7. work'[r] = y /\ pc'[r] = "swap" /\ inner'[r] = q
        BY <1>2 DEF SetWork, Goto, ForkInv, Typed, TypeOK
  <2> HIDE DEF y
  <2> QED BY <1>0, <2>1, <2>2, <2>3, <2>4, <2>5, <2>6, <2>7 DEF m, fresh
<1> QED BY <1>1, <1>2 DEF SwapLoad, Stored

LEMMA SwapLoadKeeps ==
    ASSUME ForkInv, NEW r \in Requests, SwapLoad(r) PROVE Keeps(r)
<1>1. CASE pc'[r] \in {"handler", "nocookie"} BY <1>1, SwapLoadWork, QuietKeeps
<1>2. CASE pc'[r] = "swap"
  <2>1. PICK m \in Data, n \in Nat : work'[r].next = Stored(m, n) BY <1>2, SwapLoadWork
  <2>2. Within(work'[r].next.custom) BY <2>1, StoredWithin
  <2> QED BY <1>2, <2>2, SwapLoadWork DEF Keeps, Capped
<1> QED BY <1>1, <1>2, SwapLoadWork

LEMMA FinishHandlerKeeps ==
    ASSUME ForkInv, NEW r \in Requests, FinishHandler(r) PROVE Keeps(r)
<1> DEFINE n == inner[r].data.revision
           d == Stored(inner[r].data, n + 1)
<1>0. pc[r] = "handler" /\ UNCHANGED store BY DEF FinishHandler, shared
<1>1. inner[r].data \in Data /\ n \in Nat /\ n + 1 \in Nat
      BY <1>0, HandlerFields DEF ForkInv, Data
<1>2. d \in Data /\ Within(d.custom) BY <1>1, StoredFields, StoredWithin
<1>3. Within(Stored(d, n + 1).custom) BY <1>1, <1>2, StoredWithin
<1>4. Finishes(r) BY FinishFields
<1> HIDE DEF n
<1>5. \/ pc'[r] = "nocookie"
      \/ inner'[r].data = d /\ work'[r].next = Stored(d, n + 1)
      BY <1>4 DEF Finishes, n
<1> HIDE DEF d
<1> QED BY <1>0, <1>2, <1>3, <1>5 DEF Keeps, Capped

LEMMA SavingKeeps ==
    ASSUME ForkInv, CapInv, NEW r \in Requests, Touch(r) \/ SaveFresh(r) \/ CycleSave(r)
    PROVE  Keeps(r)
<1>0. pc[r] \in {"touch", "save", "move"} BY DEF Touch, SaveFresh, CycleSave
<1>1. Within(inner[r].data.custom) BY <1>0 DEF CapInv, Capped
<1>2. inner[r].id \in Ids BY <1>0, OwnIds
<1>3. \A i \in Ids : store'[i] = store[i] \/ Within(store'[i].custom)
      BY <1>1, <1>2 DEF Touch, SaveFresh, CycleSave, save, ForkInv, Typed, TypeOK
<1>4. pc'[r] \in {"cookie", "nocookie", "handler", "liveold", "failclosed"}
      BY DEF Touch, SaveFresh, CycleSave, SwapGone, SwapFailed, SendCookie, Goto, ForkInv,
             Typed, TypeOK
<1> QED BY <1>3, <1>4 DEF Keeps, Capped

(* What a rotation carries on with. *)
LEMMA CycleMergeData ==
    ASSUME ForkInv, NEW r \in Requests, CycleMerge(r)
    PROVE  /\ UNCHANGED store
           /\ \/ pc'[r] = "failclosed"
              \/ pc'[r] = "remove" /\ inner'[r] = inner[r]
              \/ /\ pc'[r] = "remove" /\ inner'[r].dirty = inner[r].dirty
                 /\ inner'[r].id = inner[r].id /\ inner'[r].pre_cycle_id = inner[r].pre_cycle_id
                 /\ LET q     == inner[r]
                        fresh == store[q.pre_cycle_id]
                        m     == merge_rotating(q.loaded, q.data, fresh)
                    IN  /\ fresh \in Data /\ q.loaded \in Data /\ q.data \in Data /\ m \in Data
                        /\ fresh.revision + 1 \in Nat
                        /\ inner'[r].loaded = fresh
                        /\ inner'[r].data = Stored(m, fresh.revision + 1)
<1> DEFINE q == inner[r]
           fresh == store[q.pre_cycle_id]
           m == merge_rotating(q.loaded, q.data, fresh)
           n == fresh.revision + 1
           d == Stored(m, n)
           p == [q EXCEPT !.loaded = fresh, !.data = d]
<1>0. pc[r] = "merge" /\ UNCHANGED store BY DEF CycleMerge, shared
<1>2. /\ q \in Inner /\ q.loaded \in Data /\ q.data \in Data /\ q.pre_cycle_id \in Ids
      BY <1>0, RequestFields, InnerFields, ActiveFields DEF LocalsOf, ForkInv, Cycling
<1>3. CASE UNCHANGED inner /\ Goto(r, "remove")
      BY <1>0, <1>3 DEF Goto, ForkInv, Typed, TypeOK
<1>4. CASE Goto(r, "failclosed")
      BY <1>0, <1>4 DEF Goto, ForkInv, Typed, TypeOK
<1>5. CASE fresh # NoRow /\ SetInner(r, p) /\ Goto(r, "remove")
  <2>1. fresh \in Data /\ n \in Nat BY <1>2, <1>5, RowField DEF ForkInv, Data
  <2>2. m \in Data BY <1>2, <2>1, MergeType
  <2> HIDE DEF d
  <2>3. /\ p.id = q.id /\ p.pre_cycle_id = q.pre_cycle_id /\ p.loaded = fresh /\ p.data = d
        /\ p.dirty = q.dirty
        BY <1>2 DEF Inner
  <2>4. inner'[r] = p /\ pc'[r] = "remove" BY <1>5 DEF SetInner, Goto, ForkInv, Typed, TypeOK
  <2> HIDE DEF p
  <2> QED BY <1>0, <1>2, <2>1, <2>2, <2>3, <2>4 DEF d
<1> QED BY <1>3, <1>4, <1>5 DEF CycleMerge, Stored

LEMMA CyclingKeeps ==
    ASSUME ForkInv, CapInv, NEW r \in Requests, CycleMerge(r) \/ CycleRemove(r) PROVE Keeps(r)
<1>0. pc[r] \in {"merge", "remove"} BY DEF CycleMerge, CycleRemove
<1>1. Within(inner[r].data.custom) BY <1>0 DEF CapInv, Capped
<1>2. CASE CycleMerge(r)
  <2>1. \/ inner'[r] = inner[r] \/ pc'[r] = "failclosed"
        \/ \E m \in Data, n \in Nat : inner'[r].data = Stored(m, n)
        BY <1>2, CycleMergeData
  <2>2. pc'[r] = "failclosed" \/ Within(inner'[r].data.custom) BY <1>1, <2>1, StoredWithin
  <2> QED BY <1>2, <2>2, CycleMergeData DEF Keeps, Capped
<1>3. CASE CycleRemove(r)
  <2>1. \A i \in Ids : store'[i] = store[i] \/ store'[i] = NoRow
        BY <1>3 DEF CycleRemove, delete, ForkInv, Typed, TypeOK
  <2>2. \/ pc'[r] \in {"nocookie", "failclosed"}
        \/ pc'[r] \in {"merge", "move"} /\ UNCHANGED inner
        BY <1>3 DEF CycleRemove, CycleGone, CycleConflict, Goto, ForkInv, Typed, TypeOK
  <2> QED BY <1>1, <2>1, <2>2 DEF Keeps, Capped
<1> QED BY <1>2, <1>3

LEMMA NextCaps ==
    ASSUME ForkInv, LoginInv, CapInv, [Next]_vars PROVE CapInv'
<1>0. Typed /\ Typed' BY NextTyped DEF ForkInv
<1>1. ASSUME NEW r \in Requests, LoadNothing(r) \/ LoadRow(r) \/ Operate(r) \/ Serve(r)
      PROVE  CapInv'
  <2>1. Alone(r) BY <1>0, <1>1, RequestFaithful DEF Faithful
  <2>2. Keeps(r)
        BY <1>1, LoadingKeeps, OperateKeeps, TakeKeeps, SwapTryKeeps, SwapLoadKeeps,
           FinishHandlerKeeps, SavingKeeps, CyclingKeeps, SettlingKeeps
        DEF Serve
  <2> QED BY <2>1, <2>2, KeepsStep
<1>2. CASE Administer \/ Expire \/ UNCHANGED vars
      BY <1>0, <1>2, OtherSteps DEF CapInv
<1> QED BY <1>1, <1>2 DEF Next, AllServed

LEMMA InitCaps == Init => CapInv
<1> SUFFICES ASSUME Init PROVE CapInv OBVIOUS
<1>1. PICK row \in SeedRows : store = [i \in Ids |-> IF i = Seed THEN row ELSE NoRow]
      BY DEF Init
<1>2. row.custom \in Bag BY LayerAssumption, DataTypes
<1>3. Within(row.custom) BY <1>2, SeedAssumption, CapWithin
<1>4. \A r \in Requests : pc[r] = "idle" BY DEF Init
<1> QED BY <1>1, <1>3, <1>4 DEF CapInv, Capped

(* Every stored bag is within the cap of max_custom_bytes, merged ones     *)
(* included: each write is capped after the last merge (set_custom_value,  *)
(* swap_merging, merge_concurrent_writes).                                 *)
THEOREM Capping == Spec => []WithinCap
<1>1. Init => ForkInv /\ LoginInv /\ CapInv BY InitForks, InitLogins, InitCaps
<1>2. ForkInv /\ LoginInv /\ CapInv /\ [Next]_vars => ForkInv' /\ LoginInv' /\ CapInv'
      BY NextForks, NextLogins, NextCaps
<1>3. CapInv => WithinCap BY DEF CapInv, Within, WithinCap
<1> QED BY <1>1, <1>2, <1>3, PTL DEF Spec

-----------------------------------------------------------------------------
(* What was put in a session before its login.  pl is planted; a bag is    *)
(* clean when it holds nothing of it under a key that a login drops.       *)

Clean(pl, bag) == \A k \in Keys \ Preserved : <<k, bag[k]>> \notin pl

CleanIn(pl, d) == LoggedIn(d.auth) => Clean(pl, d.custom)

CleanHeld(pl, p, q, w) ==
    /\ p \in Live \cup {"verdict"} =>
        CleanIn(pl, q.data) /\ (q.loaded # NoRow => CleanIn(pl, q.loaded))
    /\ p \in Swapping => CleanIn(pl, w.local) /\ CleanIn(pl, w.next)

CleanOK ==
    /\ \A i \in Ids : store[i] # NoRow => CleanIn(planted, store[i])
    /\ \A r \in Requests : CleanHeld(planted, pc[r], inner[r], work[r])

(* Where a value may be. *)
InRows(st, k, v) == \E i \in Ids : st[i] # NoRow /\ st[i].custom[k] = v

InHands(q, w, k, v) ==
    \/ q.data.custom[k] = v
    \/ q.loaded # NoRow /\ q.loaded.custom[k] = v
    \/ w.local.custom[k] = v
    \/ w.next.custom[k] = v

(* A value that its request has not put anywhere is nowhere. *)
Authors ==
    \A k \in Keys, v \in Requests : <<"set", k>> \notin call[v].ops =>
        /\ ~InRows(store, k, v) /\ <<k, v>> \notin planted
        /\ \A s \in Requests : ~InHands(inner[s], work[s], k, v)

(* The session has logged in since it was loaded.  What it holds now, its  *)
(* request put there, and it is nowhere else until the session is stored.  *)
NewLogin(p, q) ==
    /\ p \in Live /\ q.loaded # NoRow /\ LoggedIn(q.data.auth)
    /\ q.data.auth.login # q.loaded.auth.login

Hidden(st, p, q, w, k, v) ==
    /\ ~InRows(st, k, v) /\ q.loaded.custom[k] # v
    /\ p \in Swapping => w.local.custom[k] # v /\ w.next.custom[k] # v

OwnOnly(r, k) ==
    /\ inner[r].data.custom[k] = r
    /\ Hidden(store, pc[r], inner[r], work[r], k, r)
    /\ \A s \in Requests \ {r} : ~InHands(inner[s], work[s], k, r)

NewOK ==
    \A r \in Requests : NewLogin(pc[r], inner[r]) =>
        \A k \in Keys \ Preserved : inner[r].data.custom[k] = NoVal \/ OwnOnly(r, k)

PlantInv == CleanOK /\ Authors /\ NewOK

(* What a step of request r that plants nothing does with the bags. *)
Comes(r, bag) ==
    \A k \in Keys : bag[k] \in Requests =>
        InRows(store, k, bag[k]) \/ InHands(inner[r], work[r], k, bag[k])

Flows(r) ==
    /\ Comes(r, inner'[r].data.custom)
    /\ inner'[r].loaded # NoRow => Comes(r, inner'[r].loaded.custom)
    /\ Comes(r, work'[r].local.custom) /\ Comes(r, work'[r].next.custom)
    /\ \A i \in Ids : store'[i] # NoRow => Comes(r, store'[i].custom)

NewKept(r) ==
    NewLogin(pc'[r], inner'[r]) =>
        \A k \in Keys \ Preserved :
            \/ inner'[r].data.custom[k] = NoVal
            \/ /\ NewLogin(pc[r], inner[r])
               /\ inner[r].data.custom[k] = r /\ inner'[r].data.custom[k] = r
               /\ Hidden(store', pc'[r], inner'[r], work'[r], k, r)

Tidy(r) ==
    /\ Alone(r) /\ UNCHANGED planted /\ call[r].ops \subseteq call'[r].ops
    /\ Flows(r)
    /\ \A i \in Ids : store'[i] = store[i] \/ store'[i] = NoRow \/ CleanIn(planted, store'[i])
    /\ CleanHeld(planted, pc'[r], inner'[r], work'[r])
    /\ NewKept(r)

LEMMA TidyStep ==
    ASSUME PlantInv, NEW r \in Requests, Tidy(r) PROVE PlantInv'
<1>1. CleanOK'
  <2>1. \A i \in Ids : store'[i] # NoRow => CleanIn(planted, store'[i])
        BY DEF Tidy, PlantInv, CleanOK
  <2>2. ASSUME NEW s \in Requests PROVE CleanHeld(planted, pc'[s], inner'[s], work'[s])
        BY DEF Tidy, Alone, PlantInv, CleanOK
  <2> QED BY <2>1, <2>2 DEF CleanOK, Tidy
<1>2. ASSUME NEW k \in Keys, NEW v \in Requests,
             ~InRows(store, k, v), ~InHands(inner[r], work[r], k, v)
      PROVE  ~InRows(store', k, v) /\ ~InHands(inner'[r], work'[r], k, v)
  <2>1. ASSUME NEW bag, Comes(r, bag) PROVE bag[k] # v BY <1>2, <2>1 DEF Comes
  <2>2. Flows(r) BY DEF Tidy
  <2>3. ~InRows(store', k, v) BY <2>1, <2>2 DEF InRows, Flows
  <2>4. ~InHands(inner'[r], work'[r], k, v) BY <2>1, <2>2 DEF InHands, Flows
  <2> QED BY <2>3, <2>4
<1>3. Authors'
  <2> SUFFICES ASSUME NEW k \in Keys, NEW v \in Requests, <<"set", k>> \notin call'[v].ops
               PROVE  /\ ~InRows(store', k, v) /\ <<k, v>> \notin planted'
                      /\ \A s \in Requests : ~InHands(inner'[s], work'[s], k, v)
      BY DEF Authors
  <2>1. <<"set", k>> \notin call[v].ops BY DEF Tidy, Alone
  <2>2. /\ ~InRows(store, k, v) /\ <<k, v>> \notin planted
        /\ \A s \in Requests : ~InHands(inner[s], work[s], k, v)
        BY <2>1 DEF PlantInv, Authors
  <2>3. ~InRows(store', k, v) /\ ~InHands(inner'[r], work'[r], k, v) BY <1>2, <2>2
  <2>4. ASSUME NEW s \in Requests \ {r} PROVE ~InHands(inner'[s], work'[s], k, v)
        BY <2>2 DEF Tidy, Alone
  <2> QED BY <2>2, <2>3, <2>4 DEF Tidy
<1>4. NewOK'
  <2> SUFFICES ASSUME NEW s \in Requests, NewLogin(pc'[s], inner'[s]),
                      NEW k \in Keys \ Preserved, inner'[s].data.custom[k] # NoVal
               PROVE  /\ inner'[s].data.custom[k] = s
                      /\ Hidden(store', pc'[s], inner'[s], work'[s], k, s)
                      /\ \A t \in Requests \ {s} : ~InHands(inner'[t], work'[t], k, s)
      BY DEF NewOK, OwnOnly
  <2>1. CASE s = r
    <3>1. /\ NewLogin(pc[r], inner[r]) /\ inner[r].data.custom[k] = r /\ inner'[r].data.custom[k] = r
          /\ Hidden(store', pc'[r], inner'[r], work'[r], k, r)
          BY <2>1 DEF Tidy, NewKept
    <3>2. r # NoVal BY DataAssumption, LayerAssumption
    <3>3. OwnOnly(r, k) BY <3>1, <3>2 DEF PlantInv, NewOK
    <3>4. \A t \in Requests \ {r} : ~InHands(inner'[t], work'[t], k, r)
          BY <3>3 DEF OwnOnly, Tidy, Alone
    <3> QED BY <2>1, <3>1, <3>4
  <2>2. CASE s # r
    <3>1. pc'[s] = pc[s] /\ inner'[s] = inner[s] /\ work'[s] = work[s]
          BY <2>2 DEF Tidy, Alone
    <3>2. OwnOnly(s, k) BY <3>1 DEF PlantInv, NewOK
    <3>3. ~InRows(store, k, s) /\ ~InHands(inner[r], work[r], k, s)
          BY <2>2, <3>2 DEF OwnOnly, Hidden
    <3>4. ~InRows(store', k, s) /\ ~InHands(inner'[r], work'[r], k, s) BY <1>2, <3>3
    <3>5. Hidden(store', pc'[s], inner'[s], work'[s], k, s)
          BY <3>1, <3>2, <3>4 DEF OwnOnly, Hidden
    <3>6. ASSUME NEW t \in Requests \ {s} PROVE ~InHands(inner'[t], work'[t], k, s)
          BY <3>2, <3>4 DEF OwnOnly, Tidy, Alone
    <3> QED BY <3>1, <3>2, <3>5, <3>6 DEF OwnOnly
  <2> QED BY <2>1, <2>2
<1> QED BY <1>1, <1>3, <1>4 DEF PlantInv

-----------------------------------------------------------------------------
(* Bags.  c is part of b when it holds nothing that b does not. *)

Part(b, c) == \A k \in Keys : c[k] = b[k] \/ c[k] = NoVal

LEMMA NoValFree == NoVal \notin Requests /\ (Typed => \A k : <<k, NoVal>> \notin planted)
BY DataAssumption, LayerAssumption DEF Typed, TypeOK

LEMMA Parts ==
    ASSUME NEW b \in Bag
    PROVE  /\ Part(b, b) /\ Part(b, EmptyBag) /\ Part(b, cap_custom(b))
           /\ Part(b, retain_across_login(b))
           /\ \A k \in Keys : Part(b, [b EXCEPT ![k] = NoVal])
BY DEF Part, EmptyBag, cap_custom, retain_across_login, Bag

LEMMA PartKeeps ==
    ASSUME Typed, NEW r \in Requests, NEW b, NEW c, Part(b, c)
    PROVE  /\ Comes(r, b) => Comes(r, c)
           /\ Clean(planted, b) => Clean(planted, c)
BY NoValFree DEF Part, Comes, Clean

(* What a request has comes from what it has, or from the rows. *)
LEMMA OwnComes ==
    ASSUME NEW r \in Requests
    PROVE  /\ Comes(r, inner[r].data.custom)
           /\ inner[r].loaded # NoRow => Comes(r, inner[r].loaded.custom)
           /\ Comes(r, work[r].local.custom) /\ Comes(r, work[r].next.custom)
           /\ \A i \in Ids : store[i] # NoRow => Comes(r, store[i].custom)
           /\ Comes(r, EmptyBag)
<1>1. \A k \in Keys : EmptyBag[k] \notin Requests BY NoValFree DEF EmptyBag
<1> QED BY <1>1 DEF Comes, InRows, InHands

(* The operations of a request are counted, and stay so. *)
LEMMA OpsGrow ==
    ASSUME Typed, NEW r \in Requests, LoadNothing(r) \/ LoadRow(r) \/ Operate(r) \/ Serve(r)
    PROVE  call[r].ops \subseteq call'[r].ops
<1>0. call \in [Requests -> Call] /\ call[r] \in Call BY DEF Typed, TypeOK
<1>1. ASSUME NEW op, NEW k, NEW n, Called(r, op, k, n) PROVE call[r].ops \subseteq call'[r].ops
      BY <1>0, <1>1 DEF Called
<1>2. ASSUME NEW n, Mint(r, n) PROVE call[r].ops \subseteq call'[r].ops
      BY <1>0, <1>2 DEF Mint, Call
<1>3. ASSUME NEW c, call' = [call EXCEPT ![r].client = c] PROVE call[r].ops \subseteq call'[r].ops
      BY <1>0, <1>3 DEF Call
<1>4. ASSUME NEW c, NEW d, StartFresh(r, c, d) PROVE call[r].ops \subseteq call'[r].ops
      BY <1>0, <1>4 DEF StartFresh
<1>5. ASSUME NEW c, NEW i, NEW row, Trust(r, c, i, row) PROVE call[r].ops \subseteq call'[r].ops
      BY <1>3, <1>4, <1>5 DEF Trust
<1>6. CASE LoadNothing(r) \/ LoadRow(r) \/ Verdict(r) \/ EndRow(r)
      BY <1>3, <1>4, <1>5, <1>6 DEF LoadNothing, LoadRow, Verdict, EndRow
<1>7. CASE Operate(r)
      BY <1>1, <1>7 DEF Operate, SetCustom, RemoveCustom, ClearCustom, Take, Regenerate,
         BeginLogin, CompleteFactor, OAuthLogin, StepUp, Impersonate, Logout
<1>8. CASE Register(r) \/ Recheck(r) BY <1>2, <1>8 DEF Register, Recheck, ClearSession
<1>9. CASE FinishHandler(r) BY <1>2, <1>9 DEF FinishHandler
<1>10. CASE \/ SwapTry(r) \/ SwapLoad(r) \/ Touch(r) \/ SaveFresh(r) \/ CycleMerge(r)
            \/ CycleRemove(r) \/ CycleSave(r) \/ FailClosed(r) \/ LiveOld(r) \/ RegisterNew(r)
            \/ RereadOld(r) \/ InvalidateOld(r) \/ LiveNew(r) \/ EndRevoked(r) \/ EndUntracked(r)
       BY <1>10 DEF SwapTry, SwapLoad, Touch, SaveFresh, CycleMerge, CycleRemove, CycleSave,
          FailClosed, LiveOld, RegisterNew, RereadOld, InvalidateOld, LiveNew, EndRevoked,
          EndUntracked
<1> QED BY <1>6, <1>7, <1>8, <1>9, <1>10 DEF Serve

LEMMA PlantsNothing ==
    ASSUME NEW r \in Requests, LoadNothing(r) \/ LoadRow(r) \/ Operate(r) \/ Serve(r), ~SetCustom(r)
    PROVE  UNCHANGED planted
<1>1. CASE LoadNothing(r) \/ LoadRow(r) \/ Verdict(r) \/ EndRow(r)
      BY <1>1 DEF LoadNothing, LoadRow, Verdict, EndRow, history
<1>2. CASE Operate(r)
      BY <1>2 DEF Operate, RemoveCustom, ClearCustom, Take, Regenerate,
         BeginLogin, CompleteFactor, OAuthLogin, StepUp, Impersonate, Logout, history
<1>3. CASE Register(r) \/ Recheck(r) \/ FinishHandler(r)
      BY <1>3 DEF Register, Recheck, FinishHandler, history
<1>4. CASE \/ SwapTry(r) \/ SwapLoad(r) \/ Touch(r) \/ SaveFresh(r) \/ CycleMerge(r)
           \/ CycleRemove(r) \/ CycleSave(r) \/ FailClosed(r) \/ LiveOld(r) \/ RegisterNew(r)
           \/ RereadOld(r) \/ InvalidateOld(r) \/ LiveNew(r) \/ EndRevoked(r) \/ EndUntracked(r)
      BY <1>4 DEF SwapTry, SwapLoad, Touch, SaveFresh, CycleMerge, CycleRemove, CycleSave,
         FailClosed, LiveOld, RegisterNew, RereadOld, InvalidateOld, LiveNew, EndRevoked,
         EndUntracked, history
<1> QED BY <1>1, <1>2, <1>3, <1>4 DEF Serve

(* What is left to show of a step. *)
Sound(r) ==
    /\ Flows(r)
    /\ \A i \in Ids : store'[i] = store[i] \/ store'[i] = NoRow \/ CleanIn(planted, store'[i])
    /\ CleanHeld(planted, pc'[r], inner'[r], work'[r])
    /\ NewKept(r)

(* Nothing is written and the request holds no session any more, or none   *)
(* that it may still store.                                                *)
LEMMA LeavesSound ==
    ASSUME NEW r \in Requests, pc'[r] \notin Live \cup {"verdict"}, Flows(r),
           \A i \in Ids : store'[i] = store[i] \/ store'[i] = NoRow \/ CleanIn(planted, store'[i])
    PROVE  Sound(r)
BY DEF Sound, CleanHeld, NewKept, NewLogin, Live

(* The request has less, and the rows are fewer. *)
LEMMA LessFlows ==
    ASSUME Typed, NEW r \in Requests, Part(inner[r].data.custom, inner'[r].data.custom),
           inner'[r].loaded = inner[r].loaded,
           work'[r].local = work[r].local, work'[r].next = work[r].next,
           \A i \in Ids : store'[i] = store[i] \/ store'[i] = NoRow
    PROVE  Flows(r)
BY OwnComes, PartKeeps DEF Flows

(* The handler changes its own copy.  What it still has afterwards it had  *)
(* under the same login, unless a login dropped all it may drop.           *)
Drops(q, p) ==
    /\ p.loaded = q.loaded
    /\ Part(q.data.custom, p.data.custom)
    /\ \/ p.data.auth.login = q.data.auth.login
       \/ ~LoggedIn(p.data.auth)
       \/ \A k \in Keys \ Preserved : p.data.custom[k] = NoVal

LEMMA DropsClean ==
    ASSUME Typed, NEW q, NEW p, Drops(q, p), CleanIn(planted, q.data) PROVE CleanIn(planted, p.data)
<1>1. CASE p.data.auth.login = q.data.auth.login
      BY <1>1, NoValFree DEF Drops, CleanIn, LoggedIn, Clean, Part
<1>2. CASE \A k \in Keys \ Preserved : p.data.custom[k] = NoVal
      BY <1>2, NoValFree DEF CleanIn, Clean
<1> QED BY <1>1, <1>2 DEF Drops, CleanIn

LEMMA DropsNew ==
    ASSUME PlantInv, NEW r \in Requests, Drops(inner[r], inner'[r]), pc[r] \in Live,
           NewLogin(pc'[r], inner'[r]), NEW k \in Keys \ Preserved,
           inner'[r].data.custom[k] # NoVal
    PROVE  /\ NewLogin(pc[r], inner[r]) /\ OwnOnly(r, k)
           /\ inner[r].data.custom[k] = r /\ inner'[r].data.custom[k] = r
<1>1. inner'[r].data.auth.login = inner[r].data.auth.login
      BY DEF NewLogin, Drops
<1>2. NewLogin(pc[r], inner[r]) BY <1>1 DEF NewLogin, Drops, LoggedIn
<1>3. inner'[r].data.custom[k] = inner[r].data.custom[k] BY DEF Drops, Part
<1>4. OwnOnly(r, k) BY <1>2, <1>3 DEF PlantInv, NewOK
<1> QED BY <1>2, <1>3, <1>4 DEF OwnOnly

LEMMA DropsSound ==
    ASSUME Typed, PlantInv, NEW r \in Requests, Drops(inner[r], inner'[r]),
           pc[r] \in Live, pc'[r] \in Live, pc'[r] \in Swapping => pc[r] \in Swapping,
           work'[r].local = work[r].local, work'[r].next = work[r].next,
           \A i \in Ids : store'[i] = store[i] \/ store'[i] = NoRow
    PROVE  Sound(r)
<1>1. Flows(r) BY LessFlows DEF Drops
<1>2. CleanHeld(planted, pc[r], inner[r], work[r]) BY DEF PlantInv, CleanOK
<1>3. CleanIn(planted, inner'[r].data) BY <1>2, DropsClean DEF CleanHeld
<1>4. CleanHeld(planted, pc'[r], inner'[r], work'[r])
      BY <1>2, <1>3 DEF CleanHeld, Drops
<1>5. NewKept(r)
  <2> SUFFICES ASSUME NewLogin(pc'[r], inner'[r]), NEW k \in Keys \ Preserved,
                      inner'[r].data.custom[k] # NoVal
               PROVE  /\ NewLogin(pc[r], inner[r])
                      /\ inner[r].data.custom[k] = r /\ inner'[r].data.custom[k] = r
                      /\ Hidden(store', pc'[r], inner'[r], work'[r], k, r)
      BY DEF NewKept
  <2>1. /\ NewLogin(pc[r], inner[r]) /\ OwnOnly(r, k)
        /\ inner[r].data.custom[k] = r /\ inner'[r].data.custom[k] = r
        BY DropsNew
  <2>2. ~InRows(store', k, r) BY <2>1 DEF OwnOnly, Hidden, InRows
  <2>3. Hidden(store', pc'[r], inner'[r], work'[r], k, r)
        BY <2>1, <2>2 DEF OwnOnly, Hidden, Drops
  <2> QED BY <2>1, <2>3
<1> QED BY <1>1, <1>4, <1>5 DEF Sound

-----------------------------------------------------------------------------
(* The handler's operations. *)

LEMMA BindCustom ==
    ASSUME NEW q \in Inner PROVE bind_fingerprint(q).data.custom = q.data.custom
<1> DEFINE d == [q.data EXCEPT !.fp = q.pending]
<1>0. d \in Data BY InnerFields, DataTypes
<1>a. d.custom = q.data.custom BY InnerFields DEF Data
<1>1. d \in Data /\ d.custom = q.data.custom BY <1>0, <1>a
<1>2. bind_fingerprint(q) = IF q.data.fp = NoFp /\ q.pending # NoFp
                            THEN [q EXCEPT !.data = d, !.pending = NoFp] ELSE q
      BY DEF bind_fingerprint
<1> HIDE DEF d
<1> QED BY <1>1, <1>2 DEF Inner

LEMMA AuthenticatedCustom ==
    ASSUME NEW q \in Inner, NEW a \in AuthState, NEW new \in Ids
    PROVE  authenticated(q, a, new).data.custom = retain_across_login(q.data.custom)
<1> DEFINE b == retain_across_login(q.data.custom)
           p == with_auth(q, a, b)
           o == bind_fingerprint(p)
<1>1. b \in Bag BY InnerFields, DataTypes, BagTypes
<1>2. p \in Inner /\ p.data.custom = b BY <1>1, WithAuthType, WithAuthFields
<1> HIDE DEF p
<1>3. o \in Inner /\ o.data.custom = b BY <1>2, BindType, BindCustom
<1>4. authenticated(q, a, new) = rotate_id(o, new) BY DEF authenticated, p
<1> HIDE DEF o, b
<1> QED BY <1>3, <1>4, RotateType DEF b

LEMMA AuthenticatedDrops ==
    ASSUME NEW q \in Inner, NEW a \in AuthState, NEW new \in Ids
    PROVE  Drops(q, authenticated(q, a, new))
<1> DEFINE p == authenticated(q, a, new)
           b == q.data.custom
<1>1. p.loaded = q.loaded /\ p.data.custom = retain_across_login(b)
      BY AuthenticatedType, AuthenticatedCustom
<1>2. b \in Bag BY InnerFields, DataTypes
<1>3. \A k \in Keys \ Preserved : retain_across_login(b)[k] = NoVal BY DEF retain_across_login
<1> HIDE DEF p, b
<1>4. Drops(q, p) BY <1>1, <1>2, <1>3, Parts DEF Drops, b
<1> QED BY <1>4 DEF p

LEMMA ClearDrops ==
    ASSUME NEW q \in Inner, NEW new \in Ids PROVE Drops(q, clear(q, new))
<1> DEFINE o == [q EXCEPT !.data = DefaultData]
<1>1. o \in Inner /\ o.data = DefaultData BY DefaultType, SetDataType
<1>2. clear(q, new) = rotate_id(o, new) BY DEF clear
<1> HIDE DEF o
<1>3. clear(q, new).data = DefaultData /\ clear(q, new).loaded = q.loaded
      BY <1>1, <1>2, RotateType, ClearType
<1>4. ~LoggedIn(DefaultData.auth) /\ DefaultData.custom = EmptyBag
      BY DEF DefaultData, Guest, LoggedIn
<1>5. q.data.custom \in Bag BY InnerFields, DataTypes
<1> QED BY <1>3, <1>4, <1>5, Parts DEF Drops

LEMMA CustomDrops ==
    ASSUME NEW q \in Inner, NEW b \in Bag, Part(q.data.custom, b)
    PROVE  Drops(q, with_custom(q, b))
BY WithCustomFields, WithCustomType DEF Drops

LEMMA RemovingDrops ==
    ASSUME Typed, NEW r \in Requests, RemoveCustom(r) \/ ClearCustom(r) \/ StepUp(r)
    PROVE  Drops(inner[r], inner'[r])
<1>0. pc[r] = "handler" BY DEF RemoveCustom, ClearCustom, StepUp, Handler
<1>1. inner[r] \in Inner /\ inner[r].data.custom \in Bag /\ inner[r].data.auth \in AuthState
      BY <1>0, HandlerFields
<1>2. ASSUME NEW q, SetInner(r, q) PROVE inner'[r] = q
      BY <1>2 DEF SetInner, Typed, TypeOK
<1>3. CASE RemoveCustom(r)
  <2>1. PICK k \in Keys :
            inner'[r] = with_custom(inner[r], [inner[r].data.custom EXCEPT ![k] = NoVal])
        BY <1>2, <1>3 DEF RemoveCustom
  <2> DEFINE b == [inner[r].data.custom EXCEPT ![k] = NoVal]
  <2>2. b \in Bag /\ Part(inner[r].data.custom, b) BY <1>1, BagTypes, Parts
  <2> HIDE DEF b
  <2>3. Drops(inner[r], with_custom(inner[r], b)) BY <1>1, <2>2, CustomDrops
  <2> QED BY <2>1, <2>3 DEF b
<1>4. CASE ClearCustom(r)
  <2>1. inner'[r] = with_custom(inner[r], EmptyBag) BY <1>2, <1>4 DEF ClearCustom
  <2>2. EmptyBag \in Bag BY BagTypes
  <2>3. Drops(inner[r], with_custom(inner[r], EmptyBag)) BY <1>1, <2>2, Parts, CustomDrops
  <2> QED BY <2>1, <2>3
<1>5. CASE StepUp(r)
  <2> DEFINE b == inner[r].data.custom
             a == begin_step_up(inner[r].data.auth)
             p == with_auth(inner[r], a, b)
             q == with_custom(p, b)
  <2>0. is_authenticated(inner[r].data.auth) BY <1>5 DEF StepUp
  <2>1. inner'[r] = q BY <1>2, <1>5 DEF StepUp
  <2>2. a \in AuthState /\ a.login = inner[r].data.auth.login
        BY <1>1, <2>0, AuthTypes DEF begin_step_up, AuthState, Guest, is_authenticated
  <2> HIDE DEF a
  <2>3. /\ p \in Inner /\ p.data.auth = a /\ p.data.custom = b /\ p.loaded = inner[r].loaded
        BY <1>1, <2>2, WithAuthType, WithAuthFields
  <2> HIDE DEF p
  <2>4. q.data.auth = a /\ q.data.custom = b /\ q.loaded = inner[r].loaded
        BY <1>1, <2>3, WithCustomType, WithCustomFields
  <2> HIDE DEF q
  <2> QED BY <1>1, <2>1, <2>2, <2>4, Parts DEF Drops
<1> QED BY <1>3, <1>4, <1>5

LEMMA RotatingDrops ==
    ASSUME Typed, NEW r \in Requests, Regenerate(r) \/ BeginLogin(r)
    PROVE  Drops(inner[r], inner'[r])
<1>0. pc[r] = "handler" /\ CanMint(r, 1) BY DEF Regenerate, BeginLogin, Handler
<1>1. /\ inner[r] \in Inner /\ inner[r].data.custom \in Bag /\ Minted(r, 1) \in Ids
      BY <1>0, HandlerFields, MintType
<1>2. ASSUME NEW q, Rotated(r, q) PROVE inner'[r] = q
      BY <1>2 DEF Rotated, SetInner, Typed, TypeOK
<1>3. CASE Regenerate(r)
  <2>1. inner'[r] = rotate_id(inner[r], Minted(r, 1)) BY <1>2, <1>3 DEF Regenerate
  <2>2. inner'[r].data = inner[r].data /\ inner'[r].loaded = inner[r].loaded
        BY <1>1, <2>1, RotateType
  <2> QED BY <1>1, <2>2, Parts DEF Drops
<1>4. CASE BeginLogin(r)
  <2>1. PICK u \in Users : inner'[r] = bind_fingerprint(rotate_id(
            with_auth(inner[r], begin_authenticating(u), inner[r].data.custom), Minted(r, 1)))
        BY <1>2, <1>4 DEF BeginLogin
  <2> DEFINE a == begin_authenticating(u)
             o == with_auth(inner[r], a, inner[r].data.custom)
             p == rotate_id(o, Minted(r, 1))
             q == bind_fingerprint(p)
  <2>2. a \in AuthState /\ a.login = NoLogin BY AuthTypes DEF begin_authenticating
  <2> HIDE DEF a
  <2>3. /\ o \in Inner /\ o.data.auth = a /\ o.data.custom = inner[r].data.custom
        /\ o.loaded = inner[r].loaded
        BY <1>1, <2>2, WithAuthType, WithAuthFields
  <2> HIDE DEF o
  <2>4. p \in Inner /\ p.data = o.data /\ p.loaded = o.loaded BY <1>1, <2>3, RotateType
  <2> HIDE DEF p
  <2>5. q.data.auth = a /\ q.data.custom = inner[r].data.custom /\ q.loaded = inner[r].loaded
        BY <2>3, <2>4, BindType, BindCustom
  <2>6. inner'[r] = q BY <2>1 DEF q, p, o, a
  <2> HIDE DEF q
  <2> QED BY <1>1, <2>2, <2>5, <2>6, Parts DEF Drops, LoggedIn
<1> QED BY <1>3, <1>4

LEMMA LoginDrops ==
    ASSUME Typed, NEW r \in Requests, CompleteFactor(r) \/ OAuthLogin(r) \/ Impersonate(r)
    PROVE  Drops(inner[r], inner'[r])
<1>0. pc[r] = "handler" BY DEF CompleteFactor, OAuthLogin, Impersonate, Handler
<1>1. /\ inner[r] \in Inner /\ inner[r].data.custom \in Bag /\ inner[r].data.auth \in AuthState
      BY <1>0, HandlerFields
<1>2. ASSUME NEW q, Rotated(r, q) PROVE inner'[r] = q
      BY <1>2 DEF Rotated, SetInner, Typed, TypeOK
<1>3. CASE CompleteFactor(r)
  <2> DEFINE auth == inner[r].data.auth
             a == IF auth.kind = "StepUp" THEN finish_step_up(auth)
                  ELSE set_authenticated(auth.user, r)
  <2>1. /\ CanMint(r, 1) /\ auth.kind \in {"Authenticating", "StepUp"}
        /\ inner'[r] = authenticated(inner[r], a, Minted(r, 1))
        BY <1>2, <1>3 DEF CompleteFactor
  <2>2. a \in AuthState BY <1>1, <2>1, LayerAssumption, AuthTypes
  <2>3. Minted(r, 1) \in Ids BY <2>1, MintType
  <2> HIDE DEF a
  <2>4. Drops(inner[r], authenticated(inner[r], a, Minted(r, 1)))
        BY <1>1, <2>2, <2>3, AuthenticatedDrops
  <2> QED BY <2>1, <2>4
<1>4. CASE OAuthLogin(r)
  <2>1. CanMint(r, 1) BY <1>4 DEF OAuthLogin
  <2>2. PICK u \in Users :
            inner'[r] = authenticated(inner[r], set_authenticated(u, r), Minted(r, 1))
        BY <1>2, <1>4 DEF OAuthLogin
  <2>3. set_authenticated(u, r) \in AuthState BY LayerAssumption, AuthTypes
  <2>4. Minted(r, 1) \in Ids BY <2>1, MintType
  <2>5. Drops(inner[r], authenticated(inner[r], set_authenticated(u, r), Minted(r, 1)))
        BY <1>1, <2>3, <2>4, AuthenticatedDrops
  <2> QED BY <2>2, <2>5
<1>5. CASE Impersonate(r)
  <2>1. CanMint(r, 2) BY <1>5 DEF Impersonate
  <2>2. PICK u \in Users : inner'[r] = rotate_id(
            authenticated(with_custom(inner[r], EmptyBag), set_authenticated(u, r), Minted(r, 1)),
            Minted(r, 2))
        BY <1>2, <1>5 DEF Impersonate
  <2> DEFINE o == with_custom(inner[r], EmptyBag)
             p == authenticated(o, set_authenticated(u, r), Minted(r, 1))
             q == rotate_id(p, Minted(r, 2))
  <2>3. set_authenticated(u, r) \in AuthState BY LayerAssumption, AuthTypes
  <2>4. Minted(r, 1) \in Ids /\ Minted(r, 2) \in Ids BY <2>1, MintType
  <2>5. o \in Inner /\ o.loaded = inner[r].loaded /\ o.data.custom = EmptyBag
        BY <1>1, BagTypes, WithCustomType, WithCustomFields
  <2> HIDE DEF o
  <2>6. p \in Inner /\ p.loaded = o.loaded /\ p.data.custom = retain_across_login(EmptyBag)
        BY <2>3, <2>4, <2>5, AuthenticatedType, AuthenticatedCustom
  <2>7. retain_across_login(EmptyBag) = EmptyBag BY DEF retain_across_login, EmptyBag
  <2> HIDE DEF p
  <2>8. q.data = p.data /\ q.loaded = p.loaded BY <2>4, <2>6, RotateType
  <2>9. inner'[r] = q BY <2>2 DEF q, p, o
  <2> HIDE DEF q
  <2>10. inner'[r].data.custom = EmptyBag /\ inner'[r].loaded = inner[r].loaded
         BY <2>5, <2>6, <2>7, <2>8, <2>9
  <2>11. \A k \in Keys \ Preserved : EmptyBag[k] = NoVal BY DEF EmptyBag
  <2> QED BY <1>1, <2>10, <2>11, Parts DEF Drops
<1> QED BY <1>3, <1>4, <1>5

LEMMA ClearingDrops ==
    ASSUME Typed, NEW r \in Requests, Logout(r) \/ Register(r) \/ Recheck(r)
    PROVE  Drops(inner[r], inner'[r])
<1>0. pc[r] \in Handling BY DEF Logout, Register, Recheck, Handler, Handling
<1>1. inner[r] \in Inner /\ inner[r].data.custom \in Bag BY <1>0, HandlerFields DEF Handling
<1>2. ASSUME CanMint(r, 1), Rotated(r, clear(inner[r], Minted(r, 1)))
      PROVE  Drops(inner[r], inner'[r])
  <2>1. inner'[r] = clear(inner[r], Minted(r, 1))
        BY <1>2 DEF Rotated, SetInner, Typed, TypeOK
  <2>2. Minted(r, 1) \in Ids BY <1>2, MintType
  <2>3. Drops(inner[r], clear(inner[r], Minted(r, 1))) BY <1>1, <2>2, ClearDrops
  <2> QED BY <2>1, <2>3
<1>3. ASSUME UNCHANGED inner PROVE Drops(inner[r], inner'[r])
      BY <1>1, <1>3, Parts DEF Drops
<1> QED BY <1>2, <1>3 DEF Logout, Register, Recheck, ClearSession

LEMMA OperateSound ==
    ASSUME Typed, PlantInv, NEW r \in Requests, Operate(r) \/ Register(r) \/ Recheck(r),
           ~SetCustom(r), ~Take(r)
    PROVE  Sound(r)
<1>1. UNCHANGED <<store, work>>
      BY DEF Operate, Register, Recheck, RemoveCustom, ClearCustom, Regenerate,
             BeginLogin, CompleteFactor, OAuthLogin, StepUp, Impersonate, Logout, shared
<1>2. pc[r] \in Handling /\ pc'[r] \in Handling
  <2>1. pc[r] \in Handling
        BY DEF Operate, Register, Recheck, RemoveCustom, ClearCustom, Regenerate,
               BeginLogin, CompleteFactor, OAuthLogin, StepUp, Impersonate, Logout, Handler,
               Handling
  <2>2. UNCHANGED pc \/ Goto(r, "handler") \/ Goto(r, "register") \/ Goto(r, "recheck")
        BY DEF Operate, Register, Recheck, RemoveCustom, ClearCustom, Regenerate,
               BeginLogin, CompleteFactor, OAuthLogin, StepUp, Impersonate, Logout
  <2> QED BY <2>1, <2>2 DEF Goto, Handling, Typed, TypeOK
<1>3. Drops(inner[r], inner'[r])
      BY RemovingDrops, RotatingDrops, LoginDrops, ClearingDrops DEF Operate
<1> QED BY <1>1, <1>2, <1>3, DropsSound DEF Live, Handling, Swapping

-----------------------------------------------------------------------------
(* Loading. *)

LEMMA FreshSound ==
    ASSUME Typed, NEW r \in Requests, NEW c, NEW dirt, StartFresh(r, c, dirt), UNCHANGED work,
           \A i \in Ids : store'[i] = store[i] \/ store'[i] = NoRow
    PROVE  Sound(r)
<1> DEFINE f == IF Binding THEN c ELSE NoFp
           q == [NewInner EXCEPT !.id = Minted(r, 1), !.dirty = dirt, !.pending = f]
<1>1. inner' = [inner EXCEPT ![r] = q] /\ pc' = [pc EXCEPT ![r] = "handler"]
      BY DEF StartFresh, SetInner, Goto
<1> HIDE DEF f
<1>2. q.data = DefaultData /\ q.loaded = NoRow BY DEF NewInner
<1> HIDE DEF q
<1>3. inner'[r].data = DefaultData /\ inner'[r].loaded = NoRow /\ pc'[r] = "handler"
      BY <1>1, <1>2 DEF Typed, TypeOK
<1>4. ~LoggedIn(DefaultData.auth) /\ DefaultData.custom = EmptyBag
      BY DEF DefaultData, Guest, LoggedIn
<1>5. Flows(r) BY <1>3, <1>4, OwnComes DEF Flows
<1>6. CleanHeld(planted, pc'[r], inner'[r], work'[r])
      BY <1>3, <1>4 DEF CleanHeld, CleanIn, Swapping
<1>7. NewKept(r) BY <1>3 DEF NewKept, NewLogin
<1> QED BY <1>5, <1>6, <1>7 DEF Sound

LEMMA TrustSound ==
    ASSUME Typed, NEW r \in Requests, NEW c, NEW i, NEW row \in Data, Trust(r, c, i, row),
           UNCHANGED <<store, work>>, CleanIn(planted, row), Comes(r, row.custom)
    PROVE  Sound(r)
<1> DEFINE fp == IF Binding THEN c ELSE NoFp
           data == check_binding(row, fp)
           t == IF data = row THEN "clean" ELSE "modified"
           e == IF data.fp = NoFp THEN fp ELSE NoFp
           q == [id |-> i, pre_cycle_id |-> NoId, data |-> data, dirty |-> t,
                 pending |-> e, loaded |-> row]
<1>1. CASE data = NoRow
  <2>1. StartFresh(r, c, "regenerate") BY <1>1 DEF Trust
  <2> QED BY <2>1, FreshSound
<1>2. CASE data # NoRow
  <2>1. inner' = [inner EXCEPT ![r] = q] /\ pc' = [pc EXCEPT ![r] = "handler"]
        BY <1>2 DEF Trust, SetInner, Goto
  <2>2. data.auth = row.auth /\ data.custom = row.custom BY <1>2, BindingFields
  <2> HIDE DEF data, t, e
  <2>3. q.data = data /\ q.loaded = row OBVIOUS
  <2> HIDE DEF q
  <2>4. inner'[r].data = data /\ inner'[r].loaded = row /\ pc'[r] = "handler"
        BY <2>1, <2>3 DEF Typed, TypeOK
  <2>5. Flows(r) BY <2>2, <2>4, OwnComes DEF Flows
  <2>6. CleanHeld(planted, pc'[r], inner'[r], work'[r])
        BY <2>2, <2>4 DEF CleanHeld, CleanIn, Swapping
  <2>7. NewKept(r) BY <2>2, <2>4 DEF NewKept, NewLogin
  <2> QED BY <2>5, <2>6, <2>7 DEF Sound
<1> QED BY <1>1, <1>2

LEMMA LoadingSound ==
    ASSUME Typed, PlantInv, NEW r \in Requests,
           LoadNothing(r) \/ LoadRow(r) \/ Verdict(r) \/ EndRow(r)
    PROVE  Sound(r)
<1>0. UNCHANGED work BY DEF LoadNothing, LoadRow, Verdict, EndRow
<1>1. CASE LoadNothing(r) BY <1>0, <1>1, FreshSound DEF LoadNothing, shared
<1>2. CASE LoadRow(r)
  <2>0. UNCHANGED store BY <1>2 DEF LoadRow, shared
  <2>1. PICK c \in Clients, i \in issued :
          /\ store[i] # NoRow
          /\ IF is_authenticated(store[i].auth)
             THEN /\ SetInner(r, [NewInner EXCEPT !.id = i, !.data = store[i]])
                  /\ call' = [call EXCEPT ![r].client = c]
                  /\ Goto(r, "verdict")
             ELSE Trust(r, c, i, store[i])
        BY <1>2 DEF LoadRow
  <2>2. i \in Ids /\ store[i] \in Data BY <2>1, RowField DEF Typed, TypeOK
  <2>3. CleanIn(planted, store[i]) /\ Comes(r, store[i].custom)
        BY <2>1, <2>2, OwnComes DEF PlantInv, CleanOK
  <2>4. CASE is_authenticated(store[i].auth)
    <3> DEFINE q == [NewInner EXCEPT !.id = i, !.data = store[i]]
    <3>1. inner' = [inner EXCEPT ![r] = q] /\ pc' = [pc EXCEPT ![r] = "verdict"]
          BY <2>1, <2>4 DEF SetInner, Goto
    <3>2. q.loaded = NoRow /\ q.data = store[i] BY DEF NewInner
    <3> HIDE DEF q
    <3>3. inner'[r].data = store[i] /\ inner'[r].loaded = NoRow /\ pc'[r] = "verdict"
          BY <3>1, <3>2 DEF Typed, TypeOK
    <3>4. Flows(r) BY <1>0, <2>0, <2>3, <3>3, OwnComes DEF Flows
    <3>5. CleanHeld(planted, pc'[r], inner'[r], work'[r])
          BY <2>3, <3>3 DEF CleanHeld, Swapping
    <3>6. NewKept(r) BY <3>3 DEF NewKept, NewLogin
    <3> QED BY <2>0, <3>4, <3>5, <3>6 DEF Sound
  <2>5. CASE ~is_authenticated(store[i].auth)
        BY <1>0, <2>0, <2>1, <2>2, <2>3, <2>5, TrustSound
  <2> QED BY <2>4, <2>5
<1>3. CASE Verdict(r)
  <2>0. UNCHANGED store /\ pc[r] = "verdict" BY <1>3 DEF Verdict, shared
  <2>1. inner[r].data \in Data BY RequestFields, InnerFields
  <2>2. CleanIn(planted, inner[r].data) /\ Comes(r, inner[r].data.custom)
        BY <2>0, OwnComes DEF PlantInv, CleanOK, CleanHeld
  <2>3. CASE Trust(r, call[r].client, inner[r].id, inner[r].data)
        BY <1>0, <2>0, <2>1, <2>2, <2>3, TrustSound
  <2>4. CASE StartFresh(r, call[r].client, "clean") BY <1>0, <2>0, <2>4, FreshSound
  <2>5. CASE Goto(r, "endrow") /\ UNCHANGED <<inner, call>>
    <3>1. pc'[r] = "endrow" BY <2>5 DEF Goto, Typed, TypeOK
    <3>2. Flows(r) BY <1>0, <2>0, <2>5, OwnComes DEF Flows
    <3> QED BY <2>0, <3>1, <3>2, LeavesSound DEF Live, Handling, Swapping
  <2> QED BY <1>3, <2>3, <2>4, <2>5 DEF Verdict
<1>4. CASE EndRow(r)
  <2>1. \A i \in Ids : store'[i] = store[i] \/ store'[i] = NoRow
        BY <1>4 DEF EndRow, try_delete, delete, Typed, TypeOK
  <2> QED BY <1>0, <1>4, <2>1, FreshSound DEF EndRow
<1> QED BY <1>1, <1>2, <1>3, <1>4

-----------------------------------------------------------------------------
(* Settling, and the writes of rows that are not read again. *)

LEMMA SettlingSound ==
    ASSUME Typed, NEW r \in Requests,
           \/ LiveOld(r) \/ RegisterNew(r) \/ RereadOld(r) \/ InvalidateOld(r)
           \/ LiveNew(r) \/ EndRevoked(r) \/ EndUntracked(r) \/ FailClosed(r)
    PROVE  Sound(r)
<1>1. \A i \in Ids : store'[i] = store[i] \/ store'[i] = NoRow
      BY DEF LiveOld, RegisterNew, RereadOld, InvalidateOld, LiveNew, EndRevoked,
             EndUntracked, FailClosed, shared, try_delete, delete, Typed, TypeOK
<1>2. pc'[r] \in Settling \cup {"cookie", "ended", "closed"}
      BY DEF LiveOld, RegisterNew, RereadOld, InvalidateOld, LiveNew, EndRevoked, FailClosed,
             EndUntracked, OnUntracked, SendCookie, Goto, Settling, Typed, TypeOK
<1>3. UNCHANGED work
      BY DEF LiveOld, RegisterNew, RereadOld, InvalidateOld, LiveNew, EndRevoked, FailClosed,
             EndUntracked
<1>4. Flows(r)
  <2>1. CASE UNCHANGED inner BY <1>1, <1>3, <2>1, OwnComes DEF Flows
  <2>2. CASE FailClosed(r)
    <3> DEFINE q == [inner[r] EXCEPT !.data = DefaultData]
    <3>1. inner'[r] = q BY <2>2 DEF FailClosed, SetInner, Typed, TypeOK
    <3>2. q.data = DefaultData /\ q.loaded = inner[r].loaded
          BY RequestFields, DefaultType, SetDataType
    <3> HIDE DEF q
    <3>3. DefaultData.custom = EmptyBag BY DEF DefaultData
    <3> QED BY <1>1, <1>3, <3>1, <3>2, <3>3, OwnComes DEF Flows
  <2> QED BY <2>1, <2>2 DEF LiveOld, RegisterNew, RereadOld, InvalidateOld, LiveNew, EndRevoked,
                            EndUntracked
<1> QED BY <1>1, <1>2, <1>4, LeavesSound DEF Settling, Live, Handling, Swapping

LEMMA SwapEndsSound ==
    ASSUME Typed, PlantInv, NEW r \in Requests, pc[r] \in Swapping \cup {"touch"},
           pc[r] = "touch" => work[r].key = NoKey,
           SwapGone(r) \/ SwapFailed(r), UNCHANGED <<store, work>>
    PROVE  Sound(r)
<1>1. inner[r] \in Inner /\ inner[r].data.custom \in Bag
      BY RequestFields, InnerFields, DataTypes
<1> DEFINE q == [inner[r] EXCEPT !.data = DefaultData]
<1>2. q.data = DefaultData /\ q.loaded = inner[r].loaded BY <1>1, DefaultType, SetDataType
<1>3. DefaultData.custom = EmptyBag BY DEF DefaultData
<1>4. inner'[r] = inner[r] \/ inner'[r] = q
      BY DEF SwapGone, SwapFailed, SetInner, Typed, TypeOK
<1> HIDE DEF q
<1>5. CASE work[r].key = NoKey
  <2>1. pc'[r] = "nocookie" BY <1>5 DEF SwapGone, SwapFailed, Goto, Typed, TypeOK
  <2>2. Part(inner[r].data.custom, inner'[r].data.custom) /\ inner'[r].loaded = inner[r].loaded
        BY <1>1, <1>2, <1>3, <1>4, Parts
  <2>3. Flows(r) BY <2>2, LessFlows
  <2> QED BY <2>1, <2>3, LeavesSound DEF Live, Handling, Swapping
<1>6. CASE work[r].key # NoKey
  <2>1. pc'[r] = "handler" /\ inner'[r] = inner[r]
        BY <1>6 DEF SwapGone, SwapFailed, Goto, Typed, TypeOK
  <2>2. Drops(inner[r], inner'[r]) BY <1>1, <2>1, Parts DEF Drops
  <2> QED BY <1>6, <2>1, <2>2, DropsSound DEF Live, Handling, Swapping
<1> QED BY <1>5, <1>6

LEMMA SavingSound ==
    ASSUME Typed, LoginInv, PlantInv, NEW r \in Requests, Touch(r) \/ SaveFresh(r) \/ CycleSave(r)
    PROVE  Sound(r)
<1>0. pc[r] \in {"touch", "save", "move"} /\ UNCHANGED work BY DEF Touch, SaveFresh, CycleSave
<1>1. pc[r] = "touch" => work[r].key = NoKey BY DEF LoginInv, Holds, HoldsOK, TouchOK
<1>2. CASE (SwapGone(r) \/ SwapFailed(r)) /\ Touch(r) /\ UNCHANGED store
      BY <1>0, <1>1, <1>2, SwapEndsSound DEF Touch
<1>3. CASE /\ UNCHANGED inner
           /\ save(inner[r].id, inner[r].data) \/ UNCHANGED store
           /\ SendCookie(r) \/ Goto(r, "nocookie") \/ Goto(r, "liveold") \/ Goto(r, "failclosed")
  <2>1. pc'[r] \in {"cookie", "nocookie", "liveold", "failclosed"}
        BY <1>3 DEF SendCookie, Goto, Typed, TypeOK
  <2>2. CleanIn(planted, inner[r].data) BY <1>0 DEF PlantInv, CleanOK, CleanHeld, Live
  <2>3. inner[r].id \in Ids BY <1>0, ActiveFields
  <2>4. \A i \in Ids : store'[i] = store[i] \/ store'[i] = inner[r].data
        BY <1>3, <2>3 DEF save, Typed, TypeOK
  <2>5. Flows(r) BY <1>0, <1>3, <2>4, OwnComes DEF Flows
  <2> QED BY <2>1, <2>2, <2>4, <2>5, LeavesSound DEF Live, Handling, Swapping
<1> QED BY <1>2, <1>3 DEF Touch, SaveFresh, CycleSave

-----------------------------------------------------------------------------
(* Merges. *)

LEMMA MergeBag ==
    ASSUME NEW b \in Data, NEW l \in Data, NEW f \in Data
    PROVE  /\ merge_concurrent(b, l, f).custom = merge_bags(b.custom, l.custom, f.custom, TRUE)
           /\ merge_rotating(b, l, f).custom
                = merge_bags(b.custom, l.custom, f.custom, l.auth = b.auth)
<1>1. ASSUME NEW keep
      PROVE  merge(b, l, f, keep).custom = merge_bags(b.custom, l.custom, f.custom, keep)
      BY DEF merge
<1> QED BY <1>1 DEF merge_concurrent, merge_rotating

(* Nothing is in a merged bag that was in neither side. *)
LEMMA MergeFlows ==
    ASSUME Typed, NEW r \in Requests, NEW b, NEW l, NEW f, NEW keep \in BOOLEAN
    PROVE  LET m == merge_bags(b, l, f, keep)
           IN  /\ \A k \in Keys : m[k] \in {NoVal, l[k], f[k]}
               /\ Comes(r, l) /\ Comes(r, f) => Comes(r, m)
               /\ Clean(planted, l) /\ Clean(planted, f) => Clean(planted, m)
<1> DEFINE m == merge_bags(b, l, f, keep)
<1>1. \A k \in Keys : m[k] \in {NoVal, l[k], f[k]} BY DEF merge_bags
<1> HIDE DEF m
<1>2. Comes(r, l) /\ Comes(r, f) => Comes(r, m) BY <1>1, NoValFree DEF Comes
<1>3. Clean(planted, l) /\ Clean(planted, f) => Clean(planted, m)
      BY <1>1, NoValFree DEF Clean
<1> QED BY <1>1, <1>2, <1>3 DEF m

(* The merge of a rotation: what a session holds since its login stays,    *)
(* and nothing else comes to it.                                           *)
LEMMA RotatingClean ==
    ASSUME Typed, PlantInv, NEW r \in Requests, pc[r] \in Live, inner[r].loaded \in Data,
           NEW f \in Data, f.auth.login = inner[r].loaded.auth.login, CleanIn(planted, f),
           NEW m, m = merge_rotating(inner[r].loaded, inner[r].data, f)
    PROVE  /\ m.auth.login = inner[r].data.auth.login
           /\ CleanIn(planted, m)
           /\ Comes(r, f.custom) => Comes(r, m.custom)
           /\ NewLogin(pc[r], inner[r]) => \A k \in Keys \ Preserved :
                \/ m.custom[k] = NoVal
                \/ m.custom[k] = r /\ inner[r].data.custom[k] = r /\ OwnOnly(r, k)
<1> DEFINE b == inner[r].loaded
           l == inner[r].data
           keep == l.auth = b.auth
           bag == merge_bags(b.custom, l.custom, f.custom, keep)
<1>1. l \in Data /\ b \in Data /\ b # NoRow
      BY RequestFields, InnerFields, LayerAssumption
<1>2. m.auth = pick(b.auth, l.auth, f.auth) BY <1>1, MergeAuth
<1>3. m.custom = bag BY <1>1, MergeBag
<1>4. m.auth.login = l.auth.login BY <1>2 DEF pick
<1>5. /\ \A k \in Keys : bag[k] \in {NoVal, l.custom[k], f.custom[k]}
      /\ Comes(r, l.custom) /\ Comes(r, f.custom) => Comes(r, bag)
      /\ Clean(planted, l.custom) /\ Clean(planted, f.custom) => Clean(planted, bag)
      BY MergeFlows
<1>6. CleanIn(planted, l) BY DEF PlantInv, CleanOK, CleanHeld
<1>7. ASSUME NewLogin(pc[r], inner[r]), NEW k \in Keys \ Preserved, bag[k] # NoVal
      PROVE  bag[k] = r /\ l.custom[k] = r /\ OwnOnly(r, k)
  <2>1. ~keep BY <1>7 DEF NewLogin
  <2>2. l.custom[k] = NoVal => bag[k] = NoVal BY <2>1 DEF merge_bags
  <2>3. OwnOnly(r, k) BY <1>7, <2>2 DEF PlantInv, NewOK
  <2>4. l.custom[k] = r /\ b.custom[k] # r BY <2>3 DEF OwnOnly, Hidden
  <2>5. bag[k] = r BY <2>4 DEF merge_bags
  <2> QED BY <2>3, <2>4, <2>5
<1> HIDE DEF bag
<1>8. CleanIn(planted, m)
  <2> SUFFICES ASSUME LoggedIn(m.auth) PROVE Clean(planted, bag) BY <1>3 DEF CleanIn
  <2>1. LoggedIn(l.auth) /\ Clean(planted, l.custom) BY <1>4, <1>6 DEF LoggedIn, CleanIn
  <2>2. CASE l.auth.login = b.auth.login
    <3>1. Clean(planted, f.custom) BY <2>1, <2>2 DEF LoggedIn, CleanIn
    <3> QED BY <1>5, <2>1, <3>1
  <2>3. CASE l.auth.login # b.auth.login
    <3>1. NewLogin(pc[r], inner[r]) BY <1>1, <2>1, <2>3 DEF NewLogin
    <3>2. \A k \in Keys \ Preserved : bag[k] = NoVal \/ bag[k] = l.custom[k] BY <1>7, <3>1
    <3> QED BY <2>1, <3>2, NoValFree DEF Clean
  <2> QED BY <2>2, <2>3
<1>9. Comes(r, l.custom) BY OwnComes
<1> QED BY <1>3, <1>4, <1>5, <1>7, <1>8, <1>9

LEMMA StoredPart ==
    ASSUME NEW d \in Data, NEW n \in Nat
    PROVE  Part(d.custom, Stored(d, n).custom) /\ Stored(d, n).auth = d.auth
<1>1. d.custom \in Bag BY DataTypes
<1> QED BY <1>1, StoredFields, Parts

LEMMA CycleMergeSound ==
    ASSUME ForkInv, LoginInv, PlantInv, NEW r \in Requests, CycleMerge(r) PROVE Sound(r)
<1> DEFINE q == inner[r]
           fresh == store[q.pre_cycle_id]
           m == merge_rotating(q.loaded, q.data, fresh)
           n == fresh.revision + 1
<1>0. Typed /\ pc[r] = "merge" /\ UNCHANGED store BY DEF ForkInv, CycleMerge, shared
<1>1. work'[r].local = work[r].local /\ work'[r].next = work[r].next
  <2>1. ASSUME NEW e PROVE [work[r] EXCEPT !.expected = e].local = work[r].local
                           /\ [work[r] EXCEPT !.expected = e].next = work[r].next
        BY <1>0, RequestFields DEF Work
  <2>2. UNCHANGED work \/ \E e : work'[r] = [work[r] EXCEPT !.expected = e]
        BY <1>0 DEF CycleMerge, SetWork, Typed, TypeOK
  <2> QED BY <2>1, <2>2
<1>2. q \in Inner /\ q.data.custom \in Bag /\ q.pre_cycle_id \in Ids
      BY <1>0, RequestFields, InnerFields, DataTypes, ActiveFields DEF Cycling
<1>3. CASE inner'[r] = q
  <2>1. Drops(q, inner'[r]) BY <1>2, <1>3, Parts DEF Drops
  <2>2. CASE pc'[r] = "remove"
        BY <1>0, <1>1, <2>1, <2>2, DropsSound DEF Live, Handling, Swapping
  <2>3. CASE pc'[r] = "failclosed"
    <3>1. Flows(r) BY <1>0, <1>1, <2>1, LessFlows DEF Drops
    <3> QED BY <1>0, <2>3, <3>1, LeavesSound DEF Live, Handling, Swapping
  <2> QED BY <2>2, <2>3, CycleMergeData
<1>4. CASE inner'[r] # q
  <2>1. pc'[r] # "failclosed"
        BY <1>0, <1>4 DEF CycleMerge, Goto, Typed, TypeOK
  <2>2. /\ pc'[r] = "remove" /\ inner'[r].loaded = fresh /\ inner'[r].data = Stored(m, n)
        /\ fresh \in Data /\ q.loaded \in Data /\ m \in Data /\ n \in Nat
        BY <1>4, <2>1, CycleMergeData
  <2>3. CopyOK(store, loginOf, q) /\ q.loaded # NoRow /\ fresh # NoRow
        BY <1>0, <2>2, LayerAssumption DEF LoginInv, Holds, HoldsOK, Live
  <2>4. row_id(q) = q.pre_cycle_id BY <1>2, NoIdFact DEF row_id
  <2>5. fresh.auth.login = q.loaded.auth.login
        BY <1>2, <2>3, <2>4 DEF CopyOK, LoginInv, RowLogins
  <2>6. CleanIn(planted, fresh) /\ Comes(r, fresh.custom)
        BY <1>2, <2>3, OwnComes DEF PlantInv, CleanOK
  <2>7. pc[r] \in Live BY <1>0 DEF Live
  <2>8. /\ m.auth.login = q.data.auth.login /\ CleanIn(planted, m) /\ Comes(r, m.custom)
        /\ NewLogin(pc[r], q) => \A k \in Keys \ Preserved :
                \/ m.custom[k] = NoVal
                \/ m.custom[k] = r /\ q.data.custom[k] = r /\ OwnOnly(r, k)
        BY <1>0, <2>2, <2>5, <2>6, <2>7, RotatingClean
  <2> DEFINE d == Stored(m, n)
  <2> HIDE DEF m, n, fresh
  <2>9. Part(m.custom, d.custom) /\ d.auth = m.auth BY <2>2, StoredPart
  <2>10. inner'[r].data = d BY <2>2
  <2> HIDE DEF d
  <2>11. CleanIn(planted, d) /\ Comes(r, d.custom)
         BY <1>0, <2>8, <2>9, PartKeeps DEF CleanIn
  <2>12. Flows(r) BY <1>0, <1>1, <2>2, <2>6, <2>10, <2>11, OwnComes DEF Flows
  <2>13. CleanHeld(planted, pc'[r], inner'[r], work'[r])
         BY <2>2, <2>6, <2>10, <2>11 DEF CleanHeld, Swapping
  <2>14. NewKept(r)
    <3> SUFFICES ASSUME NewLogin(pc'[r], inner'[r]), NEW k \in Keys \ Preserved,
                        d.custom[k] # NoVal
                 PROVE  /\ NewLogin(pc[r], q) /\ q.data.custom[k] = r /\ d.custom[k] = r
                        /\ Hidden(store', pc'[r], inner'[r], work'[r], k, r)
        BY <2>10 DEF NewKept
    <3>1. NewLogin(pc[r], q)
          BY <2>2, <2>3, <2>5, <2>7, <2>8, <2>9, <2>10 DEF NewLogin, LoggedIn
    <3>2. d.custom[k] = m.custom[k] BY <2>9 DEF Part
    <3>3. m.custom[k] = r /\ q.data.custom[k] = r /\ OwnOnly(r, k) BY <2>8, <3>1, <3>2
    <3>4. ~InRows(store, k, r) BY <3>3 DEF OwnOnly, Hidden
    <3>5. fresh.custom[k] # r BY <1>2, <2>3, <3>4 DEF InRows, fresh
    <3> QED BY <1>0, <2>2, <3>1, <3>2, <3>3, <3>4, <3>5 DEF Hidden, Swapping
  <2> QED BY <1>0, <2>12, <2>13, <2>14 DEF Sound
<1> QED BY <1>3, <1>4

LEMMA CycleRemoveSound ==
    ASSUME ForkInv, PlantInv, NEW r \in Requests, CycleRemove(r) PROVE Sound(r)
<1>0. Typed /\ pc[r] = "remove" BY DEF ForkInv, CycleRemove
<1>1. \A i \in Ids : store'[i] = store[i] \/ store'[i] = NoRow
      BY <1>0 DEF CycleRemove, delete, Typed, TypeOK
<1>2. work'[r].local = work[r].local /\ work'[r].next = work[r].next
  <2>1. ASSUME NEW e PROVE [work[r] EXCEPT !.att = e].local = work[r].local
                           /\ [work[r] EXCEPT !.att = e].next = work[r].next
        BY <1>0, RequestFields DEF Work
  <2>2. UNCHANGED work \/ \E e : work'[r] = [work[r] EXCEPT !.att = e]
        BY <1>0 DEF CycleRemove, CycleGone, CycleConflict, SetWork, Typed, TypeOK
  <2> QED BY <2>1, <2>2
<1> DEFINE q == [inner[r] EXCEPT !.data = DefaultData]
<1>3. inner[r] \in Inner /\ inner[r].data.custom \in Bag
      BY <1>0, RequestFields, InnerFields, DataTypes
<1>4. q.data = DefaultData /\ q.loaded = inner[r].loaded BY <1>3, DefaultType, SetDataType
<1>5. \/ pc'[r] \in {"nocookie", "failclosed"} /\ (inner'[r] = q \/ inner'[r] = inner[r])
      \/ pc'[r] \in {"merge", "move"} /\ inner'[r] = inner[r]
      BY <1>0 DEF CycleRemove, CycleGone, CycleConflict, SetInner, Goto, Typed, TypeOK
<1> HIDE DEF q
<1>6. DefaultData.custom = EmptyBag BY DEF DefaultData
<1>7. CASE pc'[r] \in {"merge", "move"} /\ inner'[r] = inner[r]
  <2>1. Drops(inner[r], inner'[r]) BY <1>3, <1>7, Parts DEF Drops
  <2> QED BY <1>0, <1>1, <1>2, <1>7, <2>1, DropsSound DEF Live, Handling, Swapping
<1>8. CASE pc'[r] \in {"nocookie", "failclosed"} /\ (inner'[r] = q \/ inner'[r] = inner[r])
  <2>1. Part(inner[r].data.custom, inner'[r].data.custom) /\ inner'[r].loaded = inner[r].loaded
        BY <1>3, <1>4, <1>6, <1>8, Parts
  <2>2. Flows(r) BY <1>0, <1>1, <1>2, <2>1, LessFlows
  <2> QED BY <1>1, <1>8, <2>2, LeavesSound DEF Live, Handling, Swapping
<1> QED BY <1>5, <1>7, <1>8

-----------------------------------------------------------------------------
(* The compare-and-swap. *)

LEMMA SwapWrittenSound ==
    ASSUME ForkInv, LoginInv, PlantInv, NEW r \in Requests, pc[r] = "swap",
           save(row_id(inner[r]), work[r].next), SwapWritten(r), UNCHANGED work
    PROVE  Sound(r)
<1> DEFINE q == inner[r]
           w == work[r]
           x == row_id(q)
           m == merge_rotating(q.loaded, q.data, w.next)
           d == IF w.key # NoKey /\ q.pre_cycle_id # NoId THEN m ELSE w.next
           p == [q EXCEPT !.data = d, !.loaded = w.next]
<1>0. Typed BY DEF ForkInv
<1>1. x \in Ids /\ q \in Inner /\ w \in Work /\ q.loaded \in Data /\ q.loaded # NoRow
      BY <1>0, OwnIds, RequestFields, InnerFields DEF LocalsOf
<1>2. w.next \in Data /\ w.next # NoRow BY <1>1, WorkFields, LayerAssumption
<1>3. CopyOK(store, loginOf, q) /\ SwapReady(store, loginOf, q, w)
      BY DEF LoginInv, Holds, HoldsOK, Live, Swapping
<1>4. w.next.auth.login = q.loaded.auth.login BY <1>1, <1>3 DEF CopyOK, SwapReady
<1>5. pc[r] \in Live /\ pc[r] \in Swapping BY DEF Live, Swapping
<1>6. CleanIn(planted, w.next) /\ Comes(r, w.next.custom)
      BY <1>5, OwnComes DEF PlantInv, CleanOK, CleanHeld
<1>7. /\ m.auth.login = q.data.auth.login /\ CleanIn(planted, m) /\ Comes(r, m.custom)
      /\ NewLogin(pc[r], q) => \A k \in Keys \ Preserved :
            \/ m.custom[k] = NoVal
            \/ m.custom[k] = r /\ q.data.custom[k] = r /\ OwnOnly(r, k)
      BY <1>0, <1>1, <1>2, <1>4, <1>5, <1>6, RotatingClean
<1> HIDE DEF m
<1>8. CleanIn(planted, d) /\ Comes(r, d.custom) BY <1>6, <1>7
<1>9. d = m \/ d = w.next OBVIOUS
<1>10. inner' = [inner EXCEPT ![r] = p] BY DEF SwapWritten, SetInner, m
<1> HIDE DEF d
<1>11. p.data = d /\ p.loaded = w.next BY <1>1 DEF Inner
<1> HIDE DEF p
<1>12. inner'[r].data = d /\ inner'[r].loaded = w.next BY <1>0, <1>10, <1>11 DEF Typed, TypeOK
<1>13. store'[x] = w.next /\ \A i \in Ids \ {x} : store'[i] = store[i]
       BY <1>0, <1>1 DEF save, Typed, TypeOK
<1>14. Flows(r) BY <1>6, <1>8, <1>12, <1>13, OwnComes DEF Flows
<1>15. pc'[r] \in {"cookie", "handler"}
       BY <1>0 DEF SwapWritten, SendCookie, Goto, Typed, TypeOK
<1>16. CleanHeld(planted, pc'[r], inner'[r], work'[r])
       BY <1>6, <1>8, <1>12, <1>15 DEF CleanHeld, Swapping
<1>17. NewKept(r)
  <2> SUFFICES ASSUME NewLogin(pc'[r], inner'[r]), NEW k \in Keys \ Preserved,
                      d.custom[k] # NoVal
               PROVE  /\ NewLogin(pc[r], q) /\ q.data.custom[k] = r /\ d.custom[k] = r
                      /\ Hidden(store', pc'[r], inner'[r], work'[r], k, r)
      BY <1>12 DEF NewKept
  <2>1. d = m BY <1>9, <1>12 DEF NewLogin
  <2>2. NewLogin(pc[r], q)
        BY <1>1, <1>4, <1>5, <1>7, <1>12, <2>1 DEF NewLogin, LoggedIn
  <2>3. d.custom[k] = r /\ q.data.custom[k] = r /\ OwnOnly(r, k) BY <1>7, <2>1, <2>2
  <2>4. ~InRows(store, k, r) /\ w.next.custom[k] # r
        BY <1>5, <2>3 DEF OwnOnly, Hidden
  <2>5. ~InRows(store', k, r) BY <1>13, <2>4 DEF InRows
  <2> QED BY <1>12, <1>15, <2>2, <2>3, <2>4, <2>5 DEF Hidden, Swapping
<1>18. \A i \in Ids : store'[i] = store[i] \/ CleanIn(planted, store'[i]) BY <1>6, <1>13
<1> QED BY <1>14, <1>16, <1>17, <1>18 DEF Sound

LEMMA SwapTrySound ==
    ASSUME ForkInv, LoginInv, PlantInv, NEW r \in Requests, SwapTry(r) PROVE Sound(r)
<1>0. Typed /\ pc[r] = "swap" /\ UNCHANGED work BY DEF ForkInv, SwapTry
<1>1. CASE (SwapGone(r) \/ SwapFailed(r)) /\ UNCHANGED store
      BY <1>0, <1>1, SwapEndsSound DEF Swapping
<1>2. CASE save(row_id(inner[r]), work[r].next) /\ SwapWritten(r)
      BY <1>0, <1>2, SwapWrittenSound
<1>3. CASE Goto(r, "swapload") /\ UNCHANGED <<store, inner>>
  <2>1. pc'[r] = "swapload" BY <1>0, <1>3 DEF Goto, Typed, TypeOK
  <2>2. inner[r].data.custom \in Bag BY <1>0, RequestFields, InnerFields, DataTypes
  <2>3. Drops(inner[r], inner'[r]) BY <1>3, <2>2, Parts DEF Drops
  <2> QED BY <1>0, <1>3, <2>1, <2>3, DropsSound DEF Live, Swapping
<1> QED BY <1>1, <1>2, <1>3 DEF SwapTry

LEMMA SwapLoadSound ==
    ASSUME ForkInv, LoginInv, PlantInv, Typed', NEW r \in Requests, SwapLoad(r) PROVE Sound(r)
<1> DEFINE q == inner[r]
           w == work[r]
           row == store[row_id(q)]
           fresh == IF w.key = NoKey THEN row ELSE without(row, w.key)
           m == merge_concurrent(q.loaded, w.local, fresh)
           n == row.revision + 1
<1>0. Typed /\ pc[r] = "swapload" /\ UNCHANGED <<store, loginOf>>
      BY DEF ForkInv, SwapLoad, shared, history
<1>1. CASE (SwapGone(r) \/ SwapFailed(r)) /\ UNCHANGED work
      BY <1>0, <1>1, SwapEndsSound DEF Swapping
<1>2. CASE pc'[r] = "swap"
  <2>1. /\ inner'[r] = q /\ row \in Data /\ fresh \in Data /\ m \in Data
        /\ q.loaded \in Data /\ w.local \in Data
        /\ fresh.custom = row.custom \/ \E k \in Keys : fresh.custom = [row.custom EXCEPT ![k] = NoVal]
        /\ n \in Nat /\ work'[r].next = Stored(m, n) /\ work'[r].local = w.local
        BY <1>2, SwapLoadWork
  <2>2. q.data \in Data /\ q.data.custom \in Bag /\ row.custom \in Bag
        BY <1>0, <2>1, RequestFields, InnerFields, DataTypes
  <2>3. Part(row.custom, fresh.custom) BY <2>1, <2>2, Parts
  <2> HIDE DEF fresh
  <2>a. m.custom = merge_bags(q.loaded.custom, w.local.custom, fresh.custom, TRUE)
    <3>1. q.loaded \in Data /\ w.local \in Data /\ fresh \in Data BY <2>1
    <3> QED BY <3>1, MergeBag
  <2> DEFINE bag == merge_bags(q.loaded.custom, w.local.custom, fresh.custom, TRUE)
             d == Stored(m, n)
  <2>4. m.custom = bag BY <2>a
  <2>5. /\ \A k \in Keys : bag[k] \in {NoVal, w.local.custom[k], fresh.custom[k]}
        /\ Comes(r, w.local.custom) /\ Comes(r, fresh.custom) => Comes(r, bag)
        /\ Clean(planted, w.local.custom) /\ Clean(planted, fresh.custom) => Clean(planted, bag)
        BY <1>0, MergeFlows
  <2> HIDE DEF m, bag, n
  <2>6. Part(bag, d.custom) BY <2>1, <2>4, StoredPart
  <2>7. work'[r].next = d BY <2>1
  <2> HIDE DEF d
  <2>8. row_id(q) \in Ids /\ row # NoRow BY <1>0, <2>1, OwnIds, LayerAssumption
  <2>9. Comes(r, row.custom) BY <2>8, OwnComes
  <2>10. Comes(r, w.local.custom) /\ Comes(r, fresh.custom)
         BY <1>0, <2>3, <2>9, OwnComes, PartKeeps
  <2>11. Comes(r, d.custom) BY <1>0, <2>5, <2>6, <2>10, PartKeeps
  <2>12. Flows(r) BY <1>0, <2>1, <2>7, <2>11, OwnComes DEF Flows
  <2>13. CleanHeld(planted, pc[r], q, w) /\ CleanIn(planted, row)
         BY <2>8 DEF PlantInv, CleanOK
  <2>14. CleanIn(planted, d)
    <3> SUFFICES ASSUME LoggedIn(d.auth) PROVE Clean(planted, d.custom) BY DEF CleanIn
    <3>1. Faithful(r) BY SwapLoadFaithful
    <3>2. SwapReady(store', loginOf', inner'[r], work'[r])
          BY <1>2, <3>1 DEF Faithful, HoldsOK
    <3>3. d.auth.login = loginOf[row_id(q)] BY <1>0, <2>1, <2>7, <3>2 DEF SwapReady
    <3>4. SwapOK(loginOf, q, w) BY <1>0 DEF LoginInv, Holds, HoldsOK, Swapping
    <3>5. LoggedIn(w.local.auth) /\ LoggedIn(row.auth)
          BY <2>8, <3>3, <3>4 DEF SwapOK, LoggedIn, LoginInv, RowLogins
    <3>6. Clean(planted, w.local.custom) /\ Clean(planted, row.custom)
          BY <1>0, <2>13, <3>5 DEF CleanHeld, CleanIn, Swapping
    <3>7. Clean(planted, fresh.custom) BY <1>0, <2>3, <3>6, PartKeeps
    <3> QED BY <1>0, <2>5, <2>6, <3>6, <3>7, PartKeeps
  <2>15. CleanHeld(planted, pc'[r], inner'[r], work'[r])
         BY <1>0, <1>2, <2>1, <2>7, <2>13, <2>14 DEF CleanHeld, Live, Swapping
  <2>16. NewKept(r)
    <3> SUFFICES ASSUME NewLogin(pc'[r], q), NEW k \in Keys \ Preserved,
                        q.data.custom[k] # NoVal
                 PROVE  /\ NewLogin(pc[r], q) /\ q.data.custom[k] = r
                        /\ Hidden(store', pc'[r], q, work'[r], k, r)
        BY <2>1 DEF NewKept
    <3>1. NewLogin(pc[r], q) BY <1>0 DEF NewLogin, Live, Swapping
    <3>2. OwnOnly(r, k) BY <3>1 DEF PlantInv, NewOK
    <3>3. /\ q.data.custom[k] = r /\ ~InRows(store, k, r) /\ q.loaded.custom[k] # r
          /\ w.local.custom[k] # r
          BY <1>0, <3>2 DEF OwnOnly, Hidden, Swapping
    <3>4. row.custom[k] # r BY <2>8, <3>3 DEF InRows
    <3>5. r # NoVal BY NoValFree
    <3>6. fresh.custom[k] # r BY <2>3, <3>4, <3>5 DEF Part
    <3>7. d.custom[k] # r BY <2>5, <2>6, <3>3, <3>5, <3>6 DEF Part
    <3> QED BY <1>0, <2>1, <2>7, <3>1, <3>3, <3>7 DEF Hidden
  <2> QED BY <1>0, <2>12, <2>15, <2>16 DEF Sound
<1>3. ((SwapGone(r) \/ SwapFailed(r)) /\ UNCHANGED work) \/ Goto(r, "swap")
      BY DEF SwapLoad
<1> QED BY <1>0, <1>1, <1>2, <1>3 DEF Goto, Typed, TypeOK

LEMMA TakeSound ==
    ASSUME ForkInv, LoginInv, PlantInv, NEW r \in Requests, Take(r) PROVE Sound(r)
<1> DEFINE q == inner[r]
<1>0. Typed /\ pc[r] = "handler" /\ UNCHANGED store BY DEF ForkInv, Take, Handler, shared
<1>1. PICK j \in Keys :
        /\ SetInner(r, with_custom(q, without(q.data, j).custom))
        /\ Goto(r, "swap") \/ UNCHANGED <<pc, work>>
      BY DEF Take
<1> DEFINE b == without(q.data, j).custom
<1>2. q \in Inner /\ q.data \in Data /\ q.data.custom \in Bag BY <1>0, HandlerFields
<1>3. b \in Bag /\ Part(q.data.custom, b)
  <2>1. b = [q.data.custom EXCEPT ![j] = NoVal] BY <1>2, WithoutFields
  <2>2. [q.data.custom EXCEPT ![j] = NoVal] \in Bag BY <1>2, BagTypes
  <2>3. Part(q.data.custom, [q.data.custom EXCEPT ![j] = NoVal]) BY <1>2, Parts
  <2> QED BY <2>1, <2>2, <2>3
<1>4. inner'[r] = with_custom(q, b) BY <1>0, <1>1 DEF SetInner, Typed, TypeOK
<1> HIDE DEF b
<1>5. Drops(q, inner'[r]) BY <1>2, <1>3, <1>4, CustomDrops
<1>a. /\ inner'[r].data.auth = q.data.auth /\ inner'[r].loaded = q.loaded
      BY <1>2, <1>3, <1>4, WithCustomType
<1>6. CASE UNCHANGED <<pc, work>>
      BY <1>0, <1>5, <1>6, DropsSound DEF Live, Handling
<1>7. CASE Goto(r, "swap")
  <2>0. pc'[r] = "swap" BY <1>0, <1>7 DEF Goto, Typed, TypeOK
  <2>1. PICK k \in Keys :
            LET d == take_local(q, k)
            IN  /\ d \in Data /\ work'[r].local = d
                /\ work'[r].next = Stored(d, d.revision + 1) /\ d.revision + 1 \in Nat
        BY <2>0, TakeWork
  <2>2. q.loaded \in Data /\ q.loaded # NoRow BY <2>0, TakeWork, LayerAssumption
  <2> DEFINE o == IF q.pre_cycle_id = NoId THEN q.data ELSE q.loaded
             d == take_local(q, k)
             e == Stored(d, d.revision + 1)
  <2>3. o \in Data /\ o.custom \in Bag BY <1>2, <2>2, DataTypes
  <2>4. CleanIn(planted, o) /\ Comes(r, o.custom)
    <3>1. CleanIn(planted, q.data) /\ CleanIn(planted, q.loaded)
          BY <1>0, <2>2 DEF PlantInv, CleanOK, CleanHeld, Live, Handling
    <3>2. Comes(r, q.data.custom) /\ Comes(r, q.loaded.custom) BY <2>2, OwnComes
    <3> QED BY <3>1, <3>2
  <2>5. d = without(o, k) BY DEF take_local
  <2>6. q.pre_cycle_id # NoId => o = q.loaded OBVIOUS
  <2> HIDE DEF o
  <2>7. Part(o.custom, d.custom) /\ d.auth = o.auth
    <3>1. without(o, k).auth = o.auth BY <2>3, WithoutFields
    <3>2. without(o, k).custom = [o.custom EXCEPT ![k] = NoVal] BY <2>3, WithoutFields
    <3>3. Part(o.custom, [o.custom EXCEPT ![k] = NoVal]) BY <2>3, Parts
    <3> HIDE DEF d
    <3> QED BY <2>5, <3>1, <3>2, <3>3
  <2>8. /\ d \in Data /\ d.revision + 1 \in Nat
        /\ work'[r].local = d /\ work'[r].next = e
        BY <2>1
  <2> HIDE DEF d
  <2>9. Part(d.custom, e.custom) /\ e.auth = d.auth BY <2>8, StoredPart
  <2> HIDE DEF e
  <2>10. /\ CleanIn(planted, d) /\ CleanIn(planted, e) /\ Comes(r, d.custom) /\ Comes(r, e.custom)
         BY <1>0, <2>4, <2>7, <2>9, PartKeeps DEF CleanIn
  <2>11. Comes(r, inner'[r].data.custom) BY <1>0, <1>5, OwnComes, PartKeeps DEF Drops
  <2>12. Flows(r) BY <1>0, <1>a, <2>8, <2>10, <2>11, OwnComes DEF Flows
  <2>13. CleanHeld(planted, pc'[r], inner'[r], work'[r])
    <3>1. CleanHeld(planted, pc[r], q, work[r]) BY DEF PlantInv, CleanOK
    <3>2. CleanIn(planted, inner'[r].data)
          BY <1>0, <1>5, <3>1, DropsClean DEF CleanHeld, Live, Handling
    <3> QED BY <1>0, <1>a, <2>0, <2>8, <2>10, <3>1, <3>2 DEF CleanHeld, Live, Handling
  <2>14. NewKept(r)
    <3> SUFFICES ASSUME NewLogin(pc'[r], inner'[r]), NEW l \in Keys \ Preserved,
                        inner'[r].data.custom[l] # NoVal
                 PROVE  /\ NewLogin(pc[r], q)
                        /\ q.data.custom[l] = r /\ inner'[r].data.custom[l] = r
                        /\ Hidden(store', pc'[r], inner'[r], work'[r], l, r)
        BY DEF NewKept
    <3>1. /\ NewLogin(pc[r], q) /\ OwnOnly(r, l)
          /\ q.data.custom[l] = r /\ inner'[r].data.custom[l] = r
          BY <1>0, <1>5, DropsNew DEF Live, Handling
    <3>2. ~InRows(store, l, r) /\ q.loaded.custom[l] # r BY <3>1 DEF OwnOnly, Hidden
    <3>3. q.pre_cycle_id # NoId
      <4>1. CopyOK(store, loginOf, q) BY <1>0 DEF LoginInv, Holds, HoldsOK, Live, Handling
      <4> QED BY <3>1, <4>1 DEF NewLogin, CopyOK, row_id
    <3>4. r # NoVal BY NoValFree
    <3>5. d.custom[l] # r BY <2>6, <2>7, <3>2, <3>3, <3>4 DEF Part
    <3>6. e.custom[l] # r BY <2>9, <3>4, <3>5 DEF Part
    <3> QED BY <1>0, <1>a, <2>8, <3>1, <3>2, <3>5, <3>6 DEF Hidden
  <2> QED BY <1>0, <2>12, <2>13, <2>14 DEF Sound
<1> QED BY <1>1, <1>6, <1>7

LEMMA FinishHandlerSound ==
    ASSUME ForkInv, LoginInv, PlantInv, Typed', NEW r \in Requests, FinishHandler(r) PROVE Sound(r)
<1> DEFINE q == inner[r]
           n == q.data.revision + 1
           d == Stored(q.data, n)
           e == Stored(d, n)
<1>0. Typed /\ pc[r] = "handler" /\ UNCHANGED <<store, loginOf>>
      BY DEF ForkInv, FinishHandler, shared, history
<1>1. q.data \in Data /\ n \in Nat BY <1>0, HandlerFields DEF Data
<1>2. Finishes(r) BY FinishFields
<1>3. CASE pc'[r] = "nocookie" /\ UNCHANGED <<inner, work>>
  <2>1. Flows(r) BY <1>0, <1>3, OwnComes DEF Flows
  <2> QED BY <1>0, <1>3, <2>1, LeavesSound DEF Live, Handling, Swapping
<1>4. CASE /\ inner'[r].data = d /\ inner'[r].loaded = q.loaded
           /\ work'[r].local = d /\ work'[r].next = e
           /\ pc'[r] \in {"merge", "remove", "swap", "touch", "save"}
  <2>1. d \in Data /\ Part(q.data.custom, d.custom) /\ d.auth = q.data.auth
        BY <1>1, StoredFields, StoredPart
  <2>2. Part(d.custom, e.custom) /\ e.auth = d.auth BY <1>1, <2>1, StoredPart
  <2> HIDE DEF d, e, n
  <2>3. Drops(q, inner'[r]) BY <1>4, <2>1 DEF Drops
  <2>4. CleanHeld(planted, pc[r], q, work[r]) BY DEF PlantInv, CleanOK
  <2>5. CleanIn(planted, d) /\ CleanIn(planted, e)
        BY <1>0, <2>1, <2>2, <2>4, PartKeeps DEF CleanHeld, CleanIn, Live, Handling
  <2>6. Comes(r, d.custom) /\ Comes(r, e.custom) BY <1>0, <2>1, <2>2, OwnComes, PartKeeps
  <2>7. Flows(r) BY <1>0, <1>4, <2>6, OwnComes DEF Flows
  <2>8. CleanHeld(planted, pc'[r], inner'[r], work'[r])
        BY <1>0, <1>4, <2>4, <2>5 DEF CleanHeld, Live, Handling
  <2>9. NewKept(r)
    <3> SUFFICES ASSUME NewLogin(pc'[r], inner'[r]), NEW k \in Keys \ Preserved,
                        inner'[r].data.custom[k] # NoVal
                 PROVE  /\ NewLogin(pc[r], q)
                        /\ q.data.custom[k] = r /\ inner'[r].data.custom[k] = r
                        /\ Hidden(store', pc'[r], inner'[r], work'[r], k, r)
        BY DEF NewKept
    <3>1. /\ NewLogin(pc[r], q) /\ OwnOnly(r, k)
          /\ q.data.custom[k] = r /\ inner'[r].data.custom[k] = r
          BY <1>0, <2>3, DropsNew DEF Live, Handling
    <3>2. ~InRows(store, k, r) /\ q.loaded.custom[k] # r BY <3>1 DEF OwnOnly, Hidden
    <3>3. pc'[r] \notin Swapping
      <4> SUFFICES ASSUME pc'[r] \in Swapping PROVE FALSE OBVIOUS
      <4>1. Faithful(r) BY FinishHandlerFaithful
      <4>2. /\ SwapOK(loginOf', inner'[r], work'[r])
            /\ CopyOK(store', loginOf', inner'[r])
            BY <4>1 DEF Faithful, HoldsOK, Live
      <4>3. d.auth.login = loginOf'[row_id(inner'[r])] BY <1>4, <4>2 DEF SwapOK
      <4> QED BY <1>4, <4>2, <4>3 DEF CopyOK, NewLogin
    <3> QED BY <1>0, <1>4, <3>1, <3>2, <3>3 DEF Hidden
  <2> QED BY <1>0, <2>7, <2>8, <2>9 DEF Sound
<1> QED BY <1>2, <1>3, <1>4 DEF Finishes

-----------------------------------------------------------------------------
(* The step that puts a value in a session: until now it was nowhere. *)

LEMMA SetCustomPlants ==
    ASSUME ForkInv, PlantInv, NEW r \in Requests, Alone(r), SetCustom(r),
           call[r].ops \subseteq call'[r].ops
    PROVE  PlantInv'
<1>0. Typed /\ pc[r] = "handler" /\ UNCHANGED <<store, pc, work>>
      BY DEF ForkInv, SetCustom, Handler, shared
<1>1. PICK j \in Keys :
        LET bag == [inner[r].data.custom EXCEPT ![j] = r]
        IN  /\ Handler(r, "set", j) /\ Called(r, "set", j, 0)
            /\ \/ /\ SetInner(r, with_custom(inner[r], bag))
                  /\ planted' = IF LoggedIn(inner[r].data.auth) THEN planted
                                ELSE planted \cup {<<j, r>>}
               \/ UNCHANGED <<inner, planted>>
      BY DEF SetCustom
<1> DEFINE q == inner[r]
           bag == [q.data.custom EXCEPT ![j] = r]
<1>2. q \in Inner /\ q.data.custom \in Bag BY <1>0, HandlerFields
<1>3. CASE UNCHANGED <<inner, planted>>
  <2>1. Drops(q, inner'[r]) BY <1>2, <1>3, Parts DEF Drops
  <2>2. Sound(r) BY <1>0, <2>1, DropsSound DEF Live, Handling
  <2>3. Tidy(r) BY <1>3, <2>2 DEF Tidy, Sound
  <2> QED BY <2>3, TidyStep
<1>4. CASE /\ SetInner(r, with_custom(q, bag))
           /\ planted' = IF LoggedIn(q.data.auth) THEN planted ELSE planted \cup {<<j, r>>}
  <2>1. bag \in Bag /\ bag[j] = r /\ \A k \in Keys \ {j} : bag[k] = q.data.custom[k]
        BY <1>2, LayerAssumption DEF Bag
  <2>2. inner'[r] = with_custom(q, bag) BY <1>0, <1>4 DEF SetInner, Typed, TypeOK
  <2> HIDE DEF bag
  <2>3. /\ inner'[r].data.custom = bag /\ inner'[r].data.auth = q.data.auth
        /\ inner'[r].loaded = q.loaded
        BY <1>2, <2>1, <2>2, WithCustomFields, WithCustomType
  <2>4. <<"set", j>> \notin call[r].ops BY <1>1 DEF Handler
  <2>5. <<"set", j>> \in call'[r].ops BY <1>0, <1>1 DEF Called, Typed, TypeOK
  <2>6. /\ ~InRows(store, j, r) /\ <<j, r>> \notin planted
        /\ \A s \in Requests : ~InHands(inner[s], work[s], j, r)
        BY <2>4 DEF PlantInv, Authors
  <2>7. planted' \subseteq planted \cup {<<j, r>>} BY <1>4
  <2>8. ASSUME NEW d, CleanIn(planted, d), d.custom[j] # r PROVE CleanIn(planted', d)
        BY <2>7, <2>8 DEF CleanIn, Clean
  <2>9. CleanOK'
    <3>1. ASSUME NEW i \in Ids, store[i] # NoRow PROVE CleanIn(planted', store[i])
          BY <2>6, <2>8, <3>1 DEF PlantInv, CleanOK, InRows
    <3>2. ASSUME NEW s \in Requests, s # r
          PROVE  CleanHeld(planted', pc'[s], inner'[s], work'[s])
      <4>1. ~InHands(inner[s], work[s], j, r) BY <2>6
      <4>2. CleanHeld(planted, pc[s], inner[s], work[s]) BY DEF PlantInv, CleanOK
      <4>3. CleanHeld(planted', pc[s], inner[s], work[s])
            BY <2>8, <4>1, <4>2 DEF CleanHeld, InHands
      <4> QED BY <3>2, <4>3 DEF Alone
    <3>3. CleanHeld(planted', pc'[r], inner'[r], work'[r])
      <4>1. ~InHands(q, work[r], j, r) BY <2>6
      <4>2. CleanHeld(planted, pc[r], q, work[r]) BY DEF PlantInv, CleanOK
      <4>3. q.loaded # NoRow => CleanIn(planted', q.loaded)
            BY <1>0, <2>8, <4>1, <4>2 DEF CleanHeld, InHands, Live, Handling
      <4>4. CleanIn(planted, q.data) BY <1>0, <4>2 DEF CleanHeld, Live, Handling
      <4>5. CleanIn(planted', inner'[r].data)
        <5> SUFFICES ASSUME LoggedIn(q.data.auth), NEW k \in Keys \ Preserved
                     PROVE  <<k, bag[k]>> \notin planted'
            BY <2>3 DEF CleanIn, Clean
        <5>1. planted' = planted BY <1>4
        <5>2. k # j => <<k, q.data.custom[k]>> \notin planted BY <4>4 DEF CleanIn, Clean
        <5> QED BY <2>1, <2>6, <5>1, <5>2
      <4> QED BY <1>0, <2>3, <4>3, <4>5 DEF CleanHeld, Swapping
    <3> QED BY <1>0, <3>1, <3>2, <3>3 DEF CleanOK
  <2>10. Authors'
    <3> SUFFICES ASSUME NEW k \in Keys, NEW v \in Requests, <<"set", k>> \notin call'[v].ops
                 PROVE  /\ ~InRows(store, k, v) /\ <<k, v>> \notin planted'
                        /\ \A s \in Requests : ~InHands(inner'[s], work[s], k, v)
        BY <1>0 DEF Authors
    <3>1. <<"set", k>> \notin call[v].ops BY DEF Alone
    <3>2. /\ ~InRows(store, k, v) /\ <<k, v>> \notin planted
          /\ \A s \in Requests : ~InHands(inner[s], work[s], k, v)
          BY <3>1 DEF PlantInv, Authors
    <3>3. k # j \/ v # r BY <2>5
    <3>4. <<k, v>> \notin planted' BY <2>7, <3>2, <3>3
    <3>5. ~InHands(inner'[r], work[r], k, v)
      <4>1. ~InHands(q, work[r], k, v) BY <3>2
      <4>2. bag[k] # v BY <2>1, <3>3, <4>1 DEF InHands
      <4> QED BY <2>3, <4>1, <4>2 DEF InHands
    <3>6. ASSUME NEW s \in Requests, s # r PROVE ~InHands(inner'[s], work[s], k, v)
          BY <3>2, <3>6 DEF Alone
    <3> QED BY <3>2, <3>4, <3>5, <3>6
  <2>11. NewOK'
    <3> SUFFICES ASSUME NEW s \in Requests, NewLogin(pc'[s], inner'[s]),
                        NEW k \in Keys \ Preserved, inner'[s].data.custom[k] # NoVal
                 PROVE  /\ inner'[s].data.custom[k] = s
                        /\ Hidden(store', pc'[s], inner'[s], work'[s], k, s)
                        /\ \A t \in Requests \ {s} : ~InHands(inner'[t], work'[t], k, s)
        BY DEF NewOK, OwnOnly
    <3>1. CASE s = r
      <4>1. NewLogin(pc[r], q) BY <1>0, <2>3, <3>1 DEF NewLogin
      <4>2. \A t \in Requests \ {r} : inner'[t] = inner[t] BY DEF Alone
      <4>3. CASE k = j
        <5>1. q.loaded.custom[j] # r BY <2>6, <4>1 DEF InHands, NewLogin
        <5> QED BY <1>0, <2>1, <2>3, <2>6, <3>1, <4>2, <4>3, <5>1 DEF Hidden, Swapping
      <4>4. CASE k # j
        <5>1. q.data.custom[k] = bag[k] BY <2>1, <4>4
        <5>2. OwnOnly(r, k) BY <2>3, <3>1, <4>1, <5>1 DEF PlantInv, NewOK
        <5> QED BY <1>0, <2>3, <3>1, <4>2, <5>1, <5>2 DEF OwnOnly, Hidden
      <4> QED BY <4>3, <4>4
    <3>2. CASE s # r
      <4>1. inner'[s] = inner[s] BY <3>2 DEF Alone
      <4>2. OwnOnly(s, k) BY <1>0, <4>1 DEF PlantInv, NewOK
      <4>3. ~InHands(inner'[r], work[r], k, s)
        <5>1. ~InHands(q, work[r], k, s) BY <3>2, <4>2 DEF OwnOnly
        <5>2. bag[k] # s BY <2>1, <3>2, <5>1 DEF InHands
        <5> QED BY <2>3, <5>1, <5>2 DEF InHands
      <4>4. \A t \in Requests \ {r} : inner'[t] = inner[t] BY DEF Alone
      <4> QED BY <1>0, <4>1, <4>2, <4>3, <4>4 DEF OwnOnly
    <3> QED BY <3>1, <3>2
  <2> QED BY <2>9, <2>10, <2>11 DEF PlantInv
<1> QED BY <1>1, <1>3, <1>4

LEMMA RequestSound ==
    ASSUME ForkInv, LoginInv, PlantInv, Typed', NEW r \in Requests,
           LoadNothing(r) \/ LoadRow(r) \/ Operate(r) \/ Serve(r), ~SetCustom(r)
    PROVE  Sound(r)
<1>0. Typed BY DEF ForkInv
<1>1. CASE LoadNothing(r) \/ LoadRow(r) \/ Verdict(r) \/ EndRow(r) BY <1>0, <1>1, LoadingSound
<1>2. CASE Operate(r) BY <1>0, <1>2, OperateSound, TakeSound
<1>3. CASE Serve(r)
  <2>1. CASE Register(r) \/ Recheck(r)
    <3>1. ~Take(r) BY <2>1 DEF Register, Recheck, Take, Handler
    <3> QED BY <1>0, <2>1, <3>1, OperateSound
  <2>2. CASE SwapTry(r) \/ SwapLoad(r) \/ FinishHandler(r)
        BY <1>0, <2>2, SwapTrySound, SwapLoadSound, FinishHandlerSound
  <2>3. CASE CycleMerge(r) \/ CycleRemove(r)
        BY <1>0, <2>3, CycleMergeSound, CycleRemoveSound
  <2>4. CASE Touch(r) \/ SaveFresh(r) \/ CycleSave(r) \/ FailClosed(r) \/ LiveOld(r)
             \/ RegisterNew(r) \/ RereadOld(r) \/ InvalidateOld(r) \/ LiveNew(r)
             \/ EndRevoked(r) \/ EndUntracked(r)
        BY <1>0, <2>4, SavingSound, SettlingSound
  <2> QED BY <1>1, <1>3, <2>1, <2>2, <2>3, <2>4 DEF Serve
<1> QED BY <1>1, <1>2, <1>3

LEMMA NextPlants ==
    ASSUME ForkInv, LoginInv, PlantInv, [Next]_vars PROVE PlantInv'
<1>0. Typed /\ Typed' BY NextTyped DEF ForkInv
<1>1. ASSUME NEW r \in Requests, LoadNothing(r) \/ LoadRow(r) \/ Operate(r) \/ Serve(r)
      PROVE  PlantInv'
  <2>1. Alone(r) /\ call[r].ops \subseteq call'[r].ops
        BY <1>0, <1>1, RequestFaithful, OpsGrow DEF Faithful
  <2>2. CASE SetCustom(r) BY <2>1, <2>2, SetCustomPlants
  <2>3. CASE ~SetCustom(r)
    <3>1. Sound(r) /\ UNCHANGED planted BY <1>0, <1>1, <2>3, RequestSound, PlantsNothing
    <3>2. Tidy(r) BY <2>1, <3>1 DEF Tidy, Sound
    <3> QED BY <3>2, TidyStep
  <2> QED BY <2>2, <2>3
<1>2. CASE Administer \/ Expire \/ UNCHANGED vars
  <2>1. /\ UNCHANGED <<pc, inner, work, call, planted>>
        /\ \A i \in Ids : store'[i] = store[i] \/ store'[i] = NoRow
        BY <1>0, <1>2, OtherSteps
  <2>2. \A k, v : InRows(store', k, v) => InRows(store, k, v) BY <2>1 DEF InRows
  <2>3. CleanOK' BY <2>1 DEF PlantInv, CleanOK
  <2>4. Authors' BY <2>1, <2>2 DEF PlantInv, Authors
  <2>5. NewOK' BY <2>1, <2>2 DEF PlantInv, NewOK, OwnOnly, Hidden
  <2> QED BY <2>3, <2>4, <2>5 DEF PlantInv
<1> QED BY <1>1, <1>2 DEF Next, AllServed

LEMMA InitPlants == Init => PlantInv
<1> SUFFICES ASSUME Init PROVE PlantInv OBVIOUS
<1>1. PICK row \in SeedRows :
        /\ store = [i \in Ids |-> IF i = Seed THEN row ELSE NoRow]
        /\ planted = IF LoggedIn(row.auth) THEN {}
                     ELSE {<<k, row.custom[k]>> : k \in {j \in Keys : row.custom[j] # NoVal}}
      BY DEF Init
<1>2. \A r \in Requests : pc[r] = "idle" /\ inner[r] = NewInner /\ work[r] = NoWork
      BY DEF Init
<1>3. \A k \in Keys : row.custom[k] \notin Requests BY SeedAssumption
<1>4. \A i \in Ids : store[i] # NoRow => store[i] = row BY <1>1
<1>5. CleanOK
  <2>1. CleanIn(planted, row) BY <1>1 DEF CleanIn, Clean
  <2> QED BY <1>2, <1>4, <2>1 DEF CleanOK, CleanHeld, Live, Handling, Swapping
<1>6. Authors
  <2>1. \A k \in Keys, v \in Requests : ~InRows(store, k, v) BY <1>3, <1>4 DEF InRows
  <2>2. \A k \in Keys, v \in Requests : <<k, v>> \notin planted BY <1>1, <1>3
  <2>3. \A k \in Keys, v \in Requests : ~InHands(NewInner, NoWork, k, v)
        BY NoValFree DEF InHands, NewInner, NoWork, DefaultData, EmptyBag
  <2> QED BY <1>2, <2>1, <2>2, <2>3 DEF Authors
<1>7. NewOK BY <1>2 DEF NewOK, NewLogin, Live, Handling, Swapping
<1> QED BY <1>5, <1>6, <1>7 DEF PlantInv

(* No stored row that is logged in holds a value that was put in the       *)
(* session before the login under a key the application does not keep,     *)
(* not even one that was written to the old row while the login ran, or    *)
(* that comes from a retried write (retain_across_login, merge_rotating,   *)
(* take_local).                                                            *)
THEOREM Unplanted == Spec => []NothingPlanted
<1>1. Init => ForkInv /\ LoginInv /\ PlantInv BY InitForks, InitLogins, InitPlants
<1>2. ForkInv /\ LoginInv /\ PlantInv /\ [Next]_vars => ForkInv' /\ LoginInv' /\ PlantInv'
      BY NextForks, NextLogins, NextPlants
<1>3. ForkInv /\ PlantInv => NothingPlanted
  <2> SUFFICES ASSUME ForkInv, PlantInv, NEW i \in Ids, store[i] # NoRow,
                      is_authenticated(store[i].auth), NEW k \in Keys \ Preserved
               PROVE  <<k, store[i].custom[k]>> \notin planted
      BY DEF NothingPlanted
  <2>1. store[i].auth \in AuthState BY RowField, DataTypes DEF ForkInv
  <2>2. LoggedIn(store[i].auth)
        BY <2>1, DataAssumption DEF AuthState, Guest, is_authenticated, LoggedIn
  <2> QED BY <2>2 DEF PlantInv, CleanOK, CleanIn, Clean
<1> QED BY <1>1, <1>2, <1>3, PTL DEF Spec

=============================================================================
