------------------------ MODULE SessionContentProofs ------------------------
(***************************************************************************)
(* What the sessions of SessionLayer keep: the registry holds the sessions *)
(* behind the cookies; a value that was put in a session once is handed to *)
(* one request at most; an acknowledged write is not lost.                 *)
(***************************************************************************)
EXTENDS SessionLayerProofs

(* The registry's hold on stored sessions, where an answer the registry    *)
(* does not give rejects the session and nobody impersonates.              *)
(*                                                                         *)
(* The argument: a row that is logged in is first stored under an id that  *)
(* is in no cookie; the id is sent once the registry was seen to hold it,  *)
(* and is struck off only by a logout or a revocation, since the other ids *)
(* that requests strike off are not sent yet or have no row any more.      *)

Rotating == Live \cup {"failclosed"}

(* Until its id rotates a session is a fresh guest or has a cookie's id;   *)
(* it rotates to an id without a row.                                      *)
RotatesOK(st, is, p, q) ==
    /\ p = "verdict" => q.id \in is
    /\ p \in {"register", "recheck"} => q.pre_cycle_id # NoId
    /\ p \in Live /\ q.pre_cycle_id = NoId /\ q.loaded # NoRow => q.id \in is
    /\ p \in Live /\ q.pre_cycle_id = NoId /\ q.loaded = NoRow => q.data.auth = Guest
    /\ p \in Rotating /\ q.pre_cycle_id # NoId => st[q.id] = NoRow
    /\ p \in Rotating \cup Settling => q.pre_cycle_id # q.id

(* A session that moved has left its old id, until it is answered. *)
SettlesOK(st, lo, p, q) ==
    p \in Settling =>
        /\ q.data.auth.login = lo[q.id]
        /\ st[q.pre_cycle_id] = NoRow
        /\ st[q.id] # NoRow => AuthKept(st[q.id].auth, q.data.auth)

Reached(rg, rv, auth, i) == <<auth.user, i>> \in rg \/ auth.login \in rv

(* What Tracked says of one id. *)
Tracks(st, rg, rv, i) ==
    st[i] # NoRow /\ is_authenticated(st[i].auth) => Reached(rg, rv, st[i].auth, i)

ReachedOK(rg, rv, p, q) == p \in {"reread", "invold"} => Reached(rg, rv, q.data.auth, q.id)

TrackOK(r) ==
    /\ RotatesOK(store, issued, pc[r], inner[r])
    /\ SettlesOK(store, loginOf, pc[r], inner[r])
    /\ ReachedOK(registry, revoked, pc[r], inner[r])

TrackInv == Tracked /\ \A r \in Requests : TrackOK(r)

(* What a step of r strikes off the registry, and what it sends. *)
StrikesOff(r) ==
    \A u, i : <<u, i>> \in registry /\ <<u, i>> \notin registry' =>
        /\ i \in {inner[r].id, inner[r].pre_cycle_id}
        /\ i \notin issued \/ store[i] = NoRow \/ loginOf[i] \in revoked'

Sends(r) ==
    /\ issued \subseteq issued'
    /\ \A i \in issued' : i \in issued \/ Tracks(store', registry', revoked', i)

Tracking(r) == StrikesOff(r) /\ Sends(r) /\ revoked \subseteq revoked' /\ TrackOK(r)'

(* What the other requests know of their sessions stays true. *)
LEMMA TracksStep ==
    ASSUME ForkInv, LoginInv, TrackInv, Fixed, NEW r \in Requests, Faithful(r), Tracking(r)
    PROVE  TrackInv'
<1>1. \A s \in Requests : call[s].minted \in Nat /\ call[s].minted <= MaxMint
      BY MintedNat DEF ForkInv
<1>2. issued \subseteq Ids BY DEF ForkInv, Typed, TypeOK
<1>3. \A x \in MintedNow(r) : x \in NotYet(r, call[r].minted) BY DEF MintedNow
<1>4. \A x \in MintedNow(r) : x \notin issued BY <1>3 DEF ForkInv, Unspent, Unused
<1>5. Tracked'
  <2> SUFFICES ASSUME NEW i \in issued', store'[i] # NoRow, is_authenticated(store'[i].auth)
               PROVE  Reached(registry', revoked', store'[i].auth, i)
      BY DEF Tracked, Reached
  <2>1. CASE i \notin issued BY <2>1 DEF Tracking, Sends, Tracks
  <2>2. CASE i \in issued
    <3>1. store[i] # NoRow /\ store[i].auth = store'[i].auth BY <2>2 DEF Fixed
    <3>2. Reached(registry, revoked, store[i].auth, i)
          BY <2>2, <3>1 DEF TrackInv, Tracked, Reached
    <3>3. store[i].auth.login = loginOf[i] BY <1>2, <2>2, <3>1 DEF LoginInv, RowLogins
    <3> QED BY <2>2, <3>1, <3>2, <3>3 DEF Tracking, StrikesOff, Reached
  <2> QED BY <2>1, <2>2
<1>6. ASSUME NEW s \in Requests PROVE TrackOK(s)'
  <2>1. CASE s = r BY <2>1 DEF Tracking
  <2>2. CASE s # r
    <3>1. pc'[s] = pc[s] /\ inner'[s] = inner[s] BY <2>2 DEF Faithful, Alone
    <3>2. /\ RotatesOK(store, issued, pc[s], inner[s])
          /\ SettlesOK(store, loginOf, pc[s], inner[s])
          /\ ReachedOK(registry, revoked, pc[s], inner[s])
          BY DEF TrackInv, TrackOK
    <3>3. ASSUME NEW x \in Ids, x \in issued \/ x \in MintedBy(s, call[s].minted)
          PROVE  /\ loginOf'[x] = loginOf[x]
                 /\ store'[x] = store[x] \/ store'[x] = NoRow \/ Replaces(x)
      <4>1. x \notin MintedNow(r) BY <1>1, <1>3, <1>4, <2>2, <3>3, Apart
      <4>2. ~Founds(r, x) BY <1>1, <2>2, <3>3, Apart DEF Founds
      <4> QED BY <4>1, <4>2 DEF Faithful, Assigns, Writes
    <3>4. /\ inner[s].id \in {NoId} \cup issued \cup MintedBy(s, call[s].minted)
          /\ inner[s].pre_cycle_id \in {NoId} \cup issued \cup MintedBy(s, call[s].minted)
          /\ inner[s].pre_cycle_id # NoId => inner[s].id \in MintedBy(s, call[s].minted)
          BY DEF ForkInv, Origins, RotatesToOwn
    <3>5. /\ pc[s] # "idle" => inner[s].id \in Ids
          /\ pc[s] \in Settling => inner[s].pre_cycle_id \in Ids
          BY ActiveFields DEF ForkInv, Settling, Cycling
    <3>6. RotatesOK(store', issued', pc[s], inner[s])
      <4>1. pc[s] \in Rotating => pc[s] # "idle" BY DEF Rotating, Live, Handling, Swapping
      <4>2. pc[s] \in Rotating /\ inner[s].pre_cycle_id # NoId => store'[inner[s].id] = NoRow
            BY <3>2, <3>3, <3>4, <3>5, <4>1 DEF RotatesOK, Replaces
      <4>3. issued \subseteq issued' BY DEF Tracking, Sends
      <4> QED BY <3>2, <4>2, <4>3 DEF RotatesOK
    <3>7. SettlesOK(store', loginOf', pc[s], inner[s])
      <4> SUFFICES ASSUME pc[s] \in Settling
                   PROVE  /\ inner[s].data.auth.login = loginOf'[inner[s].id]
                          /\ store'[inner[s].pre_cycle_id] = NoRow
                          /\ store'[inner[s].id] # NoRow =>
                                AuthKept(store'[inner[s].id].auth, inner[s].data.auth)
          BY DEF SettlesOK
      <4>1. /\ inner[s].id \in Ids /\ inner[s].pre_cycle_id \in Ids
            /\ inner[s].id \in issued \cup MintedBy(s, call[s].minted)
            /\ inner[s].pre_cycle_id \in issued \cup MintedBy(s, call[s].minted)
            BY <3>4, <3>5, NoIdFact DEF Settling
      <4>2. /\ inner[s].data.auth.login = loginOf[inner[s].id]
            /\ store[inner[s].pre_cycle_id] = NoRow
            /\ store[inner[s].id] # NoRow => AuthKept(store[inner[s].id].auth, inner[s].data.auth)
            BY <3>2 DEF SettlesOK
      <4> QED BY <3>3, <4>1, <4>2 DEF Replaces, AuthKept
    <3>8. ReachedOK(registry', revoked', pc[s], inner[s])
      <4> SUFFICES ASSUME pc[s] \in {"reread", "invold"}
                   PROVE  Reached(registry', revoked', inner[s].data.auth, inner[s].id)
          BY DEF ReachedOK
      <4>1. inner[s].pre_cycle_id # NoId BY <3>5, NoIdFact DEF Settling
      <4>2. inner[s].id \in MintedBy(s, call[s].minted) BY <3>4, <4>1
      <4>3. inner[s].id \notin issued
            BY <1>1, <4>2, Minting, MintedNat DEF ForkInv, NotSent, Finished
      <4>4. inner[r].id # inner[s].id /\ inner[r].pre_cycle_id # inner[s].id
            BY <2>2, <4>2, <4>3, Foreign
      <4>5. Reached(registry, revoked, inner[s].data.auth, inner[s].id) BY <3>2 DEF ReachedOK
      <4> QED BY <4>4, <4>5 DEF Tracking, StrikesOff, Reached
    <3> QED BY <3>1, <3>6, <3>7, <3>8 DEF TrackOK
  <2> QED BY <2>1, <2>2
<1> QED BY <1>5, <1>6 DEF TrackInv


-----------------------------------------------------------------------------
(* The ids of a request, step by step. *)

KeepsIds(q, p) ==
    /\ p.id = q.id /\ p.pre_cycle_id = q.pre_cycle_id
    /\ p.loaded = NoRow <=> q.loaded = NoRow
    /\ q.data.auth = Guest => p.data.auth = Guest \/ p.loaded # NoRow

TakesNew(r) ==
    /\ inner'[r].id \in MintedNow(r)
    /\ inner'[r].pre_cycle_id = row_id(inner[r])

(* Nothing is stored that was not, and no cookie is taken back. *)
StoresLess == \A i \in Ids : store'[i] # NoRow => store[i] # NoRow

LEMMA KeepsTracking ==
    ASSUME ForkInv, NEW r \in Requests, TrackOK(r), pc[r] \in Rotating, pc'[r] \in Rotating,
           pc[r] = "failclosed" => pc'[r] = "failclosed",
           pc'[r] \in {"register", "recheck"} => inner[r].pre_cycle_id # NoId,
           KeepsIds(inner[r], inner'[r]), issued \subseteq issued', StoresLess
    PROVE  TrackOK(r)'
<1>1. RotatesOK(store, issued, pc[r], inner[r]) BY DEF TrackOK
<1>2. pc[r] # "idle" BY DEF Rotating, Live, Handling, Swapping
<1>3. inner[r].id \in Ids BY <1>2, ActiveFields DEF ForkInv
<1>4. pc'[r] # "verdict" /\ pc'[r] \notin Settling
      BY DEF Rotating, Live, Handling, Swapping, Settling
<1>5. pc'[r] \in Live => pc[r] \in Live BY DEF Rotating, Live, Handling, Swapping
<1>6. RotatesOK(store', issued', pc'[r], inner'[r])
      BY <1>1, <1>3, <1>4, <1>5 DEF RotatesOK, KeepsIds, StoresLess
<1> QED BY <1>4, <1>6 DEF TrackOK, SettlesOK, ReachedOK, Settling

LEMMA NewTracking ==
    ASSUME ForkInv, NEW r \in Requests, pc[r] # "idle", pc'[r] \in Live, TakesNew(r), StoresLess
    PROVE  TrackOK(r)'
<1>1. /\ row_id(inner[r]) \in Ids /\ row_id(inner[r]) \notin MintedNow(r) BY OwnIds
<1>2. inner'[r].pre_cycle_id # NoId /\ inner'[r].pre_cycle_id # inner'[r].id
      BY <1>1, NoIdFact DEF TakesNew
<1>3. inner'[r].id \in NotYet(r, call[r].minted) BY DEF TakesNew, MintedNow
<1>4. inner'[r].id \in Ids BY <1>3, MintedNat, Minting DEF ForkInv
<1>5. store'[inner'[r].id] = NoRow BY <1>3, <1>4 DEF ForkInv, Unspent, Unused, StoresLess
<1>6. pc'[r] # "verdict" /\ pc'[r] \notin Settling
      BY DEF Live, Handling, Swapping, Settling
<1>7. RotatesOK(store', issued', pc'[r], inner'[r]) BY <1>2, <1>5, <1>6 DEF RotatesOK
<1> QED BY <1>6, <1>7 DEF TrackOK, SettlesOK, ReachedOK, Settling

LEMMA LoadsTracking ==
    ASSUME NEW r \in Requests, pc'[r] \in {"verdict", "handler"}, inner'[r].id \in Ids,
           inner'[r].pre_cycle_id = NoId,
           \/ /\ inner'[r].id \in issued'
              /\ pc'[r] = "verdict" \/ inner'[r].loaded # NoRow
           \/ /\ pc'[r] = "handler" /\ inner'[r].loaded = NoRow /\ inner'[r].data.auth = Guest
    PROVE  TrackOK(r)'
<1>1. RotatesOK(store', issued', pc'[r], inner'[r])
      BY NoIdFact DEF RotatesOK, Live, Handling, Swapping
<1> QED BY <1>1 DEF TrackOK, SettlesOK, ReachedOK, Settling


(* A step that leaves the registry and the cookies alone. *)
LEMMA QuietTracking ==
    ASSUME NEW r \in Requests, UNCHANGED <<registry, issued, revoked>>, TrackOK(r)'
    PROVE  Tracking(r)
BY DEF Tracking, StrikesOff, Sends

LEMMA EndsTracking ==
    ASSUME NEW r \in Requests, pc'[r] \in Finished \cup {"endrow"} PROVE TrackOK(r)'
BY DEF TrackOK, RotatesOK, SettlesOK, ReachedOK, Rotating, Live, Handling, Swapping, Settling,
       Finished

-----------------------------------------------------------------------------
(* Loading. *)

LEMMA FreshTracking ==
    ASSUME ForkInv, NEW r \in Requests, NEW c, NEW dirt, StartFresh(r, c, dirt)
    PROVE  TrackOK(r)'
<1> DEFINE f == IF Binding THEN c ELSE NoFp
           q == [NewInner EXCEPT !.id = Minted(r, 1), !.dirty = dirt, !.pending = f]
<1>1. CanMint(r, 1) /\ inner'[r] = q /\ pc'[r] = "handler"
      BY DEF StartFresh, SetInner, Goto, ForkInv, Typed, TypeOK
<1> HIDE DEF f
<1>2. q.id = Minted(r, 1) /\ q.pre_cycle_id = NoId /\ q.loaded = NoRow /\ q.data = DefaultData
      BY DEF NewInner
<1> HIDE DEF q
<1>3. Minted(r, 1) \in Ids BY <1>1, MintType DEF ForkInv
<1>4. DefaultData.auth = Guest BY DEF DefaultData
<1> QED BY <1>1, <1>2, <1>3, <1>4, LoadsTracking

LEMMA TrustTracking ==
    ASSUME ForkInv, NEW r \in Requests, NEW c, NEW i \in issued, NEW row \in Data,
           Trust(r, c, i, row), UNCHANGED issued
    PROVE  TrackOK(r)'
<1> DEFINE fp == IF Binding THEN c ELSE NoFp
           data == check_binding(row, fp)
           t == IF data = row THEN "clean" ELSE "modified"
           e == IF data.fp = NoFp THEN fp ELSE NoFp
           q == [id |-> i, pre_cycle_id |-> NoId, data |-> data, dirty |-> t,
                 pending |-> e, loaded |-> row]
<1>1. CASE data = NoRow BY <1>1, FreshTracking DEF Trust
<1>2. CASE data # NoRow
  <2>1. inner'[r] = q /\ pc'[r] = "handler"
        BY <1>2 DEF Trust, SetInner, Goto, ForkInv, Typed, TypeOK
  <2> HIDE DEF data, t, e
  <2>2. q.id = i /\ q.pre_cycle_id = NoId /\ q.loaded = row OBVIOUS
  <2> HIDE DEF q
  <2>3. row # NoRow /\ i \in Ids BY LayerAssumption DEF ForkInv, Typed, TypeOK
  <2> QED BY <2>1, <2>2, <2>3, LoadsTracking
<1> QED BY <1>1, <1>2

LEMMA LoadingTracking ==
    ASSUME ForkInv, TrackInv, NEW r \in Requests,
           LoadNothing(r) \/ LoadRow(r) \/ Verdict(r) \/ EndRow(r)
    PROVE  Tracking(r)
<1>0. UNCHANGED <<registry, issued, revoked>>
      BY DEF LoadNothing, LoadRow, Verdict, EndRow, shared, history
<1>1. CASE LoadNothing(r) \/ EndRow(r)
      BY <1>0, <1>1, FreshTracking, QuietTracking DEF LoadNothing, EndRow
<1>2. CASE LoadRow(r)
  <2>1. PICK c \in Clients, i \in issued :
          /\ store[i] # NoRow
          /\ \/ SetInner(r, [NewInner EXCEPT !.id = i, !.data = store[i]]) /\ Goto(r, "verdict")
             \/ Trust(r, c, i, store[i])
        BY <1>2 DEF LoadRow
  <2>2. i \in Ids /\ store[i] \in Data BY <2>1, RowField DEF ForkInv, Typed, TypeOK
  <2>3. CASE SetInner(r, [NewInner EXCEPT !.id = i, !.data = store[i]]) /\ Goto(r, "verdict")
    <3> DEFINE q == [NewInner EXCEPT !.id = i, !.data = store[i]]
    <3>1. inner'[r] = q /\ pc'[r] = "verdict"
          BY <2>3 DEF SetInner, Goto, ForkInv, Typed, TypeOK
    <3>2. q.id = i /\ q.pre_cycle_id = NoId BY DEF NewInner
    <3> HIDE DEF q
    <3> QED BY <1>0, <2>2, <3>1, <3>2, LoadsTracking, QuietTracking
  <2>4. CASE Trust(r, c, i, store[i])
        BY <1>0, <2>2, <2>4, TrustTracking, QuietTracking
  <2> QED BY <2>1, <2>3, <2>4
<1>3. CASE Verdict(r)
  <2>0. pc[r] = "verdict" BY <1>3 DEF Verdict
  <2>1. inner[r].id \in issued BY <2>0 DEF TrackInv, TrackOK, RotatesOK
  <2>2. inner[r].data \in Data BY RequestFields, InnerFields DEF ForkInv
  <2>3. CASE Trust(r, call[r].client, inner[r].id, inner[r].data)
        BY <1>0, <2>1, <2>2, <2>3, TrustTracking, QuietTracking
  <2>4. CASE StartFresh(r, call[r].client, "clean")
        BY <1>0, <2>4, FreshTracking, QuietTracking
  <2>5. CASE Goto(r, "endrow")
    <3>1. pc'[r] = "endrow" BY <2>5 DEF Goto, ForkInv, Typed, TypeOK
    <3> QED BY <1>0, <3>1, EndsTracking, QuietTracking
  <2> QED BY <1>3, <2>3, <2>4, <2>5 DEF Verdict
<1> QED BY <1>1, <1>2, <1>3

-----------------------------------------------------------------------------
(* The handler's operations. *)

LEMMA RotationIds ==
    ASSUME ForkInv, NEW r \in Requests, pc[r] \in Handling, CanMint(r, 1), NEW q,
           q.id = Minted(r, 1), q.pre_cycle_id = row_id(inner[r]), Rotated(r, q),
           NEW op, NEW k, Called(r, op, k, 1) \/ Mint(r, 1)
    PROVE  TakesNew(r)
<1>1. inner'[r] = q BY DEF Rotated, SetInner, ForkInv, Typed, TypeOK
<1>2. call[r].minted \in Nat /\ call'[r].minted = call[r].minted + 1
      BY CountedStep, MintedNat DEF ForkInv
<1>3. q.id \in MintedNow(r)
      BY <1>2, LayerAssumption DEF MintedNow, MintedBy, NotYet, Minted, CanMint
<1> QED BY <1>1, <1>3 DEF TakesNew

LEMMA ClearIds ==
    ASSUME ForkInv, NEW r \in Requests, pc[r] \in Handling, CanMint(r, 1),
           Rotated(r, clear(inner[r], Minted(r, 1))),
           NEW op, NEW k, Called(r, op, k, 1) \/ Mint(r, 1)
    PROVE  TakesNew(r)
<1> DEFINE q == clear(inner[r], Minted(r, 1))
<1>1. q.id = Minted(r, 1) /\ q.pre_cycle_id = row_id(inner[r])
      BY HandlerFields, MintType, ClearType DEF ForkInv, Handling, row_id
<1>2. Rotated(r, q) OBVIOUS
<1> HIDE DEF q
<1> QED BY <1>1, <1>2, RotationIds

LEMMA LoginIds ==
    ASSUME ForkInv, NEW r \in Requests, CompleteFactor(r) \/ OAuthLogin(r) PROVE TakesNew(r)
<1>0. pc[r] = "handler" /\ CanMint(r, 1)
      BY DEF CompleteFactor, OAuthLogin, Handler
<1>1. inner[r] \in Inner /\ inner[r].data.auth \in AuthState /\ Minted(r, 1) \in Ids
      BY <1>0, HandlerFields, MintType DEF ForkInv
<1>2. ASSUME NEW a \in AuthState, Rotated(r, authenticated(inner[r], a, Minted(r, 1))),
             NEW op, Called(r, op, NoKey, 1)
      PROVE  TakesNew(r)
  <2> DEFINE q == authenticated(inner[r], a, Minted(r, 1))
  <2>1. q.id = Minted(r, 1) /\ q.pre_cycle_id = row_id(inner[r])
        BY <1>1, AuthenticatedType DEF row_id
  <2>2. Rotated(r, q) BY <1>2
  <2> HIDE DEF q
  <2> QED BY <1>0, <1>2, <2>1, <2>2, RotationIds DEF Handling
<1>3. CASE CompleteFactor(r)
  <2> DEFINE auth == inner[r].data.auth
             a == IF auth.kind = "StepUp" THEN finish_step_up(auth)
                  ELSE set_authenticated(auth.user, r)
  <2>1. /\ auth.kind \in {"Authenticating", "StepUp"} /\ Called(r, "factor", NoKey, 1)
        /\ Rotated(r, authenticated(inner[r], a, Minted(r, 1)))
        BY <1>3 DEF CompleteFactor
  <2>2. a \in AuthState BY <1>1, <2>1, LayerAssumption, AuthTypes
  <2> HIDE DEF a
  <2> QED BY <1>2, <2>1, <2>2
<1>4. CASE OAuthLogin(r)
  <2>1. PICK u \in Users :
            Rotated(r, authenticated(inner[r], set_authenticated(u, r), Minted(r, 1)))
        BY <1>4 DEF OAuthLogin
  <2>2. set_authenticated(u, r) \in AuthState BY LayerAssumption, AuthTypes
  <2>3. Called(r, "oauth", NoKey, 1) BY <1>4 DEF OAuthLogin
  <2> QED BY <1>2, <2>1, <2>2, <2>3
<1> QED BY <1>3, <1>4


LEMMA RenewedIds ==
    ASSUME ForkInv, NEW r \in Requests, Regenerate(r) \/ BeginLogin(r) PROVE TakesNew(r)
<1>0. pc[r] = "handler" /\ CanMint(r, 1) BY DEF Regenerate, BeginLogin, Handler
<1>1. inner[r] \in Inner /\ inner[r].data.custom \in Bag /\ Minted(r, 1) \in Ids
      BY <1>0, HandlerFields, MintType DEF ForkInv
<1>2. CASE Regenerate(r)
  <2> DEFINE q == rotate_id(inner[r], Minted(r, 1))
  <2>1. q.id = Minted(r, 1) /\ q.pre_cycle_id = row_id(inner[r])
        BY <1>1, RotateType DEF row_id
  <2>2. Rotated(r, q) /\ Called(r, "regenerate", NoKey, 1) BY <1>2 DEF Regenerate
  <2> HIDE DEF q
  <2> QED BY <1>0, <2>1, <2>2, RotationIds DEF Handling
<1>3. CASE BeginLogin(r)
  <2>1. PICK u \in Users :
            Rotated(r, bind_fingerprint(rotate_id(
                with_auth(inner[r], begin_authenticating(u), inner[r].data.custom),
                Minted(r, 1))))
        BY <1>3 DEF BeginLogin
  <2> DEFINE o == with_auth(inner[r], begin_authenticating(u), inner[r].data.custom)
             p == rotate_id(o, Minted(r, 1))
             q == bind_fingerprint(p)
  <2>2. begin_authenticating(u) \in AuthState BY AuthTypes
  <2>3. o \in Inner /\ o.id = inner[r].id /\ o.pre_cycle_id = inner[r].pre_cycle_id
        BY <1>1, <2>2, WithAuthType
  <2>4. Rotated(r, q) BY <2>1
  <2> HIDE DEF o
  <2>5. p \in Inner /\ p.id = Minted(r, 1) /\ p.pre_cycle_id = row_id(inner[r])
        BY <1>1, <2>3, RotateType DEF row_id
  <2> HIDE DEF p
  <2>6. q.id = Minted(r, 1) /\ q.pre_cycle_id = row_id(inner[r]) BY <2>5, BindType
  <2>7. Called(r, "begin", NoKey, 1) BY <1>3 DEF BeginLogin
  <2> HIDE DEF q
  <2> QED BY <1>0, <2>4, <2>6, <2>7, RotationIds DEF Handling
<1> QED BY <1>2, <1>3

(* The operations that stay under their id. *)
LEMMA EditingIds ==
    ASSUME Typed, NEW r \in Requests,
           SetCustom(r) \/ RemoveCustom(r) \/ ClearCustom(r) \/ StepUp(r) \/ Take(r)
    PROVE  KeepsIds(inner[r], inner'[r])
<1>0. pc[r] = "handler" BY DEF SetCustom, RemoveCustom, ClearCustom, StepUp, Take, Handler
<1>1. /\ inner[r] \in Inner /\ inner[r].data \in Data /\ inner[r].data.custom \in Bag
      /\ inner[r].data.auth \in AuthState
      BY <1>0, HandlerFields
<1>2. ASSUME NEW q, SetInner(r, q) PROVE inner'[r] = q
      BY <1>2 DEF SetInner, Typed, TypeOK
<1>3. ASSUME NEW b \in Bag, SetInner(r, with_custom(inner[r], b))
      PROVE  KeepsIds(inner[r], inner'[r])
  <2>1. inner'[r] = with_custom(inner[r], b) BY <1>2, <1>3
  <2> QED BY <1>1, <2>1, WithCustomType DEF KeepsIds
<1>4. CASE UNCHANGED inner BY <1>4 DEF KeepsIds
<1>5. CASE SetCustom(r) /\ ~UNCHANGED inner
  <2>1. PICK k \in Keys : SetInner(r, with_custom(inner[r], [inner[r].data.custom EXCEPT ![k] = r]))
        BY <1>5 DEF SetCustom
  <2>2. [inner[r].data.custom EXCEPT ![k] = r] \in Bag BY <1>1, LayerAssumption DEF Bag
  <2> QED BY <1>3, <2>1, <2>2
<1>6. CASE RemoveCustom(r)
  <2>1. PICK k \in Keys :
            SetInner(r, with_custom(inner[r], [inner[r].data.custom EXCEPT ![k] = NoVal]))
        BY <1>6 DEF RemoveCustom
  <2>2. [inner[r].data.custom EXCEPT ![k] = NoVal] \in Bag BY <1>1 DEF Bag
  <2> QED BY <1>3, <2>1, <2>2
<1>7. CASE ClearCustom(r) BY <1>3, <1>7, BagTypes DEF ClearCustom
<1>8. CASE Take(r)
  <2>1. PICK k \in Keys : SetInner(r, with_custom(inner[r], without(inner[r].data, k).custom))
        BY <1>8 DEF Take
  <2>2. without(inner[r].data, k).custom \in Bag BY <1>1, DataTypes
  <2> QED BY <1>3, <2>1, <2>2
<1>9. CASE StepUp(r)
  <2> DEFINE a == begin_step_up(inner[r].data.auth)
             p == with_auth(inner[r], a, inner[r].data.custom)
             q == with_custom(p, inner[r].data.custom)
  <2>1. is_authenticated(inner[r].data.auth) /\ inner'[r] = q BY <1>2, <1>9 DEF StepUp
  <2>2. a \in AuthState BY <1>1, <2>1, AuthTypes
  <2>3. inner[r].data.auth # Guest BY <2>1 DEF is_authenticated, Guest
  <2> HIDE DEF a
  <2>4. /\ p \in Inner /\ p.id = inner[r].id /\ p.pre_cycle_id = inner[r].pre_cycle_id
        /\ p.loaded = inner[r].loaded
        BY <1>1, <2>2, WithAuthType
  <2> HIDE DEF p
  <2>5. /\ q.id = p.id /\ q.pre_cycle_id = p.pre_cycle_id /\ q.loaded = p.loaded
        BY <1>1, <2>4, WithCustomType
  <2> HIDE DEF q
  <2> QED BY <2>1, <2>3, <2>4, <2>5 DEF KeepsIds
<1> QED BY <1>4, <1>5, <1>6, <1>7, <1>8, <1>9

LEMMA EditingTracking ==
    ASSUME ForkInv, TrackInv, NEW r \in Requests,
           SetCustom(r) \/ RemoveCustom(r) \/ ClearCustom(r) \/ StepUp(r) \/ Take(r)
    PROVE  Tracking(r)
<1>0. pc[r] = "handler" /\ UNCHANGED <<store, registry, issued, revoked>>
      BY DEF SetCustom, RemoveCustom, ClearCustom, StepUp, Take, Handler, shared, history
<1>1. pc'[r] \in {"handler", "swap"}
      BY <1>0 DEF SetCustom, RemoveCustom, ClearCustom, StepUp, Take, Goto, ForkInv, Typed, TypeOK
<1>2. KeepsIds(inner[r], inner'[r]) BY EditingIds DEF ForkInv
<1>3. TrackOK(r)'
      BY <1>0, <1>1, <1>2, KeepsTracking
      DEF TrackInv, StoresLess, Rotating, Live, Handling, Swapping
<1> QED BY <1>0, <1>3, QuietTracking

LEMMA RenewingTracking ==
    ASSUME ForkInv, NEW r \in Requests,
           Regenerate(r) \/ BeginLogin(r) \/ CompleteFactor(r) \/ OAuthLogin(r)
    PROVE  Tracking(r)
<1>0. pc[r] = "handler" /\ UNCHANGED <<store, registry, issued, revoked>>
      BY DEF Regenerate, BeginLogin, CompleteFactor, OAuthLogin, Handler, shared
<1>1. pc'[r] \in {"handler", "register"}
      BY <1>0 DEF Regenerate, BeginLogin, CompleteFactor, OAuthLogin, Goto, ForkInv, Typed, TypeOK
<1>2. TakesNew(r) BY RenewedIds, LoginIds
<1>3. TrackOK(r)' BY <1>0, <1>1, <1>2, NewTracking DEF StoresLess, Live, Handling
<1> QED BY <1>0, <1>3, QuietTracking

(* What a logout strikes off, it revokes. *)
LEMMA LogoutTracking ==
    ASSUME ForkInv, LoginInv, NEW r \in Requests, Logout(r) PROVE Tracking(r)
<1>0. /\ pc[r] = "handler" /\ pc'[r] = "handler" /\ UNCHANGED <<store, issued>>
      /\ CanMint(r, 1) /\ Called(r, "logout", NoKey, 1)
      /\ Rotated(r, clear(inner[r], Minted(r, 1)))
      BY DEF Logout, Handler
<1>1. TakesNew(r) BY <1>0, ClearIds DEF Handling
<1>2. TrackOK(r)' BY <1>0, <1>1, NewTracking DEF StoresLess, Live, Handling
<1>3. inner[r].data.auth.login = loginOf[inner[r].id]
      BY <1>0 DEF LoginInv, Holds, HoldsOK, Live, Handling, CopyOK
<1>4. /\ registry' # registry => revoked' = revoked \cup {inner[r].data.auth.login}
      /\ registry' = registry => revoked' = revoked
      /\ registry' = registry \/ registry' = registry \ {<<inner[r].data.auth.user, inner[r].id>>}
      BY DEF Logout, invalidate_session
<1>5. StrikesOff(r) BY <1>3, <1>4 DEF StrikesOff
<1> QED BY <1>0, <1>2, <1>4, <1>5 DEF Tracking, Sends

(* A registered id is not in a cookie yet. *)
LEMMA OwnUnsent ==
    ASSUME ForkInv, NEW r \in Requests, pc[r] \notin Finished, inner[r].pre_cycle_id # NoId
    PROVE  inner[r].id \notin issued
<1>1. inner[r].id \in MintedBy(r, call[r].minted) BY DEF ForkInv, RotatesToOwn
<1>2. inner[r].id \in MintedBy(r, MaxMint) BY <1>1, MintedNat, Minting DEF ForkInv
<1> QED BY <1>2 DEF ForkInv, NotSent

LEMMA RegisteringTracking ==
    ASSUME ForkInv, TrackInv, NEW r \in Requests, Register(r) \/ Recheck(r) PROVE Tracking(r)
<1>0. /\ pc[r] \in {"register", "recheck"} /\ pc'[r] \in {"handler", "recheck"}
      /\ UNCHANGED <<store, issued, revoked>>
      BY DEF Register, Recheck, Goto, ForkInv, Typed, TypeOK
<1>1. inner[r].pre_cycle_id # NoId BY <1>0 DEF TrackInv, TrackOK, RotatesOK
<1>2. inner[r].id \notin issued BY <1>0, <1>1, OwnUnsent DEF Finished
<1>3. TrackOK(r)'
  <2>1. CASE UNCHANGED inner
    <3>1. KeepsIds(inner[r], inner'[r]) BY <2>1 DEF KeepsIds
    <3> QED BY <1>0, <1>1, <3>1, KeepsTracking DEF TrackInv, StoresLess, Rotating, Live, Handling
  <2>2. CASE ClearSession(r) /\ ~UNCHANGED inner
    <3>1. TakesNew(r) BY <1>0, <2>2, ClearIds DEF ClearSession, Handling
    <3> QED BY <1>0, <3>1, NewTracking DEF StoresLess, Live, Handling
  <2> QED BY <2>1, <2>2 DEF Register, Recheck
<1>4. \/ registry \subseteq registry'
      \/ registry' = registry \ {<<inner[r].data.auth.user, inner[r].id>>}
      BY DEF Register, Recheck, register, invalidate_session
<1>5. StrikesOff(r) BY <1>2, <1>4 DEF StrikesOff
<1> QED BY <1>0, <1>3, <1>5 DEF Tracking, Sends


-----------------------------------------------------------------------------
(* finalize_session. *)

LEMMA SwapEndsTracking ==
    ASSUME ForkInv, NEW r \in Requests, TrackOK(r), pc[r] \in Swapping \cup {"touch"},
           pc[r] = "touch" => work[r].key = NoKey, SwapGone(r) \/ SwapFailed(r),
           UNCHANGED <<store, issued>>
    PROVE  TrackOK(r)'
<1>1. CASE work[r].key = NoKey
  <2>1. pc'[r] = "nocookie" BY <1>1 DEF SwapGone, SwapFailed, Goto, ForkInv, Typed, TypeOK
  <2> QED BY <2>1, EndsTracking DEF Finished
<1>2. CASE work[r].key # NoKey
  <2>1. pc'[r] = "handler" /\ UNCHANGED inner
        BY <1>2 DEF SwapGone, SwapFailed, Goto, ForkInv, Typed, TypeOK
  <2>2. KeepsIds(inner[r], inner'[r]) BY <2>1 DEF KeepsIds
  <2> QED BY <2>1, <2>2, KeepsTracking DEF StoresLess, Rotating, Live, Handling, Swapping
<1> QED BY <1>1, <1>2

(* A session written in place is under an id from a cookie. *)
LEMMA SentAlready ==
    ASSUME ForkInv, NEW r \in Requests, TrackOK(r), pc[r] \in {"swap", "touch"},
           work[r].key = NoKey
    PROVE  inner[r].id \in issued
<1>1. inner[r].pre_cycle_id = NoId /\ inner[r].loaded # NoRow
      BY RequestFields DEF LocalsOf, ForkInv
<1> QED BY <1>1 DEF TrackOK, RotatesOK, Live, Swapping

LEMMA SwapTryTracking ==
    ASSUME ForkInv, TrackInv, NEW r \in Requests, SwapTry(r) PROVE Tracking(r)
<1>0. pc[r] = "swap" /\ UNCHANGED <<registry, revoked>> /\ TrackOK(r)
      BY DEF SwapTry, TrackInv
<1>1. CASE (SwapGone(r) \/ SwapFailed(r)) /\ UNCHANGED <<store, issued>>
      BY <1>0, <1>1, SwapEndsTracking, QuietTracking DEF Swapping
<1>2. CASE Goto(r, "swapload") /\ UNCHANGED <<store, issued, inner>>
  <2>1. pc'[r] = "swapload" BY <1>2 DEF Goto, ForkInv, Typed, TypeOK
  <2>2. KeepsIds(inner[r], inner'[r]) BY <1>2 DEF KeepsIds
  <2>3. TrackOK(r)'
        BY <1>0, <1>2, <2>1, <2>2, KeepsTracking
        DEF StoresLess, Rotating, Live, Handling, Swapping
  <2> QED BY <1>0, <1>2, <2>3, QuietTracking
<1>3. CASE /\ store[row_id(inner[r])] # NoRow
           /\ save(row_id(inner[r]), work[r].next) /\ SwapWritten(r)
  <2>1. CASE work[r].key = NoKey
    <3>1. inner[r].id \in issued BY <1>0, <2>1, SentAlready
    <3>2. pc'[r] = "cookie" /\ issued' = issued
          BY <1>3, <2>1, <3>1 DEF SwapWritten, SendCookie, Goto, ForkInv, Typed, TypeOK
    <3> QED BY <1>0, <3>2, EndsTracking, QuietTracking DEF Finished
  <2>2. CASE work[r].key # NoKey
    <3> DEFINE q == inner[r]
               w == work[r]
               d == IF w.key # NoKey /\ q.pre_cycle_id # NoId
                    THEN merge_rotating(q.loaded, q.data, w.next) ELSE w.next
               p == [q EXCEPT !.data = d, !.loaded = w.next]
    <3>1. inner'[r] = p /\ pc'[r] = "handler" /\ UNCHANGED issued
          BY <1>3, <2>2 DEF SwapWritten, SetInner, Goto, ForkInv, Typed, TypeOK
    <3>2. q \in Inner /\ q.loaded # NoRow /\ w.next # NoRow
      <4>1. w.next \in Data BY RequestFields, WorkFields DEF ForkInv
      <4> QED BY <1>0, <4>1, RequestFields, LayerAssumption DEF ForkInv, LocalsOf
    <3> HIDE DEF d, w
    <3>3. p.id = q.id /\ p.pre_cycle_id = q.pre_cycle_id /\ p.loaded = w.next
          BY <3>2 DEF Inner
    <3> HIDE DEF p
    <3>4. KeepsIds(inner[r], inner'[r]) BY <3>1, <3>2, <3>3 DEF KeepsIds
    <3>5. StoresLess
      <4>1. row_id(inner[r]) \in Ids BY <1>0, OwnIds
      <4> QED BY <1>3, <4>1 DEF StoresLess, save, ForkInv, Typed, TypeOK
    <3>6. TrackOK(r)'
          BY <1>0, <3>1, <3>4, <3>5, KeepsTracking DEF Rotating, Live, Handling, Swapping
    <3> QED BY <1>0, <3>1, <3>6, QuietTracking
  <2> QED BY <2>1, <2>2
<1> QED BY <1>1, <1>2, <1>3 DEF SwapTry

LEMMA SwapLoadTracking ==
    ASSUME ForkInv, TrackInv, NEW r \in Requests, SwapLoad(r) PROVE Tracking(r)
<1>0. pc[r] = "swapload" /\ UNCHANGED <<store, registry, issued, revoked>> /\ TrackOK(r)
      BY DEF SwapLoad, TrackInv, shared, history
<1>1. CASE SwapGone(r) \/ SwapFailed(r)
      BY <1>0, <1>1, SwapEndsTracking, QuietTracking DEF Swapping
<1>2. CASE Goto(r, "swap") /\ UNCHANGED inner
  <2>1. pc'[r] = "swap" BY <1>2 DEF Goto, ForkInv, Typed, TypeOK
  <2>2. KeepsIds(inner[r], inner'[r]) BY <1>2 DEF KeepsIds
  <2>3. TrackOK(r)'
        BY <1>0, <2>1, <2>2, KeepsTracking DEF StoresLess, Rotating, Live, Handling, Swapping
  <2> QED BY <1>0, <2>3, QuietTracking
<1> QED BY <1>1, <1>2 DEF SwapLoad

LEMMA FinishTracking ==
    ASSUME ForkInv, TrackInv, NEW r \in Requests, FinishHandler(r) PROVE Tracking(r)
<1> DEFINE q == inner[r]
           n == q.data.revision
<1>0. pc[r] = "handler" /\ UNCHANGED <<store, registry, issued, revoked>> /\ TrackOK(r)
      BY DEF FinishHandler, TrackInv, shared, history
<1>1. Finishes(r) BY FinishFields
<1>2. CASE pc'[r] = "nocookie"
      BY <1>0, <1>2, EndsTracking, QuietTracking DEF Finished
<1>3. CASE pc'[r] # "nocookie"
  <2>1. q.data \in Data /\ n \in Nat /\ n + 1 \in Nat
        BY <1>0, HandlerFields DEF ForkInv, Data
  <2>2. Stored(q.data, n + 1).auth = q.data.auth BY <2>1, StoredFields
  <2>3. inner'[r].data.auth = q.data.auth /\ inner'[r].loaded = q.loaded
        BY <1>1, <1>3, <2>2 DEF Finishes
  <2>4. pc'[r] \in Live /\ pc'[r] \notin {"register", "recheck"}
        BY <1>1, <1>3 DEF Finishes, Live, Swapping
  <2>5. CASE inner'[r].id = q.id /\ inner'[r].pre_cycle_id = q.pre_cycle_id
    <3>1. KeepsIds(inner[r], inner'[r]) BY <2>3, <2>5 DEF KeepsIds
    <3>2. TrackOK(r)'
          BY <1>0, <2>4, <3>1, KeepsTracking DEF StoresLess, Rotating, Live, Handling
    <3> QED BY <1>0, <3>2, QuietTracking
  <2>6. CASE /\ inner'[r].id = Minted(r, 1) /\ inner'[r].pre_cycle_id # NoId
             /\ q.pre_cycle_id = NoId /\ row_id(inner'[r]) = row_id(q)
             /\ inner'[r].id # q.id
    <3>1. inner'[r].pre_cycle_id = row_id(q) BY <2>6 DEF row_id
    <3>2. Mint(r, 1) /\ CanMint(r, 1)
      <4>1. inner \in [Requests -> Inner] BY DEF ForkInv, Typed, TypeOK
      <4> QED BY <1>3, <2>6, <4>1 DEF FinishHandler, SetInner, Goto, ForkInv, Typed, TypeOK
    <3>3. call[r].minted \in Nat /\ call'[r].minted = call[r].minted + 1
          BY <3>2, CountedStep, MintedNat DEF ForkInv
    <3>4. Minted(r, 1) \in MintedNow(r)
          BY <3>2, <3>3, LayerAssumption DEF MintedNow, MintedBy, NotYet, Minted, CanMint
    <3>5. TakesNew(r) BY <2>6, <3>1, <3>4 DEF TakesNew
    <3>6. TrackOK(r)' BY <1>0, <2>4, <3>5, NewTracking DEF StoresLess
    <3> QED BY <1>0, <3>6, QuietTracking
  <2>7. Minted(r, 1) \in NotYet(r, call[r].minted) => Minted(r, 1) # q.id
    <3>1. q.id \in {NoId} \cup issued \cup MintedBy(r, call[r].minted) /\ q.id # NoId
          BY <1>0, HandlerFields, NoIdFact DEF ForkInv, Origins
    <3> QED BY <3>1, MintedNat, Apart DEF ForkInv, Unspent, Unused
  <2> QED BY <1>1, <1>3, <2>5, <2>6, <2>7 DEF Finishes
<1> QED BY <1>2, <1>3

LEMMA TouchTracking ==
    ASSUME ForkInv, LoginInv, TrackInv, NEW r \in Requests, Touch(r) PROVE Tracking(r)
<1>0. pc[r] = "touch" /\ UNCHANGED <<registry, revoked>> /\ TrackOK(r)
      BY DEF Touch, TrackInv, history
<1>1. work[r].key = NoKey BY <1>0 DEF LoginInv, Holds, HoldsOK, TouchOK
<1>2. CASE (SwapGone(r) \/ SwapFailed(r)) /\ UNCHANGED <<store, issued>>
      BY <1>0, <1>1, <1>2, SwapEndsTracking, QuietTracking
<1>3. CASE SendCookie(r)
  <2>1. inner[r].id \in issued BY <1>0, <1>1, SentAlready
  <2>2. pc'[r] = "cookie" /\ issued' = issued
        BY <1>3, <2>1 DEF SendCookie, Goto, ForkInv, Typed, TypeOK
  <2> QED BY <1>0, <2>2, EndsTracking, QuietTracking DEF Finished
<1> QED BY <1>2, <1>3 DEF Touch

(* An id is sent with the session under it. *)
LEMMA SendsTracking ==
    ASSUME NEW r \in Requests, pc'[r] \in Finished, issued' = issued \cup {inner[r].id},
           Tracks(store', registry', revoked', inner[r].id), UNCHANGED <<registry, revoked>>
    PROVE  Tracking(r)
BY EndsTracking DEF Tracking, StrikesOff, Sends

LEMMA SaveFreshTracking ==
    ASSUME ForkInv, TrackInv, NEW r \in Requests, SaveFresh(r) PROVE Tracking(r)
<1>0. pc[r] = "save" /\ UNCHANGED <<registry, revoked>> /\ TrackOK(r)
      BY DEF SaveFresh, TrackInv, history
<1>1. CASE save(inner[r].id, inner[r].data) /\ SendCookie(r)
  <2>1. inner[r].id \in Ids /\ inner[r].pre_cycle_id = NoId /\ inner[r].loaded = NoRow
        BY <1>0, ActiveFields, RequestFields DEF ForkInv, SavesFresh, LocalsOf
  <2>2. inner[r].data.auth = Guest BY <1>0, <2>1 DEF TrackOK, RotatesOK, Live
  <2>3. store'[inner[r].id] = inner[r].data
        BY <1>1, <2>1 DEF save, ForkInv, Typed, TypeOK
  <2>4. Tracks(store', registry', revoked', inner[r].id)
        BY <2>2, <2>3 DEF Tracks, is_authenticated, Guest
  <2>5. pc'[r] = "cookie" /\ issued' = issued \cup {inner[r].id}
        BY <1>1 DEF SendCookie, Goto, ForkInv, Typed, TypeOK
  <2> QED BY <1>0, <2>4, <2>5, SendsTracking DEF Finished
<1>2. CASE Goto(r, "nocookie") /\ UNCHANGED issued
  <2>1. pc'[r] = "nocookie" BY <1>2 DEF Goto, ForkInv, Typed, TypeOK
  <2> QED BY <1>0, <1>2, <2>1, EndsTracking, QuietTracking DEF Finished
<1> QED BY <1>1, <1>2 DEF SaveFresh


LEMMA CycleMergeTracking ==
    ASSUME ForkInv, TrackInv, NEW r \in Requests, CycleMerge(r) PROVE Tracking(r)
<1> DEFINE q == inner[r]
           fresh == store[q.pre_cycle_id]
           d == [capped(merge_rotating(q.loaded, q.data, fresh)) EXCEPT
                    !.revision = fresh.revision + 1]
           p == [q EXCEPT !.loaded = fresh, !.data = d]
<1>0. pc[r] = "merge" /\ UNCHANGED <<store, registry, issued, revoked>> /\ TrackOK(r)
      BY DEF CycleMerge, TrackInv, shared, history
<1>1. q \in Inner /\ q.loaded # NoRow BY <1>0, RequestFields DEF ForkInv, LocalsOf
<1>2. pc'[r] \in {"remove", "failclosed"} BY DEF CycleMerge, Goto, ForkInv, Typed, TypeOK
<1>3. KeepsIds(inner[r], inner'[r])
  <2>1. CASE UNCHANGED inner BY <2>1 DEF KeepsIds
  <2>2. CASE fresh # NoRow /\ SetInner(r, p)
    <3>1. inner'[r] = p BY <2>2 DEF SetInner, ForkInv, Typed, TypeOK
    <3> HIDE DEF d
    <3>2. p.id = q.id /\ p.pre_cycle_id = q.pre_cycle_id /\ p.loaded = fresh
          BY <1>1 DEF Inner
    <3> HIDE DEF p
    <3> QED BY <1>1, <2>2, <3>1, <3>2 DEF KeepsIds
  <2> QED BY <2>1, <2>2 DEF CycleMerge
<1>4. TrackOK(r)'
      BY <1>0, <1>2, <1>3, KeepsTracking DEF StoresLess, Rotating, Live
<1> QED BY <1>0, <1>4, QuietTracking

LEMMA CycleRemoveTracking ==
    ASSUME ForkInv, TrackInv, NEW r \in Requests, CycleRemove(r) PROVE Tracking(r)
<1>0. pc[r] = "remove" /\ UNCHANGED <<registry, issued, revoked>> /\ TrackOK(r)
      BY DEF CycleRemove, TrackInv, history
<1>1. \/ pc'[r] = "nocookie"
      \/ pc'[r] \in {"merge", "move", "failclosed"} /\ UNCHANGED inner
      BY DEF CycleRemove, CycleGone, CycleConflict, Goto, ForkInv, Typed, TypeOK
<1>2. StoresLess BY DEF CycleRemove, delete, StoresLess, ForkInv, Typed, TypeOK
<1>3. CASE pc'[r] = "nocookie" BY <1>0, <1>3, EndsTracking, QuietTracking DEF Finished
<1>4. CASE pc'[r] \in {"merge", "move", "failclosed"} /\ UNCHANGED inner
  <2>1. KeepsIds(inner[r], inner'[r]) BY <1>4 DEF KeepsIds
  <2>2. TrackOK(r)' BY <1>0, <1>2, <1>4, <2>1, KeepsTracking DEF Rotating, Live
  <2> QED BY <1>0, <2>2, QuietTracking
<1> QED BY <1>1, <1>3, <1>4

(* The session is stored under its new id, its old one has no row. *)
LEMMA CycleSaveTracking ==
    ASSUME ForkInv, LoginInv, TrackInv, NEW r \in Requests, CycleSave(r) PROVE Tracking(r)
<1> DEFINE q == inner[r]
<1>0. /\ pc[r] = "move" /\ UNCHANGED <<registry, inner, loginOf, revoked>> /\ TrackOK(r)
      BY DEF CycleSave, TrackInv
<1>1. q.id \in Ids /\ q.pre_cycle_id \in Ids /\ q.data # NoRow
  <2>1. q.data \in Data BY RequestFields, InnerFields DEF ForkInv
  <2> QED BY <1>0, <2>1, ActiveFields, LayerAssumption DEF ForkInv, Cycling
<1>2. q.pre_cycle_id # q.id BY <1>0 DEF TrackOK, RotatesOK, Rotating, Live
<1>3. CASE Goto(r, "failclosed") /\ UNCHANGED <<store, issued>>
  <2>1. pc'[r] = "failclosed" BY <1>3 DEF Goto, ForkInv, Typed, TypeOK
  <2>2. KeepsIds(inner[r], inner'[r]) BY <1>0 DEF KeepsIds
  <2>3. TrackOK(r)'
        BY <1>0, <1>3, <2>1, <2>2, KeepsTracking DEF StoresLess, Rotating, Live
  <2> QED BY <1>0, <1>3, <2>3, QuietTracking
<1>4. CASE save(q.id, q.data) /\ (Goto(r, "liveold") /\ UNCHANGED issued)
  <2>1. pc'[r] = "liveold" BY <1>4 DEF Goto, ForkInv, Typed, TypeOK
  <2>2. store'[q.id] = q.data /\ store'[q.pre_cycle_id] = store[q.pre_cycle_id]
        BY <1>1, <1>2, <1>4 DEF save, ForkInv, Typed, TypeOK
  <2>3. store[q.pre_cycle_id] = NoRow BY <1>0, <1>1 DEF ForkInv, Vacated
  <2>4. q.data.auth.login = loginOf[q.id]
        BY <1>0 DEF LoginInv, Holds, HoldsOK, Live, CopyOK
  <2>5. SettlesOK(store', loginOf', pc'[r], inner'[r])
        BY <1>0, <2>2, <2>3, <2>4 DEF SettlesOK, AuthKept
  <2>6. RotatesOK(store', issued', pc'[r], inner'[r])
        BY <1>0, <1>2, <2>1 DEF RotatesOK, Rotating, Live, Handling, Swapping
  <2>7. TrackOK(r)' BY <2>1, <2>5, <2>6 DEF TrackOK, ReachedOK
  <2> QED BY <1>0, <1>4, <2>7, QuietTracking
<1>5. CASE save(q.id, q.data) /\ SendCookie(r) /\ ~is_authenticated(q.data.auth)
  <2>1. pc'[r] = "cookie" /\ issued' = issued \cup {q.id}
        BY <1>5 DEF SendCookie, Goto, ForkInv, Typed, TypeOK
  <2>2. store'[q.id] = q.data BY <1>1, <1>5 DEF save, ForkInv, Typed, TypeOK
  <2>3. Tracks(store', registry', revoked', q.id) BY <1>5, <2>2 DEF Tracks
  <2> QED BY <1>0, <2>1, <2>3, SendsTracking DEF Finished
<1> QED BY <1>3, <1>4, <1>5 DEF CycleSave

(* What is sent has no row. *)
LEMMA FailClosedTracking ==
    ASSUME ForkInv, TrackInv, NEW r \in Requests, FailClosed(r) PROVE Tracking(r)
<1>0. /\ pc[r] = "failclosed" /\ UNCHANGED <<registry, revoked>> /\ TrackOK(r)
      /\ issued' = issued \cup {inner[r].id}
      BY DEF FailClosed, TrackInv, history
<1>1. pc'[r] = "closed" BY DEF FailClosed, Goto, ForkInv, Typed, TypeOK
<1>2. inner[r].id \in Ids /\ inner[r].pre_cycle_id # NoId
      BY <1>0, ActiveFields, NoIdFact DEF ForkInv, Cycling
<1>3. store[inner[r].id] = NoRow BY <1>0, <1>2 DEF TrackOK, RotatesOK, Rotating
<1>4. store'[inner[r].id] = NoRow
      BY <1>2, <1>3 DEF FailClosed, try_delete, delete, ForkInv, Typed, TypeOK
<1>5. Tracks(store', registry', revoked', inner[r].id) BY <1>4 DEF Tracks
<1> QED BY <1>0, <1>1, <1>5, SendsTracking DEF Finished

-----------------------------------------------------------------------------
(* settle_registry: the id is sent once the registry was seen to hold it. *)

LEMMA SettlingKept ==
    ASSUME ForkInv, NEW r \in Requests, TrackOK(r), pc[r] \in Settling, pc'[r] \in Settling,
           UNCHANGED <<inner, loginOf, store>>,
           pc'[r] \in {"reread", "invold"} =>
                Reached(registry', revoked', inner[r].data.auth, inner[r].id)
    PROVE  TrackOK(r)'
<1>1. RotatesOK(store', issued', pc'[r], inner'[r])
      BY DEF TrackOK, RotatesOK, Settling, Rotating, Live, Handling, Swapping
<1>2. SettlesOK(store', loginOf', pc'[r], inner'[r]) BY DEF TrackOK, SettlesOK
<1> QED BY <1>1, <1>2 DEF TrackOK, ReachedOK

(* The row of a session that moved is the session's, where it is logged in. *)
LEMMA SettledTracks ==
    ASSUME NEW r \in Requests, TrackOK(r), pc[r] \in Settling, NEW rg, NEW rv,
           Reached(rg, rv, inner[r].data.auth, inner[r].id)
    PROVE  Tracks(store, rg, rv, inner[r].id)
BY DEF TrackOK, SettlesOK, Tracks, AuthKept

LEMMA SettlingTracking ==
    ASSUME ~Accept, ForkInv, TrackInv, NEW r \in Requests,
           \/ LiveOld(r) \/ RegisterNew(r) \/ RereadOld(r) \/ InvalidateOld(r)
           \/ LiveNew(r) \/ EndRevoked(r) \/ EndUntracked(r)
    PROVE  Tracking(r)
<1>0. /\ pc[r] \in Settling /\ TrackOK(r) /\ UNCHANGED <<inner, loginOf, revoked>>
      /\ pc[r] # "enduntracked" => UNCHANGED store
      BY DEF LiveOld, RegisterNew, RereadOld, InvalidateOld, LiveNew, EndRevoked, EndUntracked,
             Settling, TrackInv, shared, history
<1>1. inner[r].pre_cycle_id # NoId /\ pc[r] \notin Finished /\ pc[r] # "idle"
      BY <1>0, ActiveFields, NoIdFact DEF ForkInv, Cycling, Settling, Finished
<1>2. inner[r].id \notin issued BY <1>1, OwnUnsent
<1>3. store[inner[r].pre_cycle_id] = NoRow /\ inner[r].pre_cycle_id # inner[r].id
      BY <1>0 DEF TrackOK, SettlesOK, RotatesOK
<1>4. CASE LiveOld(r)
  <2>1. pc[r] = "liveold" /\ pc'[r] \in {"livenew", "regnew"} /\ UNCHANGED <<registry, issued>>
        BY <1>4 DEF LiveOld, Goto, shared, ForkInv, Typed, TypeOK
  <2>2. TrackOK(r)' BY <1>0, <2>1, SettlingKept DEF Settling
  <2> QED BY <1>0, <2>1, <2>2, QuietTracking
<1>5. CASE RegisterNew(r)
  <2>1. /\ pc[r] = "regnew" /\ UNCHANGED issued
        /\ \/ pc'[r] = "reread" /\ registry' = registry \cup {<<user(r), inner[r].id>>}
           \/ pc'[r] = "enduntracked" /\ UNCHANGED registry
        BY <1>5 DEF RegisterNew, register, OnUntracked, Goto, ForkInv, Typed, TypeOK
  <2>2. pc'[r] = "reread" => Reached(registry', revoked', inner[r].data.auth, inner[r].id)
        BY <2>1 DEF Reached, user
  <2>3. TrackOK(r)' BY <1>0, <2>1, <2>2, SettlingKept DEF Settling
  <2>4. registry \subseteq registry' BY <2>1
  <2> QED BY <1>0, <2>1, <2>3, <2>4 DEF Tracking, StrikesOff, Sends
<1>6. CASE RereadOld(r)
  <2>1. pc[r] = "reread" /\ pc'[r] \in {"invold", "endrevoked"} /\ UNCHANGED <<registry, issued>>
        BY <1>6 DEF RereadOld, Goto, shared, ForkInv, Typed, TypeOK
  <2>2. Reached(registry, revoked, inner[r].data.auth, inner[r].id)
        BY <1>0, <2>1 DEF TrackOK, ReachedOK
  <2>3. TrackOK(r)' BY <1>0, <2>1, <2>2, SettlingKept DEF Settling
  <2> QED BY <1>0, <2>1, <2>3, QuietTracking
<1>7. CASE InvalidateOld(r)
  <2>1. /\ pc[r] = "invold" /\ pc'[r] = "cookie" /\ issued' = issued \cup {inner[r].id}
        /\ registry' = registry \/ registry' = registry \ {<<user(r), inner[r].pre_cycle_id>>}
        BY <1>7 DEF InvalidateOld, invalidate_session, SendCookie, Goto, ForkInv, Typed, TypeOK
  <2>2. Reached(registry, revoked, inner[r].data.auth, inner[r].id)
        BY <1>0, <2>1 DEF TrackOK, ReachedOK
  <2>3. Reached(registry', revoked', inner[r].data.auth, inner[r].id)
        BY <1>0, <1>3, <2>1, <2>2 DEF Reached
  <2>4. Tracks(store', registry', revoked', inner[r].id)
        BY <1>0, <2>1, <2>3, SettledTracks
  <2>5. StrikesOff(r) BY <1>3, <2>1 DEF StrikesOff
  <2>6. TrackOK(r)' BY <2>1, EndsTracking DEF Finished
  <2> QED BY <1>0, <2>1, <2>4, <2>5, <2>6 DEF Tracking, Sends
<1>8. CASE LiveNew(r)
  <2>1. /\ pc[r] = "livenew" /\ UNCHANGED registry
        /\ \/ pc'[r] \in {"endrevoked", "enduntracked"} /\ UNCHANGED issued
           \/ SendCookie(r) /\ <<user(r), inner[r].id>> \in registry
        BY <1>8 DEF LiveNew, liveness, OnUntracked, Goto, ForkInv, Typed, TypeOK
  <2>2. CASE pc'[r] \in {"endrevoked", "enduntracked"} /\ UNCHANGED issued
    <3>1. TrackOK(r)' BY <1>0, <2>1, <2>2, SettlingKept DEF Settling
    <3> QED BY <1>0, <2>1, <2>2, <3>1, QuietTracking
  <2>3. CASE SendCookie(r) /\ <<user(r), inner[r].id>> \in registry
    <3>1. pc'[r] = "cookie" /\ issued' = issued \cup {inner[r].id}
          BY <2>3 DEF SendCookie, Goto, ForkInv, Typed, TypeOK
    <3>2. Reached(registry', revoked', inner[r].data.auth, inner[r].id)
          BY <2>1, <2>3 DEF Reached, user
    <3>3. Tracks(store', registry', revoked', inner[r].id)
          BY <1>0, <2>1, <3>2, SettledTracks
    <3> QED BY <1>0, <2>1, <3>1, <3>3, SendsTracking DEF Finished
  <2> QED BY <2>1, <2>2, <2>3
<1>9. CASE EndRevoked(r)
  <2>1. /\ pc[r] = "endrevoked" /\ pc'[r] = "enduntracked" /\ UNCHANGED issued
        /\ registry' = registry \/ registry' = registry \ {<<user(r), inner[r].id>>}
        BY <1>9 DEF EndRevoked, invalidate_session, Goto, ForkInv, Typed, TypeOK
  <2>2. TrackOK(r)' BY <1>0, <2>1, SettlingKept DEF Settling
  <2>3. StrikesOff(r) BY <1>2, <2>1 DEF StrikesOff
  <2> QED BY <1>0, <2>1, <2>2, <2>3 DEF Tracking, Sends
<1>10. CASE EndUntracked(r)
  <2>1. pc'[r] = "ended" /\ UNCHANGED <<registry, issued>>
        BY <1>10 DEF EndUntracked, Goto, ForkInv, Typed, TypeOK
  <2> QED BY <1>0, <2>1, EndsTracking, QuietTracking DEF Finished
<1> QED BY <1>4, <1>5, <1>6, <1>7, <1>8, <1>9, <1>10

-----------------------------------------------------------------------------
(* The invariant is inductive. *)

LEMMA RequestTracking ==
    ASSUME ~Accept, "impersonate" \notin Ops, ForkInv, LoginInv, TrackInv, NEW r \in Requests,
           LoadNothing(r) \/ LoadRow(r) \/ Operate(r) \/ Serve(r)
    PROVE  Tracking(r)
<1>1. CASE LoadNothing(r) \/ LoadRow(r) \/ Verdict(r) \/ EndRow(r) BY <1>1, LoadingTracking
<1>2. CASE Operate(r)
  <2>1. ~Impersonate(r) BY DEF Impersonate, Handler
  <2> QED BY <1>2, <2>1, EditingTracking, RenewingTracking, LogoutTracking DEF Operate
<1>3. CASE Serve(r)
      BY <1>1, <1>3, RegisteringTracking, SwapTryTracking, SwapLoadTracking, FinishTracking,
         TouchTracking, SaveFreshTracking, CycleMergeTracking, CycleRemoveTracking,
         CycleSaveTracking, FailClosedTracking, SettlingTracking
      DEF Serve
<1> QED BY <1>1, <1>2, <1>3

(* What an administrator strikes off, a revocation names. *)
LEMMA OthersTracking ==
    ASSUME ForkInv, LoginInv, TrackInv, Fixed, Administer \/ Expire \/ UNCHANGED vars
    PROVE  TrackInv'
<1>1. /\ UNCHANGED <<issued, pc, inner, loginOf>>
      /\ \A i \in Ids : store'[i] = store[i] \/ store'[i] = NoRow
      BY OtherSteps DEF ForkInv
<1>2. /\ revoked \subseteq revoked'
      /\ \A u, i : <<u, i>> \in registry /\ <<u, i>> \notin registry' => loginOf[i] \in revoked'
  <2>1. CASE Revoke
    <3> DEFINE gone == IF admin.pc = "user" THEN held_sessions(admin.user)
                       ELSE held_sessions(admin.user) \cap admin.ids
    <3>1. \/ UNCHANGED <<registry, revoked>>
          \/ /\ registry' = registry \ ({admin.user} \X gone)
             /\ revoked' = revoked \cup {loginOf[i] : i \in gone}
          BY <2>1 DEF Revoke
    <3> HIDE DEF gone
    <3> QED BY <3>1
  <2>2. CASE UNCHANGED <<registry, revoked>> BY <2>2
  <2> QED BY <2>1, <2>2 DEF Administer, Expire, ListUser, ListSession, DeleteRow, shared, history, vars
<1>3. issued \subseteq Ids BY DEF ForkInv, Typed, TypeOK
<1>4. Tracked'
  <2> SUFFICES ASSUME NEW i \in issued, store'[i] # NoRow, is_authenticated(store'[i].auth)
               PROVE  Reached(registry', revoked', store'[i].auth, i)
      BY <1>1 DEF Tracked, Reached
  <2>1. store'[i] = store[i] BY <1>1, <1>3
  <2>2. Reached(registry, revoked, store[i].auth, i) BY <2>1 DEF TrackInv, Tracked, Reached
  <2>3. store[i].auth.login = loginOf[i] BY <1>3, <2>1 DEF LoginInv, RowLogins
  <2> QED BY <1>2, <2>1, <2>2, <2>3 DEF Reached
<1>5. ASSUME NEW s \in Requests PROVE TrackOK(s)'
  <2>1. /\ RotatesOK(store, issued, pc[s], inner[s])
        /\ SettlesOK(store, loginOf, pc[s], inner[s])
        /\ ReachedOK(registry, revoked, pc[s], inner[s])
        BY DEF TrackInv, TrackOK
  <2>2. /\ pc[s] # "idle" => inner[s].id \in Ids
        /\ pc[s] \in Settling => inner[s].pre_cycle_id \in Ids /\ pc[s] # "idle"
        /\ pc[s] \in Rotating => pc[s] # "idle"
        BY ActiveFields DEF ForkInv, Settling, Cycling, Rotating, Live, Handling, Swapping
  <2>3. RotatesOK(store', issued', pc[s], inner[s]) BY <1>1, <2>1, <2>2 DEF RotatesOK
  <2>4. SettlesOK(store', loginOf', pc[s], inner[s]) BY <1>1, <2>1, <2>2 DEF SettlesOK
  <2>5. pc[s] \in Settling => inner[s].data.auth.login = loginOf[inner[s].id]
        BY <2>1 DEF SettlesOK
  <2>6. ReachedOK(registry', revoked', pc[s], inner[s])
        BY <1>2, <2>1, <2>5 DEF ReachedOK, Reached, Settling
  <2> QED BY <1>1, <2>3, <2>4, <2>6 DEF TrackOK
<1> QED BY <1>4, <1>5 DEF TrackInv

LEMMA InitTracks == Init => TrackInv
<1> SUFFICES ASSUME Init PROVE TrackInv OBVIOUS
<1>1. \A r \in Requests : pc[r] = "idle" BY DEF Init
<1>2. \A r \in Requests : TrackOK(r)
      BY <1>1 DEF TrackOK, RotatesOK, SettlesOK, ReachedOK, Rotating, Live, Handling, Swapping,
                  Settling
<1>3. Tracked
  <2>1. Seed \in Ids BY DEF Ids
  <2> QED BY <2>1 DEF Init, Tracked
<1> QED BY <1>2, <1>3 DEF TrackInv

LEMMA NextTracks ==
    ASSUME ~Accept, "impersonate" \notin Ops, ForkInv, LoginInv, TrackInv, [Next]_vars
    PROVE  TrackInv'
<1>0. Typed' /\ Fixed BY NextTyped, NextFixed DEF ForkInv
<1>1. ASSUME NEW r \in Requests, LoadNothing(r) \/ LoadRow(r) \/ Operate(r) \/ Serve(r)
      PROVE  TrackInv'
      BY <1>0, <1>1, RequestFaithful, RequestTracking, TracksStep
<1>2. CASE Administer \/ Expire \/ UNCHANGED vars BY <1>0, <1>2, OthersTracking
<1> QED BY <1>1, <1>2 DEF Next, AllServed

(* Where an answer the registry does not give rejects the session          *)
(* (UnknownLiveness::Reject, the default) and nobody impersonates, every   *)
(* row that is logged in behind a cookie is held by the registry, so that  *)
(* a revocation reaches it, or was revoked: whatever fails, and wherever   *)
(* revocations fall between the steps of logins and rotations              *)
(* (settle_registry).                                                      *)
THEOREM TrackedHolds ==
    ASSUME ~Accept, "impersonate" \notin Ops PROVE Spec => []Tracked
<1>1. Init => ForkInv /\ LoginInv /\ TrackInv BY InitForks, InitLogins, InitTracks
<1>2. ForkInv /\ LoginInv /\ TrackInv /\ [Next]_vars => ForkInv' /\ LoginInv' /\ TrackInv'
      BY NextForks, NextLogins, NextTracks
<1>3. TrackInv => Tracked BY DEF TrackInv
<1> QED BY <1>1, <1>2, <1>3, PTL DEF Spec

-----------------------------------------------------------------------------
(***************************************************************************)
(* One-shot values.  The argument: a value that is still to be handed out  *)
(* is in one place, in a row or in the hands of one request, and a step    *)
(* moves it from place to place.  A request holds what its own handler put *)
(* in the session and has not stored, and the whole session between the    *)
(* two halves of a rotation; all else it has is a copy of a row, of which  *)
(* a write stores only what the row still has.                             *)
(***************************************************************************)

Rests(st, i, k, v) == st[i] # NoRow /\ st[i].custom[k] = v

(* Put in the session by request r, and not stored. *)
OwnData(q, r, k) == q.data.custom[k] = r /\ (q.loaded # NoRow => q.loaded.custom[k] # r)

(* The same, while r takes it out; a retry takes what the row has. *)
OwnTaken(q, w, r, k) ==
    /\ w.key = k /\ w.val = r
    /\ q.loaded.custom[k] # r /\ w.expected = q.loaded.revision

Hand(p, q, w, r, k, v) ==
    \/ p = "move" /\ q.data.custom[k] = v
    \/ p \in Live \ {"move"} /\ v = r /\ OwnData(q, r, k)
    \/ p \in Swapping /\ v = r /\ OwnTaken(q, w, r, k)

Hands(r, k, v) == Hand(pc[r], inner[r], work[r], r, k, v)

OnePlace ==
    \A k \in Keys, v \in Values :
        /\ \A i, j \in Ids : Rests(store, i, k, v) /\ Rests(store, j, k, v) => i = j
        /\ \A r, s \in Requests : Hands(r, k, v) /\ Hands(s, k, v) => r = s
        /\ \A i \in Ids, r \in Requests : ~(Rests(store, i, k, v) /\ Hands(r, k, v))

(* A value that was handed out is nowhere, and its request has put it in   *)
(* the session, so that it is not put there again.                         *)
Given(k, v) ==
    /\ \A i \in Ids : ~Rests(store, i, k, v)
    /\ \A r \in Requests : ~Hands(r, k, v)
    /\ v \in Requests => <<"set", k>> \in call[v].ops

GivenOnce == OneShot /\ \A g \in got : Given(g[2], g[3])

(* What a request has is its own or a copy of what it loaded. *)
DataFrom(q, r) ==
    \A k \in Keys : \/ q.data.custom[k] \in {NoVal, r}
                    \/ q.loaded # NoRow /\ q.data.custom[k] = q.loaded.custom[k]

LocalFrom(q, w, r) ==
    \A k \in Keys : \/ w.local.custom[k] \in {NoVal, q.loaded.custom[k]}
                    \/ w.local.custom[k] = r /\ q.data.custom[k] = r

TakesOut(q, w) ==
    w.key # NoKey => /\ q.data.custom[w.key] = NoVal
                     /\ w.local.custom[w.key] = NoVal /\ w.next.custom[w.key] = NoVal

(* A write that will succeed stores what is in the row, or r's own. *)
SwapFrom(st, q, w, r) ==
    LET x == row_id(q)
    IN  st[x] # NoRow /\ st[x].revision = w.expected =>
            /\ \A k \in Keys : \/ w.next.custom[k] \in {NoVal, st[x].custom[k]}
                               \/ w.next.custom[k] = r /\ OwnData(q, r, k)
            /\ w.key # NoKey => \/ w.val = st[x].custom[w.key]
                                \/ w.val = r /\ OwnTaken(q, w, r, w.key)

CarriesOK(st, p, q, w, r) ==
    /\ p \in Live => DataFrom(q, r)
    /\ p \in Swapping => LocalFrom(q, w, r) /\ TakesOut(q, w)
    /\ p = "swap" => SwapFrom(st, q, w, r)
    /\ p = "remove" /\ q.loaded # NoRow => w.expected = q.loaded.revision

Carries == \A r \in Requests : CarriesOK(store, pc[r], inner[r], work[r], r)

TakesSet ==
    \A r \in Requests : pc[r] \in Swapping /\ work[r].key # NoKey /\ work[r].val = r =>
        <<"set", work[r].key>> \in call[r].ops

ShotInv == OnePlace /\ GivenOnce /\ Carries /\ TakesSet

-----------------------------------------------------------------------------
(* A step of request r that writes row j, if any, moves values between     *)
(* that row and its own hands.                                             *)

Near(r, j, k, v) == Rests(store, j, k, v) \/ Hands(r, k, v)

(* A value r puts in its session, where it was not before. *)
Puts(r, k, v) == v = r /\ <<"set", k>> \notin call[r].ops /\ store' = store

NextHand(r, k, v) == Hand(pc'[r], inner'[r], work'[r], r, k, v)

Gives(r, j, k, v) ==
    /\ got' = got \cup {<<r, k, v>>}
    /\ Near(r, j, k, v) /\ ~Rests(store', j, k, v) /\ ~NextHand(r, k, v)

Passes(r, j) ==
    /\ \A i \in Ids \ {j} : store'[i] = store[i] \/ store'[i] = NoRow
    /\ \A k \in Keys, v \in Values :
        /\ Rests(store', j, k, v) => Near(r, j, k, v)
        /\ NextHand(r, k, v) => (Near(r, j, k, v) /\ ~Rests(store', j, k, v)) \/ Puts(r, k, v)
    /\ got' = got \/ \E k \in Keys, v \in Values : Gives(r, j, k, v)

TakesOwn(p, w, r, ops) ==
    p \in Swapping /\ w.key # NoKey /\ w.val = r => <<"set", w.key>> \in ops

Shoots(r, j) ==
    /\ Passes(r, j)
    /\ CarriesOK(store', pc'[r], inner'[r], work'[r], r)
    /\ TakesOwn(pc'[r], work'[r], r, call'[r].ops)

(* What another request is about to swap it still may, or will not. *)
LEMMA OthersMoved ==
    ASSUME ForkInv, NEW r \in Requests, Faithful(r), NEW s \in Requests \ {r}, pc[s] \in Live
    PROVE  row_id(inner[s]) \in Ids /\ Moved(store, store', row_id(inner[s]))
<1> DEFINE x == row_id(inner[s])
<1>1. call[r].minted \in Nat /\ call[s].minted \in Nat BY MintedNat DEF ForkInv
<1>2. pc[s] # "idle" BY DEF Live, Handling, Swapping
<1>3. x \in Ids BY <1>2, ActiveFields DEF ForkInv
<1>4. x \in issued \/ x \in MintedBy(s, call[s].minted)
      BY <1>3, NoIdFact DEF ForkInv, Origins, row_id
<1> HIDE DEF x
<1>5. ~Founds(r, x) BY <1>1, <1>4, Apart DEF Founds
<1>6. store'[x] = store[x] \/ store'[x] = NoRow \/ Replaces(x)
      BY <1>3, <1>5 DEF Faithful, Writes
<1> QED BY <1>3, <1>6 DEF Replaces, Moved, x

LEMMA SwapFromMoved ==
    ASSUME NEW st \in [Ids -> Data \cup {NoRow}], NEW ut \in [Ids -> Data \cup {NoRow}],
           NEW lo, NEW q, NEW w \in Work, NEW r, row_id(q) \in Ids,
           Moved(st, ut, row_id(q)), SwapReady(st, lo, q, w), SwapFrom(st, q, w, r)
    PROVE  SwapFrom(ut, q, w, r)
<1> DEFINE x == row_id(q)
<1>1. CASE ut[x] = st[x] BY <1>1 DEF SwapFrom
<1>2. CASE ut[x] = NoRow BY <1>2 DEF SwapFrom
<1>3. CASE st[x] # NoRow /\ ut[x] # NoRow /\ ut[x].revision > st[x].revision
  <2>1. st[x].revision \in Nat /\ ut[x].revision \in Nat /\ w.expected \in Nat
        BY <1>3, DataTypes, WorkFields
  <2>2. st[x].revision >= w.expected BY <1>3 DEF SwapReady
  <2>3. ut[x].revision # w.expected BY <1>3, <2>1, <2>2
  <2> QED BY <2>3 DEF SwapFrom
<1> QED BY <1>1, <1>2, <1>3 DEF Moved

LEMMA CarriesMoved ==
    ASSUME NEW st \in [Ids -> Data \cup {NoRow}], NEW ut \in [Ids -> Data \cup {NoRow}],
           NEW lo, NEW p, NEW q, NEW w \in Work, NEW r, HoldsOK(st, lo, p, q, w),
           p \in Live => row_id(q) \in Ids /\ Moved(st, ut, row_id(q)),
           CarriesOK(st, p, q, w, r)
    PROVE  CarriesOK(ut, p, q, w, r)
<1>1. ASSUME p = "swap" PROVE SwapFrom(ut, q, w, r)
  <2>1. p \in Live BY <1>1 DEF Live, Swapping
  <2>2. SwapReady(st, lo, q, w) /\ SwapFrom(st, q, w, r) BY <1>1 DEF HoldsOK, CarriesOK
  <2> QED BY <2>1, <2>2, SwapFromMoved
<1> QED BY <1>1 DEF CarriesOK

(* What is in a row or in a hand was put there. *)
LEMMA NearSet ==
    ASSUME ShotInv, PlantInv, NEW r \in Requests, NEW j \in Ids, NEW k \in Keys,
           NEW v \in Requests, Near(r, j, k, v)
    PROVE  <<"set", k>> \in call[v].ops
<1>1. CASE Rests(store, j, k, v) BY <1>1 DEF Rests, PlantInv, Authors, InRows
<1>2. CASE inner[r].data.custom[k] = v BY <1>2 DEF PlantInv, Authors, InHands
<1>3. CASE pc[r] \in Swapping /\ v = r /\ OwnTaken(inner[r], work[r], r, k)
  <2>1. work[r].key # NoKey BY <1>3, LayerAssumption DEF OwnTaken
  <2> QED BY <1>3, <2>1 DEF ShotInv, TakesSet, OwnTaken
<1> QED BY <1>1, <1>2, <1>3 DEF Near, Hands, Hand, OwnData

LEMMA ShotStep ==
    ASSUME ForkInv, LoginInv, PlantInv, ShotInv, Typed', NEW r \in Requests, Faithful(r),
           call[r].ops \subseteq call'[r].ops, NEW j \in Ids, Shoots(r, j)
    PROVE  ShotInv'
<1>1. \A s \in Requests \ {r} : /\ pc'[s] = pc[s] /\ inner'[s] = inner[s]
                                /\ work'[s] = work[s] /\ call'[s] = call[s]
      BY DEF Faithful, Alone
<1>2. \A s \in Requests \ {r}, k \in Keys, v \in Values : NextHand(s, k, v) <=> Hands(s, k, v)
      BY <1>1 DEF NextHand, Hands
<1>3. /\ \A i \in Ids \ {j} : store'[i] = store[i] \/ store'[i] = NoRow
      /\ \A k \in Keys, v \in Values :
            /\ Rests(store', j, k, v) => Near(r, j, k, v)
            /\ NextHand(r, k, v) => (Near(r, j, k, v) /\ ~Rests(store', j, k, v)) \/ Puts(r, k, v)
      /\ got' = got \/ \E k \in Keys, v \in Values : Gives(r, j, k, v)
      BY DEF Shoots, Passes
<1>4. \A i \in Ids \ {j}, k \in Keys, v \in Values : Rests(store', i, k, v) => Rests(store, i, k, v)
      BY <1>3 DEF Rests
<1>5. \A s \in Requests : call[s].ops \subseteq call'[s].ops BY <1>1
(* A value that is near r is nowhere else. *)
<1>6. ASSUME NEW k \in Keys, NEW v \in Values, Near(r, j, k, v)
      PROVE  /\ \A i \in Ids \ {j} : ~Rests(store, i, k, v)
             /\ \A s \in Requests \ {r} : ~Hands(s, k, v)
      BY <1>6 DEF Near, ShotInv, OnePlace
<1>7. ASSUME NEW k \in Keys, NEW v \in Values, Puts(r, k, v)
      PROVE  /\ \A i \in Ids : ~Rests(store', i, k, v)
             /\ \A s \in Requests \ {r} : ~Hands(s, k, v)
  <2>1. v = r /\ <<"set", k>> \notin call[r].ops /\ store' = store BY <1>7 DEF Puts
  <2>2. ~InRows(store, k, r) /\ \A s \in Requests : ~InHands(inner[s], work[s], k, r)
        BY <2>1 DEF PlantInv, Authors
  <2> QED BY <2>1, <2>2 DEF InRows, InHands, Rests, Hands, Hand
<1>8. OnePlace'
  <2> SUFFICES ASSUME NEW k \in Keys, NEW v \in Values
               PROVE  /\ \A i, h \in Ids : Rests(store', i, k, v) /\ Rests(store', h, k, v) => i = h
                      /\ \A s, t \in Requests : NextHand(s, k, v) /\ NextHand(t, k, v) => s = t
                      /\ \A i \in Ids, s \in Requests : ~(Rests(store', i, k, v) /\ NextHand(s, k, v))
      BY DEF OnePlace, NextHand, Hands
  <2>1. ASSUME NEW i \in Ids, NEW h \in Ids, Rests(store', i, k, v), Rests(store', h, k, v)
        PROVE  i = h
        BY <1>3, <1>4, <1>6, <2>1 DEF ShotInv, OnePlace
  <2>2. ASSUME NEW s \in Requests, NEW t \in Requests, NextHand(s, k, v), NextHand(t, k, v)
        PROVE  s = t
        BY <1>2, <1>3, <1>6, <1>7, <2>2 DEF ShotInv, OnePlace
  <2>3. ASSUME NEW i \in Ids, NEW s \in Requests, Rests(store', i, k, v), NextHand(s, k, v)
        PROVE  FALSE
    <3>1. CASE s = r BY <1>3, <1>4, <1>6, <1>7, <2>3, <3>1
    <3>2. CASE s # r BY <1>2, <1>3, <1>4, <1>6, <2>3, <3>2 DEF ShotInv, OnePlace
    <3> QED BY <3>1, <3>2
  <2> QED BY <2>1, <2>2, <2>3
<1>9. ASSUME NEW k \in Keys, NEW v \in Values, Given(k, v)
      PROVE  /\ \A i \in Ids : ~Rests(store', i, k, v)
             /\ \A s \in Requests : ~NextHand(s, k, v)
             /\ v \in Requests => <<"set", k>> \in call'[v].ops
             /\ ~Near(r, j, k, v)
  <2>1. ~Near(r, j, k, v) BY <1>9 DEF Given, Near
  <2>2. ~Puts(r, k, v) BY <1>9 DEF Given, Puts
  <2> QED BY <1>2, <1>3, <1>4, <1>5, <1>9, <2>1, <2>2 DEF Given
<1>10. \A g \in got : g[2] \in Keys /\ g[3] \in Values BY DEF ForkInv, Typed, TypeOK
<1>11. GivenOnce'
  <2> SUFFICES /\ \A g, h \in got' : g[2] = h[2] /\ g[3] = h[3] => g = h
               /\ \A g \in got' : /\ \A i \in Ids : ~Rests(store', i, g[2], g[3])
                                  /\ \A s \in Requests : ~NextHand(s, g[2], g[3])
                                  /\ g[3] \in Requests => <<"set", g[2]>> \in call'[g[3]].ops
      BY DEF GivenOnce, OneShot, Given, Hands, NextHand
  <2>0. /\ \A g, h \in got : g[2] = h[2] /\ g[3] = h[3] => g = h
        /\ \A g \in got : Given(g[2], g[3])
        BY DEF ShotInv, GivenOnce, OneShot
  <2>1. CASE got' = got BY <1>9, <1>10, <2>0, <2>1
  <2>2. ASSUME NEW k \in Keys, NEW v \in Values, Gives(r, j, k, v)
        PROVE  /\ \A g, h \in got' : g[2] = h[2] /\ g[3] = h[3] => g = h
               /\ \A g \in got' : /\ \A i \in Ids : ~Rests(store', i, g[2], g[3])
                                  /\ \A s \in Requests : ~NextHand(s, g[2], g[3])
                                  /\ g[3] \in Requests => <<"set", g[2]>> \in call'[g[3]].ops
    <3>1. /\ got' = got \cup {<<r, k, v>>} /\ Near(r, j, k, v)
          /\ ~Rests(store', j, k, v) /\ ~NextHand(r, k, v)
          BY <2>2 DEF Gives
    <3>2. \A g \in got : ~(g[2] = k /\ g[3] = v) BY <1>9, <1>10, <2>0, <3>1
    <3>3. /\ \A i \in Ids : ~Rests(store', i, k, v)
          /\ \A s \in Requests : ~NextHand(s, k, v)
          BY <1>2, <1>4, <1>6, <3>1
    <3>4. v \in Requests => <<"set", k>> \in call'[v].ops BY <1>5, <3>1, NearSet
    <3> QED BY <1>9, <1>10, <2>0, <3>1, <3>2, <3>3, <3>4
  <2> QED BY <1>3, <2>1, <2>2
<1>12. Carries'
  <2> SUFFICES ASSUME NEW s \in Requests
               PROVE  CarriesOK(store', pc'[s], inner'[s], work'[s], s)
      BY DEF Carries
  <2>1. CASE s = r BY <2>1 DEF Shoots
  <2>2. CASE s # r
    <3>1. HoldsOK(store, loginOf, pc[s], inner[s], work[s]) BY DEF LoginInv, Holds
    <3>2. CarriesOK(store, pc[s], inner[s], work[s], s) BY DEF ShotInv, Carries
    <3>3. store \in [Ids -> Data \cup {NoRow}] /\ store' \in [Ids -> Data \cup {NoRow}]
          BY DEF ForkInv, Typed, TypeOK
    <3>4. work[s] \in Work BY RequestFields DEF ForkInv
    <3>5. pc[s] \in Live => row_id(inner[s]) \in Ids /\ Moved(store, store', row_id(inner[s]))
          BY <2>2, OthersMoved
    <3>6. CarriesOK(store', pc[s], inner[s], work[s], s)
          BY <3>1, <3>2, <3>3, <3>4, <3>5, CarriesMoved
    <3> QED BY <1>1, <2>2, <3>6
  <2> QED BY <2>1, <2>2
<1>13. TakesSet' BY <1>1 DEF ShotInv, TakesSet, Shoots, TakesOwn
<1> QED BY <1>8, <1>11, <1>12, <1>13 DEF ShotInv

-----------------------------------------------------------------------------
(* Steps that hand nothing out and write no row. *)

LEMMA KeepsPasses ==
    ASSUME ShotInv, NEW r \in Requests, NEW j \in Ids, UNCHANGED got,
           \A i \in Ids : store'[i] = store[i] \/ store'[i] = NoRow,
           \A k \in Keys, v \in Values : NextHand(r, k, v) => Hands(r, k, v)
    PROVE  Passes(r, j)
<1>1. \A k \in Keys, v \in Values : Rests(store', j, k, v) => Rests(store, j, k, v) BY DEF Rests
<1>2. \A k \in Keys, v \in Values : Hands(r, k, v) => ~Rests(store, j, k, v)
      BY DEF ShotInv, OnePlace
<1> QED BY <1>1, <1>2 DEF Passes, Near

(* A request that is done with its session. *)
LEMMA LeavesShoots ==
    ASSUME ShotInv, NEW r \in Requests, NEW j \in Ids, UNCHANGED got, pc'[r] \notin Live,
           \A i \in Ids : store'[i] = store[i] \/ store'[i] = NoRow
    PROVE  Shoots(r, j)
<1>1. \A k \in Keys, v \in Values : ~NextHand(r, k, v) BY DEF NextHand, Hand, Live
<1>2. Passes(r, j) BY <1>1, KeepsPasses
<1>3. CarriesOK(store', pc'[r], inner'[r], work'[r], r) BY DEF CarriesOK, Live, Swapping
<1>4. TakesOwn(pc'[r], work'[r], r, call'[r].ops) BY DEF TakesOwn, Live
<1> QED BY <1>2, <1>3, <1>4 DEF Shoots

(* A request whose session loses values, if anything. *)
LEMMA DropsShoots ==
    ASSUME ShotInv, NEW r \in Requests, NEW j \in Ids, UNCHANGED got,
           \A i \in Ids : store'[i] = store[i] \/ store'[i] = NoRow,
           pc[r] \in Live \ {"move"}, pc'[r] \in Live \ (Swapping \cup {"move"}),
           inner'[r].loaded = inner[r].loaded,
           Part(inner[r].data.custom, inner'[r].data.custom),
           pc'[r] = "remove" /\ inner[r].loaded # NoRow =>
                work'[r].expected = inner[r].loaded.revision
    PROVE  Shoots(r, j)
<1>0. NoVal # r BY NoValFree
<1>1. ASSUME NEW k \in Keys, NEW v \in Values, NextHand(r, k, v) PROVE Hands(r, k, v)
  <2>1. v = r /\ OwnData(inner'[r], r, k) BY <1>1 DEF NextHand, Hand
  <2>2. OwnData(inner[r], r, k) BY <1>0, <2>1 DEF OwnData, Part
  <2> QED BY <2>1, <2>2 DEF Hands, Hand
<1>2. Passes(r, j) BY <1>1, KeepsPasses
<1>3. CarriesOK(store', pc'[r], inner'[r], work'[r], r)
  <2>1. DataFrom(inner[r], r) BY DEF ShotInv, Carries, CarriesOK
  <2>2. DataFrom(inner'[r], r) BY <2>1 DEF DataFrom, Part
  <2> QED BY <2>2 DEF CarriesOK, Swapping
<1>4. TakesOwn(pc'[r], work'[r], r, call'[r].ops) BY DEF TakesOwn
<1> QED BY <1>2, <1>3, <1>4 DEF Shoots

LEMMA OperateShoots ==
    ASSUME Typed, ShotInv, NEW r \in Requests, Operate(r) \/ Register(r) \/ Recheck(r),
           ~SetCustom(r), ~Take(r)
    PROVE  Shoots(r, Seed)
<1>1. UNCHANGED <<store, work, got>>
      BY DEF Operate, Register, Recheck, RemoveCustom, ClearCustom, Regenerate,
             BeginLogin, CompleteFactor, OAuthLogin, StepUp, Impersonate, Logout, shared, history
<1>2. pc[r] \in Handling /\ pc'[r] \in Handling
  <2>1. pc[r] \in Handling
        BY DEF Operate, Register, Recheck, RemoveCustom, ClearCustom, Regenerate,
               BeginLogin, CompleteFactor, OAuthLogin, StepUp, Impersonate, Logout, Handler,
               Handling
  <2>2. UNCHANGED pc \/ Goto(r, "handler") \/ Goto(r, "register") \/ Goto(r, "recheck")
        BY DEF Operate, Register, Recheck, RemoveCustom, ClearCustom, Regenerate,
               BeginLogin, CompleteFactor, OAuthLogin, StepUp, Impersonate, Logout
  <2> QED BY <2>1, <2>2 DEF Goto, Handling, Typed, TypeOK
<1>3. Drops(inner[r], inner'[r])
      BY RemovingDrops, RotatingDrops, LoginDrops, ClearingDrops DEF Operate
<1>4. Seed \in Ids BY DEF Ids
<1> QED BY <1>1, <1>2, <1>3, <1>4, DropsShoots DEF Live, Handling, Swapping, Drops

(* A request that begins, with what a row has or with nothing. *)
LEMMA BeginsShoots ==
    ASSUME ShotInv, NEW r \in Requests, NEW j \in Ids, UNCHANGED got, pc'[r] = "handler",
           \A i \in Ids : store'[i] = store[i] \/ store'[i] = NoRow,
           \/ inner'[r].data.custom = EmptyBag
           \/ /\ inner'[r].loaded # NoRow
              /\ inner'[r].data.custom = inner'[r].loaded.custom
    PROVE  Shoots(r, j)
<1>1. \A k \in Keys, v \in Values : ~NextHand(r, k, v)
      BY NoValFree DEF NextHand, Hand, OwnData, EmptyBag, Swapping
<1>2. Passes(r, j) BY <1>1, KeepsPasses
<1>3. DataFrom(inner'[r], r) BY DEF DataFrom, EmptyBag
<1>4. CarriesOK(store', pc'[r], inner'[r], work'[r], r) BY <1>3 DEF CarriesOK, Swapping
<1>5. TakesOwn(pc'[r], work'[r], r, call'[r].ops) BY DEF TakesOwn, Swapping
<1> QED BY <1>2, <1>4, <1>5 DEF Shoots

LEMMA FreshShoots ==
    ASSUME Typed, ShotInv, NEW r \in Requests, NEW c, NEW dirt, StartFresh(r, c, dirt),
           UNCHANGED got, \A i \in Ids : store'[i] = store[i] \/ store'[i] = NoRow
    PROVE  Shoots(r, Seed)
<1> DEFINE f == IF Binding THEN c ELSE NoFp
           q == [NewInner EXCEPT !.id = Minted(r, 1), !.dirty = dirt, !.pending = f]
<1>1. inner' = [inner EXCEPT ![r] = q] /\ pc' = [pc EXCEPT ![r] = "handler"]
      BY DEF StartFresh, SetInner, Goto
<1> HIDE DEF f
<1>2. q.data = DefaultData BY DEF NewInner
<1> HIDE DEF q
<1>3. inner'[r].data.custom = EmptyBag /\ pc'[r] = "handler"
      BY <1>1, <1>2 DEF Typed, TypeOK, DefaultData
<1> QED BY <1>3, BeginsShoots DEF Ids

LEMMA TrustShoots ==
    ASSUME Typed, ShotInv, NEW r \in Requests, NEW c, NEW i, NEW row \in Data, Trust(r, c, i, row),
           UNCHANGED <<store, got>>
    PROVE  Shoots(r, Seed)
<1> DEFINE fp == IF Binding THEN c ELSE NoFp
           data == check_binding(row, fp)
           t == IF data = row THEN "clean" ELSE "modified"
           e == IF data.fp = NoFp THEN fp ELSE NoFp
           q == [id |-> i, pre_cycle_id |-> NoId, data |-> data, dirty |-> t,
                 pending |-> e, loaded |-> row]
<1>1. CASE data = NoRow
  <2>1. StartFresh(r, c, "regenerate") BY <1>1 DEF Trust
  <2> QED BY <2>1, FreshShoots
<1>2. CASE data # NoRow
  <2>1. inner' = [inner EXCEPT ![r] = q] /\ pc' = [pc EXCEPT ![r] = "handler"]
        BY <1>2 DEF Trust, SetInner, Goto
  <2>2. data.custom = row.custom BY <1>2, BindingFields
  <2> HIDE DEF data, t, e
  <2>3. q.data = data /\ q.loaded = row OBVIOUS
  <2> HIDE DEF q
  <2>4. inner'[r].data = data /\ inner'[r].loaded = row /\ pc'[r] = "handler"
        BY <2>1, <2>3 DEF Typed, TypeOK
  <2> QED BY <2>2, <2>4, BeginsShoots, LayerAssumption DEF Ids
<1> QED BY <1>1, <1>2

LEMMA LoadingShoots ==
    ASSUME Typed, ShotInv, NEW r \in Requests,
           LoadNothing(r) \/ LoadRow(r) \/ Verdict(r) \/ EndRow(r)
    PROVE  Shoots(r, Seed)
<1>0. UNCHANGED got BY DEF LoadNothing, LoadRow, Verdict, EndRow, history
<1>a. Seed \in Ids BY DEF Ids
<1>1. CASE LoadNothing(r) BY <1>0, <1>1, FreshShoots DEF LoadNothing, shared
<1>2. CASE LoadRow(r)
  <2>0. UNCHANGED store BY <1>2 DEF LoadRow, shared
  <2>1. PICK c \in Clients, i \in issued :
          /\ store[i] # NoRow
          /\ IF is_authenticated(store[i].auth) THEN Goto(r, "verdict")
             ELSE Trust(r, c, i, store[i])
        BY <1>2 DEF LoadRow
  <2>2. i \in Ids /\ store[i] \in Data BY <2>1, RowField DEF Typed, TypeOK
  <2>3. CASE is_authenticated(store[i].auth)
    <3>1. pc'[r] = "verdict" BY <2>1, <2>3 DEF Goto, Typed, TypeOK
    <3> QED BY <1>0, <1>a, <2>0, <3>1, LeavesShoots DEF Live, Handling, Swapping
  <2>4. CASE ~is_authenticated(store[i].auth)
        BY <1>0, <2>0, <2>1, <2>2, <2>4, TrustShoots
  <2> QED BY <2>3, <2>4
<1>3. CASE Verdict(r)
  <2>0. UNCHANGED store BY <1>3 DEF Verdict, shared
  <2>1. inner[r].data \in Data BY RequestFields, InnerFields
  <2>3. CASE Trust(r, call[r].client, inner[r].id, inner[r].data)
        BY <1>0, <2>0, <2>1, <2>3, TrustShoots
  <2>4. CASE StartFresh(r, call[r].client, "clean") BY <1>0, <2>0, <2>4, FreshShoots
  <2>5. CASE Goto(r, "endrow")
    <3>1. pc'[r] = "endrow" BY <2>5 DEF Goto, Typed, TypeOK
    <3> QED BY <1>0, <1>a, <2>0, <3>1, LeavesShoots DEF Live, Handling, Swapping
  <2> QED BY <1>3, <2>3, <2>4, <2>5 DEF Verdict
<1>4. CASE EndRow(r)
  <2>1. \A i \in Ids : store'[i] = store[i] \/ store'[i] = NoRow
        BY <1>4 DEF EndRow, try_delete, delete, Typed, TypeOK
  <2> QED BY <1>0, <1>4, <2>1, FreshShoots DEF EndRow
<1> QED BY <1>1, <1>2, <1>3, <1>4

LEMMA SettlingShoots ==
    ASSUME Typed, ShotInv, NEW r \in Requests,
           \/ LiveOld(r) \/ RegisterNew(r) \/ RereadOld(r) \/ InvalidateOld(r)
           \/ LiveNew(r) \/ EndRevoked(r) \/ EndUntracked(r) \/ FailClosed(r)
    PROVE  Shoots(r, Seed)
<1>1. \A i \in Ids : store'[i] = store[i] \/ store'[i] = NoRow
      BY DEF LiveOld, RegisterNew, RereadOld, InvalidateOld, LiveNew, EndRevoked,
             EndUntracked, FailClosed, shared, try_delete, delete, Typed, TypeOK
<1>2. pc'[r] \in Settling \cup {"cookie", "ended", "closed"}
      BY DEF LiveOld, RegisterNew, RereadOld, InvalidateOld, LiveNew, EndRevoked, FailClosed,
             EndUntracked, OnUntracked, SendCookie, Goto, Settling, Typed, TypeOK
<1>3. UNCHANGED got
      BY DEF LiveOld, RegisterNew, RereadOld, InvalidateOld, LiveNew, EndRevoked, FailClosed,
             EndUntracked, history
<1>4. Seed \in Ids BY DEF Ids
<1> QED BY <1>1, <1>2, <1>3, <1>4, LeavesShoots DEF Settling, Live, Handling, Swapping

(* A swap that is given up: its value, if it had one of its own, is gone. *)
LEMMA SwapEndsShoots ==
    ASSUME Typed, ShotInv, NEW r \in Requests, pc[r] \in Swapping \cup {"touch"},
           pc[r] = "touch" => work[r].key = NoKey,
           SwapGone(r) \/ SwapFailed(r), UNCHANGED <<store, got>>
    PROVE  Shoots(r, Seed)
<1>0. Seed \in Ids BY DEF Ids
<1>1. CASE work[r].key = NoKey
  <2>1. pc'[r] = "nocookie" BY <1>1 DEF SwapGone, SwapFailed, Goto, Typed, TypeOK
  <2> QED BY <1>0, <2>1, LeavesShoots DEF Live, Handling, Swapping
<1>2. CASE work[r].key # NoKey
  <2>1. pc'[r] = "handler" /\ inner'[r] = inner[r]
        BY <1>2 DEF SwapGone, SwapFailed, Goto, Typed, TypeOK
  <2>2. inner[r].data.custom \in Bag BY RequestFields, InnerFields, DataTypes
  <2>3. Part(inner[r].data.custom, inner'[r].data.custom) BY <2>1, <2>2, Parts
  <2> QED BY <1>0, <1>2, <2>1, <2>3, DropsShoots DEF Live, Handling, Swapping
<1> QED BY <1>1, <1>2

-----------------------------------------------------------------------------
(* The handler puts a value in its session, or takes one. *)

LEMMA SetCustomShoots ==
    ASSUME Typed, ShotInv, NEW r \in Requests, SetCustom(r)
    PROVE  Shoots(r, Seed)
<1>0. pc[r] = "handler" /\ UNCHANGED <<store, pc, work, got>>
      BY DEF SetCustom, Handler, shared
<1>a. Seed \in Ids BY DEF Ids
<1>1. PICK j \in Keys :
        LET bag == [inner[r].data.custom EXCEPT ![j] = r]
        IN  /\ Handler(r, "set", j)
            /\ SetInner(r, with_custom(inner[r], bag)) \/ UNCHANGED inner
      BY DEF SetCustom
<1> DEFINE q == inner[r]
           bag == [q.data.custom EXCEPT ![j] = r]
<1>2. q \in Inner /\ q.data.custom \in Bag BY <1>0, HandlerFields
<1>3. CASE UNCHANGED inner
  <2>1. Part(q.data.custom, inner'[r].data.custom) BY <1>2, <1>3, Parts
  <2> QED BY <1>0, <1>3, <1>a, <2>1, DropsShoots DEF Live, Handling, Swapping
<1>4. CASE SetInner(r, with_custom(q, bag))
  <2>1. bag \in Bag /\ bag[j] = r /\ \A k \in Keys \ {j} : bag[k] = q.data.custom[k]
        BY <1>2, LayerAssumption DEF Bag
  <2>2. inner'[r] = with_custom(q, bag) BY <1>4 DEF SetInner, Typed, TypeOK
  <2> HIDE DEF bag
  <2>3. inner'[r].data.custom = bag /\ inner'[r].loaded = q.loaded
        BY <1>2, <2>1, <2>2, WithCustomFields, WithCustomType
  <2>4. <<"set", j>> \notin call[r].ops BY <1>1 DEF Handler
  <2>5. ASSUME NEW k \in Keys, NEW v \in Values, NextHand(r, k, v)
        PROVE  Hands(r, k, v) \/ Puts(r, k, v)
    <3>1. v = r /\ OwnData(inner'[r], r, k) BY <1>0, <2>5 DEF NextHand, Hand, Swapping
    <3>2. CASE k = j BY <1>0, <2>4, <3>1, <3>2 DEF Puts
    <3>3. CASE k # j
      <4>1. OwnData(q, r, k) BY <2>1, <2>3, <3>1, <3>3 DEF OwnData
      <4> QED BY <1>0, <3>1, <4>1 DEF Hands, Hand, Live, Handling
    <3> QED BY <3>2, <3>3
  <2>6. \A k \in Keys, v \in Values : Hands(r, k, v) => ~Rests(store', Seed, k, v)
        BY <1>0, <1>a DEF ShotInv, OnePlace
  <2>7. Passes(r, Seed) BY <1>0, <2>5, <2>6 DEF Passes, Near
  <2>8. DataFrom(q, r) BY <1>0 DEF ShotInv, Carries, CarriesOK, Live, Handling
  <2>9. DataFrom(inner'[r], r)
    <3> SUFFICES ASSUME NEW k \in Keys
                 PROVE  \/ bag[k] \in {NoVal, r}
                        \/ q.loaded # NoRow /\ bag[k] = q.loaded.custom[k]
        BY <2>3 DEF DataFrom
    <3> QED BY <2>1, <2>8 DEF DataFrom
  <2>10. CarriesOK(store', pc'[r], inner'[r], work'[r], r) BY <1>0, <2>9 DEF CarriesOK, Swapping
  <2>11. TakesOwn(pc'[r], work'[r], r, call'[r].ops) BY <1>0 DEF TakesOwn, Swapping
  <2> QED BY <2>7, <2>10, <2>11 DEF Shoots
<1> QED BY <1>1, <1>3, <1>4

(* The row a request loaded is the one it writes, if no one wrote since. *)
LEMMA SameRow ==
    ASSUME NEW st \in [Ids -> Data \cup {NoRow}], NEW x \in Ids, NEW row \in Data,
           Known(st, x, row), st[x] # NoRow, st[x].revision = row.revision
    PROVE  st[x] = row
<1>1. st[x].revision \in Nat BY DataTypes
<1> QED BY <1>1 DEF Known

(* The first write of what a request has. *)
LEMMA FirstFrom ==
    ASSUME NEW st \in [Ids -> Data \cup {NoRow}], NEW q, NEW w, NEW r \in Requests,
           q.loaded \in Data, row_id(q) \in Ids, Known(st, row_id(q), q.loaded),
           w.expected = q.loaded.revision, LocalFrom(q, w, r),
           Part(w.local.custom, w.next.custom),
           w.key # NoKey => \/ w.val = q.loaded.custom[w.key]
                            \/ w.val = r
    PROVE  SwapFrom(st, q, w, r)
<1> DEFINE x == row_id(q)
<1> SUFFICES ASSUME st[x] # NoRow, st[x].revision = w.expected
             PROVE  /\ \A k \in Keys : \/ w.next.custom[k] \in {NoVal, st[x].custom[k]}
                                       \/ w.next.custom[k] = r /\ OwnData(q, r, k)
                    /\ w.key # NoKey => \/ w.val = st[x].custom[w.key]
                                        \/ w.val = r /\ OwnTaken(q, w, r, w.key)
    BY DEF SwapFrom
<1>1. st[x] = q.loaded BY SameRow
<1>2. ASSUME NEW k \in Keys
      PROVE  \/ w.next.custom[k] \in {NoVal, st[x].custom[k]}
             \/ w.next.custom[k] = r /\ OwnData(q, r, k)
  <2>1. w.next.custom[k] \in {NoVal, w.local.custom[k]} BY DEF Part
  <2>2. \/ w.local.custom[k] \in {NoVal, q.loaded.custom[k]}
        \/ w.local.custom[k] = r /\ q.data.custom[k] = r
        BY DEF LocalFrom
  <2> QED BY <1>1, <2>1, <2>2 DEF OwnData
<1>3. w.key # NoKey => \/ w.val = st[x].custom[w.key]
                       \/ w.val = r /\ OwnTaken(q, w, r, w.key)
      BY <1>1 DEF OwnTaken
<1> QED BY <1>2, <1>3

(* A value that only its own request has is handed out at once; one that   *)
(* the row has is handed out by the write that removes it.                 *)
LEMMA TakeShoots ==
    ASSUME ForkInv, LoginInv, PlantInv, ShotInv, Typed', NEW r \in Requests, Take(r)
    PROVE  Shoots(r, Seed)
<1> DEFINE q == inner[r]
<1>0. Typed /\ pc[r] = "handler" /\ UNCHANGED store BY DEF ForkInv, Take, Handler, shared
<1>a. Seed \in Ids BY DEF Ids
<1>1. PICK j \in Keys :
        /\ q.data.custom[j] # NoVal /\ Called(r, "take", j, 0)
        /\ SetInner(r, with_custom(q, without(q.data, j).custom))
        /\ \/ /\ q.loaded # NoRow
              /\ SetWork(r, first_attempt(j, q.data.custom[j], take_local(q, j),
                                          take_local(q, j).revision))
              /\ Goto(r, "swap") /\ UNCHANGED got
           \/ /\ q.loaded = NoRow \/ q.loaded.custom[j] = NoVal
              /\ got' = got \cup {<<r, j, q.data.custom[j]>>}
              /\ UNCHANGED <<pc, work>>
      BY DEF Take
<1> DEFINE b == without(q.data, j).custom
           v == q.data.custom[j]
<1>2. /\ q \in Inner /\ q.data \in Data /\ q.data.custom \in Bag /\ q.loaded \in Data \cup {NoRow}
      BY <1>0, HandlerFields, InnerFields
<1>3. b \in Bag /\ b = [q.data.custom EXCEPT ![j] = NoVal]
  <2>1. b = [q.data.custom EXCEPT ![j] = NoVal] BY <1>2, WithoutFields
  <2> QED BY <1>2, <2>1, BagTypes
<1>4. inner'[r] = with_custom(q, b) BY <1>0, <1>1 DEF SetInner, Typed, TypeOK
<1>5. b[j] = NoVal /\ (\A k \in Keys \ {j} : b[k] = q.data.custom[k]) BY <1>2, <1>3 DEF Bag
<1> HIDE DEF b
<1>6. inner'[r].data.custom = b /\ inner'[r].loaded = q.loaded
      BY <1>2, <1>3, <1>4, WithCustomFields, WithCustomType
<1>7. row_id(inner'[r]) = row_id(q)
  <2>1. Edits(q, inner'[r]) BY <1>2, <1>3, <1>4, WithCustomFields
  <2> QED BY <2>1 DEF Edits, row_id
<1>8. DataFrom(q, r) BY <1>0 DEF ShotInv, Carries, CarriesOK, Live, Handling
<1>9. DataFrom(inner'[r], r)
  <2> SUFFICES ASSUME NEW k \in Keys
               PROVE  \/ b[k] \in {NoVal, r}
                      \/ q.loaded # NoRow /\ b[k] = q.loaded.custom[k]
      BY <1>6 DEF DataFrom
  <2> QED BY <1>5, <1>8 DEF DataFrom
<1>10. r # NoVal BY NoValFree
<1>11. \A k \in Keys : OwnData(inner'[r], r, k) => k # j /\ OwnData(q, r, k)
       BY <1>5, <1>6, <1>10 DEF OwnData
<1>12. \A k \in Keys : OwnData(q, r, k) => Hands(r, k, r)
       BY <1>0 DEF Hands, Hand, Live, Handling
<1>13. v \in Values BY <1>1, <1>2 DEF Bag
<1>14. CASE /\ q.loaded = NoRow \/ q.loaded.custom[j] = NoVal
            /\ got' = got \cup {<<r, j, v>>} /\ UNCHANGED <<pc, work>>
  <2>1. v = r /\ OwnData(q, r, j) BY <1>1, <1>8, <1>10, <1>14 DEF DataFrom, OwnData
  <2>2. \A k \in Keys, u \in Values : NextHand(r, k, u) => k # j /\ Hands(r, k, u)
        BY <1>0, <1>11, <1>12, <1>14 DEF NextHand, Hand, Swapping
  <2>3. \A k \in Keys, u \in Values : Hands(r, k, u) => ~Rests(store', Seed, k, u)
        BY <1>0, <1>a DEF ShotInv, OnePlace
  <2>4. Hands(r, j, v) BY <1>12, <2>1
  <2>5. Gives(r, Seed, j, v) BY <1>13, <1>14, <2>2, <2>3, <2>4 DEF Gives, Near
  <2>6. Passes(r, Seed) BY <1>0, <1>13, <2>2, <2>3, <2>5 DEF Passes, Near
  <2>7. CarriesOK(store', pc'[r], inner'[r], work'[r], r)
        BY <1>0, <1>9, <1>14 DEF CarriesOK, Swapping
  <2>8. TakesOwn(pc'[r], work'[r], r, call'[r].ops) BY <1>0, <1>14 DEF TakesOwn, Swapping
  <2> QED BY <2>6, <2>7, <2>8 DEF Shoots
<1>15. CASE /\ q.loaded # NoRow /\ Goto(r, "swap") /\ UNCHANGED got
            /\ SetWork(r, first_attempt(j, v, take_local(q, j), take_local(q, j).revision))
  <2> DEFINE o == IF q.pre_cycle_id = NoId THEN q.data ELSE q.loaded
             d == take_local(q, j)
             w == first_attempt(j, v, d, d.revision)
  <2>1. q.loaded \in Data /\ o \in Data /\ o.custom \in Bag BY <1>2, <1>15, DataTypes
  <2>2. d = without(o, j) BY DEF take_local
  <2>3. d \in Data /\ d.revision = o.revision /\ d.custom = [o.custom EXCEPT ![j] = NoVal]
    <3>1. /\ without(o, j) \in Data /\ without(o, j).revision = o.revision
          /\ without(o, j).custom = [o.custom EXCEPT ![j] = NoVal]
          BY <2>1, WithoutFields
    <3> HIDE DEF o, d
    <3> QED BY <2>2, <3>1
  <2>4. CopyOK(store, loginOf, q) /\ Unrotated(q)
        BY <1>0 DEF LoginInv, Holds, HoldsOK, Live, Handling
  <2>5. o.revision = q.loaded.revision BY <1>15, <2>4 DEF Unrotated
  <2>6. o = q.data \/ o = q.loaded OBVIOUS
  <2> HIDE DEF o
  <2>7. d.custom[j] = NoVal /\ (\A k \in Keys \ {j} : d.custom[k] = o.custom[k])
        BY <2>1, <2>3 DEF Bag
  <2>8. d.revision \in Nat /\ d.custom \in Bag BY <2>3, DataTypes
  <2> HIDE DEF d
  <2>9. /\ w.local = d /\ w.expected = d.revision /\ w.key = j
        /\ w.next = Stored(d, d.revision + 1)
        BY <2>3, <2>8, AttemptFields
  <2>10. w.val = v BY DEF first_attempt
  <2>11. Part(w.local.custom, w.next.custom) BY <2>3, <2>8, <2>9, StoredPart
  <2>12. work' = [work EXCEPT ![r] = w] BY <1>15 DEF SetWork, d
  <2> HIDE DEF w
  <2>13. work'[r] = w /\ pc'[r] = "swap" BY <1>0, <1>15, <2>12 DEF Goto, Typed, TypeOK
  <2>14. w.key # NoKey BY <2>9, LayerAssumption
  <2>15. ASSUME NEW k \in Keys, NEW u \in Values, NextHand(r, k, u) PROVE Hands(r, k, u)
    <3>1. u = r /\ (OwnData(inner'[r], r, k) \/ OwnTaken(inner'[r], w, r, k))
          BY <2>13, <2>15 DEF NextHand, Hand
    <3>2. CASE OwnTaken(inner'[r], w, r, k)
      <4>1. k = j /\ v = r /\ q.loaded.custom[j] # r BY <1>6, <2>9, <2>10, <3>2 DEF OwnTaken
      <4>2. OwnData(q, r, k) BY <4>1 DEF OwnData
      <4> QED BY <1>12, <3>1, <4>2
    <3> QED BY <1>11, <1>12, <3>1, <3>2
  <2>16. Passes(r, Seed) BY <1>0, <1>a, <1>15, <2>15, KeepsPasses
  <2>17. LocalFrom(inner'[r], w, r)
    <3> SUFFICES ASSUME NEW k \in Keys
                 PROVE  \/ d.custom[k] \in {NoVal, q.loaded.custom[k]}
                        \/ d.custom[k] = r /\ b[k] = r
        BY <1>6, <2>9 DEF LocalFrom
    <3>1. CASE k = j BY <2>7, <3>1
    <3>2. CASE k # j BY <1>5, <1>8, <2>6, <2>7, <3>2 DEF DataFrom
    <3> QED BY <3>1, <3>2
  <2>18. TakesOut(inner'[r], w)
    <3>1. w.next.custom[j] = NoVal BY <2>7, <2>9, <2>11 DEF Part
    <3> QED BY <1>5, <1>6, <2>7, <2>9, <3>1 DEF TakesOut
  <2>19. SwapFrom(store, inner'[r], w, r)
    <3>1. store \in [Ids -> Data \cup {NoRow}] BY <1>0 DEF Typed, TypeOK
    <3>2. Known(store, row_id(q), q.loaded) /\ row_id(q) \in Ids
          BY <1>0, <1>15, <2>4, OwnIds DEF CopyOK
    <3>3. w.val = q.loaded.custom[j] \/ w.val = r BY <1>1, <1>8, <2>10 DEF DataFrom
    <3>4. w.expected = inner'[r].loaded.revision BY <1>6, <2>3, <2>5, <2>9
    <3>5. /\ row_id(inner'[r]) \in Ids /\ inner'[r].loaded \in Data
          /\ Known(store, row_id(inner'[r]), inner'[r].loaded)
          BY <1>6, <1>7, <2>1, <3>2
    <3> QED BY <1>6, <2>9, <2>11, <2>17, <3>1, <3>3, <3>4, <3>5, FirstFrom
  <2>20. CarriesOK(store', pc'[r], inner'[r], work'[r], r)
         BY <1>0, <1>9, <2>13, <2>17, <2>18, <2>19 DEF CarriesOK
  <2>21. TakesOwn(pc'[r], work'[r], r, call'[r].ops)
    <3> SUFFICES ASSUME v = r PROVE <<"set", j>> \in call'[r].ops
        BY <2>9, <2>10, <2>13 DEF TakesOwn
    <3>1. InHands(q, work[r], j, r) BY DEF InHands
    <3>2. <<"set", j>> \in call[r].ops BY <3>1 DEF PlantInv, Authors
    <3>3. call[r].ops \subseteq call'[r].ops BY <1>0, OpsGrow DEF Operate
    <3> QED BY <3>2, <3>3
  <2> QED BY <2>16, <2>20, <2>21 DEF Shoots
<1> QED BY <1>1, <1>14, <1>15

-----------------------------------------------------------------------------
(* The compare-and-swap. *)

(* A write takes the value it hands out from the row, and adds nothing but *)
(* what its request had put in the session.                                *)
LEMMA SwapWrittenShoots ==
    ASSUME ForkInv, LoginInv, ShotInv, Typed', NEW r \in Requests, pc[r] = "swap",
           store[row_id(inner[r])] # NoRow,
           store[row_id(inner[r])].revision = work[r].expected,
           save(row_id(inner[r]), work[r].next), SwapWritten(r), UNCHANGED work
    PROVE  Shoots(r, row_id(inner[r]))
<1> DEFINE q == inner[r]
           w == work[r]
           x == row_id(q)
           m == merge_rotating(q.loaded, q.data, w.next)
           d == IF w.key # NoKey /\ q.pre_cycle_id # NoId THEN m ELSE w.next
           p == [q EXCEPT !.data = d, !.loaded = w.next]
<1>0. Typed BY DEF ForkInv
<1>1. /\ x \in Ids /\ q \in Inner /\ w \in Work /\ q.loaded \in Data /\ q.loaded # NoRow
      /\ q.data \in Data
      BY <1>0, OwnIds, RequestFields, InnerFields DEF LocalsOf
<1>2. w.next \in Data /\ w.next # NoRow /\ w.key \in Keys \cup {NoKey}
      BY <1>1, WorkFields, LayerAssumption
<1>3. /\ DataFrom(q, r) /\ LocalFrom(q, w, r) /\ TakesOut(q, w)
      /\ SwapFrom(store, q, w, r)
      BY DEF ShotInv, Carries, CarriesOK, Live, Swapping
<1>4. /\ \A k \in Keys : \/ w.next.custom[k] \in {NoVal, store[x].custom[k]}
                         \/ w.next.custom[k] = r /\ OwnData(q, r, k)
      /\ w.key # NoKey => \/ w.val = store[x].custom[w.key]
                          \/ w.val = r /\ OwnTaken(q, w, r, w.key)
      BY <1>3 DEF SwapFrom
<1>5. r # NoVal /\ NoVal \notin Values BY NoValFree, DataAssumption
<1>6. \A k \in Keys : OwnData(q, r, k) => Hands(r, k, r)
      BY DEF Hands, Hand, Live, Swapping
<1>7. m.custom = merge_bags(q.loaded.custom, q.data.custom, w.next.custom,
                            q.data.auth = q.loaded.auth)
      BY <1>1, <1>2, MergeBag
<1>8. ASSUME NEW k \in Keys
      PROVE  \/ q.loaded.custom[k] # q.data.custom[k] /\ m.custom[k] = q.data.custom[k]
             \/ m.custom[k] \in {NoVal, w.next.custom[k]}
  <2> HIDE DEF m
  <2> QED BY <1>7 DEF merge_bags
<1>9. inner' = [inner EXCEPT ![r] = p] BY DEF SwapWritten, SetInner
<1> HIDE DEF m
<1>10. d = m \/ d = w.next OBVIOUS
<1> HIDE DEF d
<1>11. p.data = d /\ p.loaded = w.next BY <1>1 DEF Inner
<1> HIDE DEF p
<1>12. inner'[r].data = d /\ inner'[r].loaded = w.next BY <1>0, <1>9, <1>11 DEF Typed, TypeOK
<1>13. store'[x] = w.next /\ \A i \in Ids \ {x} : store'[i] = store[i]
       BY <1>0, <1>1 DEF save, Typed, TypeOK
<1>14. ASSUME NEW k \in Keys, NEW v \in Values, Rests(store', x, k, v) PROVE Near(r, x, k, v)
  <2>1. w.next.custom[k] = v /\ v # NoVal BY <1>5, <1>13, <1>14 DEF Rests
  <2>2. CASE v = store[x].custom[k] BY <2>2 DEF Rests, Near
  <2>3. CASE v = r /\ OwnData(q, r, k) BY <1>6, <2>3 DEF Near
  <2> QED BY <1>4, <2>1, <2>2, <2>3
<1>15. ASSUME NEW k \in Keys
       PROVE  \/ d.custom[k] \in {NoVal, w.next.custom[k]}
              \/ d.custom[k] = r /\ OwnData(q, r, k)
  <2>1. CASE d = w.next BY <2>1
  <2>2. CASE d = m BY <1>3, <1>8, <2>2 DEF DataFrom, OwnData
  <2> QED BY <1>10, <2>1, <2>2
<1>16. pc'[r] \in {"cookie", "handler"}
       BY <1>0 DEF SwapWritten, SendCookie, Goto, Typed, TypeOK
<1>17. ASSUME NEW k \in Keys, NEW v \in Values, NextHand(r, k, v)
       PROVE  /\ Hands(r, k, v) /\ ~Rests(store', x, k, v)
              /\ v = r /\ d.custom[k] = r /\ d.custom[k] # w.next.custom[k]
  <2>1. v = r /\ d.custom[k] = r /\ w.next.custom[k] # r
        BY <1>2, <1>12, <1>16, <1>17 DEF NextHand, Hand, OwnData, Live, Handling, Swapping
  <2>2. OwnData(q, r, k) BY <1>5, <1>15, <2>1
  <2> QED BY <1>6, <1>13, <2>1, <2>2 DEF Rests
<1>18. Passes(r, x)
  <2>1. CASE w.key = NoKey
    <3>1. UNCHANGED got BY <2>1 DEF SwapWritten
    <3> QED BY <1>13, <1>14, <1>17, <3>1 DEF Passes, Near
  <2>2. CASE w.key # NoKey
    <3>1. w.key \in Keys /\ got' = got \cup {<<r, w.key, w.val>>}
          BY <1>2, <2>2 DEF SwapWritten
    <3>2. w.val \in Values BY <3>1 DEF Typed, TypeOK
    <3>3. Near(r, x, w.key, w.val)
      <4>1. CASE w.val = store[x].custom[w.key] BY <4>1 DEF Rests, Near
      <4>2. CASE w.val = r /\ OwnTaken(q, w, r, w.key)
            BY <4>2 DEF Near, Hands, Hand, Swapping
      <4> QED BY <1>4, <2>2, <4>1, <4>2
    <3>4. q.data.custom[w.key] = NoVal /\ w.next.custom[w.key] = NoVal
          BY <1>3, <2>2 DEF TakesOut
    <3>5. ~Rests(store', x, w.key, w.val) BY <1>5, <1>13, <3>2, <3>4 DEF Rests
    <3>6. d.custom[w.key] # r BY <1>5, <1>15, <3>1, <3>4 DEF OwnData
    <3>7. ~NextHand(r, w.key, w.val) BY <1>17, <3>1, <3>2, <3>6
    <3>8. Gives(r, x, w.key, w.val) BY <3>1, <3>3, <3>5, <3>7 DEF Gives
    <3> QED BY <1>13, <1>14, <1>17, <3>1, <3>2, <3>8 DEF Passes, Near
  <2> QED BY <2>1, <2>2
<1>19. DataFrom(inner'[r], r) BY <1>2, <1>12, <1>15 DEF DataFrom
<1>20. CarriesOK(store', pc'[r], inner'[r], work'[r], r)
       BY <1>16, <1>19 DEF CarriesOK, Swapping
<1>21. TakesOwn(pc'[r], work'[r], r, call'[r].ops) BY <1>16 DEF TakesOwn, Swapping
<1> QED BY <1>18, <1>20, <1>21 DEF Shoots

LEMMA SwapTryShoots ==
    ASSUME ForkInv, LoginInv, ShotInv, Typed', NEW r \in Requests, SwapTry(r)
    PROVE  \E j \in Ids : Shoots(r, j)
<1>0. Typed /\ pc[r] = "swap" /\ UNCHANGED <<work, call>> BY DEF ForkInv, SwapTry
<1>a. Seed \in Ids /\ row_id(inner[r]) \in Ids BY <1>0, OwnIds DEF Ids
<1>1. CASE (SwapGone(r) \/ SwapFailed(r)) /\ UNCHANGED <<store, got>>
      BY <1>0, <1>a, <1>1, SwapEndsShoots DEF Swapping
<1>2. CASE /\ store[row_id(inner[r])] # NoRow
           /\ store[row_id(inner[r])].revision = work[r].expected
           /\ save(row_id(inner[r]), work[r].next) /\ SwapWritten(r)
      BY <1>0, <1>a, <1>2, SwapWrittenShoots
<1>3. CASE Goto(r, "swapload") /\ UNCHANGED <<store, inner, got>>
  <2>1. pc'[r] = "swapload" BY <1>0, <1>3 DEF Goto, Typed, TypeOK
  <2>2. \A k \in Keys, v \in Values : NextHand(r, k, v) => Hands(r, k, v)
        BY <1>0, <1>3, <2>1 DEF NextHand, Hands, Hand, Live, Swapping
  <2>3. Passes(r, Seed) BY <1>3, <1>a, <2>2, KeepsPasses
  <2>4. CarriesOK(store, pc[r], inner[r], work[r], r) BY DEF ShotInv, Carries
  <2>5. CarriesOK(store', pc'[r], inner'[r], work'[r], r)
        BY <1>0, <1>3, <2>1, <2>4 DEF CarriesOK, Live, Swapping
  <2>6. TakesOwn(pc'[r], work'[r], r, call'[r].ops)
        BY <1>0 DEF TakesOwn, ShotInv, TakesSet, Swapping
  <2> QED BY <1>a, <2>3, <2>5, <2>6 DEF Shoots
<1> QED BY <1>1, <1>2, <1>3 DEF SwapTry

LEMMA SwapLoadShoots ==
    ASSUME ForkInv, LoginInv, PlantInv, ShotInv, Typed', NEW r \in Requests, SwapLoad(r)
    PROVE  Shoots(r, Seed)
<1> DEFINE q == inner[r]
           w == work[r]
           x == row_id(q)
           row == store[x]
           fresh == IF w.key = NoKey THEN row ELSE without(row, w.key)
           m == merge_concurrent(q.loaded, w.local, fresh)
           n == row.revision + 1
           u == work'[r]
<1>0. Typed /\ pc[r] = "swapload" /\ UNCHANGED <<store, got, call>>
      BY DEF ForkInv, SwapLoad, shared, history
<1>a. Seed \in Ids BY DEF Ids
<1>1. CASE (SwapGone(r) \/ SwapFailed(r)) /\ UNCHANGED work
      BY <1>0, <1>1, SwapEndsShoots DEF Swapping
<1>2. CASE pc'[r] = "swap"
  <2>1. /\ inner'[r] = q /\ row \in Data /\ fresh \in Data /\ m \in Data
        /\ q.loaded \in Data /\ w.local \in Data
        /\ n \in Nat /\ u.next = Stored(m, n) /\ u.local = w.local
        BY <1>2, SwapLoadWork
  <2>2. /\ u.key = w.key /\ u.expected = row.revision
        /\ u.val = (IF w.key = NoKey THEN w.val ELSE row.custom[w.key])
    <3>1. w \in Work BY <1>0, RequestFields
    <3>2. w.key # NoKey \/ w.key = NoKey OBVIOUS
    <3> DEFINE v == IF w.key = NoKey THEN w.val ELSE row.custom[w.key]
               e == Stored(m, n)
               y == [w EXCEPT !.val = v, !.expected = row.revision, !.att = w.att + 1, !.next = e]
    <3>3. SetWork(r, y)
          BY <1>0, <1>2 DEF SwapLoad, SwapGone, SwapFailed, Goto, Stored, Typed, TypeOK
    <3> HIDE DEF e, v
    <3>4. y.key = w.key /\ y.expected = row.revision /\ y.val = v BY <3>1 DEF Work
    <3>5. u = y BY <1>0, <3>3 DEF SetWork, Typed, TypeOK
    <3> QED BY <3>4, <3>5 DEF v
  <2>3. x \in Ids /\ row # NoRow /\ w.key \in Keys \cup {NoKey} /\ row.custom \in Bag
        BY <1>0, <2>1, OwnIds, RequestFields, WorkFields, DataTypes, LayerAssumption
  <2>4. /\ Part(row.custom, fresh.custom)
        /\ w.key # NoKey => fresh.custom[w.key] = NoVal
    <3>1. CASE w.key = NoKey BY <2>3, <3>1, Parts
    <3>2. CASE w.key # NoKey
      <4>1. w.key \in Keys BY <2>3, <3>2
      <4>2. without(row, w.key).custom = [row.custom EXCEPT ![w.key] = NoVal]
            BY <2>1, <4>1, WithoutFields
      <4>3. fresh.custom = [row.custom EXCEPT ![w.key] = NoVal] BY <3>2, <4>2
      <4>4. [row.custom EXCEPT ![w.key] = NoVal][w.key] = NoVal BY <2>3, <4>1 DEF Bag
      <4>5. Part(row.custom, [row.custom EXCEPT ![w.key] = NoVal]) BY <2>3, <4>1, Parts
      <4> QED BY <4>3, <4>4, <4>5
    <3> QED BY <3>1, <3>2
  <2> HIDE DEF fresh
  <2>5. m.custom = merge_bags(q.loaded.custom, w.local.custom, fresh.custom, TRUE)
    <3>1. q.loaded \in Data /\ w.local \in Data /\ fresh \in Data BY <2>1
    <3> QED BY <3>1, MergeBag
  <2>6. ASSUME NEW k \in Keys
        PROVE  \/ q.loaded.custom[k] # w.local.custom[k] /\ m.custom[k] = w.local.custom[k]
               \/ m.custom[k] \in {NoVal, fresh.custom[k]}
    <3> HIDE DEF m
    <3> QED BY <2>5 DEF merge_bags
  <2> HIDE DEF m, n
  <2>7. Part(m.custom, u.next.custom) BY <2>1, StoredPart
  <2>8. /\ DataFrom(q, r) /\ LocalFrom(q, w, r) /\ TakesOut(q, w)
        BY <1>0 DEF ShotInv, Carries, CarriesOK, Live, Swapping
  <2>9. ASSUME NEW k \in Keys, NEW v \in Values, NextHand(r, k, v) PROVE Hands(r, k, v)
    <3>1. v = r /\ (OwnData(q, r, k) \/ OwnTaken(q, u, r, k))
          BY <1>2, <2>1, <2>9 DEF NextHand, Hand
    <3>2. ~OwnTaken(q, u, r, k)
      <4> SUFFICES ASSUME OwnTaken(q, u, r, k) PROVE FALSE OBVIOUS
      <4>1. w.key = k /\ k # NoKey /\ row.custom[k] = r BY <2>2, LayerAssumption DEF OwnTaken
      <4>2. q.loaded.custom[k] # r /\ row.revision = q.loaded.revision BY <2>2 DEF OwnTaken
      <4>3. q.loaded # NoRow BY <2>1, LayerAssumption
      <4>4. Known(store, x, q.loaded)
            BY <1>0, <4>3 DEF LoginInv, Holds, HoldsOK, CopyOK, Live, Swapping
      <4>5. store \in [Ids -> Data \cup {NoRow}] BY <1>0 DEF Typed, TypeOK
      <4>6. row = q.loaded BY <2>1, <2>3, <4>2, <4>4, <4>5, SameRow
      <4> QED BY <4>1, <4>2, <4>6
    <3> QED BY <1>0, <3>1, <3>2 DEF Hands, Hand, Live, Swapping
  <2>10. Passes(r, Seed) BY <1>0, <1>a, <2>9, KeepsPasses
  <2>11. LocalFrom(q, u, r) BY <2>1, <2>8 DEF LocalFrom
  <2>12. TakesOut(q, u)
    <3> SUFFICES ASSUME w.key # NoKey
                 PROVE  u.next.custom[w.key] = NoVal
        BY <2>1, <2>2, <2>8 DEF TakesOut
    <3>1. w.key \in Keys BY <2>3
    <3>2. w.local.custom[w.key] = NoVal BY <2>8 DEF TakesOut
    <3>3. m.custom[w.key] = NoVal BY <2>4, <2>6, <3>1, <3>2
    <3> QED BY <2>7, <3>1, <3>3 DEF Part
  <2>13. SwapFrom(store, q, u, r)
    <3>1. ASSUME NEW k \in Keys
          PROVE  \/ u.next.custom[k] \in {NoVal, row.custom[k]}
                 \/ u.next.custom[k] = r /\ OwnData(q, r, k)
      <4>1. u.next.custom[k] \in {NoVal, m.custom[k]} BY <2>7 DEF Part
      <4>2. fresh.custom[k] \in {NoVal, row.custom[k]} BY <2>4 DEF Part
      <4>3. \/ w.local.custom[k] \in {NoVal, q.loaded.custom[k]}
            \/ w.local.custom[k] = r /\ q.data.custom[k] = r
            BY <2>8 DEF LocalFrom
      <4> QED BY <2>6, <4>1, <4>2, <4>3 DEF OwnData
    <3>2. u.key # NoKey => u.val = row.custom[u.key] BY <2>2
    <3> QED BY <3>1, <3>2 DEF SwapFrom
  <2>14. CarriesOK(store', pc'[r], inner'[r], work'[r], r)
         BY <1>0, <1>2, <2>1, <2>8, <2>11, <2>12, <2>13 DEF CarriesOK
  <2>15. TakesOwn(pc'[r], work'[r], r, call'[r].ops)
    <3> SUFFICES ASSUME w.key # NoKey, row.custom[w.key] = r
                 PROVE  <<"set", w.key>> \in call[r].ops
        BY <1>0, <2>2 DEF TakesOwn
    <3>1. w.key \in Keys BY <2>3
    <3>2. InRows(store, w.key, r) BY <2>3 DEF InRows
    <3> QED BY <3>1, <3>2 DEF PlantInv, Authors
  <2> QED BY <2>10, <2>14, <2>15 DEF Shoots
<1>3. ((SwapGone(r) \/ SwapFailed(r)) /\ UNCHANGED work) \/ Goto(r, "swap")
      BY DEF SwapLoad
<1> QED BY <1>0, <1>1, <1>2, <1>3 DEF Goto, Typed, TypeOK

-----------------------------------------------------------------------------
(* finalize_session. *)

LEMMA FinishHandlerShoots ==
    ASSUME ForkInv, LoginInv, ShotInv, Typed', NEW r \in Requests, FinishHandler(r)
    PROVE  Shoots(r, Seed)
<1> DEFINE q == inner[r]
           p == inner'[r]
           w == work'[r]
           n == q.data.revision + 1
           d == Stored(q.data, n)
           e == Stored(d, n)
<1>0. Typed /\ pc[r] = "handler" /\ UNCHANGED <<store, got>>
      BY DEF ForkInv, FinishHandler, shared, history
<1>a. Seed \in Ids BY DEF Ids
<1>1. q.data \in Data /\ n \in Nat BY <1>0, HandlerFields DEF Data
<1>2. Finishes(r) BY FinishFields
<1>3. CASE pc'[r] = "nocookie" BY <1>0, <1>a, <1>3, LeavesShoots DEF Live, Handling, Swapping
<1>4. CASE /\ p.data = d /\ p.loaded = q.loaded /\ w.local = d /\ w.next = e
           /\ w.key = NoKey /\ w.expected = q.data.revision
           /\ \/ pc'[r] \in {"merge", "touch", "save"}
              \/ pc'[r] = "remove" /\ q.loaded = NoRow
              \/ pc'[r] = "swap" /\ q.loaded # NoRow /\ q.dirty = "modified"
  <2>1. d \in Data /\ Part(q.data.custom, d.custom) BY <1>1, StoredFields, StoredPart
  <2>2. Part(d.custom, e.custom) BY <1>1, <2>1, StoredPart
  <2> HIDE DEF d, e, n
  <2>3. CASE pc'[r] # "swap"
    <3>1. pc'[r] \in Live \ (Swapping \cup {"move"}) /\ pc[r] \in Live \ {"move"}
          BY <1>0, <1>4, <2>3 DEF Live, Handling, Swapping
    <3>2. Part(q.data.custom, p.data.custom) BY <1>4, <2>1
    <3>3. pc'[r] = "remove" => q.loaded = NoRow BY <1>4
    <3> QED BY <1>0, <1>4, <1>a, <3>1, <3>2, <3>3, DropsShoots
  <2>4. CASE pc'[r] = "swap"
    <3>1. q.loaded # NoRow /\ q.loaded \in Data /\ q.pre_cycle_id = NoId
          BY <1>0, <1>4, <2>4, HandlerFields, InnerFields DEF ForkInv
    <3>2. Unrotated(q) BY <1>0 DEF LoginInv, Holds, HoldsOK, Handling
    <3>3. w.expected = p.loaded.revision BY <1>4, <3>1, <3>2 DEF Unrotated
    <3>4. CopyOK(store', loginOf', p)
      <4>1. Faithful(r) BY FinishHandlerFaithful
      <4> QED BY <2>4, <4>1 DEF Faithful, HoldsOK, Live, Swapping
    <3>5. row_id(p) = row_id(q) /\ row_id(q) \in Ids BY <1>0, <1>2, <2>4, OwnIds DEF Finishes
    <3>6. Known(store, row_id(p), p.loaded) BY <1>0, <1>4, <3>1, <3>4 DEF CopyOK
    <3>7. DataFrom(q, r) BY <1>0 DEF ShotInv, Carries, CarriesOK, Live, Handling
    <3>8. DataFrom(p, r) BY <1>4, <2>1, <3>7 DEF DataFrom, Part
    <3>9. LocalFrom(p, w, r) BY <1>4, <3>8 DEF DataFrom, LocalFrom
    <3>10. TakesOut(p, w) /\ TakesOwn(pc'[r], w, r, call'[r].ops)
           BY <1>4 DEF TakesOut, TakesOwn
    <3>11. SwapFrom(store, p, w, r)
      <4>1. store \in [Ids -> Data \cup {NoRow}] BY <1>0 DEF Typed, TypeOK
      <4>2. p.loaded \in Data /\ row_id(p) \in Ids BY <1>4, <3>1, <3>5
      <4>3. Part(w.local.custom, w.next.custom) BY <1>4, <2>2
      <4> QED BY <1>4, <3>3, <3>6, <3>9, <4>1, <4>2, <4>3, FirstFrom
    <3>12. CarriesOK(store', pc'[r], p, w, r)
           BY <1>0, <2>4, <3>8, <3>9, <3>10, <3>11 DEF CarriesOK
    <3>13. ASSUME NEW k \in Keys, NEW v \in Values, NextHand(r, k, v) PROVE Hands(r, k, v)
      <4>1. ~OwnTaken(p, w, r, k) BY <1>4, LayerAssumption DEF OwnTaken
      <4>2. v = r /\ OwnData(p, r, k) BY <2>4, <3>13, <4>1 DEF NextHand, Hand
      <4>3. r # NoVal BY NoValFree
      <4>4. OwnData(q, r, k) BY <1>4, <2>1, <4>2, <4>3 DEF OwnData, Part
      <4> QED BY <1>0, <4>2, <4>4 DEF Hands, Hand, Live, Handling
    <3>14. Passes(r, Seed) BY <1>0, <1>a, <3>13, KeepsPasses
    <3> QED BY <3>10, <3>12, <3>14 DEF Shoots
  <2> QED BY <2>3, <2>4
<1> QED BY <1>2, <1>3, <1>4 DEF Finishes

(* A last write, of what the row has and what the request holds. *)
LEMMA StoresShoots ==
    ASSUME Typed, NEW r \in Requests, NEW x \in Ids, NEW d, save(x, d), UNCHANGED got,
           pc'[r] \notin Live,
           \A k \in Keys : d.custom[k] = NoVal \/ Near(r, x, k, d.custom[k])
    PROVE  Shoots(r, x)
<1>1. \A k \in Keys, v \in Values : ~NextHand(r, k, v) BY DEF NextHand, Hand, Live
<1>2. store'[x] = d /\ \A i \in Ids \ {x} : store'[i] = store[i] BY DEF save, Typed, TypeOK
<1>3. \A k \in Keys, v \in Values : Rests(store', x, k, v) => Near(r, x, k, v)
      BY <1>2, DataAssumption DEF Rests
<1>4. Passes(r, x) BY <1>1, <1>2, <1>3 DEF Passes
<1>5. CarriesOK(store', pc'[r], inner'[r], work'[r], r) BY DEF CarriesOK, Live, Swapping
<1>6. TakesOwn(pc'[r], work'[r], r, call'[r].ops) BY DEF TakesOwn, Live
<1> QED BY <1>4, <1>5, <1>6 DEF Shoots

(* What a request has is in the row it loaded, or in its hands. *)
LEMMA DataNear ==
    ASSUME ShotInv, NEW r \in Requests, NEW x \in Ids, pc[r] \in Live \ {"move"},
           inner[r].loaded # NoRow => store[x] = inner[r].loaded, NEW k \in Keys
    PROVE  inner[r].data.custom[k] = NoVal \/ Near(r, x, k, inner[r].data.custom[k])
<1> DEFINE q == inner[r]
<1>1. DataFrom(q, r) BY DEF ShotInv, Carries, CarriesOK
<1>2. CASE q.loaded # NoRow /\ q.data.custom[k] = q.loaded.custom[k]
      BY <1>2 DEF Near, Rests
<1>3. CASE OwnData(q, r, k) BY <1>3 DEF Near, Hands, Hand, OwnData
<1> QED BY <1>1, <1>2, <1>3 DEF DataFrom, OwnData

LEMMA TouchShoots ==
    ASSUME ForkInv, LoginInv, ShotInv, NEW r \in Requests, Touch(r)
    PROVE  \E j \in Ids : Shoots(r, j)
<1> DEFINE q == inner[r]
           w == work[r]
<1>0. Typed /\ pc[r] = "touch" /\ UNCHANGED got BY DEF ForkInv, Touch, history
<1>a. Seed \in Ids BY DEF Ids
<1>1. q.id \in Ids /\ row_id(q) = q.id /\ q.data \in Data /\ q.loaded \in Data
      BY <1>0, OwnIds, RequestFields, InnerFields DEF ForkInv, LocalsOf, row_id
<1>2. CopyOK(store, loginOf, q) /\ TouchOK(q, w) BY <1>0 DEF LoginInv, Holds, HoldsOK, Live
<1>3. CASE (SwapGone(r) \/ SwapFailed(r)) /\ UNCHANGED store
      BY <1>0, <1>2, <1>3, <1>a, SwapEndsShoots DEF TouchOK
<1>4. CASE /\ store[q.id] # NoRow /\ SendCookie(r)
           /\ IF store[q.id].revision = w.expected THEN save(q.id, q.data) ELSE UNCHANGED store
  <2>1. pc'[r] \notin Live
        BY <1>0, <1>4 DEF SendCookie, Goto, Typed, TypeOK, Live, Handling, Swapping
  <2>2. CASE UNCHANGED store BY <1>0, <1>a, <2>1, <2>2, LeavesShoots
  <2>3. CASE store[q.id].revision = w.expected /\ save(q.id, q.data)
    <3>1. q.loaded # NoRow BY <1>1, LayerAssumption
    <3>2. Known(store, q.id, q.loaded) /\ store[q.id].revision = q.loaded.revision
          BY <1>1, <1>2, <2>3, <3>1 DEF CopyOK, TouchOK
    <3>3. store \in [Ids -> Data \cup {NoRow}] BY <1>0 DEF Typed, TypeOK
    <3>4. store[q.id] = q.loaded BY <1>1, <1>4, <3>2, <3>3, SameRow
    <3>5. \A k \in Keys : q.data.custom[k] = NoVal \/ Near(r, q.id, k, q.data.custom[k])
          BY <1>0, <1>1, <3>4, DataNear DEF Live, Handling, Swapping
    <3> QED BY <1>0, <1>1, <2>1, <2>3, <3>5, StoresShoots
  <2> QED BY <1>4, <2>2, <2>3
<1> QED BY <1>3, <1>4 DEF Touch

LEMMA SaveFreshShoots ==
    ASSUME ForkInv, ShotInv, NEW r \in Requests, SaveFresh(r)
    PROVE  \E j \in Ids : Shoots(r, j)
<1>0. Typed /\ pc[r] = "save" /\ inner[r].loaded = NoRow /\ UNCHANGED got
      BY RequestFields DEF SaveFresh, ForkInv, SavesFresh, LocalsOf, history
<1>a. Seed \in Ids /\ inner[r].id \in Ids BY <1>0, ActiveFields DEF Ids
<1>1. pc'[r] \notin Live
      BY <1>0 DEF SaveFresh, SendCookie, Goto, Typed, TypeOK, Live, Handling, Swapping
<1>2. CASE save(inner[r].id, inner[r].data)
  <2>1. \A k \in Keys : \/ inner[r].data.custom[k] = NoVal
                        \/ Near(r, inner[r].id, k, inner[r].data.custom[k])
        BY <1>0, <1>a, DataNear DEF Live, Handling, Swapping
  <2> QED BY <1>0, <1>1, <1>2, <1>a, <2>1, StoresShoots
<1>3. CASE UNCHANGED store BY <1>0, <1>1, <1>3, <1>a, LeavesShoots
<1> QED BY <1>2, <1>3 DEF SaveFresh

LEMMA CycleSaveShoots ==
    ASSUME ForkInv, ShotInv, NEW r \in Requests, CycleSave(r)
    PROVE  \E j \in Ids : Shoots(r, j)
<1>0. Typed /\ pc[r] = "move" /\ UNCHANGED got BY DEF CycleSave, ForkInv
<1>a. Seed \in Ids /\ inner[r].id \in Ids BY <1>0, ActiveFields DEF Ids
<1>1. pc'[r] \notin Live
      BY <1>0 DEF CycleSave, SendCookie, Goto, Typed, TypeOK, Live, Handling, Swapping
<1>2. CASE save(inner[r].id, inner[r].data)
  <2>1. \A k \in Keys : Near(r, inner[r].id, k, inner[r].data.custom[k])
        BY <1>0 DEF Near, Hands, Hand
  <2> QED BY <1>0, <1>1, <1>2, <1>a, <2>1, StoresShoots
<1>3. CASE UNCHANGED store BY <1>0, <1>1, <1>3, <1>a, LeavesShoots
<1> QED BY <1>2, <1>3 DEF CycleSave

LEMMA CycleMergeShoots ==
    ASSUME ForkInv, LoginInv, ShotInv, NEW r \in Requests, CycleMerge(r)
    PROVE  Shoots(r, Seed)
<1> DEFINE q == inner[r]
           fresh == store[q.pre_cycle_id]
           m == merge_rotating(q.loaded, q.data, fresh)
           n == fresh.revision + 1
<1>0. Typed /\ pc[r] = "merge" /\ UNCHANGED <<store, got>>
      BY DEF ForkInv, CycleMerge, shared, history
<1>a. Seed \in Ids BY DEF Ids
<1>1. q \in Inner /\ q.data.custom \in Bag /\ q.loaded \in Data /\ q.loaded # NoRow
      BY <1>0, RequestFields, InnerFields, DataTypes, LayerAssumption DEF LocalsOf
<1>2. pc'[r] = "failclosed" \/ work'[r].expected = inner'[r].loaded.revision
  <2>1. ASSUME NEW e PROVE [work[r] EXCEPT !.expected = e].expected = e
        BY <1>0, RequestFields DEF Work
  <2>2. CASE SetWork(r, [work[r] EXCEPT !.expected = q.loaded.revision]) /\ UNCHANGED inner
        BY <1>0, <2>1, <2>2 DEF SetWork, Typed, TypeOK
  <2>3. ASSUME NEW d, SetWork(r, [work[r] EXCEPT !.expected = fresh.revision]),
               SetInner(r, [q EXCEPT !.loaded = fresh, !.data = d])
        PROVE  work'[r].expected = inner'[r].loaded.revision
    <3>1. [q EXCEPT !.loaded = fresh, !.data = d].loaded = fresh BY <1>1 DEF Inner
    <3>2. inner'[r].loaded = fresh BY <1>0, <2>3, <3>1 DEF SetInner, Typed, TypeOK
    <3>3. work'[r].expected = fresh.revision BY <1>0, <2>1, <2>3 DEF SetWork, Typed, TypeOK
    <3> QED BY <3>2, <3>3
  <2>4. CASE Goto(r, "failclosed") BY <1>0, <2>4 DEF Goto, Typed, TypeOK
  <2> QED BY <2>2, <2>3, <2>4 DEF CycleMerge
<1>3. CASE pc'[r] = "failclosed" BY <1>0, <1>3, <1>a, LeavesShoots DEF Live, Handling, Swapping
<1>4. CASE pc'[r] = "remove" /\ inner'[r] = q
  <2>1. Part(q.data.custom, inner'[r].data.custom) BY <1>1, <1>4, Parts
  <2> QED BY <1>0, <1>2, <1>4, <1>a, <2>1, DropsShoots DEF Live, Handling, Swapping
<1>5. CASE /\ pc'[r] = "remove" /\ inner'[r].loaded = fresh /\ inner'[r].data = Stored(m, n)
           /\ fresh \in Data /\ q.data \in Data /\ m \in Data /\ n \in Nat
  <2>1. m.custom = merge_bags(q.loaded.custom, q.data.custom, fresh.custom,
                              q.data.auth = q.loaded.auth)
        BY <1>1, <1>5, MergeBag
  <2>2. fresh # NoRow BY <1>5, LayerAssumption
  <2> DEFINE d == Stored(m, n)
  <2> HIDE DEF m, n, fresh
  <2>3. ASSUME NEW k \in Keys
        PROVE  \/ q.loaded.custom[k] # q.data.custom[k] /\ m.custom[k] = q.data.custom[k]
               \/ m.custom[k] \in {NoVal, fresh.custom[k]}
        BY <2>1 DEF merge_bags
  <2>4. Part(m.custom, d.custom) BY <1>5, StoredPart
  <2>5. inner'[r].data = d BY <1>5
  <2> HIDE DEF d
  <2>6. DataFrom(q, r) BY <1>0 DEF ShotInv, Carries, CarriesOK, Live
  <2>7. ASSUME NEW k \in Keys
        PROVE  \/ d.custom[k] \in {NoVal, fresh.custom[k]}
               \/ d.custom[k] = r /\ OwnData(q, r, k)
    <3>1. d.custom[k] \in {NoVal, m.custom[k]} BY <2>4 DEF Part
    <3> QED BY <2>3, <2>6, <3>1 DEF DataFrom, OwnData
  <2>8. DataFrom(inner'[r], r) BY <1>5, <2>2, <2>5, <2>7 DEF DataFrom
  <2>9. ASSUME NEW k \in Keys, NEW v \in Values, NextHand(r, k, v) PROVE Hands(r, k, v)
    <3>1. v = r /\ d.custom[k] = r /\ fresh.custom[k] # r
          BY <1>5, <2>2, <2>5, <2>9 DEF NextHand, Hand, OwnData, Swapping
    <3>2. OwnData(q, r, k) BY <2>7, <3>1, NoValFree
    <3> QED BY <1>0, <3>1, <3>2 DEF Hands, Hand, Live
  <2>10. Passes(r, Seed) BY <1>0, <1>a, <2>9, KeepsPasses
  <2>11. CarriesOK(store', pc'[r], inner'[r], work'[r], r)
         BY <1>2, <1>5, <2>8 DEF CarriesOK, Swapping
  <2>12. TakesOwn(pc'[r], work'[r], r, call'[r].ops) BY <1>5 DEF TakesOwn, Swapping
  <2> QED BY <2>10, <2>11, <2>12 DEF Shoots
<1> QED BY <1>3, <1>4, <1>5, CycleMergeData

(* Whoever removes the old row has the session in its hands. *)
LEMMA CycleRemoveShoots ==
    ASSUME ForkInv, LoginInv, ShotInv, NEW r \in Requests, CycleRemove(r)
    PROVE  \E j \in Ids : Shoots(r, j)
<1> DEFINE q == inner[r]
           old == q.pre_cycle_id
<1>0. Typed /\ pc[r] = "remove" /\ UNCHANGED got BY DEF ForkInv, CycleRemove, history
<1>1. Seed \in Ids /\ old \in Ids /\ old # NoId BY <1>0, ActiveFields, NoIdFact DEF Ids, Cycling
<1>2. /\ q \in Inner /\ q.data \in Data /\ q.data.custom \in Bag /\ q.loaded \in Data \cup {NoRow}
      BY <1>0, RequestFields, InnerFields, DataTypes
<1>3. CASE /\ existing(r) => store[old] # NoRow /\ store[old].revision = work[r].expected
           /\ delete(old) /\ Goto(r, "move") /\ UNCHANGED <<inner, work>>
  <2>1. pc'[r] = "move" BY <1>0, <1>3 DEF Goto, Typed, TypeOK
  <2>2. store'[old] = NoRow /\ \A i \in Ids \ {old} : store'[i] = store[i]
        BY <1>0, <1>1, <1>3 DEF delete, Typed, TypeOK
  <2>3. ASSUME q.loaded # NoRow PROVE store[old] = q.loaded
    <3>1. store[old] # NoRow /\ store[old].revision = work[r].expected
          BY <1>3, <2>3 DEF existing
    <3>2. work[r].expected = q.loaded.revision
          BY <1>0, <2>3 DEF ShotInv, Carries, CarriesOK
    <3>3. CopyOK(store, loginOf, q) BY <1>0 DEF LoginInv, Holds, HoldsOK, Live
    <3>4. Known(store, old, q.loaded) BY <1>1, <2>3, <3>3 DEF CopyOK, row_id
    <3>5. store \in [Ids -> Data \cup {NoRow}] /\ q.loaded \in Data
          BY <1>0, <1>2, <2>3 DEF Typed, TypeOK
    <3> QED BY <1>1, <3>1, <3>2, <3>4, <3>5, SameRow
  <2>4. ASSUME NEW k \in Keys, NEW v \in Values, NextHand(r, k, v) PROVE Near(r, old, k, v)
    <3>1. q.data.custom[k] = v BY <1>3, <2>1, <2>4 DEF NextHand, Hand, Swapping
    <3>2. v # NoVal BY DataAssumption
    <3> QED BY <1>0, <1>1, <2>3, <3>1, <3>2, DataNear DEF Live
  <2>5. \A k, v : ~Rests(store', old, k, v) BY <2>2 DEF Rests
  <2>6. Passes(r, old) BY <1>0, <2>2, <2>4, <2>5 DEF Passes
  <2>7. DataFrom(q, r) BY <1>0 DEF ShotInv, Carries, CarriesOK, Live
  <2>8. CarriesOK(store', pc'[r], inner'[r], work'[r], r)
        BY <1>3, <2>1, <2>7 DEF CarriesOK, Swapping
  <2>9. TakesOwn(pc'[r], work'[r], r, call'[r].ops) BY <2>1 DEF TakesOwn, Swapping
  <2> QED BY <1>1, <2>6, <2>8, <2>9 DEF Shoots
<1>4. CASE (CycleGone(r) \/ Goto(r, "failclosed")) /\ UNCHANGED store
  <2>1. pc'[r] \in {"nocookie", "failclosed"} BY <1>0, <1>4 DEF CycleGone, Goto, Typed, TypeOK
  <2> QED BY <1>0, <1>1, <1>4, <2>1, LeavesShoots DEF Live, Handling, Swapping
<1>5. CASE CycleConflict(r) /\ UNCHANGED store
  <2>1. pc'[r] \in {"merge", "failclosed"} /\ UNCHANGED inner
        BY <1>0, <1>5 DEF CycleConflict, Goto, Typed, TypeOK
  <2>2. Part(q.data.custom, inner'[r].data.custom) BY <1>2, <2>1, Parts
  <2>3. CASE pc'[r] = "merge"
        BY <1>0, <1>1, <1>5, <2>1, <2>2, <2>3, DropsShoots DEF Live, Handling, Swapping
  <2>4. CASE pc'[r] = "failclosed"
        BY <1>0, <1>1, <1>5, <2>4, LeavesShoots DEF Live, Handling, Swapping
  <2> QED BY <2>1, <2>3, <2>4
<1> QED BY <1>3, <1>4, <1>5 DEF CycleRemove

-----------------------------------------------------------------------------
(* The invariant is inductive. *)

LEMMA RequestShoots ==
    ASSUME ForkInv, LoginInv, PlantInv, ShotInv, Typed', NEW r \in Requests,
           LoadNothing(r) \/ LoadRow(r) \/ Operate(r) \/ Serve(r)
    PROVE  \E j \in Ids : Shoots(r, j)
<1>0. Typed /\ Seed \in Ids BY DEF ForkInv, Ids
<1>1. CASE LoadNothing(r) \/ LoadRow(r) \/ Verdict(r) \/ EndRow(r) BY <1>0, <1>1, LoadingShoots
<1>2. CASE Operate(r) BY <1>0, <1>2, OperateShoots, SetCustomShoots, TakeShoots
<1>3. CASE Serve(r)
  <2>1. CASE Register(r) \/ Recheck(r)
    <3>1. ~Take(r) /\ ~SetCustom(r) BY <2>1 DEF Register, Recheck, Take, SetCustom, Handler
    <3> QED BY <1>0, <2>1, <3>1, OperateShoots
  <2>2. CASE SwapTry(r) \/ SwapLoad(r) \/ FinishHandler(r)
        BY <1>0, <2>2, SwapTryShoots, SwapLoadShoots, FinishHandlerShoots
  <2>3. CASE CycleMerge(r) \/ CycleRemove(r) \/ CycleSave(r)
        BY <1>0, <2>3, CycleMergeShoots, CycleRemoveShoots, CycleSaveShoots
  <2>4. CASE Touch(r) \/ SaveFresh(r) BY <2>4, TouchShoots, SaveFreshShoots
  <2>5. CASE \/ LiveOld(r) \/ RegisterNew(r) \/ RereadOld(r) \/ InvalidateOld(r)
             \/ LiveNew(r) \/ EndRevoked(r) \/ EndUntracked(r) \/ FailClosed(r)
        BY <1>0, <2>5, SettlingShoots
  <2> QED BY <1>1, <1>3, <2>1, <2>2, <2>3, <2>4, <2>5 DEF Serve
<1> QED BY <1>1, <1>2, <1>3

LEMMA NextShots ==
    ASSUME ForkInv, LoginInv, PlantInv, ShotInv, [Next]_vars PROVE ShotInv'
<1>0. Typed /\ Typed' BY NextTyped DEF ForkInv
<1>1. ASSUME NEW r \in Requests, LoadNothing(r) \/ LoadRow(r) \/ Operate(r) \/ Serve(r)
      PROVE  ShotInv'
  <2>1. Faithful(r) /\ call[r].ops \subseteq call'[r].ops
        BY <1>0, <1>1, RequestFaithful, OpsGrow
  <2>2. PICK j \in Ids : Shoots(r, j) BY <1>0, <1>1, RequestShoots
  <2> QED BY <1>0, <2>1, <2>2, ShotStep
<1>2. CASE Administer \/ Expire \/ UNCHANGED vars
  <2>1. /\ UNCHANGED <<pc, inner, work, call, got>>
        /\ \A i \in Ids : store'[i] = store[i] \/ store'[i] = NoRow
        BY <1>0, <1>2, OtherSteps
  <2>2. \A i \in Ids : \A k, v : Rests(store', i, k, v) => Rests(store, i, k, v) BY <2>1 DEF Rests
  <2>3. OnePlace' BY <2>1, <2>2 DEF ShotInv, OnePlace, Hands
  <2>4. GivenOnce' BY <2>1, <2>2 DEF ShotInv, GivenOnce, OneShot, Given, Hands
  <2>5. Carries'
    <3> SUFFICES ASSUME NEW s \in Requests
                 PROVE  CarriesOK(store', pc[s], inner[s], work[s], s)
        BY <2>1 DEF Carries
    <3>1. HoldsOK(store, loginOf, pc[s], inner[s], work[s]) BY DEF LoginInv, Holds
    <3>2. CarriesOK(store, pc[s], inner[s], work[s], s) BY DEF ShotInv, Carries
    <3>3. store \in [Ids -> Data \cup {NoRow}] /\ store' \in [Ids -> Data \cup {NoRow}]
          BY <1>0 DEF Typed, TypeOK
    <3>4. work[s] \in Work BY <1>0, RequestFields
    <3>5. pc[s] \in Live => row_id(inner[s]) \in Ids /\ Moved(store, store', row_id(inner[s]))
          BY <1>0, <2>1, ActiveFields DEF Moved, Live, Handling, Swapping
    <3> QED BY <3>1, <3>2, <3>3, <3>4, <3>5, CarriesMoved
  <2>6. TakesSet' BY <2>1 DEF ShotInv, TakesSet
  <2> QED BY <2>3, <2>4, <2>5, <2>6 DEF ShotInv
<1> QED BY <1>1, <1>2 DEF Next, AllServed

LEMMA InitShots == Init => ShotInv
<1> SUFFICES ASSUME Init PROVE ShotInv OBVIOUS
<1>1. PICK row \in SeedRows : store = [i \in Ids |-> IF i = Seed THEN row ELSE NoRow]
      BY DEF Init
<1>2. (\A r \in Requests : pc[r] = "idle") /\ got = {} BY DEF Init
<1>3. \A i \in Ids : store[i] # NoRow => i = Seed BY <1>1
<1>4. \A r \in Requests, k \in Keys, v \in Values : ~Hands(r, k, v)
      BY <1>2 DEF Hands, Hand, Live, Handling, Swapping
<1>5. OnePlace BY <1>3, <1>4 DEF OnePlace, Rests
<1>6. GivenOnce BY <1>2 DEF GivenOnce, OneShot
<1>7. Carries BY <1>2 DEF Carries, CarriesOK, Live, Handling, Swapping
<1>8. TakesSet BY <1>2 DEF TakesSet, Swapping
<1> QED BY <1>5, <1>6, <1>7, <1>8 DEF ShotInv

(* A value that was put in a session once is handed to one request at      *)
(* most: a taken value comes from the write that removed it from the row,  *)
(* whatever is retried, merged or rotated around it (consume_custom,       *)
(* swap_merging, cycle_if_revision).                                       *)
THEOREM HandedOnce == Spec => []OneShot
<1>1. Init => ForkInv /\ LoginInv /\ PlantInv /\ ShotInv
      BY InitForks, InitLogins, InitPlants, InitShots
<1>2. ForkInv /\ LoginInv /\ PlantInv /\ ShotInv /\ [Next]_vars
        => ForkInv' /\ LoginInv' /\ PlantInv' /\ ShotInv'
      BY NextForks, NextLogins, NextPlants, NextShots
<1>3. ShotInv => OneShot BY DEF ShotInv, GivenOnce
<1> QED BY <1>1, <1>2, <1>3, PTL DEF Spec

-----------------------------------------------------------------------------
(* Acknowledged writes, for a bag that the cap never empties.              *)
(*                                                                         *)
(* The argument, for request r and a key k that no other request touches   *)
(* while no login changes: what a request has under k is what it read, or  *)
(* r's own value, so that a write leaves in the row what the row has under *)
(* k or puts r's value there; and once r's value was stored, the one row   *)
(* of the session, or the request that moves it, has it.                   *)

(* No bag is over the cap. *)
Roomy == \A b \in Bag : cap_custom(b) = b

LEMMA RoomForAll ==
    ASSUME MaxKeys = 0 \/ Cardinality(Keys) <= MaxKeys PROVE Roomy
<1> SUFFICES ASSUME NEW b \in Bag PROVE cap_custom(b) = b BY DEF Roomy
<1> DEFINE S == {k \in Keys : b[k] # NoVal}
<1>1. S \in SUBSET Keys OBVIOUS
<1>2. cap_custom(b) = IF MaxKeys > 0 /\ Cardinality(S) > MaxKeys THEN EmptyBag ELSE b
      BY DEF cap_custom
<1> HIDE DEF S
<1>3. /\ Cardinality(S) <= Cardinality(Keys)
      /\ Cardinality(S) \in Nat /\ Cardinality(Keys) \in Nat
      BY <1>1, DataAssumption, FS_Subset, FS_CardinalityType
<1>4. ~(MaxKeys > 0 /\ Cardinality(S) > MaxKeys) BY <1>3, DataAssumption
<1> QED BY <1>2, <1>4

(* The cases AcknowledgedKept leaves out. *)
Touched(c, r, k) ==
    \E s \in Requests, op \in OpNames :
        \/ <<op, k>> \in c[s].ops /\ (s # r \/ op # "set")
        \/ <<op, NoKey>> \in c[s].ops /\ op # "regenerate"

HasSet(c, r, k) == <<"set", k>> \in c[r].ops

(* The value v of request s is what it read, u, or r's own. *)
ReadOrOwn(v, u, s, r) == v = u \/ (s = r /\ v = r)

(* A write that will succeed changes nothing else under k. *)
ExactSwap(st, q, w, s, r, k) ==
    LET x == row_id(q)
    IN  st[x] # NoRow /\ st[x].revision = w.expected =>
            ReadOrOwn(w.next.custom[k], st[x].custom[k], s, r)

ExactOK(st, p, q, w, s, r, k) ==
    /\ p \notin {"register", "recheck"}
    /\ p \in Live /\ q.loaded # NoRow =>
        q.data.auth = q.loaded.auth /\ ReadOrOwn(q.data.custom[k], q.loaded.custom[k], s, r)
    /\ p \in Swapping =>
        w.key # k /\ ReadOrOwn(w.local.custom[k], q.loaded.custom[k], s, r)
    /\ p = "swap" => ExactSwap(st, q, w, s, r, k)

(* Request r has its value in its session until it is answered, and in     *)
(* what it writes but for a removal from a row that does not have it.      *)
OwnOK(p, q, w, r, k) ==
    /\ p \notin {"idle", "verdict", "endrow", "touch"}
    /\ p \in Live => q.data.custom[k] = r /\ q.dirty # "clean"
    /\ p \in Swapping /\ (w.key = NoKey \/ q.pre_cycle_id = NoId \/ q.loaded.custom[k] = r) =>
        w.local.custom[k] = r /\ (p = "swap" => w.next.custom[k] = r)

(* The session of r is stored with what its handler did. *)
Answering == Settling \cup {"cookie"}

(* The value of r was stored. *)
Landed(p, q, r, k) ==
    p \in Answering \/ (p \in Live /\ q.loaded # NoRow /\ q.loaded.custom[k] = r)

LineHas(st, ln, p, q, l, r, k) ==
    /\ \A i \in Ids : st[i] # NoRow /\ ln[i] = l => st[i].custom[k] = r
    /\ \A s \in Requests : p[s] = "move" /\ ln[q[s].pre_cycle_id] = l => q[s].data.custom[k] = r

OwnKept(r, k) ==
    /\ OwnOK(pc[r], inner[r], work[r], r, k)
    /\ pc[r] \in Answering => line[inner[r].id] = line[row_id(inner[r])]
    /\ Landed(pc[r], inner[r], r, k) =>
        LineHas(store, line, pc, inner, line[row_id(inner[r])], r, k)

KeptOf(r, k) ==
    /\ \A s \in Requests : ExactOK(store, pc[s], inner[s], work[s], s, r, k)
    /\ HasSet(call, r, k) => OwnKept(r, k)

KeptInv == \A r \in Requests, k \in Keys : ~Touched(call, r, k) => KeptOf(r, k)

-----------------------------------------------------------------------------
(* A step of request s. *)

RowsKept(s, r, k) ==
    \A i \in Ids : store'[i] # NoRow =>
        \/ /\ store[i] # NoRow /\ line'[i] = line[i]
           /\ ReadOrOwn(store'[i].custom[k], store[i].custom[k], s, r)
        \/ /\ pc[s] = "move" /\ line'[i] = line[inner[s].pre_cycle_id]
           /\ store'[i].custom[k] = inner[s].data.custom[k]
        \/ pc[s] = "save" /\ i = inner[s].id /\ line'[i] = line[i]

MoveKept(s, r, k) ==
    pc'[s] = "move" =>
        /\ pc[s] = "remove" /\ inner'[s] = inner[s]
        /\ inner[s].loaded # NoRow =>
            /\ store[inner[s].pre_cycle_id] # NoRow
            /\ ReadOrOwn(inner[s].data.custom[k], store[inner[s].pre_cycle_id].custom[k], s, r)

LineKept(s) == \A i \in Ids : line'[i] = line[i] \/ (pc[s] = "move" /\ i = inner[s].id)

(* The value of r is stored now, in a row of its session. *)
LandsNow(r, k) ==
    \E i \in Ids : /\ store'[i] # NoRow /\ store'[i].custom[k] = r
                   /\ line'[i] = line'[row_id(inner'[r])]

OwnStep(r, k) ==
    HasSet(call', r, k) =>
        /\ OwnOK(pc'[r], inner'[r], work'[r], r, k)
        /\ pc'[r] \in Answering => line'[inner'[r].id] = line'[row_id(inner'[r])]
        /\ Landed(pc'[r], inner'[r], r, k) =>
            \/ LandsNow(r, k)
            \/ /\ HasSet(call, r, k) /\ Landed(pc[r], inner[r], r, k)
               /\ line'[row_id(inner'[r])] = line[row_id(inner[r])]

Retains(s, r, k) ==
    /\ ExactOK(store', pc'[s], inner'[s], work'[s], s, r, k)
    /\ RowsKept(s, r, k) /\ MoveKept(s, r, k) /\ LineKept(s)
    /\ s = r => OwnStep(r, k)

LEMMA ExactMoved ==
    ASSUME NEW st \in [Ids -> Data \cup {NoRow}], NEW ut \in [Ids -> Data \cup {NoRow}],
           NEW lo, NEW p, NEW q, NEW w \in Work, NEW s, NEW r, NEW k, HoldsOK(st, lo, p, q, w),
           p \in Live => row_id(q) \in Ids /\ Moved(st, ut, row_id(q)),
           ExactOK(st, p, q, w, s, r, k)
    PROVE  ExactOK(ut, p, q, w, s, r, k)
<1> DEFINE x == row_id(q)
<1>1. ASSUME p = "swap" PROVE ExactSwap(ut, q, w, s, r, k)
  <2>1. x \in Ids /\ Moved(st, ut, x) BY <1>1 DEF Live, Swapping
  <2>2. SwapReady(st, lo, q, w) /\ ExactSwap(st, q, w, s, r, k) BY <1>1 DEF HoldsOK, ExactOK
  <2>3. CASE ut[x] = st[x] BY <2>2, <2>3 DEF ExactSwap
  <2>4. CASE ut[x] = NoRow BY <2>4 DEF ExactSwap
  <2>5. CASE st[x] # NoRow /\ ut[x] # NoRow /\ ut[x].revision > st[x].revision
    <3>1. st[x].revision \in Nat /\ ut[x].revision \in Nat /\ w.expected \in Nat
          BY <2>1, <2>5, DataTypes, WorkFields
    <3>2. st[x].revision >= w.expected BY <2>2, <2>5 DEF SwapReady
    <3>3. ut[x].revision # w.expected BY <2>5, <3>1, <3>2
    <3> QED BY <3>3 DEF ExactSwap
  <2> QED BY <2>1, <2>3, <2>4, <2>5 DEF Moved
<1> QED BY <1>1 DEF ExactOK

(* The ids of a request are another's to move only when it made them. *)
LEMMA OthersLine ==
    ASSUME ForkInv, NEW s \in Requests, NEW t \in Requests \ {s}, LineKept(s),
           NEW y \in {inner[t].id, inner[t].pre_cycle_id, row_id(inner[t])}, y \in Ids
    PROVE  line'[y] = line[y]
<1>1. call[s].minted \in Nat /\ call[t].minted \in Nat /\ call[s].minted <= MaxMint
      BY MintedNat DEF ForkInv
<1>2. y \in issued \cup MintedBy(t, call[t].minted)
      BY NoIdFact DEF ForkInv, Origins, row_id
<1>3. ASSUME pc[s] = "move" PROVE y # inner[s].id
  <2>1. inner[s].pre_cycle_id # NoId
        BY <1>3, ActiveFields, NoIdFact DEF ForkInv, Cycling
  <2>2. inner[s].id \in MintedBy(s, call[s].minted) BY <2>1 DEF ForkInv, RotatesToOwn
  <2>3. inner[s].id \in MintedBy(s, MaxMint)
        BY <1>1, <2>2, Minting, LayerAssumption
  <2>4. inner[s].id \notin issued BY <1>3, <2>3 DEF ForkInv, NotSent, Finished
  <2> QED BY <1>1, <1>2, <2>2, <2>4, Apart
<1> QED BY <1>3 DEF LineKept

(* A session that was never stored has a line of its own. *)
LEMMA FreshLine ==
    ASSUME ForkInv, NEW s \in Requests, pc[s] \in {"save", "remove"}, inner[s].loaded = NoRow,
           NEW r \in Requests, row_id(inner[r]) \in Ids,
           line[row_id(inner[s])] = line[row_id(inner[r])]
    PROVE  r = s
<1>1. call[s].minted \in Nat /\ call[r].minted \in Nat BY MintedNat DEF ForkInv
<1>2. /\ row_id(inner[s]) \in MintedBy(s, call[s].minted)
      /\ Unused(store, issued, line, row_id(inner[s]))
      BY DEF ForkInv, Unstored, Before
<1>3. row_id(inner[s]) \in Ids BY ActiveFields DEF ForkInv
<1>4. row_id(inner[r]) = row_id(inner[s]) BY <1>2, <1>3 DEF Unused
<1>5. row_id(inner[r]) \in issued \cup MintedBy(r, call[r].minted)
      BY NoIdFact DEF ForkInv, Origins, row_id
<1>6. row_id(inner[s]) \notin issued BY <1>2 DEF Unused
<1> QED BY <1>1, <1>2, <1>4, <1>5, <1>6, Apart

(* The one row of a line, or the one request that moves it. *)
LEMMA OneHolder ==
    ASSUME NEW st, NEW ln, NEW p, NEW q, NEW l, NEW r, NEW k, NEW i \in Ids,
           st[i] # NoRow, ln[i] = l, st[i].custom[k] = r,
           \A x, y \in Ids : st[x] # NoRow /\ st[y] # NoRow /\ ln[x] = ln[y] => x = y,
           \A s \in Requests : p[s] = "move" =>
                \A x \in Ids : st[x] # NoRow => ln[x] # ln[q[s].pre_cycle_id]
    PROVE  LineHas(st, ln, p, q, l, r, k)
BY DEF LineHas


LEMMA TouchedStays ==
    ASSUME \A s \in Requests : call[s].ops \subseteq call'[s].ops, NEW r, NEW k, Touched(call, r, k)
    PROVE  Touched(call', r, k)
BY DEF Touched

(* What the line has, it keeps. *)
LEMMA LineStays ==
    ASSUME ForkInv, NEW s \in Requests, Alone(s), NEW r \in Requests, NEW k \in Keys,
           Retains(s, r, k), Landed(pc[r], inner[r], r, k), row_id(inner[r]) \in Ids,
           LineHas(store, line, pc, inner, line[row_id(inner[r])], r, k)
    PROVE  LineHas(store', line', pc', inner', line[row_id(inner[r])], r, k)
<1> DEFINE l == line[row_id(inner[r])]
<1>0. /\ \A i \in Ids : store[i] # NoRow /\ line[i] = l => store[i].custom[k] = r
      /\ \A t \in Requests : pc[t] = "move" /\ line[inner[t].pre_cycle_id] = l
                                => inner[t].data.custom[k] = r
      BY DEF LineHas
<1>f. ASSUME pc[s] \in {"save", "remove"}, inner[s].loaded = NoRow, line[row_id(inner[s])] = l
      PROVE  FALSE
  <2>1. r = s BY <1>f, FreshLine
  <2> QED BY <1>f, <2>1 DEF Landed, Answering, Settling
<1>1. ASSUME NEW i \in Ids, store'[i] # NoRow, line'[i] = l PROVE store'[i].custom[k] = r
  <2>1. CASE /\ store[i] # NoRow /\ line'[i] = line[i]
             /\ ReadOrOwn(store'[i].custom[k], store[i].custom[k], s, r)
        BY <1>0, <1>1, <2>1 DEF ReadOrOwn
  <2>2. CASE /\ pc[s] = "move" /\ line'[i] = line[inner[s].pre_cycle_id]
             /\ store'[i].custom[k] = inner[s].data.custom[k]
        BY <1>0, <1>1, <2>2
  <2>3. CASE pc[s] = "save" /\ i = inner[s].id /\ line'[i] = line[i]
    <3>1. inner[s].loaded = NoRow /\ row_id(inner[s]) = i
          BY <2>3, RequestFields DEF ForkInv, SavesFresh, LocalsOf, row_id
    <3> QED BY <1>1, <1>f, <2>3, <3>1
  <2> QED BY <1>1, <2>1, <2>2, <2>3 DEF Retains, RowsKept
<1>2. ASSUME NEW t \in Requests, pc'[t] = "move", line'[inner'[t].pre_cycle_id] = l
      PROVE  inner'[t].data.custom[k] = r
  <2>1. CASE t # s
    <3>1. pc[t] = "move" /\ inner'[t] = inner[t] BY <1>2, <2>1 DEF Alone
    <3>2. inner[t].pre_cycle_id \in Ids BY <3>1, ActiveFields DEF ForkInv, Cycling
    <3>3. line'[inner[t].pre_cycle_id] = line[inner[t].pre_cycle_id]
          BY <2>1, <3>2, OthersLine DEF Retains
    <3> QED BY <1>0, <1>2, <3>1, <3>3
  <2>2. CASE t = s
    <3>1. /\ pc[s] = "remove" /\ inner'[s] = inner[s]
          /\ inner[s].loaded # NoRow =>
                /\ store[inner[s].pre_cycle_id] # NoRow
                /\ ReadOrOwn(inner[s].data.custom[k],
                             store[inner[s].pre_cycle_id].custom[k], s, r)
          BY <1>2, <2>2 DEF Retains, MoveKept
    <3>2. inner[s].pre_cycle_id \in Ids /\ row_id(inner[s]) = inner[s].pre_cycle_id
          BY <3>1, ActiveFields, NoIdFact DEF ForkInv, Cycling, row_id
    <3>3. line[inner[s].pre_cycle_id] = l BY <1>2, <2>2, <3>1, <3>2 DEF Retains, LineKept
    <3>4. inner[s].loaded # NoRow BY <1>f, <3>1, <3>2, <3>3
    <3> QED BY <1>0, <2>2, <3>1, <3>2, <3>3, <3>4 DEF ReadOrOwn
  <2> QED BY <2>1, <2>2
<1> QED BY <1>1, <1>2 DEF LineHas

LEMMA RetainsStep ==
    ASSUME ForkInv, ForkInv', LoginInv, NEW s \in Requests, Faithful(s),
           NEW r \in Requests, NEW k \in Keys, KeptOf(r, k), Retains(s, r, k)
    PROVE  KeptOf(r, k)'
<1>0. Alone(s) BY DEF Faithful
<1>1. \A t \in Requests \ {s} : /\ pc'[t] = pc[t] /\ inner'[t] = inner[t]
                                /\ work'[t] = work[t] /\ call'[t] = call[t]
      BY <1>0 DEF Alone
<1>2. ASSUME NEW t \in Requests PROVE ExactOK(store', pc'[t], inner'[t], work'[t], t, r, k)
  <2>1. CASE t = s BY <2>1 DEF Retains
  <2>2. CASE t # s
    <3>1. HoldsOK(store, loginOf, pc[t], inner[t], work[t]) BY DEF LoginInv, Holds
    <3>2. ExactOK(store, pc[t], inner[t], work[t], t, r, k) BY DEF KeptOf
    <3>3. store \in [Ids -> Data \cup {NoRow}] /\ store' \in [Ids -> Data \cup {NoRow}]
          BY DEF ForkInv, Typed, TypeOK
    <3>4. work[t] \in Work BY RequestFields DEF ForkInv
    <3>5. pc[t] \in Live => row_id(inner[t]) \in Ids /\ Moved(store, store', row_id(inner[t]))
          BY <2>2, OthersMoved
    <3>6. ExactOK(store', pc[t], inner[t], work[t], t, r, k)
          BY <3>1, <3>2, <3>3, <3>4, <3>5, ExactMoved
    <3> QED BY <1>1, <2>2, <3>6
  <2> QED BY <2>1, <2>2
<1>3. ASSUME HasSet(call', r, k)
      PROVE  /\ OwnOK(pc'[r], inner'[r], work'[r], r, k)
             /\ pc'[r] \in Answering => line'[inner'[r].id] = line'[row_id(inner'[r])]
             /\ Landed(pc'[r], inner'[r], r, k) =>
                    \/ LandsNow(r, k)
                    \/ /\ HasSet(call, r, k) /\ Landed(pc[r], inner[r], r, k)
                       /\ line'[row_id(inner'[r])] = line[row_id(inner[r])]
  <2>1. CASE r = s BY <1>3, <2>1 DEF Retains, OwnStep
  <2>2. CASE r # s
    <3>1. /\ pc'[r] = pc[r] /\ inner'[r] = inner[r] /\ work'[r] = work[r]
          /\ HasSet(call, r, k)
          BY <1>1, <1>3, <2>2 DEF HasSet
    <3>2. OwnKept(r, k) BY <3>1 DEF KeptOf
    <3>3. pc[r] # "idle" BY <3>2 DEF OwnKept, OwnOK
    <3>4. inner[r].id \in Ids /\ row_id(inner[r]) \in Ids BY <3>3, ActiveFields DEF ForkInv
    <3>5. /\ line'[inner[r].id] = line[inner[r].id]
          /\ line'[row_id(inner[r])] = line[row_id(inner[r])]
          BY <2>2, <3>4, OthersLine DEF Retains
    <3> QED BY <3>1, <3>2, <3>5 DEF OwnKept
  <2> QED BY <2>1, <2>2
<1>4. ASSUME HasSet(call', r, k), Landed(pc'[r], inner'[r], r, k)
      PROVE  LineHas(store', line', pc', inner', line'[row_id(inner'[r])], r, k)
  <2>1. CASE LandsNow(r, k)
    <3>1. PICK i \in Ids : /\ store'[i] # NoRow /\ store'[i].custom[k] = r
                           /\ line'[i] = line'[row_id(inner'[r])]
          BY <2>1 DEF LandsNow
    <3>2. \A x, y \in Ids : store'[x] # NoRow /\ store'[y] # NoRow /\ line'[x] = line'[y] => x = y
          BY DEF ForkInv, NoFork
    <3>3. \A t \in Requests : pc'[t] = "move" =>
                \A x \in Ids : store'[x] # NoRow => line'[x] # line'[inner'[t].pre_cycle_id]
          BY DEF ForkInv, Vacated
    <3> QED BY <3>1, <3>2, <3>3, OneHolder
  <2>2. CASE /\ HasSet(call, r, k) /\ Landed(pc[r], inner[r], r, k)
             /\ line'[row_id(inner'[r])] = line[row_id(inner[r])]
    <3>1. OwnKept(r, k) BY <2>2 DEF KeptOf
    <3>2. pc[r] # "idle" BY <3>1 DEF OwnKept, OwnOK
    <3>3. row_id(inner[r]) \in Ids BY <3>2, ActiveFields DEF ForkInv
    <3>4. LineHas(store, line, pc, inner, line[row_id(inner[r])], r, k)
          BY <2>2, <3>1 DEF OwnKept
    <3> QED BY <1>0, <2>2, <3>3, <3>4, LineStays
  <2> QED BY <1>3, <1>4, <2>1, <2>2
<1>5. HasSet(call', r, k) => OwnKept(r, k)' BY <1>3, <1>4 DEF OwnKept
<1> QED BY <1>2, <1>5 DEF KeptOf

-----------------------------------------------------------------------------
(* Steps that write no row. *)

Quiet(s) ==
    /\ \A i \in Ids : store'[i] = store[i] \/ store'[i] = NoRow
    /\ UNCHANGED line /\ pc'[s] # "move"

LEMMA QuietRetains ==
    ASSUME NEW s \in Requests, NEW r \in Requests, NEW k \in Keys, Quiet(s),
           ExactOK(store', pc'[s], inner'[s], work'[s], s, r, k), s = r => OwnStep(r, k)
    PROVE  Retains(s, r, k)
<1>1. RowsKept(s, r, k) BY DEF RowsKept, Quiet, ReadOrOwn
<1>2. MoveKept(s, r, k) /\ LineKept(s) BY DEF MoveKept, LineKept, Quiet
<1> QED BY <1>1, <1>2 DEF Retains

(* A request that is done, without an answer that counts. *)
LEMMA LeavesRetains ==
    ASSUME NEW s \in Requests, NEW r \in Requests, NEW k \in Keys, Quiet(s),
           pc'[s] \in {"nocookie", "failclosed", "closed", "ended"}
    PROVE  Retains(s, r, k)
<1>1. pc'[s] \notin Live /\ pc'[s] \notin Answering
      BY DEF Live, Handling, Swapping, Answering, Settling
<1>2. ExactOK(store', pc'[s], inner'[s], work'[s], s, r, k)
      BY <1>1 DEF ExactOK, Live, Handling, Swapping
<1>3. ASSUME s = r PROVE OwnStep(r, k)
      BY <1>1, <1>3 DEF OwnStep, OwnOK, Landed, Live, Handling, Swapping
<1> QED BY <1>2, <1>3, QuietRetains


(* A request begins with nothing, or with what it read. *)
Begins(s) ==
    /\ pc'[s] = "handler" /\ call'[s].ops = call[s].ops
    /\ inner'[s].loaded # NoRow =>
        inner'[s].data.auth = inner'[s].loaded.auth /\ inner'[s].data.custom = inner'[s].loaded.custom

LEMMA FreshBegins ==
    ASSUME Typed, NEW s \in Requests, NEW c, NEW dirt, StartFresh(s, c, dirt) PROVE Begins(s)
<1> DEFINE f == IF Binding THEN c ELSE NoFp
           q == [NewInner EXCEPT !.id = Minted(s, 1), !.dirty = dirt, !.pending = f]
           m == call[s].minted + 1
           e == [client |-> c, ops |-> call[s].ops, minted |-> m]
<1>1. /\ inner' = [inner EXCEPT ![s] = q] /\ pc' = [pc EXCEPT ![s] = "handler"]
      /\ call' = [call EXCEPT ![s] = e]
      BY DEF StartFresh, SetInner, Goto
<1> HIDE DEF f, m
<1>2. q.loaded = NoRow /\ e.ops = call[s].ops BY DEF NewInner
<1> HIDE DEF q, e
<1>3. inner'[s] = q /\ pc'[s] = "handler" /\ call'[s] = e BY <1>1 DEF Typed, TypeOK
<1> QED BY <1>2, <1>3 DEF Begins

LEMMA TrustBegins ==
    ASSUME Typed, NEW s \in Requests, NEW c, NEW i, NEW row \in Data, Trust(s, c, i, row)
    PROVE  Begins(s)
<1> DEFINE fp == IF Binding THEN c ELSE NoFp
           data == check_binding(row, fp)
           t == IF data = row THEN "clean" ELSE "modified"
           e == IF data.fp = NoFp THEN fp ELSE NoFp
           q == [id |-> i, pre_cycle_id |-> NoId, data |-> data, dirty |-> t,
                 pending |-> e, loaded |-> row]
<1>1. CASE data = NoRow
  <2>1. StartFresh(s, c, "regenerate") BY <1>1 DEF Trust
  <2> QED BY <2>1, FreshBegins
<1>2. CASE data # NoRow
  <2>1. /\ inner' = [inner EXCEPT ![s] = q] /\ pc' = [pc EXCEPT ![s] = "handler"]
        /\ call' = [call EXCEPT ![s].client = c]
        BY <1>2 DEF Trust, SetInner, Goto
  <2>2. data.custom = row.custom /\ data.auth = row.auth BY <1>2, BindingFields
  <2> HIDE DEF data, t, e
  <2>3. q.data = data /\ q.loaded = row OBVIOUS
  <2> HIDE DEF q
  <2>4. call[s] \in Call BY RequestFields
  <2>5. call'[s].ops = call[s].ops BY <2>1, <2>4 DEF Typed, TypeOK, Call
  <2>6. inner'[s] = q /\ pc'[s] = "handler" BY <2>1 DEF Typed, TypeOK
  <2> QED BY <2>2, <2>3, <2>5, <2>6 DEF Begins
<1> QED BY <1>1, <1>2

LEMMA LoadingRetains ==
    ASSUME Typed, NEW s \in Requests, NEW r \in Requests, NEW k \in Keys, KeptOf(r, k),
           LoadNothing(s) \/ LoadRow(s) \/ Verdict(s) \/ EndRow(s)
    PROVE  Retains(s, r, k)
<1>0. pc[s] \in {"idle", "verdict", "endrow"} /\ UNCHANGED line
      BY DEF LoadNothing, LoadRow, Verdict, EndRow, history
<1>1. \A i \in Ids : store'[i] = store[i] \/ store'[i] = NoRow
      BY DEF LoadNothing, LoadRow, Verdict, EndRow, try_delete, delete, shared, Typed, TypeOK
<1>2. Begins(s) \/ (pc'[s] \in {"verdict", "endrow"} /\ call'[s].ops = call[s].ops)
  <2>1. CASE LoadNothing(s) BY <2>1, FreshBegins DEF LoadNothing
  <2>2. CASE LoadRow(s)
    <3>1. PICK c \in Clients, i \in issued :
            /\ store[i] # NoRow
            /\ IF is_authenticated(store[i].auth)
               THEN Goto(s, "verdict") /\ call' = [call EXCEPT ![s].client = c]
               ELSE Trust(s, c, i, store[i])
          BY <2>2 DEF LoadRow
    <3>2. i \in Ids /\ store[i] \in Data /\ call[s] \in Call
          BY <3>1, RowField, RequestFields DEF Typed, TypeOK
    <3>3. CASE is_authenticated(store[i].auth)
          BY <3>1, <3>2, <3>3 DEF Goto, Typed, TypeOK, Call
    <3>4. CASE ~is_authenticated(store[i].auth) BY <3>1, <3>2, <3>4, TrustBegins
    <3> QED BY <3>3, <3>4
  <2>3. CASE Verdict(s)
    <3>1. inner[s].data \in Data BY RequestFields, InnerFields
    <3>2. CASE Trust(s, call[s].client, inner[s].id, inner[s].data) BY <3>1, <3>2, TrustBegins
    <3>3. CASE StartFresh(s, call[s].client, "clean") BY <3>3, FreshBegins
    <3>4. CASE Goto(s, "endrow") /\ UNCHANGED call BY <3>4 DEF Goto, Typed, TypeOK
    <3> QED BY <2>3, <3>2, <3>3, <3>4 DEF Verdict
  <2>4. CASE EndRow(s) BY <2>4, FreshBegins DEF EndRow
  <2> QED BY <2>1, <2>2, <2>3, <2>4
<1>3. Quiet(s) BY <1>0, <1>1, <1>2 DEF Quiet, Begins
<1>4. ExactOK(store', pc'[s], inner'[s], work'[s], s, r, k)
      BY <1>2 DEF ExactOK, Begins, ReadOrOwn, Live, Handling, Swapping
<1>5. ASSUME s = r PROVE OwnStep(r, k)
  <2>1. HasSet(call', r, k) => HasSet(call, r, k) BY <1>2, <1>5 DEF Begins, HasSet
  <2>2. ~HasSet(call, r, k) BY <1>0, <1>5 DEF KeptOf, OwnKept, OwnOK
  <2> QED BY <2>1, <2>2 DEF OwnStep
<1> QED BY <1>3, <1>4, <1>5, QuietRetains

LEMMA SettlingRetains ==
    ASSUME Typed, NEW s \in Requests, NEW r \in Requests, NEW k \in Keys, KeptOf(r, k),
           \/ LiveOld(s) \/ RegisterNew(s) \/ RereadOld(s) \/ InvalidateOld(s)
           \/ LiveNew(s) \/ EndRevoked(s) \/ EndUntracked(s) \/ FailClosed(s)
    PROVE  Retains(s, r, k)
<1>1. \A i \in Ids : store'[i] = store[i] \/ store'[i] = NoRow
      BY DEF LiveOld, RegisterNew, RereadOld, InvalidateOld, LiveNew, EndRevoked,
             EndUntracked, FailClosed, shared, try_delete, delete, Typed, TypeOK
<1>2. UNCHANGED <<line, work, call>>
      BY DEF LiveOld, RegisterNew, RereadOld, InvalidateOld, LiveNew, EndRevoked, FailClosed,
             EndUntracked, history
<1>3. CASE FailClosed(s)
  <2>1. pc'[s] = "closed" BY <1>3 DEF FailClosed, Goto, Typed, TypeOK
  <2> QED BY <1>1, <1>2, <2>1, LeavesRetains DEF Quiet
<1>4. CASE ~FailClosed(s)
  <2>1. pc[s] \in Settling /\ UNCHANGED inner
        BY <1>4 DEF LiveOld, RegisterNew, RereadOld, InvalidateOld, LiveNew, EndRevoked,
               EndUntracked, Settling
  <2>2. pc'[s] \in Settling \cup {"cookie", "ended"}
        BY <1>4 DEF LiveOld, RegisterNew, RereadOld, InvalidateOld, LiveNew, EndRevoked,
               EndUntracked, OnUntracked, SendCookie, Goto, Settling, Typed, TypeOK
  <2>3. pc'[s] \notin Live /\ Quiet(s)
        BY <1>1, <1>2, <2>2 DEF Quiet, Settling, Live, Handling, Swapping
  <2>4. ExactOK(store', pc'[s], inner'[s], work'[s], s, r, k)
        BY <2>2, <2>3 DEF ExactOK, Live, Swapping, Settling
  <2>5. ASSUME s = r PROVE OwnStep(r, k)
    <3> SUFFICES ASSUME HasSet(call', r, k)
                 PROVE  /\ OwnOK(pc'[r], inner'[r], work'[r], r, k)
                        /\ line'[inner'[r].id] = line'[row_id(inner'[r])]
                        /\ HasSet(call, r, k) /\ Landed(pc[r], inner[r], r, k)
                        /\ line'[row_id(inner'[r])] = line[row_id(inner[r])]
        BY DEF OwnStep
    <3>1. HasSet(call, r, k) BY <1>2 DEF HasSet
    <3>2. OwnKept(r, k) BY <3>1 DEF KeptOf
    <3>3. OwnOK(pc'[r], inner'[r], work'[r], r, k)
          BY <2>2, <2>3, <2>5 DEF OwnOK, Settling, Live, Handling, Swapping
    <3>4. pc[r] \in Answering BY <2>1, <2>5 DEF Answering
    <3> QED BY <1>2, <2>1, <3>1, <3>2, <3>3, <3>4 DEF OwnKept, Landed
  <2> QED BY <2>3, <2>4, <2>5, QuietRetains
<1> QED BY <1>3, <1>4


-----------------------------------------------------------------------------
(* The handler's operations. *)

LEMMA CalledOps ==
    ASSUME Typed, NEW s \in Requests, NEW op, NEW j, NEW n, Called(s, op, j, n)
    PROVE  call'[s].ops = call[s].ops \cup {<<op, j>>}
<1> DEFINE o == call[s].ops \cup {<<op, j>>}
           m == call[s].minted + n
           e == [client |-> call[s].client, ops |-> o, minted |-> m]
<1>1. call' = [call EXCEPT ![s] = e] BY DEF Called
<1> HIDE DEF o, m
<1>2. e.ops = o OBVIOUS
<1> HIDE DEF e
<1>3. call'[s] = e BY <1>1 DEF Typed, TypeOK
<1> QED BY <1>2, <1>3 DEF o

(* An operation on the whole session touches every key. *)
LEMMA OperateTouches ==
    ASSUME Typed, NEW s \in Requests, NEW r \in Requests, NEW k \in Keys, Operate(s),
           ~Touched(call', r, k)
    PROVE  SetCustom(s) \/ RemoveCustom(s) \/ Take(s) \/ Regenerate(s)
<1>1. ASSUME NEW op \in OpNames \ {"regenerate"}, NEW n, Called(s, op, NoKey, n) PROVE FALSE
  <2>1. <<op, NoKey>> \in call'[s].ops BY <1>1, CalledOps
  <2> QED BY <1>1, <2>1 DEF Touched
<1>2. \A op \in {"clear_custom", "begin", "factor", "oauth", "step_up", "impersonate", "logout"} :
        op \in OpNames \ {"regenerate"}
      BY DEF OpNames
<1>3. ~ClearCustom(s) /\ ~BeginLogin(s) /\ ~CompleteFactor(s) /\ ~OAuthLogin(s)
      BY <1>1, <1>2 DEF ClearCustom, BeginLogin, CompleteFactor, OAuthLogin
<1>4. ~StepUp(s) /\ ~Impersonate(s) /\ ~Logout(s)
      BY <1>1, <1>2 DEF StepUp, Impersonate, Logout
<1> QED BY <1>3, <1>4 DEF Operate

(* The key an operation is about. *)
LEMMA KeyTouched ==
    ASSUME Typed, NEW s \in Requests, NEW r \in Requests, NEW k \in Keys, NEW j \in Keys,
           NEW op \in OpNames, NEW n, Called(s, op, j, n), ~Touched(call', r, k)
    PROVE  /\ j = k => s = r /\ op = "set"
           /\ s = r /\ HasSet(call', r, k) => HasSet(call, r, k) \/ (op = "set" /\ j = k)
<1>1. call'[s].ops = call[s].ops \cup {<<op, j>>} BY CalledOps
<1>2. j = k => s = r /\ op = "set" BY <1>1 DEF Touched
<1>3. s = r /\ HasSet(call', r, k) => HasSet(call, r, k) \/ (op = "set" /\ j = k)
      BY <1>1 DEF HasSet
<1> QED BY <1>2, <1>3

LEMMA EditRetains ==
    ASSUME PlantInv, NEW s \in Requests, NEW r \in Requests, NEW k \in Keys, KeptOf(r, k),
           pc[s] = "handler", pc'[s] = "handler", UNCHANGED <<store, line>>,
           inner'[s].loaded = inner[s].loaded, inner'[s].data.auth = inner[s].data.auth,
           row_id(inner'[s]) = row_id(inner[s]), inner'[s].dirty # "clean",
           ReadOrOwn(inner'[s].data.custom[k], inner[s].data.custom[k], s, r),
           s = r /\ HasSet(call', r, k) =>
                HasSet(call, r, k) \/ inner'[s].data.custom[k] = r
    PROVE  Retains(s, r, k)
<1>1. Quiet(s) BY DEF Quiet
<1>2. ExactOK(store, pc[s], inner[s], work[s], s, r, k) BY DEF KeptOf
<1>3. ExactOK(store', pc'[s], inner'[s], work'[s], s, r, k)
      BY <1>2 DEF ExactOK, ReadOrOwn, Live, Handling, Swapping
<1>4. ASSUME s = r, HasSet(call', r, k)
      PROVE  /\ OwnOK(pc'[r], inner'[r], work'[r], r, k)
             /\ pc'[r] \notin Answering
             /\ Landed(pc'[r], inner'[r], r, k) =>
                  /\ HasSet(call, r, k) /\ Landed(pc[r], inner[r], r, k)
                  /\ line'[row_id(inner'[r])] = line[row_id(inner[r])]
  <2>1. HasSet(call, r, k) => inner[r].data.custom[k] = r
        BY <1>4 DEF KeptOf, OwnKept, OwnOK, Live, Handling
  <2>2. inner'[r].data.custom[k] = r BY <1>4, <2>1 DEF ReadOrOwn
  <2>3. OwnOK(pc'[r], inner'[r], work'[r], r, k)
        BY <1>4, <2>2 DEF OwnOK, Swapping
  <2>4. pc'[r] \notin Answering /\ pc'[r] \in Live /\ pc[r] \in Live
        BY <1>4 DEF Answering, Settling, Live, Handling
  <2>5. ASSUME Landed(pc'[r], inner'[r], r, k)
        PROVE  HasSet(call, r, k) /\ Landed(pc[r], inner[r], r, k)
    <3>1. inner[r].loaded # NoRow /\ inner[r].loaded.custom[k] = r
          BY <1>4, <2>4, <2>5 DEF Landed
    <3>2. InHands(inner[r], work[r], k, r) BY <3>1 DEF InHands
    <3>3. HasSet(call, r, k) BY <3>2 DEF PlantInv, Authors, HasSet
    <3> QED BY <2>4, <3>1, <3>3 DEF Landed
  <2> QED BY <1>4, <2>3, <2>4, <2>5
<1>5. s = r => OwnStep(r, k) BY <1>4 DEF OwnStep
<1> QED BY <1>1, <1>3, <1>5, QuietRetains

LEMMA SetCustomRetains ==
    ASSUME Typed, PlantInv, Roomy, NEW s \in Requests, NEW r \in Requests, NEW k \in Keys,
           KeptOf(r, k), ~Touched(call', r, k), SetCustom(s)
    PROVE  Retains(s, r, k)
<1> DEFINE q == inner[s]
<1>0. pc[s] = "handler" /\ UNCHANGED <<store, pc, work, line>>
      BY DEF SetCustom, Handler, shared
<1>1. PICK j \in Keys :
        LET bag == [q.data.custom EXCEPT ![j] = s]
        IN  /\ Called(s, "set", j, 0)
            /\ cap_custom(bag) = bag => SetInner(s, with_custom(q, bag))
      BY DEF SetCustom
<1> DEFINE bag == [q.data.custom EXCEPT ![j] = s]
<1>2. q \in Inner /\ q.data.custom \in Bag BY <1>0, HandlerFields
<1>3. cap_custom(bag) = bag
  <2>1. bag \in Bag BY <1>2, LayerAssumption DEF Bag
  <2> HIDE DEF bag
  <2> QED BY <2>1 DEF Roomy
<1>4. inner' = [inner EXCEPT ![s] = with_custom(q, bag)] BY <1>1, <1>3 DEF SetInner
<1>5. bag \in Bag /\ bag[j] = s /\ \A i \in Keys \ {j} : bag[i] = q.data.custom[i]
      BY <1>2, LayerAssumption DEF Bag
<1> HIDE DEF bag
<1>6. inner'[s] = with_custom(q, bag) BY <1>4 DEF Typed, TypeOK
<1>7. /\ inner'[s].data.custom = bag /\ inner'[s].loaded = q.loaded
      /\ inner'[s].dirty # "clean" /\ row_id(inner'[s]) = row_id(q)
      BY <1>2, <1>5, <1>6, WithCustomFields DEF Edits, row_id
<1>8. inner'[s].data.auth = q.data.auth BY <1>2, <1>6, InnerFields DEF with_custom, Inner, Data
<1>9. /\ j = k => s = r
      /\ s = r /\ HasSet(call', r, k) => HasSet(call, r, k) \/ j = k
      BY <1>1, KeyTouched DEF OpNames
<1>10. ReadOrOwn(inner'[s].data.custom[k], q.data.custom[k], s, r)
       BY <1>5, <1>7, <1>9 DEF ReadOrOwn
<1>11. s = r /\ HasSet(call', r, k) => HasSet(call, r, k) \/ inner'[s].data.custom[k] = r
       BY <1>5, <1>7, <1>9
<1> QED BY <1>0, <1>7, <1>8, <1>10, <1>11, EditRetains

LEMMA RemoveCustomRetains ==
    ASSUME Typed, PlantInv, NEW s \in Requests, NEW r \in Requests, NEW k \in Keys,
           KeptOf(r, k), ~Touched(call', r, k), RemoveCustom(s)
    PROVE  Retains(s, r, k)
<1> DEFINE q == inner[s]
<1>0. pc[s] = "handler" /\ UNCHANGED <<store, pc, work, line>>
      BY DEF RemoveCustom, Handler, shared, history
<1>1. PICK j \in Keys : /\ Called(s, "remove", j, 0)
                        /\ SetInner(s, with_custom(q, [q.data.custom EXCEPT ![j] = NoVal]))
      BY DEF RemoveCustom
<1> DEFINE bag == [q.data.custom EXCEPT ![j] = NoVal]
<1>2. q \in Inner /\ q.data.custom \in Bag BY <1>0, HandlerFields
<1>4. inner' = [inner EXCEPT ![s] = with_custom(q, bag)] BY <1>1 DEF SetInner
<1>5. bag \in Bag /\ \A i \in Keys \ {j} : bag[i] = q.data.custom[i]
      BY <1>2 DEF Bag
<1> HIDE DEF bag
<1>6. inner'[s] = with_custom(q, bag) BY <1>4 DEF Typed, TypeOK
<1>7. /\ inner'[s].data.custom = bag /\ inner'[s].loaded = q.loaded
      /\ inner'[s].dirty # "clean" /\ row_id(inner'[s]) = row_id(q)
      BY <1>2, <1>5, <1>6, WithCustomFields DEF Edits, row_id
<1>8. inner'[s].data.auth = q.data.auth BY <1>2, <1>6, InnerFields DEF with_custom, Inner, Data
<1>9. j # k /\ (s = r /\ HasSet(call', r, k) => HasSet(call, r, k))
      BY <1>1, KeyTouched DEF OpNames
<1>10. ReadOrOwn(inner'[s].data.custom[k], q.data.custom[k], s, r)
       BY <1>5, <1>7, <1>9 DEF ReadOrOwn
<1> QED BY <1>0, <1>7, <1>8, <1>9, <1>10, EditRetains

LEMMA RegenerateRetains ==
    ASSUME Typed, PlantInv, NEW s \in Requests, NEW r \in Requests, NEW k \in Keys,
           KeptOf(r, k), Regenerate(s)
    PROVE  Retains(s, r, k)
<1> DEFINE q == inner[s]
           p == rotate_id(q, Minted(s, 1))
<1>0. /\ pc[s] = "handler" /\ UNCHANGED <<store, pc, work, line>> /\ CanMint(s, 1)
      /\ Called(s, "regenerate", NoKey, 1) /\ SetInner(s, p)
      BY DEF Regenerate, Rotated, Handler, shared
<1>1. q \in Inner /\ q.id \in Ids /\ Minted(s, 1) \in Ids BY <1>0, HandlerFields, MintType
<1>2. /\ p.pre_cycle_id = (IF q.pre_cycle_id = NoId THEN q.id ELSE q.pre_cycle_id)
      /\ p.loaded = q.loaded /\ p.data = q.data /\ p.dirty = "regenerate"
      BY <1>1, RotateType
<1> HIDE DEF p
<1>3. inner'[s] = p BY <1>0 DEF SetInner, Typed, TypeOK
<1>4. row_id(p) = row_id(q) BY <1>1, <1>2, NoIdFact DEF row_id
<1>5. HasSet(call', r, k) /\ s = r => HasSet(call, r, k)
      BY <1>0, CalledOps, LayerAssumption DEF HasSet
<1>6. ReadOrOwn(inner'[s].data.custom[k], q.data.custom[k], s, r)
      BY <1>2, <1>3 DEF ReadOrOwn
<1> QED BY <1>0, <1>2, <1>3, <1>4, <1>5, <1>6, EditRetains


LEMMA StoredSame ==
    ASSUME Roomy, NEW d \in Data, NEW n \in Nat
    PROVE  Stored(d, n).custom = d.custom /\ Stored(d, n).auth = d.auth
<1>1. d.custom \in Bag BY DataTypes
<1>2. cap_custom(d.custom) = d.custom BY <1>1 DEF Roomy
<1> QED BY <1>2, StoredFields

(* The first write of what a request has. *)
LEMMA FirstExact ==
    ASSUME NEW st \in [Ids -> Data \cup {NoRow}], NEW q, NEW w, NEW s, NEW r, NEW k,
           q.loaded \in Data, row_id(q) \in Ids, Known(st, row_id(q), q.loaded),
           w.expected = q.loaded.revision, w.next.custom[k] = w.local.custom[k],
           ReadOrOwn(w.local.custom[k], q.loaded.custom[k], s, r)
    PROVE  ExactSwap(st, q, w, s, r, k)
BY SameRow DEF ExactSwap

LEMMA TakeRetains ==
    ASSUME ForkInv, LoginInv, PlantInv, Roomy, NEW s \in Requests, NEW r \in Requests,
           NEW k \in Keys, KeptOf(r, k), ~Touched(call', r, k), Take(s)
    PROVE  Retains(s, r, k)
<1> DEFINE q == inner[s]
<1>0. Typed /\ pc[s] = "handler" /\ UNCHANGED <<store, line>>
      BY DEF ForkInv, Take, Handler, shared
<1>1. PICK j \in Keys :
        /\ Called(s, "take", j, 0)
        /\ SetInner(s, with_custom(q, without(q.data, j).custom))
        /\ \/ /\ q.loaded # NoRow
              /\ SetWork(s, first_attempt(j, q.data.custom[j], take_local(q, j),
                                          take_local(q, j).revision))
              /\ Goto(s, "swap")
           \/ UNCHANGED <<pc, work>>
      BY DEF Take
<1> DEFINE b == without(q.data, j).custom
           v == q.data.custom[j]
<1>2. /\ q \in Inner /\ q.data \in Data /\ q.data.custom \in Bag /\ q.loaded \in Data \cup {NoRow}
      BY <1>0, HandlerFields, InnerFields
<1>3. b \in Bag /\ b = [q.data.custom EXCEPT ![j] = NoVal]
  <2>1. b = [q.data.custom EXCEPT ![j] = NoVal] BY <1>2, WithoutFields
  <2>2. [q.data.custom EXCEPT ![j] = NoVal] \in Bag BY <1>2 DEF Bag
  <2> HIDE DEF b
  <2> QED BY <2>1, <2>2
<1>4. inner'[s] = with_custom(q, b) BY <1>0, <1>1 DEF SetInner, Typed, TypeOK
<1>5. \A i \in Keys \ {j} : b[i] = q.data.custom[i] BY <1>2, <1>3 DEF Bag
<1> HIDE DEF b
<1>6. /\ inner'[s].data.custom = b /\ inner'[s].loaded = q.loaded
      /\ inner'[s].dirty # "clean" /\ row_id(inner'[s]) = row_id(q)
      /\ inner'[s].pre_cycle_id = q.pre_cycle_id
      BY <1>2, <1>3, <1>4, WithCustomFields DEF Edits, row_id
<1>7. inner'[s].data.auth = q.data.auth BY <1>2, <1>4, InnerFields DEF with_custom, Inner, Data
<1>8. j # k /\ (s = r /\ HasSet(call', r, k) => HasSet(call, r, k))
      BY <1>0, <1>1, KeyTouched DEF OpNames
<1>9. b[k] = q.data.custom[k] BY <1>5, <1>8
<1>10. CASE UNCHANGED <<pc, work>>
  <2>1. ReadOrOwn(inner'[s].data.custom[k], q.data.custom[k], s, r) BY <1>6, <1>9 DEF ReadOrOwn
  <2> QED BY <1>0, <1>6, <1>7, <1>8, <1>10, <2>1, EditRetains
<1>11. CASE /\ q.loaded # NoRow /\ Goto(s, "swap")
            /\ SetWork(s, first_attempt(j, v, take_local(q, j), take_local(q, j).revision))
  <2> DEFINE o == IF q.pre_cycle_id = NoId THEN q.data ELSE q.loaded
             d == take_local(q, j)
             w == first_attempt(j, v, d, d.revision)
  <2>1. q.loaded \in Data /\ o \in Data /\ o.custom \in Bag BY <1>2, <1>11, DataTypes
  <2>2. d = without(o, j) BY DEF take_local
  <2>3. d \in Data /\ d.revision = o.revision /\ d.custom = [o.custom EXCEPT ![j] = NoVal]
    <3>1. /\ without(o, j) \in Data /\ without(o, j).revision = o.revision
          /\ without(o, j).custom = [o.custom EXCEPT ![j] = NoVal]
          BY <2>1, WithoutFields
    <3> HIDE DEF o, d
    <3> QED BY <2>2, <3>1
  <2>4. CopyOK(store, loginOf, q) /\ Unrotated(q)
        BY <1>0 DEF LoginInv, Holds, HoldsOK, Live, Handling
  <2>5. o.revision = q.loaded.revision BY <1>11, <2>4 DEF Unrotated
  <2>6. /\ q.pre_cycle_id = NoId => o = q.data
        /\ q.pre_cycle_id # NoId => o = q.loaded
        OBVIOUS
  <2> HIDE DEF o
  <2>7. d.custom[k] = o.custom[k] BY <1>8, <2>1, <2>3 DEF Bag
  <2> HIDE DEF d
  <2>a. d.revision \in Nat BY <2>3, DataTypes
  <2>8. d.revision + 1 \in Nat BY <2>a
  <2>9. /\ w.local = d /\ w.expected = d.revision /\ w.key = j
        /\ w.next = Stored(d, d.revision + 1)
        BY <2>3, <2>a, AttemptFields
  <2>10. w.next.custom = d.custom BY <2>3, <2>8, <2>9, StoredSame
  <2>11. work' = [work EXCEPT ![s] = w] BY <1>11 DEF SetWork, d
  <2> HIDE DEF w
  <2>12. work'[s] = w /\ pc'[s] = "swap" BY <1>0, <1>11, <2>11 DEF Goto, Typed, TypeOK
  <2>13. Quiet(s) BY <1>0, <2>12 DEF Quiet
  <2>14. q.data.auth = q.loaded.auth /\ ReadOrOwn(q.data.custom[k], q.loaded.custom[k], s, r)
         BY <1>0, <1>11 DEF KeptOf, ExactOK, Live, Handling
  <2>15. ReadOrOwn(w.local.custom[k], q.loaded.custom[k], s, r)
         BY <2>6, <2>7, <2>9, <2>14 DEF ReadOrOwn
  <2>16. ExactSwap(store', inner'[s], w, s, r, k)
    <3>1. store \in [Ids -> Data \cup {NoRow}] BY <1>0 DEF Typed, TypeOK
    <3>2. Known(store, row_id(q), q.loaded) /\ row_id(q) \in Ids
          BY <1>0, <1>11, <2>4, OwnIds DEF CopyOK
    <3>3. /\ row_id(inner'[s]) \in Ids /\ inner'[s].loaded \in Data
          /\ Known(store, row_id(inner'[s]), inner'[s].loaded)
          /\ w.expected = inner'[s].loaded.revision
          BY <1>6, <2>1, <2>3, <2>5, <2>9, <3>2
    <3>4. ReadOrOwn(w.local.custom[k], inner'[s].loaded.custom[k], s, r) BY <1>6, <2>15
    <3> QED BY <1>0, <2>9, <2>10, <3>1, <3>3, <3>4, FirstExact
  <2>17. ExactOK(store', pc'[s], inner'[s], work'[s], s, r, k)
         BY <1>6, <1>7, <1>8, <1>9, <2>9, <2>12, <2>14, <2>15, <2>16 DEF ExactOK
  <2>18. ASSUME s = r, HasSet(call', r, k)
         PROVE  /\ OwnOK(pc'[r], inner'[r], work'[r], r, k)
                /\ pc'[r] \notin Answering
                /\ Landed(pc'[r], inner'[r], r, k) =>
                     /\ HasSet(call, r, k) /\ Landed(pc[r], inner[r], r, k)
                     /\ line'[row_id(inner'[r])] = line[row_id(inner[r])]
    <3>1. HasSet(call, r, k) /\ q.data.custom[k] = r
          BY <1>0, <1>8, <2>18 DEF KeptOf, OwnKept, OwnOK, Live, Handling
    <3>2. w.key # NoKey BY <2>9, LayerAssumption
    <3>3. q.pre_cycle_id = NoId \/ q.loaded.custom[k] = r => d.custom[k] = r
          BY <2>6, <2>7, <3>1
    <3>4. OwnOK(pc'[r], inner'[r], work'[r], r, k)
          BY <1>6, <1>9, <2>9, <2>10, <2>12, <2>18, <3>1, <3>2, <3>3 DEF OwnOK
    <3>5. pc[r] \in Live /\ pc'[r] \notin Answering
          BY <1>0, <2>12, <2>18 DEF Live, Handling, Answering, Settling
    <3> QED BY <1>0, <1>6, <2>18, <3>1, <3>4, <3>5 DEF Landed
  <2>19. s = r => OwnStep(r, k) BY <2>18 DEF OwnStep
  <2> QED BY <2>13, <2>17, <2>19, QuietRetains
<1> QED BY <1>1, <1>10, <1>11

-----------------------------------------------------------------------------
(* The compare-and-swap. *)

LEMMA SwapEndsRetains ==
    ASSUME Typed, NEW s \in Requests, NEW r \in Requests, NEW k \in Keys, KeptOf(r, k),
           pc[s] \in Swapping \cup {"touch"}, pc[s] = "touch" => work[s].key = NoKey,
           SwapGone(s) \/ SwapFailed(s), UNCHANGED <<store, line, work, call>>
    PROVE  Retains(s, r, k)
<1>1. CASE work[s].key = NoKey
  <2>1. pc'[s] = "nocookie" BY <1>1 DEF SwapGone, SwapFailed, Goto, Typed, TypeOK
  <2> QED BY <2>1, LeavesRetains DEF Quiet
<1>2. CASE work[s].key # NoKey
  <2>1. pc'[s] = "handler" /\ inner'[s] = inner[s]
        BY <1>2 DEF SwapGone, SwapFailed, Goto, Typed, TypeOK
  <2>2. Quiet(s) BY <2>1 DEF Quiet
  <2>3. pc[s] \in Live /\ pc'[s] \in Live \ Answering
        BY <2>1 DEF Live, Handling, Swapping, Answering, Settling
  <2>4. ExactOK(store', pc'[s], inner'[s], work'[s], s, r, k)
        BY <2>1, <2>3 DEF KeptOf, ExactOK, Swapping
  <2>5. ASSUME s = r, HasSet(call', r, k)
        PROVE  /\ OwnOK(pc'[r], inner'[r], work'[r], r, k)
               /\ HasSet(call, r, k)
               /\ line'[row_id(inner'[r])] = line[row_id(inner[r])]
    <3>1. HasSet(call, r, k) BY <2>5 DEF HasSet
    <3> QED BY <2>1, <2>3, <2>5, <3>1 DEF KeptOf, OwnKept, OwnOK, Swapping
  <2>6. s = r => OwnStep(r, k) BY <2>1, <2>3, <2>5 DEF OwnStep, Landed
  <2> QED BY <2>2, <2>4, <2>6, QuietRetains
<1> QED BY <1>1, <1>2

LEMMA SwapWrittenRetains ==
    ASSUME ForkInv, NEW s \in Requests, NEW r \in Requests, NEW k \in Keys, KeptOf(r, k),
           pc[s] = "swap", store[row_id(inner[s])] # NoRow,
           store[row_id(inner[s])].revision = work[s].expected,
           save(row_id(inner[s]), work[s].next), SwapWritten(s), UNCHANGED <<work, line, call>>
    PROVE  Retains(s, r, k)
<1> DEFINE q == inner[s]
           w == work[s]
           x == row_id(q)
           m == merge_rotating(q.loaded, q.data, w.next)
           d == IF w.key # NoKey /\ q.pre_cycle_id # NoId THEN m ELSE w.next
           p == [q EXCEPT !.data = d, !.loaded = w.next]
<1>0. Typed BY DEF ForkInv
<1>1. /\ x \in Ids /\ q \in Inner /\ w \in Work /\ q.loaded \in Data /\ q.loaded # NoRow
      /\ q.data \in Data
      BY <1>0, OwnIds, RequestFields, InnerFields DEF LocalsOf
<1>2. w.next \in Data /\ w.next # NoRow /\ w.key \in Keys \cup {NoKey}
      BY <1>1, WorkFields, LayerAssumption
<1>3. /\ q.data.auth = q.loaded.auth
      /\ ReadOrOwn(q.data.custom[k], q.loaded.custom[k], s, r)
      /\ ReadOrOwn(w.next.custom[k], store[x].custom[k], s, r)
  <2>1. ExactOK(store, pc[s], q, w, s, r, k) BY DEF KeptOf
  <2> QED BY <1>1, <2>1 DEF ExactOK, ExactSwap, Live, Swapping
<1>4. m.auth = w.next.auth BY <1>1, <1>2, <1>3, MergeAuth DEF pick
<1>5. /\ q.loaded.custom[k] # q.data.custom[k] => m.custom[k] = q.data.custom[k]
      /\ q.loaded.custom[k] = q.data.custom[k] => m.custom[k] = w.next.custom[k]
  <2>1. m.custom = merge_bags(q.loaded.custom, q.data.custom, w.next.custom, TRUE)
        BY <1>1, <1>2, <1>3, MergeBag
  <2> HIDE DEF m
  <2> QED BY <2>1 DEF merge_bags
<1>6. inner' = [inner EXCEPT ![s] = p] BY DEF SwapWritten, SetInner
<1> HIDE DEF m
<1>7. /\ w.key # NoKey /\ q.pre_cycle_id # NoId => d = m
      /\ w.key = NoKey \/ q.pre_cycle_id = NoId => d = w.next
      OBVIOUS
<1> HIDE DEF d
<1>8. /\ p.data = d /\ p.loaded = w.next /\ p.dirty = q.dirty
      /\ p.id = q.id /\ p.pre_cycle_id = q.pre_cycle_id
      BY <1>1 DEF Inner
<1> HIDE DEF p
<1>9. inner'[s] = p BY <1>0, <1>6 DEF Typed, TypeOK
<1>10. row_id(p) = x BY <1>8 DEF row_id
<1>11. store'[x] = w.next /\ \A i \in Ids \ {x} : store'[i] = store[i]
       BY <1>0, <1>1 DEF save, Typed, TypeOK
<1>12. pc'[s] = IF w.key = NoKey THEN "cookie" ELSE "handler"
       BY <1>0 DEF SwapWritten, SendCookie, Goto, Typed, TypeOK
<1>13. ReadOrOwn(d.custom[k], w.next.custom[k], s, r)
       BY <1>3, <1>5, <1>7 DEF ReadOrOwn
<1>14. ExactOK(store', pc'[s], inner'[s], work'[s], s, r, k)
       BY <1>4, <1>7, <1>8, <1>9, <1>12, <1>13 DEF ExactOK, Swapping
<1>15. RowsKept(s, r, k) BY <1>3, <1>11 DEF RowsKept, ReadOrOwn
<1>16. MoveKept(s, r, k) /\ LineKept(s) BY <1>12 DEF MoveKept, LineKept
<1>17. ASSUME s = r, HasSet(call', r, k)
       PROVE  /\ OwnOK(pc'[r], p, work'[r], r, k)
              /\ pc'[r] \in Answering => p.id = row_id(p)
              /\ Landed(pc'[r], p, r, k) => LandsNow(r, k)
  <2>1. HasSet(call, r, k) BY <1>17 DEF HasSet
  <2>2. OwnOK(pc[r], q, w, r, k) BY <1>17, <2>1 DEF KeptOf, OwnKept
  <2>3. /\ q.data.custom[k] = r /\ q.dirty # "clean"
        /\ w.key = NoKey \/ q.pre_cycle_id = NoId \/ q.loaded.custom[k] = r
              => w.next.custom[k] = r
        BY <1>17, <2>2 DEF OwnOK, Live, Swapping
  <2>4. d.custom[k] = r BY <1>5, <1>7, <2>3
  <2>5. OwnOK(pc'[r], p, work'[r], r, k) BY <1>8, <1>12, <1>17, <2>3, <2>4 DEF OwnOK, Swapping
  <2>6. ASSUME pc'[r] \in Answering PROVE w.key = NoKey /\ p.id = row_id(p)
    <3>1. w.key = NoKey BY <1>12, <1>17, <2>6 DEF Answering, Settling
    <3>2. q.pre_cycle_id = NoId BY <1>0, <3>1, RequestFields DEF LocalsOf
    <3> QED BY <1>8, <3>1, <3>2 DEF row_id
  <2>7. ASSUME Landed(pc'[r], p, r, k) PROVE w.next.custom[k] = r
        BY <1>8, <2>3, <2>6, <2>7 DEF Landed
  <2>8. Landed(pc'[r], p, r, k) => LandsNow(r, k)
        BY <1>1, <1>2, <1>9, <1>10, <1>11, <1>17, <2>7 DEF LandsNow
  <2> QED BY <2>5, <2>6, <2>8
<1>18. s = r => OwnStep(r, k) BY <1>9, <1>17 DEF OwnStep
<1> QED BY <1>14, <1>15, <1>16, <1>18 DEF Retains


LEMMA SwapTryRetains ==
    ASSUME ForkInv, NEW s \in Requests, NEW r \in Requests, NEW k \in Keys, KeptOf(r, k),
           SwapTry(s)
    PROVE  Retains(s, r, k)
<1>0. Typed /\ pc[s] = "swap" /\ UNCHANGED <<work, call, line>> BY DEF ForkInv, SwapTry
<1>1. CASE (SwapGone(s) \/ SwapFailed(s)) /\ UNCHANGED store
      BY <1>0, <1>1, SwapEndsRetains DEF Swapping
<1>2. CASE /\ store[row_id(inner[s])] # NoRow
           /\ store[row_id(inner[s])].revision = work[s].expected
           /\ save(row_id(inner[s]), work[s].next) /\ SwapWritten(s)
      BY <1>0, <1>2, SwapWrittenRetains
<1>3. CASE Goto(s, "swapload") /\ UNCHANGED <<store, inner>>
  <2>1. pc'[s] = "swapload" BY <1>0, <1>3 DEF Goto, Typed, TypeOK
  <2>2. Quiet(s) BY <1>0, <1>3, <2>1 DEF Quiet
  <2>3. ExactOK(store, pc[s], inner[s], work[s], s, r, k) BY DEF KeptOf
  <2>4. ExactOK(store', pc'[s], inner'[s], work'[s], s, r, k)
        BY <1>0, <1>3, <2>1, <2>3 DEF ExactOK, Live, Swapping
  <2>5. ASSUME s = r, HasSet(call', r, k)
        PROVE  /\ OwnOK(pc'[r], inner'[r], work'[r], r, k)
               /\ HasSet(call, r, k) /\ pc'[r] \notin Answering
               /\ Landed(pc'[r], inner'[r], r, k) => Landed(pc[r], inner[r], r, k)
    <3>1. HasSet(call, r, k) BY <1>0, <2>5 DEF HasSet
    <3>2. OwnOK(pc[r], inner[r], work[r], r, k) BY <3>1 DEF KeptOf, OwnKept
    <3>3. OwnOK(pc'[r], inner'[r], work'[r], r, k)
          BY <1>0, <1>3, <2>1, <2>5, <3>2 DEF OwnOK, Live, Swapping
    <3>4. pc'[r] \notin Answering /\ pc[r] \in Live
          BY <1>0, <2>1, <2>5 DEF Answering, Settling, Live, Swapping
    <3> QED BY <1>3, <3>1, <3>3, <3>4 DEF Landed
  <2>6. s = r => OwnStep(r, k) BY <1>0, <1>3, <2>5 DEF OwnStep
  <2> QED BY <2>2, <2>4, <2>6, QuietRetains
<1> QED BY <1>1, <1>2, <1>3 DEF SwapTry

LEMMA SwapLoadRetains ==
    ASSUME ForkInv, Roomy, NEW s \in Requests, NEW r \in Requests, NEW k \in Keys,
           KeptOf(r, k), SwapLoad(s)
    PROVE  Retains(s, r, k)
<1> DEFINE q == inner[s]
           w == work[s]
           x == row_id(q)
           row == store[x]
           fresh == IF w.key = NoKey THEN row ELSE without(row, w.key)
           m == merge_concurrent(q.loaded, w.local, fresh)
           n == row.revision + 1
           u == work'[s]
<1>0. Typed /\ pc[s] = "swapload" /\ UNCHANGED <<store, line, call>>
      BY DEF ForkInv, SwapLoad, shared, history
<1>1. CASE (SwapGone(s) \/ SwapFailed(s)) /\ UNCHANGED work
      BY <1>0, <1>1, SwapEndsRetains DEF Swapping
<1>2. CASE pc'[s] = "swap"
  <2>1. /\ inner'[s] = q /\ row \in Data /\ fresh \in Data /\ m \in Data
        /\ q.loaded \in Data /\ w.local \in Data
        /\ n \in Nat /\ u.next = Stored(m, n) /\ u.local = w.local
        BY <1>2, SwapLoadWork
  <2>2. u.key = w.key
    <3>1. w \in Work BY <1>0, RequestFields
    <3> DEFINE v == IF w.key = NoKey THEN w.val ELSE row.custom[w.key]
               e == Stored(m, n)
               y == [w EXCEPT !.val = v, !.expected = row.revision, !.att = w.att + 1, !.next = e]
    <3>3. SetWork(s, y)
          BY <1>0, <1>2 DEF SwapLoad, SwapGone, SwapFailed, Goto, Stored, Typed, TypeOK
    <3> HIDE DEF e, v
    <3>4. y.key = w.key BY <3>1 DEF Work
    <3>5. u = y BY <1>0, <3>3 DEF SetWork, Typed, TypeOK
    <3> QED BY <3>4, <3>5
  <2>3. /\ x \in Ids /\ row # NoRow /\ w.key \in Keys \cup {NoKey} /\ row.custom \in Bag
        /\ q.loaded # NoRow
        BY <1>0, <2>1, OwnIds, RequestFields, WorkFields, DataTypes, LayerAssumption
  <2>4. /\ w.key # k /\ ReadOrOwn(w.local.custom[k], q.loaded.custom[k], s, r)
        /\ q.data.auth = q.loaded.auth /\ ReadOrOwn(q.data.custom[k], q.loaded.custom[k], s, r)
    <3>1. ExactOK(store, pc[s], q, w, s, r, k) BY DEF KeptOf
    <3> QED BY <1>0, <2>3, <3>1 DEF ExactOK, Live, Swapping
  <2>5. fresh.custom[k] = row.custom[k]
    <3>1. CASE w.key = NoKey BY <3>1
    <3>2. CASE w.key # NoKey
      <4>1. w.key \in Keys BY <2>3, <3>2
      <4>2. without(row, w.key).custom = [row.custom EXCEPT ![w.key] = NoVal]
            BY <2>1, <4>1, WithoutFields
      <4>3. fresh.custom = [row.custom EXCEPT ![w.key] = NoVal] BY <3>2, <4>2
      <4>4. [row.custom EXCEPT ![w.key] = NoVal][k] = row.custom[k] BY <2>3, <2>4, <4>1 DEF Bag
      <4> QED BY <4>3, <4>4
    <3> QED BY <3>1, <3>2
  <2> HIDE DEF fresh
  <2>6. m.custom = merge_bags(q.loaded.custom, w.local.custom, fresh.custom, TRUE)
    <3>1. q.loaded \in Data /\ w.local \in Data /\ fresh \in Data BY <2>1
    <3> QED BY <3>1, MergeBag
  <2> HIDE DEF m, n
  <2>7. /\ q.loaded.custom[k] # w.local.custom[k] => m.custom[k] = w.local.custom[k]
        /\ q.loaded.custom[k] = w.local.custom[k] => m.custom[k] = row.custom[k]
        BY <2>5, <2>6 DEF merge_bags
  <2>8. u.next.custom = m.custom BY <2>1, StoredSame
  <2>9. ExactSwap(store', inner'[s], u, s, r, k)
        BY <1>0, <2>1, <2>4, <2>7, <2>8 DEF ExactSwap, ReadOrOwn
  <2>10. ExactOK(store', pc'[s], inner'[s], work'[s], s, r, k)
         BY <1>2, <2>1, <2>2, <2>4, <2>9 DEF ExactOK
  <2>11. ASSUME s = r, HasSet(call', r, k)
         PROVE  /\ OwnOK(pc'[r], inner'[r], work'[r], r, k)
                /\ HasSet(call, r, k) /\ pc'[r] \notin Answering
                /\ Landed(pc'[r], inner'[r], r, k) => Landed(pc[r], inner[r], r, k)
    <3>1. HasSet(call, r, k) BY <1>0, <2>11 DEF HasSet
    <3>2. OwnKept(r, k) BY <3>1 DEF KeptOf
    <3>3. pc'[r] \notin Answering /\ pc[r] \in Live
          BY <1>0, <1>2, <2>11 DEF Answering, Settling, Live, Swapping
    <3>4. Landed(pc'[r], inner'[r], r, k) => Landed(pc[r], inner[r], r, k)
          BY <2>1, <2>11, <3>3 DEF Landed
    <3>5. /\ q.data.custom[k] = r /\ q.dirty # "clean"
          /\ w.key = NoKey \/ q.pre_cycle_id = NoId \/ q.loaded.custom[k] = r
                => w.local.custom[k] = r
          BY <1>0, <2>11, <3>2 DEF OwnKept, OwnOK, Live, Swapping
    <3>6. ASSUME q.loaded.custom[k] = r PROVE row.custom[k] = r
      <4>1. Landed(pc[r], inner[r], r, k) BY <2>3, <2>11, <3>3, <3>6 DEF Landed
      <4>2. LineHas(store, line, pc, inner, line[x], r, k) BY <2>11, <3>2, <4>1 DEF OwnKept
      <4> QED BY <2>3, <4>2 DEF LineHas
    <3>7. w.local.custom[k] = r => m.custom[k] = r BY <2>7, <3>6
    <3>8. OwnOK(pc'[r], inner'[r], work'[r], r, k)
          BY <1>2, <2>1, <2>2, <2>8, <2>11, <3>5, <3>7 DEF OwnOK
    <3> QED BY <3>1, <3>3, <3>4, <3>8
  <2>12. s = r => OwnStep(r, k) BY <1>0, <2>1, <2>11 DEF OwnStep
  <2>13. Quiet(s) BY <1>0, <1>2 DEF Quiet
  <2> QED BY <2>10, <2>12, <2>13, QuietRetains
<1>3. ((SwapGone(s) \/ SwapFailed(s)) /\ UNCHANGED work) \/ Goto(s, "swap")
      BY DEF SwapLoad
<1> QED BY <1>0, <1>1, <1>2, <1>3 DEF Goto, Typed, TypeOK

-----------------------------------------------------------------------------
(* finalize_session. *)

LEMMA FinishHandlerRetains ==
    ASSUME ForkInv, LoginInv, Typed', Roomy, NEW s \in Requests, NEW r \in Requests,
           NEW k \in Keys, KeptOf(r, k), FinishHandler(s)
    PROVE  Retains(s, r, k)
<1> DEFINE q == inner[s]
           p == inner'[s]
           w == work'[s]
           n == q.data.revision + 1
           d == Stored(q.data, n)
           e == Stored(d, n)
<1>0. Typed /\ pc[s] = "handler" /\ UNCHANGED <<store, line>>
      BY DEF ForkInv, FinishHandler, shared, history
<1>1. q.data \in Data /\ n \in Nat BY <1>0, HandlerFields DEF Data
<1>2. Finishes(s) BY FinishFields
<1>3. CASE pc'[s] = "nocookie" BY <1>0, <1>3, LeavesRetains DEF Quiet
<1>4. CASE /\ p.data = d /\ p.loaded = q.loaded /\ p.dirty = q.dirty /\ w.local = d /\ w.next = e
           /\ w.key = NoKey /\ w.expected = q.data.revision /\ row_id(p) = row_id(q)
           /\ \/ pc'[s] \in {"merge", "save"}
              \/ q.dirty = "clean" /\ pc'[s] = "touch"
              \/ pc'[s] = "remove" /\ q.loaded = NoRow
              \/ pc'[s] = "swap" /\ q.loaded # NoRow /\ q.dirty = "modified"
  <2>1. d \in Data BY <1>1, StoredFields
  <2>2. d.custom = q.data.custom /\ d.auth = q.data.auth BY <1>1, StoredSame
  <2>3. e.custom = d.custom BY <1>1, <2>1, StoredSame
  <2> HIDE DEF d, e, n
  <2>4. Quiet(s) BY <1>0, <1>4 DEF Quiet
  <2>5. pc[s] \in Live /\ pc'[s] \in Live \ Answering /\ pc'[s] \notin {"register", "recheck"}
        BY <1>0, <1>4 DEF Live, Handling, Swapping, Answering, Settling
  <2>6. q.loaded # NoRow =>
          q.data.auth = q.loaded.auth /\ ReadOrOwn(q.data.custom[k], q.loaded.custom[k], s, r)
        BY <2>5 DEF KeptOf, ExactOK
  <2>7. w.key # k BY <1>4, LayerAssumption
  <2>8. ASSUME pc'[s] = "swap" PROVE ExactSwap(store', p, w, s, r, k)
    <3>1. q.loaded # NoRow /\ q.loaded \in Data /\ q.pre_cycle_id = NoId
          BY <1>0, <1>4, <2>8, HandlerFields, InnerFields DEF ForkInv
    <3>2. Unrotated(q) /\ CopyOK(store, loginOf, q)
          BY <1>0, <2>5 DEF LoginInv, Holds, HoldsOK, Handling
    <3>3. w.expected = p.loaded.revision BY <1>4, <3>1, <3>2 DEF Unrotated
    <3>4. row_id(p) \in Ids /\ Known(store, row_id(p), p.loaded)
          BY <1>0, <1>4, <3>1, <3>2, OwnIds DEF CopyOK
    <3>5. store \in [Ids -> Data \cup {NoRow}] BY <1>0 DEF Typed, TypeOK
    <3>6. w.next.custom[k] = w.local.custom[k] BY <1>4, <2>3
    <3>7. ReadOrOwn(w.local.custom[k], p.loaded.custom[k], s, r) BY <1>4, <2>2, <2>6, <3>1
    <3>8. p.loaded \in Data BY <1>4, <3>1
    <3> QED BY <1>0, <3>3, <3>4, <3>5, <3>6, <3>7, <3>8, FirstExact
  <2>9. ExactOK(store', pc'[s], p, w, s, r, k)
    <3>1. pc'[s] \in Swapping => q.loaded # NoRow BY <1>4 DEF Swapping
    <3> QED BY <1>4, <2>2, <2>5, <2>6, <2>7, <2>8, <3>1 DEF ExactOK
  <2>10. ASSUME s = r, HasSet(call', r, k)
         PROVE  /\ OwnOK(pc'[r], p, w, r, k) /\ HasSet(call, r, k)
                /\ Landed(pc'[r], p, r, k) => Landed(pc[r], q, r, k)
    <3>1. HasSet(call, r, k)
      <4>1. call'[s].ops = call[s].ops
        <5>1. UNCHANGED call \/ Mint(s, 1) BY DEF FinishHandler
        <5> QED BY <1>0, <5>1, RequestFields DEF Mint, Typed, TypeOK, Call
      <4> QED BY <2>10, <4>1 DEF HasSet
    <3>2. q.data.custom[k] = r /\ q.dirty # "clean"
          BY <2>5, <2>10, <3>1 DEF KeptOf, OwnKept, OwnOK
    <3>3. OwnOK(pc'[r], p, w, r, k) BY <1>4, <2>2, <2>3, <2>10, <3>2 DEF OwnOK
    <3> QED BY <1>4, <2>5, <2>10, <3>1, <3>3 DEF Landed
  <2>11. s = r => OwnStep(r, k) BY <1>0, <1>4, <2>5, <2>10 DEF OwnStep
  <2> QED BY <2>4, <2>9, <2>11, QuietRetains
<1> QED BY <1>2, <1>3, <1>4 DEF Finishes

LEMMA TouchRetains ==
    ASSUME ForkInv, LoginInv, NEW s \in Requests, NEW r \in Requests, NEW k \in Keys,
           KeptOf(r, k), Touch(s)
    PROVE  Retains(s, r, k)
<1> DEFINE q == inner[s]
           w == work[s]
<1>0. Typed /\ pc[s] = "touch" /\ UNCHANGED <<line, work, call>> BY DEF ForkInv, Touch, history
<1>1. q.id \in Ids /\ row_id(q) = q.id /\ q.data \in Data /\ q.loaded \in Data /\ q.loaded # NoRow
      BY <1>0, OwnIds, RequestFields, InnerFields, LayerAssumption DEF ForkInv, LocalsOf, row_id
<1>2. CopyOK(store, loginOf, q) /\ TouchOK(q, w) BY <1>0 DEF LoginInv, Holds, HoldsOK, Live
<1>3. CASE (SwapGone(s) \/ SwapFailed(s)) /\ UNCHANGED store
      BY <1>0, <1>2, <1>3, SwapEndsRetains DEF TouchOK
<1>4. CASE /\ store[q.id] # NoRow /\ SendCookie(s)
           /\ IF store[q.id].revision = w.expected THEN save(q.id, q.data) ELSE UNCHANGED store
  <2>1. pc'[s] = "cookie" BY <1>0, <1>4 DEF SendCookie, Goto, Typed, TypeOK
  <2>2. ExactOK(store', pc'[s], inner'[s], work'[s], s, r, k)
        BY <2>1 DEF ExactOK, Live, Handling, Swapping
  <2>3. ASSUME s = r PROVE OwnStep(r, k)
    <3>1. ~HasSet(call, r, k) BY <1>0, <2>3 DEF KeptOf, OwnKept, OwnOK
    <3> QED BY <1>0, <3>1 DEF OwnStep, HasSet
  <2>4. CASE UNCHANGED store BY <1>0, <2>1, <2>2, <2>3, <2>4, QuietRetains DEF Quiet
  <2>5. CASE store[q.id].revision = w.expected /\ save(q.id, q.data)
    <3>1. Known(store, q.id, q.loaded) /\ store[q.id].revision = q.loaded.revision
          BY <1>1, <1>2, <2>5 DEF CopyOK, TouchOK
    <3>2. store \in [Ids -> Data \cup {NoRow}] BY <1>0 DEF Typed, TypeOK
    <3>3. store[q.id] = q.loaded BY <1>1, <1>4, <3>1, <3>2, SameRow
    <3>4. ReadOrOwn(q.data.custom[k], q.loaded.custom[k], s, r)
          BY <1>0, <1>1 DEF KeptOf, ExactOK, Live
    <3>5. store'[q.id] = q.data /\ \A i \in Ids \ {q.id} : store'[i] = store[i]
          BY <1>0, <1>1, <2>5 DEF save, Typed, TypeOK
    <3>6. RowsKept(s, r, k) BY <1>0, <1>4, <3>3, <3>4, <3>5 DEF RowsKept, ReadOrOwn
    <3>7. MoveKept(s, r, k) /\ LineKept(s) BY <1>0, <2>1 DEF MoveKept, LineKept
    <3> QED BY <2>2, <2>3, <3>6, <3>7 DEF Retains
  <2> QED BY <1>4, <2>4, <2>5
<1> QED BY <1>3, <1>4 DEF Touch


LEMMA SaveFreshRetains ==
    ASSUME ForkInv, NEW s \in Requests, NEW r \in Requests, NEW k \in Keys, KeptOf(r, k),
           SaveFresh(s)
    PROVE  Retains(s, r, k)
<1> DEFINE q == inner[s]
<1>0. Typed /\ pc[s] = "save" /\ UNCHANGED <<inner, line, call>>
      BY DEF SaveFresh, ForkInv, history
<1>1. q.id \in Ids /\ row_id(q) = q.id /\ q.data \in Data /\ q.data # NoRow
      BY <1>0, ActiveFields, RequestFields, InnerFields, LayerAssumption DEF LocalsOf, row_id
<1>2. CASE save(q.id, q.data) /\ SendCookie(s)
  <2>1. pc'[s] = "cookie" BY <1>0, <1>2 DEF SendCookie, Goto, Typed, TypeOK
  <2>2. store'[q.id] = q.data /\ \A i \in Ids \ {q.id} : store'[i] = store[i]
        BY <1>0, <1>1, <1>2 DEF save, Typed, TypeOK
  <2>3. ExactOK(store', pc'[s], inner'[s], work'[s], s, r, k)
        BY <2>1 DEF ExactOK, Live, Handling, Swapping
  <2>4. RowsKept(s, r, k) BY <1>0, <2>2 DEF RowsKept, ReadOrOwn
  <2>5. MoveKept(s, r, k) /\ LineKept(s) BY <1>0, <2>1 DEF MoveKept, LineKept
  <2>6. ASSUME s = r, HasSet(call', r, k)
        PROVE  OwnOK(pc'[r], inner'[r], work'[r], r, k) /\ LandsNow(r, k)
    <3>1. HasSet(call, r, k) BY <1>0, <2>6 DEF HasSet
    <3>2. q.data.custom[k] = r BY <1>0, <2>6, <3>1 DEF KeptOf, OwnKept, OwnOK, Live
    <3>3. OwnOK(pc'[r], inner'[r], work'[r], r, k)
          BY <2>1, <2>6 DEF OwnOK, Live, Handling, Swapping
    <3> QED BY <1>0, <1>1, <2>2, <2>6, <3>2, <3>3 DEF LandsNow
  <2>7. s = r => OwnStep(r, k) BY <1>0, <1>1, <2>6 DEF OwnStep
  <2> QED BY <2>3, <2>4, <2>5, <2>7 DEF Retains
<1>3. CASE Goto(s, "nocookie") /\ UNCHANGED store
  <2>1. pc'[s] = "nocookie" BY <1>0, <1>3 DEF Goto, Typed, TypeOK
  <2> QED BY <1>0, <1>3, <2>1, LeavesRetains DEF Quiet
<1> QED BY <1>2, <1>3 DEF SaveFresh

LEMMA CycleMergeRetains ==
    ASSUME ForkInv, Roomy, NEW s \in Requests, NEW r \in Requests, NEW k \in Keys,
           KeptOf(r, k), CycleMerge(s)
    PROVE  Retains(s, r, k)
<1> DEFINE q == inner[s]
           old == q.pre_cycle_id
           fresh == store[old]
           m == merge_rotating(q.loaded, q.data, fresh)
           n == fresh.revision + 1
<1>0. Typed /\ pc[s] = "merge" /\ UNCHANGED <<store, line, call>>
      BY DEF ForkInv, CycleMerge, shared, history
<1>1. /\ q.loaded \in Data /\ q.loaded # NoRow /\ old \in Ids /\ row_id(q) = old
      BY <1>0, RequestFields, InnerFields, LayerAssumption, ActiveFields, NoIdFact
      DEF LocalsOf, Cycling, row_id
<1>2. q.data.auth = q.loaded.auth /\ ReadOrOwn(q.data.custom[k], q.loaded.custom[k], s, r)
      BY <1>0, <1>1 DEF KeptOf, ExactOK, Live
<1>3. CASE pc'[s] = "failclosed" BY <1>0, <1>3, LeavesRetains DEF Quiet
<1>4. ASSUME pc'[s] = "remove"
      PROVE  Quiet(s) /\ pc[s] \in Live /\ pc'[s] \in Live \ (Swapping \cup Answering)
      BY <1>0, <1>4 DEF Quiet, Live, Handling, Swapping, Answering, Settling
<1>5. ASSUME s = r, HasSet(call', r, k)
      PROVE  HasSet(call, r, k) /\ OwnKept(r, k) /\ q.data.custom[k] = r /\ q.dirty # "clean"
  <2>1. HasSet(call, r, k) BY <1>0, <1>5 DEF HasSet
  <2> QED BY <1>0, <1>5, <2>1 DEF KeptOf, OwnKept, OwnOK, Live
<1>6. CASE pc'[s] = "remove" /\ inner'[s] = q
  <2>1. ExactOK(store', pc'[s], inner'[s], work'[s], s, r, k)
        BY <1>2, <1>4, <1>6 DEF ExactOK, Swapping
  <2>2. ASSUME s = r, HasSet(call', r, k)
        PROVE  /\ OwnOK(pc'[r], inner'[r], work'[r], r, k)
               /\ Landed(pc'[r], inner'[r], r, k) => Landed(pc[r], inner[r], r, k)
    <3>1. OwnOK(pc'[r], inner'[r], work'[r], r, k)
          BY <1>4, <1>5, <1>6, <2>2 DEF OwnOK, Swapping
    <3> QED BY <1>4, <1>6, <2>2, <3>1 DEF Landed
  <2>3. s = r => OwnStep(r, k) BY <1>0, <1>4, <1>5, <1>6, <2>2 DEF OwnStep
  <2> QED BY <1>4, <1>6, <2>1, <2>3, QuietRetains
<1>7. CASE /\ pc'[s] = "remove" /\ inner'[s].dirty = q.dirty
           /\ inner'[s].id = q.id /\ inner'[s].pre_cycle_id = old
           /\ inner'[s].loaded = fresh /\ inner'[s].data = Stored(m, n)
           /\ fresh \in Data /\ q.data \in Data /\ m \in Data /\ n \in Nat
  <2>1. m.custom = merge_bags(q.loaded.custom, q.data.custom, fresh.custom, TRUE)
        BY <1>1, <1>2, <1>7, MergeBag
  <2>2. m.auth = fresh.auth BY <1>1, <1>2, <1>7, MergeAuth DEF pick
  <2>3. fresh # NoRow BY <1>7, LayerAssumption
  <2> HIDE DEF m, n, fresh
  <2>4. /\ q.loaded.custom[k] # q.data.custom[k] => m.custom[k] = q.data.custom[k]
        /\ q.loaded.custom[k] = q.data.custom[k] => m.custom[k] = fresh.custom[k]
        BY <2>1 DEF merge_bags
  <2>5. inner'[s].data.custom = m.custom /\ inner'[s].data.auth = m.auth BY <1>7, StoredSame
  <2>6. ExactOK(store', pc'[s], inner'[s], work'[s], s, r, k)
        BY <1>2, <1>4, <1>7, <2>2, <2>4, <2>5 DEF ExactOK, ReadOrOwn, Swapping
  <2>7. row_id(inner'[s]) = old BY <1>1, <1>7 DEF row_id
  <2>8. ASSUME s = r, HasSet(call', r, k)
        PROVE  /\ OwnOK(pc'[r], inner'[r], work'[r], r, k)
               /\ Landed(pc'[r], inner'[r], r, k) => LandsNow(r, k)
    <3>1. ASSUME q.loaded.custom[k] = r PROVE fresh.custom[k] = r
      <4>1. Landed(pc[r], inner[r], r, k) BY <1>1, <1>4, <1>7, <2>8, <3>1 DEF Landed
      <4>2. LineHas(store, line, pc, inner, line[old], r, k)
            BY <1>1, <1>5, <2>8, <4>1 DEF OwnKept
      <4> QED BY <1>1, <2>3, <4>2 DEF LineHas, fresh
    <3>2. inner'[r].data.custom[k] = r BY <1>5, <2>4, <2>5, <2>8, <3>1
    <3>3. OwnOK(pc'[r], inner'[r], work'[r], r, k)
          BY <1>4, <1>5, <1>7, <2>8, <3>2 DEF OwnOK, Swapping
    <3>4. ASSUME Landed(pc'[r], inner'[r], r, k) PROVE LandsNow(r, k)
      <4>1. fresh.custom[k] = r BY <1>4, <1>7, <2>8, <3>4 DEF Landed
      <4>2. store'[old] # NoRow /\ store'[old].custom[k] = r BY <1>0, <2>3, <4>1 DEF fresh
      <4> QED BY <1>1, <2>7, <2>8, <4>2 DEF LandsNow
    <3> QED BY <3>3, <3>4
  <2>9. s = r => OwnStep(r, k) BY <1>4, <1>7, <2>8 DEF OwnStep
  <2> QED BY <1>4, <1>7, <2>6, <2>9, QuietRetains
<1> QED BY <1>3, <1>6, <1>7, CycleMergeData

LEMMA CycleRemoveRetains ==
    ASSUME ForkInv, LoginInv, ShotInv, NEW s \in Requests, NEW r \in Requests, NEW k \in Keys,
           KeptOf(r, k), CycleRemove(s)
    PROVE  Retains(s, r, k)
<1> DEFINE q == inner[s]
           old == q.pre_cycle_id
<1>0. Typed /\ pc[s] = "remove" /\ UNCHANGED <<line, call>> BY DEF ForkInv, CycleRemove, history
<1>1. old \in Ids /\ row_id(q) = old BY <1>0, ActiveFields, NoIdFact DEF Cycling, row_id
<1>2. q \in Inner /\ q.data \in Data /\ q.loaded \in Data \cup {NoRow}
      BY <1>0, RequestFields, InnerFields
<1>3. q.loaded # NoRow =>
        q.data.auth = q.loaded.auth /\ ReadOrOwn(q.data.custom[k], q.loaded.custom[k], s, r)
      BY <1>0 DEF KeptOf, ExactOK, Live
<1>4. ASSUME pc'[s] \in {"move", "merge"}, inner'[s] = q
      PROVE  /\ ExactOK(store', pc'[s], inner'[s], work'[s], s, r, k)
             /\ s = r => OwnStep(r, k)
  <2>1. pc[s] \in Live /\ pc'[s] \in Live \ (Swapping \cup Answering)
        BY <1>0, <1>4 DEF Live, Handling, Swapping, Answering, Settling
  <2>2. ExactOK(store', pc'[s], inner'[s], work'[s], s, r, k)
        BY <1>3, <1>4, <2>1 DEF ExactOK, Swapping
  <2>3. ASSUME s = r, HasSet(call', r, k)
        PROVE  /\ OwnOK(pc'[r], inner'[r], work'[r], r, k) /\ HasSet(call, r, k)
               /\ Landed(pc'[r], inner'[r], r, k) => Landed(pc[r], inner[r], r, k)
    <3>1. HasSet(call, r, k) BY <1>0, <2>3 DEF HasSet
    <3>2. q.data.custom[k] = r /\ q.dirty # "clean"
          BY <2>1, <2>3, <3>1 DEF KeptOf, OwnKept, OwnOK
    <3>3. OwnOK(pc'[r], inner'[r], work'[r], r, k)
          BY <1>4, <2>1, <2>3, <3>2 DEF OwnOK
    <3> QED BY <1>4, <2>1, <2>3, <3>1, <3>3 DEF Landed
  <2>4. s = r => OwnStep(r, k) BY <1>0, <1>4, <2>1, <2>3 DEF OwnStep
  <2> QED BY <2>2, <2>4
<1>5. CASE /\ existing(s) => store[old] # NoRow /\ store[old].revision = work[s].expected
           /\ delete(old) /\ Goto(s, "move") /\ UNCHANGED <<inner, work>>
  <2>1. pc'[s] = "move" BY <1>0, <1>5 DEF Goto, Typed, TypeOK
  <2>2. store'[old] = NoRow /\ \A i \in Ids \ {old} : store'[i] = store[i]
        BY <1>0, <1>1, <1>5 DEF delete, Typed, TypeOK
  <2>3. ASSUME q.loaded # NoRow PROVE store[old] # NoRow /\ store[old] = q.loaded
    <3>1. store[old] # NoRow /\ store[old].revision = work[s].expected
          BY <1>5, <2>3 DEF existing
    <3>2. work[s].expected = q.loaded.revision
          BY <1>0, <2>3 DEF ShotInv, Carries, CarriesOK
    <3>3. CopyOK(store, loginOf, q) BY <1>0 DEF LoginInv, Holds, HoldsOK, Live
    <3>4. Known(store, old, q.loaded) BY <1>1, <2>3, <3>3 DEF CopyOK
    <3>5. store \in [Ids -> Data \cup {NoRow}] /\ q.loaded \in Data
          BY <1>0, <1>2, <2>3 DEF Typed, TypeOK
    <3> QED BY <1>1, <3>1, <3>2, <3>4, <3>5, SameRow
  <2>4. MoveKept(s, r, k) BY <1>0, <1>3, <1>5, <2>3 DEF MoveKept
  <2>5. RowsKept(s, r, k) BY <1>0, <2>2 DEF RowsKept, ReadOrOwn
  <2>6. LineKept(s) BY <1>0 DEF LineKept
  <2> QED BY <1>4, <1>5, <2>1, <2>4, <2>5, <2>6 DEF Retains
<1>6. CASE (CycleGone(s) \/ Goto(s, "failclosed")) /\ UNCHANGED store
  <2>1. pc'[s] \in {"nocookie", "failclosed"} BY <1>0, <1>6 DEF CycleGone, Goto, Typed, TypeOK
  <2> QED BY <1>0, <1>6, <2>1, LeavesRetains DEF Quiet
<1>7. CASE CycleConflict(s) /\ UNCHANGED store
  <2>1. pc'[s] \in {"merge", "failclosed"} /\ inner'[s] = q
        BY <1>0, <1>7 DEF CycleConflict, Goto, Typed, TypeOK
  <2>2. Quiet(s) BY <1>0, <1>7, <2>1 DEF Quiet
  <2>3. CASE pc'[s] = "failclosed" BY <2>2, <2>3, LeavesRetains
  <2>4. CASE pc'[s] = "merge" BY <1>4, <2>1, <2>2, <2>4, QuietRetains
  <2> QED BY <2>1, <2>3, <2>4
<1> QED BY <1>5, <1>6, <1>7 DEF CycleRemove

LEMMA CycleSaveRetains ==
    ASSUME ForkInv, NEW s \in Requests, NEW r \in Requests, NEW k \in Keys, KeptOf(r, k),
           CycleSave(s)
    PROVE  Retains(s, r, k)
<1> DEFINE q == inner[s]
           old == q.pre_cycle_id
<1>0. Typed /\ pc[s] = "move" /\ UNCHANGED <<inner, call>> BY DEF CycleSave, ForkInv
<1>1. /\ q.id \in Ids /\ old \in Ids /\ row_id(q) = old /\ q.data \in Data /\ q.data # NoRow
      BY <1>0, ActiveFields, NoIdFact, RequestFields, InnerFields, LayerAssumption
      DEF Cycling, row_id
<1>2. CASE /\ save(q.id, q.data) /\ line' = [line EXCEPT ![q.id] = line[old]]
           /\ Goto(s, "liveold") \/ Goto(s, "cookie")
  <2>1. pc'[s] \in {"liveold", "cookie"} BY <1>0, <1>2 DEF Goto, Typed, TypeOK
  <2>2. store'[q.id] = q.data /\ \A i \in Ids \ {q.id} : store'[i] = store[i]
        BY <1>0, <1>1, <1>2 DEF save, Typed, TypeOK
  <2>3. line'[q.id] = line[old] /\ \A i \in Ids \ {q.id} : line'[i] = line[i]
        BY <1>0, <1>1, <1>2 DEF Typed, TypeOK
  <2>4. line'[old] = line[old] BY <1>1, <2>3
  <2>5. pc'[s] \notin Live BY <2>1 DEF Live, Handling, Swapping
  <2>6. ExactOK(store', pc'[s], inner'[s], work'[s], s, r, k)
        BY <2>1, <2>5 DEF ExactOK, Live, Swapping
  <2>7. RowsKept(s, r, k) BY <1>0, <2>2, <2>3 DEF RowsKept, ReadOrOwn
  <2>8. MoveKept(s, r, k) /\ LineKept(s) BY <1>0, <2>1, <2>3 DEF MoveKept, LineKept
  <2>9. ASSUME s = r, HasSet(call', r, k)
        PROVE  OwnOK(pc'[r], inner'[r], work'[r], r, k) /\ LandsNow(r, k)
    <3>1. HasSet(call, r, k) BY <1>0, <2>9 DEF HasSet
    <3>2. q.data.custom[k] = r BY <1>0, <2>9, <3>1 DEF KeptOf, OwnKept, OwnOK, Live
    <3>3. OwnOK(pc'[r], inner'[r], work'[r], r, k)
          BY <2>1, <2>5, <2>9 DEF OwnOK, Live, Swapping
    <3> QED BY <1>0, <1>1, <2>2, <2>3, <2>4, <2>9, <3>2, <3>3 DEF LandsNow
  <2>10. s = r => OwnStep(r, k) BY <1>0, <1>1, <2>3, <2>4, <2>9 DEF OwnStep
  <2> QED BY <2>6, <2>7, <2>8, <2>10 DEF Retains
<1>3. CASE Goto(s, "failclosed") /\ UNCHANGED <<store, line>>
  <2>1. pc'[s] = "failclosed" BY <1>0, <1>3 DEF Goto, Typed, TypeOK
  <2> QED BY <1>3, <2>1, LeavesRetains DEF Quiet
<1> QED BY <1>2, <1>3 DEF CycleSave, SendCookie

-----------------------------------------------------------------------------
(* The invariant is inductive. *)

LEMMA RequestRetains ==
    ASSUME ForkInv, LoginInv, PlantInv, ShotInv, Typed', Roomy, NEW s \in Requests,
           NEW r \in Requests, NEW k \in Keys, KeptOf(r, k), ~Touched(call', r, k),
           LoadNothing(s) \/ LoadRow(s) \/ Operate(s) \/ Serve(s)
    PROVE  Retains(s, r, k)
<1>0. Typed BY DEF ForkInv
<1>1. CASE LoadNothing(s) \/ LoadRow(s) \/ Verdict(s) \/ EndRow(s)
      BY <1>0, <1>1, LoadingRetains
<1>2. CASE Operate(s)
      BY <1>0, <1>2, OperateTouches, SetCustomRetains, RemoveCustomRetains, TakeRetains,
         RegenerateRetains
<1>3. CASE Serve(s)
  <2>1. CASE Register(s) \/ Recheck(s)
    <3>1. pc[s] \in {"register", "recheck"} BY <2>1 DEF Register, Recheck
    <3> QED BY <3>1 DEF KeptOf, ExactOK
  <2>2. CASE SwapTry(s) \/ SwapLoad(s) \/ FinishHandler(s)
        BY <2>2, SwapTryRetains, SwapLoadRetains, FinishHandlerRetains
  <2>3. CASE CycleMerge(s) \/ CycleRemove(s) \/ CycleSave(s)
        BY <2>3, CycleMergeRetains, CycleRemoveRetains, CycleSaveRetains
  <2>4. CASE Touch(s) \/ SaveFresh(s) BY <2>4, TouchRetains, SaveFreshRetains
  <2>5. CASE \/ LiveOld(s) \/ RegisterNew(s) \/ RereadOld(s) \/ InvalidateOld(s)
             \/ LiveNew(s) \/ EndRevoked(s) \/ EndUntracked(s) \/ FailClosed(s)
        BY <1>0, <2>5, SettlingRetains
  <2> QED BY <1>1, <1>3, <2>1, <2>2, <2>3, <2>4, <2>5 DEF Serve
<1> QED BY <1>1, <1>2, <1>3

(* The administrator and the passing of time only delete rows. *)
LEMMA OthersRetain ==
    ASSUME Typed, Typed', LoginInv, NEW r \in Requests, NEW k \in Keys, KeptOf(r, k),
           Administer \/ Expire \/ UNCHANGED vars
    PROVE  KeptOf(r, k)'
<1>1. /\ UNCHANGED <<pc, inner, work, call, line>>
      /\ \A i \in Ids : store'[i] = store[i] \/ store'[i] = NoRow
      BY OtherSteps
<1>2. ASSUME NEW s \in Requests PROVE ExactOK(store', pc[s], inner[s], work[s], s, r, k)
  <2>1. HoldsOK(store, loginOf, pc[s], inner[s], work[s]) BY DEF LoginInv, Holds
  <2>2. ExactOK(store, pc[s], inner[s], work[s], s, r, k) BY DEF KeptOf
  <2>3. store \in [Ids -> Data \cup {NoRow}] /\ store' \in [Ids -> Data \cup {NoRow}]
        BY DEF Typed, TypeOK
  <2>4. work[s] \in Work BY RequestFields
  <2>5. pc[s] \in Live => row_id(inner[s]) \in Ids /\ Moved(store, store', row_id(inner[s]))
        BY <1>1, ActiveFields DEF Moved, Live, Handling, Swapping
  <2> QED BY <2>1, <2>2, <2>3, <2>4, <2>5, ExactMoved
<1>3. ASSUME NEW l, LineHas(store, line, pc, inner, l, r, k)
      PROVE  LineHas(store', line, pc, inner, l, r, k)
      BY <1>1, <1>3 DEF LineHas
<1>4. OwnKept(r, k) => OwnKept(r, k)' BY <1>1, <1>3 DEF OwnKept
<1> QED BY <1>1, <1>2, <1>4 DEF KeptOf, HasSet

LEMMA NextKept ==
    ASSUME ForkInv, ForkInv', LoginInv, PlantInv, ShotInv, KeptInv, Roomy, [Next]_vars
    PROVE  KeptInv'
<1>0. Typed /\ Typed' BY DEF ForkInv
<1> SUFFICES ASSUME NEW r \in Requests, NEW k \in Keys, ~Touched(call', r, k)
             PROVE  KeptOf(r, k)'
    BY DEF KeptInv
<1>1. ASSUME NEW s \in Requests, LoadNothing(s) \/ LoadRow(s) \/ Operate(s) \/ Serve(s)
      PROVE  KeptOf(r, k)'
  <2>1. Faithful(s) /\ call[s].ops \subseteq call'[s].ops
        BY <1>0, <1>1, RequestFaithful, OpsGrow
  <2>2. \A t \in Requests : call[t].ops \subseteq call'[t].ops BY <2>1 DEF Faithful, Alone
  <2>3. KeptOf(r, k) BY <2>2, TouchedStays DEF KeptInv
  <2>4. Retains(s, r, k) BY <1>0, <1>1, <2>3, RequestRetains
  <2> QED BY <2>1, <2>3, <2>4, RetainsStep
<1>2. CASE Administer \/ Expire \/ UNCHANGED vars
  <2>1. UNCHANGED call BY <1>0, <1>2, OtherSteps
  <2>2. KeptOf(r, k) BY <2>1 DEF KeptInv
  <2> QED BY <1>0, <1>2, <2>2, OthersRetain
<1> QED BY <1>1, <1>2 DEF Next, AllServed

LEMMA InitKept == Init => KeptInv
<1> SUFFICES ASSUME Init, NEW r \in Requests, NEW k \in Keys PROVE KeptOf(r, k)
    BY DEF KeptInv
<1>1. \A s \in Requests : pc[s] = "idle" BY DEF Init
<1>2. call[r].ops = {} BY DEF Init
<1>3. ~HasSet(call, r, k) BY <1>2 DEF HasSet
<1>4. \A s \in Requests : ExactOK(store, pc[s], inner[s], work[s], s, r, k)
      BY <1>1 DEF ExactOK, Live, Handling, Swapping
<1> QED BY <1>3, <1>4 DEF KeptOf

(* A write that was acknowledged is not lost, where the bag has no cap or  *)
(* one with room for every key: a request that got its cookie after it set *)
(* a key finds the value in every later row of the session, until another  *)
(* request touches the key or the login, whatever was written from older   *)
(* copies, rotated, taken or retried meanwhile (merge_concurrent,          *)
(* merge_concurrent_writes, swap_merging).  Over the cap a write is        *)
(* refused, and a merge that passes it empties the bag (cap_custom).       *)
THEOREM WritesKept ==
    ASSUME MaxKeys = 0 \/ Cardinality(Keys) <= MaxKeys PROVE Spec => []AcknowledgedKept
<1>0. Roomy BY RoomForAll
<1>1. Init => ForkInv /\ LoginInv /\ PlantInv /\ ShotInv /\ KeptInv
      BY InitForks, InitLogins, InitPlants, InitShots, InitKept
<1>2. ForkInv /\ LoginInv /\ PlantInv /\ ShotInv /\ KeptInv /\ [Next]_vars
        => ForkInv' /\ LoginInv' /\ PlantInv' /\ ShotInv' /\ KeptInv'
      BY <1>0, NextForks, NextLogins, NextPlants, NextShots, NextKept
<1>3. KeptInv => AcknowledgedKept
  <2> SUFFICES ASSUME KeptInv, NEW r \in Requests, NEW k \in Keys, NEW i \in Ids,
                      pc[r] = "cookie", <<"set", k>> \in call[r].ops, store[i] # NoRow,
                      line[i] = line[inner[r].id], ~Touched(call, r, k)
               PROVE  store[i].custom[k] = r
      BY DEF AcknowledgedKept, Touched
  <2>1. OwnKept(r, k) BY DEF KeptInv, KeptOf, HasSet
  <2>2. pc[r] \in Answering BY DEF Answering
  <2>3. /\ line[inner[r].id] = line[row_id(inner[r])]
        /\ LineHas(store, line, pc, inner, line[row_id(inner[r])], r, k)
        BY <2>1, <2>2 DEF OwnKept, Landed
  <2> QED BY <2>3 DEF LineHas
<1> QED BY <1>1, <1>2, <1>3, PTL DEF Spec

=============================================================================
