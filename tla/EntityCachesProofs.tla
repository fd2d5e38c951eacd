-------------------------- MODULE EntityCachesProofs --------------------------
(***************************************************************************)
(* One load at a time: for any number of requests, keys and invalidations  *)
(* the in-process cache of EntityCaches never fetches an entry twice at    *)
(* once, unless an invalidation struck one of the two loads.               *)
(*                                                                         *)
(* The argument: a request that waits or fetches takes part in the load    *)
(* that the in-flight map has for its slot, until that load is struck or   *)
(* has its value; so two fetches of one slot share a cell, and a cell has  *)
(* one runner.  What happens to entries, in the LRU list or in Valkey,     *)
(* plays no part.                                                          *)
(***************************************************************************)
EXTENDS EntityCaches, FiniteSetTheorems, TLAPS

(* A request past claim, and one that has a value to store in Valkey. *)
Joined == {"wait", "publish", "guard", "release"} \cup Fetching
Holding == {"check", "index", "set", "recheck", "takeback"}

Shaped(r) == r = [pc |-> r.pc, k |-> r.k, g1 |-> r.g1, g2 |-> r.g2,
                  cell |-> r.cell, val |-> r.val, start |-> r.start]

CallerOK(r) ==
    /\ Shaped(r)
    /\ r.pc # "idle" => r.k \in Keys
    /\ r.pc \in Holding => r.val \in Versions
    /\ L1 /\ r.pc \in Joined => r.cell \in Cells

Entry == [val: Versions, till: Nat, cut: BOOLEAN]

Typed ==
    /\ scene \in Scenes
    /\ truth \in Versions /\ now \in Nat
    /\ cells \in [Cells -> Versions \cup {None}]
    /\ valkey \in [Keys -> Entry \cup {None}]
    /\ \A s \in DOMAIN inflight : inflight[s] \in Cells
    /\ caller = [c \in Callers |-> caller[c]]
    /\ \A c \in Callers : CallerOK(caller[c])

(* r takes part in the load that map fl has for its slot. *)
SlotOf(r) == [k |-> r.k, g |-> r.g1]
MineIn(fl, r) == SlotOf(r) \in DOMAIN fl /\ fl[SlotOf(r)] = r.cell

(* How a request stands to its load, with in-flight map fl, cells ce and   *)
(* struck cells st.                                                        *)
Flies(fl, ce, st, r) ==
    /\ r.pc \in Fetching => ce[r.cell] = None /\ (r.cell \in st \/ MineIn(fl, r))
    /\ r.pc = "wait" => r.cell \in st \/ MineIn(fl, r) \/ ce[r.cell] # None
    /\ r.pc = "publish" => ce[r.cell] # None

OneRunner ==
    \A c, d \in Callers :
        /\ caller[c].pc \in Fetching /\ caller[d].pc \in Fetching
        /\ caller[c].cell = caller[d].cell
        => c = d

Flights == L1 => OneRunner /\ \A c \in Callers : Flies(inflight, cells, struck, caller[c])

FlightInv == Typed /\ Flights

-----------------------------------------------------------------------------
(* A step of request c that gives it the locals r. *)
Turns(c, r) == caller' = [caller EXCEPT ![c] = r] /\ UNCHANGED scene

(* The locals r that c may turn to while the flights stay as they are. *)
Follows(c, r) ==
    /\ CallerOK(r)
    /\ L1 => Flies(inflight, cells, struck, r)
    /\ r.pc \in Fetching => caller[c].pc \in Fetching /\ r.cell = caller[c].cell

LEMMA TurnsTyped ==
    ASSUME Typed, NEW c \in Callers, NEW r, Turns(c, r), CallerOK(r)
    PROVE  /\ caller' = [x \in Callers |-> caller'[x]]
           /\ \A x \in Callers : CallerOK(caller[x])'
           /\ caller'[c] = r /\ \A d \in Callers \ {c} : caller'[d] = caller[d]
<1>1. caller' = [x \in Callers |-> IF x = c THEN r ELSE caller[x]] BY DEF Turns, Typed
<1>2. L1' = L1 BY DEF Turns, L1
<1> QED BY <1>1, <1>2 DEF Typed, CallerOK

LEMMA TurnsFlights ==
    ASSUME FlightInv, NEW c \in Callers, NEW r, Turns(c, r), CallerOK(r),
           L1 => Flies(inflight', cells', struck', r),
           L1 => \A d \in Callers \ {c} : Flies(inflight', cells', struck', caller[d]),
           L1 /\ r.pc \in Fetching =>
               \A d \in Callers \ {c} : ~(caller[d].pc \in Fetching /\ caller[d].cell = r.cell)
    PROVE  Flights'
<1>1. caller'[c] = r /\ \A d \in Callers \ {c} : caller'[d] = caller[d]
      BY TurnsTyped DEF FlightInv
<1>2. L1' = L1 BY DEF Turns, L1
<1>3. SUFFICES ASSUME L1 PROVE OneRunner' /\ \A d \in Callers : Flies(inflight', cells', struck', caller'[d])
      BY <1>2 DEF Flights
<1>4. OneRunner' BY <1>1, <1>3 DEF FlightInv, Flights, OneRunner
<1> QED BY <1>1, <1>3, <1>4

(* What the flights do not depend on may change as it likes, as long as it *)
(* keeps its type.                                                         *)
LEMMA FollowsFlights ==
    ASSUME FlightInv, NEW c \in Callers, NEW r, Turns(c, r), Follows(c, r),
           UNCHANGED <<inflight, cells, struck>>
    PROVE  Flights'
<1>1. L1 => \A d \in Callers : Flies(inflight, cells, struck, caller[d]) BY DEF FlightInv, Flights
<1>2. L1 /\ r.pc \in Fetching =>
               \A d \in Callers \ {c} : ~(caller[d].pc \in Fetching /\ caller[d].cell = r.cell)
      BY DEF FlightInv, Flights, OneRunner, Follows
<1> QED BY <1>1, <1>2, TurnsFlights DEF Follows

LEMMA FollowsInv ==
    ASSUME FlightInv, NEW c \in Callers, NEW r, Turns(c, r), Follows(c, r),
           UNCHANGED <<inflight, cells, struck, truth, now>>,
           valkey' \in [Keys -> Entry \cup {None}]
    PROVE  FlightInv'
<1>1. Flights' BY FollowsFlights
<1>2. Typed' BY TurnsTyped DEF Follows, FlightInv, Typed, Turns
<1> QED BY <1>1, <1>2 DEF FlightInv
-----------------------------------------------------------------------------
(* Locals with another place, value or generation of Valkey's. *)
Like(q, r) == Shaped(r) /\ r.k = q.k /\ r.g1 = q.g1 /\ r.cell = q.cell

WithPc(q, p) == [q EXCEPT !.pc = p]
WithVal(q, p, v) == [q EXCEPT !.pc = p, !.val = v]
WithGen(q, p, g) == [q EXCEPT !.pc = p, !.g2 = g]
WithCell(q, p, i) == [q EXCEPT !.pc = p, !.cell = i]

LEMMA ReshapedPc ==
    ASSUME NEW q, Shaped(q), NEW p, NEW r, r = WithPc(q, p)
    PROVE  Like(q, r) /\ r.pc = p /\ r.val = q.val
<1>1. PICK a, b, e, f, h, m, n :
        q = [pc |-> a, k |-> b, g1 |-> e, g2 |-> f, cell |-> h, val |-> m, start |-> n]
      BY DEF Shaped
<1>2. r = [pc |-> p, k |-> b, g1 |-> e, g2 |-> f, cell |-> h, val |-> m, start |-> n]
      BY <1>1 DEF WithPc
<1> QED BY <1>1, <1>2 DEF Shaped, Like

LEMMA ReshapedVal ==
    ASSUME NEW q, Shaped(q), NEW p, NEW v, NEW r, r = WithVal(q, p, v)
    PROVE  Like(q, r) /\ r.pc = p /\ r.val = v
<1>1. PICK a, b, e, f, h, m, n :
        q = [pc |-> a, k |-> b, g1 |-> e, g2 |-> f, cell |-> h, val |-> m, start |-> n]
      BY DEF Shaped
<1>2. r = [pc |-> p, k |-> b, g1 |-> e, g2 |-> f, cell |-> h, val |-> v, start |-> n]
      BY <1>1 DEF WithVal
<1> QED BY <1>1, <1>2 DEF Shaped, Like

LEMMA ReshapedGen ==
    ASSUME NEW q, Shaped(q), NEW p, NEW g, NEW r, r = WithGen(q, p, g)
    PROVE  Like(q, r) /\ r.pc = p /\ r.val = q.val
<1>1. PICK a, b, e, f, h, m, n :
        q = [pc |-> a, k |-> b, g1 |-> e, g2 |-> f, cell |-> h, val |-> m, start |-> n]
      BY DEF Shaped
<1>2. r = [pc |-> p, k |-> b, g1 |-> e, g2 |-> g, cell |-> h, val |-> m, start |-> n]
      BY <1>1 DEF WithGen
<1> QED BY <1>1, <1>2 DEF Shaped, Like

LEMMA ReshapedCell ==
    ASSUME NEW q, Shaped(q), NEW p, NEW i, NEW r, r = WithCell(q, p, i)
    PROVE  Shaped(r) /\ r.pc = p /\ r.cell = i /\ r.k = q.k /\ r.g1 = q.g1
<1>1. PICK a, b, e, f, h, m, n :
        q = [pc |-> a, k |-> b, g1 |-> e, g2 |-> f, cell |-> h, val |-> m, start |-> n]
      BY DEF Shaped
<1>2. r = [pc |-> p, k |-> b, g1 |-> e, g2 |-> f, cell |-> i, val |-> m, start |-> n]
      BY <1>1 DEF WithCell
<1> QED BY <1>1, <1>2 DEF Shaped, Like

LEMMA AnsweredOff ==
    ASSUME NEW q, NEW v PROVE Shaped(Answered(q, v)) /\ Answered(q, v).pc = "idle"
<1> DEFINE r == Answered(q, v)
           st == IF v = None THEN None ELSE q.start
<1>1. r = [Idle EXCEPT !.val = v, !.start = st] BY DEF Answered
<1> HIDE DEF st
<1>2. r = [pc |-> "idle", k |-> None, g1 |-> None, g2 |-> None, cell |-> None, val |-> v, start |-> st]
      BY <1>1 DEF Idle
<1> QED BY <1>2 DEF Shaped

(* A request that leaves its load, or has none, follows. *)
LEMMA Leaving ==
    ASSUME FlightInv, NEW c \in Callers, NEW r, Shaped(r),
           \/ r.pc = "idle"
           \/ r.pc \in {"lookup", "claim"} /\ r.k \in Keys
           \/ r.pc \in {"guard", "release"} /\ Like(caller[c], r) /\ caller[c].pc \in Joined
    PROVE  Follows(c, r)
<1>1. CallerOK(caller[c]) BY DEF FlightInv, Typed
<1>2. r.pc \notin Fetching \cup Holding \cup {"wait", "publish"} BY DEF Fetching, Holding
<1>3. CallerOK(r) BY <1>1, <1>2 DEF CallerOK, Like, Joined, Fetching
<1> QED BY <1>2, <1>3 DEF Follows, Flies

(* A request that fetches and goes on fetching follows. *)
LEMMA Fetches ==
    ASSUME FlightInv, NEW c \in Callers, NEW r, Like(caller[c], r),
           caller[c].pc \in Fetching, r.pc \in Fetching,
           r.pc \in Holding => r.val \in Versions
    PROVE  Follows(c, r)
<1>1. CallerOK(caller[c]) /\ (L1 => Flies(inflight, cells, struck, caller[c]))
      BY DEF FlightInv, Typed, Flights
<1>2. r.pc # "idle" /\ r.pc # "wait" /\ r.pc # "publish" /\ r.pc \in Joined /\ caller[c].pc \in Joined
      BY DEF Fetching, Joined
<1>3. caller[c].pc # "idle" BY DEF Fetching
<1>4. CallerOK(r) BY <1>1, <1>2, <1>3 DEF CallerOK, Like
<1>5. L1 => Flies(inflight, cells, struck, r)
      BY <1>1, <1>2 DEF Flies, Like, MineIn, SlotOf
<1> QED BY <1>4, <1>5 DEF Follows, Like

(* A load that has its value fills its cell, which no other request runs.  *)
LEMMA LoadedInv ==
    ASSUME FlightInv, NEW c \in Callers, caller[c].pc \in Fetching, NEW v \in Versions,
           Loaded(c, v), UNCHANGED <<inflight, struck, truth, now, scene>>,
           valkey' \in [Keys -> Entry \cup {None}]
    PROVE  FlightInv'
<1>0. Typed /\ CallerOK(caller[c]) /\ caller[c].pc \in Joined /\ caller[c].pc # "idle"
      BY DEF FlightInv, Typed, Joined, Fetching
<1>1. CASE ~L1
  <2>1. Turns(c, Answered(caller[c], v)) /\ UNCHANGED cells BY <1>1 DEF Loaded, Turns
  <2>2. Follows(c, Answered(caller[c], v)) BY AnsweredOff, Leaving
  <2> QED BY <2>1, <2>2, FollowsInv
<1>2. CASE L1
  <2> DEFINE i == caller[c].cell
             r == WithVal(caller[c], "publish", v)
  <2>0. r = WithVal(caller[c], "publish", v) OBVIOUS
  <2>1. Turns(c, r) /\ cells' = [cells EXCEPT ![i] = v] BY <1>2 DEF Loaded, Turns, WithVal
  <2> HIDE DEF r
  <2>2. Like(caller[c], r) /\ r.pc = "publish" /\ r.val = v
    <3>1. Shaped(caller[c]) BY <1>0 DEF CallerOK
    <3> QED BY <2>0, <3>1, ReshapedVal
  <2>3. i \in Cells /\ v # None BY <1>0, <1>2, CachesAssumption DEF CallerOK
  <2>4. cells' \in [Cells -> Versions \cup {None}] /\ cells'[i] = v
        BY <1>0, <2>1, <2>3 DEF Typed
  <2>5. \A j \in Cells \ {i} : cells'[j] = cells[j] BY <1>0, <2>1 DEF Typed
  <2>6. r.pc \notin Fetching /\ r.pc # "idle" /\ r.pc # "wait" /\ r.pc \in Joined
        BY <2>2 DEF Fetching, Joined
  <2>7. CallerOK(r) BY <1>0, <2>2, <2>6 DEF CallerOK, Like
  <2>8. Flies(inflight', cells', struck', r) BY <2>2, <2>3, <2>4, <2>6 DEF Flies, Like
  <2>9. ASSUME NEW d \in Callers \ {c} PROVE Flies(inflight', cells', struck', caller[d])
    <3>1. Flies(inflight, cells, struck, caller[d]) /\ CallerOK(caller[d])
          BY <1>2 DEF FlightInv, Flights, Typed
    <3>2. ~(caller[d].pc \in Fetching /\ caller[d].cell = i)
          BY <1>2, <2>9 DEF FlightInv, Flights, OneRunner
    <3>3. caller[d].pc \in Joined => caller[d].cell \in Cells BY <1>2, <3>1 DEF CallerOK
    <3> QED BY <2>3, <2>4, <2>5, <3>1, <3>2, <3>3 DEF Flies, MineIn, Joined
  <2>10. Flights' BY <2>1, <2>6, <2>7, <2>8, <2>9, TurnsFlights
  <2>11. Typed' BY <1>0, <2>1, <2>4, <2>7, TurnsTyped DEF Typed, Turns
  <2> QED BY <2>10, <2>11 DEF FlightInv
<1> QED BY <1>1, <1>2

-----------------------------------------------------------------------------
(* The steps of a request. *)

LEMMA BeginInv ==
    ASSUME FlightInv, NEW c \in Callers, NEW k \in Keys, begin_lookup(c, k) PROVE FlightInv'
<1>0. Typed BY DEF FlightInv
<1>1. PICK r : /\ Turns(c, r) /\ Shaped(r) /\ r.k = k
               /\ r.pc = IF L1 THEN "lookup" ELSE "l2get"
  <2> DEFINE st == Max2(floor[k].own, floor[k].parent)
             g1 == IF L1 THEN snapshot(gens.l1, k) ELSE None
             g2 == IF L1 THEN None ELSE snapshot(gens.l2, k)
             p == IF L1 THEN "lookup" ELSE "l2get"
             r == [pc |-> p, k |-> k, g1 |-> g1, g2 |-> g2, cell |-> None, val |-> None, start |-> st]
  <2>1. Turns(c, r) BY DEF begin_lookup, Turns
  <2> HIDE DEF st, g1, g2
  <2>2. Shaped(r) /\ r.k = k /\ r.pc = p BY DEF Shaped
  <2> QED BY <2>1, <2>2
<1>2. CASE L1
  <2>1. Follows(c, r) BY <1>1, <1>2, Leaving
  <2> QED BY <1>0, <1>1, <2>1, FollowsInv DEF begin_lookup, l1vars, l2vars, Typed
<1>3. CASE ~L1
  <2>1. CallerOK(r) BY <1>1, <1>3 DEF CallerOK, Holding
  <2>2. Typed' BY <1>0, <1>1, <2>1, TurnsTyped DEF begin_lookup, l1vars, l2vars, Typed
  <2>3. Flights' BY <1>1, <1>3 DEF Turns, Flights, L1
  <2> QED BY <2>2, <2>3 DEF FlightInv
<1> QED BY <1>2, <1>3

LEMMA LeavingInv ==
    ASSUME FlightInv, NEW c \in Callers, lookup(c) \/ drop_refs(c) \/ cancel(c) \/ read_failed(c)
    PROVE  FlightInv'
<1>0. Typed /\ CallerOK(caller[c]) /\ Shaped(caller[c]) BY DEF FlightInv, Typed, CallerOK
<1>1. /\ UNCHANGED <<inflight, cells, struck, truth, now, scene>>
      /\ valkey' = valkey \/ valkey' = Cut(caller[c].k)
      BY DEF lookup, drop_refs, cancel, read_failed, l1vars, l2vars
<1>2. valkey' \in [Keys -> Entry \cup {None}] BY <1>0, <1>1 DEF Cut, Typed, Entry
<1>3. PICK r : Turns(c, r) /\ Follows(c, r)
  <2>1. CASE \E v : caller' = [caller EXCEPT ![c] = Answered(caller[c], v)]
    <3>1. PICK v : caller' = [caller EXCEPT ![c] = Answered(caller[c], v)] BY <2>1
    <3>2. Follows(c, Answered(caller[c], v)) BY AnsweredOff, Leaving
    <3> QED BY <1>1, <3>1, <3>2 DEF Turns
  <2>2. CASE lookup(c) /\ caller' = [caller EXCEPT ![c] = [caller[c] EXCEPT !.pc = "claim"]]
    <3> DEFINE r == WithPc(caller[c], "claim")
    <3>0. r = WithPc(caller[c], "claim") OBVIOUS
    <3>1. Turns(c, r) BY <1>1, <2>2 DEF Turns, WithPc
    <3> HIDE DEF r
    <3>2. Like(caller[c], r) /\ r.pc = "claim" BY <1>0, <3>0, ReshapedPc
    <3>3. caller[c].k \in Keys BY <1>0, <2>2 DEF lookup, CallerOK
    <3>4. Follows(c, r) BY <3>2, <3>3, Leaving DEF Like
    <3> QED BY <3>1, <3>4
  <2>3. CASE /\ caller[c].pc \in Fetching \cup {"wait"}
             /\ caller' = [caller EXCEPT ![c] = [caller[c] EXCEPT !.pc = "guard", !.val = None]]
    <3> DEFINE r == WithVal(caller[c], "guard", None)
    <3>0. r = WithVal(caller[c], "guard", None) OBVIOUS
    <3>1. Turns(c, r) BY <1>1, <2>3 DEF Turns, WithVal
    <3> HIDE DEF r
    <3>2. Like(caller[c], r) /\ r.pc = "guard" BY <1>0, <3>0, ReshapedVal
    <3>3. caller[c].pc \in Joined BY <2>3 DEF Joined
    <3>4. Follows(c, r) BY <3>2, <3>3, Leaving DEF Like
    <3> QED BY <3>1, <3>4
  <2>4. lookup(c) => <2>1!1 \/ <2>2!1 BY DEF lookup
  <2>5. drop_refs(c) => <2>1!1 BY DEF drop_refs
  <2>6. cancel(c) \/ read_failed(c) => <2>1!1 \/ <2>3!1
        BY DEF cancel, read_failed, Abandon, Fetching
  <2> QED BY <2>1, <2>2, <2>3, <2>4, <2>5, <2>6
<1> QED BY <1>1, <1>2, <1>3, FollowsInv
(* A fetch that goes on, with or without a write to Valkey. *)
GoesOn(c, p, v) ==
    /\ p \in Fetching /\ (p \in Holding => v \in Versions)
    /\ (Turns(c, WithPc(caller[c], p)) /\ v = caller[c].val) \/ Turns(c, WithVal(caller[c], p, v))
    /\ UNCHANGED cells

LEMMA GoesOnInv ==
    ASSUME FlightInv, NEW c \in Callers, caller[c].pc \in Fetching,
           \/ \E p, v : GoesOn(c, p, v)
           \/ \E v \in Versions : Loaded(c, v),
           UNCHANGED <<inflight, struck, truth, now, scene>>,
           valkey' \in [Keys -> Entry \cup {None}]
    PROVE  FlightInv'
<1>0. Shaped(caller[c]) BY DEF FlightInv, Typed, CallerOK
<1>1. CASE \E v \in Versions : Loaded(c, v) BY <1>1, LoadedInv
<1>2. CASE \E p, v : GoesOn(c, p, v)
  <2>1. PICK p, v : GoesOn(c, p, v) BY <1>2
  <2>2. PICK r : /\ (r = WithPc(caller[c], p) /\ v = caller[c].val) \/ r = WithVal(caller[c], p, v)
                 /\ Turns(c, r)
        BY <2>1 DEF GoesOn
  <2>3. Like(caller[c], r) /\ r.pc = p /\ r.val = v
        BY <1>0, <2>2, ReshapedPc, ReshapedVal
  <2>4. Follows(c, r) BY <2>1, <2>3, Fetches DEF GoesOn
  <2> QED BY <2>1, <2>2, <2>4, FollowsInv DEF GoesOn
<1> QED BY <1>1, <1>2

LEMMA FetchingInv ==
    ASSUME FlightInv, NEW c \in Callers,
           \/ l2get(c) \/ read(c) \/ check(c) \/ write_index(c) \/ set(c)
           \/ recheck(c) \/ take_back(c)
    PROVE  FlightInv'
<1> DEFINE q == caller[c]
<1>0. Typed /\ CallerOK(q) BY DEF FlightInv, Typed
<1>1. q.pc \in Fetching /\ q.k \in Keys /\ (q.pc \in Holding => q.val \in Versions)
  <2>1. q.pc \in Fetching
        BY DEF l2get, read, check, write_index, set, recheck, take_back, Fetching
  <2>2. q.pc # "idle" BY <2>1 DEF Fetching
  <2> QED BY <1>0, <2>1, <2>2 DEF CallerOK
<1>2. UNCHANGED <<inflight, struck, truth, now, scene>>
      BY DEF l2get, read, check, write_index, set, recheck, take_back
<1>3. truth \in Versions /\ [t \in Things |-> truth[t]] = truth BY <1>0 DEF Typed, Versions
<1>4. CASE l2get(c)
  <2>1. valkey' = valkey BY <1>4 DEF l2get, l2vars
  <2>2. CASE Unexpired(valkey[q.k]) /\ Loaded(c, valkey[q.k].val)
    <3>1. valkey[q.k] \in Entry BY <1>0, <1>1, <2>2 DEF Typed, Unexpired
    <3>2. valkey[q.k].val \in Versions BY <3>1 DEF Entry
    <3> QED BY <1>0, <1>1, <1>2, <2>1, <2>2, <3>2, GoesOnInv DEF Typed
  <2>3. CASE caller' = [caller EXCEPT ![c].pc = "read"] /\ UNCHANGED cells
    <3>1. GoesOn(c, "read", q.val)
          BY <1>2, <2>3 DEF GoesOn, Turns, WithPc, Fetching, Holding
    <3> QED BY <1>0, <1>1, <1>2, <2>1, <3>1, GoesOnInv DEF Typed
  <2> QED BY <1>4, <2>2, <2>3 DEF l2get
<1>5. CASE read(c)
  <2>1. valkey' = valkey BY <1>5 DEF read, l2vars
  <2>2. CASE Loaded(c, truth) BY <1>0, <1>1, <1>2, <1>3, <2>1, <2>2, GoesOnInv DEF Typed
  <2>3. CASE caller' = [caller EXCEPT ![c].pc = "check", ![c].val = truth] /\ UNCHANGED cells
    <3>1. GoesOn(c, "check", truth)
          BY <1>2, <1>3, <2>3 DEF GoesOn, Turns, WithVal, Fetching, Holding
    <3> QED BY <1>0, <1>1, <1>2, <2>1, <3>1, GoesOnInv DEF Typed
  <2> QED BY <1>3, <1>5, <2>2, <2>3 DEF read
<1>6. CASE check(c) \/ write_index(c) \/ set(c) \/ recheck(c) \/ take_back(c)
  <2>1. q.val \in Versions
        BY <1>1, <1>6 DEF check, write_index, set, recheck, take_back, Holding
  <2>2. valkey' \in [Keys -> Entry \cup {None}]
    <3>1. [val |-> q.val, till |-> now + TTL, cut |-> FALSE] \in Entry
          /\ [val |-> q.val, till |-> now + TTL, cut |-> TRUE] \in Entry
          BY <1>0, <2>1, TTLAssumption DEF Entry, Typed
    <3>3. \/ valkey' = valkey
          \/ valkey' = [valkey EXCEPT ![q.k] = [val |-> q.val, till |-> now + TTL, cut |-> FALSE]]
          \/ valkey' = [valkey EXCEPT ![q.k] = [val |-> q.val, till |-> now + TTL, cut |-> TRUE]]
          \/ valkey' = [valkey EXCEPT ![q.k] = None]
          \/ valkey' = Cut(q.k)
          BY <1>6 DEF check, write_index, set, recheck, take_back, l2vars
    <3>4. CASE valkey' = Cut(q.k) BY <1>0, <3>4 DEF Cut, Typed, Entry
    <3> QED BY <1>0, <3>1, <3>3, <3>4 DEF Typed
  <2>3. \/ Loaded(c, q.val)
        \/ \E p \in {"index", "set", "recheck", "takeback"} :
              caller' = [caller EXCEPT ![c].pc = p] /\ UNCHANGED cells
        BY <1>6 DEF check, write_index, set, recheck, take_back
  <2>4. ASSUME NEW p \in {"index", "set", "recheck", "takeback"},
               caller' = [caller EXCEPT ![c].pc = p], UNCHANGED cells
        PROVE  GoesOn(c, p, q.val)
        BY <1>2, <2>1, <2>4 DEF GoesOn, Turns, WithPc, Fetching
  <2> QED BY <1>1, <1>2, <2>1, <2>2, <2>3, <2>4, GoesOnInv
<1> QED BY <1>4, <1>5, <1>6

(* A request that finds its cell empty and not run becomes its runner. *)
LEMMA WaitInv ==
    ASSUME FlightInv, NEW c \in Callers, wait(c) PROVE FlightInv'
<1> DEFINE i == caller[c].cell
<1>0. Typed /\ CallerOK(caller[c]) /\ Shaped(caller[c]) /\ caller[c].pc = "wait"
      BY DEF FlightInv, Typed, CallerOK, wait
<1>1. /\ UNCHANGED <<inflight, cells, struck, truth, now, scene, valkey>>
      /\ valkey' \in [Keys -> Entry \cup {None}]
      BY <1>0 DEF wait, l1vars, l2vars, Typed
<1>2. caller[c].k \in Keys /\ (L1 => i \in Cells) BY <1>0 DEF CallerOK, Joined
<1>3. CASE cells[i] # None /\ caller' = [caller EXCEPT ![c].pc = "publish", ![c].val = cells[i]]
  <2> DEFINE r == WithVal(caller[c], "publish", cells[i])
  <2>0. r = WithVal(caller[c], "publish", cells[i]) OBVIOUS
  <2>1. Turns(c, r) BY <1>1, <1>3 DEF Turns, WithVal
  <2> HIDE DEF r
  <2>2. Like(caller[c], r) /\ r.pc = "publish" /\ r.val = cells[i]
        BY <1>0, <2>0, ReshapedVal
  <2>3. r.pc \notin Fetching \cup Holding BY <2>2 DEF Fetching, Holding
  <2>4. CallerOK(r) BY <1>2, <2>2, <2>3 DEF CallerOK, Like
  <2>5. Flies(inflight, cells, struck, r) BY <1>3, <2>2, <2>3 DEF Flies, Like
  <2>6. Follows(c, r) BY <2>3, <2>4, <2>5 DEF Follows
  <2> QED BY <1>1, <2>1, <2>6, FollowsInv
<1>4. CASE /\ cells[i] = None /\ ~ \E d \in Callers : Runs(d, i)
           /\ caller' = [caller EXCEPT ![c].pc = IF L2 THEN "l2get" ELSE "read",
                                       ![c].g2 = IF L2 THEN snapshot(gens.l2, caller[c].k) ELSE None]
  <2> DEFINE p == IF L2 THEN "l2get" ELSE "read"
             g == IF L2 THEN snapshot(gens.l2, caller[c].k) ELSE None
             r == WithGen(caller[c], p, g)
  <2>0. r = WithGen(caller[c], p, g) OBVIOUS
  <2>1. Turns(c, r) BY <1>1, <1>4 DEF Turns, WithGen
  <2>2. p \in Fetching /\ p \notin Holding /\ p \notin {"wait", "publish", "idle"}
        BY DEF Fetching, Holding
  <2> HIDE DEF r, p, g
  <2>3. Like(caller[c], r) /\ r.pc = p BY <1>0, <2>0, ReshapedGen
  <2>4. CallerOK(r) BY <1>2, <2>2, <2>3 DEF CallerOK, Like
  <2>5. L1 => Flies(inflight, cells, struck, r)
    <3> SUFFICES ASSUME L1 PROVE Flies(inflight, cells, struck, r) OBVIOUS
    <3>1. Flies(inflight, cells, struck, caller[c]) BY DEF FlightInv, Flights
    <3> QED BY <1>0, <1>4, <2>2, <2>3, <3>1 DEF Flies, Like, MineIn, SlotOf
  <2>6. \A d \in Callers \ {c} : ~(caller[d].pc \in Fetching /\ caller[d].cell = r.cell)
        BY <1>4, <2>3 DEF Runs, Holds, Like
  <2>7. L1 => \A d \in Callers \ {c} : Flies(inflight, cells, struck, caller[d])
        BY DEF FlightInv, Flights
  <2>8. Flights' BY <1>1, <2>1, <2>4, <2>5, <2>6, <2>7, TurnsFlights
  <2>9. Typed' BY <1>0, <1>1, <2>1, <2>4, TurnsTyped DEF Typed
  <2> QED BY <2>8, <2>9 DEF FlightInv
<1> QED BY <1>3, <1>4 DEF wait

LEMMA ClaimInv ==
    ASSUME FlightInv, NEW c \in Callers, claim(c) PROVE FlightInv'
<1> DEFINE q == caller[c]
           s == SlotOf(q)
<1>0. Typed /\ CallerOK(q) /\ Shaped(q) /\ q.pc = "claim" /\ q.k \in Keys /\ s = Slot(c)
      BY DEF FlightInv, Typed, CallerOK, claim, Slot, SlotOf
<1>1. UNCHANGED <<truth, now, scene, valkey>> BY DEF claim, l2vars
<1>2. PICK i : /\ i \in Cells
               /\ Turns(c, WithCell(q, "wait", i))
               /\ \/ /\ s \in DOMAIN inflight /\ i = inflight[s]
                     /\ UNCHANGED <<inflight, cells, struck>>
                  \/ /\ s \notin DOMAIN inflight /\ ~ \E d \in Callers : Holds(d, i)
                     /\ inflight' = [x \in DOMAIN inflight \cup {s} |-> IF x = s THEN i ELSE inflight[x]]
                     /\ cells' = [cells EXCEPT ![i] = None] /\ struck' = struck \ {i}
  <2> DEFINE free == {i \in Cells : i \notin Range(inflight) /\ ~ \E d \in Callers : Holds(d, i)}
             fresh == CHOOSE i \in free : TRUE
  <2>1. CASE s \in DOMAIN inflight
    <3>1. inflight[s] \in Cells BY <1>0, <2>1 DEF Typed
    <3>2. Turns(c, WithCell(q, "wait", inflight[s])) /\ UNCHANGED <<inflight, cells, struck>>
          BY <1>0, <1>1, <2>1 DEF claim, Turns, WithCell
    <3> QED BY <2>1, <3>1, <3>2
  <2>2. CASE s \notin DOMAIN inflight
    <3>1. /\ free # {} /\ Turns(c, WithCell(q, "wait", fresh))
          /\ inflight' = [x \in DOMAIN inflight \cup {s} |-> IF x = s THEN fresh ELSE inflight[x]]
          /\ cells' = [cells EXCEPT ![fresh] = None] /\ struck' = struck \ {fresh}
          BY <1>0, <1>1, <2>2 DEF claim, Turns, WithCell
    <3>2. fresh \in free BY <3>1
    <3>3. fresh \in Cells /\ ~ \E d \in Callers : Holds(d, fresh) BY <3>2
    <3> HIDE DEF fresh
    <3> QED BY <2>2, <3>1, <3>3
  <2> QED BY <2>1, <2>2
<1> DEFINE r == WithCell(q, "wait", i)
<1>3. r = WithCell(q, "wait", i) OBVIOUS
<1> HIDE DEF r
<1>4. Shaped(r) /\ r.pc = "wait" /\ r.cell = i /\ r.k = q.k /\ r.g1 = q.g1
      BY <1>0, <1>3, ReshapedCell
<1>5. Turns(c, r) BY <1>2, <1>3
<1>6. SlotOf(r) = s BY <1>4 DEF SlotOf
<1>7. CallerOK(r) BY <1>0, <1>2, <1>4 DEF CallerOK, Holding
<1>8. MineIn(inflight', r)
  <2>1. s \in DOMAIN inflight' /\ inflight'[s] = i BY <1>2
  <2> QED BY <1>4, <1>6, <2>1 DEF MineIn
<1>9. Flies(inflight', cells', struck', r) BY <1>4, <1>8 DEF Flies, Fetching
<1>10. ASSUME L1, NEW d \in Callers \ {c} PROVE Flies(inflight', cells', struck', caller[d])
  <2>1. Flies(inflight, cells, struck, caller[d]) /\ CallerOK(caller[d])
        BY <1>10 DEF FlightInv, Flights, Typed
  <2>2. CASE UNCHANGED <<inflight, cells, struck>> BY <2>1, <2>2
  <2>3. CASE /\ s \notin DOMAIN inflight /\ ~Holds(d, i)
             /\ inflight' = [x \in DOMAIN inflight \cup {s} |-> IF x = s THEN i ELSE inflight[x]]
             /\ cells' = [cells EXCEPT ![i] = None] /\ struck' = struck \ {i}
    <3>1. caller[d].cell # i BY <2>3 DEF Holds
    <3>2. caller[d].pc \in Joined => caller[d].cell \in Cells BY <1>10, <2>1 DEF CallerOK
    <3>3. caller[d].pc \in Joined => cells'[caller[d].cell] = cells[caller[d].cell]
          BY <1>0, <2>3, <3>1, <3>2 DEF Typed
    <3>4. MineIn(inflight, caller[d]) => MineIn(inflight', caller[d]) BY <2>3 DEF MineIn
    <3>5. caller[d].cell \in struck => caller[d].cell \in struck' BY <2>3, <3>1
    <3> QED BY <2>1, <3>3, <3>4, <3>5 DEF Flies, Joined
  <2> QED BY <1>2, <1>10, <2>2, <2>3
<1>11. r.pc \notin Fetching BY <1>4 DEF Fetching
<1>12. Flights' BY <1>5, <1>7, <1>9, <1>10, <1>11, TurnsFlights
<1>13. Typed'
  <2>1. cells' \in [Cells -> Versions \cup {None}] BY <1>0, <1>2 DEF Typed
  <2>2. \A x \in DOMAIN inflight' : inflight'[x] \in Cells BY <1>0, <1>2 DEF Typed
  <2> QED BY <1>0, <1>1, <1>5, <1>7, <2>1, <2>2, TurnsTyped DEF Typed
<1> QED BY <1>12, <1>13 DEF FlightInv

(* A slot leaves the map: those that took part in its load must not need it. *)
LEMMA RemovingInv ==
    ASSUME FlightInv, NEW c \in Callers, NEW p \in {"guard", "release"}, caller[c].pc \in Joined,
           Turns(c, WithPc(caller[c], p)), UNCHANGED <<cells, struck, truth, now, valkey>>,
           \/ UNCHANGED inflight
           \/ /\ inflight' = Removed(inflight, {SlotOf(caller[c])})
              /\ L1 => \A d \in Callers \ {c} :
                    MineIn(inflight, caller[d]) /\ SlotOf(caller[d]) = SlotOf(caller[c])
                        => /\ caller[d].pc \notin Fetching
                           /\ caller[d].pc = "wait" => cells[caller[d].cell] # None
    PROVE  FlightInv'
<1> DEFINE q == caller[c]
           r == WithPc(q, p)
<1>0. Typed /\ CallerOK(q) /\ Shaped(q) BY DEF FlightInv, Typed, CallerOK
<1>1. r = WithPc(q, p) /\ Turns(c, r) OBVIOUS
<1> HIDE DEF r
<1>2. Like(q, r) /\ r.pc = p BY <1>0, <1>1, ReshapedPc
<1>3. Follows(c, r) BY <1>2, Leaving DEF Like
<1>4. r.pc \notin Fetching /\ r.pc \notin {"wait", "publish"} BY <1>2 DEF Fetching
<1>5. CASE UNCHANGED inflight BY <1>0, <1>1, <1>3, <1>5, FollowsInv DEF Typed
<1>6. CASE /\ inflight' = Removed(inflight, {SlotOf(q)})
           /\ L1 => \A d \in Callers \ {c} :
                  MineIn(inflight, caller[d]) /\ SlotOf(caller[d]) = SlotOf(q)
                      => /\ caller[d].pc \notin Fetching
                         /\ caller[d].pc = "wait" => cells[caller[d].cell] # None
  <2>1. \A x : x \in DOMAIN inflight' <=> x \in DOMAIN inflight /\ x # SlotOf(q)
        BY <1>6 DEF Removed, Restrict
  <2>2. \A x \in DOMAIN inflight' : inflight'[x] = inflight[x] BY <1>6, <2>1 DEF Removed, Restrict
  <2>3. ASSUME L1, NEW d \in Callers \ {c} PROVE Flies(inflight', cells', struck', caller[d])
    <3>1. Flies(inflight, cells, struck, caller[d]) BY <2>3 DEF FlightInv, Flights
    <3>2. CASE MineIn(inflight, caller[d]) /\ SlotOf(caller[d]) = SlotOf(q)
          BY <1>6, <2>3, <3>1, <3>2 DEF Flies
    <3>3. CASE ~(MineIn(inflight, caller[d]) /\ SlotOf(caller[d]) = SlotOf(q))
      <4>1. MineIn(inflight, caller[d]) => MineIn(inflight', caller[d])
            BY <2>1, <2>2, <3>3 DEF MineIn
      <4> QED BY <3>1, <4>1 DEF Flies
    <3> QED BY <3>2, <3>3
  <2>4. L1 => Flies(inflight', cells', struck', r) BY <1>4 DEF Flies
  <2>5. CallerOK(r) BY <1>3 DEF Follows
  <2>6. Flights' BY <1>1, <1>4, <2>3, <2>4, <2>5, TurnsFlights
  <2>7. Typed' BY <1>0, <1>1, <2>1, <2>2, <2>5, TurnsTyped DEF Typed, Turns
  <2> QED BY <2>6, <2>7 DEF FlightInv
<1> QED BY <1>5, <1>6

(* The value of a load is in its cell before its slot goes. *)
LEMMA PublishInv ==
    ASSUME FlightInv, NEW c \in Callers, publish(c) PROVE FlightInv'
<1> DEFINE q == caller[c]
<1>1. /\ q.pc = "publish" /\ UNCHANGED <<cells, struck, truth, now, valkey, scene>>
      /\ caller' = [caller EXCEPT ![c].pc = "guard"]
      BY DEF publish, l2vars
<1>2. Turns(c, WithPc(q, "guard")) /\ q.pc \in Joined BY <1>1 DEF Turns, WithPc, Joined
<1>3. \/ UNCHANGED inflight
      \/ MineIn(inflight, q) /\ inflight' = Removed(inflight, {SlotOf(q)})
      BY DEF publish, Mine, Slot, MineIn, SlotOf
<1>4. ASSUME L1, MineIn(inflight, q), NEW d \in Callers,
             MineIn(inflight, caller[d]), SlotOf(caller[d]) = SlotOf(q)
      PROVE  caller[d].pc \notin Fetching /\ (caller[d].pc = "wait" => cells[caller[d].cell] # None)
  <2>1. caller[d].cell = q.cell BY <1>4 DEF MineIn
  <2>2. cells[q.cell] # None BY <1>1, <1>4 DEF FlightInv, Flights, Flies
  <2>3. Flies(inflight, cells, struck, caller[d]) BY <1>4 DEF FlightInv, Flights
  <2> QED BY <2>1, <2>2, <2>3 DEF Flies
<1> QED BY <1>1, <1>2, <1>3, <1>4, RemovingInv

(* Two that hold a cell count for more than the guard that leaves last. *)
LEMMA TwoHolders ==
    ASSUME NEW c \in Callers, NEW d \in Callers, c # d, NEW i, i \in Range(inflight),
           Holds(c, i), Holds(d, i)
    PROVE  ~(strong_count(i) <= IDLE_CELL_REFS)
<1> DEFINE H == {x \in Callers : Holds(x, i)}
<1>1. IsFiniteSet(H) BY CachesAssumption, FS_Subset
<1>2. Cardinality(H) \in Nat BY <1>1, FS_CardinalityType
<1>3. IsFiniteSet({c}) /\ Cardinality({c}) = 1 BY FS_Singleton
<1>4. Cardinality({c} \cup {d}) = 2
  <2> DEFINE S == {c}
  <2>1. d \notin S /\ IsFiniteSet(S) /\ Cardinality(S) = 1 BY <1>3
  <2> HIDE DEF S
  <2>2. Cardinality(S \cup {d}) = IF d \in S THEN Cardinality(S) ELSE Cardinality(S) + 1
        BY <2>1, FS_AddElement
  <2>3. Cardinality(S \cup {d}) = 2 BY <2>1, <2>2
  <2> QED BY <2>3 DEF S
<1>5. {c} \cup {d} \subseteq H OBVIOUS
<1>6. 2 <= Cardinality(H) BY <1>1, <1>4, <1>5, FS_Subset
<1> HIDE DEF H
<1>7. strong_count(i) = 1 + 2 * Cardinality(H) BY DEF strong_count, H
<1> QED BY <1>2, <1>6, <1>7 DEF IDLE_CELL_REFS

LEMMA GuardInv ==
    ASSUME FlightInv, NEW c \in Callers, guard(c) PROVE FlightInv'
<1> DEFINE q == caller[c]
<1>1. /\ q.pc = "guard" /\ UNCHANGED <<cells, struck, truth, now, valkey, scene>>
      /\ caller' = [caller EXCEPT ![c].pc = "release"]
      BY DEF guard, l2vars
<1>2. Turns(c, WithPc(q, "release")) /\ q.pc \in Joined BY <1>1 DEF Turns, WithPc, Joined
<1>3. \/ UNCHANGED inflight
      \/ /\ MineIn(inflight, q) /\ strong_count(q.cell) <= IDLE_CELL_REFS
         /\ inflight' = Removed(inflight, {SlotOf(q)})
      BY DEF guard, Mine, Slot, MineIn, SlotOf
<1>4. ASSUME MineIn(inflight, q), strong_count(q.cell) <= IDLE_CELL_REFS, NEW d \in Callers \ {c}
      PROVE  ~(MineIn(inflight, caller[d]) /\ SlotOf(caller[d]) = SlotOf(q))
  <2>1. q.cell \in Range(inflight) BY <1>4 DEF MineIn, Range
  <2>2. caller[d].cell # q.cell BY <1>4, <2>1, TwoHolders DEF Holds
  <2> QED BY <1>4, <2>2 DEF MineIn
<1> QED BY <1>1, <1>2, <1>3, <1>4, RemovingInv

-----------------------------------------------------------------------------
(* The steps of an invalidation, of the clock and of the cleanup. *)

LEMMA StrikeInv ==
    ASSUME FlightInv, NEW i, drop_inflight(i) PROVE FlightInv'
<1> DEFINE hit == {s \in DOMAIN inflight : MatchesL1(inv[i].scope, s.k)}
<1>0. Typed BY DEF FlightInv
<1>1. /\ UNCHANGED <<caller, cells, truth, now, valkey, scene>>
      /\ inflight' = Removed(inflight, hit)
      /\ struck' = struck \cup {inflight[s] : s \in hit}
      BY DEF drop_inflight, l2vars
<1> HIDE DEF hit
<1>2. \A x : x \in DOMAIN inflight' <=> x \in DOMAIN inflight /\ x \notin hit
      BY <1>1 DEF Removed, Restrict
<1>3. \A x \in DOMAIN inflight' : inflight'[x] = inflight[x] BY <1>1, <1>2 DEF Removed, Restrict
<1>4. L1' = L1 BY <1>1 DEF L1
<1>5. ASSUME L1, NEW c \in Callers PROVE Flies(inflight', cells', struck', caller'[c])
  <2>1. Flies(inflight, cells, struck, caller[c]) BY <1>5 DEF FlightInv, Flights
  <2>2. MineIn(inflight, caller[c]) => MineIn(inflight', caller[c]) \/ caller[c].cell \in struck'
        BY <1>1, <1>2, <1>3 DEF MineIn
  <2> QED BY <1>1, <2>1, <2>2 DEF Flies
<1>6. Flights' BY <1>1, <1>4, <1>5 DEF FlightInv, Flights, OneRunner
<1>7. Typed' BY <1>0, <1>1, <1>2, <1>3, <1>4 DEF Typed, CallerOK
<1> QED BY <1>6, <1>7 DEF FlightInv
(* What is neither a request nor the in-flight map leaves the loads alone. *)
LEMMA OutsideInv ==
    ASSUME FlightInv, UNCHANGED <<caller, inflight, cells, struck, scene>>,
           truth' \in Versions, now' \in Nat, valkey' \in [Keys -> Entry \cup {None}]
    PROVE  FlightInv'
<1>1. L1' = L1 BY DEF L1
<1> QED BY <1>1 DEF FlightInv, Typed, CallerOK, Flights, OneRunner

LEMMA InvalidationInv ==
    ASSUME FlightInv, NEW i,
           \/ \E s, t : change(i, s, t)
           \/ bump_l2(i) \/ smembers(i) \/ del_members(i) \/ del_index(i) \/ inv_failed(i)
           \/ bump_l1(i) \/ drop_entries(i) \/ drop_values(i)
           \/ \E k \in Keys : scan(i, k)
           \/ cleanup_expired \/ tick \/ UNCHANGED vars
    PROVE  FlightInv'
<1>0. Typed BY DEF FlightInv
<1>1. UNCHANGED <<caller, inflight, cells, struck, scene>>
      BY DEF change, bump_l2, smembers, del_members, del_index, inv_failed, bump_l1,
             drop_entries, drop_values, scan, cleanup_expired, tick, vars, l1vars
<1>2. UNCHANGED truth \/ \E t : truth' = [truth EXCEPT ![t] = @ + 1]
      BY DEF change, bump_l2, smembers, del_members, del_index, inv_failed, bump_l1,
             drop_entries, drop_values, scan, cleanup_expired, tick, vars
<1>3. truth' \in Versions BY <1>0, <1>2 DEF Typed, Versions
<1>4. now' = now \/ now' = now + 1
      BY DEF change, bump_l2, smembers, del_members, del_index, inv_failed, bump_l1,
             drop_entries, drop_values, scan, cleanup_expired, tick, vars
<1>5. \/ UNCHANGED valkey
      \/ \E k \in Keys : valkey' = [valkey EXCEPT ![k] = None]
      \/ \E M : valkey' = [k \in Keys |-> IF k \in M THEN None ELSE valkey[k]]
      BY DEF change, bump_l2, smembers, del_members, del_index, inv_failed, bump_l1,
             drop_entries, drop_values, scan, cleanup_expired, tick, vars, l2vars
<1>6. valkey' \in [Keys -> Entry \cup {None}] BY <1>0, <1>5 DEF Typed
<1>7. now' \in Nat BY <1>0, <1>4 DEF Typed
<1> QED BY <1>1, <1>3, <1>6, <1>7, OutsideInv

LEMMA NextFlights ==
    ASSUME FlightInv, [Next]_vars PROVE FlightInv'
<1>0. scene.callers \subseteq Callers /\ scene.keys \subseteq Keys
      BY CachesAssumption DEF FlightInv, Typed
<1>1. CASE \E c \in scene.callers, k \in scene.keys : begin_lookup(c, k) BY <1>0, <1>1, BeginInv
<1>2. CASE \E c \in scene.callers :
              \/ lookup(c) \/ claim(c) \/ wait(c) \/ publish(c) \/ guard(c) \/ drop_refs(c) \/ cancel(c)
              \/ l2get(c) \/ read(c) \/ check(c) \/ write_index(c) \/ set(c) \/ recheck(c) \/ take_back(c)
              \/ read_failed(c)
      BY <1>0, <1>2, LeavingInv, ClaimInv, WaitInv, PublishInv, GuardInv, FetchingInv
<1>3. CASE \E i \in scene.invs : drop_inflight(i) BY <1>3, StrikeInv
<1>4. CASE \/ \E i \in scene.invs : \E s \in scene.scopes : \E t \in ChangedBy(s) : change(i, s, t)
           \/ \E i \in scene.invs :
                 \/ bump_l2(i) \/ smembers(i) \/ del_members(i) \/ del_index(i) \/ inv_failed(i)
                 \/ bump_l1(i) \/ drop_entries(i) \/ drop_values(i)
                 \/ \E k \in Keys : scan(i, k)
           \/ cleanup_expired \/ tick \/ UNCHANGED vars
      BY <1>4, InvalidationInv
<1> QED BY <1>1, <1>2, <1>3, <1>4 DEF Next

LEMMA InitFlights == Init => FlightInv
<1> SUFFICES ASSUME Init PROVE FlightInv OBVIOUS
<1>1. \A c \in Callers : caller[c] = Idle BY DEF Init
<1>2. Shaped(Idle) /\ Idle.pc = "idle" BY DEF Shaped, Idle
<1>3. \A c \in Callers : CallerOK(caller[c])
      BY <1>1, <1>2 DEF CallerOK, Holding, Joined, Fetching
<1>4. Typed
  <2>1. truth \in Versions /\ now \in Nat BY DEF Init, Versions
  <2>2. cells \in [Cells -> Versions \cup {None}] /\ valkey \in [Keys -> Entry \cup {None}]
        BY DEF Init
  <2>3. caller = [c \in Callers |-> caller[c]] /\ scene \in Scenes /\ DOMAIN inflight = {} BY DEF Init
  <2> QED BY <1>3, <2>1, <2>2, <2>3 DEF Typed
<1>5. Flights BY <1>1, <1>2 DEF Flights, OneRunner, Flies, Fetching
<1> QED BY <1>4, <1>5 DEF FlightInv

(* Two requests fetch one entry at once only if an invalidation struck one *)
(* of the two loads, for any number of requests that join, fail, are       *)
(* cancelled and leave at once: the last participant of a load, and only   *)
(* it, takes the slot with it.  (get_or_try_insert_with, InflightGuard)    *)
THEOREM OneFlight == Spec => []SingleFlight
<1>1. FlightInv /\ [Next]_vars => FlightInv' BY NextFlights
<1>2. FlightInv => SingleFlight
  <2> SUFFICES ASSUME FlightInv, NEW c \in Callers, NEW d \in Callers, L1, c # d,
                      caller[c].pc \in Fetching, caller[d].pc \in Fetching, Slot(c) = Slot(d),
                      caller[c].cell \notin struck, caller[d].cell \notin struck
               PROVE  FALSE
      BY DEF SingleFlight
  <2>1. MineIn(inflight, caller[c]) /\ MineIn(inflight, caller[d]) BY DEF FlightInv, Flights, Flies
  <2>2. caller[c].cell = caller[d].cell BY <2>1 DEF MineIn, SlotOf, Slot
  <2> QED BY <2>2 DEF FlightInv, Flights, OneRunner
<1> QED BY <1>1, <1>2, InitFlights, PTL DEF Spec
=============================================================================
