------------------------------- MODULE LruMap -------------------------------
(***************************************************************************)
(* The LRU map of axess-cache/src/lru.rs: a map from key to slot and a     *)
(* doubly linked list, threaded through a slab by index, from the most to  *)
(* the least recently used.  Freed slots are chained through `free`.       *)
(***************************************************************************)
EXTENDS Naturals, Sequences, SequencesExt, FiniteSets, Functions, TLC

NIL == 0
New == [map |-> [k \in {} |-> NIL], slab |-> << >>, head |-> NIL, tail |-> NIL, free |-> NIL]

Live(key, value) == [key |-> key, value |-> value, prev |-> NIL, next |-> NIL]
Free(next) == [next_free |-> next]

(* Bug: the tail stays where it was. *)
unlink_keeping_tail(m, i) ==
    LET p == m.slab[i].prev
        n == m.slab[i].next
        bridged == [j \in DOMAIN m.slab |->
                      IF j = p THEN [m.slab[j] EXCEPT !.next = n]
                      ELSE IF j = n THEN [m.slab[j] EXCEPT !.prev = p] ELSE m.slab[j]]
    IN  [m EXCEPT !.slab = bridged, !.head = IF p = NIL THEN n ELSE @]

unlink(m, i) ==
    LET p == m.slab[i].prev
        n == m.slab[i].next
        bridged == [j \in DOMAIN m.slab |->
                      IF j = p THEN [m.slab[j] EXCEPT !.next = n]
                      ELSE IF j = n THEN [m.slab[j] EXCEPT !.prev = p] ELSE m.slab[j]]
    IN  [m EXCEPT !.slab = bridged, !.head = IF p = NIL THEN n ELSE @, !.tail = IF n = NIL THEN p ELSE @]

push_front(m, i) ==
    LET h == m.head
        linked == [j \in DOMAIN m.slab |->
                     IF j = i THEN [m.slab[j] EXCEPT !.prev = NIL, !.next = h]
                     ELSE IF j = h THEN [m.slab[j] EXCEPT !.prev = i] ELSE m.slab[j]]
    IN  [m EXCEPT !.slab = linked, !.head = i, !.tail = IF h = NIL THEN i ELSE @]

(* alloc puts the node into a freed slot if there is one. *)
Allocated(m) == IF m.free = NIL THEN Len(m.slab) + 1 ELSE m.free
alloc(m, node) ==
    IF m.free = NIL THEN [m EXCEPT !.slab = Append(@, node)]
    ELSE [m EXCEPT !.free = m.slab[m.free].next_free, !.slab[m.free] = node]

release(m, i) == [m EXCEPT !.slab[i] = Free(m.free), !.free = i]
Unmapped(m, k) == [m EXCEPT !.map = Restrict(@, DOMAIN @ \ {k})]

evict_tail(m) ==
    IF m.tail = NIL THEN m
    ELSE Unmapped(release(unlink(m, m.tail), m.tail), m.slab[m.tail].key)

Touched(m, i) == push_front(unlink(m, i), i)

get(m, k) == IF k \in DOMAIN m.map THEN Touched(m, m.map[k]) ELSE m
ValueOf(m, k) == m.slab[m.map[k]].value

put(m, k, v, cap) ==
    IF k \in DOMAIN m.map
    THEN Touched([m EXCEPT !.slab[m.map[k]].value = v], m.map[k])
    ELSE LET room == IF Cardinality(DOMAIN m.map) >= cap THEN evict_tail(m) ELSE m
             i == Allocated(room)
         IN  [push_front(alloc(room, Live(k, v)), i) EXCEPT !.map = (k :> i) @@ @]

pop(m, k) ==
    IF k \notin DOMAIN m.map THEN m
    ELSE release(unlink(Unmapped(m, k), m.map[k]), m.map[k])

(* pop of each key in K, in the order of the list. *)
iter(m) ==
    LET walk[n \in 0 .. Len(m.slab)] ==
            IF n = 0 THEN << >>
            ELSE LET seen == walk[n - 1]
                     at == IF seen = << >> THEN m.head ELSE m.slab[seen[Len(seen)]].next
                 IN  IF at = NIL THEN seen ELSE Append(seen, at)
    IN  [n \in DOMAIN walk[Len(m.slab)] |-> m.slab[walk[Len(m.slab)][n]].key]
popAll(m, K) == FoldLeft(pop, m, SelectSeq(iter(m), LAMBDA k: k \in K))

(* The list from head to tail holds the keys of the map, in the order      *)
(* `recent`, its back links mirror its links, and every other slot is on   *)
(* the free chain, once.                                                   *)
Sound(m, recent, cap) ==
    LET n == Len(m.slab)
        chain[j \in 0 .. n] ==
            IF j = 0 THEN {} ELSE chain[j - 1] \cup
                ({IF j = 1 THEN m.free ELSE NIL} \ {NIL})
                \cup {m.slab[i].next_free : i \in {x \in chain[j - 1] : m.slab[x].next_free # NIL}}
    IN  /\ iter(m) = recent
        /\ ToSet(recent) = DOMAIN m.map
        /\ Len(recent) = Cardinality(DOMAIN m.map) /\ Len(recent) <= cap /\ n <= cap
        /\ \A k \in DOMAIN m.map : m.slab[m.map[k]].key = k
        /\ (recent = << >>) = (m.tail = NIL)
        /\ recent # << >> => m.tail = m.map[Last(recent)] /\ m.head = m.map[Head(recent)]
        /\ \A i \in 1 .. Len(recent) :
              m.slab[m.map[recent[i]]].prev = IF i = 1 THEN NIL ELSE m.map[recent[i - 1]]
        /\ chain[n] = (1 .. n) \ Range(m.map)
=============================================================================
