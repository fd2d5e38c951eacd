---------------------------- MODULE ReloadProofs ----------------------------
(***************************************************************************)
(* Proofs about Reload, for every number of instances, policies, keys and  *)
(* revisions, every channel capacity and every scene.                      *)
(***************************************************************************)
EXTENDS Reload, TLAPS

Tasks == {"follower", "caller"}

(* Past its swap, a task holds the reload lock. *)
Held == {"hooks", "scan", "announce"}

TaskType ==
    [pc : {"off", "wait", "load", "compare", "reload", "hooks", "scan", "announce"},
     bundle : Policies \cup {None}, hook : 0 .. Len(Hooks)]

LoadType ==
    [pc : {"idle", "read", "publish", "check", "set", "recheck", "takeback"}, cache : {"local", "valkey"},
     key : Entries \cup {None}, policy : Valid \cup {None}, current : BOOLEAN]

EntryType == [by : Nodes \X Requests, policy : Valid, cut : BOOLEAN]

TasksOK == task \in [Nodes -> [follower : TaskType, caller : TaskType]]

(* A load that has read the provider knows its policy, and one of Valkey   *)
(* its key.                                                                *)
Writing == {"check", "set", "recheck", "takeback"}
LoadOK(l) ==
    /\ l \in LoadType
    /\ l.pc = "publish" => l.cache = "local" /\ l.policy \in Valid
    /\ l.pc \in Writing => l.cache = "valkey" /\ l.policy \in Valid /\ l.key \in Entries
    /\ l.cache = "valkey" => l.key \in Entries

CachesOK ==
    /\ cached \in [Nodes -> SUBSET Valid]
    /\ valkey \in [Entries -> EntryType \cup {None}]
    /\ due \in [Nodes -> SUBSET {k \in Entries : valkey[k] # None}]
    /\ load \in [Nodes -> [Requests -> LoadType]]
    /\ dropped \in [Nodes -> SUBSET {"local", "valkey"}]
    /\ \A n \in Nodes, r \in Requests : LoadOK(load[n][r])

(* The part of CachesFollowPolicy that a load in flight needs: what it     *)
(* will store, if its generation is still current, was built under the     *)
(* policy in force.                                                        *)
LocalFollows ==
    \A n \in Nodes : "local" \in dropped[n] =>
        /\ cached[n] \subseteq {evaluator[n]}
        /\ \A r \in Requests :
               load[n][r].pc = "publish" /\ load[n][r].current => load[n][r].policy = evaluator[n]

Scanning(n) == \E t \in Tasks : task[n][t].pc = "scan"

(* From the moment a drop has moved the generation on, what the node left  *)
(* in Valkey of a retired policy is on a page still to come, or owed.      *)
Left(n, r, k) == valkey[k] # None /\ valkey[k].by = <<n, r>> /\ valkey[k].policy # evaluator[n] /\ ~valkey[k].cut

ValkeyFollows ==
    \A n \in Nodes :
        /\ "valkey" \in dropped[n] => due[n] = {}
        /\ "valkey" \in dropped[n] \/ Scanning(n) =>
              \A r \in Requests :
                 /\ load[n][r].pc \in Writing /\ load[n][r].current => load[n][r].policy = evaluator[n]
                 /\ \A k \in Entries : Left(n, r, k) => k \in due[n] \/ Owes(n, r, k)

LoadsFollow == CachesOK /\ LocalFollows /\ ValkeyFollows

PolicyInv == PolicyTypeOK /\ TasksOK /\ LoadsFollow

-----------------------------------------------------------------------------
LEMMA ReceiverTypes ==
    ASSUME NEW capacity \in Nat, NEW r \in Receivers(capacity)
    PROVE  /\ subscribe \in Receivers(capacity) /\ closed(r) \in Receivers(capacity)
           /\ sent(r, capacity) \in Receivers(capacity)
           /\ waiting(r) => received(r) \in Receivers(capacity)
<1>0. 0 \in 0 .. capacity OBVIOUS
<1>1. subscribe \in Receivers(capacity) /\ closed(r) \in Receivers(capacity)
  <2>1. subscribe \in Receivers(capacity) BY <1>0 DEF Receivers, subscribe
  <2>2. \A q \in Receivers(capacity) : [q EXCEPT !.open = FALSE] \in Receivers(capacity) BY DEF Receivers
  <2> QED BY <2>1, <2>2 DEF closed
<1>2. sent(r, capacity) \in Receivers(capacity)
  <2>1. r.unread \in 0 .. capacity BY DEF Receivers
  <2>2. r.unread # capacity => r.unread + 1 \in 0 .. capacity BY <2>1
  <2> QED BY <2>1, <2>2 DEF Receivers, sent
<1>3. ASSUME waiting(r) PROVE received(r) \in Receivers(capacity)
  <2>1. r.unread \in 0 .. capacity /\ r.lagged \in BOOLEAN BY DEF Receivers
  <2>2. ~r.lagged => r.unread - 1 \in 0 .. capacity BY <1>3, <2>1 DEF waiting
  <2> QED BY <2>1, <2>2 DEF Receivers, received
<1> QED BY <1>1, <1>2, <1>3

LEMMA AnnouncedType ==
    ASSUME NEW capacity \in Nat, NEW S, NEW box \in [S -> Receivers(capacity)], NEW R
    PROVE  announced(box, R, capacity) \in [S -> Receivers(capacity)]
BY ReceiverTypes DEF announced

LEMMA TaskFields ==
    ASSUME TasksOK, NEW n \in Nodes, NEW t \in Tasks
    PROVE  task[n][t] \in TaskType
BY DEF TasksOK, Tasks

(* A step that sets one task of one instance. *)
Sets(n, t, k) == task' = [task EXCEPT ![n][t] = k]

LEMMA TaskSet ==
    ASSUME TasksOK, NEW n \in Nodes, NEW t \in Tasks, NEW k \in TaskType, Sets(n, t, k)
    PROVE  /\ TasksOK'
           /\ \A m \in Nodes, u \in Tasks :
                  task'[m][u] = IF m = n /\ u = t THEN k ELSE task[m][u]
BY DEF TasksOK, Tasks, Sets

(* What an action does to the tasks and the lock of an instance keeps the  *)
(* lock with the task that swaps.                                          *)
LockOK(tsk, lck) ==
    /\ lck \in [Nodes -> {None, "follower", "caller"}]
    /\ \A n \in Nodes, t \in Tasks : lck[n] = t <=> tsk[n][t].pc \in Held

LEMMA LockKept ==
    ASSUME PolicyInv, NEW n \in Nodes, NEW t \in Tasks, NEW k \in TaskType,
           Sets(n, t, k),
           \/ /\ lock' = lock
              /\ k.pc \in Held <=> task[n][t].pc \in Held
           \/ /\ lock[n] = None /\ k.pc \in Held
              /\ lock' = [lock EXCEPT ![n] = t]
           \/ /\ k.pc \notin Held
              /\ lock' = [lock EXCEPT ![n] = IF @ = t THEN None ELSE @]
    PROVE  TasksOK' /\ LockOK(task', lock')
<1>1. TasksOK /\ LockOK(task, lock) BY DEF PolicyInv, PolicyTypeOK, LockOK, Tasks, Held
<1>2. None \notin Tasks BY ValidAssumption DEF Tasks
<1>3. /\ TasksOK'
      /\ \A m \in Nodes, u \in Tasks : task'[m][u] = IF m = n /\ u = t THEN k ELSE task[m][u]
      BY <1>1, TaskSet
<1>4. lock' \in [Nodes -> {None, "follower", "caller"}] BY <1>1 DEF LockOK, Tasks
<1>5. ASSUME NEW m \in Nodes, NEW u \in Tasks
      PROVE  lock'[m] = u <=> task'[m][u].pc \in Held
  <2>1. lock[m] = u <=> task[m][u].pc \in Held BY <1>1 DEF LockOK
  <2>2. lock[n] = t <=> task[n][t].pc \in Held BY <1>1 DEF LockOK
  <2>3. CASE m # n
    <3>1. lock'[m] = lock[m] BY <1>1, <2>3 DEF LockOK
    <3> QED BY <1>3, <2>1, <2>3, <3>1
  <2>4. CASE m = n /\ u = t BY <1>1, <1>2, <1>3, <2>2, <2>4 DEF LockOK
  <2>5. CASE m = n /\ u # t BY <1>1, <1>2, <1>3, <2>1, <2>2, <2>5 DEF LockOK
  <2> QED BY <2>3, <2>4, <2>5
<1> QED BY <1>3, <1>4, <1>5 DEF LockOK

(* The rest of the invariant, once tasks and locks are in order. *)
LEMMA PolicyRest ==
    ASSUME TasksOK', LockOK(task', lock'), policy' \in Policies,
           evaluator' \in [Nodes -> Valid], inbox' \in [Nodes -> Receivers(Capacity)], LoadsFollow'
    PROVE  PolicyInv'
<1>1. \A n \in Nodes, t \in Tasks : task'[n][t] \in TaskType BY DEF TasksOK, Tasks
<1>2. \A k \in TaskType : /\ k.pc \in {"off", "wait", "load", "compare", "reload", "hooks", "scan", "announce"}
                          /\ k.bundle \in Policies \cup {None} /\ k.hook \in 0 .. Len(Hooks)
      BY DEF TaskType
<1> QED BY <1>1, <1>2 DEF PolicyInv, PolicyTypeOK, LockOK, Tasks, Held, LoadsFollow, CachesOK, LoadType, EntryType

LEMMA HooksLen == Len(Hooks) \in Nat /\ \A i \in 1 .. Len(Hooks) : Hooks[i] \in {"local", "valkey"}
BY ValidAssumption

LEMMA TaskTypes ==
    /\ Idle \in TaskType /\ Waiting \in TaskType
    /\ Idle.pc = "off" /\ Waiting.pc = "wait"
    /\ \A k \in TaskType : k = Idle \/ k = Waiting => k.pc \notin Held /\ k.pc # "scan"
    /\ \A b \in Policies, p \in {"reload", "compare"} :
           LET k == [Idle EXCEPT !.pc = p, !.bundle = b] IN k \in TaskType /\ k.pc = p
    /\ \A k \in TaskType, p \in {"load", "reload", "hooks", "scan", "announce"} :
           [k EXCEPT !.pc = p] \in TaskType /\ [k EXCEPT !.pc = p].pc = p
    /\ \A k \in TaskType, p \in {"hooks", "announce"}, i \in 0 .. Len(Hooks) :
           [k EXCEPT !.pc = p, !.hook = i] \in TaskType /\ [k EXCEPT !.pc = p, !.hook = i].pc = p
<1>1. 0 \in 0 .. Len(Hooks) BY HooksLen
<1>2. /\ Idle \in TaskType /\ Waiting \in TaskType
      /\ Idle.pc = "off" /\ Waiting.pc = "wait"
      BY <1>1 DEF Idle, Waiting, TaskType
<1>3. ASSUME NEW b \in Policies, NEW p \in {"reload", "compare"}
      PROVE  LET k == [Idle EXCEPT !.pc = p, !.bundle = b] IN k \in TaskType /\ k.pc = p
      BY <1>1 DEF Idle, TaskType
<1>4. ASSUME NEW k \in TaskType, NEW p \in {"load", "reload", "hooks", "scan", "announce"}
      PROVE  [k EXCEPT !.pc = p] \in TaskType /\ [k EXCEPT !.pc = p].pc = p
      BY DEF TaskType
<1>5. ASSUME NEW k \in TaskType, NEW p \in {"hooks", "announce"}, NEW i \in 0 .. Len(Hooks)
      PROVE  [k EXCEPT !.pc = p, !.hook = i] \in TaskType /\ [k EXCEPT !.pc = p, !.hook = i].pc = p
      BY DEF TaskType
<1>6. \A k \in TaskType : k = Idle \/ k = Waiting => k.pc \notin Held /\ k.pc # "scan"
      BY <1>2 DEF Held
<1> QED BY <1>2, <1>3, <1>4, <1>5, <1>6

(* What PolicyInv says of one instance. *)
LEMMA PolicyFacts ==
    ASSUME PolicyInv
    PROVE  /\ TasksOK /\ LoadsFollow /\ policy \in Policies
           /\ evaluator \in [Nodes -> Valid] /\ inbox \in [Nodes -> Receivers(Capacity)]
           /\ lock \in [Nodes -> {None, "follower", "caller"}]
           /\ CachesOK /\ LocalFollows /\ ValkeyFollows /\ Capacity \in Nat
           /\ \A n \in Nodes, t \in Tasks : lock[n] = t <=> task[n][t].pc \in Held
           /\ LockOK(task, lock)
BY ValidAssumption DEF PolicyInv, PolicyTypeOK, LockOK, Tasks, LoadsFollow, Held

(* A task goes to its next place, or ends. *)
LEMMA GoesSets ==
    ASSUME TasksOK, NEW n \in Nodes, NEW t \in Tasks
    PROVE  /\ \A p : Goes(n, t, p) <=> Sets(n, t, [task[n][t] EXCEPT !.pc = p])
           /\ Ends(n, t) <=> Sets(n, t, IF t = "follower" THEN Waiting ELSE Idle)
           /\ (IF t = "follower" THEN Waiting ELSE Idle) \in TaskType
           /\ (IF t = "follower" THEN Waiting ELSE Idle).pc \in {"off", "wait"}
BY TaskTypes DEF Goes, Ends, TasksOK, Tasks, Sets

-----------------------------------------------------------------------------
(* The steps of a reload. *)
NoNewScan == \A m \in Nodes, u \in Tasks : task'[m][u].pc = "scan" => task[m][u].pc = "scan"

LEMMA LoadsKept ==
    ASSUME LoadsFollow, UNCHANGED <<evaluator, cachevars>>, NoNewScan
    PROVE  LoadsFollow'
<1>1. CachesOK' /\ LocalFollows' BY DEF LoadsFollow, CachesOK, LocalFollows, cachevars
<1>2. \A m \in Nodes : Scanning(m)' => Scanning(m) BY DEF Scanning, NoNewScan
<1>3. \A n \in Nodes, r \in Requests, k \in Entries : Left(n, r, k)' = Left(n, r, k) /\ Owes(n, r, k)' = Owes(n, r, k)
      BY DEF Left, Owes, cachevars
<1>4. ValkeyFollows' BY <1>2, <1>3 DEF LoadsFollow, ValkeyFollows, cachevars
<1> QED BY <1>1, <1>4 DEF LoadsFollow

(* One task moves to a place that is not the scan. *)
LEMMA QuietStep ==
    ASSUME TasksOK, NEW n \in Nodes, NEW t \in Tasks, NEW k \in TaskType, Sets(n, t, k), k.pc # "scan"
    PROVE  NoNewScan
BY TaskSet DEF NoNewScan

LEMMA PublishOK == ASSUME PolicyInv, Publish PROVE PolicyInv'
<1>1. TasksOK' /\ LockOK(task', lock') BY PolicyFacts DEF Publish, TasksOK
<1>2. LoadsFollow' BY PolicyFacts, LoadsKept DEF Publish, NoNewScan
<1> QED BY <1>1, <1>2, PolicyFacts, PolicyRest DEF Publish

LEMMA ReloadPoliciesOK ==
    ASSUME PolicyInv, NEW n \in Nodes, reload_policies(n) PROVE PolicyInv'
<1>1. PICK b \in Policies : task' = [task EXCEPT ![n].caller = [Idle EXCEPT !.pc = "reload", !.bundle = b]]
      BY DEF reload_policies
<1> DEFINE k == [Idle EXCEPT !.pc = "reload", !.bundle = b]
<1>2. k \in TaskType /\ k.pc = "reload" BY TaskTypes
<1>3. Sets(n, "caller", k) BY <1>1 DEF Sets
<1>4. task[n]["caller"].pc \notin Held BY TaskTypes DEF reload_policies
<1> HIDE DEF k
<1>5. TasksOK' /\ LockOK(task', lock') BY <1>2, <1>3, <1>4, LockKept DEF reload_policies, Tasks, Held
<1>6. NoNewScan BY <1>2, <1>3, PolicyFacts, QuietStep DEF Tasks
<1>7. LoadsFollow' BY <1>6, PolicyFacts, LoadsKept DEF reload_policies
<1> QED BY <1>5, <1>7, PolicyFacts, PolicyRest DEF reload_policies

(* On to a hook, or out of the loop over them. *)
LEMMA AtHookOK ==
    ASSUME PolicyInv, NEW n \in Nodes, NEW t \in Tasks, NEW i \in 1 .. Len(Hooks) + 1,
           AtHook(n, t, i), lock[n] \in {None, t}
    PROVE  TasksOK' /\ LockOK(task', lock') /\ NoNewScan
<1>1. TasksOK /\ task[n][t] \in TaskType BY PolicyFacts, TaskFields
<1>2. lock \in [Nodes -> {None, "follower", "caller"}] /\ (lock[n] = t <=> task[n][t].pc \in Held)
      BY PolicyFacts
<1>3. ASSUME NEW p \in {"hooks", "announce"}, NEW h \in 0 .. Len(Hooks),
             task' = [task EXCEPT ![n][t].pc = p, ![n][t].hook = h], lock' = [lock EXCEPT ![n] = t]
      PROVE  TasksOK' /\ LockOK(task', lock') /\ NoNewScan
  <2> DEFINE k == [task[n][t] EXCEPT !.pc = p, !.hook = h]
  <2>1. k \in TaskType /\ k.pc = p BY <1>1 DEF TaskType
  <2>2. Sets(n, t, k) BY <1>1, <1>3 DEF Sets, TasksOK, Tasks
  <2> HIDE DEF k
  <2>3. lock[n] = t => lock' = lock BY <1>2, <1>3
  <2>4. k.pc \in Held /\ k.pc # "scan" BY <2>1 DEF Held
  <2>5. TasksOK' /\ LockOK(task', lock') BY <1>2, <1>3, <2>1, <2>2, <2>3, <2>4, LockKept
  <2> QED BY <1>1, <2>1, <2>2, <2>4, <2>5, QuietStep
<1>4. ASSUME Ends(n, t), lock' = [lock EXCEPT ![n] = None]
      PROVE  TasksOK' /\ LockOK(task', lock') /\ NoNewScan
  <2> DEFINE k == IF t = "follower" THEN Waiting ELSE Idle
  <2>1. k \in TaskType /\ k.pc \in {"off", "wait"} /\ Sets(n, t, k) BY <1>1, <1>4, GoesSets
  <2>2. lock' = [lock EXCEPT ![n] = IF @ = t THEN None ELSE @] BY <1>2, <1>4
  <2> HIDE DEF k
  <2>3. k.pc \notin Held /\ k.pc # "scan" BY <2>1 DEF Held
  <2>4. TasksOK' /\ LockOK(task', lock') BY <2>1, <2>2, <2>3, LockKept
  <2> QED BY <1>1, <2>1, <2>3, <2>4, QuietStep
<1>5. 0 \in 0 .. Len(Hooks) /\ (i <= Len(Hooks) => i \in 0 .. Len(Hooks)) BY HooksLen
<1> QED BY <1>3, <1>4, <1>5 DEF AtHook

LEMMA SwapOK ==
    ASSUME PolicyInv, NEW n \in Nodes, NEW t \in Tasks, swap_policies(n, t) PROVE PolicyInv'
<1>1. TasksOK /\ task[n][t] \in TaskType BY PolicyFacts, TaskFields
<1>2. task[n][t].pc = "reload" /\ lock[n] = None BY DEF swap_policies
<1>3. CASE task[n][t].bundle \in Valid
  <2>1. 1 \in 1 .. Len(Hooks) + 1 BY HooksLen
  <2>2. TasksOK' /\ LockOK(task', lock') /\ NoNewScan BY <1>2, <1>3, <2>1, AtHookOK DEF swap_policies
  <2>3. /\ evaluator' = [evaluator EXCEPT ![n] = task[n][t].bundle]
        /\ dropped' = [dropped EXCEPT ![n] = {}]
        /\ UNCHANGED <<cached, valkey, due, load>>
        BY <1>3 DEF swap_policies
  <2>4. /\ evaluator' \in [Nodes -> Valid] /\ dropped' \in [Nodes -> SUBSET {"local", "valkey"}]
        /\ dropped'[n] = {}
        /\ \A m \in Nodes \ {n} : dropped'[m] = dropped[m] /\ evaluator'[m] = evaluator[m]
        BY <1>3, <2>3, PolicyFacts DEF CachesOK
  <2>5. ~Scanning(n)'
    <3>1. \A u \in Tasks : task[n][u].pc \notin Held
      <4>1. None \notin Tasks BY ValidAssumption DEF Tasks
      <4> QED BY <1>2, <4>1, PolicyFacts
    <3> QED BY <2>2, <3>1 DEF Scanning, NoNewScan, Held
  <2>6. CachesOK' BY <2>3, <2>4, PolicyFacts DEF CachesOK
  <2>7. LocalFollows' BY <2>3, <2>4, PolicyFacts DEF LocalFollows
  <2>8. ValkeyFollows'
    <3>1. SUFFICES ASSUME NEW m \in Nodes \ {n}
                   PROVE  /\ "valkey" \in dropped[m] => due[m] = {}
                          /\ "valkey" \in dropped[m] \/ Scanning(m)' =>
                                \A r \in Requests :
                                  /\ load[m][r].pc \in Writing /\ load[m][r].current => load[m][r].policy = evaluator[m]
                                  /\ \A k \in Entries : Left(m, r, k)' => k \in due[m] \/ Owes(m, r, k)'
          BY <2>3, <2>4, <2>5 DEF ValkeyFollows
    <3>2. Scanning(m)' => Scanning(m) BY <2>2 DEF Scanning, NoNewScan
    <3>3. \A r \in Requests, k \in Entries : (Left(m, r, k)' => Left(m, r, k)) /\ (Owes(m, r, k) => Owes(m, r, k)')
          BY <2>3, <2>4 DEF Left, Owes
    <3> QED BY <3>2, <3>3, PolicyFacts DEF ValkeyFollows
  <2>9. LoadsFollow' BY <2>6, <2>7, <2>8 DEF LoadsFollow
  <2> QED BY <2>2, <2>4, <2>9, PolicyFacts, PolicyRest DEF swap_policies
<1>4. CASE task[n][t].bundle \notin Valid
  <2> DEFINE k == IF t = "follower" THEN Waiting ELSE Idle
  <2>1. k \in TaskType /\ k.pc \in {"off", "wait"} BY <1>1, GoesSets
  <2>2. Sets(n, t, k) BY <1>1, <1>4, GoesSets DEF swap_policies
  <2> HIDE DEF k
  <2>3. TasksOK' /\ LockOK(task', lock') BY <1>2, <1>4, <2>1, <2>2, LockKept DEF swap_policies, Held
  <2>4. NoNewScan BY <1>1, <2>1, <2>2, QuietStep
  <2>5. LoadsFollow' BY <1>4, <2>4, PolicyFacts, LoadsKept DEF swap_policies, cachevars
  <2> QED BY <1>4, <2>3, <2>5, PolicyFacts, PolicyRest DEF swap_policies
<1> QED BY <1>3, <1>4

(* What moving the generation of a cache does to the loads of a node. *)
LEMMA Bumped ==
    ASSUME CachesOK, NEW n \in Nodes, NEW c \in {"local", "valkey"}, bump_all(n, c)
    PROVE  /\ load' \in [Nodes -> [Requests -> LoadType]]
           /\ \A m \in Nodes, r \in Requests :
                 /\ LoadOK(load'[m][r])
                 /\ load'[m][r].pc = load[m][r].pc /\ load'[m][r].key = load[m][r].key
                 /\ load'[m][r].policy = load[m][r].policy /\ load'[m][r].cache = load[m][r].cache
                 /\ load'[m][r].current = (load[m][r].current /\ (m # n \/ load[m][r].cache # c))
                 /\ load'[m][r].current => load[m][r].current /\ (m # n \/ load[m][r].cache # c)
<1>1. ASSUME NEW l \in LoadType, NEW b \in BOOLEAN
      PROVE  LET q == [l EXCEPT !.current = b]
             IN  /\ q \in LoadType /\ q.pc = l.pc /\ q.key = l.key /\ q.policy = l.policy /\ q.cache = l.cache
                 /\ q.current = b
      BY DEF LoadType
<1>2. /\ load \in [Nodes -> [Requests -> LoadType]]
      /\ \A m \in Nodes, r \in Requests : load[m][r] \in LoadType /\ LoadOK(load[m][r])
      BY DEF CachesOK
<1>3. \A r \in Requests : (load[n][r].current /\ load[n][r].cache # c) \in BOOLEAN
  <2>1. \A r \in Requests : load[n][r].current \in BOOLEAN BY <1>2 DEF LoadType
  <2> QED BY <2>1
<1>4. load' = [load EXCEPT ![n] = [r \in Requests |->
                 [load[n][r] EXCEPT !.current = load[n][r].current /\ load[n][r].cache # c]]]
      BY DEF bump_all
<1>5. ASSUME NEW m \in Nodes, NEW r \in Requests
      PROVE  load'[m][r] = IF m = n
                           THEN [load[n][r] EXCEPT !.current = load[n][r].current /\ load[n][r].cache # c]
                           ELSE load[m][r]
      BY <1>2, <1>4
<1>6. load' \in [Nodes -> [Requests -> LoadType]]
  <2>1. [r \in Requests |-> [load[n][r] EXCEPT !.current = load[n][r].current /\ load[n][r].cache # c]]
            \in [Requests -> LoadType]
        BY <1>1, <1>2, <1>3
  <2> QED BY <1>2, <1>4, <2>1
<1>7. ASSUME NEW m \in Nodes, NEW r \in Requests
      PROVE  /\ LoadOK(load'[m][r])
             /\ load'[m][r].pc = load[m][r].pc /\ load'[m][r].key = load[m][r].key
             /\ load'[m][r].policy = load[m][r].policy /\ load'[m][r].cache = load[m][r].cache
             /\ load'[m][r].current = (load[m][r].current /\ (m # n \/ load[m][r].cache # c))
  <2>1. load[m][r].current \in BOOLEAN BY <1>2 DEF LoadType
  <2>2. CASE m = n
    <3> DEFINE b == load[n][r].current /\ load[n][r].cache # c
    <3>1. b \in BOOLEAN BY <1>3
    <3>2. load'[m][r] = [load[n][r] EXCEPT !.current = b] BY <1>5, <2>2
    <3> HIDE DEF b
    <3>3. /\ load'[m][r] \in LoadType /\ load'[m][r].pc = load[m][r].pc /\ load'[m][r].key = load[m][r].key
          /\ load'[m][r].policy = load[m][r].policy /\ load'[m][r].cache = load[m][r].cache
          /\ load'[m][r].current = b
          BY <1>1, <1>2, <2>2, <3>1, <3>2
    <3>4. LoadOK(load'[m][r]) BY <1>2, <3>3 DEF LoadOK
    <3>5. b = (load[m][r].current /\ (m # n \/ load[m][r].cache # c)) BY <2>2, Zenon DEF b
    <3> QED BY <3>3, <3>4, <3>5
  <2>3. CASE m # n
    <3>1. load'[m][r] = load[m][r] BY <1>5, <2>3
    <3>2. load[m][r].current = (load[m][r].current /\ (m # n \/ load[m][r].cache # c)) BY <2>1, <2>3
    <3> QED BY <1>2, <3>1, <3>2
  <2> QED BY <2>2, <2>3
<1>8. ASSUME NEW m \in Nodes, NEW r \in Requests, load'[m][r].current
      PROVE  load[m][r].current /\ (m # n \/ load[m][r].cache # c)
  <2>1. load'[m][r].current = (load[m][r].current /\ (m # n \/ load[m][r].cache # c)) BY <1>7
  <2> QED BY <1>8, <2>1, Zenon
<1> QED BY <1>6, <1>7, <1>8

(* A task is at a hook. *)
LEMMA AtOne ==
    ASSUME PolicyInv, NEW n \in Nodes, NEW t \in Tasks, task[n][t].pc \in {"hooks", "scan"},
           task[n][t].hook \in 0 .. Len(Hooks), AtHook(n, t, task[n][t].hook + 1)
    PROVE  TasksOK' /\ LockOK(task', lock') /\ NoNewScan
<1>1. lock[n] = t BY PolicyFacts DEF Held
<1>2. task[n][t].hook + 1 \in 1 .. Len(Hooks) + 1 BY HooksLen
<1> QED BY <1>1, <1>2, AtHookOK

LEMMA LocalHookOK ==
    ASSUME PolicyInv, NEW n \in Nodes, NEW t \in Tasks, invalidate_local(n, t) PROVE PolicyInv'
<1>1. task[n][t].hook \in 0 .. Len(Hooks) /\ task[n][t].pc = "hooks"
      BY PolicyFacts, TaskFields DEF TaskType, invalidate_local
<1>2. TasksOK' /\ LockOK(task', lock') /\ NoNewScan BY <1>1, AtOne DEF invalidate_local
<1>3. /\ bump_all(n, "local") /\ cached' = [cached EXCEPT ![n] = {}]
      /\ dropped' = [dropped EXCEPT ![n] = @ \cup {"local"}]
      /\ UNCHANGED <<policy, evaluator, inbox, valkey, due>>
      BY DEF invalidate_local
<1>4. CachesOK BY PolicyFacts
<1>5. /\ load' \in [Nodes -> [Requests -> LoadType]]
      /\ \A m \in Nodes, r \in Requests :
            /\ LoadOK(load'[m][r])
            /\ load'[m][r].pc = load[m][r].pc /\ load'[m][r].key = load[m][r].key
            /\ load'[m][r].policy = load[m][r].policy /\ load'[m][r].cache = load[m][r].cache
            /\ load'[m][r].current => load[m][r].current /\ (m # n \/ load[m][r].cache # "local")
      BY <1>3, <1>4, Bumped
<1>6. /\ cached' \in [Nodes -> SUBSET Valid] /\ cached'[n] = {}
      /\ \A m \in Nodes \ {n} : cached'[m] = cached[m]
      BY <1>3, <1>4 DEF CachesOK
<1>7. /\ dropped' \in [Nodes -> SUBSET {"local", "valkey"}]
      /\ \A m \in Nodes : "valkey" \in dropped'[m] <=> "valkey" \in dropped[m]
      /\ \A m \in Nodes \ {n} : dropped'[m] = dropped[m]
      BY <1>3, <1>4 DEF CachesOK
<1>8. CachesOK' BY <1>3, <1>4, <1>5, <1>6, <1>7 DEF CachesOK
<1>9. LocalFollows'
  <2>1. ASSUME NEW r \in Requests, load'[n][r].pc = "publish" PROVE ~load'[n][r].current
    <3>1. LoadOK(load[n][r]) /\ load[n][r].pc = "publish" BY <1>4, <1>5, <2>1 DEF CachesOK
    <3> QED BY <1>5, <3>1 DEF LoadOK
  <2>2. ASSUME NEW m \in Nodes \ {n}, "local" \in dropped'[m]
        PROVE  /\ cached'[m] \subseteq {evaluator'[m]}
               /\ \A r \in Requests :
                     load'[m][r].pc = "publish" /\ load'[m][r].current => load'[m][r].policy = evaluator'[m]
    <3>1. "local" \in dropped[m] BY <1>7, <2>2
    <3>2. /\ cached[m] \subseteq {evaluator[m]}
          /\ \A r \in Requests :
                load[m][r].pc = "publish" /\ load[m][r].current => load[m][r].policy = evaluator[m]
          BY <3>1, PolicyFacts DEF LocalFollows
    <3> QED BY <1>3, <1>5, <1>6, <3>2
  <2> QED BY <1>6, <2>1, <2>2 DEF LocalFollows
<1>10. ValkeyFollows'
  <2>1. \A m \in Nodes : Scanning(m)' => Scanning(m) BY <1>2 DEF Scanning, NoNewScan
  <2>2. ASSUME NEW m \in Nodes, NEW r \in Requests, NEW k \in Entries
        PROVE  (Left(m, r, k)' => Left(m, r, k)) /\ (Owes(m, r, k) => Owes(m, r, k)')
        BY <1>3, <1>5 DEF Left, Owes
  <2>3. \A m \in Nodes, r \in Requests : load'[m][r].current => load[m][r].current BY <1>5
  <2>4. ASSUME NEW m \in Nodes
        PROVE  /\ "valkey" \in dropped'[m] => due'[m] = {}
               /\ "valkey" \in dropped'[m] \/ Scanning(m)' => "valkey" \in dropped[m] \/ Scanning(m)
        BY <1>3, <1>7, <2>1, PolicyFacts DEF ValkeyFollows
  <2>5. ASSUME NEW m \in Nodes, "valkey" \in dropped'[m] \/ Scanning(m)', NEW r \in Requests
        PROVE  /\ load'[m][r].pc \in Writing /\ load'[m][r].current => load'[m][r].policy = evaluator'[m]
               /\ \A k \in Entries : Left(m, r, k)' => k \in due'[m] \/ Owes(m, r, k)'
    <3>1. /\ load[m][r].pc \in Writing /\ load[m][r].current => load[m][r].policy = evaluator[m]
          /\ \A k \in Entries : Left(m, r, k) => k \in due[m] \/ Owes(m, r, k)
          BY <2>4, <2>5, PolicyFacts DEF ValkeyFollows
    <3>2. load'[m][r].pc \in Writing /\ load'[m][r].current => load'[m][r].policy = evaluator'[m]
          BY <1>3, <1>5, <2>3, <3>1
    <3> QED BY <1>3, <2>2, <3>1, <3>2
  <2> QED BY <2>4, <2>5 DEF ValkeyFollows
<1>11. LoadsFollow' BY <1>8, <1>9, <1>10 DEF LoadsFollow
<1> QED BY <1>2, <1>3, <1>11, PolicyFacts, PolicyRest

LEMMA ValkeyHookOK ==
    ASSUME PolicyInv, NEW n \in Nodes, NEW t \in Tasks, invalidate_all(n, t) PROVE PolicyInv'
<1>1. TasksOK /\ task[n][t] \in TaskType /\ task[n][t].pc = "hooks" BY PolicyFacts, TaskFields DEF invalidate_all
<1>2. /\ bump_all(n, "valkey") /\ due' = [due EXCEPT ![n] = {k \in Entries : valkey[k] # None}]
      /\ dropped' = [dropped EXCEPT ![n] = @ \ {"valkey"}]
      /\ UNCHANGED <<policy, evaluator, inbox, cached, valkey, lock>>
      BY DEF invalidate_all
<1> DEFINE j == [task[n][t] EXCEPT !.pc = "scan"]
<1>3. j \in TaskType /\ j.pc = "scan" BY <1>1, TaskTypes
<1>4. Sets(n, t, j) BY <1>1 DEF invalidate_all, Sets, TasksOK, Tasks
<1> HIDE DEF j
<1>5. TasksOK' /\ LockOK(task', lock') BY <1>1, <1>2, <1>3, <1>4, LockKept DEF Held
<1>6. \A m \in Nodes \ {n} : Scanning(m)' => Scanning(m) BY <1>1, <1>3, <1>4, TaskSet DEF Scanning
<1>7. CachesOK BY PolicyFacts
<1>8. /\ load' \in [Nodes -> [Requests -> LoadType]]
      /\ \A m \in Nodes, r \in Requests :
            /\ LoadOK(load'[m][r])
            /\ load'[m][r].pc = load[m][r].pc /\ load'[m][r].key = load[m][r].key
            /\ load'[m][r].policy = load[m][r].policy /\ load'[m][r].cache = load[m][r].cache
            /\ load'[m][r].current => load[m][r].current /\ (m # n \/ load[m][r].cache # "valkey")
      BY <1>2, <1>7, Bumped
<1>9. /\ due' \in [Nodes -> SUBSET {k \in Entries : valkey[k] # None}]
      /\ due'[n] = {k \in Entries : valkey[k] # None}
      /\ \A m \in Nodes \ {n} : due'[m] = due[m]
      BY <1>2, <1>7 DEF CachesOK
<1>10. /\ dropped' \in [Nodes -> SUBSET {"local", "valkey"}] /\ "valkey" \notin dropped'[n]
       /\ \A m \in Nodes : "local" \in dropped'[m] => "local" \in dropped[m]
       /\ \A m \in Nodes \ {n} : dropped'[m] = dropped[m]
       BY <1>2, <1>7 DEF CachesOK
<1>11. CachesOK' BY <1>2, <1>7, <1>8, <1>9, <1>10 DEF CachesOK
<1>12. \A m \in Nodes, r \in Requests : load'[m][r].current => load[m][r].current BY <1>8
<1>13. LocalFollows'
  <2>1. ASSUME NEW m \in Nodes, "local" \in dropped'[m]
        PROVE  /\ cached'[m] \subseteq {evaluator'[m]}
               /\ \A r \in Requests :
                     load'[m][r].pc = "publish" /\ load'[m][r].current => load'[m][r].policy = evaluator'[m]
    <3>1. /\ cached[m] \subseteq {evaluator[m]}
          /\ \A r \in Requests :
                load[m][r].pc = "publish" /\ load[m][r].current => load[m][r].policy = evaluator[m]
          BY <1>10, <2>1, PolicyFacts DEF LocalFollows
    <3> QED BY <1>2, <1>8, <1>12, <3>1
  <2> QED BY <2>1 DEF LocalFollows
<1>14. ValkeyFollows'
  <2>1. ASSUME NEW m \in Nodes, NEW r \in Requests, NEW k \in Entries
        PROVE  (Left(m, r, k)' => Left(m, r, k)) /\ (Owes(m, r, k) => Owes(m, r, k)')
        BY <1>2, <1>8 DEF Left, Owes
  <2>2. ASSUME NEW r \in Requests
        PROVE  /\ ~(load'[n][r].pc \in Writing /\ load'[n][r].current)
               /\ \A k \in Entries : Left(n, r, k)' => k \in due'[n]
    <3>1. LoadOK(load[n][r]) BY <1>7 DEF CachesOK
    <3> QED BY <1>2, <1>8, <1>9, <3>1 DEF LoadOK, Left
  <2>3. ASSUME NEW m \in Nodes \ {n}
        PROVE  /\ "valkey" \in dropped'[m] => due'[m] = {}
               /\ "valkey" \in dropped'[m] \/ Scanning(m)' =>
                     \A r \in Requests :
                        /\ load'[m][r].pc \in Writing /\ load'[m][r].current => load'[m][r].policy = evaluator'[m]
                        /\ \A k \in Entries : Left(m, r, k)' => k \in due'[m] \/ Owes(m, r, k)'
    <3>1. "valkey" \in dropped'[m] => due'[m] = {} BY <1>9, <1>10, PolicyFacts DEF ValkeyFollows
    <3>2. ASSUME "valkey" \in dropped'[m] \/ Scanning(m)', NEW r \in Requests
          PROVE  /\ load'[m][r].pc \in Writing /\ load'[m][r].current => load'[m][r].policy = evaluator'[m]
                 /\ \A k \in Entries : Left(m, r, k)' => k \in due'[m] \/ Owes(m, r, k)'
      <4>1. /\ load[m][r].pc \in Writing /\ load[m][r].current => load[m][r].policy = evaluator[m]
            /\ \A k \in Entries : Left(m, r, k) => k \in due[m] \/ Owes(m, r, k)
            BY <1>6, <1>10, <3>2, PolicyFacts DEF ValkeyFollows
      <4>2. load'[m][r].pc \in Writing /\ load'[m][r].current => load'[m][r].policy = evaluator'[m]
            BY <1>2, <1>8, <1>12, <4>1
      <4> QED BY <1>9, <2>1, <4>1, <4>2
    <3> QED BY <3>1, <3>2
  <2> QED BY <1>10, <2>2, <2>3 DEF ValkeyFollows
<1>15. LoadsFollow' BY <1>11, <1>13, <1>14 DEF LoadsFollow
<1> QED BY <1>2, <1>5, <1>15, PolicyFacts, PolicyRest

(* Entries leave Valkey. *)
LEMMA GoneOK ==
    ASSUME LoadsFollow, NEW S \in SUBSET Entries, Gone(S), UNCHANGED <<evaluator, task, cached, load, dropped>>
    PROVE  LoadsFollow'
<1>1. /\ \A k \in Entries : valkey'[k] = IF k \in S THEN None ELSE valkey[k]
      /\ \A n \in Nodes : due'[n] = due[n] \ S
      /\ valkey' \in [Entries -> EntryType \cup {None}]
      /\ due' \in [Nodes -> SUBSET {k \in Entries : valkey'[k] # None}]
      BY DEF LoadsFollow, CachesOK, Gone
<1>2. CachesOK' BY <1>1 DEF LoadsFollow, CachesOK
<1>3. LocalFollows' BY DEF LoadsFollow, LocalFollows
<1>4. ASSUME NEW n \in Nodes, NEW r \in Requests, NEW k \in Entries
      PROVE  (Left(n, r, k)' => Left(n, r, k) /\ k \notin S) /\ Owes(n, r, k)' = Owes(n, r, k)
      BY <1>1 DEF Left, Owes
<1>5. \A m \in Nodes : Scanning(m)' => Scanning(m) BY DEF Scanning
<1>6. ValkeyFollows' BY <1>1, <1>4, <1>5 DEF LoadsFollow, ValkeyFollows
<1> QED BY <1>2, <1>3, <1>6 DEF LoadsFollow

LEMMA ScanOK ==
    ASSUME PolicyInv, NEW n \in Nodes, NEW t \in Tasks, scan_and_delete(n, t) PROVE PolicyInv'
<1>1. PICK S \in SUBSET {k \in Entries : valkey[k] # None} : Gone(S) BY DEF scan_and_delete
<1>2. LoadsFollow' BY <1>1, PolicyFacts, GoneOK DEF scan_and_delete
<1>3. TasksOK' /\ LockOK(task', lock') BY PolicyFacts DEF scan_and_delete, TasksOK
<1> QED BY <1>2, <1>3, PolicyFacts, PolicyRest DEF scan_and_delete

LEMMA ReloadedOK ==
    ASSUME PolicyInv, NEW n \in Nodes, NEW t \in Tasks, policies_reloaded(n, t) PROVE PolicyInv'
<1>1. task[n][t].hook \in 0 .. Len(Hooks) /\ task[n][t].pc = "scan" /\ Scanning(n)
      BY PolicyFacts, TaskFields DEF TaskType, policies_reloaded, Scanning
<1>2. TasksOK' /\ LockOK(task', lock') /\ NoNewScan BY <1>1, AtOne DEF policies_reloaded
<1>3. LoadsFollow'
  <2>1. CASE UNCHANGED dropped BY <1>2, <2>1, PolicyFacts, LoadsKept DEF policies_reloaded, cachevars
  <2>2. CASE due[n] = {} /\ dropped' = [dropped EXCEPT ![n] = @ \cup {"valkey"}]
    <3>1. UNCHANGED <<evaluator, cached, valkey, due, load>> BY DEF policies_reloaded
    <3>2. /\ dropped' \in [Nodes -> SUBSET {"local", "valkey"}]
          /\ \A m \in Nodes : "local" \in dropped'[m] => "local" \in dropped[m]
          /\ \A m \in Nodes \ {n} : dropped'[m] = dropped[m]
          BY <2>2, PolicyFacts DEF CachesOK
    <3>3. CachesOK' BY <3>1, <3>2, PolicyFacts DEF CachesOK
    <3>4. LocalFollows' BY <3>1, <3>2, PolicyFacts DEF LocalFollows
    <3>5. \A m \in Nodes : Scanning(m)' => Scanning(m) BY <1>2 DEF Scanning, NoNewScan
    <3>6. \A m \in Nodes, r \in Requests, k \in Entries : Left(m, r, k)' = Left(m, r, k) /\ Owes(m, r, k)' = Owes(m, r, k)
          BY <3>1 DEF Left, Owes
    <3>7. ValkeyFollows' BY <1>1, <2>2, <3>1, <3>2, <3>5, <3>6, PolicyFacts DEF ValkeyFollows
    <3> QED BY <3>3, <3>4, <3>7 DEF LoadsFollow
  <2> QED BY <2>1, <2>2 DEF policies_reloaded
<1> QED BY <1>2, <1>3, PolicyFacts, PolicyRest DEF policies_reloaded

LEMMA AnnounceOK ==
    ASSUME PolicyInv, NEW n \in Nodes, announce(n) PROVE PolicyInv'
<1>1. TasksOK /\ "caller" \in Tasks BY PolicyFacts DEF Tasks
<1>2. lock[n] = "caller" BY PolicyFacts, <1>1 DEF announce, Held
<1> DEFINE k == IF "caller" = "follower" THEN Waiting ELSE Idle
<1>3. k \in TaskType /\ k.pc \in {"off", "wait"} /\ Sets(n, "caller", k)
      BY <1>1, GoesSets DEF announce
<1> HIDE DEF k
<1>4. lock' = [lock EXCEPT ![n] = IF @ = "caller" THEN None ELSE @] BY <1>2 DEF announce
<1>5. TasksOK' /\ LockOK(task', lock') BY <1>1, <1>3, <1>4, LockKept DEF Held
<1>6. inbox' \in [Nodes -> Receivers(Capacity)]
  <2>1. ASSUME NEW R \in SUBSET Nodes, inbox' = announced(inbox, R, Capacity)
        PROVE  inbox' \in [Nodes -> Receivers(Capacity)]
        BY <2>1, PolicyFacts, AnnouncedType
  <2> QED BY <2>1, PolicyFacts DEF announce
<1>7. NoNewScan BY <1>1, <1>3, QuietStep
<1>8. LoadsFollow' BY <1>7, PolicyFacts, LoadsKept DEF announce
<1> QED BY <1>5, <1>6, <1>8, PolicyFacts, PolicyRest DEF announce

LEMMA CancelOK ==
    ASSUME PolicyInv, NEW n \in Nodes, NEW t \in Tasks, cancel(n, t) PROVE PolicyInv'
<1>1. Sets(n, t, Idle) BY DEF cancel, Sets
<1>2. TasksOK' /\ LockOK(task', lock') BY <1>1, TaskTypes, LockKept DEF cancel
<1>3. NoNewScan BY <1>1, TaskTypes, PolicyFacts, QuietStep
<1>4. LoadsFollow' BY <1>3, PolicyFacts, LoadsKept DEF cancel
<1> QED BY <1>2, <1>4, PolicyFacts, PolicyRest DEF cancel

(* The steps of the follower. *)
LEMMA FollowOK ==
    ASSUME PolicyInv, NEW n \in Nodes,
           follow_reloads(n) \/ poll(n) \/ notice(n) \/ load_source(n) \/ sync_from(n)
    PROVE  PolicyInv'
<1>1. TasksOK /\ "follower" \in Tasks /\ task[n]["follower"] \in TaskType /\ policy \in Policies
      BY PolicyFacts, TaskFields DEF Tasks
<1>2. task[n]["follower"].pc \notin Held
      BY TaskTypes DEF follow_reloads, poll, notice, load_source, sync_from, Held
<1> DEFINE Quiet == \E k \in TaskType : Sets(n, "follower", k) /\ k.pc \notin Held
<1>3. Quiet
  <2>1. ASSUME Ends(n, "follower") PROVE Quiet
        BY <1>1, <2>1, GoesSets, TaskTypes
  <2>2. ASSUME NEW p \in {"load", "reload"}, Goes(n, "follower", p) PROVE Quiet
    <3> DEFINE k == [task[n]["follower"] EXCEPT !.pc = p]
    <3>1. k \in TaskType /\ k.pc = p BY <1>1, <2>2 DEF TaskType
    <3>2. Sets(n, "follower", k) BY <1>1, <2>2, GoesSets
    <3> HIDE DEF k
    <3> QED BY <3>1, <3>2 DEF Held
  <2>3. CASE follow_reloads(n)
    <3>1. Sets(n, "follower", Waiting) BY <2>3 DEF follow_reloads, Sets
    <3> QED BY <3>1, TaskTypes
  <2>4. CASE load_source(n)
    <3>1. CASE task' = [task EXCEPT ![n].follower = [Idle EXCEPT !.pc = "compare", !.bundle = policy]]
      <4> DEFINE k == [Idle EXCEPT !.pc = "compare", !.bundle = policy]
      <4>1. Sets(n, "follower", k) BY <3>1 DEF Sets
      <4>2. k \in TaskType /\ k.pc = "compare" BY <1>1, TaskTypes
      <4> HIDE DEF k
      <4> QED BY <4>1, <4>2 DEF Held
    <3> QED BY <2>1, <2>4, <3>1 DEF load_source
  <2> QED BY <2>1, <2>2, <2>3, <2>4 DEF poll, notice, sync_from
<1>4. PICK k \in TaskType : Sets(n, "follower", k) /\ k.pc \notin Held BY <1>3
<1>5. lock' = lock BY DEF follow_reloads, poll, notice, load_source, sync_from
<1>6. TasksOK' /\ LockOK(task', lock') BY <1>1, <1>2, <1>4, <1>5, LockKept
<1>7. inbox' \in [Nodes -> Receivers(Capacity)]
  <2>1. \A r \in Receivers(Capacity) : /\ subscribe \in Receivers(Capacity)
                                       /\ waiting(r) => received(r) \in Receivers(Capacity)
        BY PolicyFacts, ReceiverTypes
  <2> QED BY <2>1, PolicyFacts DEF follow_reloads, poll, notice, load_source, sync_from
<1>8. UNCHANGED <<policy, evaluator, cachevars>>
      BY DEF follow_reloads, poll, notice, load_source, sync_from
<1>9. NoNewScan BY <1>1, <1>4, QuietStep DEF Held
<1>10. LoadsFollow' BY <1>8, <1>9, PolicyFacts, LoadsKept
<1> QED BY <1>6, <1>7, <1>8, <1>10, PolicyFacts, PolicyRest

LEMMA CloseOK ==
    ASSUME PolicyInv, NEW n \in Nodes, close(n) PROVE PolicyInv'
<1>1. TasksOK' /\ LockOK(task', lock') BY PolicyFacts DEF close, TasksOK
<1>2. inbox' \in [Nodes -> Receivers(Capacity)] BY PolicyFacts, ReceiverTypes DEF close
<1>3. LoadsFollow' BY PolicyFacts, LoadsKept DEF close, NoNewScan
<1> QED BY <1>1, <1>2, <1>3, PolicyFacts, PolicyRest DEF close

(* The request path: one load moves. *)
LEMMA LoadSet ==
    ASSUME CachesOK, NEW n \in Nodes, NEW r \in Requests, NEW l, LoadOK(l), Loads(n, r, l)
    PROVE  /\ load' \in [Nodes -> [Requests -> LoadType]]
           /\ \A m \in Nodes, q \in Requests :
                 /\ load'[m][q] = IF m = n /\ q = r THEN l ELSE load[m][q]
                 /\ LoadOK(load'[m][q])
<1>1. l \in LoadType BY DEF LoadOK
<1>2. /\ load' \in [Nodes -> [Requests -> LoadType]]
      /\ \A m \in Nodes, q \in Requests : load'[m][q] = IF m = n /\ q = r THEN l ELSE load[m][q]
      BY <1>1 DEF CachesOK, Loads
<1> QED BY <1>2 DEF CachesOK

(* A load moves on, and Valkey gains at most the entry it writes.  What    *)
(* has to be shown of the load itself.                                     *)
LEMMA LoadMoves ==
    ASSUME LoadsFollow, NEW n \in Nodes, NEW r \in Requests, NEW l, LoadOK(l), Loads(n, r, l),
           UNCHANGED <<evaluator, task, due, dropped>>,
           cached' \in [Nodes -> SUBSET Valid],
           \A m \in Nodes : "local" \in dropped[m] => cached'[m] \subseteq {evaluator[m]},
           valkey' \in [Entries -> EntryType \cup {None}],
           \A k \in Entries : valkey[k] # None => valkey'[k] # None,
           "local" \in dropped[n] /\ l.pc = "publish" /\ l.current => l.policy = evaluator[n],
           "valkey" \in dropped[n] \/ Scanning(n) =>
               (l.pc \in Writing /\ l.current => l.policy = evaluator[n]),
           \A m \in Nodes, q \in Requests, k \in Entries :
               <<m, q>> # <<n, r>> /\ Left(m, q, k)' => Left(m, q, k),
           \A k \in Entries : "valkey" \in dropped[n] \/ Scanning(n) =>
               (Left(n, r, k)' => k \in due[n] \/ (l.pc \in {"recheck", "takeback"} /\ l.key = k /\ ~l.current))
    PROVE  LoadsFollow'
<1>1. CachesOK BY DEF LoadsFollow
<1>2. /\ load' \in [Nodes -> [Requests -> LoadType]]
      /\ \A m \in Nodes, q \in Requests :
            /\ load'[m][q] = IF m = n /\ q = r THEN l ELSE load[m][q]
            /\ LoadOK(load'[m][q])
      BY <1>1, LoadSet
<1>3. due' \in [Nodes -> SUBSET {k \in Entries : valkey'[k] # None}] BY <1>1 DEF CachesOK
<1>4. CachesOK' BY <1>1, <1>2, <1>3 DEF CachesOK
<1>5. LocalFollows'
  <2>1. SUFFICES ASSUME NEW m \in Nodes, "local" \in dropped[m], NEW q \in Requests,
                        load'[m][q].pc = "publish", load'[m][q].current
                 PROVE  load'[m][q].policy = evaluator[m]
        BY DEF LocalFollows
  <2>2. CASE m = n /\ q = r BY <1>2, <2>1, <2>2
  <2>3. CASE ~(m = n /\ q = r) BY <1>2, <2>1, <2>3 DEF LoadsFollow, LocalFollows
  <2> QED BY <2>2, <2>3
<1>6. ValkeyFollows'
  <2>1. \A m \in Nodes : Scanning(m)' = Scanning(m) BY DEF Scanning
  <2>2. SUFFICES ASSUME NEW m \in Nodes, "valkey" \in dropped[m] \/ Scanning(m), NEW q \in Requests
                 PROVE  /\ load'[m][q].pc \in Writing /\ load'[m][q].current => load'[m][q].policy = evaluator[m]
                        /\ \A k \in Entries : Left(m, q, k)' => k \in due[m] \/ Owes(m, q, k)'
        BY <2>1 DEF LoadsFollow, ValkeyFollows
  <2>3. CASE m = n /\ q = r
    <3>1. load'[m][q] = l BY <1>2, <2>3
    <3> QED BY <2>2, <2>3, <3>1 DEF Owes
  <2>4. CASE ~(m = n /\ q = r)
    <3>1. load'[m][q] = load[m][q] BY <1>2, <2>4
    <3>2. \A k \in Entries : Owes(m, q, k)' = Owes(m, q, k) BY <3>1 DEF Owes
    <3>3. <<m, q>> # <<n, r>> BY <2>4
    <3> QED BY <2>2, <3>1, <3>2, <3>3 DEF LoadsFollow, ValkeyFollows
  <2> QED BY <2>3, <2>4
<1> QED BY <1>4, <1>5, <1>6 DEF LoadsFollow

LEMMA LoadTypes ==
    /\ LoadOK(NoLoad) /\ NoLoad.pc = "idle" /\ NoLoad \in LoadType
    /\ LET l == [NoLoad EXCEPT !.pc = "read"] IN LoadOK(l) /\ l.pc = "read"
    /\ \A k \in Entries :
           LET l == [NoLoad EXCEPT !.pc = "read", !.cache = "valkey", !.key = k] IN LoadOK(l) /\ l.pc = "read"
    /\ \A l \in LoadType, p \in {"set", "recheck", "takeback"} :
           LET q == [l EXCEPT !.pc = p]
           IN  /\ q \in LoadType /\ q.pc = p /\ q.key = l.key /\ q.policy = l.policy
               /\ q.current = l.current /\ q.cache = l.cache
<1>1. NoLoad \in LoadType /\ NoLoad.pc = "idle" /\ NoLoad.cache = "local" BY DEF NoLoad, LoadType
<1>2. LoadOK(NoLoad) BY <1>1 DEF LoadOK, Writing
<1>3. LET l == [NoLoad EXCEPT !.pc = "read"] IN l \in LoadType /\ l.pc = "read" /\ l.cache = "local"
      BY <1>1 DEF LoadType
<1>4. \A k \in Entries : LET l == [NoLoad EXCEPT !.pc = "read", !.cache = "valkey", !.key = k]
                         IN  l \in LoadType /\ l.pc = "read" /\ l.key \in Entries
      BY <1>1 DEF LoadType
<1>5. \A l \in LoadType, p \in {"set", "recheck", "takeback"} :
           LET q == [l EXCEPT !.pc = p]
           IN  /\ q \in LoadType /\ q.pc = p /\ q.key = l.key /\ q.policy = l.policy
               /\ q.current = l.current /\ q.cache = l.cache
      BY DEF LoadType
<1>6. \A l \in LoadType : l.pc = "read" /\ (l.cache = "local" \/ l.key \in Entries) => LoadOK(l) BY DEF LoadOK, Writing
<1> QED BY <1>1, <1>2, <1>3, <1>4, <1>5, <1>6

(* A load that owes nothing, and leaves Valkey alone. *)
LEMMA LoadQuiet ==
    ASSUME LoadsFollow, NEW n \in Nodes, NEW r \in Requests, NEW l, LoadOK(l), Loads(n, r, l),
           UNCHANGED <<evaluator, task, due, dropped, valkey>>,
           cached' \in [Nodes -> SUBSET Valid],
           \A m \in Nodes : "local" \in dropped[m] => cached'[m] \subseteq {evaluator[m]},
           "local" \in dropped[n] /\ l.pc = "publish" /\ l.current => l.policy = evaluator[n],
           "valkey" \in dropped[n] \/ Scanning(n) =>
               (l.pc \in Writing /\ l.current => l.policy = evaluator[n]),
           load[n][r].pc \in {"recheck", "takeback"} /\ ~load[n][r].current =>
               l.pc \in {"recheck", "takeback"} /\ l.key = load[n][r].key /\ ~l.current
    PROVE  LoadsFollow'
<1>1. \A m \in Nodes, q \in Requests, k \in Entries : Left(m, q, k)' = Left(m, q, k) BY DEF Left
<1>2. \A k \in Entries : "valkey" \in dropped[n] \/ Scanning(n) =>
               (Left(n, r, k)' => k \in due[n] \/ (l.pc \in {"recheck", "takeback"} /\ l.key = k /\ ~l.current))
  <2>1. SUFFICES ASSUME NEW k \in Entries, "valkey" \in dropped[n] \/ Scanning(n), Left(n, r, k)
                 PROVE  k \in due[n] \/ (l.pc \in {"recheck", "takeback"} /\ l.key = k /\ ~l.current)
        BY <1>1
  <2>2. k \in due[n] \/ Owes(n, r, k) BY <2>1 DEF LoadsFollow, ValkeyFollows
  <2> QED BY <2>2 DEF Owes
<1>3. valkey' \in [Entries -> EntryType \cup {None}] BY DEF LoadsFollow, CachesOK
<1> QED BY <1>1, <1>2, <1>3, LoadMoves

LEMMA CutFacts ==
    ASSUME CachesOK, NEW n \in Nodes, NEW r \in Requests, Cut(n, r), UNCHANGED evaluator
    PROVE  /\ valkey' \in [Entries -> EntryType \cup {None}]
           /\ \A k \in Entries : /\ valkey[k] # None <=> valkey'[k] # None
                                 /\ ~Left(n, r, k)'
                                 /\ \A m \in Nodes, q \in Requests :
                                       <<m, q>> # <<n, r>> /\ Left(m, q, k)' => Left(m, q, k)
<1>1. None \notin EntryType BY ValidAssumption DEF EntryType
<1>2. \A e \in EntryType : /\ [e EXCEPT !.cut = TRUE] \in EntryType /\ [e EXCEPT !.cut = TRUE].cut
                           /\ [e EXCEPT !.cut = TRUE].by = e.by
      BY DEF EntryType
<1>3. valkey \in [Entries -> EntryType \cup {None}] BY DEF CachesOK
<1>4. ASSUME NEW k \in Entries
      PROVE  valkey'[k] = IF valkey[k] # None /\ valkey[k].by = <<n, r>>
                          THEN [valkey[k] EXCEPT !.cut = TRUE] ELSE valkey[k]
      BY DEF Cut
<1>5. valkey' \in [Entries -> EntryType \cup {None}] BY <1>2, <1>3 DEF Cut
<1>6. ASSUME NEW k \in Entries
      PROVE  /\ valkey[k] # None <=> valkey'[k] # None
             /\ ~Left(n, r, k)'
             /\ \A m \in Nodes, q \in Requests : <<m, q>> # <<n, r>> /\ Left(m, q, k)' => Left(m, q, k)
  <2>1. CASE valkey[k] # None /\ valkey[k].by = <<n, r>>
    <3>1. /\ valkey'[k] = [valkey[k] EXCEPT !.cut = TRUE] /\ valkey[k] \in EntryType
          BY <1>3, <1>4, <2>1
    <3>2. valkey'[k] # None /\ valkey'[k].cut /\ valkey'[k].by = <<n, r>> BY <1>1, <1>2, <2>1, <3>1
    <3> QED BY <2>1, <3>2 DEF Left
  <2>2. CASE ~(valkey[k] # None /\ valkey[k].by = <<n, r>>)
    <3>1. valkey'[k] = valkey[k] BY <1>4, <2>2
    <3> QED BY <2>2, <3>1 DEF Left
  <2> QED BY <2>1, <2>2
<1> QED BY <1>5, <1>6

(* A load is dropped, or could not take its entry back. *)
LEMMA LoadCut ==
    ASSUME LoadsFollow, NEW n \in Nodes, NEW r \in Requests, Loads(n, r, NoLoad), Cut(n, r),
           UNCHANGED <<evaluator, task, due, dropped, cached>>
    PROVE  LoadsFollow'
<1>1. CachesOK BY DEF LoadsFollow
<1>2. /\ cached' \in [Nodes -> SUBSET Valid]
      /\ \A m \in Nodes : "local" \in dropped[m] => cached'[m] \subseteq {evaluator[m]}
      BY DEF LoadsFollow, CachesOK, LocalFollows
<1>3. LoadOK(NoLoad) /\ NoLoad.pc \notin Writing /\ NoLoad.pc # "publish" BY LoadTypes DEF Writing
<1> QED BY <1>1, <1>2, <1>3, CutFacts, LoadMoves

(* A load is over although it wrote, or may have: its SET failed, or it    *)
(* was dropped at it.                                                      *)
LEMMA LoadLost ==
    ASSUME LoadsFollow, NEW n \in Nodes, NEW r \in Requests, Loads(n, r, NoLoad), load[n][r].pc = "set",
           valkey' = Wrote(n, r, TRUE), UNCHANGED <<evaluator, task, due, dropped, cached>>
    PROVE  LoadsFollow'
<1> DEFINE e == [by |-> <<n, r>>, policy |-> load[n][r].policy, cut |-> TRUE]
<1>1. CachesOK /\ LoadOK(load[n][r]) BY DEF LoadsFollow, CachesOK
<1>2. load[n][r].key \in Entries /\ load[n][r].policy \in Valid BY <1>1 DEF LoadOK, Writing
<1>3. e \in EntryType /\ e.by = <<n, r>> /\ e.cut BY <1>2 DEF EntryType
<1>4. None \notin EntryType BY ValidAssumption DEF EntryType
<1>5. valkey' = [valkey EXCEPT ![load[n][r].key] = e] BY DEF Wrote
<1> HIDE DEF e
<1>6. /\ valkey' \in [Entries -> EntryType \cup {None}]
      /\ \A k \in Entries : valkey'[k] = IF k = load[n][r].key THEN e ELSE valkey[k]
      BY <1>1, <1>2, <1>3, <1>5 DEF CachesOK
<1>7. \A k \in Entries : valkey[k] # None => valkey'[k] # None BY <1>3, <1>4, <1>6
<1>8. ASSUME NEW m \in Nodes, NEW q \in Requests, NEW k \in Entries, Left(m, q, k)' PROVE Left(m, q, k)
  <2>1. k # load[n][r].key BY <1>3, <1>6, <1>8 DEF Left
  <2> QED BY <1>6, <1>8, <2>1 DEF Left
<1>9. ASSUME NEW k \in Entries, "valkey" \in dropped[n] \/ Scanning(n), Left(n, r, k)' PROVE k \in due[n]
  <2>1. k \in due[n] \/ Owes(n, r, k) BY <1>8, <1>9 DEF LoadsFollow, ValkeyFollows
  <2> QED BY <2>1 DEF Owes
<1>10. /\ cached' \in [Nodes -> SUBSET Valid]
       /\ \A m \in Nodes : "local" \in dropped[m] => cached'[m] \subseteq {evaluator[m]}
       BY DEF LoadsFollow, CachesOK, LocalFollows
<1>11. LoadOK(NoLoad) /\ NoLoad.pc \notin Writing /\ NoLoad.pc # "publish" BY LoadTypes DEF Writing
<1> QED BY <1>6, <1>7, <1>8, <1>9, <1>10, <1>11, LoadMoves

LEMMA RequestOK ==
    ASSUME PolicyInv, NEW n \in Nodes, NEW r \in Requests, load_step(n, r)
    PROVE  PolicyInv'
<1>1. /\ LoadsFollow /\ CachesOK /\ evaluator \in [Nodes -> Valid]
      /\ LoadOK(load[n][r]) /\ load[n][r] \in LoadType
      BY PolicyFacts DEF CachesOK, LoadOK
<1>2. UNCHANGED <<policy, evaluator, lock, task, inbox, dropped>>
      BY DEF load_step, begin_load, entities_for, publish_load, check_load, set_load, recheck_load, take_back, drop_load
<1>3. /\ cached \in [Nodes -> SUBSET Valid]
      /\ \A m \in Nodes : "local" \in dropped[m] => cached[m] \subseteq {evaluator[m]}
      BY <1>1 DEF LoadsFollow, CachesOK, LocalFollows
<1>4. "valkey" \in dropped[n] \/ Scanning(n) =>
          (load[n][r].pc \in Writing /\ load[n][r].current => load[n][r].policy = evaluator[n])
      BY <1>1 DEF LoadsFollow, ValkeyFollows
<1>5. LoadsFollow'
  <2>1. CASE begin_load(n, r)
    <3>1. UNCHANGED <<due, valkey, cached>> /\ load[n][r].pc = "idle" BY <2>1, LoadTypes DEF begin_load
    <3>2. ASSUME NEW l, LoadOK(l), Loads(n, r, l), l.pc = "read" PROVE LoadsFollow'
          BY <1>1, <1>2, <1>3, <3>1, <3>2, LoadQuiet DEF Writing
    <3>3. \/ Loads(n, r, [NoLoad EXCEPT !.pc = "read"])
          \/ \E k \in Entries : Loads(n, r, [NoLoad EXCEPT !.pc = "read", !.cache = "valkey", !.key = k])
          BY <2>1 DEF begin_load
    <3> QED BY <3>2, <3>3, LoadTypes
  <2>2. CASE entities_for(n, r)
    <3> DEFINE p == IF load[n][r].cache = "local" THEN "publish" ELSE "check"
               l == [load[n][r] EXCEPT !.policy = evaluator[n], !.pc = p]
    <3>1. UNCHANGED <<due, valkey, cached>> /\ load[n][r].pc = "read" /\ Loads(n, r, l)
          BY <2>2 DEF entities_for
    <3>2. /\ l \in LoadType /\ l.pc = p /\ l.policy = evaluator[n] /\ l.cache = load[n][r].cache
          /\ l.key = load[n][r].key
      <4>1. p \in {"publish", "check"} /\ evaluator[n] \in Valid BY PolicyFacts
      <4> HIDE DEF p
      <4> QED BY <1>1, <4>1 DEF LoadType
    <3>3. load[n][r].cache = "valkey" => load[n][r].key \in Entries
          BY <1>1, <3>1 DEF LoadOK, LoadType
    <3>4. load[n][r].cache \in {"local", "valkey"} BY <1>1 DEF LoadType
    <3> HIDE DEF l
    <3>5. LoadOK(l) BY <1>1, <3>2, <3>3, <3>4 DEF LoadOK, Writing
    <3> QED BY <1>1, <1>2, <1>3, <3>1, <3>2, <3>5, LoadQuiet
  <2>3. CASE publish_load(n, r)
    <3>1. UNCHANGED <<due, valkey>> /\ load[n][r].pc = "publish" /\ Loads(n, r, NoLoad)
          BY <2>3 DEF publish_load
    <3>2. "local" \in dropped[n] /\ load[n][r].current => load[n][r].policy = evaluator[n]
          BY <1>1, <3>1 DEF LoadsFollow, LocalFollows
    <3>3. load[n][r].policy \in Valid BY <1>1, <3>1 DEF LoadOK
    <3>4. /\ cached' \in [Nodes -> SUBSET Valid]
          /\ \A m \in Nodes : "local" \in dropped[m] => cached'[m] \subseteq {evaluator[m]}
      <4>1. CASE load[n][r].current
        <5>1. cached' = [cached EXCEPT ![n] = @ \cup {load[n][r].policy}] BY <2>3, <4>1 DEF publish_load
        <5> QED BY <1>3, <3>2, <3>3, <4>1, <5>1
      <4>2. CASE ~load[n][r].current
        <5>1. cached' = cached BY <2>3, <4>2 DEF publish_load
        <5> QED BY <1>3, <5>1
      <4> QED BY <4>1, <4>2
    <3> QED BY <1>1, <1>2, <3>1, <3>4, LoadTypes, LoadQuiet DEF Writing
  <2>4. CASE check_load(n, r)
    <3> DEFINE l == [load[n][r] EXCEPT !.pc = "set"]
    <3>1. UNCHANGED <<due, valkey, cached>> /\ load[n][r].pc = "check"
          /\ (Loads(n, r, l) \/ Loads(n, r, NoLoad))
          BY <2>4 DEF check_load
    <3>2. /\ l \in LoadType /\ l.pc = "set" /\ l.key = load[n][r].key /\ l.policy = load[n][r].policy
          /\ l.current = load[n][r].current /\ l.cache = load[n][r].cache
          BY <1>1, LoadTypes
    <3> HIDE DEF l
    <3>3. LoadOK(l) BY <1>1, <3>1, <3>2 DEF LoadOK, Writing
    <3>4. ASSUME Loads(n, r, l) PROVE LoadsFollow'
          BY <1>1, <1>2, <1>3, <1>4, <3>1, <3>2, <3>3, <3>4, LoadQuiet DEF Writing
    <3>5. ASSUME Loads(n, r, NoLoad) PROVE LoadsFollow'
          BY <1>1, <1>2, <1>3, <3>1, <3>5, LoadTypes, LoadQuiet DEF Writing
    <3> QED BY <3>1, <3>4, <3>5
  <2>5. CASE set_load(n, r)
    <3> DEFINE l == [load[n][r] EXCEPT !.pc = "recheck"]
               e == [by |-> <<n, r>>, policy |-> load[n][r].policy, cut |-> FALSE]
    <3>1. UNCHANGED <<due, cached>> /\ load[n][r].pc = "set"
          /\ \/ Loads(n, r, l) /\ valkey' = [valkey EXCEPT ![load[n][r].key] = e]
             \/ Loads(n, r, NoLoad) /\ (valkey' = valkey \/ valkey' = Wrote(n, r, TRUE))
          BY <2>5 DEF set_load, Wrote
    <3>2. /\ l \in LoadType /\ l.pc = "recheck" /\ l.key = load[n][r].key /\ l.policy = load[n][r].policy
          /\ l.current = load[n][r].current /\ l.cache = load[n][r].cache
          BY <1>1, LoadTypes
    <3>3. load[n][r].key \in Entries /\ load[n][r].policy \in Valid BY <1>1, <3>1 DEF LoadOK, Writing
    <3>4. e \in EntryType /\ e.by = <<n, r>> /\ e.policy = load[n][r].policy BY <3>3 DEF EntryType
    <3>5. None \notin EntryType BY ValidAssumption DEF EntryType
    <3> HIDE DEF l, e
    <3>6. LoadOK(l) BY <1>1, <3>1, <3>2 DEF LoadOK, Writing
    <3>7. ASSUME Loads(n, r, l), valkey' = [valkey EXCEPT ![load[n][r].key] = e] PROVE LoadsFollow'
      <4>1. /\ valkey' \in [Entries -> EntryType \cup {None}]
            /\ \A k \in Entries : valkey'[k] = IF k = load[n][r].key THEN e ELSE valkey[k]
            BY <1>1, <3>3, <3>4, <3>7 DEF CachesOK
      <4>2. \A k \in Entries : valkey[k] # None => valkey'[k] # None BY <3>4, <3>5, <4>1
      <4>3. ASSUME NEW m \in Nodes, NEW q \in Requests, NEW k \in Entries, <<m, q>> # <<n, r>>, Left(m, q, k)'
            PROVE  Left(m, q, k)
        <5>1. k # load[n][r].key BY <3>4, <4>1, <4>3 DEF Left
        <5> QED BY <1>2, <4>1, <4>3, <5>1 DEF Left
      <4>4. ASSUME NEW k \in Entries, "valkey" \in dropped[n] \/ Scanning(n), Left(n, r, k)'
            PROVE  k \in due[n] \/ (l.pc \in {"recheck", "takeback"} /\ l.key = k /\ ~l.current)
        <5>1. CASE k = load[n][r].key
          <6>1. load[n][r].policy # evaluator[n] BY <1>2, <3>4, <4>1, <4>4, <5>1 DEF Left
          <6>2. ~load[n][r].current BY <1>4, <3>1, <4>4, <6>1 DEF Writing
          <6> QED BY <3>2, <5>1, <6>2
        <5>2. CASE k # load[n][r].key
          <6>1. Left(n, r, k) BY <1>2, <4>1, <4>4, <5>2 DEF Left
          <6>2. k \in due[n] \/ Owes(n, r, k) BY <1>1, <4>4, <6>1 DEF LoadsFollow, ValkeyFollows
          <6> QED BY <3>1, <6>2 DEF Owes
        <5> QED BY <5>1, <5>2
      <4>5. "valkey" \in dropped[n] \/ Scanning(n) => (l.pc \in Writing /\ l.current => l.policy = evaluator[n])
            BY <1>4, <3>1, <3>2 DEF Writing
      <4>6. /\ cached' \in [Nodes -> SUBSET Valid]
            /\ \A m \in Nodes : "local" \in dropped[m] => cached'[m] \subseteq {evaluator[m]}
            BY <1>3, <3>1
      <4>7. l.pc # "publish" BY <3>2
      <4> QED BY <1>1, <1>2, <3>1, <3>6, <3>7, <4>1, <4>2, <4>3, <4>4, <4>5, <4>6, <4>7, LoadMoves
    <3>8. ASSUME Loads(n, r, NoLoad), valkey' = valkey PROVE LoadsFollow'
          BY <1>1, <1>2, <1>3, <3>1, <3>8, LoadTypes, LoadQuiet DEF Writing
    <3>9. ASSUME Loads(n, r, NoLoad), valkey' = Wrote(n, r, TRUE) PROVE LoadsFollow'
          BY <1>1, <1>2, <3>1, <3>9, LoadLost
    <3> QED BY <3>1, <3>7, <3>8, <3>9
  <2>6. CASE recheck_load(n, r)
    <3> DEFINE l == [load[n][r] EXCEPT !.pc = "takeback"]
    <3>1. UNCHANGED <<due, valkey, cached>> /\ load[n][r].pc = "recheck"
          /\ \/ load[n][r].current /\ Loads(n, r, NoLoad)
             \/ ~load[n][r].current /\ Loads(n, r, l)
          BY <2>6 DEF recheck_load
    <3>2. /\ l \in LoadType /\ l.pc = "takeback" /\ l.key = load[n][r].key /\ l.policy = load[n][r].policy
          /\ l.current = load[n][r].current /\ l.cache = load[n][r].cache
          BY <1>1, LoadTypes
    <3> HIDE DEF l
    <3>3. LoadOK(l) BY <1>1, <3>1, <3>2 DEF LoadOK, Writing
    <3>4. ASSUME ~load[n][r].current, Loads(n, r, l) PROVE LoadsFollow'
          BY <1>1, <1>2, <1>3, <1>4, <3>1, <3>2, <3>3, <3>4, LoadQuiet DEF Writing
    <3>5. ASSUME load[n][r].current, Loads(n, r, NoLoad) PROVE LoadsFollow'
          BY <1>1, <1>2, <1>3, <3>1, <3>5, LoadTypes, LoadQuiet DEF Writing
    <3> QED BY <3>1, <3>4, <3>5
  <2>7. CASE take_back(n, r)
    <3>1. UNCHANGED cached /\ load[n][r].pc = "takeback" /\ Loads(n, r, NoLoad)
          /\ (Gone({load[n][r].key}) \/ (Cut(n, r) /\ UNCHANGED due))
          BY <2>7 DEF take_back
    <3>2. ASSUME Gone({load[n][r].key}) PROVE LoadsFollow'
      <4>1. load[n][r].key \in Entries BY <1>1, <3>1 DEF LoadOK, Writing
      <4>2. /\ \A k \in Entries : valkey'[k] = IF k = load[n][r].key THEN None ELSE valkey[k]
            /\ \A m \in Nodes : due'[m] = due[m] \ {load[n][r].key}
            /\ valkey' \in [Entries -> EntryType \cup {None}]
            /\ due' \in [Nodes -> SUBSET {k \in Entries : valkey'[k] # None}]
            BY <1>1, <3>2, <4>1 DEF CachesOK, Gone
      <4>3. LoadOK(NoLoad) /\ NoLoad.pc = "idle" BY LoadTypes
      <4>4. /\ load' \in [Nodes -> [Requests -> LoadType]]
            /\ \A m \in Nodes, q \in Requests :
                  /\ load'[m][q] = IF m = n /\ q = r THEN NoLoad ELSE load[m][q]
                  /\ LoadOK(load'[m][q])
            BY <1>1, <3>1, <4>3, LoadSet
      <4>5. CachesOK' BY <1>1, <1>2, <3>1, <4>2, <4>4 DEF CachesOK
      <4>6. LocalFollows' BY <1>1, <1>2, <3>1, <4>3, <4>4 DEF LoadsFollow, LocalFollows
      <4>7. \A m \in Nodes : Scanning(m)' = Scanning(m) BY <1>2 DEF Scanning
      <4>8. ASSUME NEW m \in Nodes, NEW q \in Requests, NEW k \in Entries, Left(m, q, k)',
                   "valkey" \in dropped[m] \/ Scanning(m)
            PROVE  k \in due'[m] \/ Owes(m, q, k)'
        <5>1. k # load[n][r].key /\ Left(m, q, k) BY <1>2, <4>2, <4>8 DEF Left
        <5>2. k \in due[m] \/ Owes(m, q, k) BY <1>1, <4>8, <5>1 DEF LoadsFollow, ValkeyFollows
        <5>3. Owes(m, q, k) => ~(m = n /\ q = r) BY <5>1 DEF Owes
        <5> QED BY <4>2, <4>4, <5>1, <5>2, <5>3 DEF Owes
      <4>9. ASSUME NEW m \in Nodes, NEW q \in Requests, "valkey" \in dropped[m] \/ Scanning(m),
                   load'[m][q].pc \in Writing, load'[m][q].current
            PROVE  load'[m][q].policy = evaluator[m]
        <5>1. load'[m][q] = load[m][q] BY <4>3, <4>4, <4>9 DEF Writing
        <5> QED BY <1>1, <4>9, <5>1 DEF LoadsFollow, ValkeyFollows
      <4>10. \A m \in Nodes : "valkey" \in dropped[m] => due'[m] = {}
            BY <1>1, <4>2 DEF LoadsFollow, ValkeyFollows
      <4>11. ValkeyFollows' BY <1>2, <4>7, <4>8, <4>9, <4>10 DEF ValkeyFollows
      <4> QED BY <4>5, <4>6, <4>11 DEF LoadsFollow
    <3>3. ASSUME Cut(n, r), UNCHANGED due PROVE LoadsFollow' BY <1>1, <1>2, <3>1, <3>3, LoadCut
    <3> QED BY <3>1, <3>2, <3>3
  <2>8. CASE drop_load(n, r)
    <3>1. UNCHANGED <<cached, due>> /\ Loads(n, r, NoLoad) BY <2>8 DEF drop_load
    <3>2. CASE load[n][r].pc \in {"recheck", "takeback"}
      <4>1. Cut(n, r) BY <2>8, <3>2 DEF drop_load
      <4> QED BY <1>1, <1>2, <3>1, <4>1, LoadCut
    <3>3. CASE load[n][r].pc \notin {"recheck", "takeback"}
      <4>1. valkey' = valkey \/ (load[n][r].pc = "set" /\ valkey' = Wrote(n, r, TRUE)) BY <2>8, <3>3 DEF drop_load
      <4>2. ASSUME valkey' = valkey PROVE LoadsFollow'
            BY <1>1, <1>2, <1>3, <3>1, <3>3, <4>2, LoadTypes, LoadQuiet DEF Writing
      <4>3. ASSUME load[n][r].pc = "set", valkey' = Wrote(n, r, TRUE) PROVE LoadsFollow'
            BY <1>1, <1>2, <3>1, <4>3, LoadLost
      <4> QED BY <4>1, <4>2, <4>3
    <3> QED BY <3>2, <3>3
  <2> QED BY <2>1, <2>2, <2>3, <2>4, <2>5, <2>6, <2>7, <2>8 DEF load_step
<1>6. TasksOK' /\ LockOK(task', lock') BY <1>2, PolicyFacts DEF TasksOK
<1> QED BY <1>2, <1>5, <1>6, PolicyFacts, PolicyRest

LEMMA ExpireOK ==
    ASSUME PolicyInv, NEW n \in Nodes, expire(n) PROVE PolicyInv'
<1>1. /\ UNCHANGED <<policy, evaluator, lock, task, inbox, valkey, due, load, dropped>>
      /\ \E p \in cached[n] : cached' = [cached EXCEPT ![n] = @ \ {p}]
      BY DEF expire
<1>2. cached' \in [Nodes -> SUBSET Valid] /\ \A m \in Nodes : cached'[m] \subseteq cached[m]
      BY <1>1, PolicyFacts DEF CachesOK
<1>3. CachesOK' BY <1>1, <1>2, PolicyFacts DEF CachesOK
<1>4. LocalFollows' BY <1>1, <1>2, PolicyFacts DEF LocalFollows
<1>5. \A m \in Nodes : Scanning(m)' = Scanning(m) BY <1>1 DEF Scanning
<1>6. \A m \in Nodes, r \in Requests, k \in Entries : Left(m, r, k)' = Left(m, r, k) /\ Owes(m, r, k)' = Owes(m, r, k)
      BY <1>1 DEF Left, Owes
<1>7. ValkeyFollows' BY <1>1, <1>5, <1>6, PolicyFacts DEF ValkeyFollows
<1>8. LoadsFollow' BY <1>3, <1>4, <1>7 DEF LoadsFollow
<1>9. TasksOK' /\ LockOK(task', lock') BY <1>1, PolicyFacts DEF TasksOK
<1> QED BY <1>1, <1>8, <1>9, PolicyFacts, PolicyRest

LEMMA ExpireKeyOK ==
    ASSUME PolicyInv, NEW k \in Entries, expire_key(k) PROVE PolicyInv'
<1>1. LoadsFollow'
  <2>1. {k} \in SUBSET Entries OBVIOUS
  <2> QED BY <2>1, PolicyFacts, GoneOK DEF expire_key
<1>2. TasksOK' /\ LockOK(task', lock') BY PolicyFacts DEF expire_key, TasksOK
<1> QED BY <1>1, <1>2, PolicyFacts, PolicyRest DEF expire_key

LEMMA PolicyStepOK == PolicyInv /\ [PolicyNext]_pvars => PolicyInv'
<1> SUFFICES ASSUME PolicyInv, [PolicyNext]_pvars PROVE PolicyInv' OBVIOUS
<1>1. CASE UNCHANGED pvars
  <2>1. TasksOK' /\ LockOK(task', lock') BY <1>1, PolicyFacts DEF pvars, TasksOK
  <2>2. LoadsFollow' BY <1>1, PolicyFacts, LoadsKept DEF pvars, NoNewScan
  <2> QED BY <1>1, <2>1, <2>2, PolicyFacts, PolicyRest DEF pvars
<1>2. CASE PolicyNext
      BY <1>2, PublishOK, ReloadPoliciesOK, SwapOK, LocalHookOK, ValkeyHookOK, ScanOK, ReloadedOK, AnnounceOK,
         CancelOK, FollowOK, CloseOK, RequestOK, ExpireOK, ExpireKeyOK
      DEF PolicyNext, hook_step, follow_step, Tasks
<1> QED BY <1>1, <1>2

LEMMA PolicyInitOK ==
    ASSUME NEW s \in Scenes, PolicyInit(s) PROVE PolicyInv
<1>1. s.running \subseteq Valid /\ Valid \subseteq Policies BY ScenesAssumption, ValidAssumption
<1>2. TasksOK
  <2>1. \A n \in Nodes : (IF n \in s.following THEN Waiting ELSE Idle) \in TaskType BY TaskTypes
  <2> QED BY <2>1, TaskTypes DEF PolicyInit, TasksOK
<1>3. LockOK(task, lock)
  <2>1. \A n \in Nodes, t \in Tasks : task[n][t] \in {Waiting, Idle}
        BY DEF PolicyInit, Tasks
  <2>2. None \notin Tasks BY ValidAssumption DEF Tasks
  <2>3. \A n \in Nodes : lock[n] = None BY DEF PolicyInit
  <2>4. \A n \in Nodes, t \in Tasks : task[n][t].pc \notin Held
    <3>1. Waiting.pc \notin Held /\ Idle.pc \notin Held BY TaskTypes DEF Held
    <3> QED BY <2>1, <3>1
  <2>5. lock \in [Nodes -> {None, "follower", "caller"}] BY DEF PolicyInit
  <2> QED BY <2>2, <2>3, <2>4, <2>5 DEF LockOK
<1>4. inbox \in [Nodes -> Receivers(Capacity)]
  <2>1. subscribe \in Receivers(Capacity)
    <3>1. 0 \in 0 .. Capacity BY ValidAssumption
    <3> QED BY <3>1 DEF Receivers, subscribe
  <2> QED BY <2>1 DEF PolicyInit
<1>5. LoadsFollow
  <2>1. \A n \in Nodes, r \in Requests : load[n][r] = NoLoad BY DEF PolicyInit
  <2>2. NoLoad.pc = "idle" /\ NoLoad \in LoadType BY DEF NoLoad, LoadType
  <2>3. LoadOK(NoLoad) BY LoadTypes
  <2>4. CachesOK BY <2>1, <2>2, <2>3 DEF PolicyInit, CachesOK
  <2>5. LocalFollows BY <2>1, <2>2 DEF PolicyInit, LocalFollows
  <2>6. \A k \in Entries : valkey[k] = None BY DEF PolicyInit
  <2>7. ValkeyFollows BY <2>1, <2>2, <2>6 DEF PolicyInit, ValkeyFollows, Left, Writing
  <2> QED BY <2>4, <2>5, <2>7 DEF LoadsFollow
<1>6. \A n \in Nodes, t \in Tasks : task[n][t] \in TaskType BY <1>2, TaskFields
<1>7. \A k \in TaskType : /\ k.pc \in {"off", "wait", "load", "compare", "reload", "hooks", "scan", "announce"}
                          /\ k.bundle \in Policies \cup {None} /\ k.hook \in 0 .. Len(Hooks)
      BY DEF TaskType
<1>8. /\ policy \in Policies /\ evaluator \in [Nodes -> Valid]
      /\ lock \in [Nodes -> {None, "follower", "caller"}]
      BY <1>1 DEF PolicyInit
<1> QED BY <1>2, <1>3, <1>4, <1>5, <1>6, <1>7, <1>8
        DEF PolicyInv, PolicyTypeOK, LockOK, Tasks, Held, LoadsFollow, CachesOK, LoadType, EntryType

-----------------------------------------------------------------------------
(* Providers.  A part of the keys, each with a revision. *)
Parts(R) == UNION {[S -> R] : S \in SUBSET Keys}

JobType ==
    [pc : {"off", "wait", "desired", "entries", "build", "check", "install", "swap", "withdraw", "announce"},
     key : Keys \cup {NoKey}, rev : Revs \cup {0}, ack : BOOLEAN, seen : Parts(Revs \cup {0}),
     want : Parts(Revs), todo : SUBSET Keys]

(* What a reload in progress relies on: it has a key and a revision by the *)
(* time it looks at a slot, and the follower only works on what the source *)
(* has listed.                                                             *)
GoodJob(t, j, listed) ==
    /\ j \in JobType
    /\ j.pc \in {"install", "swap"} => j.key \in Keys /\ j.rev \in Revs
    /\ t = "caller" =>
           /\ j.pc \in {"off", "build", "install", "swap", "announce"}
           /\ j.pc = "build" => j.key \in Keys /\ j.rev \in Revs
    /\ t = "follower" =>
           /\ DOMAIN j.want \subseteq listed /\ j.todo \subseteq listed
           /\ j.pc # "withdraw" => j.todo \subseteq DOMAIN j.want
           /\ j.pc \in {"build", "check", "install", "swap"} => j.key \in DOMAIN j.want
           /\ j.pc = "check" => j.rev \in Revs

JobsOK(jb, listed) ==
    /\ jb \in [follower : JobType, caller : JobType]
    /\ \A t \in Tasks : GoodJob(t, jb[t], listed)

ListedOK ==
    /\ history \in [listed : SUBSET Keys, outside : SUBSET Keys, top : [Keys -> Nat]]
    /\ applied \in Parts(Revs) /\ DOMAIN applied \subseteq history.listed
    /\ \A k \in Keys : desired[k] # 0 => k \in history.listed

ProviderInv == ProviderTypeOK /\ JobsOK(job, history.listed) /\ ListedOK

LEMMA PartsFacts ==
    ASSUME NEW R
    PROVE  /\ << >> \in Parts(R) /\ [k \in {} |-> 0] \in Parts(R)
           /\ \A f \in Parts(R) : DOMAIN f \subseteq Keys /\ \A k \in DOMAIN f : f[k] \in R
           /\ \A S \in SUBSET Keys : \A f \in [S -> R] : f \in Parts(R) /\ DOMAIN f = S
<1>1. << >> \in [{} -> R] /\ [k \in {} |-> 0] \in [{} -> R] OBVIOUS
<1>2. {} \in SUBSET Keys OBVIOUS
<1>3. << >> \in Parts(R) /\ [k \in {} |-> 0] \in Parts(R) BY <1>1, <1>2 DEF Parts
<1>4. ASSUME NEW f \in Parts(R) PROVE DOMAIN f \subseteq Keys /\ \A k \in DOMAIN f : f[k] \in R
  <2>1. PICK S \in SUBSET Keys : f \in [S -> R] BY <1>4 DEF Parts
  <2> QED BY <2>1
<1>5. ASSUME NEW S \in SUBSET Keys, NEW f \in [S -> R] PROVE f \in Parts(R) /\ DOMAIN f = S
      BY DEF Parts
<1> QED BY <1>3, <1>4, <1>5

LEMMA JobFields ==
    ASSUME NEW j \in JobType
    PROVE  /\ j.pc \in {"off", "wait", "desired", "entries", "build", "check", "install", "swap", "withdraw", "announce"}
           /\ j.key \in Keys \cup {NoKey} /\ j.rev \in Revs \cup {0} /\ j.ack \in BOOLEAN
           /\ j.seen \in Parts(Revs \cup {0}) /\ j.want \in Parts(Revs) /\ j.todo \subseteq Keys
BY DEF JobType

(* Jobs that have nothing to do. *)
LEMMA NoJobGood ==
    /\ NoJob \in JobType /\ Listening \in JobType /\ [NoJob EXCEPT !.pc = "announce"] \in JobType
    /\ NoJob.pc = "off" /\ NoJob.want = << >> /\ NoJob.todo = {} /\ NoJob.key = NoKey
    /\ \A t, listed : GoodJob(t, NoJob, listed)
    /\ \A listed : /\ GoodJob("follower", Listening, listed)
                   /\ GoodJob("caller", [NoJob EXCEPT !.pc = "announce"], listed)
<1>1. << >> \in Parts(Revs) /\ << >> \in Parts(Revs \cup {0}) BY PartsFacts
<1>2. NoJob \in JobType BY <1>1 DEF NoJob, JobType
<1>3. \A p \in {"wait", "announce"} : /\ [NoJob EXCEPT !.pc = p] \in JobType
                                      /\ [NoJob EXCEPT !.pc = p].pc = p
                                      /\ [NoJob EXCEPT !.pc = p].todo = {}
                                      /\ [NoJob EXCEPT !.pc = p].want = << >>
      BY <1>2 DEF JobType, NoJob
<1>4. NoJob.pc = "off" /\ NoJob.todo = {} /\ NoJob.want = << >> /\ NoJob.key = NoKey BY DEF NoJob
<1>5. DOMAIN << >> = {} OBVIOUS
<1>6. Listening = [NoJob EXCEPT !.pc = "wait"] BY DEF Listening
<1>7. \A t, listed : GoodJob(t, NoJob, listed) BY <1>2, <1>4, <1>5 DEF GoodJob
<1>8. \A listed : GoodJob("follower", Listening, listed) BY <1>3, <1>5, <1>6 DEF GoodJob
<1>9. \A listed : GoodJob("caller", [NoJob EXCEPT !.pc = "announce"], listed) BY <1>3, <1>5 DEF GoodJob
<1> QED BY <1>2, <1>3, <1>4, <1>6, <1>7, <1>8, <1>9

Hires(t, j) == job' = [job EXCEPT ![t] = j]

LEMMA JobSet ==
    ASSUME JobsOK(job, history.listed), NEW t \in Tasks, NEW j, NEW listed,
           history.listed \subseteq listed, GoodJob(t, j, listed), Hires(t, j)
    PROVE  /\ JobsOK(job', listed)
           /\ job'[t] = j
           /\ \A u \in Tasks \ {t} : job'[u] = job[u]
<1>1. job \in [follower : JobType, caller : JobType] /\ j \in JobType BY DEF JobsOK, GoodJob
<1>2. /\ job' \in [follower : JobType, caller : JobType] /\ job'[t] = j
      /\ \A u \in Tasks \ {t} : job'[u] = job[u]
      BY <1>1 DEF Hires, Tasks
<1>3. ASSUME NEW u \in Tasks PROVE GoodJob(u, job'[u], listed)
  <2>1. CASE u = t BY <1>2, <2>1
  <2>2. CASE u # t
    <3>1. GoodJob(u, job[u], history.listed) /\ job'[u] = job[u] BY <1>2, <2>2 DEF JobsOK
    <3> QED BY <3>1 DEF GoodJob
  <2> QED BY <2>1, <2>2
<1> QED BY <1>2, <1>3 DEF JobsOK

LEMMA JobsType ==
    ASSUME NEW jb, NEW listed, JobsOK(jb, listed), NEW t \in Tasks
    PROVE  /\ jb[t] \in JobType
           /\ jb[t].pc \in {"off", "wait", "desired", "entries", "build", "check", "install", "swap", "withdraw", "announce"}
           /\ jb[t].key \in Keys \cup {NoKey} /\ jb[t].rev \in Revs \cup {0}
           /\ jb[t].pc \in {"install", "swap"} => jb[t].key \in Keys /\ jb[t].rev \in Revs
BY JobFields DEF JobsOK, GoodJob

(* The rest of the invariant, once the jobs are in order. *)
LEMMA ProviderRest ==
    ASSUME desired' \in [Keys -> Revs \cup {0}], provider' \in [Keys -> Revs \cup {0}],
           receiver' \in Receivers(ChannelSize), JobsOK(job', history'.listed), ListedOK'
    PROVE  ProviderInv'
<1>1. DOMAIN applied' \subseteq Keys /\ \A k \in DOMAIN applied' : applied'[k] \in Revs
      BY PartsFacts DEF ListedOK
<1>2. ProviderTypeOK' BY <1>1, JobsType DEF ProviderTypeOK, Tasks
<1> QED BY <1>2 DEF ProviderInv

LEMMA ProviderFacts ==
    ASSUME ProviderInv
    PROVE  /\ desired \in [Keys -> Revs \cup {0}] /\ provider \in [Keys -> Revs \cup {0}]
           /\ receiver \in Receivers(ChannelSize) /\ ChannelSize \in Nat
           /\ JobsOK(job, history.listed) /\ ListedOK
           /\ applied \in Parts(Revs) /\ DOMAIN applied \subseteq history.listed
           /\ history \in [listed : SUBSET Keys, outside : SUBSET Keys, top : [Keys -> Nat]]
           /\ \A k \in Keys : desired[k] # 0 => k \in history.listed
           /\ \A t \in Tasks : job[t] \in JobType /\ GoodJob(t, job[t], history.listed)
           /\ "follower" \in Tasks /\ "caller" \in Tasks
<1>1. \A t \in Tasks : job[t] \in JobType BY JobsType DEF ProviderInv
<1> QED BY <1>1, RevsAssumption DEF ProviderInv, ProviderTypeOK, JobsOK, ListedOK, Tasks

LEMMA ListedKept ==
    ASSUME ListedOK, UNCHANGED <<desired, applied>>, history'.listed = history.listed,
           history' \in [listed : SUBSET Keys, outside : SUBSET Keys, top : [Keys -> Nat]]
    PROVE  ListedOK'
BY DEF ListedOK

(* The four things a step does to the providers in force. *)
Installs(t) ==
    /\ job[t].pc \in {"install", "swap"}
    /\ provider'[job[t].key] = job[t].rev
    /\ \A k \in Keys \ {job[t].key} : provider'[k] = provider[k]
    /\ job[t].key = Fido2 =>
           provider[Fido2] = 0 \/ Rp[provider[Fido2]] = Rp[job[t].rev] \/ job[t].ack
    /\ \A u \in Tasks \ {t} : job'[u] = job[u]

Removes(k) ==
    /\ provider' = [provider EXCEPT ![k] = 0]
    /\ job["caller"].pc = "off" /\ job'["follower"] = job["follower"]

Withdraws ==
    /\ \A k \in Keys : provider'[k] = provider[k] \/ (provider'[k] = 0 /\ k \in history.listed)
    /\ job["follower"].pc = "withdraw" /\ job'["caller"] = job["caller"]

Moved ==
    \/ provider' = provider
    \/ \E t \in Tasks : Installs(t)
    \/ \E k \in Keys : Removes(k)
    \/ Withdraws

(* A step of one job that leaves the providers and the records alone. *)
LEMMA JobOnly ==
    ASSUME ProviderInv, NEW t \in Tasks, NEW j, GoodJob(t, j, history.listed), Hires(t, j),
           UNCHANGED <<desired, provider, applied, history>>,
           receiver' \in Receivers(ChannelSize)
    PROVE  ProviderInv' /\ Moved
<1>1. JobsOK(job', history'.listed) BY ProviderFacts, JobSet
<1>2. ListedOK' BY ProviderFacts, ListedKept
<1> QED BY <1>1, <1>2, ProviderFacts, ProviderRest DEF Moved

LEMMA ConfigureOK ==
    ASSUME ProviderInv, NEW touched \in SUBSET Keys, NEW hashed, Configure(touched, hashed)
    PROVE  ProviderInv' /\ Moved
<1>1. PICK k \in touched, r \in Revs \cup {0} :
          /\ desired' = [desired EXCEPT ![k] = r]
          /\ history' = [history EXCEPT !.listed = @ \cup {k}, !.top[k] = IF r > @ THEN r ELSE @]
      BY DEF Configure
<1>2. UNCHANGED <<provider, applied, job, receiver>> BY DEF Configure
<1>3. k \in Keys /\ r \in Nat BY RevsAssumption
<1>4. /\ history' \in [listed : SUBSET Keys, outside : SUBSET Keys, top : [Keys -> Nat]]
      /\ history'.listed = history.listed \cup {k}
      BY <1>1, <1>3, ProviderFacts
<1>5. desired' \in [Keys -> Revs \cup {0}] /\ \A x \in Keys : x # k => desired'[x] = desired[x]
      BY <1>1, <1>3, ProviderFacts
<1>6. ListedOK' BY <1>2, <1>4, <1>5, ProviderFacts DEF ListedOK
<1>7. JobsOK(job', history'.listed)
  <2>1. \A t \in Tasks : GoodJob(t, job[t], history'.listed) BY <1>4, ProviderFacts DEF GoodJob
  <2> QED BY <1>2, <2>1, ProviderFacts DEF JobsOK
<1> QED BY <1>2, <1>5, <1>6, <1>7, ProviderFacts, ProviderRest DEF Moved

(* What a job leaves behind when its slot is settled. *)
LEMMA Settled ==
    ASSUME ProviderInv, NEW t \in Tasks, NEW ok \in BOOLEAN, Settle(t, ok), desired' = desired,
           history' \in [listed : SUBSET Keys, outside : SUBSET Keys, top : [Keys -> Nat]],
           history'.listed = history.listed,
           t = "follower" => job[t].key \in DOMAIN job[t].want /\ job[t].pc # "withdraw"
    PROVE  /\ JobsOK(job', history'.listed) /\ ListedOK'
           /\ \A u \in Tasks \ {t} : job'[u] = job[u]
<1> DEFINE j == IF t = "follower"
                THEN [job[t] EXCEPT !.pc = "entries", !.key = NoKey, !.rev = 0, !.ack = FALSE, !.seen = << >>]
                ELSE IF ok THEN [NoJob EXCEPT !.pc = "announce"] ELSE NoJob
<1>1. GoodJob(t, job[t], history.listed) /\ job[t] \in JobType BY ProviderFacts
<1>2. Hires(t, j)
      BY ProviderFacts DEF Settle, Hires, JobsOK, Tasks
<1>3. GoodJob(t, j, history.listed)
  <2>1. CASE t = "follower"
    <3> DEFINE f == [job[t] EXCEPT !.pc = "entries", !.key = NoKey, !.rev = 0, !.ack = FALSE, !.seen = << >>]
    <3>1. << >> \in Parts(Revs \cup {0}) BY PartsFacts
    <3>2. f \in JobType BY <1>1, <3>1 DEF JobType
    <3>3. f.pc = "entries" /\ f.want = job[t].want /\ f.todo = job[t].todo BY <1>1 DEF JobType
    <3>4. j = f BY <2>1
    <3> HIDE DEF f, j
    <3> QED BY <1>1, <2>1, <3>2, <3>3, <3>4 DEF GoodJob
  <2>2. CASE t # "follower"
    <3>1. t = "caller" /\ j \in {NoJob, [NoJob EXCEPT !.pc = "announce"]} BY <2>2 DEF Tasks
    <3> HIDE DEF j
    <3> QED BY <3>1, NoJobGood
  <2> QED BY <2>1, <2>2
<1> HIDE DEF j
<1>4. JobsOK(job', history'.listed) /\ \A u \in Tasks \ {t} : job'[u] = job[u]
      BY <1>2, <1>3, ProviderFacts, JobSet
<1>5. applied' \in Parts(Revs) /\ DOMAIN applied' \subseteq history.listed
  <2>1. CASE t = "follower" /\ ok
    <3> DEFINE S == DOMAIN applied \cup {job[t].key}
               g == [k \in S |-> IF k = job[t].key THEN job[t].want[k] ELSE applied[k]]
    <3>1. job[t].key \in DOMAIN job[t].want /\ DOMAIN job[t].want \subseteq history.listed
          BY <1>1, <2>1 DEF GoodJob
    <3>2. job[t].want \in Parts(Revs) BY <1>1, JobFields
    <3>3. /\ job[t].want[job[t].key] \in Revs /\ job[t].key \in Keys
          /\ DOMAIN applied \subseteq Keys /\ \A k \in DOMAIN applied : applied[k] \in Revs
          BY <3>1, <3>2, PartsFacts, ProviderFacts
    <3>4. S \in SUBSET Keys /\ g \in [S -> Revs] BY <3>3
    <3>5. applied' = g BY <2>1 DEF Settle
    <3> HIDE DEF g
    <3>6. g \in Parts(Revs) /\ DOMAIN g = S BY <3>4, PartsFacts
    <3> QED BY <3>1, <3>5, <3>6, ProviderFacts
  <2>2. CASE ~(t = "follower" /\ ok) BY <2>2, ProviderFacts DEF Settle
  <2> QED BY <2>1, <2>2
<1>6. ListedOK' BY <1>5, ProviderFacts DEF ListedOK
<1> QED BY <1>4, <1>6

LEMMA InstallOK ==
    ASSUME ProviderInv, NEW t \in Tasks, Install(t, Seen(job[t].key)),
           job[t].pc \in {"install", "swap"},
           job[t].key = Fido2 =>
               provider[Fido2] = 0 \/ Rp[provider[Fido2]] = Rp[job[t].rev] \/ job[t].ack,
           UNCHANGED <<desired, receiver>>
    PROVE  ProviderInv' /\ Moved
<1> DEFINE k == job[t].key
<1>1. k \in Keys /\ job[t].rev \in Revs /\ (t = "follower" => k \in DOMAIN job[t].want)
      BY ProviderFacts DEF GoodJob
<1>2. /\ history' \in [listed : SUBSET Keys, outside : SUBSET Keys, top : [Keys -> Nat]]
      /\ history'.listed = history.listed
      BY <1>1, ProviderFacts DEF Install
<1>3. \A x \in DOMAIN Seen(k) : Seen(k)[x] = provider[x] BY DEF Seen
<1>4. provider' = [x \in Keys |-> IF x = k THEN job[t].rev ELSE
                                  IF x \in DOMAIN Seen(k) THEN Seen(k)[x] ELSE provider[x]]
      BY DEF Install
<1>5. /\ provider'[k] = job[t].rev
      /\ \A x \in Keys \ {k} : provider'[x] = provider[x]
      /\ provider' \in [Keys -> Revs \cup {0}]
      BY <1>1, <1>3, <1>4, ProviderFacts
<1>6. Settle(t, TRUE) BY DEF Install
<1>7. /\ JobsOK(job', history'.listed) /\ ListedOK'
      /\ \A u \in Tasks \ {t} : job'[u] = job[u]
      BY <1>1, <1>2, <1>6, Settled
<1>8. Installs(t) BY <1>5, <1>7 DEF Installs
<1> QED BY <1>5, <1>7, <1>8, ProviderFacts, ProviderRest DEF Moved

(* One field of a job moves on. *)
LEMMA JobEdits ==
    ASSUME NEW j \in JobType
    PROVE  /\ \A p \in {"off", "wait", "desired", "entries", "build", "check", "install", "swap", "withdraw", "announce"} :
                 LET i == [j EXCEPT !.pc = p]
                 IN  /\ i \in JobType /\ i.pc = p /\ i.key = j.key /\ i.rev = j.rev
                     /\ i.want = j.want /\ i.todo = j.todo
BY DEF JobType

LEMMA SeenPart == ASSUME ProviderInv, NEW k \in Keys PROVE Seen(k) \in Parts(Revs \cup {0})
<1>1. Slot(k) \in SUBSET Keys BY DEF Slot, Keys
<1>2. Seen(k) \in [Slot(k) -> Revs \cup {0}] BY <1>1, ProviderFacts DEF Seen
<1> QED BY <1>1, <1>2, PartsFacts

LEMMA ReadSlotOK ==
    ASSUME ProviderInv, NEW t \in Tasks, read_slot(t)
    PROVE  ProviderInv' /\ Moved
<1>1. /\ job[t].pc = "install" /\ job[t].key \in Keys /\ job[t] \in JobType
      /\ GoodJob(t, job[t], history.listed)
      BY ProviderFacts DEF read_slot, GoodJob
<1>2. ASSUME job[t].key = Ldap PROVE ProviderInv' /\ Moved
  <2>1. Install(t, Seen(job[t].key)) /\ UNCHANGED <<desired, receiver>> BY <1>2 DEF read_slot
  <2>2. job[t].key # Fido2 BY <1>2, KeysAssumption
  <2> QED BY <1>1, <2>1, <2>2, InstallOK
<1>3. ASSUME job[t].key # Ldap PROVE ProviderInv' /\ Moved
  <2> DEFINE j == [job[t] EXCEPT !.pc = "swap", !.seen = Seen(job[t].key)]
  <2>1. UNCHANGED <<desired, provider, applied, history, receiver>> BY <1>3 DEF read_slot
  <2>2. Hires(t, j) BY <1>3, ProviderFacts DEF read_slot, Hires, JobsOK, Tasks
  <2>3. /\ j \in JobType /\ j.pc = "swap" /\ j.key = job[t].key /\ j.rev = job[t].rev
        /\ j.want = job[t].want /\ j.todo = job[t].todo
    <3>1. Seen(job[t].key) \in Parts(Revs \cup {0}) BY <1>1, SeenPart
    <3> QED BY <1>1, <3>1 DEF JobType
  <2> HIDE DEF j
  <2>4. GoodJob(t, j, history.listed) BY <1>1, <2>3 DEF GoodJob
  <2> QED BY <2>1, <2>2, <2>4, ProviderFacts, JobOnly
<1> QED BY <1>2, <1>3

LEMMA SwapSlotOK ==
    ASSUME ProviderInv, NEW t \in Tasks, swap_slot(t)
    PROVE  ProviderInv' /\ Moved
<1>1. /\ job[t].pc = "swap" /\ job[t].key \in Keys /\ job[t] \in JobType
      /\ GoodJob(t, job[t], history.listed)
      BY ProviderFacts DEF swap_slot, GoodJob
<1>2. ASSUME Seen(job[t].key) # job[t].seen PROVE ProviderInv' /\ Moved
  <2> DEFINE j == [job[t] EXCEPT !.seen = Seen(job[t].key)]
  <2>1. UNCHANGED <<desired, provider, applied, history, receiver>> BY <1>2 DEF swap_slot
  <2>2. Hires(t, j) BY <1>2, ProviderFacts DEF swap_slot, Hires, JobsOK, Tasks
  <2>3. /\ j \in JobType /\ j.pc = "swap" /\ j.key = job[t].key /\ j.rev = job[t].rev
        /\ j.want = job[t].want /\ j.todo = job[t].todo
    <3>1. Seen(job[t].key) \in Parts(Revs \cup {0}) BY <1>1, SeenPart
    <3> QED BY <1>1, <3>1 DEF JobType
  <2> HIDE DEF j
  <2>4. GoodJob(t, j, history.listed) BY <1>1, <2>3 DEF GoodJob
  <2> QED BY <2>1, <2>2, <2>4, ProviderFacts, JobOnly
<1>3. ASSUME Seen(job[t].key) = job[t].seen, decide(job[t]) = "ok" PROVE ProviderInv' /\ Moved
  <2>1. Install(t, Seen(job[t].key)) /\ UNCHANGED <<desired, receiver>> BY <1>3 DEF swap_slot
  <2>2. ASSUME job[t].key = Fido2
        PROVE  provider[Fido2] = 0 \/ Rp[provider[Fido2]] = Rp[job[t].rev] \/ job[t].ack
    <3>1. job[t].seen[Fido2] = provider[Fido2]
          BY <1>3, <2>2, KeysAssumption DEF Seen, Slot
    <3> QED BY <1>3, <2>2, <3>1 DEF decide
  <2> QED BY <1>1, <2>1, <2>2, InstallOK
<1>4. ASSUME Seen(job[t].key) = job[t].seen, decide(job[t]) # "ok" PROVE ProviderInv' /\ Moved
  <2>1. Settle(t, FALSE) /\ UNCHANGED <<desired, receiver, provider, history>> BY <1>4 DEF swap_slot
  <2>2. t = "follower" => job[t].key \in DOMAIN job[t].want /\ job[t].pc # "withdraw" BY <1>1 DEF GoodJob
  <2>3. JobsOK(job', history'.listed) /\ ListedOK' BY <2>1, <2>2, ProviderFacts, Settled
  <2> QED BY <2>1, <2>3, ProviderFacts, ProviderRest DEF Moved
<1> QED BY <1>2, <1>3, <1>4

LEMMA ReloadOK ==
    ASSUME ProviderInv, NEW k \in Keys, reload(k)
    PROVE  ProviderInv' /\ Moved
<1>1. PICK r \in Revs, ack \in BOOLEAN :
          job' = [job EXCEPT !.caller = [NoJob EXCEPT !.pc = "build", !.key = k, !.rev = r, !.ack = ack]]
      BY DEF reload
<1> DEFINE j == [NoJob EXCEPT !.pc = "build", !.key = k, !.rev = r, !.ack = ack]
<1>2. j \in JobType /\ j.pc = "build" /\ j.key = k /\ j.rev = r
      BY NoJobGood DEF JobType
<1>3. Hires("caller", j) BY <1>1 DEF Hires
<1> HIDE DEF j
<1>4. GoodJob("caller", j, history.listed) BY <1>2 DEF GoodJob
<1> QED BY <1>3, <1>4, ProviderFacts, JobOnly DEF reload

LEMMA CandidateOK ==
    ASSUME ProviderInv, candidate
    PROVE  ProviderInv' /\ Moved
<1>1. /\ job["caller"].pc = "build" /\ job["caller"] \in JobType
      /\ GoodJob("caller", job["caller"], history.listed)
      /\ UNCHANGED <<desired, provider, applied, receiver, history>>
      BY ProviderFacts DEF candidate
<1> DEFINE j == [job["caller"] EXCEPT !.pc = "install"]
<1>2. /\ j \in JobType /\ j.pc = "install" /\ j.key = job["caller"].key /\ j.rev = job["caller"].rev
      BY <1>1, JobEdits
<1>3. Hires("caller", j) \/ Hires("caller", NoJob)
      BY ProviderFacts DEF candidate, Hires, JobsOK
<1> HIDE DEF j
<1>4. GoodJob("caller", j, history.listed) BY <1>1, <1>2 DEF GoodJob
<1> QED BY <1>1, <1>3, <1>4, ProviderFacts, NoJobGood, JobOnly

LEMMA RemoveOK ==
    ASSUME ProviderInv, NEW k \in Keys, remove(k)
    PROVE  ProviderInv' /\ Moved
<1>1. /\ job["caller"] = NoJob /\ provider' = [provider EXCEPT ![k] = 0]
      /\ history' = [history EXCEPT !.outside = @ \cup {k}]
      /\ UNCHANGED <<desired, applied, receiver>>
      BY DEF remove
<1>2. Hires("caller", [NoJob EXCEPT !.pc = "announce"])
      BY <1>1, ProviderFacts DEF remove, Hires, JobsOK
<1>3. /\ history' \in [listed : SUBSET Keys, outside : SUBSET Keys, top : [Keys -> Nat]]
      /\ history'.listed = history.listed
      BY <1>1, ProviderFacts
<1>4. JobsOK(job', history'.listed) /\ \A u \in Tasks \ {"caller"} : job'[u] = job[u]
      BY <1>2, <1>3, ProviderFacts, NoJobGood, JobSet
<1>5. job'["follower"] = job["follower"] BY <1>4 DEF Tasks
<1>6. Removes(k) BY <1>1, <1>5, NoJobGood DEF Removes
<1>7. ListedOK' BY <1>1, <1>3, ProviderFacts, ListedKept
<1>8. provider' \in [Keys -> Revs \cup {0}] BY <1>1, ProviderFacts
<1> QED BY <1>1, <1>4, <1>6, <1>7, <1>8, ProviderFacts, ProviderRest DEF Moved

LEMMA OneTold ==
    ASSUME ProviderInv
    PROVE  announced([x \in {1} |-> receiver], {1}, ChannelSize)[1] \in Receivers(ChannelSize)
<1>1. [x \in {1} |-> receiver] \in [{1} -> Receivers(ChannelSize)] BY ProviderFacts
<1>2. announced([x \in {1} |-> receiver], {1}, ChannelSize) \in [{1} -> Receivers(ChannelSize)]
      BY <1>1, ProviderFacts, AnnouncedType
<1> QED BY <1>2

LEMMA AnnounceProviderOK ==
    ASSUME ProviderInv, announce_provider
    PROVE  ProviderInv' /\ Moved
<1>1. receiver' \in Receivers(ChannelSize) BY OneTold, ProviderFacts DEF announce_provider
<1>2. Hires("caller", NoJob) BY ProviderFacts DEF announce_provider, Hires, JobsOK
<1> QED BY <1>1, <1>2, ProviderFacts, NoJobGood, JobOnly DEF announce_provider

LEMMA HearOK ==
    ASSUME ProviderInv, hear
    PROVE  ProviderInv' /\ Moved
<1>1. receiver' \in Receivers(ChannelSize) BY OneTold DEF hear
<1>2. UNCHANGED <<desired, provider, applied, job, history>> BY DEF hear
<1>3. ListedOK' BY <1>2, ProviderFacts, ListedKept
<1> QED BY <1>1, <1>2, <1>3, ProviderFacts, ProviderRest DEF Moved

LEMMA FollowProviderOK ==
    ASSUME ProviderInv, follow_provider_reloads
    PROVE  ProviderInv' /\ Moved
<1>1. /\ applied' = [k \in {} |-> 0] /\ receiver' = subscribe
      /\ UNCHANGED <<desired, provider, history>>
      BY DEF follow_provider_reloads
<1>2. receiver' \in Receivers(ChannelSize) BY <1>1, ProviderFacts, ReceiverTypes
<1>3. Hires("follower", Listening) BY ProviderFacts DEF follow_provider_reloads, Hires, JobsOK
<1>4. JobsOK(job', history'.listed) BY <1>1, <1>3, ProviderFacts, NoJobGood, JobSet
<1>5. DOMAIN applied' = {} /\ applied' \in Parts(Revs) BY <1>1, PartsFacts
<1>6. ListedOK' BY <1>1, <1>5, ProviderFacts DEF ListedOK
<1> QED BY <1>1, <1>2, <1>4, <1>6, ProviderFacts, ProviderRest DEF Moved

LEMMA StopOK ==
    ASSUME ProviderInv, stop
    PROVE  ProviderInv' /\ Moved
<1>1. /\ history' = [history EXCEPT !.outside = Keys]
      /\ UNCHANGED <<desired, provider, applied, receiver>>
      BY DEF stop
<1>2. /\ history' \in [listed : SUBSET Keys, outside : SUBSET Keys, top : [Keys -> Nat]]
      /\ history'.listed = history.listed
      BY <1>1, ProviderFacts
<1>3. Hires("follower", NoJob) BY ProviderFacts DEF stop, Hires, JobsOK
<1>4. JobsOK(job', history'.listed) BY <1>2, <1>3, ProviderFacts, NoJobGood, JobSet
<1>5. ListedOK' BY <1>1, <1>2, ProviderFacts, ListedKept
<1> QED BY <1>1, <1>4, <1>5, ProviderFacts, ProviderRest DEF Moved

(* The follower wakes up, by the ticker or by a notice. *)
LEMMA WakesOK ==
    ASSUME ProviderInv, tick \/ provider_notice
    PROVE  ProviderInv' /\ Moved
<1> DEFINE j == [job["follower"] EXCEPT !.pc = "desired"]
<1>1. /\ job["follower"].pc = "wait" /\ UNCHANGED <<desired, provider, applied, history>>
      /\ job["follower"] \in JobType /\ GoodJob("follower", job["follower"], history.listed)
      BY ProviderFacts DEF tick, provider_notice
<1>2. Hires("follower", j) BY ProviderFacts DEF tick, provider_notice, Hires, JobsOK
<1>3. j \in JobType /\ j.pc = "desired" /\ j.want = job["follower"].want /\ j.todo = job["follower"].todo
      BY <1>1, JobEdits
<1> HIDE DEF j
<1>4. GoodJob("follower", j, history.listed) BY <1>1, <1>3 DEF GoodJob
<1>5. receiver' \in Receivers(ChannelSize) BY ProviderFacts, ReceiverTypes DEF tick, provider_notice
<1> QED BY <1>1, <1>2, <1>4, <1>5, ProviderFacts, JobOnly

LEMMA ReadDesiredOK ==
    ASSUME ProviderInv, read_desired
    PROVE  ProviderInv' /\ Moved
<1>1. UNCHANGED <<desired, provider, applied, receiver, history>> BY DEF read_desired
<1>2. ASSUME Hires("follower", Listening) PROVE ProviderInv' /\ Moved
      BY <1>1, <1>2, ProviderFacts, NoJobGood, JobOnly
<1>3. ASSUME ~Hires("follower", Listening) PROVE ProviderInv' /\ Moved
  <2> DEFINE S == {x \in Keys : desired[x] # 0}
             want == [k \in S |-> desired[k]]
             todo == {k \in DOMAIN want : k \notin DOMAIN applied \/ applied[k] # want[k]}
             j == [NoJob EXCEPT !.pc = "entries", !.want = want, !.todo = todo]
  <2>1. Hires("follower", j) BY <1>3, ProviderFacts DEF read_desired, Hires, JobsOK
  <2>2. S \in SUBSET Keys /\ want \in [S -> Revs] BY ProviderFacts
  <2>3. want \in Parts(Revs) /\ DOMAIN want = S BY <2>2, PartsFacts
  <2>4. S \subseteq history.listed BY ProviderFacts
  <2>5. todo \subseteq DOMAIN want OBVIOUS
  <2> HIDE DEF S, want, todo
  <2>6. j \in JobType /\ j.pc = "entries" /\ j.want = want /\ j.todo = todo
        BY <2>2, <2>3, <2>5, NoJobGood DEF JobType
  <2> HIDE DEF j
  <2>7. GoodJob("follower", j, history.listed) BY <2>3, <2>4, <2>5, <2>6 DEF GoodJob
  <2> QED BY <1>1, <2>1, <2>7, ProviderFacts, JobOnly
<1> QED BY <1>2, <1>3

LEMMA NextEntryOK ==
    ASSUME ProviderInv, next_entry
    PROVE  ProviderInv' /\ Moved
<1>1. PICK k \in job["follower"].todo :
          job' = [job EXCEPT !.follower.pc = "build", !.follower.key = k, !.follower.todo = @ \ {k}]
      BY DEF next_entry
<1> DEFINE j == [job["follower"] EXCEPT !.pc = "build", !.key = k, !.todo = @ \ {k}]
<1>2. /\ job["follower"] \in JobType /\ GoodJob("follower", job["follower"], history.listed)
      /\ k \in Keys /\ k \in DOMAIN job["follower"].want /\ job["follower"].pc = "entries"
  <2>1. /\ job["follower"] \in JobType /\ GoodJob("follower", job["follower"], history.listed)
        /\ job["follower"].pc = "entries"
        BY ProviderFacts DEF next_entry
  <2> QED BY <1>1, <2>1, JobFields DEF GoodJob
<1>3. Hires("follower", j) BY <1>1, ProviderFacts DEF Hires, JobsOK
<1>4. /\ j \in JobType /\ j.pc = "build" /\ j.key = k /\ j.want = job["follower"].want
      /\ j.todo \subseteq job["follower"].todo
      BY <1>2 DEF JobType
<1> HIDE DEF j
<1>5. GoodJob("follower", j, history.listed) BY <1>2, <1>4 DEF GoodJob
<1> QED BY <1>3, <1>5, ProviderFacts, JobOnly DEF next_entry

(* A follower's entry that came to nothing. *)
LEMMA GivesUpOK ==
    ASSUME ProviderInv, Settle("follower", FALSE), job["follower"].pc \in {"build", "check"},
           UNCHANGED <<desired, provider, receiver, history>>
    PROVE  ProviderInv' /\ Moved
<1>1. job["follower"].key \in DOMAIN job["follower"].want /\ job["follower"].pc # "withdraw"
      BY ProviderFacts DEF GoodJob
<1>2. JobsOK(job', history'.listed) /\ ListedOK' BY <1>1, ProviderFacts, Settled
<1> QED BY <1>2, ProviderFacts, ProviderRest DEF Moved

LEMMA BuildOK ==
    ASSUME ProviderInv, build
    PROVE  ProviderInv' /\ Moved
<1> DEFINE f == job["follower"]  k == f.key
           p == IF k = Ldap THEN "check" ELSE "install"
           a == k = Fido2 /\ desired[k] \in Acknowledged
           j == [f EXCEPT !.pc = p, !.rev = desired[k], !.ack = a]
<1>1. /\ f.pc = "build" /\ f \in JobType /\ GoodJob("follower", f, history.listed)
      /\ UNCHANGED <<desired, provider, receiver, history>>
      BY ProviderFacts DEF build
<1>2. ASSUME Settle("follower", FALSE) PROVE ProviderInv' /\ Moved
      BY <1>1, <1>2, GivesUpOK
<1>3. ASSUME ~Settle("follower", FALSE) PROVE ProviderInv' /\ Moved
  <2>1. UNCHANGED applied /\ desired[k] # 0 /\ Hires("follower", j)
        BY <1>3, ProviderFacts DEF build, Hires, JobsOK
  <2>2. k \in DOMAIN f.want BY <1>1 DEF GoodJob
  <2>3. f.want \in Parts(Revs) BY <1>1, JobFields
  <2>4. k \in Keys BY <2>2, <2>3, PartsFacts
  <2>5. desired[k] \in Revs BY <2>1, <2>4, ProviderFacts
  <2>6. p \in {"check", "install"} /\ a \in BOOLEAN OBVIOUS
  <2> HIDE DEF p, a
  <2>7. j \in JobType /\ j.pc = p /\ j.key = k /\ j.rev = desired[k] /\ j.want = f.want /\ j.todo = f.todo
        BY <1>1, <2>5, <2>6 DEF JobType
  <2> HIDE DEF j
  <2>8. GoodJob("follower", j, history.listed) BY <1>1, <2>2, <2>4, <2>5, <2>6, <2>7 DEF GoodJob
  <2> QED BY <1>1, <2>1, <2>8, ProviderFacts, JobOnly
<1> QED BY <1>2, <1>3

LEMMA CheckLdapOK ==
    ASSUME ProviderInv, check_ldap
    PROVE  ProviderInv' /\ Moved
<1> DEFINE f == job["follower"]  j == [f EXCEPT !.pc = "install"]
<1>1. /\ f.pc = "check" /\ f \in JobType /\ GoodJob("follower", f, history.listed)
      /\ UNCHANGED <<desired, provider, receiver, history>>
      BY ProviderFacts DEF check_ldap
<1>2. ASSUME Settle("follower", FALSE) PROVE ProviderInv' /\ Moved
      BY <1>1, <1>2, GivesUpOK
<1>3. ASSUME ~Settle("follower", FALSE) PROVE ProviderInv' /\ Moved
  <2>1. UNCHANGED applied /\ Hires("follower", j)
        BY <1>3, ProviderFacts DEF check_ldap, Hires, JobsOK
  <2>2. /\ j \in JobType /\ j.pc = "install" /\ j.key = f.key /\ j.rev = f.rev
        /\ j.want = f.want /\ j.todo = f.todo
        BY <1>1 DEF JobType
  <2>3. f.key \in DOMAIN f.want /\ f.rev \in Revs BY <1>1 DEF GoodJob
  <2>4. f.want \in Parts(Revs) BY <1>1, JobFields
  <2>5. f.key \in Keys BY <2>3, <2>4, PartsFacts
  <2> HIDE DEF j
  <2>6. GoodJob("follower", j, history.listed) BY <1>1, <2>2, <2>3, <2>5 DEF GoodJob
  <2> QED BY <1>1, <2>1, <2>6, ProviderFacts, JobOnly
<1> QED BY <1>2, <1>3

LEMMA CollectOK ==
    ASSUME ProviderInv, collect_withdrawn
    PROVE  ProviderInv' /\ Moved
<1>1. /\ job["follower"].pc = "entries" /\ UNCHANGED <<desired, provider, applied, receiver, history>>
      /\ job["follower"] \in JobType /\ GoodJob("follower", job["follower"], history.listed)
      BY ProviderFacts DEF collect_withdrawn
<1> DEFINE j == [job["follower"] EXCEPT !.pc = "withdraw", !.todo = withdrawn]
<1>2. Hires("follower", Listening) \/ Hires("follower", j)
      BY ProviderFacts DEF collect_withdrawn, Hires, JobsOK
<1>3. withdrawn \subseteq history.listed /\ withdrawn \subseteq Keys
  <2>1. DOMAIN applied \subseteq Keys BY ProviderFacts, PartsFacts
  <2> QED BY <2>1, ProviderFacts DEF withdrawn
<1>4. j \in JobType /\ j.pc = "withdraw" /\ j.todo = withdrawn /\ j.want = job["follower"].want
      BY <1>1, <1>3 DEF JobType
<1> HIDE DEF j
<1>5. GoodJob("follower", j, history.listed) BY <1>1, <1>3, <1>4 DEF GoodJob
<1> QED BY <1>1, <1>2, <1>5, ProviderFacts, NoJobGood, JobOnly

LEMMA WithdrawOK ==
    ASSUME ProviderInv, withdraw
    PROVE  ProviderInv' /\ Moved
<1>1. PICK k \in job["follower"].todo :
          /\ provider' = [provider EXCEPT ![k] = 0]
          /\ applied' = [x \in DOMAIN applied \ {k} |-> applied[x]]
          /\ job' = [job EXCEPT !.follower =
                       IF job.follower.todo = {k} THEN Listening ELSE [job.follower EXCEPT !.todo = @ \ {k}]]
      BY DEF withdraw
<1>2. /\ job["follower"].pc = "withdraw" /\ UNCHANGED <<desired, receiver, history>>
      /\ job["follower"] \in JobType /\ GoodJob("follower", job["follower"], history.listed)
      BY ProviderFacts DEF withdraw
<1>3. k \in Keys /\ k \in history.listed BY <1>1, <1>2, JobFields DEF GoodJob
<1> DEFINE j == [job["follower"] EXCEPT !.todo = @ \ {k}]
<1>4. /\ j \in JobType /\ j.pc = "withdraw" /\ j.todo \subseteq job["follower"].todo
      /\ j.want = job["follower"].want
      BY <1>2 DEF JobType
<1>5. Hires("follower", Listening) \/ Hires("follower", j)
  <2>1. job \in [follower : JobType, caller : JobType] BY ProviderFacts DEF JobsOK
  <2>2. job' = [job EXCEPT !.follower = IF job.follower.todo = {k} THEN Listening ELSE j]
        BY <1>1
  <2> HIDE DEF j
  <2>3. CASE job.follower.todo = {k} BY <2>2, <2>3 DEF Hires
  <2>4. CASE job.follower.todo # {k} BY <2>2, <2>4 DEF Hires
  <2> QED BY <2>3, <2>4
<1> HIDE DEF j
<1>6. GoodJob("follower", j, history.listed) BY <1>2, <1>4 DEF GoodJob
<1>7. JobsOK(job', history'.listed) /\ \A u \in Tasks \ {"follower"} : job'[u] = job[u]
      BY <1>2, <1>5, <1>6, ProviderFacts, NoJobGood, JobSet
<1>8. provider' \in [Keys -> Revs \cup {0}] /\ Withdraws
  <2>1. provider' \in [Keys -> Revs \cup {0}] BY <1>1, ProviderFacts
  <2>2. \A x \in Keys : provider'[x] = provider[x] \/ (provider'[x] = 0 /\ x \in history.listed)
        BY <1>1, <1>3, ProviderFacts
  <2> QED BY <1>2, <1>7, <2>1, <2>2 DEF Withdraws, Tasks
<1>9. applied' \in Parts(Revs) /\ DOMAIN applied' \subseteq history.listed
  <2> DEFINE S == DOMAIN applied \ {k}
  <2>1. DOMAIN applied \subseteq Keys /\ \A x \in DOMAIN applied : applied[x] \in Revs
        BY ProviderFacts, PartsFacts
  <2>2. S \in SUBSET Keys /\ applied' \in [S -> Revs] BY <1>1, <2>1
  <2> QED BY <2>2, PartsFacts, ProviderFacts
<1>10. ListedOK' BY <1>2, <1>9, ProviderFacts DEF ListedOK
<1> QED BY <1>2, <1>7, <1>8, <1>10, ProviderFacts, ProviderRest DEF Moved

LEMMA ProviderStepOK ==
    ASSUME ProviderInv, NEW touched \in SUBSET Keys, NEW hashed, ProviderNext(touched, hashed)
    PROVE  ProviderInv' /\ Moved
<1>1. CASE Configure(touched, hashed) BY <1>1, ConfigureOK
<1>2. ASSUME NEW k \in touched, reload(k) \/ remove(k) PROVE ProviderInv' /\ Moved
      BY <1>2, ReloadOK, RemoveOK
<1>3. CASE candidate \/ announce_provider \/ hear
      BY <1>3, CandidateOK, AnnounceProviderOK, HearOK
<1>4. CASE follow_provider_reloads \/ stop \/ tick \/ provider_notice
      BY <1>4, FollowProviderOK, StopOK, WakesOK
<1>5. CASE reconcile
      BY <1>5, ReadDesiredOK, NextEntryOK, BuildOK, CheckLdapOK, CollectOK, WithdrawOK DEF reconcile
<1>6. ASSUME NEW t \in Tasks, install_step(t) PROVE ProviderInv' /\ Moved
      BY <1>6, ReadSlotOK, SwapSlotOK DEF install_step
<1> QED BY <1>1, <1>2, <1>3, <1>4, <1>5, <1>6 DEF ProviderNext, Tasks

LEMMA ProviderFixed == ASSUME ProviderInv, UNCHANGED svars PROVE ProviderInv'
BY DEF ProviderInv, ProviderTypeOK, ListedOK, svars

LEMMA ProviderInitOK ==
    ASSUME NEW s \in Scenes, ProviderInit(s)
    PROVE  ProviderInv
<1>1. /\ desired \in [Keys -> Revs \cup {0}] /\ \A k \in Keys : desired[k] = 0
      /\ provider \in [Keys -> Revs \cup {0}]
      BY ScenesAssumption DEF ProviderInit
<1>2. subscribe \in Receivers(ChannelSize)
  <2>1. 0 \in 0 .. ChannelSize BY RevsAssumption
  <2> QED BY <2>1 DEF Receivers, subscribe
<1>3. receiver \in Receivers(ChannelSize) BY <1>2 DEF ProviderInit
<1>4. applied \in Parts(Revs) /\ DOMAIN applied = {} BY PartsFacts DEF ProviderInit
<1>5. history \in [listed : SUBSET Keys, outside : SUBSET Keys, top : [Keys -> Nat]]
      BY DEF ProviderInit
<1>6. ListedOK BY <1>1, <1>4, <1>5 DEF ListedOK
<1>7. job["follower"] \in {Listening, NoJob} /\ job["caller"] = NoJob
      /\ job \in [follower : JobType, caller : JobType]
      BY NoJobGood DEF ProviderInit
<1>8. JobsOK(job, history.listed) BY <1>7, NoJobGood DEF JobsOK, Tasks
<1>9. DOMAIN applied \subseteq Keys /\ \A k \in DOMAIN applied : applied[k] \in Revs BY <1>4
<1> QED BY <1>1, <1>3, <1>6, <1>8, <1>9, JobsType DEF ProviderInv, ProviderTypeOK, Tasks

-----------------------------------------------------------------------------
Inv == scene \in Scenes /\ PolicyInv /\ ProviderInv

LEMMA InvInit == Init => Inv
BY PolicyInitOK, ProviderInitOK DEF Init, Inv

LEMMA InvStep ==
    ASSUME Inv, [Next]_vars
    PROVE  Inv' /\ (Moved \/ UNCHANGED svars)
<1>1. CASE PolicyStep
  <2>1. PolicyInv' BY <1>1, PolicyStepOK DEF PolicyStep, Inv
  <2>2. UNCHANGED <<svars, scene>> BY <1>1 DEF PolicyStep
  <2>3. ProviderInv' BY <2>2, ProviderFixed DEF Inv
  <2> QED BY <2>1, <2>2, <2>3 DEF Inv
<1>2. CASE ProviderStep
  <2>1. UNCHANGED <<pvars, scene>> BY <1>2 DEF ProviderStep
  <2>2. scene.touched \in SUBSET Keys BY ScenesAssumption DEF Inv
  <2>3. ProviderInv' /\ Moved BY <1>2, <2>2, ProviderStepOK DEF ProviderStep, Inv
  <2>4. PolicyInv' BY <2>1, PolicyStepOK DEF Inv
  <2> QED BY <2>1, <2>3, <2>4 DEF Inv
<1>3. CASE UNCHANGED vars
  <2>1. UNCHANGED pvars /\ UNCHANGED svars /\ scene' = scene BY <1>3 DEF vars
  <2> QED BY <2>1, PolicyStepOK, ProviderFixed DEF Inv
<1> QED BY <1>1, <1>2, <1>3 DEF Next

LEMMA Inductive == Spec => []Inv
<1>1. Inv /\ [Next]_vars => Inv' BY InvStep
<1> QED BY <1>1, InvInit, PTL DEF Spec

(* Whatever is reloaded, dropped, lost or refused, every variable has its  *)
(* type, and the reload lock of an instance is held by the task of it that *)
(* is past its swap and by no other.  (swap_policies, install_ldap)        *)
THEOREM Typing == Spec => []TypeOK
<1>1. Inv => TypeOK BY DEF Inv, PolicyInv, ProviderInv, TypeOK
<1> QED BY <1>1, Inductive, PTL

(* Once a reload's hook has dropped an instance's own cache, no entity set *)
(* built under a retired policy answers from it; once one has scanned      *)
(* Valkey, what the instance left there of a retired policy is about to be *)
(* taken back, unless that load was dropped or its DEL failed.             *)
(* (swap_policies, InvalidateAll, ValkeyEntityCache::entities_for)         *)
THEOREM CachesFollow == Spec => []CachesFollowPolicy
<1>1. Inv => CachesFollowPolicy
      BY DEF Inv, PolicyInv, LoadsFollow, LocalFollows, ValkeyFollows, Left, CachesFollowPolicy
<1> QED BY <1>1, Inductive, PTL

-----------------------------------------------------------------------------
(* What each of the four moves means for the three promises. *)
RpIdStep ==
    LET was == provider[Fido2]  now == provider'[Fido2]
    IN  was # 0 /\ now # 0 /\ Rp[was] # Rp[now]
        => \E t \in {"follower", "caller"} : By(t, Fido2) /\ job[t].rev = now /\ job[t].ack

OthersStep ==
    \A t \in {"follower", "caller"}, k \in Keys :
        job[t].pc \in {"install", "swap"} /\ job[t]' # job[t] /\ Changed(k) => k = job[t].key

NeverNamedStep ==
    \A k \in Keys : Changed(k) /\ k \notin history.listed => job.follower' = job.follower

LEMMA MovedApart ==
    ASSUME ProviderInv, Moved
    PROVE  RpIdStep /\ OthersStep /\ NeverNamedStep
<1>0. Fido2 \in Keys /\ provider \in [Keys -> Revs \cup {0}] BY ProviderFacts DEF Keys
<1>1. CASE provider' = provider BY <1>1, <1>0 DEF RpIdStep, OthersStep, NeverNamedStep, Changed
<1>2. ASSUME NEW t \in Tasks, Installs(t) PROVE RpIdStep /\ OthersStep /\ NeverNamedStep
  <2>1. RpIdStep BY <1>0, <1>2 DEF RpIdStep, Installs, By, Tasks
  <2>2. OthersStep BY <1>2 DEF OthersStep, Installs, Changed, Tasks
  <2>3. t = "follower" => job[t].key \in history.listed BY <1>2, ProviderFacts DEF Installs, GoodJob
  <2>4. NeverNamedStep BY <1>2, <2>3 DEF NeverNamedStep, Installs, Changed, Tasks
  <2> QED BY <2>1, <2>2, <2>4
<1>3. ASSUME NEW k \in Keys, Removes(k) PROVE RpIdStep /\ OthersStep /\ NeverNamedStep
      BY <1>0, <1>3 DEF RpIdStep, OthersStep, NeverNamedStep, Removes, Changed
<1>4. CASE Withdraws
      BY <1>0, <1>4 DEF RpIdStep, OthersStep, NeverNamedStep, Withdraws, Changed
<1> QED BY <1>1, <1>2, <1>3, <1>4 DEF Moved

(* Whatever reloads, removals and followers' passes are interleaved, no    *)
(* relying-party id changes unless whoever installs it acknowledged the    *)
(* change, a reload changes the one key it is about, and the follower      *)
(* never changes a provider the source never named.  (swap_slot, withdraw) *)
THEOREM KeepApart == Spec => ReloadsKeepApart
<1>1. ASSUME Inv, [Next]_vars PROVE [RpIdStep]_svars /\ [OthersStep]_svars /\ [NeverNamedStep]_svars
      BY <1>1, InvStep, MovedApart DEF Inv
<1> QED BY <1>1, Inductive, PTL
        DEF Spec, ReloadsKeepApart, RpIdKept, OthersUntouched, NeverNamedStays,
            RpIdStep, OthersStep, NeverNamedStep
=============================================================================
