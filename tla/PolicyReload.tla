---------------------------- MODULE PolicyReload ----------------------------
(***************************************************************************)
(* Live policy reload (authz/reload.rs, authz/reload/follower.rs).  On     *)
(* every node an operator's reload_policies and the follower of the policy *)
(* source run as tasks of their own; a step ends where the code awaits.  A *)
(* policy stands for a bundle and for its digest.  A reload drops, one     *)
(* hook after the other, two entity caches: the node's own EntityCache and *)
(* a ValkeyEntityCache whose entries all nodes share.                      *)
(***************************************************************************)
EXTENDS Coordinator, Sequences

CONSTANTS Nodes, Policies,
          Valid,        \* what parses, validates and fits the entity provider
          None, Capacity,
          Hooks,        \* the caches with_cache_invalidator registered, in order
          Requests,     \* per node, the requests that may load entities at once
          Entries       \* the keys of entity sets in Valkey

ASSUME ValidAssumption ==
    /\ Valid \subseteq Policies /\ None \notin Policies \cup {"follower", "caller"} /\ Capacity \in Nat
    /\ Hooks \in Seq({"local", "valkey"})
    /\ None \notin Entries \cup [by : Nodes \X Requests, policy : Valid, cut : BOOLEAN]

VARIABLES policy,      \* what the policy source holds
          evaluator,   \* per node, the policy set in force
          lock,        \* per node, the task that holds the reload lock
          task,        \* per node, its follower and its caller
          inbox,       \* per node, the follower's receiver
          cached,      \* per node, the policies its in-process entries were built under
          valkey,      \* the shared entries: who wrote them and under which policy
          due,         \* per node, what the SCAN of its drop has yet to return
          load,        \* per node, the loads of its requests
          dropped,     \* ghost: the caches whose hook ran since the last swap
          left         \* what may still happen, a bound of the model
cachevars == <<cached, valkey, due, load, dropped>>
pvars == <<policy, evaluator, lock, task, inbox, cachevars, left>>

Idle == [pc |-> "off", bundle |-> None, hook |-> 0]
Waiting == [Idle EXCEPT !.pc = "wait"]
NoLoad == [pc |-> "idle", cache |-> "local", key |-> None, policy |-> None, current |-> TRUE]

PolicyInit(scene) ==
    /\ policy \in scene.running
    /\ evaluator \in [Nodes -> scene.running]
    /\ lock = [n \in Nodes |-> None]
    /\ task = [n \in Nodes |-> [follower |-> IF n \in scene.following THEN Waiting ELSE Idle, caller |-> Idle]]
    /\ inbox = [n \in Nodes |-> subscribe]
    /\ cached = [n \in Nodes |-> {}] /\ valkey = [k \in Entries |-> None]
    /\ due = [n \in Nodes |-> {}] /\ load = [n \in Nodes |-> [r \in Requests |-> NoLoad]]
    /\ dropped = [n \in Nodes |-> {"local", "valkey"}]
    /\ left = scene.policy

Spend(what) == left[what] > 0 /\ left' = [left EXCEPT ![what] = @ - 1]
(* A call that may fail, as the fault budget allows. *)
Fails == Spend("faults")
Works == UNCHANGED left

Goes(n, t, pc) == task' = [task EXCEPT ![n][t].pc = pc]
Ends(n, t) == task' = [task EXCEPT ![n][t] = IF t = "follower" THEN Waiting ELSE Idle]

(* The application writes the source. *)
Publish ==
    /\ Spend("edits")
    /\ policy' \in Policies \ {policy}
    /\ UNCHANGED <<evaluator, lock, task, inbox, cachevars>>

---------------------------------------------------------------------------
(* AuthzStore::reload_policies and what it shares with the follower.       *)
reload_policies(n) ==
    /\ task[n].caller = Idle
    /\ Spend("calls")
    /\ \E b \in Policies : task' = [task EXCEPT ![n].caller = [Idle EXCEPT !.pc = "reload", !.bundle = b]]
    /\ UNCHANGED <<policy, evaluator, lock, inbox, cachevars>>

(* The loop over the hooks: on to the i-th, or out of it.  Only a local    *)
(* reload is announced.                                                    *)
AtHook(n, t, i) ==
    IF i <= Len(Hooks)
    THEN task' = [task EXCEPT ![n][t].pc = "hooks", ![n][t].hook = i] /\ lock' = [lock EXCEPT ![n] = t]
    ELSE IF t = "caller"
    THEN task' = [task EXCEPT ![n][t].pc = "announce", ![n][t].hook = 0] /\ lock' = [lock EXCEPT ![n] = t]
    ELSE Ends(n, t) /\ lock' = [lock EXCEPT ![n] = None]

(* swap_policies up to its first hook: lock, validate, swap. *)
swap_policies(n, t) ==
    /\ task[n][t].pc = "reload" /\ lock[n] = None
    /\ IF task[n][t].bundle \in Valid
       THEN /\ evaluator' = [evaluator EXCEPT ![n] = task[n][t].bundle]
            /\ dropped' = [dropped EXCEPT ![n] = {}]
            /\ AtHook(n, t, 1)
       ELSE Ends(n, t) /\ UNCHANGED <<evaluator, lock, dropped>>
    /\ UNCHANGED <<policy, inbox, cached, valkey, due, load, left>>

(* Bug: the generation does not move, so a load that began before the swap *)
(* still passes its checks.                                                *)
bump_nothing(n, c) == load' = load

(* bump_all: a load of the cache that took its generation earlier is no    *)
(* longer current.                                                         *)
bump_all(n, c) ==
    load' = [load EXCEPT ![n] = [r \in Requests |->
               [load[n][r] EXCEPT !.current = @ /\ load[n][r].cache # c]]]

(* Entries leave Valkey, and every scan that had yet to return them.       *)
Gone(S) ==
    /\ valkey' = [k \in Entries |-> IF k \in S THEN None ELSE valkey[k]]
    /\ due' = [n \in Nodes |-> due[n] \ S]

(* InvalidateAll of the EntityCache: a lookup from now on asks under the   *)
(* new generation, so no older entry answers it.                           *)
invalidate_local(n, t) ==
    /\ task[n][t].pc = "hooks" /\ Hooks[task[n][t].hook] = "local"
    /\ bump_all(n, "local")
    /\ cached' = [cached EXCEPT ![n] = {}]
    /\ dropped' = [dropped EXCEPT ![n] = @ \cup {"local"}]
    /\ AtHook(n, t, task[n][t].hook + 1)
    /\ UNCHANGED <<policy, evaluator, inbox, valkey, due, left>>

(* InvalidateAll of the ValkeyEntityCache, up to its first await. *)
invalidate_all(n, t) ==
    /\ task[n][t].pc = "hooks" /\ Hooks[task[n][t].hook] = "valkey"
    /\ bump_all(n, "valkey")
    /\ due' = [due EXCEPT ![n] = {k \in Entries : valkey[k] # None}]
    /\ dropped' = [dropped EXCEPT ![n] = @ \ {"valkey"}]
    /\ task' = [task EXCEPT ![n][t].pc = "scan"]
    /\ UNCHANGED <<policy, evaluator, lock, inbox, cached, valkey, left>>

(* A page of the SCAN and its DEL.  What was there all along is on some    *)
(* page, what came later may be on one or not.                             *)
scan_and_delete(n, t) ==
    /\ task[n][t].pc = "scan"
    /\ \E S \in SUBSET {k \in Entries : valkey[k] # None} : S # {} /\ Gone(S)
    /\ UNCHANGED <<policy, evaluator, lock, task, inbox, cached, load, dropped, left>>

(* The cursor is back at 0, or a page failed: that is logged, and the loop *)
(* over the hooks goes on.                                                 *)
policies_reloaded(n, t) ==
    /\ task[n][t].pc = "scan"
    /\ \/ Works /\ due[n] = {} /\ dropped' = [dropped EXCEPT ![n] = @ \cup {"valkey"}]
       \/ Fails /\ UNCHANGED dropped
    /\ AtHook(n, t, task[n][t].hook + 1)
    /\ UNCHANGED <<policy, evaluator, inbox, cached, valkey, due, load>>

(* Delivery is at most once. *)
announce(n) ==
    /\ task[n].caller.pc = "announce"
    /\ \/ Works /\ \E R \in SUBSET Nodes : inbox' = announced(inbox, R, Capacity)
       \/ Fails /\ UNCHANGED inbox
    /\ Ends(n, "caller")
    /\ lock' = [lock EXCEPT ![n] = None]
    /\ UNCHANGED <<policy, evaluator, cachevars>>

(* The caller's future is dropped, or the ReloadFollower is: what was      *)
(* awaited never resumes and the lock's guard goes with it.                *)
cancel(n, t) ==
    /\ task[n][t] # Idle
    /\ Spend("drops")
    /\ task' = [task EXCEPT ![n][t] = Idle]
    /\ lock' = [lock EXCEPT ![n] = IF @ = t THEN None ELSE @]
    /\ UNCHANGED <<policy, evaluator, inbox, cachevars>>

---------------------------------------------------------------------------
(* The follower. *)
follow_reloads(n) ==
    /\ task[n].follower = Idle
    /\ Spend("starts")
    /\ task' = [task EXCEPT ![n].follower = Waiting]
    /\ inbox' = [inbox EXCEPT ![n] = subscribe]
    /\ UNCHANGED <<policy, evaluator, lock, cachevars>>

(* Bug: the ticker is only looked at once the coordinator has closed. *)
poll_once_closed(n) ==
    /\ task[n].follower.pc = "wait" /\ ~inbox[n].open
    /\ Goes(n, "follower", "load")
    /\ UNCHANGED <<policy, evaluator, lock, inbox, cachevars, left>>

(* follow: the select of the ticker and of the next notice. *)
poll(n) ==
    /\ task[n].follower.pc = "wait"
    /\ Goes(n, "follower", "load")
    /\ UNCHANGED <<policy, evaluator, lock, inbox, cachevars, left>>

notice(n) ==
    /\ task[n].follower.pc = "wait" /\ waiting(inbox[n])
    /\ inbox' = [inbox EXCEPT ![n] = received(@)]
    /\ Goes(n, "follower", "load")
    /\ UNCHANGED <<policy, evaluator, lock, cachevars, left>>

close(n) ==
    /\ task[n].follower.pc = "wait" /\ inbox[n].open /\ ~waiting(inbox[n])
    /\ Fails
    /\ inbox' = [inbox EXCEPT ![n] = closed(@)]
    /\ UNCHANGED <<policy, evaluator, lock, task, cachevars>>

(* PolicySource::load: the application's, of what it held when it read. *)
load_source(n) ==
    /\ task[n].follower.pc = "load"
    /\ \/ Works /\ task' = [task EXCEPT ![n].follower = [Idle EXCEPT !.pc = "compare", !.bundle = policy]]
       \/ Fails /\ Ends(n, "follower")
    /\ UNCHANGED <<policy, evaluator, lock, inbox, cachevars>>

(* The rest of sync_from: the digest in force is read before the lock. *)
sync_from(n) ==
    /\ task[n].follower.pc = "compare"
    /\ IF evaluator[n] # task[n].follower.bundle THEN Goes(n, "follower", "reload") ELSE Ends(n, "follower")
    /\ UNCHANGED <<policy, evaluator, lock, inbox, cachevars, left>>

---------------------------------------------------------------------------
(* The request path.  Both caches take their generation, miss, and read    *)
(* the provider, which answers under the policy then in force.             *)
Loads(n, r, k) == load' = [load EXCEPT ![n][r] = k]

begin_load(n, r) ==
    /\ load[n][r] = NoLoad /\ Spend("loads")
    /\ \/ Loads(n, r, [NoLoad EXCEPT !.pc = "read"])
       \/ \E k \in Entries : Loads(n, r, [NoLoad EXCEPT !.pc = "read", !.cache = "valkey", !.key = k])
    /\ UNCHANGED <<policy, evaluator, lock, task, inbox, cached, valkey, due, dropped>>

entities_for(n, r) ==
    /\ load[n][r].pc = "read"
    /\ Loads(n, r, [load[n][r] EXCEPT !.policy = evaluator[n],
                                      !.pc = IF load[n][r].cache = "local" THEN "publish" ELSE "check"])
    /\ UNCHANGED <<policy, evaluator, lock, task, inbox, cached, valkey, due, dropped, left>>

(* The EntityCache stores under the generation of the lookup: an older one *)
(* is never asked for again.                                               *)
publish_load(n, r) ==
    /\ load[n][r].pc = "publish"
    /\ cached' = IF load[n][r].current THEN [cached EXCEPT ![n] = @ \cup {load[n][r].policy}] ELSE cached
    /\ Loads(n, r, NoLoad)
    /\ UNCHANGED <<policy, evaluator, lock, task, inbox, valkey, due, dropped, left>>

(* The ValkeyEntityCache checks the generation before it writes, ... *)
check_load(n, r) ==
    /\ load[n][r].pc = "check"
    /\ Loads(n, r, IF load[n][r].current THEN [load[n][r] EXCEPT !.pc = "set"] ELSE NoLoad)
    /\ UNCHANGED <<policy, evaluator, lock, task, inbox, cached, valkey, due, dropped, left>>

(* ... writes after two awaits (the index, then SET), ... A write that     *)
(* failed may have been applied (`cut`), and is not checked again.         *)
Wrote(n, r, cut) ==
    [valkey EXCEPT ![load[n][r].key] = [by |-> <<n, r>>, policy |-> load[n][r].policy, cut |-> cut]]

set_load(n, r) ==
    /\ load[n][r].pc = "set"
    /\ \/ Works /\ Loads(n, r, [load[n][r] EXCEPT !.pc = "recheck"]) /\ valkey' = Wrote(n, r, FALSE)
       \/ Fails /\ Loads(n, r, NoLoad) /\ valkey' \in {valkey, Wrote(n, r, TRUE)}
    /\ UNCHANGED <<policy, evaluator, lock, task, inbox, cached, due, dropped>>

(* ... and checks again, to take back what it wrote. *)
recheck_load(n, r) ==
    /\ load[n][r].pc = "recheck"
    /\ Loads(n, r, IF load[n][r].current THEN NoLoad ELSE [load[n][r] EXCEPT !.pc = "takeback"])
    /\ UNCHANGED <<policy, evaluator, lock, task, inbox, cached, valkey, due, dropped, left>>

Cut(n, r) == valkey' = [k \in Entries |-> IF valkey[k] # None /\ valkey[k].by = <<n, r>>
                                          THEN [valkey[k] EXCEPT !.cut = TRUE] ELSE valkey[k]]

take_back(n, r) ==
    /\ load[n][r].pc = "takeback"
    /\ \/ Works /\ Gone({load[n][r].key})
       \/ Fails /\ Cut(n, r) /\ UNCHANGED due
    /\ Loads(n, r, NoLoad)
    /\ UNCHANGED <<policy, evaluator, lock, task, inbox, cached, dropped>>

(* The request is dropped; what it has written, or was writing, stays.     *)
drop_load(n, r) ==
    /\ load[n][r] # NoLoad /\ Spend("drops")
    /\ IF load[n][r].pc \in {"recheck", "takeback"} THEN Cut(n, r)
       ELSE valkey' = valkey \/ (load[n][r].pc = "set" /\ valkey' = Wrote(n, r, TRUE))
    /\ Loads(n, r, NoLoad)
    /\ UNCHANGED <<policy, evaluator, lock, task, inbox, cached, due, dropped>>

(* An entry reaches its TTL. *)
expire(n) ==
    /\ \E p \in cached[n] : cached' = [cached EXCEPT ![n] = @ \ {p}]
    /\ UNCHANGED <<policy, evaluator, lock, task, inbox, valkey, due, load, dropped, left>>

expire_key(k) ==
    /\ valkey[k] # None /\ Gone({k})
    /\ UNCHANGED <<policy, evaluator, lock, task, inbox, cached, load, dropped, left>>

hook_step(n, t) == invalidate_local(n, t) \/ invalidate_all(n, t) \/ scan_and_delete(n, t) \/ policies_reloaded(n, t)
follow_step(n) == poll(n) \/ load_source(n) \/ sync_from(n)
load_step(n, r) ==
    \/ begin_load(n, r) \/ entities_for(n, r) \/ publish_load(n, r) \/ check_load(n, r)
    \/ set_load(n, r) \/ recheck_load(n, r) \/ take_back(n, r) \/ drop_load(n, r)

PolicyNext ==
    \/ Publish \/ \E k \in Entries : expire_key(k)
    \/ \E n \in Nodes :
          \/ reload_policies(n) \/ announce(n)
          \/ \E t \in {"follower", "caller"} : swap_policies(n, t) \/ hook_step(n, t) \/ cancel(n, t)
          \/ follow_reloads(n) \/ follow_step(n) \/ notice(n) \/ close(n)
          \/ \E r \in Requests : load_step(n, r)
          \/ expire(n)

(* The runtime runs a task that can go on, and the poll interval ends. *)
PolicyFairness ==
    \A n \in Nodes :
        /\ WF_pvars(poll(n)) /\ WF_pvars(load_source(n)) /\ WF_pvars(sync_from(n)) /\ WF_pvars(announce(n))
        /\ \A t \in {"follower", "caller"} : WF_pvars(swap_policies(n, t)) /\ WF_pvars(hook_step(n, t))

---------------------------------------------------------------------------
PolicyTypeOK ==
    /\ policy \in Policies
    /\ evaluator \in [Nodes -> Valid]
    /\ lock \in [Nodes -> {None, "follower", "caller"}]
    /\ \A n \in Nodes, t \in {"follower", "caller"} :
          /\ task[n][t].pc \in {"off", "wait", "load", "compare", "reload", "hooks", "scan", "announce"}
          /\ task[n][t].bundle \in Policies \cup {None}
          /\ lock[n] = t <=> task[n][t].pc \in {"hooks", "scan", "announce"}
          /\ task[n][t].hook \in 0 .. Len(Hooks)
    /\ inbox \in [Nodes -> Receivers(Capacity)]
    /\ cached \in [Nodes -> SUBSET Valid]
    /\ valkey \in [Entries -> [by : Nodes \X Requests, policy : Valid, cut : BOOLEAN] \cup {None}]
    /\ due \in [Nodes -> SUBSET {k \in Entries : valkey[k] # None}]
    /\ load \in [Nodes -> [Requests ->
           [pc : {"idle", "read", "publish", "check", "set", "recheck", "takeback"}, cache : {"local", "valkey"},
            key : Entries \cup {None}, policy : Valid \cup {None}, current : BOOLEAN]]]
    /\ dropped \in [Nodes -> SUBSET {"local", "valkey"}]

(* A load that wrote an entry of a retired policy, and will take it back.  *)
Owes(n, r, k) ==
    /\ load[n][r].pc \in {"recheck", "takeback"} /\ load[n][r].key = k /\ ~load[n][r].current

(* Once a hook has dropped a node's own cache, no entity set built under a *)
(* retired policy answers from it: not one stored before, and not one      *)
(* whose load began before the swap and ended after it.  Once one has      *)
(* scanned Valkey, what the node left there of a retired policy is about   *)
(* to be taken back by the load that wrote it, unless that load was        *)
(* dropped or its DEL failed.                                              *)
CachesFollowPolicy ==
    \A n \in Nodes :
        /\ "local" \in dropped[n] => cached[n] \subseteq {evaluator[n]}
        /\ "valkey" \in dropped[n] =>
              \A r \in Requests, k \in Entries :
                  valkey[k] # None /\ valkey[k].by = <<n, r>> /\ valkey[k].policy # evaluator[n] /\ ~valkey[k].cut
                  => Owes(n, r, k)

(* live-policy-reload.md: "the generation guard in the caches already      *)
(* stops a load that started before the swap from writing its result       *)
(* back".  Read for the ValkeyEntityCache, with no call failing and no     *)
(* request dropped.                                                        *)
LateLoadsNotWritten ==
    \A n \in Nodes : "valkey" \in dropped[n] =>
        \A k \in Entries : valkey[k] # None /\ valkey[k].by[1] = n => valkey[k].policy = evaluator[n]

(* An instance that follows comes to run what the source holds, whatever   *)
(* notices were lost or late, reads failed, callers were cancelled, and    *)
(* local reloads landed between the follower's read and its swap.          *)
PolicyConverges ==
    \A n \in Nodes :
        <>[](task[n].follower # Idle /\ policy \in Valid => evaluator[n] = policy)
=============================================================================
