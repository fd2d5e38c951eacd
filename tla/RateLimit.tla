------------------------------ MODULE RateLimit ------------------------------
(***************************************************************************)
(* The rate limiter of RateLimitLayer: BucketStore, a table of             *)
(* sliding-window counters with a cap, a budget of buckets for each group  *)
(* of addresses and expiry sweeps.  A request is one thread in             *)
(* try_acquire_target; each critical section and each atomic access is a   *)
(* step, so that the time a request read is stale when it gets the lock.   *)
(***************************************************************************)
EXTENDS Integers, FiniteSets, FiniteSetsExt, Functions, TLC

CONSTANTS
    Threads,        \* requests in flight at most
    Targets,        \* what requests resolve to: [key, group, fold_into, fold_near_cap]
    NoGroup,        \* no group, no bucket to fold into
    MaxRequests,    \* max_requests
    WindowMs,       \* window_ms
    MinSweepMs,     \* MIN_SWEEP_INTERVAL_MS
    HardCap,        \* hard_cap
    GroupCap,       \* group_cap
    MsPerSec        \* milliseconds in a second

ASSUME RateAssumption ==
    /\ {MaxRequests, WindowMs, MinSweepMs, HardCap, GroupCap, MsPerSec} \subseteq Nat \ {0}

VARIABLES
    clock,          \* the injected clock
    buckets,        \* the table: key -> TokenBucket
    bucketCount,    \* bucket_count
    groupCounts,    \* group_counts
    lastSweep,      \* last_sweep_ms
    request,        \* thread -> where its request is, what it read
    passes,         \* rigid: what this part of a run may do, see RateInit
    calls,          \* requests still to come, a bound of the model
    admitted        \* ghost: bucket key -> the requests admitted at each time

rateVars == <<clock, buckets, bucketCount, groupCounts, lastSweep, request, passes, calls, admitted>>

Groups == {t.group : t \in Targets} \ {NoGroup}
NoRequest == [at |-> "none"]

-----------------------------------------------------------------------------
(* The counter of one bucket. *)

NewBucket(now, group) == [curr |-> 0, prev |-> 0, start |-> now, group |-> group]

Monus(a, b) == IF a > b THEN a - b ELSE 0

(* Bug: a window that starts in the future is left where it is. *)
roll_forward(b, now) ==
    LET windows == Monus(now, b.start) \div WindowMs
    IN  IF windows = 0 THEN b
        ELSE [b EXCEPT !.prev = IF windows = 1 THEN b.curr ELSE 0,
                       !.curr = 0,
                       !.start = @ + windows * WindowMs]

roll(b, now) ==
    IF now < b.start THEN [b EXCEPT !.start = now]
    ELSE LET windows == (now - b.start) \div WindowMs
         IN  IF windows = 0 THEN b
             ELSE [b EXCEPT !.prev = IF windows = 1 THEN b.curr ELSE 0,
                            !.curr = 0,
                            !.start = @ + windows * WindowMs]

(* A window carries into the next by what of it the trailing window still  *)
(* overlaps.                                                               *)
estimate(b, now) ==
    (b.prev * Monus(WindowMs, Monus(now, b.start))) \div WindowMs + b.curr

(* The wait of a bucket that has just refused: until the previous window   *)
(* weighs little enough, in this window or, if this one is full, the next. *)
wait_ms(b, now) ==
    LET into == Monus(now, b.start)
        full == b.curr >= MaxRequests
        prev == IF full THEN b.curr ELSE b.prev
        headroom == IF full THEN MaxRequests - 1 ELSE MaxRequests - b.curr - 1
        toWindowEnd == IF full THEN Monus(WindowMs, into) ELSE 0
        overlap == ((headroom + 1) * WindowMs - 1) \div prev
        needed == IF prev = 0 THEN 0 ELSE Monus(WindowMs, overlap)
    IN  IF toWindowEnd > 0 THEN toWindowEnd + needed ELSE Monus(needed, into)

retry_after(b, now) == Max({1, (wait_ms(b, now) + MsPerSec - 1) \div MsPerSec})

Admits(b, now) == estimate(b, now) < MaxRequests

-----------------------------------------------------------------------------
(* The table. *)

sweep_interval_ms == Max({WindowMs \div 8, MinSweepMs})

Is(c, at) == request[c].at = at
Go(c, at) == request' = [request EXCEPT ![c].at = at]

(* A request that overshot the cap holds the table's lock until it has     *)
(* given the count back.  The count itself is read and lowered without it. *)
Unlocked == \A c \in Threads : ~Is(c, "overshot")

(* The request is over, or has first to give a reservation back. *)
Answer(c, ok, group) ==
    request' = [request EXCEPT ![c] =
        CASE group # NoGroup -> [at |-> "giveback", group |-> group, ok |-> ok]
          [] group = NoGroup /\ ok -> [at |-> "passed"]
          [] OTHER -> NoRequest]

(* take: the bucket counts the request, or refuses it. *)
take_token(table, c, key, reserved) ==
    LET now == request[c].now
        b == roll(table[key], now)
        ok == Admits(b, now)
    IN  /\ buckets' = [table EXCEPT ![key] = IF ok THEN [b EXCEPT !.curr = @ + 1] ELSE b]
        /\ admitted' = IF ok THEN [admitted EXCEPT ![key][now] = @ + 1] ELSE admitted
        /\ Answer(c, ok, reserved)

(* call: the target is resolved and the clock read. *)
begin_request(c, t) ==
    /\ c \in passes.threads /\ request[c] = NoRequest /\ calls > 0 /\ t.key \in passes.keys
    /\ request' = [request EXCEPT ![c] = [at |-> "sweep", target |-> t, now |-> clock, last |-> 0, freed |-> {}, reserved |-> FALSE]]
    /\ calls' = calls - 1
    /\ UNCHANGED <<clock, buckets, bucketCount, groupCounts, lastSweep, passes, admitted>>

(* sweep_if_due: a stamp in the future counts as due too. *)
sweep_if_due(c) ==
    /\ Is(c, "sweep")
    /\ LET now == request[c].now
           due == ~ (now >= lastSweep /\ now - lastSweep < sweep_interval_ms)
       IN  request' = [request EXCEPT ![c].at = IF due THEN "stamp" ELSE "lookup", ![c].last = lastSweep]
    /\ UNCHANGED <<clock, buckets, bucketCount, groupCounts, lastSweep, passes, calls, admitted>>

stamp_sweep(c) ==
    /\ Is(c, "stamp")
    /\ IF lastSweep = request[c].last
       THEN lastSweep' = request[c].now /\ Go(c, "evict")
       ELSE UNCHANGED lastSweep /\ Go(c, "lookup")
    /\ UNCHANGED <<clock, buckets, bucketCount, groupCounts, passes, calls, admitted>>

(* Bug: a bucket lives for the window it counts, not for the next one.     *)
Outlived_after_one(b, now) == now - b.start >= WindowMs

(* A bucket weighs on the estimate for one window past its own. *)
Outlived(b, now) == now - b.start >= 2 * WindowMs

evict_expired_ms(c) ==
    /\ Is(c, "evict") /\ Unlocked
    /\ LET now == request[c].now
           anchored == [k \in DOMAIN buckets |-> [buckets[k] EXCEPT !.start = Min({@, now})]]
           gone == {k \in DOMAIN buckets : Outlived(anchored[k], now)}
       IN  /\ buckets' = Restrict(anchored, DOMAIN buckets \ gone)
           /\ request' = [request EXCEPT ![c].at = "uncount", ![c].freed = {<<k, buckets[k].group>> : k \in gone}]
    /\ UNCHANGED <<clock, bucketCount, groupCounts, lastSweep, passes, calls, admitted>>

uncount_removed(c) ==
    /\ Is(c, "uncount")
    /\ bucketCount' = bucketCount - Cardinality(request[c].freed)
    /\ request' = [request EXCEPT ![c].at = "release", ![c].freed = {f \in @ : f[2] # NoGroup}]
    /\ UNCHANGED <<clock, buckets, groupCounts, lastSweep, passes, calls, admitted>>

release_freed(c) ==
    /\ Is(c, "release")
    /\ IF request[c].freed = {} THEN Go(c, "lookup") /\ UNCHANGED groupCounts
       ELSE LET f == CHOOSE f \in request[c].freed : TRUE
            IN  /\ groupCounts' = [groupCounts EXCEPT ![f[2]] = Monus(@, 1)]
                /\ request' = [request EXCEPT ![c].freed = @ \ {f}]
    /\ UNCHANGED <<clock, buckets, bucketCount, lastSweep, passes, calls, admitted>>

(* try_acquire_target: a bucket that exists is used, whatever the caps. *)
lookup_bucket(c) ==
    /\ Is(c, "lookup") /\ Unlocked
    /\ LET key == request[c].target.key
       IN  IF key \in DOMAIN buckets THEN take_token(buckets, c, key, NoGroup)
           ELSE Go(c, "cap") /\ UNCHANGED <<buckets, admitted>>
    /\ UNCHANGED <<clock, bucketCount, groupCounts, lastSweep, passes, calls>>

(* The request gets a bucket of its own, or folds if there is one to fold  *)
(* into.                                                                   *)
check_near_cap(c) ==
    /\ Is(c, "cap")
    /\ LET t == request[c].target
           near == t.fold_near_cap /\ bucketCount >= (HardCap \div 4) * 3
       IN  Go(c, CASE ~near /\ t.group # NoGroup -> "reserve"
                   [] near /\ t.fold_into # NoGroup -> "fold"
                   [] OTHER -> "own")
    /\ UNCHANGED <<clock, buckets, bucketCount, groupCounts, lastSweep, passes, calls, admitted>>

reserve_group(c) ==
    /\ Is(c, "reserve")
    /\ LET t == request[c].target
           granted == groupCounts[t.group] < GroupCap
       IN  /\ groupCounts' = IF granted THEN [groupCounts EXCEPT ![t.group] = @ + 1] ELSE groupCounts
           /\ request' = [request EXCEPT ![c].reserved = granted,
                                         ![c].at = IF ~granted /\ t.fold_into # NoGroup THEN "fold" ELSE "own"]
    /\ UNCHANGED <<clock, buckets, bucketCount, lastSweep, passes, calls, admitted>>

(* acquire_new_or_existing, under the table's lock: found, created, or     *)
(* counted past the cap.  A reservation that created no bucket is given    *)
(* back.                                                                   *)
acquire_new_or_existing(c, key, group) ==
    CASE key \in DOMAIN buckets ->
            take_token(buckets, c, key, group) /\ UNCHANGED bucketCount
      [] key \notin DOMAIN buckets /\ bucketCount >= HardCap ->
            /\ request' = [request EXCEPT ![c] = [at |-> "overshot", group |-> group, ok |-> FALSE]]
            /\ bucketCount' = bucketCount + 1
            /\ UNCHANGED <<buckets, admitted>>
      [] OTHER ->
            /\ take_token(buckets @@ key :> NewBucket(request[c].now, group), c, key, NoGroup)
            /\ bucketCount' = bucketCount + 1

acquire_overflow(c) ==
    /\ Is(c, "fold") /\ Unlocked
    /\ acquire_new_or_existing(c, request[c].target.fold_into, NoGroup)
    /\ UNCHANGED <<clock, groupCounts, lastSweep, passes, calls>>

acquire_own(c) ==
    /\ Is(c, "own") /\ Unlocked
    /\ acquire_new_or_existing(c, request[c].target.key, IF request[c].reserved THEN request[c].target.group ELSE NoGroup)
    /\ UNCHANGED <<clock, groupCounts, lastSweep, passes, calls>>

(* The fetch_sub that takes the fetch_add back; the request is refused. *)
undo_count(c) ==
    /\ Is(c, "overshot")
    /\ bucketCount' = bucketCount - 1
    /\ Answer(c, FALSE, request[c].group)
    /\ UNCHANGED <<clock, buckets, groupCounts, lastSweep, passes, calls, admitted>>

(* Bug: the reservation is not given back. *)
release_nothing(c) ==
    /\ Is(c, "giveback")
    /\ Answer(c, request[c].ok, NoGroup)
    /\ UNCHANGED <<clock, buckets, bucketCount, groupCounts, lastSweep, passes, calls, admitted>>

release_group(c) ==
    /\ Is(c, "giveback")
    /\ groupCounts' = [groupCounts EXCEPT ![request[c].group] = Monus(@, 1)]
    /\ Answer(c, request[c].ok, NoGroup)
    /\ UNCHANGED <<clock, buckets, bucketCount, lastSweep, passes, calls, admitted>>

(* An admitted request goes on to the service behind the layer. *)
forward(c) ==
    /\ Is(c, "passed")
    /\ request' = [request EXCEPT ![c] = NoRequest]
    /\ UNCHANGED <<clock, buckets, bucketCount, groupCounts, lastSweep, passes, calls, admitted>>

(* The clock moves to one of the instants of the scene, no further than    *)
(* `stall` past the time of a request in flight, and back if it may.       *)
Flying == {c \in Threads : request[c].at \notin {"none", "passed", "overshot", "giveback"}}
set_clock(t) ==
    /\ t \in passes.times /\ (t > clock \/ passes.back)
    /\ \A c \in Flying : t <= request[c].now + passes.stall
    /\ clock' = t
    /\ UNCHANGED <<buckets, bucketCount, groupCounts, lastSweep, request, passes, calls, admitted>>

-----------------------------------------------------------------------------
RateInit(p) ==
    /\ passes = p       \* [threads, keys, times, stall, back, calls]
    /\ clock = Min(p.times) /\ lastSweep = clock
    /\ buckets = [k \in {} |-> NoGroup] /\ bucketCount = 0
    /\ groupCounts = [g \in Groups |-> 0]
    /\ request = [c \in Threads |-> NoRequest]
    /\ calls = p.calls
    /\ LET targets == {t \in Targets : t.key \in p.keys}
       IN  admitted = [k \in {t.key : t \in targets} \cup {t.fold_into : t \in targets} |-> [t \in p.times |-> 0]]

RequestStep(c) ==
    \/ \E t \in Targets : begin_request(c, t)
    \/ sweep_if_due(c) \/ stamp_sweep(c) \/ evict_expired_ms(c) \/ uncount_removed(c) \/ release_freed(c)
    \/ lookup_bucket(c) \/ check_near_cap(c) \/ reserve_group(c)
    \/ acquire_overflow(c) \/ acquire_own(c) \/ undo_count(c) \/ release_group(c)

RateNext == (\E c \in Threads : RequestStep(c)) \/ (\E t \in passes.times : set_clock(t))

-----------------------------------------------------------------------------
RateTypeOK ==
    /\ clock \in passes.times /\ bucketCount \in Nat
    /\ groupCounts \in [Groups -> Nat]
    /\ \A k \in DOMAIN buckets : /\ {buckets[k].curr, buckets[k].prev} \subseteq 0 .. MaxRequests
                                 /\ buckets[k].start \in Nat /\ buckets[k].group \in Groups \cup {NoGroup}

(* However requests race each other and the sweeps, the counters beside    *)
(* the table count it: what is counted is in the table, or is a bucket     *)
(* swept, a reservation made or a count past the cap whose thread has yet  *)
(* to account for it.  So neither the table nor a group outgrows its cap,  *)
(* and no slot is lost.                                                    *)
(* (bucket_count, group_counts)                                            *)
Freed(c) == IF request[c].at \in {"uncount", "release"} THEN request[c].freed ELSE {}
Reserves(c, g) ==
    \/ request[c].at = "own" /\ request[c].reserved /\ request[c].target.group = g
    \/ request[c].at \in {"overshot", "giveback"} /\ request[c].group = g
TableAccounted ==
    /\ Cardinality(DOMAIN buckets) <= HardCap
    /\ bucketCount = Cardinality(DOMAIN buckets) + Cardinality({c \in Threads : Is(c, "overshot")})
          + MapThenSumSet(LAMBDA c : IF Is(c, "uncount") THEN Cardinality(Freed(c)) ELSE 0, Threads)
    /\ \A g \in Groups :
          /\ groupCounts[g] <= GroupCap
          /\ groupCounts[g] = Cardinality({k \in DOMAIN buckets : buckets[k].group = g})
                + MapThenSumSet(LAMBDA c : Cardinality({f \in Freed(c) : f[2] = g}), Threads)
                + Cardinality({c \in Threads : Reserves(c, g)})

(* The bucket a request for `key` would draw on now. *)
Now(key) == IF key \in DOMAIN buckets THEN roll(buckets[key], clock) ELSE NewBucket(clock, NoGroup)

(* The requests admitted in the trailing window, less the time a request   *)
(* in flight may lag behind.                                               *)
Trailing(key) ==
    MapThenSumSet(LAMBDA t : admitted[key][t], {t \in passes.times : clock - (WindowMs - passes.stall) < t /\ t <= clock})

(* While the clock does not step back no request that was admitted within  *)
(* the trailing window is forgotten, by a roll, a sweep or the re-anchoring*)
(* that a late request does: so a key passes at most twice max_requests in *)
(* any trailing window.  (roll, evict_expired_ms)                          *)
CountsCover ==
    ~passes.back => \A key \in DOMAIN admitted :
        /\ Trailing(key) <= Now(key).curr + Now(key).prev
        /\ Trailing(key) <= 2 * MaxRequests

(* A key that is refused is refused until its wait is over, never longer   *)
(* than two windows, and from then on admitted, if nobody else draws on    *)
(* its bucket: also when the clock stepped back, and when it waits for the *)
(* seconds it was told.  (wait_ms, retry_after_secs)                       *)
WaitExact ==
    \A key \in DOMAIN buckets :
        LET b == Now(key)
            w == wait_ms(b, clock)
            Then(x) == Admits(roll(b, clock + x), clock + x)
        IN  ~Admits(b, clock) =>
                /\ w <= 2 * WindowMs
                /\ \A x \in 0 .. 2 * WindowMs : Then(x) <=> x >= w
                /\ Then(MsPerSec * retry_after(b, clock))

RateHolds == CountsCover /\ WaitExact

(* The limiter keeps its limits: those of its table and those of a key.    *)
(* (try_acquire_target, evict_expired_ms)                                  *)
LimitsHold == TableAccounted /\ RateHolds

(* "about `max_requests` pass in any trailing window and not twice that"   *)
(* (store.rs:37).  Twice that do, at the end of one window and late in the *)
(* next.                                                                   *)
NotTwice == \A key \in DOMAIN admitted : Trailing(key) < 2 * MaxRequests
=============================================================================
