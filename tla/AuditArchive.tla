---------------------------- MODULE AuditArchive ----------------------------
(***************************************************************************)
(* Audit retention: AuditRetentionLoop moves rows that are due from the    *)
(* hot table to the archive, marks them and later purges them, over the    *)
(* filesystem archiver, whose blocking task writes one batch at a time     *)
(* under the root's lock.  A row is a number; rows are in the order of     *)
(* their event time.  Time passes while a runner rests: a row set aside,   *)
(* a row not yet due and a marked row count the time they have left.       *)
(***************************************************************************)
EXTENDS ArchiveFiles, Functions, FiniteSetsExt, TLC

CONSTANTS Rows,             \* the hot table's rows
          Day,              \* the day a row's event belongs to
          Runners,          \* processes that run the loop
          None,
          TickInterval,     \* the rest between two drains
          SKIP_FOR,         \* how long a refused row is left out
          STRIKES_BEFORE_SKIP, MAX_TRACKED_ROWS, MAX_TICKS_PER_DRAIN,
          PurgeAfter,       \* policy.purge_hot_after_archive
          Scenes            \* what a run enumerates, see Init

ASSUME IntervalAssumption == TickInterval \in Nat \ {0} /\ SKIP_FOR \in Nat \ {0}
ASSUME RowAssumption == Rows \subseteq Nat /\ IsFiniteSet(Rows) /\ Day \in [Rows -> Nat]
ASSUME SceneAssumption == \A s \in Scenes : s.archived \subseteq Rows /\ s.runners \subseteq Runners
(* A torn line is no line, and nobody is no runner and no answer. *)
ASSUME TokenAssumption ==
    Half \notin Rows /\ (\A R \in SUBSET Rows : Half # R) /\ None \notin Runners /\ None \notin {"ok", "err"}

VARIABLES hot,       \* the table: state, time until due, time until it may be purged
          data,      \* the day files
          marks,     \* their .batches sidecars
          task,      \* the blocking task that holds the root's lock
          runner,    \* the loops
          faults,    \* failures still to come, a bound of the model
          clean,     \* ghost: the files before the running task, and its rollback undid all
          scene
vars == <<hot, data, marks, task, runner, faults, clean, scene>>

Days == Range(Day)
Sorted(R) == SetToSortSeq(R, <)
Earliest(R, n) == {r \in R : Cardinality({x \in R : x < r}) < n}
(* The rows of a day; their order within a batch is left open. *)
OfDay(R, d) == {r \in R : Day[r] = d}
OnDay(R, d) == SetToSeq(OfDay(R, d))
DaysOf(R) == {Day[r] : r \in R}
(* The functions that take each day to a member of S(day). *)
PerDay(S(_)) == {g \in [Days -> UNION {S(d) : d \in Days}] : \A d \in Days : g[d] \in S(d)}

Resting(skipped) ==
    [pc |-> "rest", batch |-> {}, ask |-> {}, mode |-> "batch", left |-> {}, taken |-> {}, refused |-> {},
     failed |-> FALSE, answer |-> None, archived |-> 0, outcome |-> "ok", ticks |-> 0, skipped |-> skipped]
Fresh == [Resting([r \in {} |-> 0]) EXCEPT !.pc = "tick"]
NoTask == [owner |-> None, pc |-> "none", rows |-> {}, phase |-> 1, todo |-> {}, len |-> [d \in {} |-> 0]]

Init ==
    /\ scene \in Scenes
    /\ hot = [r \in Rows |-> IF r \in scene.archived
                             THEN [state |-> "archived", due |-> 0, keep |-> PurgeAfter]
                             ELSE [state |-> "hot", due |-> scene.due[r], keep |-> PurgeAfter]]
    /\ LET f(lines) == [cache |-> lines, disk |-> lines, linked |-> TRUE]
           old == DaysOf(scene.archived)
       IN  /\ data = [d \in Days |-> IF d \in old THEN f(OnDay(scene.archived, d)) ELSE NewFile]
           /\ marks = [d \in Days |-> IF d \in old THEN f(<<scene.archived>>) ELSE NewFile]
    /\ task = NoTask
    /\ runner = [n \in Runners |-> Fresh]
    /\ faults = scene.faults
    /\ clean = [files |-> None, undone |-> TRUE]

Fault(kind) == kind \in scene.fails /\ faults > 0 /\ faults' = faults - 1
NoFault == UNCHANGED faults

---------------------------------------------------------------------------
(* skipped.rs: per refused row its strikes, and how long it is left out. *)
Expired(sk) == [r \in DOMAIN sk |-> IF sk[r].until = 0 THEN [sk[r] EXCEPT !.until = None] ELSE sk[r]]
is_held(sk, r) == r \in DOMAIN sk /\ sk[r].until # None
held(sk) == Cardinality({r \in DOMAIN sk : is_held(sk, r)})

(* Bug: strikes are counted and the row is never set aside. *)
refused_only_counted(sk, r, certain) ==
    LET was == IF r \in DOMAIN sk THEN sk[r] ELSE [strikes |-> 0, until |-> None]
    IN  [x \in DOMAIN sk \cup {r} |-> IF x = r THEN [was EXCEPT !.strikes = 1] ELSE sk[x]]

refused(sk, r, certain) ==
    LET was == IF r \in DOMAIN sk THEN sk[r] ELSE [strikes |-> 0, until |-> None]
        struck == [was EXCEPT !.strikes = @ + 1]
        out == IF certain \/ struck.strikes >= STRIKES_BEFORE_SKIP
               THEN [strikes |-> STRIKES_BEFORE_SKIP - 1, until |-> SKIP_FOR] ELSE struck
    IN  IF r \notin DOMAIN sk /\ Cardinality(DOMAIN sk) >= MAX_TRACKED_ROWS THEN sk
        ELSE [x \in DOMAIN sk \cup {r} |-> IF x = r THEN out ELSE sk[x]]

note_refusals(sk, rows, certain) == FoldLeft(LAMBDA s, r : refused(s, r, certain), sk, Sorted(rows))
forget_refusals(sk, rows) == Restrict(sk, DOMAIN sk \ rows)

---------------------------------------------------------------------------
(* The retention loop: a tick archives what is due, then purges. *)
Set(n, r) == runner' = [runner EXCEPT ![n] = r]

(* Bug: a tick that finds nothing to archive returns before the purge. *)
ToPurge_after_batch(r, outcome) ==
    IF r.batch = {} THEN Resting(r.skipped)
    ELSE [r EXCEPT !.pc = "purge", !.outcome = outcome, !.ask = {}, !.answer = None]

(* The archive step ended: `outcome` is its result, the purge is next. *)
ToPurge(r, outcome) == [r EXCEPT !.pc = "purge", !.outcome = outcome, !.ask = {}, !.answer = None]

Offer(r, mode, rows) == [r EXCEPT !.pc = "offer", !.mode = mode, !.ask = rows, !.answer = None]

select_unarchived(n) ==
    LET r == [runner[n] EXCEPT !.skipped = Expired(@), !.ticks = @ + 1, !.archived = 0, !.taken = {},
                               !.refused = {}, !.failed = FALSE, !.batch = {}, !.left = {}]
        due == {x \in Rows : hot[x].state = "hot" /\ hot[x].due = 0}
        got == Earliest(due, scene.batch_size + held(r.skipped))
        batch == Earliest({x \in got : ~ is_held(r.skipped, x)}, scene.batch_size)
    IN  /\ runner[n].pc = "tick"
        /\ \/ /\ NoFault
              /\ Set(n, IF batch = {} THEN ToPurge(r, "ok") ELSE Offer([r EXCEPT !.batch = batch], "batch", batch))
           \/ Fault("table") /\ Set(n, ToPurge(r, "source"))
        /\ UNCHANGED <<hot, data, marks, task, clean, scene>>

(* The next row to offer alone, or the mark when there is none. *)
NextRow(r) ==
    IF r.left # {} THEN Offer([r EXCEPT !.left = @ \ {Min(@)}], "row", {Min(r.left)})
    ELSE IF r.taken # {} THEN [r EXCEPT !.pc = "mark"]
    ELSE ToPurge(r, IF r.failed THEN "archiver" ELSE "ok")

(* archive_due, on the sink's answer.  A refused batch is probed with its  *)
(* first and its last row; if both are refused the sink counts as down.    *)
answered(n) ==
    LET r == runner[n]
        first == Min(r.batch)
        final == Max(r.batch)
        ok == r.answer = "ok"
        took == [r EXCEPT !.taken = @ \cup r.ask]
        lost == [r EXCEPT !.refused = @ \cup r.ask, !.failed = TRUE]
    IN  /\ r.pc = "answered"
        /\ Set(n, CASE ok /\ r.mode = "batch" -> [took EXCEPT !.pc = "mark"]
                    [] ~ ok /\ r.mode = "batch" /\ first = final ->
                         ToPurge([r EXCEPT !.skipped = note_refusals(@, r.batch, FALSE)], "archiver")
                    [] ~ ok /\ r.mode = "batch" -> Offer(r, "first", {first})
                    [] ok /\ r.mode = "first" -> NextRow([took EXCEPT !.left = r.batch \ {first}])
                    [] ~ ok /\ r.mode = "first" -> Offer(lost, "last", {final})
                    [] ok /\ r.mode = "last" -> NextRow([took EXCEPT !.left = r.batch \ {first, final}])
                    [] ~ ok /\ r.mode = "last" ->
                         ToPurge([r EXCEPT !.skipped = note_refusals(@, {first, final}, FALSE)], "archiver")
                    [] r.mode = "row" -> NextRow(IF ok THEN took ELSE lost))
        /\ NoFault
        /\ UNCHANGED <<hot, data, marks, task, clean, scene>>

(* mark_archived, and the book-keeping of refusals after it.  A mark that  *)
(* fails may have been applied.                                            *)
Marked(R) == [x \in Rows |-> IF x \in R /\ hot[x].state = "hot"
                             THEN [hot[x] EXCEPT !.state = "archived", !.keep = PurgeAfter] ELSE hot[x]]
mark_archived(n) ==
    LET r == runner[n]
        kept == forget_refusals(r.skipped, r.taken)
        done == [r EXCEPT !.archived = Cardinality(r.taken),
                          !.skipped = note_refusals(kept, r.refused, TRUE)]
    IN  /\ r.pc = "mark"
        /\ \/ /\ NoFault
              /\ hot' = Marked(r.taken)
              /\ Set(n, ToPurge(done, IF r.failed THEN "archiver" ELSE "ok"))
           \/ /\ Fault("table")
              /\ hot' \in {hot, Marked(r.taken)}
              /\ Set(n, ToPurge(r, "source"))
        /\ UNCHANGED <<data, marks, task, clean, scene>>

(* The drain goes on after a full batch or a partly refused one. *)
drains_on(r, o) ==
    /\ r.ticks < MAX_TICKS_PER_DRAIN
    /\ \/ o = "ok" /\ r.archived >= scene.batch_size
       \/ o = "archiver" /\ r.archived > 0

(* purge_hot_archived_before runs whatever the archive step did. *)
purge(n) ==
    LET r == runner[n]
        over(o) == IF drains_on(r, o) THEN [r EXCEPT !.pc = "tick"] ELSE Resting(r.skipped)
    IN  /\ r.pc = "purge"
        /\ \/ /\ NoFault
              /\ hot' = [x \in Rows |-> IF hot[x].state = "archived" /\ hot[x].keep = 0
                                        THEN [hot[x] EXCEPT !.state = "purged"] ELSE hot[x]]
              /\ Set(n, over(r.outcome))
           \/ /\ Fault("table") /\ UNCHANGED hot
              /\ Set(n, over(IF r.outcome = "ok" THEN "source" ELSE r.outcome))
        /\ UNCHANGED <<data, marks, task, clean, scene>>

(* Every runner rests: the interval passes, and they wake. *)
Less(x, d) == IF x > d THEN x - d ELSE 0
rest ==
    /\ \A n \in scene.runners : runner[n].pc = "rest"
    /\ hot' = [x \in Rows |->
         [hot[x] EXCEPT !.due = Less(@, TickInterval),
                        !.keep = IF hot[x].state = "archived" THEN Less(@, TickInterval) ELSE @]]
    /\ runner' = [n \in Runners |->
         [runner[n] EXCEPT !.pc = "tick",
            !.skipped = [x \in DOMAIN @ |-> IF @[x].until = None THEN @[x]
                                            ELSE [@[x] EXCEPT !.until = Less(@, TickInterval)]]]]
    /\ NoFault
    /\ UNCHANGED <<data, marks, task, clean, scene>>

---------------------------------------------------------------------------
(* The archiver.  archive_with_hook turns an event it cannot place or      *)
(* serialise away before it writes; otherwise the blocking task takes the  *)
(* root's lock when it is free.                                            *)
Answer(n, a) == runner' = [runner EXCEPT ![n].answer = a, ![n].pc = "answered"]

turn_away(n) ==
    /\ runner[n].pc = "offer" /\ runner[n].ask \cap scene.bad # {}
    /\ Answer(n, "err") /\ NoFault
    /\ UNCHANGED <<hot, data, marks, task, clean, scene>>

lock_root(n) ==
    /\ runner[n].pc = "offer" /\ runner[n].ask \cap scene.bad = {} /\ task = NoTask
    /\ task' = [NoTask EXCEPT !.owner = n, !.pc = "check", !.rows = runner[n].ask]
    /\ Set(n, [runner[n] EXCEPT !.pc = "wait"])
    /\ clean' = [files |-> [data |-> data, marks |-> marks], undone |-> TRUE]
    /\ NoFault
    /\ UNCHANGED <<hot, data, marks, scene>>

(* The task answers and lets the lock go; its caller may be gone. *)
Finish(a) ==
    /\ task' = NoTask
    /\ IF task.owner = None THEN UNCHANGED runner ELSE Answer(task.owner, a)

Id == task.rows
(* Bug: the sidecar is not looked at. *)
recorded_nowhere(d) == FALSE

recorded(d) == \E i \in 1 .. Len(marks[d].cache) : marks[d].cache[i] = Id

(* A batch whose marker any of its days holds is done. *)
check_recorded ==
    /\ task.pc = "check"
    /\ IF \E d \in DaysOf(task.rows) : recorded(d)
       THEN Finish("ok")
       ELSE task' = [task EXCEPT !.pc = "open"] /\ UNCHANGED runner
    /\ NoFault
    /\ UNCHANGED <<hot, data, marks, clean, scene>>

(* write_phase over the data files (phase 1), then the markers (phase 2).  *)
Group == IF task.phase = 1 THEN data ELSE marks
Keep(g) == IF task.phase = 1 THEN data' = g /\ UNCHANGED marks ELSE marks' = g /\ UNCHANGED data
LinesFor(d) == IF task.phase = 1 THEN OnDay(task.rows, d) ELSE <<Id>>
Files(phase) == {<<phase, d>> : d \in DaysOf(task.rows)}
RollBack == task' = [task EXCEPT !.pc = "undomarks"]

open_files ==
    LET cut == [d \in Days |-> IF d \in DaysOf(task.rows) THEN cut_torn_tail(Group[d]) ELSE Group[d]]
    IN  /\ task.pc = "open"
        /\ Keep(cut)
        /\ \/ /\ NoFault
              /\ task' = [task EXCEPT !.pc = "write", !.todo = DaysOf(task.rows),
                   !.len = [x \in DOMAIN @ \cup Files(task.phase) |->
                              IF x[1] = task.phase THEN Len(cut[x[2]].cache) ELSE @[x]]]
           \/ Fault("io") /\ RollBack
        /\ UNCHANGED <<hot, runner, clean, scene>>

write_file ==
    LET d == Min(task.todo)
        left == task.todo \ {d}
    IN  /\ task.pc = "write"
        /\ \/ /\ NoFault
              /\ Keep([Group EXCEPT ![d] = Written(@, LinesFor(d))])
              /\ task' = [task EXCEPT !.todo = IF left = {} THEN DaysOf(task.rows) ELSE left,
                                      !.pc = IF left = {} THEN "sync" ELSE "write"]
           \/ /\ Fault("io") /\ RollBack
              /\ \E f \in PartlyWritten(Group[d], LinesFor(d)) : Keep([Group EXCEPT ![d] = f])
        /\ UNCHANGED <<hot, runner, clean, scene>>

sync_file ==
    LET d == Min(task.todo)
        left == task.todo \ {d}
    IN  /\ task.pc = "sync"
        /\ \/ /\ NoFault
              /\ Keep([Group EXCEPT ![d] = sync_all(@)])
              /\ task' = [task EXCEPT !.todo = left, !.pc = IF left = {} THEN "dirs" ELSE "sync"]
           \/ /\ Fault("io") /\ RollBack
              /\ \E f \in {Group[d], sync_all(Group[d])} : Keep([Group EXCEPT ![d] = f])
        /\ UNCHANGED <<hot, runner, clean, scene>>

sync_dirs ==
    /\ task.pc = "dirs"
    /\ \/ /\ NoFault
          /\ Keep([d \in Days |-> IF d \in DaysOf(task.rows) THEN sync_dir(Group[d]) ELSE Group[d]])
          /\ IF task.phase = 1 THEN task' = [task EXCEPT !.phase = 2, !.pc = "open"] /\ UNCHANGED runner
             ELSE Finish("ok")
       \/ /\ Fault("io") /\ RollBack
          /\ UNCHANGED <<data, marks, runner>>
    /\ UNCHANGED <<hot, clean, scene>>

(* append_all_or_none, on an error: every marker is restored, and the data *)
(* files only if every marker was.  A restore that fails leaves the file   *)
(* as it is, or cut and not synced.                                        *)
Undo(files, phase, failing) ==
    PerDay(LAMBDA d :
        LET n == task.len[<<phase, d>>]
        IN  IF <<phase, d>> \notin DOMAIN task.len THEN {files[d]}
            ELSE IF d \in failing THEN {files[d], set_len(files[d], n)}
            ELSE {Restored(files[d], n)})
Touched(phase) == {d \in Days : <<phase, d>> \in DOMAIN task.len}

(* Bug: the data files are cut back though a marker stayed. *)
undo_markers_best_effort ==
    /\ task.pc = "undomarks"
    /\ \/ NoFault /\ marks' \in Undo(marks, 2, {})
       \/ /\ Touched(2) # {} /\ Fault("io")
          /\ \E failing \in SUBSET Touched(2) \ {{}} : marks' \in Undo(marks, 2, failing)
    /\ task' = [task EXCEPT !.pc = "undodata"]
    /\ UNCHANGED <<hot, data, runner, clean, scene>>

undo_markers ==
    /\ task.pc = "undomarks"
    /\ \/ /\ NoFault /\ marks' \in Undo(marks, 2, {})
          /\ task' = [task EXCEPT !.pc = "undodata"]
          /\ UNCHANGED <<runner, clean>>
       \/ /\ Touched(2) # {} /\ Fault("io")
          /\ \E failing \in SUBSET Touched(2) \ {{}} : marks' \in Undo(marks, 2, failing)
          /\ clean' = [clean EXCEPT !.undone = FALSE]
          /\ Finish("err")
    /\ UNCHANGED <<hot, data, scene>>

(* Bug: what was appended to the data files stays. *)
undo_data_skipped ==
    /\ task.pc = "undodata"
    /\ Finish("err")
    /\ UNCHANGED <<hot, data, marks, faults, clean, scene>>

undo_data ==
    /\ task.pc = "undodata"
    /\ \/ NoFault /\ data' \in Undo(data, 1, {}) /\ UNCHANGED clean
       \/ /\ Touched(1) # {} /\ Fault("io")
          /\ \E failing \in SUBSET Touched(1) \ {{}} : data' \in Undo(data, 1, failing)
          /\ clean' = [clean EXCEPT !.undone = FALSE]
    /\ Finish("err")
    /\ UNCHANGED <<hot, marks, scene>>

---------------------------------------------------------------------------
(* The loop's task is aborted at an await and started again; a blocking    *)
(* task that runs goes on.                                                 *)
abort(n) ==
    /\ runner[n].pc \in {"offer", "wait", "mark", "purge"} /\ Fault("crash")
    /\ runner' = [runner EXCEPT ![n] = Fresh]
    /\ task' = IF task.owner = n THEN [task EXCEPT !.owner = None] ELSE task
    /\ UNCHANGED <<hot, data, marks, clean, scene>>

(* The process dies; the page cache stays.  The power fails; it does not.  *)
kill_process ==
    /\ Fault("crash")
    /\ runner' = [n \in Runners |-> Fresh]
    /\ task' = NoTask
    /\ UNCHANGED <<hot, data, marks, clean, scene>>

lose_power ==
    /\ Fault("crash")
    /\ runner' = [n \in Runners |-> Fresh]
    /\ task' = NoTask
    /\ data' \in PerDay(LAMBDA d : Survivors(data[d]))
    /\ marks' \in PerDay(LAMBDA d : Survivors(marks[d]))
    /\ UNCHANGED <<hot, clean, scene>>

TaskSteps == check_recorded \/ open_files \/ write_file \/ sync_file \/ sync_dirs \/ undo_markers \/ undo_data
LoopSteps(n) ==
    select_unarchived(n) \/ turn_away(n) \/ lock_root(n) \/ answered(n) \/ mark_archived(n) \/ purge(n)

Steps == TaskSteps \/ rest \/ \E n \in scene.runners : LoopSteps(n)

Next == Steps \/ (\E n \in scene.runners : abort(n)) \/ kill_process \/ lose_power

(* spawn: the loop ticks and rests for ever, and a blocking task runs on.  *)
(* One loop and its task are one thread of control, so that its steps are  *)
(* taken is one fairness condition; two loops are not held to it singly.   *)
Fairness == WF_vars(Steps)
Spec == Init /\ [][Next]_vars /\ Fairness

---------------------------------------------------------------------------
(* The type of the state. *)
TypeOK ==
    /\ \A r \in Rows : /\ hot[r].state \in {"hot", "archived", "purged"}
                       /\ hot[r].due \in Nat /\ hot[r].keep \in 0 .. PurgeAfter
    /\ \A d \in Days : /\ data[d].cache \in Seq(Rows \cup {Half}) /\ data[d].linked \in BOOLEAN
                       /\ marks[d].cache \in Seq((SUBSET Rows) \cup {Half})
    /\ task.owner \in Runners \cup {None} /\ task.rows \subseteq Rows
    /\ \A n \in Runners : /\ Cardinality(runner[n].batch) <= scene.batch_size
                          /\ Cardinality(DOMAIN runner[n].skipped) <= MAX_TRACKED_ROWS
                          /\ runner[n].ticks <= MAX_TICKS_PER_DRAIN

(* A row that left the hot path, marked archived or purged, is on the disk *)
(* in its day's file, whatever write, sync, mark or rollback failed and    *)
(* wherever the process or the power went (filesystem.rs "Durability       *)
(* model", AuditArchiver::archive_batch).                                  *)
AcknowledgedDurable ==
    \A r \in Rows : hot[r].state # "hot" =>
        LET f == data[Day[r]] IN f.linked /\ r \in ToSet(f.disk)

(* A marker on the disk means every event of its batch is: a retry that    *)
(* skips the batch skips nothing that is gone (append_all_or_none).        *)
MarkerMeansDurable ==
    \A d \in Days : \A i \in 1 .. Len(marks[d].cache) :
        marks[d].cache[i] # Half =>
            \A r \in marks[d].cache[i] : data[Day[r]].linked /\ r \in ToSet(data[Day[r]].disk)

(* A refused batch leaves no whole or partial line behind, if its rollback *)
(* succeeded (append_all_or_none).                                         *)
Lines(fs) == [d \in Days |-> Whole(fs[d].cache)]
RefusedLeavesNothing ==
    [][ \A n \in Runners :
          /\ task # NoTask /\ task' = NoTask
          /\ task.owner = n /\ runner'[n].answer = "err"
          /\ clean'.undone
          => Lines(data') = Lines(clean.files.data) /\ Lines(marks') = Lines(clean.files.marks) ]_vars

(* No line is ever appended to a torn one: every file stays readable up to *)
(* its last line (cut_torn_tail).                                          *)
StaysReadable == \A d \in Days : Readable(data[d].cache) /\ Readable(marks[d].cache)

(* While no file operation fails, nothing crashes and no row becomes due   *)
(* in between, a row is archived once, though marking it failed and its    *)
(* batch was sent again ("Retried batches").                               *)
Copies(r) == Cardinality({i \in 1 .. Len(data[Day[r]].cache) : data[Day[r]].cache[i] = r})
ArchivedOnce ==
    scene.fails \subseteq {"table"} /\ (\A r \in Rows : scene.due[r] = 0) => \A r \in Rows : Copies(r) <= 1

(* What was acknowledged, or is marked as archived, is on the disk in      *)
(* files that can be read back. (append_all_or_none, cut_torn_tail)        *)
ArchiveSound == AcknowledgedDurable /\ MarkerMeansDurable /\ StaysReadable

(* "bad rows at both ends of a batch ... must not hold the good rows       *)
(* between them back for ever" (audit/archive/drain.rs): with nothing      *)
(* failing, every row the archiver can take is archived.                   *)
GoodRowsArchived ==
    scene.faults = 0 => \A r \in Rows : r \notin scene.bad => <>(hot[r].state # "hot")

(* Archived rows leave the hot table although the sink refuses every row   *)
(* (tick: "the purge runs whatever the archive step did").                 *)
ArchivedArePurged ==
    scene.faults = 0 => \A r \in Rows : hot[r].state = "archived" ~> hot[r].state = "purged"

(* Rows move on: into the archive, once if nothing but the table fails,    *)
(* and then out of the hot table, whatever rows beside them are refused    *)
(* for good. (drain, tick, recorded)                                       *)
RowsMoveOn == GoodRowsArchived /\ ArchivedArePurged /\ []ArchivedOnce
=============================================================================
