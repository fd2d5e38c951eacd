--------------------------- MODULE MCAuditArchive ---------------------------
(* Instances of AuditArchive: rows 1 and 2 of one day, row 3 of the next. *)
EXTENDS AuditArchive

MCDay == 1 :> 1 @@ 2 :> 1 @@ 3 :> 2

Plain == [due |-> [r \in Rows |-> 0], bad |-> {}, archived |-> {}, batch_size |-> 3, faults |-> 0,
          fails |-> {}, runners |-> {1}]

MCScenes ==
    {\* I/O errors and crashes, a batch over two days
     [Plain EXCEPT !.faults = 2, !.fails = {"io", "crash", "table"}],
     \* three of them, a batch of one day
     [Plain EXCEPT !.archived = {3}, !.faults = 3, !.fails = {"io", "crash"}],
     \* two loops on one root, and a row that becomes due between the ticks
     [Plain EXCEPT !.due = 1 :> 0 @@ 2 :> 0 @@ 3 :> 1, !.batch_size = 2, !.runners = {1, 2}, !.faults = 1,
                   !.fails = {"crash", "table"}],
     \* the table fails, the archiver does not
     [Plain EXCEPT !.faults = 2, !.fails = {"table"}, !.batch_size = 2],
     [Plain EXCEPT !.faults = 2, !.fails = {"table"}, !.bad = {2}],
     \* nothing goes wrong
     [Plain EXCEPT !.batch_size = 2],
     \* rows the sink refuses for good
     [Plain EXCEPT !.bad = {1, 3}],
     [Plain EXCEPT !.bad = {1}, !.batch_size = 1],
     [Plain EXCEPT !.bad = {2}, !.batch_size = 2],
     [Plain EXCEPT !.bad = {2, 3}, !.archived = {1}]}

(* Bad rows at both ends. *)
MCBadEnds == {[Plain EXCEPT !.bad = {1, 3}]}
=============================================================================
