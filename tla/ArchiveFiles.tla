---------------------------- MODULE ArchiveFiles ----------------------------
(***************************************************************************)
(* The files of the filesystem audit archive (audit/archive/filesystem.rs) *)
(* as the operating system keeps them: what the page cache holds, what is  *)
(* on the disk, and whether the folders up to the root hold the entry      *)
(* durably.  A file is a sequence of lines; a line a crash or a failed     *)
(* write cut short is Half.                                                *)
(***************************************************************************)
EXTENDS Naturals, Sequences, SequencesExt, FiniteSets

CONSTANT Half

NewFile == [cache |-> << >>, disk |-> << >>, linked |-> FALSE]

IsTorn(s) == s # << >> /\ Last(s) = Half
Whole(s) == IF IsTorn(s) THEN Front(s) ELSE s

(* write_all appends the lines; one that fails has written a beginning of  *)
(* them, the last line of it maybe in part.                                *)
Written(f, lines) == [f EXCEPT !.cache = @ \o lines]
PartlyWritten(f, lines) ==
    {[f EXCEPT !.cache = @ \o p] : p \in Prefixes(lines) \cup
        {Append(p, Half) : p \in {q \in Prefixes(lines) : q # lines}}}

sync_all(f) == [f EXCEPT !.disk = f.cache]
(* Bug: the folders are not synced. *)
sync_dir_skipped(f) == f

sync_dir(f) == [f EXCEPT !.linked = TRUE]

(* Bug: a torn line is appended to. *)
cut_nothing(f) == f

(* cut_torn_tail cuts back to the last newline and syncs the cut. *)
cut_torn_tail(f) == IF IsTorn(f.cache) THEN sync_all([f EXCEPT !.cache = Whole(@)]) ELSE f

(* set_len on a rollback, and set_len with sync_all after it. *)
set_len(f, n) == [f EXCEPT !.cache = SubSeq(@, 1, n)]
Restored(f, n) == sync_all(set_len(f, n))

(* Power is lost: external.  Of what was appended and not synced some      *)
(* beginning survives, maybe torn; of a length cut and not synced either   *)
(* the old or the new; of a file no synced folder holds, nothing.          *)
Survivors(f) ==
    LET grown == {SubSeq(f.cache, 1, n) : n \in Len(f.disk) .. Len(f.cache)}
        contents == IF IsPrefix(f.disk, f.cache)
                    THEN grown \cup {Append(p, Half) : p \in {q \in grown : q # f.cache}}
                    ELSE {f.disk, f.cache}
        kept == {[cache |-> s, disk |-> s, linked |-> TRUE] : s \in contents}
    IN  IF f.linked THEN kept ELSE kept \cup {NewFile}

(* No line was ever appended to a torn one. *)
Readable(s) == \A i \in 1 .. Len(s) : s[i] = Half => i = Len(s)
=============================================================================
