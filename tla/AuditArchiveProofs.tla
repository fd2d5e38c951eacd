------------------------- MODULE AuditArchiveProofs -------------------------
(***************************************************************************)
(* Proofs about AuditArchive: no row leaves the hot table that is not on   *)
(* the disk, and a refused batch leaves nothing behind, for any rows,      *)
(* days, runners and scenes.  The rows a marker or an acknowledgement      *)
(* stands for are firm: below the lengths that the running task would cut  *)
(* its files back to.                                                      *)
(***************************************************************************)
EXTENDS AuditArchive, FiniteSetTheorems, WellFoundedInduction, TLAPS

---------------------------------------------------------------------------
(* The shape of the state. *)
RunnerFields ==
    {"pc", "batch", "ask", "mode", "left", "taken", "refused", "failed", "answer", "archived", "outcome", "ticks", "skipped"}
TaskFields == {"owner", "pc", "rows", "phase", "todo", "len"}
TaskPcs == {"none", "check", "open", "write", "sync", "dirs", "undomarks", "undodata"}

RunnerOK(r) ==
    /\ DOMAIN r = RunnerFields
    /\ r.batch \subseteq Rows /\ r.ask \subseteq Rows /\ r.left \subseteq Rows /\ r.taken \subseteq Rows
    /\ r.mode \in {"batch", "first", "last", "row"}
    /\ r.pc \in {"offer", "wait", "answered"} => r.batch # {}
    /\ r.pc \in {"offer", "wait"} => r.ask # {}
Runners_OK == DOMAIN runner = Runners /\ \A n \in Runners : RunnerOK(runner[n])
Hot_OK == DOMAIN hot = Rows /\ \A r \in Rows : DOMAIN hot[r] = {"state", "due", "keep"}
Task_OK ==
    /\ DOMAIN task = TaskFields
    /\ task.owner \in scene.runners \cup {None} /\ task.pc \in TaskPcs
    /\ task.rows \subseteq Rows /\ task.phase \in {1, 2} /\ task.todo \subseteq DaysOf(task.rows)
    /\ task.pc = "none" <=> task = NoTask
    /\ task.pc # "none" => task.rows # {}
    /\ task.pc \in {"write", "sync"} => task.todo # {}

(* Files: no line follows a torn one, in the cache and on the disk. *)
FileOK(f, T) ==
    /\ DOMAIN f = {"cache", "disk", "linked"}
    /\ f.cache \in Seq(T \cup {Half}) /\ f.disk \in Seq(T \cup {Half}) /\ f.linked \in BOOLEAN
    /\ Readable(f.cache) /\ Readable(f.disk)
Files_OK ==
    /\ DOMAIN data = Days /\ DOMAIN marks = Days
    /\ \A d \in Days : FileOK(data[d], Rows) /\ FileOK(marks[d], SUBSET Rows)

(* The lengths the task noted when it opened a file. *)
Opened(phase, d) == <<phase, d>> \in DOMAIN task.len
LenOK(f, n) == n \in 0 .. Len(f.cache) /\ \A i \in 1 .. n : f.cache[i] # Half
Lens_OK ==
    /\ \A x \in DOMAIN task.len : x[1] \in {1, 2} /\ x[2] \in DaysOf(task.rows) /\ x = <<x[1], x[2]>>
    /\ \A d \in Days : Opened(1, d) => LenOK(data[d], task.len[<<1, d>>])
    /\ \A d \in Days : Opened(2, d) => LenOK(marks[d], task.len[<<2, d>>])
    /\ task.phase = 1 => \A d \in Days : ~Opened(2, d)
    /\ task.pc \in {"none", "check"} => task.phase = 1 /\ \A d \in Days : ~Opened(1, d)
    /\ task.pc = "open" => \A d \in Days : ~Opened(task.phase, d)
    /\ task.pc \in {"write", "sync", "dirs"} => \A d \in DaysOf(task.rows) : Opened(task.phase, d)
    /\ task.pc = "write" => \A d \in task.todo : Len(Group[d].cache) = task.len[<<task.phase, d>>]

(* A row is kept: its folder entry is durable, the line is on the disk and *)
(* in the cache.  It is firm: no rollback of the running task cuts it.     *)
KeptIn(f, r) == f.linked /\ r \in ToSet(f.disk) /\ r \in ToSet(f.cache)
FirmIn(f, n, r) == KeptIn(f, r) /\ \E i \in 1 .. n : f.cache[i] = r
Kept(r) == KeptIn(data[Day[r]], r)
Firm(r) == Kept(r) /\ (Opened(1, Day[r]) => FirmIn(data[Day[r]], task.len[<<1, Day[r]>>], r))

Acknowledged ==
    /\ \A r \in Rows : hot[r].state # "hot" => Firm(r)
    /\ \A n \in Runners : \A r \in runner[n].taken : Firm(r)
    /\ \A n \in Runners : runner[n].pc = "answered" /\ runner[n].answer = "ok" => \A r \in runner[n].ask : Firm(r)

AllFirm(R) == \A r \in R : Firm(r)
AllKept(R) == \A r \in R : Kept(r)
(* A marker stands for firm rows; one the task wrote, for kept ones. *)
Own(d) == Opened(2, d) /\ task.pc # "undodata"
Markers ==
    \A d \in Days :
        /\ \A i \in 1 .. Len(marks[d].cache) : marks[d].cache[i] # Half =>
              AllFirm(marks[d].cache[i]) \/ (Own(d) /\ i > task.len[<<2, d>>] /\ AllKept(marks[d].cache[i]))
        /\ \A i \in 1 .. Len(marks[d].disk) : marks[d].disk[i] # Half =>
              AllFirm(marks[d].disk[i]) \/ (Own(d) /\ AllKept(marks[d].disk[i]))

(* How far the task has come with its own rows. *)
InCache(r) == r \in ToSet(data[Day[r]].cache)
OnDisk(r) == r \in ToSet(data[Day[r]].disk)
Progress ==
    /\ task.phase = 2 /\ task.pc # "undodata" => AllKept(task.rows)
    /\ task.phase = 1 /\ task.pc = "write" => \A r \in task.rows : Day[r] \notin task.todo => InCache(r)
    /\ task.phase = 1 /\ task.pc = "sync" =>
          \A r \in task.rows : InCache(r) /\ (Day[r] \notin task.todo => OnDisk(r))
    /\ task.phase = 1 /\ task.pc = "dirs" => \A r \in task.rows : InCache(r) /\ OnDisk(r)

(* The owner waits for the answer to what it asked. *)
Owned == task.owner \in Runners => runner[task.owner].pc = "wait" /\ runner[task.owner].ask = task.rows

(* What the rollback restores is what the task found. *)
SameLines(f, opened, n, old) == Whole(IF opened THEN SubSeq(f.cache, 1, n) ELSE f.cache) = Whole(old.cache)
Undoable ==
    /\ DOMAIN clean = {"files", "undone"}
    /\ task.pc # "none" => \A d \in Days :
          /\ SameLines(data[d], Opened(1, d), task.len[<<1, d>>], clean.files.data[d])
          /\ SameLines(marks[d], Own(d), task.len[<<2, d>>], clean.files.marks[d])

Inv ==
    /\ scene \in Scenes
    /\ Runners_OK /\ Hot_OK /\ Task_OK /\ Files_OK /\ Lens_OK
    /\ Acknowledged /\ Markers /\ Progress /\ Owned /\ Undoable
---------------------------------------------------------------------------
(* Least and greatest members, and the enumeration of a finite set. *)
LEMMA LeastOf ==
    ASSUME NEW T, T \subseteq Nat, T # {}
    PROVE  \E a \in T : \A b \in T : a <= b
<1>1. PICK a \in T : \A b \in T : ~ (<<b, a>> \in OpToRel(<, Nat))
      BY NatLessThanWellFounded, WFMin
<1>2. ASSUME NEW b \in T, b < a PROVE FALSE
  <2>1. <<b, a>> \in Nat \X Nat /\ <<b, a>>[1] < <<b, a>>[2] BY <1>2
  <2>2. <<b, a>> \in OpToRel(<, Nat) BY <2>1 DEF OpToRel
  <2> QED BY <2>2, <1>1
<1> QED BY <1>2

LEMMA MinIn == ASSUME NEW T, T \subseteq Nat, T # {} PROVE Min(T) \in T
BY LeastOf DEF Min

(* The member with the fewest members above it is the greatest. *)
LEMMA MaxIn == ASSUME NEW T, T \subseteq Nat, T # {}, IsFiniteSet(T) PROVE Max(T) \in T
<1> DEFINE Above(x) == {y \in T : y > x}
           N == {Cardinality(Above(x)) : x \in T}
<1>1. \A x : IsFiniteSet(Above(x)) /\ Cardinality(Above(x)) \in Nat
  <2> TAKE x
  <2>1. Above(x) \in SUBSET T OBVIOUS
  <2>2. IsFiniteSet(Above(x)) BY <2>1, FS_Subset
  <2> QED BY <2>2, FS_CardinalityType
<1>2. N \subseteq Nat /\ N # {}
  <2> HIDE DEF Above
  <2> QED BY <1>1
<1>3. PICK c \in N : \A b \in N : c <= b BY <1>2, LeastOf
<1>4. PICK x \in T : c = Cardinality(Above(x)) OBVIOUS
<1>5. ASSUME NEW y \in T, y > x PROVE FALSE
  <2>1. Above(y) \in SUBSET Above(x)
    <3>1. ASSUME NEW z \in T, z > y PROVE z > x
      <4>1. x \in Nat /\ y \in Nat /\ z \in Nat OBVIOUS
      <4> QED BY <1>5, <3>1, <4>1
    <3> QED BY <3>1
  <2>2. y \in Above(x) /\ y \notin Above(y) BY <1>5
  <2> HIDE DEF Above
  <2>3. Cardinality(Above(y)) <= Cardinality(Above(x)) /\ Cardinality(Above(x)) # Cardinality(Above(y))
        BY <1>1, <2>1, <2>2, FS_Subset
  <2>4. Cardinality(Above(y)) \in N OBVIOUS
  <2> QED BY <1>1, <1>3, <1>4, <2>3, <2>4
<1>6. \A y \in T : x >= y BY <1>5
<1> QED BY <1>6 DEF Max

LEMMA EnumeratesAll ==
    ASSUME NEW S, IsFiniteSet(S)
    PROVE  SetToSeq(S) \in Seq(S) /\ ToSet(SetToSeq(S)) = S
<1> DEFINE n == Cardinality(S)
           s == SetToSeq(S)
<1>1. n \in Nat /\ ExistsBijection(1 .. n, S) BY FS_CardinalityType
<1>2. \E f \in [1 .. n -> S] : IsInjective(f)
      BY <1>1 DEF ExistsBijection, Bijection, Injection, IsInjective
<1>3. s \in [1 .. n -> S] /\ IsInjective(s) BY <1>2 DEF SetToSeq
<1>4. s \in Injection(1 .. n, S) BY <1>3 DEF Injection, IsInjective
<1>5. IsFiniteSet(1 .. n) /\ Cardinality(1 .. n) = n
  <2>1. Cardinality(1 .. n) = IF 1 > n THEN 0 ELSE n - 1 + 1 BY <1>1, FS_Interval
  <2> QED BY <1>1, <2>1, FS_Interval
<1>6. s \in Surjection(1 .. n, S) BY <1>4, <1>5, FS_Injection
<1>7. s \in Seq(S) /\ DOMAIN s = 1 .. n BY <1>1, <1>3
<1> QED BY <1>6, <1>7 DEF Surjection, ToSet

---------------------------------------------------------------------------
(* What an operation makes of a file. *)
Extended(f, g, L) ==
    /\ g.linked = f.linked /\ g.disk = f.disk /\ Len(f.cache) <= Len(g.cache)
    /\ \A i \in 1 .. Len(f.cache) : g.cache[i] = f.cache[i]
    /\ \A i \in 1 .. Len(g.cache) : i > Len(f.cache) => g.cache[i] \in L \cup {Half}

LEMMA CutFile ==
    ASSUME NEW T, Half \notin T, NEW f, FileOK(f, T), NEW g, g = cut_torn_tail(f)
    PROVE  /\ FileOK(g, T) /\ g.cache = Whole(f.cache) /\ g.linked = f.linked
           /\ LenOK(g, Len(g.cache)) /\ Len(g.cache) <= Len(f.cache)
           /\ \A i \in 1 .. Len(g.cache) : g.cache[i] = f.cache[i]
           /\ g.disk \in {f.disk, g.cache}
           /\ \A r \in T : KeptIn(f, r) => KeptIn(g, r)
<1> DEFINE s == f.cache
<1>1. s \in Seq(T \cup {Half}) /\ DOMAIN f = {"cache", "disk", "linked"} BY DEF FileOK
<1>2. CASE IsTorn(s)
  <2>1. Len(s) \in Nat \ {0} BY <1>1, <1>2 DEF IsTorn
  <2>2. Front(s) \in Seq(T \cup {Half}) /\ Len(Front(s)) = Len(s) - 1
        /\ \A i \in 1 .. Len(s) - 1 : Front(s)[i] = s[i]
    <3>0. Len(s) - 1 \in 0 .. Len(s) BY <2>1
    <3>1. PICK m \in 0 .. Len(s) : m = Len(s) - 1 BY <3>0
    <3>2. /\ SubSeq(s, 1, m) \in Seq(T \cup {Half}) /\ Len(SubSeq(s, 1, m)) = m
          /\ \A i \in 1 .. m : SubSeq(s, 1, m)[i] = s[i]
          BY <1>1
    <3> QED BY <3>1, <3>2 DEF Front
  <2>3. \A i \in 1 .. Len(s) - 1 : s[i] # Half BY <2>1 DEF FileOK, Readable
  <2>4. g.cache = Front(s) /\ g.disk = Front(s) /\ g.linked = f.linked /\ DOMAIN g = {"cache", "disk", "linked"}
        BY <1>1, <1>2 DEF cut_torn_tail, sync_all, Whole
  <2>5. Whole(s) = Front(s) BY <1>2 DEF Whole
  <2>6. FileOK(g, T) BY <2>1, <2>2, <2>3, <2>4 DEF FileOK, Readable
  <2>7. LenOK(g, Len(g.cache)) BY <2>1, <2>2, <2>3, <2>4 DEF LenOK
  <2>8. ASSUME NEW r \in T, KeptIn(f, r) PROVE KeptIn(g, r)
    <3>1. PICK i \in 1 .. Len(s) : s[i] = r BY <1>1, <2>8 DEF KeptIn, ToSet
    <3>2. i # Len(s) BY <1>2, <3>1 DEF IsTorn, Last
    <3>3. i \in 1 .. Len(s) - 1 BY <2>1, <3>2
    <3>4. r \in ToSet(Front(s)) BY <2>1, <2>2, <3>1, <3>3 DEF ToSet
    <3> QED BY <2>4, <2>8, <3>4 DEF KeptIn
  <2> QED BY <2>1, <2>2, <2>4, <2>5, <2>6, <2>7, <2>8
<1>3. CASE ~IsTorn(s)
  <2>1. g = f /\ Whole(s) = s BY <1>3 DEF cut_torn_tail, Whole
  <2>2. \A i \in 1 .. Len(s) : s[i] # Half
    <3> SUFFICES ASSUME NEW i \in 1 .. Len(s), s[i] = Half PROVE FALSE OBVIOUS
    <3>1. i = Len(s) BY DEF FileOK, Readable
    <3>2. Len(s) \in Nat BY <1>1
    <3> QED BY <1>1, <1>3, <3>1, <3>2 DEF IsTorn, Last
  <2>3. LenOK(g, Len(g.cache)) BY <1>1, <2>1, <2>2 DEF LenOK
  <2> QED BY <1>1, <2>1, <2>3
<1> QED BY <1>2, <1>3

LEMMA WholeLines ==
    ASSUME NEW T, NEW s \in Seq(T), \A i \in 1 .. Len(s) : s[i] # Half
    PROVE  Whole(s) = s
<1>1. ASSUME IsTorn(s) PROVE FALSE
  <2>1. Len(s) \in 1 .. Len(s) BY <1>1 DEF IsTorn
  <2> QED BY <1>1, <2>1 DEF IsTorn, Last
<1> QED BY <1>1 DEF Whole

LEMMA WriteFile ==
    ASSUME NEW T, Half \notin T, NEW f, FileOK(f, T), LenOK(f, Len(f.cache)),
           NEW lines \in Seq(T), NEW g, g = Written(f, lines)
    PROVE  /\ FileOK(g, T) /\ Extended(f, g, ToSet(lines))
           /\ \A x \in ToSet(lines) : x \in ToSet(g.cache)
<1> DEFINE s == f.cache
<1>1. s \in Seq(T \cup {Half}) /\ DOMAIN f = {"cache", "disk", "linked"} BY DEF FileOK
<1>2. g.cache = s \o lines /\ g.disk = f.disk /\ g.linked = f.linked /\ DOMAIN g = {"cache", "disk", "linked"}
      BY <1>1 DEF Written
<1>3. Len(s) \in Nat /\ Len(lines) \in Nat BY <1>1
<1>4. lines \in Seq(T \cup {Half}) BY <1>3
<1>5. /\ s \o lines \in Seq(T \cup {Half}) /\ Len(s \o lines) = Len(s) + Len(lines)
      /\ \A i \in 1 .. Len(s) : (s \o lines)[i] = s[i]
      /\ \A i \in 1 .. Len(lines) : (s \o lines)[Len(s) + i] = lines[i]
      BY <1>1, <1>4
<1>6. ASSUME NEW i \in 1 .. Len(s \o lines), i > Len(s) PROVE (s \o lines)[i] \in ToSet(lines)
  <2>1. i - Len(s) \in 1 .. Len(lines) /\ i = Len(s) + (i - Len(s)) BY <1>3, <1>5, <1>6
  <2>2. (s \o lines)[i] = lines[i - Len(s)] BY <1>5, <2>1
  <2> QED BY <2>1, <2>2 DEF ToSet
<1>7. ToSet(lines) \subseteq T BY DEF ToSet
<1>8. \A i \in 1 .. Len(s \o lines) : (s \o lines)[i] # Half
  <2> TAKE i \in 1 .. Len(s \o lines)
  <2>1. CASE i <= Len(s) BY <1>3, <1>5, <2>1 DEF LenOK
  <2>2. CASE i > Len(s) BY <1>6, <1>7, <2>2
  <2> QED BY <1>3, <1>5, <2>1, <2>2
<1>9. FileOK(g, T) BY <1>2, <1>5, <1>8 DEF FileOK, Readable
<1>10. Extended(f, g, ToSet(lines)) BY <1>2, <1>3, <1>5, <1>6 DEF Extended
<1>11. ASSUME NEW x \in ToSet(lines) PROVE x \in ToSet(g.cache)
  <2>1. PICK i \in 1 .. Len(lines) : lines[i] = x BY DEF ToSet
  <2>2. Len(s) + i \in 1 .. Len(s \o lines) /\ (s \o lines)[Len(s) + i] = x BY <1>3, <1>5, <2>1
  <2>3. DOMAIN (s \o lines) = 1 .. Len(s \o lines) BY <1>5
  <2> QED BY <1>2, <2>2, <2>3 DEF ToSet
<1> QED BY <1>9, <1>10, <1>11

LEMMA TearFile ==
    ASSUME NEW T, Half \notin T, NEW f, FileOK(f, T), LenOK(f, Len(f.cache)),
           NEW lines \in Seq(T), NEW g \in PartlyWritten(f, lines)
    PROVE  FileOK(g, T) /\ Extended(f, g, ToSet(lines))
<1> DEFINE s == f.cache
<1>1. s \in Seq(T \cup {Half}) /\ DOMAIN f = {"cache", "disk", "linked"} BY DEF FileOK
<1>2. PICK p \in Prefixes(lines) \cup {Append(q, Half) : q \in {x \in Prefixes(lines) : x # lines}} :
         g = [f EXCEPT !.cache = @ \o p]
      BY DEF PartlyWritten
<1>3. ASSUME NEW q \in Prefixes(lines)
      PROVE  /\ q \in Seq(T) /\ \A i \in 1 .. Len(q) : q[i] \in ToSet(lines) /\ q[i] # Half
  <2>1. PICK l \in 0 .. Len(lines) : q = SubSeq(lines, 1, l) BY DEF Prefixes
  <2>2. q \in Seq(T) /\ Len(q) = l /\ \A i \in 1 .. l : q[i] = lines[i] BY <2>1
  <2> QED BY <2>1, <2>2 DEF ToSet
<1>4. /\ p \in Seq(T \cup {Half}) /\ Readable(p)
      /\ \A i \in 1 .. Len(p) : p[i] \in ToSet(lines) \cup {Half}
  <2>1. CASE p \in Prefixes(lines) BY <1>3, <2>1 DEF Readable
  <2>2. CASE p \notin Prefixes(lines)
    <3>1. PICK q \in Prefixes(lines) : p = Append(q, Half) BY <2>2
    <3>2. q \in Seq(T) /\ \A i \in 1 .. Len(q) : q[i] \in ToSet(lines) /\ q[i] # Half BY <1>3
    <3>3. /\ p \in Seq(T \cup {Half}) /\ Len(p) = Len(q) + 1 /\ p[Len(q) + 1] = Half
          /\ \A i \in 1 .. Len(q) : p[i] = q[i]
          BY <3>1, <3>2
    <3>4. Len(q) \in Nat BY <3>2
    <3> QED BY <3>2, <3>3, <3>4 DEF Readable
  <2> QED BY <2>1, <2>2
<1>5. g.cache = s \o p /\ g.disk = f.disk /\ g.linked = f.linked /\ DOMAIN g = {"cache", "disk", "linked"}
      BY <1>1, <1>2
<1>6. Len(s) \in Nat /\ Len(p) \in Nat BY <1>1, <1>4
<1>7. /\ s \o p \in Seq(T \cup {Half}) /\ Len(s \o p) = Len(s) + Len(p)
      /\ \A i \in 1 .. Len(s) : (s \o p)[i] = s[i]
      /\ \A i \in 1 .. Len(p) : (s \o p)[Len(s) + i] = p[i]
      BY <1>1, <1>4
<1>8. ASSUME NEW i \in 1 .. Len(s \o p), i > Len(s)
      PROVE  (s \o p)[i] \in ToSet(lines) \cup {Half} /\ ((s \o p)[i] = Half => i = Len(s \o p))
  <2>1. i - Len(s) \in 1 .. Len(p) /\ i = Len(s) + (i - Len(s)) BY <1>6, <1>7, <1>8
  <2>2. (s \o p)[i] = p[i - Len(s)] BY <1>7, <2>1
  <2> QED BY <1>4, <1>6, <1>7, <2>1, <2>2 DEF Readable
<1>9. Readable(s \o p)
  <2> SUFFICES ASSUME NEW i \in 1 .. Len(s \o p), (s \o p)[i] = Half PROVE i = Len(s \o p) BY DEF Readable
  <2>1. CASE i <= Len(s) BY <1>6, <1>7, <2>1 DEF LenOK
  <2>2. CASE i > Len(s) BY <1>8, <2>2
  <2> QED BY <1>6, <1>7, <2>1, <2>2
<1>10. FileOK(g, T) BY <1>5, <1>7, <1>9 DEF FileOK
<1>11. Extended(f, g, ToSet(lines)) BY <1>5, <1>6, <1>7, <1>8 DEF Extended
<1> QED BY <1>10, <1>11

LEMMA SyncFile ==
    ASSUME NEW T, NEW f, FileOK(f, T), NEW g, g = sync_all(f)
    PROVE  FileOK(g, T) /\ g.cache = f.cache /\ g.linked = f.linked /\ g.disk = f.cache
BY DEF FileOK, sync_all

LEMMA LinkFile ==
    ASSUME NEW T, NEW f, FileOK(f, T), NEW g, g = sync_dir(f)
    PROVE  FileOK(g, T) /\ g.cache = f.cache /\ g.disk = f.disk /\ g.linked
BY DEF FileOK, sync_dir

LEMMA CutBackFile ==
    ASSUME NEW T, Half \notin T, NEW f, FileOK(f, T), NEW n, LenOK(f, n), NEW g \in {set_len(f, n), Restored(f, n)}
    PROVE  /\ FileOK(g, T) /\ g.cache = SubSeq(f.cache, 1, n) /\ Len(g.cache) = n /\ g.linked = f.linked
           /\ LenOK(g, n) /\ g.disk \in {f.disk, g.cache} /\ (g = Restored(f, n) => g.disk = g.cache)
           /\ \A i \in 1 .. n : g.cache[i] = f.cache[i]
           /\ Whole(g.cache) = g.cache
           /\ \A r \in T : FirmIn(f, n, r) => KeptIn(g, r)
<1> DEFINE s == f.cache
           t == SubSeq(s, 1, n)
<1>1. s \in Seq(T \cup {Half}) /\ DOMAIN f = {"cache", "disk", "linked"} /\ n \in 0 .. Len(s) BY DEF FileOK, LenOK
<1>2. t \in Seq(T \cup {Half}) /\ Len(t) = n /\ \A i \in 1 .. n : t[i] = s[i] BY <1>1
<1>3. /\ g.cache = t /\ g.linked = f.linked /\ g.disk \in {f.disk, t} /\ (g = Restored(f, n) => g.disk = t)
      /\ DOMAIN g = {"cache", "disk", "linked"}
      BY <1>1 DEF set_len, Restored, sync_all
<1> HIDE DEF t
<1>4. \A i \in 1 .. n : t[i] # Half BY <1>2 DEF LenOK
<1>5. Readable(t) BY <1>2, <1>4 DEF Readable
<1>6. FileOK(g, T) BY <1>2, <1>3, <1>5 DEF FileOK
<1>7. LenOK(g, n) BY <1>1, <1>2, <1>3, <1>4 DEF LenOK
<1>8. Whole(t) = t BY <1>2, <1>4, WholeLines
<1>9. ASSUME NEW r \in T, FirmIn(f, n, r) PROVE KeptIn(g, r)
  <2>1. PICK i \in 1 .. n : s[i] = r BY <1>9 DEF FirmIn
  <2>2. t[i] = r /\ DOMAIN t = 1 .. n BY <1>2, <2>1
  <2>3. r \in ToSet(t) BY <2>2 DEF ToSet
  <2> QED BY <1>3, <1>9, <2>3 DEF FirmIn, KeptIn
<1> QED BY <1>2, <1>3, <1>6, <1>7, <1>8, <1>9 DEF t

LEMMA SurvivingFile ==
    ASSUME NEW T, Half \notin T, NEW f, FileOK(f, T), NEW g \in Survivors(f)
    PROVE  /\ FileOK(g, T) /\ g.disk = g.cache
           /\ \A x \in T : x \in ToSet(g.cache) => x \in ToSet(f.cache) \/ x \in ToSet(f.disk)
           /\ \A r \in T : KeptIn(f, r) => KeptIn(g, r)
<1> DEFINE s == f.cache
           grown == {SubSeq(s, 1, n) : n \in Len(f.disk) .. Len(s)}
           torn == {Append(p, Half) : p \in {q \in grown : q # s}}
           contents == IF IsPrefix(f.disk, s) THEN grown \cup torn ELSE {f.disk, s}
           Good(c) == /\ c \in Seq(T \cup {Half}) /\ Readable(c)
                      /\ \A x \in T : x \in ToSet(c) => x \in ToSet(s) \/ x \in ToSet(f.disk)
                      /\ \A x \in T : x \in ToSet(s) /\ x \in ToSet(f.disk) => x \in ToSet(c)
<1>1. /\ s \in Seq(T \cup {Half}) /\ f.disk \in Seq(T \cup {Half}) /\ DOMAIN f = {"cache", "disk", "linked"}
      /\ Readable(s) /\ Readable(f.disk) /\ f.linked \in BOOLEAN
      BY DEF FileOK
<1>2. Len(s) \in Nat /\ Len(f.disk) \in Nat /\ DOMAIN s = 1 .. Len(s) /\ DOMAIN f.disk = 1 .. Len(f.disk) BY <1>1
<1>3. Good(s) /\ Good(f.disk) BY <1>1
<1>4. ASSUME NEW n \in Len(f.disk) .. Len(s), IsPrefix(f.disk, s)
      PROVE  /\ Good(SubSeq(s, 1, n)) /\ Len(SubSeq(s, 1, n)) = n
             /\ n < Len(s) => Good(Append(SubSeq(s, 1, n), Half))
  <2> DEFINE c == SubSeq(s, 1, n)
             e == Append(c, Half)
  <2>1. n \in Nat /\ n <= Len(s) /\ Len(f.disk) <= n BY <1>2
  <2>2. c \in Seq(T \cup {Half}) /\ Len(c) = n /\ DOMAIN c = 1 .. n /\ \A i \in 1 .. n : c[i] = s[i] BY <1>1, <2>1
  <2>3. \A i \in 1 .. Len(f.disk) : f.disk[i] = s[i]
    <3> TAKE i \in 1 .. Len(f.disk)
    <3>1. SubSeq(f.disk, 1, Len(f.disk)) = SubSeq(s, 1, Len(f.disk)) BY <1>4 DEF IsPrefix
    <3>2. SubSeq(f.disk, 1, Len(f.disk))[i] = f.disk[i] BY <1>1, <1>2
    <3>3. SubSeq(s, 1, Len(f.disk))[i] = s[i] BY <1>1, <1>2, <2>1
    <3> QED BY <3>1, <3>2, <3>3
  <2> HIDE DEF c
  <2>4. \A x \in ToSet(f.disk) : x \in ToSet(c)
    <3> TAKE x \in ToSet(f.disk)
    <3>1. PICK i \in 1 .. Len(f.disk) : f.disk[i] = x BY <1>2 DEF ToSet
    <3>2. i \in 1 .. n /\ c[i] = x BY <1>2, <2>1, <2>2, <2>3, <3>1
    <3> QED BY <2>2, <3>2 DEF ToSet
  <2>5. \A x \in ToSet(c) : x \in ToSet(s)
    <3> TAKE x \in ToSet(c)
    <3>1. PICK i \in 1 .. n : c[i] = x BY <2>2 DEF ToSet
    <3>2. i \in 1 .. Len(s) /\ s[i] = x BY <1>2, <2>1, <2>2, <3>1
    <3> QED BY <1>2, <3>2 DEF ToSet
  <2>6. Readable(c)
    <3> SUFFICES ASSUME NEW i \in 1 .. n, c[i] = Half PROVE i = n BY <2>2 DEF Readable
    <3>1. i \in 1 .. Len(s) /\ s[i] = Half BY <1>2, <2>1, <2>2
    <3>2. i = Len(s) BY <1>1, <3>1 DEF Readable
    <3> QED BY <1>2, <2>1, <3>2
  <2>7. Good(c) BY <2>2, <2>4, <2>5, <2>6
  <2>8. ASSUME n < Len(s) PROVE Good(e)
    <3>1. /\ e \in Seq(T \cup {Half}) /\ Len(e) = n + 1 /\ e[n + 1] = Half /\ DOMAIN e = 1 .. n + 1
          /\ \A i \in 1 .. n : e[i] = c[i]
          BY <2>1, <2>2
    <3> HIDE DEF e
    <3>2. Readable(e)
      <4> SUFFICES ASSUME NEW i \in 1 .. n + 1, e[i] = Half PROVE i = n + 1 BY <3>1 DEF Readable
      <4>1. CASE i <= n
        <5>1. i \in 1 .. Len(s) /\ s[i] = Half BY <1>2, <2>1, <2>2, <3>1, <4>1
        <5>2. i = Len(s) BY <1>1, <5>1 DEF Readable
        <5> QED BY <1>2, <2>1, <2>8, <4>1, <5>2
      <4> QED BY <2>1, <4>1
    <3>3. \A x \in ToSet(c) : x \in ToSet(e)
      <4> TAKE x \in ToSet(c)
      <4>1. PICK i \in 1 .. n : c[i] = x BY <2>2 DEF ToSet
      <4>2. i \in 1 .. n + 1 /\ e[i] = x BY <2>1, <3>1, <4>1
      <4> QED BY <3>1, <4>2 DEF ToSet
    <3>4. \A x \in T : x \in ToSet(e) => x \in ToSet(c)
      <4> SUFFICES ASSUME NEW x \in T, x \in ToSet(e) PROVE x \in ToSet(c) OBVIOUS
      <4>1. PICK i \in 1 .. n + 1 : e[i] = x BY <3>1 DEF ToSet
      <4>2. i # n + 1 BY <3>1, <4>1
      <4>3. i \in 1 .. n /\ c[i] = x BY <2>1, <3>1, <4>1, <4>2
      <4> QED BY <2>2, <4>3 DEF ToSet
    <3> QED BY <2>7, <3>1, <3>2, <3>3, <3>4
  <2> QED BY <2>2, <2>7, <2>8 DEF c
<1>5. ASSUME NEW c \in contents PROVE Good(c)
  <2>1. CASE ~IsPrefix(f.disk, s) BY <1>3, <2>1
  <2>2. CASE IsPrefix(f.disk, s) /\ c \in grown
    <3>1. PICK n \in Len(f.disk) .. Len(s) : c = SubSeq(s, 1, n) BY <2>2
    <3> QED BY <1>4, <2>2, <3>1
  <2>3. CASE IsPrefix(f.disk, s) /\ c \in torn
    <3>1. PICK q \in grown : c = Append(q, Half) /\ q # s BY <2>3
    <3>2. PICK n \in Len(f.disk) .. Len(s) : q = SubSeq(s, 1, n) BY <3>1
    <3>3. n # Len(s) BY <1>1, <3>1, <3>2
    <3>4. n < Len(s) BY <1>2, <3>3
    <3> HIDE DEF Good
    <3> QED BY <1>4, <2>3, <3>1, <3>2, <3>4
  <2> HIDE DEF Good, grown, torn
  <2> QED BY <2>1, <2>2, <2>3
<1> HIDE DEF Good, contents
<1>6. CASE \E c \in contents : g = [cache |-> c, disk |-> c, linked |-> TRUE]
  <2>1. PICK c \in contents : g = [cache |-> c, disk |-> c, linked |-> TRUE] BY <1>6
  <2>2. Good(c) BY <1>5
  <2>3. g.cache = c /\ g.disk = c /\ g.linked = TRUE /\ DOMAIN g = {"cache", "disk", "linked"} BY <2>1
  <2>4. FileOK(g, T) BY <2>2, <2>3 DEF FileOK, Good
  <2> QED BY <2>2, <2>3, <2>4 DEF Good, KeptIn
<1>7. CASE g = NewFile /\ ~f.linked
  <2>1. g.cache = << >> /\ g.disk = << >> /\ g.linked = FALSE /\ DOMAIN g = {"cache", "disk", "linked"}
        BY <1>7 DEF NewFile
  <2>2. << >> \in Seq(T \cup {Half}) /\ Len(<< >>) = 0 OBVIOUS
  <2>3. FileOK(g, T)
    <3>1. Readable(<< >>) BY <2>2 DEF Readable
    <3> QED BY <2>1, <2>2, <3>1 DEF FileOK
  <2>4. ToSet(g.cache) = {} BY <2>1 DEF ToSet
  <2> QED BY <1>7, <2>1, <2>3, <2>4 DEF KeptIn
<1>8. (\E c \in contents : g = [cache |-> c, disk |-> c, linked |-> TRUE]) \/ (g = NewFile /\ ~f.linked)
      BY DEF Survivors, contents
<1> QED BY <1>6, <1>7, <1>8

---------------------------------------------------------------------------
(* Rows, days and the lines of a batch. *)
LEMMA DayFacts ==
    /\ Days \subseteq Nat
    /\ \A r \in Rows : Day[r] \in Days
    /\ \A R \in SUBSET Rows : DaysOf(R) \subseteq Days /\ \A r \in R : Day[r] \in DaysOf(R)
BY RowAssumption DEF Days, Range, DaysOf

LEMMA NoHalf == Half \notin Rows /\ Half \notin SUBSET Rows
BY TokenAssumption

LEMMA DayLines ==
    ASSUME NEW R \in SUBSET Rows, NEW d
    PROVE  OnDay(R, d) \in Seq(Rows) /\ ToSet(OnDay(R, d)) = OfDay(R, d)
<1>1. OfDay(R, d) \in SUBSET Rows BY DEF OfDay
<1>2. IsFiniteSet(OfDay(R, d)) BY <1>1, FS_Subset, RowAssumption
<1>3. OnDay(R, d) \in Seq(OfDay(R, d)) /\ ToSet(OnDay(R, d)) = OfDay(R, d) BY <1>2, EnumeratesAll DEF OnDay
<1> QED BY <1>1, <1>3

LEMMA EmptyFile ==
    ASSUME NEW T PROVE FileOK(NewFile, T) /\ ToSet(NewFile.cache) = {} /\ ToSet(NewFile.disk) = {} /\ Len(NewFile.cache) = 0
<1>1. << >> \in Seq(T \cup {Half}) /\ Len(<< >>) = 0 /\ DOMAIN << >> = {} OBVIOUS
<1>2. Readable(<< >>) BY <1>1 DEF Readable
<1> QED BY <1>1, <1>2 DEF FileOK, NewFile, ToSet

LEMMA FullFile ==
    ASSUME NEW T, Half \notin T, NEW s \in Seq(T)
    PROVE  FileOK([cache |-> s, disk |-> s, linked |-> TRUE], T)
<1>1. s \in Seq(T \cup {Half}) /\ Readable(s) BY DEF Readable
<1> QED BY <1>1 DEF FileOK

LEMMA FreshOK == RunnerOK(Fresh) /\ Fresh.taken = {} /\ Fresh.pc = "tick" /\ Fresh.answer = None
BY DEF RunnerOK, Fresh, Resting, RunnerFields

LEMMA NoTaskFacts ==
    /\ DOMAIN NoTask = TaskFields /\ NoTask.owner = None /\ NoTask.pc = "none" /\ NoTask.rows = {} /\ NoTask.phase = 1
    /\ NoTask.todo = {} /\ DOMAIN NoTask.len = {}
BY DEF NoTask, TaskFields

(* Without a task nothing is opened, and what is kept is firm. *)
LEMMA Idle ==
    ASSUME task = NoTask
    PROVE  /\ Task_OK /\ Lens_OK /\ Progress /\ Owned
           /\ \A ph, d : ~Opened(ph, d)
           /\ \A r : Firm(r) <=> Kept(r)
           /\ \A d : ~Own(d)
<1>1. \A ph, d : ~Opened(ph, d) BY NoTaskFacts DEF Opened
<1>2. Task_OK BY NoTaskFacts, TokenAssumption DEF Task_OK, TaskPcs, DaysOf
<1>3. Lens_OK BY <1>1, NoTaskFacts DEF Lens_OK
<1>4. Progress BY NoTaskFacts DEF Progress
<1>5. Owned BY NoTaskFacts, TokenAssumption DEF Owned
<1> QED BY <1>1, <1>2, <1>3, <1>4, <1>5 DEF Firm, Own

LEMMA InitInv == Init => Inv
<1> SUFFICES ASSUME Init PROVE Inv OBVIOUS
<1>1. scene \in Scenes /\ scene.archived \in SUBSET Rows /\ task = NoTask BY SceneAssumption DEF Init
<1> DEFINE A == scene.archived
           f(s) == [cache |-> s, disk |-> s, linked |-> TRUE]
<1>2. /\ data = [d \in Days |-> IF d \in DaysOf(A) THEN f(OnDay(A, d)) ELSE NewFile]
      /\ marks = [d \in Days |-> IF d \in DaysOf(A) THEN f(<<A>>) ELSE NewFile]
      BY DEF Init
<1>3. /\ hot = [r \in Rows |-> IF r \in A THEN [state |-> "archived", due |-> 0, keep |-> PurgeAfter]
                               ELSE [state |-> "hot", due |-> scene.due[r], keep |-> PurgeAfter]]
      /\ runner = [n \in Runners |-> Fresh] /\ clean = [files |-> None, undone |-> TRUE]
      BY DEF Init
<1>4. <<A>> \in Seq(SUBSET Rows) BY <1>1
<1>5. Files_OK
  <2>1. \A d \in Days : FileOK(f(OnDay(A, d)), Rows) BY <1>1, DayLines, FullFile, NoHalf
  <2>2. FileOK(f(<<A>>), SUBSET Rows) BY <1>4, FullFile, NoHalf
  <2> HIDE DEF f
  <2> QED BY <1>2, <2>1, <2>2, EmptyFile DEF Files_OK
<1>6. \A r \in A : Kept(r)
  <2> TAKE r \in A
  <2>1. Day[r] \in Days /\ Day[r] \in DaysOf(A) BY <1>1, DayFacts
  <2>2. data[Day[r]] = f(OnDay(A, Day[r])) BY <1>2, <2>1
  <2>3. r \in ToSet(OnDay(A, Day[r])) BY <1>1, DayLines DEF OfDay
  <2> QED BY <2>2, <2>3 DEF Kept, KeptIn
<1>7. Hot_OK /\ \A r \in Rows : hot[r].state # "hot" => r \in A BY <1>3 DEF Hot_OK
<1>8. Runners_OK BY <1>3, FreshOK DEF Runners_OK
<1>9. Acknowledged BY <1>1, <1>3, <1>6, <1>7, FreshOK, Idle DEF Acknowledged
<1>10. Markers
  <2>1. ASSUME NEW d \in Days
        PROVE  /\ \A i \in 1 .. Len(marks[d].cache) : marks[d].cache[i] = A
               /\ \A i \in 1 .. Len(marks[d].disk) : marks[d].disk[i] = A
    <3>1. CASE d \in DaysOf(A)
      <4>1. marks[d].cache = <<A>> /\ marks[d].disk = <<A>> BY <1>2, <3>1
      <4> QED BY <4>1
    <3>2. CASE d \notin DaysOf(A)
      <4>1. marks[d].cache = << >> /\ marks[d].disk = << >> BY <1>2, <3>2 DEF NewFile
      <4> QED BY <4>1
    <3> QED BY <3>1, <3>2
  <2> QED BY <1>1, <1>6, <2>1, Idle DEF Markers, AllFirm
<1>11. Undoable BY <1>1, <1>3, NoTaskFacts DEF Undoable
<1> QED BY <1>1, <1>5, <1>7, <1>8, <1>9, <1>10, <1>11, Idle DEF Inv

---------------------------------------------------------------------------
(* The loop leaves the files and the task alone. *)
LEMMA FilesAlone ==
    ASSUME Inv, UNCHANGED <<data, marks, task, clean, scene>>, Runners_OK', Hot_OK', Acknowledged', Owned'
    PROVE  Inv'
<1>1. Task_OK' BY DEF Inv, Task_OK
<1>2. Files_OK' BY DEF Inv, Files_OK
<1>3. Lens_OK' BY DEF Inv, Lens_OK, Opened, Group
<1>4. Markers' BY DEF Inv, Markers, AllFirm, AllKept, Firm, Kept, Own, Opened
<1>5. Progress' BY DEF Inv, Progress, AllKept, Kept, InCache, OnDisk
<1>6. Undoable' BY DEF Inv, Undoable, Opened, Own
<1>7. scene' \in Scenes BY DEF Inv
<1> QED BY <1>7, <1>1, <1>2, <1>3, <1>4, <1>5, <1>6 DEF Inv

LEMMA FirmAlone == ASSUME UNCHANGED <<data, task>>, NEW r PROVE Firm(r)' <=> Firm(r)
BY DEF Firm, Kept, Opened

(* One runner, not one that waits, goes on to x. *)
LEMMA RunnerGoesOn ==
    ASSUME Inv, NEW n \in Runners, runner[n].pc # "wait", NEW x, RunnerOK(x), runner' = [runner EXCEPT ![n] = x],
           AllFirm(x.taken), x.pc = "answered" /\ x.answer = "ok" => AllFirm(x.ask),
           UNCHANGED <<data, marks, task, clean, scene>>,
           Hot_OK', \A r \in Rows : hot'[r].state # "hot" => Firm(r)
    PROVE  Inv'
<1>1. DOMAIN runner = Runners BY DEF Inv, Runners_OK
<1>2. runner'[n] = x /\ DOMAIN runner' = Runners /\ \A m \in Runners : m # n => runner'[m] = runner[m] BY <1>1
<1>3. Runners_OK' BY <1>2 DEF Inv, Runners_OK
<1>4. Acknowledged'
  <2>1. \A r \in Rows : hot'[r].state # "hot" => Firm(r)' BY FirmAlone
  <2>2. ASSUME NEW m \in Runners
        PROVE  /\ \A r \in runner'[m].taken : Firm(r)'
               /\ runner'[m].pc = "answered" /\ runner'[m].answer = "ok" => \A r \in runner'[m].ask : Firm(r)'
    <3>1. CASE m = n BY <1>2, <3>1, FirmAlone DEF AllFirm
    <3>2. CASE m # n BY <1>2, <3>2, FirmAlone DEF Inv, Acknowledged
    <3> QED BY <3>1, <3>2
  <2> QED BY <2>1, <2>2 DEF Acknowledged
<1>5. Owned' BY <1>2 DEF Inv, Owned
<1> QED BY <1>3, <1>4, <1>5, FilesAlone

LEMMA HotAlone ==
    ASSUME Inv, UNCHANGED hot PROVE Hot_OK' /\ \A r \in Rows : hot'[r].state # "hot" => Firm(r)
BY DEF Inv, Hot_OK, Acknowledged

LEMMA EarliestIn == ASSUME NEW R, NEW k PROVE Earliest(R, k) \subseteq R
BY DEF Earliest

LEMMA RestingOK == ASSUME NEW s PROVE RunnerOK(Resting(s)) /\ Resting(s).taken = {} /\ Resting(s).pc = "rest"
BY DEF RunnerOK, Resting, RunnerFields

(* What a purge, and an offer of some rows, make of a runner. *)
LEMMA PurgeNext ==
    ASSUME NEW r, RunnerOK(r), NEW o, NEW x, x = ToPurge(r, o)
    PROVE  RunnerOK(x) /\ x.taken = r.taken /\ x.pc = "purge"
<1>1. DOMAIN r = RunnerFields BY DEF RunnerOK
<1>2. /\ DOMAIN x = RunnerFields /\ x.pc = "purge" /\ x.ask = {} /\ x.taken = r.taken /\ x.batch = r.batch /\ x.left = r.left
      /\ x.mode = r.mode
      BY <1>1 DEF ToPurge, RunnerFields
<1> QED BY <1>2 DEF RunnerOK

LEMMA OfferNext ==
    ASSUME NEW r, RunnerOK(r), NEW m \in {"batch", "first", "last", "row"}, NEW R \in SUBSET Rows, R # {}, r.batch # {},
           NEW x, x = Offer(r, m, R)
    PROVE  RunnerOK(x) /\ x.taken = r.taken /\ x.pc = "offer"
<1>1. DOMAIN r = RunnerFields BY DEF RunnerOK
<1>2. /\ DOMAIN x = RunnerFields /\ x.pc = "offer" /\ x.ask = R /\ x.taken = r.taken /\ x.batch = r.batch /\ x.left = r.left
      /\ x.mode = m
      BY <1>1 DEF Offer, RunnerFields
<1> QED BY <1>2 DEF RunnerOK

LEMMA SelectStep == ASSUME Inv, NEW n \in Runners, select_unarchived(n) PROVE Inv'
<1> DEFINE r == [runner[n] EXCEPT !.skipped = Expired(@), !.ticks = @ + 1, !.archived = 0, !.taken = {},
                                  !.refused = {}, !.failed = FALSE, !.batch = {}, !.left = {}]
           due == {x \in Rows : hot[x].state = "hot" /\ hot[x].due = 0}
           got == Earliest(due, scene.batch_size + held(r.skipped))
           batch == Earliest({x \in got : ~ is_held(r.skipped, x)}, scene.batch_size)
           full == [r EXCEPT !.batch = batch]
<1>1. /\ runner[n].pc = "tick" /\ UNCHANGED <<hot, data, marks, task, clean, scene>>
      /\ \/ runner' = [runner EXCEPT ![n] = IF batch = {} THEN ToPurge(r, "ok") ELSE Offer(full, "batch", batch)]
         \/ runner' = [runner EXCEPT ![n] = ToPurge(r, "source")]
      BY DEF select_unarchived, Set
<1>2. batch \in SUBSET Rows
  <2>1. got \subseteq due BY EarliestIn
  <2>2. batch \subseteq {x \in got : ~ is_held(r.skipped, x)} BY EarliestIn
  <2> HIDE DEF batch, got
  <2> QED BY <2>1, <2>2
<1>3. RunnerOK(runner[n]) BY DEF Inv, Runners_OK
<1> HIDE DEF batch
<1>4. RunnerOK(r) /\ r.taken = {} /\ r.pc = "tick"
  <2>1. /\ DOMAIN runner[n] = RunnerFields /\ runner[n].ask \subseteq Rows
        /\ runner[n].mode \in {"batch", "first", "last", "row"}
        BY <1>3 DEF RunnerOK
  <2>2. DOMAIN r = RunnerFields /\ r.taken = {} /\ r.pc = "tick" /\ r.batch = {} /\ r.left = {} /\ r.ask = runner[n].ask
        /\ r.mode = runner[n].mode
        BY <1>1, <2>1 DEF RunnerFields
  <2> HIDE DEF r
  <2> QED BY <2>1, <2>2 DEF RunnerOK
<1> HIDE DEF r
<1>5. RunnerOK(full) /\ full.taken = {} /\ full.batch = batch
  <2>1. DOMAIN r = RunnerFields BY <1>4 DEF RunnerOK
  <2>2. DOMAIN full = RunnerFields /\ full.taken = {} /\ full.batch = batch /\ full.pc = "tick" /\ full.left = r.left
        /\ full.ask = r.ask /\ full.mode = r.mode
        BY <1>4, <2>1 DEF RunnerFields
  <2> HIDE DEF full
  <2> QED BY <1>2, <1>4, <2>2 DEF RunnerOK
<1> HIDE DEF full
<1>6. \E x : RunnerOK(x) /\ x.taken = {} /\ x.pc \in {"purge", "offer"} /\ runner' = [runner EXCEPT ![n] = x]
  <2>1. CASE runner' = [runner EXCEPT ![n] = ToPurge(r, "source")] BY <1>4, <2>1, PurgeNext
  <2>2. CASE runner' = [runner EXCEPT ![n] = ToPurge(r, "ok")] BY <1>4, <2>2, PurgeNext
  <2>3. CASE batch # {} /\ runner' = [runner EXCEPT ![n] = Offer(full, "batch", batch)]
    <3>1. full.batch # {} BY <1>5, <2>3
    <3>2. PICK x : x = Offer(full, "batch", batch) OBVIOUS
    <3>3. RunnerOK(x) /\ x.taken = {} /\ x.pc = "offer" BY <1>2, <1>5, <2>3, <3>1, <3>2, OfferNext
    <3> QED BY <2>3, <3>2, <3>3
  <2> QED BY <1>1, <2>1, <2>2, <2>3
<1>7. PICK x : RunnerOK(x) /\ x.taken = {} /\ x.pc \in {"purge", "offer"} /\ runner' = [runner EXCEPT ![n] = x]
      BY <1>6
<1>8. AllFirm(x.taken) BY <1>7 DEF AllFirm
<1> QED BY <1>1, <1>7, <1>8, HotAlone, RunnerGoesOn

LEMMA TurnAwayStep == ASSUME Inv, NEW n \in Runners, turn_away(n) PROVE Inv'
<1> DEFINE x == [runner[n] EXCEPT !.answer = "err", !.pc = "answered"]
<1>1. DOMAIN runner = Runners /\ RunnerOK(runner[n]) /\ DOMAIN runner[n] = RunnerFields
      BY DEF Inv, Runners_OK, RunnerOK
<1>2. /\ runner[n].pc = "offer" /\ UNCHANGED <<hot, data, marks, task, clean, scene>>
      /\ runner' = [runner EXCEPT ![n].answer = "err", ![n].pc = "answered"]
      BY DEF turn_away, Answer
<1>3. runner' = [runner EXCEPT ![n] = x] BY <1>1, <1>2
<1>4. /\ DOMAIN x = RunnerFields /\ x.answer = "err" /\ x.taken = runner[n].taken /\ x.ask = runner[n].ask
      /\ x.batch = runner[n].batch /\ x.left = runner[n].left /\ x.mode = runner[n].mode
      BY <1>1 DEF RunnerFields
<1> HIDE DEF x
<1>5. RunnerOK(x) BY <1>1, <1>2, <1>4 DEF RunnerOK
<1>6. AllFirm(x.taken) BY <1>4 DEF Inv, Acknowledged, AllFirm
<1> QED BY <1>2, <1>3, <1>4, <1>5, <1>6, HotAlone, RunnerGoesOn

LEMMA PurgeStep == ASSUME Inv, NEW n \in Runners, purge(n) PROVE Inv'
<1> DEFINE r == runner[n]
           on == [r EXCEPT !.pc = "tick"]
<1>1. DOMAIN r = RunnerFields /\ RunnerOK(r) BY DEF Inv, Runners_OK, RunnerOK
<1>2. /\ r.pc = "purge" /\ UNCHANGED <<data, marks, task, clean, scene>>
      /\ runner' = [runner EXCEPT ![n] = on] \/ runner' = [runner EXCEPT ![n] = Resting(r.skipped)]
      /\ \/ hot' = hot
         \/ hot' = [x \in Rows |-> IF hot[x].state = "archived" /\ hot[x].keep = 0
                                   THEN [hot[x] EXCEPT !.state = "purged"] ELSE hot[x]]
      BY DEF purge, Set
<1>3. Hot_OK' /\ \A x \in Rows : hot'[x].state # "hot" => Firm(x)
  <2>1. Hot_OK /\ \A x \in Rows : hot[x].state # "hot" => Firm(x) BY DEF Inv, Acknowledged
  <2>2. CASE hot' = hot BY <2>2, HotAlone
  <2>3. CASE hot' = [x \in Rows |-> IF hot[x].state = "archived" /\ hot[x].keep = 0
                                    THEN [hot[x] EXCEPT !.state = "purged"] ELSE hot[x]]
        BY <2>1, <2>3 DEF Hot_OK
  <2> QED BY <1>2, <2>2, <2>3
<1>4. RunnerOK(on) /\ on.taken = r.taken /\ on.pc = "tick"
  <2>1. /\ DOMAIN on = RunnerFields /\ on.pc = "tick" /\ on.taken = r.taken /\ on.batch = r.batch /\ on.left = r.left
        /\ on.ask = r.ask /\ on.mode = r.mode
        BY <1>1 DEF RunnerFields
  <2> HIDE DEF on
  <2> QED BY <1>1, <2>1 DEF RunnerOK
<1>5. AllFirm(r.taken) BY DEF Inv, Acknowledged, AllFirm
<1> HIDE DEF on
<1>6. CASE runner' = [runner EXCEPT ![n] = on] BY <1>2, <1>3, <1>4, <1>5, <1>6, RunnerGoesOn
<1>7. CASE runner' = [runner EXCEPT ![n] = Resting(r.skipped)]
  <2>1. PICK x : x = Resting(r.skipped) OBVIOUS
  <2>2. RunnerOK(x) /\ x.taken = {} /\ x.pc = "rest" BY <2>1, RestingOK
  <2>3. AllFirm(x.taken) BY <2>2 DEF AllFirm
  <2> QED BY <1>2, <1>3, <1>7, <2>1, <2>2, <2>3, RunnerGoesOn
<1> QED BY <1>2, <1>6, <1>7

LEMMA NextRowOK ==
    ASSUME NEW r, RunnerOK(r), r.batch # {}, r.pc = "answered", NEW x, x = NextRow(r)
    PROVE  RunnerOK(x) /\ x.taken = r.taken /\ x.pc \in {"offer", "mark", "purge"}
<1>1. DOMAIN r = RunnerFields /\ r.left \subseteq Rows BY DEF RunnerOK
<1>2. CASE r.left # {}
  <2> DEFINE m == Min(r.left)
             y == [r EXCEPT !.left = @ \ {m}]
  <2>1. m \in r.left BY <1>1, <1>2, MinIn, RowAssumption
  <2>2. {m} \in SUBSET Rows BY <1>1, <2>1
  <2> HIDE DEF m
  <2>3. /\ DOMAIN y = RunnerFields /\ y.left = r.left \ {m} /\ y.taken = r.taken /\ y.batch = r.batch /\ y.ask = r.ask
        /\ y.pc = r.pc /\ y.mode = r.mode
        BY <1>1 DEF RunnerFields
  <2>4. x = Offer(y, "row", {m}) BY <1>2 DEF NextRow, m
  <2> HIDE DEF y
  <2>5. RunnerOK(y) BY <2>3 DEF RunnerOK
  <2> QED BY <2>2, <2>3, <2>4, <2>5, OfferNext
<1>3. CASE r.left = {} /\ r.taken # {}
  <2>1. x = [r EXCEPT !.pc = "mark"] BY <1>3 DEF NextRow
  <2>2. /\ DOMAIN x = RunnerFields /\ x.left = r.left /\ x.taken = r.taken /\ x.batch = r.batch /\ x.ask = r.ask
        /\ x.pc = "mark" /\ x.mode = r.mode
        BY <1>1, <2>1 DEF RunnerFields
  <2> QED BY <2>2 DEF RunnerOK
<1>4. CASE r.left = {} /\ r.taken = {}
  <2>1. x = ToPurge(r, IF r.failed THEN "archiver" ELSE "ok") BY <1>4 DEF NextRow
  <2>2. RunnerOK(x) /\ x.taken = r.taken /\ x.pc = "purge" BY <2>1, PurgeNext
  <2> QED BY <2>2
<1> QED BY <1>2, <1>3, <1>4

LEMMA AnsweredStep == ASSUME Inv, NEW n \in Runners, answered(n) PROVE Inv'
<1> DEFINE r == runner[n]
           first == Min(r.batch)
           final == Max(r.batch)
           ok == r.answer = "ok"
           took == [r EXCEPT !.taken = @ \cup r.ask]
           lost == [r EXCEPT !.refused = @ \cup r.ask, !.failed = TRUE]
           one == [r EXCEPT !.skipped = note_refusals(@, r.batch, FALSE)]
           both == [r EXCEPT !.skipped = note_refusals(@, {first, final}, FALSE)]
           Fine(x) == RunnerOK(x) /\ x.pc # "answered" /\ AllFirm(x.taken)
<1>1. RunnerOK(r) /\ DOMAIN r = RunnerFields /\ r.pc = "answered" /\ UNCHANGED <<hot, data, marks, task, clean, scene>>
      BY DEF Inv, Runners_OK, RunnerOK, answered
<1>2. /\ r.batch \subseteq Rows /\ r.ask \subseteq Rows /\ r.left \subseteq Rows /\ r.taken \subseteq Rows /\ r.batch # {}
      BY <1>1 DEF RunnerOK
<1>3. first \in Rows /\ final \in Rows
  <2>1. IsFiniteSet(r.batch) BY <1>2, FS_Subset, RowAssumption
  <2>2. r.batch \subseteq Nat BY <1>2, RowAssumption
  <2> QED BY <1>2, <2>1, <2>2, MinIn, MaxIn
<1>4. AllFirm(r.taken) /\ (ok => AllFirm(r.ask)) BY <1>1 DEF Inv, Acknowledged, AllFirm
<1>5. \A S : LET y == [took EXCEPT !.left = S] IN
         ok /\ S \subseteq Rows => RunnerOK(y) /\ y.pc = "answered" /\ y.batch # {} /\ AllFirm(y.taken)
  <2> TAKE S
  <2> DEFINE y == [took EXCEPT !.left = S]
  <2>1. /\ DOMAIN y = RunnerFields /\ y.left = S /\ y.taken = r.taken \cup r.ask /\ y.batch = r.batch /\ y.ask = r.ask
        /\ y.pc = r.pc /\ y.mode = r.mode
        BY <1>1 DEF RunnerFields
  <2> HIDE DEF y
  <2>2. ok /\ S \subseteq Rows => RunnerOK(y) /\ y.pc = "answered" /\ y.batch # {} /\ AllFirm(y.taken)
        BY <1>1, <1>2, <1>4, <2>1 DEF RunnerOK, AllFirm
  <2> QED BY <2>2 DEF y
<1>6. RunnerOK(lost) /\ lost.pc = "answered" /\ lost.batch # {} /\ AllFirm(lost.taken)
  <2>1. /\ DOMAIN lost = RunnerFields /\ lost.left = r.left /\ lost.taken = r.taken /\ lost.batch = r.batch
        /\ lost.ask = r.ask /\ lost.pc = r.pc /\ lost.mode = r.mode
        BY <1>1 DEF RunnerFields
  <2> HIDE DEF lost
  <2> QED BY <1>1, <1>2, <1>4, <2>1 DEF RunnerOK
<1>7. took = [took EXCEPT !.left = r.left] BY <1>1 DEF RunnerFields
<1>8. \A s : LET y == [r EXCEPT !.skipped = s] IN RunnerOK(y) /\ AllFirm(y.taken)
  <2> TAKE s
  <2> DEFINE y == [r EXCEPT !.skipped = s]
  <2>1. /\ DOMAIN y = RunnerFields /\ y.left = r.left /\ y.taken = r.taken /\ y.batch = r.batch
        /\ y.ask = r.ask /\ y.pc = r.pc /\ y.mode = r.mode
        BY <1>1 DEF RunnerFields
  <2> HIDE DEF y
  <2>2. RunnerOK(y) /\ AllFirm(y.taken) BY <1>1, <1>4, <2>1 DEF RunnerOK
  <2> QED BY <2>2 DEF y
<1>9. \A y : RunnerOK(y) /\ AllFirm(y.taken) => Fine(ToPurge(y, "archiver"))
  <2> TAKE y
  <2>1. PICK x : x = ToPurge(y, "archiver") OBVIOUS
  <2> QED BY <2>1, PurgeNext
<1>10. \A y : RunnerOK(y) /\ y.pc = "answered" /\ y.batch # {} /\ AllFirm(y.taken) => Fine(NextRow(y))
  <2> TAKE y
  <2>1. PICK x : x = NextRow(y) OBVIOUS
  <2> QED BY <2>1, NextRowOK
<1>11. Fine(Offer(r, "first", {first})) /\ Fine(Offer(lost, "last", {final}))
  <2>1. PICK x : x = Offer(r, "first", {first}) OBVIOUS
  <2>2. RunnerOK(x) /\ x.taken = r.taken /\ x.pc = "offer" BY <1>1, <1>2, <1>3, <2>1, OfferNext
  <2>3. PICK y : y = Offer(lost, "last", {final}) OBVIOUS
  <2> HIDE DEF lost, final
  <2>4. RunnerOK(y) /\ y.taken = lost.taken /\ y.pc = "offer" BY <1>3, <1>6, <2>3, OfferNext
  <2> QED BY <1>4, <1>6, <2>1, <2>2, <2>3, <2>4
<1>12. ok => Fine([took EXCEPT !.pc = "mark"])
  <2> DEFINE y == [took EXCEPT !.pc = "mark"]
  <2>1. /\ DOMAIN y = RunnerFields /\ y.left = r.left /\ y.taken = r.taken \cup r.ask /\ y.batch = r.batch
        /\ y.ask = r.ask /\ y.pc = "mark" /\ y.mode = r.mode
        BY <1>1 DEF RunnerFields
  <2> HIDE DEF y
  <2>2. RunnerOK(y) BY <1>1, <1>2, <2>1 DEF RunnerOK
  <2>3. ok => AllFirm(y.taken) BY <1>4, <2>1 DEF AllFirm
  <2> QED BY <2>1, <2>2, <2>3 DEF y
<1>13. PICK x : /\ runner' = [runner EXCEPT ![n] = x]
                /\ x = CASE ok /\ r.mode = "batch" -> [took EXCEPT !.pc = "mark"]
                        [] ~ ok /\ r.mode = "batch" /\ first = final -> ToPurge(one, "archiver")
                        [] ~ ok /\ r.mode = "batch" -> Offer(r, "first", {first})
                        [] ok /\ r.mode = "first" -> NextRow([took EXCEPT !.left = r.batch \ {first}])
                        [] ~ ok /\ r.mode = "first" -> Offer(lost, "last", {final})
                        [] ok /\ r.mode = "last" -> NextRow([took EXCEPT !.left = r.batch \ {first, final}])
                        [] ~ ok /\ r.mode = "last" -> ToPurge(both, "archiver")
                        [] r.mode = "row" -> NextRow(IF ok THEN took ELSE lost)
      BY DEF answered, Set
<1>14. Fine(x)
  <2>1. ok => /\ Fine([took EXCEPT !.pc = "mark"])
              /\ Fine(NextRow([took EXCEPT !.left = r.batch \ {first}]))
              /\ Fine(NextRow([took EXCEPT !.left = r.batch \ {first, final}]))
              /\ Fine(NextRow(took))
    <3> HIDE DEF Fine, took, first, final, ok
    <3> QED BY <1>2, <1>5, <1>7, <1>10, <1>12
  <2>2. Fine(ToPurge(one, "archiver")) /\ Fine(ToPurge(both, "archiver"))
    <3> HIDE DEF Fine
    <3> QED BY <1>8, <1>9
  <2>3. Fine(NextRow(lost)) BY <1>6, <1>10
  <2>4. r.mode \in {"batch", "first", "last", "row"} BY <1>1 DEF RunnerOK
  <2> HIDE DEF Fine, took, lost, one, both, first, final, ok
  <2>5. CASE r.mode = "batch" BY <1>11, <1>13, <2>1, <2>2, <2>5
  <2>6. CASE r.mode = "first" BY <1>11, <1>13, <2>1, <2>6
  <2>7. CASE r.mode = "last" BY <1>13, <2>1, <2>2, <2>7
  <2>8. CASE r.mode = "row" BY <1>13, <2>1, <2>3, <2>8
  <2> QED BY <2>4, <2>5, <2>6, <2>7, <2>8
<1> QED BY <1>1, <1>13, <1>14, HotAlone, RunnerGoesOn

LEMMA MarkStep == ASSUME Inv, NEW n \in Runners, mark_archived(n) PROVE Inv'
<1> DEFINE r == runner[n]
           kept == forget_refusals(r.skipped, r.taken)
           done == [r EXCEPT !.archived = Cardinality(r.taken), !.skipped = note_refusals(kept, r.refused, TRUE)]
<1>1. RunnerOK(r) /\ DOMAIN r = RunnerFields /\ r.pc = "mark" /\ UNCHANGED <<data, marks, task, clean, scene>>
      BY DEF Inv, Runners_OK, RunnerOK, mark_archived
<1>2. /\ hot' = hot \/ hot' = Marked(r.taken)
      /\ \/ runner' = [runner EXCEPT ![n] = ToPurge(done, IF r.failed THEN "archiver" ELSE "ok")]
         \/ runner' = [runner EXCEPT ![n] = ToPurge(r, "source")]
      BY DEF mark_archived, Set
<1>3. AllFirm(r.taken) BY DEF Inv, Acknowledged, AllFirm
<1>4. Hot_OK' /\ \A x \in Rows : hot'[x].state # "hot" => Firm(x)
  <2>1. Hot_OK /\ \A x \in Rows : hot[x].state # "hot" => Firm(x) BY DEF Inv, Acknowledged
  <2>2. CASE hot' = hot BY <2>2, HotAlone
  <2>3. CASE hot' = Marked(r.taken) BY <1>3, <2>1, <2>3 DEF Hot_OK, Marked, AllFirm
  <2> QED BY <1>2, <2>2, <2>3
<1>5. RunnerOK(done) /\ done.taken = r.taken
  <2> HIDE DEF kept
  <2>1. /\ DOMAIN done = RunnerFields /\ done.left = r.left /\ done.taken = r.taken /\ done.batch = r.batch
        /\ done.ask = r.ask /\ done.pc = r.pc /\ done.mode = r.mode
        BY <1>1 DEF RunnerFields
  <2> HIDE DEF done
  <2> QED BY <1>1, <2>1 DEF RunnerOK
<1> HIDE DEF done
<1>6. PICK y, o : runner' = [runner EXCEPT ![n] = ToPurge(y, o)] /\ RunnerOK(y) /\ y.taken = r.taken
      BY <1>1, <1>2, <1>5
<1>7. PICK x : x = ToPurge(y, o) OBVIOUS
<1>8. RunnerOK(x) /\ x.taken = r.taken /\ x.pc = "purge" BY <1>6, <1>7, PurgeNext
<1> QED BY <1>1, <1>3, <1>4, <1>6, <1>7, <1>8, RunnerGoesOn

LEMMA RestStep == ASSUME Inv, rest PROVE Inv'
<1>1. /\ UNCHANGED <<data, marks, task, clean, scene>>
      /\ hot' = [x \in Rows |-> [hot[x] EXCEPT !.due = Less(@, TickInterval),
                                   !.keep = IF hot[x].state = "archived" THEN Less(@, TickInterval) ELSE @]]
      BY DEF rest
<1>2. \A n \in Runners : \E s : runner'[n] = [runner[n] EXCEPT !.pc = "tick", !.skipped = s] BY DEF rest
<1>3. DOMAIN runner' = Runners BY DEF rest
<1>4. ASSUME NEW n \in Runners
      PROVE  RunnerOK(runner'[n]) /\ runner'[n].taken = runner[n].taken /\ runner'[n].pc = "tick"
  <2>1. PICK s : runner'[n] = [runner[n] EXCEPT !.pc = "tick", !.skipped = s] BY <1>2
  <2>2. RunnerOK(runner[n]) BY DEF Inv, Runners_OK
  <2>3. DOMAIN runner[n] = RunnerFields BY <2>2 DEF RunnerOK
  <2> DEFINE x == [runner[n] EXCEPT !.pc = "tick", !.skipped = s]
             r == runner[n]
  <2>4. /\ DOMAIN x = RunnerFields /\ x.left = r.left /\ x.taken = r.taken /\ x.batch = r.batch
        /\ x.ask = r.ask /\ x.pc = "tick" /\ x.mode = r.mode
        BY <2>3 DEF RunnerFields
  <2> HIDE DEF x
  <2>5. RunnerOK(x) BY <2>2, <2>4 DEF RunnerOK
  <2> QED BY <2>1, <2>4, <2>5 DEF x
<1>5. Runners_OK' BY <1>3, <1>4 DEF Runners_OK
<1>6. Hot_OK' /\ \A x \in Rows : hot'[x].state = hot[x].state BY <1>1 DEF Inv, Hot_OK
<1>7. Acknowledged'
  <2>1. \A r \in Rows : hot'[r].state # "hot" => Firm(r)' BY <1>1, <1>6, FirmAlone DEF Inv, Acknowledged
  <2>2. \A n \in Runners : \A r \in runner'[n].taken : Firm(r)' BY <1>1, <1>4, FirmAlone DEF Inv, Acknowledged
  <2> QED BY <1>4, <2>1, <2>2 DEF Acknowledged
<1>8. ASSUME task.owner \in Runners PROVE FALSE
  <2>1. runner[task.owner].pc = "wait" BY <1>8 DEF Inv, Owned
  <2>2. task.owner \in scene.runners BY <1>8, TokenAssumption DEF Inv, Task_OK
  <2> QED BY <2>1, <2>2 DEF rest
<1>9. Owned' BY <1>1, <1>8 DEF Owned
<1> QED BY <1>1, <1>5, <1>6, <1>7, <1>9, FilesAlone

---------------------------------------------------------------------------
(* The end of a task. *)
LEMMA IdleNext ==
    ASSUME task' = NoTask
    PROVE  /\ Task_OK' /\ Lens_OK' /\ Progress' /\ Owned'
           /\ \A ph, d : ~Opened(ph, d)'
           /\ \A r : Firm(r)' <=> Kept(r)'
           /\ \A d : ~Own(d)'
<1>1. \A ph, d : ~Opened(ph, d)' BY NoTaskFacts DEF Opened
<1>2. Task_OK' BY NoTaskFacts, TokenAssumption DEF Task_OK, TaskPcs, DaysOf
<1>3. Lens_OK' BY <1>1, NoTaskFacts DEF Lens_OK
<1>4. Progress' BY NoTaskFacts DEF Progress
<1>5. Owned' BY NoTaskFacts, TokenAssumption DEF Owned
<1> QED BY <1>1, <1>2, <1>3, <1>4, <1>5 DEF Firm, Own

(* Every marker stands for kept rows. *)
Backed ==
    \A d \in Days : /\ \A i \in 1 .. Len(marks[d].cache) : marks[d].cache[i] # Half => AllKept(marks[d].cache[i])
                    /\ \A i \in 1 .. Len(marks[d].disk) : marks[d].disk[i] # Half => AllKept(marks[d].disk[i])

LEMMA TaskEnds ==
    ASSUME Inv, task' = NoTask, scene' = scene, Files_OK', Runners_OK', Hot_OK', Acknowledged',
           DOMAIN clean' = {"files", "undone"},
           Backed'
    PROVE  Inv'
<1>1. Markers'
  <2>1. \A x : AllKept(x)' => AllFirm(x)' BY IdleNext DEF AllFirm, AllKept
  <2> QED BY <2>1 DEF Markers, Backed
<1>2. Undoable' BY NoTaskFacts DEF Undoable
<1>3. scene' \in Scenes BY DEF Inv
<1> QED BY <1>1, <1>2, <1>3, IdleNext DEF Inv

LEMMA RunnersType ==
    ASSUME Inv, NEW n \in Runners
    PROVE  RunnerOK(runner[n]) /\ runner[n].taken \subseteq Rows /\ runner[n].ask \subseteq Rows
BY DEF Inv, Runners_OK, RunnerOK

(* The caller gets its answer: its rows are kept if it is told so. *)
LEMMA AnswerGiven ==
    ASSUME Inv, NEW a \in {"ok", "err"}, Finish(a), hot' = hot, \A r \in Rows : Firm(r) => Kept(r)',
           a = "ok" => \A r \in task.rows : Kept(r)'
    PROVE  task' = NoTask /\ Runners_OK' /\ Hot_OK' /\ Acknowledged'
<1>1. task' = NoTask BY DEF Finish
<1>2. Hot_OK' BY DEF Inv, Hot_OK
<1>3. \A r \in Rows : Firm(r) => Firm(r)' BY <1>1, IdleNext
<1>4. \A r \in Rows : hot'[r].state # "hot" => Firm(r)' BY <1>3 DEF Inv, Acknowledged
<1>5. CASE runner' = runner
  <2>1. Runners_OK' BY <1>5 DEF Inv, Runners_OK
  <2>2. ASSUME NEW m \in Runners
        PROVE  /\ \A r \in runner'[m].taken : Firm(r)'
               /\ runner'[m].pc = "answered" /\ runner'[m].answer = "ok" => \A r \in runner'[m].ask : Firm(r)'
        BY <1>3, <1>5, RunnersType DEF Inv, Acknowledged
  <2> QED BY <1>1, <1>2, <1>4, <2>1, <2>2 DEF Acknowledged
<1>6. CASE task.owner # None /\ Answer(task.owner, a)
  <2> DEFINE n == task.owner
             x == [runner[n] EXCEPT !.answer = a, !.pc = "answered"]
  <2>1. n \in Runners BY <1>6, SceneAssumption DEF Inv, Task_OK
  <2>2. DOMAIN runner = Runners /\ RunnerOK(runner[n]) /\ DOMAIN runner[n] = RunnerFields
        BY <2>1 DEF Inv, Runners_OK, RunnerOK
  <2>3. runner' = [runner EXCEPT ![n] = x] BY <1>6, <2>1, <2>2 DEF Answer
  <2>4. /\ DOMAIN x = RunnerFields /\ x.answer = a /\ x.taken = runner[n].taken /\ x.ask = runner[n].ask
        /\ x.batch = runner[n].batch /\ x.left = runner[n].left /\ x.mode = runner[n].mode /\ x.pc = "answered"
        BY <2>2 DEF RunnerFields
  <2>5. runner[n].pc = "wait" /\ runner[n].ask = task.rows BY <2>1 DEF Inv, Owned
  <2> HIDE DEF x
  <2>6. RunnerOK(x) BY <2>2, <2>4, <2>5 DEF RunnerOK
  <2>7. runner'[n] = x /\ DOMAIN runner' = Runners /\ \A m \in Runners : m # n => runner'[m] = runner[m]
        BY <2>1, <2>2, <2>3
  <2> HIDE DEF n
  <2>8. Runners_OK' BY <2>6, <2>7 DEF Inv, Runners_OK
  <2>9. ASSUME NEW m \in Runners
        PROVE  /\ \A r \in runner'[m].taken : Firm(r)'
               /\ runner'[m].pc = "answered" /\ runner'[m].answer = "ok" => \A r \in runner'[m].ask : Firm(r)'
    <3>1. CASE m # n BY <1>3, <2>7, <3>1, RunnersType DEF Inv, Acknowledged
    <3>2. CASE m = n
      <4>1. \A r \in runner[n].taken : Firm(r)' BY <1>3, <2>1, RunnersType DEF Inv, Acknowledged
      <4>2. a = "ok" => \A r \in task.rows : Firm(r)' BY <1>1, IdleNext
      <4> QED BY <2>4, <2>5, <2>7, <3>2, <4>1, <4>2
    <3> QED BY <3>1, <3>2
  <2> QED BY <1>1, <1>2, <1>4, <2>8, <2>9 DEF Acknowledged
<1> QED BY <1>5, <1>6 DEF Finish

(* Kept stays kept, and markers come from markers, where the files do. *)
LEMMA KeptAlone == ASSUME data' = data, NEW r PROVE Kept(r)' <=> Kept(r)
BY DEF Kept

LEMMA MarkersKept ==
    ASSUME Inv, NEW d \in Days
    PROVE  /\ \A x \in SUBSET Rows : x \in ToSet(marks[d].cache) \/ x \in ToSet(marks[d].disk) => AllKept(x)
           /\ task.pc = "undodata" =>
                \A x \in SUBSET Rows : x \in ToSet(marks[d].cache) \/ x \in ToSet(marks[d].disk) => AllFirm(x)
<1>1. FileOK(marks[d], SUBSET Rows) BY DEF Inv, Files_OK
<1>2. DOMAIN marks[d].cache = 1 .. Len(marks[d].cache) /\ DOMAIN marks[d].disk = 1 .. Len(marks[d].disk)
      BY <1>1 DEF FileOK
<1>3. ASSUME NEW x \in SUBSET Rows, x \in ToSet(marks[d].cache) \/ x \in ToSet(marks[d].disk)
      PROVE  AllFirm(x) \/ (task.pc # "undodata" /\ AllKept(x))
  <2>1. x # Half BY NoHalf
  <2>2. CASE x \in ToSet(marks[d].cache)
    <3>1. PICK i \in 1 .. Len(marks[d].cache) : marks[d].cache[i] = x BY <1>2, <2>2 DEF ToSet
    <3> QED BY <2>1, <3>1 DEF Inv, Markers, Own
  <2>3. CASE x \in ToSet(marks[d].disk)
    <3>1. PICK i \in 1 .. Len(marks[d].disk) : marks[d].disk[i] = x BY <1>2, <2>3 DEF ToSet
    <3> QED BY <2>1, <3>1 DEF Inv, Markers, Own
  <2> QED BY <1>3, <2>2, <2>3
<1>4. \A x : AllFirm(x) => AllKept(x) BY DEF AllFirm, AllKept, Firm
<1> QED BY <1>3, <1>4

(* A task that ends leaves markers that were there, for rows still kept. *)
LEMMA MarkersStay ==
    ASSUME Inv, Files_OK',
           \A d \in Days : \A x \in SUBSET Rows :
              x \in ToSet(marks'[d].cache) \/ x \in ToSet(marks'[d].disk) =>
              x \in ToSet(marks[d].cache) \/ x \in ToSet(marks[d].disk),
           \/ \A r \in Rows : Kept(r) => Kept(r)'
           \/ task.pc = "undodata" /\ \A r \in Rows : Firm(r) => Kept(r)'
    PROVE  Backed'
<1> SUFFICES ASSUME NEW d \in Days
             PROVE  (/\ \A i \in 1 .. Len(marks[d].cache) : marks[d].cache[i] # Half => AllKept(marks[d].cache[i])
                     /\ \A i \in 1 .. Len(marks[d].disk) : marks[d].disk[i] # Half => AllKept(marks[d].disk[i]))'
    BY DEF Backed
<1>1. FileOK(marks'[d], SUBSET Rows) BY DEF Files_OK
<1>2. /\ marks'[d].cache \in Seq((SUBSET Rows) \cup {Half}) /\ marks'[d].disk \in Seq((SUBSET Rows) \cup {Half}) BY <1>1 DEF FileOK
<1>3. ASSUME NEW x \in SUBSET Rows, x \in ToSet(marks'[d].cache) \/ x \in ToSet(marks'[d].disk) PROVE AllKept(x)'
  <2>1. x \in ToSet(marks[d].cache) \/ x \in ToSet(marks[d].disk) BY <1>3
  <2>2. AllKept(x) /\ (task.pc = "undodata" => AllFirm(x)) BY <2>1, MarkersKept
  <2> QED BY <2>2 DEF AllKept, AllFirm
<1>4. ASSUME NEW s \in Seq((SUBSET Rows) \cup {Half}), NEW i \in 1 .. Len(s), s[i] # Half
      PROVE  s[i] \in SUBSET Rows /\ s[i] \in ToSet(s)
  <2>1. s[i] \in (SUBSET Rows) \cup {Half} OBVIOUS
  <2>2. s[i] \in ToSet(s) BY DEF ToSet
  <2> QED BY <1>4, <2>1, <2>2
<1> QED BY <1>2, <1>3, <1>4

LEMMA CheckStep == ASSUME Inv, check_recorded PROVE Inv'
<1>1. task.pc = "check" /\ UNCHANGED <<hot, data, marks, clean, scene>> BY DEF check_recorded
<1>2. Files_OK' BY <1>1 DEF Inv, Files_OK
<1>3. CASE Finish("ok") /\ \E d \in DaysOf(task.rows) : recorded(d)
  <2>1. task.rows \in SUBSET Rows BY DEF Inv, Task_OK
  <2>2. PICK d \in Days : recorded(d) BY <1>3, <2>1, DayFacts
  <2>3. task.rows \in ToSet(marks[d].cache)
    <3>1. FileOK(marks[d], SUBSET Rows) BY DEF Inv, Files_OK
    <3>2. DOMAIN marks[d].cache = 1 .. Len(marks[d].cache) BY <3>1 DEF FileOK
    <3> QED BY <2>2, <3>2 DEF recorded, Id, ToSet
  <2>4. AllKept(task.rows) BY <2>1, <2>3, MarkersKept
  <2>5. \A r \in Rows : Kept(r) => Kept(r)' BY <1>1, KeptAlone
  <2>6. \A r \in task.rows : Kept(r)' BY <2>1, <2>4, <2>5 DEF AllKept
  <2>7. \A r \in Rows : Firm(r) => Kept(r)' BY <2>5 DEF Firm
  <2>8. task' = NoTask /\ Runners_OK' /\ Hot_OK' /\ Acknowledged' BY <1>1, <1>3, <2>6, <2>7, AnswerGiven
  <2>9. DOMAIN clean' = {"files", "undone"} BY <1>1 DEF Inv, Undoable
  <2> QED BY <1>1, <1>2, <2>5, <2>8, <2>9, MarkersStay, TaskEnds
<1>4. CASE task' = [task EXCEPT !.pc = "open"] /\ UNCHANGED runner
  <2>1. DOMAIN task = TaskFields BY DEF Inv, Task_OK
  <2>2. /\ DOMAIN task' = TaskFields /\ task'.pc = "open" /\ task'.owner = task.owner /\ task'.rows = task.rows
        /\ task'.phase = task.phase /\ task'.todo = task.todo /\ task'.len = task.len
        BY <1>4, <2>1 DEF TaskFields
  <2>3. task.phase = 1 /\ \A d \in Days : ~Opened(1, d) /\ ~Opened(2, d) BY <1>1 DEF Inv, Lens_OK
  <2>4. \A ph, d : Opened(ph, d)' <=> Opened(ph, d) BY <2>2 DEF Opened
  <2>5. \A r : (Firm(r)' <=> Firm(r)) /\ (Kept(r)' <=> Kept(r)) BY <1>1, <2>2, <2>4 DEF Firm, Kept
  <2>6. Task_OK' BY <1>1, <2>2, NoTaskFacts DEF Inv, Task_OK, TaskPcs
  <2>7. Lens_OK'
    <3>1. Lens_OK BY DEF Inv
    <3> QED BY <1>1, <2>2, <2>3, <2>4, <3>1 DEF Lens_OK
  <2>8. Progress' BY <2>2, <2>3 DEF Progress
  <2>9. Runners_OK' /\ Hot_OK' /\ Owned' BY <1>1, <1>4, <2>2 DEF Inv, Runners_OK, Hot_OK, Owned
  <2>10. Acknowledged' BY <1>1, <1>4, <2>5 DEF Inv, Acknowledged
  <2>11. \A d \in Days : ~Own(d) /\ ~Own(d)' BY <2>3, <2>4 DEF Own
  <2>12. Markers' BY <1>1, <2>5, <2>11 DEF Inv, Markers, AllFirm
  <2>13. Undoable'
    <3>1. Undoable BY DEF Inv
    <3> QED BY <1>1, <2>2, <2>3, <2>4, <2>11, <3>1 DEF Undoable, SameLines
  <2> QED BY <1>1, <1>2, <2>6, <2>7, <2>8, <2>9, <2>10, <2>12, <2>13 DEF Inv
<1> QED BY <1>3, <1>4 DEF check_recorded

LEMMA LockStep == ASSUME Inv, NEW n \in scene.runners, lock_root(n) PROVE Inv'
<1>1. /\ runner[n].pc = "offer" /\ task = NoTask /\ UNCHANGED <<hot, data, marks, scene>>
      /\ task' = [NoTask EXCEPT !.owner = n, !.pc = "check", !.rows = runner[n].ask]
      /\ runner' = [runner EXCEPT ![n] = [runner[n] EXCEPT !.pc = "wait"]]
      /\ clean' = [files |-> [data |-> data, marks |-> marks], undone |-> TRUE]
      BY DEF lock_root, Set
<1>2. n \in Runners BY SceneAssumption DEF Inv
<1> DEFINE r == runner[n]
           x == [r EXCEPT !.pc = "wait"]
<1>3. DOMAIN runner = Runners /\ RunnerOK(r) /\ DOMAIN r = RunnerFields /\ r.ask \subseteq Rows /\ r.ask # {}
      BY <1>1, <1>2 DEF Inv, Runners_OK, RunnerOK
<1>4. /\ DOMAIN x = RunnerFields /\ x.left = r.left /\ x.taken = r.taken /\ x.batch = r.batch
      /\ x.ask = r.ask /\ x.pc = "wait" /\ x.mode = r.mode
      BY <1>3 DEF RunnerFields
<1>5. /\ DOMAIN task' = TaskFields /\ task'.owner = n /\ task'.pc = "check" /\ task'.rows = r.ask /\ task'.phase = 1
      /\ task'.todo = {} /\ task'.len = NoTask.len
      BY <1>1, NoTaskFacts DEF TaskFields
<1>6. runner' = [runner EXCEPT ![n] = x] BY <1>1
<1> HIDE DEF x
<1>7. RunnerOK(x) BY <1>1, <1>3, <1>4 DEF RunnerOK
<1>8. runner'[n] = x /\ DOMAIN runner' = Runners /\ \A m \in Runners : m # n => runner'[m] = runner[m]
      BY <1>2, <1>3, <1>6
<1>9. Runners_OK' BY <1>7, <1>8 DEF Inv, Runners_OK
<1>10. \A ph, d : ~Opened(ph, d) /\ ~Opened(ph, d)' BY <1>1, <1>5, NoTaskFacts DEF Opened
<1>11. \A y : (Firm(y)' <=> Firm(y)) /\ (Kept(y)' <=> Kept(y)) BY <1>1, <1>10 DEF Firm, Kept
<1>12. Acknowledged'
  <2>1. \A y \in Rows : hot'[y].state # "hot" => Firm(y)' BY <1>1, <1>11 DEF Inv, Acknowledged
  <2>2. ASSUME NEW m \in Runners
        PROVE  /\ \A y \in runner'[m].taken : Firm(y)'
               /\ runner'[m].pc = "answered" /\ runner'[m].answer = "ok" => \A y \in runner'[m].ask : Firm(y)'
    <3>1. CASE m = n BY <1>2, <1>4, <1>8, <1>11, <3>1 DEF Inv, Acknowledged
    <3>2. CASE m # n BY <1>8, <1>11, <3>2 DEF Inv, Acknowledged
    <3> QED BY <3>1, <3>2
  <2> QED BY <2>1, <2>2 DEF Acknowledged
<1>13. Task_OK' BY <1>1, <1>3, <1>5, NoTaskFacts DEF Task_OK, TaskPcs
<1>14. Lens_OK' BY <1>5, <1>10, NoTaskFacts DEF Lens_OK
<1>15. Progress' BY <1>5 DEF Progress
<1>16. Owned' BY <1>4, <1>5, <1>8 DEF Owned
<1>17. \A d : ~Own(d) /\ ~Own(d)' BY <1>10 DEF Own
<1>18. Markers' BY <1>1, <1>11, <1>17 DEF Inv, Markers, AllFirm
<1>19. Undoable'
  <2>1. clean'.files.data = data' /\ clean'.files.marks = marks' /\ DOMAIN clean' = {"files", "undone"} BY <1>1
  <2> QED BY <1>10, <1>17, <2>1 DEF Undoable, SameLines
<1>20. Hot_OK' /\ Files_OK' /\ scene' \in Scenes BY <1>1 DEF Inv, Hot_OK, Files_OK
<1> QED BY <1>9, <1>12, <1>13, <1>14, <1>15, <1>16, <1>18, <1>19, <1>20 DEF Inv

---------------------------------------------------------------------------
(* The task goes on. *)
TaskMoves ==
    /\ DOMAIN task' = TaskFields /\ task'.owner = task.owner /\ task'.rows = task.rows
    /\ task'.pc \in {"open", "write", "sync", "dirs", "undomarks", "undodata"}
    /\ task'.phase \in {1, 2} /\ task'.todo \subseteq DaysOf(task.rows)
    /\ task'.pc \in {"write", "sync"} => task'.todo # {}
    /\ UNCHANGED <<hot, runner, clean, scene>>

LEMMA Moves ==
    ASSUME Inv, task.pc # "none", TaskMoves, \A r \in Rows : Firm(r) => Firm(r)'
    PROVE  Task_OK' /\ Runners_OK' /\ Hot_OK' /\ Owned' /\ Acknowledged' /\ scene' \in Scenes
<1>1. Task_OK /\ task.rows # {} BY DEF Inv, Task_OK
<1>2. Task_OK' BY <1>1, NoTaskFacts DEF TaskMoves, Task_OK, TaskPcs
<1>3. Runners_OK' /\ Hot_OK' /\ Owned' /\ scene' \in Scenes BY DEF TaskMoves, Inv, Runners_OK, Hot_OK, Owned
<1>4. \A n \in Runners : runner[n].taken \subseteq Rows /\ runner[n].ask \subseteq Rows BY RunnersType
<1>5. Acknowledged BY DEF Inv
<1>6. runner' = runner /\ hot' = hot BY DEF TaskMoves
<1>7. Acknowledged' BY <1>4, <1>5, <1>6 DEF Acknowledged
<1> QED BY <1>2, <1>3, <1>7

(* While it writes the data files. *)
LEMMA DataPhase ==
    ASSUME Inv, task.phase = 1, task.pc # "none", TaskMoves, marks' = marks, Files_OK', Lens_OK', Progress',
           \A d \in Days : ~Opened(2, d)', \A r \in Rows : Firm(r) => Firm(r)',
           \A d \in Days : SameLines(data'[d], Opened(1, d)', task'.len[<<1, d>>], clean.files.data[d])
    PROVE  Inv'
<1>1. \A d \in Days : ~Opened(2, d) /\ ~Own(d) /\ ~Own(d)' BY DEF Inv, Lens_OK, Own
<1>2. Markers'
  <2>1. ASSUME NEW x \in SUBSET Rows, AllFirm(x) PROVE AllFirm(x)' BY <2>1 DEF AllFirm
  <2>2. \A d \in Days : FileOK(marks[d], SUBSET Rows) BY DEF Inv, Files_OK
  <2>3. ASSUME NEW d \in Days, NEW i \in 1 .. Len(marks[d].cache), marks[d].cache[i] # Half
        PROVE  AllFirm(marks[d].cache[i])'
    <3>1. marks[d].cache \in Seq((SUBSET Rows) \cup {Half}) BY <2>2 DEF FileOK
    <3>2. marks[d].cache[i] \in SUBSET Rows BY <2>3, <3>1
    <3>3. AllFirm(marks[d].cache[i]) BY <1>1, <2>3 DEF Inv, Markers
    <3>4. PICK x \in SUBSET Rows : x = marks[d].cache[i] BY <3>2
    <3> QED BY <2>1, <3>3, <3>4
  <2>4. ASSUME NEW d \in Days, NEW i \in 1 .. Len(marks[d].disk), marks[d].disk[i] # Half
        PROVE  AllFirm(marks[d].disk[i])'
    <3>1. marks[d].disk \in Seq((SUBSET Rows) \cup {Half}) BY <2>2 DEF FileOK
    <3>2. marks[d].disk[i] \in SUBSET Rows BY <2>4, <3>1
    <3>3. AllFirm(marks[d].disk[i]) BY <1>1, <2>4 DEF Inv, Markers
    <3>4. PICK x \in SUBSET Rows : x = marks[d].disk[i] BY <3>2
    <3> QED BY <2>1, <3>3, <3>4
  <2> QED BY <2>3, <2>4 DEF Markers
<1>3. Undoable'
  <2>1. clean' = clean BY DEF TaskMoves
  <2>2. Undoable BY DEF Inv
  <2> QED BY <1>1, <2>1, <2>2 DEF Undoable, SameLines
<1> QED BY <1>2, <1>3, Moves DEF Inv

(* While it writes the markers, what its rollback cuts of the data stays. *)
SameData ==
    /\ data' = data
    /\ \A d \in Days : /\ Opened(1, d)' <=> Opened(1, d)
                       /\ Opened(1, d) => task'.len[<<1, d>>] = task.len[<<1, d>>]

LEMMA FirmSame ==
    ASSUME SameData, NEW r \in Rows PROVE (Firm(r)' <=> Firm(r)) /\ (Kept(r)' <=> Kept(r))
<1>1. Day[r] \in Days BY DayFacts
<1> QED BY <1>1 DEF SameData, Firm, Kept

LEMMA MarkPhase ==
    ASSUME Inv, task.phase = 2, task.pc \notin {"none", "undodata"}, TaskMoves, task'.phase = 2, SameData,
           Files_OK', Lens_OK', Markers',
           \A d \in Days : SameLines(marks'[d], Own(d)', task'.len[<<2, d>>], clean.files.marks[d])
    PROVE  Inv'
<1>1. \A r \in Rows : (Firm(r)' <=> Firm(r)) /\ (Kept(r)' <=> Kept(r)) BY FirmSame
<1>2. Progress'
  <2>1. AllKept(task.rows) /\ task.rows \subseteq Rows BY DEF Inv, Progress, Task_OK
  <2>2. task'.rows = task.rows BY DEF TaskMoves
  <2> QED BY <1>1, <2>1, <2>2 DEF Progress, AllKept
<1>3. Undoable'
  <2>1. clean' = clean BY DEF TaskMoves
  <2>2. Undoable BY DEF Inv
  <2> QED BY <2>1, <2>2 DEF SameData, Undoable, SameLines
<1> QED BY <1>1, <1>2, <1>3, Moves DEF Inv

(* The markers in terms of sets of lines, for a step that leaves data be. *)
LEMMA MarkLines ==
    ASSUME Inv, SameData, NEW d \in Days
    PROVE  /\ \A i \in 1 .. Len(marks[d].cache) : marks[d].cache[i] # Half =>
                 marks[d].cache[i] \in SUBSET Rows /\
                 (AllFirm(marks[d].cache[i])
                  \/ (Own(d) /\ i > task.len[<<2, d>>] /\ AllKept(marks[d].cache[i])))
           /\ \A i \in 1 .. Len(marks[d].disk) : marks[d].disk[i] # Half =>
                 marks[d].disk[i] \in SUBSET Rows /\
                 (AllFirm(marks[d].disk[i]) \/ (Own(d) /\ AllKept(marks[d].disk[i])))
           /\ \A x \in SUBSET Rows : (AllFirm(x) => AllFirm(x)') /\ (AllKept(x) => AllKept(x)')
<1>1. FileOK(marks[d], SUBSET Rows) BY DEF Inv, Files_OK
<1>2. marks[d].cache \in Seq((SUBSET Rows) \cup {Half}) /\ marks[d].disk \in Seq((SUBSET Rows) \cup {Half})
      BY <1>1 DEF FileOK
<1>3. \A x \in SUBSET Rows : (AllFirm(x) => AllFirm(x)') /\ (AllKept(x) => AllKept(x)')
      BY FirmSame DEF AllFirm, AllKept
<1>4. \A i \in 1 .. Len(marks[d].cache) : marks[d].cache[i] # Half => marks[d].cache[i] \in SUBSET Rows BY <1>2
<1>5. \A i \in 1 .. Len(marks[d].disk) : marks[d].disk[i] # Half => marks[d].disk[i] \in SUBSET Rows BY <1>2
<1> QED BY <1>3, <1>4, <1>5 DEF Inv, Markers

LEMMA TaskType ==
    ASSUME Inv
    PROVE  /\ DOMAIN task = TaskFields /\ task.rows \in SUBSET Rows /\ task.phase \in {1, 2}
           /\ task.todo \subseteq DaysOf(task.rows) /\ DaysOf(task.rows) \subseteq Days
           /\ (task.rows # {} => DaysOf(task.rows) # {})
           /\ \A d \in Days : FileOK(data[d], Rows) /\ FileOK(marks[d], SUBSET Rows)
           /\ DOMAIN data = Days /\ DOMAIN marks = Days
<1>1. /\ DOMAIN task = TaskFields /\ task.rows \in SUBSET Rows /\ task.phase \in {1, 2}
      /\ task.todo \subseteq DaysOf(task.rows)
      BY DEF Inv, Task_OK
<1>2. DaysOf(task.rows) \subseteq Days /\ (task.rows # {} => DaysOf(task.rows) # {}) BY <1>1, DayFacts DEF DaysOf
<1> QED BY <1>1, <1>2 DEF Inv, Files_OK

(* A rollback begins. *)
LEMMA RollsBack ==
    ASSUME Inv, task.pc \in {"open", "write", "sync", "dirs"}, RollBack, UNCHANGED <<hot, runner, clean, scene>>
    PROVE  /\ TaskMoves /\ task'.pc = "undomarks" /\ task'.phase = task.phase /\ task'.len = task.len
           /\ task'.rows = task.rows
           /\ \A ph, d : Opened(ph, d)' <=> Opened(ph, d)
<1>1. /\ DOMAIN task' = TaskFields /\ task'.pc = "undomarks" /\ task'.owner = task.owner /\ task'.rows = task.rows
      /\ task'.phase = task.phase /\ task'.todo = task.todo /\ task'.len = task.len
      BY TaskType DEF RollBack, TaskFields
<1> QED BY <1>1, TaskType DEF TaskMoves, Opened

OpenedFiles(cut) ==
    task' = [task EXCEPT !.pc = "write", !.todo = DaysOf(task.rows),
               !.len = [x \in DOMAIN @ \cup Files(task.phase) |->
                          IF x[1] = task.phase THEN Len(cut[x[2]].cache) ELSE @[x]]]

LEMMA Opens ==
    ASSUME Inv, task.pc = "open", NEW cut, OpenedFiles(cut), UNCHANGED <<hot, runner, clean, scene>>
    PROVE  /\ TaskMoves /\ task'.pc = "write" /\ task'.phase = task.phase /\ task'.todo = DaysOf(task.rows)
           /\ task'.rows = task.rows
           /\ \A d \in Days : /\ Opened(task.phase, d)' <=> d \in DaysOf(task.rows)
                              /\ Opened(task.phase, d)' => task'.len[<<task.phase, d>>] = Len(cut[d].cache)
                              /\ task.phase # 1 => (Opened(1, d)' <=> Opened(1, d))
                              /\ task.phase # 1 /\ Opened(1, d) => task'.len[<<1, d>>] = task.len[<<1, d>>]
                              /\ task.phase # 2 => (Opened(2, d)' <=> Opened(2, d))
           /\ \A x \in DOMAIN task'.len : x[1] \in {1, 2} /\ x[2] \in DaysOf(task.rows) /\ x = <<x[1], x[2]>>
<1> DEFINE L == [x \in DOMAIN task.len \cup Files(task.phase) |->
                   IF x[1] = task.phase THEN Len(cut[x[2]].cache) ELSE task.len[x]]
<1>1. /\ DOMAIN task' = TaskFields /\ task'.pc = "write" /\ task'.owner = task.owner /\ task'.rows = task.rows
      /\ task'.phase = task.phase /\ task'.todo = DaysOf(task.rows) /\ task'.len = L
      BY TaskType DEF OpenedFiles, TaskFields
<1>2. task.rows # {} /\ Lens_OK /\ \A d \in Days : ~Opened(task.phase, d) BY DEF Inv, Task_OK, Lens_OK
<1>3. TaskMoves BY <1>1, <1>2, TaskType DEF TaskMoves
<1>4. \A ph, d : <<ph, d>> \in Files(task.phase) <=> ph = task.phase /\ d \in DaysOf(task.rows) BY DEF Files
<1>5. \A x \in Files(task.phase) : x[1] = task.phase /\ x[2] \in DaysOf(task.rows) /\ x = <<x[1], x[2]>> BY DEF Files
<1>6. \A x \in DOMAIN task.len : x[1] \in {1, 2} /\ x[2] \in DaysOf(task.rows) /\ x = <<x[1], x[2]>>
      BY <1>2 DEF Lens_OK
<1>7. \A x \in DOMAIN L : L[x] = IF x[1] = task.phase THEN Len(cut[x[2]].cache) ELSE task.len[x] OBVIOUS
<1>8. DOMAIN L = DOMAIN task.len \cup Files(task.phase) OBVIOUS
<1> HIDE DEF L
<1>9. ASSUME NEW d \in Days
      PROVE  /\ Opened(task.phase, d)' <=> d \in DaysOf(task.rows)
             /\ Opened(task.phase, d)' => task'.len[<<task.phase, d>>] = Len(cut[d].cache)
  <2>1. <<task.phase, d>> \in DOMAIN L <=> d \in DaysOf(task.rows) BY <1>2, <1>4, <1>8 DEF Opened
  <2>2. <<task.phase, d>> \in DOMAIN L => L[<<task.phase, d>>] = Len(cut[d].cache) BY <1>7
  <2> QED BY <1>1, <2>1, <2>2 DEF Opened
<1>10. ASSUME NEW d \in Days, NEW ph \in {1, 2}, ph # task.phase
       PROVE  /\ Opened(ph, d)' <=> Opened(ph, d)
              /\ Opened(ph, d) => task'.len[<<ph, d>>] = task.len[<<ph, d>>]
  <2>1. <<ph, d>> \in DOMAIN L <=> <<ph, d>> \in DOMAIN task.len BY <1>4, <1>8, <1>10
  <2>2. <<ph, d>> \in DOMAIN L => L[<<ph, d>>] = task.len[<<ph, d>>] BY <1>7, <1>10
  <2> QED BY <1>1, <2>1, <2>2 DEF Opened
<1>11. \A x \in DOMAIN task'.len : x[1] \in {1, 2} /\ x[2] \in DaysOf(task.rows) /\ x = <<x[1], x[2]>>
       BY <1>1, <1>5, <1>6, <1>8, TaskType
<1> QED BY <1>1, <1>3, <1>9, <1>10, <1>11


---------------------------------------------------------------------------
(* A file grows: lines are appended, or what it holds reaches the disk. *)
Grows(f, g) ==
    /\ Len(f.cache) <= Len(g.cache) /\ (f.linked => g.linked) /\ g.disk \in {f.disk, f.cache}
    /\ \A i \in 1 .. Len(f.cache) : g.cache[i] = f.cache[i]

LEMMA GrowsSame == ASSUME NEW T, NEW f, FileOK(f, T) PROVE Grows(f, f)
<1>1. Len(f.cache) \in Nat BY DEF FileOK
<1> QED BY <1>1 DEF Grows

LEMMA GrowsSteps ==
    ASSUME NEW T, NEW f, FileOK(f, T), NEW g
    PROVE  /\ (\E L : Extended(f, g, L)) => Grows(f, g)
           /\ g.cache = f.cache /\ g.disk \in {f.disk, f.cache} /\ (f.linked => g.linked) => Grows(f, g)
<1>1. Len(f.cache) \in Nat BY DEF FileOK
<1> QED BY <1>1 DEF Grows, Extended

LEMMA GrowsLen ==
    ASSUME NEW T, NEW f, FileOK(f, T), NEW g, FileOK(g, T), Grows(f, g), NEW n, LenOK(f, n)
    PROVE  LenOK(g, n) /\ SubSeq(g.cache, 1, n) = SubSeq(f.cache, 1, n)
<1> DEFINE s == f.cache
           t == g.cache
<1>1. s \in Seq(T \cup {Half}) /\ t \in Seq(T \cup {Half}) /\ Len(s) \in Nat /\ Len(t) \in Nat BY DEF FileOK
<1>2. Len(s) <= Len(t) /\ \A i \in 1 .. Len(s) : t[i] = s[i] BY DEF Grows
<1>3. n \in 0 .. Len(s) /\ \A i \in 1 .. n : s[i] # Half BY DEF LenOK
<1>4. n \in 0 .. Len(t) /\ \A i \in 1 .. n : t[i] = s[i] BY <1>1, <1>2, <1>3
<1>5. LenOK(g, n) BY <1>3, <1>4 DEF LenOK
<1>6. SubSeq(s, 1, n) \in Seq(T \cup {Half}) /\ Len(SubSeq(s, 1, n)) = n /\ \A i \in 1 .. n : SubSeq(s, 1, n)[i] = s[i]
      BY <1>1, <1>3
<1>7. SubSeq(t, 1, n) \in Seq(T \cup {Half}) /\ Len(SubSeq(t, 1, n)) = n /\ \A i \in 1 .. n : SubSeq(t, 1, n)[i] = t[i]
      BY <1>1, <1>4
<1>8. \A i \in 1 .. n : SubSeq(t, 1, n)[i] = SubSeq(s, 1, n)[i] BY <1>4, <1>6, <1>7
<1> QED BY <1>5, <1>6, <1>7, <1>8

LEMMA GrowsKeeps ==
    ASSUME NEW T, NEW f, FileOK(f, T), NEW g, FileOK(g, T), Grows(f, g)
    PROVE  /\ \A r : KeptIn(f, r) => KeptIn(g, r)
           /\ \A r \in ToSet(f.cache) : r \in ToSet(g.cache)
           /\ \A n \in 0 .. Len(f.cache) : \A r : FirmIn(f, n, r) => FirmIn(g, n, r)
<1> DEFINE s == f.cache
           t == g.cache
<1>1. /\ s \in Seq(T \cup {Half}) /\ t \in Seq(T \cup {Half}) /\ Len(s) \in Nat /\ Len(t) \in Nat
      /\ DOMAIN s = 1 .. Len(s) /\ DOMAIN t = 1 .. Len(t)
      BY DEF FileOK
<1>2. Len(s) <= Len(t) /\ \A i \in 1 .. Len(s) : t[i] = s[i] BY DEF Grows
<1>3. ASSUME NEW r \in ToSet(s) PROVE r \in ToSet(t)
  <2>1. PICK i \in 1 .. Len(s) : s[i] = r BY <1>1 DEF ToSet
  <2>2. i \in 1 .. Len(t) /\ t[i] = r BY <1>1, <1>2, <2>1
  <2> QED BY <1>1, <2>2 DEF ToSet
<1>4. ASSUME NEW r, KeptIn(f, r) PROVE KeptIn(g, r) BY <1>3, <1>4 DEF KeptIn, Grows
<1>5. ASSUME NEW n \in 0 .. Len(s), NEW r, FirmIn(f, n, r) PROVE FirmIn(g, n, r)
  <2>1. KeptIn(g, r) BY <1>4, <1>5 DEF FirmIn
  <2>2. PICK i \in 1 .. n : s[i] = r BY <1>5 DEF FirmIn
  <2>3. i \in 1 .. Len(s) BY <1>1
  <2>4. t[i] = r BY <1>2, <2>2, <2>3
  <2> QED BY <2>1, <2>4 DEF FirmIn
<1> QED BY <1>3, <1>4, <1>5

(* The task appends to data files, or syncs them. *)
LEMMA DataGrows ==
    ASSUME Inv, task.phase = 1, task.pc \in {"write", "sync", "dirs"}, TaskMoves, task'.len = task.len, marks' = marks,
           DOMAIN data' = Days, \A d \in Days : FileOK(data'[d], Rows) /\ Grows(data[d], data'[d]),
           \A d \in Days : d \notin DaysOf(task.rows) => data'[d] = data[d], Progress',
           \/ task'.phase = 1 /\ task'.pc \in {"write", "sync", "dirs", "undomarks"}
           \/ task'.phase = 2 /\ task'.pc = "open",
           task'.pc = "write" => \A d \in task'.todo : Len(data'[d].cache) = task.len[<<1, d>>]
    PROVE  Inv'
<1>1. \A ph, d : Opened(ph, d)' <=> Opened(ph, d) BY DEF Opened
<1>2. task'.rows = task.rows BY DEF TaskMoves
<1>3. \A d \in Days : FileOK(data[d], Rows) /\ FileOK(marks[d], SUBSET Rows) BY TaskType
<1>4. Lens_OK BY DEF Inv
<1>5. Files_OK' BY <1>3, TaskType DEF Files_OK
<1>6. \A d \in Days : Opened(1, d) => /\ task.len[<<1, d>>] \in 0 .. Len(data[d].cache)
                                      /\ LenOK(data[d], task.len[<<1, d>>])
      BY <1>4 DEF Lens_OK, LenOK
<1>7. \A d \in Days : Opened(1, d) => /\ LenOK(data'[d], task.len[<<1, d>>])
                                      /\ SubSeq(data'[d].cache, 1, task.len[<<1, d>>])
                                         = SubSeq(data[d].cache, 1, task.len[<<1, d>>])
      BY <1>3, <1>6, GrowsLen
<1>8. Lens_OK'
  <2>1. task'.phase = 1 => Group' = data' BY DEF Group
  <2> QED BY <1>1, <1>2, <1>4, <1>7, <2>1 DEF Lens_OK
<1>9. \A d \in Days : ~Opened(2, d)' BY <1>1, <1>4 DEF Lens_OK
<1>10. \A r \in Rows : Firm(r) => Firm(r)'
  <2> SUFFICES ASSUME NEW r \in Rows, Firm(r) PROVE Firm(r)' OBVIOUS
  <2> DEFINE d == Day[r]
  <2>1. d \in Days BY DayFacts
  <2>2. KeptIn(data[d], r) BY DEF Firm, Kept
  <2>3. KeptIn(data'[d], r) BY <1>3, <2>1, <2>2, GrowsKeeps
  <2>4. Opened(1, d) => FirmIn(data'[d], task.len[<<1, d>>], r) BY <1>3, <1>6, <2>1, GrowsKeeps DEF Firm
  <2> QED BY <1>1, <2>3, <2>4 DEF Firm, Kept
<1>11. \A d \in Days : SameLines(data'[d], Opened(1, d)', task'.len[<<1, d>>], clean.files.data[d])
  <2> SUFFICES ASSUME NEW d \in Days PROVE SameLines(data'[d], Opened(1, d), task.len[<<1, d>>], clean.files.data[d])
      BY <1>1
  <2>1. SameLines(data[d], Opened(1, d), task.len[<<1, d>>], clean.files.data[d]) BY DEF Inv, Undoable
  <2>2. CASE Opened(1, d) BY <1>7, <2>1, <2>2 DEF SameLines
  <2>3. CASE ~Opened(1, d)
    <3>1. d \notin DaysOf(task.rows) BY <1>4, <2>3 DEF Lens_OK
    <3>2. data'[d] = data[d] BY <3>1
    <3> QED BY <2>1, <2>3, <3>2 DEF SameLines
  <2> QED BY <2>2, <2>3
<1> QED BY <1>5, <1>8, <1>9, <1>10, <1>11, DataPhase

(* While the data stays: a marker line that was there stays at its place,  *)
(* and a new one is the task's own, above the length noted.                *)
LEMMA MarkersOn ==
    ASSUME Inv, task.phase = 2, task.pc \notin {"none", "undodata"}, SameData, task'.rows = task.rows, Files_OK',
           \A d \in Days :
              /\ \A i \in 1 .. Len(marks'[d].cache) :
                    \/ i <= Len(marks[d].cache) /\ marks'[d].cache[i] = marks[d].cache[i]
                    \/ Own(d)' /\ i > task'.len[<<2, d>>] /\ marks'[d].cache[i] \in {task.rows, Half}
              /\ marks'[d].disk \in {marks[d].disk, marks[d].cache, marks'[d].cache}
              /\ Own(d) => Own(d)' /\ task'.len[<<2, d>>] = task.len[<<2, d>>]
    PROVE  Markers'
<1>1. AllKept(task.rows) /\ task.rows \in SUBSET Rows BY DEF Inv, Progress, Task_OK
<1>2. ASSUME NEW d \in Days, NEW i \in 1 .. Len(marks'[d].cache), NEW x, x = marks'[d].cache[i], x # Half
      PROVE  AllFirm(x)' \/ (Own(d)' /\ i > task'.len[<<2, d>>] /\ AllKept(x)')
  <2> USE <1>2
  <2>2. ASSUME i <= Len(marks[d].cache), x = marks[d].cache[i]
        PROVE  AllFirm(x)' \/ (Own(d)' /\ i > task'.len[<<2, d>>] /\ AllKept(x)')
    <3>0. FileOK(marks'[d], SUBSET Rows) /\ FileOK(marks[d], SUBSET Rows) BY DEF Inv, Files_OK
    <3>1. i \in 1 .. Len(marks[d].cache) BY <2>2, <3>0 DEF FileOK
    <3>2. x \in SUBSET Rows /\ (AllFirm(x) \/ (Own(d) /\ i > task.len[<<2, d>>] /\ AllKept(x)))
          BY <2>2, <3>1, MarkLines
    <3> QED BY <3>2, MarkLines
  <2>3. ASSUME Own(d)', i > task'.len[<<2, d>>], x = task.rows
        PROVE  Own(d)' /\ i > task'.len[<<2, d>>] /\ AllKept(x)'
    <3>1. AllKept(x) /\ x \in SUBSET Rows BY <1>1, <2>3
    <3> QED BY <2>3, <3>1, MarkLines
  <2>4. \/ i <= Len(marks[d].cache) /\ x = marks[d].cache[i]
        \/ Own(d)' /\ i > task'.len[<<2, d>>] /\ x = task.rows
        OBVIOUS
  <2> QED BY <2>2, <2>3, <2>4
<1>3. ASSUME NEW d \in Days, NEW i \in 1 .. Len(marks'[d].disk), NEW x, x = marks'[d].disk[i], x # Half
      PROVE  AllFirm(x)' \/ (Own(d)' /\ AllKept(x)')
  <2> USE <1>3
  <2>1. CASE marks'[d].disk = marks'[d].cache
    <3>1. i \in 1 .. Len(marks'[d].cache) /\ x = marks'[d].cache[i] BY <2>1
    <3> QED BY <1>2, <3>1
  <2>2. CASE marks'[d].disk = marks[d].disk
    <3>1. x \in SUBSET Rows /\ (AllFirm(x) \/ (Own(d) /\ AllKept(x))) BY <2>2, MarkLines
    <3> QED BY <3>1, MarkLines
  <2>3. CASE marks'[d].disk = marks[d].cache
    <3>1. x \in SUBSET Rows /\ (AllFirm(x) \/ (Own(d) /\ AllKept(x))) BY <2>3, MarkLines
    <3> QED BY <3>1, MarkLines
  <2> QED BY <2>1, <2>2, <2>3
<1> QED BY <1>2, <1>3 DEF Markers

(* The task appends to sidecars, or syncs them. *)
LEMMA MarksGrow ==
    ASSUME Inv, task.phase = 2, task.pc \in {"write", "sync", "dirs"}, TaskMoves, task'.len = task.len, data' = data,
           DOMAIN marks' = Days, \A d \in Days : FileOK(marks'[d], SUBSET Rows) /\ Grows(marks[d], marks'[d]),
           \A d \in Days : d \notin DaysOf(task.rows) => marks'[d] = marks[d],
           \A d \in Days : \A i \in 1 .. Len(marks'[d].cache) :
              i > Len(marks[d].cache) => marks'[d].cache[i] \in {task.rows, Half},
           task'.phase = 2, task'.pc \in {"write", "sync", "dirs", "undomarks"},
           task'.pc = "write" => \A d \in task'.todo : Len(marks'[d].cache) = task.len[<<2, d>>]
    PROVE  Inv'
<1>1. \A ph, d : Opened(ph, d)' <=> Opened(ph, d) BY DEF Opened
<1>2. task'.rows = task.rows BY DEF TaskMoves
<1>3. \A d \in Days : FileOK(data[d], Rows) /\ FileOK(marks[d], SUBSET Rows) BY TaskType
<1>4. Lens_OK BY DEF Inv
<1>5. Files_OK' BY <1>3, TaskType DEF Files_OK
<1>6. \A d \in Days : Opened(2, d) => /\ task.len[<<2, d>>] \in 0 .. Len(marks[d].cache)
                                      /\ LenOK(marks[d], task.len[<<2, d>>])
      BY <1>4 DEF Lens_OK, LenOK
<1>7. \A d \in Days : Opened(2, d) => /\ LenOK(marks'[d], task.len[<<2, d>>])
                                      /\ SubSeq(marks'[d].cache, 1, task.len[<<2, d>>])
                                         = SubSeq(marks[d].cache, 1, task.len[<<2, d>>])
  <2> SUFFICES ASSUME NEW d \in Days, Opened(2, d)
               PROVE  /\ LenOK(marks'[d], task.len[<<2, d>>])
                      /\ SubSeq(marks'[d].cache, 1, task.len[<<2, d>>]) = SubSeq(marks[d].cache, 1, task.len[<<2, d>>])
      OBVIOUS
  <2>1. PICK T, f, g, n : T = SUBSET Rows /\ f = marks[d] /\ g = marks'[d] /\ n = task.len[<<2, d>>] OBVIOUS
  <2>2. FileOK(f, T) /\ FileOK(g, T) /\ Grows(f, g) /\ LenOK(f, n) BY <1>3, <1>6, <2>1
  <2>3. LenOK(g, n) /\ SubSeq(g.cache, 1, n) = SubSeq(f.cache, 1, n) BY <2>2, GrowsLen
  <2> QED BY <2>1, <2>3
<1>8. Lens_OK'
  <2>1. Group' = marks' BY DEF Group
  <2> QED BY <1>1, <1>2, <1>4, <1>7, <2>1 DEF Lens_OK
<1>9. SameData BY <1>1 DEF SameData
<1>10. \A d \in Days : (Own(d) <=> Opened(2, d)) /\ (Own(d)' <=> Opened(2, d)) BY <1>1 DEF Own
<1>11. Markers'
  <2>1. ASSUME NEW d \in Days, NEW i \in 1 .. Len(marks'[d].cache)
        PROVE  \/ i <= Len(marks[d].cache) /\ marks'[d].cache[i] = marks[d].cache[i]
               \/ Own(d)' /\ i > task'.len[<<2, d>>] /\ marks'[d].cache[i] \in {task.rows, Half}
    <3>1. Len(marks[d].cache) \in Nat /\ Len(marks'[d].cache) \in Nat BY <1>3 DEF FileOK
    <3>2. CASE i <= Len(marks[d].cache) BY <3>1, <3>2 DEF Grows
    <3>3. CASE i > Len(marks[d].cache)
      <4>1. d \in DaysOf(task.rows) BY <3>1, <3>3
      <4>2. Opened(2, d) BY <1>4, <4>1 DEF Lens_OK
      <4>3. i > task.len[<<2, d>>] BY <1>6, <3>1, <3>3, <4>2
      <4> QED BY <1>10, <3>3, <4>2, <4>3
    <3> QED BY <3>1, <3>2, <3>3
  <2>2. \A d \in Days : marks'[d].disk \in {marks[d].disk, marks[d].cache, marks'[d].cache} BY DEF Grows
  <2> QED BY <1>2, <1>5, <1>9, <1>10, <2>1, <2>2, MarkersOn
<1>12. \A d \in Days : SameLines(marks'[d], Own(d)', task'.len[<<2, d>>], clean.files.marks[d])
  <2> TAKE d \in Days
  <2>1. SameLines(marks[d], Own(d), task.len[<<2, d>>], clean.files.marks[d]) BY DEF Inv, Undoable
  <2>2. CASE Opened(2, d) BY <1>7, <1>10, <2>1, <2>2 DEF SameLines
  <2>3. CASE ~Opened(2, d)
    <3>1. d \notin DaysOf(task.rows) BY <1>4, <2>3 DEF Lens_OK
    <3>2. marks'[d] = marks[d] BY <3>1
    <3> QED BY <1>10, <2>1, <2>3, <3>2 DEF SameLines
  <2> QED BY <2>2, <2>3
<1> QED BY <1>5, <1>8, <1>9, <1>11, <1>12, MarkPhase

LEMMA TodoDay ==
    ASSUME Inv, task.pc \in {"write", "sync"}
    PROVE  Min(task.todo) \in task.todo /\ Min(task.todo) \in DaysOf(task.rows) /\ Min(task.todo) \in Days
<1>1. task.todo # {} /\ task.todo \subseteq Nat BY TaskType, DayFacts DEF Inv, Task_OK
<1>2. Min(task.todo) \in task.todo BY <1>1, MinIn
<1> QED BY <1>2, TaskType

LEMMA OneFile ==
    ASSUME NEW T, NEW F, DOMAIN F = Days, \A e \in Days : FileOK(F[e], T),
           NEW d \in Days, NEW g, FileOK(g, T), Grows(F[d], g), NEW G, G = [F EXCEPT ![d] = g]
    PROVE  /\ DOMAIN G = Days /\ G[d] = g /\ \A e \in Days : e # d => G[e] = F[e]
           /\ \A e \in Days : FileOK(G[e], T) /\ Grows(F[e], G[e])
<1>1. DOMAIN G = Days /\ G[d] = g /\ \A e \in Days : e # d => G[e] = F[e] OBVIOUS
<1> QED BY <1>1, GrowsSame

(* The file to write ends where the task noted it. *)
LEMMA WritesAtEnd ==
    ASSUME Inv, task.pc = "write", NEW d \in task.todo
    PROVE  /\ Len(Group[d].cache) = task.len[<<task.phase, d>>]
           /\ LenOK(Group[d], Len(Group[d].cache))
<1>1. d \in Days /\ Lens_OK /\ d \in DaysOf(task.rows) /\ task.phase \in {1, 2} BY TaskType DEF Inv
<1>2. Len(Group[d].cache) = task.len[<<task.phase, d>>] /\ Opened(task.phase, d) BY <1>1 DEF Lens_OK
<1>3. CASE task.phase = 1 BY <1>1, <1>2, <1>3 DEF Lens_OK, Group
<1>4. CASE task.phase = 2 BY <1>1, <1>2, <1>4 DEF Lens_OK, Group
<1> QED BY <1>1, <1>2, <1>3, <1>4

(* The task after one file more is written. *)
LEMMA WroteOne ==
    ASSUME Inv, task.pc = "write", UNCHANGED <<hot, runner, clean, scene>>, NEW d \in task.todo, NEW left, left = task.todo \ {d},
           task' = [task EXCEPT !.todo = IF left = {} THEN DaysOf(task.rows) ELSE left,
                                !.pc = IF left = {} THEN "sync" ELSE "write"]
    PROVE  /\ TaskMoves /\ task'.len = task.len /\ task'.phase = task.phase /\ task'.rows = task.rows
           /\ task'.todo = (IF left = {} THEN DaysOf(task.rows) ELSE left)
           /\ task'.pc = (IF left = {} THEN "sync" ELSE "write")
<1>1. /\ DOMAIN task' = TaskFields /\ task'.owner = task.owner /\ task'.rows = task.rows /\ task'.phase = task.phase
      /\ task'.len = task.len /\ task'.todo = (IF left = {} THEN DaysOf(task.rows) ELSE left)
      /\ task'.pc = (IF left = {} THEN "sync" ELSE "write")
      BY TaskType DEF TaskFields
<1>2. DaysOf(task.rows) # {} BY TaskType
<1> QED BY <1>1, <1>2, TaskType DEF TaskMoves

LEMMA WriteData == ASSUME Inv, write_file, task.phase = 1 PROVE Inv'
<1> DEFINE d == Min(task.todo)
           left == task.todo \ {d}
           lines == OnDay(task.rows, d)
<1>1. /\ task.pc = "write" /\ UNCHANGED <<hot, runner, clean, scene>> /\ marks' = marks
      /\ \/ /\ data' = [data EXCEPT ![d] = Written(@, lines)]
            /\ task' = [task EXCEPT !.todo = IF left = {} THEN DaysOf(task.rows) ELSE left,
                                    !.pc = IF left = {} THEN "sync" ELSE "write"]
         \/ /\ RollBack
            /\ \E f \in PartlyWritten(data[d], lines) : data' = [data EXCEPT ![d] = f]
      BY DEF write_file, Keep, Group, LinesFor
<1>2. d \in task.todo /\ d \in DaysOf(task.rows) /\ d \in Days BY <1>1, TodoDay
<1>3. task.rows \in SUBSET Rows BY TaskType
<1>4. lines \in Seq(Rows) /\ ToSet(lines) = OfDay(task.rows, d) BY <1>3, DayLines
<1>5. DOMAIN data = Days /\ \A e \in Days : FileOK(data[e], Rows) BY TaskType
<1>6. LenOK(data[d], Len(data[d].cache)) /\ Half \notin Rows BY <1>1, <1>2, WritesAtEnd, NoHalf DEF Group
<1> HIDE DEF lines, d
<1>7. CASE /\ data' = [data EXCEPT ![d] = Written(@, lines)]
           /\ task' = [task EXCEPT !.todo = IF left = {} THEN DaysOf(task.rows) ELSE left,
                                   !.pc = IF left = {} THEN "sync" ELSE "write"]
  <2>1. PICK g : g = Written(data[d], lines) OBVIOUS
  <2>2. /\ FileOK(g, Rows) /\ Extended(data[d], g, ToSet(lines)) /\ \A x \in ToSet(lines) : x \in ToSet(g.cache)
        BY <1>2, <1>4, <1>5, <1>6, <2>1, WriteFile
  <2>3. Grows(data[d], g) BY <1>2, <1>5, <2>2, GrowsSteps
  <2>4. data' = [data EXCEPT ![d] = g] BY <1>2, <1>5, <1>7, <2>1
  <2>5. /\ DOMAIN data' = Days /\ data'[d] = g /\ \A e \in Days : e # d => data'[e] = data[e]
        /\ \A e \in Days : FileOK(data'[e], Rows) /\ Grows(data[e], data'[e])
        BY <1>2, <1>5, <2>2, <2>3, <2>4, OneFile
  <2>6. /\ TaskMoves /\ task'.len = task.len /\ task'.phase = 1 /\ task'.rows = task.rows
        /\ task'.todo = (IF left = {} THEN DaysOf(task.rows) ELSE left)
        /\ task'.pc = (IF left = {} THEN "sync" ELSE "write")
        BY <1>1, <1>2, <1>7, WroteOne
  <2>7. ASSUME NEW r \in task.rows, Day[r] \notin left PROVE InCache(r)'
    <3>1. Day[r] \in Days /\ r \in Rows BY <1>3, DayFacts
    <3>2. CASE Day[r] = d
      <4>1. r \in ToSet(lines) BY <1>4, <3>2 DEF OfDay
      <4> QED BY <2>2, <2>5, <3>2, <4>1 DEF InCache
    <3>3. CASE Day[r] # d
      <4>1. InCache(r) BY <1>1, <2>7, <3>3 DEF Inv, Progress
      <4> QED BY <2>5, <3>1, <3>3, <4>1 DEF InCache
    <3> QED BY <3>2, <3>3
  <2>8. Progress'
    <3>1. \A r \in task.rows : Day[r] \in DaysOf(task.rows) BY <1>3, DayFacts
    <3>2. CASE left = {} BY <2>6, <2>7, <3>1, <3>2 DEF Progress
    <3>3. CASE left # {} BY <2>6, <2>7, <3>3 DEF Progress
    <3> QED BY <3>2, <3>3
  <2>9. task'.pc = "write" => \A e \in task'.todo : Len(data'[e].cache) = task.len[<<1, e>>]
    <3> SUFFICES ASSUME task'.pc = "write", NEW e \in task'.todo PROVE Len(data'[e].cache) = task.len[<<1, e>>] OBVIOUS
    <3>1. e \in task.todo /\ e # d BY <2>6
    <3>2. e \in Days BY <3>1, TaskType
    <3>3. Len(data[e].cache) = task.len[<<1, e>>] BY <1>1, <3>1, WritesAtEnd DEF Group
    <3> QED BY <2>5, <3>1, <3>2, <3>3
  <2>10. \A e \in Days : e \notin DaysOf(task.rows) => data'[e] = data[e] BY <1>2, <2>5
  <2>11. task'.pc \in {"write", "sync"} BY <2>6
  <2> QED BY <1>1, <2>5, <2>6, <2>8, <2>9, <2>10, <2>11, DataGrows
<1>8. CASE RollBack /\ \E f \in PartlyWritten(data[d], lines) : data' = [data EXCEPT ![d] = f]
  <2>1. PICK g \in PartlyWritten(data[d], lines) : data' = [data EXCEPT ![d] = g] BY <1>8
  <2>2. FileOK(g, Rows) /\ Extended(data[d], g, ToSet(lines)) BY <1>2, <1>4, <1>5, <1>6, TearFile
  <2>3. Grows(data[d], g) BY <1>2, <1>5, <2>2, GrowsSteps
  <2>4. /\ DOMAIN data' = Days /\ data'[d] = g /\ \A e \in Days : e # d => data'[e] = data[e]
        /\ \A e \in Days : FileOK(data'[e], Rows) /\ Grows(data[e], data'[e])
        BY <1>2, <1>5, <2>1, <2>2, <2>3, OneFile
  <2>5. TaskMoves /\ task'.pc = "undomarks" /\ task'.phase = 1 /\ task'.len = task.len BY <1>1, <1>8, RollsBack
  <2>6. Progress' BY <2>5 DEF Progress
  <2>7. \A e \in Days : e \notin DaysOf(task.rows) => data'[e] = data[e] BY <1>2, <2>4
  <2> QED BY <1>1, <2>4, <2>5, <2>6, <2>7, DataGrows
<1> QED BY <1>1, <1>7, <1>8

LEMMA WriteMarks == ASSUME Inv, write_file, task.phase = 2 PROVE Inv'
<1> DEFINE d == Min(task.todo)
           left == task.todo \ {d}
           lines == <<task.rows>>
           T == SUBSET Rows
<1>1. /\ task.pc = "write" /\ UNCHANGED <<hot, runner, clean, scene>> /\ data' = data
      /\ \/ /\ marks' = [marks EXCEPT ![d] = Written(@, lines)]
            /\ task' = [task EXCEPT !.todo = IF left = {} THEN DaysOf(task.rows) ELSE left,
                                    !.pc = IF left = {} THEN "sync" ELSE "write"]
         \/ /\ RollBack
            /\ \E f \in PartlyWritten(marks[d], lines) : marks' = [marks EXCEPT ![d] = f]
      BY DEF write_file, Keep, Group, LinesFor, Id
<1>2. d \in task.todo /\ d \in DaysOf(task.rows) /\ d \in Days BY <1>1, TodoDay
<1>3. task.rows \in T BY TaskType
<1>4. lines \in Seq(T) /\ ToSet(lines) = {task.rows}
  <2>1. lines \in Seq(T) /\ DOMAIN lines = 1 .. 1 /\ lines[1] = task.rows
    <3> HIDE DEF T
    <3> QED BY <1>3
  <2> QED BY <2>1 DEF ToSet
<1>5. DOMAIN marks = Days /\ \A e \in Days : FileOK(marks[e], T) BY TaskType
<1>6. LenOK(marks[d], Len(marks[d].cache)) /\ Half \notin T
  <2>1. Group = marks BY DEF Group
  <2> HIDE DEF d
  <2>2. LenOK(Group[d], Len(Group[d].cache)) BY <1>1, <1>2, WritesAtEnd
  <2> QED BY <2>1, <2>2, NoHalf
<1> HIDE DEF lines, d, T
<1>7. ASSUME NEW g, FileOK(g, T), Extended(marks[d], g, ToSet(lines)), marks' = [marks EXCEPT ![d] = g]
      PROVE  /\ DOMAIN marks' = Days /\ marks'[d] = g /\ \A e \in Days : e # d => marks'[e] = marks[e]
             /\ \A e \in Days : FileOK(marks'[e], T) /\ Grows(marks[e], marks'[e])
             /\ \A e \in Days : e \notin DaysOf(task.rows) => marks'[e] = marks[e]
             /\ \A e \in Days : \A i \in 1 .. Len(marks'[e].cache) :
                   i > Len(marks[e].cache) => marks'[e].cache[i] \in {task.rows, Half}
  <2>1. Grows(marks[d], g) BY <1>2, <1>5, <1>7, GrowsSteps
  <2>2. /\ DOMAIN marks' = Days /\ marks'[d] = g /\ \A e \in Days : e # d => marks'[e] = marks[e]
        /\ \A e \in Days : FileOK(marks'[e], T) /\ Grows(marks[e], marks'[e])
        BY <1>2, <1>5, <1>7, <2>1, OneFile
  <2>3. ASSUME NEW e \in Days, NEW i \in 1 .. Len(marks'[e].cache), i > Len(marks[e].cache)
        PROVE  marks'[e].cache[i] \in {task.rows, Half}
    <3>1. Len(marks[e].cache) \in Nat BY <1>5 DEF FileOK
    <3>2. CASE e = d BY <1>4, <1>7, <2>2, <2>3, <3>2 DEF Extended
    <3>3. CASE e # d BY <2>2, <2>3, <3>1, <3>3
    <3> QED BY <3>2, <3>3
  <2> QED BY <1>2, <2>2, <2>3
<1>8. CASE /\ marks' = [marks EXCEPT ![d] = Written(@, lines)]
           /\ task' = [task EXCEPT !.todo = IF left = {} THEN DaysOf(task.rows) ELSE left,
                                   !.pc = IF left = {} THEN "sync" ELSE "write"]
  <2>1. PICK g : g = Written(marks[d], lines) OBVIOUS
  <2>2. FileOK(g, T) /\ Extended(marks[d], g, ToSet(lines)) BY <1>2, <1>4, <1>5, <1>6, <2>1, WriteFile
  <2>3. marks' = [marks EXCEPT ![d] = g] BY <1>2, <1>5, <1>8, <2>1
  <2>4. /\ TaskMoves /\ task'.len = task.len /\ task'.phase = 2 /\ task'.rows = task.rows
        /\ task'.todo = (IF left = {} THEN DaysOf(task.rows) ELSE left)
        /\ task'.pc = (IF left = {} THEN "sync" ELSE "write")
        BY <1>1, <1>2, <1>8, WroteOne
  <2>5. task'.pc = "write" => \A e \in task'.todo : Len(marks'[e].cache) = task.len[<<2, e>>]
    <3> SUFFICES ASSUME task'.pc = "write", NEW e \in task'.todo PROVE Len(marks'[e].cache) = task.len[<<2, e>>] OBVIOUS
    <3>1. e \in task.todo /\ e # d BY <2>4
    <3>2. e \in Days BY <3>1, TaskType
    <3>3. Len(marks[e].cache) = task.len[<<2, e>>] BY <1>1, <3>1, WritesAtEnd DEF Group
    <3> QED BY <1>7, <2>2, <2>3, <3>1, <3>2, <3>3
  <2>6. task'.pc \in {"write", "sync"} BY <2>4
  <2> QED BY <1>1, <1>7, <2>2, <2>3, <2>4, <2>5, <2>6, MarksGrow DEF T
<1>9. CASE RollBack /\ \E f \in PartlyWritten(marks[d], lines) : marks' = [marks EXCEPT ![d] = f]
  <2>1. PICK g \in PartlyWritten(marks[d], lines) : marks' = [marks EXCEPT ![d] = g] BY <1>9
  <2>2. FileOK(g, T) /\ Extended(marks[d], g, ToSet(lines)) BY <1>2, <1>4, <1>5, <1>6, TearFile
  <2>3. TaskMoves /\ task'.pc = "undomarks" /\ task'.phase = 2 /\ task'.len = task.len BY <1>1, <1>9, RollsBack
  <2> QED BY <1>1, <1>7, <2>1, <2>2, <2>3, MarksGrow DEF T
<1> QED BY <1>1, <1>8, <1>9

LEMMA WriteStep == ASSUME Inv, write_file PROVE Inv'
<1>1. task.phase \in {1, 2} BY TaskType
<1> QED BY <1>1, WriteData, WriteMarks

(* The task after one file more is synced. *)
LEMMA SyncedOne ==
    ASSUME Inv, task.pc = "sync", UNCHANGED <<hot, runner, clean, scene>>, NEW d \in task.todo, NEW left, left = task.todo \ {d},
           task' = [task EXCEPT !.todo = left, !.pc = IF left = {} THEN "dirs" ELSE "sync"]
    PROVE  /\ TaskMoves /\ task'.len = task.len /\ task'.phase = task.phase /\ task'.rows = task.rows
           /\ task'.todo = left /\ task'.pc = (IF left = {} THEN "dirs" ELSE "sync")
<1>1. /\ DOMAIN task' = TaskFields /\ task'.owner = task.owner /\ task'.rows = task.rows /\ task'.phase = task.phase
      /\ task'.len = task.len /\ task'.todo = left /\ task'.pc = (IF left = {} THEN "dirs" ELSE "sync")
      BY TaskType DEF TaskFields
<1> QED BY <1>1, TaskType DEF TaskMoves

LEMMA SyncStep == ASSUME Inv, sync_file PROVE Inv'
<1> DEFINE d == Min(task.todo)
           left == task.todo \ {d}
           Done == task' = [task EXCEPT !.todo = left, !.pc = IF left = {} THEN "dirs" ELSE "sync"]
<1>1. /\ task.pc = "sync" /\ UNCHANGED <<hot, runner, clean, scene>>
      /\ \E f \in {Group[d], sync_all(Group[d])} :
            Keep([Group EXCEPT ![d] = f]) /\ (RollBack \/ (f = sync_all(Group[d]) /\ Done))
  <2>1. Group = data \/ Group = marks BY DEF Group
  <2>2. DOMAIN Group = Days BY <2>1, TaskType
  <2>3. task.pc = "sync" /\ UNCHANGED <<hot, runner, clean, scene>> BY DEF sync_file
  <2>4. d \in Days BY <2>3, TodoDay
  <2>5. [Group EXCEPT ![d] = sync_all(@)] = [Group EXCEPT ![d] = sync_all(Group[d])] BY <2>2, <2>4
  <2> HIDE DEF Done
  <2>6. CASE Keep([Group EXCEPT ![d] = sync_all(@)]) /\ Done
    <3>1. Keep([Group EXCEPT ![d] = sync_all(Group[d])])
      <4>1. PICK g, h : g = [Group EXCEPT ![d] = sync_all(@)] /\ h = [Group EXCEPT ![d] = sync_all(Group[d])] OBVIOUS
      <4>2. Keep(g) /\ g = h BY <2>5, <2>6, <4>1
      <4> QED BY <4>1, <4>2
    <3> QED BY <2>3, <2>6, <3>1
  <2>7. CASE RollBack /\ \E f \in {Group[d], sync_all(Group[d])} : Keep([Group EXCEPT ![d] = f])
        BY <2>7, <2>3
  <2>8. \/ Keep([Group EXCEPT ![d] = sync_all(@)]) /\ Done
        \/ RollBack /\ \E f \in {Group[d], sync_all(Group[d])} : Keep([Group EXCEPT ![d] = f])
        BY DEF sync_file, Done
  <2> QED BY <2>6, <2>7, <2>8
<1>2. PICK f \in {Group[d], sync_all(Group[d])} :
         Keep([Group EXCEPT ![d] = f]) /\ (RollBack \/ (f = sync_all(Group[d]) /\ Done))
      BY <1>1
<1>3. d \in task.todo /\ d \in DaysOf(task.rows) /\ d \in Days BY <1>1, TodoDay
<1>4. task.rows \in SUBSET Rows /\ task.phase \in {1, 2} BY TaskType
<1> HIDE DEF d
<1>5. ASSUME NEW T, NEW F, F = Group, DOMAIN F = Days, \A e \in Days : FileOK(F[e], T), NEW G, G = [F EXCEPT ![d] = f]
      PROVE  /\ DOMAIN G = Days /\ \A e \in Days : e # d => G[e] = F[e]
             /\ \A e \in Days : FileOK(G[e], T) /\ Grows(F[e], G[e]) /\ G[e].cache = F[e].cache
             /\ f = sync_all(F[d]) => G[d].disk = F[d].cache
  <2>1. f \in {F[d], sync_all(F[d])} BY <1>2, <1>5
  <2>2. PICK s : s = sync_all(F[d]) OBVIOUS
  <2>3. FileOK(s, T) /\ s.cache = F[d].cache /\ s.linked = F[d].linked /\ s.disk = F[d].cache
        BY <1>3, <1>5, <2>2, SyncFile
  <2>4. FileOK(f, T) /\ f.cache = F[d].cache /\ f.linked = F[d].linked /\ f.disk \in {F[d].disk, F[d].cache}
        BY <1>3, <1>5, <2>1, <2>2, <2>3
  <2>5. Grows(F[d], f) BY <1>3, <1>5, <2>4, GrowsSteps
  <2>6. /\ DOMAIN G = Days /\ G[d] = f /\ \A e \in Days : e # d => G[e] = F[e]
        /\ \A e \in Days : FileOK(G[e], T) /\ Grows(F[e], G[e])
        BY <1>3, <1>5, <2>4, <2>5, OneFile
  <2> QED BY <2>2, <2>3, <2>4, <2>6
<1>6. ASSUME Done, f = sync_all(Group[d])
      PROVE  /\ TaskMoves /\ task'.len = task.len /\ task'.phase = task.phase /\ task'.rows = task.rows
             /\ task'.todo = left /\ task'.pc = (IF left = {} THEN "dirs" ELSE "sync")
      BY <1>1, <1>3, <1>6, SyncedOne
<1>7. ASSUME RollBack
      PROVE  TaskMoves /\ task'.pc = "undomarks" /\ task'.phase = task.phase /\ task'.len = task.len
      BY <1>1, <1>7, RollsBack
<1>8. CASE task.phase = 1
  <2>1. Group = data /\ data' = [data EXCEPT ![d] = f] /\ marks' = marks BY <1>2, <1>8 DEF Keep, Group
  <2>2. DOMAIN data = Days /\ \A e \in Days : FileOK(data[e], Rows) BY TaskType
  <2>3. /\ DOMAIN data' = Days /\ \A e \in Days : e # d => data'[e] = data[e]
        /\ \A e \in Days : FileOK(data'[e], Rows) /\ Grows(data[e], data'[e]) /\ data'[e].cache = data[e].cache
        /\ f = sync_all(data[d]) => data'[d].disk = data[d].cache
    <3>1. PICK F, G, T : F = data /\ G = data' /\ T = Rows OBVIOUS
    <3>2. F = Group /\ DOMAIN F = Days /\ (\A e \in Days : FileOK(F[e], T)) /\ G = [F EXCEPT ![d] = f]
          BY <2>1, <2>2, <3>1
    <3>3. /\ DOMAIN G = Days /\ \A e \in Days : e # d => G[e] = F[e]
          /\ \A e \in Days : FileOK(G[e], T) /\ Grows(F[e], G[e]) /\ G[e].cache = F[e].cache
          BY <1>5, <3>2
    <3>4. f = sync_all(F[d]) => G[d].disk = F[d].cache BY <1>5, <3>2
    <3> QED BY <3>1, <3>3, <3>4
  <2>4. \A e \in Days : e \notin DaysOf(task.rows) => data'[e] = data[e] BY <1>3, <2>3
  <2>5. CASE RollBack
    <3>1. Progress' BY <1>7, <1>8, <2>5 DEF Progress
    <3> QED BY <1>1, <1>7, <1>8, <2>1, <2>3, <2>4, <2>5, <3>1, DataGrows
  <2>6. CASE f = sync_all(Group[d]) /\ Done
    <3>1. /\ TaskMoves /\ task'.len = task.len /\ task'.phase = 1 /\ task'.rows = task.rows
          /\ task'.todo = left /\ task'.pc = (IF left = {} THEN "dirs" ELSE "sync")
          BY <1>6, <1>8, <2>6
    <3>2. ASSUME NEW r \in task.rows PROVE InCache(r)' /\ (Day[r] \notin left => OnDisk(r)')
      <4>1. Day[r] \in Days BY <1>4, DayFacts
      <4>2. InCache(r) /\ (Day[r] \notin task.todo => OnDisk(r)) BY <1>1, <1>8 DEF Inv, Progress
      <4>3. InCache(r)' BY <2>3, <4>1, <4>2 DEF InCache
      <4>4. CASE Day[r] = d BY <2>1, <2>3, <2>6, <4>2, <4>3, <4>4 DEF InCache, OnDisk
      <4>5. CASE Day[r] # d BY <2>3, <4>1, <4>2, <4>3, <4>5 DEF OnDisk
      <4> QED BY <4>4, <4>5
    <3>3. Progress'
      <4>1. CASE left = {} BY <3>1, <3>2, <4>1 DEF Progress
      <4>2. CASE left # {} BY <3>1, <3>2, <4>2 DEF Progress
      <4> QED BY <4>1, <4>2
    <3>4. task'.pc \in {"sync", "dirs"} BY <3>1
    <3> QED BY <1>1, <1>8, <2>1, <2>3, <2>4, <3>1, <3>3, <3>4, DataGrows
  <2> QED BY <1>2, <2>5, <2>6
<1>9. CASE task.phase = 2
  <2>1. Group = marks /\ marks' = [marks EXCEPT ![d] = f] /\ data' = data BY <1>2, <1>9 DEF Keep, Group
  <2>2. PICK T : T = SUBSET Rows OBVIOUS
  <2>3. DOMAIN marks = Days /\ \A e \in Days : FileOK(marks[e], T) BY <2>2, TaskType
  <2>4. /\ DOMAIN marks' = Days /\ \A e \in Days : e # d => marks'[e] = marks[e]
        /\ \A e \in Days : FileOK(marks'[e], T) /\ Grows(marks[e], marks'[e]) /\ marks'[e].cache = marks[e].cache
    <3>1. PICK F, G : F = marks /\ G = marks' OBVIOUS
    <3>2. F = Group /\ DOMAIN F = Days /\ (\A e \in Days : FileOK(F[e], T)) /\ G = [F EXCEPT ![d] = f]
          BY <2>1, <2>3, <3>1
    <3>3. /\ DOMAIN G = Days /\ \A e \in Days : e # d => G[e] = F[e]
          /\ \A e \in Days : FileOK(G[e], T) /\ Grows(F[e], G[e]) /\ G[e].cache = F[e].cache
          BY <1>5, <3>2
    <3> QED BY <3>1, <3>3
  <2>5. \A e \in Days : e \notin DaysOf(task.rows) => marks'[e] = marks[e] BY <1>3, <2>4
  <2>6. \A e \in Days : \A i \in 1 .. Len(marks'[e].cache) :
           i > Len(marks[e].cache) => marks'[e].cache[i] \in {task.rows, Half}
    <3> TAKE e \in Days
    <3>1. Len(marks[e].cache) \in Nat BY <2>3 DEF FileOK
    <3> QED BY <2>4, <3>1
  <2>7. TaskMoves /\ task'.len = task.len /\ task'.phase = 2 /\ task'.pc \in {"sync", "dirs", "undomarks"}
        BY <1>2, <1>6, <1>7, <1>9
  <2> QED BY <1>1, <1>9, <2>1, <2>2, <2>4, <2>5, <2>6, <2>7, MarksGrow
<1> QED BY <1>4, <1>8, <1>9

(* A file of the batch is linked durably, or one of another day stays. *)
LEMMA LinkOrNot ==
    ASSUME NEW T, NEW f, FileOK(f, T), NEW g \in {f, sync_dir(f)}
    PROVE  /\ FileOK(g, T) /\ Grows(f, g) /\ g.cache = f.cache /\ g.disk = f.disk
           /\ g = sync_dir(f) => g.linked
<1>1. PICK h : h = sync_dir(f) OBVIOUS
<1>2. FileOK(h, T) /\ h.cache = f.cache /\ h.disk = f.disk /\ h.linked BY <1>1, LinkFile
<1>3. Grows(f, h) /\ Grows(f, f) BY <1>2, GrowsSteps, GrowsSame
<1> QED BY <1>1, <1>2, <1>3

LEMMA DirsStep == ASSUME Inv, sync_dirs PROVE Inv'
<1> DEFINE D == DaysOf(task.rows)
           linked == [e \in Days |-> IF e \in D THEN sync_dir(Group[e]) ELSE Group[e]]
<1>1. /\ task.pc = "dirs" /\ UNCHANGED <<hot, clean, scene>>
      /\ \/ /\ Keep(linked)
            /\ IF task.phase = 1 THEN task' = [task EXCEPT !.phase = 2, !.pc = "open"] /\ UNCHANGED runner
               ELSE Finish("ok")
         \/ RollBack /\ UNCHANGED <<data, marks, runner>>
      BY DEF sync_dirs
<1>2. /\ task.rows \in SUBSET Rows /\ task.phase \in {1, 2} /\ D \in SUBSET Days /\ DOMAIN data = Days /\ DOMAIN marks = Days
      /\ \A e \in Days : FileOK(data[e], Rows) /\ FileOK(marks[e], SUBSET Rows)
      BY TaskType
<1>3. \A r \in task.rows : Day[r] \in D /\ Day[r] \in Days BY <1>2, DayFacts
<1>4. CASE RollBack /\ UNCHANGED <<data, marks, runner>>
  <2>1. TaskMoves /\ task'.pc = "undomarks" /\ task'.phase = task.phase /\ task'.len = task.len BY <1>1, <1>4, RollsBack
  <2>2. CASE task.phase = 1
    <3>1. Progress' BY <2>1, <2>2 DEF Progress
    <3>2. \A e \in Days : FileOK(data'[e], Rows) /\ Grows(data[e], data'[e]) BY <1>2, <1>4, GrowsSame
    <3> QED BY <1>1, <1>2, <1>4, <2>1, <2>2, <3>1, <3>2, DataGrows
  <2>3. CASE task.phase = 2
    <3>1. \A e \in Days : FileOK(marks'[e], SUBSET Rows) /\ Grows(marks[e], marks'[e])
      <4>1. PICK T : T = SUBSET Rows OBVIOUS
      <4>2. \A e \in Days : FileOK(marks'[e], T) /\ Grows(marks[e], marks'[e]) BY <1>2, <1>4, <4>1, GrowsSame
      <4> QED BY <4>1, <4>2
    <3>2. \A e \in Days : \A i \in 1 .. Len(marks'[e].cache) :
             i > Len(marks[e].cache) => marks'[e].cache[i] \in {task.rows, Half}
      <4> TAKE e \in Days
      <4>1. Len(marks[e].cache) \in Nat BY <1>2 DEF FileOK
      <4> QED BY <1>4, <4>1
    <3> QED BY <1>1, <1>2, <1>4, <2>1, <2>3, <3>1, <3>2, MarksGrow
  <2> QED BY <1>2, <2>2, <2>3
<1>5. CASE task.phase = 1 /\ Keep(linked) /\ task' = [task EXCEPT !.phase = 2, !.pc = "open"] /\ UNCHANGED runner
  <2>1. data' = [e \in Days |-> IF e \in D THEN sync_dir(data[e]) ELSE data[e]] /\ marks' = marks
        BY <1>5 DEF Keep, Group
  <2>2. /\ DOMAIN data' = Days /\ \A e \in Days : e \notin D => data'[e] = data[e]
        /\ \A e \in Days : /\ FileOK(data'[e], Rows) /\ Grows(data[e], data'[e])
                           /\ data'[e].cache = data[e].cache /\ data'[e].disk = data[e].disk
                           /\ e \in D => data'[e].linked
    <3> HIDE DEF D
    <3> SUFFICES ASSUME NEW e \in Days
                 PROVE  /\ FileOK(data'[e], Rows) /\ Grows(data[e], data'[e])
                        /\ data'[e].cache = data[e].cache /\ data'[e].disk = data[e].disk
                        /\ e \in D => data'[e].linked
        BY <2>1
    <3>1. PICK f, g : f = data[e] /\ g = data'[e] OBVIOUS
    <3>2. FileOK(f, Rows) /\ g \in {f, sync_dir(f)} /\ (e \in D => g = sync_dir(f)) BY <1>2, <2>1, <3>1
    <3>3. FileOK(g, Rows) /\ Grows(f, g) /\ g.cache = f.cache /\ g.disk = f.disk /\ (g = sync_dir(f) => g.linked)
          BY <3>2, LinkOrNot
    <3> QED BY <3>1, <3>2, <3>3
  <2>3. /\ DOMAIN task' = TaskFields /\ task'.pc = "open" /\ task'.owner = task.owner /\ task'.rows = task.rows
        /\ task'.phase = 2 /\ task'.todo = task.todo /\ task'.len = task.len
        BY <1>5, TaskType DEF TaskFields
  <2>4. TaskMoves BY <1>1, <1>5, <2>3, TaskType DEF TaskMoves
  <2>5. ASSUME NEW r \in task.rows PROVE Kept(r)'
    <3>1. InCache(r) /\ OnDisk(r) BY <1>1, <1>5 DEF Inv, Progress
    <3> QED BY <1>3, <2>2, <3>1 DEF InCache, OnDisk, Kept, KeptIn
  <2>6. Progress' BY <2>3, <2>5 DEF Progress, AllKept
  <2> QED BY <1>1, <1>5, <2>1, <2>2, <2>3, <2>4, <2>6, DataGrows
<1>6. CASE task.phase = 2 /\ Keep(linked) /\ Finish("ok")
  <2>1. marks' = [e \in Days |-> IF e \in D THEN sync_dir(marks[e]) ELSE marks[e]] /\ data' = data
        BY <1>6 DEF Keep, Group
  <2>2. PICK T : T = SUBSET Rows OBVIOUS
  <2>3. /\ DOMAIN marks' = Days
        /\ \A e \in Days : FileOK(marks'[e], T) /\ marks'[e].cache = marks[e].cache /\ marks'[e].disk = marks[e].disk
    <3> HIDE DEF D
    <3> SUFFICES ASSUME NEW e \in Days
                 PROVE  FileOK(marks'[e], T) /\ marks'[e].cache = marks[e].cache /\ marks'[e].disk = marks[e].disk
        BY <2>1
    <3>1. PICK f, g : f = marks[e] /\ g = marks'[e] OBVIOUS
    <3>2. FileOK(f, T) /\ g \in {f, sync_dir(f)} BY <1>2, <2>1, <2>2, <3>1
    <3>3. FileOK(g, T) /\ g.cache = f.cache /\ g.disk = f.disk BY <3>2, LinkOrNot
    <3> QED BY <3>1, <3>3
  <2>4. Files_OK' BY <1>2, <2>1, <2>2, <2>3 DEF Files_OK
  <2>5. \A r \in Rows : Kept(r) => Kept(r)' BY <2>1, KeptAlone
  <2>6. \A r \in Rows : Firm(r) => Kept(r)' BY <2>5 DEF Firm
  <2>7. \A r \in task.rows : Kept(r)' BY <1>1, <1>2, <1>6, <2>5 DEF Inv, Progress, AllKept
  <2>8. task' = NoTask /\ Runners_OK' /\ Hot_OK' /\ Acknowledged' BY <1>1, <1>6, <2>6, <2>7, AnswerGiven
  <2>9. DOMAIN clean' = {"files", "undone"} BY <1>1 DEF Inv, Undoable
  <2>10. Backed' BY <2>3, <2>4, <2>5, MarkersStay
  <2> QED BY <1>1, <2>4, <2>8, <2>9, <2>10, TaskEnds
<1> QED BY <1>1, <1>2, <1>4, <1>5, <1>6

(* A file of the batch is opened, a torn tail cut, or another one stays. *)
LEMMA CutOrNot ==
    ASSUME NEW T, Half \notin T, NEW f, FileOK(f, T), NEW g \in {f, cut_torn_tail(f)}
    PROVE  /\ FileOK(g, T) /\ Whole(g.cache) = Whole(f.cache) /\ g.disk \in {f.disk, g.cache}
           /\ Len(g.cache) <= Len(f.cache) /\ \A i \in 1 .. Len(g.cache) : g.cache[i] = f.cache[i]
           /\ \A r \in T : KeptIn(f, r) => KeptIn(g, r)
           /\ g = cut_torn_tail(f) => LenOK(g, Len(g.cache))
<1>1. CASE g = cut_torn_tail(f)
  <2>1. /\ FileOK(g, T) /\ g.cache = Whole(f.cache) /\ LenOK(g, Len(g.cache)) /\ Len(g.cache) <= Len(f.cache)
        /\ \A i \in 1 .. Len(g.cache) : g.cache[i] = f.cache[i]
        /\ g.disk \in {f.disk, g.cache}
        /\ \A r \in T : KeptIn(f, r) => KeptIn(g, r)
        BY <1>1, CutFile
  <2>2. Whole(g.cache) = g.cache BY <2>1, WholeLines DEF FileOK, LenOK
  <2> QED BY <2>1, <2>2
<1>2. CASE g = f /\ g # cut_torn_tail(f)
  <2>1. Len(f.cache) \in Nat BY DEF FileOK
  <2> QED BY <1>2, <2>1
<1> QED BY <1>1, <1>2

LEMMA OpenData == ASSUME Inv, open_files, task.phase = 1 PROVE Inv'
<1> DEFINE D == DaysOf(task.rows)
<1> DEFINE cut == [d \in Days |-> IF d \in DaysOf(task.rows) THEN cut_torn_tail(Group[d]) ELSE Group[d]]
<1>0. Group = data BY DEF Group
<1>1. /\ task.pc = "open" /\ UNCHANGED <<hot, runner, clean, scene>> /\ data' = cut /\ marks' = marks
      /\ OpenedFiles(cut) \/ RollBack
      /\ DOMAIN cut = Days /\ \A e \in Days : cut[e] = IF e \in D THEN cut_torn_tail(data[e]) ELSE data[e]
  <2>1. task.pc = "open" /\ UNCHANGED <<hot, runner, clean, scene>> /\ Keep(cut) /\ (OpenedFiles(cut) \/ RollBack)
        BY DEF open_files, OpenedFiles
  <2>2. \A e \in Days : cut[e] = IF e \in D THEN cut_torn_tail(data[e]) ELSE data[e] BY <1>0
  <2>3. DOMAIN cut = Days OBVIOUS
  <2> HIDE DEF cut, D
  <2> QED BY <2>1, <2>2, <2>3 DEF Keep
<1> HIDE DEF cut
<1>2. D \in SUBSET Days /\ DOMAIN marks = Days /\ \A e \in Days : FileOK(data[e], Rows) /\ FileOK(marks[e], SUBSET Rows)
      BY TaskType
<1> HIDE DEF D
<1>3. /\ DOMAIN data' = Days
      /\ \A e \in Days : /\ FileOK(data'[e], Rows) /\ Whole(data'[e].cache) = Whole(data[e].cache)
                         /\ \A r \in Rows : KeptIn(data[e], r) => KeptIn(data'[e], r)
                         /\ e \in D => LenOK(data'[e], Len(data'[e].cache))
  <2> SUFFICES ASSUME NEW e \in Days
               PROVE  /\ FileOK(data'[e], Rows) /\ Whole(data'[e].cache) = Whole(data[e].cache)
                      /\ \A r \in Rows : KeptIn(data[e], r) => KeptIn(data'[e], r)
                      /\ e \in D => LenOK(data'[e], Len(data'[e].cache))
      BY <1>1
  <2>1. PICK f, g : f = data[e] /\ g = data'[e] OBVIOUS
  <2>2. FileOK(f, Rows) /\ g \in {f, cut_torn_tail(f)} /\ (e \in D => g = cut_torn_tail(f)) BY <1>1, <1>2, <2>1
  <2>3. /\ FileOK(g, Rows) /\ Whole(g.cache) = Whole(f.cache) /\ \A r \in Rows : KeptIn(f, r) => KeptIn(g, r)
        /\ g = cut_torn_tail(f) => LenOK(g, Len(g.cache))
        BY <2>2, NoHalf, CutOrNot
  <2> QED BY <2>1, <2>2, <2>3
<1>4. Files_OK' BY <1>1, <1>2, <1>3 DEF Files_OK
<1>5. Lens_OK /\ \A d \in Days : ~Opened(1, d) /\ ~Opened(2, d) BY <1>1 DEF Inv, Lens_OK
<1>6. \A d \in Days : Whole(data'[d].cache) = Whole(clean.files.data[d].cache)
      BY <1>1, <1>3, <1>5 DEF Inv, Undoable, SameLines
<1>7. \A r \in Rows : Kept(r) => Kept(r)' BY <1>3, DayFacts DEF Kept
<1>8. CASE OpenedFiles(cut)
  <2>1. /\ TaskMoves /\ task'.pc = "write" /\ task'.phase = 1 /\ task'.todo = D /\ task'.rows = task.rows
        /\ \A d \in Days : /\ Opened(1, d)' <=> d \in D
                           /\ Opened(1, d)' => task'.len[<<1, d>>] = Len(data'[d].cache)
                           /\ ~Opened(2, d)'
        /\ \A x \in DOMAIN task'.len : x[1] \in {1, 2} /\ x[2] \in D /\ x = <<x[1], x[2]>>
    <3>1. /\ TaskMoves /\ task'.pc = "write" /\ task'.phase = task.phase /\ task'.todo = D /\ task'.rows = task.rows
          /\ \A d \in Days : /\ Opened(task.phase, d)' <=> d \in D
                             /\ Opened(task.phase, d)' => task'.len[<<task.phase, d>>] = Len(cut[d].cache)
                             /\ task.phase # 1 => (Opened(1, d)' <=> Opened(1, d))
                             /\ task.phase # 1 /\ Opened(1, d) => task'.len[<<1, d>>] = task.len[<<1, d>>]
                             /\ task.phase # 2 => (Opened(2, d)' <=> Opened(2, d))
          /\ \A x \in DOMAIN task'.len : x[1] \in {1, 2} /\ x[2] \in D /\ x = <<x[1], x[2]>>
          BY <1>1, <1>8, Opens DEF D
    <3>2. \A d \in Days : Opened(2, d)' <=> Opened(2, d)
      <4>1. task.phase # 2 OBVIOUS
      <4> QED BY ONLY <3>1, <4>1, Zenon
    <3>3. \A d \in Days : /\ Opened(1, d)' <=> d \in D
                          /\ Opened(1, d)' => task'.len[<<1, d>>] = Len(data'[d].cache)
          BY <1>1, <3>1 DEF Opened
    <3> QED BY <1>5, <3>1, <3>2, <3>3
  <2>2. Lens_OK'
    <3>1. Group' = data' BY <2>1 DEF Group
    <3>2. \A d \in Days : Opened(1, d)' => LenOK(data'[d], task'.len[<<1, d>>]) BY <1>3, <2>1
    <3>3. DaysOf(task'.rows) = D BY <2>1 DEF D
    <3> QED BY <1>2, <2>1, <3>1, <3>2, <3>3 DEF Lens_OK
  <2>3. Progress'
    <3>1. \A r \in task.rows : Day[r] \in D BY TaskType, DayFacts DEF D
    <3> QED BY <2>1, <3>1 DEF Progress
  <2>4. ASSUME NEW r \in Rows, Firm(r) PROVE Firm(r)'
    <3>1. Kept(r)' BY <1>7, <2>4 DEF Firm
    <3>2. Day[r] \in Days BY DayFacts
    <3>3. ASSUME Opened(1, Day[r])' PROVE FirmIn(data'[Day[r]], task'.len[<<1, Day[r]>>], r)
      <4>1. PICK f : f = data'[Day[r]] OBVIOUS
      <4>2. KeptIn(f, r) /\ FileOK(f, Rows) BY <1>3, <3>1, <3>2, <4>1 DEF Kept
      <4>3. f.cache \in Seq(Rows \cup {Half}) BY <4>2 DEF FileOK
      <4>4. \E i \in 1 .. Len(f.cache) : f.cache[i] = r BY <4>2, <4>3 DEF KeptIn, ToSet
      <4>5. task'.len[<<1, Day[r]>>] = Len(f.cache) BY <2>1, <3>2, <3>3, <4>1
      <4> QED BY <4>1, <4>2, <4>4, <4>5 DEF FirmIn
    <3> QED BY <3>1, <3>3 DEF Firm
  <2>5. \A d \in Days : SameLines(data'[d], Opened(1, d)', task'.len[<<1, d>>], clean.files.data[d])
    <3> TAKE d \in Days
    <3>1. data'[d].cache \in Seq(Rows \cup {Half}) BY <1>3 DEF FileOK
    <3>2. SubSeq(data'[d].cache, 1, Len(data'[d].cache)) = data'[d].cache BY <3>1
    <3> QED BY <1>6, <2>1, <3>2 DEF SameLines
  <2> QED BY <1>1, <1>4, <2>1, <2>2, <2>3, <2>4, <2>5, DataPhase
<1>9. CASE RollBack
  <2>1. /\ TaskMoves /\ task'.pc = "undomarks" /\ task'.phase = 1 /\ task'.len = task.len /\ task'.rows = task.rows
        /\ \A ph, d : Opened(ph, d)' <=> Opened(ph, d)
        BY <1>1, <1>9, RollsBack
  <2>2. Lens_OK' BY <1>5, <2>1 DEF Lens_OK
  <2>3. Progress' BY <2>1 DEF Progress
  <2>4. \A r \in Rows : Firm(r) => Firm(r)' BY <1>5, <1>7, <2>1, DayFacts DEF Firm
  <2>5. \A d \in Days : SameLines(data'[d], Opened(1, d)', task'.len[<<1, d>>], clean.files.data[d])
        BY <1>5, <1>6, <2>1 DEF SameLines
  <2> QED BY <1>1, <1>4, <1>5, <2>1, <2>2, <2>3, <2>4, <2>5, DataPhase
<1> QED BY <1>1, <1>8, <1>9

LEMMA OpenMarks == ASSUME Inv, open_files, task.phase = 2 PROVE Inv'
<1> DEFINE D == DaysOf(task.rows)
<1> DEFINE cut == [d \in Days |-> IF d \in DaysOf(task.rows) THEN cut_torn_tail(Group[d]) ELSE Group[d]]
<1>0. Group = marks BY DEF Group
<1>1. /\ task.pc = "open" /\ UNCHANGED <<hot, runner, clean, scene>> /\ marks' = cut /\ data' = data
      /\ OpenedFiles(cut) \/ RollBack
      /\ DOMAIN cut = Days /\ \A e \in Days : cut[e] = IF e \in D THEN cut_torn_tail(marks[e]) ELSE marks[e]
  <2>1. task.pc = "open" /\ UNCHANGED <<hot, runner, clean, scene>> /\ Keep(cut) /\ (OpenedFiles(cut) \/ RollBack)
        BY DEF open_files, OpenedFiles
  <2>2. \A e \in Days : cut[e] = IF e \in D THEN cut_torn_tail(marks[e]) ELSE marks[e] BY <1>0
  <2>3. DOMAIN cut = Days OBVIOUS
  <2> HIDE DEF cut, D
  <2> QED BY <2>1, <2>2, <2>3 DEF Keep
<1> HIDE DEF cut
<1>2. PICK T : T = SUBSET Rows OBVIOUS
<1>3. D \in SUBSET Days /\ DOMAIN data = Days /\ \A e \in Days : FileOK(marks[e], T) /\ FileOK(data[e], Rows)
      BY <1>2, TaskType
<1> HIDE DEF D
<1>4. /\ DOMAIN marks' = Days
      /\ \A e \in Days : /\ FileOK(marks'[e], T) /\ Whole(marks'[e].cache) = Whole(marks[e].cache)
                         /\ marks'[e].disk \in {marks[e].disk, marks'[e].cache}
                         /\ Len(marks'[e].cache) <= Len(marks[e].cache)
                         /\ \A i \in 1 .. Len(marks'[e].cache) : marks'[e].cache[i] = marks[e].cache[i]
                         /\ e \in D => LenOK(marks'[e], Len(marks'[e].cache))
  <2> SUFFICES ASSUME NEW e \in Days
               PROVE  /\ FileOK(marks'[e], T) /\ Whole(marks'[e].cache) = Whole(marks[e].cache)
                      /\ marks'[e].disk \in {marks[e].disk, marks'[e].cache}
                      /\ Len(marks'[e].cache) <= Len(marks[e].cache)
                      /\ \A i \in 1 .. Len(marks'[e].cache) : marks'[e].cache[i] = marks[e].cache[i]
                      /\ e \in D => LenOK(marks'[e], Len(marks'[e].cache))
      BY <1>1
  <2>1. PICK f, g : f = marks[e] /\ g = marks'[e] OBVIOUS
  <2>2. FileOK(f, T) /\ g \in {f, cut_torn_tail(f)} /\ (e \in D => g = cut_torn_tail(f)) BY <1>1, <1>3, <2>1
  <2>3. Half \notin T BY <1>2, NoHalf
  <2>4. /\ FileOK(g, T) /\ Whole(g.cache) = Whole(f.cache) /\ g.disk \in {f.disk, g.cache}
        /\ Len(g.cache) <= Len(f.cache) /\ \A i \in 1 .. Len(g.cache) : g.cache[i] = f.cache[i]
        /\ g = cut_torn_tail(f) => LenOK(g, Len(g.cache))
        BY <2>2, <2>3, CutOrNot
  <2> QED BY <2>1, <2>2, <2>4
<1>5. Files_OK' BY <1>1, <1>2, <1>3, <1>4 DEF Files_OK
<1>6. Lens_OK /\ \A d \in Days : ~Opened(2, d) /\ ~Own(d) BY <1>1 DEF Inv, Lens_OK, Own
<1>7. \A d \in Days : Whole(marks'[d].cache) = Whole(clean.files.marks[d].cache)
      BY <1>1, <1>4, <1>6 DEF Inv, Undoable, SameLines
<1>8. \A e \in Days : \A i \in 1 .. Len(marks'[e].cache) : i <= Len(marks[e].cache)
  <2> TAKE e \in Days
  <2>1. Len(marks'[e].cache) \in Nat /\ Len(marks[e].cache) \in Nat BY <1>3, <1>4 DEF FileOK
  <2> QED BY <1>4, <2>1
<1>9. CASE OpenedFiles(cut)
  <2>1. /\ TaskMoves /\ task'.pc = "write" /\ task'.phase = 2 /\ task'.todo = D /\ task'.rows = task.rows
        /\ \A d \in Days : /\ Opened(2, d)' <=> d \in D
                           /\ Opened(2, d)' => task'.len[<<2, d>>] = Len(marks'[d].cache)
                           /\ Opened(1, d)' <=> Opened(1, d)
                           /\ Opened(1, d) => task'.len[<<1, d>>] = task.len[<<1, d>>]
        /\ \A x \in DOMAIN task'.len : x[1] \in {1, 2} /\ x[2] \in D /\ x = <<x[1], x[2]>>
    <3>1. /\ TaskMoves /\ task'.pc = "write" /\ task'.phase = task.phase /\ task'.todo = D /\ task'.rows = task.rows
          /\ \A d \in Days : /\ Opened(task.phase, d)' <=> d \in D
                             /\ Opened(task.phase, d)' => task'.len[<<task.phase, d>>] = Len(cut[d].cache)
                             /\ task.phase # 1 => (Opened(1, d)' <=> Opened(1, d))
                             /\ task.phase # 1 /\ Opened(1, d) => task'.len[<<1, d>>] = task.len[<<1, d>>]
                             /\ task.phase # 2 => (Opened(2, d)' <=> Opened(2, d))
          /\ \A x \in DOMAIN task'.len : x[1] \in {1, 2} /\ x[2] \in D /\ x = <<x[1], x[2]>>
          BY <1>1, <1>9, Opens DEF D
    <3>2. \A d \in Days : /\ Opened(1, d)' <=> Opened(1, d)
                          /\ Opened(1, d) => task'.len[<<1, d>>] = task.len[<<1, d>>]
      <4>1. task.phase # 1 OBVIOUS
      <4> QED BY ONLY <3>1, <4>1, Zenon
    <3>3. \A d \in Days : /\ Opened(2, d)' <=> d \in D
                          /\ Opened(2, d)' => task'.len[<<2, d>>] = Len(marks'[d].cache)
          BY <1>1, <3>1 DEF Opened
    <3> QED BY <3>1, <3>2, <3>3
  <2>2. SameData BY <1>1, <2>1 DEF SameData
  <2>3. Lens_OK'
    <3>1. Group' = marks' BY <2>1 DEF Group
    <3>2. \A d \in Days : Opened(2, d)' => LenOK(marks'[d], task'.len[<<2, d>>]) BY <1>4, <2>1
    <3>3. DaysOf(task'.rows) = D BY <2>1 DEF D
    <3>4. \A d \in Days : Opened(1, d)' => LenOK(data'[d], task'.len[<<1, d>>]) BY <1>1, <1>6, <2>1 DEF Lens_OK
    <3>5. \A x \in DOMAIN task'.len : x[1] \in {1, 2} /\ x[2] \in DaysOf(task'.rows) /\ x = <<x[1], x[2]>>
          BY <2>1, <3>3
    <3>6. task'.pc = "write" /\ task'.phase = 2 /\ task'.todo = D BY <2>1
    <3>7. \A d \in D : <<task'.phase, d>> \in DOMAIN task'.len
      <4>1. \A d \in D : Opened(2, d)' BY <1>3, <2>1
      <4> QED BY <3>6, <4>1 DEF Opened
    <3>8. \A d \in D : Opened(task.phase, d)' BY <3>7 DEF Opened
    <3>9. \A d \in D : Len(marks'[d].cache) = task'.len[<<task'.phase, d>>]
      <4>1. \A d \in D : Len(marks'[d].cache) = task'.len[<<2, d>>] BY <1>3, <2>1
      <4> QED BY <3>6, <4>1
    <3>10. task'.phase # 1 /\ task'.pc \notin {"none", "check", "open"} BY <3>6
    <3> QED BY <3>1, <3>2, <3>3, <3>4, <3>5, <3>6, <3>8, <3>9, <3>10, Zenon DEF Lens_OK
  <2>4. Markers' BY <1>1, <1>4, <1>5, <1>6, <1>8, <2>1, <2>2, MarkersOn
  <2>5. \A d \in Days : SameLines(marks'[d], Own(d)', task'.len[<<2, d>>], clean.files.marks[d])
    <3> TAKE d \in Days
    <3>1. marks'[d].cache \in Seq(T \cup {Half}) BY <1>4 DEF FileOK
    <3>2. SubSeq(marks'[d].cache, 1, Len(marks'[d].cache)) = marks'[d].cache BY <3>1
    <3>3. Own(d)' => task'.len[<<2, d>>] = Len(marks'[d].cache) BY <2>1 DEF Own
    <3> QED BY <1>7, <3>2, <3>3 DEF SameLines
  <2> QED BY <1>1, <1>5, <2>1, <2>2, <2>3, <2>4, <2>5, MarkPhase
<1>10. CASE RollBack
  <2>1. /\ TaskMoves /\ task'.pc = "undomarks" /\ task'.phase = 2 /\ task'.len = task.len /\ task'.rows = task.rows
        /\ \A ph, d : Opened(ph, d)' <=> Opened(ph, d)
        BY <1>1, <1>10, RollsBack
  <2>2. SameData BY <1>1, <2>1 DEF SameData
  <2>3. Lens_OK' BY <1>1, <1>6, <2>1 DEF Lens_OK
  <2>4. Markers' BY <1>1, <1>4, <1>5, <1>6, <1>8, <2>1, <2>2, MarkersOn
  <2>5. \A d \in Days : SameLines(marks'[d], Own(d)', task'.len[<<2, d>>], clean.files.marks[d])
        BY <1>6, <1>7, <2>1 DEF SameLines, Own
  <2> QED BY <1>1, <1>5, <2>1, <2>2, <2>3, <2>4, <2>5, MarkPhase
<1> QED BY <1>1, <1>9, <1>10

LEMMA OpenStep == ASSUME Inv, open_files PROVE Inv'
<1>1. task.phase \in {1, 2} BY TaskType
<1> QED BY <1>1, OpenData, OpenMarks

---------------------------------------------------------------------------
(* The rollback. *)
LEMMA UndoFacts ==
    ASSUME NEW F, NEW ph, NEW failing, NEW G \in Undo(F, ph, failing)
    PROVE  /\ DOMAIN G = Days
           /\ \A d \in Days :
                /\ ~Opened(ph, d) => G[d] = F[d]
                /\ Opened(ph, d) => G[d] \in {F[d], set_len(F[d], task.len[<<ph, d>>]), Restored(F[d], task.len[<<ph, d>>])}
                /\ Opened(ph, d) /\ d \notin failing => G[d] = Restored(F[d], task.len[<<ph, d>>])
<1> DEFINE S(d) == LET n == task.len[<<ph, d>>]
                   IN  IF <<ph, d>> \notin DOMAIN task.len THEN {F[d]}
                       ELSE IF d \in failing THEN {F[d], set_len(F[d], n)}
                       ELSE {Restored(F[d], n)}
<1>1. G \in [Days -> UNION {S(d) : d \in Days}] /\ \A d \in Days : G[d] \in S(d) BY DEF Undo, PerDay
<1>2. DOMAIN G = Days BY <1>1
<1>3. ASSUME NEW d \in Days
      PROVE  /\ ~Opened(ph, d) => G[d] = F[d]
             /\ Opened(ph, d) => G[d] \in {F[d], set_len(F[d], task.len[<<ph, d>>]), Restored(F[d], task.len[<<ph, d>>])}
             /\ Opened(ph, d) /\ d \notin failing => G[d] = Restored(F[d], task.len[<<ph, d>>])
  <2>1. G[d] \in S(d) BY <1>1
  <2> QED BY <2>1 DEF Opened
<1> QED BY <1>2, <1>3

(* A file that a rollback may have cut back. *)
LEMMA UndoneFile ==
    ASSUME NEW T, Half \notin T, NEW f, FileOK(f, T), NEW n, LenOK(f, n), NEW g \in {f, set_len(f, n), Restored(f, n)}
    PROVE  /\ FileOK(g, T) /\ LenOK(g, n) /\ g.disk \in {f.disk, g.cache} /\ Len(g.cache) <= Len(f.cache)
           /\ \A i \in 1 .. Len(g.cache) : g.cache[i] = f.cache[i]
           /\ \A r \in T : FirmIn(f, n, r) => KeptIn(g, r)
<1>1. f.cache \in Seq(T \cup {Half}) /\ n \in 0 .. Len(f.cache) BY DEF FileOK, LenOK
<1>2. Len(f.cache) \in Nat BY <1>1
<1>3. CASE g \in {set_len(f, n), Restored(f, n)}
  <2>1. /\ FileOK(g, T) /\ g.cache = SubSeq(f.cache, 1, n) /\ Len(g.cache) = n
        /\ LenOK(g, n) /\ g.disk \in {f.disk, g.cache} /\ (g = Restored(f, n) => g.disk = g.cache)
        /\ \A i \in 1 .. n : g.cache[i] = f.cache[i]
        /\ Whole(g.cache) = g.cache
        /\ \A r \in T : FirmIn(f, n, r) => KeptIn(g, r)
        BY <1>3, CutBackFile
  <2> QED BY <1>1, <1>2, <2>1
<1>4. CASE g = f /\ g \notin {set_len(f, n), Restored(f, n)} BY <1>2, <1>4 DEF FirmIn
<1> QED BY <1>3, <1>4

LEMMA RestoredFile ==
    ASSUME NEW T, Half \notin T, NEW f, FileOK(f, T), NEW n, LenOK(f, n), NEW g, g = Restored(f, n)
    PROVE  g.cache = SubSeq(f.cache, 1, n) /\ Len(g.cache) = n /\ g.disk = g.cache /\ Whole(g.cache) = g.cache
BY CutBackFile

(* What a rollback of the sidecars, whole or not, leaves of them. *)
LEMMA UndoneMarks ==
    ASSUME Inv, NEW failing, marks' \in Undo(marks, 2, failing), data' = data
    PROVE  /\ Files_OK'
           /\ \A d \in Days : Opened(2, d) => LenOK(marks'[d], task.len[<<2, d>>])
           /\ \A d \in Days : /\ marks'[d].disk \in {marks[d].disk, marks'[d].cache}
                              /\ Len(marks'[d].cache) <= Len(marks[d].cache)
                              /\ \A i \in 1 .. Len(marks'[d].cache) : marks'[d].cache[i] = marks[d].cache[i]
           /\ \A d \in Days \ failing : Opened(2, d) =>
                /\ marks'[d].cache = SubSeq(marks[d].cache, 1, task.len[<<2, d>>])
                /\ Len(marks'[d].cache) = task.len[<<2, d>>]
                /\ marks'[d].disk = marks'[d].cache
           /\ \A d \in Days : ~Opened(2, d) => marks'[d] = marks[d]
<1>1. /\ DOMAIN data = Days /\ DOMAIN marks = Days
      /\ \A d \in Days : FileOK(data[d], Rows) /\ FileOK(marks[d], SUBSET Rows)
      BY TaskType
<1>2. /\ DOMAIN marks' = Days
      /\ \A d \in Days :
           /\ ~Opened(2, d) => marks'[d] = marks[d]
           /\ Opened(2, d) => marks'[d] \in {marks[d], set_len(marks[d], task.len[<<2, d>>]),
                                             Restored(marks[d], task.len[<<2, d>>])}
           /\ Opened(2, d) /\ d \notin failing => marks'[d] = Restored(marks[d], task.len[<<2, d>>])
      BY UndoFacts
<1>3. PICK T : T = SUBSET Rows OBVIOUS
<1>4. Half \notin T BY <1>3, NoHalf
<1>5. ASSUME NEW d \in Days
      PROVE  /\ FileOK(marks'[d], T) /\ marks'[d].disk \in {marks[d].disk, marks'[d].cache}
             /\ Len(marks'[d].cache) <= Len(marks[d].cache)
             /\ \A i \in 1 .. Len(marks'[d].cache) : marks'[d].cache[i] = marks[d].cache[i]
             /\ Opened(2, d) => LenOK(marks'[d], task.len[<<2, d>>])
             /\ Opened(2, d) /\ d \notin failing =>
                  /\ marks'[d].cache = SubSeq(marks[d].cache, 1, task.len[<<2, d>>])
                  /\ Len(marks'[d].cache) = task.len[<<2, d>>]
                  /\ marks'[d].disk = marks'[d].cache
  <2>1. PICK f, g, n : f = marks[d] /\ g = marks'[d] /\ n = task.len[<<2, d>>] OBVIOUS
  <2>2. FileOK(f, T) BY <1>1, <1>3, <2>1
  <2>3. CASE Opened(2, d)
    <3>1. LenOK(f, n) BY <2>1, <2>3 DEF Inv, Lens_OK
    <3>2. g \in {f, set_len(f, n), Restored(f, n)} /\ (d \notin failing => g = Restored(f, n)) BY <1>2, <2>1, <2>3
    <3>3. /\ FileOK(g, T) /\ LenOK(g, n) /\ g.disk \in {f.disk, g.cache} /\ Len(g.cache) <= Len(f.cache)
          /\ \A i \in 1 .. Len(g.cache) : g.cache[i] = f.cache[i]
          BY ONLY <1>4, <2>2, <3>1, <3>2, UndoneFile
    <3>4. d \notin failing => g.cache = SubSeq(f.cache, 1, n) /\ Len(g.cache) = n /\ g.disk = g.cache
          BY ONLY <1>4, <2>2, <3>1, <3>2, RestoredFile
    <3> QED BY <2>1, <3>3, <3>4
  <2>4. CASE ~Opened(2, d)
    <3>1. Len(f.cache) \in Nat BY <2>2 DEF FileOK
    <3>2. g = f BY <1>2, <2>1, <2>4
    <3> QED BY <2>1, <2>2, <2>4, <3>1, <3>2
  <2> QED BY <2>3, <2>4
<1>6. Files_OK' BY <1>1, <1>2, <1>3, <1>5 DEF Files_OK
<1> QED BY <1>2, <1>5, <1>6

LEMMA UndoMarkersStep == ASSUME Inv, undo_markers PROVE Inv'
<1>1. /\ task.pc = "undomarks" /\ UNCHANGED <<hot, data, scene>>
      /\ \/ /\ marks' \in Undo(marks, 2, {}) /\ task' = [task EXCEPT !.pc = "undodata"] /\ UNCHANGED <<runner, clean>>
         \/ /\ \E failing \in SUBSET Touched(2) \ {{}} : marks' \in Undo(marks, 2, failing)
            /\ clean' = [clean EXCEPT !.undone = FALSE] /\ Finish("err")
      BY DEF undo_markers
<1>2. \A d \in Days : FileOK(marks[d], SUBSET Rows) BY TaskType
<1>3. Lens_OK BY DEF Inv
<1>4. CASE marks' \in Undo(marks, 2, {}) /\ task' = [task EXCEPT !.pc = "undodata"] /\ UNCHANGED <<runner, clean>>
  <2>1. /\ Files_OK'
        /\ \A d \in Days : Opened(2, d) => LenOK(marks'[d], task.len[<<2, d>>])
        /\ \A d \in Days : Opened(2, d) => /\ marks'[d].cache = SubSeq(marks[d].cache, 1, task.len[<<2, d>>])
                                           /\ Len(marks'[d].cache) = task.len[<<2, d>>]
                                           /\ marks'[d].disk = marks'[d].cache
        /\ \A d \in Days : ~Opened(2, d) => marks'[d] = marks[d]
        /\ \A d \in Days : \A i \in 1 .. Len(marks'[d].cache) : marks'[d].cache[i] = marks[d].cache[i]
    <3>1. PICK failing : failing = {} OBVIOUS
    <3>2. marks' \in Undo(marks, 2, failing) /\ Days = Days \ failing BY <1>4, <3>1
    <3> QED BY <1>1, <3>2, UndoneMarks
  <2>2. /\ DOMAIN task' = TaskFields /\ task'.pc = "undodata" /\ task'.owner = task.owner /\ task'.rows = task.rows
        /\ task'.phase = task.phase /\ task'.todo = task.todo /\ task'.len = task.len
        BY <1>4, TaskType DEF TaskFields
  <2>3. TaskMoves BY <1>1, <1>4, <2>2, TaskType DEF TaskMoves
  <2>4. \A ph, d : Opened(ph, d)' <=> Opened(ph, d) BY <2>2 DEF Opened
  <2>5. SameData BY <1>1, <2>2, <2>4 DEF SameData
  <2>6. \A r \in Rows : Firm(r) => Firm(r)' BY <2>5, FirmSame
  <2>7. Lens_OK' BY <1>1, <1>3, <2>1, <2>2, <2>4 DEF Lens_OK
  <2>8. Progress' BY <2>2 DEF Progress
  <2>9. ASSUME NEW d \in Days, NEW i \in 1 .. Len(marks'[d].cache), NEW x, x = marks'[d].cache[i], x # Half
        PROVE  AllFirm(x)'
    <3>1. x = marks[d].cache[i] BY <2>1, <2>9
    <3>2. CASE Opened(2, d)
      <4>1. task.len[<<2, d>>] \in 0 .. Len(marks[d].cache) BY <1>3, <3>2 DEF Lens_OK, LenOK
      <4>2. Len(marks[d].cache) \in Nat BY <1>2 DEF FileOK
      <4>3. i \in 1 .. Len(marks[d].cache) /\ ~(i > task.len[<<2, d>>]) BY <2>1, <2>9, <3>2, <4>1, <4>2
      <4>4. x \in SUBSET Rows /\ AllFirm(x) BY <2>5, <2>9, <3>1, <4>3, MarkLines
      <4> QED BY <2>5, <4>4, MarkLines
    <3>3. CASE ~Opened(2, d)
      <4>1. i \in 1 .. Len(marks[d].cache) /\ ~Own(d) BY <2>1, <2>9, <3>3 DEF Own
      <4>2. x \in SUBSET Rows /\ AllFirm(x) BY <2>5, <2>9, <3>1, <4>1, MarkLines
      <4> QED BY <2>5, <4>2, MarkLines
    <3> QED BY <3>2, <3>3
  <2>10. ASSUME NEW d \in Days, NEW i \in 1 .. Len(marks'[d].disk), NEW x, x = marks'[d].disk[i], x # Half
         PROVE  AllFirm(x)'
    <3>1. CASE Opened(2, d) BY <2>1, <2>9, <2>10, <3>1
    <3>2. CASE ~Opened(2, d)
      <4>1. marks'[d] = marks[d] /\ ~Own(d) BY <2>1, <3>2 DEF Own
      <4>2. x \in SUBSET Rows /\ AllFirm(x) BY <2>5, <2>10, <4>1, MarkLines
      <4> QED BY <2>5, <4>2, MarkLines
    <3> QED BY <3>1, <3>2
  <2>11. Markers' BY <2>9, <2>10 DEF Markers
  <2>12. Undoable'
    <3>1. \A d \in Days : ~Own(d)' /\ (Own(d) <=> Opened(2, d)) BY <1>1, <2>2 DEF Own
    <3>2. clean' = clean /\ data' = data BY <1>1, <1>4
    <3>3. DOMAIN clean = {"files", "undone"} /\ \A d \in Days :
            /\ SameLines(data[d], Opened(1, d), task.len[<<1, d>>], clean.files.data[d])
            /\ SameLines(marks[d], Own(d), task.len[<<2, d>>], clean.files.marks[d])
          BY <1>1 DEF Inv, Undoable
    <3>4. \A d \in Days : Whole(marks'[d].cache) = Whole(clean.files.marks[d].cache)
      <4> TAKE d \in Days
      <4>1. CASE Opened(2, d) BY <2>1, <3>1, <3>3, <4>1 DEF SameLines
      <4>2. CASE ~Opened(2, d) BY <2>1, <3>1, <3>3, <4>2 DEF SameLines
      <4> QED BY <4>1, <4>2
    <3>5. \A d \in Days : SameLines(data[d], Opened(1, d)', task'.len[<<1, d>>], clean.files.data[d])
          BY <2>2, <2>4, <3>3 DEF SameLines
    <3> QED BY <3>1, <3>2, <3>3, <3>4, <3>5 DEF Undoable, SameLines
  <2>13. Task_OK' /\ Runners_OK' /\ Hot_OK' /\ Owned' /\ Acknowledged' /\ scene' \in Scenes BY <1>1, <2>3, <2>6, Moves
  <2> QED BY <2>1, <2>7, <2>8, <2>11, <2>12, <2>13 DEF Inv
<1>5. CASE /\ \E failing \in SUBSET Touched(2) \ {{}} : marks' \in Undo(marks, 2, failing)
           /\ clean' = [clean EXCEPT !.undone = FALSE] /\ Finish("err")
  <2>1. PICK failing : marks' \in Undo(marks, 2, failing) BY <1>5
  <2>2. /\ Files_OK'
        /\ \A d \in Days : /\ marks'[d].disk \in {marks[d].disk, marks'[d].cache}
                           /\ Len(marks'[d].cache) <= Len(marks[d].cache)
                           /\ \A i \in 1 .. Len(marks'[d].cache) : marks'[d].cache[i] = marks[d].cache[i]
        BY <1>1, <2>1, UndoneMarks
  <2>3. ASSUME NEW d \in Days, NEW x, x \in ToSet(marks'[d].cache) PROVE x \in ToSet(marks[d].cache)
    <3>1. FileOK(marks'[d], SUBSET Rows) BY <2>2 DEF Files_OK
    <3>2. /\ DOMAIN marks'[d].cache = 1 .. Len(marks'[d].cache) /\ Len(marks'[d].cache) \in Nat
          /\ DOMAIN marks[d].cache = 1 .. Len(marks[d].cache) /\ Len(marks[d].cache) \in Nat
          BY <1>2, <3>1 DEF FileOK
    <3>3. PICK i \in 1 .. Len(marks'[d].cache) : marks'[d].cache[i] = x BY <2>3, <3>2 DEF ToSet
    <3>4. i \in 1 .. Len(marks[d].cache) /\ marks[d].cache[i] = x BY <2>2, <3>2, <3>3
    <3> QED BY <3>2, <3>4 DEF ToSet
  <2>4. \A d \in Days : \A x \in SUBSET Rows :
           x \in ToSet(marks'[d].cache) \/ x \in ToSet(marks'[d].disk) =>
           x \in ToSet(marks[d].cache) \/ x \in ToSet(marks[d].disk)
    <3> TAKE d \in Days
    <3>1. marks'[d].disk = marks[d].disk \/ marks'[d].disk = marks'[d].cache BY <2>2
    <3> QED BY <2>3, <3>1
  <2>5. \A r \in Rows : Kept(r) => Kept(r)' BY <1>1, KeptAlone
  <2>6. \A r \in Rows : Firm(r) => Kept(r)' BY <2>5 DEF Firm
  <2>7. task' = NoTask /\ Runners_OK' /\ Hot_OK' /\ Acknowledged' BY <1>1, <1>5, <2>6, AnswerGiven
  <2>8. DOMAIN clean' = {"files", "undone"} BY <1>5 DEF Inv, Undoable
  <2>9. Backed' BY <2>2, <2>4, <2>5, MarkersStay
  <2> QED BY <1>1, <2>2, <2>7, <2>8, <2>9, TaskEnds
<1> QED BY <1>1, <1>4, <1>5

(* What a rollback of the data files, whole or not, leaves of them. *)
LEMMA UndoneData ==
    ASSUME Inv, NEW failing, data' \in Undo(data, 1, failing), marks' = marks
    PROVE  /\ Files_OK' /\ \A r \in Rows : Firm(r) => Kept(r)'
           /\ \A d \in Days \ failing : Opened(1, d) =>
                data'[d].cache = SubSeq(data[d].cache, 1, task.len[<<1, d>>]) /\ Whole(data'[d].cache) = data'[d].cache
           /\ \A d \in Days : ~Opened(1, d) => data'[d] = data[d]
<1>1. /\ DOMAIN data = Days /\ DOMAIN marks = Days
      /\ \A d \in Days : FileOK(data[d], Rows) /\ FileOK(marks[d], SUBSET Rows)
      BY TaskType
<1>2. /\ DOMAIN data' = Days
      /\ \A d \in Days :
           /\ ~Opened(1, d) => data'[d] = data[d]
           /\ Opened(1, d) => data'[d] \in {data[d], set_len(data[d], task.len[<<1, d>>]),
                                            Restored(data[d], task.len[<<1, d>>])}
           /\ Opened(1, d) /\ d \notin failing => data'[d] = Restored(data[d], task.len[<<1, d>>])
      BY UndoFacts
<1>3. ASSUME NEW d \in Days, Opened(1, d)
      PROVE  /\ FileOK(data'[d], Rows)
             /\ \A r \in Rows : FirmIn(data[d], task.len[<<1, d>>], r) => KeptIn(data'[d], r)
             /\ d \notin failing =>
                  data'[d].cache = SubSeq(data[d].cache, 1, task.len[<<1, d>>]) /\ Whole(data'[d].cache) = data'[d].cache
  <2>1. PICK f, g, n : f = data[d] /\ g = data'[d] /\ n = task.len[<<1, d>>] OBVIOUS
  <2>2. FileOK(f, Rows) /\ Half \notin Rows BY <1>1, <2>1, NoHalf
  <2>3. LenOK(f, n) BY <1>3, <2>1 DEF Inv, Lens_OK
  <2>4. g \in {f, set_len(f, n), Restored(f, n)} /\ (d \notin failing => g = Restored(f, n)) BY <1>2, <1>3, <2>1
  <2>5. FileOK(g, Rows) /\ \A r \in Rows : FirmIn(f, n, r) => KeptIn(g, r) BY <2>2, <2>3, <2>4, UndoneFile
  <2>6. d \notin failing => g.cache = SubSeq(f.cache, 1, n) /\ Whole(g.cache) = g.cache
        BY <2>2, <2>3, <2>4, RestoredFile
  <2> QED BY <2>1, <2>5, <2>6
<1>4. Files_OK' BY <1>1, <1>2, <1>3 DEF Files_OK
<1>5. ASSUME NEW r \in Rows, Firm(r) PROVE Kept(r)'
  <2>1. Day[r] \in Days BY DayFacts
  <2>2. CASE Opened(1, Day[r]) BY <1>3, <1>5, <2>1, <2>2 DEF Firm, Kept
  <2>3. CASE ~Opened(1, Day[r]) BY <1>2, <1>5, <2>1, <2>3 DEF Firm, Kept
  <2> QED BY <2>2, <2>3
<1> QED BY <1>2, <1>3, <1>4, <1>5

LEMMA UndoDataStep == ASSUME Inv, undo_data PROVE Inv'
<1>1. /\ task.pc = "undodata" /\ UNCHANGED <<hot, marks, scene>> /\ Finish("err")
      /\ clean' = clean \/ clean' = [clean EXCEPT !.undone = FALSE]
      /\ \E failing : data' \in Undo(data, 1, failing)
      BY DEF undo_data
<1>2. Files_OK' /\ \A r \in Rows : Firm(r) => Kept(r)' BY <1>1, UndoneData
<1>3. task' = NoTask /\ Runners_OK' /\ Hot_OK' /\ Acknowledged' BY <1>1, <1>2, AnswerGiven
<1>4. DOMAIN clean' = {"files", "undone"} BY <1>1 DEF Inv, Undoable
<1>5. Backed' BY <1>1, <1>2, MarkersStay
<1> QED BY <1>1, <1>2, <1>3, <1>4, <1>5, TaskEnds

---------------------------------------------------------------------------
(* Aborts and crashes. *)
LEMMA AbortStep == ASSUME Inv, NEW n \in scene.runners, abort(n) PROVE Inv'
<1>1. /\ runner' = [runner EXCEPT ![n] = Fresh] /\ UNCHANGED <<hot, data, marks, clean, scene>>
      /\ task' = IF task.owner = n THEN [task EXCEPT !.owner = None] ELSE task
      BY DEF abort
<1>2. n \in Runners /\ n # None /\ DOMAIN runner = Runners BY SceneAssumption, TokenAssumption DEF Inv, Runners_OK
<1>3. /\ DOMAIN task' = TaskFields /\ task'.owner = (IF task.owner = n THEN None ELSE task.owner) /\ task'.pc = task.pc
      /\ task'.rows = task.rows /\ task'.phase = task.phase /\ task'.todo = task.todo /\ task'.len = task.len
      BY <1>1, TaskType DEF TaskFields
<1>4. runner'[n] = Fresh /\ DOMAIN runner' = Runners /\ \A m \in Runners : m # n => runner'[m] = runner[m] BY <1>1, <1>2
<1>5. \A ph, d : Opened(ph, d)' <=> Opened(ph, d) BY <1>3 DEF Opened
<1>6. \A r : (Firm(r)' <=> Firm(r)) /\ (Kept(r)' <=> Kept(r)) BY <1>1, <1>3, <1>5 DEF Firm, Kept
<1>7. Task_OK'
  <2>1. Task_OK BY DEF Inv
  <2>2. task' = NoTask => task.pc = "none" BY <1>3, NoTaskFacts
  <2>3. ASSUME task.pc = "none" PROVE task' = NoTask
    <3>1. task = NoTask BY <2>1, <2>3 DEF Task_OK
    <3>2. task.owner # n BY <1>2, <3>1, NoTaskFacts
    <3> QED BY <1>1, <3>1, <3>2
  <2>4. task'.owner \in scene'.runners \cup {None} BY <1>1, <1>3, <2>1 DEF Task_OK
  <2> QED BY <1>3, <2>1, <2>2, <2>3, <2>4 DEF Task_OK
<1>8. Runners_OK' BY <1>4, FreshOK DEF Inv, Runners_OK
<1>9. Hot_OK' /\ Files_OK' /\ scene' \in Scenes BY <1>1 DEF Inv, Hot_OK, Files_OK
<1>10. Lens_OK'
  <2>1. Group' = Group BY <1>1, <1>3 DEF Group
  <2>2. Lens_OK BY DEF Inv
  <2> QED BY <1>1, <1>3, <1>5, <2>1, <2>2 DEF Lens_OK
<1>11. Acknowledged'
  <2>1. \A r \in Rows : hot'[r].state # "hot" => Firm(r)' BY <1>1, <1>6 DEF Inv, Acknowledged
  <2>2. ASSUME NEW m \in Runners
        PROVE  /\ \A r \in runner'[m].taken : Firm(r)'
               /\ runner'[m].pc = "answered" /\ runner'[m].answer = "ok" => \A r \in runner'[m].ask : Firm(r)'
    <3>1. CASE m = n BY <1>4, <3>1, FreshOK
    <3>2. CASE m # n BY <1>4, <1>6, <3>2 DEF Inv, Acknowledged
    <3> QED BY <3>1, <3>2
  <2> QED BY <2>1, <2>2 DEF Acknowledged
<1>12. \A d : Own(d)' <=> Own(d) BY <1>3, <1>5 DEF Own
<1>13. Markers' BY <1>1, <1>3, <1>6, <1>12 DEF Inv, Markers, AllFirm, AllKept
<1>14. Progress' BY <1>1, <1>3, <1>6 DEF Inv, Progress, AllKept, InCache, OnDisk
<1>15. Owned'
  <2> SUFFICES ASSUME task'.owner \in Runners
               PROVE  runner'[task'.owner].pc = "wait" /\ runner'[task'.owner].ask = task'.rows
      BY DEF Owned
  <2>1. task'.owner = task.owner /\ task.owner # n BY <1>3, TokenAssumption
  <2> QED BY <1>3, <1>4, <2>1 DEF Inv, Owned
<1>16. Undoable'
  <2>1. Undoable BY DEF Inv
  <2> QED BY <1>1, <1>3, <1>5, <1>12, <2>1 DEF Undoable, SameLines
<1> QED BY <1>7, <1>8, <1>9, <1>10, <1>11, <1>13, <1>14, <1>15, <1>16 DEF Inv

(* Everything starts afresh over files in which kept rows are kept. *)
LEMMA StartsAfresh ==
    ASSUME Inv, runner' = [n \in Runners |-> Fresh], task' = NoTask, UNCHANGED <<hot, clean, scene>>, Files_OK',
           \A r \in Rows : Kept(r) => Kept(r)',
           \A d \in Days : \A x \in SUBSET Rows :
              x \in ToSet(marks'[d].cache) \/ x \in ToSet(marks'[d].disk) =>
              x \in ToSet(marks[d].cache) \/ x \in ToSet(marks[d].disk)
    PROVE  Inv'
<1>1. Runners_OK' /\ Hot_OK' BY FreshOK DEF Inv, Runners_OK, Hot_OK
<1>2. Acknowledged'
  <2>1. \A r \in Rows : Firm(r) => Firm(r)' BY IdleNext DEF Firm
  <2>2. \A r \in Rows : hot'[r].state # "hot" => Firm(r)' BY <2>1 DEF Inv, Acknowledged
  <2> QED BY <2>2, FreshOK DEF Acknowledged
<1>3. DOMAIN clean' = {"files", "undone"} BY DEF Inv, Undoable
<1>4. Backed' BY MarkersStay
<1> QED BY <1>1, <1>2, <1>3, <1>4, TaskEnds

LEMMA KillStep == ASSUME Inv, kill_process PROVE Inv'
<1>1. runner' = [n \in Runners |-> Fresh] /\ task' = NoTask /\ UNCHANGED <<hot, data, marks, clean, scene>>
      BY DEF kill_process
<1>2. Files_OK' BY <1>1 DEF Inv, Files_OK
<1>3. \A r \in Rows : Kept(r) => Kept(r)' BY <1>1, KeptAlone
<1> QED BY <1>1, <1>2, <1>3, StartsAfresh

LEMMA LosePowerStep == ASSUME Inv, lose_power PROVE Inv'
<1>1. /\ runner' = [n \in Runners |-> Fresh] /\ task' = NoTask /\ UNCHANGED <<hot, clean, scene>>
      /\ DOMAIN data' = Days /\ \A d \in Days : data'[d] \in Survivors(data[d])
      /\ DOMAIN marks' = Days /\ \A d \in Days : marks'[d] \in Survivors(marks[d])
      BY DEF lose_power, PerDay
<1>2. \A d \in Days : FileOK(data[d], Rows) /\ FileOK(marks[d], SUBSET Rows) BY TaskType
<1>3. ASSUME NEW d \in Days
      PROVE  FileOK(data'[d], Rows) /\ \A r \in Rows : KeptIn(data[d], r) => KeptIn(data'[d], r)
      BY <1>1, <1>2, NoHalf, SurvivingFile
<1>4. ASSUME NEW d \in Days
      PROVE  /\ FileOK(marks'[d], SUBSET Rows) /\ marks'[d].disk = marks'[d].cache
             /\ \A x \in SUBSET Rows : x \in ToSet(marks'[d].cache) =>
                  x \in ToSet(marks[d].cache) \/ x \in ToSet(marks[d].disk)
  <2>1. PICK T, f, g : T = SUBSET Rows /\ f = marks[d] /\ g = marks'[d] OBVIOUS
  <2>2. Half \notin T /\ FileOK(f, T) /\ g \in Survivors(f) BY <1>1, <1>2, <2>1, NoHalf
  <2>3. /\ FileOK(g, T) /\ g.disk = g.cache
        /\ \A x \in T : x \in ToSet(g.cache) => x \in ToSet(f.cache) \/ x \in ToSet(f.disk)
        BY <2>2, SurvivingFile
  <2> QED BY <2>1, <2>3
<1>5. Files_OK' BY <1>1, <1>3, <1>4 DEF Files_OK
<1>6. \A r \in Rows : Kept(r) => Kept(r)' BY <1>3, DayFacts DEF Kept
<1>7. \A d \in Days : \A x \in SUBSET Rows :
         x \in ToSet(marks'[d].cache) \/ x \in ToSet(marks'[d].disk) =>
         x \in ToSet(marks[d].cache) \/ x \in ToSet(marks[d].disk)
      BY <1>4
<1> QED BY <1>1, <1>5, <1>6, <1>7, StartsAfresh

---------------------------------------------------------------------------
LEMMA NothingMoves == ASSUME Inv, UNCHANGED vars PROVE Inv'
<1>1. UNCHANGED <<hot, data, marks, task, runner, clean, scene>> BY DEF vars
<1>2. Runners_OK' /\ Hot_OK' /\ Owned' BY <1>1 DEF Inv, Runners_OK, Hot_OK, Owned
<1>3. Acknowledged' BY <1>1, FirmAlone DEF Inv, Acknowledged
<1> QED BY <1>1, <1>2, <1>3, FilesAlone

LEMMA NextInv == Inv /\ [Next]_vars => Inv'
<1> SUFFICES ASSUME Inv, [Next]_vars PROVE Inv' OBVIOUS
<1>1. scene.runners \subseteq Runners BY SceneAssumption DEF Inv
<1>2. CASE TaskSteps
      BY <1>2, CheckStep, OpenStep, WriteStep, SyncStep, DirsStep, UndoMarkersStep, UndoDataStep DEF TaskSteps
<1>3. CASE rest BY <1>3, RestStep
<1>4. CASE \E n \in scene.runners : LoopSteps(n)
  <2>1. PICK n \in scene.runners : LoopSteps(n) BY <1>4
  <2>2. n \in Runners BY <1>1
  <2> QED BY <2>1, <2>2, SelectStep, TurnAwayStep, LockStep, AnsweredStep, MarkStep, PurgeStep DEF LoopSteps
<1>5. CASE \E n \in scene.runners : abort(n) BY <1>5, AbortStep
<1>6. CASE kill_process BY <1>6, KillStep
<1>7. CASE lose_power BY <1>7, LosePowerStep
<1>8. CASE UNCHANGED vars BY <1>8, NothingMoves
<1> QED BY <1>2, <1>3, <1>4, <1>5, <1>6, <1>7, <1>8 DEF Next, Steps

(* The invariant the properties follow from. *)
THEOREM Invariant == Spec => []Inv
<1>1. Init => Inv BY InitInv
<1>2. Inv /\ [Next]_vars => Inv' BY NextInv
<1> QED BY <1>1, <1>2, PTL DEF Spec

LEMMA InvSound == Inv => ArchiveSound
<1> SUFFICES ASSUME Inv PROVE ArchiveSound OBVIOUS
<1>1. AcknowledgedDurable BY DEF Inv, Acknowledged, Firm, Kept, KeptIn, AcknowledgedDurable
<1>2. MarkerMeansDurable
  <2> SUFFICES ASSUME NEW d \in Days, NEW i \in 1 .. Len(marks[d].cache), marks[d].cache[i] # Half,
                      NEW r \in marks[d].cache[i]
               PROVE  data[Day[r]].linked /\ r \in ToSet(data[Day[r]].disk)
      BY DEF MarkerMeansDurable
  <2>1. AllFirm(marks[d].cache[i]) \/ AllKept(marks[d].cache[i]) BY DEF Inv, Markers
  <2>2. Kept(r) BY <2>1 DEF AllFirm, AllKept, Firm
  <2> QED BY <2>2 DEF Kept, KeptIn
<1>3. StaysReadable BY DEF Inv, Files_OK, FileOK, StaysReadable
<1> QED BY <1>1, <1>2, <1>3 DEF ArchiveSound

(* For any rows, days, runners and scenes: a row that was marked archived  *)
(* or purged, and every row a marker names, is on the disk under a durable *)
(* folder entry, and no line follows a torn one, whatever operation of     *)
(* archive_batch, mark or rollback fails and wherever the process or the   *)
(* power goes (filesystem.rs append_all_or_none, cut_torn_tail; tick).     *)
THEOREM SoundHolds == Spec => []ArchiveSound
BY Invariant, InvSound, PTL

---------------------------------------------------------------------------
(* A refused batch. *)
Ends(n) == task # NoTask /\ task' = NoTask /\ task.owner = n /\ runner'[n].answer = "err" /\ clean'.undone
Leaves == Lines(data') = Lines(clean.files.data) /\ Lines(marks') = Lines(clean.files.marks)

LEMMA AnsweredBy ==
    ASSUME Inv, NEW n \in Runners, task.owner = n, NEW a, Finish(a) PROVE runner'[n].answer = a
<1>1. n # None /\ DOMAIN runner = Runners /\ DOMAIN runner[n] = RunnerFields
      BY TokenAssumption DEF Inv, Runners_OK, RunnerOK
<1>2. runner' = [runner EXCEPT ![n].answer = a, ![n].pc = "answered"] BY <1>1 DEF Finish, Answer
<1> QED BY <1>1, <1>2 DEF RunnerFields

LEMMA UndoneLeaves == ASSUME Inv, undo_data, clean'.undone PROVE Leaves
<1>1. task.pc = "undodata" /\ marks' = marks BY DEF undo_data
<1>2. DOMAIN clean = {"files", "undone"} /\ \A d \in Days :
        /\ SameLines(data[d], Opened(1, d), task.len[<<1, d>>], clean.files.data[d])
        /\ SameLines(marks[d], Own(d), task.len[<<2, d>>], clean.files.marks[d])
      BY <1>1 DEF Inv, Undoable
<1>3. data' \in Undo(data, 1, {})
  <2>1. ASSUME clean' = [clean EXCEPT !.undone = FALSE] PROVE FALSE BY <1>2, <2>1
  <2> QED BY <2>1 DEF undo_data
<1>4. \A d \in Days : Whole(data'[d].cache) = Whole(clean.files.data[d].cache)
  <2> TAKE d \in Days
  <2>1. PICK failing : failing = {} /\ data' \in Undo(data, 1, failing) BY <1>3
  <2>2. d \in Days \ failing BY <2>1
  <2>3. CASE Opened(1, d)
    <3>1. data'[d].cache = SubSeq(data[d].cache, 1, task.len[<<1, d>>]) BY <1>1, <2>1, <2>2, <2>3, UndoneData
    <3> QED BY <1>2, <2>3, <3>1 DEF SameLines
  <2>4. CASE ~Opened(1, d)
    <3>1. data'[d] = data[d] BY <1>1, <2>1, <2>4, UndoneData
    <3> QED BY <1>2, <2>4, <3>1 DEF SameLines
  <2> QED BY <2>3, <2>4
<1>5. \A d \in Days : Whole(marks'[d].cache) = Whole(clean.files.marks[d].cache)
      BY <1>1, <1>2 DEF SameLines, Own
<1> QED BY <1>4, <1>5 DEF Leaves, Lines

LEMMA RefusedStep == ASSUME Inv, [Next]_vars, NEW n \in Runners, Ends(n) PROVE Leaves
<1>1. /\ task # NoTask /\ task' = NoTask /\ task.owner = n /\ runner'[n].answer = "err" /\ clean'.undone
      /\ task.pc # "none" /\ DOMAIN task = TaskFields /\ NoTask.pc = "none" /\ DOMAIN clean = {"files", "undone"}
      BY NoTaskFacts DEF Ends, Inv, Task_OK, Undoable
<1>2. CASE task' = task BY <1>1, <1>2
<1>3. ASSUME \E a \in {"ok"} : Finish(a) PROVE FALSE BY <1>1, <1>3, AnsweredBy
<1>4. ASSUME NEW p, p # "none", task'.pc = p PROVE FALSE BY <1>1, <1>4
<1>5. CASE check_recorded
  <2>1. CASE Finish("ok") BY <1>3, <2>1
  <2>2. CASE task' = [task EXCEPT !.pc = "open"] BY <1>1, <2>2 DEF TaskFields
  <2> QED BY <1>5, <2>1, <2>2 DEF check_recorded
<1>6. CASE open_files
  <2>1. CASE RollBack BY <1>1, <2>1 DEF RollBack, TaskFields
  <2>2. CASE ~RollBack
    <3>1. task'.pc = "write" BY <1>1, <1>6, <2>2 DEF open_files, TaskFields
    <3> QED BY <1>4, <3>1
  <2> QED BY <2>1, <2>2
<1>7. CASE write_file
  <2>1. CASE RollBack BY <1>1, <2>1 DEF RollBack, TaskFields
  <2>2. CASE ~RollBack
    <3>1. task'.pc \in {"write", "sync"} BY <1>1, <1>7, <2>2 DEF write_file, TaskFields
    <3> QED BY <1>4, <3>1
  <2> QED BY <2>1, <2>2
<1>8. CASE sync_file
  <2>1. CASE RollBack BY <1>1, <2>1 DEF RollBack, TaskFields
  <2>2. CASE ~RollBack
    <3>1. task'.pc \in {"sync", "dirs"} BY <1>1, <1>8, <2>2 DEF sync_file, TaskFields
    <3> QED BY <1>4, <3>1
  <2> QED BY <2>1, <2>2
<1>9. CASE sync_dirs
  <2>1. CASE RollBack BY <1>1, <2>1 DEF RollBack, TaskFields
  <2>2. CASE Finish("ok") BY <1>3, <2>2
  <2>3. CASE task' = [task EXCEPT !.phase = 2, !.pc = "open"] BY <1>1, <2>3 DEF TaskFields
  <2> QED BY <1>9, <2>1, <2>2, <2>3 DEF sync_dirs
<1>10. CASE undo_markers
  <2>1. CASE task' = [task EXCEPT !.pc = "undodata"] BY <1>1, <2>1 DEF TaskFields
  <2>2. CASE clean' = [clean EXCEPT !.undone = FALSE] BY <1>1, <2>2
  <2> QED BY <1>10, <2>1, <2>2 DEF undo_markers
<1>11. CASE undo_data BY <1>1, <1>11, UndoneLeaves
<1>12. CASE rest BY <1>2, <1>12 DEF rest
<1>13. CASE \E m \in scene.runners : LoopSteps(m)
  <2>1. PICK m \in scene.runners : LoopSteps(m) BY <1>13
  <2>2. CASE lock_root(m) BY <1>1, <2>2 DEF lock_root
  <2>3. CASE ~lock_root(m)
        BY <1>2, <2>1, <2>3 DEF LoopSteps, select_unarchived, turn_away, answered, mark_archived, purge
  <2> QED BY <2>2, <2>3
<1>14. CASE \E m \in scene.runners : abort(m)
  <2>1. task' = task \/ task' = [task EXCEPT !.owner = None] BY <1>14 DEF abort
  <2>2. task'.pc = task.pc BY <1>1, <2>1 DEF TaskFields
  <2> QED BY <1>1, <1>4, <2>2
<1>15. CASE kill_process \/ lose_power
  <2>1. runner'[n] = Fresh BY <1>15 DEF kill_process, lose_power
  <2>2. runner'[n].answer = None BY <2>1, FreshOK
  <2> QED BY <1>1, <2>2, TokenAssumption
<1>16. CASE UNCHANGED vars BY <1>2, <1>16 DEF vars
<1> QED BY <1>5, <1>6, <1>7, <1>8, <1>9, <1>10, <1>11, <1>12, <1>13, <1>14, <1>15, <1>16 DEF Next, Steps, TaskSteps

(* For any rows, days, runners and scenes: a batch the archiver refused to *)
(* its caller left no line and no marker behind when its rollback          *)
(* succeeded (filesystem.rs append_all_or_none, undo).                     *)
THEOREM RefusedHolds == Spec => RefusedLeavesNothing
<1>1. Inv /\ [Next]_vars =>
        [\A n \in Runners :
          /\ task # NoTask /\ task' = NoTask
          /\ task.owner = n /\ runner'[n].answer = "err"
          /\ clean'.undone
          => Lines(data') = Lines(clean.files.data) /\ Lines(marks') = Lines(clean.files.marks)]_vars
      BY RefusedStep DEF Ends, Leaves
<1> QED BY <1>1, Invariant, PTL DEF Spec, RefusedLeavesNothing
=============================================================================
