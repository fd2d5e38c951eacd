------------------------ MODULE LogoutEndpointsProofs ------------------------
(***************************************************************************)
(* Proofs about LogoutEndpoints, for every number of logins, deliveries    *)
(* and requests, every scene and every bound of the map and of the log: a  *)
(* logout finds the sessions it speaks of, a session ends only for cause,  *)
(* and a logout that was answered has done its work.                       *)
(*                                                                         *)
(* The argument: the map's entries are those of logins that have begun     *)
(* (MapOK); an operation of the map takes away entries and subjects whose  *)
(* session is gone, or the login at work owes their end or their return    *)
(* (SubjectFine, SidFine); what a login owes has aged out or was displaced *)
(* by it (LoginOK); what a logout has still to end is what its token       *)
(* speaks of (DeliveryOK); and once a session of a login is out of the     *)
(* registry nothing puts it back (LoginsKept).                             *)
(***************************************************************************)
EXTENDS LogoutEndpoints, TLAPS

-----------------------------------------------------------------------------
(* The sid map. *)

MapShape(m) ==
    DOMAIN m = {"entries", "order", "by_subject", "keys_of_session", "subject_of", "subjects",
                "subject_order"}
PairKeys(m) == \A k \in DOMAIN m.entries : k = <<k[1], k[2]>>
SubjectSlot(m, s) == <<m.subject_of[s].issuer, m.subject_of[s].subject>>

(* The two halves of Agrees, and what one index says. *)
EntriesAgree(m) ==
    /\ m.order = {<<m.entries[k].at, k>> : k \in DOMAIN m.entries}
    /\ DOMAIN m.keys_of_session = {m.entries[k].session : k \in DOMAIN m.entries}
    /\ \A s \in DOMAIN m.keys_of_session :
          m.keys_of_session[s] = {k \in DOMAIN m.entries : m.entries[k].session = s}
    /\ DOMAIN m.by_subject = {Slot(k, m.entries[k]) : k \in DOMAIN m.entries}
    /\ \A t \in DOMAIN m.by_subject :
          m.by_subject[t] = {k[2] : k \in {x \in DOMAIN m.entries : Slot(x, m.entries[x]) = t}}
SubjectsAgree(m) ==
    /\ DOMAIN m.subjects = {SubjectSlot(m, s) : s \in DOMAIN m.subject_of}
    /\ \A t \in DOMAIN m.subjects :
          m.subjects[t] = {<<m.subject_of[s].user, s>> : s \in {x \in DOMAIN m.subject_of : SubjectSlot(m, x) = t}}

LEMMA AgreesIs == ASSUME NEW m PROVE Agrees(m) <=> EntriesAgree(m) /\ SubjectsAgree(m)
BY DEF Agrees, EntriesAgree, SubjectsAgree, SubjectSlot

(* Nothing but the entries and their indexes, or nothing but the subjects. *)
SameSubjects(m, n) == n.subject_of = m.subject_of /\ n.subjects = m.subjects
SameEntries(m, n) ==
    /\ n.entries = m.entries /\ n.order = m.order /\ n.by_subject = m.by_subject
    /\ n.keys_of_session = m.keys_of_session

LEMMA SubjectsSame ==
    ASSUME NEW m, NEW n, SameSubjects(m, n), SubjectsAgree(m) PROVE SubjectsAgree(n)
BY DEF SameSubjects, SubjectsAgree, SubjectSlot

LEMMA EntriesSame ==
    ASSUME NEW m, NEW n, SameEntries(m, n), EntriesAgree(m) PROVE EntriesAgree(n)
BY DEF SameEntries, EntriesAgree, Slot

LEMMA PutIs ==
    ASSUME NEW f, NEW k, NEW v
    PROVE  /\ DOMAIN Put(f, k, v) = DOMAIN f \cup {k}
           /\ Put(f, k, v)[k] = v
           /\ \A x \in DOMAIN f : x # k => Put(f, k, v)[x] = f[x]
BY DEF Put

LEMMA AddToIs ==
    ASSUME NEW f, NEW k, NEW v
    PROVE  /\ DOMAIN AddTo(f, k, v) = DOMAIN f \cup {k}
           /\ \A x \in DOMAIN f : x # k => AddTo(f, k, v)[x] = f[x]
           /\ k \in DOMAIN f => AddTo(f, k, v)[k] = f[k] \cup {v}
           /\ k \notin DOMAIN f => AddTo(f, k, v)[k] = {v}
BY DEF AddTo, Put

(* Keys leave with all that the indexes say of them. *)
LEMMA RemoveAllAgrees ==
    ASSUME NEW m, MapShape(m), PairKeys(m), EntriesAgree(m), NEW K, NEW n, n = removeAll(m, K)
    PROVE  /\ MapShape(n) /\ EntriesAgree(n) /\ SameSubjects(m, n)
           /\ n.entries = [k \in DOMAIN m.entries \ K |-> m.entries[k]]
<1> DEFINE gone == K \cap DOMAIN m.entries
           bys == {<<Slot(k, m.entries[k]), k[2]>> : k \in gone}
           ks == {<<m.entries[k].session, k>> : k \in gone}
<1>1. /\ MapShape(n) /\ SameSubjects(m, n)
      /\ n.entries = Restrict(m.entries, DOMAIN m.entries \ gone)
      /\ n.order = m.order \ {<<m.entries[k].at, k>> : k \in gone}
      /\ n.by_subject = DropAll(m.by_subject, bys)
      /\ n.keys_of_session = DropAll(m.keys_of_session, ks)
      BY DEF removeAll, MapShape, SameSubjects
<1>2. n.entries = [k \in DOMAIN m.entries \ K |-> m.entries[k]]
      BY <1>1 DEF Restrict
<1>3. /\ DOMAIN n.entries = DOMAIN m.entries \ gone
      /\ \A k \in DOMAIN n.entries : n.entries[k] = m.entries[k]
      BY <1>2
<1>4. n.order = {<<n.entries[k].at, k>> : k \in DOMAIN n.entries}
  <2> DEFINE old == {<<m.entries[k].at, k>> : k \in gone}
  <2>1. \A k \in DOMAIN m.entries : <<m.entries[k].at, k>> \in old <=> k \in gone OBVIOUS
  <2>0. \A x : x \in n.order <=> x \in m.order /\ x \notin old BY <1>1
  <2>2. \A x : x \in m.order <=> \E k \in DOMAIN m.entries : x = <<m.entries[k].at, k>>
        BY DEF EntriesAgree
  <2>3. \A x : x \in n.order <=> \E k \in DOMAIN n.entries : x = <<n.entries[k].at, k>>
    <3> HIDE DEF old
    <3> QED BY <1>3, <2>0, <2>1, <2>2
  <2> QED BY <2>3
<1>0. ASSUME NEW s \in DOMAIN m.keys_of_session, NEW k \in m.keys_of_session[s]
      PROVE  /\ k \in DOMAIN m.entries /\ m.entries[k].session = s
             /\ <<s, k>> \notin ks <=> k \in DOMAIN n.entries
  <2>1. k \in DOMAIN m.entries /\ m.entries[k].session = s BY DEF EntriesAgree
  <2> QED BY <1>3, <2>1
<1>5. \A s : s \in DOMAIN n.keys_of_session <=> \E k \in DOMAIN n.entries : n.entries[k].session = s
  <2> TAKE s
  <2>1. s \in DOMAIN n.keys_of_session <=>
            s \in DOMAIN m.keys_of_session /\ \E k \in m.keys_of_session[s] : <<s, k>> \notin ks
        BY <1>1 DEF DropAll, Without
  <2>2. ASSUME NEW k \in DOMAIN n.entries, n.entries[k].session = s
        PROVE  s \in DOMAIN m.keys_of_session /\ k \in m.keys_of_session[s]
        BY <1>3, <2>2 DEF EntriesAgree
  <2> QED BY <1>0, <1>3, <2>1, <2>2
<1>6. \A s \in DOMAIN n.keys_of_session :
          n.keys_of_session[s] = {k \in DOMAIN n.entries : n.entries[k].session = s}
  <2> TAKE s \in DOMAIN n.keys_of_session
  <2>1. /\ s \in DOMAIN m.keys_of_session
        /\ n.keys_of_session[s] = {k \in m.keys_of_session[s] : <<s, k>> \notin ks}
        BY <1>1 DEF DropAll, Without
  <2>2. m.keys_of_session[s] = {k \in DOMAIN m.entries : m.entries[k].session = s}
        BY <2>1 DEF EntriesAgree
  <2>3. \A k \in m.keys_of_session[s] : <<s, k>> \notin ks <=> k \in DOMAIN n.entries BY <1>0, <2>1
  <2> QED BY <1>3, <2>1, <2>2, <2>3
<1>7. ASSUME NEW t \in DOMAIN m.by_subject, NEW v \in m.by_subject[t]
      PROVE  <<t, v>> \notin bys <=> \E k \in DOMAIN n.entries : Slot(k, n.entries[k]) = t /\ k[2] = v
  <2>1. PICK k \in DOMAIN m.entries : Slot(k, m.entries[k]) = t /\ k[2] = v BY DEF EntriesAgree
  <2>2. ASSUME NEW x \in DOMAIN m.entries, Slot(x, m.entries[x]) = t, x[2] = v PROVE x = k
        BY <2>1, <2>2 DEF Slot, PairKeys
  <2> QED BY <1>3, <2>1, <2>2
<1>8. \A t : t \in DOMAIN n.by_subject <=> \E k \in DOMAIN n.entries : Slot(k, n.entries[k]) = t
  <2> TAKE t
  <2>1. t \in DOMAIN n.by_subject <=>
            t \in DOMAIN m.by_subject /\ \E v \in m.by_subject[t] : <<t, v>> \notin bys
        BY <1>1 DEF DropAll, Without
  <2>2. ASSUME NEW k \in DOMAIN n.entries, Slot(k, n.entries[k]) = t
        PROVE  t \in DOMAIN m.by_subject /\ k[2] \in m.by_subject[t]
        BY <1>3, <2>2 DEF EntriesAgree
  <2> QED BY <1>7, <2>1, <2>2
<1>9. \A t \in DOMAIN n.by_subject :
          n.by_subject[t] = {k[2] : k \in {x \in DOMAIN n.entries : Slot(x, n.entries[x]) = t}}
  <2> TAKE t \in DOMAIN n.by_subject
  <2>1. t \in DOMAIN m.by_subject /\ n.by_subject[t] = {v \in m.by_subject[t] : <<t, v>> \notin bys}
        BY <1>1 DEF DropAll, Without
  <2>2. ASSUME NEW k \in DOMAIN n.entries, Slot(k, n.entries[k]) = t
        PROVE  k[2] \in m.by_subject[t]
        BY <1>3, <2>1, <2>2 DEF EntriesAgree
  <2> QED BY <1>7, <2>1, <2>2
<1>10. /\ DOMAIN n.keys_of_session = {n.entries[k].session : k \in DOMAIN n.entries}
       /\ DOMAIN n.by_subject = {Slot(k, n.entries[k]) : k \in DOMAIN n.entries}
       BY <1>5, <1>8
<1> QED BY <1>1, <1>2, <1>4, <1>6, <1>9, <1>10 DEF EntriesAgree

(* A session is forgotten with what the index says of it. *)
LEMMA ForgetAgrees ==
    ASSUME NEW m, MapShape(m), SubjectsAgree(m), NEW Q, NEW n, n = forget_subjects(m, Q)
    PROVE  /\ MapShape(n) /\ SubjectsAgree(n) /\ SameEntries(m, n)
           /\ \A s : s \in DOMAIN n.subject_of <=>
                  s \in DOMAIN m.subject_of /\ ~\E q \in Q : q[3] = s /\ RecordedFor(m, q[1], q[2], s)
           /\ \A s \in DOMAIN n.subject_of : n.subject_of[s] = m.subject_of[s]
<1> DEFINE gone == {q \in Q : RecordedFor(m, q[1], q[2], q[3])}
           P == {<<<<q[1], m.subject_of[q[3]].subject>>, <<q[2], q[3]>>>> : q \in gone}
<1>1. /\ MapShape(n) /\ SameEntries(m, n)
      /\ n.subject_of = Restrict(m.subject_of, DOMAIN m.subject_of \ {q[3] : q \in gone})
      /\ n.subjects = DropAll(m.subjects, P)
      BY DEF forget_subjects, MapShape, SameEntries
<1>2. /\ DOMAIN n.subject_of = DOMAIN m.subject_of \ {q[3] : q \in gone}
      /\ \A s \in DOMAIN n.subject_of : n.subject_of[s] = m.subject_of[s]
      BY <1>1 DEF Restrict
<1>3. \A s : s \in DOMAIN n.subject_of <=>
          s \in DOMAIN m.subject_of /\ ~\E q \in Q : q[3] = s /\ RecordedFor(m, q[1], q[2], s)
      BY <1>2
<1>4. ASSUME NEW s \in DOMAIN m.subject_of
      PROVE  <<SubjectSlot(m, s), <<m.subject_of[s].user, s>>>> \in P <=> s \notin DOMAIN n.subject_of
      BY <1>2 DEF RecordedFor, SubjectSlot
<1>5. \A s \in DOMAIN n.subject_of : SubjectSlot(n, s) = SubjectSlot(m, s) BY <1>2 DEF SubjectSlot
<1>6. ASSUME NEW t \in DOMAIN m.subjects, NEW v \in m.subjects[t]
      PROVE  <<t, v>> \notin P <=>
                 \E s \in DOMAIN n.subject_of : SubjectSlot(n, s) = t /\ v = <<n.subject_of[s].user, s>>
  <2>1. PICK s \in DOMAIN m.subject_of : SubjectSlot(m, s) = t /\ v = <<m.subject_of[s].user, s>>
        BY DEF SubjectsAgree
  <2>2. <<t, v>> \notin P <=> s \in DOMAIN n.subject_of BY <1>4, <2>1
  <2>3. ASSUME NEW x, v = <<n.subject_of[x].user, x>> PROVE x = s BY <2>1, <2>3
  <2> QED BY <1>2, <1>5, <2>1, <2>2, <2>3
<1>7. ASSUME NEW s \in DOMAIN n.subject_of
      PROVE  SubjectSlot(n, s) \in DOMAIN m.subjects
             /\ <<n.subject_of[s].user, s>> \in m.subjects[SubjectSlot(n, s)]
      BY <1>2, <1>5 DEF SubjectsAgree
<1>8. \A t : t \in DOMAIN n.subjects <=> \E s \in DOMAIN n.subject_of : SubjectSlot(n, s) = t
  <2> TAKE t
  <2>1. t \in DOMAIN n.subjects <=> t \in DOMAIN m.subjects /\ \E v \in m.subjects[t] : <<t, v>> \notin P
        BY <1>1 DEF DropAll, Without
  <2> HIDE DEF P
  <2> QED BY <1>6, <1>7, <2>1
<1>9. \A t \in DOMAIN n.subjects :
          n.subjects[t] = {<<n.subject_of[s].user, s>> : s \in {x \in DOMAIN n.subject_of : SubjectSlot(n, x) = t}}
  <2> TAKE t \in DOMAIN n.subjects
  <2>1. t \in DOMAIN m.subjects /\ n.subjects[t] = {v \in m.subjects[t] : <<t, v>> \notin P}
        BY <1>1 DEF DropAll, Without
  <2> QED BY <1>6, <1>7, <2>1
<1>10. DOMAIN n.subjects = {SubjectSlot(n, s) : s \in DOMAIN n.subject_of} BY <1>8
<1> QED BY <1>1, <1>2, <1>3, <1>9, <1>10 DEF SubjectsAgree

(* An entry comes with its items in the indexes. *)
LEMMA AddsEntry ==
    ASSUME NEW b, EntriesAgree(b), NEW k, k \notin DOMAIN b.entries, NEW e, NEW n,
           n.entries = Put(b.entries, k, e),
           n.order = b.order \cup {<<e.at, k>>},
           n.keys_of_session = AddTo(b.keys_of_session, e.session, k),
           n.by_subject = AddTo(b.by_subject, Slot(k, e), k[2])
    PROVE  EntriesAgree(n)
<1>1. /\ DOMAIN n.entries = DOMAIN b.entries \cup {k}
      /\ n.entries[k] = e
      /\ \A x \in DOMAIN b.entries : x # k /\ n.entries[x] = b.entries[x]
      BY DEF Put
<1>2. n.order = {<<n.entries[x].at, x>> : x \in DOMAIN n.entries} BY <1>1 DEF EntriesAgree
<1>3. DOMAIN n.keys_of_session = {n.entries[x].session : x \in DOMAIN n.entries}
      BY <1>1 DEF EntriesAgree, AddTo, Put
<1>4. ASSUME NEW s \in DOMAIN n.keys_of_session
      PROVE  n.keys_of_session[s] = {x \in DOMAIN n.entries : n.entries[x].session = s}
  <2>1. CASE s # e.session
    <3>1. s \in DOMAIN b.keys_of_session /\ n.keys_of_session[s] = b.keys_of_session[s] BY <2>1 DEF AddTo, Put
    <3> QED BY <1>1, <2>1, <3>1 DEF EntriesAgree
  <2>2. CASE s = e.session /\ s \in DOMAIN b.keys_of_session
    <3>1. n.keys_of_session[s] = b.keys_of_session[s] \cup {k} BY <2>2 DEF AddTo, Put
    <3> QED BY <1>1, <2>2, <3>1 DEF EntriesAgree
  <2>3. CASE s = e.session /\ s \notin DOMAIN b.keys_of_session
    <3>1. n.keys_of_session[s] = {k} BY <2>3 DEF AddTo, Put
    <3> QED BY <1>1, <2>3, <3>1 DEF EntriesAgree
  <2> QED BY <2>1, <2>2, <2>3
<1>5. /\ Slot(k, n.entries[k]) = Slot(k, e)
      /\ \A x \in DOMAIN b.entries : Slot(x, n.entries[x]) = Slot(x, b.entries[x])
      BY <1>1
<1>6. DOMAIN n.by_subject = {Slot(x, n.entries[x]) : x \in DOMAIN n.entries}
  <2>1. DOMAIN n.by_subject = DOMAIN b.by_subject \cup {Slot(k, e)} BY DEF AddTo, Put
  <2>2. \A t : t \in DOMAIN b.by_subject <=> \E x \in DOMAIN b.entries : Slot(x, b.entries[x]) = t
        BY DEF EntriesAgree
  <2> QED BY <1>1, <1>5, <2>1, <2>2
<1>7. ASSUME NEW t \in DOMAIN n.by_subject
      PROVE  n.by_subject[t] = {x[2] : x \in {y \in DOMAIN n.entries : Slot(y, n.entries[y]) = t}}
  <2> DEFINE had == {x[2] : x \in {y \in DOMAIN b.entries : Slot(y, b.entries[y]) = t}}
             has == {x[2] : x \in {y \in DOMAIN n.entries : Slot(y, n.entries[y]) = t}}
  <2>1. has = IF t = Slot(k, e) THEN had \cup {k[2]} ELSE had BY <1>1, <1>5
  <2>2. t \in DOMAIN b.by_subject => b.by_subject[t] = had BY DEF EntriesAgree
  <2>3. t \notin DOMAIN b.by_subject => had = {} BY DEF EntriesAgree
  <2> HIDE DEF had, has
  <2>4. CASE t # Slot(k, e)
    <3>1. t \in DOMAIN b.by_subject /\ n.by_subject[t] = b.by_subject[t] BY <2>4 DEF AddTo, Put
    <3> QED BY <2>1, <2>2, <2>4, <3>1 DEF has
  <2>5. CASE t = Slot(k, e) /\ t \in DOMAIN b.by_subject
    <3>1. n.by_subject[t] = b.by_subject[t] \cup {k[2]} BY <2>5 DEF AddTo, Put
    <3> QED BY <2>1, <2>2, <2>5, <3>1 DEF has
  <2>6. CASE t = Slot(k, e) /\ t \notin DOMAIN b.by_subject
    <3>1. n.by_subject[t] = {k[2]} BY <2>6 DEF AddTo, Put
    <3> QED BY <2>1, <2>3, <2>6, <3>1 DEF has
  <2> QED BY <2>4, <2>5, <2>6
<1> QED BY <1>2, <1>3, <1>4, <1>6, <1>7 DEF EntriesAgree

(* The index of an unchanged subject may keep the sid that goes and comes. *)
LEMMA SameSlot ==
    ASSUME NEW m, MapShape(m), PairKeys(m), EntriesAgree(m), NEW k \in DOMAIN m.entries, NEW r,
           r = removeAll(m, {k}), NEW t, t = Slot(k, m.entries[k])
    PROVE  AddTo(m.by_subject, t, k[2]) = AddTo(r.by_subject, t, k[2])
<1>1. /\ EntriesAgree(r)
      /\ DOMAIN r.entries = DOMAIN m.entries \ {k}
      /\ \A x \in DOMAIN r.entries : r.entries[x] = m.entries[x]
  <2>1. EntriesAgree(r) /\ r.entries = [x \in DOMAIN m.entries \ {k} |-> m.entries[x]] BY RemoveAllAgrees
  <2> QED BY <2>1
<1>2. t \in DOMAIN m.by_subject BY DEF EntriesAgree
<1>3. DOMAIN r.by_subject \cup {t} = DOMAIN m.by_subject
  <2>1. \A u : u \in DOMAIN r.by_subject <=> \E x \in DOMAIN r.entries : Slot(x, r.entries[x]) = u
        BY <1>1 DEF EntriesAgree
  <2>2. \A u : u \in DOMAIN m.by_subject <=> \E x \in DOMAIN m.entries : Slot(x, m.entries[x]) = u
        BY DEF EntriesAgree
  <2> QED BY <1>1, <2>1, <2>2
<1>4. ASSUME NEW u \in DOMAIN r.by_subject, u # t PROVE r.by_subject[u] = m.by_subject[u]
  <2>1. u \in DOMAIN m.by_subject BY <1>3
  <2>2. r.by_subject[u] = {x[2] : x \in {y \in DOMAIN r.entries : Slot(y, r.entries[y]) = u}}
        BY <1>1 DEF EntriesAgree
  <2>3. m.by_subject[u] = {x[2] : x \in {y \in DOMAIN m.entries : Slot(y, m.entries[y]) = u}}
        BY <2>1 DEF EntriesAgree
  <2>4. \A y : y \in DOMAIN r.entries /\ Slot(y, r.entries[y]) = u <=>
               y \in DOMAIN m.entries /\ Slot(y, m.entries[y]) = u
        BY <1>1, <1>4
  <2> QED BY <2>2, <2>3, <2>4
<1>5. /\ t \in DOMAIN r.by_subject => m.by_subject[t] \cup {k[2]} = r.by_subject[t] \cup {k[2]}
      /\ t \notin DOMAIN r.by_subject => m.by_subject[t] \cup {k[2]} = {k[2]}
  <2>1. m.by_subject[t] = {x[2] : x \in {y \in DOMAIN m.entries : Slot(y, m.entries[y]) = t}}
        BY <1>2 DEF EntriesAgree
  <2>2. \A v : v \in m.by_subject[t] <=> \E y \in DOMAIN m.entries : Slot(y, m.entries[y]) = t /\ y[2] = v
        BY <2>1
  <2>3. ASSUME t \in DOMAIN r.by_subject
        PROVE  \A v : v \in r.by_subject[t] <=> \E y \in DOMAIN r.entries : Slot(y, r.entries[y]) = t /\ y[2] = v
    <3>1. r.by_subject[t] = {x[2] : x \in {y \in DOMAIN r.entries : Slot(y, r.entries[y]) = t}}
          BY <1>1, <2>3 DEF EntriesAgree
    <3> QED BY <3>1
  <2>4. t \notin DOMAIN r.by_subject => ~\E y \in DOMAIN r.entries : Slot(y, r.entries[y]) = t
        BY <1>1 DEF EntriesAgree
  <2>5. \A v : v \in m.by_subject[t] <=>
            v = k[2] \/ \E y \in DOMAIN r.entries : Slot(y, r.entries[y]) = t /\ y[2] = v
    <3>1. \A y \in DOMAIN m.entries : y = k \/ (y \in DOMAIN r.entries /\ r.entries[y] = m.entries[y]) BY <1>1
    <3>2. \A y \in DOMAIN r.entries : y \in DOMAIN m.entries /\ r.entries[y] = m.entries[y] BY <1>1
    <3>3. ASSUME NEW v, v \in m.by_subject[t]
          PROVE  v = k[2] \/ \E y \in DOMAIN r.entries : Slot(y, r.entries[y]) = t /\ y[2] = v
      <4>1. PICK y \in DOMAIN m.entries : Slot(y, m.entries[y]) = t /\ y[2] = v BY <2>2, <3>3
      <4>2. CASE y = k BY <4>1, <4>2
      <4>3. CASE y \in DOMAIN r.entries /\ r.entries[y] = m.entries[y] BY <4>1, <4>3
      <4> QED BY <3>1, <4>2, <4>3
    <3>4. ASSUME NEW v, NEW y \in DOMAIN r.entries, Slot(y, r.entries[y]) = t, y[2] = v
          PROVE  v \in m.by_subject[t]
      <4>1. y \in DOMAIN m.entries /\ Slot(y, m.entries[y]) = t BY <3>2, <3>4
      <4> QED BY <2>2, <3>4, <4>1
    <3>5. k[2] \in m.by_subject[t] BY <2>2
    <3> QED BY <3>3, <3>4, <3>5
  <2>6. CASE t \in DOMAIN r.by_subject
    <3>1. \A v : v \in m.by_subject[t] <=> v = k[2] \/ v \in r.by_subject[t] BY <2>3, <2>5, <2>6
    <3> QED BY <2>6, <3>1
  <2>7. CASE t \notin DOMAIN r.by_subject
    <3>1. \A v : v \in m.by_subject[t] <=> v = k[2] BY <2>4, <2>5, <2>7
    <3> QED BY <2>7, <3>1
  <2> QED BY <2>6, <2>7
<1> QED BY <1>2, <1>3, <1>4, <1>5 DEF AddTo, Put

LEMMA InsertAgrees ==
    ASSUME NEW m, MapShape(m), PairKeys(m), EntriesAgree(m), NEW k, NEW e, NEW n, n = insert(m, k, e)
    PROVE  /\ MapShape(n) /\ EntriesAgree(n) /\ SameSubjects(m, n)
           /\ n.entries = Put(m.entries, k, e)
<1> DEFINE r == removeAll(m, {k})
           t == Slot(k, e)
<1>1. CASE k \notin DOMAIN m.entries
  <2>1. n = [m EXCEPT !.entries = Put(@, k, e),
                      !.keys_of_session = AddTo(@, e.session, k),
                      !.by_subject = AddTo(@, t, k[2]),
                      !.order = @ \cup {<<e.at, k>>}]
        BY <1>1 DEF insert
  <2> HIDE DEF t
  <2>2. /\ MapShape(n) /\ SameSubjects(m, n)
        /\ n.entries = Put(m.entries, k, e)
        /\ n.order = m.order \cup {<<e.at, k>>}
        /\ n.keys_of_session = AddTo(m.keys_of_session, e.session, k)
        /\ n.by_subject = AddTo(m.by_subject, t, k[2])
        BY <2>1 DEF MapShape, SameSubjects
  <2> QED BY <1>1, <2>2, AddsEntry DEF t
<1>2. CASE k \in DOMAIN m.entries
  <2> DEFINE old == m.entries[k]
  <2>1. /\ MapShape(r) /\ EntriesAgree(r) /\ SameSubjects(m, r)
        /\ k \notin DOMAIN r.entries
        /\ r.entries = [x \in DOMAIN m.entries \ {k} |-> m.entries[x]]
        BY RemoveAllAgrees
  <2>2. /\ r.order = m.order \ {<<old.at, k>>}
        /\ r.by_subject = DropAll(m.by_subject, {<<Slot(x, m.entries[x]), x[2]>> : x \in {k} \cap DOMAIN m.entries})
        /\ r.keys_of_session = DropAll(m.keys_of_session, {<<m.entries[x].session, x>> : x \in {k} \cap DOMAIN m.entries})
        BY <1>2 DEF removeAll, MapShape
  <2>3. /\ {<<Slot(x, m.entries[x]), x[2]>> : x \in {k} \cap DOMAIN m.entries} = {<<Slot(k, old), k[2]>>}
        /\ {<<m.entries[x].session, x>> : x \in {k} \cap DOMAIN m.entries} = {<<old.session, k>>}
        BY <1>2
  <2>4. /\ r.by_subject = DropFrom(m.by_subject, Slot(k, old), k[2])
        /\ r.keys_of_session = DropFrom(m.keys_of_session, old.session, k)
        BY <2>2, <2>3 DEF DropFrom
  <2> DEFINE by == IF old.subject = e.subject THEN m.by_subject ELSE r.by_subject
  <2>5. n = [[m EXCEPT !.by_subject = by, !.keys_of_session = r.keys_of_session, !.order = r.order]
                EXCEPT !.entries = Put(@, k, e),
                       !.keys_of_session = AddTo(@, e.session, k),
                       !.by_subject = AddTo(@, t, k[2]),
                       !.order = @ \cup {<<e.at, k>>}]
        BY <1>2, <2>2, <2>4 DEF insert
  <2>6. AddTo(by, t, k[2]) = AddTo(r.by_subject, t, k[2])
        BY <1>2, SameSlot DEF Slot
  <2>7. Put(m.entries, k, e) = Put(r.entries, k, e) BY <1>2, <2>1 DEF Put
  <2> HIDE DEF by, r, t
  <2>8. /\ MapShape(n) /\ SameSubjects(m, n)
        /\ n.entries = Put(m.entries, k, e)
        /\ n.order = r.order \cup {<<e.at, k>>}
        /\ n.keys_of_session = AddTo(r.keys_of_session, e.session, k)
        /\ n.by_subject = AddTo(r.by_subject, t, k[2])
        BY <2>5, <2>6 DEF MapShape, SameSubjects
  <2> QED BY <2>1, <2>7, <2>8, AddsEntry DEF t
<1> QED BY <1>1, <1>2

(* A session comes into the subject registry with its item in the index. *)
LEMMA AddsSubject ==
    ASSUME NEW b, SubjectsAgree(b), NEW s, s \notin DOMAIN b.subject_of, NEW h, NEW slot,
           slot = <<h.issuer, h.subject>>, NEW n,
           n.subject_of = Put(b.subject_of, s, h),
           n.subjects = AddTo(b.subjects, slot, <<h.user, s>>)
    PROVE  SubjectsAgree(n)
<1>1. /\ DOMAIN n.subject_of = DOMAIN b.subject_of \cup {s}
      /\ n.subject_of[s] = h
      /\ \A x \in DOMAIN b.subject_of : x # s /\ n.subject_of[x] = b.subject_of[x]
      BY DEF Put
<1>2. /\ SubjectSlot(n, s) = slot
      /\ \A x \in DOMAIN b.subject_of : SubjectSlot(n, x) = SubjectSlot(b, x)
      BY <1>1 DEF SubjectSlot
<1>3. DOMAIN n.subjects = {SubjectSlot(n, x) : x \in DOMAIN n.subject_of}
  <2>1. DOMAIN n.subjects = DOMAIN b.subjects \cup {slot} BY DEF AddTo, Put
  <2>2. \A t : t \in DOMAIN b.subjects <=> \E x \in DOMAIN b.subject_of : SubjectSlot(b, x) = t
        BY DEF SubjectsAgree
  <2>3. \A t : t \in DOMAIN n.subjects <=> \E x \in DOMAIN n.subject_of : SubjectSlot(n, x) = t
        BY <1>1, <1>2, <2>1, <2>2
  <2> QED BY <2>3
<1>4. ASSUME NEW t \in DOMAIN n.subjects
      PROVE  n.subjects[t] = {<<n.subject_of[x].user, x>> : x \in {y \in DOMAIN n.subject_of : SubjectSlot(n, y) = t}}
  <2> DEFINE had == {<<b.subject_of[x].user, x>> : x \in {y \in DOMAIN b.subject_of : SubjectSlot(b, y) = t}}
             has == {<<n.subject_of[x].user, x>> : x \in {y \in DOMAIN n.subject_of : SubjectSlot(n, y) = t}}
  <2>1. CASE t # slot
    <3>1. t \in DOMAIN b.subjects /\ n.subjects[t] = b.subjects[t] BY <2>1 DEF AddTo, Put
    <3>2. b.subjects[t] = had BY <3>1 DEF SubjectsAgree
    <3>3. \A y : y \in DOMAIN n.subject_of /\ SubjectSlot(n, y) = t <=>
                 y \in DOMAIN b.subject_of /\ SubjectSlot(b, y) = t
          BY <1>1, <1>2, <2>1
    <3>4. has = had BY <1>1, <3>3
    <3> QED BY <3>1, <3>2, <3>4
  <2>2. CASE t = slot
    <3>1. n.subjects[t] = (IF t \in DOMAIN b.subjects THEN b.subjects[t] ELSE {}) \cup {<<h.user, s>>}
          BY <2>2 DEF AddTo, Put
    <3>2. (IF t \in DOMAIN b.subjects THEN b.subjects[t] ELSE {}) = had
      <4>1. CASE t \in DOMAIN b.subjects BY <4>1 DEF SubjectsAgree
      <4>2. CASE t \notin DOMAIN b.subjects
        <5>1. \A y \in DOMAIN b.subject_of : SubjectSlot(b, y) # t BY <4>2 DEF SubjectsAgree
        <5> QED BY <4>2, <5>1
      <4> QED BY <4>1, <4>2
    <3>3. \A y : y \in DOMAIN n.subject_of /\ SubjectSlot(n, y) = t <=>
                 y = s \/ (y \in DOMAIN b.subject_of /\ SubjectSlot(b, y) = t)
          BY <1>1, <1>2, <2>2
    <3>4. \A v : v \in has <=> v \in had \/ v = <<h.user, s>> BY <1>1, <3>3
    <3>5. has = had \cup {<<h.user, s>>} BY <3>4
    <3> QED BY <3>1, <3>2, <3>5
  <2> QED BY <2>1, <2>2
<1> QED BY <1>3, <1>4 DEF SubjectsAgree

LEMMA RegisterAgrees ==
    ASSUME NEW m, MapShape(m), SubjectsAgree(m), NEW iss, NEW sub, NEW user, NEW s, NEW slack, NEW n,
           n = register_subject(m, iss, sub, user, s, slack)
    PROVE  /\ MapShape(n) /\ SubjectsAgree(n) /\ SameEntries(m, n)
           /\ DOMAIN n.subject_of = DOMAIN m.subject_of \cup {s}
           /\ n.subject_of[s].issuer = iss /\ n.subject_of[s].subject = sub /\ n.subject_of[s].user = user
           /\ \A x \in DOMAIN m.subject_of : x # s => n.subject_of[x] = m.subject_of[x]
<1>1. CASE RecordedFor(m, iss, user, s) /\ m.subject_of[s].subject = sub
  <2>1. n = m BY <1>1 DEF register_subject
  <2> QED BY <1>1, <2>1 DEF RecordedFor, SameEntries
<1>2. CASE ~(RecordedFor(m, iss, user, s) /\ m.subject_of[s].subject = sub)
  <2> DEFINE free == IF s \notin DOMAIN m.subject_of THEN m
                     ELSE forget_subject(m, m.subject_of[s].issuer, m.subject_of[s].user, s)
             h == [issuer |-> iss, subject |-> sub, user |-> user]
             added == [free EXCEPT !.subjects = AddTo(@, <<iss, sub>>, <<user, s>>),
                                   !.subject_of = Put(@, s, h),
                                   !.subject_order = Append(@, <<iss, user, s>>)]
             queue == IF Len(added.subject_order) > 2 * Cardinality(DOMAIN added.subject_of) + slack
                      THEN SelectSeq(added.subject_order, LAMBDA q: RecordedFor(added, q[1], q[2], q[3]))
                      ELSE added.subject_order
  <2>1. n = [added EXCEPT !.subject_order = queue] BY <1>2 DEF register_subject
  <2>2. /\ MapShape(free) /\ SubjectsAgree(free) /\ SameEntries(m, free)
        /\ DOMAIN free.subject_of = DOMAIN m.subject_of \ {s}
        /\ \A x \in DOMAIN free.subject_of : free.subject_of[x] = m.subject_of[x]
    <3>1. CASE s \notin DOMAIN m.subject_of BY <3>1 DEF SameEntries
    <3>2. CASE s \in DOMAIN m.subject_of
      <4> DEFINE q == <<m.subject_of[s].issuer, m.subject_of[s].user, s>>
      <4>1. free = forget_subjects(m, {q}) BY <3>2 DEF forget_subject
      <4>2. RecordedFor(m, q[1], q[2], s) BY <3>2 DEF RecordedFor
      <4> HIDE DEF free
      <4>3. /\ MapShape(free) /\ SubjectsAgree(free) /\ SameEntries(m, free)
            /\ \A x : x \in DOMAIN free.subject_of <=>
                   x \in DOMAIN m.subject_of /\ ~\E p \in {q} : p[3] = x /\ RecordedFor(m, p[1], p[2], x)
            /\ \A x \in DOMAIN free.subject_of : free.subject_of[x] = m.subject_of[x]
        <5> HIDE DEF q
        <5> QED BY <4>1, ForgetAgrees
      <4>4. \A x : x \in DOMAIN free.subject_of <=> x \in DOMAIN m.subject_of /\ x # s
            BY <4>2, <4>3
      <4> QED BY <4>3, <4>4
    <3> QED BY <3>1, <3>2
  <2> HIDE DEF free, queue
  <2>3. /\ MapShape(n) /\ SameEntries(free, n)
        /\ n.subject_of = Put(free.subject_of, s, h)
        /\ n.subjects = AddTo(free.subjects, <<iss, sub>>, <<user, s>>)
    <3>1. /\ MapShape(added) /\ SameEntries(free, added)
          /\ added.subject_of = Put(free.subject_of, s, h)
          /\ added.subjects = AddTo(free.subjects, <<iss, sub>>, <<user, s>>)
          BY <2>2 DEF MapShape, SameEntries
    <3> HIDE DEF added, h
    <3> QED BY <2>1, <3>1 DEF MapShape, SameEntries
  <2>4. h.issuer = iss /\ h.subject = sub /\ h.user = user OBVIOUS
  <2> HIDE DEF h
  <2>5. SubjectsAgree(n)
    <3>1. PICK slot : slot = <<h.issuer, h.subject>> OBVIOUS
    <3>2. n.subjects = AddTo(free.subjects, slot, <<h.user, s>>) BY <2>3, <2>4, <3>1
    <3> QED BY <2>2, <2>3, <3>1, <3>2, AddsSubject
  <2>6. /\ DOMAIN n.subject_of = DOMAIN m.subject_of \cup {s}
        /\ n.subject_of[s] = h
        /\ \A x \in DOMAIN m.subject_of : x # s => n.subject_of[x] = m.subject_of[x]
        BY <2>2, <2>3 DEF Put
  <2>7. SameEntries(m, n) BY <2>2, <2>3 DEF SameEntries
  <2> QED BY <2>3, <2>4, <2>5, <2>6, <2>7
<1> QED BY <1>1, <1>2

LEMMA SweepAgrees ==
    ASSUME NEW m, MapShape(m), Agrees(m), NEW max, NEW n, n = sweep_subject_candidates(m, max)
    PROVE  MapShape(n) /\ SameEntries(m, n) /\ SameSubjects(m, n)
<1> DEFINE queue == SubSeq(m.subject_order, Min({max, Len(m.subject_order)}) + 1, Len(m.subject_order)) \o SweepFront(m, max)
<1>1. n = [m EXCEPT !.subject_order = queue] BY DEF sweep_subject_candidates
<1> HIDE DEF queue
<1> QED BY <1>1 DEF MapShape, SameEntries, SameSubjects

-----------------------------------------------------------------------------
(* What the map loses. *)

(* n is m without some entries and without some subjects. *)
Shrunk(m, n) ==
    /\ DOMAIN n.entries \subseteq DOMAIN m.entries
    /\ \A k \in DOMAIN n.entries : n.entries[k] = m.entries[k]
    /\ DOMAIN n.subject_of \subseteq DOMAIN m.subject_of
    /\ \A s \in DOMAIN n.subject_of : n.subject_of[s] = m.subject_of[s]

Sound(m) == MapShape(m) /\ PairKeys(m) /\ Agrees(m)

LEMMA RemoveShrinks ==
    ASSUME NEW m, Sound(m), NEW K, NEW n, n = removeAll(m, K)
    PROVE  /\ Sound(n) /\ Shrunk(m, n)
           /\ DOMAIN n.entries = DOMAIN m.entries \ K
           /\ n.subject_of = m.subject_of
<1>1. EntriesAgree(m) /\ SubjectsAgree(m) BY AgreesIs DEF Sound
<1>2. /\ MapShape(n) /\ EntriesAgree(n) /\ SameSubjects(m, n)
      /\ n.entries = [k \in DOMAIN m.entries \ K |-> m.entries[k]]
      BY <1>1, RemoveAllAgrees DEF Sound
<1>3. Agrees(n) BY <1>1, <1>2, SubjectsSame, AgreesIs
<1>4. /\ DOMAIN n.entries = DOMAIN m.entries \ K
      /\ \A k \in DOMAIN n.entries : n.entries[k] = m.entries[k]
      BY <1>2
<1>5. PairKeys(n) BY <1>4 DEF Sound, PairKeys
<1> QED BY <1>2, <1>3, <1>4, <1>5 DEF Sound, Shrunk, SameSubjects

LEMMA ForgetShrinks ==
    ASSUME NEW m, Sound(m), NEW Q, NEW n, n = forget_subjects(m, Q)
    PROVE  /\ Sound(n) /\ Shrunk(m, n)
           /\ n.entries = m.entries
           /\ \A s \in DOMAIN m.subject_of : s \in DOMAIN n.subject_of
                 \/ \E q \in Q : q[3] = s /\ RecordedFor(m, q[1], q[2], s)
<1>1. EntriesAgree(m) /\ SubjectsAgree(m) BY AgreesIs DEF Sound
<1>2. /\ MapShape(n) /\ SubjectsAgree(n) /\ SameEntries(m, n)
      /\ \A s : s \in DOMAIN n.subject_of <=>
             s \in DOMAIN m.subject_of /\ ~\E q \in Q : q[3] = s /\ RecordedFor(m, q[1], q[2], s)
      /\ \A s \in DOMAIN n.subject_of : n.subject_of[s] = m.subject_of[s]
      BY <1>1, ForgetAgrees DEF Sound
<1>3. Agrees(n) BY <1>1, <1>2, EntriesSame, AgreesIs
<1>4. n.entries = m.entries BY <1>2 DEF SameEntries
<1> QED BY <1>2, <1>3, <1>4 DEF Sound, PairKeys, Shrunk

(* remove_if and remove_session touch one session. *)
LEMMA ForgetOne ==
    ASSUME NEW m, Sound(m), NEW iss, NEW user, NEW s, NEW n, n = forget_subject(m, iss, user, s)
    PROVE  /\ Sound(n) /\ Shrunk(m, n)
           /\ n.entries = m.entries
           /\ DOMAIN m.subject_of \subseteq DOMAIN n.subject_of \cup {s}
<1> DEFINE q == <<iss, user, s>>
<1>1. n = forget_subjects(m, {q}) BY DEF forget_subject
<1>2. q[3] = s OBVIOUS
<1> HIDE DEF q
<1>3. /\ Sound(n) /\ Shrunk(m, n) /\ n.entries = m.entries
      /\ \A x \in DOMAIN m.subject_of : x \in DOMAIN n.subject_of
            \/ \E p \in {q} : p[3] = x /\ RecordedFor(m, p[1], p[2], x)
      BY <1>1, ForgetShrinks
<1> QED BY <1>2, <1>3

LEMMA RemoveIf ==
    ASSUME NEW m, Sound(m), NEW k, NEW s, NEW n, n = remove_if(m, k, s)
    PROVE  /\ Sound(n) /\ Shrunk(m, n)
           /\ \A x \in DOMAIN m.entries : x \in DOMAIN n.entries \/ m.entries[x].session = s
           /\ DOMAIN m.subject_of \subseteq DOMAIN n.subject_of \cup {s}
<1>1. CASE k \in DOMAIN m.entries /\ m.entries[k].session = s
  <2> DEFINE r == removeAll(m, {k})
  <2>1. n = forget_subject(r, k[1], m.entries[k].user, s) BY <1>1 DEF remove_if, remove
  <2>2. /\ Sound(r) /\ Shrunk(m, r)
        /\ DOMAIN r.entries = DOMAIN m.entries \ {k} /\ r.subject_of = m.subject_of
        BY RemoveShrinks
  <2> HIDE DEF r
  <2>3. /\ Sound(n) /\ Shrunk(r, n) /\ n.entries = r.entries
        /\ DOMAIN r.subject_of \subseteq DOMAIN n.subject_of \cup {s}
        BY <2>1, <2>2, ForgetOne
  <2> QED BY <1>1, <2>2, <2>3 DEF Shrunk
<1>2. CASE ~(k \in DOMAIN m.entries /\ m.entries[k].session = s)
  <2>1. n = m BY <1>2 DEF remove_if
  <2> QED BY <2>1 DEF Shrunk
<1> QED BY <1>1, <1>2

LEMMA RemoveSession ==
    ASSUME NEW m, Sound(m), NEW s, NEW n, n = remove_session(m, s)
    PROVE  /\ Sound(n) /\ Shrunk(m, n)
           /\ \A x \in DOMAIN m.entries : x \in DOMAIN n.entries \/ m.entries[x].session = s
           /\ DOMAIN m.subject_of \subseteq DOMAIN n.subject_of \cup {s}
<1> DEFINE r == IF s \in DOMAIN m.keys_of_session THEN removeAll(m, m.keys_of_session[s]) ELSE m
<1>1. /\ Sound(r) /\ Shrunk(m, r) /\ r.subject_of = m.subject_of
      /\ \A x \in DOMAIN m.entries : x \in DOMAIN r.entries \/ m.entries[x].session = s
  <2>1. CASE s \in DOMAIN m.keys_of_session
    <3>1. r = removeAll(m, m.keys_of_session[s]) BY <2>1
    <3>2. m.keys_of_session[s] = {k \in DOMAIN m.entries : m.entries[k].session = s}
          BY <2>1, AgreesIs DEF Sound, EntriesAgree
    <3> HIDE DEF r
    <3>3. /\ Sound(r) /\ Shrunk(m, r) /\ r.subject_of = m.subject_of
          /\ DOMAIN r.entries = DOMAIN m.entries \ m.keys_of_session[s]
          BY <3>1, RemoveShrinks
    <3> QED BY <3>2, <3>3
  <2>2. CASE s \notin DOMAIN m.keys_of_session
    <3>1. r = m BY <2>2
    <3> QED BY <3>1 DEF Shrunk
  <2> QED BY <2>1, <2>2
<1>2. n = IF s \in DOMAIN m.subject_of
          THEN forget_subject(r, m.subject_of[s].issuer, m.subject_of[s].user, s) ELSE r
      BY DEF remove_session
<1> HIDE DEF r
<1>3. CASE s \in DOMAIN m.subject_of
  <2>1. /\ Sound(n) /\ Shrunk(r, n) /\ n.entries = r.entries
        /\ DOMAIN r.subject_of \subseteq DOMAIN n.subject_of \cup {s}
        BY <1>1, <1>2, <1>3, ForgetOne
  <2> QED BY <1>1, <2>1 DEF Shrunk
<1>4. CASE s \notin DOMAIN m.subject_of BY <1>1, <1>2, <1>4
<1> QED BY <1>3, <1>4

-----------------------------------------------------------------------------
(* The inductive invariant. *)

(* A login is begun once its session may be registered. *)
Begun(lg, l) == lg[l].at \notin {"idle", "register"}
Gone(lg, rg, l) == Begun(lg, l) /\ PairOf(l) \notin rg
OfBegun(lg, s) == s[1] \in Logins /\ s = SessionOf(s[1]) /\ Begun(lg, s[1])

PairOK(lg, p) == OfBegun(lg, p[2]) /\ p = PairOf(p[2][1])
TripleOK(lg, q) == OfBegun(lg, q[3]) /\ q[2] = Claims[q[3][1]].user
EntryOK(lg, k, e) ==
    LET l == e.session[1] IN
    /\ OfBegun(lg, e.session) /\ k = KeyOf(l) /\ Claims[l].sid # NoSid
    /\ e.user = Claims[l].user /\ e.subject = Claims[l].sub /\ e.at = lg[l].now
RecordOK(lg, s, h) ==
    /\ OfBegun(lg, s)
    /\ h.issuer = Claims[s[1]].iss /\ h.subject = Claims[s[1]].sub /\ h.user = Claims[s[1]].user

MapOK(m, lg) ==
    /\ Sound(m)
    /\ \A k \in DOMAIN m.entries : EntryOK(lg, k, m.entries[k])
    /\ \A s \in DOMAIN m.subject_of : RecordOK(lg, s, m.subject_of[s])

(* What a login may still owe, and to whom. *)
Past == {"candidates", "sweep", "prune", "evict", "full", "evicted", "insert", "audit", "done", "cancelled"}
Refusing == {"restore", "revoke", "refused", "cut"}
AgedOut(lg, l, s) == lg[s[1]].now + SidTtl < lg[l].now
Displaces(lg, l, s) == KeyOf(s[1]) = KeyOf(l) /\ lg[l].at \in {"done", "cancelled"}
AgedOK(lg, l) ==
    /\ lg[l].aged # {} => lg[l].at \in {"evict", "full", "evicted", "insert", "audit", "restore"}
    /\ \A q \in lg[l].aged : TripleOK(lg, q) /\ AgedOut(lg, l, q[3])
DisplacedOK(lg, l) ==
    lg[l].displaced # Nothing =>
        /\ lg[l].at \in {"audit", "restore"}
        /\ lg[l].displaced.key = KeyOf(l) /\ EntryOK(lg, KeyOf(l), lg[l].displaced.was)
OwedOK(lg, ow, l) ==
    /\ ow[l] # {} => lg[l].at \in {"done", "revoke", "refused", "cut", "cancelled"}
    /\ \A q \in ow[l] : TripleOK(lg, q) /\ (AgedOut(lg, l, q[3]) \/ Displaces(lg, l, q[3]))
EndedOK(lg, rg, en, l) == \A q \in en[l] : TripleOK(lg, q) /\ Gone(lg, rg, q[3][1])
StageOK(lg, l) ==
    /\ lg[l].at \in {"prune", "evict", "full", "evicted", "insert"} => Claims[l].sid # NoSid
    /\ lg[l].mapped => lg[l].at \in Past \cup Refusing
LoginOK(lg, rg, ow, en, l) ==
    StageOK(lg, l) /\ AgedOK(lg, l) /\ DisplacedOK(lg, l) /\ OwedOK(lg, ow, l) /\ EndedOK(lg, rg, en, l)

(* What a logout has still to end, and why. *)
Speaks(t, l) == Claims[l].iss = t.iss /\ (t.sid = Claims[l].sid \/ t.sub = Claims[l].sub)
DeliveryOK(lg, rg, x, named) ==
    /\ x.at \in {"end", "unmap"} => \A p \in x.todo : PairOK(lg, p) /\ Speaks(x.token, p[2][1])
    /\ x.at = "unmap" => PairOK(lg, x.current) /\ Gone(lg, rg, x.current[2][1])
    /\ x.at \in {"end", "unmap"} /\ ~x.failed =>
          \A s \in named : OfBegun(lg, s) /\ (PairOf(s[1]) \notin rg \/ PairOf(s[1]) \in x.todo)
    /\ x.answer = 200 => x.at = "answered" /\ \A s \in named : OfBegun(lg, s) /\ PairOf(s[1]) \notin rg
FrontOK(lg, rg, x) ==
    /\ x.at \in {"end", "unmap"} => PairOK(lg, x.target) /\ x.key = KeyOf(x.target[2][1])
    /\ x.at = "unmap" => Gone(lg, rg, x.target[2][1])

(* Why a session ended, in terms that stay true. *)
Because(lg, dv, fr, s, c) ==
    \/ /\ c.by = "logout" /\ c.who \in Deliveries
       /\ dv[c.who].at # "idle" /\ Speaks(dv[c.who].token, s[1])
    \/ /\ c.by = "front" /\ c.who \in Fronts
       /\ fr[c.who].at # "idle" /\ fr[c.who].key = KeyOf(s[1])
    \/ /\ c.by = "login" /\ c.who \in Logins /\ lg[c.who].at # "idle"
       /\ AgedOut(lg, c.who, s) \/ Displaces(lg, c.who, s)
    \/ c.by = "own" /\ c.who = s[1] /\ lg[s[1]].at = "refused"
    \/ c.by = "other"
CauseOK(lg, dv, fr, cause) == \A s \in DOMAIN cause : OfBegun(lg, s) /\ Because(lg, dv, fr, s, cause[s])

LoginShape(x) == DOMAIN x = {"at", "now", "sweep", "aged", "displaced", "mapped"} /\ x.now \in Nat
DeliveryShape(x) == DOMAIN x = {"at", "token", "by", "todo", "current", "failed", "answer", "seen"}
FrontShape(x) == DOMAIN x = {"at", "key", "target"}
LoginShapes(lg) == DOMAIN lg = Logins /\ \A l \in Logins : LoginShape(lg[l])
DeliveryShapes(dv) == DOMAIN dv = Deliveries /\ \A d \in Deliveries : DeliveryShape(dv[d])
FrontShapes(fr) == DOMAIN fr = Fronts /\ \A f \in Fronts : FrontShape(fr[f])
BookShape(b) ==
    /\ DOMAIN b = {"cause", "unmapped", "overtaken", "replays", "named", "done"}
    /\ DOMAIN b.named = Deliveries
Shapes ==
    /\ scene \in Scenes /\ now \in Nat /\ DOMAIN owed = Logins /\ DOMAIN ended = Logins
    /\ LoginShapes(login) /\ DeliveryShapes(delivery) /\ FrontShapes(front) /\ BookShape(book)

(* The sessions that a sub and a sid still reach. *)
SubjectFine(m, lg, rg) ==
    \A l \in Logins : lg[l].at \in Past /\ PairOf(l) \in rg => SessionOf(l) \in DOMAIN m.subject_of
Owes(lg, ow, l) ==
    lg[l].aged \cup ow[l]
    \cup (IF lg[l].displaced = Nothing THEN {}
          ELSE {SubjectSession(lg[l].displaced.key[1], lg[l].displaced.was)})
Held(m, lg, ow, b, s) ==
    \/ s \in DOMAIN m.keys_of_session
    \/ \E l \in Logins : \E q \in Owes(lg, ow, l) : q[3] = s
    \/ s \in b.unmapped \cup b.overtaken
Mapped(lg, rg, l) ==
    lg[l].mapped /\ lg[l].at \notin Refusing /\ PairOf(l) \in rg
SidFine(m, lg, rg, ow, b) == \A l \in Logins : Mapped(lg, rg, l) => Held(m, lg, ow, b, SessionOf(l))

LogoutInv ==
    /\ Shapes
    /\ MapOK(sidmap, login)
    /\ SubjectFine(sidmap, login, registry)
    /\ SidFine(sidmap, login, registry, owed, book)
    /\ CauseOK(login, delivery, front, book.cause)
    /\ \A l \in Logins : LoginOK(login, registry, owed, ended, l)
    /\ \A d \in Deliveries : DeliveryOK(login, registry, delivery[d], book.named[d])
    /\ \A f \in Fronts : FrontOK(login, registry, front[f])

(* LogoutInv says what the properties say. *)
LEMMA ReachesIs == ASSUME LogoutInv PROVE LogoutReaches
<1>1. IndexesAgree BY DEF LogoutInv, MapOK, Sound, IndexesAgree
<1>2. SubjectReaches BY DEF LogoutInv, SubjectFine, SubjectReaches, PastSubject, Past, Registered
<1>3. SidReaches
  <2> SUFFICES ASSUME NEW l \in Logins, login[l].mapped, ~Refused(l), Registered(l)
               PROVE  \/ SessionOf(l) \in DOMAIN sidmap.keys_of_session
                      \/ Promised(SessionOf(l))
                      \/ SessionOf(l) \in book.unmapped \cup book.overtaken
      BY DEF SidReaches
  <2>1. Mapped(login, registry, l) BY DEF Mapped, Refused, Refusing, Registered
  <2>2. Held(sidmap, login, owed, book, SessionOf(l)) BY <2>1 DEF LogoutInv, SidFine
  <2>3. \A x \in Logins : Owes(login, owed, x) = login[x].aged \cup DisplacedBy(x) \cup owed[x]
        BY DEF Owes, DisplacedBy
  <2> QED BY <2>2, <2>3 DEF Held, Promised
<1> QED BY <1>1, <1>2, <1>3 DEF LogoutReaches

LEMMA DoneIs == ASSUME LogoutInv PROVE LogoutDone
<1> SUFFICES ASSUME NEW d \in Deliveries, delivery[d].answer = 200, NEW s \in book.named[d]
             PROVE  <<Claims[s[1]].user, s>> \notin registry
    BY DEF LogoutDone
<1>1. OfBegun(login, s) /\ PairOf(s[1]) \notin registry BY DEF LogoutInv, DeliveryOK
<1> QED BY <1>1 DEF OfBegun, PairOf

LEMMA ForCauseIs == ASSUME LogoutInv PROVE EndedForCause
<1> SUFFICES ASSUME NEW s \in DOMAIN book.cause, NEW c, c = book.cause[s]
             PROVE  CASE c.by = "logout" -> LET t == delivery[c.who].token IN
                             /\ Claims[s[1]].iss = t.iss
                             /\ t.sid = Claims[s[1]].sid \/ t.sub = Claims[s[1]].sub
                      [] c.by = "front" -> front[c.who].key = KeyOf(s[1])
                      [] c.by = "login" -> \/ login[s[1]].now + SidTtl < login[c.who].now
                                           \/ KeyOf(s[1]) = KeyOf(c.who) /\ ~Refused(c.who)
                      [] c.by = "own" -> c.who = s[1] /\ login[s[1]].at = "refused"
                      [] OTHER -> TRUE
    BY DEF EndedForCause
<1>1. Because(login, delivery, front, s, c) BY DEF LogoutInv, CauseOK
<1> QED BY <1>1 DEF Because, Speaks, AgedOut, Displaces, Refused

-----------------------------------------------------------------------------
(* What every step leaves true of logins, logouts and requests. *)

LoginsKept(lg, ng, rg, qg) ==
    \A l \in Logins :
        /\ lg[l].at # "idle" => ng[l].at # "idle" /\ ng[l].now = lg[l].now
        /\ Begun(lg, l) => Begun(ng, l) /\ (PairOf(l) \in qg => PairOf(l) \in rg)
        /\ lg[l].at \in {"done", "cancelled", "refused"} => ng[l].at = lg[l].at
DeliveriesKept(dv, nv) ==
    \A d \in Deliveries : dv[d].at # "idle" => nv[d].at # "idle" /\ nv[d].token = dv[d].token
FrontsKept(fr, nr) ==
    \A f \in Fronts : fr[f].at # "idle" => nr[f].at # "idle" /\ nr[f].key = fr[f].key

LEMMA BegunStays ==
    ASSUME NEW lg, NEW ng, NEW rg, NEW qg, LoginsKept(lg, ng, rg, qg), NEW s, OfBegun(lg, s)
    PROVE  /\ OfBegun(ng, s) /\ ng[s[1]].now = lg[s[1]].now
           /\ PairOf(s[1]) \notin rg => PairOf(s[1]) \notin qg
BY DEF LoginsKept, OfBegun, Begun

LEMMA MapStays ==
    ASSUME NEW lg, NEW ng, NEW rg, NEW qg, LoginsKept(lg, ng, rg, qg), NEW m, NEW n, MapOK(m, lg),
           Sound(n), Shrunk(m, n)
    PROVE  MapOK(n, ng)
<1>1. ASSUME NEW k \in DOMAIN n.entries PROVE EntryOK(ng, k, n.entries[k])
  <2>1. EntryOK(lg, k, n.entries[k]) BY DEF MapOK, Shrunk
  <2> QED BY <2>1, BegunStays DEF EntryOK
<1>2. ASSUME NEW s \in DOMAIN n.subject_of PROVE RecordOK(ng, s, n.subject_of[s])
  <2>1. RecordOK(lg, s, n.subject_of[s]) BY DEF MapOK, Shrunk
  <2> QED BY <2>1, BegunStays DEF RecordOK
<1> QED BY <1>1, <1>2 DEF MapOK

LEMMA EntryStays ==
    ASSUME NEW lg, NEW ng, NEW rg, NEW qg, LoginsKept(lg, ng, rg, qg), NEW k, NEW e, EntryOK(lg, k, e)
    PROVE  EntryOK(ng, k, e)
BY BegunStays DEF EntryOK

LEMMA TripleStays ==
    ASSUME NEW lg, NEW ng, NEW rg, NEW qg, LoginsKept(lg, ng, rg, qg), NEW q, TripleOK(lg, q)
    PROVE  /\ TripleOK(ng, q)
           /\ Gone(lg, rg, q[3][1]) => Gone(ng, qg, q[3][1])
           /\ \A l \in Logins : lg[l].at # "idle" /\ AgedOut(lg, l, q[3]) => AgedOut(ng, l, q[3])
<1>1. OfBegun(lg, q[3]) BY DEF TripleOK
<1>2. /\ OfBegun(ng, q[3]) /\ ng[q[3][1]].now = lg[q[3][1]].now
      /\ PairOf(q[3][1]) \notin rg => PairOf(q[3][1]) \notin qg
      BY <1>1, BegunStays
<1>3. \A l \in Logins : lg[l].at # "idle" => ng[l].now = lg[l].now BY DEF LoginsKept
<1> QED BY <1>2, <1>3 DEF TripleOK, Gone, AgedOut, OfBegun

LEMMA CauseStays ==
    ASSUME NEW lg, NEW ng, NEW rg, NEW qg, LoginsKept(lg, ng, rg, qg), NEW dv, NEW nv, DeliveriesKept(dv, nv),
           NEW fr, NEW nr, FrontsKept(fr, nr), NEW s, OfBegun(lg, s), NEW c, Because(lg, dv, fr, s, c)
    PROVE  Because(ng, nv, nr, s, c)
<1>1. ng[s[1]].now = lg[s[1]].now BY BegunStays
<1>2. s[1] \in Logins BY DEF OfBegun
<1> QED BY <1>1, <1>2 DEF Because, LoginsKept, DeliveriesKept, FrontsKept, AgedOut, Displaces

LEMMA LoginStays ==
    ASSUME NEW lg, NEW ng, NEW rg, NEW qg, LoginsKept(lg, ng, rg, qg), NEW ow, NEW nw, NEW en, NEW nn,
           NEW l \in Logins, ng[l] = lg[l], nw[l] = ow[l], nn[l] = en[l], LoginOK(lg, rg, ow, en, l)
    PROVE  LoginOK(ng, qg, nw, nn, l)
<1>1. StageOK(ng, l) BY DEF LoginOK, StageOK
<1>2. AgedOK(ng, l) BY TripleStays DEF LoginOK, AgedOK
<1>3. DisplacedOK(ng, l) BY EntryStays DEF LoginOK, DisplacedOK
<1>4. OwedOK(ng, nw, l) BY TripleStays DEF LoginOK, OwedOK, Displaces
<1>5. EndedOK(ng, qg, nn, l) BY TripleStays DEF LoginOK, EndedOK
<1> QED BY <1>1, <1>2, <1>3, <1>4, <1>5 DEF LoginOK

LEMMA DeliveryStays ==
    ASSUME NEW lg, NEW ng, NEW rg, NEW qg, LoginsKept(lg, ng, rg, qg), NEW x, NEW named,
           DeliveryOK(lg, rg, x, named)
    PROVE  DeliveryOK(ng, qg, x, named)
<1>1. ASSUME NEW p, PairOK(lg, p)
      PROVE  PairOK(ng, p) /\ (Gone(lg, rg, p[2][1]) => Gone(ng, qg, p[2][1]))
      BY <1>1, BegunStays DEF PairOK, Gone, OfBegun
<1> QED BY <1>1, BegunStays DEF DeliveryOK

LEMMA FrontStays ==
    ASSUME NEW lg, NEW ng, NEW rg, NEW qg, LoginsKept(lg, ng, rg, qg), NEW x, FrontOK(lg, rg, x)
    PROVE  FrontOK(ng, qg, x)
<1>1. ASSUME NEW p, PairOK(lg, p)
      PROVE  PairOK(ng, p) /\ (Gone(lg, rg, p[2][1]) => Gone(ng, qg, p[2][1]))
      BY <1>1, BegunStays DEF PairOK, Gone, OfBegun
<1> QED BY <1>1 DEF FrontOK

-----------------------------------------------------------------------------
(* What a step of one login, or of its task, has to show. *)

LEMMA KeysIs ==
    ASSUME NEW m, Sound(m), NEW s
    PROVE  s \in DOMAIN m.keys_of_session <=> \E k \in DOMAIN m.entries : m.entries[k].session = s
BY AgreesIs DEF Sound, EntriesAgree

LEMMA SubjectStays ==
    ASSUME NEW lg, NEW ng, NEW rg, NEW qg, LoginsKept(lg, ng, rg, qg), NEW m, NEW n, SubjectFine(m, lg, rg),
           \A x \in Logins : ng[x].at \in Past => lg[x].at \in Past \/ SessionOf(x) \in DOMAIN n.subject_of,
           \A s \in DOMAIN m.subject_of :
              s \in DOMAIN n.subject_of \/ PairOf(s[1]) \notin qg \/ ng[s[1]].at \notin Past
    PROVE  SubjectFine(n, ng, qg)
<1> SUFFICES ASSUME NEW x \in Logins, ng[x].at \in Past, PairOf(x) \in qg
             PROVE  SessionOf(x) \in DOMAIN n.subject_of
    BY DEF SubjectFine
<1>1. CASE lg[x].at \in Past
  <2>1. PairOf(x) \in rg BY <1>1 DEF LoginsKept, Begun, Past
  <2>2. SessionOf(x) \in DOMAIN m.subject_of BY <1>1, <2>1 DEF SubjectFine
  <2>3. SessionOf(x)[1] = x BY DEF SessionOf
  <2> QED BY <2>2, <2>3
<1> QED BY <1>1

(* The logins but l, and what they owe, stay as they are. *)
OthersSame(lg, ng, ow, nw, l) == \A x \in Logins : x # l => ng[x] = lg[x] /\ nw[x] = ow[x]

LEMMA HeldStays ==
    ASSUME NEW m, NEW n, NEW lg, NEW ng, NEW ow, NEW nw, NEW b, NEW nb, NEW l \in Logins,
           OthersSame(lg, ng, ow, nw, l), b.unmapped \subseteq nb.unmapped, b.overtaken \subseteq nb.overtaken,
           NEW s, Held(m, lg, ow, b, s),
           s \in DOMAIN m.keys_of_session => Held(n, ng, nw, nb, s),
           (\E q \in Owes(lg, ow, l) : q[3] = s) => Held(n, ng, nw, nb, s)
    PROVE  Held(n, ng, nw, nb, s)
<1>1. ASSUME NEW x \in Logins, x # l PROVE Owes(ng, nw, x) = Owes(lg, ow, x)
      BY <1>1 DEF OthersSame, Owes
<1>2. CASE \E x \in Logins : x # l /\ \E q \in Owes(lg, ow, x) : q[3] = s BY <1>1, <1>2 DEF Held
<1>3. CASE s \in b.unmapped \cup b.overtaken BY <1>3 DEF Held
<1> QED BY <1>2, <1>3 DEF Held

LEMMA SidStays ==
    ASSUME NEW m, NEW n, NEW lg, NEW ng, NEW rg, NEW qg, NEW ow, NEW nw, NEW b, NEW nb, NEW l \in Logins,
           SidFine(m, lg, rg, ow, b), OthersSame(lg, ng, ow, nw, l),
           b.unmapped \subseteq nb.unmapped, b.overtaken \subseteq nb.overtaken,
           \A x \in Logins : Mapped(ng, qg, x) => Mapped(lg, rg, x) \/ Held(n, ng, nw, nb, SessionOf(x)),
           \A x \in Logins : Mapped(ng, qg, x) /\ SessionOf(x) \in DOMAIN m.keys_of_session =>
              Held(n, ng, nw, nb, SessionOf(x)),
           \A x \in Logins : Mapped(ng, qg, x) /\ (\E q \in Owes(lg, ow, l) : q[3] = SessionOf(x)) =>
              Held(n, ng, nw, nb, SessionOf(x))
    PROVE  SidFine(n, ng, qg, nw, nb)
<1> SUFFICES ASSUME NEW x \in Logins, Mapped(ng, qg, x), Mapped(lg, rg, x)
             PROVE  Held(n, ng, nw, nb, SessionOf(x))
    BY DEF SidFine
<1> DEFINE s == SessionOf(x)
<1>1. Held(m, lg, ow, b, s) BY DEF SidFine
<1>2. /\ s \in DOMAIN m.keys_of_session => Held(n, ng, nw, nb, s)
      /\ (\E q \in Owes(lg, ow, l) : q[3] = s) => Held(n, ng, nw, nb, s)
      OBVIOUS
<1> HIDE DEF s
<1>3. Held(n, ng, nw, nb, s) BY <1>1, <1>2, HeldStays
<1> QED BY <1>3 DEF s

CauseAdds(lg, dv, fr, was, is) ==
    \A s \in DOMAIN is : \/ s \in DOMAIN was /\ is[s] = was[s]
                         \/ OfBegun(lg, s) /\ Because(lg, dv, fr, s, is[s])

LEMMA CauseGrows ==
    ASSUME NEW lg, NEW ng, NEW rg, NEW qg, LoginsKept(lg, ng, rg, qg), NEW dv, NEW nv, DeliveriesKept(dv, nv),
           NEW fr, NEW nr, FrontsKept(fr, nr), NEW was, NEW is, CauseOK(lg, dv, fr, was),
           CauseAdds(ng, nv, nr, was, is)
    PROVE  CauseOK(ng, nv, nr, is)
<1> SUFFICES ASSUME NEW s \in DOMAIN is PROVE OfBegun(ng, s) /\ Because(ng, nv, nr, s, is[s]) BY DEF CauseOK
<1>1. CASE s \in DOMAIN was /\ is[s] = was[s]
  <2>1. OfBegun(lg, s) /\ Because(lg, dv, fr, s, is[s]) BY <1>1 DEF CauseOK
  <2> QED BY <2>1, BegunStays, CauseStays
<1> QED BY <1>1 DEF CauseAdds

(* Ends takes a session out for its cause. *)
LEMMA EndsIs ==
    ASSUME NEW pair, NEW cause, BookShape(book), Ends(pair, cause)
    PROVE  /\ registry' = registry \ {pair} /\ BookShape(book')
           /\ book'.named = book.named /\ book'.unmapped = book.unmapped /\ book'.overtaken = book.overtaken
           /\ \A s \in DOMAIN book'.cause :
                 \/ s \in DOMAIN book.cause /\ book'.cause[s] = book.cause[s]
                 \/ s = pair[2] /\ book'.cause[s] = cause
<1>1. CASE pair \in registry
  <2>1. /\ BookShape(book') /\ book'.cause = Put(book.cause, pair[2], cause)
        /\ book'.named = book.named /\ book'.unmapped = book.unmapped /\ book'.overtaken = book.overtaken
        BY <1>1 DEF Ends, BookShape
  <2> QED BY <2>1 DEF Ends, Put
<1>2. CASE pair \notin registry BY <1>2 DEF Ends
<1> QED BY <1>1, <1>2

LEMMA LoginCloses ==
    ASSUME LogoutInv, Shapes', NEW l \in Logins, LoginsKept(login, login', registry, registry'),
           delivery' = delivery, front' = front, book'.named = book.named,
           OthersSame(login, login', owed, owed', l), \A x \in Logins : x # l => ended'[x] = ended[x],
           LoginOK(login', registry', owed', ended', l),
           MapOK(sidmap', login'), SubjectFine(sidmap', login', registry'),
           SidFine(sidmap', login', registry', owed', book'),
           CauseAdds(login', delivery, front, book.cause, book'.cause)
    PROVE  LogoutInv'
<1>1. CauseOK(login', delivery', front', book'.cause)
  <2>1. DeliveriesKept(delivery, delivery) /\ FrontsKept(front, front) BY DEF DeliveriesKept, FrontsKept
  <2> QED BY <2>1, CauseGrows DEF LogoutInv
<1>2. ASSUME NEW x \in Logins PROVE LoginOK(login', registry', owed', ended', x)
      BY LoginStays DEF LogoutInv, OthersSame
<1>3. ASSUME NEW d \in Deliveries PROVE DeliveryOK(login', registry', delivery'[d], book'.named[d])
      BY DeliveryStays DEF LogoutInv
<1>4. ASSUME NEW f \in Fronts PROVE FrontOK(login', registry', front'[f])
      BY FrontStays DEF LogoutInv
<1> QED BY <1>1, <1>2, <1>3, <1>4 DEF LogoutInv

-----------------------------------------------------------------------------
(* A login that goes from one stage to another and owes what it did. *)

MappingAt == {"prune", "evict", "full", "evicted", "insert"}
AgedAt == {"evict", "full", "evicted", "insert", "audit", "restore"}
DisplacedAt == {"audit", "restore"}
OwedAt == {"done", "revoke", "refused", "cut", "cancelled"}
CanMove(l, a, b) ==
    /\ a \notin {"done", "cancelled", "refused"} /\ b # "idle"
    /\ b = "register" => a = "idle"
    /\ b \in MappingAt => Claims[l].sid # NoSid
    /\ a \in Past \cup Refusing => b \in Past \cup Refusing
    /\ a \in AgedAt => b \in AgedAt
    /\ a \in DisplacedAt => b \in DisplacedAt
    /\ a \in OwedAt => b \in OwedAt
    /\ a \in Refusing => b \in Refusing
Moves(lg, ng, l, a, b) ==
    /\ LoginShapes(ng) /\ (\A x \in Logins : x # l => ng[x] = lg[x])
    /\ lg[l].at = a /\ ng[l].at = b /\ (a # "idle" => ng[l].now = lg[l].now)
    /\ ng[l].aged = lg[l].aged /\ ng[l].displaced = lg[l].displaced /\ ng[l].mapped = lg[l].mapped

LEMMA GotoMoves ==
    ASSUME NEW lg, LoginShapes(lg), NEW l \in Logins, NEW b, NEW ng, ng = [lg EXCEPT ![l].at = b]
    PROVE  Moves(lg, ng, l, lg[l].at, b)
BY DEF Moves, LoginShapes, LoginShape

LEMMA MovesKeep ==
    ASSUME NEW lg, NEW ng, NEW rg, NEW qg, NEW l \in Logins, NEW a, NEW b, Moves(lg, ng, l, a, b), CanMove(l, a, b),
           \A x \in Logins : Begun(lg, x) /\ PairOf(x) \in qg => PairOf(x) \in rg
    PROVE  LoginsKept(lg, ng, rg, qg)
<1>1. ASSUME NEW x \in Logins
      PROVE  /\ lg[x].at # "idle" => ng[x].at # "idle" /\ ng[x].now = lg[x].now
             /\ Begun(lg, x) => Begun(ng, x)
             /\ lg[x].at \in {"done", "cancelled", "refused"} => ng[x].at = lg[x].at
  <2>1. CASE x = l BY <2>1 DEF Moves, CanMove, Begun
  <2>2. CASE x # l BY <2>2 DEF Moves, Begun
  <2> QED BY <2>1, <2>2
<1> QED BY <1>1 DEF LoginsKept

LEMMA MovesOK ==
    ASSUME NEW lg, NEW ng, NEW rg, NEW qg, NEW l \in Logins, NEW a, NEW b, Moves(lg, ng, l, a, b), CanMove(l, a, b),
           LoginsKept(lg, ng, rg, qg), NEW ow, NEW en, LoginOK(lg, rg, ow, en, l)
    PROVE  LoginOK(ng, qg, ow, en, l)
<1>1. StageOK(ng, l) BY DEF LoginOK, StageOK, Moves, CanMove, MappingAt
<1>2. AgedOK(ng, l)
  <2>1. lg[l].aged # {} => a \in AgedAt /\ a # "idle" BY DEF LoginOK, AgedOK, Moves, AgedAt
  <2>2. \A q \in lg[l].aged : TripleOK(ng, q) /\ AgedOut(ng, l, q[3])
        BY <2>1, TripleStays DEF LoginOK, AgedOK, Moves
  <2> QED BY <2>1, <2>2 DEF AgedOK, Moves, CanMove, AgedAt
<1>3. DisplacedOK(ng, l)
  <2>1. CASE lg[l].displaced # Nothing
    <3>1. a \in DisplacedAt /\ lg[l].displaced.key = KeyOf(l) /\ EntryOK(lg, KeyOf(l), lg[l].displaced.was)
          BY <2>1 DEF LoginOK, DisplacedOK, Moves, DisplacedAt
    <3>2. EntryOK(ng, KeyOf(l), lg[l].displaced.was) BY <3>1, EntryStays
    <3> QED BY <3>1, <3>2 DEF DisplacedOK, Moves, CanMove, DisplacedAt
  <2>2. CASE lg[l].displaced = Nothing BY <2>2 DEF DisplacedOK, Moves
  <2> QED BY <2>1, <2>2
<1>4. OwedOK(ng, ow, l)
  <2>1. ow[l] # {} => a \in OwedAt /\ a # "idle" BY DEF LoginOK, OwedOK, Moves, OwedAt
  <2>2. ASSUME NEW q \in ow[l] PROVE TripleOK(ng, q) /\ AgedOut(ng, l, q[3])
    <3>1. TripleOK(lg, q) /\ AgedOut(lg, l, q[3])
          BY DEF LoginOK, OwedOK, Displaces, Moves, CanMove
    <3> QED BY <2>1, <3>1, TripleStays DEF Moves
  <2> QED BY <2>1, <2>2 DEF OwedOK, Moves, CanMove, OwedAt
<1>5. EndedOK(ng, qg, en, l) BY TripleStays DEF LoginOK, EndedOK
<1> QED BY <1>1, <1>2, <1>3, <1>4, <1>5 DEF LoginOK

LEMMA MoveCloses ==
    ASSUME LogoutInv, NEW l \in Logins, NEW a, NEW b, Moves(login, login', l, a, b), CanMove(l, a, b),
           scene' = scene, now' = now, owed' = owed, ended' = ended, delivery' = delivery, front' = front,
           \A x \in Logins : Begun(login, x) /\ PairOf(x) \in registry' => PairOf(x) \in registry,
           BookShape(book'), book'.named = book.named,
           book.unmapped \subseteq book'.unmapped, book.overtaken \subseteq book'.overtaken,
           CauseAdds(login', delivery, front, book.cause, book'.cause),
           Sound(sidmap'), Shrunk(sidmap, sidmap'),
           \A k \in DOMAIN sidmap.entries :
              \/ k \in DOMAIN sidmap'.entries \/ sidmap.entries[k].session \in book'.unmapped
              \/ Gone(login', registry', sidmap.entries[k].session[1])
              \/ b \in Refusing /\ sidmap.entries[k].session = SessionOf(l),
           \A s \in DOMAIN sidmap.subject_of :
              \/ s \in DOMAIN sidmap'.subject_of \/ Gone(login', registry', s[1])
              \/ b \notin Past /\ s = SessionOf(l),
           b \in Past => a \in Past
    PROVE  LogoutInv'
<1>1. LoginsKept(login, login', registry, registry') BY MovesKeep
<1>2. Shapes' BY DEF Shapes, LogoutInv, Moves
<1>3. LoginOK(login', registry', owed', ended', l) BY <1>1, MovesOK DEF LogoutInv
<1>4. MapOK(sidmap', login') BY <1>1, MapStays DEF LogoutInv
<1>5. OthersSame(login, login', owed, owed', l) BY DEF OthersSame, Moves
<1>6. login[l].at = a /\ login'[l].at = b /\ \A x \in Logins : x # l => login'[x] = login[x] BY DEF Moves
<1>7. SubjectFine(sidmap', login', registry')
  <2>1. \A x \in Logins : login'[x].at \in Past => login[x].at \in Past BY <1>6
  <2>2. ASSUME NEW s \in DOMAIN sidmap.subject_of
        PROVE  s \in DOMAIN sidmap'.subject_of \/ PairOf(s[1]) \notin registry' \/ login'[s[1]].at \notin Past
    <3>1. SessionOf(l)[1] = l BY DEF SessionOf
    <3> QED BY <1>6, <3>1 DEF Gone
  <2> QED BY <1>1, <2>1, <2>2, SubjectStays DEF LogoutInv
<1>8. SidFine(sidmap', login', registry', owed', book')
  <2>1. \A x \in Logins : Mapped(login', registry', x) => Mapped(login, registry, x)
    <3> TAKE x \in Logins
    <3>1. Begun(login, x) => (PairOf(x) \in registry' => PairOf(x) \in registry) OBVIOUS
    <3>2. login[x].mapped => Begun(login, x) BY DEF LogoutInv, LoginOK, StageOK, Begun, Past, Refusing
    <3>3. login'[x].mapped = login[x].mapped BY DEF Moves
    <3>4. login'[x].at \notin Refusing => login[x].at \notin Refusing BY <1>6 DEF CanMove
    <3> QED BY <3>1, <3>2, <3>3, <3>4 DEF Mapped
  <2>2. ASSUME NEW x \in Logins, Mapped(login', registry', x), SessionOf(x) \in DOMAIN sidmap.keys_of_session
        PROVE  Held(sidmap', login', owed', book', SessionOf(x))
    <3>1. PICK k \in DOMAIN sidmap.entries : sidmap.entries[k].session = SessionOf(x)
          BY <2>2, KeysIs DEF LogoutInv, MapOK
    <3>2. SessionOf(x)[1] = x /\ (SessionOf(x) = SessionOf(l) => x = l) BY DEF SessionOf
    <3>3. k \in DOMAIN sidmap'.entries \/ SessionOf(x) \in book'.unmapped
          BY <1>6, <2>2, <3>1, <3>2 DEF Mapped, Gone
    <3>4. CASE k \in DOMAIN sidmap'.entries
      <4>1. sidmap'.entries[k].session = SessionOf(x) BY <3>1, <3>4 DEF Shrunk
      <4> QED BY <3>4, <4>1, KeysIs DEF Held
    <3> QED BY <3>3, <3>4 DEF Held
  <2>3. Owes(login', owed', l) = Owes(login, owed, l) BY DEF Owes, Moves
  <2>4. ASSUME NEW x \in Logins, \E q \in Owes(login, owed, l) : q[3] = SessionOf(x)
        PROVE  Held(sidmap', login', owed', book', SessionOf(x))
        BY <2>3, <2>4 DEF Held
  <2> QED BY <1>5, <2>1, <2>2, <2>4, SidStays DEF LogoutInv
<1> QED BY <1>1, <1>2, <1>3, <1>4, <1>5, <1>7, <1>8, LoginCloses

-----------------------------------------------------------------------------
(* The steps of a login that owe nothing new. *)

LEMMA Injective ==
    ASSUME NEW x, NEW y
    PROVE  /\ SessionOf(x)[1] = x /\ PairOf(x)[2] = SessionOf(x)
           /\ SessionOf(x) = SessionOf(y) => x = y
           /\ PairOf(x) = PairOf(y) => x = y
           /\ PairOf(x) # <<Claims[y].user, RotatedOf(y)>>
BY DEF SessionOf, PairOf, RotatedOf

LEMMA PlainMove ==
    ASSUME LogoutInv, NEW l \in Logins, NEW a, NEW b, Moves(login, login', l, a, b), CanMove(l, a, b),
           scene' = scene, now' = now, owed' = owed, ended' = ended, delivery' = delivery, front' = front,
           \A x \in Logins : Begun(login, x) /\ PairOf(x) \in registry' => PairOf(x) \in registry,
           book' = book, sidmap' = sidmap, b \in Past => a \in Past
    PROVE  LogoutInv'
<1>1. BookShape(book) /\ Sound(sidmap) BY DEF LogoutInv, Shapes, MapOK
<1>2. Shrunk(sidmap, sidmap) BY DEF Shrunk
<1>3. CauseAdds(login', delivery, front, book.cause, book.cause) BY DEF CauseAdds
<1> QED BY <1>1, <1>2, <1>3, MoveCloses

USE DEF serviceVars, handlerVars

LEMMA BeginLogin == ASSUME LogoutInv, NEW l \in Logins, begin_login(l) PROVE LogoutInv'
<1>1. Moves(login, login', l, "idle", "register")
      BY DEF begin_login, At, Moves, LogoutInv, Shapes, LoginShapes, LoginShape
<1>2. CanMove(l, "idle", "register") BY DEF CanMove, MappingAt, AgedAt, DisplacedAt, OwedAt, Refusing, Past
<1>3. "register" \notin Past BY DEF Past
<1> QED BY <1>1, <1>2, <1>3, PlainMove DEF begin_login

LEMMA RegisterSession == ASSUME LogoutInv, NEW l \in Logins, register_session(l) PROVE LogoutInv'
<1>0. LoginShapes(login) BY DEF LogoutInv, Shapes
<1>1. login[l].at = "register" BY DEF register_session, At
<1>2. PICK b \in {"status", "refused"} : /\ login' = [login EXCEPT ![l].at = b]
                                         /\ registry' \subseteq registry \cup {PairOf(l)}
      BY DEF register_session, Goto
<1>3. Moves(login, login', l, "register", b) BY <1>0, <1>1, <1>2, GotoMoves
<1>4. CanMove(l, "register", b) /\ b \notin Past
      BY <1>2 DEF CanMove, MappingAt, AgedAt, DisplacedAt, OwedAt, Refusing, Past
<1>5. \A x \in Logins : Begun(login, x) /\ PairOf(x) \in registry' => PairOf(x) \in registry
      BY <1>1, <1>2, Injective DEF Begun
<1> QED BY <1>3, <1>4, <1>5, PlainMove DEF register_session

LEMMA RefuseUnlessActive == ASSUME LogoutInv, NEW l \in Logins, refuse_unless_active(l) PROVE LogoutInv'
<1>0. LoginShapes(login) BY DEF LogoutInv, Shapes
<1>1. login[l].at = "status" BY DEF refuse_unless_active, At
<1>2. PICK b \in {"subject", "revoke"} : login' = [login EXCEPT ![l].at = b]
      BY DEF refuse_unless_active, Goto
<1>3. Moves(login, login', l, "status", b) BY <1>0, <1>1, <1>2, GotoMoves
<1>4. CanMove(l, "status", b) /\ b \notin Past
      BY <1>2 DEF CanMove, MappingAt, AgedAt, DisplacedAt, OwedAt, Refusing, Past
<1> QED BY <1>3, <1>4, PlainMove DEF refuse_unless_active

LEMMA EndOwnSession == ASSUME LogoutInv, NEW l \in Logins, end_own_session(l) PROVE LogoutInv'
<1>0. LoginShapes(login) /\ BookShape(book) /\ Sound(sidmap) BY DEF LogoutInv, Shapes, MapOK
<1>1. login[l].at = "revoke" /\ login' = [login EXCEPT ![l].at = "refused"] BY DEF end_own_session, At, Goto
<1>2. Moves(login, login', l, "revoke", "refused") BY <1>0, <1>1, GotoMoves
<1>3. CanMove(l, "revoke", "refused") /\ "refused" \notin Past
      BY DEF CanMove, MappingAt, AgedAt, DisplacedAt, OwedAt, Refusing, Past
<1>4. CASE Ends(PairOf(l), [by |-> "own", who |-> l])
  <2>1. /\ registry' = registry \ {PairOf(l)} /\ BookShape(book')
        /\ book'.named = book.named /\ book'.unmapped = book.unmapped /\ book'.overtaken = book.overtaken
        /\ \A s \in DOMAIN book'.cause :
              \/ s \in DOMAIN book.cause /\ book'.cause[s] = book.cause[s]
              \/ s = PairOf(l)[2] /\ book'.cause[s] = [by |-> "own", who |-> l]
        BY <1>0, <1>4, EndsIs
  <2>2. PairOf(l)[2] = SessionOf(l) /\ SessionOf(l)[1] = l BY Injective
  <2>3. login'[l].at = "refused" BY <1>2 DEF Moves
  <2>4. OfBegun(login', SessionOf(l)) BY <2>2, <2>3 DEF OfBegun, Begun
  <2>5. Because(login', delivery, front, SessionOf(l), [by |-> "own", who |-> l]) BY <2>2, <2>3 DEF Because
  <2>6. CauseAdds(login', delivery, front, book.cause, book'.cause)
        BY <2>1, <2>2, <2>4, <2>5 DEF CauseAdds
  <2>7. Shrunk(sidmap, sidmap) /\ sidmap' = sidmap BY DEF Shrunk, end_own_session
  <2> QED BY <1>0, <1>2, <1>3, <2>1, <2>6, <2>7, MoveCloses DEF end_own_session
<1>5. CASE UNCHANGED <<registry, book>> BY <1>2, <1>3, <1>5, PlainMove DEF end_own_session
<1> QED BY <1>4, <1>5 DEF end_own_session

(* Only sessions that are gone are forgotten. *)
LEMMA ForgetGone ==
    ASSUME LogoutInv, NEW l \in Logins, NEW a, NEW b, login[l].at = a, CanMove(l, a, b), b \in Past => a \in Past,
           forget_gone_subject_sessions(l, b)
    PROVE  LogoutInv'
<1>0. LoginShapes(login) /\ BookShape(book) /\ Sound(sidmap) BY DEF LogoutInv, Shapes, MapOK
<1>1. Moves(login, login', l, a, b)
      BY <1>0 DEF forget_gone_subject_sessions, Moves, LoginShapes, LoginShape
<1>2. UNCHANGED <<registry, book, owed, ended, delivery, front, scene, now>> BY DEF forget_gone_subject_sessions
<1>3. CASE sidmap' = sidmap BY <1>1, <1>2, <1>3, PlainMove
<1>4. CASE sidmap' = forget_subjects(sidmap, {q \in login[l].sweep : <<q[2], q[3]>> \notin registry})
  <2> DEFINE Q == {q \in login[l].sweep : <<q[2], q[3]>> \notin registry}
  <2>0. sidmap' = forget_subjects(sidmap, Q) BY <1>4
  <2>1. \A q \in Q : <<q[2], q[3]>> \notin registry OBVIOUS
  <2> HIDE DEF Q
  <2>2. /\ Sound(sidmap') /\ Shrunk(sidmap, sidmap') /\ sidmap'.entries = sidmap.entries
        /\ \A s \in DOMAIN sidmap.subject_of : s \in DOMAIN sidmap'.subject_of
              \/ \E q \in Q : q[3] = s /\ RecordedFor(sidmap, q[1], q[2], s)
        BY <1>0, <2>0, ForgetShrinks
  <2>3. LoginsKept(login, login', registry, registry) BY <1>1, MovesKeep
  <2>4. ASSUME NEW s \in DOMAIN sidmap.subject_of, NEW q \in Q, q[3] = s, RecordedFor(sidmap, q[1], q[2], s)
        PROVE  Gone(login', registry', s[1])
    <3>1. RecordOK(login, s, sidmap.subject_of[s]) BY DEF LogoutInv, MapOK
    <3>2. OfBegun(login, s) /\ q[2] = Claims[s[1]].user BY <2>4, <3>1 DEF RecordOK, RecordedFor
    <3>3. PairOf(s[1]) \notin registry BY <2>1, <2>4, <3>2 DEF OfBegun, PairOf
    <3> QED BY <1>2, <2>3, <3>2, <3>3, BegunStays DEF Gone, OfBegun
  <2>5. \A s \in DOMAIN sidmap.subject_of : s \in DOMAIN sidmap'.subject_of \/ Gone(login', registry', s[1])
        BY <2>2, <2>4
  <2>6. CauseAdds(login', delivery, front, book.cause, book.cause) BY DEF CauseAdds
  <2> QED BY <1>0, <1>1, <1>2, <2>2, <2>5, <2>6, MoveCloses
<1> QED BY <1>3, <1>4 DEF forget_gone_subject_sessions

LEMMA SweepSubjects == ASSUME LogoutInv, NEW l \in Logins, sweep_subject_registry(l) PROVE LogoutInv'
<1>1. PICK b : /\ b = IF Claims[l].sid = NoSid THEN "audit" ELSE "prune"
               /\ login[l].at = "sweep" /\ forget_gone_subject_sessions(l, b)
      BY DEF sweep_subject_registry, At
<1>2. CanMove(l, "sweep", b) /\ "sweep" \in Past
      BY <1>1 DEF CanMove, MappingAt, AgedAt, DisplacedAt, OwedAt, Refusing, Past
<1> QED BY <1>1, <1>2, ForgetGone

LEMMA ForgetEvicted == ASSUME LogoutInv, NEW l \in Logins, forget_evicted(l) PROVE LogoutInv'
<1>1. login[l].at = "evicted" /\ forget_gone_subject_sessions(l, "insert") BY DEF forget_evicted, At
<1>2. Claims[l].sid # NoSid BY <1>1 DEF LogoutInv, LoginOK, StageOK
<1>3. CanMove(l, "evicted", "insert") /\ "evicted" \in Past
      BY <1>2 DEF CanMove, MappingAt, AgedAt, DisplacedAt, OwedAt, Refusing, Past
<1> QED BY <1>1, <1>3, ForgetGone

LEMMA AtCapacity == ASSUME LogoutInv, NEW l \in Logins, at_capacity(l) PROVE LogoutInv'
<1>0. LoginShapes(login) BY DEF LogoutInv, Shapes
<1>1. PICK b \in {"insert", "full"} : login[l].at = "evict" /\ login' = [login EXCEPT ![l].at = b]
      BY DEF at_capacity, At, Goto
<1>2. UNCHANGED <<registry, sidmap, owed, ended, delivery, front, scene, now, book>> BY DEF at_capacity
<1>3. Claims[l].sid # NoSid BY <1>1 DEF LogoutInv, LoginOK, StageOK
<1>4. CanMove(l, "evict", b) /\ "evict" \in Past
      BY <1>3 DEF CanMove, MappingAt, AgedAt, DisplacedAt, OwedAt, Refusing, Past
<1>5. Moves(login, login', l, "evict", b) BY <1>0, <1>1, GotoMoves
<1> QED BY <1>2, <1>4, <1>5, PlainMove

LEMMA EvictOldest == ASSUME LogoutInv, NEW l \in Logins, evict_oldest(l) PROVE LogoutInv'
<1>0. LoginShapes(login) /\ BookShape(book) /\ Sound(sidmap) BY DEF LogoutInv, Shapes, MapOK
<1>1. login[l].at = "full" /\ UNCHANGED <<registry, owed, ended, delivery, front, scene, now>>
      BY DEF evict_oldest, At
<1>2. Claims[l].sid # NoSid BY <1>1 DEF LogoutInv, LoginOK, StageOK
<1>3. CanMove(l, "full", "evicted") /\ "full" \in Past
      BY <1>2 DEF CanMove, MappingAt, AgedAt, DisplacedAt, OwedAt, Refusing, Past
<1>4. PICK K, out : /\ out = {SubjectSession(k[1], sidmap.entries[k]) : k \in K}
                    /\ sidmap' = removeAll(sidmap, K)
                    /\ login' = [login EXCEPT ![l].at = "evicted", ![l].sweep = out]
                    /\ book' = [book EXCEPT !.unmapped = @ \cup {q[3] : q \in out}]
      BY DEF evict_oldest
<1>5. Moves(login, login', l, "full", "evicted")
      BY <1>0, <1>1, <1>4 DEF Moves, LoginShapes, LoginShape
<1>6. /\ BookShape(book') /\ book'.unmapped = book.unmapped \cup {q[3] : q \in out}
      /\ book'.named = book.named /\ book'.cause = book.cause /\ book'.overtaken = book.overtaken
      BY <1>0, <1>4 DEF BookShape
<1>7. ASSUME NEW k \in K PROVE sidmap.entries[k].session \in book'.unmapped
  <2>1. SubjectSession(k[1], sidmap.entries[k]) \in out BY <1>4
  <2>2. SubjectSession(k[1], sidmap.entries[k])[3] = sidmap.entries[k].session BY DEF SubjectSession
  <2> QED BY <1>6, <2>1, <2>2
<1>8. /\ Sound(sidmap') /\ Shrunk(sidmap, sidmap') /\ DOMAIN sidmap'.entries = DOMAIN sidmap.entries \ K
      /\ sidmap'.subject_of = sidmap.subject_of
      BY <1>0, <1>4, RemoveShrinks
<1>9. CauseAdds(login', delivery, front, book.cause, book'.cause) BY <1>6 DEF CauseAdds
<1> QED BY <1>1, <1>3, <1>5, <1>6, <1>7, <1>8, <1>9, MoveCloses

LEMMA AuditFailed == ASSUME LogoutInv, NEW l \in Logins, audit_failed(l) PROVE LogoutInv'
<1>0. LoginShapes(login) /\ BookShape(book) /\ Sound(sidmap) BY DEF LogoutInv, Shapes, MapOK
<1>1. /\ login[l].at = "audit" /\ login' = [login EXCEPT ![l].at = "restore"]
      /\ UNCHANGED <<registry, owed, ended, delivery, front, scene, now, book>>
      /\ sidmap' = remove_session(sidmap, SessionOf(l))
      BY DEF audit_failed, At, Goto
<1>2. Moves(login, login', l, "audit", "restore") BY <1>0, <1>1, GotoMoves
<1>3. CanMove(l, "audit", "restore") /\ "restore" \notin Past /\ "restore" \in Refusing
      BY DEF CanMove, MappingAt, AgedAt, DisplacedAt, OwedAt, Refusing, Past
<1>4. PICK s : s = SessionOf(l) OBVIOUS
<1>5. /\ Sound(sidmap') /\ Shrunk(sidmap, sidmap')
      /\ \A x \in DOMAIN sidmap.entries : x \in DOMAIN sidmap'.entries \/ sidmap.entries[x].session = s
      /\ DOMAIN sidmap.subject_of \subseteq DOMAIN sidmap'.subject_of \cup {s}
      BY <1>0, <1>1, <1>4, RemoveSession
<1>6. CauseAdds(login', delivery, front, book.cause, book.cause) BY DEF CauseAdds
<1> QED BY <1>0, <1>1, <1>2, <1>3, <1>4, <1>5, <1>6, MoveCloses

-----------------------------------------------------------------------------
(* The steps of a login that change what it owes, or add to the map. *)

(* What the sweep hands out goes to the back of the queue. *)
LEMMA SweepCandidates == ASSUME LogoutInv, NEW l \in Logins, sweep_candidates(l) PROVE LogoutInv'
<1>0. LoginShapes(login) /\ BookShape(book) /\ Sound(sidmap) BY DEF LogoutInv, Shapes, MapOK
<1>1. /\ login[l].at = "candidates" /\ sidmap' = sweep_subject_candidates(sidmap, Batch)
      /\ login' = [login EXCEPT ![l].at = "sweep", ![l].sweep = ToSet(SweepFront(sidmap, Batch))]
      /\ UNCHANGED <<registry, owed, ended, delivery, front, scene, now, book>>
      BY DEF sweep_candidates, At
<1>2. Moves(login, login', l, "candidates", "sweep")
      BY <1>0, <1>1 DEF Moves, LoginShapes, LoginShape
<1>3. CanMove(l, "candidates", "sweep") /\ "candidates" \in Past
      BY DEF CanMove, MappingAt, AgedAt, DisplacedAt, OwedAt, Refusing, Past
<1>4. MapShape(sidmap') /\ SameEntries(sidmap, sidmap') /\ SameSubjects(sidmap, sidmap')
      BY <1>0, <1>1, SweepAgrees DEF Sound
<1>5. sidmap'.entries = sidmap.entries /\ sidmap'.subject_of = sidmap.subject_of
      BY <1>4 DEF SameEntries, SameSubjects
<1>6. Sound(sidmap')
  <2>1. Agrees(sidmap') BY <1>0, <1>4, EntriesSame, SubjectsSame, AgreesIs DEF Sound
  <2> QED BY <1>0, <1>4, <1>5, <2>1 DEF Sound, PairKeys
<1>7. Shrunk(sidmap, sidmap') BY <1>5 DEF Shrunk
<1>8. CauseAdds(login', delivery, front, book.cause, book'.cause) BY <1>1 DEF CauseAdds
<1> QED BY <1>0, <1>1, <1>2, <1>3, <1>5, <1>6, <1>7, <1>8, MoveCloses

LEMMA RegisterSubject == ASSUME LogoutInv, NEW l \in Logins, register_subject_session(l) PROVE LogoutInv'
<1>0. LoginShapes(login) /\ BookShape(book) /\ Sound(sidmap) BY DEF LogoutInv, Shapes, MapOK
<1> DEFINE m == sidmap'
<1>1. /\ login[l].at = "subject" /\ login' = [login EXCEPT ![l].at = "candidates"]
      /\ sidmap' = register_subject(sidmap, Claims[l].iss, Claims[l].sub, Claims[l].user, SessionOf(l), QueueSlack)
      /\ UNCHANGED <<registry, owed, ended, delivery, front, scene, now, book>>
      BY DEF register_subject_session, At, Goto
<1>2. PICK s : s = SessionOf(l) OBVIOUS
<1>3. /\ MapShape(m) /\ SubjectsAgree(m) /\ SameEntries(sidmap, m)
      /\ DOMAIN m.subject_of = DOMAIN sidmap.subject_of \cup {s}
      /\ m.subject_of[s].issuer = Claims[l].iss /\ m.subject_of[s].subject = Claims[l].sub
      /\ m.subject_of[s].user = Claims[l].user
      /\ \A x \in DOMAIN sidmap.subject_of : x # s => m.subject_of[x] = sidmap.subject_of[x]
      BY <1>0, <1>1, <1>2, RegisterAgrees, AgreesIs DEF Sound
<1>4. Moves(login, login', l, "subject", "candidates") BY <1>0, <1>1, GotoMoves
<1>5. CanMove(l, "subject", "candidates") BY DEF CanMove, MappingAt, AgedAt, DisplacedAt, OwedAt, Refusing, Past
<1>6. LoginsKept(login, login', registry, registry') BY <1>1, <1>4, <1>5, MovesKeep
<1>8. Agrees(sidmap') BY <1>0, <1>3, EntriesSame, AgreesIs DEF Sound
<1>9. sidmap'.entries = sidmap.entries /\ sidmap'.keys_of_session = sidmap.keys_of_session
      BY <1>3 DEF SameEntries
<1>10. MapOK(sidmap', login')
  <2>1. Sound(sidmap') BY <1>0, <1>3, <1>8, <1>9 DEF Sound, PairKeys
  <2>2. ASSUME NEW k \in DOMAIN sidmap'.entries PROVE EntryOK(login', k, sidmap'.entries[k])
        BY <1>6, <1>9, EntryStays DEF LogoutInv, MapOK
  <2>3. RecordOK(login', s, m.subject_of[s])
    <3>1. s[1] = l /\ login'[l].at = "candidates" BY <1>2, <1>4, Injective DEF Moves
    <3> QED BY <1>2, <1>3, <3>1 DEF RecordOK, OfBegun, Begun
  <2>4. ASSUME NEW x \in DOMAIN sidmap.subject_of PROVE RecordOK(login', x, sidmap.subject_of[x])
    <3>1. RecordOK(login, x, sidmap.subject_of[x]) BY DEF LogoutInv, MapOK
    <3> QED BY <1>6, <3>1, BegunStays DEF RecordOK
  <2>5. \A x \in DOMAIN sidmap'.subject_of : RecordOK(login', x, sidmap'.subject_of[x])
        BY <1>3, <1>9, <2>3, <2>4
  <2> QED BY <2>1, <2>2, <2>5 DEF MapOK
<1>11. SubjectFine(sidmap', login', registry')
  <2>1. \A x \in Logins : login'[x].at \in Past => login[x].at \in Past \/ SessionOf(x) \in DOMAIN sidmap'.subject_of
        BY <1>2, <1>3, <1>4, <1>9 DEF Moves
  <2>2. DOMAIN sidmap.subject_of \subseteq DOMAIN sidmap'.subject_of BY <1>3, <1>9
  <2> QED BY <1>6, <2>1, <2>2, SubjectStays DEF LogoutInv
<1>12. SidFine(sidmap', login', registry', owed', book')
  <2>1. Owes(login', owed', l) = Owes(login, owed, l) BY <1>1, <1>4 DEF Owes, Moves
  <2>2. \A x \in Logins : x # l => Owes(login', owed', x) = Owes(login, owed, x) BY <1>1, <1>4 DEF Owes, Moves
  <2>3. \A x \in Logins : Mapped(login', registry', x) => Mapped(login, registry, x)
        BY <1>1, <1>4 DEF Mapped, Moves, Refusing
  <2>4. \A x : Held(sidmap, login, owed, book, x) => Held(sidmap', login', owed', book', x)
        BY <1>1, <1>9, <2>1, <2>2 DEF Held
  <2> QED BY <2>3, <2>4 DEF LogoutInv, SidFine
<1>13. LoginOK(login', registry', owed', ended', l) BY <1>1, <1>4, <1>5, <1>6, MovesOK DEF LogoutInv
<1>14. OthersSame(login, login', owed, owed', l) BY <1>1, <1>4 DEF OthersSame, Moves
<1>15. Shapes' BY <1>1, <1>4 DEF Shapes, LogoutInv, Moves
<1>16. CauseAdds(login', delivery, front, book.cause, book'.cause) BY <1>1 DEF CauseAdds
<1> QED BY <1>1, <1>6, <1>10, <1>11, <1>12, <1>13, <1>14, <1>15, <1>16, LoginCloses

LEMMA Prunes == ASSUME LogoutInv, NEW l \in Logins, prune(l) PROVE LogoutInv'
<1>0. LoginShapes(login) /\ BookShape(book) /\ Sound(sidmap) BY DEF LogoutInv, Shapes, MapOK
<1>1. login[l].at = "prune" /\ UNCHANGED <<registry, owed, ended, delivery, front, scene, now, book>>
      BY DEF prune, At
<1> DEFINE Due1 == Due(sidmap, login[l].now - SidTtl)
<1>2. PICK K \in evict_front(sidmap, Batch, Due1) :
          /\ sidmap' = removeAll(sidmap, K)
          /\ login' = [login EXCEPT ![l].at = "evict",
                                    ![l].aged = {SubjectSession(k[1], sidmap.entries[k]) : k \in K}]
      BY DEF prune
<1>3. ASSUME NEW k \in K
      PROVE  k \in DOMAIN sidmap.entries /\ sidmap.entries[k].at < login[l].now - SidTtl
  <2>1. PICK w \in SUBSET Due1 : K = {x[2] : x \in w} BY <1>2 DEF evict_front
  <2>2. PICK x \in sidmap.order : x[1] < login[l].now - SidTtl /\ x[2] = k BY <2>1 DEF Due
  <2>3. PICK y \in DOMAIN sidmap.entries : x = <<sidmap.entries[y].at, y>>
        BY <1>0, AgreesIs DEF Sound, EntriesAgree
  <2> QED BY <2>2, <2>3
<1> DEFINE out == {SubjectSession(k[1], sidmap.entries[k]) : k \in K}
<1>4. /\ LoginShapes(login') /\ \A x \in Logins : x # l => login'[x] = login[x]
      /\ login'[l].at = "evict" /\ login'[l].now = login[l].now /\ login'[l].aged = out
      /\ login'[l].displaced = login[l].displaced /\ login'[l].mapped = login[l].mapped
      BY <1>0, <1>2 DEF LoginShapes, LoginShape
<1>5. LoginsKept(login, login', registry, registry')
  <2>1. ASSUME NEW x \in Logins
        PROVE  /\ login[x].at # "idle" => login'[x].at # "idle" /\ login'[x].now = login[x].now
               /\ Begun(login, x) => Begun(login', x)
               /\ login[x].at \in {"done", "cancelled", "refused"} => login'[x].at = login[x].at
        BY <1>1, <1>4 DEF Begun
  <2> QED BY <1>1, <2>1 DEF LoginsKept
<1>6. /\ Sound(sidmap') /\ Shrunk(sidmap, sidmap') /\ DOMAIN sidmap'.entries = DOMAIN sidmap.entries \ K
      /\ sidmap'.subject_of = sidmap.subject_of
      BY <1>0, <1>2, RemoveShrinks
<1>7. MapOK(sidmap', login') BY <1>5, <1>6, MapStays DEF LogoutInv
<1>8. SubjectFine(sidmap', login', registry')
  <2>1. \A x \in Logins : login'[x].at \in Past => login[x].at \in Past BY <1>1, <1>4 DEF Past
  <2> QED BY <1>5, <1>6, <2>1, SubjectStays DEF LogoutInv
<1>9. ASSUME NEW k \in K
      PROVE  LET q == SubjectSession(k[1], sidmap.entries[k]) IN
             /\ q \in out /\ q[3] = sidmap.entries[k].session
             /\ TripleOK(login', q) /\ AgedOut(login', l, q[3])
  <2> DEFINE q == SubjectSession(k[1], sidmap.entries[k])
             e == sidmap.entries[k]
  <2>1. q \in out /\ q[2] = e.user /\ q[3] = e.session BY DEF SubjectSession
  <2>2. EntryOK(login', k, e)
        BY <1>3, <1>5, EntryStays DEF LogoutInv, MapOK
  <2>3. e.at < login'[l].now - SidTtl BY <1>3, <1>4
  <2>4. OfBegun(login', e.session) /\ e.user = Claims[e.session[1]].user /\ e.at = login'[e.session[1]].now
        BY <2>2 DEF EntryOK
  <2>5. login'[l].now \in Nat /\ login'[e.session[1]].now \in Nat /\ SidTtl \in Nat
        BY <1>4, <2>4, FederationAssumption DEF LoginShapes, LoginShape, OfBegun
  <2> HIDE DEF q, e
  <2>6. TripleOK(login', q) BY <2>1, <2>4 DEF TripleOK
  <2>7. AgedOut(login', l, q[3]) BY <2>1, <2>3, <2>4, <2>5 DEF AgedOut
  <2> QED BY <2>1, <2>6, <2>7 DEF q, e
<1>10. LoginOK(login', registry', owed', ended', l)
  <2>0. LoginOK(login, registry, owed, ended, l) BY DEF LogoutInv
  <2>1. StageOK(login', l) BY <1>1, <1>4, <2>0 DEF LoginOK, StageOK, Past, Refusing
  <2>2. AgedOK(login', l) BY <1>4, <1>9 DEF AgedOK
  <2>3. DisplacedOK(login', l) BY <1>1, <1>4, <2>0 DEF LoginOK, DisplacedOK
  <2>4. OwedOK(login', owed', l) BY <1>1, <2>0 DEF LoginOK, OwedOK
  <2>5. EndedOK(login', registry', ended', l) BY <1>1, <1>5, <2>0, TripleStays DEF LoginOK, EndedOK
  <2> QED BY <2>1, <2>2, <2>3, <2>4, <2>5 DEF LoginOK
<1>11. OthersSame(login, login', owed, owed', l) BY <1>1, <1>4 DEF OthersSame
<1>12. SidFine(sidmap', login', registry', owed', book')
  <2>1. \A x \in Logins : Mapped(login', registry', x) => Mapped(login, registry, x)
        BY <1>1, <1>4 DEF Mapped, Refusing
  <2>2. ASSUME NEW x \in Logins, SessionOf(x) \in DOMAIN sidmap.keys_of_session
        PROVE  Held(sidmap', login', owed', book', SessionOf(x))
    <3>1. PICK k \in DOMAIN sidmap.entries : sidmap.entries[k].session = SessionOf(x)
          BY <1>0, <2>2, KeysIs
    <3>2. CASE k \in K
      <4>1. \E q \in out : q[3] = SessionOf(x) BY <1>9, <3>1, <3>2
      <4>2. out \subseteq Owes(login', owed', l) BY <1>4 DEF Owes
      <4> HIDE DEF out
      <4> QED BY <4>1, <4>2 DEF Held
    <3>3. CASE k \notin K
      <4>1. k \in DOMAIN sidmap'.entries /\ sidmap'.entries[k].session = SessionOf(x)
            BY <1>6, <3>1, <3>3 DEF Shrunk
      <4> QED BY <1>6, <4>1, KeysIs DEF Held
    <3> QED BY <3>2, <3>3
  <2>3. Owes(login, owed, l) = {}
        BY <1>1 DEF Owes, LogoutInv, LoginOK, AgedOK, OwedOK, DisplacedOK
  <2> QED BY <1>1, <1>11, <2>1, <2>2, <2>3, SidStays DEF LogoutInv
<1>13. Shapes' BY <1>1, <1>4 DEF Shapes, LogoutInv
<1>14. CauseAdds(login', delivery, front, book.cause, book'.cause) BY <1>1 DEF CauseAdds
<1> QED BY <1>1, <1>5, <1>7, <1>8, <1>10, <1>11, <1>12, <1>13, <1>14, LoginCloses

LEMMA InsertKeeps ==
    ASSUME NEW m, NEW lg, MapOK(m, lg), NEW k, NEW e, EntryOK(lg, k, e), NEW n, n = insert(m, k, e)
    PROVE  /\ MapOK(n, lg) /\ n.subject_of = m.subject_of /\ DOMAIN n.entries = DOMAIN m.entries \cup {k}
           /\ n.entries[k] = e /\ \A x \in DOMAIN m.entries : x # k => n.entries[x] = m.entries[x]
<1>0. Sound(m) BY DEF MapOK
<1>1. /\ MapShape(n) /\ EntriesAgree(n) /\ SameSubjects(m, n) /\ n.entries = Put(m.entries, k, e)
      BY <1>0, InsertAgrees, AgreesIs DEF Sound
<1>2. /\ DOMAIN n.entries = DOMAIN m.entries \cup {k} /\ n.entries[k] = e
      /\ \A x \in DOMAIN m.entries : x # k => n.entries[x] = m.entries[x]
      BY <1>1 DEF Put
<1>3. n.subject_of = m.subject_of BY <1>1 DEF SameSubjects
<1>4. k = <<k[1], k[2]>> BY DEF EntryOK, KeyOf
<1>5. PairKeys(n) BY <1>0, <1>2, <1>4 DEF Sound, PairKeys
<1>6. Agrees(n) BY <1>0, <1>1, SubjectsSame, AgreesIs DEF Sound
<1>7. \A x \in DOMAIN n.entries : EntryOK(lg, x, n.entries[x]) BY <1>2 DEF MapOK
<1>8. \A s \in DOMAIN n.subject_of : RecordOK(lg, s, n.subject_of[s]) BY <1>3 DEF MapOK
<1>9. MapOK(n, lg) BY <1>1, <1>5, <1>6, <1>7, <1>8 DEF MapOK, Sound
<1> QED BY <1>2, <1>3, <1>9

LEMMA SelfShrunk == ASSUME NEW m PROVE Shrunk(m, m)
BY DEF Shrunk

LEMMA InsertDisplacing == ASSUME LogoutInv, NEW l \in Logins, insert_displacing(l) PROVE LogoutInv'
<1>0. LoginShapes(login) /\ BookShape(book) /\ Sound(sidmap) BY DEF LogoutInv, Shapes, MapOK
<1>1. /\ login[l].at = "insert" /\ UNCHANGED <<registry, owed, ended, delivery, front, scene, now, book>>
      /\ sidmap' = insert(sidmap, KeyOf(l), StoredOf(l))
      BY DEF insert_displacing, At
<1>2. PICK d : /\ d = IF KeyOf(l) \in DOMAIN sidmap.entries
                      THEN [key |-> KeyOf(l), was |-> sidmap.entries[KeyOf(l)]] ELSE Nothing
               /\ login' = [login EXCEPT ![l].at = "audit", ![l].mapped = TRUE, ![l].displaced = d]
      BY DEF insert_displacing
<1>3. /\ LoginShapes(login') /\ \A x \in Logins : x # l => login'[x] = login[x]
      /\ login'[l].at = "audit" /\ login'[l].now = login[l].now /\ login'[l].aged = login[l].aged
      /\ login'[l].displaced = d /\ login'[l].mapped = TRUE
      BY <1>0, <1>2 DEF LoginShapes, LoginShape
<1>4. LoginsKept(login, login', registry, registry')
  <2>1. ASSUME NEW x \in Logins
        PROVE  /\ login[x].at # "idle" => login'[x].at # "idle" /\ login'[x].now = login[x].now
               /\ Begun(login, x) => Begun(login', x)
               /\ login[x].at \in {"done", "cancelled", "refused"} => login'[x].at = login[x].at
        BY <1>1, <1>3 DEF Begun
  <2> QED BY <1>1, <2>1 DEF LoginsKept
<1>5. Claims[l].sid # NoSid BY <1>1 DEF LogoutInv, LoginOK, StageOK
<1>6. PICK e : e = StoredOf(l) OBVIOUS
<1>7. EntryOK(login', KeyOf(l), e) /\ e.session = SessionOf(l)
  <2>1. e.session = SessionOf(l) /\ e.session[1] = l /\ e.user = Claims[l].user /\ e.subject = Claims[l].sub
        /\ e.at = login'[l].now
        BY <1>3, <1>6, Injective DEF StoredOf
  <2> QED BY <1>3, <1>5, <2>1 DEF EntryOK, OfBegun, Begun
<1>8. MapOK(sidmap, login') BY <1>0, <1>4, MapStays, SelfShrunk DEF LogoutInv
<1>9. PICK k : k = KeyOf(l) OBVIOUS
<1>10. /\ MapOK(sidmap', login') /\ sidmap'.subject_of = sidmap.subject_of
       /\ DOMAIN sidmap'.entries = DOMAIN sidmap.entries \cup {k}
       /\ sidmap'.entries[k] = e /\ \A x \in DOMAIN sidmap.entries : x # k => sidmap'.entries[x] = sidmap.entries[x]
  <2>1. sidmap' = insert(sidmap, k, e) /\ EntryOK(login', k, e) BY <1>1, <1>6, <1>7, <1>9
  <2> QED BY <1>8, <2>1, InsertKeeps
<1>11. Sound(sidmap') BY <1>10 DEF MapOK
<1>12. SubjectFine(sidmap', login', registry')
  <2>1. \A x \in Logins : login'[x].at \in Past => login[x].at \in Past BY <1>1, <1>3 DEF Past
  <2> QED BY <1>4, <1>10, <2>1, SubjectStays DEF LogoutInv
<1>13. k \in DOMAIN sidmap.entries =>
          /\ d # Nothing /\ d.key = KeyOf(l) /\ d.was = sidmap.entries[k] /\ EntryOK(login', KeyOf(l), d.was)
  <2> SUFFICES ASSUME k \in DOMAIN sidmap.entries
               PROVE  d # Nothing /\ d.key = KeyOf(l) /\ d.was = sidmap.entries[k] /\ EntryOK(login', KeyOf(l), d.was)
      OBVIOUS
  <2>1. d = [key |-> KeyOf(l), was |-> sidmap.entries[k]] BY <1>2, <1>9
  <2>2. DOMAIN d = {"key", "was"} /\ DOMAIN Nothing = {"key"} BY <2>1 DEF Nothing
  <2>3. d # Nothing BY <2>2
  <2> QED BY <1>8, <1>9, <2>1, <2>3 DEF MapOK
<1>14. LoginOK(login', registry', owed', ended', l)
  <2>0. LoginOK(login, registry, owed, ended, l) BY DEF LogoutInv
  <2>1. StageOK(login', l) BY <1>3 DEF StageOK, Past
  <2>2. AgedOK(login', l) BY <1>1, <1>3, <1>4, <2>0, TripleStays DEF LoginOK, AgedOK
  <2>3. DisplacedOK(login', l) BY <1>2, <1>3, <1>9, <1>13 DEF DisplacedOK
  <2>4. OwedOK(login', owed', l) BY <1>1, <2>0 DEF LoginOK, OwedOK
  <2>5. EndedOK(login', registry', ended', l) BY <1>1, <1>4, <2>0, TripleStays DEF LoginOK, EndedOK
  <2> QED BY <2>1, <2>2, <2>3, <2>4, <2>5 DEF LoginOK
<1>15. OthersSame(login, login', owed, owed', l) BY <1>1, <1>3 DEF OthersSame
<1>16. SidFine(sidmap', login', registry', owed', book')
  <2>1. SessionOf(l) \in DOMAIN sidmap'.keys_of_session BY <1>7, <1>10, <1>11, KeysIs
  <2>2. \A x \in Logins : Mapped(login', registry', x) =>
           Mapped(login, registry, x) \/ Held(sidmap', login', owed', book', SessionOf(x))
        BY <1>1, <1>3, <2>1 DEF Mapped, Held
  <2>3. ASSUME NEW x \in Logins, SessionOf(x) \in DOMAIN sidmap.keys_of_session
        PROVE  Held(sidmap', login', owed', book', SessionOf(x))
    <3>1. PICK j \in DOMAIN sidmap.entries : sidmap.entries[j].session = SessionOf(x) BY <1>0, <2>3, KeysIs
    <3>2. CASE j = k
      <4>1. SubjectSession(d.key[1], d.was) \in Owes(login', owed', l) BY <1>3, <1>13, <3>1, <3>2 DEF Owes
      <4>2. SubjectSession(d.key[1], d.was)[3] = SessionOf(x) BY <1>13, <3>1, <3>2 DEF SubjectSession
      <4> QED BY <4>1, <4>2 DEF Held
    <3>3. CASE j # k
      <4>1. j \in DOMAIN sidmap'.entries /\ sidmap'.entries[j].session = SessionOf(x) BY <1>10, <3>1, <3>3
      <4> QED BY <1>11, <4>1, KeysIs DEF Held
    <3> QED BY <3>2, <3>3
  <2>4. Owes(login, owed, l) \subseteq Owes(login', owed', l)
        BY <1>1, <1>3 DEF Owes, LogoutInv, LoginOK, OwedOK, DisplacedOK
  <2>5. ASSUME NEW x \in Logins, \E q \in Owes(login, owed, l) : q[3] = SessionOf(x)
        PROVE  Held(sidmap', login', owed', book', SessionOf(x))
        BY <2>4, <2>5 DEF Held
  <2> QED BY <1>1, <1>15, <2>2, <2>3, <2>5, SidStays DEF LogoutInv
<1>17. Shapes' BY <1>1, <1>3 DEF Shapes, LogoutInv
<1>18. CauseAdds(login', delivery, front, book.cause, book'.cause) BY <1>1 DEF CauseAdds
<1> QED BY <1>1, <1>4, <1>10, <1>12, <1>14, <1>15, <1>16, <1>17, <1>18, LoginCloses

(* A login that stands, or is dropped, hands its task all it owes. *)
CanSettle(a, b) ==
    /\ a \notin {"idle", "done", "cancelled", "refused"} /\ b \in OwedAt
    /\ a \in Past \cup Refusing => b \in Past \cup Refusing
    /\ a \in Refusing => b \in Refusing
    /\ b \in Past => a \in Past
    /\ a \in DisplacedAt => b \in {"done", "cancelled"}

LEMMA SettleShape ==
    ASSUME LoginShapes(login), NEW l \in Logins, NEW b, Settled(l, b)
    PROVE  /\ LoginShapes(login') /\ \A x \in Logins : x # l => login'[x] = login[x]
           /\ login'[l].at = b /\ login'[l].now = login[l].now /\ login'[l].aged = {}
           /\ login'[l].displaced = Nothing /\ login'[l].mapped = login[l].mapped
BY DEF Settled, LoginShapes, LoginShape

LEMMA SettleCloses ==
    ASSUME LogoutInv, NEW l \in Logins, NEW a, NEW b, login[l].at = a, CanSettle(a, b), Settled(l, b),
           owed' = [owed EXCEPT ![l] = owed[l] \cup login[l].aged \cup DisplacedBy(l)],
           UNCHANGED <<registry, sidmap, ended, delivery, front, scene, now, book>>
    PROVE  LogoutInv'
<1>0. LoginShapes(login) /\ BookShape(book) /\ Sound(sidmap) /\ DOMAIN owed = Logins BY DEF LogoutInv, Shapes, MapOK
<1>1. /\ LoginShapes(login') /\ \A x \in Logins : x # l => login'[x] = login[x]
      /\ login'[l].at = b /\ login'[l].now = login[l].now /\ login'[l].aged = {}
      /\ login'[l].displaced = Nothing /\ login'[l].mapped = login[l].mapped
      BY <1>0, SettleShape
<1>2. /\ DOMAIN owed' = Logins /\ owed'[l] = owed[l] \cup login[l].aged \cup DisplacedBy(l)
      /\ \A x \in Logins : x # l => owed'[x] = owed[x]
      BY <1>0
<1>3. LoginsKept(login, login', registry, registry')
  <2>1. ASSUME NEW x \in Logins
        PROVE  /\ login[x].at # "idle" => login'[x].at # "idle" /\ login'[x].now = login[x].now
               /\ Begun(login, x) => Begun(login', x)
               /\ login[x].at \in {"done", "cancelled", "refused"} => login'[x].at = login[x].at
        BY <1>1 DEF Begun, CanSettle, OwedAt
  <2> QED BY <2>1 DEF LoginsKept
<1>4. MapOK(sidmap', login') BY <1>0, <1>3, MapStays, SelfShrunk DEF LogoutInv
<1>5. SubjectFine(sidmap', login', registry')
  <2>1. \A x \in Logins : login'[x].at \in Past => login[x].at \in Past BY <1>1 DEF CanSettle
  <2> QED BY <1>3, <2>1, SubjectStays DEF LogoutInv
<1>6. LoginOK(login', registry', owed', ended', l)
  <2>0. LoginOK(login, registry, owed, ended, l) BY DEF LogoutInv
  <2>1. StageOK(login', l) BY <1>1, <2>0 DEF LoginOK, StageOK, CanSettle, OwedAt
  <2>2. AgedOK(login', l) BY <1>1 DEF AgedOK
  <2>3. DisplacedOK(login', l) BY <1>1 DEF DisplacedOK
  <2>4. OwedOK(login', owed', l)
    <3>1. ASSUME NEW q \in owed[l] \cup login[l].aged PROVE TripleOK(login', q) /\ AgedOut(login', l, q[3])
      <4>1. TripleOK(login, q) /\ AgedOut(login, l, q[3])
            BY <2>0 DEF LoginOK, AgedOK, OwedOK, Displaces, CanSettle
      <4> QED BY <1>3, <4>1, TripleStays DEF CanSettle
    <3>2. ASSUME NEW q \in DisplacedBy(l) PROVE TripleOK(login', q) /\ Displaces(login', l, q[3])
      <4>1. /\ login[l].displaced # Nothing
            /\ q = SubjectSession(login[l].displaced.key[1], login[l].displaced.was)
            BY DEF DisplacedBy
      <4>2. PICK e : e = login[l].displaced.was OBVIOUS
      <4>3. a \in DisplacedAt /\ EntryOK(login, KeyOf(l), e)
            BY <2>0, <4>1, <4>2 DEF LoginOK, DisplacedOK, DisplacedAt
      <4>4. EntryOK(login', KeyOf(l), e) BY <1>3, <4>3, EntryStays
      <4>5. q[2] = e.user /\ q[3] = e.session BY <4>1, <4>2 DEF SubjectSession
      <4> QED BY <1>1, <4>3, <4>4, <4>5 DEF TripleOK, Displaces, EntryOK, CanSettle
    <3> QED BY <1>1, <1>2, <3>1, <3>2 DEF OwedOK, CanSettle, OwedAt
  <2>5. EndedOK(login', registry', ended', l) BY <1>3, <2>0, TripleStays DEF LoginOK, EndedOK
  <2> QED BY <2>1, <2>2, <2>3, <2>4, <2>5 DEF LoginOK
<1>7. OthersSame(login, login', owed, owed', l) BY <1>1, <1>2 DEF OthersSame
<1>8. SidFine(sidmap', login', registry', owed', book')
  <2>1. Owes(login', owed', l) = Owes(login, owed, l) BY <1>1, <1>2 DEF Owes, DisplacedBy
  <2>2. \A x \in Logins : x # l => Owes(login', owed', x) = Owes(login, owed, x) BY <1>1, <1>2 DEF Owes
  <2>3. \A x \in Logins : Mapped(login', registry', x) => Mapped(login, registry, x)
        BY <1>1 DEF Mapped, CanSettle
  <2>4. \A x : Held(sidmap, login, owed, book, x) => Held(sidmap', login', owed', book', x)
        BY <2>1, <2>2 DEF Held
  <2> QED BY <2>3, <2>4 DEF LogoutInv, SidFine
<1>9. Shapes' BY <1>1, <1>2 DEF Shapes, LogoutInv
<1>10. CauseAdds(login', delivery, front, book.cause, book'.cause) BY DEF CauseAdds
<1> QED BY <1>3, <1>4, <1>5, <1>6, <1>7, <1>8, <1>9, <1>10, LoginCloses

LEMMA Commits == ASSUME LogoutInv, NEW l \in Logins, commit(l) PROVE LogoutInv'
<1>1. login[l].at = "audit" /\ Settled(l, "done") BY DEF commit, At
<1>2. CanSettle("audit", "done") BY DEF CanSettle, Past, Refusing, OwedAt, DisplacedAt
<1>3. owed[l] = {} BY <1>1 DEF LogoutInv, LoginOK, OwedOK
<1>4. owed' = [owed EXCEPT ![l] = owed[l] \cup login[l].aged \cup DisplacedBy(l)] BY <1>3 DEF commit
<1> QED BY <1>1, <1>2, <1>4, SettleCloses DEF commit

LEMMA DropLogin == ASSUME LogoutInv, NEW l \in Logins, drop_login(l) PROVE LogoutInv'
<1>1. PICK a : a = login[l].at OBVIOUS
<1>2. PICK b : b = IF a = "revoke" THEN "cut" ELSE IF PastSubject(l) THEN "cancelled" ELSE "refused" OBVIOUS
<1>3. Settled(l, b) /\ a \in {"register", "status", "subject", "sweep", "evicted", "audit", "revoke"}
      BY <1>1, <1>2 DEF drop_login
<1>4. CanSettle(a, b)
      BY <1>1, <1>2, <1>3 DEF PastSubject, CanSettle, Past, Refusing, OwedAt, DisplacedAt
<1>5. owed' = [owed EXCEPT ![l] = owed[l] \cup login[l].aged \cup DisplacedBy(l)] BY DEF drop_login
<1> QED BY <1>1, <1>3, <1>4, <1>5, SettleCloses DEF drop_login

(* A login that is refused puts back the mapping it displaced, and owes    *)
(* the aged sessions alone.                                                *)
LEMMA Refuses == ASSUME LogoutInv, NEW l \in Logins, refuse(l) PROVE LogoutInv'
<1>0. LoginShapes(login) /\ BookShape(book) /\ Sound(sidmap) /\ DOMAIN owed = Logins BY DEF LogoutInv, Shapes, MapOK
<1>1. PICK d : d = login[l].displaced OBVIOUS
<1>2. /\ login[l].at = "restore" /\ Settled(l, "revoke") /\ owed' = [owed EXCEPT ![l] = login[l].aged]
      /\ UNCHANGED <<registry, ended, delivery, front, scene, now>>
      /\ sidmap' = IF d = Nothing THEN sidmap ELSE restore_if_vacant(sidmap, d.key, d.was)
      /\ book' = IF d # Nothing /\ d.key \in DOMAIN sidmap.entries
                 THEN [book EXCEPT !.overtaken = @ \cup {d.was.session}] ELSE book
      BY <1>1 DEF refuse, At
<1>3. /\ LoginShapes(login') /\ \A x \in Logins : x # l => login'[x] = login[x]
      /\ login'[l].at = "revoke" /\ login'[l].now = login[l].now /\ login'[l].aged = {}
      /\ login'[l].displaced = Nothing /\ login'[l].mapped = login[l].mapped
      BY <1>0, <1>2, SettleShape
<1>4. /\ DOMAIN owed' = Logins /\ owed'[l] = login[l].aged /\ \A x \in Logins : x # l => owed'[x] = owed[x]
      BY <1>0, <1>2
<1>5. LoginsKept(login, login', registry, registry')
  <2>1. ASSUME NEW x \in Logins
        PROVE  /\ login[x].at # "idle" => login'[x].at # "idle" /\ login'[x].now = login[x].now
               /\ Begun(login, x) => Begun(login', x)
               /\ login[x].at \in {"done", "cancelled", "refused"} => login'[x].at = login[x].at
        BY <1>2, <1>3 DEF Begun
  <2> QED BY <1>2, <2>1 DEF LoginsKept
<1>6. MapOK(sidmap, login') BY <1>0, <1>5, MapStays, SelfShrunk DEF LogoutInv
<1>7. d # Nothing => d.key = KeyOf(l) /\ EntryOK(login', d.key, d.was)
  <2>1. d # Nothing => d.key = KeyOf(l) /\ EntryOK(login, d.key, d.was)
        BY <1>1 DEF LogoutInv, LoginOK, DisplacedOK
  <2> QED BY <1>5, <2>1, EntryStays
<1>8. /\ MapOK(sidmap', login') /\ sidmap'.subject_of = sidmap.subject_of
      /\ \A x \in DOMAIN sidmap.entries : x \in DOMAIN sidmap'.entries /\ sidmap'.entries[x] = sidmap.entries[x]
      /\ d # Nothing /\ d.key \notin DOMAIN sidmap.entries /\ d.was.session \in DOMAIN sidmap.subject_of =>
            d.key \in DOMAIN sidmap'.entries /\ sidmap'.entries[d.key] = d.was
  <2>1. CASE d # Nothing /\ Restorable(sidmap, d.key, d.was)
    <3>1. PICK k, e : k = d.key /\ e = d.was OBVIOUS
    <3>2. sidmap' = insert(sidmap, k, e) /\ EntryOK(login', k, e) /\ k \notin DOMAIN sidmap.entries
          BY <1>2, <1>7, <2>1, <3>1 DEF restore_if_vacant, Restorable
    <3>3. /\ MapOK(sidmap', login') /\ sidmap'.subject_of = sidmap.subject_of
          /\ DOMAIN sidmap'.entries = DOMAIN sidmap.entries \cup {k} /\ sidmap'.entries[k] = e
          /\ \A x \in DOMAIN sidmap.entries : x # k => sidmap'.entries[x] = sidmap.entries[x]
          BY <1>6, <3>2, InsertKeeps
    <3> QED BY <3>1, <3>2, <3>3
  <2>2. CASE ~(d # Nothing /\ Restorable(sidmap, d.key, d.was))
    <3>1. sidmap' = sidmap BY <1>2, <2>2 DEF restore_if_vacant
    <3> QED BY <1>6, <2>2, <3>1 DEF Restorable
  <2> QED BY <2>1, <2>2
<1>9. Sound(sidmap') BY <1>8 DEF MapOK
<1>10. /\ BookShape(book') /\ book'.named = book.named /\ book'.cause = book.cause
       /\ book'.unmapped = book.unmapped /\ book.overtaken \subseteq book'.overtaken
       /\ d # Nothing /\ d.key \in DOMAIN sidmap.entries => d.was.session \in book'.overtaken
       BY <1>0, <1>2 DEF BookShape
<1>11. SubjectFine(sidmap', login', registry')
  <2>1. \A x \in Logins : login'[x].at \in Past => login[x].at \in Past BY <1>3 DEF Past
  <2> QED BY <1>5, <1>8, <2>1, SubjectStays DEF LogoutInv
<1>12. LoginOK(login', registry', owed', ended', l)
  <2>0. LoginOK(login, registry, owed, ended, l) BY DEF LogoutInv
  <2>1. StageOK(login', l) BY <1>3 DEF StageOK, Refusing
  <2>2. AgedOK(login', l) BY <1>3 DEF AgedOK
  <2>3. DisplacedOK(login', l) BY <1>3 DEF DisplacedOK
  <2>4. OwedOK(login', owed', l)
    <3>1. ASSUME NEW q \in login[l].aged PROVE TripleOK(login', q) /\ AgedOut(login', l, q[3])
          BY <1>2, <1>5, <2>0, TripleStays DEF LoginOK, AgedOK
    <3> QED BY <1>3, <1>4, <3>1 DEF OwedOK
  <2>5. EndedOK(login', registry', ended', l) BY <1>2, <1>5, <2>0, TripleStays DEF LoginOK, EndedOK
  <2> QED BY <2>1, <2>2, <2>3, <2>4, <2>5 DEF LoginOK
<1>13. OthersSame(login, login', owed, owed', l) BY <1>3, <1>4 DEF OthersSame
<1>14. SidFine(sidmap', login', registry', owed', book')
  <2>1. \A x \in Logins : Mapped(login', registry', x) => Mapped(login, registry, x)
        BY <1>2, <1>3 DEF Mapped, Refusing
  <2>2. ASSUME NEW x \in Logins, SessionOf(x) \in DOMAIN sidmap.keys_of_session
        PROVE  Held(sidmap', login', owed', book', SessionOf(x))
    <3>1. PICK k \in DOMAIN sidmap.entries : sidmap.entries[k].session = SessionOf(x) BY <1>0, <2>2, KeysIs
    <3>2. k \in DOMAIN sidmap'.entries /\ sidmap'.entries[k].session = SessionOf(x) BY <1>8, <3>1
    <3> QED BY <1>9, <3>2, KeysIs DEF Held
  <2>3. ASSUME NEW x \in Logins, Mapped(login', registry', x), NEW q \in Owes(login, owed, l), q[3] = SessionOf(x)
        PROVE  Held(sidmap', login', owed', book', SessionOf(x))
    <3>1. owed[l] = {} BY <1>2 DEF LogoutInv, LoginOK, OwedOK
    <3>2. CASE q \in login[l].aged
      <4>1. q \in Owes(login', owed', l) BY <1>4, <3>2 DEF Owes
      <4> QED BY <2>3, <4>1 DEF Held
    <3>3. CASE q \notin login[l].aged
      <4>1. d # Nothing /\ q = SubjectSession(d.key[1], d.was) BY <1>1, <3>1, <3>3 DEF Owes
      <4>2. d.was.session = SessionOf(x) BY <2>3, <4>1 DEF SubjectSession
      <4>3. CASE d.key \in DOMAIN sidmap.entries BY <1>10, <4>1, <4>2, <4>3 DEF Held
      <4>4. CASE d.key \notin DOMAIN sidmap.entries
        <5>1. Mapped(login, registry, x) BY <2>1, <2>3
        <5>2. login[x].at \in Past /\ PairOf(x) \in registry
              BY <5>1 DEF Mapped, LogoutInv, LoginOK, StageOK
        <5>3. SessionOf(x) \in DOMAIN sidmap.subject_of BY <5>2 DEF LogoutInv, SubjectFine
        <5>4. d.key \in DOMAIN sidmap'.entries /\ sidmap'.entries[d.key].session = SessionOf(x)
              BY <1>8, <4>1, <4>2, <4>4, <5>3
        <5> QED BY <1>9, <5>4, KeysIs DEF Held
      <4> QED BY <4>3, <4>4
    <3> QED BY <3>2, <3>3
  <2> QED BY <1>10, <1>13, <2>1, <2>2, <2>3, SidStays DEF LogoutInv
<1>15. Shapes' BY <1>2, <1>3, <1>4, <1>10 DEF Shapes, LogoutInv
<1>16. CauseAdds(login', delivery, front, book.cause, book'.cause) BY <1>10 DEF CauseAdds
<1> QED BY <1>2, <1>5, <1>8, <1>10, <1>11, <1>12, <1>13, <1>14, <1>15, <1>16, LoginCloses

-----------------------------------------------------------------------------
(* The task of a login, and what else ends a session. *)

(* The registry loses sessions, or gains ids that no login has begun with. *)
LEMMA SameLogins ==
    ASSUME \A x \in Logins : PairOf(x) \in registry' => PairOf(x) \in registry, login' = login
    PROVE  /\ LoginsKept(login, login', registry, registry')
           /\ \A x \in Logins : Mapped(login', registry', x) => Mapped(login, registry, x)
BY DEF LoginsKept, Begun, Mapped

(* A session leaves the registry for a cause; the map stays. *)
LEMMA EndCloses ==
    ASSUME LogoutInv, Shapes', NEW l \in Logins, UNCHANGED <<login, sidmap, delivery, front>>,
           registry' \subseteq registry, book'.named = book.named,
           book.unmapped \subseteq book'.unmapped, book.overtaken \subseteq book'.overtaken,
           \A x \in Logins : x # l => owed'[x] = owed[x] /\ ended'[x] = ended[x],
           owed'[l] \subseteq owed[l],
           \A q \in owed[l] : q \in owed'[l] \/ <<q[2], q[3]>> \notin registry' \/ q[3] \in book'.unmapped,
           \A q \in ended'[l] : q \in ended[l] \/ (q \in owed[l] /\ <<q[2], q[3]>> \notin registry'),
           CauseAdds(login, delivery, front, book.cause, book'.cause)
    PROVE  LogoutInv'
<1>1. /\ LoginsKept(login, login', registry, registry')
      /\ \A x \in Logins : Mapped(login', registry', x) => Mapped(login, registry, x)
      BY SameLogins
<1>2. OthersSame(login, login', owed, owed', l) BY DEF OthersSame
<1>3. ASSUME NEW q \in owed[l] PROVE TripleOK(login, q) /\ <<q[2], q[3]>> = PairOf(q[3][1])
  <2>1. TripleOK(login, q) BY DEF LogoutInv, LoginOK, OwedOK
  <2> QED BY <2>1 DEF TripleOK, OfBegun, PairOf
<1>4. MapOK(sidmap', login') BY DEF LogoutInv
<1>5. SubjectFine(sidmap', login', registry')
      BY DEF LogoutInv, SubjectFine
<1>6. LoginOK(login', registry', owed', ended', l)
  <2>0. LoginOK(login, registry, owed, ended, l) BY DEF LogoutInv
  <2>1. StageOK(login', l) /\ AgedOK(login', l) /\ DisplacedOK(login', l) BY <2>0 DEF LoginOK
  <2>2. OwedOK(login', owed', l) BY <2>0 DEF LoginOK, OwedOK
  <2>3. ASSUME NEW q \in ended'[l] PROVE TripleOK(login', q) /\ Gone(login', registry', q[3][1])
    <3>1. CASE q \in ended[l] BY <2>0, <3>1 DEF LoginOK, EndedOK, Gone
    <3>2. CASE q \in owed[l] /\ <<q[2], q[3]>> \notin registry' BY <1>3, <3>2 DEF TripleOK, OfBegun, Gone
    <3> QED BY <3>1, <3>2
  <2> QED BY <2>1, <2>2, <2>3 DEF LoginOK, EndedOK
<1>7. SidFine(sidmap', login', registry', owed', book')
  <2>1. ASSUME NEW x \in Logins, Mapped(login', registry', x), NEW q \in Owes(login, owed, l), q[3] = SessionOf(x)
        PROVE  Held(sidmap', login', owed', book', SessionOf(x))
    <3>1. CASE q \in Owes(login', owed', l) BY <2>1, <3>1 DEF Held
    <3>2. CASE q \notin Owes(login', owed', l)
      <4>1. q \in owed[l] /\ q \notin owed'[l] BY <3>2 DEF Owes
      <4>2. PairOf(x) \in registry' BY <2>1 DEF Mapped
      <4>3. <<q[2], q[3]>> = PairOf(x) BY <1>3, <2>1, <4>1, Injective
      <4> QED BY <2>1, <4>1, <4>2, <4>3 DEF Held
    <3> QED BY <3>1, <3>2
  <2>2. \A x \in Logins : SessionOf(x) \in DOMAIN sidmap.keys_of_session =>
           Held(sidmap', login', owed', book', SessionOf(x))
        BY DEF Held
  <2> QED BY <1>1, <1>2, <2>1, <2>2, SidStays DEF LogoutInv
<1>8. CauseAdds(login', delivery, front, book.cause, book'.cause) OBVIOUS
<1> QED BY <1>1, <1>2, <1>4, <1>5, <1>6, <1>7, <1>8, LoginCloses

LEMMA EndSession == ASSUME LogoutInv, NEW l \in Logins, NEW q, end_session(l, q) PROVE LogoutInv'
<1>0. BookShape(book) /\ DOMAIN owed = Logins /\ DOMAIN ended = Logins BY DEF LogoutInv, Shapes
<1>1. /\ q \in owed[l] /\ UNCHANGED <<login, sidmap, delivery, front, scene, now>>
      /\ owed' = [owed EXCEPT ![l] = @ \ {q}]
      BY DEF end_session
<1>2. /\ DOMAIN owed' = Logins /\ owed'[l] = owed[l] \ {q} /\ \A x \in Logins : x # l => owed'[x] = owed[x]
      BY <1>0, <1>1
<1>3. TripleOK(login, q) /\ (AgedOut(login, l, q[3]) \/ Displaces(login, l, q[3])) /\ login[l].at # "idle"
      BY <1>1 DEF LogoutInv, LoginOK, OwedOK
<1>4. CASE /\ Ends(<<q[2], q[3]>>, [by |-> "login", who |-> l]) /\ ended' = [ended EXCEPT ![l] = @ \cup {q}]
  <2>1. PICK p : p = <<q[2], q[3]>> OBVIOUS
  <2>2. PICK c : c = [by |-> "login", who |-> l] OBVIOUS
  <2>3. /\ registry' = registry \ {p} /\ BookShape(book')
        /\ book'.named = book.named /\ book'.unmapped = book.unmapped /\ book'.overtaken = book.overtaken
        /\ \A s \in DOMAIN book'.cause :
              (s \in DOMAIN book.cause /\ book'.cause[s] = book.cause[s]) \/ (s = p[2] /\ book'.cause[s] = c)
        BY <1>0, <1>4, <2>1, <2>2, EndsIs
  <2>4. p[2] = q[3] BY <2>1
  <2>5. OfBegun(login, q[3]) /\ Because(login, delivery, front, q[3], c)
        BY <1>3, <2>2 DEF TripleOK, Because
  <2>6. CauseAdds(login, delivery, front, book.cause, book'.cause) BY <2>3, <2>4, <2>5 DEF CauseAdds
  <2>7. /\ DOMAIN ended' = Logins /\ ended'[l] = ended[l] \cup {q}
        /\ \A x \in Logins : x # l => ended'[x] = ended[x]
        BY <1>0, <1>4
  <2>8. Shapes' BY <1>1, <1>2, <2>3, <2>7 DEF LogoutInv, Shapes
  <2>9. \A r \in owed[l] : r \in owed'[l] \/ <<r[2], r[3]>> \notin registry' BY <1>2, <2>1, <2>3
  <2>10. \A r \in ended'[l] : r \in ended[l] \/ (r \in owed[l] /\ <<r[2], r[3]>> \notin registry')
         BY <1>1, <2>1, <2>3, <2>7
  <2> QED BY <1>1, <1>2, <2>3, <2>6, <2>7, <2>8, <2>9, <2>10, EndCloses
<1>5. CASE UNCHANGED <<registry, ended>> /\ book' = [book EXCEPT !.unmapped = @ \cup {q[3]}]
  <2>1. /\ BookShape(book') /\ book'.named = book.named /\ book'.unmapped = book.unmapped \cup {q[3]}
        /\ book'.overtaken = book.overtaken /\ book'.cause = book.cause
        BY <1>0, <1>5 DEF BookShape
  <2>2. Shapes' BY <1>0, <1>1, <1>2, <1>5, <2>1 DEF LogoutInv, Shapes
  <2>3. CauseAdds(login, delivery, front, book.cause, book'.cause) BY <2>1 DEF CauseAdds
  <2>4. \A r \in owed[l] : r \in owed'[l] \/ r[3] \in book'.unmapped BY <1>2, <2>1
  <2> QED BY <1>1, <1>2, <1>5, <2>1, <2>2, <2>3, <2>4, EndCloses
<1> QED BY <1>4, <1>5 DEF end_session

(* The map loses only sessions that are gone, and no login moves. *)
LEMMA MapFine ==
    ASSUME LogoutInv, login' = login, owed' = owed,
           \A x \in Logins : PairOf(x) \in registry' => PairOf(x) \in registry,
           book.unmapped \subseteq book'.unmapped, book.overtaken \subseteq book'.overtaken,
           Sound(sidmap'), Shrunk(sidmap, sidmap'),
           \A k \in DOMAIN sidmap.entries :
              k \in DOMAIN sidmap'.entries \/ Gone(login, registry', sidmap.entries[k].session[1]),
           \A s \in DOMAIN sidmap.subject_of :
              s \in DOMAIN sidmap'.subject_of \/ Gone(login, registry', s[1])
    PROVE  /\ MapOK(sidmap', login') /\ SubjectFine(sidmap', login', registry')
           /\ SidFine(sidmap', login', registry', owed', book')
<1>1. /\ LoginsKept(login, login', registry, registry')
      /\ \A x \in Logins : Mapped(login', registry', x) => Mapped(login, registry, x)
      BY SameLogins
<1>2. MapOK(sidmap', login') BY <1>1, MapStays DEF LogoutInv
<1>3. SubjectFine(sidmap', login', registry')
  <2>1. \A s \in DOMAIN sidmap.subject_of : s \in DOMAIN sidmap'.subject_of \/ PairOf(s[1]) \notin registry'
        BY DEF Gone
  <2> QED BY <1>1, <2>1, SubjectStays DEF LogoutInv
<1>4. SidFine(sidmap', login', registry', owed', book')
  <2> SUFFICES ASSUME NEW x \in Logins, Mapped(login', registry', x)
               PROVE  Held(sidmap', login', owed', book', SessionOf(x))
      BY DEF SidFine
  <2>1. Held(sidmap, login, owed, book, SessionOf(x)) BY <1>1 DEF LogoutInv, SidFine
  <2>2. CASE SessionOf(x) \in DOMAIN sidmap.keys_of_session
    <3>1. PICK k \in DOMAIN sidmap.entries : sidmap.entries[k].session = SessionOf(x)
          BY <2>2, KeysIs DEF LogoutInv, MapOK
    <3>2. SessionOf(x)[1] = x /\ PairOf(x) \in registry' BY Injective DEF Mapped
    <3>3. k \in DOMAIN sidmap'.entries BY <3>1, <3>2 DEF Gone
    <3>4. sidmap'.entries[k].session = SessionOf(x) BY <3>1, <3>3 DEF Shrunk
    <3> QED BY <3>3, <3>4, KeysIs DEF Held
  <2> QED BY <2>1, <2>2 DEF Held
<1> QED BY <1>2, <1>3, <1>4

(* What a step of a logout, or of anything but a login, has to show. *)
LEMMA ServiceCloses ==
    ASSUME LogoutInv, Shapes', UNCHANGED <<login, owed>>,
           \A x \in Logins : PairOf(x) \in registry' => PairOf(x) \in registry,
           book.unmapped \subseteq book'.unmapped, book.overtaken \subseteq book'.overtaken,
           Sound(sidmap'), Shrunk(sidmap, sidmap'),
           \A k \in DOMAIN sidmap.entries :
              k \in DOMAIN sidmap'.entries \/ Gone(login, registry', sidmap.entries[k].session[1]),
           \A s \in DOMAIN sidmap.subject_of :
              s \in DOMAIN sidmap'.subject_of \/ Gone(login, registry', s[1]),
           \A l \in Logins : ended'[l] \subseteq ended[l],
           DeliveriesKept(delivery, delivery'), FrontsKept(front, front'),
           CauseAdds(login, delivery', front', book.cause, book'.cause),
           \A d \in Deliveries : \/ delivery'[d] = delivery[d] /\ book'.named[d] = book.named[d]
                                 \/ DeliveryOK(login, registry', delivery'[d], book'.named[d]),
           \A f \in Fronts : front'[f] = front[f] \/ FrontOK(login, registry', front'[f])
    PROVE  LogoutInv'
<1>1. LoginsKept(login, login', registry, registry') BY SameLogins
<1>2. /\ MapOK(sidmap', login') /\ SubjectFine(sidmap', login', registry')
      /\ SidFine(sidmap', login', registry', owed', book')
      BY MapFine
<1>3. CauseOK(login', delivery', front', book'.cause) BY <1>1, CauseGrows DEF LogoutInv
<1>4. ASSUME NEW l \in Logins PROVE LoginOK(login', registry', owed', ended', l)
  <2>1. LoginOK(login, registry, owed, ended, l) BY DEF LogoutInv
  <2>2. EndedOK(login', registry', ended', l) BY <1>1, <2>1, TripleStays DEF LoginOK, EndedOK
  <2> QED BY <2>1, <2>2 DEF LoginOK
<1>5. ASSUME NEW d \in Deliveries PROVE DeliveryOK(login', registry', delivery'[d], book'.named[d])
  <2>1. CASE delivery'[d] = delivery[d] /\ book'.named[d] = book.named[d]
    <3>1. DeliveryOK(login, registry, delivery[d], book.named[d]) BY DEF LogoutInv
    <3> QED BY <1>1, <2>1, <3>1, DeliveryStays
  <2> QED BY <2>1
<1>6. ASSUME NEW f \in Fronts PROVE FrontOK(login', registry', front'[f])
  <2>1. CASE front'[f] = front[f]
    <3>1. FrontOK(login, registry, front[f]) BY DEF LogoutInv
    <3> QED BY <1>1, <2>1, <3>1, FrontStays
  <2> QED BY <2>1
<1> QED BY <1>2, <1>3, <1>4, <1>5, <1>6 DEF LogoutInv

(* Deliveries, requests and the map as they were. *)
LEMMA Unmoved ==
    ASSUME LogoutInv
    PROVE  /\ DeliveriesKept(delivery, delivery) /\ FrontsKept(front, front)
           /\ Sound(sidmap) /\ Shrunk(sidmap, sidmap) /\ BookShape(book)
           /\ CauseAdds(login, delivery, front, book.cause, book.cause)
<1>1. DeliveriesKept(delivery, delivery) /\ FrontsKept(front, front) BY DEF DeliveriesKept, FrontsKept
<1>2. Sound(sidmap) /\ BookShape(book) BY DEF LogoutInv, MapOK, Shapes
<1>3. CauseAdds(login, delivery, front, book.cause, book.cause) BY DEF CauseAdds
<1> QED BY <1>1, <1>2, <1>3, SelfShrunk

LEMMA ForgetEnded == ASSUME LogoutInv, NEW l \in Logins, forget_ended(l) PROVE LogoutInv'
<1>0. /\ DeliveriesKept(delivery, delivery) /\ FrontsKept(front, front) /\ Sound(sidmap)
      /\ CauseAdds(login, delivery, front, book.cause, book.cause)
      BY Unmoved
<1>1. /\ sidmap' = forget_subjects(sidmap, ended[l]) /\ ended' = [ended EXCEPT ![l] = {}]
      /\ UNCHANGED <<registry, login, owed, book, delivery, front, scene, now>>
      BY DEF forget_ended
<1>2. PICK Q : Q = ended[l] OBVIOUS
<1>3. /\ Sound(sidmap') /\ Shrunk(sidmap, sidmap') /\ sidmap'.entries = sidmap.entries
      /\ \A s \in DOMAIN sidmap.subject_of : s \in DOMAIN sidmap'.subject_of
            \/ \E q \in Q : q[3] = s /\ RecordedFor(sidmap, q[1], q[2], s)
      BY <1>0, <1>1, <1>2, ForgetShrinks
<1>4. \A q \in Q : Gone(login, registry, q[3][1]) BY <1>2 DEF LogoutInv, LoginOK, EndedOK
<1>5. \A s \in DOMAIN sidmap.subject_of : s \in DOMAIN sidmap'.subject_of \/ Gone(login, registry', s[1])
      BY <1>1, <1>3, <1>4
<1>6. DOMAIN ended' = Logins /\ \A x \in Logins : ended'[x] \subseteq ended[x]
      BY <1>1 DEF LogoutInv, Shapes
<1>7. Shapes' BY <1>1, <1>6 DEF LogoutInv, Shapes
<1> QED BY <1>0, <1>1, <1>3, <1>5, <1>6, <1>7, ServiceCloses

LEMMA OtherEnd == ASSUME LogoutInv, NEW l \in Logins, other_end(l) PROVE LogoutInv'
<1>0. /\ DeliveriesKept(delivery, delivery) /\ FrontsKept(front, front) /\ Sound(sidmap)
      /\ Shrunk(sidmap, sidmap) /\ BookShape(book)
      BY Unmoved
<1>1. PICK c : c = [by |-> "other", who |-> l] OBVIOUS
<1>2. /\ login[l].at = "done" /\ Ends(PairOf(l), c)
      /\ UNCHANGED <<sidmap, login, owed, ended, delivery, front, scene, now>>
      BY <1>1 DEF other_end
<1>3. /\ registry' = registry \ {PairOf(l)} /\ BookShape(book')
      /\ book'.named = book.named /\ book'.unmapped = book.unmapped /\ book'.overtaken = book.overtaken
      /\ \A s \in DOMAIN book'.cause :
            (s \in DOMAIN book.cause /\ book'.cause[s] = book.cause[s]) \/ (s = PairOf(l)[2] /\ book'.cause[s] = c)
      BY <1>0, <1>2, EndsIs
<1>4. PairOf(l)[2] = SessionOf(l) /\ SessionOf(l)[1] = l BY Injective
<1>5. OfBegun(login, SessionOf(l)) /\ Because(login, delivery, front, SessionOf(l), c)
      BY <1>1, <1>2, <1>4 DEF OfBegun, Begun, Because
<1>6. CauseAdds(login, delivery', front', book.cause, book'.cause) BY <1>2, <1>3, <1>4, <1>5 DEF CauseAdds
<1>7. Shapes' BY <1>2, <1>3 DEF LogoutInv, Shapes
<1> QED BY <1>0, <1>2, <1>3, <1>6, <1>7, ServiceCloses

LEMMA Regenerates == ASSUME LogoutInv, NEW l \in Logins, regenerate(l) PROVE LogoutInv'
<1>0. /\ DeliveriesKept(delivery, delivery) /\ FrontsKept(front, front) /\ Sound(sidmap)
      /\ Shrunk(sidmap, sidmap) /\ CauseAdds(login, delivery, front, book.cause, book.cause)
      BY Unmoved
<1>1. /\ registry' = (registry \ {PairOf(l)}) \cup {<<Claims[l].user, RotatedOf(l)>>}
      /\ UNCHANGED <<sidmap, login, owed, ended, delivery, front, scene, now, book>>
      BY DEF regenerate
<1>2. \A x \in Logins : PairOf(x) \in registry' => PairOf(x) \in registry BY <1>1, Injective
<1>3. Shapes' BY <1>1 DEF LogoutInv, Shapes
<1> QED BY <1>0, <1>1, <1>2, <1>3, ServiceCloses

LEMMA Ticks == ASSUME LogoutInv, tick PROVE LogoutInv'
<1>0. /\ DeliveriesKept(delivery, delivery) /\ FrontsKept(front, front) /\ Sound(sidmap)
      /\ Shrunk(sidmap, sidmap) /\ CauseAdds(login, delivery, front, book.cause, book.cause)
      BY Unmoved
<1>1. now' = now + 1 /\ UNCHANGED <<registry, sidmap, login, owed, ended, delivery, front, scene, book>> BY DEF tick
<1>2. Shapes' BY <1>1 DEF LogoutInv, Shapes
<1> QED BY <1>0, <1>1, <1>2, ServiceCloses

LEMMA Stutters == ASSUME LogoutInv, UNCHANGED vars PROVE LogoutInv'
<1>0. /\ DeliveriesKept(delivery, delivery) /\ FrontsKept(front, front) /\ Sound(sidmap)
      /\ Shrunk(sidmap, sidmap) /\ CauseAdds(login, delivery, front, book.cause, book.cause)
      BY Unmoved
<1>1. Shapes' BY DEF LogoutInv, Shapes, vars
<1> QED BY <1>0, <1>1, ServiceCloses DEF vars

-----------------------------------------------------------------------------
(* The back-channel handler. *)

(* One delivery changes, to a state that is in order. *)
LEMMA DeliveryCloses ==
    ASSUME LogoutInv, NEW d \in Deliveries, UNCHANGED <<login, owed, ended, front, scene, now>>,
           \A x \in Logins : PairOf(x) \in registry' => PairOf(x) \in registry,
           BookShape(book'), book.unmapped \subseteq book'.unmapped, book.overtaken \subseteq book'.overtaken,
           Sound(sidmap'), Shrunk(sidmap, sidmap'),
           \A k \in DOMAIN sidmap.entries :
              k \in DOMAIN sidmap'.entries \/ Gone(login, registry', sidmap.entries[k].session[1]),
           \A s \in DOMAIN sidmap.subject_of :
              s \in DOMAIN sidmap'.subject_of \/ Gone(login, registry', s[1]),
           NEW x, delivery' = [delivery EXCEPT ![d] = x], DeliveryShape(x), x.at # "idle",
           delivery[d].at # "idle" => x.token = delivery[d].token,
           \A e \in Deliveries : e # d => book'.named[e] = book.named[e],
           DeliveryOK(login, registry', x, book'.named[d]),
           \A s \in DOMAIN book'.cause :
              \/ s \in DOMAIN book.cause /\ book'.cause[s] = book.cause[s]
              \/ OfBegun(login, s) /\ book'.cause[s] = [by |-> "logout", who |-> d] /\ Speaks(x.token, s[1])
    PROVE  LogoutInv'
<1>0. FrontsKept(front, front) BY Unmoved
<1>1. /\ DOMAIN delivery' = Deliveries /\ delivery'[d] = x
      /\ \A e \in Deliveries : e # d => delivery'[e] = delivery[e]
      BY DEF LogoutInv, Shapes, DeliveryShapes
<1>2. DeliveriesKept(delivery, delivery') BY <1>1 DEF DeliveriesKept
<1>3. DeliveryShapes(delivery') BY <1>1 DEF DeliveryShapes, LogoutInv, Shapes
<1>4. Shapes' BY <1>3 DEF LogoutInv, Shapes
<1>5. CauseAdds(login, delivery', front', book.cause, book'.cause)
  <2> SUFFICES ASSUME NEW s \in DOMAIN book'.cause
               PROVE  \/ s \in DOMAIN book.cause /\ book'.cause[s] = book.cause[s]
                      \/ OfBegun(login, s) /\ Because(login, delivery', front', s, book'.cause[s])
      BY DEF CauseAdds
  <2>1. CASE OfBegun(login, s) /\ book'.cause[s] = [by |-> "logout", who |-> d] /\ Speaks(x.token, s[1])
        BY <1>1, <2>1 DEF Because
  <2> QED BY <2>1
<1> QED BY <1>0, <1>1, <1>2, <1>4, <1>5, ServiceCloses

LEMMA Receives == ASSUME LogoutInv, NEW d \in Deliveries, NEW t, receive(d, t) PROVE LogoutInv'
<1>0. Sound(sidmap) /\ Shrunk(sidmap, sidmap) /\ BookShape(book) BY Unmoved
<1>1. DeliveryShape(delivery[d]) /\ DOMAIN delivery = Deliveries BY DEF LogoutInv, Shapes, DeliveryShapes
<1>2. /\ delivery[d].at = "idle"
      /\ UNCHANGED <<login, owed, ended, front, scene, now, registry, sidmap>>
      BY DEF receive, DAt
<1> DEFINE Set(a, n) == delivery' = [delivery EXCEPT ![d].token = t, ![d].seen = now, ![d].at = a, ![d].answer = n]
<1>3. \E a \in {"lookup", "answered"}, n \in {0, 400, 503} : Set(a, n)
  <2>1. CASE admit_jti(d, t)
    <3>1. PICK answer : answer = Recorded(expire_before(log, now - Retention), PairOfToken(t), JtiCapacity) OBVIOUS
    <3>2. PICK a, n : /\ a = IF answer = "New" THEN "lookup" ELSE "answered"
                      /\ n = CASE answer = "New" -> 0 [] answer = "Replay" -> 400 [] OTHER -> 503
          OBVIOUS
    <3>3. Set(a, n) BY <2>1, <3>1, <3>2 DEF admit_jti
    <3>4. a \in {"lookup", "answered"} /\ n \in {0, 400, 503} BY <3>2
    <3> HIDE DEF Set
    <3> QED BY <3>3, <3>4
  <2>2. CASE delivery' = [delivery EXCEPT ![d].token = t, ![d].seen = now, ![d].at = "answered",
                                          ![d].answer = IF left' = left THEN 400 ELSE 503]
    <3>1. PICK n : n = IF left' = left THEN 400 ELSE 503 OBVIOUS
    <3>2. Set("answered", n) BY <2>2, <3>1
    <3>3. n \in {0, 400, 503} BY <3>1
    <3> HIDE DEF Set
    <3> QED BY <3>2, <3>3
  <2> HIDE DEF Set
  <2> QED BY <2>1, <2>2 DEF receive
<1> HIDE DEF Set
<1>4. PICK a \in {"lookup", "answered"}, n \in {0, 400, 503} : Set(a, n) BY <1>3
<1>5. PICK x : x = [delivery[d] EXCEPT !.token = t, !.seen = now, !.at = a, !.answer = n] OBVIOUS
<1>6. delivery' = [delivery EXCEPT ![d] = x] BY <1>1, <1>4, <1>5 DEF Set
<1>7. DeliveryShape(x) /\ x.at = a /\ x.answer = n BY <1>1, <1>5 DEF DeliveryShape
<1>8. x.at # "idle" /\ DeliveryOK(login, registry', x, book'.named[d]) BY <1>4, <1>7 DEF DeliveryOK
<1>9. /\ BookShape(book') /\ book'.named = book.named /\ book'.cause = book.cause
      /\ book'.unmapped = book.unmapped /\ book'.overtaken = book.overtaken
  <2>1. book' = book \/ book' = [book EXCEPT !.replays = @ \cup {t}] BY DEF receive, admit_jti
  <2> QED BY <1>0, <2>1 DEF BookShape
<1> QED BY <1>0, <1>2, <1>6, <1>7, <1>8, <1>9, DeliveryCloses

(* The sessions that the map gives for a subject are that subject's. *)
LEMMA SubjectSessionsOK ==
    ASSUME NEW m, NEW lg, MapOK(m, lg), NEW iss, NEW sub, NEW p \in subject_sessions(m, iss, sub)
    PROVE  PairOK(lg, p) /\ Claims[p[2][1]].iss = iss /\ Claims[p[2][1]].sub = sub
<1> DEFINE slot == <<iss, sub>>
<1>0. Sound(m) BY DEF MapOK
<1>1. CASE slot \in DOMAIN m.subjects /\ p \in m.subjects[slot]
  <2>1. PICK s \in DOMAIN m.subject_of : SubjectSlot(m, s) = slot /\ p = <<m.subject_of[s].user, s>>
        BY <1>0, <1>1, AgreesIs DEF Sound, SubjectsAgree
  <2>2. RecordOK(lg, s, m.subject_of[s]) BY DEF MapOK
  <2> QED BY <2>1, <2>2 DEF RecordOK, SubjectSlot, PairOK, PairOf, OfBegun
<1>2. CASE \E sid : /\ slot \in DOMAIN m.by_subject /\ sid \in m.by_subject[slot] /\ <<iss, sid>> \in DOMAIN m.entries
                    /\ p = <<m.entries[<<iss, sid>>].user, m.entries[<<iss, sid>>].session>>
  <2>1. PICK sid : /\ slot \in DOMAIN m.by_subject /\ sid \in m.by_subject[slot] /\ <<iss, sid>> \in DOMAIN m.entries
                   /\ p = <<m.entries[<<iss, sid>>].user, m.entries[<<iss, sid>>].session>>
        BY <1>2
  <2>2. PICK k \in DOMAIN m.entries : Slot(k, m.entries[k]) = slot /\ k[2] = sid
        BY <1>0, <2>1, AgreesIs DEF Sound, EntriesAgree
  <2>3. k = <<iss, sid>> /\ m.entries[k].subject = sub BY <1>0, <2>2 DEF Slot, Sound, PairKeys
  <2>4. EntryOK(lg, k, m.entries[k]) /\ p = <<m.entries[k].user, m.entries[k].session>> BY <2>1, <2>3 DEF MapOK
  <2> QED BY <2>3, <2>4 DEF EntryOK, KeyOf, PairOK, PairOf, OfBegun
<1> QED BY <1>1, <1>2 DEF subject_sessions

LEMMA LooksUp == ASSUME LogoutInv, NEW d \in Deliveries, look_up(d) PROVE LogoutInv'
<1>0. Sound(sidmap) /\ Shrunk(sidmap, sidmap) /\ BookShape(book) BY Unmoved
<1>1. DeliveryShape(delivery[d]) /\ DOMAIN delivery = Deliveries BY DEF LogoutInv, Shapes, DeliveryShapes
<1>2. PICK t : t = delivery[d].token OBVIOUS
<1>3. PICK key : key = <<t.iss, t.sid>> OBVIOUS
<1>4. PICK bySid : bySid = (t.sid # NoSid /\ key \in DOMAIN sidmap.entries) OBVIOUS
<1>5. PICK todo : todo = IF bySid THEN {<<sidmap.entries[key].user, sidmap.entries[key].session>>}
                         ELSE IF t.sub = NoSub THEN {} ELSE subject_sessions(sidmap, t.iss, t.sub)
      OBVIOUS
<1>6. /\ delivery[d].at = "lookup"
      /\ \E by : delivery' = [delivery EXCEPT ![d].at = "end", ![d].by = by, ![d].todo = todo]
      /\ book' = [book EXCEPT !.named[d] = Named(t)]
      /\ UNCHANGED <<login, owed, ended, front, scene, now, registry, sidmap>>
      BY <1>2, <1>3, <1>4, <1>5 DEF look_up, DAt
<1>7. PICK by : delivery' = [delivery EXCEPT ![d].at = "end", ![d].by = by, ![d].todo = todo] BY <1>6
<1>8. PICK x : x = [delivery[d] EXCEPT !.at = "end", !.by = by, !.todo = todo] OBVIOUS
<1>9. delivery' = [delivery EXCEPT ![d] = x] BY <1>1, <1>7, <1>8
<1>10. /\ DeliveryShape(x) /\ x.at = "end" /\ x.todo = todo /\ x.token = t /\ x.answer = delivery[d].answer
       BY <1>1, <1>2, <1>8 DEF DeliveryShape
<1>11. /\ BookShape(book') /\ book'.cause = book.cause /\ book'.unmapped = book.unmapped
       /\ book'.overtaken = book.overtaken /\ book'.named[d] = Named(t)
       /\ \A e \in Deliveries : e # d => book'.named[e] = book.named[e]
       BY <1>0, <1>6 DEF BookShape
<1>12. x.answer # 200 BY <1>6, <1>10 DEF LogoutInv, DeliveryOK
<1>13. MapOK(sidmap, login) BY DEF LogoutInv
<1>14. ASSUME bySid PROVE DeliveryOK(login, registry', x, book'.named[d])
  <2>1. PICK e : e = sidmap.entries[key] OBVIOUS
  <2>2. EntryOK(login, key, e) /\ todo = {<<e.user, e.session>>} BY <1>4, <1>5, <1>13, <1>14, <2>1 DEF MapOK
  <2>3. Named(t) = {e.session} BY <1>3, <1>4, <1>14, <2>1 DEF Named
  <2>4. OfBegun(login, e.session) /\ PairOf(e.session[1]) = <<e.user, e.session>>
        BY <2>2 DEF EntryOK, OfBegun, PairOf
  <2>5. Speaks(t, e.session[1]) BY <1>3, <2>2 DEF EntryOK, KeyOf, Speaks
  <2>6. \A p \in todo : PairOK(login, p) /\ Speaks(t, p[2][1]) BY <2>2, <2>4, <2>5 DEF PairOK
  <2>7. \A s \in Named(t) : OfBegun(login, s) /\ PairOf(s[1]) \in todo BY <2>2, <2>3, <2>4
  <2> QED BY <1>6, <1>10, <1>11, <1>12, <2>6, <2>7 DEF DeliveryOK
<1>15. ASSUME ~bySid PROVE DeliveryOK(login, registry', x, book'.named[d])
  <2>1. key \notin DOMAIN sidmap.entries
    <3> SUFFICES ASSUME key \in DOMAIN sidmap.entries PROVE FALSE OBVIOUS
    <3>1. PICK e : e = sidmap.entries[key] OBVIOUS
    <3>2. EntryOK(login, key, e) BY <1>13, <3>1 DEF MapOK
    <3>3. t.sid # NoSid BY <1>3, <3>2 DEF EntryOK, KeyOf
    <3> QED BY <1>4, <1>15, <3>3
  <2>2. \A p \in todo : PairOK(login, p) /\ Speaks(t, p[2][1])
        BY <1>5, <1>13, <1>15, SubjectSessionsOK DEF Speaks
  <2>3. ASSUME NEW s \in Named(t) PROVE OfBegun(login, s) /\ PairOf(s[1]) \in todo
    <3>1. PICK l \in scene.logins : /\ s = SessionOf(l) /\ PastSubject(l) /\ Registered(l)
                                    /\ Claims[l].iss = t.iss /\ Claims[l].sub = t.sub
          BY <1>3, <2>1 DEF Named
    <3>2. l \in Logins BY FederationAssumption DEF LogoutInv, Shapes
    <3>3. login[l].at \in Past /\ PairOf(l) \in registry BY <3>1 DEF PastSubject, Past, Registered
    <3>4. s[1] = l /\ OfBegun(login, s) BY <3>1, <3>2, <3>3, Injective DEF OfBegun, Begun, Past
    <3>5. s \in DOMAIN sidmap.subject_of BY <3>1, <3>2, <3>3 DEF LogoutInv, SubjectFine
    <3>6. RecordOK(login, s, sidmap.subject_of[s]) BY <1>13, <3>5 DEF MapOK
    <3>7. SubjectSlot(sidmap, s) = <<t.iss, t.sub>> /\ PairOf(l) = <<sidmap.subject_of[s].user, s>>
          BY <3>1, <3>4, <3>6 DEF RecordOK, SubjectSlot, PairOf
    <3>8. <<t.iss, t.sub>> \in DOMAIN sidmap.subjects /\ PairOf(l) \in sidmap.subjects[<<t.iss, t.sub>>]
          BY <1>0, <3>5, <3>7, AgreesIs DEF Sound, SubjectsAgree
    <3>9. t.sub # NoSub BY <3>1, <3>2, FederationAssumption
    <3> QED BY <1>5, <1>15, <3>4, <3>8, <3>9 DEF subject_sessions
  <2> QED BY <1>6, <1>10, <1>11, <1>12, <2>2, <2>3 DEF DeliveryOK
<1>16. DeliveryOK(login, registry', x, book'.named[d]) BY <1>14, <1>15
<1> QED BY <1>0, <1>2, <1>6, <1>9, <1>10, <1>11, <1>16, DeliveryCloses

LEMMA EndsOne == ASSUME LogoutInv, NEW d \in Deliveries, NEW p, end_one(d, p) PROVE LogoutInv'
<1>0. Sound(sidmap) /\ Shrunk(sidmap, sidmap) /\ BookShape(book) BY Unmoved
<1>1. DeliveryShape(delivery[d]) /\ DOMAIN delivery = Deliveries BY DEF LogoutInv, Shapes, DeliveryShapes
<1>2. /\ delivery[d].at = "end" /\ p \in delivery[d].todo
      /\ UNCHANGED <<login, owed, ended, front, scene, now, sidmap>>
      BY DEF end_one, DAt
<1>3. DeliveryOK(login, registry, delivery[d], book.named[d]) BY DEF LogoutInv
<1>4. PairOK(login, p) /\ Speaks(delivery[d].token, p[2][1]) BY <1>2, <1>3 DEF DeliveryOK
<1>5. CASE /\ Ends(p, [by |-> "logout", who |-> d])
           /\ delivery' = [delivery EXCEPT ![d].at = "unmap", ![d].todo = @ \ {p}, ![d].current = p]
  <2>1. PICK c : c = [by |-> "logout", who |-> d] OBVIOUS
  <2>2. /\ registry' = registry \ {p} /\ BookShape(book')
        /\ book'.named = book.named /\ book'.unmapped = book.unmapped /\ book'.overtaken = book.overtaken
        /\ \A s \in DOMAIN book'.cause :
              (s \in DOMAIN book.cause /\ book'.cause[s] = book.cause[s]) \/ (s = p[2] /\ book'.cause[s] = c)
        BY <1>0, <1>5, <2>1, EndsIs
  <2>3. PICK x : x = [delivery[d] EXCEPT !.at = "unmap", !.todo = @ \ {p}, !.current = p] OBVIOUS
  <2>4. delivery' = [delivery EXCEPT ![d] = x] BY <1>1, <1>5, <2>3
  <2>5. /\ DeliveryShape(x) /\ x.at = "unmap" /\ x.todo = delivery[d].todo \ {p} /\ x.token = delivery[d].token
        /\ x.answer = delivery[d].answer /\ x.current = p /\ x.failed = delivery[d].failed
        BY <1>1, <2>3 DEF DeliveryShape
  <2>6. DeliveryOK(login, registry', x, book'.named[d])
    <3>1. \A q \in x.todo : PairOK(login, q) /\ Speaks(x.token, q[2][1]) BY <1>2, <1>3, <2>5 DEF DeliveryOK
    <3>2. Gone(login, registry', x.current[2][1]) BY <1>4, <2>2, <2>5 DEF PairOK, OfBegun, Gone
    <3>3. ~x.failed => \A s \in book'.named[d] :
              OfBegun(login, s) /\ (PairOf(s[1]) \notin registry' \/ PairOf(s[1]) \in x.todo)
          BY <1>2, <1>3, <2>2, <2>5 DEF DeliveryOK
    <3>4. x.answer # 200 BY <1>2, <1>3, <2>5 DEF DeliveryOK
    <3> QED BY <1>4, <2>5, <3>1, <3>2, <3>3, <3>4 DEF DeliveryOK
  <2>7. OfBegun(login, p[2]) BY <1>4 DEF PairOK
  <2>8. \A s \in DOMAIN book'.cause :
              \/ s \in DOMAIN book.cause /\ book'.cause[s] = book.cause[s]
              \/ OfBegun(login, s) /\ book'.cause[s] = [by |-> "logout", who |-> d] /\ Speaks(x.token, s[1])
        BY <1>4, <2>1, <2>2, <2>5, <2>7
  <2> QED BY <1>0, <1>2, <2>2, <2>4, <2>5, <2>6, <2>8, DeliveryCloses
<1>6. CASE /\ delivery' = [delivery EXCEPT ![d].todo = @ \ {p}, ![d].failed = TRUE]
           /\ UNCHANGED <<registry, book>>
  <2>3. PICK x : x = [delivery[d] EXCEPT !.todo = @ \ {p}, !.failed = TRUE] OBVIOUS
  <2>4. delivery' = [delivery EXCEPT ![d] = x] BY <1>1, <1>6, <2>3
  <2>5. /\ DeliveryShape(x) /\ x.at = "end" /\ x.todo = delivery[d].todo \ {p} /\ x.token = delivery[d].token
        /\ x.answer = delivery[d].answer /\ x.failed = TRUE
        BY <1>1, <1>2, <2>3 DEF DeliveryShape
  <2>6. DeliveryOK(login, registry', x, book'.named[d]) BY <1>2, <1>3, <2>5 DEF DeliveryOK
  <2> QED BY <1>0, <1>2, <1>6, <2>4, <2>5, <2>6, DeliveryCloses
<1> QED BY <1>5, <1>6 DEF end_one

LEMMA DropsMapping == ASSUME LogoutInv, NEW d \in Deliveries, drop_mapping(d) PROVE LogoutInv'
<1>0. Sound(sidmap) /\ BookShape(book) BY Unmoved
<1>1. DeliveryShape(delivery[d]) /\ DOMAIN delivery = Deliveries BY DEF LogoutInv, Shapes, DeliveryShapes
<1>2. PICK k, s : k = <<delivery[d].token.iss, delivery[d].token.sid>> /\ s = delivery[d].current[2] OBVIOUS
<1>3. /\ delivery[d].at = "unmap" /\ delivery' = [delivery EXCEPT ![d].at = "end", ![d].current = << >>]
      /\ sidmap' = remove_if(sidmap, k, s) \/ sidmap' = remove_session(sidmap, s)
      /\ UNCHANGED <<login, owed, ended, front, scene, now, registry, book>>
      BY <1>2 DEF drop_mapping, DAt
<1>4. DeliveryOK(login, registry, delivery[d], book.named[d]) BY DEF LogoutInv
<1>5. Gone(login, registry, s[1]) BY <1>2, <1>3, <1>4 DEF DeliveryOK
<1>6. /\ Sound(sidmap') /\ Shrunk(sidmap, sidmap')
      /\ \A j \in DOMAIN sidmap.entries : j \in DOMAIN sidmap'.entries \/ sidmap.entries[j].session = s
      /\ DOMAIN sidmap.subject_of \subseteq DOMAIN sidmap'.subject_of \cup {s}
      BY <1>0, <1>3, RemoveIf, RemoveSession
<1>7. PICK x : x = [delivery[d] EXCEPT !.at = "end", !.current = << >>] OBVIOUS
<1>8. delivery' = [delivery EXCEPT ![d] = x] BY <1>1, <1>3, <1>7
<1>9. /\ DeliveryShape(x) /\ x.at = "end" /\ x.todo = delivery[d].todo /\ x.token = delivery[d].token
      /\ x.answer = delivery[d].answer /\ x.failed = delivery[d].failed
      BY <1>1, <1>7 DEF DeliveryShape
<1>10. DeliveryOK(login, registry', x, book'.named[d]) BY <1>3, <1>4, <1>9 DEF DeliveryOK
<1> QED BY <1>0, <1>3, <1>5, <1>6, <1>8, <1>9, <1>10, DeliveryCloses

LEMMA AnswersLogout == ASSUME LogoutInv, NEW d \in Deliveries, answer_logout(d) PROVE LogoutInv'
<1>0. Sound(sidmap) /\ Shrunk(sidmap, sidmap) /\ BookShape(book) BY Unmoved
<1>1. DeliveryShape(delivery[d]) /\ DOMAIN delivery = Deliveries BY DEF LogoutInv, Shapes, DeliveryShapes
<1>2. PICK n : n = IF delivery[d].failed THEN 503 ELSE 200 OBVIOUS
<1>3. /\ delivery[d].at = "end" /\ delivery[d].todo = {}
      /\ delivery' = [delivery EXCEPT ![d].at = "answered", ![d].answer = n]
      /\ UNCHANGED <<login, owed, ended, front, scene, now, registry, sidmap>>
      /\ book' = book \/ book' = [book EXCEPT !.done[delivery[d].token.jti] = @ + 1]
      BY <1>2 DEF answer_logout, DAt, HasAnswer
<1>4. DeliveryOK(login, registry, delivery[d], book.named[d]) BY DEF LogoutInv
<1>5. PICK x : x = [delivery[d] EXCEPT !.at = "answered", !.answer = n] OBVIOUS
<1>6. delivery' = [delivery EXCEPT ![d] = x] BY <1>1, <1>3, <1>5
<1>7. DeliveryShape(x) /\ x.at = "answered" /\ x.answer = n /\ x.token = delivery[d].token
      BY <1>1, <1>5 DEF DeliveryShape
<1>8. /\ BookShape(book') /\ book'.named = book.named /\ book'.cause = book.cause
      /\ book'.unmapped = book.unmapped /\ book'.overtaken = book.overtaken
      BY <1>0, <1>3 DEF BookShape
<1>9. DeliveryOK(login, registry', x, book'.named[d]) BY <1>2, <1>3, <1>4, <1>7, <1>8 DEF DeliveryOK
<1> QED BY <1>0, <1>3, <1>6, <1>7, <1>8, <1>9, DeliveryCloses

LEMMA DropsDelivery == ASSUME LogoutInv, NEW d \in Deliveries, drop_delivery(d) PROVE LogoutInv'
<1>0. Sound(sidmap) /\ Shrunk(sidmap, sidmap) /\ BookShape(book) BY Unmoved
<1>1. DeliveryShape(delivery[d]) /\ DOMAIN delivery = Deliveries BY DEF LogoutInv, Shapes, DeliveryShapes
<1>2. /\ delivery' = [delivery EXCEPT ![d].at = "answered", ![d].answer = 0]
      /\ UNCHANGED <<login, owed, ended, front, scene, now, registry, sidmap, book>>
      BY DEF drop_delivery, HasAnswer
<1>3. PICK x : x = [delivery[d] EXCEPT !.at = "answered", !.answer = 0] OBVIOUS
<1>4. delivery' = [delivery EXCEPT ![d] = x] BY <1>1, <1>2, <1>3
<1>5. DeliveryShape(x) /\ x.at = "answered" /\ x.answer = 0 /\ x.token = delivery[d].token
      BY <1>1, <1>3 DEF DeliveryShape
<1>6. DeliveryOK(login, registry', x, book'.named[d]) BY <1>5 DEF DeliveryOK
<1> QED BY <1>0, <1>2, <1>4, <1>5, <1>6, DeliveryCloses

-----------------------------------------------------------------------------
(* The front-channel handler. *)

LEMMA FrontCloses ==
    ASSUME LogoutInv, NEW f \in Fronts, UNCHANGED <<login, owed, ended, delivery, scene, now>>,
           \A x \in Logins : PairOf(x) \in registry' => PairOf(x) \in registry,
           BookShape(book'), book'.unmapped = book.unmapped, book'.overtaken = book.overtaken,
           book'.named = book.named, Sound(sidmap'), Shrunk(sidmap, sidmap'),
           \A k \in DOMAIN sidmap.entries :
              k \in DOMAIN sidmap'.entries \/ Gone(login, registry', sidmap.entries[k].session[1]),
           \A s \in DOMAIN sidmap.subject_of :
              s \in DOMAIN sidmap'.subject_of \/ Gone(login, registry', s[1]),
           NEW x, front' = [front EXCEPT ![f] = x], FrontShape(x), x.at # "idle",
           front[f].at # "idle" => x.key = front[f].key,
           FrontOK(login, registry', x),
           \A s \in DOMAIN book'.cause :
              \/ s \in DOMAIN book.cause /\ book'.cause[s] = book.cause[s]
              \/ OfBegun(login, s) /\ book'.cause[s] = [by |-> "front", who |-> f] /\ x.key = KeyOf(s[1])
    PROVE  LogoutInv'
<1>0. DeliveriesKept(delivery, delivery) BY Unmoved
<1>1. /\ DOMAIN front' = Fronts /\ front'[f] = x /\ \A e \in Fronts : e # f => front'[e] = front[e]
      BY DEF LogoutInv, Shapes, FrontShapes
<1>2. FrontsKept(front, front') BY <1>1 DEF FrontsKept
<1>3. FrontShapes(front') BY <1>1 DEF FrontShapes, LogoutInv, Shapes
<1>4. Shapes' BY <1>3 DEF LogoutInv, Shapes
<1>5. CauseAdds(login, delivery', front', book.cause, book'.cause)
  <2> SUFFICES ASSUME NEW s \in DOMAIN book'.cause
               PROVE  \/ s \in DOMAIN book.cause /\ book'.cause[s] = book.cause[s]
                      \/ OfBegun(login, s) /\ Because(login, delivery', front', s, book'.cause[s])
      BY DEF CauseAdds
  <2>1. CASE OfBegun(login, s) /\ book'.cause[s] = [by |-> "front", who |-> f] /\ x.key = KeyOf(s[1])
        BY <1>1, <2>1 DEF Because
  <2> QED BY <2>1
<1> QED BY <1>0, <1>1, <1>2, <1>4, <1>5, ServiceCloses

LEMMA FrontLooksUp ==
    ASSUME LogoutInv, NEW f \in Fronts, NEW key, NEW caller, front_look_up(f, key, caller)
    PROVE  LogoutInv'
<1>0. Sound(sidmap) /\ Shrunk(sidmap, sidmap) /\ BookShape(book) BY Unmoved
<1>1. PICK e : e = sidmap.entries[key] OBVIOUS
<1>2. PICK x : x = IF key \in DOMAIN sidmap.entries /\ caller \in {<< >>, e.session}
                   THEN [at |-> "end", key |-> key, target |-> <<e.user, e.session>>]
                   ELSE [NewFront EXCEPT !.at = "answered"]
      OBVIOUS
<1>3. /\ front[f].at = "idle" /\ front' = [front EXCEPT ![f] = x]
      /\ UNCHANGED <<login, owed, ended, delivery, scene, now, registry, sidmap, book>>
      BY <1>1, <1>2 DEF front_look_up
<1>4. FrontShape(x) /\ x.at # "idle" /\ FrontOK(login, registry', x)
  <2>1. CASE key \in DOMAIN sidmap.entries /\ caller \in {<< >>, e.session}
    <3>1. EntryOK(login, key, e) BY <1>1, <2>1 DEF LogoutInv, MapOK
    <3>2. x = [at |-> "end", key |-> key, target |-> <<e.user, e.session>>] BY <1>2, <2>1
    <3>3. PairOK(login, x.target) /\ x.key = KeyOf(x.target[2][1])
          BY <3>1, <3>2 DEF EntryOK, PairOK, PairOf, OfBegun
    <3>4. x.at = "end" /\ FrontShape(x) BY <3>2 DEF FrontShape
    <3> QED BY <3>3, <3>4 DEF FrontOK
  <2>2. CASE ~(key \in DOMAIN sidmap.entries /\ caller \in {<< >>, e.session})
    <3>1. x.at = "answered" /\ FrontShape(x) BY <1>2, <2>2 DEF NewFront, FrontShape
    <3> QED BY <3>1 DEF FrontOK
  <2> QED BY <2>1, <2>2
<1> QED BY <1>0, <1>3, <1>4, FrontCloses

LEMMA FrontEnds == ASSUME LogoutInv, NEW f \in Fronts, front_end(f) PROVE LogoutInv'
<1>0. Sound(sidmap) /\ Shrunk(sidmap, sidmap) /\ BookShape(book) BY Unmoved
<1>1. FrontShape(front[f]) /\ DOMAIN front = Fronts BY DEF LogoutInv, Shapes, FrontShapes
<1>2. /\ front[f].at = "end" /\ UNCHANGED <<login, owed, ended, delivery, scene, now, sidmap>> BY DEF front_end
<1>3. PICK p : p = front[f].target OBVIOUS
<1>4. PairOK(login, p) /\ front[f].key = KeyOf(p[2][1]) BY <1>2, <1>3 DEF LogoutInv, FrontOK
<1>5. CASE Ends(front[f].target, [by |-> "front", who |-> f]) /\ front' = [front EXCEPT ![f].at = "unmap"]
  <2>1. PICK c : c = [by |-> "front", who |-> f] OBVIOUS
  <2>2. /\ registry' = registry \ {p} /\ BookShape(book')
        /\ book'.named = book.named /\ book'.unmapped = book.unmapped /\ book'.overtaken = book.overtaken
        /\ \A s \in DOMAIN book'.cause :
              (s \in DOMAIN book.cause /\ book'.cause[s] = book.cause[s]) \/ (s = p[2] /\ book'.cause[s] = c)
        BY <1>0, <1>3, <1>5, <2>1, EndsIs
  <2>3. PICK x : x = [front[f] EXCEPT !.at = "unmap"] OBVIOUS
  <2>4. front' = [front EXCEPT ![f] = x] BY <1>1, <1>5, <2>3
  <2>5. FrontShape(x) /\ x.at = "unmap" /\ x.key = front[f].key /\ x.target = p
        BY <1>1, <1>3, <2>3 DEF FrontShape
  <2>6. Gone(login, registry', p[2][1]) BY <1>4, <2>2 DEF PairOK, OfBegun, Gone
  <2>7. FrontOK(login, registry', x) BY <1>4, <2>5, <2>6 DEF FrontOK
  <2>8. \A s \in DOMAIN book'.cause :
              \/ s \in DOMAIN book.cause /\ book'.cause[s] = book.cause[s]
              \/ OfBegun(login, s) /\ book'.cause[s] = [by |-> "front", who |-> f] /\ x.key = KeyOf(s[1])
        BY <1>4, <2>1, <2>2, <2>5 DEF PairOK
  <2> QED BY <1>0, <1>2, <2>2, <2>4, <2>5, <2>7, <2>8, FrontCloses
<1>6. CASE front' = [front EXCEPT ![f].at = "answered"] /\ UNCHANGED <<registry, book>>
  <2>1. PICK x : x = [front[f] EXCEPT !.at = "answered"] OBVIOUS
  <2>2. front' = [front EXCEPT ![f] = x] BY <1>1, <1>6, <2>1
  <2>3. FrontShape(x) /\ x.at = "answered" /\ x.key = front[f].key BY <1>1, <2>1 DEF FrontShape
  <2>4. FrontOK(login, registry', x) BY <2>3 DEF FrontOK
  <2> QED BY <1>0, <1>2, <1>6, <2>2, <2>3, <2>4, FrontCloses
<1> QED BY <1>5, <1>6 DEF front_end

LEMMA FrontDropsMapping == ASSUME LogoutInv, NEW f \in Fronts, front_drop_mapping(f) PROVE LogoutInv'
<1>0. Sound(sidmap) /\ BookShape(book) BY Unmoved
<1>1. FrontShape(front[f]) /\ DOMAIN front = Fronts BY DEF LogoutInv, Shapes, FrontShapes
<1>2. PICK k, s : k = front[f].key /\ s = front[f].target[2] OBVIOUS
<1>3. /\ front[f].at = "unmap" /\ front' = [front EXCEPT ![f].at = "answered"]
      /\ sidmap' = remove_if(sidmap, k, s)
      /\ UNCHANGED <<login, owed, ended, delivery, scene, now, registry, book>>
      BY <1>2 DEF front_drop_mapping
<1>4. Gone(login, registry, s[1]) BY <1>2, <1>3 DEF LogoutInv, FrontOK
<1>5. /\ Sound(sidmap') /\ Shrunk(sidmap, sidmap')
      /\ \A j \in DOMAIN sidmap.entries : j \in DOMAIN sidmap'.entries \/ sidmap.entries[j].session = s
      /\ DOMAIN sidmap.subject_of \subseteq DOMAIN sidmap'.subject_of \cup {s}
      BY <1>0, <1>3, RemoveIf
<1>6. PICK x : x = [front[f] EXCEPT !.at = "answered"] OBVIOUS
<1>7. front' = [front EXCEPT ![f] = x] BY <1>1, <1>3, <1>6
<1>8. FrontShape(x) /\ x.at = "answered" /\ x.key = front[f].key BY <1>1, <1>6 DEF FrontShape
<1>9. FrontOK(login, registry', x) BY <1>8 DEF FrontOK
<1> QED BY <1>0, <1>3, <1>4, <1>5, <1>7, <1>8, <1>9, FrontCloses

-----------------------------------------------------------------------------
(* The invariant, and the theorems. *)

LEMMA LogoutInit == ASSUME Init PROVE LogoutInv
<1>1. Shapes
  <2>1. LoginShapes(login) BY DEF Init, NewLogin, LoginShapes, LoginShape
  <2>2. DeliveryShapes(delivery) BY DEF Init, NewDelivery, DeliveryShapes, DeliveryShape
  <2>3. FrontShapes(front) BY DEF Init, NewFront, FrontShapes, FrontShape
  <2>4. BookShape(book) BY DEF Init, BookShape
  <2> QED BY <2>1, <2>2, <2>3, <2>4 DEF Init, Shapes
<1>2. DOMAIN sidmap.entries = {} /\ DOMAIN sidmap.subject_of = {} /\ MapOK(sidmap, login)
  <2>1. sidmap = Empty BY DEF Init
  <2>2. /\ sidmap.entries = NoEntries /\ sidmap.order = {} /\ sidmap.by_subject = NoEntries
        /\ sidmap.keys_of_session = NoEntries /\ sidmap.subject_of = NoEntries /\ sidmap.subjects = NoEntries
        /\ MapShape(sidmap)
        BY <2>1 DEF Empty, MapShape
  <2>3. DOMAIN NoEntries = {} BY DEF NoEntries
  <2>4. PairKeys(sidmap) /\ Agrees(sidmap) BY <2>2, <2>3 DEF PairKeys, Agrees
  <2> QED BY <2>2, <2>3, <2>4 DEF MapOK, Sound
<1>3. \A l \in Logins : /\ login[l].at = "idle" /\ login[l].mapped = FALSE /\ login[l].aged = {}
                        /\ login[l].displaced = Nothing /\ owed[l] = {} /\ ended[l] = {}
      BY DEF Init, NewLogin
<1>4. SubjectFine(sidmap, login, registry) BY <1>3 DEF SubjectFine, Past
<1>5. SidFine(sidmap, login, registry, owed, book) BY <1>3 DEF SidFine, Mapped
<1>6. CauseOK(login, delivery, front, book.cause) BY DEF Init, CauseOK
<1>7. \A l \in Logins : LoginOK(login, registry, owed, ended, l)
      BY <1>3 DEF LoginOK, StageOK, AgedOK, DisplacedOK, OwedOK, EndedOK
<1>8. \A d \in Deliveries : DeliveryOK(login, registry, delivery[d], book.named[d])
  <2>1. \A d \in Deliveries : delivery[d].at = "idle" /\ delivery[d].answer = 0 BY DEF Init, NewDelivery
  <2> QED BY <2>1 DEF DeliveryOK
<1>9. \A f \in Fronts : FrontOK(login, registry, front[f]) BY DEF Init, NewFront, FrontOK
<1> QED BY <1>1, <1>2, <1>4, <1>5, <1>6, <1>7, <1>8, <1>9 DEF LogoutInv

LEMMA LogoutArrival == ASSUME LogoutInv, Arrival PROVE LogoutInv'
<1>1. scene.deliveries \subseteq Deliveries /\ scene.fronts \subseteq Fronts
      BY FederationAssumption DEF LogoutInv, Shapes
<1>2. CASE \E d \in scene.deliveries, t \in scene.tokens : receive(d, t) BY <1>1, <1>2, Receives
<1>3. CASE \E f \in scene.fronts, l \in scene.logins, c \in Callers : front_look_up(f, KeyOf(l), c)
  <2>1. PICK f \in scene.fronts, l \in scene.logins, c \in Callers : front_look_up(f, KeyOf(l), c) BY <1>3
  <2>2. PICK k : k = KeyOf(l) OBVIOUS
  <2>3. f \in Fronts /\ front_look_up(f, k, c) BY <1>1, <2>1, <2>2
  <2> QED BY <2>3, FrontLooksUp
<1> QED BY <1>2, <1>3 DEF Arrival

LEMMA LogoutWork == ASSUME LogoutInv, Work PROVE LogoutInv'
<1>1. ASSUME NEW l \in Logins, LoginStep(l) PROVE LogoutInv'
      BY <1>1, BeginLogin, RegisterSession, RefuseUnlessActive, EndOwnSession, RegisterSubject,
         SweepCandidates, SweepSubjects, Prunes, AtCapacity, EvictOldest, ForgetEvicted, InsertDisplacing, Commits, AuditFailed, Refuses
      DEF LoginStep
<1>2. ASSUME NEW l \in Logins, TaskStep(l) PROVE LogoutInv' BY <1>2, EndSession, ForgetEnded DEF TaskStep
<1>3. ASSUME NEW d \in Deliveries, DeliveryStep(d) PROVE LogoutInv'
      BY <1>3, LooksUp, EndsOne, DropsMapping, AnswersLogout DEF DeliveryStep
<1> QED BY <1>1, <1>2, <1>3, DropLogin, OtherEnd, Regenerates, Ticks, DropsDelivery, FrontEnds, FrontDropsMapping
        DEF Work

LEMMA LogoutInvHolds == EndpointsSpec => []LogoutInv
<1>1. EndpointsInit => LogoutInv BY LogoutInit DEF EndpointsInit
<1>2. LogoutInv /\ [EndpointsNext]_<<vars, rateVars>> => LogoutInv'
  <2> SUFFICES ASSUME LogoutInv, [EndpointsNext]_<<vars, rateVars>> PROVE LogoutInv' OBVIOUS
  <2>1. Arrival \/ Work \/ UNCHANGED vars
        BY DEF EndpointsNext, Unlimited, Admitted, OtherRoute, Limiting, Handling
  <2> QED BY <2>1, LogoutArrival, LogoutWork, Stutters
<1> QED BY <1>1, <1>2, PTL DEF EndpointsSpec

(* Whatever order logins, refusals, evictions, sweeps and logouts touch    *)
(* the map in, its indexes say what its entries say, a live federated      *)
(* session is in the subject registry, and its sid mapping is there, or a  *)
(* login holds the promise to end the session or put the mapping back      *)
(* (SidState, maintain_oidc_sid_map, PendingEnds).                         *)
THEOREM LogoutReachesHolds == EndpointsSpec => []LogoutReaches
<1>1. LogoutInv => LogoutReaches BY ReachesIs
<1> QED BY <1>1, LogoutInvHolds, PTL

(* A session is ended by a token of its issuer with its sid or its         *)
(* subject, by a request for its sid, by a login that displaced it and was *)
(* not refused, at its age, or by its own login's refusal (end_by_sid,     *)
(* end_by_sub, end_sessions, the front-channel handler).                   *)
THEOREM EndedForCauseHolds == EndpointsSpec => []EndedForCause
<1>1. LogoutInv => EndedForCause BY ForCauseIs
<1> QED BY <1>1, LogoutInvHolds, PTL

(* When the back-channel handler answers 200, no session that its token    *)
(* spoke of when it looked is in the registry, then or ever after          *)
(* (handle_outcome, end_one).                                              *)
THEOREM LogoutDoneHolds == EndpointsSpec => []LogoutDone
<1>1. LogoutInv => LogoutDone BY DoneIs
<1> QED BY <1>1, LogoutInvHolds, PTL

=============================================================================
