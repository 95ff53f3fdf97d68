------------------------- MODULE ReplicationInvariant ------------------------
(***************************************************************************)
(* What holds in every state of Replication, and what follows from it: the  *)
(* lemmas about timestamp_range_tracker_t, the inductive invariant Inv and  *)
(* the facts that the proofs of the steps share.                            *)
(***************************************************************************)
EXTENDS ReplicationState, TLAPS

USE SMTT(30)

------------------------------------------------------------------------------
(* The tracker.                                                               *)
IsTracker(tr) == tr \in [prev : Nat, entries : Seq([right : Nat, ts : Nat])]

\* Every set of natural numbers has a smallest one, as OldestVersion and the
\* entry that a key is in need it (theorem NatWellOrdered of ReplicationProofs).
NatIsWellOrdered ==
  \A S \in SUBSET Nat : S # {} => \E x \in S : \A y \in S : x <= y

\* The types of a tracker's parts.
LEMMA EntryTypes ==
  ASSUME NEW tr, IsTracker(tr)
  PROVE  /\ tr.prev \in Nat
         /\ tr.entries \in Seq([right : Nat, ts : Nat])
         /\ Len(tr.entries) \in Nat
         /\ \A i \in 1 .. Len(tr.entries) :
                tr.entries[i].right \in Nat /\ tr.entries[i].ts \in Nat
<1>1. tr.prev \in Nat /\ tr.entries \in Seq([right : Nat, ts : Nat])
  BY Zenon DEF IsTracker
<1> DEFINE e == tr.entries
           R == [right : Nat, ts : Nat]
<1>2. e \in Seq(R)
  BY <1>1, Zenon
<1>3. \A r \in R : r.right \in Nat /\ r.ts \in Nat
  BY Zenon
<1> HIDE DEF e, R
<1> QED
  BY <1>1, <1>2, <1>3 DEF e

\* A tracker from its parts.
LEMMA TrackerOf ==
  ASSUME NEW p \in Nat, NEW f \in Seq([right : Nat, ts : Nat]),
         NEW tr, tr = [prev |-> p, entries |-> f]
  PROVE  IsTracker(tr) /\ tr.prev = p /\ tr.entries = f
BY Zenon DEF IsTracker

\* Entry i of the tracker is the one whose range contains key.
Covers(tr, i, key) ==
    /\ key <= tr.entries[i].right
    /\ \A j \in 1 .. i - 1 : tr.entries[j].right < key

\* Every key that the backfill has reached is in the range of an entry.
LEMMA CoverExists ==
  ASSUME NatIsWellOrdered, NEW tr, IsTracker(tr), NEW key \in 1 .. get_backfill_threshold(tr)
  PROVE  \E i \in 1 .. Len(tr.entries) : Covers(tr, i, key)
<1> DEFINE n == Len(tr.entries)
           S == {i \in 1 .. n : key <= tr.entries[i].right}
<1>1. tr.entries # <<>> /\ key <= tr.entries[n].right /\ key \in Nat
  BY DEF get_backfill_threshold, LastEntry, IsTracker
<1>2. n \in Nat /\ n # 0
  BY <1>1 DEF IsTracker
<1>3. n \in S
  BY <1>1, <1>2
<1>4. S \subseteq Nat
  BY <1>2
<1>5. PICK i \in S : \A j \in S : i <= j
  BY <1>3, <1>4, Zenon DEF NatIsWellOrdered
<1>6. \A j \in 1 .. i - 1 : tr.entries[j].right < key
  <2> TAKE j \in 1 .. i - 1
  <2>1. j \in 1 .. n /\ j < i
    BY <1>2, <1>5
  <2>2. tr.entries[j].right \in Nat
    BY <2>1, EntryTypes, Zenon
  <2> QED
    BY <1>1, <2>1, <2>2, <1>5
<1> QED
  BY <1>5, <1>6, Zenon DEF Covers

\* The timestamp of a key is that of the entry it is in.
LEMMA TimestampOfCovered ==
  ASSUME NEW tr, IsTracker(tr), NEW key \in Nat,
         NEW i \in 1 .. Len(tr.entries), Covers(tr, i, key)
  PROVE  TimestampOf(tr, key) = tr.entries[i].ts
<1> DEFINE c == CHOOSE x \in 1 .. Len(tr.entries) :
                    /\ key <= tr.entries[x].right
                    /\ \A j \in 1 .. x - 1 : tr.entries[j].right < key
<1>1. TimestampOf(tr, key) = tr.entries[c].ts
  BY Zenon DEF TimestampOf
<1>2. c \in 1 .. Len(tr.entries) /\ Covers(tr, c, key)
  BY Zenon DEF Covers
<1> HIDE DEF c
<1>3. Len(tr.entries) \in Nat /\ \A x \in 1 .. Len(tr.entries) : tr.entries[x].right \in Nat
  BY EntryTypes, Zenon
<1> QED
  BY <1>1, <1>2, <1>3 DEF Covers

\* Only the keys before the first entry's bound, and only when that entry is
\* where the stream is, are at the timestamp of the last write: so the region
\* that clip_next_write_paused() returns is exactly the keys that lack the next
\* write and nothing else.
LEMMA ClipExact ==
  ASSUME NatIsWellOrdered, NEW tr, IsTracker(tr), NEW end \in Nat, Ordered(tr, end),
         NEW key \in 1 .. get_backfill_threshold(tr)
  PROVE  key <= clip_next_write(tr) <=> TimestampOf(tr, key) = tr.prev
<1>0. /\ tr.prev \in Nat /\ Len(tr.entries) \in Nat
      /\ \A i \in 1 .. Len(tr.entries) :
             tr.entries[i].right \in Nat /\ tr.entries[i].ts \in Nat
  BY EntryTypes, Zenon
<1>1. PICK i \in 1 .. Len(tr.entries) : Covers(tr, i, key)
  BY CoverExists, Zenon
<1>2. TimestampOf(tr, key) = tr.entries[i].ts
  BY <1>1, TimestampOfCovered DEF get_backfill_threshold, LastEntry
<1>3. Len(tr.entries) # 0 /\ tr.entries # <<>> /\ 1 \in 1 .. Len(tr.entries)
  BY <1>1
<1>5. CASE i = 1
  BY <1>0, <1>1, <1>2, <1>3, <1>5 DEF clip_next_write, Covers, Ordered
<1>6. CASE i # 1
  BY <1>3, <1>6, <1>0, <1>1, <1>2 DEF Ordered, Covers, clip_next_write
<1> QED
  BY <1>5, <1>6, Zenon

\* What a write does to the tracker when record_write() is given the region that
\* clip_next_write_paused() returned: it stays ordered, the keys in that region
\* advance to the write, and the others keep their timestamps, so that a write
\* which the backfill has brought in already is not counted twice.
LEMMA WriteAdvance ==
  ASSUME NatIsWellOrdered, NEW tr, IsTracker(tr), NEW end \in Nat, Ordered(tr, end),
         NEW tr2, tr2 = record_write(tr, clip_next_write(tr), tr.prev + 1)
  PROVE  /\ IsTracker(tr2) /\ Ordered(tr2, end) /\ tr2.prev = tr.prev + 1
         /\ get_backfill_threshold(tr2) = get_backfill_threshold(tr)
         /\ \A key \in 1 .. get_backfill_threshold(tr) :
                TimestampOf(tr2, key) = IF key <= clip_next_write(tr) THEN tr.prev + 1
                                        ELSE TimestampOf(tr, key)
<1> DEFINE e == tr.entries
           n == Len(e)
           R == [right : Nat, ts : Nat]
<1>0. /\ tr.prev \in Nat /\ n \in Nat
      /\ \A i \in 1 .. n : e[i].right \in Nat /\ e[i].ts \in Nat
  BY EntryTypes, Zenon
<1>a. e \in Seq(R)
  BY EntryTypes, Zenon
<1>1. \A i \in 1 .. n : e[i].right \in 1 .. end /\ e[i].ts >= tr.prev
  BY Zenon DEF Ordered
<1>2. \A i, j \in 1 .. n : i < j => e[i].right < e[j].right /\ e[i].ts < e[j].ts
  BY Zenon DEF Ordered
<1>3. clip_next_write(tr) = IF e = <<>> \/ e[1].ts > tr.prev THEN 0 ELSE e[1].right
  BY Zenon DEF clip_next_write
<1>4. get_backfill_threshold(tr) = IF e = <<>> THEN 0 ELSE e[n].right
  BY Zenon DEF get_backfill_threshold, LastEntry
<1> HIDE DEF R
<1>5. (n = 0) = (e = <<>>)
  BY <1>a
<1>6. \A key \in 1 .. get_backfill_threshold(tr) :
          \E i \in 1 .. n : Covers(tr, i, key) /\ TimestampOf(tr, key) = e[i].ts
  BY CoverExists, <1>0, <1>4, TimestampOfCovered
<1>7. CASE clip_next_write(tr) = 0
  <2>1. tr2 = [tr EXCEPT !.prev = tr.prev + 1]
    BY <1>7, Zenon DEF record_write
  <2>2. tr2.entries = e /\ tr2.prev = tr.prev + 1 /\ IsTracker(tr2)
    BY <1>0, <1>a, <2>1 DEF IsTracker, R
  <2>3. \A i \in 1 .. n : e[i].ts >= tr.prev + 1
    <3> HIDE DEF e, n
    <3>2. TAKE i \in 1 .. n
    <3> QED
      BY <1>0, <1>2, <1>1, <1>3, <1>5, <1>7
  <2>5. get_backfill_threshold(tr2) = get_backfill_threshold(tr)
    BY <2>2, Zenon DEF get_backfill_threshold, LastEntry
  <2>6. ASSUME NEW key \in 1 .. get_backfill_threshold(tr)
        PROVE  TimestampOf(tr2, key) = TimestampOf(tr, key) /\ ~ (key <= 0)
    <3>1. PICK i \in 1 .. n : Covers(tr, i, key) /\ TimestampOf(tr, key) = e[i].ts
      BY <1>6, Zenon
    <3>3. key \in Nat /\ ~ (key <= 0)
      BY <1>4
    <3> QED
      BY <2>2, <3>1, <3>3, TimestampOfCovered DEF Covers
  <2> QED
    BY <1>7, <2>2, <1>1, <1>2, <2>3, <2>5, <2>6 DEF Ordered
<1>8. CASE clip_next_write(tr) # 0
  <2>1. n # 0 /\ e # <<>> /\ 1 \in 1 .. n /\ e[1].ts = tr.prev /\ clip_next_write(tr) = e[1].right
    BY <1>3, <1>5, <1>8, <1>0, <1>1
  <2>2. CASE n > 1 /\ e[2].ts = tr.prev + 1
    <3>1. tr2 = [prev |-> tr.prev + 1, entries |-> Tail(e)]
      BY <1>8, <2>2, Zenon DEF record_write
    <3> DEFINE f == Tail(e)
    <3>2. /\ f \in Seq(R) /\ Len(f) = n - 1
          /\ \A i \in 1 .. n - 1 : f[i] = e[i + 1]
      BY <1>0, <1>a, <2>1
    <3>3. tr2.entries = f /\ tr2.prev = tr.prev + 1 /\ IsTracker(tr2)
      <4>1. f \in Seq([right : Nat, ts : Nat]) /\ tr.prev + 1 \in Nat
        BY <1>0, <3>2 DEF R
      <4> HIDE DEF e, f
      <4>2. tr2 = [prev |-> tr.prev + 1, entries |-> f]
        BY <3>1, Zenon DEF f
      <4> QED
        BY <4>1, <4>2, TrackerOf
    <3> HIDE DEF e, n, f
    <3>4. \A i \in 1 .. n - 1 : f[i].right \in 1 .. end /\ f[i].ts >= tr.prev + 1
      <4> TAKE i \in 1 .. n - 1
      <4>1. i + 1 \in 1 .. n /\ 2 \in 1 .. n /\ (i + 1 = 2 \/ 2 < i + 1) /\ f[i] = e[i + 1]
        BY <1>0, <2>2, <3>2
      <4> QED
        BY <1>0, <1>1, <1>2, <2>2, <4>1
    <3>5. \A i, j \in 1 .. n - 1 : i < j => f[i].right < f[j].right /\ f[i].ts < f[j].ts
      <4> TAKE i, j \in 1 .. n - 1
      <4>2. f[i] = e[i + 1] /\ f[j] = e[j + 1]
        BY <3>2, Zenon
      <4> QED
        BY <1>2, <1>0, <4>2
    <3>6. Ordered(tr2, end)
      BY <3>2, <3>3, <3>4, <3>5 DEF Ordered
    <3>8. ASSUME NEW key \in 1 .. get_backfill_threshold(tr)
          PROVE  TimestampOf(tr2, key) = IF key <= e[1].right THEN tr.prev + 1
                                         ELSE TimestampOf(tr, key)
      <4>1. PICK i \in 1 .. n : Covers(tr, i, key) /\ TimestampOf(tr, key) = e[i].ts
        BY <1>6, Zenon
      <4>2. key \in Nat /\ e[1].right \in Nat
        BY <1>0, <1>4, <2>1
      <4>3. /\ key <= e[i].right
            /\ \A j \in 1 .. i - 1 : e[j].right < key
        BY <4>1, Zenon DEF Covers, e
      <4>4. CASE i = 1
        <5>1. 2 \in 1 .. n /\ key <= e[2].right /\ 1 \in 1 .. n - 1
          BY <1>0, <1>2, <2>1, <2>2, <4>2, <4>3, <4>4
        <5>2. Covers(tr2, 1, key)
          BY <3>2, <3>3, <5>1 DEF Covers
        <5> QED
          BY <2>2, <3>2, <4>3, <4>4, <5>1, <3>3, <4>2, <5>2, TimestampOfCovered
      <4>5. CASE i # 1
        <5>1. i - 1 \in 1 .. n - 1 /\ f[i - 1] = e[i]
          BY <1>0, <3>2, <4>5
        <5>2. \A j \in 1 .. i - 1 - 1 : f[j].right < key
          <6> TAKE j \in 1 .. i - 1 - 1
          <6>1. j \in 1 .. n - 1 /\ j + 1 \in 1 .. i - 1
            BY <1>0
          <6> QED
            BY <3>2, <4>3, <6>1, Zenon
        <5>3. Covers(tr2, i - 1, key)
          BY <3>3, <4>3, <5>1, <5>2, Zenon DEF Covers
        <5>4. TimestampOf(tr2, key) = f[i - 1].ts
          BY <3>2, <3>3, <4>2, <5>1, <5>3, TimestampOfCovered
        <5> QED
          BY <4>1, <5>1, <5>4, <1>0, <4>2, <4>3, <4>5
      <4> QED
        BY <4>4, <4>5, Zenon
    <3> QED
      BY <2>1, <3>3, <3>6, <1>0, <2>2, <3>2, <1>4, <3>8 DEF get_backfill_threshold,
         LastEntry
  <2>3. CASE ~ (n > 1 /\ e[2].ts = tr.prev + 1)
    <3> DEFINE r == [e[1] EXCEPT !.ts = tr.prev + 1]
               f == [e EXCEPT ![1] = r]
    <3>2. e[1] \in R
      BY <1>a, <2>1
    <3>3. r \in R /\ r.right = e[1].right /\ r.ts = tr.prev + 1
      BY <1>0, <3>2 DEF R
    <3>4. /\ f \in Seq(R) /\ Len(f) = n
          /\ \A i \in 1 .. n : f[i] = IF i = 1 THEN r ELSE e[i]
      BY <1>0, <1>a, <2>1, <3>3
    <3>5. /\ f[1].right = e[1].right /\ f[1].ts = tr.prev + 1
          /\ \A i \in 2 .. n : f[i] = e[i]
      BY <1>0, <2>1, <3>3, <3>4
    <3>6. tr2.entries = f /\ tr2.prev = tr.prev + 1 /\ IsTracker(tr2)
      <4>1. tr2 = [prev |-> tr.prev + 1, entries |-> f]
        BY <1>8, <2>3, Zenon DEF IsTracker, record_write
      <4>2. f \in Seq([right : Nat, ts : Nat]) /\ tr.prev + 1 \in Nat
        BY <1>0, <3>4 DEF R
      <4> HIDE DEF e, f
      <4> QED
        BY <4>1, <4>2, TrackerOf
    <3> HIDE DEF e, n, f
    <3>7. \A i \in 2 .. n : e[i].ts > tr.prev + 1
      <4>1. n > 1 => 2 \in 1 .. n /\ e[2].ts > tr.prev + 1
        BY <1>0, <1>2, <2>1, <2>3
      <4> TAKE i \in 2 .. n
      <4>2. i \in 1 .. n /\ n > 1 /\ (i = 2 \/ 2 < i)
        BY <1>0
      <4> QED
        BY <1>0, <1>2, <4>1, <4>2
    <3>8. \A i \in 1 .. n : f[i].right = e[i].right /\ (i = 1 \/ i \in 2 .. n)
      BY <1>0, <3>5
    <3>9. \A i \in 1 .. n : f[i].right \in 1 .. end /\ f[i].ts >= tr.prev + 1
      BY <1>0, <1>1, <3>5, <3>7, <3>8
    <3>10. \A i, j \in 1 .. n : i < j => f[i].right < f[j].right /\ f[i].ts < f[j].ts
      BY <1>0, <3>5, <1>2, <3>7, <3>8
    <3>11. Ordered(tr2, end)
      BY <3>4, <3>6, <3>9, <3>10 DEF Ordered
    <3>13. ASSUME NEW key \in 1 .. get_backfill_threshold(tr)
           PROVE  TimestampOf(tr2, key) = IF key <= e[1].right THEN tr.prev + 1
                                          ELSE TimestampOf(tr, key)
      <4>1. PICK i \in 1 .. n : Covers(tr, i, key) /\ TimestampOf(tr, key) = e[i].ts
        BY <1>6, Zenon
      <4>2. key \in Nat /\ e[1].right \in Nat
        BY <1>0, <1>4, <2>1
      <4>3. /\ key <= e[i].right
            /\ \A j \in 1 .. i - 1 : e[j].right < key
        BY <4>1, Zenon DEF Covers, e
      <4>5. Covers(tr2, i, key)
        BY <3>6, <3>8, <4>3, <1>0 DEF Covers
      <4>7. i # 1 => i \in 2 .. n /\ ~ (key <= e[1].right)
        BY <1>0, <4>2, <4>3
      <4> QED
        BY <3>5, <4>1, <4>3, <3>4, <3>6, <4>2, <4>5, TimestampOfCovered, <4>7
    <3> QED
      BY <2>1, <3>6, <3>11, <1>0, <3>4, <1>4, <3>8, <3>13 DEF get_backfill_threshold,
         LastEntry
  <2> QED
    BY <2>2, <2>3, Zenon
<1> QED
  BY <1>7, <1>8, Zenon

\* What a chunk does to the tracker, when it ends after what was there and is no
\* older than the newest entry, as record_backfill() asserts: the tracker stays
\* ordered, the chunk's keys get its version and the others keep theirs.
LEMMA BackfillExtend ==
  ASSUME NatIsWellOrdered, NEW tr, IsTracker(tr), NEW end \in Nat, Ordered(tr, end),
         NEW right \in 1 .. end, get_backfill_threshold(tr) < right,
         NEW ts \in Nat, get_max_timestamp(tr) <= ts,
         NEW tr2, tr2 = record_backfill(tr, right, ts)
  PROVE  /\ IsTracker(tr2) /\ Ordered(tr2, end) /\ tr2.prev = tr.prev
         /\ get_backfill_threshold(tr2) = right /\ get_max_timestamp(tr2) = ts
         /\ \A key \in 1 .. right :
                TimestampOf(tr2, key) = IF key <= get_backfill_threshold(tr)
                                        THEN TimestampOf(tr, key) ELSE ts
<1> DEFINE e == tr.entries
           n == Len(e)
           R == [right : Nat, ts : Nat]
           threshold == get_backfill_threshold(tr)
<1>0. /\ tr.prev \in Nat /\ n \in Nat
      /\ \A i \in 1 .. n : e[i].right \in Nat /\ e[i].ts \in Nat
  BY EntryTypes, Zenon
<1>a. e \in Seq(R)
  BY EntryTypes, Zenon
<1>1. \A i \in 1 .. n : e[i].right \in 1 .. end /\ e[i].ts >= tr.prev
  BY Zenon DEF Ordered
<1>2. \A i, j \in 1 .. n : i < j => e[i].right < e[j].right /\ e[i].ts < e[j].ts
  BY Zenon DEF Ordered
<1>3. get_max_timestamp(tr) = IF e = <<>> THEN tr.prev ELSE e[n].ts
  BY Zenon DEF get_max_timestamp, LastEntry
<1>4. threshold = IF e = <<>> THEN 0 ELSE e[n].right
  BY Zenon DEF get_backfill_threshold, LastEntry
<1> HIDE DEF R, threshold
<1>5. (n = 0) = (e = <<>>)
  BY <1>a
<1>6. \A key \in 1 .. threshold :
          \E i \in 1 .. n : Covers(tr, i, key) /\ TimestampOf(tr, key) = e[i].ts
  BY CoverExists, <1>0, <1>4, TimestampOfCovered DEF threshold
<1>7. \A i \in 1 .. n : e[i].right <= threshold /\ e[i].ts <= get_max_timestamp(tr)
  <2> HIDE DEF e, n
  <2> TAKE i \in 1 .. n
  <2>1. n \in 1 .. n /\ e # <<>> /\ (i = n \/ i < n)
    BY <1>0, <1>5
  <2> QED
    BY <1>0, <1>2, <1>3, <1>4, <2>1
<1>8. threshold \in Nat /\ threshold < right /\ get_max_timestamp(tr) \in Nat
  BY <1>0, <1>3, <1>4, <1>5 DEF threshold
<1>9. CASE e = <<>> \/ e[n].ts # ts
  <2> DEFINE f == Append(e, Entry(right, ts))
  <2>2. Entry(right, ts) \in R /\ Entry(right, ts).right = right /\ Entry(right, ts).ts = ts
    BY DEF Entry, R
  <2>3. /\ f \in Seq(R) /\ Len(f) = n + 1 /\ f[n + 1] = Entry(right, ts)
        /\ \A i \in 1 .. n : f[i] = e[i]
    BY <1>0, <1>a, <2>2
  <2>4. tr2.entries = f /\ tr2.prev = tr.prev /\ IsTracker(tr2)
    BY <1>9, <2>3, <1>0, TrackerOf, Zenon DEF IsTracker, R, record_backfill, LastEntry
  <2> HIDE DEF e, n, f
  <2>5. \A i \in 1 .. n + 1 : (i \in 1 .. n /\ f[i] = e[i]) \/ (i = n + 1 /\ f[i] = Entry(right, ts))
    BY <1>0, <2>3
  <2>6. \A i \in 1 .. n : e[i].ts < ts
    <3> TAKE i \in 1 .. n
    <3>1. n \in 1 .. n /\ e # <<>> /\ (i = n \/ i < n)
      BY <1>0, <1>5
    <3> QED
      BY <1>0, <1>2, <1>3, <1>9, <3>1
  <2>7. tr.prev <= ts
    BY <1>0, <1>1, <1>3, <1>5, <1>8
  <2>8. \A i \in 1 .. n + 1 : f[i].right \in 1 .. end /\ f[i].ts >= tr.prev
    BY <1>0, <1>1, <2>2, <2>5, <2>7, Zenon
  <2>9. \A i, j \in 1 .. n + 1 : i < j => f[i].right < f[j].right /\ f[i].ts < f[j].ts
    BY <1>0, <2>5, <1>2, <1>7, <1>8, <2>2, <2>6
  <2>10. Ordered(tr2, end)
    BY <2>3, <2>4, <2>8, <2>9 DEF Ordered
  <2>11. get_backfill_threshold(tr2) = right /\ get_max_timestamp(tr2) = ts
    <3>1. f # <<>>
      BY <1>0, <2>3
    <3> QED
      BY <2>2, <2>3, <2>4, <3>1, Zenon DEF get_backfill_threshold, get_max_timestamp, LastEntry
  <2>12. ASSUME NEW key \in 1 .. right, key <= threshold
         PROVE  TimestampOf(tr2, key) = TimestampOf(tr, key)
    <3>1. key \in 1 .. threshold /\ key \in Nat
      BY <1>8, <2>12
    <3>2. PICK i \in 1 .. n : Covers(tr, i, key) /\ TimestampOf(tr, key) = e[i].ts
      BY <1>6, <3>1, Zenon
    <3>3. i \in 1 .. n + 1 /\ \A j \in 1 .. i - 1 : j \in 1 .. n
      BY <1>0
    <3>4. Covers(tr2, i, key)
      BY <2>3, <2>4, <3>2, <3>3, Zenon DEF Covers, e
    <3> QED
      BY <2>3, <2>4, <3>1, <3>2, <3>3, <3>4, TimestampOfCovered
  <2>13. ASSUME NEW key \in 1 .. right, ~ (key <= threshold)
         PROVE  TimestampOf(tr2, key) = ts
    <3> DEFINE m == n + 1
    <3>1. m \in 1 .. Len(tr2.entries) /\ key \in Nat
      BY <1>0, <2>3, <2>4
    <3>2. \A j \in 1 .. m - 1 : tr2.entries[j].right < key
      <4> TAKE j \in 1 .. m - 1
      <4> QED
        BY <1>0, <1>7, <1>8, <2>3, <2>4, <2>13, <3>1
    <3>3. key <= tr2.entries[m].right /\ tr2.entries[m].ts = ts
      BY <2>2, <2>3, <2>4
    <3> HIDE DEF m
    <3> QED
      BY <2>4, <3>1, <3>3, <3>2, TimestampOfCovered, Zenon DEF Covers
  <2> QED
    BY <2>4, <2>10, <2>11, <2>12, <2>13, Zenon DEF threshold
<1>10. CASE ~ (e = <<>> \/ e[n].ts # ts)
  <2> DEFINE r == [e[n] EXCEPT !.right = right]
             f == [e EXCEPT ![n] = r]
  <2>2. n \in 1 .. n
    BY <1>0, <1>5, <1>10
  <2>3. e[n] \in R
    BY <1>a, <2>2
  <2>4. r \in R /\ r.right = right /\ r.ts = ts
    BY <1>10, <2>3 DEF R
  <2>5. /\ f \in Seq(R) /\ Len(f) = n
        /\ \A i \in 1 .. n : f[i] = IF i = n THEN r ELSE e[i]
    BY <1>0, <1>a, <2>2, <2>4
  <2>6. tr2.entries = f /\ tr2.prev = tr.prev /\ IsTracker(tr2)
    BY <1>10, <2>5, <1>0, TrackerOf, Zenon DEF IsTracker, R, record_backfill, LastEntry
  <2> HIDE DEF e, n, r, f
  <2>7. \A i \in 1 .. n : /\ f[i].ts = e[i].ts /\ f[i].right \in Nat
                          /\ IF i = n THEN f[i].right = right ELSE f[i].right = e[i].right
    BY <1>0, <1>10, <2>2, <2>4, <2>5
  <2>9. \A i, j \in 1 .. n : i < j => f[i].right < f[j].right /\ f[i].ts < f[j].ts
    BY <1>0, <2>7, <1>2, <1>7, <1>8
  <2>10. Ordered(tr2, end)
    BY <2>5, <2>6, <1>0, <1>1, <2>7, <2>9 DEF Ordered
  <2>12. ASSUME NEW key \in 1 .. right, key <= threshold
         PROVE  TimestampOf(tr2, key) = TimestampOf(tr, key)
    <3>1. key \in 1 .. threshold /\ key \in Nat
      BY <1>8, <2>12
    <3>2. PICK i \in 1 .. n : Covers(tr, i, key) /\ TimestampOf(tr, key) = e[i].ts
      BY <1>6, <3>1, Zenon
    <3>7. Covers(tr2, i, key)
      BY <2>6, <1>0, <1>8, <2>7, <2>12, <3>1, <3>2 DEF Covers, e
    <3> QED
      BY <2>5, <2>6, <2>7, <3>1, <3>2, <3>7, TimestampOfCovered
  <2>13. ASSUME NEW key \in 1 .. right, ~ (key <= threshold)
         PROVE  TimestampOf(tr2, key) = ts
    <3>1. key \in Nat /\ key <= f[n].right /\ f[n].ts = ts
      BY <2>2, <2>4, <2>5
    <3>2. \A j \in 1 .. n - 1 : f[j].right < key
      BY <1>0, <1>7, <1>8, <2>7, <2>13, <3>1
    <3> QED
      BY <2>2, <2>5, <2>6, <3>1, <3>2, TimestampOfCovered, Zenon DEF Covers
  <2> QED
    BY <2>6, <2>10, <2>2, <2>5, <2>4, <2>12, <2>13 DEF threshold, get_backfill_threshold,
       get_max_timestamp, LastEntry
<1> QED
  BY <1>9, <1>10, Zenon

\* The timestamps of the keys lie between the last write's and the newest entry's.
LEMMA TimestampBounds ==
  ASSUME NatIsWellOrdered, NEW tr, IsTracker(tr), NEW end \in Nat, Ordered(tr, end),
         NEW key \in 1 .. get_backfill_threshold(tr)
  PROVE  /\ TimestampOf(tr, key) \in Nat /\ tr.prev <= TimestampOf(tr, key)
         /\ TimestampOf(tr, key) <= get_max_timestamp(tr)
<1> DEFINE e == tr.entries
           n == Len(e)
<1>0. /\ tr.prev \in Nat /\ n \in Nat /\ get_backfill_threshold(tr) \in Nat
      /\ \A i \in 1 .. n : e[i].right \in Nat /\ e[i].ts \in Nat
  <2>1. /\ tr.prev \in Nat /\ n \in Nat /\ e \in Seq([right : Nat, ts : Nat])
        /\ \A i \in 1 .. n : e[i].right \in Nat /\ e[i].ts \in Nat
    BY EntryTypes, Zenon
  <2>2. get_backfill_threshold(tr) = IF e = <<>> THEN 0 ELSE e[n].right
    BY Zenon DEF get_backfill_threshold, LastEntry
  <2> HIDE DEF e
  <2>3. e # <<>> => n \in 1 .. n
    BY <2>1
  <2> QED
    BY <2>1, <2>2, <2>3, Zenon
<1>1. PICK i \in 1 .. n : Covers(tr, i, key)
  BY CoverExists, Zenon
<1>2. TimestampOf(tr, key) = e[i].ts
  BY <1>0, <1>1, TimestampOfCovered
<1>3. e # <<>> /\ get_max_timestamp(tr) = e[n].ts
  BY <1>0 DEF get_max_timestamp, LastEntry
<1>4. /\ e[i].ts >= tr.prev
      /\ \A j \in 1 .. n : i < j => e[i].ts < e[j].ts
  BY Zenon DEF Ordered
<1> HIDE DEF e, n
<1>5. n \in 1 .. n /\ (i = n \/ i < n)
  BY <1>0
<1> QED
  BY <1>0, <1>2, <1>3, <1>4, <1>5

\* How a write changes the newest timestamp.
LEMMA WriteMax ==
  ASSUME NEW tr, IsTracker(tr), NEW end \in Nat, Ordered(tr, end),
         NEW tr2, tr2 = record_write(tr, clip_next_write(tr), tr.prev + 1)
  PROVE  /\ Len(tr.entries) > 1 => get_max_timestamp(tr2) = get_max_timestamp(tr)
         /\ get_max_timestamp(tr) = tr.prev => get_max_timestamp(tr2) = tr.prev + 1
         /\ \/ get_max_timestamp(tr2) = get_max_timestamp(tr)
            \/ get_max_timestamp(tr2) = tr.prev + 1
         /\ clip_next_write(tr) \in 0 .. end /\ clip_next_write(tr) <= get_backfill_threshold(tr)
         /\ tr.entries = <<>> <=> get_backfill_threshold(tr) = 0
<1> DEFINE e == tr.entries
           n == Len(e)
           R == [right : Nat, ts : Nat]
<1>0. /\ tr.prev \in Nat /\ n \in Nat
      /\ \A i \in 1 .. n : e[i].right \in Nat /\ e[i].ts \in Nat
  BY EntryTypes, Zenon
<1>a. e \in Seq(R)
  BY EntryTypes, Zenon
<1>1. \A i \in 1 .. n : e[i].right \in 1 .. end /\ e[i].ts >= tr.prev
  BY Zenon DEF Ordered
<1>2. \A i, j \in 1 .. n : i < j => e[i].right < e[j].right /\ e[i].ts < e[j].ts
  BY Zenon DEF Ordered
<1>3. clip_next_write(tr) = IF e = <<>> \/ e[1].ts > tr.prev THEN 0 ELSE e[1].right
  BY Zenon DEF clip_next_write
<1>4. get_max_timestamp(tr) = IF e = <<>> THEN tr.prev ELSE e[n].ts
  BY Zenon DEF get_max_timestamp, LastEntry
<1>5. get_backfill_threshold(tr) = IF e = <<>> THEN 0 ELSE e[n].right
  BY Zenon DEF get_backfill_threshold, LastEntry
<1> HIDE DEF R
<1>6. (n = 0) = (e = <<>>)
  BY <1>a
<1>7. n # 0 => 1 \in 1 .. n /\ n \in 1 .. n /\ (n = 1 \/ 1 < n)
  <2> HIDE DEF n
  <2> QED
    BY <1>0
<1>8. /\ clip_next_write(tr) \in 0 .. end /\ clip_next_write(tr) <= get_backfill_threshold(tr)
      /\ e = <<>> <=> get_backfill_threshold(tr) = 0
  <2> HIDE DEF e, n
  <2>1. n # 0 => e[1].right \in 1 .. end /\ e[n].right \in 1 .. end /\ e[1].right <= e[n].right
    BY <1>0, <1>1, <1>2, <1>7
  <2> QED
    BY <1>3, <1>5, <1>6, <2>1
<1>9. CASE clip_next_write(tr) = 0
  <2>3. get_max_timestamp(tr2) = IF e = <<>> THEN tr.prev + 1 ELSE e[n].ts
    BY <1>9, Zenon DEF get_max_timestamp, LastEntry, IsTracker, record_write
  <2>4. n # 0 => e[n].ts > tr.prev
    <3> HIDE DEF e, n
    <3>1. n # 0 => e[1].ts > tr.prev
      BY <1>0, <1>1, <1>3, <1>6, <1>7, <1>9
    <3> QED
      BY <1>0, <1>2, <1>7, <3>1
  <2> HIDE DEF e, n
  <2> QED
    BY <1>0, <1>4, <1>6, <1>7, <1>8, <2>3, <2>4 DEF e, n
<1>10. CASE clip_next_write(tr) # 0
  <2>1. n # 0 /\ e # <<>> /\ 1 \in 1 .. n /\ n \in 1 .. n
    BY <1>3, <1>6, <1>7, <1>10, Zenon
  <2>2. CASE n > 1
    <3>1. get_max_timestamp(tr2) = e[n].ts
      <4>1. CASE e[2].ts = tr.prev + 1
        <5>2. Tail(e) # <<>> /\ Len(Tail(e)) = n - 1 /\ Tail(e)[n - 1] = e[n]
          <6> HIDE DEF e
          <6>1. Len(Tail(e)) = n - 1 /\ n - 1 \in 1 .. n - 1
            BY <1>0, <1>a, <2>1, <2>2
          <6>2. Tail(e)[n - 1] = e[n - 1 + 1] /\ Tail(e) \in Seq(R)
            BY <1>0, <1>a, <2>1, <6>1
          <6>3. n - 1 + 1 = n /\ n - 1 # 0
            BY <1>0, <2>2
          <6> QED
            BY <6>1, <6>2, <6>3, Zenon
        <5> QED
          BY <1>10, <2>2, <4>1, <5>2, Zenon DEF get_max_timestamp, LastEntry, record_write
      <4>2. CASE e[2].ts # tr.prev + 1
        <5>1. tr2 = [tr EXCEPT !.prev = tr.prev + 1, !.entries[1].ts = tr.prev + 1]
          BY <1>10, <4>2, Zenon DEF record_write
        <5> DEFINE f == [e EXCEPT ![1].ts = tr.prev + 1]
        <5>2. tr2.entries = f
          BY <5>1, Zenon DEF IsTracker
        <5>3. f # <<>> /\ Len(f) = n /\ f[n] = e[n]
          BY <1>0, <1>a, <2>1, <2>2
        <5> QED
          BY <5>2, <5>3, Zenon DEF get_max_timestamp, LastEntry
      <4> QED
        BY <4>1, <4>2, Zenon
    <3>2. e[n].ts > tr.prev
      <4> HIDE DEF e, n
      <4> QED
        BY <1>0, <1>1, <1>2, <2>1, <2>2
    <3> QED
      BY <1>0, <1>4, <1>8, <2>1, <3>1, <3>2
  <2>3. CASE ~ (n > 1)
    <3>1. n = 1
      <4> HIDE DEF n
      <4> QED
        BY <1>0, <2>1, <2>3
    <3> DEFINE f == [e EXCEPT ![1].ts = tr.prev + 1]
    <3> QED
      BY <1>8, <2>3, <3>1, <1>10, <1>0, <1>a, <2>1 DEF get_max_timestamp, LastEntry,
         IsTracker, record_write, R
  <2> QED
    BY <2>2, <2>3, Zenon
<1> QED
  BY <1>9, <1>10, Zenon

\* The backfill does not go beyond the end of the range.
LEMMA ThresholdBound ==
  ASSUME NEW tr, IsTracker(tr), NEW end \in Nat, Ordered(tr, end)
  PROVE  get_backfill_threshold(tr) \in 0 .. end
BY EntryTypes DEF Ordered, get_backfill_threshold, LastEntry

------------------------------------------------------------------------------
(* The invariant.                                                             *)
threshold == get_backfill_threshold(client.tracker)

Item == [key : Keys, version : Nat, has : BOOLEAN]

ToBackfiller ==
    [type : {"pre_items"}, key : Keys, has : BOOLEAN]
        \cup [type : {"begin_session"}, threshold : 0 .. NumKeys]
        \cup [type : {"end_session"}]
        \cup [type : {"ack_items"}, size : Int]

ToBackfillee ==
    [type : {"items"}, item : Item]
        \cup [type : {"ack_pre_items"}, size : Int]
        \cup [type : {"ack_end_session"}]

Token == [ts : Nat, right : Keys, sync : BOOLEAN]

Phases == {"starting", "registered", "paused", "synchronizing", "session",
           "finishing", "streaming"}

Client == [phase : Phases, tracker : [prev : Nat, entries : Seq([right : Nat, ts : Nat])],
           completed : Nat, subscribed : Nat, start : Nat, end : Nat]

Session == [threshold : 0 .. NumKeys, items : Seq(Item), mem_size : Int, unacked : Int,
            sent_end : BOOLEAN, got_ack : BOOLEAN, refused : BOOLEAN]

Pre == [sent : 0 .. NumKeys, unacked : Int, common : [Keys -> Nat]]

Backfiller == [common : [Keys -> Nat], pre_items : SUBSET Keys, pre_right : 0 .. NumKeys,
               session : {None} \cup 0 .. NumKeys, unacked : Int]

Remote == [state : {"none", "async", "ready"}, started : Nat, acked : Nat]

Types ==
    /\ log \in Seq(SUBSET Keys) /\ pstore \in Nat
    /\ remote \in Remote /\ writes \subseteq [ts : Nat, sync : BOOLEAN]
    /\ client \in Client /\ session \in Session /\ pre \in Pre /\ backfiller \in Backfiller
    /\ to_backfiller \in Seq(ToBackfiller) /\ to_backfillee \in Seq(ToBackfillee)
    /\ tokens \in Seq(Token)
    /\ store \in [Keys -> SUBSET Int] /\ meta \in [Keys -> {Old} \cup Nat]

\* Nothing is newer than the dispatcher's last write.
Bounded ==
    /\ pstore <= Len(log) /\ remote.started <= Len(log) /\ client.completed <= Len(log)
    /\ \A w \in writes : w.ts \in 1 .. Len(log) /\ (w.sync => client.phase = "streaming")
    /\ remote.state = "ready" => client.phase = "streaming"
    /\ \A k \in Keys : meta[k] <= Len(log)

\* The data of a key is that of its version.
True ==
    \A k \in Keys : IF meta[k] = Old THEN store[k] \subseteq {Old}
                    ELSE store[k] = Content(k, meta[k])

\* The write tokens toks take key from its version in metainfo m to the version
\* final, one by one.
Chain(toks, m, key, final) ==
    /\ m[key] # Old /\ m[key] <= final
    /\ \A t \in Nat : (\E i \in DOMAIN toks : toks[i].ts = t /\ key <= toks[i].right)
                          <=> t \in m[key] + 1 .. final

TokensInOrder ==
    /\ \A i \in DOMAIN tokens : tokens[i].ts <= client.completed
    /\ \A i, j \in DOMAIN tokens : i < j => tokens[i].ts < tokens[j].ts

Streamed ==
    IF client.phase = "streaming" THEN \A k \in Keys : Chain(tokens, meta, k, client.completed)
    ELSE /\ Ordered(client.tracker, NumKeys) /\ client.tracker.prev = client.completed
         /\ \A i \in DOMAIN tokens : tokens[i].right <= threshold
         /\ \A k \in 1 .. threshold : Chain(tokens, meta, k, TimestampOf(client.tracker, k))

\* The newest chunk that the tracker has is no newer than what comes next.
Frontier ==
    /\ client.phase \in {"starting", "registered"} =>
           threshold = 0 /\ tokens = <<>> /\ get_max_timestamp(client.tracker) = client.completed
    /\ client.phase \in {"paused", "synchronizing"} => threshold < NumKeys
    /\ client.phase = "finishing" => threshold = NumKeys
    /\ client.phase \in {"registered", "paused", "synchronizing", "session"} =>
           client.subscribed <= client.completed
    /\ client.phase = "paused" =>
           \/ get_max_timestamp(client.tracker) <= pstore
           \/ get_max_timestamp(client.tracker) = client.completed
    /\ client.phase = "synchronizing" =>
           /\ client.subscribed <= client.start
           /\ \/ get_max_timestamp(client.tracker) <= pstore
              \/ get_max_timestamp(client.tracker) <= client.start
    /\ client.phase = "session" =>
           /\ client.subscribed <= client.start /\ client.start <= pstore
           /\ threshold < NumKeys => get_max_timestamp(client.tracker) <= pstore

Pending(queue, type) == \E i \in DOMAIN queue : queue[i].type = type

\* Where the chunks that have come to the session end.
Reached == session.threshold + Len(session.items)

\* A session begins and ends once, in that order, on both sides.
Protocol ==
    /\ client.phase # "session" =>
           /\ session.items = <<>> /\ backfiller.session = None
           /\ ~ Pending(to_backfiller, "begin_session")
           /\ ~ Pending(to_backfiller, "end_session")
           /\ ~ Pending(to_backfillee, "items")
           /\ ~ Pending(to_backfillee, "ack_end_session")
    /\ Pending(to_backfiller, "begin_session") =>
           /\ session.items = <<>> /\ backfiller.session = None
           /\ session.threshold < NumKeys /\ ~ session.sent_end /\ ~ session.got_ack
           /\ ~ Pending(to_backfiller, "end_session")
           /\ ~ Pending(to_backfillee, "items")
           /\ ~ Pending(to_backfillee, "ack_end_session")
    /\ \A i, j \in DOMAIN to_backfiller :
           to_backfiller[i].type = "begin_session" =>
               /\ to_backfiller[i].threshold = session.threshold
               /\ to_backfiller[j].type = "begin_session" => i = j
    /\ backfiller.session # None =>
           ~ Pending(to_backfillee, "ack_end_session") /\ ~ session.got_ack
    /\ Pending(to_backfiller, "end_session") => session.sent_end /\ backfiller.session # None
    /\ \A i, j \in DOMAIN to_backfiller :
           /\ to_backfiller[i].type = "end_session" /\ to_backfiller[j].type = "end_session"
           => i = j
    /\ Pending(to_backfillee, "ack_end_session") => ~ session.got_ack
    /\ \A i, j \in DOMAIN to_backfillee :
           to_backfillee[i].type = "ack_end_session" =>
               /\ to_backfillee[j].type = "ack_end_session" => i = j
               /\ to_backfillee[j].type = "items" => j < i
    /\ session.got_ack => ~ Pending(to_backfillee, "items")
    /\ session.sent_end => session.refused \/ session.threshold = NumKeys
    /\ client.phase = "session" /\ ~ session.sent_end =>
           Pending(to_backfiller, "begin_session") \/ backfiller.session # None
    /\ client.phase = "session" =>
           /\ threshold <= session.threshold
           /\ session.refused \/ threshold = session.threshold

\* The chunks on their way are those after the session's threshold, in order.
Contiguous ==
    /\ Reached <= NumKeys
    /\ \A i \in DOMAIN session.items : session.items[i].key = session.threshold + i
    /\ \A i \in DOMAIN to_backfillee : to_backfillee[i].type = "items" =>
           /\ to_backfillee[i].item.key > Reached
           /\ backfiller.session # None => to_backfillee[i].item.key <= backfiller.session
           /\ to_backfillee[i].item.key > Reached + 1 =>
                  \E j \in DOMAIN to_backfillee :
                      /\ to_backfillee[j].type = "items"
                      /\ to_backfillee[j].item.key = to_backfillee[i].item.key - 1
    /\ \A i, j \in DOMAIN to_backfillee :
           /\ i < j /\ to_backfillee[i].type = "items" /\ to_backfillee[j].type = "items"
           => to_backfillee[i].item.key < to_backfillee[j].item.key
    /\ backfiller.session # None =>
           /\ Reached <= backfiller.session
           /\ backfiller.session > Reached =>
                  \E j \in DOMAIN to_backfillee :
                      /\ to_backfillee[j].type = "items"
                      /\ to_backfillee[j].item.key = backfiller.session

InFlight ==
    {session.items[i] : i \in DOMAIN session.items} \cup
    {to_backfillee[i].item : i \in {j \in DOMAIN to_backfillee : to_backfillee[j].type = "items"}}

\* What the chunks on their way say, and in which order.
ItemsTrue ==
    /\ \A x \in InFlight :
           /\ x.key <= pre.sent /\ x.version = backfiller.common[x.key]
           /\ client.start <= x.version /\ meta[x.key] <= x.version /\ x.version <= pstore
           /\ ~ x.has => store[x.key] = Content(x.key, x.version)
           /\ ~ session.refused => get_max_timestamp(client.tracker) <= x.version
    /\ \A x, y \in InFlight : x.key < y.key => x.version <= y.version

\* Pre-items come in order, and say how far they have come.
PreOrder ==
    /\ client.phase \in {"starting", "registered"} => to_backfiller = <<>>
    /\ Backfilling =>
           /\ backfiller.pre_right <= pre.sent
           /\ \A i \in DOMAIN to_backfiller : to_backfiller[i].type = "pre_items" =>
                  to_backfiller[i].key \in backfiller.pre_right + 1 .. pre.sent
           /\ \A i, j \in DOMAIN to_backfiller :
                  /\ i < j /\ to_backfiller[i].type = "pre_items"
                  /\ to_backfiller[j].type = "pre_items"
                  => to_backfiller[i].key < to_backfiller[j].key

\* The keys that no pre-items have been sent of are as they were at first.
Untouched ==
    /\ client.phase = "registered" => \A k \in Keys : meta[k] <= client.subscribed
    /\ Backfilling =>
           /\ threshold <= pre.sent
           /\ \A k \in Keys : backfiller.common[k] <= pstore
           /\ \A k \in threshold + 1 .. NumKeys :
                  meta[k] <= client.subscribed \/ meta[k] <= backfiller.common[k]
           /\ \A k \in pre.sent + 1 .. NumKeys :
                  /\ pre.common[k] = backfiller.common[k]
                  /\ IF meta[k] = Old THEN pre.common[k] = 0 ELSE pre.common[k] <= meta[k]

\* The backfiller knows, or is going to be told, where the secondary's keys
\* differ from the version that it takes them to have.
Known ==
    Backfilling =>
        \A k \in threshold + 1 .. pre.sent :
            \/ \E x \in InFlight : x.key = k
            \/ store[k] = Content(k, backfiller.common[k])
            \/ k \in backfiller.pre_items
            \/ \E i \in DOMAIN to_backfiller :
                   /\ to_backfiller[i].type = "pre_items"
                   /\ to_backfiller[i].key = k /\ to_backfiller[i].has

Inv == /\ Types /\ Bounded /\ True /\ TokensInOrder /\ Streamed
       /\ Frontier /\ Protocol /\ Contiguous /\ ItemsTrue
       /\ PreOrder /\ Untouched /\ Known

------------------------------------------------------------------------------
(* What it says of the types, and what depends on what.                       *)
\* The types of the client's fields.
LEMMA ClientTypes ==
  ASSUME Types
  PROVE  /\ client.phase \in Phases /\ IsTracker(client.tracker)
         /\ client.completed \in Nat /\ client.subscribed \in Nat
         /\ client.start \in Nat /\ client.end \in Nat
         /\ threshold \in Nat /\ get_max_timestamp(client.tracker) \in Nat
BY EntryTypes DEF Types, Client, IsTracker, get_backfill_threshold, get_max_timestamp,
   LastEntry, threshold

\* The types of the session's fields.
LEMMA SessionTypes ==
  ASSUME Types
  PROVE  /\ session.threshold \in 0 .. NumKeys /\ session.items \in Seq(Item)
         /\ session.unacked \in Int /\ session.mem_size \in Int /\ session.sent_end \in BOOLEAN
         /\ session.got_ack \in BOOLEAN /\ session.refused \in BOOLEAN
         /\ Len(session.items) \in Nat /\ DOMAIN session.items = 1 .. Len(session.items)
         /\ \A i \in DOMAIN session.items : session.items[i] \in Item
BY DEF Types, Session

\* The types of the pre-items' state on both sides.
LEMMA PreTypes ==
  ASSUME Types
  PROVE  /\ pre.sent \in 0 .. NumKeys /\ pre.unacked \in Int /\ pre.common \in [Keys -> Nat]
         /\ backfiller.common \in [Keys -> Nat] /\ backfiller.pre_items \subseteq Keys
         /\ backfiller.pre_right \in 0 .. NumKeys /\ backfiller.unacked \in Int
         /\ backfiller.session \in {None} \cup 0 .. NumKeys
BY Zenon DEF Types, Pre, Backfiller

\* The types of a chunk's fields.
LEMMA ItemTypes ==
  ASSUME NEW x \in Item
  PROVE  x.key \in Keys /\ x.version \in Nat /\ x.has \in BOOLEAN
BY Zenon DEF Item

\* The types of the messages to the backfiller.
LEMMA ToBackfillerTypes ==
  ASSUME NEW m \in ToBackfiller
  PROVE  /\ m.type \in {"pre_items", "begin_session", "end_session", "ack_items"}
         /\ m.type = "pre_items" => m.key \in Keys /\ m.has \in BOOLEAN
         /\ m.type = "begin_session" => m.threshold \in 0 .. NumKeys
         /\ m.type = "ack_items" => m.size \in Int
BY Zenon DEF ToBackfiller

\* The types of the messages to the backfillee.
LEMMA ToBackfilleeTypes ==
  ASSUME NEW m \in ToBackfillee
  PROVE  /\ m.type \in {"items", "ack_pre_items", "ack_end_session"}
         /\ m.type = "items" => m.item \in Item
         /\ m.type = "ack_pre_items" => m.size \in Int
BY Zenon DEF ToBackfillee

\* The types of the first write token, and of those after it.
LEMMA TokenTypes ==
  ASSUME Types
  PROVE  /\ Len(tokens) \in Nat /\ DOMAIN tokens = 1 .. Len(tokens)
         /\ \A i \in DOMAIN tokens : /\ tokens[i].ts \in Nat /\ tokens[i].right \in Keys
                                     /\ tokens[i].sync \in BOOLEAN
<1>1. tokens \in Seq(Token)
  BY Zenon DEF Types
<1>3. \A i \in DOMAIN tokens : tokens[i] \in Token
  BY <1>1
<1> QED
  BY <1>1, <1>3 DEF Token

\* The types of the chunks on their way.
LEMMA InFlightTypes ==
  ASSUME Types
  PROVE  \A x \in InFlight : x \in Item /\ x.key \in Keys /\ x.version \in Nat /\ x.has \in BOOLEAN
BY SessionTypes, ToBackfilleeTypes, ItemTypes DEF Types, InFlight

\* A version's content does not depend on later writes.
LEMMA ContentStable ==
  ASSUME NEW keys \in SUBSET Keys, Types, log' = Append(log, keys)
  PROVE  /\ log' \in Seq(SUBSET Keys) /\ Len(log') = Len(log) + 1 /\ Len(log) \in Nat
         /\ \A k \in Keys, v \in Nat : v <= Len(log) => Content(k, v)' = Content(k, v)
BY DEF Types, Content

\* A version's content is a matter of the log alone.
LEMMA ContentSame ==
  ASSUME log' = log
  PROVE  \A k, v : Content(k, v)' = Content(k, v)
BY Zenon DEF Content

\* What the backfiller knows of the keys that are still to come stays known
\* while these keys, and the messages about them, stay as they are.
LEMMA KnownSame ==
  ASSUME Known, UNCHANGED <<log, pre, backfiller, to_backfiller>>,
         Backfilling' = Backfilling, threshold' = threshold, InFlight' = InFlight,
         Backfilling => \A k \in threshold + 1 .. pre.sent : store'[k] = store[k]
  PROVE  Known'
BY ContentSame DEF Known

\* Chunks are on their way only in a session, and beyond what it has applied.
LEMMA InFlightInSession ==
  ASSUME Types, Protocol, Contiguous, NEW x \in InFlight
  PROVE  /\ client.phase = "session" /\ threshold < NumKeys
         /\ session.threshold < x.key /\ session.threshold < NumKeys
<1>1. /\ session.threshold \in Nat /\ Len(session.items) \in Nat
      /\ DOMAIN session.items = 1 .. Len(session.items) /\ threshold \in Nat
      /\ NumKeys \in Nat
  BY SessionTypes, ClientTypes, BoundsAssumption
<1>2. x.key \in 1 .. NumKeys
  BY InFlightTypes, Zenon DEF Keys
<1>4. session.threshold < x.key
  BY <1>1, <1>2 DEF Contiguous, Reached, InFlight
<1> QED
  BY <1>1, <1>2, <1>4 DEF Protocol, Pending, InFlight

\* Nothing is on its way outside of a session.
LEMMA NoneInFlight ==
  ASSUME Inv, client.phase # "session"
  PROVE  InFlight = {}
BY InFlightInSession, Zenon DEF Inv

\* What a message at the end of a queue changes.
LEMMA AppendProps ==
  ASSUME NEW S, NEW q \in Seq(S), NEW m \in S, NEW r, r = Append(q, m)
  PROVE  /\ r \in Seq(S) /\ DOMAIN r = DOMAIN q \cup {Len(q) + 1} /\ r[Len(q) + 1] = m
         /\ Len(r) = Len(q) + 1 /\ Len(q) \in Nat /\ DOMAIN q = 1 .. Len(q)
         /\ \A i \in DOMAIN q : r[i] = q[i] /\ i \in Nat /\ i < Len(q) + 1
OBVIOUS

\* What taking the first message off a queue changes.
LEMMA TailProps ==
  ASSUME NEW S, NEW q \in Seq(S), q # <<>>, NEW r, r = Tail(q)
  PROVE  /\ r \in Seq(S) /\ Head(q) = q[1] /\ q[1] \in S /\ 1 \in DOMAIN q
         /\ Len(q) \in Nat /\ DOMAIN q = 1 .. Len(q) /\ Len(r) = Len(q) - 1
         /\ \A i \in DOMAIN r : i \in Nat /\ i + 1 \in DOMAIN q /\ r[i] = q[i + 1]
         /\ \A i \in DOMAIN q : i \in Nat /\ (i # 1 => i - 1 \in DOMAIN r /\ r[i - 1] = q[i])
OBVIOUS

\* What an end of session at the end of the queue changes.
LEMMA MoreEnd ==
  ASSUME NEW q \in Seq(ToBackfiller), ~ Pending(q, "end_session"), NEW r, r = q \o EndMessages
  PROVE  /\ r \in Seq(ToBackfiller) /\ Pending(r, "end_session")
         /\ Pending(r, "begin_session") <=> Pending(q, "begin_session")
         /\ \A i, j \in DOMAIN r : r[i].type = "end_session" /\ r[j].type = "end_session" => i = j
         /\ \A i \in DOMAIN r : r[i].type \in {"pre_items", "begin_session"} =>
                i \in DOMAIN q /\ r[i] = q[i]
         /\ \A i \in DOMAIN q : i \in DOMAIN r /\ r[i] = q[i]
<1> DEFINE m == [type |-> "end_session"]
<1>1. m \in ToBackfiller /\ m.type = "end_session"
  BY Zenon DEF ToBackfiller
<1>2. r = q \o <<m>>
  BY Zenon DEF EndMessages
<1> HIDE DEF m
<1> DEFINE n == Len(q) + 1
<1>5. /\ r \in Seq(ToBackfiller) /\ DOMAIN r = DOMAIN q \cup {n}
      /\ r[n] = m /\ \A i \in DOMAIN q : r[i] = q[i]
  BY <1>1, <1>2, AppendProps
<1> HIDE DEF n
<1> QED
  BY <1>5, <1>1 DEF Pending

\* What is left of a queue of messages.
LEMMA Rest ==
  ASSUME NEW S, NEW q \in Seq(S), q # <<>>, NEW r, r = Tail(q), NEW type
  PROVE  /\ Pending(r, type) => Pending(q, type)
         /\ Head(q).type # type /\ Pending(q, type) => Pending(r, type)
         /\ Head(q).type = type => Pending(q, type)
<1>1. /\ Head(q) = q[1] /\ 1 \in DOMAIN q
      /\ \A i \in DOMAIN r : i + 1 \in DOMAIN q /\ r[i] = q[i + 1]
      /\ \A i \in DOMAIN q : i # 1 => i - 1 \in DOMAIN r /\ r[i - 1] = q[i]
  BY TailProps
<1>2. ASSUME Pending(r, type) PROVE Pending(q, type)
  BY <1>2, <1>1 DEF Pending
<1>3. ASSUME Head(q).type # type, Pending(q, type) PROVE Pending(r, type)
  <2>1. PICK i \in DOMAIN q : q[i].type = type
    BY <1>3, Zenon DEF Pending
  <2> QED
    BY <1>1, <1>3, <2>1, Zenon DEF Pending
<1> QED
  BY <1>2, <1>3, <1>1, Zenon DEF Pending
==============================================================================
