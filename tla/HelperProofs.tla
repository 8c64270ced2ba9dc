---------------------------- MODULE HelperProofs ----------------------------
(* Proofs about the helper programs.  The preferences store, for any       *)
(* programs, keys, file and cache size, and any number of operations,      *)
(* write errors and kills; the jail of the USB transfer, for any exports,  *)
(* any program and any number of directories replaced by links; the pak    *)
(* hotkey, for any number of nodes, controllers and key events; and the    *)
(* writer of the boot volume, for any number of invocations and polls.     *)
EXTENDS BootWrite, Prefs, UsbJail, PakHotkey, FiniteSetTheorems, SequenceTheorems, TLAPS

----------------------------------------------------------------------------
(* zlyme_prefs: the hypothesis and the inductive invariant.                *)

CONSTANT RowKeys   \* kind, tag and path, of whatever rows a file may hold

RowSet == [key : RowKeys, val : Nat]
Rows == Seq(RowSet)

\* No key has two rows.
Unique(rows) == \A i, j \in 1 .. Len(rows) : rows[i].key = rows[j].key => i = j

\* Lock owners can be told apart, and the file that is found has one row a key.
PrefsSetting ==
    /\ {"free", "cleanup"} \cap Clients = {}
    /\ Keys \subseteq RowKeys
    /\ Values \subseteq Nat
    /\ PrefsMax \in Nat
    /\ \A rows \in FirstRows : rows \in Rows /\ Unique(rows)

ClientSet == [at : {"idle", "stat", "open", "note", "answer", "lock", "change", "write",
                    "dirsync", "noted", "unlock"},
              op : {"none", "get", "set", "clear"}, key : RowKeys \cup {"none"}, val : Nat, level : Nat,
              rows : Rows, loaded : BOOLEAN, over : BOOLEAN, short : BOOLEAN, noted : Nat]
PrefTypes ==
    /\ file \in [ver : Nat, rows : Rows]
    /\ c \in [Clients -> ClientSet]
    /\ clean \in [at : {"idle", "filter", "rewrite", "release"}, rows : Rows, cut : BOOLEAN]

\* A program changes the preferences only under the lock.
InChange(p) ==
    \/ c[p].op \in {"set", "clear"} /\ c[p].at \in {"open", "note"}
    \/ c[p].at \in {"change", "write", "dirsync", "noted", "unlock"}
Locked ==
    /\ \A p \in Clients : InChange(p) => lock = p /\ c[p].key \in Keys
    /\ \A p \in Clients : c[p].at = "lock" => c[p].op \in {"set", "clear"} /\ c[p].key \in Keys
    /\ \A p \in Clients : c[p].at \in {"stat", "answer"} => c[p].op = "get"
    /\ \A p \in Clients : c[p].at # "idle" => c[p].op # "none"
    /\ clean.at # "idle" => lock = "cleanup"

\* What was read under the lock is what the file still holds: its first rows,
\* and whether there are more, or some of them after a read error.
FirstOf(rows) == SubSeq(rows, 1, IF Len(rows) > PrefsMax THEN PrefsMax ELSE Len(rows))
ReadOf(r) ==
    /\ Unique(r.rows) /\ SomeGone(Keys, file.rows, r.rows)
    /\ r.short = FALSE => r.rows = FirstOf(file.rows) /\ r.over = (Len(file.rows) > PrefsMax)
ReadUnderLock ==
    \A p \in Clients :
       /\ c[p].at = "change" \/ (c[p].at = "note" /\ c[p].op \in {"set", "clear"}) => ReadOf(c[p])
       /\ c[p].at = "change" => c[p].op \in {"set", "clear"}

\* What is about to replace the file differs from it in one row, or has lost
\* some after a read error.
Changed(r) ==
    /\ Unique(r.rows)
    /\ \E k \in Keys :
          /\ SomeGone(Keys \ {k}, file.rows, r.rows)
          /\ r.short = FALSE => Same(Keys \ {k}, file.rows, r.rows)
OneRowEdited == \A p \in Clients : c[p].at = "write" => Changed(c[p])
OrphansRemoved ==
    clean.at = "rewrite" =>
        /\ Unique(clean.rows)
        /\ SomeGone(Keys, file.rows, clean.rows)
        /\ clean.cut = FALSE => Same(Keys \ Orphans, file.rows, clean.rows)

PrefInv == /\ PrefTypes /\ Unique(file.rows) /\ Locked /\ ReadUnderLock
           /\ OneRowEdited /\ OrphansRemoved

----------------------------------------------------------------------------
(* What the operators on rows do.                                          *)

\* The value of a key that has a row, and of one that has none.
LEMMA ValueOf ==
    ASSUME NEW rows \in Rows, Unique(rows), NEW k
    PROVE  /\ \A i \in 1 .. Len(rows) : rows[i].key = k => Value(rows, k) = rows[i].val
           /\ (\A i \in 1 .. Len(rows) : rows[i].key # k) => Value(rows, k) = 0
<1>1. ASSUME NEW i \in 1 .. Len(rows), rows[i].key = k PROVE Value(rows, k) = rows[i].val
  <2>1. Find(rows, k) = {i}
    BY <1>1 DEF Find, Unique
  <2>2. (CHOOSE j \in Find(rows, k) : TRUE) = i
    BY <2>1
  <2> QED
    BY <2>1, <2>2 DEF Value
<1>2. ASSUME \A i \in 1 .. Len(rows) : rows[i].key # k PROVE Value(rows, k) = 0
  <2>1. Find(rows, k) = {}
    BY <1>2 DEF Find
  <2> QED
    BY <2>1 DEF Value
<1> QED
  BY <1>1, <1>2

\* Two files with the same row for a key, or none, give it the same value.
LEMMA SameValue ==
    ASSUME NEW a \in Rows, Unique(a), NEW b \in Rows, Unique(b), NEW k,
           \A i \in 1 .. Len(a) : a[i].key = k => \E j \in 1 .. Len(b) : b[j] = a[i],
           \A j \in 1 .. Len(b) : b[j].key = k => \E i \in 1 .. Len(a) : a[i].key = k
    PROVE  Value(a, k) = Value(b, k)
<1>1. CASE \E i \in 1 .. Len(a) : a[i].key = k
  <2>1. PICK i \in 1 .. Len(a) : a[i].key = k
    BY <1>1
  <2>2. PICK j \in 1 .. Len(b) : b[j] = a[i]
    BY <2>1
  <2>3. Value(a, k) = a[i].val
    BY <2>1, ValueOf
  <2>4. Value(b, k) = b[j].val
    BY <2>1, <2>2, ValueOf
  <2> QED
    BY <2>2, <2>3, <2>4
<1>2. CASE ~ \E i \in 1 .. Len(a) : a[i].key = k
  <2>1. Value(a, k) = 0
    BY <1>2, ValueOf
  <2>2. Value(b, k) = 0
    BY <1>2, ValueOf
  <2> QED
    BY <2>1, <2>2
<1> QED
  BY <1>1, <1>2

\* A sequence of rows is its length and its rows.
LEMMA RowsAre ==
    ASSUME NEW a \in Rows
    PROVE  /\ Len(a) \in Nat /\ DOMAIN a = 1 .. Len(a)
           /\ \A i \in 1 .. Len(a) : a[i] \in RowSet
BY DEF Rows

\* Two files that differ in one row, and there not in the key, give every other key
\* the same value.
LEMMA RowsAlike ==
    ASSUME NEW a \in Rows, Unique(a), NEW b \in Rows, Unique(b), Len(b) = Len(a),
           NEW i \in 1 .. Len(a),
           \A j \in 1 .. Len(a) : b[j].key = a[j].key /\ (j # i => b[j] = a[j])
    PROVE  Same(Keys \ {a[i].key}, a, b)
<1>1. ASSUME NEW k, k # a[i].key PROVE Value(a, k) = Value(b, k)
  <2>1. \A j \in 1 .. Len(a) : a[j].key = k => \E m \in 1 .. Len(b) : b[m] = a[j]
    BY <1>1
  <2>2. \A j \in 1 .. Len(b) : b[j].key = k => \E m \in 1 .. Len(a) : a[m].key = k
    OBVIOUS
  <2> QED
    BY <2>1, <2>2, SameValue
<1> QED
  BY <1>1 DEF Same

\* prefsSet of a key that has a row: only this row is another.
LEMMA RowReplaced ==
    ASSUME NEW a \in Rows, Unique(a), NEW i \in 1 .. Len(a), NEW v \in Nat,
           NEW b, b = [a EXCEPT ![i].val = v]
    PROVE  /\ b \in Rows /\ Unique(b)
           /\ Same(Keys \ {a[i].key}, a, b)
<1>1. /\ Len(a) \in Nat /\ DOMAIN a = 1 .. Len(a)
      /\ \A j \in 1 .. Len(a) : a[j] \in RowSet
  BY RowsAre
<1>2. /\ b = [a EXCEPT ![i] = [a[i] EXCEPT !.val = v]]
      /\ [a[i] EXCEPT !.val = v] \in RowSet /\ [a[i] EXCEPT !.val = v].key = a[i].key
  BY <1>1 DEF RowSet
<1>3. b \in Rows /\ Len(b) = Len(a)
  BY <1>1, <1>2 DEF Rows
<1>4. \A j \in 1 .. Len(a) : b[j].key = a[j].key /\ (j # i => b[j] = a[j])
  BY <1>1, <1>2
<1>5. Unique(b)
  BY <1>3, <1>4 DEF Unique
<1> QED
  BY <1>3, <1>4, <1>5, RowsAlike

\* prefsSet of a key that has none: its row comes last.
LEMMA RowAdded ==
    ASSUME NEW a \in Rows, Unique(a), NEW r \in RowSet,
           \A i \in 1 .. Len(a) : a[i].key # r.key,
           NEW b, b = Append(a, r)
    PROVE  /\ b \in Rows /\ Unique(b)
           /\ Same(Keys \ {r.key}, a, b)
<1>1. Len(a) \in Nat
  BY RowsAre
<1>2. /\ b \in Rows /\ Len(b) = Len(a) + 1 /\ b[Len(a) + 1] = r
      /\ \A j \in 1 .. Len(a) : b[j] = a[j]
  BY DEF Rows
<1>3. \A j \in 1 .. Len(b) : j \in 1 .. Len(a) \/ j = Len(a) + 1
  BY <1>1, <1>2
<1>4. Unique(b)
  BY <1>2, <1>3 DEF Unique
<1>5. ASSUME NEW k, k # r.key PROVE Value(a, k) = Value(b, k)
  <2>1. \A j \in 1 .. Len(a) : a[j].key = k => \E m \in 1 .. Len(b) : b[m] = a[j]
    BY <1>1, <1>2
  <2>2. \A j \in 1 .. Len(b) : b[j].key = k => \E m \in 1 .. Len(a) : a[m].key = k
    BY <1>2, <1>3, <1>5
  <2> QED
    BY <1>2, <1>4, <2>1, <2>2, SameValue
<1> QED
  BY <1>2, <1>4, <1>5 DEF Same

\* prefsClear: the last row takes the place of the cleared one.
LEMMA RowCleared ==
    ASSUME NEW a \in Rows, Unique(a), NEW i \in 1 .. Len(a),
           NEW b, b = SubSeq([a EXCEPT ![i] = a[Len(a)]], 1, Len(a) - 1)
    PROVE  /\ b \in Rows /\ Unique(b)
           /\ Same(Keys \ {a[i].key}, a, b)
<1> DEFINE moved == [a EXCEPT ![i] = a[Len(a)]]
           n == Len(a)
<1>1. /\ n \in Nat \ {0} /\ DOMAIN a = 1 .. n
      /\ \A j \in 1 .. n : a[j] \in RowSet
  BY RowsAre
<1>2. /\ moved \in [1 .. n -> RowSet]
      /\ \A j \in 1 .. n : moved[j] = IF j = i THEN a[n] ELSE a[j]
  <2>1. a \in [1 .. n -> RowSet] /\ a[n] \in RowSet /\ i \in 1 .. n
    BY <1>1 DEF Rows
  <2> HIDE DEF n
  <2> QED
    BY <2>1 DEF n
<1> HIDE DEF moved, n
<1>3. moved \in Rows /\ Len(moved) = n
  BY <1>1, <1>2 DEF Rows
<1>4. b = SubSeq(moved, 1, n - 1) /\ i \in 1 .. n /\ n = Len(a)
  BY DEF moved, n
<1>5. /\ b \in Rows /\ Len(b) = n - 1
      /\ \A j \in 1 .. n - 1 : b[j] = moved[j]
  BY <1>1, <1>3, <1>4 DEF Rows
<1>6. \A j \in 1 .. n - 1 : j \in 1 .. n /\ b[j] = IF j = i THEN a[n] ELSE a[j]
  BY <1>1, <1>2, <1>5
<1>7. Unique(b)
  <2>1. ASSUME NEW j \in 1 .. n - 1, NEW m \in 1 .. n - 1, j # m PROVE b[j].key # b[m].key
    <3>1. /\ j \in 1 .. n /\ m \in 1 .. n /\ j # n /\ m # n /\ n \in 1 .. n
          /\ b[j] = (IF j = i THEN a[n] ELSE a[j]) /\ b[m] = (IF m = i THEN a[n] ELSE a[m])
      BY <1>1, <1>6
    <3>2. \A x, y \in 1 .. n : x # y => a[x].key # a[y].key
      BY <1>1, <1>4 DEF Unique
    <3> QED
      BY <2>1, <3>1, <3>2, Zenon
  <2> QED
    BY <1>5, <2>1 DEF Unique
<1>8. ASSUME NEW k, k # a[i].key PROVE Value(a, k) = Value(b, k)
  <2>1. ASSUME NEW j \in 1 .. Len(a), a[j].key = k
        PROVE  \E m \in 1 .. Len(b) : b[m] = a[j]
    <3>1. CASE j = n
      <4>1. i \in 1 .. Len(b) /\ b[i] = a[j]
        BY <1>1, <1>4, <1>5, <1>6, <1>8, <2>1, <3>1
      <4> QED
        BY <4>1
    <3>2. CASE j # n
      <4>1. j # i
        BY <1>8, <2>1
      <4>2. n \in Nat /\ j \in 1 .. n
        BY <1>1, <1>4
      <4>3. j \in 1 .. n - 1
        BY <3>2, <4>2
      <4>4. j \in 1 .. Len(b) /\ b[j] = a[j]
        BY <1>5, <1>6, <4>1, <4>3
      <4> QED
        BY <4>4
    <3> QED
      BY <3>1, <3>2
  <2>2. \A j \in 1 .. Len(b) : b[j].key = k => \E m \in 1 .. Len(a) : a[m].key = k
    BY <1>1, <1>4, <1>5, <1>6
  <2> QED
    BY <1>5, <1>7, <2>1, <2>2, SameValue
<1> QED
  BY <1>5, <1>7, <1>8 DEF Same

\* The rows that prefsSet and prefsClear write differ in the row of the key.
LEMMA EditedOneRow ==
    ASSUME PrefsSetting, NEW r, r.rows \in Rows, Unique(r.rows), r.op \in {"set", "clear"},
           r.key \in RowKeys, r.val \in Nat, NEW rows \in Edited(r)
    PROVE  /\ rows \in Rows /\ Unique(rows)
           /\ Same(Keys \ {r.key}, r.rows, rows)
<1> DEFINE i == CHOOSE j \in Find(r.rows, r.key) : TRUE
<1>1. Find(r.rows, r.key) # {} => i \in 1 .. Len(r.rows) /\ r.rows[i].key = r.key
  BY DEF Find
<1>2. CASE r.op = "set" /\ Find(r.rows, r.key) # {}
  <2>1. rows = [r.rows EXCEPT ![i].val = r.val]
    BY <1>2 DEF Edited
  <2> HIDE DEF i
  <2> QED
    BY <1>1, <1>2, <2>1, RowReplaced
<1>3. CASE r.op = "set" /\ Find(r.rows, r.key) = {}
  <2>1. rows = Append(r.rows, Row(r.key, r.val))
    BY <1>3 DEF Edited
  <2>2. \A j \in 1 .. Len(r.rows) : r.rows[j].key # r.key
    BY <1>3 DEF Find
  <2>3. Row(r.key, r.val) \in RowSet /\ Row(r.key, r.val).key = r.key
    BY DEF Row, RowSet
  <2> QED
    BY <2>1, <2>2, <2>3, RowAdded
<1>4. CASE r.op = "clear"
  <2>1. /\ Find(r.rows, r.key) # {}
        /\ rows = SubSeq([r.rows EXCEPT ![i] = r.rows[Len(r.rows)]], 1, Len(r.rows) - 1)
    BY <1>4 DEF Edited
  <2> HIDE DEF i
  <2> QED
    BY <1>1, <2>1, RowCleared
<1> QED
  BY <1>2, <1>3, <1>4

\* Rows at some places keep their values, and keys of no other rows have none.
LEMMA RowsAtPlaces ==
    ASSUME NEW a \in Rows, Unique(a), NEW places \in SUBSET DOMAIN a, NEW b \in RowsAt(a, places)
    PROVE  /\ b \in Rows /\ Unique(b) /\ SomeGone(Keys, a, b)
           /\ \A k \in Keys : (\A i \in DOMAIN a : a[i].key = k => i \in places)
                               => Value(a, k) = Value(b, k)
<1> DEFINE n == Cardinality(places)
<1>1. /\ Len(a) \in Nat /\ DOMAIN a = 1 .. Len(a)
      /\ \A i \in 1 .. Len(a) : a[i] \in RowSet
  BY RowsAre
<1>2. n \in Nat
  <2>1. IsFiniteSet(1 .. Len(a))
    BY <1>1, FS_Interval
  <2>2. places \subseteq 1 .. Len(a)
    BY <1>1
  <2> QED
    BY <2>1, <2>2, FS_Subset, FS_CardinalityType
<1>3. PICK h \in [1 .. n -> places] :
         /\ \A i, j \in 1 .. n : i < j => h[i] < h[j]
         /\ Range(h) = places
         /\ b = [i \in 1 .. n |-> a[h[i]]]
  BY DEF RowsAt
<1>4. \A i \in 1 .. n : h[i] \in 1 .. Len(a)
  BY <1>1, <1>3
<1>5. \A i \in places : \E j \in 1 .. n : h[j] = i
  BY <1>1, <1>3 DEF Range
<1> HIDE DEF n
<1>6. \A i, j \in 1 .. n : h[i] = h[j] => i = j
  BY <1>2, <1>3, <1>4
<1>7. b \in [1 .. n -> RowSet] /\ \A i \in 1 .. n : b[i] = a[h[i]]
  BY <1>1, <1>3, <1>4
<1>8. b \in Rows /\ Len(b) = n
  BY <1>2, <1>7 DEF Rows
<1>9. Unique(b)
  BY <1>4, <1>6, <1>7, <1>8 DEF Unique
<1>10. ASSUME NEW k \in Keys PROVE Value(b, k) \in {Value(a, k), 0}
  <2>1. CASE \E j \in 1 .. Len(b) : b[j].key = k
    <3>1. PICK j \in 1 .. Len(b) : b[j].key = k
      BY <2>1
    <3>2. h[j] \in 1 .. Len(a) /\ a[h[j]] = b[j]
      BY <1>4, <1>7, <1>8
    <3> QED
      BY <1>8, <1>9, <3>1, <3>2, ValueOf
  <2>2. CASE ~\E j \in 1 .. Len(b) : b[j].key = k
    BY <1>8, <1>9, <2>2, ValueOf
  <2> QED
    BY <2>1, <2>2
<1>11. ASSUME NEW k \in Keys, \A i \in DOMAIN a : a[i].key = k => i \in places
       PROVE  Value(a, k) = Value(b, k)
  <2>1. \A i \in 1 .. Len(a) : a[i].key = k => \E j \in 1 .. Len(b) : b[j] = a[i]
    BY <1>1, <1>5, <1>7, <1>8, <1>11
  <2>2. \A j \in 1 .. Len(b) : b[j].key = k => \E i \in 1 .. Len(a) : a[i].key = k
    BY <1>4, <1>7, <1>8
  <2> QED
    BY <1>8, <1>9, <2>1, <2>2, SameValue
<1> QED
  BY <1>8, <1>9, <1>10, <1>11 DEF SomeGone

\* The first rows of a file: some of its rows.
LEMMA FirstRowsOf ==
    ASSUME NEW a \in Rows, Unique(a), NEW n \in 0 .. Len(a)
    PROVE  /\ SubSeq(a, 1, n) \in Rows /\ Unique(SubSeq(a, 1, n))
           /\ SomeGone(Keys, a, SubSeq(a, 1, n))
<1> DEFINE b == SubSeq(a, 1, n)
<1>1. b \in Rows /\ Len(b) = n /\ \A i \in 1 .. n : b[i] = a[i] /\ i \in 1 .. Len(a)
  BY DEF Rows
<1> HIDE DEF b
<1>2. Unique(b)
  BY <1>1 DEF Unique
<1>3. ASSUME NEW k \in Keys PROVE Value(b, k) \in {Value(a, k), 0}
  <2>1. CASE \E j \in 1 .. Len(b) : b[j].key = k
    BY <1>1, <1>2, <2>1, ValueOf
  <2>2. CASE ~\E j \in 1 .. Len(b) : b[j].key = k
    BY <1>1, <1>2, <2>2, ValueOf
  <2> QED
    BY <2>1, <2>2
<1> QED
  BY <1>1, <1>2, <1>3 DEF SomeGone, b

\* A file of at most PrefsMax rows is in the cache as a whole.
LEMMA FirstOfRows ==
    ASSUME PrefsSetting, NEW a \in Rows
    PROVE  /\ FirstOf(a) \in Rows
           /\ Unique(a) => Unique(FirstOf(a))
           /\ Len(a) <= PrefsMax => FirstOf(a) = a
<1>1. Len(a) \in Nat /\ PrefsMax \in Nat
  BY RowsAre DEF PrefsSetting
<1>2. CASE Len(a) > PrefsMax
  <2>1. FirstOf(a) = SubSeq(a, 1, PrefsMax)
    BY <1>2 DEF FirstOf
  <2>2. /\ SubSeq(a, 1, PrefsMax) \in Rows /\ Len(SubSeq(a, 1, PrefsMax)) = PrefsMax
        /\ \A i \in 1 .. PrefsMax : SubSeq(a, 1, PrefsMax)[i] = a[i]
    BY <1>1, <1>2 DEF Rows
  <2>3. \A i \in 1 .. PrefsMax : i \in 1 .. Len(a)
    BY <1>1, <1>2
  <2> QED
    BY <1>1, <1>2, <2>1, <2>2, <2>3 DEF Unique
<1>3. CASE ~(Len(a) > PrefsMax)
  <2>1. FirstOf(a) = SubSeq(a, 1, Len(a))
    BY <1>3 DEF FirstOf
  <2>2. SubSeq(a, 1, Len(a)) = a
    BY <1>1 DEF Rows
  <2> QED
    BY <2>1, <2>2
<1> QED
  BY <1>1, <1>2, <1>3

----------------------------------------------------------------------------
(* The induction.                                                          *)

\* The invariant holds of a file with one row a key, before anyone has read it.
LEMMA PrefInitInv == ASSUME PrefsSetting, PrefInit PROVE PrefInv
<1>1. PICK rows \in FirstRows : file = [ver |-> IF rows = << >> THEN 0 ELSE 1, rows |-> rows]
  BY DEF PrefInit
<1>2. << >> \in Rows
  BY DEF Rows
<1>3. /\ ClientIdle \in ClientSet /\ ClientIdle.at = "idle" /\ ClientIdle.op = "none"
  BY <1>2 DEF ClientIdle, ClientSet
<1>4. PrefTypes
  BY <1>1, <1>2, <1>3 DEF PrefInit, PrefTypes, PrefsSetting, CleanIdle
<1> QED
  BY <1>1, <1>3, <1>4
     DEF CleanIdle, PrefInit, PrefInv, PrefsSetting, Locked, InChange, ReadUnderLock, OneRowEdited,
         OrphansRemoved

\* A step of one program that leaves the file and the lock alone: what it has
\* to show about that program.
LEMMA ClientStep ==
    ASSUME PrefsSetting, PrefInv, NEW p \in Clients, NEW d \in ClientSet,
           c' = [c EXCEPT ![p] = d],
           UNCHANGED <<file, clean>>,
           lock' = lock \/ (lock' = "free" /\ lock = p) \/ (lock' = p /\ lock = "free"),
           d.at \in {"open", "note"} /\ d.op \in {"set", "clear"} => lock' = p /\ d.key \in Keys,
           d.at \in {"change", "write", "dirsync", "noted", "unlock"} => lock' = p /\ d.key \in Keys,
           d.at = "lock" => d.op \in {"set", "clear"} /\ d.key \in Keys,
           d.at \in {"stat", "answer"} => d.op = "get",
           d.at # "idle" => d.op # "none",
           d.at = "change" \/ (d.at = "note" /\ d.op \in {"set", "clear"}) =>
              ReadOf(d),
           d.at = "change" => d.op \in {"set", "clear"},
           d.at = "write" => Changed(d)
    PROVE  PrefInv'
<1>1. /\ c' \in [Clients -> ClientSet] /\ c'[p] = d
      /\ \A q \in Clients \ {p} : c'[q] = c[q]
  BY DEF PrefInv, PrefTypes
<1>2. PrefTypes' /\ Unique(file'.rows)
  BY <1>1 DEF PrefInv, PrefTypes
<1>3. Locked'
  BY <1>1 DEF PrefInv, Locked, InChange, PrefsSetting
<1>4. ReadUnderLock'
  BY <1>1 DEF PrefInv, ReadUnderLock, ReadOf
<1>5. OneRowEdited'
  BY <1>1 DEF PrefInv, OneRowEdited, Changed
<1>6. OrphansRemoved'
  BY DEF PrefInv, OrphansRemoved
<1> QED
  BY <1>2, <1>3, <1>4, <1>5, <1>6 DEF PrefInv

\* What is known of a program.
LEMMA ClientIs ==
    ASSUME PrefInv, NEW p \in Clients
    PROVE  /\ c[p] \in ClientSet /\ c \in [Clients -> ClientSet]
           /\ file.rows \in Rows /\ file.ver \in Nat /\ Unique(file.rows)
           /\ (InChange(p) => lock = p /\ c[p].key \in Keys)
           /\ (c[p].at \in {"stat", "answer"} => c[p].op = "get")
           /\ (c[p].at = "lock" => c[p].op \in {"set", "clear"} /\ c[p].key \in Keys)
           /\ (c[p].at # "idle" => c[p].op # "none")
BY DEF PrefInv, PrefTypes, Locked

\* A lookup begins.
LEMMA LookupInv ==
    ASSUME PrefsSetting, PrefInv, NEW p \in Clients, Lookup(p) PROVE PrefInv'
<1>a. /\ c[p] \in ClientSet /\ c \in [Clients -> ClientSet]
      /\ file.rows \in Rows /\ file.ver \in Nat /\ Unique(file.rows)
  BY ClientIs
<1> DEFINE d == [c[p] EXCEPT !.at = "stat", !.op = "get", !.level = 1]
<1>1. c' = [c EXCEPT ![p] = d] /\ UNCHANGED <<file, clean>>
  BY <1>a DEF Lookup
<1>2. d \in ClientSet
  BY <1>a DEF ClientSet
<1>3. d.at = "stat" /\ d.op = "get" /\ UNCHANGED lock
  BY <1>a, ClientIs DEF ClientSet, InChange, Lookup
<1> HIDE DEF d
<1> QED
  BY <1>1, <1>2, <1>3, ClientStep

\* The cache is good, or it is read again without a lock.
LEMMA StatInv ==
    ASSUME PrefsSetting, PrefInv, NEW p \in Clients, Stat(p) PROVE PrefInv'
<1>a. /\ c[p] \in ClientSet /\ c \in [Clients -> ClientSet]
      /\ file.rows \in Rows /\ file.ver \in Nat /\ Unique(file.rows)
  BY ClientIs
<1> DEFINE d == [c[p] EXCEPT !.at = IF c[p].loaded /\ file.ver = c[p].noted THEN "answer" ELSE "open"]
<1>1. c' = [c EXCEPT ![p] = d] /\ UNCHANGED <<file, clean>>
  BY <1>a DEF Stat, Go
<1>2. d \in ClientSet
  BY <1>a DEF ClientSet
<1>3. d.at \in {"answer", "open"} /\ d.op = "get" /\ UNCHANGED lock
  BY <1>a, ClientIs DEF ClientSet, InChange, Stat, Go
<1> HIDE DEF d
<1> QED
  BY <1>1, <1>2, <1>3, ClientStep

\* prefsReload reads the file, under the lock of a change.
LEMMA OpenInv ==
    ASSUME PrefsSetting, PrefInv, NEW p \in Clients, OpenFile(p) PROVE PrefInv'
<1>a. /\ c[p] \in ClientSet /\ c \in [Clients -> ClientSet]
      /\ file.rows \in Rows /\ file.ver \in Nat /\ Unique(file.rows)
  BY ClientIs
<1>b. PICK n \in 0 .. Len(file.rows) :
         c' = [c EXCEPT ![p].at = "note", ![p].loaded = TRUE,
                        ![p].rows = SubSeq(file.rows, 1, IF n > PrefsMax THEN PrefsMax ELSE n),
                        ![p].over = n > PrefsMax, ![p].short = n < Len(file.rows)]
  BY DEF OpenFile
<1> DEFINE first == SubSeq(file.rows, 1, IF n > PrefsMax THEN PrefsMax ELSE n)
           more == n > PrefsMax
           less == n < Len(file.rows)
           d == [c[p] EXCEPT !.at = "note", !.loaded = TRUE, !.rows = first, !.over = more,
                             !.short = less]
<1>1. c' = [c EXCEPT ![p] = d] /\ UNCHANGED <<file, clean>>
  BY <1>a, <1>b, ZenonT(60) DEF OpenFile
<1>c. /\ first \in Rows /\ Unique(first) /\ SomeGone(Keys, file.rows, first)
      /\ more \in BOOLEAN /\ less \in BOOLEAN
      /\ less = FALSE => first = FirstOf(file.rows) /\ more = (Len(file.rows) > PrefsMax)
  <2>1. Len(file.rows) \in Nat /\ PrefsMax \in Nat
    BY <1>a, RowsAre DEF PrefsSetting
  <2>2. (IF n > PrefsMax THEN PrefsMax ELSE n) \in 0 .. Len(file.rows)
    BY <2>1
  <2>3. first \in Rows /\ Unique(first) /\ SomeGone(Keys, file.rows, first)
    BY <1>a, <2>2, FirstRowsOf
  <2>4. more \in BOOLEAN /\ less \in BOOLEAN
    OBVIOUS
  <2>5. less = FALSE => n = Len(file.rows)
    <3> DEFINE m == Len(file.rows)
    <3>1. m \in Nat /\ n \in 0 .. m
      BY <2>1
    <3> HIDE DEF m
    <3>2. (n < m) = FALSE => n = m
      BY <3>1
    <3> QED
      BY <3>2 DEF m
  <2>6. n = Len(file.rows) => first = FirstOf(file.rows) /\ more = (Len(file.rows) > PrefsMax)
    BY DEF FirstOf
  <2> HIDE DEF first, more, less
  <2> QED
    BY <2>3, <2>4, <2>5, <2>6
<1> HIDE DEF first, more, less
<1>2. d \in ClientSet
  BY <1>a, <1>c DEF ClientSet
<1>3. /\ d.at = "note" /\ d.op = c[p].op /\ d.op # "none" /\ d.key = c[p].key
      /\ d.rows = first /\ d.over = more /\ d.short = less
      /\ (d.op \in {"set", "clear"} => lock = p /\ d.key \in Keys) /\ UNCHANGED lock
  BY <1>a, ClientIs DEF ClientSet, InChange, OpenFile
<1>4. ReadOf(d)
  BY <1>c, <1>3 DEF ReadOf
<1> HIDE DEF d
<1> QED
  BY <1>1, <1>2, <1>3, <1>4, ClientStep

\* The version of what was read is noted.
LEMMA NoteInv ==
    ASSUME PrefsSetting, PrefInv, NEW p \in Clients, Note(p) PROVE PrefInv'
<1>a. /\ c[p] \in ClientSet /\ c \in [Clients -> ClientSet]
      /\ file.rows \in Rows /\ file.ver \in Nat /\ Unique(file.rows)
  BY ClientIs
<1> DEFINE d == [c[p] EXCEPT !.noted = file.ver,
                          !.at = IF c[p].op = "get" THEN "answer" ELSE "change"]
<1>1. c' = [c EXCEPT ![p] = d] /\ UNCHANGED <<file, clean>>
  BY <1>a DEF Note
<1>2. d \in ClientSet
  BY <1>a DEF ClientSet, PrefInv, ReadUnderLock
<1>3. /\ d.at = (IF d.op = "get" THEN "answer" ELSE "change") /\ d.op = c[p].op /\ d.key = c[p].key
      /\ d.op \in {"get", "set", "clear"}
      /\ d.rows = c[p].rows /\ d.over = c[p].over /\ d.short = c[p].short
      /\ (d.op # "get" => ReadOf(c[p]) /\ lock = p /\ d.key \in Keys)
      /\ UNCHANGED lock
  BY <1>a, ClientIs DEF ClientSet, InChange, Note, PrefInv, ReadUnderLock
<1>4. d.op # "get" => ReadOf(d)
  BY <1>3 DEF ReadOf
<1> HIDE DEF d
<1> QED
  BY <1>1, <1>2, <1>3, <1>4, ClientStep

\* The level answers, or the next one is asked.
LEMMA AnswerInv ==
    ASSUME PrefsSetting, PrefInv, NEW p \in Clients, Answer(p) PROVE PrefInv'
<1>a. /\ c[p] \in ClientSet /\ c \in [Clients -> ClientSet]
      /\ file.rows \in Rows /\ file.ver \in Nat /\ Unique(file.rows)
  BY ClientIs
<1> DEFINE d == [c[p] EXCEPT
                 !.at = IF Value(c[p].rows, Chain[c[p].level]) # 0 \/ c[p].level = Len(Chain)
                        THEN "idle" ELSE "stat",
                 !.level = IF Value(c[p].rows, Chain[c[p].level]) # 0 \/ c[p].level = Len(Chain)
                           THEN 1 ELSE @ + 1]
<1>1. c' = [c EXCEPT ![p] = d] /\ UNCHANGED <<file, clean>>
  BY <1>a DEF Answer
<1>2. d \in ClientSet
  <2> DEFINE last == Value(c[p].rows, Chain[c[p].level]) # 0 \/ c[p].level = Len(Chain)
  <2>1. CASE last
    <3>1. d = [c[p] EXCEPT !.at = "idle", !.level = 1]
      BY <2>1
    <3> HIDE DEF d, last
    <3> QED
      BY <1>a, <3>1 DEF ClientSet
  <2>2. CASE ~last
    <3> DEFINE next == c[p].level + 1
    <3>1. d = [c[p] EXCEPT !.at = "stat", !.level = next]
      BY <2>2
    <3>2. next \in Nat
      BY <1>a DEF ClientSet
    <3> HIDE DEF d, last, next
    <3> QED
      BY <1>a, <3>1, <3>2 DEF ClientSet
  <2> QED
    BY <2>1, <2>2
<1>3. d.at \in {"idle", "stat"} /\ d.op = "get" /\ UNCHANGED lock
  BY <1>a, ClientIs DEF ClientSet, InChange, Answer
<1> HIDE DEF d
<1> QED
  BY <1>1, <1>2, <1>3, ClientStep

\* prefsSet or prefsClear begins.
LEMMA ChangeInv ==
    ASSUME PrefsSetting, PrefInv, NEW p \in Clients, Change(p) PROVE PrefInv'
<1>a. /\ c[p] \in ClientSet /\ c \in [Clients -> ClientSet]
      /\ file.rows \in Rows /\ file.ver \in Nat /\ Unique(file.rows)
  BY ClientIs
<1>b. PICK k \in Keys, o \in {"set", "clear"}, v \in Values :
         c' = [c EXCEPT ![p].at = "lock", ![p].op = o, ![p].key = k,
                        ![p].val = IF o = "set" THEN v ELSE 0]
  BY DEF Change
<1> DEFINE d == [c[p] EXCEPT !.at = "lock", !.op = o, !.key = k,
                          !.val = IF o = "set" THEN v ELSE 0]
<1>1. c' = [c EXCEPT ![p] = d] /\ UNCHANGED <<file, clean>>
  BY <1>a, <1>b DEF Change
<1>2. d \in ClientSet
  BY <1>a, <1>b DEF ClientSet, PrefsSetting
<1>3. d.at = "lock" /\ d.op \in {"set", "clear"} /\ d.key \in Keys /\ UNCHANGED lock
  BY <1>a, <1>b DEF ClientSet, InChange, Change
<1> HIDE DEF d
<1> QED
  BY <1>1, <1>2, <1>3, ClientStep

\* The lock is taken, and the file is always read again.
LEMMA LockInv ==
    ASSUME PrefsSetting, PrefInv, NEW p \in Clients, Lock(p) PROVE PrefInv'
<1>a. /\ c[p] \in ClientSet /\ c \in [Clients -> ClientSet]
      /\ file.rows \in Rows /\ file.ver \in Nat /\ Unique(file.rows)
  BY ClientIs
<1> DEFINE d == [c[p] EXCEPT !.at = "open"]
<1>1. c' = [c EXCEPT ![p] = d] /\ UNCHANGED <<file, clean>>
  BY <1>a DEF Lock, Go, Reloads
<1>2. d \in ClientSet
  BY <1>a DEF ClientSet
<1>3. /\ d.at = "open" /\ d.op = c[p].op /\ d.op \in {"set", "clear"}
      /\ d.key = c[p].key /\ d.key \in Keys
      /\ lock' = p /\ lock = "free"
  BY <1>a, ClientIs DEF ClientSet, InChange, Lock
<1> HIDE DEF d
<1> QED
  BY <1>1, <1>2, <1>3, ClientStep

\* There is nothing to save.
LEMMA UnsavedInv ==
    ASSUME PrefsSetting, PrefInv, NEW p \in Clients, Unsaved(p) PROVE PrefInv'
<1>a. /\ c[p] \in ClientSet /\ c \in [Clients -> ClientSet]
      /\ file.rows \in Rows /\ file.ver \in Nat /\ Unique(file.rows)
  BY ClientIs
<1> DEFINE d == [c[p] EXCEPT !.at = "idle"]
<1>1. c' = [c EXCEPT ![p] = d] /\ UNCHANGED <<file, clean>>
  BY <1>a DEF Unsaved, Go
<1>2. d \in ClientSet
  BY <1>a DEF ClientSet
<1>3. d.at = "idle" /\ lock' = "free" /\ lock = p
  BY <1>a, ClientIs DEF ClientSet, InChange, Unsaved
<1> HIDE DEF d
<1> QED
  BY <1>1, <1>2, <1>3, ClientStep

\* The row is edited in the copy that was read under the lock.
LEMMA EditInv ==
    ASSUME PrefsSetting, PrefInv, NEW p \in Clients, Edit(p) PROVE PrefInv'
<1>a. /\ c[p] \in ClientSet /\ c \in [Clients -> ClientSet]
      /\ file.rows \in Rows /\ file.ver \in Nat /\ Unique(file.rows)
  BY ClientIs
<1>b. /\ c[p].op \in {"set", "clear"} /\ c[p].key \in Keys /\ c[p].at = "change"
      /\ ReadOf(c[p])
  BY ClientIs DEF Edit, PrefInv, ReadUnderLock, InChange
<1>c. PICK rows \in Edited(c[p]) :
         c' = [c EXCEPT ![p].rows = rows, ![p].at = IF c[p].over THEN "unlock" ELSE "write",
                        ![p].loaded = ~c[p].over]
  BY DEF Edit
<1> DEFINE d == [c[p] EXCEPT !.rows = rows, !.at = IF c[p].over THEN "unlock" ELSE "write",
                          !.loaded = ~c[p].over]
<1>1. c' = [c EXCEPT ![p] = d] /\ UNCHANGED <<file, clean>>
  BY <1>a, <1>c DEF Edit
<1>d. /\ rows \in Rows /\ Unique(rows)
      /\ Same(Keys \ {c[p].key}, c[p].rows, rows)
  <2>1. c[p].rows \in Rows /\ Unique(c[p].rows) /\ c[p].key \in RowKeys /\ c[p].val \in Nat
    BY <1>a, <1>b DEF ClientSet, PrefsSetting, ReadOf
  <2> QED
    BY <1>b, <2>1, EditedOneRow
<1>e. ~c[p].over /\ c[p].short = FALSE => c[p].rows = file.rows
  <2>1. ASSUME ~c[p].over, c[p].short = FALSE PROVE c[p].rows = file.rows
    <3>1. ~(Len(file.rows) > PrefsMax)
      BY <1>b, <2>1, Zenon DEF ReadOf
    <3>2. ~(Len(file.rows) > PrefsMax) => Len(file.rows) <= PrefsMax
      BY <1>a, RowsAre DEF PrefsSetting
    <3>3. c[p].rows = FirstOf(file.rows)
      BY <1>b, <2>1 DEF ReadOf
    <3> QED
      BY <1>a, <3>1, <3>2, <3>3, FirstOfRows, Zenon
  <2> QED
    BY <2>1, Zenon
<1>2. d \in ClientSet
  <2> DEFINE o == ~c[p].over
             next == IF c[p].over THEN "unlock" ELSE "write"
  <2>1. o \in BOOLEAN
    BY Zenon
  <2>3. o \in BOOLEAN /\ next \in {"unlock", "write"}
    BY <2>1
  <2>4. d = [c[p] EXCEPT !.rows = rows, !.at = next, !.loaded = o]
    OBVIOUS
  <2> HIDE DEF o, next, d
  <2> QED
    BY <1>a, <1>d, <2>3, <2>4 DEF ClientSet
<1>3. /\ d.at = (IF c[p].over THEN "unlock" ELSE "write") /\ d.rows = rows /\ d.short = c[p].short
      /\ d.op = c[p].op /\ d.op # "none" /\ d.key = c[p].key
      /\ lock = p /\ d.key \in Keys /\ UNCHANGED lock
  BY <1>a, ClientIs DEF ClientSet, InChange, Edit
<1>4. d.at = "write" => Changed(d)
  <2>1. ASSUME d.at = "write" PROVE Changed(d)
    <3>1. ~c[p].over
      BY <1>3, <2>1
    <3>2. SomeGone(Keys \ {c[p].key}, file.rows, rows)
      BY <1>b, <1>d DEF ReadOf, SomeGone, Same
    <3>3. c[p].short = FALSE => Same(Keys \ {c[p].key}, file.rows, rows)
      BY <1>d, <1>e, <3>1, Zenon
    <3> QED
      BY <1>b, <1>d, <1>3, <3>2, <3>3 DEF Changed
  <2> QED
    BY <2>1, Zenon
<1> HIDE DEF d
<1> QED
  BY <1>1, <1>2, <1>3, <1>4, ClientStep

\* The copy could not be written.
LEMMA WriteFailsInv ==
    ASSUME PrefsSetting, PrefInv, NEW p \in Clients, WriteFails(p) PROVE PrefInv'
<1>a. /\ c[p] \in ClientSet /\ c \in [Clients -> ClientSet]
      /\ file.rows \in Rows /\ file.ver \in Nat /\ Unique(file.rows)
  BY ClientIs
<1> DEFINE d == [c[p] EXCEPT !.at = "unlock", !.loaded = FALSE]
<1>1. c' = [c EXCEPT ![p] = d] /\ UNCHANGED <<file, clean>>
  BY <1>a DEF WriteFails
<1>2. d \in ClientSet
  BY <1>a DEF ClientSet
<1>3. /\ d.at = "unlock" /\ d.op = c[p].op /\ d.op # "none" /\ d.key = c[p].key
      /\ lock = p /\ d.key \in Keys /\ UNCHANGED lock
  BY <1>a, ClientIs DEF ClientSet, InChange, WriteFails
<1> HIDE DEF d
<1> QED
  BY <1>1, <1>2, <1>3, ClientStep

\* The version of the new file is noted.
LEMMA NoteWrittenInv ==
    ASSUME PrefsSetting, PrefInv, NEW p \in Clients, NoteWritten(p) PROVE PrefInv'
<1>a. /\ c[p] \in ClientSet /\ c \in [Clients -> ClientSet]
      /\ file.rows \in Rows /\ file.ver \in Nat /\ Unique(file.rows)
  BY ClientIs
<1> DEFINE d == [c[p] EXCEPT !.noted = file.ver, !.at = "unlock"]
<1>1. c' = [c EXCEPT ![p] = d] /\ UNCHANGED <<file, clean>>
  BY <1>a DEF NoteWritten
<1>2. d \in ClientSet
  BY <1>a DEF ClientSet
<1>3. /\ d.at = "unlock" /\ d.op = c[p].op /\ d.op # "none" /\ d.key = c[p].key
      /\ lock = p /\ d.key \in Keys /\ UNCHANGED lock
  BY <1>a, ClientIs DEF ClientSet, InChange, NoteWritten
<1> HIDE DEF d
<1> QED
  BY <1>1, <1>2, <1>3, ClientStep

\* The lock is given back.
LEMMA UnlockInv ==
    ASSUME PrefsSetting, PrefInv, NEW p \in Clients, Unlock(p) PROVE PrefInv'
<1>a. /\ c[p] \in ClientSet /\ c \in [Clients -> ClientSet]
      /\ file.rows \in Rows /\ file.ver \in Nat /\ Unique(file.rows)
  BY ClientIs
<1> DEFINE d == [c[p] EXCEPT !.at = "idle"]
<1>1. c' = [c EXCEPT ![p] = d] /\ UNCHANGED <<file, clean>>
  BY <1>a DEF Unlock, Go
<1>2. d \in ClientSet
  BY <1>a DEF ClientSet
<1>3. d.at = "idle" /\ lock' = "free" /\ lock = p
  BY <1>a, ClientIs DEF ClientSet, InChange, Unlock
<1> HIDE DEF d
<1> QED
  BY <1>1, <1>2, <1>3, ClientStep

\* The directory is synced, or it is not.
LEMMA DirSyncInv ==
    ASSUME PrefsSetting, PrefInv, NEW p \in Clients, DirSync(p) PROVE PrefInv'
<1>a. /\ c[p] \in ClientSet /\ c \in [Clients -> ClientSet]
      /\ lock = p /\ c[p].key \in Keys /\ c[p].op # "none"
      /\ UNCHANGED <<file, clean, lock>>
  BY ClientIs DEF DirSync, InChange
<1> DEFINE done == [c[p] EXCEPT !.at = "noted"]
           failed == [c[p] EXCEPT !.at = "unlock", !.loaded = FALSE]
<1>1. c' = [c EXCEPT ![p] = done] \/ c' = [c EXCEPT ![p] = failed]
  BY <1>a DEF DirSync, Go
<1>2. done \in ClientSet /\ failed \in ClientSet
  BY <1>a DEF ClientSet
<1>3. /\ done.at = "noted" /\ done.op = c[p].op /\ done.key = c[p].key
      /\ failed.at = "unlock" /\ failed.op = c[p].op /\ failed.key = c[p].key
  BY <1>a DEF ClientSet
<1> HIDE DEF done, failed
<1>4. CASE c' = [c EXCEPT ![p] = done]
  BY <1>a, <1>2, <1>3, <1>4, ClientStep
<1>5. CASE c' = [c EXCEPT ![p] = failed]
  BY <1>a, <1>2, <1>3, <1>5, ClientStep
<1> QED
  BY <1>1, <1>4, <1>5

\* A program is killed; its lock is free.
LEMMA KillInv ==
    ASSUME PrefsSetting, PrefInv, NEW p \in Clients, KillClient(p) PROVE PrefInv'
<1>1. << >> \in Rows
  BY DEF Rows
<1>2. ClientIdle \in ClientSet /\ ClientIdle.at = "idle" /\ ClientIdle.op = "none"
  BY <1>1 DEF ClientIdle, ClientSet
<1>3. /\ c' = [c EXCEPT ![p] = ClientIdle] /\ UNCHANGED <<file, clean>>
      /\ lock' = lock \/ (lock' = "free" /\ lock = p)
  BY DEF KillClient
<1> QED
  BY <1>2, <1>3, ClientStep

\* The copy replaces the file: nobody else has read under the lock.
LEMMA RenameInv ==
    ASSUME PrefsSetting, PrefInv, NEW p \in Clients, Rename(p) PROVE PrefInv'
<1>a. /\ c[p] \in ClientSet /\ c \in [Clients -> ClientSet] /\ c[p].at = "write"
      /\ file.ver \in Nat /\ lock = p /\ c[p].key \in Keys /\ c[p].op # "none"
      /\ Unique(c[p].rows)
  BY ClientIs DEF Rename, InChange, PrefInv, OneRowEdited, Changed
<1>b. /\ file' = [ver |-> file.ver + 1, rows |-> c[p].rows]
      /\ c' = [c EXCEPT ![p].at = "dirsync"]
      /\ UNCHANGED <<lock, clean>>
  BY DEF Rename, Replaced, Go
<1>c. [c[p] EXCEPT !.at = "dirsync"] \in ClientSet
  BY <1>a DEF ClientSet
<1>d. /\ c' \in [Clients -> ClientSet]
      /\ c'[p].at = "dirsync" /\ c'[p].key = c[p].key /\ c'[p].op = c[p].op
      /\ \A q \in Clients \ {p} : c'[q] = c[q]
  BY <1>a, <1>b, <1>c DEF ClientSet
<1>e. clean.at # "rewrite" /\ \A q \in Clients \ {p} : ~InChange(q)
  BY <1>a DEF PrefInv, Locked, PrefsSetting
<1>1. PrefTypes'
  <2>1. file.ver + 1 \in Nat /\ c[p].rows \in Rows
    BY <1>a DEF ClientSet
  <2> QED
    BY <1>b, <1>d, <2>1 DEF PrefInv, PrefTypes
<1>2. Unique(file'.rows)
  BY <1>a, <1>b
<1>3. Locked'
  BY <1>a, <1>b, <1>d DEF PrefInv, Locked, InChange
<1>4. ReadUnderLock'
  BY <1>d, <1>e DEF ReadUnderLock, InChange
<1>5. OneRowEdited'
  BY <1>d, <1>e DEF OneRowEdited, InChange
<1>6. OrphansRemoved'
  BY <1>b, <1>e DEF OrphansRemoved
<1> QED
  BY <1>1, <1>2, <1>3, <1>4, <1>5, <1>6 DEF PrefInv

\* The cleanup is alone with the file from its lock to its release.
LEMMA CleanAlone ==
    ASSUME PrefsSetting, PrefInv, lock \in {"free", "cleanup"} PROVE \A p \in Clients : ~InChange(p)
BY DEF PrefInv, Locked, PrefsSetting

LEMMA CleanInv ==
    ASSUME PrefsSetting, PrefInv, CleanHold \/ Cleans PROVE PrefInv'
<1>a. /\ c \in [Clients -> ClientSet] /\ UNCHANGED c
      /\ file.rows \in Rows /\ file.ver \in Nat /\ Unique(file.rows)
      /\ clean.rows \in Rows
  BY DEF PrefInv, PrefTypes, CleanHold, Cleans, CleanFilter, CleanRewrite, CleanRelease
<1>b. lock \in {"free", "cleanup"}
  BY DEF PrefInv, Locked, CleanHold, Cleans, CleanFilter, CleanRewrite, CleanRelease
<1>c. \A p \in Clients : ~InChange(p)
  BY <1>b, CleanAlone
<1>d. lock' \in {"free", "cleanup"} /\ (clean'.at # "idle" => lock' = "cleanup")
  BY <1>b DEF PrefInv, PrefTypes, Locked, CleanHold, Cleans, CleanFilter, CleanRewrite, CleanRelease,
             CleanIdle
<1>1. Locked'
  BY <1>a, <1>c, <1>d DEF PrefInv, Locked, InChange
<1>2. ReadUnderLock' /\ OneRowEdited'
  BY <1>a, <1>c DEF ReadUnderLock, OneRowEdited, InChange
<1>3. PrefTypes' /\ Unique(file'.rows) /\ OrphansRemoved'
  <2>1. CASE CleanHold
    BY <1>a, <2>1 DEF PrefInv, PrefTypes, OrphansRemoved, CleanHold
  <2>2. CASE CleanFilter
    <3> DEFINE there == {i \in DOMAIN file.rows : file.rows[i].key \notin Orphans}
               next == IF there = DOMAIN file.rows THEN "release" ELSE "rewrite"
    <3>1. PICK copied \in SUBSET there : \E rows \in RowsAt(file.rows, copied) :
             clean' = [at |-> next, rows |-> rows, cut |-> copied # there]
      BY <2>2 DEF CleanFilter
    <3>2. PICK rows \in RowsAt(file.rows, copied) :
             clean' = [at |-> next, rows |-> rows, cut |-> copied # there]
      BY <3>1
    <3>3. /\ rows \in Rows /\ Unique(rows) /\ SomeGone(Keys, file.rows, rows)
          /\ \A k \in Keys : (\A i \in DOMAIN file.rows : file.rows[i].key = k => i \in copied)
                              => Value(file.rows, k) = Value(rows, k)
      BY <1>a, RowsAtPlaces
    <3>4. copied = there => Same(Keys \ Orphans, file.rows, rows)
      BY <3>3 DEF Same
    <3>5. UNCHANGED file /\ next \in {"release", "rewrite"}
      BY <2>2 DEF CleanFilter
    <3> DEFINE part == copied # there
    <3>6. part \in BOOLEAN /\ (part = FALSE => copied = there)
      OBVIOUS
    <3>7. clean' = [at |-> next, rows |-> rows, cut |-> part]
      BY <3>2
    <3> HIDE DEF there, next, part
    <3> QED
      BY <1>a, <3>3, <3>4, <3>5, <3>6, <3>7 DEF PrefInv, PrefTypes, OrphansRemoved
  <2>3. CASE CleanRewrite
    <3>1. Unique(clean.rows) /\ file.ver + 1 \in Nat
      BY <1>a, <2>3 DEF CleanRewrite, PrefInv, OrphansRemoved
    <3>2. /\ file' = file \/ file' = [ver |-> file.ver + 1, rows |-> clean.rows]
          /\ clean' = [clean EXCEPT !.at = "release"]
      BY <2>3 DEF CleanRewrite, Replaced
    <3>3. file' \in [ver : Nat, rows : Rows] /\ Unique(file'.rows)
      BY <1>a, <3>1, <3>2 DEF PrefInv, PrefTypes
    <3>4. clean' \in [at : {"idle", "filter", "rewrite", "release"}, rows : Rows, cut : BOOLEAN]
          /\ clean'.at = "release"
      BY <3>2 DEF PrefInv, PrefTypes
    <3> QED
      BY <1>a, <3>3, <3>4 DEF PrefTypes, OrphansRemoved
  <2>4. CASE CleanRelease
    <3>1. << >> \in Rows
      BY DEF Rows
    <3> QED
      BY <1>a, <2>4, <3>1 DEF PrefInv, PrefTypes, OrphansRemoved, CleanRelease, CleanIdle
  <2> QED
    BY <2>1, <2>2, <2>3, <2>4 DEF Cleans
<1> QED
  BY <1>1, <1>2, <1>3 DEF PrefInv

LEMMA PrefNextInv ==
    ASSUME PrefsSetting, PrefInv, [PrefNext]_prefVars PROVE PrefInv'
<1>1. CASE UNCHANGED prefVars
  BY <1>1 DEF PrefInv, PrefTypes, Locked, InChange, ReadUnderLock, ReadOf, OneRowEdited, Changed,
              OrphansRemoved, prefVars
<1> HIDE DEF PrefInv, PrefsSetting
<1>2. ASSUME NEW p \in Clients, Lookup(p) \/ Change(p) \/ Proceeds(p) \/ KillClient(p) PROVE PrefInv'
  BY <1>2, LookupInv, StatInv, OpenInv, NoteInv, AnswerInv, ChangeInv, LockInv, UnsavedInv,
     EditInv, WriteFailsInv, RenameInv, DirSyncInv, NoteWrittenInv, UnlockInv, KillInv
     DEF Proceeds
<1>3. CASE CleanHold \/ Cleans
  BY <1>3, CleanInv
<1> QED
  BY <1>1, <1>2, <1>3 DEF PrefNext

LEMMA ChangedTo ==
    ASSUME NEW r, Changed(r), NEW rows, r.rows = rows
    PROVE  \E k \in Keys :
              /\ SomeGone(Keys \ {k}, file.rows, rows)
              /\ r.short = FALSE => Same(Keys \ {k}, file.rows, rows)
BY Zenon DEF Changed

\* Only the rename of a program and that of the cleanup replace the file.
LEMMA PrefNextKeeps ==
    ASSUME PrefsSetting, PrefInv, [PrefNext]_prefVars PROVE OneRowChanges
<1>1. CASE file' = file
  BY <1>1 DEF OneRowChanges
<1>2. ASSUME NEW p \in Clients, Rename(p) PROVE OneRowChanges
  <2>1. lock = p /\ c[p] \in ClientSet /\ file'.rows = c[p].rows /\ Changed(c[p])
    BY <1>2, ClientIs DEF Rename, Replaced, InChange, PrefInv, OneRowEdited
  <2>2. c[p].short = TRUE \/ c[p].short = FALSE
    BY <2>1 DEF ClientSet
  <2> DEFINE q == c[p]
             new == file'.rows
  <2>3. Changed(q) /\ q.rows = new /\ lock = p
    BY <2>1
  <2> HIDE DEF q, new
  <2>4. PICK k \in Keys :
           /\ SomeGone(Keys \ {k}, file.rows, new)
           /\ q.short = FALSE => Same(Keys \ {k}, file.rows, new)
    BY <2>3, ChangedTo
  <2>5. CASE q.short = FALSE
    <3>1. Same(Keys \ {k}, file.rows, new)
      BY <2>4, <2>5
    <3> QED
      BY <3>1 DEF OneRowChanges, new
  <2>6. CASE q.short = TRUE
    <3>1. \E r \in Clients : lock = r /\ c[r].short
      BY <1>2, <2>3, <2>6 DEF q
    <3>2. SomeGone(Keys \ {k}, file.rows, file'.rows)
      BY <2>4 DEF new
    <3> QED
      BY <3>1, <3>2 DEF OneRowChanges
  <2> QED
    BY <2>2, <2>5, <2>6 DEF q
<1>3. ASSUME CleanRewrite, file' # file PROVE OneRowChanges
  <2>1. /\ clean.at = "rewrite" /\ file'.rows = clean.rows
        /\ clean.cut = TRUE \/ clean.cut = FALSE
    BY <1>3 DEF CleanRewrite, Replaced, PrefInv, PrefTypes
  <2> QED
    BY <2>1 DEF OneRowChanges, PrefInv, OrphansRemoved
<1>4. file' = file \/ CleanRewrite \/ \E p \in Clients : Rename(p)
  BY DEF PrefNext, prefVars, Lookup, Change, Proceeds, KillClient, Stat, OpenFile, Note, Answer, Lock,
         Unsaved, Edit, WriteFails, DirSync, NoteWritten, Unlock, CleanHold, Cleans,
         CleanFilter, CleanRelease
<1> QED
  BY <1>1, <1>2, <1>3, <1>4

\* No row that another program has set, and none that did not fit into the
\* cache, is lost to an older copy: every replacement of the file, under the
\* lock of zlyme_prefs.c and zlyme-game-cleanup.sh, changes one row or removes
\* rows of games that are gone, or else the writer could not read or copy the
\* file to its end, and then no row gets another value.
THEOREM KeepsRowsThm == ASSUME PrefsSetting PROVE PrefSpec => KeepsRows
<1>1. PrefInit => PrefInv
  BY PrefInitInv
<1>2. PrefInv /\ [PrefNext]_prefVars => PrefInv'
  BY PrefNextInv
<1>3. PrefInv /\ [PrefNext]_prefVars => [OneRowChanges]_prefVars
  BY PrefNextKeeps
<1> QED
  BY <1>1, <1>2, <1>3, PTL DEF PrefSpec, KeepsRows

----------------------------------------------------------------------------
(* zlyme-usb-enter: the hypothesis and the inductive invariant.            *)

Path == Seq(STRING)
Thing ==
    {x \in [kind : {"dir", "file", "prog", "wait"}, path : Path, restricted : BOOLEAN, depth : {0, 1}] :
        x.kind = "prog" => x.path \in DOMAIN Exec}
Program == [kind : {"static", "dynamic", "script"}, interp : Path, libs : Seq(Path)]

\* Paths are sequences of names, and what interprets a script is a program.
JailSetting ==
    /\ ExportLists \subseteq Seq(Path) /\ Conf \in Path /\ Ffs \in Path /\ Mqueue \in Path
    /\ Exec \in [DOMAIN Exec -> Program] /\ DOMAIN Exec \subseteq Path /\ Progs \subseteq DOMAIN Exec
    /\ \A p \in DOMAIN Exec : Exec[p].kind = "script" => Exec[p].interp \in DOMAIN Exec

Places == {"load", "unshare", "private", "tmpfs", "bind", "walk", "detach", "absent", "exec",
           "runs", "dead"}
Process == [at : Places, exports : Seq(Path), prog : DOMAIN Exec, shared : BOOLEAN,
            todo : Seq(Thing), dir : Path, rest : Path, binds : SUBSET Path,
            root : {"caller", "jail"}, old : BOOLEAN]

There(f) == \E m \in mounts : m.at = f
Shown(p) == \E m \in mounts : m.at = p /\ ~Forbidden(m.dir)
Todo(x) == x \in Range(u.todo)
Here(f) == Todo(File(f)) \/ There(f)

\* What there is of a program whose turn has come.
Expanded(p) == \A f \in Needs(p) : Here(f)

\* Everything the responder needs is bound or still to be bound, in the one
\* order the list has: a program stands for its files until its turn has come.
Complete ==
    /\ \A i \in DOMAIN u.exports : Todo(Dir(u.exports[i], TRUE)) \/ Shown(u.exports[i])
    /\ Here(Conf)
    /\ \/ Todo(Prog(u.prog, 0))
       \/ /\ Expanded(u.prog)
          /\ Exec[u.prog].kind = "script" =>
               Todo(Prog(Exec[u.prog].interp, 1)) \/ Expanded(Exec[u.prog].interp)

\* The walk has opened the part of the item's path that it has left behind.
Walking ==
    /\ u.todo # << >> /\ Item.kind = "dir"
    /\ u.dir \o u.rest = Item.path
    /\ Item.restricted => ~Forbidden(Item.path)

JailInv ==
    /\ u \in Process /\ caller = {}
    /\ u.at \notin {"load", "unshare", "private", "dead"} => u.shared = FALSE
    /\ u.at \in {"detach", "absent", "exec", "runs"} => u.root = "jail" /\ u.todo = << >>
    /\ u.at \in {"exec", "runs"} => u.old = FALSE
    /\ \A m \in mounts : m.at # << >> => m.dir = m.at
    /\ u.at # "dead" => \A f \in u.binds : There(f)
    /\ u.at = "walk" => Walking
    /\ u.at \in {"bind", "walk", "detach", "absent", "exec", "runs"} => Complete

LEMMA InCat ==
    ASSUME NEW S, NEW s \in Seq(S), NEW t \in Seq(S), NEW x, x \in Range(s) \/ x \in Range(t)
    PROVE  x \in Range(s \o t)
<1>1. /\ DOMAIN (s \o t) = 1 .. Len(s) + Len(t) /\ Len(s) \in Nat /\ Len(t) \in Nat
      /\ DOMAIN s = 1 .. Len(s) /\ DOMAIN t = 1 .. Len(t)
      /\ \A i \in 1 .. Len(s) + Len(t) :
            (s \o t)[i] = IF i <= Len(s) THEN s[i] ELSE t[i - Len(s)]
  BY ConcatProperties, LenProperties
<1> DEFINE cat == s \o t
<1> HIDE DEF cat
<1>2. CASE x \in Range(s)
  <2>1. PICK i \in 1 .. Len(s) : s[i] = x
    BY <1>1, <1>2 DEF Range
  <2>2. i \in 1 .. Len(s) + Len(t) /\ i <= Len(s)
    BY <1>1
  <2>3. cat[i] = x /\ i \in DOMAIN cat
    BY <1>1, <2>1, <2>2 DEF cat
  <2> QED
    BY <2>3 DEF Range, cat
<1>3. CASE x \in Range(t)
  <2>1. PICK i \in 1 .. Len(t) : t[i] = x
    BY <1>1, <1>3 DEF Range
  <2>2. i + Len(s) \in 1 .. Len(s) + Len(t) /\ ~(i + Len(s) <= Len(s)) /\ i + Len(s) - Len(s) = i
    BY <1>1
  <2>3. cat[i + Len(s)] = x /\ i + Len(s) \in DOMAIN cat
    BY <1>1, <2>1, <2>2 DEF cat
  <2> QED
    BY <2>3 DEF Range, cat
<1> QED
  BY <1>2, <1>3

LEMMA InTail ==
    ASSUME NEW S, NEW s \in Seq(S), s # << >>, NEW x, x \in Range(s)
    PROVE  x = Head(s) \/ x \in Range(Tail(s))
<1>1. PICK i \in 1 .. Len(s) : s[i] = x
  BY LenProperties DEF Range
<1>2. CASE i = 1
  BY <1>1, <1>2
<1>3. CASE i # 1
  <2>1. Len(s) \in Nat /\ Tail(s) \in Seq(S) /\ Len(Tail(s)) = Len(s) - 1
    BY HeadTailProperties, LenProperties
  <2>2. i - 1 \in 1 .. Len(Tail(s)) /\ i - 1 + 1 = i
    BY <1>3, <2>1
  <2>3. Tail(s)[i - 1] = s[i - 1 + 1]
    BY <2>2, HeadTailProperties, Zenon
  <2>4. i - 1 \in DOMAIN Tail(s)
    BY <2>1, <2>2, LenProperties, Zenon
  <2>5. Tail(s)[i - 1] = x
    BY <1>1, <2>2, <2>3
  <2> QED
    BY <2>4, <2>5, Zenon DEF Range
<1> QED
  BY <1>2, <1>3

LEMMA ThenIs ==
    ASSUME u \in Process, u.todo # << >>, NEW more \in Seq(Thing)
    PROVE  /\ Item \in Thing /\ more \o Tail(u.todo) \in Seq(Thing)
           /\ \A x : Todo(x) => x = Item \/ x \in Range(more \o Tail(u.todo))
           /\ \A x \in Range(more) : x \in Range(more \o Tail(u.todo))
<1> DEFINE s == u.todo
<1>1. s \in Seq(Thing) /\ s # << >>
  BY DEF Process
<1>2. Head(s) \in Thing /\ Tail(s) \in Seq(Thing)
  BY <1>1, HeadTailProperties
<1>3. more \o Tail(s) \in Seq(Thing)
  BY <1>2, ConcatProperties
<1>4. ASSUME NEW x, x \in Range(s) PROVE x = Head(s) \/ x \in Range(more \o Tail(s))
  <2>1. x = Head(s) \/ x \in Range(Tail(s))
    BY <1>1, <1>4, InTail, Zenon
  <2> QED
    BY <1>2, <2>1, InCat, Zenon
<1>5. ASSUME NEW x \in Range(more) PROVE x \in Range(more \o Tail(s))
  BY <1>2, <1>5, InCat, Zenon
<1> QED
  BY <1>2, <1>3, <1>4, <1>5, Zenon DEF Item, Todo

\* What is left of an item whose turn is over.
Done(x) ==
    /\ x.kind = "dir" /\ x.restricted => Shown(x.path)
    /\ x.kind = "file" => There(x.path)
    /\ x.kind = "prog" =>
         /\ Expanded(x.path)
         /\ Exec[x.path].kind = "script" => x.depth = 0 /\ Todo(Prog(Exec[x.path].interp, 1))

LEMMA CompleteKeeps ==
    ASSUME Complete, mounts \subseteq mounts', u'.exports = u.exports, u'.prog = u.prog,
           \A x : Todo(x) => Todo(x)' \/ Done(x)'
    PROVE  Complete'
<1>1. \A f : (There(f) => There(f)') /\ (Shown(f) => Shown(f)')
  BY DEF There, Shown
<1>2. \A f : Here(f) => Here(f)'
  <2> SUFFICES ASSUME NEW f, Here(f) PROVE Here(f)'
    OBVIOUS
  <2>1. CASE There(f)
    BY <1>1, <2>1 DEF Here
  <2>2. CASE Todo(File(f))
    <3>1. File(f).kind = "file" /\ File(f).path = f
      BY DEF File
    <3>2. Todo(File(f))' \/ There(f)'
      BY <2>2, <3>1 DEF Done
    <3> QED
      BY <3>2 DEF Here
  <2> QED
    BY <2>1, <2>2 DEF Here
<1>3. \A p : Expanded(p) => Expanded(p)'
  BY <1>2 DEF Expanded
<1>4. ASSUME NEW i \in DOMAIN u.exports
      PROVE  Todo(Dir(u.exports[i], TRUE))' \/ Shown(u.exports[i])'
  <2>1. CASE Shown(u.exports[i])
    BY <1>1, <2>1
  <2>2. CASE Todo(Dir(u.exports[i], TRUE))
    <3> DEFINE x == Dir(u.exports[i], TRUE)
    <3>1. x.kind = "dir" /\ x.restricted = TRUE /\ x.path = u.exports[i]
      BY DEF Dir
    <3>2. x \in Range(u'.todo) \/ \E m \in mounts' : m.at = x.path /\ ~Forbidden(m.dir)
      <4> HIDE DEF x
      <4>1. Todo(x)
        BY <2>2 DEF x
      <4> QED
        BY <3>1, <4>1 DEF Done, Todo, Shown
    <3> QED
      BY <3>1, <3>2 DEF Todo, Shown
  <2> QED
    BY <1>4, <2>1, <2>2 DEF Complete
<1>5. Here(Conf)'
  BY <1>2 DEF Complete
<1>6. ASSUME NEW p, NEW d, Todo(Prog(p, d))
      PROVE  \/ Todo(Prog(p, d))'
             \/ /\ Expanded(p)'
                /\ Exec[p].kind = "script" => d = 0 /\ Todo(Prog(Exec[p].interp, 1))'
  <2>1. Prog(p, d).kind = "prog" /\ Prog(p, d).path = p /\ Prog(p, d).depth = d
    BY DEF Prog
  <2>2. Todo(Prog(p, d))' \/ Done(Prog(p, d))'
    BY <1>6
  <2> QED
    BY <2>1, <2>2 DEF Done
<1>p. PICK p : p = u.prog /\ p = u'.prog
  OBVIOUS
<1>q. PICK q : q = Exec[p].interp
  OBVIOUS
<1>7. \/ Todo(Prog(p, 0))'
      \/ Expanded(p)' /\ (Exec[p].kind = "script" => Todo(Prog(q, 1))' \/ Expanded(q)')
  <2>1. \/ Todo(Prog(p, 0))
        \/ Expanded(p) /\ (Exec[p].kind = "script" => Todo(Prog(q, 1)) \/ Expanded(q))
    BY <1>p, <1>q DEF Complete
  <2>2. CASE Todo(Prog(p, 0))
    BY <1>6, <1>q, <2>2
  <2>3. CASE Expanded(p) /\ (Exec[p].kind = "script" => Todo(Prog(q, 1)) \/ Expanded(q))
    <3>1. Expanded(q) => Expanded(q)'
      BY <1>3
    <3>2. Todo(Prog(q, 1)) => Todo(Prog(q, 1))' \/ Expanded(q)'
      BY <1>6
    <3> QED
      BY <1>3, <2>3, <3>1, <3>2
  <2> QED
    BY <2>1, <2>2, <2>3
<1> QED
  BY <1>4, <1>5, <1>7, <1>p, <1>q DEF Complete

LEMMA DieKeeps ==
    ASSUME JailInv, die
    PROVE  JailInv'
<1>1. u' \in Process /\ u'.at = "dead" /\ caller' = {} /\ mounts' = {}
  BY DEF JailInv, die, Process, Places
<1> QED
  BY <1>1 DEF JailInv

\* The step from one bound item to the next: the list goes on with more in the
\* item's place, and the item is done.
LEMMA NextItem ==
    ASSUME JailInv, u.at \in {"bind", "walk"}, u.todo # << >>, NEW more \in Seq(Thing),
           u' \in Process, u'.at = "bind", u'.todo = more \o Tail(u.todo),
           u'.exports = u.exports, u'.prog = u.prog, u'.shared = u.shared,
           caller' = {}, mounts \subseteq mounts', \A m \in mounts' : m.at # << >> => m.dir = m.at,
           \A f \in u'.binds : There(f)', NEW it, it = Item, Done(it)'
    PROVE  JailInv'
<1>1. \A x : Todo(x) => Todo(x)' \/ Done(x)'
  <2>1. \A x : Todo(x) => x = it \/ x \in Range(u'.todo)
    BY ThenIs DEF JailInv
  <2> SUFFICES ASSUME NEW x, Todo(x) PROVE Todo(x)' \/ Done(x)'
    OBVIOUS
  <2>2. CASE x = it
    BY <2>2
  <2>3. CASE x \in Range(u'.todo)
    BY <2>3 DEF Todo
  <2> QED
    BY <2>1, <2>2, <2>3
<1>2. Complete'
  BY <1>1, CompleteKeeps DEF JailInv
<1>3. u'.shared = FALSE
  BY DEF JailInv
<1> QED
  BY <1>2, <1>3 DEF JailInv

\* A step that changes nothing but the place of the process.
LEMMA SameList ==
    ASSUME JailInv, u' \in Process, u'.todo = u.todo, u'.exports = u.exports, u'.prog = u.prog,
           u.at \in {"bind", "walk", "detach", "absent", "exec", "runs"}, mounts' = mounts
    PROVE  Complete'
<1>1. \A x : Todo(x) => Todo(x)' \/ Done(x)'
  BY DEF Todo
<1> QED
  BY <1>1, CompleteKeeps DEF JailInv

LEMMA BeginKeeps ==
    ASSUME JailInv, LoadExports \/ Unshare \/ MakePrivate
    PROVE  JailInv'
<1>1. CASE die
  BY <1>1, DieKeeps
<1>2. CASE ~die
  <2>1. /\ u' \in Process /\ u'.at \in {"unshare", "private", "tmpfs"}
        /\ u'.at = "tmpfs" => u'.shared = FALSE
        /\ u'.binds = u.binds /\ mounts' = mounts /\ caller' = {} /\ u.at # "dead"
    BY <1>2 DEF JailInv, LoadExports, Unshare, MakePrivate, Goes, ProcessOnly, Process, Places
  <2> QED
    BY <2>1 DEF JailInv, There
<1> QED
  BY <1>1, <1>2

LEMMA StartWalkKeeps ==
    ASSUME JailInv, StartWalk
    PROVE  JailInv'
<1>1. CASE die
  BY <1>1, DieKeeps
<1>2. CASE ~die
  <2>1. u \in Process /\ u.at = "bind" /\ u.todo # << >> /\ Item.kind = "dir" /\ u.shared = FALSE
    BY DEF JailInv, StartWalk, Binding
  <2>2. Item \in Thing /\ Item.path \in Path
    <3>1. << >> \in Seq(Thing)
      OBVIOUS
    <3>2. Item \in Thing
      BY <2>1, <3>1, ThenIs
    <3> QED
      BY <3>2 DEF Thing
  <2>3. /\ u' = [u EXCEPT !.at = "walk", !.dir = << >>, !.rest = Item.path]
        /\ Item.restricted => ~Forbidden(Item.path)
        /\ mounts' = mounts /\ caller' = caller
    BY <1>2 DEF StartWalk, ProcessOnly
  <2>4. << >> \in Path /\ << >> \o Item.path = Item.path
    BY <2>2, ConcatEmptySeq DEF Path
  <2>5. /\ u' \in Process /\ u'.at = "walk" /\ u'.todo = u.todo /\ u'.exports = u.exports
        /\ u'.prog = u.prog /\ u'.shared = FALSE /\ u'.binds = u.binds
        /\ u'.dir = << >> /\ u'.rest = Item.path
    BY <2>1, <2>2, <2>3, <2>4 DEF Process, Places
  <2>6. Item' = Item
    BY <2>5 DEF Item
  <2>7. Walking'
    BY <2>1, <2>3, <2>4, <2>5, <2>6 DEF Walking
  <2>8. Complete'
    BY <2>1, <2>3, <2>5, SameList
  <2> QED
    BY <2>1, <2>3, <2>5, <2>7, <2>8 DEF JailInv, There
<1> QED
  BY <1>1, <1>2

LEMMA WalkKeeps ==
    ASSUME JailInv, Walk
    PROVE  JailInv'
<1>1. CASE die
  BY <1>1, DieKeeps
<1>2. CASE ~die
  <2>1. u \in Process /\ u.at = "walk" /\ u.rest # << >> /\ u.shared = FALSE /\ Walking
    BY DEF JailInv, Walk
  <2>2. /\ u' = [u EXCEPT !.dir = Append(u.dir, Head(u.rest)), !.rest = Tail(u.rest)]
        /\ mounts' = mounts /\ caller' = caller
    BY <1>2 DEF Walk, ProcessOnly
  <2>3. u.dir \in Seq(STRING) /\ u.rest \in Seq(STRING)
    BY <2>1 DEF Process, Path
  <2>4. Head(u.rest) \in STRING /\ Tail(u.rest) \in Seq(STRING)
    BY <2>1, <2>3, HeadTailProperties
  <2>5. /\ Append(u.dir, Head(u.rest)) \in Seq(STRING)
        /\ Append(u.dir, Head(u.rest)) \o Tail(u.rest) = u.dir \o u.rest
    <3> DEFINE d == u.dir
               r == u.rest
    <3> HIDE DEF d, r
    <3>1. d \in Seq(STRING) /\ r \in Seq(STRING) /\ r # << >>
      BY <2>1, <2>3 DEF d, r
    <3>2. Append(d, Head(r)) \in Seq(STRING) /\ Append(d, Head(r)) \o Tail(r) = d \o r
      BY <3>1
    <3> QED
      BY <3>2 DEF d, r
  <2>6. /\ u' \in Process /\ u'.at = "walk" /\ u'.todo = u.todo /\ u'.exports = u.exports
        /\ u'.prog = u.prog /\ u'.shared = FALSE /\ u'.binds = u.binds
        /\ u'.dir = Append(u.dir, Head(u.rest)) /\ u'.rest = Tail(u.rest)
    BY <2>1, <2>2, <2>4, <2>5 DEF Process, Path
  <2>7. Item' = Item
    BY <2>6 DEF Item
  <2>8. Walking'
    BY <2>1, <2>5, <2>6, <2>7 DEF Walking
  <2>9. Complete'
    BY <2>1, <2>2, <2>6, SameList
  <2> QED
    BY <2>1, <2>2, <2>6, <2>8, <2>9 DEF JailInv, There
<1> QED
  BY <1>1, <1>2

LEMMA NoMore ==
    ASSUME u \in Process, u.todo # << >>
    PROVE  Item \in Thing /\ << >> \in Seq(Thing) /\ << >> \o Tail(u.todo) \in Seq(Thing)
<1>1. << >> \in Seq(Thing)
  OBVIOUS
<1> QED
  BY <1>1, ThenIs, Zenon

LEMMA AttachKeeps ==
    ASSUME JailInv, Attach
    PROVE  JailInv'
<1>1. CASE die
  BY <1>1, DieKeeps
<1>2. CASE ~die
  <2>1. u \in Process /\ u.at = "walk" /\ u.rest = << >> /\ u.shared = FALSE /\ Walking /\ caller = {}
    BY DEF JailInv, Attach
  <2>2. u.todo # << >> /\ Item.kind = "dir" /\ (Item.restricted => ~Forbidden(Item.path))
    BY <2>1 DEF Walking
  <2>3. u.dir = Item.path
    <3>1. u.dir \in Seq(STRING)
      BY <2>1 DEF Process, Path
    <3>2. u.dir \o << >> = u.dir
      BY <3>1, ConcatEmptySeq
    <3> QED
      BY <2>1, <3>2 DEF Walking
  <2>4. << >> \in Seq(Thing) /\ << >> \o Tail(u.todo) \in Seq(Thing)
    BY <2>1, <2>2, NoMore
  <2>5. /\ mounts' = mounts \cup {[at |-> Item.path, dir |-> u.dir]} /\ caller' = caller
        /\ u' = [[u EXCEPT !.todo = << >> \o Tail(u.todo)] EXCEPT !.at = "bind"]
    BY <1>2, <2>1 DEF Attach, Mounted, Then
  <2>6. /\ u' \in Process /\ u'.at = "bind" /\ u'.todo = << >> \o Tail(u.todo)
        /\ u'.exports = u.exports /\ u'.prog = u.prog /\ u'.shared = u.shared
        /\ u'.binds = u.binds
    BY <2>1, <2>4, <2>5 DEF Process, Places
  <2>7. PICK it : it = Item
    OBVIOUS
  <2>8. Done(it)'
    <3>1. it.restricted => \E m \in mounts' : m.at = it.path /\ ~Forbidden(m.dir)
      <4>1. PICK r : r = [at |-> Item.path, dir |-> u.dir]
        OBVIOUS
      <4>2. r \in mounts' /\ r.at = it.path /\ r.dir = it.path
        BY <2>3, <2>5, <2>7, <4>1
      <4> QED
        BY <2>2, <2>7, <4>2
    <3> QED
      BY <2>2, <2>7, <3>1 DEF Done, Shown
  <2>9. \A m \in mounts' : m.at # << >> => m.dir = m.at
    BY <2>3, <2>5 DEF JailInv
  <2>10. \A f \in u'.binds : There(f)'
    BY <2>1, <2>5, <2>6 DEF JailInv, There
  <2> QED
    BY <2>1, <2>2, <2>4, <2>5, <2>6, <2>7, <2>8, <2>9, <2>10, NextItem
<1> QED
  BY <1>1, <1>2

LEMMA BindFileKeeps ==
    ASSUME JailInv, BindFile
    PROVE  JailInv'
<1>1. CASE die
  BY <1>1, DieKeeps
<1>2. CASE ~die
  <2>1. /\ u \in Process /\ u.at = "bind" /\ u.todo # << >> /\ Item.kind = "file"
        /\ u.shared = FALSE /\ caller = {}
    BY DEF JailInv, BindFile, Binding
  <2>2. /\ Item \in Thing /\ << >> \in Seq(Thing) /\ << >> \o Tail(u.todo) \in Seq(Thing)
    BY <2>1, NoMore
  <2>3. Item.path \in Path
    BY <2>2 DEF Thing
  <2>4. PICK it : it = Item
    OBVIOUS
  <2>5. CASE Item.path \in u.binds /\ u' = Then(<< >>) /\ ProcessOnly
    <3>1. /\ u' \in Process /\ u'.at = "bind" /\ u'.todo = << >> \o Tail(u.todo)
          /\ u'.exports = u.exports /\ u'.prog = u.prog /\ u'.shared = u.shared
          /\ u'.binds = u.binds
      BY <2>1, <2>2, <2>5 DEF Process, Then
    <3>2. mounts' = mounts /\ caller' = caller
      BY <2>5 DEF ProcessOnly
    <3>3. \A f \in u'.binds : There(f)'
      BY <2>1, <3>1, <3>2 DEF JailInv, There
    <3>4. There(it.path)'
      BY <2>4, <2>5, <3>1, <3>3
    <3>5. Done(it)'
      BY <2>1, <2>4, <3>4 DEF Done
    <3>6. \A m \in mounts' : m.at # << >> => m.dir = m.at
      BY <3>2 DEF JailInv
    <3> QED
      BY <2>1, <2>2, <2>4, <3>1, <3>2, <3>3, <3>5, <3>6, NextItem
  <2>6. CASE /\ Mounted(Item.path, Item.path)
             /\ u' = [Then(<< >>) EXCEPT !.binds = @ \cup {Item.path}]
    <3>1. /\ u' \in Process /\ u'.at = "bind" /\ u'.todo = << >> \o Tail(u.todo)
          /\ u'.exports = u.exports /\ u'.prog = u.prog /\ u'.shared = u.shared
          /\ u'.binds = u.binds \cup {Item.path}
      BY <2>1, <2>2, <2>3, <2>6 DEF Process, Then
    <3>2. mounts' = mounts \cup {[at |-> Item.path, dir |-> Item.path]} /\ caller' = caller
      BY <2>1, <2>6 DEF Mounted
    <3>4. There(it.path)'
      <4>1. PICK r : r = [at |-> Item.path, dir |-> Item.path]
        OBVIOUS
      <4>2. r \in mounts' /\ r.at = it.path
        BY <2>4, <3>2, <4>1
      <4> QED
        BY <4>2 DEF There
    <3>3. \A f \in u'.binds : There(f)'
      <4> SUFFICES ASSUME NEW f \in u'.binds PROVE There(f)'
        OBVIOUS
      <4>1. CASE f = it.path
        BY <3>4, <4>1
      <4>2. CASE f \in u.binds
        BY <2>1, <3>2, <4>2 DEF JailInv, There
      <4> QED
        BY <2>4, <3>1, <4>1, <4>2
    <3>5. Done(it)'
      BY <2>1, <2>4, <3>4 DEF Done
    <3>6. \A m \in mounts' : m.at # << >> => m.dir = m.at
      BY <3>2 DEF JailInv
    <3> QED
      BY <2>1, <2>2, <2>4, <3>1, <3>2, <3>3, <3>5, <3>6, NextItem
  <2> QED
    BY <1>2, <2>5, <2>6 DEF BindFile
<1> QED
  BY <1>1, <1>2

LEMMA LoaderWaitedKeeps ==
    ASSUME JailInv, LoaderWaited
    PROVE  JailInv'
<1>1. CASE die
  BY <1>1, DieKeeps
<1>2. CASE ~die
  <2>1. /\ u \in Process /\ u.at = "bind" /\ u.todo # << >> /\ Item.kind = "wait"
        /\ u.shared = FALSE /\ caller = {}
    BY DEF JailInv, LoaderWaited, Binding
  <2>2. << >> \in Seq(Thing) /\ << >> \o Tail(u.todo) \in Seq(Thing)
    BY <2>1, NoMore
  <2>3. u' = Then(<< >>) /\ mounts' = mounts /\ caller' = caller
    BY <1>2 DEF LoaderWaited, ProcessOnly
  <2>4. /\ u' \in Process /\ u'.at = "bind" /\ u'.todo = << >> \o Tail(u.todo)
        /\ u'.exports = u.exports /\ u'.prog = u.prog /\ u'.shared = u.shared
        /\ u'.binds = u.binds
    BY <2>1, <2>2, <2>3 DEF Process, Then
  <2>5. PICK it : it = Item
    OBVIOUS
  <2>6. Done(it)'
    BY <2>1, <2>5 DEF Done
  <2>7. \A f \in u'.binds : There(f)'
    BY <2>1, <2>3, <2>4 DEF JailInv, There
  <2>8. \A m \in mounts' : m.at # << >> => m.dir = m.at
    BY <2>3 DEF JailInv
  <2> QED
    BY <2>1, <2>2, <2>3, <2>4, <2>5, <2>6, <2>7, <2>8, NextItem
<1> QED
  BY <1>1, <1>2

LEMMA RootKeeps ==
    ASSUME JailInv, PivotRoot \/ DetachOld \/ RequireAbsent \/ Execute
    PROVE  JailInv'
<1>1. CASE die
  BY <1>1, DieKeeps
<1>2. CASE ~die
  <2>1. /\ u' \in Process /\ u'.at \in {"detach", "absent", "exec", "runs"}
        /\ u'.root = "jail" /\ u'.todo = u.todo /\ u.todo = << >>
        /\ u'.exports = u.exports /\ u'.prog = u.prog /\ u'.shared = FALSE
        /\ u'.at \in {"exec", "runs"} => u'.old = FALSE
        /\ u'.binds = u.binds /\ mounts' = mounts /\ caller' = {}
        /\ u.at \in {"bind", "detach", "absent", "exec"}
    <3>1. CASE PivotRoot
      BY <1>2, <3>1 DEF JailInv, PivotRoot, ProcessOnly, Process, Places
    <3>2. CASE DetachOld
      BY <1>2, <3>2 DEF JailInv, DetachOld, ProcessOnly, Process, Places
    <3>3. CASE RequireAbsent
      BY <1>2, <3>3 DEF JailInv, RequireAbsent, Goes, ProcessOnly, Process, Places
    <3>4. CASE Execute
      BY <1>2, <3>4 DEF JailInv, Execute, Goes, ProcessOnly, Process, Places
    <3> QED
      BY <3>1, <3>2, <3>3, <3>4
  <2>2. Complete'
    BY <2>1, SameList
  <2> QED
    BY <2>1, <2>2 DEF JailInv, There
<1> QED
  BY <1>1, <1>2

LEMMA Things ==
    ASSUME JailSetting
    PROVE  /\ \A p \in Path, r \in BOOLEAN : Dir(p, r) \in Thing
           /\ \A p \in Path : File(p) \in Thing
           /\ \A p \in DOMAIN Exec, d \in {0, 1} : Prog(p, d) \in Thing
           /\ Waited \in Thing
<1>1. << >> \in Path
  BY DEF Path
<1> QED
  BY <1>1 DEF Thing, Dir, File, Prog, Waited, JailSetting

\* A list of one or of two things.
LEMMA Few ==
    ASSUME NEW S, NEW a \in S, NEW b \in S
    PROVE  /\ <<a>> \in Seq(S) /\ a \in Range(<<a>>)
           /\ <<a, b>> \in Seq(S) /\ a \in Range(<<a, b>>) /\ b \in Range(<<a, b>>)
<1>1. <<a>> \in Seq(S) /\ <<a, b>> \in Seq(S)
  OBVIOUS
<1>2. 1 \in DOMAIN <<a>> /\ <<a>>[1] = a
  OBVIOUS
<1>3. {1, 2} \subseteq DOMAIN <<a, b>> /\ <<a, b>>[1] = a /\ <<a, b>>[2] = b
  OBVIOUS
<1>4. a \in Range(<<a>>)
  BY <1>2 DEF Range
<1>5. a \in Range(<<a, b>>) /\ b \in Range(<<a, b>>)
  BY <1>3 DEF Range
<1> QED
  BY <1>1, <1>4, <1>5

LEMMA Cat ==
    ASSUME NEW S, NEW s \in Seq(S), NEW t \in Seq(S)
    PROVE  s \o t \in Seq(S) /\ Range(s) \subseteq Range(s \o t) /\ Range(t) \subseteq Range(s \o t)
<1>1. s \o t \in Seq(S)
  BY ConcatProperties
<1>2. \A x : x \in Range(s) \/ x \in Range(t) => x \in Range(s \o t)
  BY InCat, Zenon
<1> QED
  BY <1>1, <1>2

LEMMA TmpfsKeeps ==
    ASSUME JailSetting, JailInv, Tmpfs
    PROVE  JailInv'
<1>1. CASE die
  BY <1>1, DieKeeps
<1>2. CASE ~die
  <2>1. /\ u \in Process /\ u.at = "tmpfs" /\ u.shared = FALSE /\ caller = {}
    BY DEF JailInv, Tmpfs
  <2> DEFINE E == [i \in DOMAIN u.exports |-> Dir(u.exports[i], TRUE)]
             C == <<File(Conf), Dir(Ffs, FALSE)>>
             P == <<Prog(u.prog, 0)>>
  <2>2. PICK mq \in {<<Dir(Mqueue, FALSE)>>, << >>} :
           u' = [u EXCEPT !.at = "bind", !.todo = ((E \o C) \o mq) \o P]
    BY <1>2 DEF Tmpfs
  <2>3. mounts' = mounts \cup {[at |-> << >>, dir |-> <<"tmpfs">>]} /\ caller' = {}
    BY <1>2, <2>1 DEF Tmpfs, Mounted
  <2>4. u.exports \in Seq(Path) /\ u.prog \in DOMAIN Exec
    BY <2>1 DEF Process
  <2>5. E \in Seq(Thing) /\ \A i \in DOMAIN u.exports : Dir(u.exports[i], TRUE) \in Range(E)
    <3>1. DOMAIN u.exports = 1 .. Len(u.exports) /\ Len(u.exports) \in Nat
      BY <2>4, LenProperties
    <3>2. \A i \in DOMAIN u.exports : u.exports[i] \in Path
      BY <2>4, ElementOfSeq, <3>1
    <3>3. \A i \in DOMAIN u.exports : Dir(u.exports[i], TRUE) \in Thing
      BY <3>2, Things
    <3>4. E \in [1 .. Len(u.exports) -> Thing]
      BY <3>1, <3>3
    <3>5. E \in Seq(Thing)
      <4> HIDE DEF E
      <4> QED
        BY <3>1, <3>4
    <3> QED
      BY <3>5 DEF Range
  <2>6. C \in Seq(Thing) /\ File(Conf) \in Range(C)
    BY Things, Few DEF JailSetting
  <2>7. mq \in Seq(Thing)
    <3>1. << >> \in Seq(Thing)
      OBVIOUS
    <3>2. <<Dir(Mqueue, FALSE)>> \in Seq(Thing)
      BY Things, Few DEF JailSetting
    <3> QED
      BY <3>1, <3>2
  <2>8. P \in Seq(Thing) /\ Prog(u.prog, 0) \in Range(P)
    BY <2>4, Things, Few
  <2> HIDE DEF E, C, P
  <2>9. E \o C \in Seq(Thing) /\ Range(E) \subseteq Range(E \o C) /\ Range(C) \subseteq Range(E \o C)
    BY <2>5, <2>6, Cat
  <2>10. /\ (E \o C) \o mq \in Seq(Thing)
         /\ Range(E \o C) \subseteq Range((E \o C) \o mq)
    BY <2>7, <2>9, Cat
  <2>11. PICK list : list = ((E \o C) \o mq) \o P
    OBVIOUS
  <2>12. /\ list \in Seq(Thing) /\ Range((E \o C) \o mq) \subseteq Range(list)
         /\ Range(P) \subseteq Range(list)
    BY <2>8, <2>10, <2>11, Cat
  <2>13. /\ \A i \in DOMAIN u.exports : Dir(u.exports[i], TRUE) \in Range(list)
         /\ File(Conf) \in Range(list) /\ Prog(u.prog, 0) \in Range(list)
    BY <2>5, <2>6, <2>8, <2>9, <2>10, <2>12
  <2>14. /\ u' \in Process /\ u'.at = "bind" /\ u'.todo = list /\ u'.exports = u.exports
         /\ u'.prog = u.prog /\ u'.shared = FALSE /\ u'.binds = u.binds
    BY <2>1, <2>2, <2>11, <2>12 DEF Process, Places
  <2>15. Complete'
    BY <2>13, <2>14 DEF Complete, Todo, Here
  <2>16. \A m \in mounts' : m.at # << >> => m.dir = m.at
    BY <2>3 DEF JailInv
  <2>17. \A f \in u'.binds : There(f)'
    BY <2>1, <2>3, <2>14 DEF JailInv, There
  <2> QED
    BY <2>3, <2>14, <2>15, <2>16, <2>17 DEF JailInv
<1> QED
  BY <1>1, <1>2

LEMMA BindProgramKeeps ==
    ASSUME JailSetting, JailInv, BindProgram
    PROVE  JailInv'
<1>1. CASE die
  BY <1>1, DieKeeps
<1>2. CASE ~die
  <2>1. /\ u \in Process /\ u.at = "bind" /\ u.todo # << >> /\ Item.kind = "prog"
        /\ u.shared = FALSE /\ caller = {}
    BY DEF JailInv, BindProgram, Binding
  <2>2. Item \in Thing
    BY <2>1, NoMore
  <2>3. PICK it : it = Item
    OBVIOUS
  <2>4. PICK p : p = it.path
    OBVIOUS
  <2>5. p \in DOMAIN Exec /\ p \in Path /\ Exec[p] \in Program
    BY <2>1, <2>2, <2>3, <2>4 DEF Thing, JailSetting
  <2>6. File(p) \in Thing /\ Exec[p].interp \in Path /\ File(Exec[p].interp) \in Thing
    BY <2>5, Things DEF Program
  <2>7. ASSUME NEW more \in Seq(Thing), u' = Then(more), ProcessOnly,
               \A f \in Needs(p) : File(f) \in Range(more),
               Exec[p].kind = "script" => it.depth = 0 /\ Prog(Exec[p].interp, 1) \in Range(more)
        PROVE  JailInv'
    <3>1. more \o Tail(u.todo) \in Seq(Thing) /\ \A x \in Range(more) : x \in Range(more \o Tail(u.todo))
      BY <2>1, ThenIs
    <3>2. /\ u' \in Process /\ u'.at = "bind" /\ u'.todo = more \o Tail(u.todo)
          /\ u'.exports = u.exports /\ u'.prog = u.prog /\ u'.shared = u.shared
          /\ u'.binds = u.binds
      BY <2>1, <2>7, <3>1 DEF Process, Then
    <3>3. mounts' = mounts /\ caller' = caller
      BY <2>7 DEF ProcessOnly
    <3>4. \A x \in Range(more) : Todo(x)'
      BY <3>1, <3>2 DEF Todo
    <3>5. Expanded(p)'
      BY <2>7, <3>4 DEF Expanded, Here
    <3>6. Done(it)'
      BY <2>1, <2>3, <2>4, <2>7, <3>4, <3>5 DEF Done
    <3>7. \A f \in u'.binds : There(f)'
      BY <2>1, <3>2, <3>3 DEF JailInv, There
    <3>8. \A m \in mounts' : m.at # << >> => m.dir = m.at
      BY <3>3 DEF JailInv
    <3> QED
      BY <2>1, <2>3, <3>2, <3>3, <3>6, <3>7, <3>8, NextItem
  <2>8. CASE Exec[p].kind = "static" /\ u' = Then(<<File(p)>>) /\ ProcessOnly
    <3>1. PICK more : more = <<File(p)>>
      OBVIOUS
    <3>2. more \in Seq(Thing) /\ File(p) \in Range(more)
      BY <2>6, <3>1, Few
    <3>3. Needs(p) = {p}
      BY <2>8 DEF Needs
    <3> QED
      BY <2>7, <2>8, <3>1, <3>2, <3>3
  <2>9. CASE /\ Exec[p].kind = "dynamic" /\ ProcessOnly
             /\ u' = Then(<<File(p), Interpreter(p)>> \o Listed(p) \o <<Waited>>)
    <3> DEFINE F == <<File(p), Interpreter(p)>>
               L == Listed(p)
               W == <<Waited>>
               libs == Exec[p].libs
    <3>1. F \in Seq(Thing) /\ File(p) \in Range(F) /\ File(Exec[p].interp) \in Range(F)
      BY <2>6, Few DEF Interpreter
    <3>2. libs \in Seq(Path)
      BY <2>5 DEF Program
    <3>3. DOMAIN libs = 1 .. Len(libs) /\ Len(libs) \in Nat /\ \A i \in DOMAIN libs : libs[i] \in Path
      BY <3>2, LenProperties, ElementOfSeq
    <3>4. L = [i \in 1 .. Len(libs) |-> File(libs[i])]
      BY <3>3 DEF Listed
    <3>5. L \in Seq(Thing)
      <4>1. L \in [1 .. Len(libs) -> Thing]
        BY <3>3, <3>4, Things
      <4> QED
        BY <3>3, <4>1, IsASeq
    <3>6. \A f \in Range(libs) : File(f) \in Range(L)
      BY <3>3, <3>4 DEF Range
    <3>7. W \in Seq(Thing)
      BY Things, Few
    <3> HIDE DEF F, L, W
    <3>8. F \o L \in Seq(Thing) /\ Range(F) \subseteq Range(F \o L) /\ Range(L) \subseteq Range(F \o L)
      BY <3>1, <3>5, Cat
    <3>9. PICK more : more = (F \o L) \o W
      OBVIOUS
    <3>10. more \in Seq(Thing) /\ Range(F \o L) \subseteq Range(more)
      BY <3>7, <3>8, <3>9, Cat
    <3>11. Needs(p) = {p} \cup {Exec[p].interp} \cup Range(libs)
      BY <2>9 DEF Needs
    <3>12. \A f \in Needs(p) : File(f) \in Range(more)
      BY <3>1, <3>6, <3>8, <3>10, <3>11
    <3>13. u' = Then(more)
      BY <2>9, <3>9 DEF F, L, W
    <3> QED
      BY <2>7, <2>9, <3>10, <3>12, <3>13
  <2>10. CASE /\ Exec[p].kind = "script" /\ it.depth = 0 /\ ProcessOnly
              /\ u' = Then(<<File(p), Prog(Exec[p].interp, 1)>>)
    <3>1. PICK q : q = Prog(Exec[p].interp, 1)
      OBVIOUS
    <3>2. q \in Thing
      BY <2>5, <2>10, <3>1, Things DEF JailSetting
    <3>3. PICK more : more = <<File(p), q>>
      OBVIOUS
    <3>4. more \in Seq(Thing) /\ File(p) \in Range(more) /\ q \in Range(more)
      <4>1. PICK g : g = File(p)
        OBVIOUS
      <4>2. <<g, q>> \in Seq(Thing) /\ g \in Range(<<g, q>>) /\ q \in Range(<<g, q>>)
        BY <2>6, <3>2, <4>1, Few
      <4> QED
        BY <3>3, <4>1, <4>2
    <3>5. Needs(p) = {p}
      BY <2>10 DEF Needs
    <3> QED
      BY <2>7, <2>10, <3>1, <3>3, <3>4, <3>5
  <2> QED
    BY <1>2, <2>3, <2>4, <2>8, <2>9, <2>10 DEF BindProgram
<1> QED
  BY <1>1, <1>2

LEMMA SwapKeeps ==
    ASSUME JailInv, UNCHANGED <<u, mounts, caller>>
    PROVE  JailInv'
BY DEF JailInv, Walking, Complete, Expanded, Here, There, Shown, Todo, Item

LEMMA JailInvThm ==
    ASSUME JailSetting
    PROVE  JailSpec => []JailInv
<1>1. JailInit => JailInv
  <2> SUFFICES ASSUME JailInit PROVE JailInv
    OBVIOUS
  <2>1. PICK x \in ExportLists, p \in Progs, s \in BOOLEAN :
          u = [at |-> "load", exports |-> x, prog |-> p, shared |-> s, todo |-> << >>,
               dir |-> << >>, rest |-> << >>, binds |-> {}, root |-> "caller", old |-> FALSE]
    BY DEF JailInit
  <2>2. << >> \in Seq(Thing) /\ << >> \in Path /\ x \in Seq(Path) /\ p \in DOMAIN Exec
    BY DEF JailSetting, Path
  <2>3. u \in Process
    BY <2>1, <2>2 DEF Process, Places
  <2> QED
    BY <2>1, <2>3 DEF JailInv, JailInit
<1>2. JailInv /\ [JailNext]_jailVars => JailInv'
  <2> SUFFICES ASSUME JailInv, [JailNext]_jailVars PROVE JailInv'
    OBVIOUS
  <2>1. CASE UNCHANGED jailVars
    BY <2>1, SwapKeeps DEF jailVars
  <2>2. CASE \E i \in DOMAIN u.exports : \E n \in DOMAIN u.exports[i] : Swap(SubSeq(u.exports[i], 1, n))
    BY <2>2, SwapKeeps DEF Swap
  <2>3. CASE LoadExports \/ Unshare \/ MakePrivate
    BY <2>3, BeginKeeps
  <2>4. CASE Tmpfs
    BY <2>4, TmpfsKeeps
  <2>5. CASE StartWalk
    BY <2>5, StartWalkKeeps
  <2>6. CASE Walk
    BY <2>6, WalkKeeps
  <2>7. CASE Attach
    BY <2>7, AttachKeeps
  <2>8. CASE BindFile
    BY <2>8, BindFileKeeps
  <2>9. CASE BindProgram
    BY <2>9, BindProgramKeeps
  <2>10. CASE LoaderWaited
    BY <2>10, LoaderWaitedKeeps
  <2>11. CASE PivotRoot \/ DetachOld \/ RequireAbsent \/ Execute
    BY <2>11, RootKeeps
  <2> QED
    BY <2>1, <2>2, <2>3, <2>4, <2>5, <2>6, <2>7, <2>8, <2>9, <2>10, <2>11 DEF JailNext
<1> QED
  BY <1>1, <1>2, PTL DEF JailSpec

\* zlyme-usb-enter: the responder only ever runs confined and complete, for any
\* exports file, any program and any directories that are replaced by links
\* meanwhile, any number of times.
THEOREM ConfinedThm ==
    ASSUME JailSetting
    PROVE  JailSpec => []Confined
<1>1. JailInv => Confined
  <2> SUFFICES ASSUME JailInv PROVE Confined
    OBVIOUS
  <2>1. CASE u.at # "runs"
    BY <2>1 DEF JailInv, Confined
  <2>2. CASE u.at = "runs"
    <3>1. /\ u.todo = << >> /\ u.root = "jail" /\ u.old = FALSE /\ Complete /\ caller = {}
          /\ \A m \in mounts : m.at # << >> => m.dir = m.at
      BY <2>2 DEF JailInv
    <3>2. \A x : ~Todo(x)
      BY <3>1 DEF Todo, Range
    <3>3. \A i \in DOMAIN u.exports : Shown(u.exports[i])
      BY <3>1, <3>2 DEF Complete
    <3>4. \A f : Here(f) => There(f)
      BY <3>2 DEF Here
    <3>5. There(Conf) /\ \A f \in Needed : There(f)
      BY <3>1, <3>2, <3>4 DEF Complete, Needed, Expanded
    <3>6. Needed \cup {Conf} \subseteq {m.at : m \in mounts}
      BY <3>5 DEF There
    <3> QED
      BY <2>2, <3>1, <3>3, <3>6 DEF Confined, Shown
  <2> QED
    BY <2>1, <2>2
<1> QED
  BY <1>1, JailInvThm, PTL

----------------------------------------------------------------------------
(* zlyme-pak-hotkey: the hypothesis and the inductive invariant.           *)

HotSetting == MaxPlugs \in Nat

Event == [key : Both, down : BOOLEAN]

\* The keys the watcher will know to be down after the first j events of a file.
Held(held, q, j) ==
    {k \in Both :
       \/ k \in held /\ \A m \in 1 .. j : q[m].key = k => q[m].down
       \/ \E i \in 1 .. j : q[i].key = k /\ \A m \in i .. j : q[m].key = k => q[m].down}

WatchedPad == [id : 1 .. plugs, node : Nodes, down : SUBSET Both]
Told == [id : 1 .. plugs, in : BOOLEAN, hup : BOOLEAN]
Watcher == [at : {"scan", "watch", "poll", "drain", "pads", "ended"}, todo : SUBSET Nodes,
            ready : Seq(Told), fire : BOOLEAN, first : BOOLEAN, told : BOOLEAN]
HotTypes ==
    /\ plugs \in 0 .. MaxPlugs
    /\ dev \in [Nodes -> 0 .. plugs]
    /\ virtual \subseteq 1 .. plugs /\ chorded \subseteq Numbers
    /\ down \in [Numbers -> SUBSET Both]
    /\ queue \in [Numbers -> Seq(Event)]
    /\ pads \in Seq(WatchedPad)
    /\ w \in Watcher

\* A controller has one node, and nothing can be read from one that is gone or
\* whose file is not open.
OneNode == \A m, n \in Nodes : dev[m] = dev[n] /\ dev[m] # 0 => m = n
Readable == \A d \in Numbers : d \notin Plugged \/ ~Watched(d) => queue[d] = << >>

\* Each controller is watched once, under its node while it is plugged in.
WatchedOnce ==
    /\ \A i \in DOMAIN pads : pads[i].id \in virtual
    /\ \A i, j \in DOMAIN pads : pads[i].id = pads[j].id => i = j
    /\ \A i \in DOMAIN pads, n \in Nodes : dev[n] = pads[i].id => n = pads[i].node

\* What the watcher knows to be down, and will know after any of the events it
\* has not read, was down at that time.
KnownWasDown ==
    \A i \in DOMAIN pads :
       LET d == pads[i].id
       IN  /\ \A j \in 0 .. Len(queue[d]) : Held(pads[i].down, queue[d], j) = Both => d \in chorded
           /\ d \in Plugged => Held(pads[i].down, queue[d], Len(queue[d])) \subseteq down[d]

\* The files poll has told of are open, each once, and a hangup is for good.
ReadyOnce ==
    /\ \A k \in DOMAIN w.ready : Watched(w.ready[k].id) /\ (w.ready[k].hup => w.ready[k].id \notin Plugged)
    /\ \A k, l \in DOMAIN w.ready : w.ready[k].id = w.ready[l].id => k = l

HotInv ==
    /\ HotTypes /\ OneNode /\ Readable /\ WatchedOnce /\ KnownWasDown /\ ReadyOnce
    /\ w.fire \/ w.told => chorded \cap virtual # {}

LEMMA HeldIn == \A h, q, j : Held(h, q, j) \subseteq Both
BY DEF Held

LEMMA HeldNone ==
    ASSUME NEW h \in SUBSET Both, NEW q
    PROVE  Held(h, q, 0) = h
<1>1. 1 .. 0 = {}
  OBVIOUS
<1> QED
  BY <1>1 DEF Held

\* One event more, and one event later.
LEMMA HeldAppend ==
    ASSUME NEW h \in SUBSET Both, NEW q \in Seq(Event), NEW e \in Event
    PROVE  LET a == Append(q, e)
           IN  /\ a \in Seq(Event) /\ Len(a) = Len(q) + 1 /\ Len(q) \in Nat
               /\ \A j \in 0 .. Len(q) : Held(h, a, j) = Held(h, q, j)
               /\ Held(h, a, Len(q) + 1) = Apply(Held(h, q, Len(q)), e)
<1>1. PICK a : a = Append(q, e)
  OBVIOUS
<1>2. PICK n \in Nat : n = Len(q)
  BY LenProperties
<1>3. /\ a \in Seq(Event) /\ Len(a) = n + 1
      /\ \A i \in 1 .. n : a[i] = q[i]
      /\ a[n + 1] = e
  BY <1>1, <1>2, AppendProperties
<1>4. ASSUME NEW j \in 0 .. n PROVE Held(h, a, j) = Held(h, q, j)
  <2>1. \A i \in 1 .. j : a[i] = q[i]
    BY <1>3
  <2>2. \A i \in 1 .. j : \A m \in i .. j : a[m] = q[m]
    BY <1>3
  <2>3. ASSUME NEW k \in Both PROVE k \in Held(h, a, j) <=> k \in Held(h, q, j)
    <3> DEFINE Now(s, i) == \A m \in i .. j : s[m].key = k => s[m].down
    <3>1. \A s : k \in Held(h, s, j) <=> \/ k \in h /\ Now(s, 1)
                                         \/ \E i \in 1 .. j : s[i].key = k /\ Now(s, i)
      BY DEF Held
    <3>2. Now(a, 1) <=> Now(q, 1)
      BY <2>1
    <3>3. \A i \in 1 .. j : Now(a, i) <=> Now(q, i)
      BY <2>2
    <3> HIDE DEF Now
    <3> QED
      BY <2>1, <3>1, <3>2, <3>3
  <2>4. Held(h, a, j) \subseteq Both /\ Held(h, q, j) \subseteq Both
    BY HeldIn, Zenon
  <2> QED
    BY <2>3, <2>4
<1>5. Held(h, a, n + 1) = Apply(Held(h, q, n), e)
  <2>a. Apply(Held(h, q, n), e) \subseteq Both
    BY HeldIn DEF Apply, Event
  <2> SUFFICES ASSUME NEW k \in Both
               PROVE  k \in Held(h, a, n + 1) <=> k \in Apply(Held(h, q, n), e)
    BY <2>a, HeldIn, Zenon
  <2> DEFINE Now(s, i, j) == \A m \in i .. j : s[m].key = k => s[m].down
  <2>0. \A s, j : k \in Held(h, s, j) <=> \/ k \in h /\ Now(s, 1, j)
                                          \/ \E i \in 1 .. j : s[i].key = k /\ Now(s, i, j)
    BY DEF Held
  <2>1. \A i \in 1 .. n : Now(a, i, n + 1) <=> Now(q, i, n) /\ (e.key = k => e.down)
    <3> SUFFICES ASSUME NEW i \in 1 .. n
                 PROVE  Now(a, i, n + 1) <=> Now(q, i, n) /\ (e.key = k => e.down)
      OBVIOUS
    <3>1. i .. n + 1 = (i .. n) \cup {n + 1} /\ i .. n \subseteq 1 .. n
      OBVIOUS
    <3> QED
      BY <1>3, <3>1
  <2>2. Now(a, 1, n + 1) <=> Now(q, 1, n) /\ (e.key = k => e.down)
    <3>1. 1 .. n + 1 = (1 .. n) \cup {n + 1}
      OBVIOUS
    <3> QED
      BY <1>3, <3>1
  <2>3. Now(a, n + 1, n + 1) <=> (e.key = k => e.down)
    <3>1. (n + 1) .. (n + 1) = {n + 1}
      OBVIOUS
    <3> QED
      BY <1>3, <3>1
  <2>4. 1 .. n + 1 = (1 .. n) \cup {n + 1}
    OBVIOUS
  <2> HIDE DEF Now
  <2>5. (\E i \in 1 .. n + 1 : a[i].key = k /\ Now(a, i, n + 1))
        <=> \/ \E i \in 1 .. n : q[i].key = k /\ Now(q, i, n) /\ (e.key = k => e.down)
            \/ e.key = k /\ e.down
    <3>1. (\E i \in 1 .. n + 1 : a[i].key = k /\ Now(a, i, n + 1))
          <=> \/ \E i \in 1 .. n : a[i].key = k /\ Now(a, i, n + 1)
              \/ a[n + 1].key = k /\ Now(a, n + 1, n + 1)
      BY <2>4
    <3> QED
      BY <1>3, <2>1, <2>3, <3>1
  <2>6. k \in Held(h, a, n + 1) <=> \/ k \in Held(h, q, n) /\ (e.key = k => e.down)
                                    \/ e.key = k /\ e.down
    BY <2>0, <2>2, <2>5
  <2>7. k \in Apply(Held(h, q, n), e) <=> \/ k \in Held(h, q, n) /\ (e.key = k => e.down)
                                          \/ e.key = k /\ e.down
    <3>1. e.down \in BOOLEAN
      BY DEF Event
    <3> QED
      BY <3>1 DEF Apply
  <2> QED
    BY <2>6, <2>7
<1> QED
  BY <1>1, <1>2, <1>3, <1>4, <1>5

LEMMA HeldTail ==
    ASSUME NEW h \in SUBSET Both, NEW q \in Seq(Event), q # << >>
    PROVE  LET t == Tail(q)
               g == Apply(h, Head(q))
           IN  /\ t \in Seq(Event) /\ Len(t) + 1 = Len(q) /\ Len(t) \in Nat
               /\ Head(q) \in Event /\ g \in SUBSET Both
               /\ \A j \in 0 .. Len(t) : Held(g, t, j) = Held(h, q, j + 1)
<1>1. PICK t : t = Tail(q)
  OBVIOUS
<1>2. PICK e : e = Head(q)
  OBVIOUS
<1>g. PICK g : g = Apply(h, e)
  OBVIOUS
<1>3. t \in Seq(Event) /\ e \in Event /\ e = q[1]
  BY <1>1, <1>2, HeadTailProperties
<1>4. PICK n \in Nat : n = Len(t)
  BY <1>3, LenProperties
<1>5. Len(q) = n + 1 /\ \A i \in 1 .. n : t[i] = q[i + 1]
  <2>1. Len(t) = Len(q) - 1 /\ \A i \in 1 .. Len(t) : t[i] = q[i + 1]
    BY <1>1, HeadTailProperties
  <2>2. Len(q) \in Nat
    BY LenProperties
  <2> QED
    BY <1>4, <2>1, <2>2
<1>6. g \in SUBSET Both
  BY <1>3, <1>g DEF Apply, Event
<1>7. ASSUME NEW j \in 0 .. n PROVE Held(g, t, j) = Held(h, q, j + 1)
  <2> SUFFICES ASSUME NEW k \in Both PROVE k \in Held(g, t, j) <=> k \in Held(h, q, j + 1)
    BY DEF Held
  <2> DEFINE Now(s, i, l) == \A m \in i .. l : s[m].key = k => s[m].down
  <2>0. \A x, s, l : k \in Held(x, s, l) <=> \/ k \in x /\ Now(s, 1, l)
                                             \/ \E i \in 1 .. l : s[i].key = k /\ Now(s, i, l)
    BY DEF Held
  <2>1. \A i \in 1 .. j : Now(t, i, j) <=> Now(q, i + 1, j + 1)
    <3> SUFFICES ASSUME NEW i \in 1 .. j PROVE Now(t, i, j) <=> Now(q, i + 1, j + 1)
      OBVIOUS
    <3>1. \A m \in i .. j : m + 1 \in i + 1 .. j + 1 /\ t[m] = q[m + 1]
      BY <1>5
    <3>2. \A m \in i + 1 .. j + 1 : m - 1 \in i .. j /\ t[m - 1] = q[m]
      <4>1. \A m \in i + 1 .. j + 1 : m - 1 \in i .. j /\ (m - 1) + 1 = m /\ m - 1 \in 1 .. n
        OBVIOUS
      <4> QED
        BY <1>5, <4>1
    <3> QED
      BY <3>1, <3>2
  <2>2. Now(t, 1, j) <=> Now(q, 2, j + 1)
    <3>1. \A m \in 1 .. j : m + 1 \in 2 .. j + 1 /\ t[m] = q[m + 1]
      BY <1>5
    <3>2. \A m \in 2 .. j + 1 : m - 1 \in 1 .. j /\ t[m - 1] = q[m]
      <4>1. \A m \in 2 .. j + 1 : m - 1 \in 1 .. j /\ (m - 1) + 1 = m /\ m - 1 \in 1 .. n
        OBVIOUS
      <4> QED
        BY <1>5, <4>1
    <3> QED
      BY <3>1, <3>2
  <2>3. Now(q, 1, j + 1) <=> (e.key = k => e.down) /\ Now(q, 2, j + 1)
    <3>1. 1 .. j + 1 = {1} \cup (2 .. j + 1)
      OBVIOUS
    <3> QED
      BY <1>3, <3>1
  <2> HIDE DEF Now
  <2>4. (\E i \in 1 .. j + 1 : q[i].key = k /\ Now(q, i, j + 1))
        <=> \/ e.key = k /\ Now(q, 1, j + 1)
            \/ \E i \in 1 .. j : t[i].key = k /\ Now(t, i, j)
    <3>1. ASSUME NEW i \in 1 .. j, t[i].key = k, Now(t, i, j)
          PROVE  \E l \in 1 .. j + 1 : q[l].key = k /\ Now(q, l, j + 1)
      <4>1. i + 1 \in 1 .. j + 1 /\ i \in 1 .. n
        OBVIOUS
      <4> QED
        BY <1>5, <2>1, <3>1, <4>1
    <3>2. ASSUME NEW l \in 1 .. j + 1, q[l].key = k, Now(q, l, j + 1), l # 1
          PROVE  \E i \in 1 .. j : t[i].key = k /\ Now(t, i, j)
      <4>1. l - 1 \in 1 .. j /\ l - 1 \in 1 .. n /\ (l - 1) + 1 = l
        BY <3>2
      <4> QED
        BY <1>5, <2>1, <3>2, <4>1
    <3>3. 1 \in 1 .. j + 1
      OBVIOUS
    <3> QED
      BY <1>3, <3>1, <3>2, <3>3
  <2>5. k \in g <=> (k \in h /\ (e.key = k => e.down)) \/ (e.key = k /\ e.down)
    <3>1. e.down \in BOOLEAN
      BY <1>3 DEF Event
    <3> QED
      BY <1>g, <3>1 DEF Apply
  <2> QED
    BY <2>0, <2>2, <2>3, <2>4, <2>5
<1> QED
  BY <1>1, <1>2, <1>g, <1>3, <1>4, <1>5, <1>6, <1>7

LEMMA PadIs ==
    ASSUME HotSetting, HotInv
    PROVE  /\ plugs \in Nat /\ plugs <= MaxPlugs /\ 1 .. plugs \subseteq Numbers
           /\ DOMAIN pads = 1 .. Len(pads) /\ Len(pads) \in Nat
           /\ DOMAIN w.ready = 1 .. Len(w.ready) /\ Len(w.ready) \in Nat
           /\ \A i \in DOMAIN pads : pads[i] \in WatchedPad /\ pads[i].id \in 1 .. plugs
           /\ \A k \in DOMAIN w.ready : w.ready[k] \in Told /\ w.ready[k].id \in 1 .. plugs
           /\ Plugged \subseteq 1 .. plugs
<1>1. plugs \in Nat /\ plugs <= MaxPlugs /\ 1 .. plugs \subseteq Numbers
  BY DEF HotSetting, HotInv, HotTypes, Numbers
<1>2. pads \in Seq(WatchedPad) /\ w.ready \in Seq(Told)
  BY DEF HotInv, HotTypes, Watcher
<1>3. /\ DOMAIN pads = 1 .. Len(pads) /\ Len(pads) \in Nat
      /\ \A i \in DOMAIN pads : pads[i] \in WatchedPad
  BY <1>2, LenProperties, ElementOfSeq
<1>4. /\ DOMAIN w.ready = 1 .. Len(w.ready) /\ Len(w.ready) \in Nat
      /\ \A k \in DOMAIN w.ready : w.ready[k] \in Told
  BY <1>2, LenProperties, ElementOfSeq
<1>5. Plugged \subseteq 1 .. plugs
  BY <1>1 DEF Plugged, HotInv, HotTypes, Numbers
<1> QED
  BY <1>1, <1>3, <1>4, <1>5 DEF WatchedPad, Told

\* A step of the watcher that neither opens, closes nor reads a file.
LEMMA WatcherMoves ==
    ASSUME HotInv, UNCHANGED <<dev, virtual, down, chorded, plugs, queue, pads>>,
           w' \in Watcher, ReadyOnce', w'.fire \/ w'.told => w.fire \/ w.told
    PROVE  HotInv'
<1>1. Plugged' = Plugged /\ \A d : Watched(d)' <=> Watched(d)
  BY DEF Plugged, Watched
<1>2. HotTypes'
  BY DEF HotInv, HotTypes, Watcher, Told, WatchedPad
<1>3. OneNode' /\ Readable' /\ WatchedOnce'
  BY <1>1 DEF HotInv, OneNode, Readable, WatchedOnce
<1>4. KnownWasDown'
  BY <1>1 DEF HotInv, KnownWasDown
<1> QED
  BY <1>2, <1>3, <1>4 DEF HotInv

LEMMA AddWatchKeeps ==
    ASSUME HotInv, AddWatch \/ DrainInotify \/ Turn
    PROVE  HotInv'
<1>1. /\ UNCHANGED <<dev, virtual, down, chorded, plugs, queue, pads>>
      /\ w' \in Watcher /\ w'.ready = w.ready /\ (w'.fire \/ w'.told => w.fire \/ w.told)
  <2>1. w \in Watcher
    BY DEF HotInv, HotTypes
  <2>2. CASE AddWatch
    BY <2>1, <2>2 DEF AddWatch, Outside, Watcher
  <2>3. CASE DrainInotify
    BY <2>1, <2>3 DEF DrainInotify, Outside, Watcher
  <2>4. CASE Turn
    BY <2>1, <2>4 DEF Turn, Outside, Watcher
  <2> QED
    BY <2>2, <2>3, <2>4
<1>2. ReadyOnce'
  BY <1>1 DEF HotInv, ReadyOnce, Watched, Plugged
<1> QED
  BY <1>1, <1>2, WatcherMoves

LEMMA PollKeeps ==
    ASSUME HotSetting, HotInv, PollFds
    PROVE  HotInv'
<1>1. /\ UNCHANGED <<dev, virtual, down, chorded, plugs, queue, pads>> /\ w \in Watcher
  BY DEF PollFds, Outside, HotInv, HotTypes
<1>2. CASE w' = [w EXCEPT !.at = "ended"]
  <2>1. w' \in Watcher /\ w'.ready = w.ready /\ (w'.fire \/ w'.told => w.fire \/ w.told)
    BY <1>1, <1>2 DEF Watcher
  <2>2. ReadyOnce'
    BY <1>1, <2>1 DEF HotInv, ReadyOnce, Watched, Plugged
  <2> QED
    BY <1>1, <2>1, <2>2, WatcherMoves
<1>3. CASE w' = [w EXCEPT !.at = IF ino.pending THEN "drain" ELSE "pads",
                          !.ready = [i \in DOMAIN pads |-> Revents(pads[i])]]
  <2>1. PICK ready : ready = [i \in DOMAIN pads |-> Revents(pads[i])]
    OBVIOUS
  <2>2. /\ DOMAIN ready = DOMAIN pads
        /\ \A i \in DOMAIN ready : /\ ready[i] = Revents(pads[i]) /\ ready[i].id = pads[i].id
                                   /\ ready[i].hup = (pads[i].id \notin Plugged)
    BY <2>1 DEF Revents
  <2>3. ready \in Seq(Told)
    <3>1. \A i \in DOMAIN pads : Revents(pads[i]) \in Told
      BY PadIs DEF Revents, Told
    <3>2. ready \in [1 .. Len(pads) -> Told]
      BY <2>1, <3>1, PadIs
    <3> QED
      BY <3>2, PadIs, SeqDef
  <2>4. w' \in Watcher /\ w'.ready = ready /\ (w'.fire \/ w'.told => w.fire \/ w.told)
    BY <1>1, <1>3, <2>1, <2>3 DEF Watcher, Told
  <2>5. ReadyOnce'
    <3>1. Plugged' = Plugged /\ \A x : Watched(x)' <=> Watched(x)
      BY <1>1 DEF Plugged, Watched
    <3>2. \A k \in DOMAIN ready : Watched(ready[k].id) /\ (ready[k].hup => ready[k].id \notin Plugged)
      <4>1. \A k \in DOMAIN ready : Watched(pads[k].id)
        BY <2>2 DEF Watched
      <4> QED
        BY <2>2, <4>1
    <3>3. \A k, l \in DOMAIN ready : ready[k].id = ready[l].id => k = l
      BY <2>2 DEF HotInv, WatchedOnce
    <3> QED
      BY <2>4, <3>1, <3>2, <3>3 DEF ReadyOnce
  <2> QED
    BY <1>1, <2>4, <2>5, WatcherMoves
<1> QED
  BY <1>2, <1>3 DEF PollFds

LEMMA HotPlugKeeps ==
    ASSUME HotSetting, HotInv, NEW v \in BOOLEAN, Plug(v)
    PROVE  HotInv'
<1>1. /\ plugs' = plugs + 1 /\ plugs < MaxPlugs
      /\ UNCHANGED <<down, queue, pads, w, chorded>>
      /\ virtual \subseteq virtual' /\ virtual' \subseteq virtual \cup {plugs + 1}
  BY DEF Plug
<1>2. PICK n \in Nodes : dev[n] = 0 /\ dev' = [dev EXCEPT ![n] = plugs + 1]
  BY DEF Plug
<1>3. /\ dev \in [Nodes -> 0 .. plugs] /\ plugs \in Nat /\ plugs + 1 \in Numbers
      /\ 1 .. plugs \subseteq 1 .. plugs' /\ 0 .. plugs \subseteq 0 .. plugs'
      /\ plugs' \in 0 .. MaxPlugs
  BY <1>1, PadIs DEF HotInv, HotTypes, HotSetting, Numbers
<1>4. dev' \in [Nodes -> 0 .. plugs'] /\ dev'[n] = plugs + 1
      /\ \A m \in Nodes : m # n => dev'[m] = dev[m]
  BY <1>1, <1>2, <1>3
<1>5. Plugged' = Plugged \cup {plugs + 1}
  BY <1>2, <1>3, <1>4 DEF Plugged, Numbers
<1>6. HotTypes'
  <2>1. WatchedPad \subseteq WatchedPad' /\ Told \subseteq Told'
    BY <1>3 DEF WatchedPad, Told
  <2>2. pads' \in Seq(WatchedPad')
    BY <1>1, <2>1, SeqMonotonic DEF HotInv, HotTypes
  <2>3. w'.ready \in Seq(Told')
    BY <1>1, <2>1, SeqMonotonic DEF HotInv, HotTypes, Watcher
  <2>4. w' \in Watcher'
    BY <1>1, <2>3 DEF HotInv, HotTypes, Watcher
  <2> QED
    BY <1>1, <1>3, <1>4, <2>2, <2>4 DEF HotInv, HotTypes
<1>7. plugs + 1 \notin 1 .. plugs /\ plugs + 1 # 0
  BY <1>3
<1>8. OneNode'
  BY <1>3, <1>4 DEF HotInv, OneNode
<1>9. \A d : Watched(d)' <=> Watched(d)
  BY <1>1 DEF Watched
<1>10. Readable'
  BY <1>1, <1>5, <1>9 DEF HotInv, Readable
<1>11. WatchedOnce'
  BY <1>1, <1>2, <1>4, <1>7, PadIs DEF HotInv, WatchedOnce
<1>12. KnownWasDown'
  BY <1>1, <1>5, <1>7, PadIs DEF HotInv, KnownWasDown
<1>13. ReadyOnce'
  <2>1. \A k \in DOMAIN w.ready : w.ready[k].id \in Plugged' => w.ready[k].id \in Plugged
    BY <1>5, <1>7, PadIs
  <2>2. w' = w
    BY <1>1
  <2>3. \A k \in DOMAIN w.ready : Watched(w.ready[k].id)'
    BY <1>9, <2>2 DEF HotInv, ReadyOnce
  <2>4. \A k \in DOMAIN w.ready : w.ready[k].hup => w.ready[k].id \notin Plugged'
    BY <2>1 DEF HotInv, ReadyOnce
  <2>5. \A k, l \in DOMAIN w.ready : w.ready[k].id = w.ready[l].id => k = l
    BY DEF HotInv, ReadyOnce
  <2> QED
    BY <2>2, <2>3, <2>4, <2>5 DEF ReadyOnce
<1>14. w'.fire \/ w'.told => chorded' \cap virtual' # {}
  BY <1>1 DEF HotInv
<1> QED
  BY <1>6, <1>8, <1>10, <1>11, <1>12, <1>13, <1>14 DEF HotInv

LEMMA HotUnplugKeeps ==
    ASSUME HotSetting, HotInv, NEW n \in Nodes, Unplug(n)
    PROVE  HotInv'
<1>1. PICK d : d = dev[n]
  OBVIOUS
<1>2. /\ d # 0 /\ UNCHANGED <<virtual, pads, w, chorded, plugs>>
      /\ dev' = [dev EXCEPT ![n] = 0] /\ queue' = [queue EXCEPT ![d] = << >>]
      /\ down' = [down EXCEPT ![d] = {}]
  BY <1>1 DEF Unplug
<1>3. /\ dev \in [Nodes -> 0 .. plugs] /\ plugs \in Nat /\ 1 .. plugs \subseteq Numbers
      /\ down \in [Numbers -> SUBSET Both] /\ queue \in [Numbers -> Seq(Event)]
  BY PadIs DEF HotInv, HotTypes
<1>4. d \in Numbers /\ d \in Plugged
  BY <1>1, <1>2, <1>3 DEF Plugged
<1>5. dev' \in [Nodes -> 0 .. plugs] /\ dev'[n] = 0 /\ \A m \in Nodes : m # n => dev'[m] = dev[m]
  BY <1>2, <1>3
<1>6. Plugged' = Plugged \ {d}
  <2>1. \A m \in Nodes : dev[m] = d => m = n
    BY <1>1, <1>2 DEF HotInv, OneNode
  <2>2. \A x \in Numbers : (\E m \in Nodes : dev'[m] = x) <=> x # d /\ \E m \in Nodes : dev[m] = x
    <3>1. \A x \in Numbers : x # 0
      BY DEF Numbers
    <3> QED
      BY <1>1, <1>5, <2>1, <3>1
  <2> QED
    BY <2>2 DEF Plugged
<1>7. /\ queue' \in [Numbers -> Seq(Event)] /\ queue'[d] = << >>
      /\ \A x \in Numbers : x # d => queue'[x] = queue[x]
  <2>1. << >> \in Seq(Event)
    OBVIOUS
  <2> QED
    BY <1>2, <1>3, <1>4, <2>1
<1>8. down' \in [Numbers -> SUBSET Both] /\ \A x \in Numbers : x # d => down'[x] = down[x]
  BY <1>2, <1>3, <1>4
<1>9. HotTypes'
  BY <1>2, <1>5, <1>7, <1>8 DEF HotInv, HotTypes, Watcher, Told, WatchedPad
<1>10. OneNode'
  BY <1>5 DEF HotInv, OneNode
<1>11. \A x : Watched(x)' <=> Watched(x)
  BY <1>2 DEF Watched
<1>12. Readable'
  BY <1>6, <1>7, <1>11 DEF HotInv, Readable
<1>13. WatchedOnce'
  BY <1>2, <1>5, PadIs DEF HotInv, WatchedOnce
<1>14. KnownWasDown'
  <2> SUFFICES ASSUME NEW i \in DOMAIN pads, NEW x, x = pads[i].id
               PROVE  /\ \A j \in 0 .. Len(queue'[x]) : Held(pads[i].down, queue'[x], j) = Both => x \in chorded
                      /\ x \in Plugged' => Held(pads[i].down, queue'[x], Len(queue'[x])) \subseteq down'[x]
    BY <1>2 DEF KnownWasDown
  <2>1. x \in Numbers /\ pads[i].down \in SUBSET Both
    BY <1>3, PadIs DEF WatchedPad
  <2>2. CASE x # d
    BY <1>6, <1>7, <1>8, <2>1, <2>2 DEF HotInv, KnownWasDown
  <2>3. CASE x = d
    <3>1. Len(queue'[x]) = 0 /\ \A j \in 0 .. 0 : j = 0
      BY <1>7, <2>3
    <3>2. Held(pads[i].down, queue'[x], 0) = Held(pads[i].down, queue[x], 0)
      BY <2>1, HeldNone
    <3>3. 0 \in 0 .. Len(queue[x])
      BY <1>3, <2>1, LenProperties
    <3> QED
      BY <1>6, <2>3, <3>1, <3>2, <3>3 DEF HotInv, KnownWasDown
  <2> QED
    BY <2>2, <2>3
<1>15. ReadyOnce'
  BY <1>2, <1>6, <1>11 DEF HotInv, ReadyOnce
<1> QED
  BY <1>2, <1>9, <1>10, <1>12, <1>13, <1>14, <1>15 DEF HotInv

LEMMA KeyKeeps ==
    ASSUME HotSetting, HotInv, NEW d \in Numbers, NEW k \in Both, Key(d, k)
    PROVE  HotInv'
<1>1. /\ d \in Plugged /\ UNCHANGED <<dev, virtual, pads, w, plugs>>
      /\ down' = [down EXCEPT ![d] = IF k \in down[d] THEN down[d] \ {k} ELSE down[d] \cup {k}]
      /\ chorded' = IF down'[d] = Both THEN chorded \cup {d} ELSE chorded
  BY DEF Key
<1>2. /\ down \in [Numbers -> SUBSET Both] /\ queue \in [Numbers -> Seq(Event)]
      /\ 1 .. plugs \subseteq Numbers
  BY PadIs DEF HotInv, HotTypes
<1>3. PICK e : e = [key |-> k, down |-> k \in down'[d]]
  OBVIOUS
<1>4. e \in Event /\ e.key = k /\ e.down = (k \in down'[d])
  BY <1>3 DEF Event
<1>5. /\ down' \in [Numbers -> SUBSET Both] /\ \A x \in Numbers : x # d => down'[x] = down[x]
      /\ down'[d] = IF k \in down[d] THEN down[d] \ {k} ELSE down[d] \cup {k}
  BY <1>1, <1>2
<1>6. \A h : h \subseteq down[d] => Apply(h, e) \subseteq down'[d]
  BY <1>4, <1>5 DEF Apply
<1>7. queue' = IF Watched(d) THEN [queue EXCEPT ![d] = Append(queue[d], e)] ELSE queue
  BY <1>3 DEF Key
<1>8. /\ Watched(d) => queue'[d] = Append(queue[d], e)
      /\ ~Watched(d) => queue'[d] = queue[d]
      /\ \A x \in Numbers : x # d => queue'[x] = queue[x]
      /\ queue' \in [Numbers -> Seq(Event)]
  <2>1. Append(queue[d], e) \in Seq(Event)
    BY <1>2, <1>4, AppendProperties
  <2> QED
    BY <1>2, <1>7, <2>1
<1>9. Plugged' = Plugged /\ \A x : Watched(x)' <=> Watched(x)
  BY <1>1 DEF Plugged, Watched
<1>10. chorded \subseteq chorded' /\ chorded' \subseteq Numbers
  BY <1>1 DEF HotInv, HotTypes
<1>11. HotTypes'
  BY <1>1, <1>5, <1>8, <1>10 DEF HotInv, HotTypes, Watcher, Told, WatchedPad
<1>12. OneNode' /\ WatchedOnce' /\ ReadyOnce'
  BY <1>1, <1>9 DEF HotInv, OneNode, WatchedOnce, ReadyOnce
<1>13. Readable'
  BY <1>1, <1>8, <1>9 DEF HotInv, Readable
<1>14. KnownWasDown'
  <2> SUFFICES ASSUME NEW i \in DOMAIN pads, NEW x, x = pads[i].id
               PROVE  /\ \A j \in 0 .. Len(queue'[x]) : Held(pads[i].down, queue'[x], j) = Both => x \in chorded'
                      /\ x \in Plugged => Held(pads[i].down, queue'[x], Len(queue'[x])) \subseteq down'[x]
    BY <1>1, <1>9 DEF KnownWasDown
  <2>1. x \in Numbers /\ pads[i].down \in SUBSET Both /\ Watched(x)
    BY <1>2, PadIs DEF WatchedPad, Watched
  <2>2. /\ \A j \in 0 .. Len(queue[x]) : Held(pads[i].down, queue[x], j) = Both => x \in chorded
        /\ x \in Plugged => Held(pads[i].down, queue[x], Len(queue[x])) \subseteq down[x]
    BY DEF HotInv, KnownWasDown
  <2>3. CASE x # d
    BY <1>5, <1>8, <1>10, <2>1, <2>2, <2>3
  <2>4. CASE x = d
    <3>1. PICK h : h = pads[i].down
      OBVIOUS
    <3>2. PICK q : q = queue[d]
      OBVIOUS
    <3>3. PICK a : a = Append(q, e)
      OBVIOUS
    <3>4. h \in SUBSET Both /\ q \in Seq(Event) /\ queue'[x] = a
      BY <1>2, <1>8, <2>1, <2>4, <3>1, <3>2, <3>3
    <3>5. /\ Len(a) = Len(q) + 1 /\ Len(q) \in Nat
          /\ \A j \in 0 .. Len(q) : Held(h, a, j) = Held(h, q, j)
          /\ Held(h, a, Len(q) + 1) = Apply(Held(h, q, Len(q)), e)
      BY <1>4, <3>3, <3>4, HeldAppend
    <3>6. Held(h, a, Len(a)) \subseteq down'[d]
      BY <1>1, <1>6, <2>2, <2>4, <3>1, <3>2, <3>5
    <3>7. Held(h, a, Len(a)) = Both => d \in chorded'
      <4>1. down'[d] \subseteq Both
        BY <1>5
      <4>2. Held(h, a, Len(a)) = Both => down'[d] = Both
        BY <3>6, <4>1
      <4>3. down'[d] = Both => d \in chorded'
        BY <1>1
      <4> QED
        BY <4>2, <4>3
    <3>8. \A j \in 0 .. Len(a) : j \in 0 .. Len(q) \/ j = Len(a)
      BY <3>5
    <3>9. \A j \in 0 .. Len(q) : Held(h, a, j) = Both => d \in chorded'
      BY <1>10, <2>2, <2>4, <3>1, <3>2, <3>5
    <3>10. \A j \in 0 .. Len(a) : Held(h, a, j) = Both => d \in chorded'
      BY <3>7, <3>8, <3>9
    <3> QED
      BY <2>4, <3>1, <3>4, <3>6, <3>10
  <2> QED
    BY <2>3, <2>4
<1> QED
  BY <1>1, <1>10, <1>11, <1>12, <1>13, <1>14 DEF HotInv

LEMMA ScanEntryKeeps ==
    ASSUME HotSetting, HotInv, ScanNode
    PROVE  HotInv'
<1>1. PICK n \in w.todo :
        /\ w' = IF Full /\ dev[n] # 0 /\ ~Known(n) THEN ScanEnds
                ELSE IF w.todo = {n} THEN ScanEnds ELSE [w EXCEPT !.todo = w.todo \ {n}]
        /\ pads' = IF dev[n] \in virtual /\ ~Known(n) /\ ~Full
                   THEN Append(pads, [id |-> dev[n], node |-> n, down |-> {}]) ELSE pads
  BY DEF ScanNode
<1>2. UNCHANGED <<dev, virtual, down, chorded, plugs, queue>> /\ w \in Watcher /\ n \in Nodes
  BY DEF ScanNode, Outside, HotInv, HotTypes, Watcher
<1>3. w' \in Watcher /\ w'.ready = w.ready /\ (w'.fire \/ w'.told => w.fire \/ w.told)
  <2>1. ScanEnds = [w EXCEPT !.at = "watch", !.first = FALSE] \/ ScanEnds = [w EXCEPT !.at = "pads"]
    BY DEF ScanEnds
  <2>2. \/ w' = [w EXCEPT !.at = "watch", !.first = FALSE] \/ w' = [w EXCEPT !.at = "pads"]
        \/ w' = [w EXCEPT !.todo = w.todo \ {n}]
    BY <1>1, <2>1
  <2> QED
    BY <1>2, <2>2 DEF Watcher
<1>4. CASE pads' = pads
  <2>1. ReadyOnce'
    BY <1>2, <1>3, <1>4 DEF HotInv, ReadyOnce, Watched, Plugged
  <2> QED
    BY <1>2, <1>3, <1>4, <2>1, WatcherMoves
<1>5. CASE pads' # pads
  <2>1. PICK d : d = dev[n]
    OBVIOUS
  <2>2. PICK p : p = [id |-> d, node |-> n, down |-> {}]
    OBVIOUS
  <2>3. d \in virtual /\ ~Known(n) /\ pads' = Append(pads, p)
    BY <1>1, <1>5, <2>1, <2>2
  <2>4. /\ d \in 1 .. plugs /\ d # 0 /\ d \in Numbers /\ p \in WatchedPad
        /\ p.id = d /\ p.node = n /\ p.down = {}
    <3>1. d \in 1 .. plugs /\ d # 0 /\ d \in Numbers
      BY <2>3, PadIs DEF HotInv, HotTypes
    <3> QED
      BY <1>2, <2>2, <3>1 DEF WatchedPad
  <2>5. PICK l \in Nat : l = Len(pads)
    BY PadIs
  <2>6. /\ pads' \in Seq(WatchedPad) /\ DOMAIN pads' = 1 .. l + 1 /\ DOMAIN pads = 1 .. l
        /\ \A i \in 1 .. l : pads'[i] = pads[i]
        /\ pads'[l + 1] = p
    <3>1. pads \in Seq(WatchedPad)
      BY DEF HotInv, HotTypes
    <3>2. /\ pads' \in Seq(WatchedPad) /\ Len(pads') = l + 1
          /\ \A i \in 1 .. l : pads'[i] = pads[i]
          /\ pads'[l + 1] = p
      BY <2>3, <2>4, <2>5, <3>1, AppendProperties
    <3> QED
      BY <2>5, <3>1, <3>2, LenProperties
  <2>7. \A i \in 1 .. l + 1 : i \in 1 .. l \/ i = l + 1
    OBVIOUS
  <2>8. \A i \in 1 .. l : pads[i].id # d
    BY <1>2, <2>1, <2>3, <2>6 DEF HotInv, WatchedOnce, Known
  <2>9. ~Watched(d) /\ queue[d] = << >>
    BY <2>4, <2>6, <2>8 DEF Watched, HotInv, Readable
  <2>10. HotTypes'
    BY <1>2, <1>3, <2>6 DEF HotInv, HotTypes, Watcher, Told, WatchedPad
  <2>11. Plugged' = Plugged
    BY <1>2 DEF Plugged
  <2>12. \A x : Watched(x) => Watched(x)'
    <3>1. \A i \in 1 .. l : i \in 1 .. l + 1
      OBVIOUS
    <3> QED
      BY <2>6, <3>1 DEF Watched
  <2>13. OneNode' /\ Readable'
    BY <1>2, <2>11, <2>12 DEF HotInv, OneNode, Readable
  <2>14. WatchedOnce'
    <3>1. \A m \in Nodes : dev[m] = d => m = n
      BY <1>2, <2>1, <2>4 DEF HotInv, OneNode
    <3>2. \A i \in 1 .. l + 1 : pads'[i].id \in virtual
      BY <2>3, <2>4, <2>6, <2>7 DEF HotInv, WatchedOnce
    <3>3. \A i, j \in 1 .. l + 1 : pads'[i].id = pads'[j].id => i = j
      BY <2>4, <2>6, <2>7, <2>8 DEF HotInv, WatchedOnce
    <3>4. \A i \in 1 .. l + 1, m \in Nodes : dev[m] = pads'[i].id => m = pads'[i].node
      BY <2>4, <2>6, <2>7, <3>1 DEF HotInv, WatchedOnce
    <3> QED
      BY <1>2, <2>6, <3>2, <3>3, <3>4 DEF WatchedOnce
  <2>15. KnownWasDown'
    <3> DEFINE Knows(q) ==
          LET x == q.id
          IN  /\ \A j \in 0 .. Len(queue[x]) : Held(q.down, queue[x], j) = Both => x \in chorded
              /\ x \in Plugged => Held(q.down, queue[x], Len(queue[x])) \subseteq down[x]
    <3>1. \A i \in 1 .. l : Knows(pads[i])
      BY <2>6 DEF HotInv, KnownWasDown
    <3>2. Knows(p)
      <4>1. Len(queue[d]) = 0 /\ \A j \in 0 .. 0 : j = 0
        BY <2>9
      <4>2. Held(p.down, queue[d], 0) = {}
        BY <2>4, HeldNone
      <4>3. {} # Both
        BY DEF Both
      <4> QED
        BY <2>4, <4>1, <4>2, <4>3
    <3>3. \A i \in 1 .. l + 1 : Knows(pads'[i])
      <4> HIDE DEF Knows
      <4> QED
        BY <2>6, <2>7, <3>1, <3>2
    <3> QED
      BY <1>2, <2>6, <2>11, <3>3 DEF KnownWasDown
  <2>16. ReadyOnce'
    BY <1>3, <2>11, <2>12 DEF HotInv, ReadyOnce
  <2> QED
    BY <1>2, <1>3, <2>10, <2>13, <2>14, <2>15, <2>16 DEF HotInv
<1> QED
  BY <1>4, <1>5

\* The pad whose turn it is.
LEMMA PadTurn ==
    ASSUME HotSetting, HotInv, Turned
    PROVE  /\ Pad \in DOMAIN pads /\ pads[Pad].id = Head(w.ready).id
           /\ pads[Pad].down \in SUBSET Both /\ Head(w.ready).id \in Numbers
           /\ Head(w.ready) = w.ready[1] /\ 1 \in DOMAIN w.ready
           /\ w \in Watcher /\ w.ready \in Seq(Told) /\ w.ready # << >>
<1>1. w \in Watcher /\ w.ready \in Seq(Told) /\ w.ready # << >>
  BY DEF HotInv, HotTypes, Watcher, Turned
<1>2. Head(w.ready) = w.ready[1] /\ 1 \in DOMAIN w.ready
  <2>1. Len(w.ready) \in Nat \ {0}
    BY <1>1, EmptySeq
  <2> QED
    BY <1>1, <2>1, LenProperties
<1>3. \E i \in DOMAIN pads : pads[i].id = Head(w.ready).id
  BY <1>2 DEF HotInv, ReadyOnce, Watched
<1>4. Pad \in DOMAIN pads /\ pads[Pad].id = Head(w.ready).id
  BY <1>3 DEF Pad
<1> QED
  BY <1>1, <1>2, <1>4, PadIs DEF WatchedPad

LEMMA ReadEventKeeps ==
    ASSUME HotSetting, HotInv, ReadEvent
    PROVE  HotInv'
<1>1. PICK d : d = Head(w.ready).id
  OBVIOUS
<1>2. PICK b : b = Pad
  OBVIOUS
<1>3. PICK q : q = queue[d]
  OBVIOUS
<1>4. PICK g : g = Apply(pads[b].down, Head(q))
  OBVIOUS
<1>5. /\ Turned /\ q # << >>
      /\ pads' = [pads EXCEPT ![b].down = g]
      /\ queue' = [queue EXCEPT ![d] = Tail(q)]
      /\ w' = IF g = Both THEN [w EXCEPT !.fire = TRUE, !.ready = Read(w.ready)] ELSE w
      /\ UNCHANGED <<dev, virtual, down, chorded, plugs>>
  BY <1>1, <1>2, <1>3, <1>4 DEF ReadEvent, Outside
<1>6. /\ b \in DOMAIN pads /\ pads[b].id = d /\ pads[b].down \in SUBSET Both /\ d \in Numbers
      /\ 1 \in DOMAIN w.ready /\ w \in Watcher /\ w.ready \in Seq(Told)
  BY <1>1, <1>2, <1>5, PadTurn
<1>7. /\ pads \in Seq(WatchedPad) /\ queue \in [Numbers -> Seq(Event)]
      /\ 1 .. plugs \subseteq Numbers /\ \A i \in DOMAIN pads : pads[i] \in WatchedPad
  BY PadIs DEF HotInv, HotTypes
<1>8. /\ Tail(q) \in Seq(Event) /\ Len(Tail(q)) + 1 = Len(q) /\ Len(Tail(q)) \in Nat
      /\ g \in SUBSET Both
      /\ \A j \in 0 .. Len(Tail(q)) : Held(g, Tail(q), j) = Held(pads[b].down, q, j + 1)
  BY <1>3, <1>4, <1>5, <1>6, <1>7, HeldTail
<1>9. /\ DOMAIN pads' = DOMAIN pads /\ pads' \in Seq(WatchedPad)
      /\ \A i \in DOMAIN pads : /\ pads'[i].id = pads[i].id /\ pads'[i].node = pads[i].node
                                /\ i # b => pads'[i] = pads[i]
      /\ pads'[b].down = g
  <2>1. PICK p : p = [pads[b] EXCEPT !.down = g]
    OBVIOUS
  <2>2. p \in WatchedPad /\ p.id = pads[b].id /\ p.node = pads[b].node /\ p.down = g
    BY <1>6, <1>7, <1>8, <2>1 DEF WatchedPad
  <2>3. pads' = [pads EXCEPT ![b] = p]
    BY <1>5, <2>1
  <2>4. pads' \in Seq(WatchedPad)
    BY <1>6, <1>7, <2>2, <2>3, ExceptSeq, LenProperties
  <2> QED
    BY <1>6, <1>7, <2>2, <2>3, <2>4
<1>10. /\ queue' \in [Numbers -> Seq(Event)] /\ queue'[d] = Tail(q)
       /\ \A x \in Numbers : x # d => queue'[x] = queue[x]
  BY <1>5, <1>6, <1>7, <1>8
<1>11. Plugged' = Plugged /\ \A x : Watched(x)' <=> Watched(x)
  BY <1>5, <1>9 DEF Plugged, Watched
<1>12. /\ w' \in Watcher /\ DOMAIN w'.ready = DOMAIN w.ready
       /\ \A k \in DOMAIN w.ready : w'.ready[k].id = w.ready[k].id /\ w'.ready[k].hup = w.ready[k].hup
       /\ w'.told = w.told
  <2>1. CASE w' = w
    BY <1>6, <2>1
  <2>2. CASE w' = [w EXCEPT !.fire = TRUE, !.ready = Read(w.ready)]
    <3>1. PICK r : r = [w.ready[1] EXCEPT !.in = FALSE]
      OBVIOUS
    <3>2. r \in Told /\ r.id = w.ready[1].id /\ r.hup = w.ready[1].hup
      BY <1>6, <3>1, PadIs DEF Told
    <3>3. Read(w.ready) = [w.ready EXCEPT ![1] = r]
      BY <3>1 DEF Read
    <3>4. Read(w.ready) \in Seq(Told)
      BY <1>6, <3>2, <3>3, ExceptSeq, LenProperties
    <3>5. /\ DOMAIN Read(w.ready) = DOMAIN w.ready
          /\ \A k \in DOMAIN w.ready : /\ Read(w.ready)[k].id = w.ready[k].id
                                       /\ Read(w.ready)[k].hup = w.ready[k].hup
      BY <1>6, <3>2, <3>3
    <3>6. w' \in Watcher /\ w'.ready = Read(w.ready) /\ w'.told = w.told
      BY <1>6, <2>2, <3>4 DEF Watcher
    <3> QED
      BY <3>5, <3>6
  <2> QED
    BY <1>5, <2>1, <2>2
<1>13. HotTypes'
  BY <1>5, <1>9, <1>10, <1>12 DEF HotInv, HotTypes, Watcher, Told, WatchedPad
<1>14. OneNode' /\ ReadyOnce'
  BY <1>5, <1>11, <1>12 DEF HotInv, OneNode, ReadyOnce
<1>15. WatchedOnce'
  BY <1>5, <1>9 DEF HotInv, WatchedOnce
<1>16. Readable'
  <2>1. d \in Plugged /\ Watched(d)
    BY <1>3, <1>5, <1>6 DEF HotInv, Readable
  <2> QED
    BY <1>10, <1>11, <2>1 DEF HotInv, Readable
<1>17. /\ \A j \in 0 .. Len(q) : Held(pads[b].down, q, j) = Both => d \in chorded
       /\ d \in Plugged => Held(pads[b].down, q, Len(q)) \subseteq down[d]
  BY <1>3, <1>6 DEF HotInv, KnownWasDown
<1>18. KnownWasDown'
  <2> SUFFICES ASSUME NEW i \in DOMAIN pads', NEW x, x = pads'[i].id
               PROVE  /\ \A j \in 0 .. Len(queue'[x]) : Held(pads'[i].down, queue'[x], j) = Both => x \in chorded
                      /\ x \in Plugged => Held(pads'[i].down, queue'[x], Len(queue'[x])) \subseteq down[x]
    BY <1>5, <1>11 DEF KnownWasDown
  <2>0. i \in DOMAIN pads /\ x = pads[i].id
    BY <1>9
  <2>1. CASE i # b
    <3>1. x # d /\ x \in Numbers
      BY <1>6, <1>7, <2>0, <2>1 DEF HotInv, WatchedOnce, WatchedPad
    <3> QED
      BY <1>9, <1>10, <2>0, <2>1, <3>1 DEF HotInv, KnownWasDown
  <2>2. CASE i = b
    <3>1. x = d /\ queue'[x] = Tail(q) /\ pads'[i].down = g
      BY <1>6, <1>9, <1>10, <2>0, <2>2
    <3>2. \A j \in 0 .. Len(Tail(q)) : j + 1 \in 0 .. Len(q)
      BY <1>8
    <3>3. \A j \in 0 .. Len(Tail(q)) : Held(g, Tail(q), j) = Both => d \in chorded
      BY <1>8, <1>17, <3>2
    <3>4. Held(g, Tail(q), Len(Tail(q))) = Held(pads[b].down, q, Len(q))
      BY <1>8
    <3> QED
      BY <1>17, <3>1, <3>3, <3>4
  <2> QED
    BY <2>1, <2>2
<1>19. w'.fire \/ w'.told => chorded \cap virtual # {}
  <2>1. CASE g # Both
    BY <1>5, <2>1 DEF HotInv
  <2>2. CASE g = Both
    <3>1. Held(g, Tail(q), 0) = g /\ 0 \in 0 .. Len(Tail(q)) /\ 0 + 1 \in 0 .. Len(q)
      BY <1>8, HeldNone
    <3>2. Held(pads[b].down, q, 0 + 1) = Both
      BY <1>8, <2>2, <3>1
    <3>3. d \in chorded
      BY <1>17, <3>1, <3>2
    <3>4. d \in virtual
      BY <1>6 DEF HotInv, WatchedOnce
    <3> QED
      BY <3>3, <3>4
  <2> QED
    BY <2>1, <2>2
<1> QED
  BY <1>5, <1>13, <1>14, <1>15, <1>16, <1>18, <1>19 DEF HotInv

\* Dropping a pad leaves the others, each once.
LEMMA WithoutIs ==
    ASSUME NEW S, NEW s \in Seq(S), NEW i \in DOMAIN s
    PROVE  /\ Without(s, i) \in Seq(S)
           /\ \A j \in DOMAIN Without(s, i) : \E l \in DOMAIN s :
                 l # i /\ Without(s, i)[j] = s[l] /\ l = IF j = i THEN Len(s) ELSE j
           /\ \A l \in DOMAIN s : l # i => \E j \in DOMAIN Without(s, i) : Without(s, i)[j] = s[l]
<1>1. PICK n \in Nat : n = Len(s)
  BY LenProperties
<1>2. DOMAIN s = 1 .. n /\ (\A l \in 1 .. n : s[l] \in S) /\ i \in 1 .. n
  BY <1>1, LenProperties, ElementOfSeq
<1>3. PICK t : t = Without(s, i)
  OBVIOUS
<1>4. DOMAIN t = 1 .. n - 1 /\ \A j \in 1 .. n - 1 : t[j] = IF j = i THEN s[n] ELSE s[j]
  BY <1>1, <1>3 DEF Without
<1>5. n - 1 \in Nat /\ n \in 1 .. n /\ \A j \in 1 .. n - 1 : j \in 1 .. n /\ j # n
  BY <1>2
<1>6. t \in Seq(S)
  <2>1. t = [j \in 1 .. n - 1 |-> IF j = i THEN s[n] ELSE s[j]]
    BY <1>1, <1>3 DEF Without
  <2>2. t \in [1 .. n - 1 -> S]
    BY <1>2, <1>5, <2>1
  <2> QED
    BY <1>5, <2>2, SeqDef
<1>7. \A j \in DOMAIN t : \E l \in DOMAIN s : l # i /\ t[j] = s[l] /\ l = IF j = i THEN n ELSE j
  BY <1>2, <1>4, <1>5
<1>8. ASSUME NEW l \in DOMAIN s, l # i PROVE \E j \in DOMAIN t : t[j] = s[l]
  <2>1. CASE l = n
    <3>1. i \in 1 .. n - 1
      BY <1>2, <1>8, <2>1
    <3> QED
      BY <1>4, <2>1, <3>1
  <2>2. CASE l # n
    <3>1. l \in 1 .. n - 1
      BY <1>2, <2>2
    <3> QED
      BY <1>4, <1>8, <3>1
  <2> QED
    BY <2>1, <2>2
<1> QED
  BY <1>1, <1>3, <1>6, <1>7, <1>8

LEMMA NextPadKeeps ==
    ASSUME HotSetting, HotInv, NextPad
    PROVE  HotInv'
<1>1. PICK d : d = Head(w.ready).id
  OBVIOUS
<1>2. PICK b : b = Pad
  OBVIOUS
<1>3. /\ pads' = IF Head(w.ready).hup THEN Without(pads, b) ELSE pads
      /\ w' = [w EXCEPT !.ready = Tail(w.ready)]
      /\ UNCHANGED <<dev, virtual, down, chorded, plugs, queue>> /\ Turned
  BY <1>2 DEF NextPad, Outside
<1>4. /\ b \in DOMAIN pads /\ pads[b].id = d /\ d \in Numbers
      /\ Head(w.ready) = w.ready[1] /\ 1 \in DOMAIN w.ready
      /\ w \in Watcher /\ w.ready \in Seq(Told) /\ w.ready # << >>
  BY <1>1, <1>2, <1>3, PadTurn
<1>5. PICK t : t = Tail(w.ready)
  OBVIOUS
<1>6. /\ t \in Seq(Told)
      /\ \A k \in DOMAIN t : k + 1 \in DOMAIN w.ready /\ t[k] = w.ready[k + 1] /\ k + 1 # 1 /\ k \in Nat
  <2>1. t \in Seq(Told) /\ Len(t) = Len(w.ready) - 1 /\ \A k \in 1 .. Len(t) : t[k] = w.ready[k + 1]
    BY <1>4, <1>5, HeadTailProperties
  <2>2. DOMAIN t = 1 .. Len(t) /\ DOMAIN w.ready = 1 .. Len(w.ready) /\ Len(w.ready) \in Nat
    BY <1>4, <2>1, LenProperties
  <2> QED
    BY <2>1, <2>2
<1>7. w' \in Watcher /\ w'.ready = t /\ w'.fire = w.fire /\ w'.told = w.told
  BY <1>3, <1>4, <1>5, <1>6 DEF Watcher
<1>8. Plugged' = Plugged
  BY <1>3 DEF Plugged
<1>9. \A k \in DOMAIN t : /\ t[k].id # d /\ Watched(t[k].id)
                          /\ t[k].hup => t[k].id \notin Plugged
  BY <1>1, <1>4, <1>6 DEF HotInv, ReadyOnce
<1>10. \A k, l \in DOMAIN t : t[k].id = t[l].id => k = l
  <2> SUFFICES ASSUME NEW k \in DOMAIN t, NEW l \in DOMAIN t, t[k].id = t[l].id PROVE k = l
    OBVIOUS
  <2>1. k + 1 = l + 1
    BY <1>6, SMTT(30) DEF HotInv, ReadyOnce
  <2> QED
    BY <1>6, <2>1
<1>11. CASE ~Head(w.ready).hup
  <2>1. pads' = pads
    BY <1>3, <1>11
  <2>2. ReadyOnce'
    BY <1>7, <1>8, <1>9, <1>10, <2>1 DEF ReadyOnce, Watched
  <2> QED
    BY <1>3, <1>7, <2>1, <2>2, WatcherMoves
<1>12. CASE Head(w.ready).hup
  <2>1. d \notin Plugged /\ queue[d] = << >>
    BY <1>1, <1>4, <1>12 DEF HotInv, ReadyOnce, Readable
  <2>2. pads \in Seq(WatchedPad)
    BY DEF HotInv, HotTypes
  <2>3. /\ pads' \in Seq(WatchedPad)
        /\ \A j \in DOMAIN pads' : \E l \in DOMAIN pads :
              l # b /\ pads'[j] = pads[l] /\ l = IF j = b THEN Len(pads) ELSE j
        /\ \A l \in DOMAIN pads : l # b => \E j \in DOMAIN pads' : pads'[j] = pads[l]
    BY <1>3, <1>4, <1>12, <2>2, WithoutIs
  <2>4. \A x : x # d /\ Watched(x) => Watched(x)'
    BY <1>4, <2>3 DEF Watched
  <2>5. HotTypes'
    BY <1>3, <1>7, <2>3 DEF HotInv, HotTypes, Watcher, Told, WatchedPad
  <2>6. OneNode'
    BY <1>3 DEF HotInv, OneNode
  <2>7. Readable'
    BY <1>3, <1>8, <2>1, <2>4 DEF HotInv, Readable
  <2>8. WatchedOnce'
    <3>1. \A j \in DOMAIN pads' : pads'[j].id \in virtual
      BY <2>3 DEF HotInv, WatchedOnce
    <3>2. \A j \in DOMAIN pads', m \in Nodes : dev[m] = pads'[j].id => m = pads'[j].node
      BY <2>3 DEF HotInv, WatchedOnce
    <3>3. ASSUME NEW i \in DOMAIN pads', NEW j \in DOMAIN pads', pads'[i].id = pads'[j].id
          PROVE  i = j
      <4>1. PICK k \in DOMAIN pads : k # b /\ pads'[i] = pads[k] /\ k = IF i = b THEN Len(pads) ELSE i
        BY <2>3
      <4>2. PICK l \in DOMAIN pads : l # b /\ pads'[j] = pads[l] /\ l = IF j = b THEN Len(pads) ELSE j
        BY <2>3
      <4>3. k = l
        BY <3>3, <4>1, <4>2 DEF HotInv, WatchedOnce
      <4>4. Without(pads, b) = pads'
        BY <1>3, <1>12
      <4>5. i \in 1 .. Len(pads) - 1 /\ j \in 1 .. Len(pads) - 1 /\ Len(pads) \in Nat
        BY <4>4, PadIs DEF Without
      <4> QED
        BY <4>1, <4>2, <4>3, <4>5
    <3> QED
      BY <1>3, <3>1, <3>2, <3>3 DEF WatchedOnce
  <2>9. KnownWasDown'
    <3> DEFINE Knows(q) ==
          LET x == q.id
          IN  /\ \A j \in 0 .. Len(queue[x]) : Held(q.down, queue[x], j) = Both => x \in chorded
              /\ x \in Plugged => Held(q.down, queue[x], Len(queue[x])) \subseteq down[x]
    <3>1. \A i \in DOMAIN pads : Knows(pads[i])
      BY DEF HotInv, KnownWasDown
    <3>2. \A j \in DOMAIN pads' : Knows(pads'[j])
      <4> HIDE DEF Knows
      <4> QED
        BY <2>3, <3>1
    <3> QED
      BY <1>3, <1>8, <3>2 DEF KnownWasDown
  <2>10. ReadyOnce'
    BY <1>7, <1>8, <1>9, <1>10, <2>4 DEF ReadyOnce
  <2>11. w'.fire \/ w'.told => chorded' \cap virtual' # {}
    BY <1>3, <1>7 DEF HotInv
  <2> QED
    BY <2>5, <2>6, <2>7, <2>8, <2>9, <2>10, <2>11 DEF HotInv
<1> QED
  BY <1>11, <1>12

LEMMA HotInvThm ==
    ASSUME HotSetting
    PROVE  HotSpec => []HotInv
<1>1. HotInit => HotInv
  <2> SUFFICES ASSUME HotInit PROVE HotInv
    OBVIOUS
  <2>1. /\ plugs = 0 /\ dev = [n \in Nodes |-> 0] /\ virtual = {} /\ chorded = {} /\ pads = << >>
        /\ down = [d \in Numbers |-> {}] /\ queue = [d \in Numbers |-> << >>]
        /\ w = [at |-> "scan", todo |-> Nodes, ready |-> << >>, fire |-> FALSE, first |-> TRUE,
                told |-> FALSE]
    BY DEF HotInit
  <2>2. << >> \in Seq(WatchedPad) /\ << >> \in Seq(Told) /\ << >> \in Seq(Event)
    OBVIOUS
  <2>3. HotTypes
    BY <2>1, <2>2 DEF HotTypes, Watcher, HotSetting
  <2>4. DOMAIN pads = {} /\ DOMAIN w.ready = {} /\ w.fire = FALSE /\ w.told = FALSE
    BY <2>1
  <2>5. OneNode /\ Readable
    BY <2>1 DEF OneNode, Readable
  <2> QED
    BY <2>3, <2>4, <2>5 DEF HotInv, WatchedOnce, KnownWasDown, ReadyOnce
<1>2. HotInv /\ [HotNext]_hotVars => HotInv'
  <2> SUFFICES ASSUME HotInv, [HotNext]_hotVars PROVE HotInv'
    OBVIOUS
  <2>1. CASE UNCHANGED hotVars
    <3>1. /\ UNCHANGED <<dev, virtual, down, chorded, plugs, queue, pads>> /\ w' = w /\ w' \in Watcher
      BY <2>1 DEF hotVars, HotInv, HotTypes
    <3>2. ReadyOnce'
      BY <3>1 DEF HotInv, ReadyOnce, Watched, Plugged
    <3> QED
      BY <3>1, <3>2, WatcherMoves
  <2>2. CASE \E v \in BOOLEAN : Plug(v)
    BY <2>2, HotPlugKeeps
  <2>3. CASE \E n \in Nodes : Unplug(n)
    BY <2>3, HotUnplugKeeps
  <2>4. CASE \E d \in Numbers, k \in Both : Key(d, k)
    BY <2>4, KeyKeeps
  <2>5. CASE ScanNode
    BY <2>5, ScanEntryKeeps
  <2>6. CASE AddWatch \/ DrainInotify \/ Turn
    BY <2>6, AddWatchKeeps
  <2>7. CASE PollFds
    BY <2>7, PollKeeps
  <2>8. CASE ReadEvent
    BY <2>8, ReadEventKeeps
  <2>9. CASE NextPad
    BY <2>9, NextPadKeeps
  <2> QED
    BY <2>1, <2>2, <2>3, <2>4, <2>5, <2>6, <2>7, <2>8, <2>9 DEF HotNext, Watches
<1> QED
  BY <1>1, <1>2, PTL DEF HotSpec

\* zlyme-pak-hotkey: only a chord on one virtual controller stops a pak, for any
\* number of nodes, controllers and key events, MAX_PADS and order of unplugging,
\* scanning and reading.
THEOREM ChordHonestThm ==
    ASSUME HotSetting
    PROVE  HotSpec => []ChordHonest
<1>1. HotInv => ChordHonest
  BY DEF HotInv, ChordHonest
<1> QED
  BY <1>1, HotInvThm, PTL

----------------------------------------------------------------------------
(* zlyme-boot-write, for any number of invocations.                        *)

USE WritersAssumption, MaxPollsAssumption

\* A freshly booted system satisfies the invariant.
LEMMA InitInv == WriteInit => Inv
<1> SUFFICES ASSUME WriteInit PROVE Inv
  OBVIOUS
<1> USE DEF WriteInit, Booted
<1>1. poison \in BOOLEAN /\ abandoned \in BOOLEAN /\ unmarked \in BOOLEAN
  BY Zenon
<1>2. WriteTypeOK
  BY <1>1 DEF WriteTypeOK, Mounts, Results, ShellPCs, Live, Holding, Catchable
<1>3. TransactionInv
  BY DEF TransactionInv, Holding
<1> QED
  BY <1>2, <1>3 DEF Inv, WritesAreOwned, NeverSilentlyWritable

\* Every step of every process, a signal, a SIGKILL and a reboot keep it.
LEMMA NextInv == Inv /\ [WriteNext]_writeVars => Inv'
<1> SUFFICES ASSUME Inv, [WriteNext]_writeVars PROVE Inv'
  OBVIOUS
<1> USE DEF Inv, WriteTypeOK, TransactionInv, WritesAreOwned, NeverSilentlyWritable,
            Mounts, Results, ShellPCs, Live, Holding, Catchable
<1>1. ASSUME NEW p \in Writers, TryLock(p) PROVE Inv'
  BY <1>1 DEF TryLock, TakeLock, Exit
<1>2. ASSUME NEW p \in Writers, PollLock(p) PROVE Inv'
  BY <1>2 DEF PollLock, TakeLock, Exit
<1>3. ASSUME NEW p \in Writers, Check(p) PROVE Inv'
  BY <1>3 DEF Check, Exit
<1>4. ASSUME NEW p \in Writers, CloseStale(p) PROVE Inv'
  <2>1. poison' \in BOOLEAN /\ abandoned' \in BOOLEAN /\ unmarked' \in BOOLEAN
    BY <1>4, Zenon DEF CloseStale, WentRo, StayedRw, MarkPoison
  <2>2. WriteTypeOK'
    BY <1>4, <2>1 DEF CloseStale, WentRo, StayedRw, MarkPoison, Exit
  <2>3. TransactionInv'
    BY <1>4 DEF CloseStale, WentRo, StayedRw, MarkPoison, Exit
  <2>4. WritesAreOwned'
    BY <1>4 DEF CloseStale, WentRo, StayedRw, MarkPoison, Exit
  <2>5. NeverSilentlyWritable'
    BY <1>4 DEF CloseStale, WentRo, StayedRw, MarkPoison, Exit
  <2> QED
    BY <2>2, <2>3, <2>4, <2>5 DEF Inv
<1>5. ASSUME NEW p \in Writers, OpenRw(p) PROVE Inv'
  <2>1. poison' \in BOOLEAN /\ abandoned' \in BOOLEAN /\ unmarked' \in BOOLEAN
    BY <1>5, Zenon DEF OpenRw, MarkPoison
  <2>2. WriteTypeOK'
    BY <1>5, <2>1 DEF OpenRw, MarkPoison, Exit
  <2>3. TransactionInv'
    BY <1>5 DEF OpenRw, MarkPoison, Exit
  <2>4. WritesAreOwned'
    BY <1>5 DEF OpenRw, MarkPoison, Exit
  <2>5. NeverSilentlyWritable'
    BY <1>5 DEF OpenRw, MarkPoison, Exit
  <2> QED
    BY <2>2, <2>3, <2>4, <2>5 DEF Inv
<1>6. ASSUME NEW p \in Writers, RunCommand(p) PROVE Inv'
  BY <1>6 DEF RunCommand
<1>7. ASSUME NEW p \in Writers, CommandReturned(p) PROVE Inv'
  BY <1>7 DEF CommandReturned
<1>8. ASSUME NEW p \in Writers, Sync(p) PROVE Inv'
  BY <1>8 DEF Sync
<1>9. ASSUME NEW p \in Writers, Restore(p) PROVE Inv'
  <2>1. poison' \in BOOLEAN /\ abandoned' \in BOOLEAN /\ unmarked' \in BOOLEAN
    BY <1>9, Zenon DEF Restore, WentRo, StayedRw, MarkPoison
  <2>2. WriteTypeOK'
    BY <1>9, <2>1 DEF Restore, WentRo, StayedRw, MarkPoison, Exit
  <2>3. TransactionInv'
    BY <1>9 DEF Restore, WentRo, StayedRw, MarkPoison, Exit
  <2>4. WritesAreOwned'
    BY <1>9 DEF Restore, WentRo, StayedRw, MarkPoison, Exit
  <2>5. NeverSilentlyWritable'
    BY <1>9 DEF Restore, WentRo, StayedRw, MarkPoison, Exit
  <2> QED
    BY <2>2, <2>3, <2>4, <2>5 DEF Inv
<1>10. ASSUME NEW p \in Writers, CommandEnds(p) PROVE Inv'
  BY <1>10 DEF CommandEnds, Exit
<1>11. ASSUME NEW p \in Writers, InnerReturned(p) PROVE Inv'
  BY <1>11 DEF InnerReturned
<1>12. ASSUME NEW p \in Writers, Start(p) PROVE Inv'
  BY <1>12 DEF Start, StartSlot, Exit
<1>13. ASSUME NEW p \in Writers, TakeStatus(p) PROVE Inv'
  BY <1>13 DEF TakeStatus
<1>14. ASSUME NEW p \in Writers, Signal(p) PROVE Inv'
  BY <1>14 DEF Signal, Exit
<1>15. ASSUME NEW p \in Writers, Kill(p) PROVE Inv'
  <2>1. poison' \in BOOLEAN /\ abandoned' \in BOOLEAN /\ unmarked' \in BOOLEAN
    BY <1>15, Zenon DEF Kill, Orphan
  <2>2. WriteTypeOK'
    BY <1>15, <2>1 DEF Kill, Orphan, Exit
  <2>a. (abandoned => abandoned') /\ (owner = p /\ fat = "rw" => abandoned')
    BY <1>15, Zenon DEF Kill
  <2>b. /\ sh[p] \in Live
        /\ IF cmd[p] = "run" THEN Orphan(p) ELSE Exit(p, "killed")
        /\ UNCHANGED <<mnt, fat, poison, cmd, inner, waits, dirty, unmarked>>
    BY <1>15, Zenon DEF Kill
  <2>3. TransactionInv'
    <3>1. CASE cmd[p] = "run"
      BY <2>a, <2>b, <3>1 DEF Orphan
    <3>2. CASE cmd[p] # "run"
      BY <2>a, <2>b, <3>2 DEF Exit
    <3> QED
      BY <3>1, <3>2
  <2>4. WritesAreOwned'
    BY <1>15 DEF Kill, Orphan, Exit
  <2>5. NeverSilentlyWritable'
    BY <1>15 DEF Kill, Orphan, Exit
  <2> QED
    BY <2>2, <2>3, <2>4, <2>5 DEF Inv
<1>16. ASSUME NEW p \in Writers, NEW v \in Writers, Nest(p, v) PROVE Inv'
  BY <1>16 DEF Nest, StartSlot, Exit
<1>17. CASE Reboot
  <2>1. poison' \in BOOLEAN /\ abandoned' \in BOOLEAN /\ unmarked' \in BOOLEAN
    BY <1>17, Zenon DEF Reboot
  <2>2. WriteTypeOK'
    BY <1>17, <2>1 DEF Reboot
  <2>3. TransactionInv'
    BY <1>17 DEF Reboot
  <2>4. WritesAreOwned'
    BY <1>17 DEF Reboot
  <2>5. NeverSilentlyWritable'
    BY <1>17 DEF Reboot
  <2> QED
    BY <2>2, <2>3, <2>4, <2>5 DEF Inv
<1>18. CASE UNCHANGED writeVars
  BY <1>18 DEF writeVars
<1> QED
  BY <1>1, <1>2, <1>3, <1>4, <1>5, <1>6, <1>7, <1>8, <1>9, <1>10, <1>11,
     <1>12, <1>13, <1>14, <1>15, <1>16, <1>17, <1>18 DEF WriteNext, Step, Progress

\* For every set of invocations and every timeout: the wrapped command runs
\* only under its own flock on a writable /boot, whoever is killed when.
THEOREM WritesAreOwnedThm == WriteSpec => []WritesAreOwned
<1>1. Inv => WritesAreOwned
  BY DEF Inv
<1> QED
  BY InitInv, NextInv, <1>1, PTL DEF WriteSpec

\* For every set of invocations: /boot is never left writable in silence,
\* except by SIGKILL or by a call that failed and could not make its marker.
THEOREM NeverSilentlyWritableThm == WriteSpec => []NeverSilentlyWritable
<1>1. Inv => NeverSilentlyWritable
  BY DEF Inv
<1> QED
  BY InitInv, NextInv, <1>1, PTL DEF WriteSpec

\* Type correctness of the transaction.
THEOREM TypeCorrect == WriteSpec => []WriteTypeOK
<1>1. Inv => WriteTypeOK
  BY DEF Inv
<1> QED
  BY InitInv, NextInv, <1>1, PTL DEF WriteSpec

\* The invariant as a fact about every behaviour.
LEMMA Invariant == WriteSpec => []Inv
  BY InitInv, NextInv, PTL DEF WriteSpec

\* Once the marker is there, no invocation starts a command before a reboot.
THEOREM PoisonRefusesThm == WriteSpec => PoisonRefuses
<1>1. ASSUME Inv, [WriteNext]_writeVars PROVE [NoneStarts]_writeVars
  <2> SUFFICES ASSUME NEW q \in Writers, poison, cmd'[q] = "run", WriteNext
               PROVE  cmd[q] = "run" \/ ~poison'
    BY <1>1, Zenon DEF NoneStarts
  <2> USE <1>1 DEF Inv, WriteTypeOK, TransactionInv
  <2>1. ASSUME NEW p \in Writers, RunCommand(p) PROVE FALSE
    BY <2>1 DEF RunCommand
  <2>2. ASSUME NEW p \in Writers, Start(p) PROVE cmd[q] = "run"
    BY <2>2 DEF Start, StartSlot
  <2>3. ASSUME NEW p \in Writers, NEW v \in Writers, Nest(p, v) PROVE cmd[q] = "run"
    BY <2>3 DEF Nest, StartSlot
  <2>4. ASSUME NEW p \in Writers, CommandEnds(p) PROVE cmd[q] = "run"
    BY <2>4 DEF CommandEnds
  <2>5. CASE Reboot
    BY <2>5 DEF Reboot
  <2>6. ASSUME NEW p \in Writers,
               \/ TryLock(p) \/ PollLock(p) \/ Check(p) \/ CloseStale(p) \/ OpenRw(p)
               \/ CommandReturned(p) \/ Sync(p) \/ Restore(p) \/ InnerReturned(p)
               \/ TakeStatus(p) \/ Signal(p) \/ Kill(p)
        PROVE  cmd[q] = "run"
    BY <2>6 DEF TryLock, PollLock, Check, CloseStale, OpenRw, CommandReturned, Sync,
                Restore, InnerReturned, TakeStatus, Signal, Kill
  <2> QED
    BY <2>1, <2>2, <2>3, <2>4, <2>5, <2>6 DEF WriteNext, Step, Progress
<1> QED
  BY <1>1, Invariant, PTL DEF WriteSpec, PoisonRefuses

\* Status 0 means the command succeeded, its data is on the card and /boot
\* was read-only when the status was returned.
THEOREM SuccessIsDurableThm == WriteSpec => SuccessIsDurable
<1>1. ASSUME Inv, [WriteNext]_writeVars PROVE [IsDurable]_writeVars
  <2> SUFFICES ASSUME NEW q \in Writers, result[q] # "ok", result'[q] = "ok", WriteNext
               PROVE  cmd[q] = "ok" /\ fat' = "ro" /\ q \notin dirty'
    BY <1>1, Zenon DEF IsDurable
  <2> USE <1>1 DEF Inv, WriteTypeOK, Exit
  <2>1. ASSUME NEW p \in Writers, Restore(p)
        PROVE  cmd[q] = "ok" /\ fat' = "ro" /\ q \notin dirty'
    BY <2>1 DEF Restore, WentRo, StayedRw
  <2>2. ASSUME NEW p \in Writers, TryLock(p) \/ PollLock(p) \/ Check(p) PROVE FALSE
    BY <2>2 DEF TryLock, PollLock, Check, TakeLock
  <2>3. ASSUME NEW p \in Writers, CloseStale(p) \/ OpenRw(p) PROVE FALSE
    BY <2>3 DEF CloseStale, OpenRw
  <2>4. ASSUME NEW p \in Writers, CommandEnds(p) PROVE FALSE
    BY <2>4 DEF CommandEnds
  <2>5. ASSUME NEW p \in Writers,
               \/ RunCommand(p) \/ CommandReturned(p) \/ Sync(p)
               \/ InnerReturned(p) \/ TakeStatus(p)
        PROVE  FALSE
    BY <2>5 DEF RunCommand, CommandReturned, Sync, InnerReturned, TakeStatus
  <2>6. ASSUME NEW p \in Writers, Signal(p) \/ Kill(p) PROVE FALSE
    BY <2>6 DEF Signal, Kill, Orphan
  <2>7. ASSUME NEW p \in Writers, Start(p) PROVE FALSE
    BY <2>7 DEF Start, StartSlot
  <2>8. ASSUME NEW p \in Writers, NEW v \in Writers, Nest(p, v) PROVE FALSE
    BY <2>8 DEF Nest, StartSlot
  <2>9. CASE Reboot
    BY <2>9 DEF Reboot
  <2> QED
    BY <2>1, <2>2, <2>3, <2>4, <2>5, <2>6, <2>7, <2>8, <2>9
    DEF WriteNext, Step, Progress
<1> QED
  BY <1>1, Invariant, PTL DEF WriteSpec, SuccessIsDurable
=============================================================================
