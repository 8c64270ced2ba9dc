---------------------------- MODULE WidgetProofs ----------------------------
(* Proofs about the widgets of Apostrophe, for any lists, options, texts,  *)
(* file systems, queues, details and screens.                              *)
EXTENDS Widgets, FiniteSetTheorems, SequenceTheorems, WellFoundedInduction, TLAPS

-----------------------------------------------------------------------------
(* The widgets: sets of numbers in order.                                  *)

\* What holds at 0, and at k if it does at k - 1, holds up to n.
LEMMA Climb ==
    ASSUME NEW n \in Nat, NEW G, 0 \in G, \A k \in 1 .. n : k - 1 \in G => k \in G
    PROVE  n \in G
<1> DEFINE Less == {ss \in Nat \X Nat : ss[1] < ss[2]}
           K == (0 .. n) \ G
<1> SUFFICES ASSUME n \notin G PROVE FALSE
  OBVIOUS
<1>0. n \in K
  OBVIOUS
<1>1. IsWellFoundedOn(Less, Nat)
  BY NatLessThanWellFounded DEF OpToRel
<1>2. \A k \in Nat : k # 0 => k - 1 \in Nat /\ <<k - 1, k>> \in Less
  OBVIOUS
<1> HIDE DEF Less
<1>3. K \subseteq Nat
  OBVIOUS
<1>4. PICK m \in K : \A y \in K : ~(<<y, m>> \in Less)
  BY <1>0, <1>1, <1>3, WFMin
<1>5. m \in 1 .. n /\ m \notin G
  BY <1>4
<1>6. m - 1 \in 0 .. n
  BY <1>5
<1>7. <<m - 1, m>> \in Less
  BY <1>2, <1>5
<1>8. m - 1 \notin K
  <2> HIDE DEF K
  <2> QED
    BY <1>4, <1>7
<1> QED
  BY <1>5, <1>6, <1>8

\* A set of numbers up to n has a last one.
LEMMA LastIs ==
    ASSUME NEW n \in Nat, NEW S \in SUBSET (0 .. n), S # {}
    PROVE  \E v \in S : \A u \in S : u <= v
<1> DEFINE G == {k \in 0 .. n : n - k \notin S /\ \A u \in S : u <= n - k}
<1> SUFFICES ASSUME \A v \in S : \E u \in S : ~(u <= v) PROVE FALSE
  OBVIOUS
<1>1. n \notin S
  OBVIOUS
<1>2. 0 \in G
  BY <1>1
<1>3. ASSUME NEW k \in 1 .. n, k - 1 \in G PROVE k \in G
  <2>1. \A u \in S : u <= n - (k - 1) /\ u # n - (k - 1)
    BY <1>3
  <2>2. \A u \in S : u <= n - k
    BY <2>1
  <2> QED
    BY <2>2
<1> HIDE DEF G
<1>4. n \in G
  BY <1>2, <1>3, Climb
<1>5. 0 \notin S /\ \A u \in S : u <= 0
  BY <1>4 DEF G
<1>6. PICK u \in S : TRUE
  OBVIOUS
<1>7. u \in Nat /\ u <= 0
  BY <1>5
<1> QED
  BY <1>5, <1>7

\* f is computed step by step from e.
Steps(f, n, e, F) == f[0] = e /\ \A k \in 1 .. n : f[k] = F[k][f[k - 1]]
\* What is computed step by step in V exists.
LEMMA StepByStep ==
    ASSUME NEW n \in Nat, NEW V, NEW e \in V, NEW F \in [1 .. n -> [V -> V]]
    PROVE  \E f \in [0 .. n -> V] : Steps(f, n, e, F)
<1> DEFINE Built(f, m) == f[0] = e /\ \A k \in 1 .. m : f[k] = F[k][f[k - 1]]
           G == {m \in 0 .. n : \E f \in [0 .. m -> V] : Built(f, m)}
<1>1. 0 \in G
  <2>1. [k \in 0 .. 0 |-> e] \in [0 .. 0 -> V] /\ Built([k \in 0 .. 0 |-> e], 0)
    OBVIOUS
  <2> HIDE DEF Built
  <2> QED
    BY <2>1
<1>2. ASSUME NEW m \in 1 .. n, m - 1 \in G PROVE m \in G
  <2>1. PICK f \in [0 .. m - 1 -> V] : Built(f, m - 1)
    BY <1>2
  <2> DEFINE v == F[m][f[m - 1]]
             u == [k \in 0 .. m |-> IF k = m THEN v ELSE f[k]]
  <2>2. m - 1 \in 0 .. m - 1 /\ 0 \in 0 .. m - 1 /\ 0 # m
        /\ \A k \in 0 .. m : k = m \/ k \in 0 .. m - 1
    OBVIOUS
  <2>3. v \in V
    BY <2>2
  <2>4. u \in [0 .. m -> V]
    BY <2>2, <2>3
  <2>5. \A k \in 1 .. m - 1 : k \in 0 .. m /\ k # m /\ k - 1 \in 0 .. m /\ k - 1 # m
    OBVIOUS
  <2>6. u[0] = e /\ \A k \in 1 .. m - 1 : u[k] = F[k][u[k - 1]]
    BY <2>1, <2>2, <2>5
  <2>7. u[m] = v /\ u[m - 1] = f[m - 1]
    OBVIOUS
  <2>8. Built(u, m)
    <3>1. \A k \in 1 .. m : k = m \/ k \in 1 .. m - 1
      OBVIOUS
    <3> HIDE DEF u
    <3> QED
      BY <2>6, <2>7, <3>1
  <2> HIDE DEF Built
  <2> QED
    BY <2>4, <2>8
<1> HIDE DEF G
<1>3. n \in G
  BY <1>1, <1>2, Climb
<1> QED
  BY <1>3 DEF G, Steps

\* A function on 1 .. n is a sequence.
LEMMA SequenceIs == ASSUME NEW S, NEW n \in Nat, NEW f \in [1 .. n -> S] PROVE f \in Seq(S) /\ Len(f) = n
OBVIOUS

\* A set of numbers has a first one.
LEMMA FirstIs ==
    ASSUME NEW K \in SUBSET Nat, K # {} PROVE \E m \in K : \A k \in K : m <= k
<1> DEFINE Less == {ss \in Nat \X Nat : ss[1] < ss[2]}
<1>1. IsWellFoundedOn(Less, Nat)
  BY NatLessThanWellFounded DEF OpToRel
<1>2. \A x, y \in K : ~(<<y, x>> \in Less) => x <= y
  OBVIOUS
<1> HIDE DEF Less
<1>3. PICK m \in K : \A y \in K : ~(<<y, m>> \in Less)
  BY <1>1, WFMin
<1> QED
  BY <1>2, <1>3

\* A set of numbers has a k-th number.
LEMMA PlaceIs ==
    ASSUME NEW n \in Nat, NEW S \in SUBSET (0 .. n)
    PROVE  /\ Cardinality(S) \in 0 .. n + 1
           /\ \A k \in 1 .. Cardinality(S) : \E x \in S : Cardinality({y \in S : y < x}) = k - 1
<1> DEFINE Below(x) == {y \in S : y < x}
           c(x) == Cardinality(Below(x))
<1>0. \A y \in S : y \in Nat /\ y <= n
  OBVIOUS
<1>1. IsFiniteSet(S) /\ Cardinality(S) \in 0 .. n + 1
  <2>1. IsFiniteSet(0 .. n) /\ Cardinality(0 .. n) = n + 1
    BY FS_Interval
  <2>2. IsFiniteSet(S) /\ Cardinality(S) <= Cardinality(0 .. n)
    BY <2>1, FS_Subset
  <2> QED
    BY <2>1, <2>2, FS_CardinalityType
<1>2. ASSUME NEW x \in 0 .. n + 1
      PROVE  /\ c(x) \in Nat /\ (x = 0 => c(x) = 0) /\ (x = n + 1 => c(x) = Cardinality(S))
             /\ x > 0 => c(x) = (IF x - 1 \in S THEN c(x - 1) + 1 ELSE c(x - 1))
  <2>1. Below(x) \in SUBSET S /\ Below(x - 1) \in SUBSET S
    OBVIOUS
  <2>2. IsFiniteSet(Below(x)) /\ IsFiniteSet(Below(x - 1))
    BY <1>1, <2>1, FS_Subset
  <2>3. c(x) \in Nat /\ c(x - 1) \in Nat
    BY <2>2, FS_CardinalityType
  <2>4. x = 0 => Below(x) = {}
    <3>1. \A y \in S : ~(y < 0)
      BY <1>0
    <3> QED
      BY <3>1
  <2>5. x = n + 1 => Below(x) = S
    <3>1. \A y \in S : y < n + 1
      BY <1>0
    <3> QED
      BY <3>1
  <2>6. x > 0 => Below(x) = (IF x - 1 \in S THEN Below(x - 1) \cup {x - 1} ELSE Below(x - 1))
                 /\ x - 1 \notin Below(x - 1)
    <3>1. \A y \in S : y < x <=> y < x - 1 \/ y = x - 1
      BY <1>0
    <3>2. x - 1 \notin Below(x - 1)
      OBVIOUS
    <3> QED
      BY <3>1, <3>2
  <2> HIDE DEF Below
  <2>7. x - 1 \notin Below(x - 1) => Cardinality(Below(x - 1) \cup {x - 1}) = c(x - 1) + 1
    BY <2>2, FS_AddElement
  <2> QED
    BY <2>3, <2>4, <2>5, <2>6, <2>7, FS_EmptySet
<1>3. ASSUME NEW k \in 1 .. Cardinality(S) PROVE \E x \in S : c(x) = k - 1
  <2> DEFINE T == {x \in 0 .. n + 1 : c(x) >= k}
  <2>0. k \in Nat /\ k >= 1 /\ k <= Cardinality(S)
    BY <1>1
  <2>1. n + 1 \in T
    <3>1. n + 1 \in 0 .. n + 1
      OBVIOUS
    <3>2. c(n + 1) = Cardinality(S)
      BY <1>2, <3>1
    <3> QED
      BY <1>1, <2>0, <3>1, <3>2
  <2>2. T \in SUBSET Nat /\ T # {}
    <3>1. T \in SUBSET (0 .. n + 1)
      OBVIOUS
    <3> HIDE DEF T
    <3> QED
      BY <2>1, <3>1
  <2>3. PICK m \in T : \A t \in T : m <= t
    <3> HIDE DEF T
    <3> QED
      BY <2>2, FirstIs
  <2>4. m \in 0 .. n + 1 /\ c(m) >= k
    BY <2>3
  <2>5. m # 0
    <3>0. 0 \in 0 .. n + 1
      OBVIOUS
    <3> HIDE DEF c
    <3>1. c(0) = 0
      BY <1>2, <3>0
    <3> QED
      BY <2>0, <2>4, <3>1
  <2>6. m - 1 \in 0 .. n + 1 /\ m - 1 \notin T
    <3>1. m - 1 \in 0 .. n + 1 /\ ~(m <= m - 1)
      BY <2>4, <2>5
    <3>2. \A t \in T : m <= t
      BY <2>3
    <3> HIDE DEF T
    <3> QED
      BY <3>1, <3>2
  <2>7. c(m - 1) < k /\ c(m - 1) \in Nat /\ c(m) \in Nat
    <3>1. c(m - 1) \in Nat /\ c(m) \in Nat
      BY <1>2, <2>4, <2>6
    <3>2. ~(c(m - 1) >= k)
      BY <2>6
    <3> HIDE DEF c
    <3> QED
      BY <2>0, <3>1, <3>2
  <2> HIDE DEF c
  <2>8. m - 1 \in S /\ c(m - 1) = k - 1
    BY <1>2, <2>0, <2>4, <2>5, <2>7
  <2> QED
    BY <2>8
<1> QED
  BY <1>1, <1>3

\* A sorted set of numbers lists members of the set only.
LEMMA OrderedIs ==
    ASSUME NEW n \in Nat, NEW S \in SUBSET (0 .. n)
    PROVE  /\ AViewer!Ordered(S) \in Seq(S) /\ Len(AViewer!Ordered(S)) \in 0 .. n + 1
           /\ AList!Ordered(S) \in Seq(S) /\ Len(AList!Ordered(S)) \in 0 .. n + 1
           /\ S = {} => Len(AViewer!Ordered(S)) = 0 /\ Len(AList!Ordered(S)) = 0
<1> DEFINE c == Cardinality(S)
<1>1. \A T : AViewer!Cardinality(T) = Cardinality(T) /\ AList!Cardinality(T) = Cardinality(T)
  BY DEF AViewer!Cardinality, AList!Cardinality, Cardinality
<1>2. c \in 0 .. n + 1 /\ (S = {} => c = 0)
  BY PlaceIs, FS_EmptySet
<1>3. ASSUME NEW k \in 1 .. c
      PROVE  /\ (CHOOSE x \in S : AViewer!Cardinality({y \in S : y < x}) = k - 1) \in S
             /\ (CHOOSE x \in S : AList!Cardinality({y \in S : y < x}) = k - 1) \in S
  <2>1. PICK x \in S : Cardinality({y \in S : y < x}) = k - 1
    BY PlaceIs
  <2>2. /\ AViewer!Cardinality({y \in S : y < x}) = k - 1
        /\ AList!Cardinality({y \in S : y < x}) = k - 1
    BY <1>1, <2>1
  <2> QED
    BY <2>2
<1>4. AViewer!Ordered(S) \in [1 .. c -> S] /\ AList!Ordered(S) \in [1 .. c -> S]
  BY <1>1, <1>3 DEF AViewer!Ordered, AList!Ordered
<1> HIDE DEF c
<1> QED
  BY <1>2, <1>4

-----------------------------------------------------------------------------
(* ap_options_list.                                                        *)

\* ap_options_list: the cursor and the window are in the list.
OptTyped(s) ==
    /\ s \in [kind : {"options", "done"}, opts : {s.opts}, items : Seq(OptRow), cursor : Nat, top : Nat,
              running : {s.running}, action : {s.action}, focused : {s.focused}, drawn : {s.drawn}]
    /\ s.cursor < Len(s.items) /\ s.top < Len(s.items)
OptInv == OptTyped(w) /\ (w.drawn # <<>> => \E k \in DOMAIN w.drawn : w.drawn[k].row = w.cursor)

\* An options list that opens has its cursor and window in the list.
LEMMA OptStarts == ASSUME OptSetting, AOptions!OptInit PROVE OptInv
<1>1. PICK o \in OptOpts : w = AOptions!OpenOptions(o)
  BY DEF AOptions!OptInit
<1>2. o.items \in Seq(OptRow) /\ Len(o.items) \in Nat \ {0} /\ o.initial \in Int /\ o.top \in Int
      /\ OptRows \in Nat \ {0}
  BY DEF OptSetting
<1>3. /\ AOptions!Clamp(o.initial, 0, Len(o.items) - 1) \in 0 .. Len(o.items) - 1
      /\ AOptions!Clamp(o.top, 0, IF Len(o.items) > OptRows THEN Len(o.items) - OptRows ELSE 0)
            \in 0 .. Len(o.items) - 1
  BY <1>2 DEF AOptions!Clamp
<1> QED
  BY <1>1, <1>2, <1>3 DEF AOptions!OpenOptions, OptInv, OptTyped

\* What keeps the rows and leaves the cursor among them keeps the frame whole.
LEMMA OptMoves ==
    ASSUME OptTyped(w)
    PROVE  /\ \A c \in 0 .. Len(w.items) - 1 : OptTyped([w EXCEPT !.cursor = c])
           /\ \A s, a : OptTyped(s) => OptTyped(AOptions!Answer(s, a))
           /\ \A t \in Seq(OptRow) : Len(t) = Len(w.items) => OptTyped([w EXCEPT !.items = t])
           /\ \A s : OptTyped(s) /\ AOptions!Then(s) => OptInv'
<1>1. ASSUME NEW c \in 0 .. Len(w.items) - 1 PROVE OptTyped([w EXCEPT !.cursor = c])
  BY DEF OptTyped
<1>2. ASSUME NEW s, NEW a, OptTyped(s) PROVE OptTyped(AOptions!Answer(s, a))
  BY <1>2 DEF OptTyped, AOptions!Answer
<1>3. ASSUME NEW t \in Seq(OptRow), Len(t) = Len(w.items) PROVE OptTyped([w EXCEPT !.items = t])
  BY <1>3 DEF OptTyped
<1>4. ASSUME NEW s, OptTyped(s), AOptions!Then(s) PROVE OptInv'
  <2>1. w' = [s EXCEPT !.drawn = <<>>]
    BY <1>4 DEF AOptions!Then
  <2>2. OptTyped(w)' /\ w'.drawn = <<>>
    BY <1>4, <2>1 DEF OptTyped
  <2> QED
    BY <2>2 DEF OptInv
<1> QED
  BY <1>1, <1>2, <1>3, <1>4

\* A row that is replaced.
LEMMA RowSet ==
    ASSUME OptTyped(w), NEW x \in OptRow
    PROVE  OptTyped([w EXCEPT !.items[w.cursor + 1] = x])
<1> DEFINE t == [w.items EXCEPT ![w.cursor + 1] = x]
<1>1. t \in Seq(OptRow) /\ Len(t) = Len(w.items)
  BY DEF OptTyped
<1>2. [w EXCEPT !.items[w.cursor + 1] = x] = [w EXCEPT !.items = t]
  BY DEF OptTyped
<1> HIDE DEF t
<1> QED
  BY <1>1, <1>2, OptMoves

\* Another option of the row under the cursor.
LEMMA Cycles == ASSUME OptTyped(w), NEW d \in {-1, 1}, AOptions!ValidIndex(AOptions!Here) >= 0
                PROVE OptTyped(AOptions!Cycle(d))
<1> DEFINE h == AOptions!Here
           k == AOptions!ValidIndex(h)
           next == IF k + d < 0 THEN h.count - 1 ELSE IF k + d >= h.count THEN 0 ELSE k + d
           s == [w EXCEPT !.items[w.cursor + 1].sel = next]
<1>1. h \in OptRow /\ h = w.items[w.cursor + 1]
  BY DEF OptTyped, AOptions!Here
<1>2. k \in Int
  BY <1>1 DEF AOptions!ValidIndex, AOptions!Clamp, OptRow
<1>3. next \in Int
  BY <1>1, <1>2 DEF OptRow
<1> HIDE DEF h, k, next
<1>4. [h EXCEPT !.sel = next] \in OptRow
  BY <1>1, <1>3 DEF OptRow
<1>5. s = [w EXCEPT !.items[w.cursor + 1] = [h EXCEPT !.sel = next]]
  BY <1>1 DEF OptTyped
<1>6. OptTyped(s)
  BY <1>4, <1>5, RowSet
<1>7. OptTyped(AOptions!FinishChanged(s))
  BY <1>6, OptMoves DEF AOptions!FinishChanged
<1> QED
  BY <1>7 DEF AOptions!Cycle, h, k, next

\* Pulling the index of a row into its range leaves a row.
LEMMA PulledIs == \A x \in OptRow : AOptions!Pulled(x) \in OptRow
BY DEF OptRow, AOptions!Pulled, AOptions!ValidIndex, AOptions!Clamp

\* Every event and every frame of the options list keeps its invariant.
LEMMA OptSteps == ASSUME OptSetting, OptInv, AOptions!OptNext PROVE OptInv'
<1>1. OptTyped(w) /\ Len(w.items) \in Nat \ {0} /\ OptRows \in Nat \ {0}
  BY DEF OptInv, OptTyped, OptSetting
<1>2. AOptions!Here \in OptRow
  BY <1>1 DEF OptTyped, AOptions!Here
<1>3. ASSUME NEW rep \in BOOLEAN, AOptions!Up(rep) PROVE OptInv'
  <2> DEFINE c == IF w.cursor > 0 THEN w.cursor - 1 ELSE IF rep THEN w.cursor ELSE Len(w.items) - 1
  <2>1. c \in 0 .. Len(w.items) - 1
    BY <1>1 DEF OptTyped
  <2> HIDE DEF c
  <2>2. AOptions!Then([w EXCEPT !.cursor = c])
    BY <1>3 DEF AOptions!Up, AOptions!N, c
  <2> QED
    BY <1>1, <2>1, <2>2, OptMoves
<1>4. ASSUME NEW rep \in BOOLEAN, AOptions!Down(rep) PROVE OptInv'
  <2> DEFINE c == IF w.cursor < Len(w.items) - 1 THEN w.cursor + 1 ELSE IF rep THEN w.cursor ELSE 0
  <2>1. c \in 0 .. Len(w.items) - 1
    BY <1>1 DEF OptTyped
  <2> HIDE DEF c
  <2>2. AOptions!Then([w EXCEPT !.cursor = c])
    BY <1>4 DEF AOptions!Down, AOptions!N, c
  <2> QED
    BY <1>1, <2>1, <2>2, OptMoves
<1>5. ASSUME NEW d \in {-1, 1}, AOptions!Step(d) PROVE OptInv'
  <2>1. AOptions!Pulled(AOptions!Here) \in OptRow
    BY <1>2, PulledIs
  <2>2. OptTyped([w EXCEPT !.items[w.cursor + 1] = AOptions!Pulled(AOptions!Here)])
    BY <1>1, <2>1, RowSet
  <2>3. [w EXCEPT !.items[w.cursor + 1] = AOptions!Pulled(AOptions!Here)]
           = [w EXCEPT !.items[w.cursor + 1] = AOptions!Pulled(@)]
    BY DEF AOptions!Here
  <2>4. \/ AOptions!Then(AOptions!Cycle(d)) /\ AOptions!ValidIndex(AOptions!Here) >= 0
        \/ AOptions!Then([w EXCEPT !.items[w.cursor + 1] = AOptions!Pulled(@)])
    BY <1>5, Zenon DEF AOptions!Step
  <2> QED
    BY <1>1, <2>2, <2>3, <2>4, Cycles, OptMoves
<1>6. ASSUME NEW v \in {"", "new"}, AOptions!PressA(v) PROVE OptInv'
  <2>1. OptTyped(AOptions!Nested(v))
    <3> DEFINE row == AOptions!Pulled(AOptions!Here)
               new == IF v = "" \/ row.count <= 0 THEN row ELSE [row EXCEPT !.value = v]
    <3>1. row \in OptRow
      BY <1>2, PulledIs
    <3>2. new \in OptRow
      <4> HIDE DEF row
      <4>1. v # "" => v \in OptValues
        BY DEF OptValues
      <4>2. v \in OptValues => [row EXCEPT !.value = v] \in OptRow
        <5> HIDE DEF OptValues
        <5> QED
          BY <3>1 DEF OptRow
      <4> QED
        BY <3>1, <4>1, <4>2
    <3> HIDE DEF new
    <3>3. OptTyped([w EXCEPT !.items[w.cursor + 1] = new])
      BY <1>1, <3>2, RowSet
    <3> QED
      BY <1>1, <3>3, OptMoves DEF AOptions!Nested, new
  <2>2. AOptions!ValidIndex(AOptions!Here) >= 0 => OptTyped(AOptions!Cycle(1))
    BY <1>1, Cycles
  <2>3. \A a : OptTyped(AOptions!Answer(w, a))
    BY <1>1, OptMoves
  <2>4. \E s : OptTyped(s) /\ AOptions!Then(s)
    BY <1>1, <1>2, <1>6, <2>1, <2>2, <2>3 DEF AOptions!PressA, OptRow
  <2> QED
    BY <1>1, <2>4, OptMoves
<1>7. ASSUME AOptions!PressB \/ AOptions!Menu \/ \E b \in {"X", "START"} : AOptions!OptionButton(b)
      PROVE  OptInv'
  BY <1>1, <1>7, OptMoves DEF AOptions!PressB, AOptions!Menu, AOptions!OptionButton
<1>8. ASSUME AOptions!Frame PROVE OptInv'
  <2> DEFINE t == AOptions!Scrolled(w.cursor, w.top)
             items == [k \in DOMAIN w.items |-> IF k - 1 \in t .. t + OptRows - 1
                                                THEN AOptions!Pulled(w.items[k]) ELSE w.items[k]]
             s == [w EXCEPT !.top = t, !.items = items]
             n == Len(w.items)
  <2>1. t \in 0 .. n - 1 /\ t <= w.cursor /\ w.cursor < t + OptRows
    BY <1>1 DEF AOptions!Scrolled, OptTyped
  <2>2. items \in Seq(OptRow) /\ Len(items) = n
    <3>1. w.items \in Seq(OptRow) /\ DOMAIN w.items = 1 .. n /\ \A k \in 1 .. n : w.items[k] \in OptRow
      BY <1>1 DEF OptTyped
    <3>2. items \in [1 .. n -> OptRow]
      BY <3>1, PulledIs
    <3>3. n \in Nat
      BY <1>1
    <3> HIDE DEF items, n
    <3> QED
      BY <3>2, <3>3, SequenceIs
  <2> HIDE DEF t, items
  <2>3. w' = [s EXCEPT !.drawn = AOptions!Drawn(s), !.kind = IF w.running THEN "options" ELSE "done"]
    BY <1>8 DEF AOptions!Frame, t, items
  <2>4. s.items = items /\ s.top = t /\ s.cursor = w.cursor /\ OptTyped(s)
    <3>1. t \in Nat /\ t < n
      BY <1>1, <2>1
    <3> HIDE DEF n
    <3>2. s.items = items /\ s.top = t /\ s.cursor = w.cursor
      BY <1>1 DEF OptTyped
    <3>3. OptTyped(s)
      BY <1>1, <2>2, <3>1 DEF OptTyped, n
    <3> QED
      BY <3>2, <3>3
  <2> HIDE DEF s
  <2>5. OptTyped(w') /\ w'.drawn = AOptions!Drawn(s) /\ w'.cursor = w.cursor
    BY <2>3, <2>4 DEF OptTyped
  <2>6. \E k \in DOMAIN AOptions!Drawn(s) : AOptions!Drawn(s)[k].row = w.cursor
    <3>1. w.cursor - t + 1 \in 1 .. (IF n - t < OptRows THEN n - t ELSE OptRows)
      BY <1>1, <2>1 DEF OptTyped
    <3>2. t + (w.cursor - t + 1) - 1 = w.cursor
      BY <1>1, <2>1 DEF OptTyped
    <3> QED
      BY <2>2, <2>4, <3>1, <3>2 DEF AOptions!Drawn, AOptions!N
  <2> QED
    BY <2>5, <2>6 DEF OptInv
<1> QED
  BY <1>3, <1>4, <1>5, <1>6, <1>7, <1>8 DEF AOptions!OptNext

\* The cursor of the options list is drawn.
LEMMA OptHolds == ASSUME OptInv PROVE AOptions!CursorShown
BY DEF OptInv, AOptions!CursorShown

-----------------------------------------------------------------------------
(* ap_list.                                                                *)

\* ap_list: the cursor and the window are in the list, the rows are those the
\* caller gave, and the jump index is the one of their order.
ListShape(s) ==
    s \in [kind : {"list", "done"}, opts : {s.opts}, items : Seq(ListRow), cursor : Nat, top : Nat,
           reorder : BOOLEAN, alpha : {s.alpha}, help : {s.help}, running : {s.running},
           action : {s.action}, selected : {s.selected}, drawn : {s.drawn}]
ListTyped(s) ==
    /\ ListShape(s) /\ s.cursor < Len(s.items) /\ s.top < Len(s.items)
    /\ Len(s.items) = Len(s.opts.items) /\ AList!Ids(s.items) = AList!Ids(s.opts.items)
    /\ ~s.reorder => s.alpha = AList!BuildAlpha(s.items)
ListInv(s) == ListTyped(s) /\ (s.drawn # <<>> => \E k \in DOMAIN s.drawn : s.drawn[k].here)

\* The properties of the list follow from its invariant.
LEMMA ListHolds ==
    ASSUME ListInv(w) PROVE AList!CursorShown /\ AList!AlphaFresh /\ AList!SameRows
BY DEF ListInv, ListTyped, AList!CursorShown, AList!AlphaFresh, AList!SameRows

\* A list that opens has its cursor and window in the list.
LEMMA ListStarts == ASSUME ListSetting, AList!ListInit PROVE ListInv(w)
<1>1. PICK o \in ListOpts : w = AList!OpenList(o)
  BY DEF AList!ListInit
<1>2. o.items \in Seq(ListRow) /\ Len(o.items) \in Nat \ {0} /\ o.initial \in Int /\ o.top \in Int
      /\ ListRows \in Nat \ {0}
  BY DEF ListSetting
<1>3. /\ AList!Clamp(o.initial, 0, Len(o.items) - 1) \in 0 .. Len(o.items) - 1
      /\ AList!Clamp(o.top, 0, IF Len(o.items) > ListRows THEN Len(o.items) - ListRows ELSE 0)
            \in 0 .. Len(o.items) - 1
  BY <1>2 DEF AList!Clamp
<1> QED
  BY <1>1, <1>2, <1>3 DEF AList!OpenList, ListInv, ListTyped, ListShape

\* The jump index leads into the list.
LEMMA AlphaIs ==
    ASSUME NEW items \in Seq(ListRow), Len(items) \in Nat \ {0}
    PROVE  LET a == AList!BuildAlpha(items)
           IN  /\ \A k \in 1 .. Len(items) : a.of[k] \in Int
               /\ Len(a.starts) \in Nat
               /\ \A k \in 1 .. Len(a.starts) : a.starts[k] \in 0 .. Len(items) - 1
<1> DEFINE n == Len(items)
           heads == {k \in DOMAIN items : k = 1 \/ items[k].group # items[k - 1].group}
           from == {k - 1 : k \in {h \in heads : AList!Cardinality({g \in heads : g <= h}) <= AlphaGroups}}
           kept == AList!Ordered(from)
           of == [k \in DOMAIN items |-> AList!Cardinality({j \in DOMAIN kept : kept[j] <= k - 1}) - 1]
<1>1. AList!BuildAlpha(items) = [starts |-> kept, of |-> of]
  BY Zenon DEF AList!BuildAlpha
<1>2. DOMAIN items = 1 .. n /\ n - 1 \in Nat /\ n \in Nat
  OBVIOUS
<1> HIDE DEF n
<1>3. from \in SUBSET (0 .. n - 1)
  <2>1. \A k \in heads : k \in 1 .. n
    BY <1>2
  <2> HIDE DEF heads
  <2>2. ASSUME NEW k \in heads PROVE k - 1 \in 0 .. n - 1
    <3>1. k \in 1 .. n /\ n - 1 \in Nat /\ n \in Nat
      BY <1>2, <2>1
    <3> QED
      BY <3>1
  <2> QED
    BY <2>2
<1> HIDE DEF from
<1>4. kept \in Seq(from) /\ Len(kept) \in Nat
  <2>1. AList!Ordered(from) \in Seq(from) /\ Len(AList!Ordered(from)) \in 0 .. (n - 1) + 1
    BY <1>2, <1>3, OrderedIs
  <2>2. kept \in Seq(from)
    BY <2>1
  <2> HIDE DEF kept
  <2> QED
    BY <2>2
<1> HIDE DEF kept
<1>5. \A k \in 1 .. Len(kept) : kept[k] \in 0 .. n - 1
  <2>1. \A k \in 1 .. Len(kept) : kept[k] \in from
    BY <1>4
  <2> QED
    BY <1>3, <2>1
<1>6. \A k \in 1 .. n : of[k] \in Int
  <2>1. ASSUME NEW k \in 1 .. n PROVE AList!Cardinality({j \in DOMAIN kept : kept[j] <= k - 1}) \in Int
    <3> DEFINE T == {j \in DOMAIN kept : kept[j] <= k - 1}
    <3>1. T \in SUBSET (1 .. Len(kept))
      BY <1>4
    <3>2. IsFiniteSet(1 .. Len(kept))
      BY <1>4, FS_Interval
    <3> HIDE DEF T
    <3>3. Cardinality(T) \in Nat
      BY <3>1, <3>2, FS_Subset, FS_CardinalityType
    <3>4. AList!Cardinality(T) = Cardinality(T)
      BY DEF AList!Cardinality, Cardinality
    <3> QED
      BY <3>3, <3>4 DEF T
  <2>2. ASSUME NEW k \in 1 .. n PROVE of[k] \in Int
    <3> DEFINE c == AList!Cardinality({j \in DOMAIN kept : kept[j] <= k - 1})
    <3>1. of[k] = c - 1 /\ c \in Int
      BY <1>2, <2>1
    <3> HIDE DEF c, of
    <3> QED
      BY <3>1
  <2> HIDE DEF of
  <2> QED
    BY <2>2
<1> HIDE DEF of
<1> QED
  BY <1>1, <1>4, <1>5, <1>6 DEF n

\* The jump index depends on the letters of the rows only.
LEMMA AlphaSame ==
    ASSUME NEW s, NEW t, DOMAIN s = DOMAIN t, \A k \in DOMAIN s : s[k].group = t[k].group,
           \A k \in DOMAIN s : k # 1 => k - 1 \in DOMAIN s
    PROVE  AList!BuildAlpha(s) = AList!BuildAlpha(t)
<1> DEFINE H(items) == {k \in DOMAIN items : k = 1 \/ items[k].group # items[k - 1].group}
           kept(items) == AList!Ordered({k - 1 : k \in {h \in H(items) :
                             AList!Cardinality({g \in H(items) : g <= h}) <= AlphaGroups}})
<1>1. H(s) = H(t)
  OBVIOUS
<1>2. \A items : AList!BuildAlpha(items) =
         [starts |-> kept(items),
          of |-> [k \in DOMAIN items |-> AList!Cardinality({j \in DOMAIN kept(items) : kept(items)[j] <= k - 1}) - 1]]
  BY Zenon DEF AList!BuildAlpha
<1> HIDE DEF H
<1>3. kept(s) = kept(t)
  BY <1>1
<1> HIDE DEF kept
<1> QED
  BY <1>2, <1>3

\* What leaves the cursor among the rows keeps the frame whole.
LEMMA ListMoves ==
    ASSUME ListTyped(w)
    PROVE  /\ \A c \in 0 .. Len(w.items) - 1 : ListTyped([w EXCEPT !.cursor = c])
           /\ \A s, a : ListTyped(s) => ListTyped(AList!Answer(s, a))
           /\ \A s : ListTyped(s) /\ AList!Then(s) => ListInv(w')
<1>1. ASSUME NEW c \in 0 .. Len(w.items) - 1 PROVE ListTyped([w EXCEPT !.cursor = c])
  BY DEF ListTyped, ListShape
<1>2. ASSUME NEW s, NEW a, ListTyped(s) PROVE ListTyped(AList!Answer(s, a))
  BY <1>2 DEF ListTyped, ListShape, AList!Answer
<1>3. ASSUME NEW s, ListTyped(s), AList!Then(s) PROVE ListInv(w')
  <2>1. w' = [s EXCEPT !.drawn = <<>>]
    BY <1>3 DEF AList!Then
  <2>2. ListTyped(w') /\ w'.drawn = <<>>
    BY <1>3, <2>1 DEF ListTyped, ListShape
  <2> QED
    BY <2>2 DEF ListInv
<1> QED
  BY <1>1, <1>2, <1>3

\* Two rows change places.
LEMMA Swaps ==
    ASSUME ListTyped(w), w.reorder, NEW c \in 0 .. Len(w.items) - 1, c # w.cursor
    PROVE  ListTyped([w EXCEPT !.cursor = c, !.items = AList!Swap(w.items, w.cursor, c)])
<1> DEFINE items == w.items
           i == w.cursor + 1
           j == c + 1
           t == [items EXCEPT ![i] = items[j], ![j] = items[i]]
<1>1. items \in Seq(ListRow) /\ i \in 1 .. Len(items) /\ j \in 1 .. Len(items) /\ i # j /\ c \in Nat
  BY DEF ListTyped, ListShape
<1>2. DOMAIN items = 1 .. Len(items) /\ Len(items) \in Nat
  BY <1>1
<1> HIDE DEF items, i, j
<1>3. t \in Seq(ListRow) /\ Len(t) = Len(items) /\ DOMAIN t = DOMAIN items
      /\ t[i] = items[j] /\ t[j] = items[i] /\ \A k \in DOMAIN items : k # i /\ k # j => t[k] = items[k]
  BY <1>1, <1>2
<1> HIDE DEF t
<1>4. AList!Ids(t) = AList!Ids(items)
  <2>1. \A k \in DOMAIN items : \E m \in DOMAIN items : t[k] = items[m]
    BY <1>1, <1>2, <1>3
  <2>2. \A k \in DOMAIN items : \E m \in DOMAIN items : items[k] = t[m]
    BY <1>1, <1>2, <1>3
  <2>3. DOMAIN t = DOMAIN items
    BY <1>3
  <2> HIDE DEF t, items
  <2>4. AList!Ids(t) \subseteq AList!Ids(items)
    BY <2>1, <2>3 DEF AList!Ids
  <2>5. AList!Ids(items) \subseteq AList!Ids(t)
    BY <2>2, <2>3 DEF AList!Ids
  <2> QED
    BY <2>4, <2>5
<1>5. [w EXCEPT !.cursor = c, !.items = AList!Swap(w.items, w.cursor, c)] = [w EXCEPT !.cursor = c, !.items = t]
  BY DEF AList!Swap, t, i, j, items
<1>6. c < Len(t)
  BY <1>1, <1>2, <1>3 DEF items
<1> DEFINE s == [w EXCEPT !.cursor = c, !.items = t]
<1>7. /\ s.items = t /\ s.cursor = c /\ s.top = w.top /\ s.opts = w.opts /\ s.reorder = w.reorder
      /\ s.alpha = w.alpha
      /\ ListShape(s)
  BY <1>1, <1>3 DEF ListTyped, ListShape
<1> HIDE DEF s
<1>8. ListTyped(s)
  BY <1>3, <1>4, <1>6, <1>7 DEF ListTyped, items
<1> QED
  BY <1>5, <1>8 DEF s

\* A row is marked or unmarked.
LEMMA Marks ==
    ASSUME ListTyped(w) PROVE ListTyped([w EXCEPT !.items[w.cursor + 1].marked = ~@])
<1> DEFINE items == w.items
           i == w.cursor + 1
           row == [items[i] EXCEPT !.marked = ~@]
           t == [items EXCEPT ![i] = row]
<1>1. items \in Seq(ListRow) /\ i \in 1 .. Len(items) /\ DOMAIN items = 1 .. Len(items) /\ Len(items) \in Nat
  BY DEF ListTyped, ListShape
<1>2. row \in ListRow /\ row.id = items[i].id /\ row.group = items[i].group
  <2>1. items[i] \in ListRow
    BY <1>1
  <2> HIDE DEF items, i
  <2> QED
    BY <2>1 DEF ListRow
<1>3. [w EXCEPT !.items[w.cursor + 1].marked = ~@] = [w EXCEPT !.items = t]
  BY <1>1 DEF ListTyped, ListShape
<1> HIDE DEF row, items, i
<1>4. t \in Seq(ListRow) /\ Len(t) = Len(items) /\ DOMAIN t = DOMAIN items
      /\ t[i] = row /\ \A k \in DOMAIN items : k # i => t[k] = items[k]
  BY <1>1, <1>2
<1> HIDE DEF t
<1>5. \A k \in DOMAIN items : t[k].id = items[k].id /\ t[k].group = items[k].group
  BY <1>2, <1>4
<1>6. AList!Ids(t) = AList!Ids(items)
  BY <1>4, <1>5 DEF AList!Ids
<1>7. AList!BuildAlpha(t) = AList!BuildAlpha(items)
  <2>1. \A k \in DOMAIN items : k # 1 => k - 1 \in DOMAIN items
    BY <1>1
  <2> QED
    BY <1>4, <1>5, <2>1, AlphaSame
<1> QED
  BY <1>3, <1>4, <1>6, <1>7 DEF ListTyped, ListShape, items

\* Leaving the reorder mode makes the jump index that of the new order.
LEMMA Reorders ==
    ASSUME ListTyped(w)
    PROVE  ListTyped(AList!EndReorder(w)) /\ ListTyped([w EXCEPT !.reorder = TRUE])
BY DEF AList!EndReorder, ListTyped, ListShape

\* Every event and every frame of the list keeps its invariant.
LEMMA ListSteps == ASSUME ListSetting, ListInv(w), AList!ListNext PROVE ListInv(w')
<1> DEFINE n == Len(w.items)
<1>1. ListTyped(w) /\ n \in Nat \ {0} /\ ListRows \in Nat \ {0} /\ w.cursor \in 0 .. n - 1
      /\ w.cursor \in Nat /\ w.top \in 0 .. n - 1 /\ w.items \in Seq(ListRow)
  BY DEF ListInv, ListTyped, ListShape, ListSetting
<1>2. /\ \A c \in 0 .. n - 1 : ListTyped([w EXCEPT !.cursor = c])
      /\ \A a : ListTyped(AList!Answer(w, a))
      /\ \A s : ListTyped(s) /\ AList!Then(s) => ListInv(w')
  BY <1>1, ListMoves
<1> HIDE DEF n
<1>3. ASSUME NEW rep \in BOOLEAN, AList!Up(rep) PROVE ListInv(w')
  <2> DEFINE s == [w EXCEPT !.cursor = w.cursor - 1,
                            !.items = IF w.reorder THEN AList!Swap(w.items, w.cursor, w.cursor - 1) ELSE w.items]
  <2>1. w.cursor # 0 => w.cursor - 1 \in 0 .. n - 1 /\ w.cursor - 1 # w.cursor
    BY <1>1
  <2>2. w.cursor # 0 /\ w.reorder => ListTyped(s)
    BY <1>1, <2>1, Swaps DEF n
  <2>3. w.cursor # 0 /\ ~w.reorder => ListTyped(s)
    <3>1. ~w.reorder => s = [w EXCEPT !.cursor = w.cursor - 1]
      BY <1>1 DEF ListTyped, ListShape
    <3> HIDE DEF s
    <3> QED
      BY <1>2, <2>1, <3>1
  <2>4. ListTyped([w EXCEPT !.cursor = n - 1])
    <3>1. n - 1 \in 0 .. n - 1
      BY <1>1
    <3> QED
      BY <1>2, <3>1
  <2>5. AList!Then(IF w.cursor = 0
                   THEN IF rep \/ w.reorder THEN w ELSE [w EXCEPT !.cursor = n - 1] ELSE s)
    BY <1>3 DEF AList!Up, AList!N, n
  <2> HIDE DEF s
  <2> QED
    BY <1>1, <1>2, <2>2, <2>3, <2>4, <2>5
<1>4. ASSUME NEW rep \in BOOLEAN, AList!Down(rep) PROVE ListInv(w')
  <2> DEFINE s == [w EXCEPT !.cursor = w.cursor + 1,
                            !.items = IF w.reorder THEN AList!Swap(w.items, w.cursor, w.cursor + 1) ELSE w.items]
  <2>1. ~(w.cursor >= n - 1) => w.cursor + 1 \in 0 .. n - 1 /\ w.cursor + 1 # w.cursor
    BY <1>1
  <2>2. ~(w.cursor >= n - 1) /\ w.reorder => ListTyped(s)
    BY <1>1, <2>1, Swaps DEF n
  <2>3. ~(w.cursor >= n - 1) /\ ~w.reorder => ListTyped(s)
    <3>1. ~w.reorder => s = [w EXCEPT !.cursor = w.cursor + 1]
      BY <1>1 DEF ListTyped, ListShape
    <3> HIDE DEF s
    <3> QED
      BY <1>2, <2>1, <3>1
  <2>4. ListTyped([w EXCEPT !.cursor = 0])
    <3>1. 0 \in 0 .. n - 1
      BY <1>1
    <3> QED
      BY <1>2, <3>1
  <2>5. AList!Then(IF w.cursor >= n - 1
                   THEN IF rep \/ w.reorder THEN w ELSE [w EXCEPT !.cursor = 0] ELSE s)
    BY <1>4 DEF AList!Down, AList!N, n
  <2> HIDE DEF s
  <2> QED
    BY <1>1, <1>2, <2>2, <2>3, <2>4, <2>5
<1>5. ASSUME AList!PressA PROVE ListInv(w')
  <2>1. AList!Then([w EXCEPT !.items[w.cursor + 1].marked = ~@]) \/ AList!Then(AList!Answer(w, "selected"))
    BY <1>5, Zenon DEF AList!PressA
  <2> QED
    BY <1>1, <1>2, <2>1, Marks
<1>6. ASSUME AList!PressB PROVE ListInv(w')
  <2>1. ListTyped([w EXCEPT !.action = "back", !.running = FALSE])
    BY <1>1 DEF ListTyped, ListShape
  <2>2. AList!Then(AList!EndReorder(w)) \/ AList!Then([w EXCEPT !.action = "back", !.running = FALSE])
    BY <1>6, Zenon DEF AList!PressB
  <2> QED
    BY <1>1, <1>2, <2>1, <2>2, Reorders
<1>7. ASSUME NEW d \in {-1, 1}, AList!Page(d) PROVE ListInv(w')
  <2> DEFINE c == AList!Clamp(w.cursor + d * ListRows, 0, n - 1)
  <2>1. c \in 0 .. n - 1
    <3>1. d * ListRows \in Int
      BY <1>1
    <3> DEFINE x == w.cursor + d * ListRows
    <3>2. x \in Int
      BY <1>1, <3>1
    <3> HIDE DEF x
    <3>3. AList!Clamp(x, 0, n - 1) \in 0 .. n - 1
      BY <1>1, <3>2 DEF AList!Clamp
    <3> QED
      BY <3>3 DEF x
  <2>2. AList!Then(IF w.reorder THEN w ELSE [w EXCEPT !.cursor = c])
    BY <1>7 DEF AList!Page, AList!N, n
  <2> HIDE DEF c
  <2> QED
    BY <1>1, <1>2, <2>1, <2>2
<1>8. ASSUME NEW d \in {-1, 1}, AList!JumpAlpha(d) PROVE ListInv(w')
  <2> DEFINE g == w.alpha.of[w.cursor + 1] + d
  <2>1. AList!Then(IF ~w.reorder /\ g >= 0 /\ g < Len(w.alpha.starts)
                   THEN [w EXCEPT !.cursor = w.alpha.starts[g + 1]] ELSE w)
    BY <1>8 DEF AList!JumpAlpha
  <2>2. ~w.reorder /\ g >= 0 /\ g < Len(w.alpha.starts) => w.alpha.starts[g + 1] \in 0 .. n - 1
    <3> SUFFICES ASSUME ~w.reorder, g >= 0, g < Len(w.alpha.starts) PROVE w.alpha.starts[g + 1] \in 0 .. n - 1
      OBVIOUS
    <3> DEFINE a == AList!BuildAlpha(w.items)
    <3>1. w.alpha = a
      BY <1>1 DEF ListTyped
    <3>2. /\ \A k \in 1 .. n : a.of[k] \in Int
          /\ Len(a.starts) \in Nat
          /\ \A k \in 1 .. Len(a.starts) : a.starts[k] \in 0 .. n - 1
      BY <1>1, AlphaIs DEF n
    <3> HIDE DEF a
    <3> DEFINE of == a.of[w.cursor + 1]
               l == Len(a.starts)
    <3>3. w.cursor + 1 \in 1 .. n
      BY <1>1
    <3>4. of \in Int /\ l \in Nat /\ g = of + d
      BY <3>1, <3>2, <3>3
    <3>5. g >= 0 /\ g < l
      BY <3>1
    <3> HIDE DEF of, l, g
    <3>6. g + 1 \in 1 .. l
      BY <3>4, <3>5
    <3> QED
      BY <3>1, <3>2, <3>6 DEF l
  <2> HIDE DEF g
  <2> QED
    BY <1>1, <1>2, <2>1, <2>2
<1>9. ASSUME AList!Menu PROVE ListInv(w')
  <2>1. ListTyped([w EXCEPT !.help = w.opts.help])
    BY <1>1 DEF ListTyped, ListShape
  <2>2. AList!Then([w EXCEPT !.help = w.opts.help])
    BY <1>9 DEF AList!Menu
  <2> QED
    BY <1>2, <2>1, <2>2
<1>10. ASSUME NEW b, AList!OptionButton(b) PROVE ListInv(w')
  <2>1. \/ AList!Then(AList!Answer(w, w.opts.btn[b])) \/ AList!Then(AList!EndReorder(w))
        \/ AList!Then([w EXCEPT !.reorder = TRUE])
    BY <1>10, Zenon DEF AList!OptionButton
  <2> QED
    BY <1>1, <1>2, <2>1, Reorders
<1>11. ASSUME AList!Frame PROVE ListInv(w')
  <2> DEFINE t == AList!Scrolled(w.cursor, w.top, n)
             s == [w EXCEPT !.top = t, !.help = FALSE]
  <2>1. t \in 0 .. n - 1 /\ t <= w.cursor /\ w.cursor < t + ListRows /\ t \in Nat
    BY <1>1 DEF AList!Scrolled
  <2> HIDE DEF t
  <2>2. w' = [s EXCEPT !.drawn = AList!Drawn(s), !.kind = IF w.running THEN "list" ELSE "done"]
    BY <1>11 DEF AList!Frame, AList!N, t, n
  <2>3. s.items = w.items /\ s.top = t /\ s.cursor = w.cursor /\ s.reorder = w.reorder /\ s.alpha = w.alpha
        /\ s.opts = w.opts /\ ListShape(s)
    BY <1>1, <2>1 DEF ListTyped, ListShape
  <2>4. ListTyped(s)
    <3> HIDE DEF s
    <3>1. t < n
      BY <1>1, <2>1
    <3> QED
      BY <1>1, <2>3, <3>1 DEF ListTyped, n
  <2> HIDE DEF s
  <2>5. ListTyped(w') /\ w'.drawn = AList!Drawn(s)
    BY <2>2, <2>4 DEF ListTyped, ListShape
  <2>6. \E k \in DOMAIN AList!Drawn(s) : AList!Drawn(s)[k].here
    <3> DEFINE k == w.cursor - t + 1
               c == w.cursor
    <3>0. c \in Nat /\ c < n /\ n \in Nat
      BY <1>1
    <3> HIDE DEF c
    <3>1. c - t + 1 \in 1 .. (IF n - t < ListRows THEN n - t ELSE ListRows) /\ t + (c - t + 1) - 1 = c
      BY <1>1, <2>1, <3>0 DEF c
    <3>2. k \in 1 .. (IF n - t < ListRows THEN n - t ELSE ListRows) /\ t + k - 1 = w.cursor
      BY <3>1 DEF c
    <3> HIDE DEF k
    <3>3. AList!Drawn(s) = [i \in 1 .. (IF n - t < ListRows THEN n - t ELSE ListRows) |->
             [item |-> AList!Item(s, t + i - 1), here |-> t + i - 1 = w.cursor]]
      BY <2>3 DEF AList!Drawn, AList!N, n
    <3> DEFINE d == AList!Drawn(s)
           m == IF n - t < ListRows THEN n - t ELSE ListRows
           R(i) == [item |-> AList!Item(s, t + i - 1), here |-> t + i - 1 = w.cursor]
    <3>4. k \in DOMAIN d /\ d[k].here
      <4>1. d = [i \in 1 .. m |-> R(i)]
        BY <3>3
      <4>2. R(k).here
        BY <3>2
      <4>3. k \in 1 .. m
        BY <3>2
      <4> HIDE DEF d, m, R
      <4> QED
        BY <4>1, <4>2, <4>3
    <3> HIDE DEF d
    <3>5. \E i \in DOMAIN d : d[i].here
      BY <3>4
    <3> QED
      BY <3>5 DEF d
  <2> QED
    BY <2>5, <2>6 DEF ListInv
<1> QED
  BY <1>3, <1>4, <1>5, <1>6, <1>7, <1>8, <1>9, <1>10, <1>11 DEF AList!ListNext

-----------------------------------------------------------------------------
(* ap_keyboard and ap_url_keyboard: places in a text.                      *)

\* Places between two characters of a text.
IsBetween(t, i) == i \in 0 .. Len(t) /\ (i = 0 \/ ~AKeyboard!Continues(t, i))

\* ClampBoundary finds a place between characters, not behind the one asked for.
LEMMA ClampFinds ==
    ASSUME NEW t \in Seq(Nat), NEW i \in Int
    PROVE  /\ IsBetween(t, AKeyboard!ClampBoundary(t, i))
           /\ AKeyboard!ClampBoundary(t, i) <= AKeyboard!InText(t, i)
<1> DEFINE m == AKeyboard!InText(t, i)
           starts == {j \in 0 .. m : j = 0 \/ ~AKeyboard!Continues(t, j)}
<1>1. Len(t) \in Nat /\ m \in 0 .. Len(t)
  BY DEF AKeyboard!InText
<1> HIDE DEF m
<1>2. 0 \in starts /\ starts \in SUBSET (0 .. m)
  BY <1>1
<1>3. AKeyboard!ClampBoundary(t, i) = CHOOSE j \in starts : \A k \in starts : k <= j
  BY DEF AKeyboard!ClampBoundary, m
<1>4. \E j \in starts : \A k \in starts : k <= j
  <2> HIDE DEF starts
  <2>1. m \in Nat
    BY <1>1
  <2> QED
    BY <1>2, <2>1, LastIs
<1>5. AKeyboard!ClampBoundary(t, i) \in starts
  <2> HIDE DEF starts
  <2> QED
    BY <1>3, <1>4
<1>6. AKeyboard!ClampBoundary(t, i) \in 0 .. m
  BY <1>5
<1> QED
  BY <1>1, <1>5, <1>6 DEF IsBetween, m

\* PrevBoundary finds a place between characters.
LEMMA PrevFinds ==
    ASSUME NEW t \in Seq(Nat), NEW i \in Int PROVE IsBetween(t, AKeyboard!PrevBoundary(t, i))
<1> DEFINE at == AKeyboard!InText(t, i)
<1>1. at \in Int /\ at - 1 \in Int
  BY DEF AKeyboard!InText
<1>2. IsBetween(t, AKeyboard!ClampBoundary(t, at)) /\ IsBetween(t, AKeyboard!ClampBoundary(t, at - 1))
  BY <1>1, ClampFinds
<1>3. IsBetween(t, 0)
  BY DEF IsBetween
<1> QED
  BY <1>2, <1>3 DEF AKeyboard!PrevBoundary

\* NextBoundary finds a place between characters.
LEMMA NextFinds ==
    ASSUME NEW t \in Seq(Nat), NEW i \in Int PROVE IsBetween(t, AKeyboard!NextBoundary(t, i))
<1> DEFINE at == AKeyboard!InText(t, i)
           ends == {j \in at .. Len(t) : j > at /\ ~AKeyboard!Continues(t, j)}
<1>1. Len(t) \in Nat /\ at \in 0 .. Len(t)
  BY DEF AKeyboard!InText
<1>2. ~AKeyboard!Continues(t, Len(t))
  BY <1>1 DEF AKeyboard!Continues
<1>3. CASE at >= Len(t)
  BY <1>1, <1>2, <1>3 DEF AKeyboard!NextBoundary, IsBetween
<1>4. CASE at < Len(t)
  <2>1. AKeyboard!NextBoundary(t, i) = CHOOSE j \in ends : \A k \in ends : j <= k
    BY <1>1, <1>4 DEF AKeyboard!NextBoundary
  <2> HIDE DEF at
  <2>2. Len(t) \in ends /\ \A j \in ends : j \in 0 .. Len(t) /\ ~AKeyboard!Continues(t, j)
    BY <1>1, <1>2, <1>4
  <2> HIDE DEF ends
  <2>3. ends \in SUBSET Nat /\ ends # {}
    BY <2>2
  <2>4. AKeyboard!NextBoundary(t, i) \in ends
    BY <2>1, <2>3, FirstIs
  <2> QED
    BY <2>2, <2>4 DEF IsBetween
<1> QED
  BY <1>1, <1>3, <1>4

\* A character of a whole text: where it starts and that it is in the text.
LEMMA WholeIs ==
    ASSUME NEW t \in Seq(Nat)
    PROVE  AKeyboard!Whole(t) <=>
             \A i \in 1 .. Len(t) :
                /\ t[i] > 0 => i + t[i] - 1 <= Len(t)
                               /\ \A j \in 1 .. Len(t) : i < j /\ j < i + t[i] => t[j] = 0
                /\ t[i] = 0 => \E j \in 1 .. Len(t) : j < i /\ j + t[j] > i
<1>1. Len(t) \in Nat /\ \A i \in 1 .. Len(t) : t[i] \in Nat
  OBVIOUS
<1>2. ASSUME NEW i \in 1 .. Len(t), t[i] > 0, i + t[i] - 1 <= Len(t)
      PROVE  (\A j \in i + 1 .. i + t[i] - 1 : t[j] = 0)
               <=> \A j \in 1 .. Len(t) : i < j /\ j < i + t[i] => t[j] = 0
  <2>1. \A j : j \in i + 1 .. i + t[i] - 1 <=> j \in 1 .. Len(t) /\ i < j /\ j < i + t[i]
    <3> DEFINE v == t[i]
               n == Len(t)
    <3>1. v \in Nat /\ n \in Nat /\ i \in 1 .. n /\ i + v - 1 <= n
      BY <1>1, <1>2
    <3> HIDE DEF v, n
    <3>2. \A j : j \in i + 1 .. i + v - 1 <=> j \in 1 .. n /\ i < j /\ j < i + v
      BY <3>1
    <3> QED
      BY <3>2 DEF v, n
  <2> QED
    BY <2>1
<1>3. ASSUME NEW i \in 1 .. Len(t)
      PROVE  (\E j \in 1 .. i - 1 : j + t[j] > i) <=> \E j \in 1 .. Len(t) : j < i /\ j + t[j] > i
  <2>1. \A j : j \in 1 .. i - 1 <=> j \in 1 .. Len(t) /\ j < i
    BY <1>1
  <2> QED
    BY <2>1
<1>4. \A i \in 1 .. Len(t) : t[i] > 0 \/ t[i] = 0
  BY <1>1
<1> QED
  BY <1>1, <1>2, <1>3, <1>4 DEF AKeyboard!Whole

\* Behind a place between characters no character goes on.
LEMMA BetweenIs ==
    ASSUME NEW t \in Seq(Nat), AKeyboard!Whole(t), NEW b, IsBetween(t, b)
    PROVE  ~AKeyboard!Continues(t, b) /\ (b + 1 \in 1 .. Len(t) => t[b + 1] > 0)
<1>1. Len(t) \in Nat /\ b \in 0 .. Len(t) /\ \A i \in 1 .. Len(t) : t[i] \in Nat
  BY DEF IsBetween
<1>2. 1 \in 1 .. Len(t) => t[1] # 0
  BY <1>1, WholeIs
<1> QED
  BY <1>1, <1>2 DEF IsBetween, AKeyboard!Continues

\* Cut between two characters, both parts are whole.
LEMMA Cuts ==
    ASSUME NEW t \in Seq(Nat), AKeyboard!Whole(t), NEW b, IsBetween(t, b)
    PROVE  /\ SubSeq(t, 1, b) \in Seq(Nat) /\ Len(SubSeq(t, 1, b)) = b /\ AKeyboard!Whole(SubSeq(t, 1, b))
           /\ SubSeq(t, b + 1, Len(t)) \in Seq(Nat) /\ Len(SubSeq(t, b + 1, Len(t))) = Len(t) - b
           /\ AKeyboard!Whole(SubSeq(t, b + 1, Len(t)))
<1> DEFINE n == Len(t)
           a == SubSeq(t, 1, b)
           z == SubSeq(t, b + 1, n)
<1>1. n \in Nat /\ b \in 0 .. n /\ \A i \in 1 .. n : t[i] \in Nat
  BY DEF IsBetween
<1>2. a \in Seq(Nat) /\ Len(a) = b /\ \A i \in 1 .. b : a[i] = t[i]
  BY <1>1, SubSeqProperties
<1>3. z \in Seq(Nat) /\ Len(z) = n - b /\ \A i \in 1 .. n - b : z[i] = t[b + i]
  BY <1>1, SubSeqProperties
<1>4. b + 1 \in 1 .. n => t[b + 1] > 0
  BY BetweenIs
<1>5. \A i \in 1 .. n :
        /\ t[i] > 0 => i + t[i] - 1 <= n /\ \A j \in 1 .. n : i < j /\ j < i + t[i] => t[j] = 0
        /\ t[i] = 0 => \E j \in 1 .. n : j < i /\ j + t[j] > i
  BY WholeIs
<1> HIDE DEF a, z, n
<1>6. ASSUME NEW i \in 1 .. n, t[i] > 0, i <= b PROVE i + t[i] - 1 <= b
  <2>1. i + t[i] - 1 <= n /\ t[i] \in Nat
    BY <1>1, <1>5, <1>6
  <2>2. ~(i + t[i] - 1 > b)
    <3> SUFFICES ASSUME i + t[i] - 1 > b PROVE FALSE
      OBVIOUS
    <3> DEFINE v == t[i]
    <3>1. v \in Nat /\ i + v - 1 <= n /\ i + v - 1 > b
      BY <2>1
    <3> HIDE DEF v
    <3>2. b + 1 \in 1 .. n /\ i < b + 1 /\ b + 1 < i + v
      BY <1>1, <1>6, <3>1
    <3>3. t[b + 1] = 0
      BY <1>5, <1>6, <3>2 DEF v
    <3> QED
      BY <1>4, <3>2, <3>3
  <2> QED
    BY <1>1, <2>1, <2>2
<1>7. AKeyboard!Whole(a)
  <2>1. ASSUME NEW i \in 1 .. b
        PROVE  /\ a[i] > 0 => i + a[i] - 1 <= b /\ \A j \in 1 .. b : i < j /\ j < i + a[i] => a[j] = 0
               /\ a[i] = 0 => \E j \in 1 .. b : j < i /\ j + a[j] > i
    <3>1. i \in 1 .. n /\ a[i] = t[i] /\ \A j \in 1 .. b : j \in 1 .. n /\ a[j] = t[j]
      BY <1>1, <1>2
    <3>2. t[i] = 0 => \E j \in 1 .. b : j < i /\ j + t[j] > i
      BY <1>1, <1>5, <3>1
    <3>3. t[i] > 0 => i + t[i] - 1 <= b
      BY <1>1, <1>6, <3>1
    <3>4. \A j \in 1 .. b : t[i] > 0 /\ i < j /\ j < i + t[i] => t[j] = 0
      BY <1>5, <3>1
    <3> QED
      BY <3>1, <3>2, <3>3, <3>4
  <2> QED
    BY <1>2, <2>1, WholeIs
<1>8. AKeyboard!Whole(z)
  <2>1. ASSUME NEW i \in 1 .. n - b
        PROVE  /\ z[i] > 0 => i + z[i] - 1 <= n - b
                              /\ \A j \in 1 .. n - b : i < j /\ j < i + z[i] => z[j] = 0
               /\ z[i] = 0 => \E j \in 1 .. n - b : j < i /\ j + z[j] > i
    <3>1. b + i \in 1 .. n /\ z[i] = t[b + i] /\ t[b + i] \in Nat
      BY <1>1, <1>3
    <3>2. \A j \in 1 .. n - b : b + j \in 1 .. n /\ z[j] = t[b + j]
      BY <1>1, <1>3
    <3>3. ASSUME z[i] > 0 PROVE i + z[i] - 1 <= n - b
      <4>1. (b + i) + t[b + i] - 1 <= n
        BY <1>5, <3>1, <3>3
      <4>2. b \in Int /\ i \in Int /\ n \in Int
        BY <1>1
      <4> QED
        BY <3>1, <4>1, <4>2
    <3>4. ASSUME z[i] > 0, NEW j \in 1 .. n - b, i < j, j < i + z[i] PROVE z[j] = 0
      <4>1. b + i < b + j /\ b + j < (b + i) + t[b + i]
        BY <1>1, <3>1, <3>4
      <4> QED
        BY <1>5, <3>1, <3>2, <3>4, <4>1
    <3>5. ASSUME z[i] = 0 PROVE \E j \in 1 .. n - b : j < i /\ j + z[j] > i
      <4>1. PICK k \in 1 .. n : k < b + i /\ k + t[k] > b + i
        BY <1>5, <3>1, <3>5
      <4>2. k > b
        <5>1. CASE k <= b
          <6>1. t[k] \in Nat /\ t[k] > 0
            BY <1>1, <4>1
          <6>2. k + t[k] - 1 <= b
            BY <1>6, <5>1, <6>1
          <6> QED
            BY <1>1, <4>1, <6>1, <6>2
        <5> QED
          BY <1>1, <5>1
      <4>3. k - b \in 1 .. n - b /\ z[k - b] = t[k]
        <5>1. k - b \in 1 .. n - b /\ b + (k - b) = k
          BY <1>1, <4>2
        <5> QED
          BY <3>2, <5>1
      <4>4. k - b < i /\ (k - b) + z[k - b] > i
        BY <1>1, <4>1, <4>3
      <4> QED
        BY <4>3, <4>4
    <3> QED
      BY <3>3, <3>4, <3>5
  <2> QED
    BY <1>3, <2>1, WholeIs
<1> QED
  BY <1>2, <1>3, <1>7, <1>8 DEF a, z, n

\* Two whole texts make one, with a place between them.
LEMMA Joins ==
    ASSUME NEW a \in Seq(Nat), NEW z \in Seq(Nat), AKeyboard!Whole(a), AKeyboard!Whole(z)
    PROVE  AKeyboard!Whole(a \o z) /\ ~AKeyboard!Continues(a \o z, Len(a))
<1> DEFINE t == a \o z
           m == Len(a)
           n == Len(z)
<1>1. m \in Nat /\ n \in Nat /\ t \in Seq(Nat) /\ Len(t) = m + n
      /\ (\A i \in 1 .. m : t[i] = a[i] /\ a[i] \in Nat)
      /\ \A i \in m + 1 .. m + n : t[i] = z[i - m]
  BY ConcatProperties
<1>2. \A i \in 1 .. m :
        /\ a[i] > 0 => i + a[i] - 1 <= m /\ \A j \in 1 .. m : i < j /\ j < i + a[i] => a[j] = 0
        /\ a[i] = 0 => \E j \in 1 .. m : j < i /\ j + a[j] > i
  BY WholeIs
<1>3. \A i \in 1 .. n :
        /\ z[i] > 0 => i + z[i] - 1 <= n /\ \A j \in 1 .. n : i < j /\ j < i + z[i] => z[j] = 0
        /\ z[i] = 0 => \E j \in 1 .. n : j < i /\ j + z[j] > i
  BY WholeIs
<1>4. \A i \in 1 .. n : z[i] \in Nat
  OBVIOUS
<1> HIDE DEF t, m, n
<1>5. ASSUME NEW i \in 1 .. m + n
      PROVE  /\ t[i] > 0 => i + t[i] - 1 <= m + n
                            /\ \A j \in 1 .. m + n : i < j /\ j < i + t[i] => t[j] = 0
             /\ t[i] = 0 => \E j \in 1 .. m + n : j < i /\ j + t[j] > i
  <2>1. CASE i <= m
    <3>1. i \in 1 .. m /\ t[i] = a[i] /\ a[i] \in Nat
      BY <1>1, <2>1
    <3>2. t[i] > 0 => i + t[i] - 1 <= m
      BY <1>2, <3>1
    <3>3. ASSUME t[i] > 0, NEW j \in 1 .. m + n, i < j, j < i + t[i] PROVE t[j] = 0
      <4> DEFINE v == t[i]
      <4>0. v \in Nat /\ i + v - 1 <= m /\ j < i + v
        BY <3>1, <3>2, <3>3
      <4> HIDE DEF v
      <4>1. j \in 1 .. m
        BY <1>1, <3>1, <3>3, <4>0
      <4> QED
        BY <1>1, <1>2, <3>1, <3>3, <4>1
    <3>4. ASSUME t[i] = 0 PROVE \E j \in 1 .. m + n : j < i /\ j + t[j] > i
      <4>1. PICK j \in 1 .. m : j < i /\ j + a[j] > i
        BY <1>2, <3>1, <3>4
      <4> QED
        BY <1>1, <4>1
    <3> QED
      BY <1>1, <3>1, <3>2, <3>3, <3>4
  <2>2. CASE i > m
    <3>1. i \in m + 1 .. m + n /\ i - m \in 1 .. n /\ t[i] = z[i - m] /\ t[i] \in Nat
      BY <1>1, <1>4, <2>2
    <3>2. t[i] > 0 => (i - m) + t[i] - 1 <= n
      BY <1>3, <3>1
    <3>3. ASSUME t[i] > 0, NEW j \in 1 .. m + n, i < j, j < i + t[i] PROVE t[j] = 0
      <4>1. j \in m + 1 .. m + n /\ j - m \in 1 .. n
        BY <1>1, <2>2, <3>3
      <4>2. i - m < j - m /\ j - m < (i - m) + z[i - m] /\ z[i - m] > 0
        <5> DEFINE v == t[i]
        <5>1. v \in Nat /\ j < i + v
          BY <3>1, <3>3
        <5> HIDE DEF v
        <5>2. i - m < j - m /\ j - m < (i - m) + v
          BY <1>1, <3>1, <3>3, <5>1
        <5> QED
          BY <3>1, <3>3, <5>2 DEF v
      <4> QED
        BY <1>1, <1>3, <3>1, <4>1, <4>2
    <3>4. ASSUME t[i] = 0 PROVE \E j \in 1 .. m + n : j < i /\ j + t[j] > i
      <4>1. PICK k \in 1 .. n : k < i - m /\ k + z[k] > i - m
        BY <1>3, <3>1, <3>4
      <4>2. m + k \in m + 1 .. m + n /\ (m + k) - m = k
        BY <1>1, <4>1
      <4>3. t[m + k] = z[k] /\ z[k] \in Nat
        BY <1>1, <1>4, <4>2
      <4>4. m + k \in 1 .. m + n /\ m + k < i /\ (m + k) + t[m + k] > i
        <5> DEFINE v == z[k]
        <5>1. v \in Nat /\ k + v > i - m
          BY <4>1, <4>3
        <5> HIDE DEF v
        <5>2. m + k \in 1 .. m + n /\ m + k < i /\ (m + k) + v > i
          BY <1>1, <4>1, <4>2, <5>1
        <5> QED
          BY <4>3, <5>2 DEF v
      <4> QED
        BY <4>4
    <3>5. t[i] > 0 => i + t[i] - 1 <= m + n
      <4> DEFINE v == t[i]
      <4> HIDE DEF v
      <4>1. v > 0 => (i - m) + v - 1 <= n
        BY <3>2 DEF v
      <4>2. v \in Nat
        BY <3>1 DEF v
      <4>3. v > 0 => i + v - 1 <= m + n
        BY <1>1, <4>1, <4>2
      <4> QED
        BY <4>3 DEF v
    <3> QED
      BY <3>3, <3>4, <3>5
  <2> QED
    BY <1>1, <2>1, <2>2
<1>6. AKeyboard!Whole(t)
  BY <1>1, <1>5, WholeIs
<1>7. ASSUME m < m + n PROVE t[m + 1] # 0
  <2>1. 1 \in 1 .. n /\ m + 1 \in m + 1 .. m + n /\ (m + 1) - m = 1
    BY <1>1, <1>7
  <2>2. z[1] # 0
    BY <1>3, <1>4, <2>1
  <2> QED
    BY <1>1, <2>1, <2>2
<1> QED
  BY <1>1, <1>6, <1>7 DEF t, m, AKeyboard!Continues

-----------------------------------------------------------------------------
(* ap_keyboard and ap_url_keyboard: typing.                                *)

TextFits(t, i, whole) ==
    /\ t \in Seq(Nat) /\ Len(t) < KbSize /\ i \in 0 .. Len(t)
    /\ whole => AKeyboard!Whole(t) /\ ~AKeyboard!Continues(t, i)

\* What s becomes with another text.
Retyped(s, t) ==
    \/ t = s
    \/ \E text, i : TextFits(text, i, s.whole) /\ t = [s EXCEPT !.text = text, !.at = i]

\* What is typed comes in whole, or not at all.
LEMMA InsertKeeps ==
    ASSUME KbSetting, NEW s, TextFits(s.text, s.at, s.whole),
           NEW new \in Seq(Nat), AKeyboard!Whole(new)
    PROVE  Retyped(s, AKeyboard!Insert(s, new))
<1> DEFINE t == s.text
           n == Len(t)
           at == AKeyboard!ClampBoundary(t, s.at)
           a == SubSeq(t, 1, at)
           z == SubSeq(t, at + 1, n)
           text == a \o new \o z
<1>1. t \in Seq(Nat) /\ n \in Nat /\ IsBetween(t, at) /\ at \in 0 .. n /\ KbSize \in Nat
  <2>1. t \in Seq(Nat) /\ s.at \in Int /\ KbSize \in Nat
    BY DEF TextFits, KbSetting
  <2>2. IsBetween(t, at)
    BY <2>1, ClampFinds
  <2> HIDE DEF at
  <2> QED
    BY <2>1, <2>2 DEF IsBetween
<1> HIDE DEF at
<1>2. a \in Seq(Nat) /\ Len(a) = at /\ z \in Seq(Nat) /\ Len(z) = n - at
  BY <1>1, SubSeqProperties
<1>3. text \in Seq(Nat) /\ Len(text) = n + Len(new) /\ Len(a \o new) = at + Len(new)
      /\ a \o new \in Seq(Nat) /\ Len(new) \in Nat
  <2> HIDE DEF a, z, n
  <2>1. a \in Seq(Nat) /\ Len(new) \in Nat
    BY <1>2
  <2>2. a \o new \in Seq(Nat) /\ Len(a \o new) = Len(a) + Len(new)
    BY <2>1, ConcatProperties
  <2>3. text \in Seq(Nat) /\ Len(text) = Len(a \o new) + Len(z)
    BY <1>2, <2>2, ConcatProperties
  <2> HIDE DEF text
  <2> QED
    BY <1>1, <1>2, <2>1, <2>2, <2>3
<1>4. ASSUME s.whole PROVE AKeyboard!Whole(text) /\ ~AKeyboard!Continues(text, at + Len(new))
  <2>1. AKeyboard!Whole(t)
    BY <1>4 DEF TextFits
  <2>2. AKeyboard!Whole(a) /\ AKeyboard!Whole(z)
    BY <1>1, <2>1, Cuts
  <2>3. AKeyboard!Whole(a \o new)
    BY <1>2, <2>2, Joins
  <2> QED
    BY <1>2, <1>3, <2>2, <2>3, Joins
<1> HIDE DEF a, z
<1>5. ASSUME n + Len(new) < KbSize - 1
      PROVE  TextFits(text, at + Len(new), s.whole)
  BY <1>1, <1>3, <1>4, <1>5 DEF TextFits
<1>6. AKeyboard!Insert(s, new) = IF n + Len(new) < KbSize - 1
                                 THEN [s EXCEPT !.text = text, !.at = at + Len(new)] ELSE s
  BY DEF AKeyboard!Insert, a, z, at
<1> HIDE DEF text, n
<1> QED
  BY <1>5, <1>6 DEF Retyped

\* A character is removed with all its bytes.
LEMMA BackspaceKeeps ==
    ASSUME KbSetting, NEW s, TextFits(s.text, s.at, s.whole)
    PROVE  \/ Retyped(s, AKeyboard!Backspace(s))
           \/ TextFits(s.text, 0, s.whole) /\ AKeyboard!Backspace(s) = [s EXCEPT !.at = 0]
<1> DEFINE t == s.text
           n == Len(t)
           at == AKeyboard!ClampBoundary(t, s.at)
           prev == AKeyboard!PrevBoundary(t, at)
           a == SubSeq(t, 1, prev)
           z == SubSeq(t, at + 1, n)
           text == a \o z
<1>1. t \in Seq(Nat) /\ n \in Nat /\ n < KbSize /\ IsBetween(t, at) /\ at \in 0 .. n /\ KbSize \in Nat
  <2>1. t \in Seq(Nat) /\ s.at \in Int /\ KbSize \in Nat
    BY DEF TextFits, KbSetting
  <2>2. IsBetween(t, at)
    BY <2>1, ClampFinds
  <2>3. n < KbSize
    BY DEF TextFits
  <2> HIDE DEF at
  <2> QED
    BY <2>1, <2>2, <2>3 DEF IsBetween
<1> HIDE DEF at
<1>2. IsBetween(t, prev) /\ prev \in 0 .. n
  <2>1. IsBetween(t, prev)
    BY <1>1, PrevFinds
  <2> HIDE DEF prev
  <2> QED
    BY <1>1, <2>1 DEF IsBetween
<1>3. CASE at <= 0
  <2>1. at = 0 /\ AKeyboard!Backspace(s) = [s EXCEPT !.at = 0]
    BY <1>1, <1>3 DEF AKeyboard!Backspace, at
  <2>2. s.whole => AKeyboard!Whole(t) /\ ~AKeyboard!Continues(t, 0)
    BY <1>1, <2>1, BetweenIs DEF TextFits
  <2> QED
    BY <1>1, <2>1, <2>2 DEF TextFits
<1>4. CASE at > 0
  <2>1. AKeyboard!InText(t, at) = at /\ ~AKeyboard!Continues(t, at) /\ AKeyboard!InText(t, at - 1) = at - 1
    BY <1>1, <1>4 DEF AKeyboard!InText, IsBetween
  <2>2. prev = AKeyboard!ClampBoundary(t, at - 1)
    BY <1>4, <2>1 DEF AKeyboard!PrevBoundary
  <2>3. prev <= at - 1
    BY <1>1, <2>1, <2>2, ClampFinds
  <2> HIDE DEF prev
  <2>4. a \in Seq(Nat) /\ Len(a) = prev /\ z \in Seq(Nat) /\ Len(z) = n - at
    <3>1. a \in Seq(Nat) /\ Len(a) = prev
      BY <1>1, <1>2, SubSeqProperties
    <3>2. z \in Seq(Nat) /\ Len(z) = n - at
      BY <1>1, SubSeqProperties
    <3> QED
      BY <3>1, <3>2
  <2>5. text \in Seq(Nat) /\ Len(text) = prev + (n - at)
    BY <2>4, ConcatProperties
  <2>6. ASSUME s.whole PROVE AKeyboard!Whole(text) /\ ~AKeyboard!Continues(text, prev)
    <3>1. AKeyboard!Whole(t)
      BY <2>6 DEF TextFits
    <3>2. AKeyboard!Whole(a) /\ AKeyboard!Whole(z)
      BY <1>1, <1>2, <3>1, Cuts
    <3> QED
      BY <2>4, <3>2, Joins
  <2>7. AKeyboard!Backspace(s) = [s EXCEPT !.text = text, !.at = prev]
    BY <1>1, <1>4 DEF AKeyboard!Backspace, at, prev
  <2> HIDE DEF text, n
  <2>8. TextFits(text, prev, s.whole)
    BY <1>1, <1>2, <2>3, <2>5, <2>6 DEF TextFits
  <2> QED
    BY <2>7, <2>8 DEF Retyped
<1> QED
  BY <1>1, <1>3, <1>4

\* What a key types is whole.
LEMMA Keys ==
    /\ \A n \in {1, 2, 3} : AKeyboard!Char(n) \in Seq(Nat) /\ AKeyboard!Whole(AKeyboard!Char(n))
    /\ <<1, 1>> \in Seq(Nat) /\ AKeyboard!Whole(<<1, 1>>)
    /\ \A k \in 1 .. 7 : AKeyboard!SymbolBytes[k] \in {1, 2, 3}
<1>1. ASSUME NEW n \in {1, 2, 3}
      PROVE  AKeyboard!Char(n) \in Seq(Nat) /\ AKeyboard!Whole(AKeyboard!Char(n))
  <2> DEFINE c == AKeyboard!Char(n)
  <2>1. c \in [1 .. n -> Nat] /\ c[1] = n /\ \A k \in 2 .. n : c[k] = 0
    BY DEF AKeyboard!Char
  <2> HIDE DEF c
  <2>2. c \in Seq(Nat) /\ Len(c) = n
    BY <2>1
  <2>3. ASSUME NEW i \in 1 .. n
        PROVE  /\ c[i] > 0 => i + c[i] - 1 <= n
                              /\ \A j \in 1 .. n : i < j /\ j < i + c[i] => c[j] = 0
               /\ c[i] = 0 => \E j \in 1 .. n : j < i /\ j + c[j] > i
    <3>1. CASE i = 1
      BY <2>1, <3>1
    <3>2. CASE i \in 2 .. n
      <4>1. c[i] = 0 /\ 1 \in 1 .. n /\ 1 < i /\ 1 + n > i
        BY <2>1, <3>2
      <4> QED
        BY <2>1, <4>1
    <3> QED
      BY <3>1, <3>2
  <2>4. AKeyboard!Whole(c)
    BY <2>2, <2>3, WholeIs
  <2> QED
    BY <2>2, <2>4 DEF c
<1>2. <<1, 1>> \in Seq(Nat) /\ AKeyboard!Whole(<<1, 1>>)
  BY DEF AKeyboard!Whole
<1>3. \A k \in 1 .. 7 : AKeyboard!SymbolBytes[k] \in {1, 2, 3}
  BY DEF AKeyboard!SymbolBytes
<1> QED
  BY <1>1, <1>2, <1>3

\* The last columns of the url layout.
LEMMA UrlRows ==
    ASSUME KbSetting
    PROVE  /\ AKeyboard!ShortcutRows \in {1, 2}
           /\ Len(AKeyboard!UrlMax) = AKeyboard!ShortcutRows + 4
           /\ \A r \in 1 .. AKeyboard!ShortcutRows + 4 : AKeyboard!UrlMax[r] \in Nat
           /\ AKeyboard!UrlMax[AKeyboard!ShortcutRows + 4] = 8
<1> DEFINE m == AKeyboard!ShortcutRows
           f == [r \in 1 .. m |-> IF r < m THEN AKeyboard!PerRow - 1
                                           ELSE Shortcuts - AKeyboard!PerRow * (m - 1)]
           g == <<9, 9, 9, 8>>
<1>1. m \in {1, 2} /\ Shortcuts \in 0 .. 10
  BY DEF KbSetting, AKeyboard!ShortcutRows
<1>2. f \in [1 .. m -> Nat]
  <2>1. CASE m = 1
    <3>1. \A p \in Int : p * 0 = 0
      OBVIOUS
    <3>2. AKeyboard!PerRow = Shortcuts
      BY <1>1, <2>1 DEF AKeyboard!PerRow
    <3>3. Shortcuts - AKeyboard!PerRow * (1 - 1) = Shortcuts
      BY <1>1, <3>1, <3>2
    <3> HIDE DEF m
    <3> QED
      BY <1>1, <2>1, <3>3
  <2>2. CASE m = 2
    <3>1. Shortcuts \in 6 .. 10 /\ AKeyboard!PerRow = (Shortcuts + 1) \div 2
      BY <1>1, <2>2 DEF AKeyboard!ShortcutRows, AKeyboard!PerRow
    <3>2. AKeyboard!PerRow \in 3 .. 5 /\ AKeyboard!PerRow <= Shortcuts
      BY <3>1
    <3>3. AKeyboard!PerRow * (2 - 1) = AKeyboard!PerRow
      BY <3>2
    <3> HIDE DEF m
    <3>4. \A r \in 1 .. 2 : f[r] \in Nat
      BY <1>1, <2>2, <3>2, <3>3
    <3> QED
      BY <2>2, <3>4
  <2> QED
    BY <1>1, <2>1, <2>2
<1>3. g \in Seq(Nat) /\ Len(g) = 4 /\ g[4] = 8
  OBVIOUS
<1>4. AKeyboard!UrlMax = f \o g
  BY DEF AKeyboard!UrlMax
<1> HIDE DEF f, g, m
<1>5. f \in Seq(Nat) /\ Len(f) = m
  BY <1>1, <1>2
<1>6. f \o g \in Seq(Nat) /\ Len(f \o g) = m + 4 /\ (f \o g)[m + 4] = g[(m + 4) - m]
  <2>1. f \o g \in Seq(Nat) /\ Len(f \o g) = Len(f) + Len(g)
        /\ \A i \in 1 .. Len(f) + Len(g) : (f \o g)[i] = IF i <= Len(f) THEN f[i] ELSE g[i - Len(f)]
    BY <1>3, <1>5, ConcatProperties
  <2>2. m + 4 \in 1 .. m + 4 /\ ~(m + 4 <= m)
    BY <1>1
  <2> QED
    BY <1>3, <1>5, <2>1, <2>2
<1>7. (m + 4) - m = 4 /\ \A r \in 1 .. m + 4 : (f \o g)[r] \in Nat
  <2> DEFINE t == f \o g
  <2>1. t \in Seq(Nat) /\ Len(t) = m + 4
    BY <1>6
  <2> HIDE DEF t
  <2>2. \A r \in 1 .. m + 4 : t[r] \in Nat
    BY <1>1, <2>1
  <2>3. m \in Int
    BY <1>1
  <2>4. (m + 4) - m = 4
    BY <2>3
  <2> QED
    BY <2>2, <2>4 DEF t
<1> QED
  BY <1>1, <1>3, <1>4, <1>6, <1>7 DEF m

\* The key under the cursor of the url layout is one of its keys.
OnUrlKey(layout, row, col) ==
    layout = "url" => /\ row \in 0 .. AKeyboard!ShortcutRows + 3
                      /\ col \in 0 .. AKeyboard!UrlMax[row + 1]
KbShape(s) ==
    s \in [kind : {"keyboard", "done"}, layout : Layouts, text : {s.text}, at : {s.at}, row : {s.row},
           col : {s.col}, mode : {s.mode}, keys : {s.keys}, result : {s.result}, whole : {s.whole}]
KbInv(s) == KbShape(s) /\ TextFits(s.text, s.at, s.whole) /\ OnUrlKey(s.layout, s.row, s.col)

\* The text of a keyboard is whole.
LEMMA KbHolds == ASSUME KbInv(w) PROVE AKeyboard!TextWhole
BY DEF KbInv, TextFits, AKeyboard!TextWhole

\* A keyboard opens on a whole text, with its cursor on a key.
LEMMA KbStarts == ASSUME KbSetting, AKeyboard!KbInit PROVE KbInv(w)
<1>1. PICK l \in Layouts, t \in KbTexts : w = AKeyboard!OpenKeyboard(l, t)
  BY DEF AKeyboard!KbInit
<1> DEFINE n == IF Len(t) < KbSize - 1 THEN Len(t) ELSE KbSize - 1
           text == SubSeq(t, 1, n)
<1>2. t \in Seq(Nat) /\ AKeyboard!Whole(t) /\ KbSize \in Nat \ {0} /\ Len(t) \in Nat
      /\ l \in {"numeric", "general", "url"}
  BY DEF KbSetting
<1>3. n \in 0 .. Len(t) /\ n < KbSize /\ (Len(t) < KbSize => n = Len(t))
  BY <1>2
<1> HIDE DEF n
<1>4. text \in Seq(Nat) /\ Len(text) = n
  BY <1>2, <1>3, SubSeqProperties
<1>5. ~AKeyboard!Continues(text, n)
  BY <1>3, <1>4 DEF AKeyboard!Continues
<1>6. ASSUME Len(t) < KbSize PROVE AKeyboard!Whole(text)
  <2>1. n = Len(t)
    BY <1>3, <1>6
  <2>2. IsBetween(t, n)
    BY <1>2, <2>1 DEF IsBetween, AKeyboard!Continues
  <2> QED
    BY <1>2, <2>2, Cuts
<1> HIDE DEF text
<1>7. TextFits(text, n, Len(t) < KbSize)
  BY <1>3, <1>4, <1>5, <1>6 DEF TextFits
<1>8. /\ KbShape(w) /\ w.text = text /\ w.at = n /\ w.whole = (Len(t) < KbSize) /\ w.layout = l /\ w.col = 0
      /\ l = "url" => w.row = AKeyboard!ShortcutRows
  BY <1>1 DEF AKeyboard!OpenKeyboard, KbShape, n, text
<1>9. OnUrlKey(w.layout, w.row, w.col)
  <2>1. AKeyboard!ShortcutRows + 1 \in 1 .. AKeyboard!ShortcutRows + 4
        /\ AKeyboard!ShortcutRows \in 0 .. AKeyboard!ShortcutRows + 3
    BY UrlRows
  <2> QED
    BY <1>8, <2>1, UrlRows DEF OnUrlKey
<1> QED
  BY <1>7, <1>8, <1>9 DEF KbInv

\* Presses that leave the cursor on its key.
LEMMA RetypedKeeps == ASSUME KbInv(w), Retyped(w, w') PROVE KbInv(w')
<1>1. CASE w' = w
  BY <1>1
<1>2. CASE w' # w
  <2>1. PICK text, i : TextFits(text, i, w.whole) /\ w' = [w EXCEPT !.text = text, !.at = i]
    BY <1>2 DEF Retyped
  <2>2. /\ KbShape(w') /\ w'.text = text /\ w'.at = i /\ w'.whole = w.whole
        /\ w'.layout = w.layout /\ w'.row = w.row /\ w'.col = w.col
    BY <2>1 DEF KbInv, KbShape
  <2> QED
    BY <2>1, <2>2 DEF KbInv
<1> QED
  BY <1>1, <1>2

\* Endings, modes and moves within the keys keep the invariant.
LEMMA SettledKeeps ==
    ASSUME KbInv(w)
    PROVE  /\ \A how : AKeyboard!Ends(how) => KbInv(w')
           /\ \A m : w' = [w EXCEPT !.mode = m] \/ w' = [w EXCEPT !.keys = m] => KbInv(w')
           /\ \A i : TextFits(w.text, i, w.whole) /\ w' = [w EXCEPT !.at = i] => KbInv(w')
           /\ \A r, c : OnUrlKey(w.layout, r, c) /\ w' = [w EXCEPT !.row = r, !.col = c] => KbInv(w')
           /\ \A c : OnUrlKey(w.layout, w.row, c) /\ w' = [w EXCEPT !.col = c] => KbInv(w')
<1>1. ASSUME NEW how, AKeyboard!Ends(how) PROVE KbInv(w')
  BY <1>1 DEF KbInv, KbShape, AKeyboard!Ends
<1>2. ASSUME NEW m, w' = [w EXCEPT !.mode = m] \/ w' = [w EXCEPT !.keys = m] PROVE KbInv(w')
  BY <1>2 DEF KbInv, KbShape
<1>3. ASSUME NEW i, TextFits(w.text, i, w.whole), w' = [w EXCEPT !.at = i] PROVE KbInv(w')
  BY <1>3 DEF KbInv, KbShape
<1>4. ASSUME NEW r, NEW c, OnUrlKey(w.layout, r, c), w' = [w EXCEPT !.row = r, !.col = c] PROVE KbInv(w')
  BY <1>4 DEF KbInv, KbShape
<1>5. ASSUME NEW c, OnUrlKey(w.layout, w.row, c), w' = [w EXCEPT !.col = c] PROVE KbInv(w')
  BY <1>5 DEF KbInv, KbShape
<1> QED
  BY <1>1, <1>2, <1>3, <1>4, <1>5

\* Keys that type and erase.
LEMMA TypeKeeps ==
    ASSUME KbSetting, KbInv(w)
    PROVE  /\ \A n \in {1, 2, 3} : AKeyboard!Type(n) => KbInv(w')
           /\ w' = AKeyboard!Insert(w, <<1, 1>>) => KbInv(w')
           /\ w' = AKeyboard!Backspace(w) => KbInv(w')
           /\ UNCHANGED w => KbInv(w')
<1>1. TextFits(w.text, w.at, w.whole)
  BY DEF KbInv
<1>2. \A new \in Seq(Nat) : AKeyboard!Whole(new) => Retyped(w, AKeyboard!Insert(w, new))
  BY <1>1, InsertKeeps
<1>3. \A n \in {1, 2, 3} : AKeyboard!Type(n) => KbInv(w')
  BY <1>2, Keys, RetypedKeeps DEF AKeyboard!Type
<1>4. w' = AKeyboard!Insert(w, <<1, 1>>) => KbInv(w')
  BY <1>2, Keys, RetypedKeeps
<1>5. w' = AKeyboard!Backspace(w) => KbInv(w')
  BY <1>1, BackspaceKeeps, RetypedKeeps, SettledKeeps
<1> QED
  BY <1>3, <1>4, <1>5

\* From a key the cursor moves to a key.
LEMMA MovesOnKeys ==
    ASSUME KbSetting, KbInv(w), NEW d \in {-1, 1}, AKeyboard!MoveRow(d) \/ AKeyboard!MoveCol(d)
    PROVE  KbInv(w')
<1> DEFINE m == AKeyboard!ShortcutRows
           max == AKeyboard!RowMax
<1>1. w.layout = "url" => max = AKeyboard!UrlMax
  BY DEF AKeyboard!RowMax
<1>2. m \in {1, 2} /\ Len(AKeyboard!UrlMax) = m + 4 /\ \A r \in 1 .. m + 4 : AKeyboard!UrlMax[r] \in Nat
  BY UrlRows
<1> HIDE DEF m, max
<1>3. OnUrlKey(w.layout, w.row, w.col)
  BY DEF KbInv
<1>4. CASE AKeyboard!MoveRow(d)
  <2> DEFINE r == (w.row + d) % Len(max)
             c == IF w.col > max[r + 1] THEN max[r + 1] ELSE w.col
  <2>1. w' = [w EXCEPT !.row = r, !.col = c]
    BY <1>4 DEF AKeyboard!MoveRow, AKeyboard!LayoutRows, max
  <2>2. ASSUME w.layout = "url" PROVE r \in 0 .. m + 3 /\ c \in 0 .. AKeyboard!UrlMax[r + 1]
    <3>1. w.row \in 0 .. m + 3 /\ Len(max) = m + 4 /\ max = AKeyboard!UrlMax
      BY <1>1, <1>2, <1>3, <2>2 DEF OnUrlKey, m
    <3>2. r \in 0 .. m + 3
      <4>1. CASE m = 1
        BY <3>1, <4>1
      <4>2. CASE m = 2
        BY <3>1, <4>2
      <4> QED
        BY <1>2, <4>1, <4>2
    <3> HIDE DEF r
    <3>3. r + 1 \in 1 .. m + 4 /\ w.row + 1 \in 1 .. m + 4
      BY <1>2, <3>1, <3>2
    <3>4. w.col \in Nat /\ max[r + 1] \in Nat
      BY <1>2, <1>3, <2>2, <3>1, <3>3 DEF OnUrlKey
    <3> QED
      BY <3>1, <3>2, <3>4
  <2> HIDE DEF r, c
  <2>3. OnUrlKey(w.layout, r, c)
    BY <2>2 DEF OnUrlKey, m
  <2> QED
    BY <2>1, <2>3, SettledKeeps
<1>5. CASE AKeyboard!MoveCol(d)
  <2> DEFINE top == max[w.row + 1]
             c == (w.col + d) % (top + 1)
  <2>1. w' = [w EXCEPT !.col = c]
    BY <1>5 DEF AKeyboard!MoveCol, max
  <2>2. ASSUME w.layout = "url" PROVE c \in 0 .. AKeyboard!UrlMax[w.row + 1]
    <3>1. w.row \in 0 .. m + 3 /\ max = AKeyboard!UrlMax /\ w.col \in 0 .. AKeyboard!UrlMax[w.row + 1]
      BY <1>1, <1>3, <2>2 DEF OnUrlKey, m
    <3>2. w.row + 1 \in 1 .. m + 4
      BY <1>2, <3>1
    <3>3. top \in Nat /\ w.col + d \in Int
      BY <1>2, <3>1, <3>2
    <3> HIDE DEF top
    <3>4. c \in 0 .. top
      BY <3>3
    <3> QED
      BY <3>1, <3>4 DEF top
  <2> HIDE DEF c
  <2>3. OnUrlKey(w.layout, w.row, c)
    BY <1>3, <2>2 DEF OnUrlKey, m
  <2> QED
    BY <2>1, <2>3, SettledKeeps
<1> QED
  BY <1>4, <1>5

\* Every event of a keyboard keeps its invariant.
LEMMA KbSteps == ASSUME KbSetting, KbInv(w), AKeyboard!KbNext PROVE KbInv(w')
<1>1. TextFits(w.text, w.at, w.whole) /\ OnUrlKey(w.layout, w.row, w.col)
  BY DEF KbInv
<1>2. AKeyboard!TypeNumeric => KbInv(w')
  BY TypeKeeps DEF AKeyboard!TypeNumeric
<1>3. ASSUME AKeyboard!TypeGeneral PROVE KbInv(w')
  <2>1. \/ w' = AKeyboard!Backspace(w)
        \/ AKeyboard!Ends("ok")
        \/ \E m : w' = [w EXCEPT !.mode = m]
        \/ \E n \in {1, 2, 3} : AKeyboard!Type(n)
    BY <1>3, Keys DEF AKeyboard!TypeGeneral
  <2> QED
    BY <2>1, TypeKeeps, SettledKeeps
<1>4. ASSUME AKeyboard!TypeUrl PROVE KbInv(w')
  <2> DEFINE m == AKeyboard!ShortcutRows
             below == w.row - m
  <2>1. w.layout = "url" /\ m \in {1, 2} /\ w.row \in 0 .. m + 3 /\ w.col \in 0 .. AKeyboard!UrlMax[w.row + 1]
    BY <1>1, <1>4, UrlRows DEF AKeyboard!TypeUrl, OnUrlKey
  <2>2. below \in {0, 1} \/ below = 2 \/ below = 3 \/ below < 0
    <3> HIDE DEF m
    <3> QED
      BY <2>1
  <2>3. below = 3 => w.col \in 0 .. 8
    <3>1. below = 3 => w.row + 1 = m + 4
      <4> HIDE DEF m
      <4> QED
        BY <2>1
    <3> QED
      BY <2>1, <3>1, UrlRows
  <2>4. \/ w' = AKeyboard!Backspace(w)
        \/ w' = AKeyboard!Insert(w, <<1, 1>>)
        \/ AKeyboard!Ends("ok")
        \/ UNCHANGED w
        \/ \E x : w' = [w EXCEPT !.mode = x]
        \/ \E n \in {1, 2, 3} : AKeyboard!Type(n)
    <3>1. CASE below < 0
      <4>1. below \notin {0, 1} /\ below # 2 /\ below # 3
        BY <2>1, <3>1
      <4>2. w' = AKeyboard!Backspace(w) \/ w' = AKeyboard!Insert(w, <<1, 1>>)
        BY <1>4, <3>1, <4>1, Zenon DEF AKeyboard!TypeUrl
      <4> QED
        BY <4>2
    <3>2. CASE below \in {0, 1}
      <4>1. below # -1 /\ ~(below < 0) /\ below # 2 /\ below # 3
        BY <3>2
      <4>2. AKeyboard!Type(1)
        BY <1>4, <3>2, <4>1, Zenon DEF AKeyboard!TypeUrl
      <4> QED
        BY <4>2
    <3>3. CASE below = 2
      <4>1. below # -1 /\ ~(below < 0) /\ below \notin {0, 1} /\ below # 3
        BY <3>3
      <4>2. IF w.col = 9 THEN AKeyboard!Ends("ok") ELSE AKeyboard!Type(1)
        BY <1>4, <3>3, <4>1, Zenon DEF AKeyboard!TypeUrl
      <4> QED
        BY <4>2
    <3>4. CASE below = 3
      <4>1. w.col = 0 \/ w.col = 8 \/ w.col \in 1 .. 7
        BY <2>3, <3>4
      <4>2. below # -1 /\ ~(below < 0) /\ below \notin {0, 1} /\ below # 2
        BY <3>4
      <4> QED
        BY <1>4, <3>4, <4>1, <4>2, Keys, Zenon DEF AKeyboard!TypeUrl
    <3> QED
      BY <2>2, <3>1, <3>2, <3>3, <3>4
  <2> QED
    BY <2>4, TypeKeeps, SettledKeeps
<1>5. AKeyboard!PressB \/ AKeyboard!PressX \/ AKeyboard!PressY \/ AKeyboard!PressStart
      \/ AKeyboard!PressSelect \/ AKeyboard!Frame => KbInv(w')
  BY TypeKeeps, SettledKeeps DEF AKeyboard!PressB, AKeyboard!PressX, AKeyboard!PressY,
     AKeyboard!PressStart, AKeyboard!PressSelect, AKeyboard!Frame
<1>6. ASSUME AKeyboard!PressL1 \/ AKeyboard!PressR1 PROVE KbInv(w')
  <2>1. PICK i : IsBetween(w.text, i) /\ w' = [w EXCEPT !.at = i]
    <3>1. w.text \in Seq(Nat) /\ w.at \in Int
      BY <1>1 DEF TextFits
    <3> QED
      BY <1>6, <3>1, PrevFinds, NextFinds DEF AKeyboard!PressL1, AKeyboard!PressR1
  <2>2. w.whole => ~AKeyboard!Continues(w.text, i)
    BY <1>1, <2>1, BetweenIs DEF TextFits
  <2>3. TextFits(w.text, i, w.whole)
    BY <1>1, <2>1, <2>2 DEF TextFits, IsBetween
  <2> QED
    BY <2>1, <2>3, SettledKeeps
<1> QED
  BY <1>2, <1>3, <1>4, <1>5, <1>6, MovesOnKeys DEF AKeyboard!KbNext

-----------------------------------------------------------------------------
(* ap_file_picker.                                                         *)

\* ap_file_picker: the directory shown is below the root, and reached without
\* links; only a root that does not exist is as the environment has it.
PickEntry == [path : Seq(Names), dir : BOOLEAN]
PickTyped(s) ==
    s \in [kind : {"picker", "done"}, opts : {s.opts}, fs : {s.fs}, root : Seq(Names), cur : Seq(Names),
           phase : {"scan", "list"}, entries : SUBSET PickEntry, path : {s.path}, isDir : {s.isDir},
           result : {s.result}, changes : {s.changes}]
Grounded(s) ==
    \/ NoLink(s.fs, s.cur)
    \/ s.cur = s.root /\ s.phase = "scan" /\ APicker!Real(s.fs, s.cur) = APicker!None
PickInv(s) ==
    /\ PickTyped(s) /\ Resolved(s.fs) /\ APicker!Inside(s.cur, s.root) /\ Grounded(s)
    /\ s.kind = "picker" => s.result = "none"
    /\ s.result = "ok" /\ ~s.isDir => APicker!Inside(APicker!Real(s.fs, s.path), s.root)

\* A path is followed name by name.
LEMMA RealIs ==
    ASSUME NEW fs, NEW p \in Seq(Names)
    PROVE  \E f \in [0 .. Len(p) -> DOMAIN fs \cup {<<>>, APicker!None}] :
             /\ f[0] = <<>> /\ \A k \in 1 .. Len(p) : f[k] = APicker!Follow(fs, f[k - 1], p[k])
             /\ APicker!Real(fs, p) = f[Len(p)]
<1> DEFINE n == Len(p)
           V == DOMAIN fs \cup {<<>>, APicker!None}
           Built(f) == f = [k \in 0 .. n |-> IF k = 0 THEN <<>> ELSE APicker!Follow(fs, f[k - 1], p[k])]
           h == CHOOSE f : Built(f)
<1>1. n \in Nat /\ \A k \in 1 .. n : k - 1 \in 0 .. n /\ k \in 0 .. n
  OBVIOUS
<1>2. \A v, x : APicker!Follow(fs, v, x) \in V
  BY DEF APicker!Follow
<1>3. \E f \in [0 .. n -> V] : Built(f)
  <2> DEFINE F == [k \in 1 .. n |-> [v \in V |-> APicker!Follow(fs, v, p[k])]]
  <2>1. F \in [1 .. n -> [V -> V]] /\ \A k \in 1 .. n, v \in V : F[k][v] = APicker!Follow(fs, v, p[k])
    BY <1>2
  <2> HIDE DEF F
  <2>2. PICK f \in [0 .. n -> V] : Steps(f, n, <<>>, F)
    <3>1. n \in Nat /\ <<>> \in V
      BY <1>1
    <3> HIDE DEF V
    <3> QED
      BY <2>1, <3>1, StepByStep
  <2>3. \A k \in 0 .. n : f[k] = IF k = 0 THEN <<>> ELSE APicker!Follow(fs, f[k - 1], p[k])
    <3>1. ASSUME NEW k \in 1 .. n PROVE f[k] = APicker!Follow(fs, f[k - 1], p[k])
      <4> HIDE DEF V
      <4>1. f[k - 1] \in V
        BY <1>1
      <4> QED
        BY <2>1, <2>2, <4>1 DEF Steps
    <3>2. \A k \in 0 .. n : k = 0 \/ k \in 1 .. n
      BY <1>1
    <3> HIDE DEF V
    <3> QED
      BY <2>2, <3>1, <3>2 DEF Steps
  <2> HIDE DEF V
  <2>4. Built(f)
    BY <2>3
  <2> HIDE DEF Built
  <2> QED
    BY <2>4
<1>4. APicker!Real(fs, p) = h[n]
  BY DEF APicker!Real
<1>5. Built(h)
  <2> HIDE DEF Built
  <2> QED
    BY <1>3
<1> HIDE DEF h
<1>6. h[0] = <<>> /\ \A k \in 1 .. n : h[k] = APicker!Follow(fs, h[k - 1], p[k])
  BY <1>1, <1>5
<1>7. h \in [0 .. n -> V]
  <2>1. \A k \in 0 .. n : h[k] \in V
    <3>1. \A k \in 0 .. n : k = 0 \/ k \in 1 .. n
      BY <1>1
    <3>2. <<>> \in V
      OBVIOUS
    <3> HIDE DEF V, Built
    <3> QED
      BY <1>2, <1>6, <3>1, <3>2
  <2> HIDE DEF V
  <2> QED
    BY <1>5, <2>1
<1> QED
  BY <1>4, <1>6, <1>7

\* What is below a path without links has none on the way to that path.
LEMMA AboveKeeps ==
    ASSUME NEW fs, NEW p \in Seq(Names), NEW q \in Seq(Names), APicker!Inside(p, q), NoLink(fs, p)
    PROVE  NoLink(fs, q)
<1>1. Len(q) \in Nat /\ Len(p) \in Nat /\ Len(q) <= Len(p) /\ SubSeq(q, 1, Len(q)) = SubSeq(p, 1, Len(q))
  BY DEF APicker!Inside, APicker!IsPrefix
<1>2. ASSUME NEW k \in 1 .. Len(q) PROVE k \in 1 .. Len(p) /\ SubSeq(q, 1, k) = SubSeq(p, 1, k)
  <2>1. \A i \in 1 .. Len(q) : q[i] = p[i]
    BY <1>1
  <2> QED
    BY <1>1, <2>1
<1> QED
  BY <1>2 DEF NoLink

\* One more name keeps a path without links.
LEMMA LongerKeeps ==
    ASSUME NEW fs, NEW p \in Seq(Names), NEW name \in Names, NoLink(fs, p),
           Append(p, name) \in DOMAIN fs => fs[Append(p, name)].type # "link"
    PROVE  NoLink(fs, Append(p, name))
<1> DEFINE q == Append(p, name)
<1>1. q \in Seq(Names) /\ Len(q) = Len(p) + 1 /\ Len(p) \in Nat /\ \A i \in 1 .. Len(p) : q[i] = p[i]
  OBVIOUS
<1>2. ASSUME NEW k \in 1 .. Len(q)
      PROVE  \/ k \in 1 .. Len(p) /\ SubSeq(q, 1, k) = SubSeq(p, 1, k)
             \/ k = Len(q) /\ SubSeq(q, 1, k) = q
  <2>1. k \in 1 .. Len(p) => SubSeq(q, 1, k) = SubSeq(p, 1, k)
    <3> HIDE DEF q
    <3> QED
      BY <1>1
  <2>2. k = Len(q) => SubSeq(q, 1, k) = q
    <3> HIDE DEF q
    <3> QED
      BY <1>1
  <2> HIDE DEF q
  <2> QED
    BY <1>1, <2>1, <2>2
<1> HIDE DEF q
<1>3. q \in DOMAIN fs => fs[q].type # "link"
  BY DEF q
<1>4. NoLink(fs, q)
  BY <1>2, <1>3 DEF NoLink
<1> QED
  BY <1>4 DEF q

\* A resolved path is one without links.
LEMMA RealTo ==
    ASSUME NEW fs, Resolved(fs), NEW p \in Seq(Names)
    PROVE  /\ APicker!Real(fs, p) \in Seq(Names)
           /\ APicker!Real(fs, p) = APicker!None \/ NoLink(fs, APicker!Real(fs, p))
<1> DEFINE V == DOMAIN fs \cup {<<>>, APicker!None}
           n == Len(p)
<1>1. PICK f \in [0 .. n -> V] : /\ f[0] = <<>> /\ \A k \in 1 .. n : f[k] = APicker!Follow(fs, f[k - 1], p[k])
                                 /\ APicker!Real(fs, p) = f[n]
  BY RealIs
<1>2. V \subseteq Seq(Names) /\ n \in Nat
  <2>1. <<>> \in Seq(Names) /\ APicker!None \in Seq(Names)
    <3>1. "?" \in Names
      BY DEF Names
    <3> QED
      BY <3>1 DEF APicker!None
  <2>2. DOMAIN fs \subseteq Seq(Names) /\ n \in Nat
    BY DEF Resolved
  <2> DEFINE none == APicker!None
             S == Seq(Names)
  <2> HIDE DEF none, S
  <2>3. <<>> \in S /\ none \in S /\ DOMAIN fs \subseteq S
    BY <2>1, <2>2 DEF none, S
  <2>4. DOMAIN fs \cup {<<>>, none} \subseteq S
    BY <2>3
  <2> QED
    BY <2>2, <2>4 DEF none, S
<1> DEFINE G == {k \in 0 .. n : f[k] \in Seq(Names) /\ (f[k] = APicker!None \/ NoLink(fs, f[k]))}
<1>3. 0 \in G
  <2>1. NoLink(fs, <<>>)
    BY DEF NoLink
  <2> QED
    BY <1>1, <1>2, <2>1
<1>4. ASSUME NEW k \in 1 .. n, k - 1 \in G PROVE k \in G
  <2> DEFINE v == f[k - 1]
             x == p[k]
  <2>1. v \in Seq(Names) /\ (v = APicker!None \/ NoLink(fs, v)) /\ x \in Names /\ k \in 0 .. n
    BY <1>2, <1>4
  <2>2. f[k] = APicker!Follow(fs, v, x) /\ f[k] \in Seq(Names)
    BY <1>1, <1>2, <2>1
  <2> HIDE DEF v, x
  <2>3. NoLink(fs, v) /\ ~(Append(v, x) \in DOMAIN fs /\ fs[Append(v, x)].type = "link") => NoLink(fs, Append(v, x))
    BY <2>1, LongerKeeps
  <2>4. \A l \in DOMAIN fs : fs[l].type = "link" /\ fs[l].to \in DOMAIN fs => NoLink(fs, fs[l].to)
    BY DEF Resolved
  <2>5. APicker!Follow(fs, v, x) = APicker!None \/ NoLink(fs, APicker!Follow(fs, v, x))
    BY <2>1, <2>3, <2>4 DEF APicker!Follow
  <2> QED
    BY <2>1, <2>2, <2>5
<1> HIDE DEF G
<1>5. n \in G
  BY <1>2, <1>3, <1>4, Climb
<1> QED
  BY <1>1, <1>5 DEF G

\* A path without links leads to itself, if anywhere.
LEMMA RealSame ==
    ASSUME NEW fs, NEW p \in Seq(Names), NoLink(fs, p)
    PROVE  APicker!Real(fs, p) \in {p, APicker!None}
<1> DEFINE n == Len(p)
<1>1. PICK f \in [0 .. n -> DOMAIN fs \cup {<<>>, APicker!None}] :
         /\ f[0] = <<>> /\ \A k \in 1 .. n : f[k] = APicker!Follow(fs, f[k - 1], p[k])
         /\ APicker!Real(fs, p) = f[n]
  BY RealIs
<1>2. n \in Nat
  OBVIOUS
<1> DEFINE G == {k \in 0 .. n : f[k] \in {SubSeq(p, 1, k), APicker!None}}
<1>3. 0 \in G
  <2>1. SubSeq(p, 1, 0) = <<>>
    BY SubSeqEmpty
  <2>2. f[0] \in {SubSeq(p, 1, 0), APicker!None} /\ 0 \in 0 .. n
    BY <1>1, <1>2, <2>1
  <2> QED
    BY <2>2, Zenon
<1>4. ASSUME NEW k \in 1 .. n, k - 1 \in G PROVE k \in G
  <2> DEFINE v == f[k - 1]
             x == p[k]
             q == SubSeq(p, 1, k)
  <2>1. v \in {SubSeq(p, 1, k - 1), APicker!None} /\ k \in 0 .. n
    BY <1>2, <1>4
  <2>2. Append(SubSeq(p, 1, k - 1), x) = q
    BY <1>2
  <2>3. q \in DOMAIN fs => fs[q].type # "link"
    BY DEF NoLink
  <2>4. f[k] = APicker!Follow(fs, v, x)
    BY <1>1
  <2> HIDE DEF v, x, q
  <2>5. APicker!Follow(fs, v, x) \in {q, APicker!None}
    BY <2>1, <2>2, <2>3 DEF APicker!Follow
  <2> QED
    BY <2>1, <2>4, <2>5 DEF q
<1> HIDE DEF G
<1>5. n \in G
  BY <1>2, <1>3, <1>4, Climb
<1>6. SubSeq(p, 1, n) = p
  OBVIOUS
<1> QED
  BY <1>1, <1>5, <1>6 DEF G

\* Where something is removed, a path leads where it led, or nowhere.
LEMMA RealLess ==
    ASSUME NEW fs, NEW gs, NEW p \in Seq(Names), DOMAIN gs \subseteq DOMAIN fs,
           \A q \in DOMAIN gs : gs[q] = fs[q]
    PROVE  APicker!Real(gs, p) \in {APicker!Real(fs, p), APicker!None}
<1> DEFINE n == Len(p)
<1>1. PICK f \in [0 .. n -> DOMAIN fs \cup {<<>>, APicker!None}] :
         /\ f[0] = <<>> /\ \A k \in 1 .. n : f[k] = APicker!Follow(fs, f[k - 1], p[k])
         /\ APicker!Real(fs, p) = f[n]
  BY RealIs
<1>2. PICK g \in [0 .. n -> DOMAIN gs \cup {<<>>, APicker!None}] :
         /\ g[0] = <<>> /\ \A k \in 1 .. n : g[k] = APicker!Follow(gs, g[k - 1], p[k])
         /\ APicker!Real(gs, p) = g[n]
  BY RealIs
<1>3. n \in Nat
  OBVIOUS
<1> DEFINE G == {k \in 0 .. n : g[k] \in {f[k], APicker!None}}
<1>4. 0 \in G
  BY <1>1, <1>2
<1>5. ASSUME NEW k \in 1 .. n, k - 1 \in G PROVE k \in G
  <2> DEFINE u == g[k - 1]
             v == f[k - 1]
             x == p[k]
  <2>1. u \in {v, APicker!None} /\ k \in 0 .. n
    BY <1>3, <1>5
  <2>2. g[k] = APicker!Follow(gs, u, x) /\ f[k] = APicker!Follow(fs, v, x)
    BY <1>1, <1>2
  <2> HIDE DEF u, v, x
  <2>3. APicker!Follow(gs, u, x) \in {APicker!Follow(fs, v, x), APicker!None}
    BY <2>1 DEF APicker!Follow
  <2> QED
    BY <2>1, <2>2, <2>3
<1> HIDE DEF G
<1>6. n \in G
  BY <1>3, <1>4, <1>5, Climb
<1> QED
  BY <1>1, <1>2, <1>6 DEF G

\* A picked path is below the root.
LEMMA PickHolds == ASSUME PickInv(w) PROVE APicker!StaysInside
<1>1. /\ APicker!Inside(w.cur, w.root) /\ Grounded(w) /\ w.cur \in Seq(Names)
      /\ w.result = "ok" /\ ~w.isDir => APicker!Inside(APicker!Real(w.fs, w.path), w.root)
  BY DEF PickInv, PickTyped
<1>2. APicker!IsDir(w.fs, w.cur) => APicker!Real(w.fs, w.cur) # APicker!None
  BY DEF APicker!IsDir
<1>3. NoLink(w.fs, w.cur) => APicker!Real(w.fs, w.cur) \in {w.cur, APicker!None}
  BY <1>1, RealSame
<1>4. APicker!IsDir(w.fs, w.cur) => APicker!Inside(APicker!Real(w.fs, w.cur), w.root)
  BY <1>1, <1>2, <1>3 DEF Grounded
<1> QED
  BY <1>1, <1>4 DEF APicker!StaysInside

\* A directory is below itself.
LEMMA InsideSelf == ASSUME NEW p \in Seq(Names) PROVE APicker!Inside(p, p)
BY DEF APicker!Inside, APicker!IsPrefix

\* The picker opens below its root, whatever root and start it is given.
LEMMA PickStarts == ASSUME PickSetting, APicker!PickInit PROVE PickInv(w)
<1>1. PICK o \in PickOpts : w = APicker!OpenPicker(o)
  BY DEF APicker!PickInit
<1>2. Resolved(Nodes) /\ BaseRoot \in Seq(Names) /\ o.root \in Seq(Names) /\ o.initial \in Seq(Names)
  BY DEF PickSetting
<1> DEFINE R(p) == APicker!Real(Nodes, p)
           base == APicker!Base(Nodes)
           root == APicker!EffectiveRoot(Nodes, o.root)
           cur == APicker!StartPath(Nodes, root, o.initial)
           Good(p) == p \in Seq(Names) /\ NoLink(Nodes, p)
           Missing(p) == p \in Seq(Names) /\ R(p) = APicker!None
<1>3. \A p \in {BaseRoot, o.root, o.initial} : R(p) # APicker!None => Good(R(p))
  BY <1>2, RealTo
<1>4. Good(base) \/ Missing(base)
  BY <1>2, <1>3 DEF APicker!Base
<1> HIDE DEF base, Good
<1>5. Good(root) \/ root = base
  BY <1>3 DEF APicker!EffectiveRoot, base
<1> HIDE DEF root
<1>6. cur = root \/ (Good(cur) /\ APicker!Inside(cur, root))
  BY <1>3 DEF APicker!StartPath
<1> HIDE DEF cur
<1>7. root \in Seq(Names) /\ cur \in Seq(Names)
  BY <1>4, <1>5, <1>6 DEF Good
<1>8. APicker!Inside(cur, root)
  BY <1>6, <1>7, InsideSelf
<1>9. NoLink(Nodes, cur) \/ (cur = root /\ R(cur) = APicker!None)
  BY <1>4, <1>5, <1>6 DEF Good
<1>10. /\ w.fs = Nodes /\ w.root = root /\ w.cur = cur /\ w.phase = "scan" /\ w.kind = "picker"
       /\ w.result = "none" /\ PickTyped(w)
  BY <1>1, <1>7 DEF APicker!OpenPicker, PickTyped, PickEntry, root, cur
<1> QED
  BY <1>2, <1>8, <1>9, <1>10 DEF PickInv, Grounded

\* One level up, or to the root, is still below the root.
LEMMA UpKeeps ==
    ASSUME PickInv(w), w.kind = "picker", NoLink(w.fs, w.cur) PROVE PickInv(APicker!Up(w))
<1> DEFINE up == APicker!Parent(w.cur)
           cur == IF up # w.cur /\ APicker!Inside(up, w.root) THEN up ELSE w.root
           s == APicker!Up(w)
<1>1. /\ PickTyped(w) /\ Resolved(w.fs) /\ APicker!Inside(w.cur, w.root) /\ w.result = "none"
      /\ w.cur \in Seq(Names) /\ w.root \in Seq(Names)
  BY DEF PickInv, PickTyped
<1>2. up \in Seq(Names) /\ APicker!Inside(w.cur, up)
  <2> DEFINE c == w.cur
  <2>1. c \in Seq(Names)
    BY <1>1
  <2> HIDE DEF c
  <2>2. c # <<>> => SubSeq(c, 1, Len(c) - 1) \in Seq(Names)
                    /\ Len(SubSeq(c, 1, Len(c) - 1)) = Len(c) - 1
                    /\ SubSeq(SubSeq(c, 1, Len(c) - 1), 1, Len(c) - 1) = SubSeq(c, 1, Len(c) - 1)
                    /\ Len(c) - 1 <= Len(c)
    <3> SUFFICES ASSUME c # <<>>
                 PROVE  /\ SubSeq(c, 1, Len(c) - 1) \in Seq(Names)
                        /\ Len(SubSeq(c, 1, Len(c) - 1)) = Len(c) - 1
                        /\ SubSeq(SubSeq(c, 1, Len(c) - 1), 1, Len(c) - 1) = SubSeq(c, 1, Len(c) - 1)
                        /\ Len(c) - 1 <= Len(c)
      OBVIOUS
    <3> DEFINE m == Len(c) - 1
               q == SubSeq(c, 1, m)
    <3>1. m \in Nat /\ m + 1 = Len(c) /\ m <= Len(c)
      BY <2>1
    <3> HIDE DEF m
    <3>2. q \in Seq(Names) /\ Len(q) = m
      BY <2>1, <3>1
    <3> HIDE DEF q
    <3>3. SubSeq(q, 1, m) = q
      BY <3>1, <3>2
    <3> QED
      BY <3>1, <3>2, <3>3 DEF m, q
  <2>3. APicker!Parent(c) \in Seq(Names) /\ APicker!Inside(c, APicker!Parent(c))
    <3>1. CASE c = <<>>
      BY <2>1, <3>1, InsideSelf DEF APicker!Parent
    <3>2. CASE c # <<>>
      BY <2>2, <3>2 DEF APicker!Parent, APicker!Front, APicker!Inside, APicker!IsPrefix
    <3> QED
      BY <3>1, <3>2
  <2> QED
    BY <2>3 DEF c
<1> HIDE DEF up
<1>3. cur \in Seq(Names) /\ APicker!Inside(cur, w.root) /\ NoLink(w.fs, cur)
  BY <1>1, <1>2, InsideSelf, AboveKeeps
<1>4. s = [w EXCEPT !.cur = cur, !.phase = "scan"]
  BY <1>1 DEF APicker!Up, PickTyped, up
<1> HIDE DEF cur, s
<1>5. s.fs = w.fs /\ s.root = w.root /\ s.cur = cur /\ s.result = "none" /\ PickTyped(s)
  BY <1>1, <1>3, <1>4 DEF PickTyped
<1>6. PickInv(s)
  BY <1>1, <1>3, <1>5 DEF PickInv, Grounded
<1> QED
  BY <1>6 DEF s

\* A file or directory that goes away leaves the picker below its root.
LEMMA RemovedKeeps == ASSUME PickInv(w), NEW p, APicker!Removed(p) PROVE PickInv(w')
<1> DEFINE gs == [q \in {r \in DOMAIN w.fs : ~APicker!Inside(r, p)} |-> w.fs[q]]
<1>1. w.kind = "picker" /\ w' = [w EXCEPT !.changes = 1, !.fs = gs]
  BY DEF APicker!Removed
<1>2. /\ PickTyped(w) /\ Resolved(w.fs) /\ APicker!Inside(w.cur, w.root) /\ w.result = "none"
      /\ w.cur \in Seq(Names) /\ Grounded(w)
  BY <1>1 DEF PickInv, PickTyped
<1>3. DOMAIN gs \subseteq DOMAIN w.fs /\ \A q \in DOMAIN gs : gs[q] = w.fs[q]
  OBVIOUS
<1> HIDE DEF gs
<1>4. \A q : NoLink(w.fs, q) => NoLink(gs, q)
  BY <1>3 DEF NoLink
<1>5. Resolved(gs)
  BY <1>2, <1>3, <1>4 DEF Resolved
<1>6. APicker!Real(gs, w.cur) \in {APicker!Real(w.fs, w.cur), APicker!None}
  BY <1>2, <1>3, RealLess
<1>7. /\ w'.fs = gs /\ w'.root = w.root /\ w'.cur = w.cur /\ w'.phase = w.phase /\ w'.result = "none"
      /\ PickTyped(w')
  BY <1>1, <1>2 DEF PickTyped
<1>8. Grounded(w')
  BY <1>2, <1>4, <1>6, <1>7 DEF Grounded
<1> QED
  BY <1>2, <1>5, <1>7, <1>8 DEF PickInv

\* Names no directory can be given.
Dots == {"", ".", ".."}
\* A directory that is made is no way out.
LEMMA NewDirKeeps ==
    ASSUME PickInv(w), NEW name, name \in Dots \/ name \in Names, APicker!NewDir(name)
    PROVE  PickInv(w')
<1> DEFINE here == APicker!Real(w.fs, w.cur)
           new == Append(here, name)
           node == [type |-> "dir", to |-> APicker!None, hidden |-> FALSE, ext |-> "", open |-> TRUE]
           gs == [p \in DOMAIN w.fs \cup {new} |-> IF p \in DOMAIN w.fs THEN w.fs[p] ELSE node]
           fs == IF name \in Dots \/ here = APicker!None \/ new \in DOMAIN w.fs THEN w.fs ELSE gs
<1>1. w.kind = "picker" /\ w.phase = "list" /\ w' = [w EXCEPT !.phase = "scan", !.fs = fs]
  BY DEF APicker!NewDir, APicker!At, Dots
<1>2. /\ PickTyped(w) /\ Resolved(w.fs) /\ APicker!Inside(w.cur, w.root) /\ w.result = "none"
      /\ w.cur \in Seq(Names) /\ NoLink(w.fs, w.cur)
  BY <1>1 DEF PickInv, PickTyped, Grounded
<1>3. here \in Seq(Names) /\ (here # APicker!None => NoLink(w.fs, here))
  BY <1>2, RealTo
<1>4. Resolved(fs) /\ NoLink(fs, w.cur)
  <2>1. CASE fs = w.fs
    <3> HIDE DEF fs
    <3> QED
      BY <1>2, <2>1
  <2>2. CASE fs = gs /\ here # APicker!None /\ new \notin DOMAIN w.fs /\ name \in Names
    <3> HIDE DEF here
    <3>1. new \in Seq(Names)
      <4>1. here \in Seq(Names) /\ name \in Names
        BY <1>3, <2>2, Zenon
      <4> QED
        BY <4>1
    <3>2. /\ DOMAIN gs = DOMAIN w.fs \cup {new} /\ gs[new].type = "dir"
          /\ \A q \in DOMAIN w.fs : gs[q] = w.fs[q]
      BY <2>2
    <3> HIDE DEF gs
    <3>3. \A q : NoLink(w.fs, q) => NoLink(gs, q)
      BY <3>2 DEF NoLink
    <3>4. NoLink(gs, new)
      <4>1. NoLink(gs, here)
        BY <1>3, <2>2, <3>3
      <4> QED
        BY <1>3, <2>2, <3>2, <4>1, LongerKeeps
    <3> HIDE DEF new
    <3>5. \A l \in DOMAIN gs : gs[l].type = "link" => l \in DOMAIN w.fs /\ gs[l] = w.fs[l]
      BY <3>2
    <3>6. Resolved(gs)
      BY <1>2, <3>1, <3>2, <3>3, <3>4, <3>5 DEF Resolved
    <3> QED
      BY <1>2, <2>2, <3>3, <3>6
  <2> HIDE DEF gs, new, here
  <2>3. fs = w.fs \/ (fs = gs /\ here # APicker!None /\ new \notin DOMAIN w.fs /\ name \in Names)
    BY Zenon
  <2> HIDE DEF fs
  <2> QED
    BY <2>1, <2>2, <2>3
<1> HIDE DEF fs
<1>5. /\ w'.fs = fs /\ w'.root = w.root /\ w'.cur = w.cur /\ w'.result = "none" /\ PickTyped(w')
  BY <1>1, <1>2 DEF PickTyped
<1> QED
  BY <1>2, <1>4, <1>5 DEF PickInv, Grounded

\* Every step of the picker, and every change of the file system, keeps it inside.
LEMMA PickSteps == ASSUME PickSetting, PickInv(w), APicker!PickNext PROVE PickInv(w')
<1>1. /\ PickTyped(w) /\ Resolved(w.fs) /\ APicker!Inside(w.cur, w.root) /\ Grounded(w)
      /\ w.cur \in Seq(Names) /\ w.root \in Seq(Names) /\ w.entries \subseteq PickEntry
      /\ w.kind = "picker" => w.result = "none"
  BY DEF PickInv, PickTyped
<1>2. w.phase = "list" => NoLink(w.fs, w.cur)
  BY <1>1 DEF Grounded
<1>3. w.cur # w.root => NoLink(w.fs, w.cur)
  BY <1>1 DEF Grounded
<1>4. \A how \in {"error", "cancelled"} : PickInv(APicker!Ends(how))
  <2> TAKE how \in {"error", "cancelled"}
  <2> DEFINE s == APicker!Ends(how)
  <2>1. /\ s.fs = w.fs /\ s.root = w.root /\ s.cur = w.cur /\ s.phase = w.phase /\ s.kind = "done"
        /\ s.result = how /\ PickTyped(s)
    BY <1>1 DEF APicker!Ends, PickTyped
  <2> HIDE DEF s
  <2>2. PickInv(s)
    BY <1>1, <2>1 DEF PickInv, Grounded
  <2> QED
    BY <2>2 DEF s
<1>5. ASSUME APicker!ScanFails PROVE PickInv(w')
  <2>1. w.kind = "picker" /\ (w' = APicker!Ends("error") \/ (w.cur # w.root /\ w' = APicker!Up(w)))
    BY <1>5, Zenon DEF APicker!ScanFails, APicker!At
  <2> QED
    BY <1>3, <1>4, <2>1, UpKeeps
<1>6. ASSUME APicker!Back PROVE PickInv(w')
  <2>1. w.kind = "picker" /\ (w' = APicker!Ends("cancelled") \/ (w.cur # w.root /\ w' = APicker!Up(w)))
    BY <1>6, Zenon DEF APicker!Back, APicker!At
  <2> QED
    BY <1>3, <1>4, <2>1, UpKeeps
<1>7. ASSUME APicker!Scan PROVE PickInv(w')
  <2> DEFINE names == {p \in DOMAIN w.fs : p # <<>> /\ APicker!Parent(p) = APicker!Real(w.fs, w.cur)}
             E == {[path |-> Append(w.cur, APicker!Last(p)), dir |-> APicker!IsDir(w.fs, p)] :
                     p \in {q \in names : APicker!Listed(q)}}
  <2>1. w.kind = "picker" /\ w' = [w EXCEPT !.phase = "list", !.entries = E]
    BY <1>7 DEF APicker!Scan, APicker!At
  <2>2. NoLink(w.fs, w.cur)
    BY <1>1, <1>7 DEF APicker!Scan, APicker!Readable, APicker!IsDir, Grounded
  <2>3. E \subseteq PickEntry
    <3>1. ASSUME NEW p \in names
          PROVE  [path |-> Append(w.cur, APicker!Last(p)), dir |-> APicker!IsDir(w.fs, p)] \in PickEntry
      <4>1. p \in Seq(Names) /\ p # <<>>
        BY <1>1 DEF Resolved
      <4>2. APicker!Last(p) \in Names
        BY <4>1 DEF APicker!Last
      <4>3. Append(w.cur, APicker!Last(p)) \in Seq(Names)
        BY <1>1, <4>2
      <4>4. APicker!IsDir(w.fs, p) \in BOOLEAN
        BY DEF APicker!IsDir
      <4> QED
        BY <4>3, <4>4 DEF PickEntry
    <3> HIDE DEF names
    <3> QED
      BY <3>1
  <2> HIDE DEF E
  <2>4. /\ w'.fs = w.fs /\ w'.root = w.root /\ w'.cur = w.cur /\ w'.result = "none" /\ PickTyped(w')
    BY <1>1, <2>1, <2>3 DEF PickTyped
  <2> QED
    BY <1>1, <2>2, <2>4 DEF PickInv, Grounded
<1>8. ASSUME APicker!EmptyLine PROVE PickInv(w')
  <2>1. w.kind = "picker" /\ w.phase = "list" /\ w' = [w EXCEPT !.phase = "scan"]
    BY <1>8 DEF APicker!EmptyLine, APicker!At
  <2>2. /\ w'.fs = w.fs /\ w'.root = w.root /\ w'.cur = w.cur /\ w'.result = "none" /\ PickTyped(w')
    BY <1>1, <2>1 DEF PickTyped
  <2> QED
    BY <1>1, <1>2, <2>1, <2>2 DEF PickInv, Grounded
<1>9. ASSUME APicker!PickHere PROVE PickInv(w')
  <2>1. w.phase = "list" /\ w' = [APicker!Ends("ok") EXCEPT !.path = w.cur, !.isDir = TRUE]
    BY <1>9 DEF APicker!PickHere, APicker!At
  <2>2. /\ w'.fs = w.fs /\ w'.root = w.root /\ w'.cur = w.cur /\ w'.isDir /\ w'.kind = "done" /\ PickTyped(w')
    BY <1>1, <2>1 DEF PickTyped, APicker!Ends
  <2> QED
    BY <1>1, <1>2, <2>1, <2>2 DEF PickInv, Grounded
<1>10. ASSUME NEW e \in w.entries, APicker!Enter(e) PROVE PickInv(w')
  <2> DEFINE real == APicker!Real(w.fs, e.path)
             cur == IF APicker!Allowed(e.path) THEN real ELSE w.cur
  <2>1. w.kind = "picker" /\ w.phase = "list" /\ w' = [w EXCEPT !.phase = "scan", !.cur = cur]
    BY <1>10 DEF APicker!Enter, APicker!At
  <2>2. e.path \in Seq(Names)
    BY <1>1 DEF PickEntry
  <2>3. real \in Seq(Names) /\ (real = APicker!None \/ NoLink(w.fs, real))
    BY <1>1, <2>2, RealTo
  <2>4. cur \in Seq(Names) /\ NoLink(w.fs, cur) /\ APicker!Inside(cur, w.root)
    BY <1>1, <1>2, <2>1, <2>3 DEF APicker!Allowed
  <2> HIDE DEF cur
  <2>5. /\ w'.fs = w.fs /\ w'.root = w.root /\ w'.cur = cur /\ w'.result = "none" /\ PickTyped(w')
    BY <1>1, <2>1, <2>4 DEF PickTyped
  <2> QED
    BY <1>1, <2>4, <2>5 DEF PickInv, Grounded
<1>11. ASSUME NEW e \in w.entries, APicker!PickFile(e) PROVE PickInv(w')
  <2>1. /\ w.kind = "picker" /\ w.phase = "list"
        /\ \/ APicker!Allowed(e.path) /\ w' = [APicker!Ends("ok") EXCEPT !.path = e.path, !.isDir = FALSE]
           \/ w' = [w EXCEPT !.phase = "scan"]
    BY <1>11, Zenon DEF APicker!PickFile, APicker!At
  <2>2. CASE APicker!Allowed(e.path) /\ w' = [APicker!Ends("ok") EXCEPT !.path = e.path, !.isDir = FALSE]
    <3>1. /\ w'.fs = w.fs /\ w'.root = w.root /\ w'.cur = w.cur /\ w'.path = e.path /\ w'.kind = "done"
          /\ PickTyped(w')
      BY <1>1, <2>2 DEF PickTyped, APicker!Ends
    <3>2. APicker!Inside(APicker!Real(w.fs, e.path), w.root)
      BY <2>2 DEF APicker!Allowed
    <3> QED
      BY <1>1, <1>2, <2>1, <3>1, <3>2 DEF PickInv, Grounded
  <2>3. CASE w' = [w EXCEPT !.phase = "scan"]
    <3>1. /\ w'.fs = w.fs /\ w'.root = w.root /\ w'.cur = w.cur /\ w'.result = "none" /\ PickTyped(w')
      BY <1>1, <2>1, <2>3 DEF PickTyped
    <3> QED
      BY <1>1, <1>2, <2>1, <3>1 DEF PickInv, Grounded
  <2> QED
    BY <2>1, <2>2, <2>3
<1>12. ASSUME NEW name \in {NewName, ".."}, APicker!NewDir(name) PROVE PickInv(w')
  <2>1. NewName \in Names
    BY DEF PickSetting
  <2>2. name = NewName \/ name \in Dots
    BY Zenon DEF Dots
  <2> QED
    BY <1>12, <2>1, <2>2, NewDirKeeps
<1>13. ASSUME NEW p \in DOMAIN Nodes, APicker!Removed(p) PROVE PickInv(w')
  BY <1>13, RemovedKeeps
<1> QED
  BY <1>5, <1>6, <1>7, <1>8, <1>9, <1>10, <1>11, <1>12, <1>13 DEF APicker!PickNext

-----------------------------------------------------------------------------
(* ap_queue_viewer.                                                        *)

\* ap_queue_viewer: between the snapshot and the drawing the cursor is on a row of
\* the filtered list, and what a frame drew fits the list it was drawn from.
ViewFits(map, starts, of, phase, cursor) ==
    /\ map \in Seq(Nat) /\ starts \in Seq(Nat) /\ of \in [1 .. Len(map) -> Int]
    /\ \A k \in 1 .. Len(starts) : starts[k] < Len(map)
    /\ phase = "input" /\ Len(map) > 0 => cursor < Len(map)
ViewShape(s) ==
    s \in [kind : {"viewer", "done"}, opts : {s.opts}, queue : {s.queue}, phase : {"snapshot", "input"},
           items : {s.items}, filter : {s.filter}, map : {s.map}, starts : {s.starts}, of : {s.of},
           cursor : Nat, top : Nat, running : {s.running}, called : {s.called}, drawn : {s.drawn},
           overflow : {s.overflow}]
ViewTyped(s) ==
    /\ ViewShape(s)
    /\ DOMAIN s.queue = 1 .. Len(Jobs)
    /\ ViewFits(s.map, s.starts, s.of, s.phase, s.cursor)
DrawnFull(s) ==
    s.drawn # <<>> /\ s.phase = "snapshot" /\ s.called = "none" =>
        /\ Len(s.map) > 0 => s.drawn.here \in DOMAIN s.drawn.rows
        /\ Len(s.drawn.rows) = (IF Len(s.map) < ViewRows THEN Len(s.map) ELSE ViewRows)
ViewInv(s) == ViewTyped(s) /\ DrawnFull(s)

\* The window of the queue viewer is full.
LEMMA ViewerHolds == ASSUME ViewInv(w) PROVE AViewer!WindowFull
BY DEF ViewInv, DrawnFull, AViewer!WindowFull, AViewer!N

\* A queue viewer opens with nothing drawn.
LEMMA ViewStarts == ASSUME ViewSetting, AViewer!ViewInit PROVE ViewInv(w)
<1>1. PICK o \in ViewOpts, q \in [1 .. Len(Jobs) -> {"pending"}] : w = AViewer!OpenViewer(o, q)
  BY DEF AViewer!ViewInit
<1> QED
  BY <1>1 DEF ViewSetting, ViewInv, ViewTyped, ViewShape, ViewFits, DrawnFull, AViewer!OpenViewer

\* A frame begins: cursor and jump index are in the new list.
LEMMA SnapshotKeeps == ASSUME ViewSetting, ViewInv(w), AViewer!Snapshot PROVE ViewInv(w')
<1> DEFINE present == AViewer!Ordered({i \in DOMAIN w.queue : w.queue[i] # "cleared"})
           n == IF Len(present) > MaxItems THEN MaxItems ELSE Len(present)
           items == [k \in 1 .. n |-> [job |-> present[k], status |-> w.queue[present[k]]]]
           map == AViewer!Ordered({k \in DOMAIN items : items[k].status \in AViewer!Passes(w.filter)})
           group(k) == Jobs[items[map[k]].job]
           heads == {k \in DOMAIN map : k = 1 \/ group(k) # group(k - 1)}
           from == {k - 1 : k \in {h \in heads : AViewer!Cardinality({g \in heads : g <= h}) <= ViewGroups}}
           starts == AViewer!Ordered(from)
           of == [k \in DOMAIN map |-> AViewer!Cardinality({j \in DOMAIN starts : starts[j] < k}) - 1]
<1>2. w' = [w EXCEPT !.phase = "input", !.items = items, !.map = map, !.starts = starts, !.of = of,
                     !.cursor = AViewer!Pull(w, Len(map)), !.called = "none"]
  BY Zenon DEF AViewer!Snapshot
<1>3. Len(Jobs) \in Nat /\ MaxItems \in Nat /\ DOMAIN w.queue = 1 .. Len(Jobs)
  BY DEF ViewSetting, ViewInv, ViewTyped, ViewShape
<1>4. n \in Nat
  <2> DEFINE S == {i \in DOMAIN w.queue : w.queue[i] # "cleared"}
  <2>1. S \in SUBSET (0 .. Len(Jobs))
    BY <1>3
  <2>2. Len(present) \in 0 .. Len(Jobs) + 1
    <3> HIDE DEF S
    <3> QED
      BY <1>3, <2>1, OrderedIs
  <2> HIDE DEF S, present
  <2> QED
    BY <1>3, <2>2
<1> HIDE DEF n, present
<1>5. map \in Seq(Nat) /\ Len(map) \in Nat
  <2> DEFINE S == {k \in DOMAIN items : items[k].status \in AViewer!Passes(w.filter)}
  <2>1. S \in SUBSET (0 .. n)
    BY <1>4
  <2> HIDE DEF items, S
  <2>2. map \in Seq(S)
    BY <1>4, <2>1, OrderedIs DEF S
  <2>3. \A k \in S : k \in Nat
    BY <1>4, <2>1
  <2> HIDE DEF map
  <2>4. Len(map) \in Nat /\ \A k \in 1 .. Len(map) : map[k] \in S
    BY <2>2
  <2>5. map \in [1 .. Len(map) -> Nat]
    BY <2>2, <2>3, <2>4
  <2> QED
    BY <2>4, <2>5
<1> HIDE DEF items, map
<1>6. starts \in Seq(Nat) /\ \A k \in 1 .. Len(starts) : starts[k] < Len(map)
  <2>1. CASE Len(map) = 0
    <3>1. DOMAIN map = {}
      BY <1>5, <2>1
    <3>2. from = {}
      BY <3>1
    <3>3. from \in SUBSET (0 .. 0)
      BY <3>2
    <3> HIDE DEF from
    <3>4. starts \in Seq(from) /\ Len(starts) = 0
      BY <3>2, <3>3, OrderedIs
    <3> HIDE DEF starts
    <3> QED
      BY <3>2, <3>4
  <2>2. CASE Len(map) # 0
    <3>1. DOMAIN map = 1 .. Len(map) /\ Len(map) - 1 \in Nat
      BY <1>5, <2>2
    <3>2. \A k \in heads : k \in 1 .. Len(map)
      BY <3>1
    <3>3. from \in SUBSET (0 .. Len(map) - 1)
      <4> HIDE DEF heads
      <4>1. \A k \in heads : k - 1 \in 0 .. Len(map) - 1
        BY <3>1, <3>2
      <4> QED
        BY <4>1
    <3> HIDE DEF from
    <3>4. starts \in Seq(from)
      BY <3>1, <3>3, OrderedIs
    <3>7. Len(starts) \in Nat /\ DOMAIN starts = 1 .. Len(starts)
      <4> HIDE DEF starts
      <4> QED
        BY <3>4
    <3> HIDE DEF starts
    <3>5. Len(starts) \in Nat /\ \A k \in 1 .. Len(starts) : starts[k] \in 0 .. Len(map) - 1
      <4>1. Len(starts) \in Nat /\ \A k \in 1 .. Len(starts) : starts[k] \in from
        BY <3>4
      <4> QED
        BY <3>3, <4>1
    <3>6. starts \in Seq(Nat)
      <4>1. \A k \in 1 .. Len(starts) : starts[k] \in Nat
        BY <3>1, <3>5
      <4> QED
        BY <3>4, <4>1
    <3>8. \A k \in 1 .. Len(starts) : starts[k] < Len(map)
      BY <3>1, <3>5
    <3> QED
      BY <3>6, <3>8
  <2> QED
    BY <2>1, <2>2
<1> HIDE DEF from, starts
<1>7. of \in [1 .. Len(map) -> Int]
  <2>1. ASSUME NEW k \in DOMAIN map PROVE AViewer!Cardinality({j \in DOMAIN starts : starts[j] < k}) \in Int
    <3> DEFINE T == {j \in DOMAIN starts : starts[j] < k}
    <3>1. T \in SUBSET (1 .. Len(starts)) /\ Len(starts) \in Nat
      BY <1>6
    <3>2. IsFiniteSet(1 .. Len(starts))
      BY <3>1, FS_Interval
    <3> HIDE DEF T
    <3>3. Cardinality(T) \in Nat
      BY <3>1, <3>2, FS_Subset, FS_CardinalityType
    <3>4. AViewer!Cardinality(T) = Cardinality(T)
      BY DEF AViewer!Cardinality, Cardinality
    <3> QED
      BY <3>3, <3>4 DEF T
  <2>2. DOMAIN map = 1 .. Len(map)
    BY <1>5
  <2> QED
    BY <2>1, <2>2
<1> HIDE DEF of
<1>8. /\ AViewer!Pull(w, Len(map)) \in Nat
      /\ Len(map) > 0 => AViewer!Pull(w, Len(map)) < Len(map)
  BY <1>5 DEF AViewer!Pull, ViewInv, ViewTyped, ViewShape
<1> HIDE DEF AViewer!Pull
<1> DEFINE c == AViewer!Pull(w, Len(map))
<1>9. ViewTyped(w')
  <2>1. ViewFits(map, starts, of, "input", c)
    BY <1>5, <1>6, <1>7, <1>8 DEF ViewFits
  <2> QED
    BY <1>2, <1>8, <2>1 DEF ViewInv, ViewTyped, ViewShape
<1>10. w'.phase = "input"
  BY <1>2, <1>9 DEF ViewInv, ViewTyped, ViewShape
<1> QED
  BY <1>9, <1>10 DEF ViewInv, DrawnFull

\* A press that moves the cursor.
LEMMA CursorMoves ==
    ASSUME ViewInv(w), w.phase = "input", NEW c \in Int, Len(w.map) > 0 => c \in 0 .. Len(w.map) - 1,
           AViewer!Cursor(c)
    PROVE  ViewInv(w')
<1> DEFINE n == Len(w.map)
           d == IF n > 0 THEN c ELSE w.cursor
<1>1. w' = [w EXCEPT !.cursor = d]
  BY DEF AViewer!Cursor, AViewer!N, ViewInv, ViewTyped, ViewShape
<1>2. d \in Nat /\ (n > 0 => d < n)
  <2>1. n \in Nat /\ w.cursor \in Nat
    BY DEF ViewInv, ViewTyped, ViewShape, ViewFits
  <2> QED
    BY <2>1
<1> HIDE DEF d
<1>3. ViewFits(w.map, w.starts, w.of, "input", d)
  BY <1>2 DEF ViewInv, ViewTyped, ViewShape, ViewFits
<1> HIDE DEF n
<1>4. ViewTyped(w') /\ w'.phase = "input"
  BY <1>1, <1>2, <1>3 DEF ViewInv, ViewTyped, ViewShape
<1> QED
  BY <1>4 DEF ViewInv, DrawnFull

\* A frame draws as many rows as there are, with the cursor among them.
LEMMA FrameFills == ASSUME ViewSetting, ViewInv(w), AViewer!Frame PROVE ViewInv(w')
<1> DEFINE n == Len(w.map)
           c == AViewer!Pull(w, n)
           top == AViewer!ScrollTop(c, w.top, n)
           s == [w EXCEPT !.cursor = c, !.top = top]
<1>1. ViewTyped(w) /\ ViewRows \in Nat \ {0} /\ n \in Nat /\ w.cursor \in Nat /\ w.top \in Nat
  BY DEF ViewInv, ViewTyped, ViewShape, ViewFits, ViewSetting
<1>2. c \in Nat /\ (n > 0 => c < n) /\ (n = 0 => c = 0)
  BY <1>1 DEF AViewer!Pull
<1> HIDE DEF n, c
<1>3. /\ top \in Nat /\ top <= c /\ top <= n
      /\ n > 0 => c - top + 1 \in 1 .. (IF n - top < ViewRows THEN n - top ELSE ViewRows)
      /\ (IF n - top < ViewRows THEN n - top ELSE ViewRows) = (IF n < ViewRows THEN n ELSE ViewRows)
  BY <1>1, <1>2 DEF AViewer!ScrollTop
<1> HIDE DEF top
<1>4. w' = [s EXCEPT !.drawn = AViewer!Drawn(s, n), !.phase = "snapshot",
                     !.kind = IF w.running THEN "viewer" ELSE "done"]
  BY DEF AViewer!Frame, AViewer!N, n, c, top
<1>5. s.top = top /\ s.cursor = c
  BY <1>1 DEF ViewTyped, ViewShape
<1>6. /\ AViewer!Drawn(s, n).here = c - top + 1
      /\ DOMAIN AViewer!Drawn(s, n).rows = 1 .. (IF n - top < ViewRows THEN n - top ELSE ViewRows)
      /\ Len(AViewer!Drawn(s, n).rows) = (IF n - top < ViewRows THEN n - top ELSE ViewRows)
  BY <1>1, <1>3, <1>5 DEF AViewer!Drawn
<1>7. ViewTyped(w') /\ w'.drawn = AViewer!Drawn(s, n) /\ w'.map = w.map
  <2>1. ViewFits(w.map, w.starts, w.of, "snapshot", c)
    BY <1>1 DEF ViewTyped, ViewShape, ViewFits
  <2>2. ViewShape(s) /\ s.queue = w.queue /\ s.map = w.map /\ s.starts = w.starts /\ s.of = w.of
    BY <1>1, <1>2, <1>3 DEF ViewTyped, ViewShape
  <2> DEFINE kind == IF w.running THEN "viewer" ELSE "done"
             drawn == AViewer!Drawn(s, n)
  <2>3. kind \in {"viewer", "done"}
    OBVIOUS
  <2>4. w' = [s EXCEPT !.drawn = drawn, !.phase = "snapshot", !.kind = kind] /\ s.cursor = c
    BY <1>4, <1>5
  <2> HIDE DEF s, kind, drawn
  <2>5. /\ ViewShape(w') /\ w'.queue = s.queue /\ w'.map = s.map /\ w'.starts = s.starts /\ w'.of = s.of
        /\ w'.cursor = c /\ w'.phase = "snapshot" /\ w'.drawn = drawn
    BY <2>2, <2>3, <2>4 DEF ViewShape
  <2>6. DOMAIN w.queue = 1 .. Len(Jobs)
    BY <1>1 DEF ViewTyped
  <2> QED
    BY <2>1, <2>2, <2>5, <2>6 DEF ViewTyped, drawn
<1> QED
  BY <1>3, <1>6, <1>7 DEF ViewInv, DrawnFull, n

\* Every event, every frame and every step of a job keeps the invariant.
LEMMA ViewSteps == ASSUME ViewSetting, ViewInv(w), AViewer!ViewNext PROVE ViewInv(w')
<1> DEFINE n == Len(w.map)
<1>1. ViewTyped(w) /\ ViewRows \in Nat \ {0} /\ n \in Nat /\ w.cursor \in Nat
  BY DEF ViewInv, ViewTyped, ViewShape, ViewFits, ViewSetting
<1>2. AViewer!Polling => w.phase = "input" /\ (n > 0 => w.cursor < n)
  BY <1>1 DEF AViewer!Polling, ViewTyped, ViewShape, ViewFits
<1>3. ASSUME AViewer!Up PROVE ViewInv(w')
  <2> DEFINE c == IF w.cursor > 0 THEN w.cursor - 1 ELSE n - 1
  <2>1. c \in Int /\ (n > 0 => c \in 0 .. n - 1)
    BY <1>1, <1>2, <1>3 DEF AViewer!Up
  <2>2. AViewer!Cursor(c) /\ AViewer!Polling
    BY <1>3 DEF AViewer!Up, AViewer!N
  <2> QED
    BY <1>2, <2>1, <2>2, CursorMoves
<1>4. ASSUME AViewer!Down PROVE ViewInv(w')
  <2> DEFINE c == IF w.cursor < n - 1 THEN w.cursor + 1 ELSE 0
  <2>1. c \in Int /\ (n > 0 => c \in 0 .. n - 1)
    BY <1>1, <1>2, <1>4 DEF AViewer!Down
  <2>2. AViewer!Cursor(c) /\ AViewer!Polling
    BY <1>4 DEF AViewer!Down, AViewer!N
  <2> QED
    BY <1>2, <2>1, <2>2, CursorMoves
<1>5. ASSUME AViewer!Left PROVE ViewInv(w')
  <2> DEFINE c == IF w.cursor < ViewRows THEN 0 ELSE w.cursor - ViewRows
  <2>1. c \in Int /\ (n > 0 => c \in 0 .. n - 1)
    BY <1>1, <1>2, <1>5 DEF AViewer!Left
  <2>2. AViewer!Cursor(c) /\ AViewer!Polling
    BY <1>5 DEF AViewer!Left
  <2> QED
    BY <1>2, <2>1, <2>2, CursorMoves
<1>6. ASSUME AViewer!Right PROVE ViewInv(w')
  <2> DEFINE c == IF w.cursor + ViewRows >= n THEN n - 1 ELSE w.cursor + ViewRows
  <2>1. c \in Int /\ (n > 0 => c \in 0 .. n - 1)
    BY <1>1, <1>2, <1>6 DEF AViewer!Right
  <2>2. AViewer!Cursor(c) /\ AViewer!Polling
    BY <1>6 DEF AViewer!Right, AViewer!N
  <2> QED
    BY <1>2, <2>1, <2>2, CursorMoves
<1>7. ASSUME NEW d \in {-1, 1}, AViewer!JumpAlpha(d) PROVE ViewInv(w')
  <2> DEFINE g == w.of[w.cursor + 1] + d
             c == IF g >= 0 /\ g < Len(w.starts) THEN w.starts[g + 1] ELSE w.cursor
  <2>1. AViewer!Polling /\ n > 0 /\ AViewer!Cursor(c)
    BY <1>7 DEF AViewer!JumpAlpha, AViewer!N
  <2>2. g \in Int
    <3>1. w.of \in [1 .. n -> Int]
      BY <1>1 DEF ViewTyped, ViewShape, ViewFits
    <3>2. w.cursor \in Nat /\ w.cursor < n
      BY <1>1, <1>2, <2>1
    <3> DEFINE k == w.cursor + 1
    <3>3. k \in 1 .. n
      BY <1>1, <3>2
    <3> HIDE DEF n, k
    <3>4. w.of[k] \in Int
      BY <3>1, <3>3
    <3> QED
      BY <3>4 DEF k
  <2>3. c \in 0 .. n - 1
    <3>1. w.starts \in Seq(Nat) /\ \A k \in 1 .. Len(w.starts) : w.starts[k] < n
      BY <1>1 DEF ViewTyped, ViewShape, ViewFits
    <3>2. Len(w.starts) \in Nat /\ \A k \in 1 .. Len(w.starts) : w.starts[k] \in 0 .. n - 1
      BY <1>1, <3>1
    <3>3. w.cursor \in 0 .. n - 1
      BY <1>1, <1>2, <2>1
    <3> HIDE DEF g, n
    <3>4. g >= 0 /\ g < Len(w.starts) => g + 1 \in 1 .. Len(w.starts)
      BY <2>2, <3>2
    <3> QED
      BY <3>2, <3>3, <3>4
  <2> QED
    BY <1>2, <2>1, <2>3, CursorMoves
<1>8. ASSUME AViewer!NextFilter \/ AViewer!Leave PROVE ViewInv(w')
  <2>1. AViewer!Polling
    BY <1>8 DEF AViewer!NextFilter, AViewer!Leave
  <2>2. \/ w' = [w EXCEPT !.filter = (@ + 1) % 4, !.cursor = 0, !.top = 0]
        \/ w' = [w EXCEPT !.running = FALSE]
    BY <1>8 DEF AViewer!NextFilter, AViewer!Leave
  <2>3. /\ ViewFits(w.map, w.starts, w.of, "input", w.cursor)
        /\ ViewFits(w.map, w.starts, w.of, "input", 0)
    BY <1>1, <1>2, <2>1 DEF ViewTyped, ViewShape, ViewFits
  <2>4. ViewTyped(w') /\ w'.phase = "input"
    <3>1. CASE w' = [w EXCEPT !.filter = (@ + 1) % 4, !.cursor = 0, !.top = 0]
      <4> DEFINE f == (w.filter + 1) % 4
      <4>1. w' = [w EXCEPT !.filter = f, !.cursor = 0, !.top = 0]
        BY <3>1
      <4> HIDE DEF f
      <4> QED
        BY <1>1, <1>2, <2>1, <2>3, <4>1 DEF ViewTyped, ViewShape
    <3>2. CASE w' = [w EXCEPT !.running = FALSE]
      BY <1>1, <1>2, <2>1, <2>3, <3>2 DEF ViewTyped, ViewShape
    <3> QED
      BY <2>2, <3>1, <3>2
  <2> QED
    BY <2>4 DEF ViewInv, DrawnFull
<1>9. ASSUME AViewer!OpenDetail \/ AViewer!StopAll \/ AViewer!ClearDone PROVE ViewInv(w')
  <2> DEFINE Left(q) == [w EXCEPT !.queue = q]
  <2>0. \E what \in {"detail", "cancel", "clear"} : \E s : ViewTyped(s) /\ AViewer!Called(what, s)
    <3>1. CASE AViewer!OpenDetail
      BY <1>1, <3>1 DEF AViewer!OpenDetail
    <3>2. CASE AViewer!StopAll
      <4> DEFINE q == [i \in DOMAIN w.queue |-> IF w.queue[i] \in AViewer!Active THEN "skipped" ELSE w.queue[i]]
                 s == [w EXCEPT !.queue = q]
      <4>1. DOMAIN q = DOMAIN w.queue /\ AViewer!Called("cancel", s)
        BY <3>2, Zenon DEF AViewer!StopAll
      <4> HIDE DEF q
      <4>2. ViewTyped(s)
        BY <1>1, <4>1 DEF ViewTyped, ViewShape
      <4> QED
        BY <4>1, <4>2
    <3>3. CASE AViewer!ClearDone
      <4> DEFINE q == [i \in DOMAIN w.queue |-> IF w.queue[i] \in AViewer!Finished THEN "cleared" ELSE w.queue[i]]
                 s == [w EXCEPT !.queue = q]
      <4>1. DOMAIN q = DOMAIN w.queue /\ AViewer!Called("clear", s)
        BY <3>3, Zenon DEF AViewer!ClearDone
      <4> HIDE DEF q
      <4>2. ViewTyped(s)
        BY <1>1, <4>1 DEF ViewTyped, ViewShape
      <4> QED
        BY <4>1, <4>2
    <3> QED
      BY <1>9, <3>1, <3>2, <3>3
  <2> PICK what \in {"detail", "cancel", "clear"} : \E s : ViewTyped(s) /\ AViewer!Called(what, s)
    BY <2>0
  <2>1. PICK s : ViewTyped(s) /\ AViewer!Called(what, s)
    OBVIOUS
  <2>2. ViewTyped(w') /\ w'.called = what
    <3>1. ViewFits(s.map, s.starts, s.of, "snapshot", s.cursor)
      BY <2>1 DEF ViewTyped, ViewShape, ViewFits
    <3> DEFINE kind == IF w.running THEN "viewer" ELSE "done"
    <3>2. kind \in {"viewer", "done"} /\ w' = [s EXCEPT !.called = what, !.phase = "snapshot", !.kind = kind]
      BY <2>1 DEF AViewer!Called
    <3> HIDE DEF kind
    <3>3. ViewShape(s) /\ DOMAIN s.queue = 1 .. Len(Jobs)
      BY <2>1 DEF ViewTyped
    <3>4. /\ ViewShape(w') /\ w'.queue = s.queue /\ w'.map = s.map /\ w'.starts = s.starts /\ w'.of = s.of
          /\ w'.cursor = s.cursor /\ w'.phase = "snapshot" /\ w'.called = what
      BY <3>2, <3>3 DEF ViewShape
    <3> QED
      BY <3>1, <3>3, <3>4 DEF ViewTyped
  <2>3. what # "none"
    OBVIOUS
  <2> QED
    BY <2>2, <2>3 DEF ViewInv, DrawnFull
<1>10. ASSUME NEW i, NEW st, AViewer!JobStep(i, st) PROVE ViewInv(w')
  <2>1. w' = [w EXCEPT !.queue[i] = st]
    BY <1>10 DEF AViewer!JobStep
  <2>2. ViewTyped(w')
    BY <1>1, <2>1 DEF ViewTyped, ViewShape
  <2>3. w'.map = w.map /\ w'.drawn = w.drawn /\ w'.phase = w.phase /\ w'.called = w.called
    BY <1>1, <2>1 DEF ViewTyped, ViewShape
  <2> QED
    BY <2>2, <2>3 DEF ViewInv, DrawnFull
<1> QED
  BY <1>3, <1>4, <1>5, <1>6, <1>7, <1>8, <1>9, <1>10, SnapshotKeeps, FrameFills DEF AViewer!ViewNext

-----------------------------------------------------------------------------
(* The smaller widgets.                                                    *)

\* The smaller widgets: each keeps its own frame until it returns, and the process
\* screen joins a thread that is done.
IsProcess(s) ==
    /\ s \in [kind : {"process", "done"}, signal : {s.signal}, hasSignal : {s.hasSignal}, worker : {s.worker},
              value : {s.value}, result : {s.result}, phase : {s.phase}]
    /\ s.phase = "join" => s.worker = "done"
    /\ s.kind = "done" => s.worker = "done" /\ s.result = s.value
IsDetail(s) == s \in [kind : {"detail", "done"}, secs : Details, target : {s.target}, at : {s.at},
                      running : {s.running}, result : {s.result}]
IsSmall(s) ==
    \/ s \in [kind : {"confirm", "done"}, running : {s.running}, result : {s.result}]
    \/ s \in [kind : {"select", "done"}, running : {s.running}, result : {s.result}, at : {s.at},
              index : {s.index}]
    \/ s \in [kind : {"color", "done"}, x : {s.x}, y : {s.y}, result : {s.result}, color : {s.color}]
    \/ s \in [kind : {"help", "done"}, text : {s.text}, scroll : {s.scroll}, running : {s.running},
              result : {s.result}]
DialogInv(s) == IsProcess(s) \/ IsDetail(s) \/ IsSmall(s)

\* Each of the smaller widgets opens with its own frame.
LEMMA DialogStarts == ASSUME ADialogs!DialogInit PROVE DialogInv(w)
<1>1. CASE w = ADialogs!Confirmation
  BY <1>1 DEF ADialogs!Confirmation, DialogInv, IsSmall
<1>2. CASE w = ADialogs!Selection
  BY <1>2 DEF ADialogs!Selection, DialogInv, IsSmall
<1>3. CASE \E b \in BOOLEAN : w = ADialogs!Process(b)
  BY <1>3 DEF ADialogs!Process, DialogInv, IsProcess
<1>4. CASE \E d \in Details : w = ADialogs!DetailScreen(d)
  BY <1>4 DEF ADialogs!DetailScreen, DialogInv, IsDetail
<1>5. CASE \E c \in {0, 24} : w = ADialogs!ColorPicker(c)
  BY <1>5 DEF ADialogs!ColorPicker, DialogInv, IsSmall
<1>6. CASE \E t \in HelpTexts : w = ADialogs!HelpOverlay(t)
  BY <1>6 DEF ADialogs!HelpOverlay, DialogInv, IsSmall
<1> QED
  BY <1>1, <1>2, <1>3, <1>4, <1>5, <1>6 DEF ADialogs!DialogInit

\* Each of the smaller widgets keeps its own frame.
LEMMA DialogSteps == ASSUME DialogInv(w), ADialogs!DialogNext PROVE DialogInv(w')
<1> USE DEF ADialogs!Is, ADialogs!Ends, ADialogs!Close, ADialogs!LastFrame
<1>1. ASSUME ADialogs!ConfirmEnds \/ \E b \in {"A", "B"} : ADialogs!ConfirmPress(b) PROVE DialogInv(w')
  <2>1. w.kind = "confirm"
    BY <1>1 DEF ADialogs!ConfirmPress, ADialogs!ConfirmEnds
  <2>2. w \in [kind : {"confirm", "done"}, running : {w.running}, result : {w.result}]
    BY <2>1 DEF DialogInv, IsProcess, IsDetail, IsSmall
  <2> QED
    BY <1>1, <2>2 DEF ADialogs!ConfirmPress, ADialogs!ConfirmEnds, DialogInv, IsSmall
<1>2. ASSUME \/ \E d \in {-1, 1} : ADialogs!SelectMove(d)
             \/ ADialogs!SelectA \/ ADialogs!SelectB \/ ADialogs!SelectEnds
      PROVE  DialogInv(w')
  <2>1. w.kind = "select"
    BY <1>2 DEF ADialogs!SelectMove, ADialogs!SelectA, ADialogs!SelectB, ADialogs!SelectEnds
  <2>2. w \in [kind : {"select", "done"}, running : {w.running}, result : {w.result}, at : {w.at},
                index : {w.index}]
    BY <2>1 DEF DialogInv, IsProcess, IsDetail, IsSmall
  <2> QED
    BY <1>2, <2>2 DEF ADialogs!SelectMove, ADialogs!SelectA, ADialogs!SelectB, ADialogs!SelectEnds,
                      DialogInv, IsSmall
<1>3. ASSUME \/ \E v \in {"ok", "failed", "interrupted"} : ADialogs!WorkerReturns(v)
             \/ ADialogs!WorkerDone \/ ADialogs!Interrupt \/ ADialogs!ProcessJoin
             \/ ADialogs!ProcessEnds
      PROVE  DialogInv(w')
  <2>1. w.kind = "process"
    BY <1>3 DEF ADialogs!WorkerReturns, ADialogs!WorkerDone, ADialogs!Interrupt,
                ADialogs!ProcessJoin, ADialogs!ProcessEnds
  <2>2. IsProcess(w)
    BY <2>1 DEF DialogInv, IsDetail, IsSmall
  <2>3. CASE \E v \in {"ok", "failed", "interrupted"} : ADialogs!WorkerReturns(v)
    BY <2>1, <2>2, <2>3 DEF ADialogs!WorkerReturns, DialogInv, IsProcess
  <2>4. CASE ADialogs!WorkerDone \/ ADialogs!Interrupt
    BY <2>1, <2>2, <2>4 DEF ADialogs!WorkerDone, ADialogs!Interrupt, DialogInv, IsProcess
  <2>5. CASE ADialogs!ProcessJoin \/ ADialogs!ProcessEnds
    BY <2>1, <2>2, <2>5 DEF ADialogs!ProcessJoin, ADialogs!ProcessSeen, ADialogs!ProcessEnds,
                            DialogInv, IsProcess
  <2> QED
    BY <1>3, <2>3, <2>4, <2>5
<1>4. ASSUME \/ ADialogs!DetailUp \/ ADialogs!DetailDown \/ \E y : ADialogs!DetailFrame(y)
             \/ \E b \in {"A", "B", "Y"} : ADialogs!DetailPress(b)
      PROVE  DialogInv(w')
  <2>1. w.kind = "detail"
    BY <1>4 DEF ADialogs!DetailUp, ADialogs!DetailDown, ADialogs!DetailFrame, ADialogs!DetailPress
  <2>2. IsDetail(w)
    BY <2>1 DEF DialogInv, IsProcess, IsSmall
  <2> QED
    BY <1>4, <2>2 DEF ADialogs!DetailUp, ADialogs!DetailDown, ADialogs!DetailFrame,
                      ADialogs!DetailPress, DialogInv, IsDetail
<1>5. ASSUME \/ \E x, y : ADialogs!ColorMove(x, y)
             \/ ADialogs!ColorA \/ ADialogs!ColorB
      PROVE  DialogInv(w')
  <2>1. w.kind = "color"
    BY <1>5 DEF ADialogs!ColorMove, ADialogs!ColorA, ADialogs!ColorB
  <2>2. w \in [kind : {"color", "done"}, x : {w.x}, y : {w.y}, result : {w.result}, color : {w.color}]
    BY <2>1 DEF DialogInv, IsProcess, IsDetail, IsSmall
  <2> QED
    BY <1>5, <2>2 DEF ADialogs!ColorMove, ADialogs!ColorA, ADialogs!ColorB, DialogInv, IsSmall
<1>6. ASSUME ADialogs!HelpUp \/ ADialogs!HelpDown \/ ADialogs!HelpClose \/ ADialogs!HelpEnds
      PROVE  DialogInv(w')
  <2>1. w.kind = "help"
    BY <1>6 DEF ADialogs!HelpUp, ADialogs!HelpDown, ADialogs!HelpClose, ADialogs!HelpEnds
  <2>2. w \in [kind : {"help", "done"}, text : {w.text}, scroll : {w.scroll}, running : {w.running},
                result : {w.result}]
    BY <2>1 DEF DialogInv, IsProcess, IsDetail, IsSmall
  <2> QED
    BY <1>6, <2>2 DEF ADialogs!HelpUp, ADialogs!HelpDown, ADialogs!HelpClose, ADialogs!HelpEnds,
                      DialogInv, IsSmall
<1> QED
  BY <1>1, <1>2, <1>3, <1>4, <1>5, <1>6 DEF ADialogs!DialogNext

\* The worker of a process screen has ended when the screen has.
LEMMA ProcessHolds == ASSUME DialogInv(w) PROVE ADialogs!WorkerOutlived
BY DEF DialogInv, IsProcess, IsDetail, IsSmall, ADialogs!WorkerOutlived

\* The heights counted for the first sections, added up.
LEMMA SumIs ==
    ASSUME NEW secs \in Seq(DetailSection), SectionGap \in Nat
    PROVE  \E f \in [0 .. Len(secs) -> Nat] :
             /\ f[0] = 0 /\ \A k \in 1 .. Len(secs) : f[k] = f[k - 1] + ADialogs!Counted(secs[k])
             /\ ADialogs!Total(secs) = f[Len(secs)]
<1> DEFINE n == Len(secs)
           c(k) == ADialogs!Counted(secs[k])
           Built(f) == f = [k \in 0 .. n |-> IF k = 0 THEN 0 ELSE f[k - 1] + c(k)]
           h == CHOOSE f : Built(f)
<1>1. n \in Nat /\ \A k \in 1 .. n : c(k) \in Nat /\ k - 1 \in 0 .. n /\ k \in 0 .. n
  <2>1. n \in Nat /\ \A k \in 1 .. n : secs[k] \in DetailSection
    OBVIOUS
  <2> HIDE DEF n
  <2>2. ASSUME NEW k \in 1 .. n PROVE c(k) \in Nat
    <3>1. secs[k].title \in Nat /\ secs[k].body \in Nat
      BY <2>1 DEF DetailSection
    <3>2. c(k) = secs[k].title + secs[k].body + SectionGap
      BY Zenon DEF ADialogs!Counted
    <3> DEFINE t == secs[k].title
               b == secs[k].body
    <3> HIDE DEF c, t, b
    <3>3. t \in Nat /\ b \in Nat
      BY <3>1 DEF t, b
    <3>4. c(k) = t + b + SectionGap
      BY <3>2 DEF t, b
    <3> QED
      BY <3>3, <3>4
  <2> HIDE DEF c
  <2>3. \A k \in 1 .. n : k - 1 \in 0 .. n /\ k \in 0 .. n
    BY <2>1
  <2> QED
    BY <2>1, <2>2, <2>3
<1> HIDE DEF c
<1>2. \E f : Built(f)
  <2> DEFINE F == [k \in 1 .. n |-> [v \in Nat |-> v + c(k)]]
  <2>1. F \in [1 .. n -> [Nat -> Nat]] /\ \A k \in 1 .. n, v \in Nat : F[k][v] = v + c(k)
    BY <1>1
  <2> HIDE DEF F
  <2>2. PICK f \in [0 .. n -> Nat] : Steps(f, n, 0, F)
    <3>1. n \in Nat /\ 0 \in Nat
      BY <1>1
    <3> QED
      BY <2>1, <3>1, StepByStep
  <2>3. \A k \in 0 .. n : f[k] = IF k = 0 THEN 0 ELSE f[k - 1] + c(k)
    <3>1. ASSUME NEW k \in 1 .. n PROVE f[k] = f[k - 1] + c(k)
      <4>1. f[k - 1] \in Nat
        BY <1>1
      <4> QED
        BY <2>1, <2>2, <4>1 DEF Steps
    <3>2. \A k \in 0 .. n : k = 0 \/ k \in 1 .. n
      BY <1>1
    <3> QED
      BY <2>2, <3>1, <3>2 DEF Steps
  <2>4. Built(f)
    BY <2>3
  <2> HIDE DEF Built
  <2> QED
    BY <2>4
<1>3. ADialogs!Total(secs) = h[n]
  BY DEF ADialogs!Total, c
<1>4. Built(h)
  <2> HIDE DEF Built
  <2> QED
    BY <1>2
<1> HIDE DEF h
<1>5. h[0] = 0 /\ \A k \in 1 .. n : h[k] = h[k - 1] + c(k)
  BY <1>1, <1>4
<1> DEFINE G == {k \in 0 .. n : \A j \in 0 .. k : h[j] \in Nat}
<1>6. 0 \in G
  BY <1>1, <1>5
<1>7. ASSUME NEW k \in 1 .. n, k - 1 \in G PROVE k \in G
  <2>1. k - 1 \in 0 .. k - 1 /\ \A j \in 0 .. k : j = k \/ j \in 0 .. k - 1
    OBVIOUS
  <2>2. h[k] \in Nat
    <3>1. h[k] = h[k - 1] + c(k) /\ c(k) \in Nat
      BY <1>1, <1>5
    <3>2. h[k - 1] \in Nat
      BY <1>7, <2>1
    <3> QED
      BY <3>1, <3>2
  <2> QED
    BY <1>1, <1>7, <2>1, <2>2
<1> HIDE DEF G
<1>8. n \in G
  BY <1>1, <1>6, <1>7, Climb
<1>9. h \in [0 .. n -> Nat]
  BY <1>4, <1>8 DEF G
<1> QED
  BY <1>3, <1>5, <1>9 DEF c

\* The end of the last section comes on the screen.
LEMMA DetailHolds ==
    ASSUME DetailSetting, DialogInv(w) PROVE ADialogs!EndReachable
<1> SUFFICES ASSUME w.kind = "detail", w.secs # <<>>, w.at = ADialogs!MaxScroll(w.secs),
                    \A k \in DOMAIN w.secs : w.secs[k].drawn = w.secs[k].body
             PROVE  ADialogs!TopOf(Len(w.secs)) + w.secs[Len(w.secs)].title
                      + w.secs[Len(w.secs)].drawn <= DetailView
  BY DEF ADialogs!EndReachable
<1> DEFINE secs == w.secs
           n == Len(secs)
           c(k) == ADialogs!Counted(secs[k])
<1>1. secs \in Seq(DetailSection) /\ DetailView \in Nat /\ SectionGap \in Nat
  BY DEF DetailSetting, DialogInv, IsProcess, IsDetail, IsSmall
<1>2. n \in Nat \ {0} /\ \A k \in 1 .. n : secs[k] \in DetailSection /\ secs[k].drawn = secs[k].body
  BY <1>1
<1>3. PICK sum \in [0 .. n -> Nat] :
         /\ sum[0] = 0 /\ \A k \in 1 .. n : sum[k] = sum[k - 1] + c(k)
         /\ ADialogs!Total(secs) = sum[n]
  BY <1>1, SumIs
<1>4. w.at \in Nat /\ sum[n] - w.at <= DetailView
  <2>1. sum[n] \in Nat
    BY <1>2, <1>3
  <2> QED
    BY <1>1, <1>3, <2>1 DEF ADialogs!MaxScroll
<1>5. \A k \in 1 .. n : c(k) \in Nat /\ c(k) = secs[k].title + secs[k].drawn + SectionGap
  <2> SUFFICES ASSUME NEW k \in 1 .. n
               PROVE  c(k) \in Nat /\ c(k) = secs[k].title + secs[k].drawn + SectionGap
    OBVIOUS
  <2>1. secs[k].title \in Nat /\ secs[k].body \in Nat /\ secs[k].drawn = secs[k].body
    BY <1>2 DEF DetailSection
  <2>2. c(k) = secs[k].title + secs[k].body + SectionGap
    BY Zenon DEF ADialogs!Counted
  <2> DEFINE t == secs[k].title
             b == secs[k].body
  <2> HIDE DEF c, secs, n
  <2> HIDE DEF t, b
  <2>3. t \in Nat /\ b \in Nat /\ b = secs[k].drawn
    BY <2>1 DEF t, b
  <2>4. c(k) = t + b + SectionGap
    BY <2>2 DEF t, b
  <2>5. c(k) \in Nat
    BY <1>1, <2>3, <2>4
  <2> QED
    BY <2>3, <2>4, <2>5 DEF t
<1>6. ADialogs!TopOf(n) = sum[n - 1] - w.at
  <2> DEFINE Next(f, i) ==
               IF i = 1 THEN -w.at
               ELSE LET above == f[i - 1]
                        sec == secs[i - 1]
                        off == above + ADialogs!Counted(sec) <= 0 \/ above >= DetailView
                    IN  above + (IF off THEN ADialogs!Counted(sec) ELSE sec.title + sec.drawn + SectionGap)
             Built(f) == f = [i \in 1 .. n |-> Next(f, i)]
             h == CHOOSE f : Built(f)
             y == [i \in 1 .. n |-> sum[i - 1] - w.at]
  <2>0. \A i \in 1 .. n : i # 1 => i - 1 \in 1 .. n /\ i - 2 \in 0 .. n
    BY <1>2
  <2>1. ASSUME NEW f, NEW i \in 1 .. n, i # 1 => f[i - 1] = y[i - 1] PROVE Next(f, i) = y[i]
    <3>1. CASE i = 1
      BY <1>2, <1>3, <1>4, <3>1
    <3>2. CASE i # 1
      <4>1. i - 1 \in 1 .. n /\ sum[i - 1] = sum[(i - 1) - 1] + c(i - 1) /\ c(i - 1) \in Nat
            /\ y[i - 1] = sum[(i - 1) - 1] - w.at /\ y[i] = sum[i - 1] - w.at
        BY <1>3, <1>5, <2>0, <3>2
      <4>2. sum[(i - 1) - 1] \in Nat
        <5>1. (i - 1) - 1 \in 0 .. n
          BY <1>2, <2>0, <3>2
        <5> QED
          BY <5>1
      <4> HIDE DEF y
      <4>3. Next(f, i) = f[i - 1] + c(i - 1)
        BY <1>5, <3>2, <4>1
      <4> QED
        BY <1>4, <2>1, <3>2, <4>1, <4>2, <4>3
    <3> QED
      BY <3>1, <3>2
  <2>2. Built(y)
    <3>1. \A i \in 1 .. n : Next(y, i) = y[i]
      <4> HIDE DEF y, Next
      <4> QED
        BY <2>1
    <3> HIDE DEF Next
    <3> QED
      BY <3>1
  <2>3. ADialogs!TopOf(n) = h[n]
    BY DEF ADialogs!TopOf
  <2>4. Built(h)
    <3> HIDE DEF Built
    <3> QED
      BY <2>2
  <2> HIDE DEF h, Next
  <2>5. \A i \in 1 .. n : h[i] = Next(h, i)
    BY <2>4
  <2> HIDE DEF y
  <2> DEFINE G == {k \in 0 .. n : k # 0 => h[k] = y[k]}
  <2>6. 0 \in G
    BY <1>2
  <2>7. ASSUME NEW k \in 1 .. n, k - 1 \in G PROVE k \in G
    <3>1. k # 1 => h[k - 1] = y[k - 1]
      BY <2>7
    <3> QED
      BY <2>1, <2>5, <3>1
  <2> HIDE DEF G
  <2>8. n \in G
    BY <1>2, <2>6, <2>7, Climb
  <2> QED
    BY <1>2, <2>3, <2>8 DEF G, y
<1>7. sum[n - 1] \in Nat /\ sum[n] = sum[n - 1] + c(n) /\ n \in 1 .. n
  <2>1. n \in 1 .. n /\ n - 1 \in 0 .. n
    BY <1>2
  <2> HIDE DEF n, c
  <2> QED
    BY <1>3, <2>1
<1>8. secs[n].title \in Nat /\ secs[n].drawn \in Nat /\ c(n) = secs[n].title + secs[n].drawn + SectionGap
  BY <1>2, <1>5, <1>7 DEF DetailSection
<1> HIDE DEF secs, n, c
<1>9. sum[n - 1] - w.at + secs[n].title + secs[n].drawn <= DetailView
  <2> DEFINE a == sum[n - 1]
             x == w.at
             t == secs[n].title
             d == secs[n].drawn
  <2>1. a \in Nat /\ x \in Nat /\ t \in Nat /\ d \in Nat /\ SectionGap \in Nat /\ DetailView \in Nat
    BY <1>1, <1>4, <1>7, <1>8
  <2>2. sum[n] = a + (t + d + SectionGap) /\ sum[n] - x <= DetailView
    BY <1>4, <1>7, <1>8
  <2> HIDE DEF a, x, t, d
  <2>3. a - x + t + d <= DetailView
    BY <2>1, <2>2
  <2> QED
    BY <2>3 DEF a, x, t, d
<1> QED
  BY <1>6, <1>9 DEF secs, n

-----------------------------------------------------------------------------
(* All widgets.                                                            *)

\* Whichever widget runs, its frame is as it should be.
WidgetInv ==
    ListInv(w) \/ OptInv \/ KbInv(w) \/ PickInv(w) \/ ViewInv(w) \/ DialogInv(w)

\* A frame that is of no other widget: what the properties of others are about.
Others(kinds, fields) ==
    /\ w.kind \in kinds
    /\ DOMAIN w \cap ({"reorder", "focused", "layout", "entries", "queue", "worker"} \ fields) = {}

\* Every invariant tells whose frame it is.
LEMMA FrameOf ==
    /\ ListInv(w) => Others({"list", "done"}, {"reorder"})
    /\ OptInv => Others({"options", "done"}, {"focused"})
    /\ KbInv(w) => Others({"keyboard", "done"}, {"layout"})
    /\ PickInv(w) => Others({"picker", "done"}, {"entries"})
    /\ ViewInv(w) => Others({"viewer", "done"}, {"queue"})
    /\ DialogInv(w) =>
         Others({"process", "detail", "confirm", "select", "color", "help", "done"}, {"worker"})
<1>1. ListInv(w) => Others({"list", "done"}, {"reorder"})
  BY DEF ListInv, ListTyped, ListShape, Others
<1>2. OptInv => Others({"options", "done"}, {"focused"})
  BY DEF OptInv, OptTyped, Others
<1>3. KbInv(w) => Others({"keyboard", "done"}, {"layout"})
  BY DEF KbInv, KbShape, Others
<1>4. PickInv(w) => Others({"picker", "done"}, {"entries"})
  BY DEF PickInv, PickTyped, Others
<1>5. ViewInv(w) => Others({"viewer", "done"}, {"queue"})
  BY DEF ViewInv, ViewTyped, ViewShape, Others
<1>6. DialogInv(w) =>
        Others({"process", "detail", "confirm", "select", "color", "help", "done"}, {"worker"})
  <2>1. CASE IsProcess(w)
    BY <2>1 DEF IsProcess, Others
  <2>2. CASE IsDetail(w)
    BY <2>2 DEF IsDetail, Others
  <2>3. CASE IsSmall(w)
    BY <2>3 DEF IsSmall, Others
  <2> QED
    BY <2>1, <2>2, <2>3 DEF DialogInv
<1> QED
  BY <1>1, <1>2, <1>3, <1>4, <1>5, <1>6

\* The invariant of the widget that runs gives the properties of all.
LEMMA WidgetHolds == ASSUME WidgetInv PROVE WidgetsWhole
<1> USE DEF Others, WidgetsWhole, AList!CursorShown, AList!AlphaFresh, AList!SameRows, AList!IsList,
            AOptions!CursorShown, AOptions!IsOptions, AKeyboard!TextWhole, AKeyboard!IsKeyboard,
            APicker!StaysInside, APicker!IsPicker, AViewer!WindowFull, AViewer!IsViewer,
            ADialogs!EndReachable, ADialogs!WorkerOutlived
<1>1. CASE ListInv(w)
  BY <1>1, FrameOf, ListHolds
<1>2. CASE OptInv
  BY <1>2, FrameOf, OptHolds
<1>3. CASE KbInv(w)
  BY <1>3, FrameOf, KbHolds
<1>4. CASE PickInv(w)
  BY <1>4, FrameOf, PickHolds
<1>5. CASE ViewInv(w)
  BY <1>5, FrameOf, ViewerHolds
<1>6. CASE DialogInv(w)
  BY <1>6, FrameOf, ProcessHolds, DetailHolds, WidgetsAssumption
<1> QED
  BY <1>1, <1>2, <1>3, <1>4, <1>5, <1>6 DEF WidgetInv

\* Every widget opens with its frame as it should be.
LEMMA WidgetStarts == ASSUME WidgetInit PROVE WidgetInv
BY WidgetsAssumption, ListStarts, OptStarts, KbStarts, PickStarts, ViewStarts, DialogStarts
   DEF WidgetInit, WidgetInv
\* Only the widget that runs takes steps.
LEMMA OwnSteps ==
    /\ AList!ListNext => w.kind = "list"
    /\ AOptions!OptNext => w.kind = "options"
    /\ AKeyboard!KbNext => w.kind = "keyboard"
    /\ APicker!PickNext => w.kind = "picker"
    /\ AViewer!ViewNext => w.kind = "viewer"
    /\ ADialogs!DialogNext => w.kind \in {"process", "detail", "confirm", "select", "color", "help"}
<1>1. AList!ListNext => w.kind = "list"
  BY Zenon DEF AList!ListNext, AList!Up, AList!Down, AList!PressA, AList!PressB, AList!Page,
         AList!JumpAlpha, AList!Menu, AList!OptionButton, AList!Frame, AList!Polling
<1>2. AOptions!OptNext => w.kind = "options"
  BY Zenon DEF AOptions!OptNext, AOptions!Up, AOptions!Down, AOptions!Step, AOptions!PressA, AOptions!PressB,
         AOptions!Menu, AOptions!OptionButton, AOptions!Frame, AOptions!Polling
<1>3. AKeyboard!KbNext => w.kind = "keyboard"
  BY Zenon DEF AKeyboard!KbNext, AKeyboard!MoveRow, AKeyboard!MoveCol, AKeyboard!TypeNumeric,
         AKeyboard!TypeGeneral, AKeyboard!TypeUrl, AKeyboard!PressB, AKeyboard!PressX,
         AKeyboard!PressY, AKeyboard!PressStart, AKeyboard!PressSelect, AKeyboard!PressL1,
         AKeyboard!PressR1, AKeyboard!Frame, AKeyboard!Polling
<1>4. APicker!PickNext => w.kind = "picker"
  BY Zenon DEF APicker!PickNext, APicker!ScanFails, APicker!Scan, APicker!Back, APicker!EmptyLine,
         APicker!PickHere, APicker!Enter, APicker!PickFile, APicker!NewDir, APicker!Removed,
         APicker!At
<1>5. AViewer!ViewNext => w.kind = "viewer"
  BY Zenon DEF AViewer!ViewNext, AViewer!Snapshot, AViewer!Up, AViewer!Down, AViewer!Left, AViewer!Right,
         AViewer!NextFilter, AViewer!OpenDetail, AViewer!StopAll, AViewer!ClearDone, AViewer!Leave,
         AViewer!Frame, AViewer!JumpAlpha, AViewer!JobStep, AViewer!Polling
<1>6. ADialogs!DialogNext => w.kind \in {"process", "detail", "confirm", "select", "color", "help"}
  BY Zenon DEF ADialogs!DialogNext, ADialogs!ConfirmPress, ADialogs!ConfirmEnds, ADialogs!SelectMove,
         ADialogs!ColorMove, ADialogs!SelectA, ADialogs!SelectB, ADialogs!SelectEnds,
         ADialogs!WorkerReturns, ADialogs!WorkerDone, ADialogs!Interrupt, ADialogs!ProcessJoin,
         ADialogs!ProcessEnds, ADialogs!DetailUp, ADialogs!DetailDown, ADialogs!DetailPress,
         ADialogs!DetailFrame, ADialogs!ColorA, ADialogs!ColorB, ADialogs!HelpUp,
         ADialogs!HelpDown, ADialogs!HelpClose, ADialogs!HelpEnds, ADialogs!Is,
         ADialogs!LastFrame
<1> QED
  BY <1>1, <1>2, <1>3, <1>4, <1>5, <1>6

\* The widget that takes a step keeps its own invariant.
LEMMA WidgetSteps == ASSUME WidgetInv, WidgetNext PROVE WidgetInv'
<1> USE FrameOf, OwnSteps, WidgetsAssumption DEF WidgetInv, Others
<1>1. CASE AList!ListNext
  <2>1. ListInv(w)
    BY <1>1
  <2> QED
    BY <1>1, <2>1, ListSteps
<1>2. CASE AOptions!OptNext
  <2>1. OptInv
    BY <1>2
  <2> QED
    BY <1>2, <2>1, OptSteps
<1>3. CASE AKeyboard!KbNext
  <2>1. KbInv(w)
    BY <1>3
  <2> QED
    BY <1>3, <2>1, KbSteps
<1>4. CASE APicker!PickNext
  <2>1. PickInv(w)
    BY <1>4
  <2> QED
    BY <1>4, <2>1, PickSteps
<1>5. CASE AViewer!ViewNext
  <2>1. ViewInv(w)
    BY <1>5
  <2> QED
    BY <1>5, <2>1, ViewSteps
<1>6. CASE ADialogs!DialogNext
  <2>1. DialogInv(w)
    BY <1>6
  <2> QED
    BY <1>6, <2>1, DialogSteps
<1> QED
  BY <1>1, <1>2, <1>3, <1>4, <1>5, <1>6 DEF WidgetNext

\* ap_list, ap_options_list, ap_keyboard, ap_url_keyboard, ap_file_picker,
\* ap_queue_viewer and the smaller widgets, for any lists, options, texts, file
\* systems, jobs, details and sizes of the screen: the row of the cursor is
\* shown, the window of the queue viewer is full, reordering keeps every row, no
\* character is broken by typing, a picked path is below the root, details can
\* be scrolled to their end, and a worker has ended with its screen.
THEOREM WidgetsWholeThm == WidgetSpec => []WidgetsWhole
<1>1. WidgetInit => WidgetInv
  BY WidgetStarts
<1>2. WidgetInv /\ [WidgetNext]_w => WidgetInv'
  <2>1. CASE WidgetNext
    BY <2>1, WidgetSteps
  <2>2. CASE UNCHANGED w
    BY <2>2 DEF WidgetInv, ListInv, ListTyped, ListShape, OptInv, OptTyped, KbInv, KbShape,
                TextFits, OnUrlKey, PickInv, PickTyped, Grounded, ViewInv, ViewTyped, ViewShape, DrawnFull,
                DialogInv, IsProcess, IsDetail, IsSmall
  <2> QED
    BY <2>1, <2>2
<1>3. WidgetInv => WidgetsWhole
  BY WidgetHolds
<1> QED
  BY <1>1, <1>2, <1>3, PTL DEF WidgetSpec
=============================================================================
