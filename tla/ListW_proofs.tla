------------------------------ MODULE ListW_proofs ------------------------------
(***************************************************************************)
(* Proofs about ListW, for any element values, capacity and spans, and     *)
(* callers that pass what the code checks.                                 *)
(*                                                                         *)
(* The fields agree with a sequence (Holds): the elements below _size are  *)
(* those of the sequence, and behind them nothing is referred to.  Every   *)
(* edit of the array is an edit of that sequence, shown element by         *)
(* element, which gives the invariants and the refinement at once.         *)
(***************************************************************************)
EXTENDS ListW, SequenceTheorems, WellFoundedInduction, TLAPS

Clean(a, s) == RefType => \A k \in DOMAIN a : k >= s => a[k] = Default

Contents(a, s) == [k \in 1 .. s |-> a[k - 1]]

(* An array with s elements, of which nothing else is referred to. *)
Holds(a, s) == (\E n \in 0 .. MaxCapacity : a \in [0 .. (n - 1) -> Values] /\ s \in 0 .. n) /\ Clean(a, s)

IInv ==
  /\ Holds(_items, _size)
  /\ _version \in Nat
  /\ result.is \in {"ok", "throw"}

--------------------------------------------------------------------------------
(* Arrays. *)
LEMMA CapacityOf ==
  ASSUME NEW n \in 0 .. MaxCapacity, NEW a \in [0 .. (n - 1) -> Values]
  PROVE  Capacity(a) = n
  <1>1. n \in Nat /\ MaxCapacity \in Nat /\ DOMAIN a = 0 .. (n - 1)
    BY CapacityAssumption
  <1>2. CASE n = 0
    <2>1. DOMAIN a = {}
      BY <1>1, <1>2
    <2> QED
      BY <1>2, <2>1 DEF Capacity
  <1>3. CASE n > 0
    <2>1. DOMAIN a # {} /\ n \in 1 .. MaxCapacity
      BY <1>1, <1>3
    <2>2. \A m \in 1 .. MaxCapacity : DOMAIN a = 0 .. m - 1 => m = n
      <3> SUFFICES ASSUME NEW m \in 1 .. MaxCapacity, DOMAIN a = 0 .. m - 1 PROVE m = n
        OBVIOUS
      <3>1. m - 1 \in 0 .. m - 1 /\ n - 1 \in 0 .. (n - 1)
        BY <1>1, <1>3
      <3>2. m - 1 \in 0 .. (n - 1) /\ n - 1 \in 0 .. m - 1
        BY <1>1, <3>1
      <3> QED
        BY <1>1, <3>2
    <2>3. (CHOOSE m \in 1 .. MaxCapacity : DOMAIN a = 0 .. m - 1) = n
      BY <1>1, <2>1, <2>2
    <2> QED
      BY <2>1, <2>3 DEF Capacity
  <1> QED
    BY <1>1, <1>2, <1>3

(* The array and the size, with a name for the capacity. *)
LEMMA Bounds ==
  ASSUME Holds(_items, _size)
  PROVE  \E n \in Nat : /\ n \in 0 .. MaxCapacity /\ _items \in [0 .. (n - 1) -> Values] /\ _size \in Nat /\ _size <= n
                        /\ Capacity(_items) = n /\ DOMAIN _items = 0 .. (n - 1) /\ n <= MaxCapacity
  <1>1. PICK n \in 0 .. MaxCapacity : _items \in [0 .. (n - 1) -> Values] /\ _size \in 0 .. n
    BY DEF Holds
  <1>2. n \in Nat /\ MaxCapacity \in Nat
    BY CapacityAssumption
  <1>3. Capacity(_items) = n
    BY <1>1, CapacityOf
  <1> QED
    BY <1>1, <1>2, <1>3

(* ensure_capacity keeps the elements and adds none. *)
LEMMA Ensured ==
  ASSUME Holds(_items, _size), NEW min \in Nat, min <= MaxCapacity
  PROVE  LET b == ensure_capacity(_items, min)
         IN  \E n \in Nat : /\ n \in 0 .. MaxCapacity /\ b \in [0 .. (n - 1) -> Values] /\ min <= n /\ _size <= n
                            /\ \A j \in 0 .. (_size - 1) : b[j] = _items[j]
                            /\ Clean(b, _size)
  <1> DEFINE b == ensure_capacity(_items, min)
  <1>1. PICK n \in Nat : /\ n \in 0 .. MaxCapacity /\ _items \in [0 .. (n - 1) -> Values] /\ _size \in Nat /\ _size <= n
                         /\ Capacity(_items) = n /\ DOMAIN _items = 0 .. (n - 1) /\ n <= MaxCapacity
    BY Bounds
  <1>2. Clean(_items, _size)
    BY DEF Holds
  <1>3. CASE n >= min
    <2>1. b = _items
      BY <1>1, <1>3 DEF ensure_capacity
    <2> QED
      BY <1>1, <1>2, <1>3, <2>1
  <1>4. CASE ~(n >= min)
    <2> DEFINE g == IF Grown(n) < min THEN min ELSE Grown(n)
    <2>1. MaxCapacity \in Nat /\ MaxCapacity >= 4
      BY CapacityAssumption
    <2>2. Grown(n) \in Nat /\ Grown(n) <= MaxCapacity
      BY <1>1, <2>1 DEF Grown, Clamped
    <2> HIDE DEF b
    <2>3. b = set_capacity(_items, g)
      BY <1>1, <1>4 DEF ensure_capacity, b
    <2>4. g \in Nat /\ g <= MaxCapacity /\ g >= min /\ g > n
      BY <1>1, <1>4, <2>1, <2>2
    <2> HIDE DEF g
    <2>5. b = [j \in 0 .. g - 1 |-> IF j < _size THEN _items[j] ELSE Default]
      BY <1>1, <2>3, <2>4 DEF set_capacity, Reallocated
    <2>6. b \in [0 .. (g - 1) -> Values]
      <3>1. \A j \in 0 .. g - 1 : j < _size => _items[j] \in Values
        BY <1>1
      <3> QED
        BY <2>5, <3>1, DefaultAssumption
    <2>7. \A j \in 0 .. (_size - 1) : b[j] = _items[j]
      BY <1>1, <2>4, <2>5
    <2>8. Clean(b, _size)
      BY <1>1, <2>5 DEF Clean
    <2>9. g \in 0 .. MaxCapacity /\ _size <= g
      BY <1>1, <2>4
    <2> QED
      BY <2>4, <2>6, <2>7, <2>8, <2>9 DEF b
  <1> QED
    BY <1>3, <1>4

(* std::copy within the array and std::fill of its end. *)
LEMMA Released ==
  ASSUME NEW n \in Nat, n <= MaxCapacity, NEW a \in [0 .. (n - 1) -> Values], NEW first \in Nat, NEW last \in Nat,
         first <= last, last <= n, Clean(a, last)
  PROVE  /\ release(a, first, last) \in [0 .. (n - 1) -> Values]
         /\ Clean(release(a, first, last), first)
  <1>1. CASE RefType
    <2>1. release(a, first, last) = [j \in 0 .. (n - 1) |-> IF j \in first .. last - 1 THEN Default ELSE a[j]]
      BY <1>1 DEF release, fill
    <2>2. \A j \in 0 .. (n - 1) : j >= last => a[j] = Default
      BY <1>1 DEF Clean
    <2>3. \A j \in 0 .. (n - 1) : j >= first => release(a, first, last)[j] = Default
      BY <2>1, <2>2
    <2> HIDE DEF release
    <2>4. release(a, first, last) \in [0 .. (n - 1) -> Values]
      BY <2>1, DefaultAssumption
    <2>5. Clean(release(a, first, last), first)
      BY <2>3, <2>4 DEF Clean
    <2> QED
      BY <2>4, <2>5
  <1>2. CASE ~RefType
    BY <1>2 DEF release, Clean
  <1> QED
    BY <1>1, <1>2

(* A copy within an array leaves an array of values. *)
LEMMA Copied ==
  ASSUME NEW n \in Nat, NEW a \in [0 .. (n - 1) -> Values], NEW first \in Nat, NEW last \in Nat, NEW dest \in Nat,
         first <= last, last <= n, dest + (last - first) <= n
  PROVE  copy(a, first, last, dest) \in [0 .. (n - 1) -> Values]
  <1>1. copy(a, first, last, dest) =
          [j \in 0 .. (n - 1) |-> IF j \in dest .. (dest + (last - first) - 1) THEN a[first + (j - dest)] ELSE a[j]]
    BY DEF copy
  <1>2. \A j \in dest .. (dest + (last - first) - 1) : first + (j - dest) \in 0 .. (n - 1)
    OBVIOUS
  <1> QED
    BY <1>1, <1>2

(* The first and the last of a set of places. *)
LEMMA Least ==
  ASSUME NEW S, S \subseteq Nat, S # {}
  PROVE  Min(S) \in S /\ \A k \in S : Min(S) <= k
  <1> DEFINE R == OpToRel(<, Nat)
  <1>1. IsWellFoundedOn(R, Nat)
    BY NatLessThanWellFounded
  <1>2. \A x, y \in Nat : y < x => <<y, x>> \in R
    BY DEF OpToRel
  <1> HIDE DEF R
  <1>3. PICK x \in S : \A y \in S : ~(<<y, x>> \in R)
    BY <1>1, WFMin
  <1>4. \A y \in S : x =< y
    <2> SUFFICES ASSUME NEW y \in S PROVE x =< y
      OBVIOUS
    <2>1. x \in Nat /\ y \in Nat
      OBVIOUS
    <2>2. ~(y < x)
      BY <1>2, <1>3, <2>1
    <2> QED
      BY <2>1, <2>2
  <1> QED
    BY <1>4 DEF Min

(* The greatest of some naturals up to a bound. *)
LEMMA Greatest ==
  ASSUME NEW b \in Nat, NEW S, S \subseteq 0 .. b, S # {}
  PROVE  Max(S) \in S /\ \A k \in S : Max(S) >= k
  <1> DEFINE T == {j \in 0 .. b : b - j \in S}
  <1>0. \A k \in S : b - k \in T
    <2> SUFFICES ASSUME NEW k \in S PROVE b - k \in T
      OBVIOUS
    <2>1. k \in 0 .. b
      OBVIOUS
    <2>2. b - k \in 0 .. b /\ b - (b - k) = k
      BY <2>1
    <2> QED
      BY <2>2
  <1>1. T \subseteq Nat /\ T # {}
    <2>1. T # {}
      BY <1>0
    <2>2. T \subseteq Nat
      OBVIOUS
    <2> QED
      BY <2>1, <2>2
  <1> HIDE DEF T
  <1>2. Min(T) \in T /\ \A k \in T : Min(T) <= k
    BY <1>1, Least
  <1>3. PICK x \in S : x = b - Min(T)
    BY <1>2 DEF T
  <1>4. \A k \in S : x >= k
    <2> SUFFICES ASSUME NEW k \in S PROVE x >= k
      OBVIOUS
    <2>1. k \in 0 .. b /\ Min(T) \in Nat
      BY <1>1, <1>2
    <2>2. Min(T) <= b - k
      BY <1>0, <1>2
    <2> QED
      BY <1>3, <2>1, <2>2
  <1> QED
    BY <1>4 DEF Max

--------------------------------------------------------------------------------
(* Contents. *)
LEMMA ContentsOf ==
  ASSUME Holds(_items, _size)
  PROVE  /\ contents \in Seq(Values) /\ Len(contents) = _size /\ contents = Contents(_items, _size)
         /\ \A k \in 1 .. _size : contents[k] = _items[k - 1] /\ _items[k - 1] \in Values
  <1>1. PICK n \in Nat : _items \in [0 .. (n - 1) -> Values] /\ _size \in Nat /\ _size <= n
    BY Bounds
  <1>2. \A k \in 1 .. _size : _items[k - 1] \in Values
    BY <1>1
  <1>3. contents \in [1 .. _size -> Values]
    BY <1>2 DEF contents
  <1>4. contents \in Seq(Values) /\ Len(contents) = _size
    BY <1>1, <1>3
  <1> QED
    BY <1>2, <1>4 DEF contents, Contents

(* The contents, by their elements. *)
LEMMA ContentsAre ==
  ASSUME NEW n \in Nat, NEW a \in [0 .. (n - 1) -> Values], NEW s \in Nat, s <= n,
         NEW c \in Seq(Values), Len(c) = s, \A k \in 1 .. s : a[k - 1] = c[k]
  PROVE  Contents(a, s) = c
  <1>1. \A k \in 1 .. s : a[k - 1] \in Values
    OBVIOUS
  <1>2. Contents(a, s) \in [1 .. s -> Values]
    BY <1>1 DEF Contents
  <1>3. Contents(a, s) \in Seq(Values) /\ Len(Contents(a, s)) = s
    BY <1>2
  <1>4. \A k \in 1 .. s : Contents(a, s)[k] = c[k]
    BY DEF Contents
  <1> QED
    BY <1>3, <1>4, SeqEqual

(* The sequence operations that ManagedList names, element by element. *)
LEMMA PrefixOf ==
  ASSUME NEW c \in Seq(Values), NEW i \in Nat, i <= Len(c)
  PROVE  SubSeq(c, 1, i) \in Seq(Values) /\ Len(SubSeq(c, 1, i)) = i /\ \A k \in 1 .. i : SubSeq(c, 1, i)[k] = c[k]
  <1>1. \A k \in 1 .. i : c[k] \in Values
    OBVIOUS
  <1> QED
    BY <1>1, SubSeqProperties

(* What is left of a sequence after i elements. *)
LEMMA SuffixOf ==
  ASSUME NEW c \in Seq(Values), NEW i \in Nat, i <= Len(c)
  PROVE  /\ SubSeq(c, i + 1, Len(c)) \in Seq(Values) /\ Len(SubSeq(c, i + 1, Len(c))) = Len(c) - i
         /\ \A k \in 1 .. (Len(c) - i) : SubSeq(c, i + 1, Len(c))[k] = c[i + k]
  <1>0. Len(c) \in Nat
    OBVIOUS
  <1>1. \A k \in (i + 1) .. Len(c) : c[k] \in Values
    BY <1>0
  <1>2. /\ SubSeq(c, i + 1, Len(c)) \in Seq(Values)
        /\ Len(SubSeq(c, i + 1, Len(c))) = IF i + 1 <= Len(c) THEN Len(c) - (i + 1) + 1 ELSE 0
        /\ \A k \in 1 .. (Len(c) - (i + 1) + 1) : SubSeq(c, i + 1, Len(c))[k] = c[i + 1 + k - 1]
    BY <1>0, <1>1, SubSeqProperties
  <1>3. \A l \in Nat : i <= l => (IF i + 1 <= l THEN l - (i + 1) + 1 ELSE 0) = l - i
    OBVIOUS
  <1>4. \A k \in 1 .. (Len(c) - i) : k \in 1 .. (Len(c) - (i + 1) + 1) /\ i + 1 + k - 1 = i + k
    BY <1>0
  <1> QED
    BY <1>0, <1>2, <1>3, <1>4

(* Two sequences, one after the other. *)
LEMMA Joined ==
  ASSUME NEW u \in Seq(Values), NEW v \in Seq(Values)
  PROVE  /\ u \o v \in Seq(Values) /\ Len(u \o v) = Len(u) + Len(v)
         /\ \A k \in Nat : k >= 1 /\ k <= Len(u) + Len(v) =>
              (u \o v)[k] = IF k <= Len(u) THEN u[k] ELSE v[k - Len(u)]
  <1>1. /\ u \o v \in Seq(Values) /\ Len(u \o v) = Len(u) + Len(v)
        /\ \A k \in 1 .. Len(u) + Len(v) : (u \o v)[k] = IF k <= Len(u) THEN u[k] ELSE v[k - Len(u)]
    BY ConcatProperties
  <1>2. \A k \in Nat : k >= 1 /\ k <= Len(u) + Len(v) => k \in 1 .. Len(u) + Len(v)
    OBVIOUS
  <1> QED
    BY <1>1, <1>2

(* A sequence without the m elements after the i-th. *)
LEMMA Erased ==
  ASSUME NEW c \in Seq(Values), NEW i \in Nat, NEW m \in Nat, i + m <= Len(c)
  PROVE  LET r == SubSeq(c, 1, i) \o SubSeq(c, i + m + 1, Len(c))
         IN  /\ r \in Seq(Values) /\ Len(r) = Len(c) - m
             /\ \A k \in 1 .. (Len(c) - m) : r[k] = IF k <= i THEN c[k] ELSE c[k + m]
  <1> DEFINE u == SubSeq(c, 1, i)
             v == SubSeq(c, i + m + 1, Len(c))
  <1>0. Len(c) \in Nat /\ i <= Len(c)
    OBVIOUS
  <1>1. u \in Seq(Values) /\ Len(u) = i /\ \A k \in 1 .. i : u[k] = c[k]
    BY <1>0, PrefixOf
  <1>2. v \in Seq(Values) /\ Len(v) = Len(c) - (i + m) /\ \A k \in 1 .. (Len(c) - (i + m)) : v[k] = c[i + m + k]
    BY <1>0, SuffixOf
  <1> HIDE DEF u, v
  <1>3. /\ u \o v \in Seq(Values) /\ Len(u \o v) = Len(u) + Len(v)
        /\ \A k \in Nat : k >= 1 /\ k <= Len(u) + Len(v) =>
             (u \o v)[k] = IF k <= Len(u) THEN u[k] ELSE v[k - Len(u)]
    BY <1>1, <1>2, Joined
  <1>4. Len(u) + Len(v) = Len(c) - m
    BY <1>0, <1>1, <1>2
  <1>5. \A k \in 1 .. (Len(c) - m) : (u \o v)[k] = IF k <= i THEN c[k] ELSE c[k + m]
    <2> SUFFICES ASSUME NEW k \in 1 .. (Len(c) - m) PROVE (u \o v)[k] = IF k <= i THEN c[k] ELSE c[k + m]
      OBVIOUS
    <2>1. (u \o v)[k] = IF k <= i THEN u[k] ELSE v[k - i]
      <3>1. k \in Nat /\ k >= 1 /\ k <= Len(u) + Len(v)
        BY <1>0, <1>4
      <3> QED
        BY <1>1, <1>3, <3>1
    <2>2. CASE k <= i
      BY <1>1, <2>1, <2>2
    <2>3. CASE ~(k <= i)
      <3>1. k - i \in 1 .. (Len(c) - (i + m)) /\ i + m + (k - i) = k + m
        BY <1>0, <2>3
      <3> QED
        BY <1>2, <2>1, <2>3, <3>1
    <2> QED
      BY <2>2, <2>3
  <1>6. Len(u \o v) = Len(c) - m /\ u \o v \in Seq(Values)
    BY <1>3, <1>4
  <1> QED
    BY <1>5, <1>6 DEF u, v

(* A sequence with an element after the i-th. *)
LEMMA Inserted ==
  ASSUME NEW c \in Seq(Values), NEW i \in Nat, i <= Len(c), NEW x \in Values
  PROVE  LET r == SubSeq(c, 1, i) \o <<x>> \o SubSeq(c, i + 1, Len(c))
         IN  /\ r \in Seq(Values) /\ Len(r) = Len(c) + 1
             /\ \A k \in 1 .. (Len(c) + 1) : r[k] = IF k <= i THEN c[k] ELSE IF k = i + 1 THEN x ELSE c[k - 1]
  <1> DEFINE u == SubSeq(c, 1, i)
             w == <<x>>
             v == SubSeq(c, i + 1, Len(c))
  <1>0. Len(c) \in Nat
    OBVIOUS
  <1>1. u \in Seq(Values) /\ Len(u) = i /\ \A k \in 1 .. i : u[k] = c[k]
    BY PrefixOf
  <1>2. v \in Seq(Values) /\ Len(v) = Len(c) - i /\ \A k \in 1 .. (Len(c) - i) : v[k] = c[i + k]
    BY SuffixOf
  <1>3. w \in Seq(Values) /\ Len(w) = 1 /\ w[1] = x
    OBVIOUS
  <1> HIDE DEF u, v, w
  <1> DEFINE q == u \o w
  <1>4. /\ q \in Seq(Values) /\ Len(q) = Len(u) + Len(w)
        /\ \A k \in Nat : k >= 1 /\ k <= Len(u) + Len(w) =>
             q[k] = IF k <= Len(u) THEN u[k] ELSE w[k - Len(u)]
    BY <1>1, <1>3, Joined
  <1> HIDE DEF q
  <1>5. \A k \in 1 .. (i + 1) : q[k] = IF k <= i THEN c[k] ELSE x
    <2> SUFFICES ASSUME NEW k \in 1 .. (i + 1) PROVE q[k] = IF k <= i THEN c[k] ELSE x
      OBVIOUS
    <2>1. q[k] = IF k <= i THEN u[k] ELSE w[k - i]
      <3>1. k \in Nat /\ k >= 1 /\ k <= Len(u) + Len(w)
        BY <1>1, <1>3
      <3> QED
        BY <1>1, <1>4, <3>1
    <2>2. CASE k <= i
      BY <1>1, <2>1, <2>2
    <2>3. CASE ~(k <= i)
      <3>1. k - i = 1
        BY <2>3
      <3> QED
        BY <1>3, <2>1, <2>3, <3>1
    <2> QED
      BY <2>2, <2>3
  <1>6. Len(q) = i + 1
    BY <1>1, <1>3, <1>4
  <1>7. /\ q \o v \in Seq(Values) /\ Len(q \o v) = Len(q) + Len(v)
        /\ \A k \in Nat : k >= 1 /\ k <= Len(q) + Len(v) =>
             (q \o v)[k] = IF k <= Len(q) THEN q[k] ELSE v[k - Len(q)]
    BY <1>2, <1>4, Joined
  <1>8. Len(q) + Len(v) = Len(c) + 1
    BY <1>0, <1>2, <1>6
  <1>9. \A k \in 1 .. (Len(c) + 1) : (q \o v)[k] = IF k <= i THEN c[k] ELSE IF k = i + 1 THEN x ELSE c[k - 1]
    <2> SUFFICES ASSUME NEW k \in 1 .. (Len(c) + 1)
                 PROVE  (q \o v)[k] = IF k <= i THEN c[k] ELSE IF k = i + 1 THEN x ELSE c[k - 1]
      OBVIOUS
    <2>1. (q \o v)[k] = IF k <= i + 1 THEN q[k] ELSE v[k - (i + 1)]
      <3>1. k \in Nat /\ k >= 1 /\ k <= Len(q) + Len(v)
        BY <1>0, <1>8
      <3> QED
        BY <1>6, <1>7, <3>1
    <2>2. CASE k <= i + 1
      BY <1>5, <2>1, <2>2
    <2>3. CASE ~(k <= i + 1)
      <3>1. k - (i + 1) \in 1 .. (Len(c) - i) /\ i + (k - (i + 1)) = k - 1 /\ ~(k <= i) /\ k # i + 1
        BY <1>0, <2>3
      <3> QED
        BY <1>2, <2>1, <2>3, <3>1
    <2> QED
      BY <2>2, <2>3
  <1>10. Len(q \o v) = Len(c) + 1 /\ q \o v \in Seq(Values)
    BY <1>7, <1>8
  <1> QED
    BY <1>9, <1>10 DEF q, u, v, w

--------------------------------------------------------------------------------
(* Steps.  What every edit has to show, and what needs no more than that   *)
(* the fields stay.                                                        *)
Noticed ==
  /\ contents' # contents => _version' # _version \/ request'[1] = "at"
  /\ result'.is = "throw" => _version' = _version

(* An operation that leaves the array with contents c, and a version that  *)
(* counts it, is one that edits.                                           *)
LEMMA Edited ==
  ASSUME IInv, NEW n \in Nat, n <= MaxCapacity, _items' \in [0 .. (n - 1) -> Values], _size' \in Nat, _size' <= n,
         Clean(_items', _size'), NEW c \in Seq(Values), Len(c) = _size', \A k \in 1 .. _size' : _items'[k - 1] = c[k],
         result' = [is |-> "ok", value |-> <<>>],
         _version' = _version + 1 \/ (_version' = _version /\ request'[1] = "at")
  PROVE  IInv' /\ contents' = c /\ Noticed
  <1>1. contents' = c
    <2>1. contents' = Contents(_items', _size')
      BY DEF contents, Contents
    <2> QED
      BY <2>1, ContentsAre
  <1>2. n \in 0 .. MaxCapacity /\ _size' \in 0 .. n
    BY CapacityAssumption
  <1>3. Holds(_items', _size')
    BY <1>2 DEF Holds
  <1>4. _version \in Nat
    BY DEF IInv
  <1>5. result'.is = "ok"
    OBVIOUS
  <1>6. Noticed
    BY <1>4, <1>5 DEF Noticed
  <1> QED
    BY <1>1, <1>3, <1>4, <1>5, <1>6 DEF IInv

(* One that leaves the list alone. *)
LEMMA Left ==
  ASSUME IInv, UNCHANGED <<_items, _size, _version>>, result'.is \in {"ok", "throw"}
  PROVE  IInv' /\ contents' = contents /\ Noticed
  <1>1. contents' = contents
    BY DEF contents
  <1> QED
    BY <1>1 DEF IInv, Noticed, Holds, Clean

(* push_back appends. *)
LEMMA PushBackStep ==
  ASSUME IInv, NEW x \in Values, push_back(x)
  PROVE  IInv' /\ List!PushBack(x) /\ Noticed
  <1> DEFINE b == ensure_capacity(_items, _size + 1)
             c == Append(contents, x)
  <1>0. Holds(_items, _size)
    BY DEF IInv
  <1>1. /\ contents \in Seq(Values) /\ Len(contents) = _size /\ _size \in Nat
        /\ \A k \in 1 .. _size : contents[k] = _items[k - 1]
    BY <1>0, ContentsOf
  <1>2. /\ _size < MaxCapacity /\ _version' = _version + 1 /\ _items' = [b EXCEPT ![_size] = x] /\ _size' = _size + 1
        /\ request' = <<"push_back", x>> /\ result' = [is |-> "ok", value |-> <<>>]
    BY DEF push_back, Answer
  <1>3. _size + 1 \in Nat /\ _size + 1 <= MaxCapacity
    BY <1>1, <1>2, CapacityAssumption
  <1>4. PICK n \in Nat : /\ n \in 0 .. MaxCapacity /\ b \in [0 .. (n - 1) -> Values] /\ _size + 1 <= n
                         /\ \A j \in 0 .. (_size - 1) : b[j] = _items[j]
                         /\ Clean(b, _size)
    BY <1>0, <1>3, Ensured
  <1> HIDE DEF b
  <1>5. _size \in 0 .. (n - 1) /\ n <= MaxCapacity
    BY <1>1, <1>4, CapacityAssumption
  <1>6. /\ _items' \in [0 .. (n - 1) -> Values] /\ _items'[_size] = x
        /\ \A j \in 0 .. (n - 1) : j # _size => _items'[j] = b[j]
    BY <1>2, <1>4, <1>5
  <1>7. Clean(_items', _size')
    <2> SUFFICES ASSUME RefType, NEW k \in 0 .. (n - 1), k >= _size + 1 PROVE _items'[k] = Default
      BY <1>2, <1>6 DEF Clean
    <2>1. k # _size /\ k >= _size
      BY <1>1
    <2> QED
      BY <1>4, <1>6, <2>1 DEF Clean
  <1>8. c \in Seq(Values) /\ Len(c) = _size + 1 /\ c[_size + 1] = x /\ \A k \in 1 .. _size : c[k] = contents[k]
    BY <1>1, AppendProperties
  <1> HIDE DEF c
  <1>9. \A k \in 1 .. (_size + 1) : _items'[k - 1] = c[k]
    <2> SUFFICES ASSUME NEW k \in 1 .. (_size + 1) PROVE _items'[k - 1] = c[k]
      OBVIOUS
    <2>1. CASE k = _size + 1
      BY <1>1, <1>6, <1>8, <2>1
    <2>2. CASE k # _size + 1
      <3>1. k \in 1 .. _size /\ k - 1 \in 0 .. (_size - 1) /\ k - 1 \in 0 .. (n - 1) /\ k - 1 # _size
        BY <1>1, <1>4, <2>2
      <3> QED
        BY <1>1, <1>4, <1>6, <1>8, <3>1
    <2> QED
      BY <2>1, <2>2
  <1>10. IInv' /\ contents' = c /\ Noticed
    <2>1. _size' \in Nat /\ _size' <= n /\ Len(c) = _size' /\ \A k \in 1 .. _size' : _items'[k - 1] = c[k]
      BY <1>2, <1>3, <1>4, <1>8, <1>9
    <2> QED
      BY <1>2, <1>5, <1>6, <1>7, <1>8, <2>1, Edited
  <1> QED
    BY <1>2, <1>10 DEF List!PushBack, List!Perform, c

(* insert_at inserts, or throws when the index is too large. *)
LEMMA InsertAtStep ==
  ASSUME IInv, NEW i \in Nat, NEW x \in Values, insert_at(i, x)
  PROVE  IInv' /\ List!InsertAt(i, x) /\ Noticed
  <1> DEFINE b == IF _size = Capacity(_items) THEN ensure_capacity(_items, _size + 1) ELSE _items
             a == copy(b, i, _size, i + 1)
             c == SubSeq(contents, 1, i) \o <<x>> \o SubSeq(contents, i + 1, Len(contents))
  <1>0. Holds(_items, _size)
    BY DEF IInv
  <1>1. /\ contents \in Seq(Values) /\ Len(contents) = _size /\ _size \in Nat
        /\ \A k \in 1 .. _size : contents[k] = _items[k - 1]
    BY <1>0, ContentsOf
  <1>2. CASE i > _size
    <2>1. /\ request' = <<"insert_at", i, x>> /\ result' = [is |-> "throw", value |-> <<>>]
          /\ UNCHANGED <<_items, _size, _version>>
      BY <1>2 DEF insert_at, Throw, Answer
    <2>2. IInv' /\ contents' = contents /\ Noticed
      BY <2>1, Left
    <2>3. ~(i <= Len(contents))
      BY <1>1, <1>2
    <2> QED
      BY <2>1, <2>2, <2>3 DEF List!InsertAt, List!Perform
  <1>3. CASE ~(i > _size)
    <2>1. i <= _size
      BY <1>1, <1>3
    <2>2. /\ _size < MaxCapacity /\ _version' = _version + 1 /\ _items' = [a EXCEPT ![i] = x] /\ _size' = _size + 1
          /\ request' = <<"insert_at", i, x>> /\ result' = [is |-> "ok", value |-> <<>>]
      BY <1>3 DEF insert_at, Answer
    <2>3. _size + 1 \in Nat /\ _size + 1 <= MaxCapacity
      BY <1>1, <2>2, CapacityAssumption
    <2>4. PICK n \in Nat : /\ n \in 0 .. MaxCapacity /\ b \in [0 .. (n - 1) -> Values] /\ _size + 1 <= n
                           /\ \A j \in 0 .. (_size - 1) : b[j] = _items[j]
                           /\ Clean(b, _size)
      <3>1. CASE _size = Capacity(_items)
        BY <1>0, <2>3, <3>1, Ensured
      <3>2. CASE _size # Capacity(_items)
        <4>1. PICK n \in Nat : /\ n \in 0 .. MaxCapacity /\ _items \in [0 .. (n - 1) -> Values] /\ _size <= n
                               /\ Capacity(_items) = n
          BY <1>0, Bounds
        <4>2. _size + 1 <= n
          BY <1>1, <3>2, <4>1
        <4> QED
          BY <1>0, <3>2, <4>1, <4>2 DEF Holds
      <3> QED
        BY <3>1, <3>2
    <2> HIDE DEF b
    <2>5. n <= MaxCapacity /\ i + 1 \in Nat /\ _size <= n /\ i + 1 + (_size - i) <= n /\ i \in 0 .. (n - 1)
      BY <1>1, <2>1, <2>4, CapacityAssumption
    <2>6. /\ a \in [0 .. (n - 1) -> Values]
          /\ \A j \in 0 .. (n - 1) : j < i + 1 \/ j >= i + 1 + (_size - i) => a[j] = b[j]
          /\ \A j \in 0 .. (n - 1) : j >= i + 1 /\ j < i + 1 + (_size - i) => a[j] = b[i + (j - (i + 1))]
      <3>1. a = [j \in 0 .. (n - 1) |->
                   IF j \in (i + 1) .. (i + 1 + (_size - i) - 1) THEN b[i + (j - (i + 1))] ELSE b[j]]
        BY <2>4 DEF copy
      <3>2. a \in [0 .. (n - 1) -> Values]
        BY <1>1, <2>1, <2>4, <2>5, Copied
      <3> HIDE DEF a
      <3>3. \A j \in 0 .. (n - 1) : j < i + 1 \/ j >= i + 1 + (_size - i) => a[j] = b[j]
        BY <1>1, <2>1, <3>1
      <3>4. \A j \in 0 .. (n - 1) : j >= i + 1 /\ j < i + 1 + (_size - i) => a[j] = b[i + (j - (i + 1))]
        BY <1>1, <2>1, <3>1
      <3> QED
        BY <3>2, <3>3, <3>4
    <2> HIDE DEF a
    <2>7. /\ _items' \in [0 .. (n - 1) -> Values] /\ _items'[i] = x
          /\ \A j \in 0 .. (n - 1) : j # i => _items'[j] = a[j]
      BY <2>2, <2>5, <2>6
    <2>8. \A j \in 0 .. (n - 1) : (j < i \/ j > _size => a[j] = b[j]) /\ (j > i /\ j <= _size => a[j] = b[j - 1])
      <3> SUFFICES ASSUME NEW j \in 0 .. (n - 1)
                   PROVE  (j < i \/ j > _size => a[j] = b[j]) /\ (j > i /\ j <= _size => a[j] = b[j - 1])
        OBVIOUS
      <3>1. CASE j < i \/ j > _size
        <4>1. (j < i + 1 \/ j >= i + 1 + (_size - i)) /\ ~(j > i /\ j <= _size)
          BY <1>1, <2>1, <3>1
        <4> QED
          BY <2>6, <3>1, <4>1
      <3>2. CASE j > i /\ j <= _size
        <4>1. j >= i + 1 /\ j < i + 1 + (_size - i) /\ i + (j - (i + 1)) = j - 1 /\ ~(j < i \/ j > _size)
          BY <1>1, <2>1, <3>2
        <4> QED
          BY <2>6, <3>2, <4>1
      <3> QED
        BY <3>1, <3>2
    <2>9. Clean(_items', _size')
      <3> SUFFICES ASSUME RefType, NEW k \in 0 .. (n - 1), k >= _size + 1 PROVE _items'[k] = Default
        BY <2>2, <2>7 DEF Clean
      <3>1. k # i /\ k > _size /\ k >= _size
        BY <1>1, <2>1
      <3> QED
        BY <2>4, <2>7, <2>8, <3>1 DEF Clean
    <2>10. /\ c \in Seq(Values) /\ Len(c) = _size + 1
           /\ \A k \in 1 .. (_size + 1) :
                c[k] = IF k <= i THEN contents[k] ELSE IF k = i + 1 THEN x ELSE contents[k - 1]
      BY <1>1, <2>1, Inserted
    <2> HIDE DEF c
    <2>11. \A k \in 1 .. (_size + 1) : _items'[k - 1] = c[k]
      <3> SUFFICES ASSUME NEW k \in 1 .. (_size + 1) PROVE _items'[k - 1] = c[k]
        OBVIOUS
      <3>0. k - 1 \in 0 .. (n - 1)
        BY <1>1, <2>4
      <3>1. CASE k <= i
        <4>1. k - 1 < i /\ k - 1 # i /\ k - 1 \in 0 .. (_size - 1) /\ k \in 1 .. _size
          BY <1>1, <2>1, <3>1
        <4> QED
          BY <1>1, <2>4, <2>7, <2>8, <2>10, <3>0, <3>1, <4>1
      <3>2. CASE k = i + 1
        <4>1. k - 1 = i /\ ~(k <= i)
          BY <3>2
        <4> QED
          BY <2>7, <2>10, <3>2, <4>1
      <3>3. CASE k > i + 1
        <4>1. k - 1 > i /\ k - 1 <= _size /\ k - 1 # i /\ ~(k <= i) /\ k # i + 1
              /\ k - 1 - 1 \in 0 .. (_size - 1) /\ k - 1 \in 1 .. _size
          BY <1>1, <2>1, <3>3
        <4>2. _items'[k - 1] = b[k - 1 - 1]
          BY <2>7, <2>8, <3>0, <4>1
        <4>3. b[k - 1 - 1] = contents[k - 1]
          BY <1>1, <2>4, <4>1
        <4> QED
          BY <2>10, <4>1, <4>2, <4>3
      <3>4. k <= i \/ k = i + 1 \/ k > i + 1
        BY <1>1
      <3> QED
        BY <3>1, <3>2, <3>3, <3>4
    <2>12. IInv' /\ contents' = c /\ Noticed
      <3>1. _size' \in Nat /\ _size' <= n /\ Len(c) = _size' /\ \A k \in 1 .. _size' : _items'[k - 1] = c[k]
        BY <2>2, <2>3, <2>4, <2>10, <2>11
      <3> QED
        BY <2>2, <2>5, <2>7, <2>9, <2>10, <3>1, Edited
    <2>13. i <= Len(contents)
      BY <1>1, <2>1
    <2> QED
      BY <2>2, <2>12, <2>13 DEF List!InsertAt, List!Perform, c
  <1> QED
    BY <1>2, <1>3

(* at() writes an element. *)
LEMMA AtStep ==
  ASSUME IInv, NEW i \in Nat, NEW x \in Values, at(i, x)
  PROVE  IInv' /\ List!Write(i, x) /\ Noticed
  <1> DEFINE c == [contents EXCEPT ![i + 1] = x]
  <1>0. Holds(_items, _size)
    BY DEF IInv
  <1>1. /\ contents \in Seq(Values) /\ Len(contents) = _size /\ _size \in Nat
        /\ \A k \in 1 .. _size : contents[k] = _items[k - 1]
    BY <1>0, ContentsOf
  <1>2. CASE i >= _size
    <2>1. /\ request' = <<"at", i, x>> /\ result' = [is |-> "throw", value |-> <<>>]
          /\ UNCHANGED <<_items, _size, _version>>
      BY <1>2 DEF at, Throw, Answer
    <2>2. IInv' /\ contents' = contents /\ Noticed
      BY <2>1, Left
    <2>3. ~(i < Len(contents))
      BY <1>1, <1>2
    <2> QED
      BY <2>1, <2>2, <2>3 DEF List!Write, List!Perform
  <1>3. CASE ~(i >= _size)
    <2>1. i < _size
      BY <1>1, <1>3
    <2>2. /\ _items' = [_items EXCEPT ![i] = x] /\ _size' = _size /\ _version' = _version
          /\ request' = <<"at", i, x>> /\ result' = [is |-> "ok", value |-> <<>>]
      BY <1>3 DEF at, Answer
    <2>3. PICK n \in Nat : n <= MaxCapacity /\ _items \in [0 .. (n - 1) -> Values] /\ _size <= n
      BY <1>0, Bounds
    <2>4. i \in 0 .. (n - 1) /\ i + 1 \in 1 .. _size
      BY <1>1, <2>1, <2>3
    <2>5. /\ _items' \in [0 .. (n - 1) -> Values] /\ _items'[i] = x
          /\ \A j \in 0 .. (n - 1) : j # i => _items'[j] = _items[j]
      BY <2>2, <2>3, <2>4
    <2>6. Clean(_items', _size')
      <3> SUFFICES ASSUME RefType, NEW k \in 0 .. (n - 1), k >= _size PROVE _items'[k] = Default
        BY <2>2, <2>5 DEF Clean
      <3>1. k # i
        BY <1>1, <2>1
      <3> QED
        BY <1>0, <2>3, <2>5, <3>1 DEF Clean, Holds
    <2>7. c \in Seq(Values) /\ Len(c) = _size /\ c[i + 1] = x /\ \A k \in 1 .. _size : k # i + 1 => c[k] = contents[k]
      BY <1>1, <2>4
    <2> HIDE DEF c
    <2>8. \A k \in 1 .. _size : _items'[k - 1] = c[k]
      <3> SUFFICES ASSUME NEW k \in 1 .. _size PROVE _items'[k - 1] = c[k]
        OBVIOUS
      <3>1. CASE k = i + 1
        <4>1. k - 1 = i
          BY <3>1
        <4> QED
          BY <2>5, <2>7, <3>1, <4>1
      <3>2. CASE k # i + 1
        <4>1. k - 1 # i /\ k - 1 \in 0 .. (n - 1)
          BY <1>1, <2>3, <3>2
        <4> QED
          BY <1>1, <2>5, <2>7, <3>2, <4>1
      <3> QED
        BY <3>1, <3>2
    <2>9. request'[1] = "at"
      BY <2>2
    <2>10. IInv' /\ contents' = c /\ Noticed
      <3>1. _size' \in Nat /\ _size' <= n /\ Len(c) = _size' /\ \A k \in 1 .. _size' : _items'[k - 1] = c[k]
        BY <1>1, <2>2, <2>3, <2>7, <2>8
      <3> QED
        BY <2>2, <2>3, <2>5, <2>6, <2>7, <2>9, <3>1, Edited
    <2>11. i < Len(contents)
      BY <1>1, <2>1
    <2> QED
      BY <2>2, <2>10, <2>11 DEF List!Write, List!Perform, c
  <1> QED
    BY <1>2, <1>3

(* What both erasing operations do to the array. *)
LEMMA ErasedStep ==
  ASSUME IInv, NEW i \in Nat, NEW m \in Nat, m > 0, i + m <= _size,
         _items' = release(copy(_items, i + m, _size, i), _size - m, _size), _size' = _size - m,
         _version' = _version + 1, result' = [is |-> "ok", value |-> <<>>]
  PROVE  IInv' /\ contents' = SubSeq(contents, 1, i) \o SubSeq(contents, i + m + 1, Len(contents)) /\ Noticed
  <1> DEFINE a == copy(_items, i + m, _size, i)
             c == SubSeq(contents, 1, i) \o SubSeq(contents, i + m + 1, Len(contents))
  <1>0. Holds(_items, _size)
    BY DEF IInv
  <1>1. /\ contents \in Seq(Values) /\ Len(contents) = _size /\ _size \in Nat
        /\ \A k \in 1 .. _size : contents[k] = _items[k - 1]
    BY <1>0, ContentsOf
  <1>2. PICK n \in Nat : n <= MaxCapacity /\ _items \in [0 .. (n - 1) -> Values] /\ _size <= n
    BY <1>0, Bounds
  <1>3. /\ a \in [0 .. (n - 1) -> Values]
        /\ \A j \in 0 .. (n - 1) : j < i \/ j >= _size - m => a[j] = _items[j]
        /\ \A j \in 0 .. (n - 1) : j >= i /\ j < _size - m => a[j] = _items[j + m]
    <2>1. a = [j \in 0 .. (n - 1) |->
                 IF j \in i .. (i + (_size - (i + m)) - 1) THEN _items[i + m + (j - i)] ELSE _items[j]]
      BY <1>2 DEF copy
    <2>2. a \in [0 .. (n - 1) -> Values]
      <3>1. i + m \in Nat /\ i + (_size - (i + m)) <= n
        BY <1>1, <1>2
      <3> QED
        BY <1>1, <1>2, <3>1, Copied
    <2> HIDE DEF a
    <2>3. \A j \in 0 .. (n - 1) : j < i \/ j >= _size - m => a[j] = _items[j]
      BY <1>1, <2>1
    <2>4. \A j \in 0 .. (n - 1) : j >= i /\ j < _size - m => a[j] = _items[j + m]
      <3> SUFFICES ASSUME NEW j \in 0 .. (n - 1), j >= i, j < _size - m PROVE a[j] = _items[j + m]
        OBVIOUS
      <3>1. i + m + (j - i) = j + m /\ j \in i .. (i + (_size - (i + m)) - 1)
        BY <1>1
      <3> QED
        BY <2>1, <3>1
    <2> QED
      BY <2>2, <2>3, <2>4
  <1> HIDE DEF a
  <1>4. Clean(a, _size)
    <2> SUFFICES ASSUME RefType, NEW k \in 0 .. (n - 1), k >= _size PROVE a[k] = Default
      BY <1>3 DEF Clean
    <2>1. k >= _size - m
      BY <1>1
    <2> QED
      BY <1>0, <1>2, <1>3, <2>1 DEF Clean, Holds
  <1>5. _size - m \in Nat /\ _size - m <= _size
    BY <1>1
  <1>6. /\ _items' \in [0 .. (n - 1) -> Values]
        /\ \A j \in 0 .. (_size - m - 1) : _items'[j] = a[j]
        /\ Clean(_items', _size - m)
    <2>1. _items' = release(a, _size - m, _size)
      BY DEF a
    <2>2. _items' \in [0 .. (n - 1) -> Values] /\ Clean(_items', _size - m)
      BY <1>1, <1>2, <1>3, <1>4, <1>5, <2>1, Released
    <2>3. \A j \in 0 .. (_size - m - 1) : _items'[j] = a[j]
      <3>1. CASE RefType
        <4>1. _items' = [j \in 0 .. (n - 1) |-> IF j \in (_size - m) .. (_size - 1) THEN Default ELSE a[j]]
          BY <1>3, <2>1, <3>1 DEF release, fill
        <4>2. \A j \in 0 .. (_size - m - 1) : j \in 0 .. (n - 1) /\ j \notin (_size - m) .. (_size - 1)
          BY <1>1, <1>2
        <4> QED
          BY <4>1, <4>2
      <3>2. CASE ~RefType
        BY <2>1, <3>2 DEF release
      <3> QED
        BY <3>1, <3>2
    <2> QED
      BY <2>2, <2>3
  <1>7. /\ c \in Seq(Values) /\ Len(c) = _size - m
        /\ \A k \in 1 .. (_size - m) : c[k] = IF k <= i THEN contents[k] ELSE contents[k + m]
    BY <1>1, Erased
  <1> HIDE DEF c
  <1>8. \A k \in 1 .. (_size - m) : _items'[k - 1] = c[k]
    <2> SUFFICES ASSUME NEW k \in 1 .. (_size - m) PROVE _items'[k - 1] = c[k]
      OBVIOUS
    <2>1. k - 1 \in 0 .. (_size - m - 1) /\ k - 1 \in 0 .. (n - 1)
      BY <1>1, <1>2
    <2>2. CASE k <= i
      <3>1. k - 1 < i /\ k \in 1 .. _size
        BY <1>1, <2>2
      <3> QED
        BY <1>1, <1>3, <1>6, <1>7, <2>1, <2>2, <3>1
    <2>3. CASE ~(k <= i)
      <3>1. k - 1 >= i /\ k - 1 < _size - m /\ k - 1 + m = k + m - 1 /\ k + m \in 1 .. _size
        BY <1>1, <2>3
      <3>2. _items'[k - 1] = _items[k + m - 1]
        BY <1>3, <1>6, <2>1, <3>1
      <3>3. _items[k + m - 1] = contents[k + m]
        BY <1>1, <3>1
      <3> QED
        BY <1>7, <2>3, <3>2, <3>3
    <2> QED
      BY <2>2, <2>3
  <1>9. _size' \in Nat /\ _size' <= n /\ Len(c) = _size' /\ \A k \in 1 .. _size' : _items'[k - 1] = c[k]
    BY <1>1, <1>2, <1>5, <1>7, <1>8
  <1>10. Clean(_items', _size')
    BY <1>6
  <1>11. IInv' /\ contents' = c /\ Noticed
    BY <1>2, <1>6, <1>7, <1>9, <1>10, Edited
  <1> QED
    BY <1>11 DEF c

(* erase_at moves the rest down, and releases the last. *)
LEMMA EraseAtStep ==
  ASSUME IInv, NEW i \in Nat, erase_at(i)
  PROVE  IInv' /\ List!EraseAt(i) /\ Noticed
  <1>0. Holds(_items, _size)
    BY DEF IInv
  <1>1. Len(contents) = _size /\ _size \in Nat
    BY <1>0, ContentsOf, Bounds
  <1>2. CASE i >= _size
    <2>1. /\ request' = <<"erase_at", i>> /\ result' = [is |-> "throw", value |-> <<>>]
          /\ UNCHANGED <<_items, _size, _version>>
      BY <1>2 DEF erase_at, Throw, Answer
    <2>2. IInv' /\ contents' = contents /\ Noticed
      BY <2>1, Left
    <2>3. ~(i < Len(contents))
      BY <1>1, <1>2
    <2> QED
      BY <2>1, <2>2, <2>3 DEF List!EraseAt, List!Perform
  <1>3. CASE ~(i >= _size)
    <2>1. /\ _items' = release(copy(_items, i + 1, _size, i), _size - 1, _size) /\ _size' = _size - 1
          /\ _version' = _version + 1
          /\ request' = <<"erase_at", i>> /\ result' = [is |-> "ok", value |-> <<>>]
      BY <1>3 DEF erase_at, Answer
    <2>2. i + 1 <= _size /\ i + 2 = i + 1 + 1
      BY <1>1, <1>3
    <2>3. IInv' /\ contents' = SubSeq(contents, 1, i) \o SubSeq(contents, i + 2, Len(contents)) /\ Noticed
      <3>1. PICK m \in Nat : m = 1
        OBVIOUS
      <3>2. /\ m > 0 /\ i + m <= _size
            /\ _items' = release(copy(_items, i + m, _size, i), _size - m, _size) /\ _size' = _size - m
        BY <2>1, <2>2, <3>1
      <3>3. IInv' /\ contents' = SubSeq(contents, 1, i) \o SubSeq(contents, i + m + 1, Len(contents)) /\ Noticed
        BY <2>1, <3>2, ErasedStep
      <3>4. i + m + 1 = i + 2
        BY <3>1
      <3> QED
        BY <3>3, <3>4
    <2>4. i < Len(contents)
      BY <1>1, <1>3
    <2> QED
      BY <2>1, <2>2, <2>3, <2>4 DEF List!EraseAt, List!Perform
  <1> QED
    BY <1>2, <1>3

(* A size, and a sum that is not negative, is far from wrapping. *)
LEMMA NotWrapped ==
  ASSUME NEW m \in Nat, m < 2 ^ 16
  PROVE  Wrapped(m) = m
  <1>1. 2 ^ 16 = 65536
    OBVIOUS
  <1> QED
    BY <1>1 DEF Wrapped

(* erase_range does so for several elements, and its check is right for an *)
(* index within the list.                                                  *)
LEMMA EraseRangeStep ==
  ASSUME IInv, NEW i \in Int, NEW m \in Int, i <= _size, erase_range(i, m)
  PROVE  IInv' /\ List!EraseRange(i, m) /\ Noticed
  <1>0. Holds(_items, _size)
    BY DEF IInv
  <1>1. Len(contents) = _size /\ _size \in Nat
    BY <1>0, ContentsOf, Bounds
  <1>2. CASE m <= 0
    <2>1. /\ request' = <<"erase_range", i, m>> /\ result' = [is |-> "ok", value |-> <<>>]
          /\ UNCHANGED <<_items, _size, _version>>
      BY <1>2 DEF erase_range, Answer
    <2>2. IInv' /\ contents' = contents /\ Noticed
      BY <2>1, Left
    <2> QED
      BY <1>2, <2>1, <2>2 DEF List!EraseRange, List!Perform
  <1>3. CASE m > 0 /\ (i < 0 \/ _size - i < m)
    <2>1. i < 0 \/ Wrapped(_size - i) < m
      <3> SUFFICES ASSUME ~(i < 0) PROVE Wrapped(_size - i) < m
        OBVIOUS
      <3>1. _size <= MaxCapacity /\ MaxCapacity \in Nat
        BY <1>0, <1>1, Bounds, CapacityAssumption
      <3>2. _size - i \in Nat /\ _size - i < 2 ^ 16
        <4>1. 2 ^ 16 = 65536
          OBVIOUS
        <4> QED
          BY <1>1, <3>1, <4>1, WidthAssumption
      <3>3. Wrapped(_size - i) = _size - i
        BY <3>2, NotWrapped
      <3> QED
        BY <1>3, <3>3
    <2>2. /\ request' = <<"erase_range", i, m>> /\ result' = [is |-> "throw", value |-> <<>>]
          /\ UNCHANGED <<_items, _size, _version>>
      <3>1. ~(m <= 0)
        BY <1>3
      <3> QED
        BY <1>3, <2>1, <3>1 DEF erase_range, Throw, Answer
    <2>3. IInv' /\ contents' = contents /\ Noticed
      BY <2>2, Left
    <2>4. ~(m <= 0 \/ (i >= 0 /\ i + m <= Len(contents)))
      BY <1>1, <1>3
    <2> QED
      BY <2>2, <2>3, <2>4 DEF List!EraseRange, List!Perform
  <1>4. CASE m > 0 /\ i >= 0 /\ i + m <= _size
    <2>1. i \in Nat /\ m \in Nat /\ i < _size /\ ~(m <= 0) /\ ~(i < 0)
      BY <1>1, <1>4
    <2>2. ~(Wrapped(_size - i) < m)
      <3>1. _size <= MaxCapacity /\ MaxCapacity \in Nat
        BY <1>0, <1>1, Bounds, CapacityAssumption
      <3>2. _size - i \in Nat /\ _size - i < 2 ^ 16
        <4>1. 2 ^ 16 = 65536
          OBVIOUS
        <4> QED
          BY <1>1, <1>4, <3>1, <4>1, WidthAssumption
      <3>3. Wrapped(_size - i) = _size - i
        BY <3>2, NotWrapped
      <3> QED
        BY <1>1, <1>4, <3>3
    <2>3. /\ _items' = release(copy(_items, i + m, _size, i), _size - m, _size) /\ _size' = _size - m
          /\ _version' = _version + 1
          /\ request' = <<"erase_range", i, m>> /\ result' = [is |-> "ok", value |-> <<>>]
      BY <2>1, <2>2 DEF erase_range, Answer
    <2>4. IInv' /\ contents' = SubSeq(contents, 1, i) \o SubSeq(contents, i + m + 1, Len(contents)) /\ Noticed
      BY <1>4, <2>1, <2>3, ErasedStep
    <2>5. i >= 0 /\ i + m <= Len(contents)
      BY <1>1, <1>4
    <2> QED
      BY <2>1, <2>3, <2>4, <2>5 DEF List!EraseRange, List!Perform
  <1> QED
    BY <1>1, <1>2, <1>3, <1>4

(* insert_range appends what is given, as far as the list may grow. *)
LEMMA InsertRangeStep ==
  ASSUME IInv, NEW xs \in Seq(Values), insert_range(xs)
  PROVE  IInv' /\ List!InsertRange(xs) /\ Noticed /\ Len(xs) \in 0 .. MaxCapacity
  <1>0. Holds(_items, _size) /\ MaxCapacity \in Nat
    BY CapacityAssumption DEF IInv
  <1>1. /\ contents \in Seq(Values) /\ Len(contents) = _size /\ _size \in Nat
        /\ \A k \in 1 .. _size : contents[k] = _items[k - 1]
    BY <1>0, ContentsOf
  <1>2. CASE xs = <<>>
    <2>1. /\ request' = <<"insert_range", xs>> /\ result' = [is |-> "ok", value |-> <<>>]
          /\ UNCHANGED <<_items, _size, _version>>
      BY <1>2 DEF insert_range, Answer
    <2>2. IInv' /\ contents' = contents /\ Noticed
      BY <2>1, Left
    <2>3. contents \o xs = contents
      BY <1>1, <1>2
    <2>4. Len(xs) \in 0 .. MaxCapacity
      BY <1>0, <1>2
    <2> QED
      BY <2>1, <2>2, <2>3, <2>4 DEF List!InsertRange, List!Perform
  <1>3. CASE xs # <<>>
    <2> DEFINE b == ensure_capacity(_items, _size + Len(xs))
               c == contents \o xs
    <2>1. PICK m \in Nat : m = Len(xs)
      OBVIOUS
    <2>2. /\ _size + m <= MaxCapacity /\ _version' = _version + 1 /\ _size' = _size + m
          /\ _items' = [j \in DOMAIN b |->
               IF j \in _size .. _size + m - 1 THEN xs[j - _size + 1] ELSE b[j]]
          /\ request' = <<"insert_range", xs>> /\ result' = [is |-> "ok", value |-> <<>>]
      BY <1>3, <2>1 DEF insert_range, Answer
    <2>3. PICK n \in Nat : /\ n \in 0 .. MaxCapacity /\ b \in [0 .. (n - 1) -> Values] /\ _size + m <= n
                           /\ \A j \in 0 .. (_size - 1) : b[j] = _items[j]
                           /\ Clean(b, _size)
      <3>1. _size + Len(xs) \in Nat /\ _size + Len(xs) <= MaxCapacity
        BY <1>1, <2>1, <2>2
      <3> QED
        BY <1>0, <2>1, <3>1, Ensured
    <2> HIDE DEF b
    <2>4. _items' = [j \in 0 .. (n - 1) |-> IF j \in _size .. _size + m - 1 THEN xs[j - _size + 1] ELSE b[j]]
      BY <2>2, <2>3
    <2>5. \A j \in _size .. _size + m - 1 : xs[j - _size + 1] \in Values
      <3>1. \A j \in _size .. _size + m - 1 : j - _size + 1 \in 1 .. Len(xs)
        BY <1>1, <2>1
      <3> QED
        BY <3>1
    <2>6. _items' \in [0 .. (n - 1) -> Values]
      BY <2>3, <2>4, <2>5
    <2>7. Clean(_items', _size')
      <3> SUFFICES ASSUME RefType, NEW k \in 0 .. (n - 1), k >= _size + m PROVE _items'[k] = Default
        BY <2>2, <2>6 DEF Clean
      <3>1. k \notin _size .. _size + m - 1 /\ k >= _size
        BY <1>1
      <3> QED
        BY <2>3, <2>4, <3>1 DEF Clean
    <2>8. /\ c \in Seq(Values) /\ Len(c) = _size + m
          /\ \A k \in 1 .. (_size + m) : c[k] = IF k <= _size THEN contents[k] ELSE xs[k - _size]
      <3>1. /\ c \in Seq(Values) /\ Len(c) = Len(contents) + Len(xs)
            /\ \A k \in Nat : k >= 1 /\ k <= Len(contents) + Len(xs) =>
                 c[k] = IF k <= Len(contents) THEN contents[k] ELSE xs[k - Len(contents)]
        BY <1>1, Joined
      <3> HIDE DEF c
      <3>2. \A k \in 1 .. (_size + m) : k \in Nat /\ k >= 1 /\ k <= _size + m
        BY <1>1
      <3> QED
        BY <1>1, <2>1, <3>1, <3>2
    <2> HIDE DEF c
    <2>9. \A k \in 1 .. (_size + m) : _items'[k - 1] = c[k]
      <3> SUFFICES ASSUME NEW k \in 1 .. (_size + m) PROVE _items'[k - 1] = c[k]
        OBVIOUS
      <3>0. k - 1 \in 0 .. (n - 1)
        BY <1>1, <2>3
      <3>1. CASE k <= _size
        <4>1. k - 1 \in 0 .. (_size - 1) /\ k \in 1 .. _size /\ k - 1 \notin _size .. _size + m - 1
          BY <1>1, <3>1
        <4> QED
          BY <1>1, <2>3, <2>4, <2>8, <3>0, <3>1, <4>1
      <3>2. CASE ~(k <= _size)
        <4>1. k - 1 \in _size .. _size + m - 1 /\ k - 1 - _size + 1 = k - _size
          BY <1>1, <3>2
        <4> QED
          BY <2>4, <2>8, <3>0, <3>2, <4>1
      <3> QED
        BY <3>1, <3>2
    <2>10. IInv' /\ contents' = c /\ Noticed
      <3>1. /\ _size' \in Nat /\ _size' <= n /\ n <= MaxCapacity /\ Len(c) = _size'
            /\ \A k \in 1 .. _size' : _items'[k - 1] = c[k]
        BY <1>0, <1>1, <2>2, <2>3, <2>8, <2>9
      <3> QED
        BY <2>2, <2>6, <2>7, <2>8, <3>1, Edited
    <2>11. Len(xs) \in 0 .. MaxCapacity
      BY <1>0, <1>1, <2>1, <2>2
    <2> QED
      BY <2>2, <2>10, <2>11 DEF List!InsertRange, List!Perform, c
  <1> QED
    BY <1>2, <1>3

(* clear releases every element. *)
LEMMA ClearStep ==
  ASSUME IInv, clear
  PROVE  IInv' /\ List!Clear /\ Noticed
  <1>0. Holds(_items, _size)
    BY DEF IInv
  <1>1. /\ _items' = release(_items, 0, _size) /\ _size' = 0 /\ _version' = _version + 1
        /\ request' = <<"clear">> /\ result' = [is |-> "ok", value |-> <<>>]
    BY DEF clear, Answer
  <1>2. PICK n \in Nat : n <= MaxCapacity /\ _items \in [0 .. (n - 1) -> Values] /\ _size \in Nat /\ _size <= n
    BY <1>0, Bounds
  <1>3. _items' \in [0 .. (n - 1) -> Values] /\ Clean(_items', _size')
    <2>1. Clean(_items, _size)
      BY <1>0 DEF Holds
    <2>2. \A d \in Nat : d <= _size =>
            release(_items, d, _size) \in [0 .. (n - 1) -> Values] /\ Clean(release(_items, d, _size), d)
      BY <1>2, <2>1, Released
    <2> QED
      BY <1>1, <1>2, <2>2
  <1>4. IInv' /\ contents' = <<>> /\ Noticed
    <2> DEFINE c == <<>>
    <2>1. /\ _size' \in Nat /\ _size' <= n /\ c \in Seq(Values) /\ Len(c) = _size'
          /\ \A k \in 1 .. _size' : _items'[k - 1] = c[k]
      BY <1>1
    <2> HIDE DEF c
    <2>2. IInv' /\ contents' = c /\ Noticed
      BY <1>1, <1>2, <1>3, <2>1, Edited
    <2> QED
      BY <2>2 DEF c
  <1> QED
    BY <1>1, <1>4 DEF List!Clear, List!Perform

(* Reading operations. *)
LEMMA ReadStep ==
  ASSUME IInv, NEW op, NEW value, Read(op, value)
  PROVE  IInv' /\ contents' = contents /\ List!Read(op, value) /\ Noticed
  <1>1. /\ request' = op /\ result' = [is |-> "ok", value |-> value]
        /\ UNCHANGED <<_items, _size, _version>>
    BY DEF Read
  <1>2. IInv' /\ contents' = contents /\ Noticed
    BY <1>1, Left
  <1> QED
    BY <1>1, <1>2 DEF List!Read

(* The places that a search looks for are those of the sequence. *)
LEMMA HitsAre ==
  ASSUME IInv, NEW pred
  PROVE  /\ _size \in Nat /\ hits(pred) \subseteq 0 .. _size - 1
         /\ contents \in Seq(Values) /\ Len(contents) = _size
         /\ \A k \in 0 .. _size - 1 : _items[k] = contents[k + 1] /\ (k \in hits(pred) <=> contents[k + 1] \in pred)
  <1>1. /\ contents \in Seq(Values) /\ Len(contents) = _size /\ _size \in Nat
        /\ \A k \in 1 .. _size : contents[k] = _items[k - 1]
    BY ContentsOf, Bounds DEF IInv
  <1>2. \A k \in 0 .. _size - 1 : _items[k] = contents[k + 1]
    <2> SUFFICES ASSUME NEW k \in 0 .. _size - 1 PROVE _items[k] = contents[k + 1]
      OBVIOUS
    <2>1. k + 1 \in 1 .. _size /\ k + 1 - 1 = k
      BY <1>1
    <2> QED
      BY <1>1, <2>1
  <1> QED
    BY <1>1, <1>2 DEF hits

(* try_get reads, or answers nothing beyond the end. *)
LEMMA TryGetStep ==
  ASSUME IInv, NEW i \in Nat, try_get(i)
  PROVE  IInv' /\ List!TryGet(i) /\ Noticed
  <1> DEFINE v == IF i >= _size THEN <<>> ELSE <<_items[i]>>
             w == SubSeq(contents, i + 1, IF i < Len(contents) THEN i + 1 ELSE i)
  <1>1. /\ contents \in Seq(Values) /\ Len(contents) = _size /\ _size \in Nat
        /\ \A k \in 1 .. _size : contents[k] = _items[k - 1]
    BY ContentsOf, Bounds DEF IInv
  <1>2. v = w
    <2>1. CASE i >= _size
      <3>1. ~(i < Len(contents)) /\ i + 1 > i
        BY <1>1, <2>1
      <3>2. w = SubSeq(contents, i + 1, i)
        BY <3>1
      <3>3. SubSeq(contents, i + 1, i) = <<>>
        BY <1>1, <3>1, SubSeqEmpty
      <3> QED
        BY <2>1, <3>2, <3>3
    <2>2. CASE ~(i >= _size)
      <3>1. i < Len(contents) /\ i + 1 \in 1 .. _size /\ i + 1 - 1 = i
        BY <1>1, <2>2
      <3>2. w = SubSeq(contents, i + 1, i + 1)
        BY <3>1
      <3>3. contents[i + 1] \in Values /\ contents[i + 1] = _items[i]
        BY <1>1, <3>1
      <3>4. SubSeq(contents, i + 1, i + 1) = <<contents[i + 1]>>
        <4>1. PICK k \in Nat : k = i + 1
          OBVIOUS
        <4>2. k >= 1 /\ k \in 1 .. Len(contents) /\ k - k + 1 = 1
          BY <1>1, <3>1, <4>1
        <4>3. \A l \in k .. k : contents[l] \in Values
          BY <1>1, <3>1, <4>1
        <4>4. /\ SubSeq(contents, k, k) \in Seq(Values)
              /\ Len(SubSeq(contents, k, k)) = IF k <= k THEN k - k + 1 ELSE 0
              /\ \A l \in 1 .. k - k + 1 : SubSeq(contents, k, k)[l] = contents[k + l - 1]
          BY <4>1, <4>3, SubSeqProperties
        <4>5. Len(SubSeq(contents, k, k)) = 1 /\ SubSeq(contents, k, k)[1] = contents[k]
          BY <4>2, <4>4
        <4>6. \A q \in Seq(Values) : Len(q) = 1 => q = <<q[1]>>
          OBVIOUS
        <4>7. SubSeq(contents, k, k) = <<contents[k]>>
          BY <4>4, <4>5, <4>6
        <4> QED
          BY <4>1, <4>7
      <3> QED
        BY <2>2, <3>2, <3>3, <3>4
    <2> QED
      BY <2>1, <2>2
  <1>3. Read(<<"try_get", i>>, v)
    BY DEF try_get
  <1> HIDE DEF v
  <1>4. IInv' /\ List!Read(<<"try_get", i>>, v) /\ Noticed
    BY <1>3, ReadStep
  <1> HIDE DEF w
  <1>5. List!Read(<<"try_get", i>>, w)
    BY <1>2, <1>4
  <1> QED
    BY <1>4, <1>5 DEF List!TryGet, w

(* index_of answers the first place of a value. *)
LEMMA IndexOfStep ==
  ASSUME IInv, NEW x \in Values, index_of(x)
  PROVE  IInv' /\ List!IndexOf(x) /\ Noticed
  <1>1. /\ _size \in Nat /\ hits({x}) \subseteq 0 .. _size - 1
        /\ contents \in Seq(Values) /\ Len(contents) = _size
        /\ \A k \in 0 .. _size - 1 : k \in hits({x}) <=> contents[k + 1] \in {x}
    BY HitsAre
  <1>2. Read(<<"index_of", x>>, IF hits({x}) = {} THEN <<-1>> ELSE <<Min(hits({x}))>>)
    BY DEF index_of
  <1> DEFINE h == hits({x})
  <1> HIDE DEF h
  <1>3. CASE h = {}
    <2>1. Read(<<"index_of", x>>, <<-1>>)
      BY <1>2, <1>3 DEF h
    <2>2. IInv' /\ Noticed /\ List!Read(<<"index_of", x>>, <<-1>>)
      BY <2>1, ReadStep
    <2>3. \A j \in 1 .. Len(contents) : contents[j] # x
      <3> SUFFICES ASSUME NEW j \in 1 .. Len(contents) PROVE contents[j] # x
        OBVIOUS
      <3>1. j - 1 \in 0 .. _size - 1 /\ j - 1 + 1 = j
        BY <1>1
      <3> QED
        BY <1>1, <1>3, <3>1 DEF h
    <2>4. -1 \in -1 .. Len(contents) - 1 /\ ~(-1 >= 0)
      BY <1>1
    <2> QED
      BY <2>2, <2>3, <2>4 DEF List!IndexOf
  <1>4. CASE h # {}
    <2>0. h \subseteq Nat
      BY <1>1 DEF h
    <2>1. PICK k \in h : k = Min(h) /\ \A j \in h : k <= j
      BY <1>4, <2>0, Least
    <2>2. Read(<<"index_of", x>>, <<k>>)
      BY <1>2, <1>4, <2>1 DEF h
    <2>3. IInv' /\ Noticed /\ List!Read(<<"index_of", x>>, <<k>>)
      BY <2>2, ReadStep
    <2>4. k \in 0 .. _size - 1 /\ contents[k + 1] = x
      BY <1>1, <2>1 DEF h
    <2>5. \A j \in 1 .. k : contents[j] # x
      <3> SUFFICES ASSUME NEW j \in 1 .. k PROVE contents[j] # x
        OBVIOUS
      <3>1. j - 1 \in 0 .. _size - 1 /\ j - 1 + 1 = j /\ ~(k <= j - 1)
        BY <1>1, <2>4
      <3> QED
        BY <1>1, <2>1, <3>1 DEF h
    <2>6. k \in -1 .. Len(contents) - 1 /\ k >= 0
      BY <1>1, <2>4
    <2> QED
      BY <2>3, <2>4, <2>5, <2>6 DEF List!IndexOf
  <1> QED
    BY <1>3, <1>4

(* front_or_default answers the first element that is asked for. *)
LEMMA FrontStep ==
  ASSUME IInv, NEW pred, front_or_default(pred)
  PROVE  IInv' /\ List!FrontOrDefault(pred) /\ Noticed
  <1>1. /\ _size \in Nat /\ hits(pred) \subseteq 0 .. _size - 1
        /\ contents \in Seq(Values) /\ Len(contents) = _size
        /\ \A k \in 0 .. _size - 1 : _items[k] = contents[k + 1] /\ (k \in hits(pred) <=> contents[k + 1] \in pred)
    BY HitsAre
  <1> DEFINE h == hits(pred)
  <1>2. Read(<<"front_or_default", pred>>, IF h = {} THEN <<Default>> ELSE <<_items[Min(h)]>>)
    BY DEF front_or_default
  <1> HIDE DEF h
  <1>3. CASE h = {}
    <2>1. IInv' /\ Noticed /\ List!Read(<<"front_or_default", pred>>, <<Default>>)
      BY <1>2, <1>3, ReadStep
    <2>2. \A j \in 1 .. Len(contents) : contents[j] \notin pred
      <3> SUFFICES ASSUME NEW j \in 1 .. Len(contents) PROVE contents[j] \notin pred
        OBVIOUS
      <3>1. j - 1 \in 0 .. _size - 1 /\ j - 1 + 1 = j
        BY <1>1
      <3> QED
        BY <1>1, <1>3, <3>1 DEF h
    <2>3. PICK k \in 1 .. Len(contents) + 1 : k = Len(contents) + 1
      BY <1>1
    <2>4. ~(k <= Len(contents)) /\ k - 1 = Len(contents)
      BY <1>1, <2>3
    <2> QED
      BY <2>1, <2>2, <2>4 DEF List!FrontOrDefault
  <1>4. CASE h # {}
    <2>0. h \subseteq Nat
      BY <1>1 DEF h
    <2>1. PICK m \in h : m = Min(h) /\ \A j \in h : m <= j
      BY <1>4, <2>0, Least
    <2>2. m \in 0 .. _size - 1 /\ contents[m + 1] \in pred /\ _items[m] = contents[m + 1]
      BY <1>1, <2>1 DEF h
    <2>3. Read(<<"front_or_default", pred>>, <<contents[m + 1]>>)
      BY <1>2, <1>4, <2>1, <2>2
    <2>4. IInv' /\ Noticed /\ List!Read(<<"front_or_default", pred>>, <<contents[m + 1]>>)
      BY <2>3, ReadStep
    <2>5. \A j \in 1 .. m : contents[j] \notin pred
      <3> SUFFICES ASSUME NEW j \in 1 .. m PROVE contents[j] \notin pred
        OBVIOUS
      <3>1. j - 1 \in 0 .. _size - 1 /\ j - 1 + 1 = j /\ ~(m <= j - 1)
        BY <1>1, <2>2
      <3> QED
        BY <1>1, <2>1, <3>1 DEF h
    <2>6. PICK k \in 1 .. Len(contents) + 1 : k = m + 1
      BY <1>1, <2>2
    <2>7. k <= Len(contents) /\ k - 1 = m
      BY <1>1, <2>2, <2>6
    <2> QED
      BY <2>2, <2>4, <2>5, <2>6, <2>7 DEF List!FrontOrDefault
  <1> QED
    BY <1>3, <1>4

(* back_or_default answers the last one. *)
LEMMA BackStep ==
  ASSUME IInv, NEW pred, back_or_default(pred)
  PROVE  IInv' /\ List!BackOrDefault(pred) /\ Noticed
  <1>1. /\ _size \in Nat /\ hits(pred) \subseteq 0 .. _size - 1
        /\ contents \in Seq(Values) /\ Len(contents) = _size
        /\ \A k \in 0 .. _size - 1 : _items[k] = contents[k + 1] /\ (k \in hits(pred) <=> contents[k + 1] \in pred)
    BY HitsAre
  <1> DEFINE h == hits(pred)
  <1>2. Read(<<"back_or_default", pred>>, IF h = {} THEN <<Default>> ELSE <<_items[Max(h)]>>)
    BY DEF back_or_default
  <1> HIDE DEF h
  <1>3. CASE h = {}
    <2>1. IInv' /\ Noticed /\ List!Read(<<"back_or_default", pred>>, <<Default>>)
      BY <1>2, <1>3, ReadStep
    <2>2. \A j \in 1 .. Len(contents) : contents[j] \notin pred
      <3> SUFFICES ASSUME NEW j \in 1 .. Len(contents) PROVE contents[j] \notin pred
        OBVIOUS
      <3>1. j - 1 \in 0 .. _size - 1 /\ j - 1 + 1 = j
        BY <1>1
      <3> QED
        BY <1>1, <1>3, <3>1 DEF h
    <2>3. PICK k \in 0 .. Len(contents) : k = 0
      BY <1>1
    <2>4. ~(k > 0) /\ k + 1 = 1
      BY <2>3
    <2> QED
      BY <2>1, <2>2, <2>4 DEF List!BackOrDefault
  <1>4. CASE h # {}
    <2>0. h \subseteq 0 .. _size
      BY <1>1 DEF h
    <2>1. PICK m \in h : m = Max(h) /\ \A j \in h : m >= j
      BY <1>1, <1>4, <2>0, Greatest
    <2>2. m \in 0 .. _size - 1 /\ contents[m + 1] \in pred /\ _items[m] = contents[m + 1]
      BY <1>1, <2>1 DEF h
    <2>3. Read(<<"back_or_default", pred>>, <<contents[m + 1]>>)
      BY <1>2, <1>4, <2>1, <2>2
    <2>4. IInv' /\ Noticed /\ List!Read(<<"back_or_default", pred>>, <<contents[m + 1]>>)
      BY <2>3, ReadStep
    <2>5. PICK k \in 0 .. Len(contents) : k = m + 1
      BY <1>1, <2>2
    <2>6. \A j \in k + 1 .. Len(contents) : contents[j] \notin pred
      <3> SUFFICES ASSUME NEW j \in k + 1 .. Len(contents) PROVE contents[j] \notin pred
        OBVIOUS
      <3>1. j - 1 \in 0 .. _size - 1 /\ j - 1 + 1 = j /\ ~(m >= j - 1)
        BY <1>1, <2>2, <2>5
      <3> QED
        BY <1>1, <2>1, <3>1 DEF h
    <2>7. k > 0
      BY <1>1, <2>2, <2>5
    <2> QED
      BY <2>2, <2>4, <2>6, <2>5, <2>7 DEF List!BackOrDefault
  <1> QED
    BY <1>3, <1>4

(* The span: elements of its own, those of the list, elements of its own. *)
Blank(k) == [j \in 1 .. k |-> Default]

(* copy_to checks that the destination has room. *)
LEMMA CopyToStep ==
  ASSUME IInv, NEW d \in Nat, NEW i \in Indices, i \in Nat, copy_to(d, i)
  PROVE  IInv' /\ List!CopyTo(d, i) /\ Noticed
  <1>1. /\ contents \in Seq(Values) /\ Len(contents) = _size /\ _size \in Nat /\ _size <= MaxCapacity
        /\ \A k \in 1 .. _size : contents[k] = _items[k - 1]
    BY ContentsOf, Bounds DEF IInv
  <1>2. Wrapped(i + _size) = i + _size
    <2>1. i + _size \in Nat
      BY <1>1
    <2>2. i + _size < 2 ^ 16
      <3>1. 2 ^ 16 = 65536
        OBVIOUS
      <3> QED
        BY <1>1, <3>1, WidthAssumption, CapacityAssumption
    <2> QED
      BY <2>1, <2>2, NotWrapped
  <1>3. CASE i + _size > d
    <2>1. /\ request' = <<"copy_to", d, i>> /\ result' = [is |-> "throw", value |-> <<>>]
          /\ UNCHANGED <<_items, _size, _version>>
      BY <1>2, <1>3 DEF copy_to, Throw, Answer
    <2>2. IInv' /\ contents' = contents /\ Noticed
      BY <2>1, Left
    <2>3. ~(i >= 0 /\ i + Len(contents) <= d)
      BY <1>1, <1>3
    <2> QED
      BY <2>1, <2>2, <2>3 DEF List!CopyTo, List!Perform
  <1>4. CASE ~(i + _size > d)
    <2> DEFINE v == [k \in 1 .. d |-> IF k - 1 \in i .. i + _size - 1 THEN _items[k - 1 - i] ELSE Default]
               p == Blank(i)
               r == Blank(d - i - Len(contents))
               q == p \o contents
    <2>1. Read(<<"copy_to", d, i>>, v)
      <3>1. ~(i < 0) /\ i + _size <= d
        BY <1>1, <1>4
      <3> QED
        BY <1>2, <1>4, <3>1 DEF copy_to
    <2>2. PICK m \in Nat : m = d - i - Len(contents)
      BY <1>1, <1>4
    <2>3. d = i + _size + m
      BY <1>1, <2>2
    <2>4. /\ p \in Seq(Values) /\ Len(p) = i /\ \A k \in 1 .. i : p[k] = Default
          /\ r \in Seq(Values) /\ Len(r) = m /\ \A k \in 1 .. m : r[k] = Default
      BY <2>2, DefaultAssumption DEF Blank
    <2>5. v \in Seq(Values) /\ Len(v) = d
      <3>1. \A k \in 1 .. d : k - 1 \in i .. i + _size - 1 => _items[k - 1 - i] \in Values
        <4> SUFFICES ASSUME NEW k \in 1 .. d, k - 1 \in i .. i + _size - 1 PROVE _items[k - 1 - i] \in Values
          OBVIOUS
        <4>1. PICK l \in Nat : l = k - i
          BY <1>1
        <4>2. l \in 1 .. _size /\ k - 1 - i = l - 1 /\ l \in 1 .. Len(contents)
          BY <1>1, <4>1
        <4>3. contents[l] \in Values /\ contents[l] = _items[l - 1]
          BY <1>1, <4>2
        <4> QED
          BY <4>2, <4>3
      <3>2. v \in [1 .. d -> Values]
        BY <3>1, DefaultAssumption
      <3> QED
        BY <3>2
    <2>6. \A k \in 1 .. d : v[k] = IF k - 1 \in i .. i + _size - 1 THEN _items[k - 1 - i] ELSE Default
      OBVIOUS
    <2> HIDE DEF v, p, r
    <2>7. /\ q \in Seq(Values) /\ Len(q) = Len(p) + Len(contents)
          /\ \A k \in Nat : k >= 1 /\ k <= Len(p) + Len(contents) =>
               q[k] = IF k <= Len(p) THEN p[k] ELSE contents[k - Len(p)]
      BY <1>1, <2>4, Joined
    <2> HIDE DEF q
    <2>8. /\ q \o r \in Seq(Values) /\ Len(q \o r) = Len(q) + Len(r)
          /\ \A k \in Nat : k >= 1 /\ k <= Len(q) + Len(r) =>
               (q \o r)[k] = IF k <= Len(q) THEN q[k] ELSE r[k - Len(q)]
      BY <2>4, <2>7, Joined
    <2>9. Len(q) = i + _size /\ Len(q \o r) = d
      BY <1>1, <2>3, <2>4, <2>7, <2>8
    <2>10. \A k \in 1 .. d : v[k] = (q \o r)[k]
      <3> SUFFICES ASSUME NEW k \in 1 .. d PROVE v[k] = (q \o r)[k]
        OBVIOUS
      <3>1. (q \o r)[k] = IF k <= i + _size THEN q[k] ELSE r[k - (i + _size)]
        <4>1. k \in Nat /\ k >= 1 /\ k <= Len(q) + Len(r)
          BY <2>3, <2>4, <2>9
        <4> QED
          BY <2>8, <2>9, <4>1
      <3>2. k <= i + _size => q[k] = IF k <= i THEN p[k] ELSE contents[k - i]
        <4> SUFFICES ASSUME k <= i + _size PROVE q[k] = IF k <= i THEN p[k] ELSE contents[k - i]
          OBVIOUS
        <4>1. k \in Nat /\ k >= 1 /\ k <= Len(p) + Len(contents)
          BY <1>1, <2>4
        <4> QED
          BY <2>4, <2>7, <4>1
      <3>3. CASE k <= i
        <4>1. k <= i + _size /\ k \in 1 .. i /\ k - 1 \notin i .. i + _size - 1
          BY <1>1, <3>3
        <4> QED
          BY <2>4, <2>6, <3>1, <3>2, <3>3, <4>1
      <3>4. CASE ~(k <= i) /\ k <= i + _size
        <4>1. PICK l \in Nat : l = k - i
          BY <1>1, <3>4
        <4>2. l \in 1 .. _size /\ k - 1 - i = l - 1 /\ k - 1 \in i .. i + _size - 1
          BY <1>1, <3>4, <4>1
        <4>3. v[k] = _items[l - 1]
          BY <2>6, <4>2
        <4>4. (q \o r)[k] = contents[l]
          BY <3>1, <3>2, <3>4, <4>1
        <4> QED
          BY <1>1, <4>2, <4>3, <4>4
      <3>5. CASE ~(k <= i + _size)
        <4>1. k - (i + _size) \in 1 .. m /\ k - 1 \notin i .. i + _size - 1
          BY <1>1, <2>3, <3>5
        <4> QED
          BY <2>4, <2>6, <3>1, <3>5, <4>1
      <3> QED
        BY <1>1, <3>3, <3>4, <3>5
    <2>11. v = q \o r
      BY <2>5, <2>8, <2>9, <2>10, SeqEqual
    <2>12. IInv' /\ Noticed /\ List!Read(<<"copy_to", d, i>>, v)
      BY <2>1, ReadStep
    <2>13. List!Read(<<"copy_to", d, i>>, q \o r)
      BY <2>11, <2>12
    <2>14. i >= 0 /\ i + Len(contents) <= d
      BY <1>1, <1>4
    <2>15. List!CopyTo(d, i)
      BY <2>13, <2>14 DEF List!CopyTo, p, q, r, Blank
    <2> QED
      BY <2>12, <2>15
  <1> QED
    BY <1>3, <1>4

--------------------------------------------------------------------------------
(* A list starts as a sequence, and every step of it is one of the         *)
(* sequence's.                                                             *)
LEMMA Initially == Init => IInv /\ List!Init
  <1> SUFFICES ASSUME Init PROVE IInv /\ List!Init
    OBVIOUS
  <1>1. MaxCapacity \in Nat
    BY CapacityAssumption
  <1>2. _version = 0 /\ request = <<"New">> /\ result = [is |-> "ok", value |-> <<>>]
    BY DEF Init
  <1>3. Holds(_items, _size)
    <2>1. CASE \E n \in 0 .. MaxCapacity : _items = [k \in 0 .. n - 1 |-> Default] /\ _size = 0
      <3>1. PICK n \in 0 .. MaxCapacity : _items = [k \in 0 .. n - 1 |-> Default] /\ _size = 0
        BY <2>1
      <3>2. _items \in [0 .. (n - 1) -> Values] /\ _size \in 0 .. n /\ Clean(_items, _size)
        BY <1>1, <3>1, DefaultAssumption DEF Clean
      <3> QED
        BY <3>2 DEF Holds
    <2>2. CASE _items \in Array /\ _size = Capacity(_items)
      <3>1. PICK n \in 0 .. MaxCapacity : _items \in [0 .. n - 1 -> Values]
        BY <2>2 DEF Array
      <3>2. _size = n /\ n \in Nat
        BY <1>1, <2>2, <3>1, CapacityOf
      <3>3. Clean(_items, _size)
        <4>1. \A k \in 0 .. n - 1 : ~(k >= n)
          BY <3>2
        <4> QED
          BY <3>1, <3>2, <4>1 DEF Clean
      <3>4. _size \in 0 .. n
        BY <3>2
      <3> QED
        BY <3>1, <3>3, <3>4 DEF Holds
    <2> QED
      BY <2>1, <2>2 DEF Init
  <1>4. IInv
    BY <1>2, <1>3 DEF IInv
  <1>5. contents \in UNION {[1 .. k -> Values] : k \in 0 .. MaxCapacity}
    <2>1. contents \in [1 .. _size -> Values]
      BY <1>3, ContentsOf DEF contents
    <2>2. _size \in 0 .. MaxCapacity
      BY <1>1, <1>3, Bounds
    <2> QED
      BY <2>1, <2>2
  <1> QED
    BY <1>2, <1>4, <1>5 DEF List!Init

(* Every step keeps the invariant, edits as ManagedList does, and changes  *)
(* the version when it must.                                               *)
LEMMA Steps ==
  ASSUME ~Unchecked, IInv, [Next]_vars
  PROVE  IInv' /\ [List!Next]_(List!vars) /\ [Noticed]_vars
  <1> DEFINE Goal == IInv' /\ List!Next /\ Noticed
  <1>1. CASE UNCHANGED vars
    <2>1. contents' = contents /\ IInv'
      BY <1>1 DEF vars, contents, IInv, Holds, Clean
    <2> QED
      BY <1>1, <2>1 DEF vars, List!vars
  <1>2. ASSUME Next PROVE Goal
    <2>1. CASE \E x \in Values : push_back(x)
      BY <2>1, PushBackStep DEF List!Next
    <2>2. CASE \E i \in Indices \intersect Nat, x \in Values : insert_at(i, x) \/ at(i, x)
      <3>1. PICK i \in Indices \intersect Nat, x \in Values : insert_at(i, x) \/ at(i, x)
        BY <2>2
      <3>2. IInv' /\ Noticed /\ (List!InsertAt(i, x) \/ List!Write(i, x))
        BY <3>1, InsertAtStep, AtStep
      <3> QED
        BY <3>2 DEF List!Next
    <2>3. CASE \E i \in Indices \intersect Nat : erase_at(i)
      BY <2>3, EraseAtStep DEF List!Next
    <2>4. CASE \E i \in {k \in Indices : Unchecked \/ k <= _size}, n \in Indices : erase_range(i, n)
      <3>1. PICK i \in Indices, n \in Indices : i <= _size /\ erase_range(i, n)
        BY <2>4
      <3>2. i \in Int /\ n \in Int
        BY IndicesAssumption
      <3>3. IInv' /\ Noticed /\ List!EraseRange(i, n)
        BY <3>1, <3>2, EraseRangeStep
      <3> QED
        BY <3>3 DEF List!Next
    <2>5. CASE \E xs \in Ranges : insert_range(xs)
      <3>1. PICK xs \in Ranges : insert_range(xs)
        BY <2>5
      <3>2. xs \in Seq(Values)
        <4>1. contents \in Seq(Values)
          BY ContentsOf DEF IInv
        <4>2. CASE xs = <<>> \/ xs = contents
          <5>1. <<>> \in Seq(Values)
            OBVIOUS
          <5> QED
            BY <4>1, <4>2, <5>1, Zenon
        <4>3. CASE xs \in {<<x>> : x \in Values}
          BY <4>3
        <4>4. CASE xs \in {<<x, x>> : x \in Values}
          <5>1. PICK x \in Values : xs = <<x, x>>
            BY <4>4
          <5>2. <<x, x>> \in Seq(Values)
            OBVIOUS
          <5> QED
            BY <5>1, <5>2
        <4> QED
          BY <4>2, <4>3, <4>4 DEF Ranges
      <3>3. IInv' /\ Noticed /\ List!InsertRange(xs) /\ Len(xs) \in 0 .. MaxCapacity
        BY <3>1, <3>2, InsertRangeStep
      <3>4. xs \in [1 .. Len(xs) -> Values]
        BY <3>2
      <3> QED
        BY <3>3, <3>4 DEF List!Next
    <2>6. CASE clear
      BY <2>6, ClearStep DEF List!Next
    <2>7. CASE \E i \in Indices \intersect Nat : try_get(i)
      BY <2>7, TryGetStep DEF List!Next
    <2>8. CASE \E x \in Values : index_of(x)
      BY <2>8, IndexOfStep DEF List!Next
    <2>9. CASE \E pred \in {Values, Values \ {Default}} : front_or_default(pred) \/ back_or_default(pred)
      <3>1. PICK pred \in SUBSET Values : front_or_default(pred) \/ back_or_default(pred)
        BY <2>9
      <3>2. IInv' /\ Noticed /\ (List!FrontOrDefault(pred) \/ List!BackOrDefault(pred))
        BY <3>1, FrontStep, BackStep
      <3> QED
        BY <3>2 DEF List!Next
    <2>10. CASE to_array
      <3>1. IInv' /\ Noticed /\ List!ToArray
        BY <2>10, ReadStep DEF to_array, List!ToArray
      <3> QED
        BY <3>1 DEF List!Next
    <2>11. CASE \E d \in Spans, i \in {k \in Indices : Unchecked \/ k >= 0} : copy_to(d, i)
      <3>1. PICK d \in Spans, i \in Indices : i >= 0 /\ copy_to(d, i)
        BY <2>11
      <3>2. d \in Nat /\ i \in Nat
        BY <3>1, IndicesAssumption
      <3>3. IInv' /\ Noticed /\ List!CopyTo(d, i)
        BY <3>1, <3>2, CopyToStep
      <3> QED
        BY <3>3 DEF List!Next
    <2> QED
      BY <1>2, <2>1, <2>2, <2>3, <2>4, <2>5, <2>6, <2>7, <2>8, <2>9, <2>10, <2>11 DEF Next
  <1> QED
    BY <1>1, <1>2

(* What the invariant says of references. *)
LEMMA Implied == IInv => TypeOK /\ NoStaleReferences
  <1> SUFFICES ASSUME IInv PROVE TypeOK /\ NoStaleReferences
    OBVIOUS
  <1>1. PICK n \in Nat : /\ n \in 0 .. MaxCapacity /\ _items \in [0 .. (n - 1) -> Values] /\ _size \in Nat /\ _size <= n
                         /\ Capacity(_items) = n
    BY Bounds DEF IInv
  <1>2. _items \in Array
    BY <1>1 DEF Array
  <1>3. _size \in 0 .. Capacity(_items)
    BY <1>1
  <1> QED
    BY <1>2, <1>3 DEF IInv, TypeOK, Holds, Clean, NoStaleReferences

(* The inductive invariant holds in every state. *)
LEMMA Invariance ==
  ASSUME ~Unchecked
  PROVE  Spec => []IInv
  <1>1. IInv /\ [Next]_vars => IInv'
    BY Steps
  <1> QED
    BY <1>1, Initially, PTL DEF Spec

(* The size never exceeds the array, which never exceeds its maximum, and  *)
(* every element is a value, whatever the operations that edit them.       *)
THEOREM TypeCorrect ==
  ASSUME ~Unchecked
  PROVE  Spec => []TypeOK
  <1> QED
    BY Invariance, Implied, PTL

(* What erase_at, erase_range and clear take out of a list of references   *)
(* is not left in the spare capacity, and growing the array puts nothing   *)
(* there.                                                                  *)
THEOREM ErasedAreReleased ==
  ASSUME ~Unchecked
  PROVE  Spec => []NoStaleReferences
  <1> QED
    BY Invariance, Implied, PTL

(* Every change of the elements but a write through at() changes           *)
(* _version, and an operation that throws leaves it alone.                 *)
THEOREM ChangesAreNoticed ==
  ASSUME ~Unchecked
  PROVE  Spec => VersionTracksContents
  <1>1. IInv /\ [Next]_vars => [Noticed]_vars
    BY Steps
  <1>2. Spec => [][Noticed]_vars
    BY <1>1, Invariance, PTL DEF Spec
  <1> QED
    BY <1>2 DEF VersionTracksContents, Noticed

(* The array edits of listw.hpp are the sequence operations of             *)
(* ManagedList, and its searches and copies answer what is in the          *)
(* sequence.                                                               *)
THEOREM Refinement ==
  ASSUME ~Unchecked
  PROVE  Spec => ImplementsManagedList
  <1>1. IInv /\ [Next]_vars => [List!Next]_(List!vars)
    BY Steps
  <1>2. Init => List!Init
    BY Initially
  <1> QED
    BY <1>1, <1>2, Invariance, PTL DEF Spec, ImplementsManagedList, List!Spec

================================================================================
