-------------------------- MODULE FindMethod_proofs ---------------------------
(***************************************************************************)
(* Proofs about FindMethod, for any class hierarchy, any queries and any   *)
(* number of threads.                                                      *)
(*                                                                         *)
(* Two facts about searches carry the proof.  A search that initializes    *)
(* the classes it visits, and stops at an exact match, finds what a search *)
(* of fully initialized classes would find (SearchIsComplete).  And        *)
(* queries with the same key have the same answer (KeysIdentify).  With    *)
(* them, "every entry is the answer to each query with its key" is         *)
(* inductive, though threads that miss at the same time both write.        *)
(*                                                                         *)
(* About what a search decides there are two results.  Climbs from         *)
(* grounded arguments end (GroundedAreAnswered).  And the best match is    *)
(* found (PlainMatchIsBest): param_distance is less for a class nearer to  *)
(* the argument (Nearer), weight adds the distances up (WeightSums), so    *)
(* the closer of two overloads is lighter (CloserIsLighter).  Chains, sums *)
(* and merges are recursive functions: that there is such a function, and  *)
(* what it computes, follows from the least place at which it would be     *)
(* wrong.                                                                  *)
(***************************************************************************)
EXTENDS FindMethod, SequenceTheorems, WellFoundedInduction, TLAPS

(* A set of naturals has a least element. *)
LEMMA Least ==
  ASSUME NEW S \in SUBSET Nat, S # {}
  PROVE  \E m \in S : \A n \in S : m <= n
  <1>1. PICK m \in S : \A n \in S : <<n, m>> \notin OpToRel(<, Nat)
    BY NatLessThanWellFounded, WFMin
  <1>2. ASSUME NEW n \in S, n < m
        PROVE  FALSE
    <2>1. <<n, m>> \in OpToRel(<, Nat)
      BY <1>2 DEF OpToRel
    <2> QED
      BY <1>1, <2>1
  <1> QED
    BY <1>2

(* s goes from c through its parents to one that has none. *)
IsChain(s, c) ==
  /\ s \in Seq(Classes) /\ s # <<>> /\ s[1] = c
  /\ \A i \in 1 .. (Len(s) - 1) : s[i + 1] = Parent[s[i]]
  /\ Parent[s[Len(s)]] = null

(* Null is not a class.                                                    *)
LEMMA NullIsNone == null \notin Classes
  BY ClassesAssumption

(* The parent of a class is a class, or there is none.                     *)
LEMMA ParentOf ==
  ASSUME NEW c \in Classes
  PROVE  Parent[c] \in Classes \union {null}
  BY HierarchyAssumption

(* A class without a parent is a chain by itself.                          *)
LEMMA ChainTop ==
  ASSUME NEW c \in Classes, Parent[c] = null
  PROVE  IsChain(<<c>>, c)
  BY DEF IsChain

(* A class before its parent's chain is a chain.                           *)
LEMMA ChainPrepended ==
  ASSUME NEW c \in Classes, NEW s, Parent[c] \in Classes, IsChain(s, Parent[c])
  PROVE  IsChain(<<c>> \o s, c)
  <1> DEFINE r == <<c>> \o s
  <1>1. s \in Seq(Classes) /\ Len(s) \in Nat /\ Len(s) > 0 /\ s[1] = Parent[c] /\ Parent[s[Len(s)]] = null
        /\ \A i \in 1 .. (Len(s) - 1) : s[i + 1] = Parent[s[i]]
    BY DEF IsChain
  <1>2. r \in Seq(Classes) /\ Len(r) = Len(s) + 1 /\ r[1] = c
    BY <1>1
  <1>3. \A i \in 2 .. Len(r) : r[i] = s[i - 1]
    BY <1>1, <1>2
  <1>4. r # <<>>
    BY <1>2, <1>1
  <1> HIDE DEF r
  <1>5. ASSUME NEW i \in 1 .. (Len(r) - 1) PROVE r[i + 1] = Parent[r[i]]
    <2>1. i + 1 \in 2 .. Len(r) /\ (i + 1) - 1 = i
      BY <1>1, <1>2
    <2>2. r[i + 1] = s[i]
      BY <1>3, <2>1
    <2>3. CASE i = 1
      BY <1>1, <1>2, <2>2, <2>3
    <2>4. CASE i # 1
      <3>1. i \in 2 .. Len(r) /\ i - 1 \in 1 .. (Len(s) - 1) /\ (i - 1) + 1 = i
        BY <1>1, <1>2, <2>4
      <3>2. r[i] = s[i - 1]
        BY <1>3, <3>1
      <3>3. s[i] = Parent[s[i - 1]]
        BY <1>1, <3>1
      <3> QED
        BY <2>2, <3>2, <3>3
    <2> QED
      BY <2>3, <2>4
  <1>6. Parent[r[Len(r)]] = null
    <2>1. Len(r) \in 2 .. Len(r) /\ Len(r) - 1 = Len(s)
      BY <1>1, <1>2
    <2>2. r[Len(r)] = s[Len(r) - 1]
      BY <1>3, <2>1
    <2> QED
      BY <1>1, <2>1, <2>2
  <1> QED
    BY <1>2, <1>4, <1>5, <1>6 DEF IsChain, r

(* What follows the first class of a chain is its parent's chain.          *)
LEMMA ChainRest ==
  ASSUME NEW c \in Classes, NEW s, IsChain(s, c), Parent[c] \in Classes
  PROVE  Len(s) > 1 /\ IsChain(Tail(s), Parent[c])
  <1>1. s \in Seq(Classes) /\ Len(s) \in Nat /\ Len(s) > 0 /\ s[1] = c /\ Parent[s[Len(s)]] = null
        /\ \A i \in 1 .. (Len(s) - 1) : s[i + 1] = Parent[s[i]]
    BY DEF IsChain
  <1>2. Len(s) > 1
    BY <1>1, NullIsNone
  <1>3. Tail(s) \in Seq(Classes) /\ Len(Tail(s)) = Len(s) - 1
    BY <1>1, <1>2
  <1>4. \A i \in 1 .. Len(Tail(s)) : Tail(s)[i] = s[i + 1]
    BY <1>1, <1>2, <1>3
  <1> DEFINE r == Tail(s)
  <1>r. r \in Seq(Classes) /\ Len(r) = Len(s) - 1 /\ \A i \in 1 .. Len(r) : r[i] = s[i + 1]
    BY <1>3, <1>4
  <1> HIDE DEF r
  <1>e. r # <<>>
    BY <1>1, <1>2, <1>r
  <1>5. r[1] = Parent[c]
    <2>1. 1 \in 1 .. Len(r) /\ 1 \in 1 .. (Len(s) - 1)
      BY <1>1, <1>2, <1>r
    <2>2. r[1] = s[1 + 1] /\ s[1 + 1] = Parent[s[1]]
      BY <1>1, <1>r, <2>1
    <2> QED
      BY <1>1, <2>2
  <1>6. ASSUME NEW i \in 1 .. (Len(r) - 1) PROVE r[i + 1] = Parent[r[i]]
    <2>1. i \in 1 .. Len(r) /\ i + 1 \in 1 .. Len(r) /\ i + 1 \in 1 .. (Len(s) - 1)
      BY <1>1, <1>r
    <2>2. r[i + 1] = s[(i + 1) + 1] /\ r[i] = s[i + 1] /\ s[(i + 1) + 1] = Parent[s[i + 1]]
      BY <1>1, <1>r, <2>1
    <2> QED
      BY <2>2
  <1>7. Parent[r[Len(r)]] = null
    <2>1. Len(r) \in 1 .. Len(r) /\ Len(r) + 1 = Len(s)
      BY <1>1, <1>2, <1>r
    <2>2. r[Len(r)] = s[Len(r) + 1]
      BY <1>r, <2>1
    <2> QED
      BY <1>1, <2>1, <2>2
  <1> QED
    BY <1>2, <1>5, <1>6, <1>7, <1>r, <1>e DEF IsChain, r

(* A class has at most one chain: no class is the last one, going up, of   *)
(* which this is false.                                                    *)
LEMMA ChainUnique ==
  ASSUME NEW c \in Classes, NEW s, NEW u, IsChain(s, c), IsChain(u, c)
  PROVE  s = u
  <1> DEFINE Several == {d \in Classes : \E v, w : IsChain(v, d) /\ IsChain(w, d) /\ v # w}
  <1> SUFFICES ASSUME Several # {} PROVE FALSE
    OBVIOUS
  <1>1. PICK d \in Several : Parent[d] \notin Several
    BY ParentsAssumption
  <1>2. PICK v, w : IsChain(v, d) /\ IsChain(w, d) /\ v # w
    OBVIOUS
  <1>3. d \in Classes /\ Parent[d] \in Classes \union {null}
    BY ParentOf
  <1>4. v \in Seq(Classes) /\ w \in Seq(Classes) /\ v[1] = d /\ w[1] = d /\ v # <<>> /\ w # <<>>
    BY <1>2 DEF IsChain
  <1>5. CASE Parent[d] = null
    <2>1. ASSUME NEW x, IsChain(x, d) PROVE x \in Seq(Classes) /\ Len(x) = 1 /\ x[1] = d
      <3>1. x \in Seq(Classes) /\ Len(x) \in Nat /\ Len(x) > 0 /\ x[1] = d
            /\ \A i \in 1 .. (Len(x) - 1) : x[i + 1] = Parent[x[i]]
        BY <2>1 DEF IsChain
      <3>2. ASSUME Len(x) > 1 PROVE FALSE
        <4>1. 1 \in 1 .. (Len(x) - 1) /\ 1 + 1 \in 1 .. Len(x)
          BY <3>1, <3>2
        <4>2. x[1 + 1] = Parent[x[1]]
          BY <3>1, <4>1
        <4>3. x[1 + 1] \in Classes
          BY <3>1, <4>1
        <4> QED
          BY <1>5, <3>1, <4>2, <4>3, NullIsNone
      <3>3. Len(x) = 1
        <4> DEFINE n == Len(x)
        <4>1. n \in Nat /\ n > 0 /\ ~(n > 1)
          BY <3>1, <3>2
        <4> HIDE DEF n
        <4>2. n = 1
          BY <4>1
        <4> QED
          BY <4>2 DEF n
      <3> QED
        BY <3>1, <3>3
    <2>2. v = w
      BY <1>2, <1>4, <2>1, SeqEqual
    <2> QED
      BY <1>2, <2>2
  <1>6. CASE Parent[d] \in Classes
    <2>1. IsChain(Tail(v), Parent[d]) /\ IsChain(Tail(w), Parent[d]) /\ Len(v) > 1 /\ Len(w) > 1
      BY <1>2, <1>3, <1>6, ChainRest
    <2>2. Tail(v) = Tail(w)
      BY <1>1, <1>6, <2>1
    <2>3. v = <<d>> \o Tail(v) /\ w = <<d>> \o Tail(w)
      <3>1. \A x \in Seq(Classes) : x # <<>> => x = <<Head(x)>> \o Tail(x)
        BY HeadTailProperties
      <3> QED
        BY <1>4, <3>1
    <2> QED
      BY <1>2, <2>2, <2>3
  <1> QED
    BY <1>3, <1>5, <1>6

(* A class has a chain, as parents end somewhere.                          *)
LEMMA ChainExists ==
  ASSUME NEW c \in Classes
  PROVE  \E s : IsChain(s, c)
  <1> DEFINE None == {d \in Classes : ~\E s : IsChain(s, d)}
  <1> SUFFICES ASSUME None # {} PROVE FALSE
    OBVIOUS
  <1>1. PICK d \in None : Parent[d] \notin None
    BY ParentsAssumption
  <1> QED
    BY <1>1, ParentOf, ChainTop, ChainPrepended

(* Chain is the function its recursive definition says.                    *)
LEMMA ChainEquation ==
  \A c \in Classes : Chain[null] = <<>> /\ Chain[c] = <<c>> \o Chain[Parent[c]]
  <1> DEFINE chain(c) == CHOOSE s : IsChain(s, c)
             F == [c \in Classes \union {null} |-> IF c = null THEN <<>> ELSE chain(c)]
  <1>1. ASSUME NEW c \in Classes PROVE IsChain(chain(c), c)
    BY ChainExists
  <1>2. ASSUME NEW c \in Classes PROVE chain(c) = <<c>> \o F[Parent[c]]
    <2>1. CASE Parent[c] = null
      <3>1. chain(c) = <<c>>
        BY <1>1, <2>1, ChainTop, ChainUnique
      <3>2. <<c>> \o <<>> = <<c>>
        OBVIOUS
      <3>3. F[Parent[c]] = <<>>
        BY <2>1
      <3> QED
        BY <3>1, <3>2, <3>3
    <2>2. CASE Parent[c] \in Classes
      <3>1. IsChain(<<c>> \o chain(Parent[c]), c)
        BY <1>1, <2>2, ChainPrepended
      <3>2. F[Parent[c]] = chain(Parent[c])
        BY <2>2, NullIsNone
      <3> HIDE DEF F, chain
      <3> QED
        BY <1>1, <3>1, <3>2, ChainUnique
    <2> QED
      BY <2>1, <2>2, ParentOf
  <1>3. F = [c \in Classes \union {null} |-> IF c = null THEN <<>> ELSE <<c>> \o F[Parent[c]]]
    <2> DEFINE G == [c \in Classes \union {null} |-> IF c = null THEN <<>> ELSE <<c>> \o F[Parent[c]]]
    <2>1. ASSUME NEW c \in Classes \union {null} PROVE F[c] = G[c]
      <3>1. CASE c = null
        BY <3>1
      <3>2. CASE c # null
        <4>1. F[c] = chain(c)
          BY <3>2
        <4>2. G[c] = <<c>> \o F[Parent[c]]
          BY <3>2
        <4> QED
          BY <1>2, <3>2, <4>1, <4>2
      <3> QED
        BY <3>1, <3>2
    <2>2. DOMAIN F = Classes \union {null} /\ DOMAIN G = Classes \union {null}
      OBVIOUS
    <2>3. F = [c \in DOMAIN F |-> F[c]] /\ G = [c \in DOMAIN G |-> G[c]]
      OBVIOUS
    <2> HIDE DEF F, G
    <2>4. F = G
      BY <2>1, <2>2, <2>3
    <2> QED
      BY <2>4 DEF G
  <1> HIDE DEF F
  <1>4. Chain = [c \in Classes \union {null} |-> IF c = null THEN <<>> ELSE <<c>> \o Chain[Parent[c]]]
    BY <1>3 DEF Chain
  <1> QED
    BY <1>4, NullIsNone

(* Chain[c] goes from c through its parents to the topmost.                *)
LEMMA ChainIs ==
  ASSUME NEW c \in Classes
  PROVE  IsChain(Chain[c], c)
  <1> DEFINE Wrong == {d \in Classes : ~IsChain(Chain[d], d)}
  <1> SUFFICES ASSUME Wrong # {} PROVE FALSE
    OBVIOUS
  <1>1. PICK d \in Wrong : Parent[d] \notin Wrong
    BY ParentsAssumption
  <1>2. Chain[d] = <<d>> \o Chain[Parent[d]] /\ Chain[null] = <<>>
    BY ChainEquation
  <1>3. CASE Parent[d] = null
    <2>1. <<d>> \o <<>> = <<d>>
      OBVIOUS
    <2> QED
      BY <1>2, <1>3, <2>1, ChainTop
  <1>4. CASE Parent[d] \in Classes
    BY <1>1, <1>2, <1>4, ChainPrepended
  <1> QED
    BY <1>3, <1>4, ParentOf

(* The chain of a class on a chain is the rest of it. *)
LEMMA ChainFrom ==
  ASSUME NEW c \in Classes, NEW i \in 1 .. Len(Chain[c])
  PROVE  /\ Chain[c][i] \in Classes
         /\ Len(Chain[Chain[c][i]]) = Len(Chain[c]) - i + 1
         /\ \A k \in 1 .. (Len(Chain[c]) - i + 1) : Chain[Chain[c][i]][k] = Chain[c][i + k - 1]
  <1> DEFINE s == Chain[c]
             r == SubSeq(s, i, Len(s))
  <1>1. s \in Seq(Classes) /\ Len(s) \in Nat /\ Len(s) > 0 /\ Parent[s[Len(s)]] = null
        /\ \A k \in 1 .. (Len(s) - 1) : s[k + 1] = Parent[s[k]]
    BY ChainIs DEF IsChain
  <1> HIDE DEF s
  <1>2. i \in 1 .. Len(s) /\ s[i] \in Classes
    BY <1>1 DEF s
  <1>3. r \in Seq(Classes) /\ Len(r) = Len(s) - i + 1 /\ \A k \in 1 .. (Len(s) - i + 1) : r[k] = s[i + k - 1]
    <2>1. r \in Seq(Classes)
      BY <1>1, <1>2, SubSeqProperties
    <2>2. Len(r) = Len(s) - i + 1 /\ \A k \in 1 .. Len(r) : r[k] = s[i + k - 1]
      BY <1>1, <1>2, SubSeqProperties
    <2> QED
      BY <2>1, <2>2
  <1>4. IsChain(r, s[i])
    <2> HIDE DEF r
    <2>1. r # <<>> /\ r[1] = s[i]
      BY <1>1, <1>2, <1>3
    <2>2. ASSUME NEW k \in 1 .. (Len(r) - 1) PROVE r[k + 1] = Parent[r[k]]
      <3>1. k \in 1 .. (Len(s) - i + 1) /\ k + 1 \in 1 .. (Len(s) - i + 1) /\ i + k - 1 \in 1 .. (Len(s) - 1)
        BY <1>1, <1>2, <1>3
      <3>2. r[k] = s[i + k - 1] /\ r[k + 1] = s[i + (k + 1) - 1] /\ s[(i + k - 1) + 1] = Parent[s[i + k - 1]]
        BY <1>1, <1>3, <3>1
      <3>3. i + (k + 1) - 1 = (i + k - 1) + 1
        BY <1>2
      <3> QED
        BY <3>2, <3>3
    <2>3. Parent[r[Len(r)]] = null
      <3>1. Len(r) \in 1 .. (Len(s) - i + 1) /\ i + Len(r) - 1 = Len(s)
        BY <1>1, <1>2, <1>3
      <3>2. r[Len(r)] = s[i + Len(r) - 1]
        BY <1>3, <3>1
      <3> QED
        BY <1>1, <3>1, <3>2
    <2> QED
      BY <1>3, <2>1, <2>2, <2>3 DEF IsChain
  <1>5. Chain[s[i]] = r
    BY <1>2, <1>4, ChainIs, ChainUnique
  <1> HIDE DEF r
  <1>6. Len(Chain[s[i]]) = Len(s) - i + 1 /\ \A k \in 1 .. (Len(s) - i + 1) : Chain[s[i]][k] = s[i + k - 1]
    BY <1>3, <1>5
  <1> QED
    BY <1>2, <1>6 DEF s

(* The elements of a sequence are those it has at some position.           *)
LEMMA ToSetIs ==
  ASSUME NEW S, NEW s \in Seq(S)
  PROVE  \A x : x \in ToSet(s) <=> \E k \in 1 .. Len(s) : s[k] = x
  BY DEF ToSet

(* A chain is a sequence of classes that starts with its class.            *)
LEMMA ChainTyped ==
  ASSUME NEW c \in Classes
  PROVE  Chain[c] \in Seq(Classes) /\ Len(Chain[c]) \in Nat /\ Len(Chain[c]) > 0 /\ Chain[c][1] = c
  BY ChainIs DEF IsChain

(* Above a class on a chain are the classes from it on.                    *)
LEMMA ChainSets ==
  ASSUME NEW c \in Classes, NEW i \in 1 .. Len(Chain[c])
  PROVE  \A x : x \in ToSet(Chain[Chain[c][i]]) <=> \E k \in i .. Len(Chain[c]) : Chain[c][k] = x
  <1> DEFINE n == Len(Chain[c])
             r == Chain[Chain[c][i]]
  <1>1. n \in Nat /\ Chain[c][i] \in Classes /\ Len(r) = n - i + 1 /\ r \in Seq(Classes)
        /\ \A k \in 1 .. (n - i + 1) : r[k] = Chain[c][i + k - 1]
    BY ChainFrom, ChainTyped
  <1> HIDE DEF n, r
  <1>i. i \in 1 .. n
    BY DEF n
  <1>2. ASSUME NEW x, x \in ToSet(r) PROVE \E k \in i .. n : Chain[c][k] = x
    <2>1. PICK k \in 1 .. Len(r) : r[k] = x
      BY <1>1, <1>2, ToSetIs
    <2>2. k \in 1 .. (n - i + 1) /\ i + k - 1 \in i .. n
      BY <1>1, <1>i
    <2> QED
      BY <1>1, <2>1, <2>2
  <1>3. ASSUME NEW x, NEW k \in i .. n, Chain[c][k] = x PROVE x \in ToSet(r)
    <2>1. k - i + 1 \in 1 .. (n - i + 1) /\ i + (k - i + 1) - 1 = k
      BY <1>1, <1>i
    <2>2. r[k - i + 1] = x
      BY <1>1, <1>3, <2>1
    <2>3. \E j \in 1 .. Len(r) : r[j] = x
      BY <1>1, <2>1, <2>2
    <2> QED
      BY <1>1, <2>3, ToSetIs
  <1> QED
    BY <1>2, <1>3 DEF n, r

(* No class is twice on a chain.                                           *)
LEMMA ChainDistinct ==
  ASSUME NEW c \in Classes, NEW i \in 1 .. Len(Chain[c]), NEW k \in 1 .. Len(Chain[c]), Chain[c][i] = Chain[c][k]
  PROVE  i = k
  <1>1. Len(Chain[Chain[c][i]]) = Len(Chain[c]) - i + 1 /\ Len(Chain[Chain[c][k]]) = Len(Chain[c]) - k + 1
    BY ChainFrom
  <1>2. Len(Chain[c]) \in Nat
    BY ChainTyped
  <1> QED
    BY <1>1, <1>2

(* A class without a parent is the last of a chain.                        *)
LEMMA TopIsLast ==
  ASSUME NEW c \in Classes, NEW i \in 1 .. Len(Chain[c]), Parent[Chain[c][i]] = null
  PROVE  i = Len(Chain[c])
  <1>1. Chain[c] \in Seq(Classes) /\ Len(Chain[c]) \in Nat /\ \A k \in 1 .. (Len(Chain[c]) - 1) : Chain[c][k + 1] = Parent[Chain[c][k]]
    BY ChainIs DEF IsChain
  <1> SUFFICES ASSUME i < Len(Chain[c]) PROVE FALSE
    BY <1>1
  <1>2. i \in 1 .. (Len(Chain[c]) - 1) /\ i + 1 \in 1 .. Len(Chain[c])
    BY <1>1
  <1>3. Chain[c][i + 1] = Parent[Chain[c][i]] /\ Chain[c][i + 1] \in Classes
    BY <1>1, <1>2
  <1> QED
    BY <1>3, NullIsNone

--------------------------------------------------------------------------------
(* The search order is a well-order: a set of places has a first one. *)
LEMMA FirstExists ==
  ASSUME NEW places \in SUBSET (Nat \X Nat), places # {}
  PROVE  /\ first(places) \in places
         /\ \A r \in places \ {first(places)} : before(first(places), r)
  <1> DEFINE Rows == {p[1] : p \in places}
  <1>1. PICK i \in Rows : \A n \in Rows : i <= n
    <2>1. Rows \in SUBSET Nat /\ Rows # {}
      OBVIOUS
    <2> HIDE DEF Rows
    <2> QED
      BY <2>1, Least
  <1> DEFINE Row == {p[2] : p \in {r \in places : r[1] = i}}
  <1>2. PICK j \in Row : \A n \in Row : j <= n
    <2>1. Row \in SUBSET Nat /\ Row # {}
      OBVIOUS
    <2> HIDE DEF Row
    <2> QED
      BY <2>1, Least
  <1>3. <<i, j>> \in places
    BY <1>2
  <1>4. ASSUME NEW r \in places, r # <<i, j>>
        PROVE  before(<<i, j>>, r)
    <2>1. r = <<r[1], r[2]>> /\ r[1] \in Nat /\ r[2] \in Nat /\ i \in Nat /\ j \in Nat
      OBVIOUS
    <2>2. i <= r[1]
      BY <1>1
    <2>3. r[1] = i => j <= r[2]
      BY <1>2
    <2> QED
      BY <2>1, <2>2, <2>3, <1>4 DEF before
  <1> QED
    BY <1>3, <1>4 DEF first

(* What candidates(c, S) consists of. *)
LEMMA InCandidates ==
  ASSUME NEW c, NEW S, NEW p
  PROVE  p \in candidates(c, S) <=>
           \E i \in DOMAIN Chain[c] :
             Chain[c][i] \in S /\ \E j \in DOMAIN Methods[Chain[c][i]] : p = <<i, j>>
  BY DEF candidates

(* Candidates are pairs of naturals and stand for methods. *)
LEMMA PlacesTyped ==
  ASSUME NEW c \in Classes, NEW S
  PROVE  /\ candidates(c, S) \in SUBSET (Nat \X Nat)
         /\ \A p \in candidates(c, S) :
              p[1] \in DOMAIN Chain[c] /\ Chain[c][p[1]] \in S /\ method_id(c, p) \in MethodIds
  <1>1. Chain[c] \in Seq(Classes)
    BY ChainTyped
  <1>2. ASSUME NEW p \in candidates(c, S)
        PROVE  /\ p \in Nat \X Nat /\ p[1] \in DOMAIN Chain[c] /\ Chain[c][p[1]] \in S
               /\ method_id(c, p) \in MethodIds
    <2>1. PICK i \in DOMAIN Chain[c] :
            /\ Chain[c][i] \in S
            /\ \E j \in DOMAIN Methods[Chain[c][i]] : p = <<i, j>>
      BY InCandidates
    <2>2. PICK j \in DOMAIN Methods[Chain[c][i]] : p = <<i, j>>
      BY <2>1
    <2>3. i \in Nat /\ Chain[c][i] \in Classes
      BY <1>1
    <2>4. j \in Nat
      BY <2>3, MethodsAssumption
    <2> QED
      BY <2>1, <2>2, <2>3, <2>4 DEF method_id, MethodIds
  <1> QED
    BY <1>2

(* A search finds a method or none. *)
LEMMA FindTyped ==
  ASSUME NEW q \in Queries, NEW S
  PROVE  find_among(candidates(q.klass, S), q) \in MethodIds \union {NoMethod}
  <1> DEFINE places == candidates(q.klass, S)
  <1>1. places \in SUBSET (Nat \X Nat) /\ \A p \in places : method_id(q.klass, p) \in MethodIds
    BY PlacesTyped, QueriesAssumption
  <1>2. matching(places, q, "exact") \subseteq places /\ lightest(places, q) \subseteq places
    BY DEF matching, lightest
  <1>3. ASSUME NEW T \in SUBSET places, T # {}
        PROVE  method_id(q.klass, first(T)) \in MethodIds
    BY <1>1, <1>3, FirstExists
  <1> HIDE DEF places
  <1>4. find_among(places, q) \in MethodIds \union {NoMethod}
    BY <1>2, <1>3 DEF find_among
  <1> QED
    BY <1>4 DEF places

(* A search that has initialized what it visits answers as if all classes  *)
(* were initialized: without an exact match it visits them all, and with   *)
(* one it visits all that come before it.                                  *)
LEMMA SearchIsComplete ==
  ASSUME NEW q \in Queries, NEW S \in SUBSET Classes
  PROVE  find_among(candidates(q.klass, S \union visited(q)), q) = find_method(q)
  <1> DEFINE all == Chain[q.klass]
             seen == candidates(q.klass, S \union visited(q))
             every == candidates(q.klass, Classes)
             hits == matching(every, q, "exact")
  <1>1. q.klass \in Classes /\ all \in Seq(Classes)
    BY QueriesAssumption, ChainTyped
  <1>2. seen \subseteq every
    BY <1>1 DEF candidates, visited
  <1>3. CASE hits = {}
    <2>1. \A i \in DOMAIN all : all[i] \in visited(q)
      BY <1>3 DEF visited
    <2>2. seen = every
      BY <1>1, <2>1 DEF candidates
    <2> QED
      BY <2>2 DEF find_method
  <1>4. CASE hits # {}
    <2>1. every \in SUBSET (Nat \X Nat)
      BY <1>1, PlacesTyped
    <2>2. hits \in SUBSET (Nat \X Nat) /\ hits \subseteq every
      BY <2>1 DEF matching
    <2> DEFINE p == first(hits)
    <2>3. p \in hits /\ \A r \in hits \ {p} : before(p, r)
      BY <1>4, <2>2, FirstExists
    <2>4. \A r \in hits : p[1] <= r[1]
      BY <2>2, <2>3 DEF before
    <2>5. p \in seen
      <3>1. p[1] \in DOMAIN all /\ all[p[1]] \in visited(q)
        BY <1>1, <2>2, <2>3, <2>4, PlacesTyped DEF visited
      <3>2. p \in every
        BY <2>2, <2>3
      <3> HIDE DEF p
      <3>3. PICK i \in DOMAIN all : \E j \in DOMAIN Methods[all[i]] : p = <<i, j>>
        BY <3>2, InCandidates
      <3>4. all[i] \in S \union visited(q)
        BY <3>1, <3>3
      <3> QED
        BY <3>3, <3>4, InCandidates
    <2> DEFINE found_hits == matching(seen, q, "exact")
    <2>6. p \in found_hits /\ found_hits \subseteq hits
      BY <1>2, <2>3, <2>5 DEF matching
    <2>7. first(found_hits) = p
      <3>1. /\ first(found_hits) \in found_hits
            /\ \A r \in found_hits \ {first(found_hits)} : before(first(found_hits), r)
        BY <2>2, <2>6, FirstExists
      <3>2. ASSUME first(found_hits) # p
            PROVE  before(p, first(found_hits)) /\ before(first(found_hits), p)
        BY <2>3, <2>6, <3>1, <3>2
      <3>3. first(found_hits) \in Nat \X Nat /\ p \in Nat \X Nat
        BY <2>2, <2>3, <2>6, <3>1
      <3> HIDE DEF p, found_hits
      <3>4. ~(before(p, first(found_hits)) /\ before(first(found_hits), p))
        BY <3>3 DEF before
      <3> QED
        BY <3>2, <3>4
    <2> QED
      BY <1>4, <2>6, <2>7 DEF find_among, find_method
  <1> QED
    BY <1>3, <1>4

(* A key says everything about a query that its answer depends on.  Names  *)
(* alone and names with an argument count share a cache, but not keys.     *)
LEMMA KeysIdentify ==
  ASSUME NEW q \in Queries, NEW r \in Queries, by_types(q) = by_types(r), key(q) = key(r)
  PROVE  find_method(q) = find_method(r)
  <1>1. q.kind = r.kind /\ q.klass = r.klass /\ q.name = r.name
    BY QueriesAssumption DEF key, by_types
  <1>2. /\ q.kind = "args" => q.args = r.args
        /\ q.kind = "types" => q.generics = r.generics /\ q.params = r.params
    BY <1>1, QueriesAssumption DEF key
  <1>3. \A m : matches(m, q) = matches(m, r)
    BY <1>1, <1>2, QueriesAssumption DEF matches
  <1> DEFINE every == candidates(q.klass, Classes)
  <1>4. \A match : matching(every, q, match) = matching(every, r, match)
    BY <1>1, <1>3 DEF matching
  <1>5. lightest(every, q) = lightest(every, r)
    <2>1. CASE q.kind = "types"
      BY <1>1, <1>2, <1>4, <2>1 DEF lightest
    <2>2. CASE q.kind # "types"
      <3>1. matching(every, q, "convertible") = {}
        BY <2>2, QueriesAssumption DEF matching, matches
      <3> QED
        BY <1>4, <3>1 DEF lightest
    <2> QED
      BY <2>1, <2>2
  <1> QED
    BY <1>1, <1>4, <1>5 DEF find_method, find_among

--------------------------------------------------------------------------------
(* Every entry answers each query it is an entry for. *)
Fresh(cache, types) ==
  \A q \in Queries :
    (by_types(q) = types /\ key(q) \in DOMAIN cache) => cache[key(q)] = find_method(q)

(* What a thread has found is the answer to its query, unless it is the    *)
(* one that dereferenced null.                                             *)
AnswerOK(t) ==
  /\ pc[t] # "idle" => query[t] \in Queries
  /\ pc[t] = "store" /\ ~crashed => found[t] = find_method(query[t])
  /\ pc[t] = "done" => found[t] = find_method(query[t])

IInv ==
  /\ TypeOK
  /\ Fresh(args_cache, FALSE) /\ Fresh(types_cache, TRUE)
  /\ \A t \in Threads : AnswerOK(t)

(* Nothing is cached or found at first. *)
LEMMA InitIInv == Init => IInv
  <1> SUFFICES ASSUME Init PROVE IInv
    OBVIOUS
  <1>1. DOMAIN args_cache = {} /\ DOMAIN types_cache = {}
    BY DEF Init
  <1>2. initialized \subseteq Classes
    BY ClassesAssumption DEF Init
  <1>3. pc = [t \in Threads |-> "idle"] /\ query = [t \in Threads |-> NoQuery]
        /\ found = [t \in Threads |-> NoMethod] /\ crashed = FALSE
    BY DEF Init
  <1>4. TypeOK
    BY <1>1, <1>2, <1>3 DEF TypeOK
  <1>5. Fresh(args_cache, FALSE) /\ Fresh(types_cache, TRUE)
    BY <1>1 DEF Fresh
  <1>6. \A t \in Threads : AnswerOK(t)
    BY <1>3 DEF AnswerOK
  <1> QED
    BY <1>4, <1>5, <1>6 DEF IInv

(* Writing the answer keeps a cache fresh and the entries it has. *)
LEMMA StoredFresh ==
  ASSUME NEW cache, NEW types \in BOOLEAN, Fresh(cache, types),
         NEW q \in Queries, by_types(q) = types
  PROVE  /\ Fresh(Stored(cache, q, find_method(q)), types)
         /\ DOMAIN Stored(cache, q, find_method(q)) = DOMAIN cache \union {key(q)}
         /\ \A k \in DOMAIN cache : Stored(cache, q, find_method(q))[k] = cache[k]
  BY KeysIdentify DEF Fresh, Stored

(* A hit is the answer, as entries are fresh. *)
LEMMA LookupStep ==
  ASSUME IInv, NEW t \in Threads, NEW q \in Queries, Lookup(t, q)
  PROVE  IInv'
  <1>1. TypeOK'
    BY DEF IInv, TypeOK, Lookup, Goto, caches, cache_of, by_types, AnswerOK
  <1>2. Fresh(args_cache, FALSE)' /\ Fresh(types_cache, TRUE)'
    BY DEF IInv, Fresh, Lookup, caches
  <1>3. \A u \in Threads : AnswerOK(u)'
    BY DEF IInv, TypeOK, AnswerOK, Fresh, Lookup, Goto, cache_of, by_types
  <1> QED
    BY <1>1, <1>2, <1>3 DEF IInv

(* A search ends with the answer. *)
LEMMA SearchStep ==
  ASSUME IInv, NEW t \in Threads, Search(t)
  PROVE  IInv'
  <1> DEFINE q == query[t]
             places == candidates(q.klass, initialized \union visited(q))
  <1>1. q \in Queries
    BY DEF IInv, AnswerOK, Search
  <1>2. find_among(places, q) \in MethodIds \union {NoMethod} /\ find_among(places, q) = find_method(q)
    BY <1>1, FindTyped, SearchIsComplete DEF IInv, TypeOK
  <1>3. visited(q) \subseteq Classes
    BY <1>1, QueriesAssumption, ChainTyped DEF visited
  <1>4. \/ crashed' /\ UNCHANGED found
        \/ found' = [found EXCEPT ![t] = find_method(q)] /\ UNCHANGED crashed
    BY <1>2 DEF Search
  <1> HIDE DEF q, places
  <1>5. TypeOK'
    BY <1>2, <1>3, <1>4 DEF IInv, TypeOK, Search, Goto, caches, q
  <1>6. Fresh(args_cache, FALSE)' /\ Fresh(types_cache, TRUE)'
    BY DEF IInv, Fresh, Search, caches
  <1>7. \A u \in Threads : AnswerOK(u)'
    BY <1>1, <1>4 DEF IInv, TypeOK, AnswerOK, Search, Goto, caches, q
  <1> QED
    BY <1>5, <1>6, <1>7 DEF IInv

(* A thread may store after another one did: it stores the same answer.    *)
LEMMA StoreStep ==
  ASSUME IInv, ~crashed, NEW t \in Threads, Store(t)
  PROVE  /\ IInv'
         /\ \A k \in DOMAIN args_cache : args_cache'[k] = args_cache[k]
         /\ \A k \in DOMAIN types_cache : types_cache'[k] = types_cache[k]
  <1> DEFINE q == query[t]
  <1>1. q \in Queries /\ found[t] = find_method(q) /\ by_types(q) \in BOOLEAN
    BY DEF IInv, AnswerOK, Store, by_types
  <1>2. find_method(q) \in MethodIds \union {NoMethod}
    BY <1>1 DEF IInv, TypeOK
  <1> DEFINE args == Stored(args_cache, q, find_method(q))
             types == Stored(types_cache, q, find_method(q))
  <1>3. ASSUME by_types(q)
        PROVE  /\ types_cache' = types /\ args_cache' = args_cache
               /\ Fresh(types, TRUE) /\ DOMAIN types = DOMAIN types_cache \union {key(q)}
               /\ \A k \in DOMAIN types_cache : types[k] = types_cache[k]
    <2>1. types_cache' = types /\ args_cache' = args_cache
      BY <1>1, <1>3 DEF Store
    <2> QED
      BY <2>1, <1>1, <1>3, StoredFresh DEF IInv
  <1>4. ASSUME ~by_types(q)
        PROVE  /\ args_cache' = args /\ types_cache' = types_cache
               /\ Fresh(args, FALSE) /\ DOMAIN args = DOMAIN args_cache \union {key(q)}
               /\ \A k \in DOMAIN args_cache : args[k] = args_cache[k]
    <2>1. args_cache' = args /\ types_cache' = types_cache
      BY <1>1, <1>4 DEF Store
    <2> QED
      BY <2>1, <1>1, <1>4, StoredFresh DEF IInv
  <1>5. key(q) \in Keys(by_types(q))
    BY <1>1 DEF Keys
  <1>6. \A k \in DOMAIN types : types[k] \in MethodIds \union {NoMethod}
    BY <1>2 DEF IInv, TypeOK, Stored
  <1>7. \A k \in DOMAIN args : args[k] \in MethodIds \union {NoMethod}
    BY <1>2 DEF IInv, TypeOK, Stored
  <1>8. /\ pc' = [pc EXCEPT ![t] = "done"]
        /\ UNCHANGED <<initialized, query, found, crashed>>
    BY DEF Store, Goto
  <1> HIDE DEF q, args, types
  <1>9. TypeOK'
    <2>1. DOMAIN args_cache' \subseteq Keys(FALSE) /\ DOMAIN types_cache' \subseteq Keys(TRUE)
      BY <1>1, <1>3, <1>4, <1>5 DEF IInv, TypeOK
    <2>2. /\ \A k \in DOMAIN args_cache' : args_cache'[k] \in MethodIds \union {NoMethod}
          /\ \A k \in DOMAIN types_cache' : types_cache'[k] \in MethodIds \union {NoMethod}
      BY <1>1, <1>3, <1>4, <1>6, <1>7 DEF IInv, TypeOK
    <2> QED
      BY <2>1, <2>2, <1>8 DEF IInv, TypeOK
  <1>10. Fresh(args_cache', FALSE) /\ Fresh(types_cache', TRUE)
    BY <1>1, <1>3, <1>4 DEF IInv
  <1>11. \A u \in Threads : AnswerOK(u)'
    BY <1>1, <1>8 DEF IInv, TypeOK, AnswerOK, q
  <1>12. Fresh(args_cache, FALSE)' /\ Fresh(types_cache, TRUE)'
    BY <1>10 DEF Fresh
  <1> QED
    BY <1>1, <1>3, <1>4, <1>9, <1>11, <1>12 DEF IInv

(* Returning keeps the caches. *)
LEMMA ReturnStep ==
  ASSUME IInv, NEW t \in Threads, Return(t)
  PROVE  IInv'
  <1>1. TypeOK'
    BY DEF IInv, TypeOK, Return, Goto, caches
  <1>2. Fresh(args_cache, FALSE)' /\ Fresh(types_cache, TRUE)'
    BY DEF IInv, Fresh, Return, caches
  <1>3. \A u \in Threads : AnswerOK(u)'
    BY DEF IInv, TypeOK, AnswerOK, Return, Goto
  <1> QED
    BY <1>1, <1>2, <1>3 DEF IInv

(* Initializing classes changes no answer. *)
LEMMA GameInitStep ==
  ASSUME IInv, NEW c \in Classes, GameInit(c)
  PROVE  IInv'
  <1>1. ToSet(Chain[c]) \subseteq Classes
    BY ChainTyped DEF ToSet
  <1>2. TypeOK'
    BY <1>1 DEF IInv, TypeOK, GameInit, caches
  <1>3. Fresh(args_cache, FALSE)' /\ Fresh(types_cache, TRUE)'
    BY DEF IInv, Fresh, GameInit, caches
  <1>4. \A u \in Threads : AnswerOK(u)'
    BY DEF IInv, AnswerOK, GameInit
  <1> QED
    BY <1>2, <1>3, <1>4 DEF IInv

(* Nothing changes. *)
LEMMA StutterStep ==
  ASSUME IInv, UNCHANGED vars
  PROVE  IInv'
  BY DEF IInv, TypeOK, Fresh, AnswerOK, vars

(* The invariant is inductive. *)
LEMMA Step == IInv /\ [Next]_vars => IInv'
  BY LookupStep, SearchStep, StoreStep, ReturnStep, GameInitStep, StutterStep DEF Next

--------------------------------------------------------------------------------
(* The inductive invariant holds in every reachable state. *)
THEOREM Invariance == Spec => []IInv
  BY InitIInv, Step, PTL DEF Spec

(* Caches only hold keys of their own kind of query, and methods or null. *)
THEOREM TypeCorrect == Spec => []TypeOK
  <1>1. IInv => TypeOK
    BY DEF IInv
  <1> QED
    BY <1>1, Invariance, PTL

(* find_method answers what a single thread would be answered in a fully   *)
(* initialized game, whatever was asked before and is asked meanwhile.     *)
THEOREM AnswersAreFresh == Spec => []FreshAnswers
  <1>1. IInv => FreshAnswers
    BY DEF IInv, AnswerOK, FreshAnswers
  <1> QED
    BY <1>1, Invariance, PTL

(* No entry of a cache is ever replaced by a different one. *)
THEOREM CachesAreFinal == Spec => EntriesAreFinal
  <1> DEFINE Kept == /\ \A k \in DOMAIN args_cache : args_cache'[k] = args_cache[k]
                     /\ \A k \in DOMAIN types_cache : types_cache'[k] = types_cache[k]
  <1>1. ASSUME IInv, Next
        PROVE  Kept
    <2>1. ASSUME NEW t \in Threads, Store(t)
          PROVE  Kept
      BY <1>1, <2>1, StoreStep DEF Next
    <2>2. UNCHANGED caches \/ \E t \in Threads : Store(t)
      BY <1>1 DEF Next, Lookup, Search, Return, GameInit
    <2> QED
      BY <2>1, <2>2 DEF caches
  <1>2. IInv /\ [Next]_vars => [Kept]_vars
    BY <1>1
  <1> QED
    BY <1>2, Invariance, PTL DEF Spec, EntriesAreFinal

--------------------------------------------------------------------------------
(* The classes of il2cpp: Object is above all and implements nothing,      *)
(* interfaces have no parents, and enums are sealed and not among the      *)
(* classes of their base types.                                            *)
CliClasses ==
  /\ Object \notin InterfaceTypes /\ Parent[Object] = null /\ Interfaces[Object] = <<>>
  /\ \A c \in InterfaceTypes : Parent[c] = null
  /\ \A c \in Classes : Interfaces[c] \in Seq(InterfaceTypes)
  /\ \A e \in Classes : EnumBase[e] # null =>
       /\ EnumBase[e] \notin InterfaceTypes
       /\ \A c \in Classes : class_is_assignable_from(c, e) => ~class_is_assignable_from(EnumBase[e], c)
       /\ \A c \in Classes \ {e} : ~class_is_assignable_from(e, c)

(* An argument of which the climb ends within its chain: derived from      *)
(* Object, or an interface that extends no other one.                      *)
Grounded(c) ==
  \/ c \in Classes /\ Object \in ToSet(Chain[c])
  \/ c \in InterfaceTypes /\ Interfaces[c] = <<>>

(* A class takes values of another one, converted to an enum or not.       *)
Convertible(to, from) ==
  \/ class_is_assignable_from(to, from)
  \/ EnumBase[to] # null /\ class_is_assignable_from(EnumBase[to], from)

(* The i-th class on the chain of c ends the climb towards mc.             *)
Stops(mc, c, i) == Chain[c][i] = mc \/ ~class_is_assignable_from(mc, Chain[c][i])

(* Nothing is above Object, nor any other class assignable from it.        *)
LEMMA ObjectIsLast ==
  ASSUME CliClasses
  PROVE  Object \in Classes /\ ToSet(Chain[Object]) = {Object} /\ \A c : class_is_assignable_from(c, Object) => c = Object
  <1>1. Object \in Classes
    BY ClassesAssumption
  <1>2. IsChain(<<Object>>, Object)
    BY <1>1, ChainTop DEF CliClasses
  <1>3. Chain[Object] = <<Object>>
    BY <1>1, <1>2, ChainIs, ChainUnique
  <1>4. ToSet(<<Object>>) = {Object} /\ ToSet(<<>>) = {}
    BY DEF ToSet
  <1> QED
    BY <1>1, <1>3, <1>4 DEF class_is_assignable_from, CliClasses

(* An interface is a chain by itself.                                      *)
LEMMA InterfaceAlone ==
  ASSUME CliClasses, NEW c \in InterfaceTypes
  PROVE  Chain[c] = <<c>> /\ ToSet(Chain[c]) = {c}
  <1>1. c \in Classes
    BY HierarchyAssumption
  <1>2. IsChain(<<c>>, c)
    BY <1>1, ChainTop DEF CliClasses
  <1>3. Chain[c] = <<c>>
    BY <1>1, <1>2, ChainIs, ChainUnique
  <1>4. ToSet(<<c>>) = {c}
    BY DEF ToSet
  <1> QED
    BY <1>3, <1>4

(* What a class is assignable to, those below it are.                      *)
LEMMA Upwards ==
  ASSUME NEW c \in Classes, NEW i \in 1 .. Len(Chain[c]), NEW k \in 1 .. i, NEW mc,
         class_is_assignable_from(mc, Chain[c][i])
  PROVE  class_is_assignable_from(mc, Chain[c][k])
  <1>1. Len(Chain[c]) \in Nat /\ k \in 1 .. Len(Chain[c]) /\ i \in k .. Len(Chain[c])
    BY ChainTyped
  <1>2. ToSet(Chain[Chain[c][i]]) \subseteq ToSet(Chain[Chain[c][k]])
    <2>1. \A x : x \in ToSet(Chain[Chain[c][i]]) => \E j \in i .. Len(Chain[c]) : Chain[c][j] = x
      BY ChainSets
    <2>2. \A j \in i .. Len(Chain[c]) : j \in k .. Len(Chain[c])
      BY <1>1
    <2>3. \A x : (\E j \in k .. Len(Chain[c]) : Chain[c][j] = x) => x \in ToSet(Chain[Chain[c][k]])
      BY <1>1, ChainSets
    <2> QED
      BY <2>1, <2>2, <2>3
  <1>3. Chain[c][i] \in ToSet(Chain[Chain[c][k]])
    BY <1>1, ChainSets
  <1> QED
    BY <1>2, <1>3 DEF class_is_assignable_from

(* climb ends at the first class on the chain that stops it.               *)
LEMMA ClimbEnds ==
  ASSUME NEW mc, NEW c \in Classes, NEW j \in 1 .. Len(Chain[c]), Stops(mc, c, j)
  PROVE  \E i \in 1 .. j :
           /\ Stops(mc, c, i) /\ \A k \in 1 .. (i - 1) : ~Stops(mc, c, k)
           /\ climb(mc, c).steps = i - 1 /\ climb(mc, c).end = Chain[c][i]
  <1> DEFINE chain == Chain[c]
             stops == {i \in DOMAIN chain : chain[i] = mc \/ ~class_is_assignable_from(mc, chain[i])}
  <1>1. chain \in Seq(Classes) /\ Len(chain) \in Nat /\ DOMAIN chain = 1 .. Len(chain)
    BY ChainTyped
  <1>2. j \in stops /\ stops \in SUBSET Nat
    BY <1>1 DEF Stops
  <1>3. climb(mc, c) = [steps |-> Min(stops) - 1, end |-> chain[Min(stops)]]
    <2>1. stops # {}
      BY <1>2
    <2> QED
      BY <2>1 DEF climb
  <1>4. Min(stops) \in stops /\ \A n \in stops : Min(stops) <= n
    <2> HIDE DEF stops
    <2>1. PICK m \in stops : \A n \in stops : m <= n
      BY <1>2, Least
    <2> QED
      BY <2>1 DEF Min
  <1>5. PICK i \in stops : i = Min(stops)
    BY <1>4
  <1>6. i \in 1 .. j
    <2>1. i \in 1 .. Len(chain)
      BY <1>1
    <2>2. i <= j
      <3> HIDE DEF stops
      <3> QED
        BY <1>2, <1>4, <1>5
    <2> HIDE DEF chain
    <2> QED
      BY <1>1, <2>1, <2>2
  <1>7. Stops(mc, c, i)
    BY DEF Stops
  <1>8. ASSUME NEW k \in 1 .. (i - 1) PROVE ~Stops(mc, c, k)
    <2>1. i \in 1 .. Len(chain) /\ Len(chain) \in Nat
      BY <1>1
    <2>2. k \in 1 .. Len(chain) /\ ~(i <= k)
      <3> HIDE DEF chain
      <3> QED
        BY <2>1
    <2>3. k \notin stops
      <3> HIDE DEF stops
      <3> QED
        BY <1>4, <1>5, <2>2
    <2> QED
      BY <1>1, <2>2, <2>3 DEF Stops
  <1>9. climb(mc, c).steps = i - 1 /\ climb(mc, c).end = Chain[c][i]
    <2> HIDE DEF stops
    <2> QED
      BY <1>3, <1>5
  <1> HIDE DEF stops
  <1> QED
    BY <1>6, <1>7, <1>8, <1>9

(* A grounded argument stops the climb: at Object at the latest, to which  *)
(* nothing else is assignable, or at the interface.                        *)
LEMMA GroundedStops ==
  ASSUME CliClasses, NEW mc, NEW c \in Classes, Grounded(c), mc # c, ~concrete_from_interface(mc, c)
  PROVE  \E j \in 1 .. Len(Chain[c]) : Stops(mc, c, j)
  <1>1. CASE Object \in ToSet(Chain[c])
    <2>1. PICK j \in 1 .. Len(Chain[c]) : Chain[c][j] = Object
      BY <1>1, ChainTyped, ToSetIs
    <2> QED
      BY <2>1, ObjectIsLast DEF Stops
  <1>2. CASE c \in InterfaceTypes /\ Interfaces[c] = <<>>
    <2>1. Chain[c] = <<c>> /\ ToSet(Chain[c]) = {c} /\ ToSet(Interfaces[c]) = {}
      BY <1>2, InterfaceAlone DEF ToSet
    <2>2. mc \in InterfaceTypes /\ mc # Object
      BY <1>2 DEF concrete_from_interface, CliClasses
    <2>3. ~class_is_assignable_from(mc, c)
      BY <2>1, <2>2 DEF class_is_assignable_from
    <2>4. Chain[c][1] = c /\ 1 \in 1 .. Len(Chain[c])
      BY ChainTyped
    <2> QED
      BY <2>3, <2>4 DEF Stops
  <1> QED
    BY <1>1, <1>2, NullIsNone DEF Grounded

(* Climbs from grounded arguments end at a class. *)
LEMMA ClimbStops ==
  ASSUME CliClasses, NEW mc, NEW c, Grounded(c)
  PROVE  ~dereferences_null(mc, c)
  <1> SUFFICES ASSUME dereferences_null(mc, c) PROVE FALSE
    OBVIOUS
  <1>1. c # null /\ mc # null /\ mc # c /\ ~concrete_from_interface(mc, c) /\ climb(mc, c).end = null
    BY DEF dereferences_null, unknown
  <1>2. c \in Classes
    BY HierarchyAssumption DEF Grounded
  <1>3. PICK j \in 1 .. Len(Chain[c]) : Stops(mc, c, j)
    BY <1>1, <1>2, GroundedStops
  <1>4. PICK i \in 1 .. j : climb(mc, c).end = Chain[c][i]
    BY <1>2, <1>3, ClimbEnds
  <1>5. Chain[c] \in Seq(Classes) /\ i \in 1 .. Len(Chain[c])
    BY <1>2, ChainTyped
  <1> QED
    BY <1>1, <1>4, <1>5, NullIsNone

(* A query knows the type of no argument. *)
NoneKnown(q) == \A i \in DOMAIN q.params : q.params[i] = NoType

(* The classes are those of il2cpp, and a query has either grounded        *)
(* arguments or unknown ones, not both.                                    *)
GroundedArguments ==
  /\ CliClasses
  /\ \A q \in Queries : by_types(q) =>
       \/ \A i \in DOMAIN q.params : q.params[i] # NoType /\ Grounded(q.params[i].class)
       \/ NoneKnown(q)

(* Where no type is known no parameter is compared: a match is exact, and  *)
(* is not weighed.                                                         *)
LEMMA UnknownUnweighed ==
  ASSUME NEW q, by_types(q), NoneKnown(q), NEW m
  PROVE  matches(m, q) # "convertible"
  <1>1. \A i \in DOMAIN q.params : skipped(m, i, q.params)
    BY DEF NoneKnown, skipped
  <1>2. {i \in DOMAIN q.params : ~skipped(m, i, q.params)} = {}
    BY <1>1
  <1>3. param_match(m, q.generics, q.params) \in {"none", "exact"}
    BY <1>2 DEF param_match
  <1> QED
    BY <1>3 DEF matches, by_types

(* Where arguments are grounded, param_distance never reads the interfaces *)
(* of null, and no unknown one is weighed: find_method answers, whatever   *)
(* overloads there are, however they are inherited and whichever classes   *)
(* are initialized.                                                        *)
THEOREM GroundedAreAnswered ==
  ASSUME GroundedArguments
  PROVE  Spec => []AlwaysAnswers
  <1>1. Init => AlwaysAnswers
    BY DEF Init, AlwaysAnswers
  <1>2. ASSUME IInv, AlwaysAnswers, Next PROVE AlwaysAnswers'
    <2>1. CASE UNCHANGED crashed
      BY <1>2, <2>1 DEF AlwaysAnswers
    <2>2. ASSUME NEW t \in Threads, Search(t) PROVE UNCHANGED crashed
      <3> DEFINE q == query[t]
                 places == candidates(q.klass, initialized \union visited(q))
      <3>1. q \in Queries
        BY <1>2, <2>2 DEF IInv, AnswerOK, Search
      <3>2. by_types(q) => ~crashes_among(places, q)
        <4> SUFFICES ASSUME by_types(q), crashes_among(places, q) PROVE FALSE
          OBVIOUS
        <4>1. PICK p \in matching(places, q, "convertible") :
                \E k \in DOMAIN q.params : reads_null(method(method_id(q.klass, p)).params[k], q.params[k])
          BY DEF crashes_among
        <4>2. ~NoneKnown(q)
          BY <4>1, UnknownUnweighed DEF matching
        <4> QED
          BY <3>1, <4>1, <4>2, ClimbStops DEF GroundedArguments, reads_null
      <3> QED
        BY <2>2, <3>2 DEF Search
    <2> QED
      BY <1>2, <2>1, <2>2 DEF Next, Lookup, Store, Return, GameInit
  <1>3. IInv /\ AlwaysAnswers /\ [Next]_vars => AlwaysAnswers'
    BY <1>2 DEF AlwaysAnswers, vars
  <1> QED
    BY <1>1, <1>3, Invariance, PTL DEF Spec

--------------------------------------------------------------------------------
(* A recursion that goes to smaller ranks is a function: H is one step of  *)
(* it, which uses values of smaller rank only.                             *)
Recursive(D, V, n, rank, H) ==
  /\ V # {} /\ n \in Nat /\ rank \in [D -> 0 .. n] /\ H \in [[D -> V] -> [D -> V]]
  /\ \A g, h \in [D -> V] : \A x \in D :
       (\A y \in D : rank[y] < rank[x] => g[y] = h[y]) => H[g][x] = H[h][x]

(* There is such a function: step n + 1 times from any function.           *)
LEMMA Recursion ==
  ASSUME NEW D, NEW V, NEW n, NEW rank, NEW H, Recursive(D, V, n, rank, H)
  PROVE  \E f \in [D -> V] : H[f] = f
  <1> USE DEF Recursive
  <1> DEFINE Fixed(g, k) == \A x \in D : rank[x] < k => H[g][x] = g[x]
             None == {k \in Nat : ~\E g \in [D -> V] : Fixed(g, k)}
  <1>0. \A x \in D : rank[x] \in Nat /\ rank[x] <= n
    OBVIOUS
  <1>1. None = {}
    <2> SUFFICES ASSUME None # {} PROVE FALSE
      OBVIOUS
    <2>1. PICK k \in None : \A j \in None : k <= j
      <3>1. None \in SUBSET Nat
        OBVIOUS
      <3> HIDE DEF None
      <3> QED
        BY <3>1, Least
    <2>2. k \in Nat /\ ~\E g \in [D -> V] : Fixed(g, k)
      OBVIOUS
    <2>3. k # 0
      <3>1. PICK v \in V : TRUE
        OBVIOUS
      <3>2. [x \in D |-> v] \in [D -> V]
        OBVIOUS
      <3>3. k = 0 => Fixed([x \in D |-> v], k)
        BY <1>0
      <3> HIDE DEF Fixed
      <3> QED
        BY <2>2, <3>2, <3>3
    <2>4. k - 1 \in Nat /\ ~(k <= k - 1)
      BY <2>2, <2>3
    <2>5. PICK g \in [D -> V] : Fixed(g, k - 1)
      BY <2>1, <2>4
    <2>6. H[g] \in [D -> V]
      OBVIOUS
    <2>7. Fixed(H[g], k)
      <3>1. ASSUME NEW x \in D, rank[x] < k PROVE H[H[g]][x] = H[g][x]
        <4>1. ASSUME NEW y \in D, rank[y] < rank[x] PROVE H[g][y] = g[y]
          <5>1. rank[y] < k - 1
            BY <1>0, <2>2, <3>1, <4>1
          <5> QED
            BY <2>5, <5>1
        <4> QED
          BY <2>6, <4>1
      <3> QED
        BY <3>1
    <2> HIDE DEF Fixed
    <2> QED
      BY <2>2, <2>6, <2>7
  <1>2. PICK g \in [D -> V] : Fixed(g, n + 1)
    <2>1. n + 1 \in Nat
      OBVIOUS
    <2> HIDE DEF Fixed
    <2> QED
      BY <1>1, <2>1
  <1>3. \A x \in D : H[g][x] = g[x]
    BY <1>0, <1>2
  <1>4. H[g] \in [D -> V]
    OBVIOUS
  <1>5. H[g] = g
    BY <1>3, <1>4
  <1> QED
    BY <1>5

(* A set of positions has a largest one.                                   *)
LEMMA LargestOf ==
  ASSUME NEW n \in Nat, NEW s \in SUBSET (1 .. n), s # {}
  PROVE  Max(s) \in s /\ \A i \in s : i <= Max(s)
  <1> DEFINE T == {n - i : i \in s}
  <1>1. T \in SUBSET Nat /\ T # {}
    <2>1. ASSUME NEW i \in s PROVE n - i \in Nat
      <3>1. i \in 1 .. n
        OBVIOUS
      <3> QED
        BY <3>1
    <2> QED
      BY <2>1
  <1> HIDE DEF T
  <1>2. PICK m \in T : \A k \in T : m <= k
    BY <1>1, Least
  <1>3. PICK x \in s : m = n - x
    BY <1>2 DEF T
  <1>4. \A i \in s : i <= x
    <2>1. ASSUME NEW i \in s PROVE i <= x
      <3>1. n - i \in T
        BY DEF T
      <3>2. i \in Nat /\ x \in Nat /\ n - x <= n - i
        BY <1>2, <1>3, <3>1
      <3> QED
        BY <3>2
    <2> QED
      BY <2>1
  <1> QED
    BY <1>3, <1>4 DEF Max

(* The weight is the sum of the distances.                                 *)
Adds(g, m, args, ids) ==
  /\ ids = [i \in DOMAIN args |-> i]
  /\ g = [s \in SUBSET (DOMAIN ids) |->
            IF s = {} THEN 0
            ELSE g[s \ {Max(s)}] + param_distance(m.params[ids[Max(s)]].class, args[ids[Max(s)]].class)]

(* weight is the sum that any function of FoldLeft's recursion computes.   *)
LEMMA WeightIs ==
  ASSUME NEW m, NEW args, NEW ids, NEW f, Adds(f, m, args, ids)
  PROVE  \E g : Adds(g, m, args, ids) /\ weight(m, args) = g[DOMAIN ids]
  <1> DEFINE seq == [i \in DOMAIN args |-> i]
             G == CHOOSE g : g = [s \in SUBSET (DOMAIN seq) |->
                                    IF s = {} THEN 0
                                    ELSE g[s \ {Max(s)}]
                                         + param_distance(m.params[seq[Max(s)]].class, args[seq[Max(s)]].class)]
  <1>0. ids = seq
    BY DEF Adds
  <1>1. weight(m, args) = G[DOMAIN ids]
    <2>1. weight(m, args) = G[DOMAIN seq]
      BY DEF weight, FoldLeft, MapThenFoldSet
    <2> HIDE DEF seq, G
    <2> QED
      BY <1>0, <2>1
  <1>2. Adds(G, m, args, ids)
    <2> HIDE DEF seq
    <2>1. \A g : Adds(g, m, args, seq) <=>
                  g = [s \in SUBSET (DOMAIN seq) |->
                                    IF s = {} THEN 0
                                    ELSE g[s \ {Max(s)}]
                                         + param_distance(m.params[seq[Max(s)]].class, args[seq[Max(s)]].class)]
      BY DEF Adds, seq
    <2> QED
      BY <1>0, <2>1
  <1> QED
    BY <1>1, <1>2

(* The partial sums of f. *)
Sums(sum, f, n) ==
  /\ n \in Nat /\ f \in [1 .. n -> Int] /\ sum \in [0 .. n -> Int]
  /\ sum[0] = 0 /\ \A k \in 1 .. n : sum[k] = sum[k - 1] + f[k]

(* The distances of m's parameters from the arguments. *)
Measured(m, args, n, f) ==
  /\ n \in Nat /\ DOMAIN args = 1 .. n /\ f \in [1 .. n -> Int]
  /\ \A i \in 1 .. n : f[i] = param_distance(m.params[i].class, args[i].class)

(* weight adds the distances up, parameter by parameter.                   *)
LEMMA WeightSums ==
  ASSUME NEW m, NEW args, NEW n, NEW dist, Measured(m, args, n, dist)
  PROVE  \E sum : Sums(sum, dist, n) /\ weight(m, args) = sum[n]
  <1> n \in Nat /\ DOMAIN args = 1 .. n
    BY DEF Measured
  <1> DEFINE d(i) == param_distance(m.params[i].class, args[i].class)
             D == SUBSET (1 .. n)
             Body(f) == [s \in D |-> IF s = {} THEN 0 ELSE f[s \ {Max(s)}] + d(Max(s))]
             rank == [s \in D |-> IF s = {} THEN 0 ELSE Max(s)]
             H == [f \in [D -> Int] |-> Body(f)]
  <1>0. \A i \in 1 .. n : d(i) \in Int /\ dist[i] = d(i)
    BY DEF Measured
  <1> HIDE DEF d
  <1>1. \A s \in D : s # {} => Max(s) \in s /\ Max(s) \in 1 .. n /\ s \ {Max(s)} \in D /\ \A i \in s : i <= Max(s)
    BY LargestOf
  <1>2. rank \in [D -> 0 .. n]
    BY <1>1
  <1>3. \A f \in [D -> Int] : Body(f) \in [D -> Int]
    BY <1>0, <1>1
  <1>4. H \in [[D -> Int] -> [D -> Int]]
    <2> HIDE DEF D, Body
    <2> QED
      BY <1>3
  <1>5. ASSUME NEW g \in [D -> Int], NEW h \in [D -> Int], NEW x \in D, \A y \in D : rank[y] < rank[x] => g[y] = h[y]
        PROVE  H[g][x] = H[h][x]
    <2>1. CASE x = {}
      BY <2>1
    <2>2. CASE x # {}
      <3> DEFINE y == x \ {Max(x)}
      <3>1. y \in D /\ rank[x] = Max(x) /\ Max(x) \in Nat /\ Max(x) > 0
        BY <1>1, <2>2
      <3>2. rank[y] < rank[x]
        <4>1. CASE y = {}
          BY <3>1, <4>1
        <4>2. CASE y # {}
          <5>1. rank[y] = Max(y) /\ Max(y) \in y
            BY <1>1, <3>1, <4>2
          <5>2. Max(y) # Max(x) /\ Max(y) \in x /\ Max(y) <= Max(x) /\ Max(y) \in 1 .. n
            BY <1>1, <2>2, <5>1
          <5> QED
            BY <3>1, <5>1, <5>2
        <4> QED
          BY <4>1, <4>2
      <3>3. g[y] = h[y]
        BY <1>5, <3>1, <3>2
      <3>4. H[g][x] = g[y] + d(Max(x)) /\ H[h][x] = h[y] + d(Max(x))
        BY <2>2
      <3> QED
        BY <3>3, <3>4
    <2> QED
      BY <2>1, <2>2
  <1>6. PICK f \in [D -> Int] : H[f] = f
    <2>1. \A g, h \in [D -> Int] : \A x \in D : (\A y \in D : rank[y] < rank[x] => g[y] = h[y]) => H[g][x] = H[h][x]
      <3> HIDE DEF D, H, rank
      <3> QED
        BY <1>5
    <2>2. Recursive(D, Int, n, rank, H)
      <3>1. Int # {} /\ n \in Nat
        OBVIOUS
      <3> HIDE DEF D, H, rank
      <3> QED
        BY <1>2, <1>4, <2>1, <3>1 DEF Recursive
    <2> HIDE DEF D, H, rank
    <2> QED
      BY <2>2, Recursion
  <1>7. f = Body(f)
    BY <1>6
  <1>8. \E g : g = Body(g) /\ weight(m, args) = g[1 .. n]
    <2>0. PICK ids : ids = [i \in DOMAIN args |-> i]
      OBVIOUS
    <2> DEFINE Fold(g) == [s \in SUBSET (DOMAIN ids) |->
                             IF s = {} THEN 0
                             ELSE g[s \ {Max(s)}]
                                  + param_distance(m.params[ids[Max(s)]].class, args[ids[Max(s)]].class)]
    <2>1. DOMAIN ids = 1 .. n /\ \A i \in 1 .. n : ids[i] = i
      BY <2>0
    <2>2. ASSUME NEW g PROVE Fold(g) = Body(g)
      <3>1. \A s \in D : Fold(g)[s] = Body(g)[s]
        BY <1>1, <2>1 DEF d
      <3>2. DOMAIN Fold(g) = D /\ DOMAIN Body(g) = D
        BY <2>1
      <3>3. Fold(g) = [s \in DOMAIN Fold(g) |-> Fold(g)[s]] /\ Body(g) = [s \in DOMAIN Body(g) |-> Body(g)[s]]
        OBVIOUS
      <3> HIDE DEF Fold, Body, D
      <3> QED
        BY <3>1, <3>2, <3>3
    <2>3. f = Fold(f)
      <3> HIDE DEF Fold, Body
      <3> QED
        BY <1>7, <2>2
    <2>4. \E g : g = Fold(g) /\ weight(m, args) = g[DOMAIN ids]
      <3>2. \A g : g = Fold(g) <=> Adds(g, m, args, ids)
        BY <2>0 DEF Adds
      <3> HIDE DEF Fold
      <3>3. Adds(f, m, args, ids)
        BY <2>3, <3>2
      <3>4. \E g : Adds(g, m, args, ids) /\ weight(m, args) = g[DOMAIN ids]
        BY <3>3, WeightIs
      <3> QED
        BY <3>2, <3>4
    <2> HIDE DEF Fold, Body
    <2> QED
      BY <2>1, <2>2, <2>4
  <1>9. PICK g : g = Body(g) /\ weight(m, args) = g[1 .. n]
    BY <1>8
  <1>10. \A s \in D : g[s] = IF s = {} THEN 0 ELSE g[s \ {Max(s)}] + d(Max(s))
    <2> HIDE DEF D
    <2> QED
      BY <1>9
  <1> DEFINE sum == [k \in 0 .. n |-> g[1 .. k]]
  <1>11. sum[0] = 0
    <2>1. 1 .. 0 = {} /\ 1 .. 0 \in D
      OBVIOUS
    <2>2. g[{}] = 0
      BY <1>10, <2>1
    <2> QED
      BY <2>1, <2>2
  <1>12. ASSUME NEW k \in 1 .. n PROVE sum[k] = sum[k - 1] + d(k)
    <2>1. 1 .. k \in D /\ 1 .. k # {} /\ k \in 1 .. k
      OBVIOUS
    <2>2. Max(1 .. k) = k
      <3>1. Max(1 .. k) \in 1 .. k /\ k <= Max(1 .. k)
        BY <1>1, <2>1
      <3> QED
        BY <3>1
    <2>3. (1 .. k) \ {k} = 1 .. (k - 1)
      OBVIOUS
    <2>4. g[1 .. k] = g[1 .. (k - 1)] + d(k)
      BY <1>10, <2>1, <2>2, <2>3
    <2>5. k \in 0 .. n /\ k - 1 \in 0 .. n
      OBVIOUS
    <2> HIDE DEF D
    <2> QED
      BY <2>4, <2>5
  <1>13. sum \in [0 .. n -> Int]
    <2> DEFINE Wrong == {k \in 0 .. n : sum[k] \notin Int}
    <2>0. sum = [k \in 0 .. n |-> sum[k]]
      OBVIOUS
    <2> HIDE DEF sum
    <2>1. Wrong = {}
      <3> SUFFICES ASSUME Wrong # {} PROVE FALSE
        OBVIOUS
      <3>1. PICK k \in Wrong : \A j \in Wrong : k <= j
        <4>1. Wrong \in SUBSET Nat
          OBVIOUS
        <4> HIDE DEF Wrong
        <4> QED
          BY <4>1, Least
      <3>2. k # 0
        BY <1>11
      <3>3. k - 1 \in 0 .. n /\ ~(k <= k - 1) /\ k \in 1 .. n
        BY <3>2
      <3>4. sum[k - 1] \in Int
        BY <3>1, <3>3
      <3>5. sum[k] = sum[k - 1] + d(k) /\ d(k) \in Int
        BY <1>0, <1>12, <3>3
      <3> QED
        BY <3>4, <3>5
    <2>2. \A k \in 0 .. n : sum[k] \in Int
      BY <2>1
    <2> QED
      BY <2>0, <2>2
  <1>14. weight(m, args) = sum[n]
    <2>1. n \in 0 .. n
      OBVIOUS
    <2> QED
      BY <1>9, <2>1
  <1> HIDE DEF sum
  <1>15. Sums(sum, dist, n)
    <2>1. dist \in [1 .. n -> Int]
      BY DEF Measured
    <2> QED
      BY <1>0, <1>11, <1>12, <1>13, <2>1 DEF Sums
  <1> QED
    BY <1>14, <1>15

(* The merge counts upwards from the ends of the sequences. *)
Merges(g, s, t) ==
  g = [p \in (1 .. Len(s) + 1) \X (1 .. Len(t) + 1) |->
         IF p[1] > Len(s) \/ p[2] > Len(t) THEN 0
         ELSE IF s[p[1]] < t[p[2]] THEN g[<<p[1] + 1, p[2]>>]
         ELSE IF s[p[1]] > t[p[2]] THEN g[<<p[1], p[2] + 1>>]
         ELSE 1 + g[<<p[1] + 1, p[2] + 1>>]]

(* common is what some function of the merge answers at the start.         *)
LEMMA CommonIs ==
  ASSUME NEW s, NEW t, NEW f, Merges(f, s, t)
  PROVE  \E g : Merges(g, s, t) /\ common(s, t) = g[<<1, 1>>]
  <1> DEFINE G == CHOOSE g : Merges(g, s, t)
  <1>1. common(s, t) = G[<<1, 1>>]
    BY DEF common, Merges
  <1> QED
    BY <1>1

(* Nothing is common with nothing. *)
LEMMA CommonEmpty ==
  ASSUME NEW s, NEW t, Len(s) = 0, Len(t) \in Nat
  PROVE  common(s, t) = 0
  <1> DEFINE D == (1 .. Len(s) + 1) \X (1 .. Len(t) + 1)
             f == [p \in D |-> 0]
  <1>1. \A p \in D : p[1] > Len(s)
    OBVIOUS
  <1>2. Merges(f, s, t)
    BY <1>1 DEF Merges
  <1> HIDE DEF f
  <1>3. PICK g : Merges(g, s, t) /\ common(s, t) = g[<<1, 1>>]
    BY <1>2, CommonIs
  <1>4. <<1, 1>> \in D /\ <<1, 1>>[1] > Len(s)
    OBVIOUS
  <1>5. g[<<1, 1>>] = 0
    BY <1>3, <1>4 DEF Merges
  <1> QED
    BY <1>3, <1>5

(* common counts: it is a natural number.                                  *)
LEMMA CommonCounts ==
  ASSUME NEW s \in Seq(Nat), NEW t \in Seq(Nat)
  PROVE  common(s, t) \in Nat
  <1> DEFINE a == Len(s)
             b == Len(t)
             D == (1 .. a + 1) \X (1 .. b + 1)
             rank == [p \in D |-> (a + 1 - p[1]) + (b + 1 - p[2])]
             Body(g, p) == IF p[1] > a \/ p[2] > b THEN 0
                           ELSE IF s[p[1]] < t[p[2]] THEN g[<<p[1] + 1, p[2]>>]
                           ELSE IF s[p[1]] > t[p[2]] THEN g[<<p[1], p[2] + 1>>]
                           ELSE 1 + g[<<p[1] + 1, p[2] + 1>>]
             H == [g \in [D -> Nat] |-> [p \in D |-> Body(g, p)]]
  <1>0. a \in Nat /\ b \in Nat
    OBVIOUS
  <1> HIDE DEF a, b
  <1>1. ASSUME NEW p \in D
        PROVE  /\ p = <<p[1], p[2]>> /\ p[1] \in 1 .. a + 1 /\ p[2] \in 1 .. b + 1
               /\ rank[p] = (a + 1 - p[1]) + (b + 1 - p[2])
    OBVIOUS
  <1>2. \A i \in 1 .. a + 1, j \in 1 .. b + 1 : <<i, j>> \in D /\ rank[<<i, j>>] = (a + 1 - i) + (b + 1 - j)
    OBVIOUS
  <1> HIDE DEF rank
  <1>3. ASSUME NEW p \in D, ~(p[1] > a \/ p[2] > b)
        PROVE  /\ <<p[1] + 1, p[2]>> \in D /\ rank[<<p[1] + 1, p[2]>>] < rank[p]
               /\ <<p[1], p[2] + 1>> \in D /\ rank[<<p[1], p[2] + 1>>] < rank[p]
               /\ <<p[1] + 1, p[2] + 1>> \in D /\ rank[<<p[1] + 1, p[2] + 1>>] < rank[p]
    <2>1. p[1] \in 1 .. a /\ p[2] \in 1 .. b /\ p[1] + 1 \in 1 .. a + 1 /\ p[2] + 1 \in 1 .. b + 1
      BY <1>0, <1>1, <1>3
    <2>2. /\ p[1] \in Int /\ p[2] \in Int /\ rank[p] = (a + 1 - p[1]) + (b + 1 - p[2])
      BY <1>1
    <2>3. /\ rank[<<p[1] + 1, p[2]>>] = (a + 1 - (p[1] + 1)) + (b + 1 - p[2])
          /\ rank[<<p[1], p[2] + 1>>] = (a + 1 - p[1]) + (b + 1 - (p[2] + 1))
          /\ rank[<<p[1] + 1, p[2] + 1>>] = (a + 1 - (p[1] + 1)) + (b + 1 - (p[2] + 1))
      BY <1>1, <1>2, <2>1
    <2>4. <<p[1] + 1, p[2]>> \in D /\ <<p[1], p[2] + 1>> \in D /\ <<p[1] + 1, p[2] + 1>> \in D
      BY <1>1, <1>2, <2>1
    <2> HIDE DEF D
    <2>5. \A i, j \in Int : /\ (a + 1 - (i + 1)) + (b + 1 - j) < (a + 1 - i) + (b + 1 - j)
                            /\ (a + 1 - i) + (b + 1 - (j + 1)) < (a + 1 - i) + (b + 1 - j)
                            /\ (a + 1 - (i + 1)) + (b + 1 - (j + 1)) < (a + 1 - i) + (b + 1 - j)
      BY <1>0
    <2> QED
      BY <2>2, <2>3, <2>4, <2>5
  <1>4. rank \in [D -> 0 .. (a + b)]
    <2>1. \A p \in D : rank[p] \in 0 .. (a + b)
      BY <1>0, <1>1
    <2> QED
      BY <2>1 DEF rank
  <1>r. ASSUME NEW p \in D PROVE rank[p] \in Nat
    <2>1. p[1] \in 1 .. a + 1 /\ p[2] \in 1 .. b + 1 /\ rank[p] = (a + 1 - p[1]) + (b + 1 - p[2])
      BY <1>1
    <2> QED
      BY <1>0, <2>1
  <1>5. ASSUME NEW g \in [D -> Nat], NEW p \in D PROVE Body(g, p) \in Nat
    <2>1. CASE p[1] > a \/ p[2] > b
      BY <2>1
    <2>2. CASE ~(p[1] > a \/ p[2] > b)
      <3>1. g[<<p[1] + 1, p[2]>>] \in Nat /\ g[<<p[1], p[2] + 1>>] \in Nat /\ g[<<p[1] + 1, p[2] + 1>>] \in Nat
        <4> HIDE DEF D
        <4> QED
          BY <1>3, <2>2
      <3> QED
        BY <2>2, <3>1
    <2> QED
      BY <2>1, <2>2
  <1>6. H \in [[D -> Nat] -> [D -> Nat]]
    <2>1. \A g \in [D -> Nat] : [p \in D |-> Body(g, p)] \in [D -> Nat]
      <3> HIDE DEF D, Body
      <3> QED
        BY <1>5
    <2> HIDE DEF D, Body
    <2> QED
      BY <2>1
  <1>7. ASSUME NEW g, NEW h, NEW p \in D, \A q \in D : rank[q] < rank[p] => g[q] = h[q]
        PROVE  Body(g, p) = Body(h, p)
    <2>1. CASE p[1] > a \/ p[2] > b
      BY <2>1
    <2>2. CASE ~(p[1] > a \/ p[2] > b)
      <3>1. /\ g[<<p[1] + 1, p[2]>>] = h[<<p[1] + 1, p[2]>>] /\ g[<<p[1], p[2] + 1>>] = h[<<p[1], p[2] + 1>>]
            /\ g[<<p[1] + 1, p[2] + 1>>] = h[<<p[1] + 1, p[2] + 1>>]
        <4> HIDE DEF D
        <4> QED
          BY <1>3, <1>7, <2>2
      <3> QED
        BY <2>2, <3>1
    <2> QED
      BY <2>1, <2>2
  <1> HIDE DEF Body
  <1>8. Recursive(D, Nat, a + b, rank, H)
    <2>0. Nat # {}
      OBVIOUS
    <2>1. a + b \in Nat
      BY <1>0
    <2>2. \A g, h \in [D -> Nat] : \A p \in D : (\A q \in D : rank[q] < rank[p] => g[q] = h[q]) => H[g][p] = H[h][p]
      <3>1. \A g \in [D -> Nat] : \A p \in D : H[g][p] = Body(g, p)
        OBVIOUS
      <3> HIDE DEF D, H
      <3> QED
        BY <1>7, <3>1
    <2> HIDE DEF D, H
    <2> QED
      BY <1>4, <1>6, <2>0, <2>1, <2>2 DEF Recursive
  <1>9. PICK f \in [D -> Nat] : H[f] = f
    <2> HIDE DEF D, H
    <2> QED
      BY <1>8, Recursion
  <1>10. \A g : Merges(g, s, t) <=> g = [p \in D |-> Body(g, p)]
    BY DEF Merges, Body, a, b
  <1>11. Merges(f, s, t)
    BY <1>9, <1>10
  <1>12. PICK g : Merges(g, s, t) /\ common(s, t) = g[<<1, 1>>]
    BY <1>11, CommonIs
  <1> DEFINE Wrong == {n \in Nat : \E p \in D : rank[p] = n /\ g[p] \notin Nat}
  <1>13. Wrong = {}
    <2> SUFFICES ASSUME Wrong # {} PROVE FALSE
      OBVIOUS
    <2>1. PICK n \in Wrong : \A k \in Wrong : n <= k
      <3>1. Wrong \in SUBSET Nat
        OBVIOUS
      <3> HIDE DEF Wrong
      <3> QED
        BY <3>1, Least
    <2>2. PICK p \in D : rank[p] = n /\ g[p] \notin Nat
      BY <2>1
    <2>3. ASSUME NEW q \in D, rank[q] < rank[p] PROVE g[q] \in Nat
      <3>1. rank[q] \in Nat /\ ~(n <= rank[q]) /\ n \in Nat
        BY <1>r, <2>2, <2>3
      <3> HIDE DEF D
      <3> QED
        BY <2>1, <3>1
    <2> DEFINE h == [q \in D |-> IF g[q] \in Nat THEN g[q] ELSE 0]
    <2>4. h \in [D -> Nat] /\ \A q \in D : rank[q] < rank[p] => g[q] = h[q]
      <3> HIDE DEF D
      <3> QED
        BY <2>3
    <2> HIDE DEF h
    <2>5. Body(g, p) = Body(h, p) /\ Body(h, p) \in Nat
      <3> HIDE DEF D
      <3> QED
        BY <1>5, <1>7, <2>4
    <2>6. g[p] = Body(g, p)
      <3> HIDE DEF D
      <3> QED
        BY <1>10, <1>12
    <2> QED
      BY <2>2, <2>5, <2>6
  <1>14. <<1, 1>> \in D /\ rank[<<1, 1>>] \in Nat
    BY <1>0, <1>2
  <1> HIDE DEF D
  <1> QED
    BY <1>12, <1>13, <1>14

--------------------------------------------------------------------------------
(* The cases of param_distance.                                            *)
LEMMA DistanceIs ==
  ASSUME NEW mc \in Classes, NEW c \in Classes
  PROVE  /\ mc = c => param_distance(mc, c) = 0
         /\ mc # c /\ concrete_from_interface(mc, c) => param_distance(mc, c) = 1000
         /\ mc # c /\ ~concrete_from_interface(mc, c) =>
              param_distance(mc, c) = (IF mc \in InterfaceTypes THEN 5 ELSE 0) + climb(mc, c).steps
                                      - common(Interfaces[mc], Interfaces[climb(mc, c).end])
  <1>1. ~unknown(mc, c)
    BY NullIsNone DEF unknown
  <1>2. mc = c => param_distance(mc, c) = 0
    BY <1>1 DEF param_distance
  <1>3. mc # c /\ concrete_from_interface(mc, c) => param_distance(mc, c) = 1000
    BY <1>1 DEF param_distance
  <1>4. mc # c /\ ~concrete_from_interface(mc, c) =>
              param_distance(mc, c) = (IF mc \in InterfaceTypes THEN 5 ELSE 0) + climb(mc, c).steps
                                      - common(Interfaces[mc], Interfaces[climb(mc, c).end])
    BY <1>1 DEF param_distance
  <1> QED
    BY <1>2, <1>3, <1>4

(* Interfaces are addresses.                                               *)
LEMMA InterfacesTyped ==
  ASSUME CliClasses, NEW c \in Classes
  PROVE  Interfaces[c] \in Seq(Nat)
  <1>1. Interfaces[c] \in Seq(InterfaceTypes) /\ InterfaceTypes \subseteq Nat
    BY HierarchyAssumption, ClassesAssumption DEF CliClasses
  <1> QED
    BY <1>1, SeqMonotonic

(* The distance of a class from an argument, which a climb decides. *)
LEMMA DistanceClimbed ==
  ASSUME CliClasses, NEW mc \in Classes, NEW c \in Classes, mc # c, ~concrete_from_interface(mc, c),
         NEW j \in 1 .. Len(Chain[c]), Stops(mc, c, j)
  PROVE  \E i \in 1 .. j, n \in Nat :
           /\ Stops(mc, c, i) /\ \A k \in 1 .. (i - 1) : ~Stops(mc, c, k)
           /\ param_distance(mc, c) = (IF mc \in InterfaceTypes THEN 5 ELSE 0) + (i - 1) - n
           /\ Interfaces[mc] = <<>> => n = 0
  <1>1. PICK i \in 1 .. j : /\ Stops(mc, c, i) /\ \A k \in 1 .. (i - 1) : ~Stops(mc, c, k)
                            /\ climb(mc, c).steps = i - 1 /\ climb(mc, c).end = Chain[c][i]
    BY ClimbEnds
  <1>2. Chain[c][i] \in Classes
    <2>1. Chain[c] \in Seq(Classes) /\ Len(Chain[c]) \in Nat
      BY ChainTyped
    <2>2. i \in 1 .. Len(Chain[c])
      BY <2>1
    <2> QED
      BY <2>1, <2>2
  <1> DEFINE n == common(Interfaces[mc], Interfaces[Chain[c][i]])
  <1>3. n \in Nat
    BY <1>2, InterfacesTyped, CommonCounts
  <1>4. Interfaces[mc] = <<>> => n = 0
    <2> SUFFICES ASSUME Interfaces[mc] = <<>> PROVE n = 0
      OBVIOUS
    <2>1. Len(Interfaces[mc]) = 0
      OBVIOUS
    <2>2. Len(Interfaces[Chain[c][i]]) \in Nat
      BY <1>2, InterfacesTyped
    <2> QED
      BY <2>1, <2>2, CommonEmpty
  <1>5. param_distance(mc, c) = (IF mc \in InterfaceTypes THEN 5 ELSE 0) + (i - 1) - n
    BY <1>1, DistanceIs
  <1> HIDE DEF n
  <1> QED
    BY <1>1, <1>3, <1>4, <1>5

(* The distance from a grounded argument is an integer.                    *)
LEMMA DistanceTyped ==
  ASSUME CliClasses, NEW mc \in Classes, NEW c \in Classes, Grounded(c)
  PROVE  param_distance(mc, c) \in Int
  <1>1. CASE mc = c
    BY <1>1, DistanceIs
  <1>2. CASE mc # c /\ concrete_from_interface(mc, c)
    BY <1>2, DistanceIs
  <1>3. CASE mc # c /\ ~concrete_from_interface(mc, c)
    <2>1. PICK j \in 1 .. Len(Chain[c]) : Stops(mc, c, j)
      BY <1>3, GroundedStops
    <2>2. PICK i \in 1 .. j, n \in Nat :
            param_distance(mc, c) = (IF mc \in InterfaceTypes THEN 5 ELSE 0) + (i - 1) - n
      BY <1>3, <2>1, DistanceClimbed
    <2>3. i \in Int /\ (IF mc \in InterfaceTypes THEN 5 ELSE 0) \in Int
      OBVIOUS
    <2> QED
      BY <2>2, <2>3
  <1> QED
    BY <1>1, <1>2, <1>3

(* Where nc is between the argument c and mc, mc is not the argument's     *)
(* class, and nc is nearer to it if mc has no interfaces.                  *)
LEMMA Nearer ==
  ASSUME CliClasses, NEW mc \in Classes, NEW nc \in Classes, NEW c \in Classes, Grounded(c),
         Convertible(nc, c), Convertible(mc, c), nc # mc, nc \notin InterfaceTypes, class_is_assignable_from(mc, nc)
  PROVE  mc # c /\ (Interfaces[mc] = <<>> => param_distance(nc, c) < param_distance(mc, c))
  <1> DEFINE len == Len(Chain[c])
  <1>0. Chain[c] \in Seq(Classes) /\ len \in Nat /\ len > 0 /\ Chain[c][1] = c /\ 1 \in 1 .. len
    BY ChainTyped
  <1>o. Object \in Classes /\ ToSet(Chain[Object]) = {Object} /\ \A d : class_is_assignable_from(d, Object) => d = Object
    BY ObjectIsLast
  <1>n. nc # Object
    BY <1>o
  <1>1. c \notin InterfaceTypes /\ Object \in ToSet(Chain[c])
    <2> SUFFICES ASSUME c \in InterfaceTypes PROVE FALSE
      BY NullIsNone DEF Grounded
    <2>1. ToSet(Chain[c]) = {c} /\ c # Object
      BY InterfaceAlone DEF CliClasses
    <2>2. Interfaces[c] = <<>>
      BY <2>1, NullIsNone DEF Grounded
    <2>3. ToSet(Interfaces[c]) = {}
      BY <2>2 DEF ToSet
    <2>4. \A d : class_is_assignable_from(d, c) => d \in {c, Object}
      BY <2>1, <2>3 DEF class_is_assignable_from
    <2>5. ~class_is_assignable_from(nc, c)
      BY <1>n, <2>4
    <2>6. EnumBase[nc] # null /\ EnumBase[nc] \in {c, Object} /\ EnumBase[nc] \notin InterfaceTypes
      BY <2>4, <2>5 DEF Convertible, CliClasses
    <2>7. EnumBase[nc] = Object /\ class_is_assignable_from(Object, nc) /\ class_is_assignable_from(nc, nc)
      BY <2>6 DEF class_is_assignable_from
    <2> QED
      BY <1>o, <2>6, <2>7 DEF CliClasses
  <1>2. PICK top \in 1 .. len : Chain[c][top] = Object
    BY <1>0, <1>1, ToSetIs
  <1>3. \A d : ~concrete_from_interface(d, c)
    BY <1>1 DEF concrete_from_interface
  <1>4. CASE class_is_assignable_from(nc, c)
    <2>1. nc \in ToSet(Chain[c])
      <3>1. \A d \in ToSet(Chain[c]) : ToSet(Interfaces[d]) \subseteq InterfaceTypes
        <4>1. ASSUME NEW d \in ToSet(Chain[c]) PROVE ToSet(Interfaces[d]) \subseteq InterfaceTypes
          <5>1. d \in Classes
            BY <1>0 DEF ToSet
          <5>2. Interfaces[d] \in Seq(InterfaceTypes)
            BY <5>1 DEF CliClasses
          <5> QED
            BY <5>2 DEF ToSet
        <4> QED
          BY <4>1
      <3>2. c \in ToSet(Chain[c])
        BY <1>0, ToSetIs
      <3> QED
        BY <1>4, <1>n, <3>1, <3>2 DEF class_is_assignable_from
    <2>2. PICK j \in 1 .. len : Chain[c][j] = nc
      BY <1>0, <2>1, ToSetIs
    <2>3. \A k \in 1 .. j : class_is_assignable_from(mc, Chain[c][k])
      BY <2>2, Upwards
    <2>4. ASSUME NEW k \in 1 .. j, Chain[c][k] = mc PROVE FALSE
      <3>0. k \in 1 .. len /\ j \in k .. len /\ k # j
        BY <1>0, <2>2, <2>4
      <3>1. mc # Object
        <4>1. k = top => FALSE
          <5> SUFFICES ASSUME k = top PROVE FALSE
            OBVIOUS
          <5>1. nc \in ToSet(Chain[Chain[c][k]])
            BY <2>2, <3>0, ChainSets
          <5> QED
            BY <1>2, <1>n, <1>o, <5>1
        <4> QED
          BY <1>2, <2>4, <3>0, <4>1, ChainDistinct
      <3>2. mc \notin ToSet(Chain[nc])
        <4>1. \A x : x \in ToSet(Chain[Chain[c][j]]) => \E i \in j .. len : Chain[c][i] = x
          BY ChainSets
        <4> SUFFICES ASSUME NEW i \in j .. len, Chain[c][i] = mc PROVE FALSE
          BY <2>2, <4>1
        <4>2. i \in 1 .. len /\ i # k
          BY <1>0, <3>0
        <4> QED
          BY <2>4, <3>0, <4>2, ChainDistinct
      <3>3. PICK d \in ToSet(Chain[nc]) : mc \in ToSet(Interfaces[d])
        BY <3>1, <3>2 DEF class_is_assignable_from
      <3>4. mc \in InterfaceTypes
        <4>1. Chain[nc] \in Seq(Classes)
          BY ChainTyped
        <4>2. d \in Classes
          BY <4>1 DEF ToSet
        <4>3. Interfaces[d] \in Seq(InterfaceTypes)
          BY <4>2 DEF CliClasses
        <4> QED
          BY <3>3, <4>3 DEF ToSet
      <3>5. k = len
        BY <2>4, <3>0, <3>4, TopIsLast DEF CliClasses
      <3> QED
        BY <1>0, <3>0, <3>5
    <2>5. mc # c
      BY <1>0, <2>4
    <2>6. \A k \in 1 .. j : ~Stops(mc, c, k)
      BY <2>3, <2>4 DEF Stops
    <2>7. ASSUME Interfaces[mc] = <<>> PROVE param_distance(nc, c) < param_distance(mc, c)
      <3>1. Stops(mc, c, top) /\ Stops(nc, c, j)
        BY <1>2, <1>o, <2>2 DEF Stops
      <3>2. PICK i \in 1 .. top, n \in Nat :
              /\ Stops(mc, c, i)
              /\ param_distance(mc, c) = (IF mc \in InterfaceTypes THEN 5 ELSE 0) + (i - 1) - n
              /\ Interfaces[mc] = <<>> => n = 0
        BY <1>3, <2>5, <3>1, DistanceClimbed
      <3>3. i > j /\ i \in Int /\ j \in Int
        <4>1. i \in Nat /\ j \in Nat /\ i >= 1
          OBVIOUS
        <4>2. i \notin 1 .. j
          BY <2>6, <3>2
        <4> QED
          BY <4>1, <4>2
      <3>4. param_distance(mc, c) >= i - 1 /\ param_distance(mc, c) \in Int
        BY <2>7, <3>2, <3>3
      <3>5. param_distance(nc, c) \in Int /\ param_distance(nc, c) <= j - 1
        <4>1. CASE nc = c
          <5>1. param_distance(nc, c) = 0
            BY <4>1, DistanceIs
          <5>2. j >= 1 /\ j \in Int
            OBVIOUS
          <5> QED
            BY <5>1, <5>2
        <4>2. CASE nc # c
          <5>1. PICK h \in 1 .. j, l \in Nat :
                  param_distance(nc, c) = (IF nc \in InterfaceTypes THEN 5 ELSE 0) + (h - 1) - l
            BY <1>3, <3>1, <4>2, DistanceClimbed
          <5>2. h \in Int /\ h <= j /\ param_distance(nc, c) = 0 + (h - 1) - l
            BY <5>1
          <5> QED
            BY <3>3, <5>2
        <4> QED
          BY <4>1, <4>2
      <3> QED
        BY <3>3, <3>4, <3>5
    <2> QED
      BY <2>5, <2>7
  <1>5. CASE ~class_is_assignable_from(nc, c)
    <2>1. EnumBase[nc] # null /\ class_is_assignable_from(EnumBase[nc], c)
      BY <1>5 DEF Convertible
    <2>2. mc # c
      BY <2>1 DEF CliClasses
    <2>3. EnumBase[mc] = null
      BY DEF CliClasses
    <2>4. class_is_assignable_from(mc, c)
      BY <2>3 DEF Convertible
    <2>5. nc # c
      BY <1>5 DEF class_is_assignable_from
    <2>6. ASSUME Interfaces[mc] = <<>> PROVE param_distance(nc, c) < param_distance(mc, c)
      <3>1. Stops(mc, c, top) /\ Stops(nc, c, 1) /\ ~Stops(mc, c, 1)
        BY <1>0, <1>2, <1>5, <1>o, <2>2, <2>4 DEF Stops
      <3>2. PICK i \in 1 .. top, n \in Nat :
              /\ Stops(mc, c, i)
              /\ param_distance(mc, c) = (IF mc \in InterfaceTypes THEN 5 ELSE 0) + (i - 1) - n
              /\ Interfaces[mc] = <<>> => n = 0
        BY <1>3, <2>2, <3>1, DistanceClimbed
      <3>3. PICK h \in 1 .. 1, l \in Nat :
              param_distance(nc, c) = (IF nc \in InterfaceTypes THEN 5 ELSE 0) + (h - 1) - l
        BY <1>0, <1>3, <2>5, <3>1, DistanceClimbed
      <3>4. i # 1 /\ i \in Nat /\ i >= 1
        BY <3>1, <3>2
      <3>5. param_distance(mc, c) >= i - 1 /\ param_distance(mc, c) \in Int
        BY <2>6, <3>2, <3>4
      <3>6. param_distance(nc, c) = 0 + (1 - 1) - l
        BY <3>3
      <3> QED
        BY <3>4, <3>5, <3>6
    <2> QED
      BY <2>2, <2>6
  <1> QED
    BY <1>4, <1>5

--------------------------------------------------------------------------------
(* Sums of what is not greater are not greater.                            *)
LEMMA SumsCompare ==
  ASSUME NEW p \in Int, NEW q \in Int, NEW r \in Int, NEW s \in Int, p <= q, r <= s
  PROVE  p + r <= q + s /\ (p < q \/ r < s => p + r < q + s)
  OBVIOUS

(* f below g. *)
Below(f, g, n) == (\A k \in 1 .. n : f[k] <= g[k]) /\ \E k \in 1 .. n : f[k] < g[k]

(* What is nowhere greater and somewhere less has the lesser sum.          *)
LEMMA LesserSum ==
  ASSUME NEW n, NEW x, NEW y, NEW a, NEW b, Sums(a, x, n), Sums(b, y, n), Below(x, y, n)
  PROVE  a[n] \in Int /\ b[n] \in Int /\ a[n] < b[n]
  <1>0. /\ n \in Nat /\ a[0] = 0 /\ b[0] = 0
        /\ \A k \in 1 .. n : a[k] = a[k - 1] + x[k] /\ b[k] = b[k - 1] + y[k] /\ x[k] <= y[k]
    BY DEF Sums, Below
  <1>i. PICK i \in 1 .. n : x[i] < y[i]
    BY DEF Below
  <1>t. /\ \A j \in 0 .. n : a[j] \in Int /\ b[j] \in Int
        /\ \A j \in 1 .. n : x[j] \in Int /\ y[j] \in Int
    BY DEF Sums
  <1> DEFINE Wrong == {k \in 0 .. n : ~(a[k] <= b[k] /\ (i <= k => a[k] < b[k]))}
  <1>1. Wrong = {}
    <2> SUFFICES ASSUME Wrong # {} PROVE FALSE
      OBVIOUS
    <2>1. PICK k \in Wrong : \A j \in Wrong : k <= j
      <3>1. Wrong \in SUBSET Nat
        OBVIOUS
      <3> HIDE DEF Wrong
      <3> QED
        BY <3>1, Least
    <2>2. k \in 0 .. n /\ k # 0
      BY <1>0
    <2>3. k \in 1 .. n /\ k - 1 \in 0 .. n /\ k - 1 \notin Wrong
      <3>1. k \in 1 .. n /\ k - 1 \in 0 .. n /\ ~(k <= k - 1)
        BY <1>0, <2>2
      <3> HIDE DEF Wrong
      <3> QED
        BY <2>1, <3>1
    <2>4. a[k - 1] <= b[k - 1] /\ (i <= k - 1 => a[k - 1] < b[k - 1])
      BY <2>3
    <2>5. a[k] = a[k - 1] + x[k] /\ b[k] = b[k - 1] + y[k] /\ x[k] <= y[k]
      BY <1>0, <2>3
    <2>6. /\ a[k - 1] \in Int /\ b[k - 1] \in Int /\ x[k] \in Int /\ y[k] \in Int
          /\ a[k] \in Int /\ b[k] \in Int
      BY <2>2, <2>3, <1>t
    <2>7. k \in Int /\ i \in Int
      BY <2>2
    <2>9. a[k] <= b[k]
      <3>1. PICK p \in Int, q \in Int, r \in Int, s \in Int : p = a[k - 1] /\ q = b[k - 1] /\ r = x[k] /\ s = y[k]
        BY <2>6
      <3>2. p <= q /\ r <= s
        BY <2>4, <2>5, <3>1
      <3> QED
        BY <2>5, <3>1, <3>2, SumsCompare
    <2>10. ASSUME i <= k PROVE a[k] < b[k]
      <3>1. i = k \/ i <= k - 1
        BY <2>7, <2>10
      <3>2. x[k] < y[k] \/ a[k - 1] < b[k - 1]
        BY <1>i, <2>4, <3>1
      <3> QED
        <4>1. PICK p \in Int, q \in Int, r \in Int, s \in Int : p = a[k - 1] /\ q = b[k - 1] /\ r = x[k] /\ s = y[k]
          BY <2>6
        <4>2. p <= q /\ r <= s /\ (p < q \/ r < s)
          BY <2>4, <2>5, <3>2, <4>1
        <4> QED
          BY <2>5, <4>1, <4>2, SumsCompare
    <2> QED
      BY <2>9, <2>10
  <1>2. n \in 0 .. n /\ i <= n
    BY <1>0
  <1> QED
    BY <1>t, <1>1, <1>2

(* The type of a parameter; one with mvar >= 0 is generic.                 *)
Param == [class : Classes, byref : BOOLEAN, mvar : Int]

(* Only one method of q's name takes generic arguments like q's.           *)
NotOverloaded(q) ==
  \A id, other \in MethodIds :
    /\ id[1] \in ToSet(Chain[q.klass]) /\ matches(method(id), q) # "none"
    /\ other[1] \in ToSet(Chain[q.klass]) /\ matches(method(other), q) # "none"
    => id = other

(* Methods' types are complete: a parameter's generic type is one of its   *)
(* method's own.  Queries with generic arguments are not overloaded, as    *)
(* what their parameters stand for is not compared.                        *)
TypedOverloads ==
  /\ \A id \in MethodIds :
       /\ method(id).params \in Seq(Param) /\ method(id).generics \in Nat
       /\ \A i \in 1 .. Len(method(id).params) : method(id).params[i].mvar < method(id).generics
  /\ \A q \in Queries : by_types(q) =>
       /\ q.params \in Seq(Param \union {NoType})
       /\ q.generics = <<>> \/ NotOverloaded(q)

(* find_method finds an exact match, or a convertible one of least weight. *)
LEMMA FoundIs ==
  ASSUME NEW q \in Queries, by_types(q), find_method(q) # NoMethod
  PROVE  LET id == find_method(q)
         IN  /\ id \in MethodIds /\ id[1] \in ToSet(Chain[q.klass])
             /\ \/ matches(method(id), q) = "exact"
                \/ /\ matches(method(id), q) = "convertible"
                   /\ \A other \in MethodIds : other[1] \in ToSet(Chain[q.klass]) => matches(method(other), q) # "exact"
                   /\ \A other \in MethodIds :
                        other[1] \in ToSet(Chain[q.klass]) /\ matches(method(other), q) = "convertible" =>
                          weight(method(id), q.params) <= weight(method(other), q.params)
  <1> DEFINE places == candidates(q.klass, Classes)
             E == matching(places, q, "exact")
             C == matching(places, q, "convertible")
             L == lightest(places, q)
             id == find_method(q)
  <1>0. q.klass \in Classes /\ Chain[q.klass] \in Seq(Classes) /\ Chain[q.klass] # <<>>
    BY QueriesAssumption, ChainTyped
  <1>1. places \in SUBSET (Nat \X Nat)
        /\ \A p \in places : p[1] \in DOMAIN Chain[q.klass] /\ method_id(q.klass, p) \in MethodIds
    BY <1>0, PlacesTyped
  <1>2. ASSUME NEW p \in places PROVE method_id(q.klass, p)[1] \in ToSet(Chain[q.klass])
    <2>1. p[1] \in DOMAIN Chain[q.klass]
      BY <1>1
    <2> QED
      BY <2>1 DEF method_id, ToSet
  <1>3. ASSUME NEW other \in MethodIds, other[1] \in ToSet(Chain[q.klass])
        PROVE  \E p \in places : method_id(q.klass, p) = other
    <2>1. PICK c \in Classes : \E j \in DOMAIN Methods[c] : other = <<c, j>>
      BY DEF MethodIds
    <2>2. PICK j \in DOMAIN Methods[c] : other = <<c, j>>
      BY <2>1
    <2>3. PICK i \in 1 .. Len(Chain[q.klass]) : Chain[q.klass][i] = c
      BY <1>0, <1>3, <2>2, ToSetIs
    <2>4. i \in DOMAIN Chain[q.klass]
      BY <1>0
    <2>5. <<i, j>> \in places
      BY <2>2, <2>3, <2>4, InCandidates
    <2> QED
      BY <2>2, <2>3, <2>5 DEF method_id
  <1>4. E \subseteq places /\ C \subseteq places /\ L \subseteq C
        /\ (\A p \in places : p \in E <=> matches(method(method_id(q.klass, p)), q) = "exact")
        /\ (\A p \in places : p \in C <=> matches(method(method_id(q.klass, p)), q) = "convertible")
    BY DEF matching, lightest
  <1>5. \A p \in L, r \in C : weight(method(method_id(q.klass, p)), q.params) <= weight(method(method_id(q.klass, r)), q.params)
    BY DEF lightest
  <1>6. E # {} => id = method_id(q.klass, first(E))
    BY DEF find_method, find_among
  <1>7. E = {} => L # {} /\ id = method_id(q.klass, first(L))
    BY DEF find_method, find_among
  <1> HIDE DEF places, E, C, L, id
  <1>8. CASE E # {}
    <2>1. first(E) \in E
      <3>1. E \in SUBSET (Nat \X Nat)
        BY <1>1, <1>4
      <3> QED
        BY <1>8, <3>1, FirstExists
    <2>2. id \in MethodIds /\ id[1] \in ToSet(Chain[q.klass]) /\ matches(method(id), q) = "exact"
      BY <1>1, <1>2, <1>4, <1>6, <1>8, <2>1
    <2> QED
      BY <2>2 DEF id
  <1>9. CASE E = {}
    <2>1. first(L) \in L
      <3>1. L \in SUBSET (Nat \X Nat)
        BY <1>1, <1>4
      <3> QED
        BY <1>7, <1>9, <3>1, FirstExists
    <2>2. id \in MethodIds /\ id[1] \in ToSet(Chain[q.klass]) /\ matches(method(id), q) = "convertible"
      BY <1>1, <1>2, <1>4, <1>7, <1>9, <2>1
    <2>3. ASSUME NEW other \in MethodIds, other[1] \in ToSet(Chain[q.klass])
          PROVE  /\ matches(method(other), q) # "exact"
                 /\ matches(method(other), q) = "convertible" => weight(method(id), q.params) <= weight(method(other), q.params)
      <3>1. PICK p \in places : method_id(q.klass, p) = other
        BY <1>3, <2>3
      <3> QED
        BY <1>4, <1>5, <1>7, <1>9, <2>1, <3>1
    <2> QED
      BY <2>2, <2>3 DEF id
  <1> QED
    BY <1>8, <1>9

(* What it means that a method applies to a query without generics.        *)
LEMMA Applies ==
  ASSUME TypedOverloads, NEW q \in Queries, known(q), q.generics = <<>>, NEW id \in MethodIds, matches(method(id), q) # "none"
  PROVE  LET m == method(id)
         IN  /\ Len(m.params) = Len(q.params) /\ Len(q.params) \in Nat /\ DOMAIN q.params = 1 .. Len(q.params)
             /\ DOMAIN m.params = 1 .. Len(q.params)
             /\ \A i \in 1 .. Len(q.params) : /\ m.params[i].class \in Classes /\ q.params[i].class \in Classes
                                              /\ Convertible(m.params[i].class, q.params[i].class)
             /\ matches(m, q) \in {"exact", "convertible"}
             /\ matches(m, q) = "exact" => \A i \in 1 .. Len(q.params) : m.params[i] = q.params[i]
  <1> DEFINE m == method(id)
             args == q.params
             n == Len(args)
  <1>1. m.params \in Seq(Param) /\ m.generics \in Nat /\ \A i \in 1 .. Len(m.params) : m.params[i].mvar < m.generics
    BY DEF TypedOverloads
  <1>2. args \in Seq(Param \union {NoType}) /\ q.kind = "types" /\ \A i \in DOMAIN args : args[i] # NoType
    BY DEF TypedOverloads, known, by_types
  <1>3. matches(m, q) \in {"none", param_match(m, <<>>, args)}
    BY <1>2 DEF matches
  <1>4. matches(m, q) = param_match(m, <<>>, args) /\ param_match(m, <<>>, args) # "none"
    BY <1>3
  <1> HIDE DEF m, args
  <1>5. Len(m.params) = n /\ m.generics = 0
    <2>1. Len(m.params) = Len(args) /\ m.generics = Len(<<>>)
      BY <1>4 DEF param_match
    <2> QED
      BY <2>1
  <1>6. n \in Nat /\ DOMAIN args = 1 .. n /\ DOMAIN m.params = 1 .. n /\ \A i \in 1 .. n : args[i] \in Param /\ m.params[i] \in Param
    <2>1. n \in Nat /\ DOMAIN args = 1 .. n /\ \A i \in 1 .. n : args[i] \in Param \union {NoType}
      BY <1>2
    <2>2. DOMAIN m.params = 1 .. n /\ \A i \in 1 .. n : m.params[i] \in Param
      BY <1>1, <1>5
    <2> QED
      BY <1>2, <2>1, <2>2
  <1> HIDE DEF n
  <1>7. ASSUME NEW i \in 1 .. n
        PROVE  m.params[i].mvar < 0 /\ ~skipped(m, i, args) /\ inflated(m.params[i], <<>>) = m.params[i]
    <2>1. m.params[i].mvar < 0 /\ m.params[i].mvar \in Int
      BY <1>1, <1>5, <1>6 DEF n, Param
    <2>2. ~(m.params[i].mvar >= 0) /\ args[i] # NoType
      BY <1>2, <1>6, <2>1
    <2> QED
      BY <2>1, <2>2 DEF skipped, inflated
  <1>8. {i \in DOMAIN args : ~skipped(m, i, args)} = 1 .. n
    BY <1>6, <1>7
  <1>9. /\ \A i \in 1 .. n : is_convertible_from(inflated(m.params[i], <<>>), args[i], TRUE)
        /\ param_match(m, <<>>, args) = IF \A i \in 1 .. n : inflated(m.params[i], <<>>) = args[i] THEN "exact" ELSE "convertible"
    <2>1. Len(m.params) = Len(args) /\ m.generics = Len(<<>>)
      BY <1>5 DEF n
    <2>2. param_match(m, <<>>, args) =
            IF \E i \in 1 .. n : ~is_convertible_from(inflated(m.params[i], <<>>), args[i], TRUE) THEN "none"
            ELSE IF \A i \in 1 .. n : inflated(m.params[i], <<>>) = args[i] THEN "exact" ELSE "convertible"
      BY <1>8, <2>1 DEF param_match
    <2> QED
      BY <1>4, <2>2
  <1>10. ASSUME NEW i \in 1 .. n PROVE Convertible(m.params[i].class, args[i].class)
    <2>1. is_convertible_from(m.params[i], args[i], TRUE)
      BY <1>7, <1>9
    <2>2. ~(m.params[i].mvar >= 0)
      <3>1. m.params[i].mvar \in Int /\ m.params[i].mvar < 0
        BY <1>6, <1>7 DEF Param
      <3> QED
        BY <3>1
    <2> QED
      BY <2>1, <2>2 DEF is_convertible_from, Convertible
  <1>11. \A i \in 1 .. n : m.params[i].class \in Classes /\ args[i].class \in Classes
    BY <1>6 DEF Param
  <1>12. matches(m, q) \in {"exact", "convertible"}
    BY <1>4, <1>9
  <1>13. matches(m, q) = "exact" => \A i \in 1 .. n : m.params[i] = args[i]
    BY <1>4, <1>7, <1>9
  <1> QED
    BY <1>5, <1>6, <1>10, <1>11, <1>12, <1>13 DEF m, n, args

(* Of two methods that apply, the one that is closer weighs less than one  *)
(* of which the parameters have no interfaces, and that one is not exact.  *)
LEMMA CloserIsLighter ==
  ASSUME GroundedArguments, TypedOverloads, NEW q \in Queries, known(q), q.generics = <<>>,
         NEW id \in MethodIds, matches(method(id), q) # "none", plain(method(id)),
         NEW other \in MethodIds, matches(method(other), q) # "none", closer(method(other), method(id))
  PROVE  /\ matches(method(id), q) # "exact"
         /\ weight(method(other), q.params) \in Int /\ weight(method(id), q.params) \in Int
         /\ weight(method(other), q.params) < weight(method(id), q.params)
  <1> DEFINE m == method(id)
             o == method(other)
             args == q.params
             n == Len(args)
             d(i) == param_distance(m.params[i].class, args[i].class)
             e(i) == param_distance(o.params[i].class, args[i].class)
  <1>1. /\ Len(m.params) = n /\ n \in Nat /\ DOMAIN args = 1 .. n /\ DOMAIN m.params = 1 .. n
        /\ \A i \in 1 .. n : /\ m.params[i].class \in Classes /\ args[i].class \in Classes
                             /\ Convertible(m.params[i].class, args[i].class)
        /\ matches(m, q) = "exact" => \A i \in 1 .. n : m.params[i] = args[i]
    BY Applies
  <1>2. /\ DOMAIN o.params = 1 .. n
        /\ \A i \in 1 .. n : o.params[i].class \in Classes /\ Convertible(o.params[i].class, args[i].class)
    BY Applies
  <1>3. \A i \in 1 .. n : Interfaces[m.params[i].class] = <<>>
    BY <1>1 DEF plain
  <1>4. /\ \A i \in 1 .. n : \/ o.params[i].class = m.params[i].class
                             \/ /\ o.params[i].class \notin InterfaceTypes
                                /\ class_is_assignable_from(m.params[i].class, o.params[i].class)
        /\ \E i \in 1 .. n : o.params[i].class # m.params[i].class
    BY <1>2 DEF closer
  <1>5. CliClasses /\ \A i \in 1 .. n : Grounded(args[i].class)
    <2>1. CliClasses
      BY DEF GroundedArguments
    <2>2. by_types(q) /\ \A i \in DOMAIN args : args[i] # NoType
      BY DEF known
    <2>3. \/ \A i \in DOMAIN args : args[i] # NoType /\ Grounded(args[i].class)
          \/ \A i \in DOMAIN args : args[i] = NoType
      BY <2>2 DEF GroundedArguments, NoneKnown
    <2> HIDE DEF args
    <2> QED
      BY <1>1, <2>1, <2>2, <2>3
  <1> HIDE DEF m, o, args, n
  <1>6. ASSUME NEW i \in 1 .. n, o.params[i].class # m.params[i].class
        PROVE  m.params[i].class # args[i].class /\ e(i) < d(i)
    <2>1. PICK mc \in Classes, nc \in Classes, c \in Classes :
            mc = m.params[i].class /\ nc = o.params[i].class /\ c = args[i].class
      BY <1>1, <1>2
    <2>2. Grounded(c) /\ Convertible(nc, c) /\ Convertible(mc, c) /\ Interfaces[mc] = <<>>
      BY <1>1, <1>2, <1>3, <1>5, <2>1
    <2>3. nc # mc /\ nc \notin InterfaceTypes /\ class_is_assignable_from(mc, nc)
      BY <1>4, <1>6, <2>1
    <2>4. mc # c /\ param_distance(nc, c) < param_distance(mc, c)
      BY <1>5, <2>2, <2>3, Nearer
    <2> QED
      BY <2>1, <2>4
  <1>7. ASSUME NEW i \in 1 .. n PROVE d(i) \in Int /\ e(i) \in Int
    <2>1. PICK mc \in Classes, nc \in Classes, c \in Classes :
            mc = m.params[i].class /\ nc = o.params[i].class /\ c = args[i].class
      BY <1>1, <1>2
    <2>2. Grounded(c)
      BY <1>5, <2>1
    <2>3. param_distance(mc, c) \in Int /\ param_distance(nc, c) \in Int
      BY <1>5, <2>2, DistanceTyped
    <2> QED
      BY <2>1, <2>3
  <1>8. PICK i \in 1 .. n : o.params[i].class # m.params[i].class
    BY <1>4
  <1>9. matches(m, q) # "exact"
    BY <1>1, <1>6, <1>8
  <1>10. PICK x, y : Measured(o, args, n, x) /\ Measured(m, args, n, y) /\ \A k \in 1 .. n : x[k] = e(k) /\ y[k] = d(k)
    <2> DEFINE x == [k \in 1 .. n |-> e(k)]
               y == [k \in 1 .. n |-> d(k)]
    <2>1. Measured(o, args, n, x) /\ Measured(m, args, n, y)
      BY <1>1, <1>7 DEF Measured
    <2>2. \A k \in 1 .. n : x[k] = e(k) /\ y[k] = d(k)
      OBVIOUS
    <2> HIDE DEF x, y
    <2> QED
      BY <2>1, <2>2
  <1>11. Below(x, y, n)
    <2>1. ASSUME NEW k \in 1 .. n PROVE e(k) <= d(k)
      <3>1. CASE o.params[k].class = m.params[k].class
        <4>1. e(k) = d(k)
          BY <3>1
        <4>2. e(k) \in Int /\ d(k) \in Int
          BY <1>7
        <4> HIDE DEF d, e
        <4> QED
          BY <4>1, <4>2
      <3>2. CASE o.params[k].class # m.params[k].class
        <4>1. e(k) < d(k) /\ e(k) \in Int /\ d(k) \in Int
          BY <1>6, <1>7, <3>2
        <4> HIDE DEF d, e
        <4> QED
          BY <4>1
      <3> QED
        BY <3>1, <3>2
    <2>2. e(i) < d(i)
      BY <1>6, <1>8
    <2> HIDE DEF d, e
    <2> QED
      BY <1>10, <2>1, <2>2 DEF Below
  <1> HIDE DEF d, e
  <1>12. PICK a : Sums(a, x, n) /\ weight(o, args) = a[n]
    BY <1>10, WeightSums
  <1>13. PICK b : Sums(b, y, n) /\ weight(m, args) = b[n]
    BY <1>10, WeightSums
  <1>14. a[n] \in Int /\ b[n] \in Int /\ a[n] < b[n]
    BY <1>11, <1>12, <1>13, LesserSum
  <1> QED
    BY <1>9, <1>12, <1>13, <1>14 DEF m, o, args

(* What find_method finds is the best, if its parameters are plain.        *)
LEMMA BestOf ==
  ASSUME GroundedArguments, TypedOverloads, NEW q \in Queries, known(q),
         find_method(q) # NoMethod, plain(method(find_method(q)))
  PROVE  best(find_method(q), q)
  <1> SUFFICES ASSUME NEW other \in MethodIds, other[1] \in ToSet(Chain[q.klass]),
                      matches(method(other), q) # "none", closer(method(other), method(find_method(q)))
               PROVE  FALSE
    BY DEF best
  <1> DEFINE id == find_method(q)
  <1>1. by_types(q)
    BY DEF known
  <1>2. /\ id \in MethodIds /\ id[1] \in ToSet(Chain[q.klass])
        /\ \/ matches(method(id), q) = "exact"
           \/ /\ matches(method(id), q) = "convertible" /\ matches(method(other), q) # "exact"
              /\ matches(method(other), q) = "convertible" =>
                   weight(method(id), q.params) <= weight(method(other), q.params)
    BY <1>1, FoundIs
  <1>3. plain(method(id)) /\ closer(method(other), method(id)) /\ matches(method(id), q) # "none"
    BY <1>2
  <1> HIDE DEF id
  <1>4. CASE q.generics = <<>>
    <2>1. /\ matches(method(id), q) # "exact"
          /\ weight(method(other), q.params) \in Int /\ weight(method(id), q.params) \in Int
          /\ weight(method(other), q.params) < weight(method(id), q.params)
      BY <1>2, <1>3, <1>4, CloserIsLighter
    <2>2. matches(method(other), q) \in {"exact", "convertible"}
      BY <1>4, Applies
    <2>3. weight(method(id), q.params) <= weight(method(other), q.params)
      BY <1>2, <2>1, <2>2
    <2> QED
      BY <2>1, <2>3
  <1>5. CASE q.generics # <<>>
    <2>1. other = id
      BY <1>1, <1>2, <1>3, <1>5 DEF TypedOverloads, NotOverloaded
    <2>2. closer(method(id), method(id))
      BY <1>3, <2>1
    <2> QED
      BY <2>2 DEF closer
  <1> QED
    BY <1>4, <1>5

(* No overload that applies is closer to the arguments than the one that   *)
(* find_method finds, cached or not, if no interfaces are counted against  *)
(* that one: whatever the classes, their interfaces and the overloads are. *)
THEOREM PlainMatchIsBest ==
  ASSUME GroundedArguments, TypedOverloads
  PROVE  Spec => []BestPlainMatch
  <1>1. IInv => BestPlainMatch
    <2> SUFFICES ASSUME IInv, NEW t \in Threads, pc[t] = "done", known(query[t]),
                        found[t] # NoMethod, plain(method(found[t]))
                 PROVE  best(found[t], query[t])
      BY DEF BestPlainMatch
    <2>1. query[t] \in Queries /\ found[t] = find_method(query[t])
      BY DEF IInv, AnswerOK
    <2> QED
      BY <2>1, BestOf
  <1> QED
    BY <1>1, Invariance, PTL

===============================================================================
