---------------------------- MODULE Algorithms_proofs ----------------------------
(***************************************************************************)
(* Proofs about the pure functions of Algorithms, for every memory,        *)
(* pattern, text, function and hierarchy of classes.  A result is what its *)
(* function returns (IInv), so each theorem is about that function.        *)
(*                                                                         *)
(* The functions are loops, modelled by recursive functions.  Recursion    *)
(* proves that such a function exists when each step goes to a smaller     *)
(* rank.  What it returns then follows by a least counterexample (Least,   *)
(* Downwards, Upwards).                                                    *)
(***************************************************************************)
EXTENDS Algorithms, FiniteSetTheorems, SequenceTheorems, WellFoundedInduction, TLAPS

(* A set of naturals has a least element. *)
LEMMA Least ==
  ASSUME NEW S \in SUBSET Nat, S # {}
  PROVE  \E m \in S : \A n \in S : m <= n
  <1>1. PICK m \in S : \A n \in S : <<n, m>> \notin OpToRel(<, Nat)
    BY NatLessThanWellFounded, WFMin
  <1>2. ASSUME NEW n \in S, n < m
        PROVE  FALSE
    <2>1. <<n, m>> \in OpToRel(<, Nat)
      BY <1>2 DEF OpToRel
    <2> QED
      BY <1>1, <2>1
  <1> QED
    BY <1>2

(* A recursion that goes to smaller ranks is a function: H is one step of  *)
(* it, which uses values of smaller rank only.                             *)
Recursive(D, V, n, rank, H) ==
  /\ V # {} /\ n \in Nat /\ rank \in [D -> 0 .. n] /\ H \in [[D -> V] -> [D -> V]]
  /\ \A g, h \in [D -> V] : \A x \in D :
       (\A y \in D : rank[y] < rank[x] => g[y] = h[y]) => H[g][x] = H[h][x]

(* There is such a function: step n + 1 times from any function.           *)
LEMMA Recursion ==
  ASSUME NEW D, NEW V, NEW n, NEW rank, NEW H, Recursive(D, V, n, rank, H)
  PROVE  \E f \in [D -> V] : H[f] = f
  <1> USE DEF Recursive
  <1> DEFINE Fixed(g, k) == \A x \in D : rank[x] < k => H[g][x] = g[x]
             Failing == {k \in Nat : ~\E g \in [D -> V] : Fixed(g, k)}
  <1>0. \A x \in D : rank[x] \in Nat /\ rank[x] <= n
    OBVIOUS
  <1>1. Failing = {}
    <2> SUFFICES ASSUME Failing # {} PROVE FALSE
      OBVIOUS
    <2>1. PICK k \in Failing : \A j \in Failing : k <= j
      <3>1. Failing \in SUBSET Nat
        OBVIOUS
      <3> HIDE DEF Failing
      <3> QED
        BY <3>1, Least
    <2>2. k \in Nat /\ ~\E g \in [D -> V] : Fixed(g, k)
      OBVIOUS
    <2>3. k # 0
      <3>1. PICK v \in V : TRUE
        OBVIOUS
      <3>2. [x \in D |-> v] \in [D -> V]
        OBVIOUS
      <3>3. k = 0 => Fixed([x \in D |-> v], k)
        BY <1>0
      <3> HIDE DEF Fixed
      <3> QED
        BY <2>2, <3>2, <3>3
    <2>4. k - 1 \in Nat /\ ~(k <= k - 1)
      BY <2>2, <2>3
    <2>5. PICK g \in [D -> V] : Fixed(g, k - 1)
      BY <2>1, <2>4
    <2>6. H[g] \in [D -> V]
      OBVIOUS
    <2>7. Fixed(H[g], k)
      <3>1. ASSUME NEW x \in D, rank[x] < k PROVE H[H[g]][x] = H[g][x]
        <4>1. ASSUME NEW y \in D, rank[y] < rank[x] PROVE H[g][y] = g[y]
          <5>1. rank[y] < k - 1
            BY <1>0, <2>2, <3>1, <4>1
          <5> QED
            BY <2>5, <5>1
        <4> QED
          BY <2>6, <4>1
      <3> QED
        BY <3>1
    <2> HIDE DEF Fixed
    <2> QED
      BY <2>2, <2>6, <2>7
  <1>2. PICK g \in [D -> V] : Fixed(g, n + 1)
    <2>1. n + 1 \in Nat
      OBVIOUS
    <2> HIDE DEF Fixed
    <2> QED
      BY <1>1, <2>1
  <1>3. \A x \in D : H[g][x] = g[x]
    BY <1>0, <1>2
  <1>4. H[g] \in [D -> V]
    OBVIOUS
  <1>5. H[g] = g
    BY <1>3, <1>4
  <1> QED
    BY <1>5

(* The least of some naturals.                                             *)
LEMMA MinIs ==
  ASSUME NEW S \in SUBSET Nat, S # {}
  PROVE  Min(S) \in S /\ \A n \in S : Min(S) <= n
  <1>1. \E m \in S : \A n \in S : m <= n
    BY Least
  <1> QED
    BY <1>1 DEF Min

(* It is the only one.                                                     *)
LEMMA MinUnique ==
  ASSUME NEW S \in SUBSET Nat, NEW m \in S, \A n \in S : m <= n
  PROVE  Min(S) = m
  <1>1. PICK k : k = Min(S)
    OBVIOUS
  <1>2. k \in S /\ \A n \in S : k <= n
    BY <1>1, MinIs
  <1>3. k \in Nat /\ m \in Nat /\ k <= m /\ m <= k
    BY <1>2
  <1> QED
    BY <1>1, <1>3

(* What holds of n when it holds of everything between n and a bound, for  *)
(* a set P of naturals that holds from the bound on.                       *)
LEMMA Downwards ==
  ASSUME NEW P, NEW end \in Nat, NEW low \in Nat,
         \A n \in Nat : n >= end => n \in P,
         \A n \in Nat : low <= n /\ n < end /\ (\A k \in Nat : n < k => k \in P) => n \in P
  PROVE  \A n \in Nat : low <= n => n \in P
  <1> DEFINE Bad == {r \in Nat : \E n \in Nat : low <= n /\ n \notin P /\ n + r = end}
  <1>1. ASSUME NEW n \in Nat, low <= n, n \notin P PROVE Bad # {}
    <2>1. n < end
      BY <1>1
    <2>2. end - n \in Nat /\ n + (end - n) = end
      BY <2>1
    <2> QED
      BY <1>1, <2>2
  <1>2. Bad = {}
    <2> SUFFICES ASSUME Bad # {} PROVE FALSE
      OBVIOUS
    <2>1. Bad \in SUBSET Nat
      OBVIOUS
    <2>2. PICK r \in Bad : \A q \in Bad : r <= q
      <3> HIDE DEF Bad
      <3> QED
        BY <2>1, Least
    <2>3. PICK n \in Nat : low <= n /\ n \notin P /\ n + r = end
      BY <2>2
    <2>4. r \in Nat
      BY <2>1, <2>2
    <2>5. ASSUME NEW k \in Nat, n < k PROVE k \in P
      <3> SUFFICES ASSUME k \notin P PROVE FALSE
        OBVIOUS
      <3>1. k < end
        OBVIOUS
      <3>2. end - k \in Nat /\ k + (end - k) = end /\ end - k < r /\ low <= k
        BY <3>1, <2>3, <2>4, <2>5
      <3>3. end - k \in Bad
        BY <3>2
      <3> QED
        BY <2>2, <2>4, <3>2, <3>3
    <2>6. n < end
      BY <2>3
    <2> QED
      BY <2>3, <2>5, <2>6
  <1> QED
    BY <1>1, <1>2

--------------------------------------------------------------------------------
(* The tokens that stop an attempt at p. *)
Fails(mem, end, toks, p) == {k \in DOMAIN toks : p + k > end \/ ~token_match(mem, p + k - 1, toks[k])}

(* One attempt of the scan, and what follows it, by g. *)
Attempt(g, mem, end, toks, past, p) ==
  LET fails == Fails(mem, end, toks, p)
      p_cur == p + Min(fails) - 1
      match == IF p_cur = p THEN 0 ELSE p - past
  IN  IF fails = {}
        THEN IF p + Len(toks) < end \/ toks[Len(toks)] = "?" THEN p - past ELSE 0
        ELSE IF p_cur >= end THEN 0
        ELSE g[next_attempt(p_cur, match, past)]

(* g is the recursion that scan defines. *)
Attempts(g, mem, end, toks, past) == g = [p \in Nat |-> Attempt(g, mem, end, toks, past, p)]

(* scan is what some function of its recursion answers at the start.       *)
LEMMA ScanIs ==
  ASSUME NEW mem, NEW end, NEW toks, NEW past, NEW start, NEW f, Attempts(f, mem, end, toks, past)
  PROVE  \E g : Attempts(g, mem, end, toks, past) /\ scan(mem, end, toks, past, start) = g[start]
  <1> DEFINE G == CHOOSE g : Attempts(g, mem, end, toks, past)
  <1>1. scan(mem, end, toks, past, start) = G[start]
    BY DEF scan, Attempts, Attempt, Fails
  <1> QED
    BY <1>1

(* A sequence whose elements are in some set has its length's domain.      *)
LEMMA SeqTyped ==
  ASSUME NEW s, s \in Seq(Range(s))
  PROVE  Len(s) \in Nat /\ DOMAIN s = 1 .. Len(s)
  OBVIOUS

(* Where the next attempt is, when token k fails of one at p.               *)
After(p, k, past) ==
  next_attempt(p + k - 1, IF p + k - 1 = p THEN 0 ELSE p - past, past)

(* Where an attempt fails, and where the next one is.                      *)
LEMMA NextAttempt ==
  ASSUME NEW mem, NEW end \in Nat, NEW toks, toks \in Seq(Range(toks)), NEW past \in Nat, NEW p \in Nat,
         Fails(mem, end, toks, p) # {}
  PROVE  \E k \in 1 .. Len(toks) :
           /\ k = Min(Fails(mem, end, toks, p)) /\ k \in Fails(mem, end, toks, p)
           /\ After(p, k, past) \in Nat
           /\ After(p, k, past) > p
           /\ p > past => After(p, k, past) = p + 1
  <1> DEFINE F == Fails(mem, end, toks, p)
  <1>1. Len(toks) \in Nat /\ DOMAIN toks = 1 .. Len(toks)
    BY SeqTyped
  <1>2. F \in SUBSET (1 .. Len(toks))
    BY <1>1 DEF Fails
  <1>3. F \in SUBSET Nat /\ F # {}
    BY <1>1, <1>2
  <1>4. PICK k \in Int : k = Min(F)
    <2> HIDE DEF F
    <2>1. PICK S \in SUBSET Nat : S = F
      BY <1>3
    <2>2. S # {}
      BY <1>3, <2>1
    <2>3. Min(S) \in S
      BY <2>2, MinIs
    <2>4. Min(S) \in Nat
      BY <2>3
    <2>5. PICK k \in Nat : k = Min(S)
      BY <2>4
    <2> QED
      BY <2>1, <2>5
  <1>5. k \in F /\ \A j \in F : k <= j
    <2> HIDE DEF F
    <2> QED
      BY <1>3, <1>4, MinIs
  <1>6. k \in 1 .. Len(toks)
    BY <1>2, <1>5
  <1>7. After(p, k, past) \in Nat /\ After(p, k, past) > p /\ (p > past => After(p, k, past) = p + 1)
    BY <1>1, <1>6 DEF After, next_attempt
  <1> QED
    BY <1>4, <1>5, <1>6, <1>7

(* There is a function of the recursion.                                   *)
LEMMA AttemptsExist ==
  ASSUME NEW mem, NEW end \in Nat, NEW toks, toks \in Seq(Range(toks)), NEW past \in Nat
  PROVE  \E f \in [Nat -> Int] : Attempts(f, mem, end, toks, past)
  <1> DEFINE H == [g \in [Nat -> Int] |-> [p \in Nat |-> Attempt(g, mem, end, toks, past, p)]]
             rank == [p \in Nat |-> IF p < end THEN end - p ELSE 0]
  <1>0. Len(toks) \in Nat /\ DOMAIN toks = 1 .. Len(toks)
    BY SeqTyped
  <1>1. ASSUME NEW p \in Nat, Fails(mem, end, toks, p) # {},
               ~(p + Min(Fails(mem, end, toks, p)) - 1 >= end)
        PROVE  p < end
    <2>1. PICK k \in 1 .. Len(toks) : k = Min(Fails(mem, end, toks, p)) /\ After(p, k, past) \in Nat
      BY <1>1, NextAttempt
    <2>2. ~(p + k - 1 >= end)
      BY <1>1, <2>1
    <2> QED
      BY <1>0, <2>2
  <1>2. ASSUME NEW g \in [Nat -> Int], NEW p \in Nat PROVE Attempt(g, mem, end, toks, past, p) \in Int
    <2>1. CASE Fails(mem, end, toks, p) = {}
      BY <2>1 DEF Attempt
    <2>2. CASE Fails(mem, end, toks, p) # {}
      <3>1. PICK k \in 1 .. Len(toks), next \in Nat :
              /\ k = Min(Fails(mem, end, toks, p)) /\ next > p
              /\ next = After(p, k, past)
        BY <2>2, NextAttempt
      <3>2. g[next] \in Int
        BY <3>1
      <3>3. Attempt(g, mem, end, toks, past, p) = IF p + k - 1 >= end THEN 0 ELSE g[next]
        BY <2>2, <3>1 DEF Attempt, After
      <3> QED
        BY <3>2, <3>3
    <2> QED
      BY <2>1, <2>2
  <1>3. H \in [[Nat -> Int] -> [Nat -> Int]]
    BY <1>2
  <1>4. rank \in [Nat -> 0 .. end]
    OBVIOUS
  <1>5. ASSUME NEW g \in [Nat -> Int], NEW h \in [Nat -> Int], NEW p \in Nat,
               \A q \in Nat : rank[q] < rank[p] => g[q] = h[q]
        PROVE  H[g][p] = H[h][p]
    <2> SUFFICES Attempt(g, mem, end, toks, past, p) = Attempt(h, mem, end, toks, past, p)
      OBVIOUS
    <2>1. CASE Fails(mem, end, toks, p) = {}
      BY <2>1 DEF Attempt
    <2>2. CASE Fails(mem, end, toks, p) # {}
      <3>1. PICK k \in 1 .. Len(toks), next \in Nat :
              /\ k = Min(Fails(mem, end, toks, p)) /\ next > p
              /\ next = After(p, k, past)
        BY <2>2, NextAttempt
      <3>2. Attempt(g, mem, end, toks, past, p) = (IF p + k - 1 >= end THEN 0 ELSE g[next])
            /\ Attempt(h, mem, end, toks, past, p) = (IF p + k - 1 >= end THEN 0 ELSE h[next])
        BY <2>2, <3>1 DEF Attempt, After
      <3>3. ~(p + k - 1 >= end) => p < end
        BY <1>1, <2>2
      <3>4. p < end => rank[next] < rank[p]
        <4>1. next \in Nat /\ next > p
          BY <3>1
        <4>2. rank[next] = (IF next < end THEN end - next ELSE 0) /\ rank[p] = (IF p < end THEN end - p ELSE 0)
          BY <4>1
        <4>3. CASE next < end
          BY <4>1, <4>2, <4>3
        <4>4. CASE ~(next < end)
          BY <4>1, <4>2, <4>4
        <4> QED
          BY <4>3, <4>4
      <3>5. ~(p + k - 1 >= end) => g[next] = h[next]
        BY <1>5, <3>1, <3>3, <3>4
      <3> QED
        BY <3>2, <3>5
    <2> QED
      BY <2>1, <2>2
  <1>6. Int # {}
    <2>1. 0 \in Int
      OBVIOUS
    <2> QED
      BY <2>1, Zenon
  <1>7. Recursive(Nat, Int, end, rank, H)
    <2> HIDE DEF H, rank
    <2> QED
      BY <1>3, <1>4, <1>5, <1>6 DEF Recursive
  <1>8. PICK f \in [Nat -> Int] : H[f] = f
    <2> HIDE DEF H, rank
    <2>1. PICK D, V : D = Nat /\ V = Int
      OBVIOUS
    <2>2. Recursive(D, V, end, rank, H)
      BY <1>7, <2>1
    <2>3. PICK f \in [D -> V] : H[f] = f
      BY <2>2, Recursion
    <2> QED
      BY <2>1, <2>3
  <1>9. Attempts(f, mem, end, toks, past)
    BY <1>8 DEF Attempts
  <1> QED
    BY <1>9

(* Every token matches from p on, before the end.                          *)
Hit(mem, end, toks, p) ==
  /\ p + Len(toks) <= end
  /\ \A k \in DOMAIN toks : token_match(mem, p + k - 1, toks[k])

(* x is the first match from p on less the past bytes, or 0.            *)
FirstFrom(mem, end, toks, past, p, x) ==
  /\ x \in Int
  /\ x # 0 => x + past \in Nat /\ p <= x + past /\ Hit(mem, end, toks, x + past)
  /\ (\A h \in Nat : p <= h /\ Hit(mem, end, toks, h) => h + Len(toks) < end) =>
       \A h \in Nat : p <= h /\ Hit(mem, end, toks, h) => x # 0 /\ x + past <= h

(* The scan finds the first match, if those there are have room. *)
LEMMA ScanFinds ==
  ASSUME NEW mem, NEW end \in Nat, NEW toks, toks \in Seq(Range(toks)), toks # <<>>,
         NEW past \in Nat, NEW start \in Nat, start > past
  PROVE  FirstFrom(mem, end, toks, past, start, scan(mem, end, toks, past, start))
  <1>0. Len(toks) \in Nat /\ Len(toks) > 0 /\ DOMAIN toks = 1 .. Len(toks)
    BY SeqTyped
  <1>1. PICK g : Attempts(g, mem, end, toks, past) /\ scan(mem, end, toks, past, start) = g[start]
    BY AttemptsExist, ScanIs
  <1> DEFINE P == {p \in Nat : p > past => FirstFrom(mem, end, toks, past, p, g[p])}
  <1>2. \A p \in Nat : g[p] = Attempt(g, mem, end, toks, past, p)
    BY <1>1 DEF Attempts
  <1>3. ASSUME NEW p \in Nat, p > past, \A q \in Nat : p < q => q \in P PROVE p \in P
    <2> SUFFICES FirstFrom(mem, end, toks, past, p, g[p])
      OBVIOUS
    <2>1. CASE Fails(mem, end, toks, p) = {}
      <3>1. Hit(mem, end, toks, p)
        BY <1>0, <2>1 DEF Fails, Hit
      <3>2. g[p] = (IF p + Len(toks) < end \/ toks[Len(toks)] = "?" THEN p - past ELSE 0)
        BY <1>2, <2>1 DEF Attempt
      <3>3. p - past # 0 /\ (p - past) + past = p /\ p - past \in Int
        BY <1>3
      <3> QED
        BY <1>0, <3>1, <3>2, <3>3 DEF FirstFrom
    <2>2. CASE Fails(mem, end, toks, p) # {}
      <3>1. PICK k \in 1 .. Len(toks) :
              /\ k = Min(Fails(mem, end, toks, p)) /\ k \in Fails(mem, end, toks, p)
              /\ p > past => After(p, k, past) = p + 1
        BY <2>2, NextAttempt
      <3>2. k \in Fails(mem, end, toks, p)
            /\ After(p, k, past) = p + 1
        BY <1>3, <3>1
      <3>3. g[p] = IF p + k - 1 >= end THEN 0 ELSE g[p + 1]
        BY <1>2, <2>2, <3>1, <3>2 DEF Attempt, After
      <3>4. ~Hit(mem, end, toks, p)
        BY <1>0, <3>2 DEF Fails, Hit
      <3>5. CASE p + k - 1 >= end
        <4>1. ASSUME NEW h \in Nat, p <= h, Hit(mem, end, toks, h) PROVE FALSE
          BY <1>0, <3>1, <3>5, <4>1 DEF Hit
        <4> QED
          BY <3>3, <3>5, <4>1 DEF FirstFrom
      <3>6. CASE ~(p + k - 1 >= end)
        <4>1. FirstFrom(mem, end, toks, past, p + 1, g[p + 1])
          BY <1>3
        <4>2. \A h \in Nat : p <= h /\ Hit(mem, end, toks, h) => p + 1 <= h
          BY <3>4
        <4> DEFINE x == g[p + 1]
        <4>3. g[p] = x
          BY <3>3, <3>6
        <4>4. FirstFrom(mem, end, toks, past, p + 1, x)
          BY <4>1
        <4> HIDE DEF x
        <4> QED
          BY <4>2, <4>3, <4>4 DEF FirstFrom
      <3> QED
        BY <3>5, <3>6
    <2> QED
      BY <2>1, <2>2
  <1>4. ASSUME NEW p \in Nat, p >= end PROVE p \in P
    <2> SUFFICES ASSUME p > past PROVE FirstFrom(mem, end, toks, past, p, g[p])
      OBVIOUS
    <2>1. 1 \in Fails(mem, end, toks, p)
      BY <1>0, <1>4 DEF Fails
    <2>a. Fails(mem, end, toks, p) # {}
      BY <2>1
    <2>2. PICK k \in 1 .. Len(toks) : k = Min(Fails(mem, end, toks, p)) /\ After(p, k, past) \in Nat
      BY <2>a, NextAttempt
    <2>3. g[p] = 0
      BY <1>0, <1>2, <1>4, <2>1, <2>2 DEF Attempt
    <2>4. \A h \in Nat : p <= h => ~Hit(mem, end, toks, h)
      BY <1>0, <1>4 DEF Hit
    <2> QED
      BY <2>3, <2>4 DEF FirstFrom
  <1>5. \A p \in Nat : p <= past => p \in P
    OBVIOUS
  <1>6. start \in P
    <2> HIDE DEF P
    <2>1. \A n \in Nat : 0 <= n /\ n < end /\ (\A q \in Nat : n < q => q \in P) => n \in P
      BY <1>3, <1>5
    <2>2. \A n \in Nat : 0 <= n => n \in P
      BY <1>4, <2>1, Downwards
    <2> QED
      BY <2>2
  <1> QED
    BY <1>1, <1>6

(* What is left of a pattern without the wildcards it begins with. *)
Rest(toks) == SubSeq(toks, skipped_start_bytes(toks) + 1, Len(toks))

(* It is what the scan of find_pattern looks for: it begins with a byte,   *)
(* and the wildcards before it stand for n bytes.                          *)
LEMMA RestIs ==
  ASSUME NEW toks, toks \in Seq(Range(toks)), IsPattern(toks)
  PROVE  \E n \in Nat :
           /\ n = skipped_start_bytes(toks) /\ n < Len(toks)
           /\ Rest(toks) \in Seq(Range(Rest(toks))) /\ Len(Rest(toks)) = Len(toks) - n
           /\ \A k \in 1 .. (Len(toks) - n) : Rest(toks)[k] = toks[n + k]
           /\ \A i \in 1 .. n : wildcard(toks[i])
  <1> DEFINE S == {i \in DOMAIN toks : ~wildcard(toks[i])}
  <1>1. Len(toks) \in Nat /\ DOMAIN toks = 1 .. Len(toks)
    BY SeqTyped
  <1>2. S # {} /\ S \in SUBSET Nat /\ S \in SUBSET (1 .. Len(toks))
    BY <1>1 DEF IsPattern
  <1>3. PICK m \in S : m = Min(S) /\ \A i \in S : m <= i
    <2> HIDE DEF S
    <2> QED
      BY <1>2, MinIs
  <1>4. m \in 1 .. Len(toks)
    BY <1>2
  <1>5. m - 1 \in Nat /\ m - 1 = skipped_start_bytes(toks) /\ m - 1 < Len(toks)
    BY <1>1, <1>3, <1>4 DEF skipped_start_bytes
  <1>6. ASSUME NEW i \in 1 .. (m - 1) PROVE wildcard(toks[i])
    <2>1. i \in DOMAIN toks /\ i \in Nat /\ m \in Nat /\ ~(m <= i)
      BY <1>1, <1>4
    <2>2. i \notin S
      BY <1>3, <2>1
    <2> QED
      BY <2>1, <2>2
  <1> DEFINE n == m - 1
  <1>7. Rest(toks) = SubSeq(toks, n + 1, Len(toks))
    BY <1>5 DEF Rest
  <1>8. /\ Rest(toks) \in Seq(Range(toks)) /\ Len(Rest(toks)) = Len(toks) - n
        /\ \A k \in 1 .. (Len(toks) - n) : Rest(toks)[k] = toks[n + k]
    <2>1. n \in Nat /\ n + 1 \in 1 .. Len(toks) /\ Len(toks) \in 1 .. Len(toks)
      BY <1>1, <1>5
    <2> HIDE DEF n
    <2> QED
      BY <1>1, <1>7, <2>1, SubSeqProperties
  <1>9. Rest(toks) \in Seq(Range(Rest(toks)))
    <2>1. \A s, T : s \in Seq(T) => s \in Seq(Range(s))
      BY DEF Range
    <2> QED
      BY <1>8, <2>1
  <1> QED
    BY <1>5, <1>6, <1>8, <1>9

(* The rest of a pattern matches where the pattern does, less what is      *)
(* past.                                                                   *)
LEMMA HitIs ==
  ASSUME NEW mem, NEW toks, toks \in Seq(Range(toks)), IsPattern(toks), NEW start \in Nat, NEW end \in Nat,
         NEW a \in Nat, start <= a
  PROVE  Hit(mem, end, Rest(toks), a + skipped_start_bytes(toks)) <=> a \in occurrences(mem, start, toks, end)
  <1>1. PICK n \in Nat :
           /\ n = skipped_start_bytes(toks) /\ n < Len(toks)
           /\ Rest(toks) \in Seq(Range(Rest(toks))) /\ Len(Rest(toks)) = Len(toks) - n
           /\ \A k \in 1 .. (Len(toks) - n) : Rest(toks)[k] = toks[n + k]
           /\ \A i \in 1 .. n : wildcard(toks[i])
    BY RestIs
  <1> DEFINE r == Rest(toks)
  <1>2. Len(toks) \in Nat /\ DOMAIN toks = 1 .. Len(toks) /\ DOMAIN r = 1 .. (Len(toks) - n)
    BY <1>1, SeqTyped
  <1>3. Hit(mem, end, r, a + n) <=>
          /\ a + n + (Len(toks) - n) <= end
          /\ \A k \in 1 .. (Len(toks) - n) : token_match(mem, a + n + k - 1, r[k])
    BY <1>1, <1>2 DEF Hit
  <1>4. a \in occurrences(mem, start, toks, end) <=>
          /\ a + Len(toks) <= end
          /\ \A i \in 1 .. Len(toks) : token_match(mem, a + i - 1, toks[i])
    BY <1>2 DEF occurrences, token_match
  <1>5. ASSUME \A i \in 1 .. Len(toks) : token_match(mem, a + i - 1, toks[i]),
               NEW k \in 1 .. (Len(toks) - n)
        PROVE  token_match(mem, a + n + k - 1, r[k])
    <2>1. n + k \in 1 .. Len(toks) /\ a + (n + k) - 1 = a + n + k - 1
      BY <1>1, <1>2
    <2>2. r[k] = toks[n + k]
      BY <1>1
    <2> HIDE DEF r
    <2> QED
      BY <1>5, <2>1, <2>2
  <1>6. ASSUME \A k \in 1 .. (Len(toks) - n) : token_match(mem, a + n + k - 1, r[k]),
               NEW i \in 1 .. Len(toks)
        PROVE  token_match(mem, a + i - 1, toks[i])
    <2>1. CASE i <= n
      <3>1. wildcard(toks[i])
        BY <1>1, <2>1
      <3> QED
        BY <3>1 DEF token_match
    <2>2. CASE i > n
      <3>1. PICK k \in 1 .. (Len(toks) - n) : k = i - n
        BY <1>1, <1>2, <2>2
      <3>2. n + k = i /\ a + n + k - 1 = a + i - 1
        BY <3>1
      <3>3. r[k] = toks[i]
        BY <1>1, <3>2
      <3> HIDE DEF r
      <3> QED
        BY <1>6, <3>2, <3>3
    <2> QED
      BY <2>1, <2>2, <1>1
  <1>7. a + n + (Len(toks) - n) <= end <=> a + Len(toks) <= end
    BY <1>1, <1>2
  <1> HIDE DEF r
  <1>8. Hit(mem, end, r, a + n) <=> a \in occurrences(mem, start, toks, end)
    BY <1>3, <1>4, <1>5, <1>6, <1>7
  <1> QED
    BY <1>1, <1>8 DEF r

(* A text is at least as long as its tokens are many, and longer than that *)
(* of the rest.                                                            *)
LEMMA TextLengths ==
  ASSUME NEW toks, toks \in Seq(Range(toks)), IsPattern(toks)
  PROVE  /\ text_length(toks) \in Nat /\ text_length(Rest(toks)) \in Nat
         /\ Len(toks) <= text_length(toks) /\ text_length(Rest(toks)) <= text_length(toks)
  <1>1. PICK n \in Nat :
           /\ n = skipped_start_bytes(toks) /\ n < Len(toks)
           /\ Rest(toks) \in Seq(Range(Rest(toks))) /\ Len(Rest(toks)) = Len(toks) - n
           /\ \A k \in 1 .. (Len(toks) - n) : Rest(toks)[k] = toks[n + k]
           /\ \A i \in 1 .. n : wildcard(toks[i])
    BY RestIs
  <1> DEFINE r == Rest(toks)
             S == {i \in DOMAIN toks : width(toks[i]) = 2}
             T == {i \in DOMAIN r : width(r[i]) = 2}
             f == [k \in T |-> n + k]
  <1>2. Len(toks) \in Nat /\ DOMAIN toks = 1 .. Len(toks) /\ DOMAIN r = 1 .. (Len(toks) - n)
    BY <1>1, SeqTyped
  <1>3. IsFiniteSet(S) /\ Cardinality(S) \in Nat
    <2>1. IsFiniteSet(1 .. Len(toks)) /\ S \in SUBSET (1 .. Len(toks))
      BY <1>2, FS_Interval
    <2> HIDE DEF S
    <2> QED
      BY <2>1, FS_Subset, FS_CardinalityType
  <1>4. f \in [T -> S]
    <2> SUFFICES ASSUME NEW k \in T PROVE n + k \in S
      OBVIOUS
    <2>1. k \in 1 .. (Len(toks) - n) /\ width(r[k]) = 2
      BY <1>2
    <2>2. n + k \in 1 .. Len(toks)
      BY <1>1, <1>2, <2>1
    <2>3. r[k] = toks[n + k]
      BY <1>1, <2>1
    <2> QED
      BY <1>2, <2>1, <2>2, <2>3
  <1>5. \A j, k \in T : f[j] = f[k] => j = k
    <2>1. \A j \in T : j \in Nat
      BY <1>2
    <2> HIDE DEF T
    <2> QED
      BY <2>1
  <1>6. Cardinality(T) \in Nat /\ Cardinality(T) <= Cardinality(S)
    <2> HIDE DEF T, S, f
    <2>1. f \in Injection(T, S)
      BY <1>4, <1>5 DEF Injection, IsInjective
    <2> QED
      BY <1>3, <2>1, FS_Injection, FS_CardinalityType
  <1>7. text_length(toks) = Len(toks) + Cardinality(S) + Len(toks) - 1
        /\ text_length(r) = Len(r) + Cardinality(T) + Len(r) - 1
    BY DEF text_length
  <1>8. Len(r) = Len(toks) - n
    BY <1>1
  <1> HIDE DEF r, S, T
  <1>9. /\ text_length(toks) \in Nat /\ text_length(r) \in Nat
        /\ Len(toks) <= text_length(toks) /\ text_length(r) <= text_length(toks)
    BY <1>1, <1>2, <1>3, <1>6, <1>7, <1>8
  <1> QED
    BY <1>9 DEF r

(* x is the first match in a region if those there are have room.          *)
FirstMatch(mem, start, toks, end, x) ==
  LET all == occurrences(mem, start, toks, end)
  IN  /\ x \in all \union {0}
      /\ (\A a \in all : a + text_length(toks) < end) => \A a \in all : x # 0 /\ x <= a

(* Matches are addresses, with the whole pattern inside the region. *)
LEMMA OccurrencesTyped ==
  ASSUME NEW mem, NEW start \in Nat, NEW end \in Nat, NEW toks, toks \in Seq(Range(toks)),
         NEW a \in occurrences(mem, start, toks, end)
  PROVE  a \in Nat /\ start <= a /\ a + Len(toks) <= end
  <1>1. Len(toks) \in Nat
    BY SeqTyped
  <1> QED
    BY <1>1 DEF occurrences

(* find_pattern finds it. *)
LEMMA FindsFirst ==
  ASSUME NEW mem, NEW start \in Nat \ {0}, NEW end \in Nat, start <= end,
         NEW toks, toks \in Seq(Range(toks)), IsPattern(toks)
  PROVE  FirstMatch(mem, start, toks, end, find_pattern(mem, start, toks, end - start))
  <1> DEFINE x == find_pattern(mem, start, toks, end - start)
             r == Rest(toks)
             all == occurrences(mem, start, toks, end)
  <1>1. PICK n \in Nat :
           /\ n = skipped_start_bytes(toks) /\ n < Len(toks)
           /\ r \in Seq(Range(r)) /\ Len(r) = Len(toks) - n
    BY RestIs
  <1>2. Len(toks) \in Nat
    BY SeqTyped
  <1>3. /\ text_length(toks) \in Nat /\ text_length(r) \in Nat
        /\ Len(toks) <= text_length(toks) /\ text_length(r) <= text_length(toks)
    BY TextLengths
  <1>4. start + (end - start) = end
    OBVIOUS
  <1>5. x = IF end - start < text_length(r) THEN 0 ELSE scan(mem, end, r, n, start + n)
    BY <1>1, <1>4 DEF find_pattern, Rest
  <1>6. \A a \in all : a \in Nat /\ start <= a /\ a + Len(toks) <= end
    BY OccurrencesTyped
  <1>7. \A a \in Nat : start <= a => (Hit(mem, end, r, a + n) <=> a \in all)
    BY <1>1, HitIs
  <1> HIDE DEF x, all, r
  <1>8. CASE end - start < text_length(r)
    <2>1. x = 0
      BY <1>5, <1>8
    <2>2. (\A a \in all : a + text_length(toks) < end) => all = {}
      BY <1>3, <1>6, <1>8
    <2> QED
      BY <2>1, <2>2 DEF FirstMatch, x, all
  <1>9. CASE ~(end - start < text_length(r))
    <2>1. PICK p \in Nat : p = start + n /\ p > n
      OBVIOUS
    <2>2. r # <<>>
      BY <1>1, <1>2
    <2>3. FirstFrom(mem, end, r, n, p, x)
      BY <1>1, <1>5, <1>9, <2>1, <2>2, ScanFinds
    <2>4. x \in all \union {0}
      <3> SUFFICES ASSUME x # 0 PROVE x \in all
        OBVIOUS
      <3>1. x \in Int /\ x + n \in Nat /\ p <= x + n /\ Hit(mem, end, r, x + n)
        BY <2>3 DEF FirstFrom
      <3>2. x \in Nat /\ start <= x
        BY <2>1, <3>1
      <3> QED
        BY <1>7, <3>1, <3>2
    <2>5. ASSUME \A a \in all : a + text_length(toks) < end, NEW a \in all PROVE x # 0 /\ x <= a
      <3>1. ASSUME NEW h \in Nat, p <= h, Hit(mem, end, r, h) PROVE h + Len(r) < end
        <4>1. PICK b \in Nat : h = b + n /\ start <= b
          <5>1. h - n \in Nat /\ h = (h - n) + n /\ start <= h - n
            BY <2>1, <3>1
          <5> QED
            BY <5>1
        <4>2. b \in all
          BY <1>7, <3>1, <4>1
        <4>3. b + text_length(toks) < end
          BY <2>5, <4>2
        <4> QED
          BY <1>1, <1>2, <1>3, <4>1, <4>3
      <3>2. a \in Nat /\ start <= a
        BY <1>6
      <3>3. a + n \in Nat /\ p <= a + n /\ Hit(mem, end, r, a + n)
        BY <1>7, <2>1, <3>2
      <3>4. x \in Int /\ x # 0 /\ x + n <= a + n
        BY <2>3, <3>1, <3>3 DEF FirstFrom
      <3> QED
        BY <3>2, <3>4
    <2> QED
      BY <2>4, <2>5 DEF FirstMatch, x, all
  <1> QED
    BY <1>8, <1>9

(* What is not null. *)
Addresses == Nat \ {0}

(* One step of find_unique_pattern's loop, and what follows it, by g. *)
MatchStep(g, mem, toks, end, start) ==
  LET new_match_addr == find_pattern(mem, start, toks, end - start)
  IN  IF start >= end THEN <<>>
      ELSE IF new_match_addr = 0 THEN <<>>
      ELSE <<new_match_addr>> \o g[new_match_addr + 1]

(* g is the recursion that matches_from defines. *)
MatchSteps(g, mem, toks, end) == g = [start \in Addresses |-> MatchStep(g, mem, toks, end, start)]

(* matches_from is what some function of its recursion answers at the      *)
(* start.                                                                  *)
LEMMA MatchesFromIs ==
  ASSUME NEW mem, NEW toks, NEW end, NEW start, NEW f, MatchSteps(f, mem, toks, end)
  PROVE  \E g : MatchSteps(g, mem, toks, end) /\ matches_from(mem, start, toks, end) = g[start]
  <1> DEFINE G == CHOOSE g : MatchSteps(g, mem, toks, end)
  <1>1. matches_from(mem, start, toks, end) = G[start]
    BY DEF matches_from, MatchSteps, MatchStep, Addresses
  <1> QED
    BY <1>1

(* Where the loop goes on. *)
LEMMA MatchIsLater ==
  ASSUME NEW mem, NEW toks, toks \in Seq(Range(toks)), IsPattern(toks), NEW end \in Nat, NEW start \in Addresses,
         start < end
  PROVE  \E x \in Nat : x = find_pattern(mem, start, toks, end - start)
                        /\ (x # 0 => x + 1 \in Addresses /\ start < x + 1)
  <1>1. PICK x : x = find_pattern(mem, start, toks, end - start)
    OBVIOUS
  <1>2. FirstMatch(mem, start, toks, end, x)
    <2>1. start \in Nat \ {0} /\ start <= end
      BY DEF Addresses
    <2> QED
      BY <1>1, <2>1, FindsFirst
  <1>3. x = 0 \/ (x \in Nat /\ start <= x)
    BY <1>2, OccurrencesTyped DEF FirstMatch, Addresses
  <1>4. x \in Nat /\ (x # 0 => x + 1 \in Addresses /\ start < x + 1)
    BY <1>3 DEF Addresses
  <1> QED
    BY <1>1, <1>4

(* There is such a function: each step looks further on. *)
LEMMA MatchStepsExist ==
  ASSUME NEW mem, NEW toks, toks \in Seq(Range(toks)), IsPattern(toks), NEW end \in Nat
  PROVE  \E f \in [Addresses -> Seq(Nat)] : MatchSteps(f, mem, toks, end)
  <1> DEFINE V == Seq(Nat)
             H == [g \in [Addresses -> V] |-> [s \in Addresses |-> MatchStep(g, mem, toks, end, s)]]
             rank == [s \in Addresses |-> IF s < end THEN end - s ELSE 0]
  <1>1. ASSUME NEW g \in [Addresses -> V], NEW s \in Addresses PROVE MatchStep(g, mem, toks, end, s) \in V
    <2>1. CASE s >= end
      BY <2>1 DEF MatchStep
    <2>2. CASE ~(s >= end)
      <3>1. s < end
        BY <2>2 DEF Addresses
      <3>2. PICK x \in Nat : x = find_pattern(mem, s, toks, end - s)
                             /\ (x # 0 => x + 1 \in Addresses /\ s < x + 1)
        BY <3>1, MatchIsLater
      <3>3. MatchStep(g, mem, toks, end, s) = IF x = 0 THEN <<>> ELSE <<x>> \o g[x + 1]
        BY <2>2, <3>2 DEF MatchStep
      <3>4. x # 0 => g[x + 1] \in V
        BY <3>2
      <3> QED
        BY <3>3, <3>4
    <2> QED
      BY <2>1, <2>2
  <1>2. H \in [[Addresses -> V] -> [Addresses -> V]]
    <2> HIDE DEF V
    <2> QED
      BY <1>1
  <1>3. rank \in [Addresses -> 0 .. end]
    BY DEF Addresses
  <1>4. ASSUME NEW g \in [Addresses -> V], NEW h \in [Addresses -> V], NEW s \in Addresses,
               \A q \in Addresses : rank[q] < rank[s] => g[q] = h[q]
        PROVE  H[g][s] = H[h][s]
    <2> HIDE DEF V
    <2> SUFFICES MatchStep(g, mem, toks, end, s) = MatchStep(h, mem, toks, end, s)
      OBVIOUS
    <2>1. CASE s >= end
      BY <2>1 DEF MatchStep
    <2>2. CASE ~(s >= end)
      <3>1. s < end
        BY <2>2 DEF Addresses
      <3>2. PICK x \in Nat : x = find_pattern(mem, s, toks, end - s)
                             /\ (x # 0 => x + 1 \in Addresses /\ s < x + 1)
        BY <3>1, MatchIsLater
      <3>3. MatchStep(g, mem, toks, end, s) = (IF x = 0 THEN <<>> ELSE <<x>> \o g[x + 1])
            /\ MatchStep(h, mem, toks, end, s) = (IF x = 0 THEN <<>> ELSE <<x>> \o h[x + 1])
        BY <2>2, <3>2 DEF MatchStep
      <3>4. x # 0 => rank[x + 1] < rank[s]
        <4> SUFFICES ASSUME x # 0 PROVE rank[x + 1] < rank[s]
          OBVIOUS
        <4>1. x + 1 \in Addresses /\ s < x + 1 /\ s \in Int
          BY <3>2 DEF Addresses
        <4>2. rank[x + 1] = (IF x + 1 < end THEN end - (x + 1) ELSE 0) /\ rank[s] = end - s
          BY <3>1, <4>1
        <4> HIDE DEF rank
        <4>3. CASE x + 1 < end
          BY <4>1, <4>2, <4>3
        <4>4. CASE ~(x + 1 < end)
          BY <3>1, <4>1, <4>2, <4>4
        <4> QED
          BY <4>3, <4>4
      <3>5. x # 0 => g[x + 1] = h[x + 1]
        BY <1>4, <3>2, <3>4
      <3> QED
        BY <3>3, <3>5
    <2> QED
      BY <2>1, <2>2
  <1>5. V # {}
    <2>1. <<>> \in V
      OBVIOUS
    <2> QED
      BY <2>1
  <1>6. Recursive(Addresses, V, end, rank, H)
    <2> HIDE DEF H, rank, V
    <2> QED
      BY <1>2, <1>3, <1>4, <1>5 DEF Recursive
  <1>7. PICK f \in [Addresses -> V] : H[f] = f
    <2> HIDE DEF H, rank, V
    <2> QED
      BY <1>6, Recursion
  <1>8. MatchSteps(f, mem, toks, end)
    BY <1>7 DEF MatchSteps
  <1> QED
    BY <1>8

(* Any function of the recursion answers sequences.                        *)
LEMMA MatchStepsTyped ==
  ASSUME NEW mem, NEW toks, toks \in Seq(Range(toks)), IsPattern(toks), NEW end \in Nat,
         NEW g, MatchSteps(g, mem, toks, end)
  PROVE  \A s \in Addresses : g[s] \in Seq(Nat)
  <1> DEFINE P == {s \in Nat : s \in Addresses => g[s] \in Seq(Nat)}
  <1>1. \A s \in Addresses : g[s] = MatchStep(g, mem, toks, end, s)
    BY DEF MatchSteps
  <1>2. ASSUME NEW s \in Nat, s >= end PROVE s \in P
    <2>1. s \in Addresses => g[s] = <<>>
      BY <1>1, <1>2 DEF MatchStep
    <2>2. <<>> \in Seq(Nat)
      OBVIOUS
    <2> QED
      BY <2>1, <2>2
  <1>3. ASSUME NEW s \in Nat, s < end, \A k \in Nat : s < k => k \in P PROVE s \in P
    <2> SUFFICES ASSUME s \in Addresses PROVE g[s] \in Seq(Nat)
      OBVIOUS
    <2>1. PICK x \in Nat : x = find_pattern(mem, s, toks, end - s)
                           /\ (x # 0 => x + 1 \in Addresses /\ s < x + 1)
      BY <1>3, MatchIsLater
    <2>2. g[s] = IF x = 0 THEN <<>> ELSE <<x>> \o g[x + 1]
      BY <1>1, <1>3, <2>1 DEF MatchStep
    <2>3. x # 0 => g[x + 1] \in Seq(Nat)
      BY <1>3, <2>1
    <2> QED
      BY <2>2, <2>3
  <1> HIDE DEF P
  <1>4. \A s \in Nat : 0 <= s /\ s < end /\ (\A k \in Nat : s < k => k \in P) => s \in P
    BY <1>3
  <1>5. \A s \in Nat : 0 <= s => s \in P
    BY <1>2, <1>4, Downwards
  <1> QED
    BY <1>5 DEF P, Addresses

(* A finite set with two elements has more than one.                       *)
LEMMA TwoOf ==
  ASSUME NEW S, IsFiniteSet(S)
  PROVE  Cardinality(S) > 1 <=> \E a, b \in S : a # b
  <1>1. Cardinality(S) \in Nat
    BY FS_CardinalityType
  <1>2. ASSUME NEW a \in S, NEW b \in S, a # b PROVE Cardinality(S) > 1
    <2>1. Cardinality(S) # 0
      BY FS_EmptySet
    <2>2. Cardinality(S) # 1
      BY <1>2, FS_Singleton
    <2> QED
      BY <1>1, <2>1, <2>2
  <1>3. ASSUME Cardinality(S) > 1 PROVE \E a, b \in S : a # b
    <2>1. S # {}
      BY <1>1, <1>3, FS_EmptySet
    <2>2. PICK a \in S : TRUE
      BY <2>1
    <2>3. S # {a}
      BY <1>1, <1>3, FS_Singleton
    <2> QED
      BY <2>2, <2>3
  <1> QED
    BY <1>2, <1>3

(* What find_unique_pattern finds: the first of the matches, and whether   *)
(* there are others, if those there are have room.                         *)
UniqueMatch(mem, start, toks, end, multiple, m) ==
  LET all == occurrences(mem, start, toks, end)
  IN  /\ m.first = find_pattern(mem, start, toks, end - start)
      /\ FirstMatch(mem, start, toks, end, m.first)
      /\ m.multiple \in BOOLEAN
      /\ m.multiple => multiple \/ \E a, b \in all : a # b
      /\ multiple => m.multiple
      /\ (\A a \in all : a + text_length(toks) < end) => ((\E a, b \in all : a # b) => m.multiple)

(* find_unique_pattern finds a first match, and sets multiple when it must *)
(* and never when it may not.                                              *)
LEMMA FindsUnique ==
  ASSUME NEW mem, NEW start \in Addresses, NEW end \in Nat, start <= end, NEW multiple \in BOOLEAN,
         NEW toks, toks \in Seq(Range(toks)), IsPattern(toks)
  PROVE  UniqueMatch(mem, start, toks, end, multiple, find_unique_pattern(mem, multiple, start, toks, end - start))
  <1> DEFINE m == find_unique_pattern(mem, multiple, start, toks, end - start)
             all == occurrences(mem, start, toks, end)
  <1>0. start \in Nat \ {0} /\ start + (end - start) = end
    BY DEF Addresses
  <1>1. PICK g : MatchSteps(g, mem, toks, end) /\ matches_from(mem, start, toks, end) = g[start]
    <2>1. PICK f : MatchSteps(f, mem, toks, end)
      BY <1>0, MatchStepsExist
    <2> QED
      BY <2>1, MatchesFromIs
  <1>2. PICK x : x = find_pattern(mem, start, toks, end - start)
    OBVIOUS
  <1>3. FirstMatch(mem, start, toks, end, x)
    BY <1>0, <1>2, FindsFirst
  <1>4. m = Match(IF g[start] = <<>> THEN 0 ELSE Head(g[start]), multiple \/ Len(g[start]) > 1)
    BY <1>0, <1>1 DEF find_unique_pattern
  <1>5. \A s \in Addresses : g[s] = MatchStep(g, mem, toks, end, s)
    BY <1>1 DEF MatchSteps
  <1>6. \A s \in Addresses : g[s] \in Seq(Nat)
    BY <1>1, MatchStepsTyped
  <1>7. \A a \in all : a \in Nat /\ start <= a /\ a + Len(toks) <= end
    BY <1>0, OccurrencesTyped
  <1>8. Len(toks) \in Nat /\ Len(toks) > 0
    BY SeqTyped DEF IsPattern
  <1> HIDE DEF m, all
  <1>9. CASE start = end \/ x = 0
    <2>1. g[start] = <<>>
      BY <1>0, <1>2, <1>5, <1>9 DEF MatchStep
    <2>2. m.first = 0 /\ m.multiple = multiple
      BY <1>4, <2>1 DEF Match
    <2>3. start = end => all = {}
      BY <1>0, <1>7, <1>8
    <2>4. x = 0
      BY <1>3, <1>9, <2>3 DEF FirstMatch, all
    <2>5. (\A a \in all : a + text_length(toks) < end) => all = {}
      BY <1>3, <2>4 DEF FirstMatch, all
    <2> QED
      BY <1>2, <1>3, <2>2, <2>4, <2>5 DEF UniqueMatch, m, all
  <1>10. CASE start # end /\ x # 0
    <2>1. start < end
      BY <1>0, <1>10
    <2>2. x \in Nat /\ x + 1 \in Addresses /\ start < x + 1
      BY <1>2, <1>10, <2>1, MatchIsLater
    <2>3. g[start] = <<x>> \o g[x + 1]
      <3>1. ~(start >= end)
        BY <1>0, <2>1
      <3> QED
        BY <1>2, <1>5, <1>10, <3>1 DEF MatchStep
    <2>4. g[x + 1] \in Seq(Nat)
      BY <1>6, <2>2
    <2>5. m.first = x /\ m.multiple = (multiple \/ g[x + 1] # <<>>)
      <3> DEFINE s == g[x + 1]
      <3>1. s \in Seq(Nat) /\ g[start] = <<x>> \o s
        BY <2>3, <2>4
      <3> HIDE DEF s
      <3>2. g[start] # <<>> /\ Head(g[start]) = x /\ (Len(g[start]) > 1 <=> s # <<>>)
        BY <2>2, <3>1
      <3> QED
        BY <1>4, <3>2 DEF Match, s
    <2>6. x \in all
      BY <1>3, <1>10 DEF FirstMatch, all
    <2>7. ASSUME g[x + 1] # <<>> PROVE \E a, b \in all : a # b
      <3>1. x + 1 < end
        <4>1. ~(x + 1 >= end)
          BY <1>5, <2>2, <2>7 DEF MatchStep
        <4> QED
          BY <2>2, <4>1
      <3>2. PICK y \in Nat : y = find_pattern(mem, x + 1, toks, end - (x + 1))
        BY <2>2, <3>1, MatchIsLater
      <3>3. y # 0
        BY <1>5, <2>2, <2>7, <3>2 DEF MatchStep
      <3>4. FirstMatch(mem, x + 1, toks, end, y)
        <4>1. x + 1 \in Nat \ {0} /\ x + 1 <= end
          BY <2>2, <3>1 DEF Addresses
        <4> QED
          BY <3>2, <4>1, FindsFirst
      <3>5. y \in occurrences(mem, x + 1, toks, end)
        BY <3>3, <3>4 DEF FirstMatch
      <3>6. y \in all /\ x < y
        BY <1>0, <2>2, <3>5 DEF occurrences, all
      <3> QED
        BY <2>6, <3>6, <2>2
    <2>8. ASSUME \A a \in all : a + text_length(toks) < end, NEW a \in all, NEW b \in all, a # b
          PROVE  g[x + 1] # <<>>
      <3>1. x <= a /\ x <= b /\ a \in Nat /\ b \in Nat
        BY <1>3, <1>7, <2>8 DEF FirstMatch, all
      <3>2. PICK c \in all : x + 1 <= c /\ c \in Nat
        BY <2>2, <2>8, <3>1
      <3>3. c + Len(toks) <= end
        BY <1>7
      <3>4. x + 1 < end
        BY <1>8, <2>2, <3>2, <3>3
      <3>5. PICK y \in Nat : y = find_pattern(mem, x + 1, toks, end - (x + 1))
        BY <2>2, <3>4, MatchIsLater
      <3>6. FirstMatch(mem, x + 1, toks, end, y)
        <4>1. x + 1 \in Nat \ {0} /\ x + 1 <= end
          BY <2>2, <3>4 DEF Addresses
        <4> QED
          BY <3>5, <4>1, FindsFirst
      <3>7. occurrences(mem, x + 1, toks, end) \subseteq all
        BY <1>0, <1>7, <2>2 DEF occurrences, all
      <3>8. c \in occurrences(mem, x + 1, toks, end)
        BY <2>2, <3>2 DEF occurrences, all
      <3>9. y # 0
        BY <2>8, <3>6, <3>7, <3>8 DEF FirstMatch
      <3>10. g[x + 1] = <<y>> \o g[y + 1]
        <4>1. ~(x + 1 >= end)
          BY <2>2, <3>4
        <4> QED
          BY <1>5, <2>2, <3>5, <3>9, <4>1 DEF MatchStep
      <3>11. y + 1 \in Addresses
        BY DEF Addresses
      <3>12. g[y + 1] \in Seq(Nat)
        BY <1>6, <3>11
      <3> QED
        BY <3>10, <3>12
    <2> QED
      BY <1>2, <1>3, <2>5, <2>7, <2>8 DEF UniqueMatch, m, all
  <1> QED
    BY <1>0, <1>9, <1>10

(* A region's turn in mapped_file_unique_pattern.                          *)
RegionStep(mem, toks, sofar, region) ==
  LET here == find_unique_pattern(mem, sofar.multiple, region.start, toks, region.end - region.start)
  IN  IF region.readable
        THEN Match(IF sofar.first = 0 THEN here.first ELSE sofar.first, here.multiple)
        ELSE sofar

(* g is the recursion of mapped_file_unique_pattern over sets of regions. *)
RegionSteps(g, mem, multiple, toks, regions) ==
  g = [s \in SUBSET (DOMAIN regions) |->
         IF s = {} THEN Match(0, multiple)
         ELSE RegionStep(mem, toks, g[s \ {Max(s)}], regions[Max(s)])]

(* mapped_file_unique_pattern is what some function of its recursion       *)
(* answers for all the regions.                                            *)
LEMMA MappedIs ==
  ASSUME NEW mem, NEW multiple, NEW toks, NEW regions, NEW f, RegionSteps(f, mem, multiple, toks, regions)
  PROVE  \E g : RegionSteps(g, mem, multiple, toks, regions)
                /\ mapped_file_unique_pattern(mem, multiple, toks, regions) = g[DOMAIN regions]
  <1> DEFINE G == CHOOSE g : RegionSteps(g, mem, multiple, toks, regions)
  <1>1. mapped_file_unique_pattern(mem, multiple, toks, regions) = G[DOMAIN regions]
    BY DEF mapped_file_unique_pattern, FoldLeft, MapThenFoldSet, RegionSteps, RegionStep
  <1> QED
    BY <1>1

(* Of two regions the first comes first. *)
LEMMA MappedTwo ==
  ASSUME NEW mem, NEW multiple, NEW toks, NEW r, NEW t, NEW regions, regions = <<r, t>>
  PROVE  mapped_file_unique_pattern(mem, multiple, toks, regions)
         = RegionStep(mem, toks, RegionStep(mem, toks, Match(0, multiple), r), t)
  <1> DEFINE one == RegionStep(mem, toks, Match(0, multiple), r)
             f == [s \in SUBSET {1, 2} |->
                     IF s = {} THEN Match(0, multiple)
                     ELSE IF s = {1} THEN one
                     ELSE IF s = {2} THEN RegionStep(mem, toks, Match(0, multiple), t)
                     ELSE RegionStep(mem, toks, one, t)]
  <1>1. DOMAIN regions = {1, 2} /\ regions[1] = r /\ regions[2] = t
    OBVIOUS
  <1>2. Max({1}) = 1 /\ Max({2}) = 2 /\ Max({1, 2}) = 2
    BY DEF Max
  <1>3. {1} \ {1} = {} /\ {2} \ {2} = {} /\ {1, 2} \ {2} = {1}
    OBVIOUS
  <1>4. \A s \in SUBSET {1, 2} : s = {} \/ s = {1} \/ s = {2} \/ s = {1, 2}
    OBVIOUS
  <1>5. {1} # {} /\ {2} # {} /\ {1, 2} # {} /\ {1} # {2} /\ {1, 2} # {1} /\ {1, 2} # {2}
    OBVIOUS
  <1>a. {} \in SUBSET {1, 2} /\ {1} \in SUBSET {1, 2} /\ {2} \in SUBSET {1, 2} /\ {1, 2} \in SUBSET {1, 2}
    OBVIOUS
  <1>6. f[{}] = Match(0, multiple) /\ f[{1}] = one
        /\ f[{2}] = RegionStep(mem, toks, Match(0, multiple), t) /\ f[{1, 2}] = RegionStep(mem, toks, one, t)
    BY <1>5, <1>a
  <1>7. ASSUME NEW s \in SUBSET {1, 2}
        PROVE  f[s] = IF s = {} THEN Match(0, multiple)
                      ELSE RegionStep(mem, toks, f[s \ {Max(s)}], regions[Max(s)])
    <2> HIDE DEF f
    <2>1. CASE s = {}
      BY <1>6, <2>1
    <2>2. CASE s = {1}
      BY <1>1, <1>2, <1>3, <1>5, <1>6, <2>2
    <2>3. CASE s = {2}
      BY <1>1, <1>2, <1>3, <1>5, <1>6, <2>3
    <2>4. CASE s = {1, 2}
      BY <1>1, <1>2, <1>3, <1>5, <1>6, <2>4
    <2> QED
      BY <1>4, <2>1, <2>2, <2>3, <2>4
  <1>8. RegionSteps(f, mem, multiple, toks, regions)
    <2>1. f = [s \in SUBSET {1, 2} |-> f[s]]
      OBVIOUS
    <2> HIDE DEF f
    <2>2. f = [s \in SUBSET {1, 2} |-> IF s = {} THEN Match(0, multiple)
                      ELSE RegionStep(mem, toks, f[s \ {Max(s)}], regions[Max(s)])]
      BY <1>7, <2>1
    <2> QED
      BY <1>1, <2>2 DEF RegionSteps
  <1>9. PICK g : RegionSteps(g, mem, multiple, toks, regions)
                 /\ mapped_file_unique_pattern(mem, multiple, toks, regions) = g[DOMAIN regions]
    <2> HIDE DEF f
    <2> QED
      BY <1>8, MappedIs
  <1>10. \A s \in SUBSET {1, 2} :
            g[s] = IF s = {} THEN Match(0, multiple)
                   ELSE RegionStep(mem, toks, g[s \ {Max(s)}], regions[Max(s)])
    BY <1>1, <1>9 DEF RegionSteps
  <1>11. g[{}] = Match(0, multiple)
    BY <1>10, <1>a
  <1>12. g[{1}] = one
    BY <1>1, <1>2, <1>3, <1>5, <1>10, <1>11, <1>a
  <1>13. g[{1, 2}] = RegionStep(mem, toks, one, t)
    BY <1>1, <1>2, <1>3, <1>5, <1>10, <1>12, <1>a
  <1> QED
    BY <1>1, <1>9, <1>13

--------------------------------------------------------------------------------
(* Inputs are what the environment may give. *)
InputOK == PatternInput(input) \/ StringInput(input) \/ CodeInput(input) \/ CallInput(input)

(* A result is what the function returns for the input. *)
ResultOK ==
  /\ Got("pattern") => result = scanned(input)
  /\ Got("strings") => result = added(input)
  /\ Got("code") => result = traced(input)
  /\ Got("call") => result = call(input.call)

(* The inductive invariant. *)
IInv == InputOK /\ ResultOK

(* It holds at first. *)
LEMMA Initially == Init => IInv
  BY DEF Init, IInv, InputOK, ResultOK, Got

(* Every call keeps it. *)
LEMMA Steps == IInv /\ [Next]_vars => IInv'
  <1> SUFFICES ASSUME IInv, [Next]_vars PROVE IInv'
    OBVIOUS
  <1>1. input' = input
    BY DEF Next, Scan, Compare, Trace, CallMember, vars
  <1>2. InputOK'
    BY <1>1 DEF IInv, InputOK, PatternInput, StringInput, CodeInput, CallInput
  <1>3. CASE Scan
    BY <1>1, <1>2, <1>3 DEF IInv, ResultOK, Got, Scan
  <1>4. CASE Compare
    BY <1>1, <1>2, <1>4 DEF IInv, ResultOK, Got, Compare
  <1>5. CASE Trace
    BY <1>1, <1>2, <1>5 DEF IInv, ResultOK, Got, Trace
  <1>6. CASE CallMember
    BY <1>1, <1>2, <1>6 DEF IInv, ResultOK, Got, CallMember
  <1>7. CASE UNCHANGED vars
    BY <1>1, <1>2, <1>7 DEF IInv, ResultOK, Got, vars
  <1> QED
    BY <1>2, <1>3, <1>4, <1>5, <1>6, <1>7 DEF IInv, Next

(* Results are those of the functions, for whatever input.                 *)
THEOREM Invariance == Spec => []IInv
  BY Initially, Steps, PTL DEF Spec

(* What is known of a pattern input.                                       *)
LEMMA PatternGiven ==
  ASSUME IInv, Got("pattern")
  PROVE  /\ result = scanned(input)
         /\ Len(input.mem) \in Nat /\ Len(input.mem) + 1 \in Nat /\ end_of(input) = Len(input.mem) + 1
         /\ input.toks \in Seq(Range(input.toks)) /\ IsPattern(input.toks)
         /\ input.border \in Addresses /\ input.border <= Len(input.mem)
  <1>1. PatternInput(input)
    BY DEF IInv, InputOK, Got, StringInput, CodeInput, CallInput
  <1>2. PICK mem \in Memories, toks \in {p \in SomePatterns : IsPattern(p)} : \E border \in {b \in Borders : b <= Len(mem)} :
          input = [kind |-> "pattern", mem |-> mem, toks |-> toks, border |-> border]
    BY <1>1 DEF PatternInput
  <1>3. PICK border \in {b \in Borders : b <= Len(mem)} :
          input = [kind |-> "pattern", mem |-> mem, toks |-> toks, border |-> border]
    BY <1>2
  <1>4. input.mem = mem /\ input.toks = toks /\ input.border = border
    BY <1>3
  <1>5. Len(mem) \in Nat
    BY MemoriesAssumption, SeqTyped
  <1>6. toks \in Seq(Range(toks)) /\ border \in Addresses
    BY PatternsAssumption, MemoriesAssumption DEF Addresses
  <1> QED
    BY <1>4, <1>5, <1>6 DEF IInv, ResultOK, end_of

(* What find_pattern returns for an input that may be given is the first   *)
(* match.                                                                  *)
LEMMA FirstFound == IInv => FindsFirstMatch
  <1> SUFFICES ASSUME IInv, Got("pattern") PROVE FindsFirstMatch
    BY DEF FindsFirstMatch
  <1> DEFINE end == Len(input.mem) + 1
             all == occurrences(input.mem, 1, input.toks, end)
             x == find_pattern(input.mem, 1, input.toks, end - 1)
  <1>1. /\ result = scanned(input)
        /\ Len(input.mem) \in Nat /\ end \in Nat /\ end_of(input) = end
        /\ input.toks \in Seq(Range(input.toks)) /\ IsPattern(input.toks)
    BY PatternGiven
  <1>2. end - 1 = Len(input.mem) /\ 1 \in Nat \ {0} /\ 1 \in Nat /\ 1 <= end
    BY <1>1
  <1>3. result.find = x
    BY <1>1, <1>2 DEF scanned
  <1> HIDE DEF end
  <1>4. FirstMatch(input.mem, 1, input.toks, end, x)
    BY <1>1, <1>2, FindsFirst
  <1>5. \A a \in all : a \in Nat /\ 1 <= a
    BY <1>1, <1>2, OccurrencesTyped
  <1> HIDE DEF all, x
  <1>6. x \in all \union {0}
    BY <1>4 DEF FirstMatch, all
  <1>7. ASSUME \A a \in all : a + text_length(input.toks) < end
        PROVE  x = IF all = {} THEN 0 ELSE Min(all)
    <2>1. \A a \in all : x # 0 /\ x <= a
      BY <1>4, <1>7 DEF FirstMatch, all
    <2>2. CASE all = {}
      BY <1>6, <2>2
    <2>3. CASE all # {}
      <3>1. x \in all /\ all \in SUBSET Nat
        BY <1>5, <1>6, <2>1, <2>3
      <3> QED
        BY <2>1, <2>3, <3>1, MinUnique
    <2> QED
      BY <2>2, <2>3
  <1> QED
    BY <1>1, <1>3, <1>6, <1>7 DEF FindsFirstMatch, roomy, all

(* find_pattern finds the first match of any pattern in any memory.        *)
THEOREM FirstMatchIsFound == Spec => []FindsFirstMatch
  BY FirstFound, Invariance, PTL

(* A region has finitely many matches. *)
LEMMA OccurrencesFinite ==
  ASSUME NEW mem, NEW start \in Nat, NEW end \in Nat, NEW toks, toks \in Seq(Range(toks))
  PROVE  IsFiniteSet(occurrences(mem, start, toks, end))
  <1>1. Len(toks) \in Nat
    BY SeqTyped
  <1>2. end - Len(toks) \in Int
    BY <1>1
  <1>3. IsFiniteSet(start .. (end - Len(toks)))
    BY <1>2, FS_Interval
  <1>4. occurrences(mem, start, toks, end) \in SUBSET (start .. (end - Len(toks)))
    BY DEF occurrences
  <1> QED
    BY <1>3, <1>4, FS_Subset

(* m is found in two regions with the matches A and B. *)
TwoRegions(A, B, m) ==
  /\ m.multiple = ((\E a, b \in A : a # b) \/ \E a, b \in B : a # b)
  /\ m.first = IF A \union B = {} THEN 0 ELSE Min(A \union B)

(* Two regions, one after the other, whose matches have room.              *)
LEMMA MappedFinds ==
  ASSUME NEW mem, NEW toks, toks \in Seq(Range(toks)), IsPattern(toks),
         NEW border \in Addresses, NEW end \in Nat, border <= end, NEW r, NEW t, NEW regions, regions = <<r, t>>,
         r.start = 1, r.end = border, r.readable = TRUE,
         t.start = border, t.end = end, t.readable = TRUE,
         \A a \in occurrences(mem, 1, toks, border) : a + text_length(toks) < border,
         \A a \in occurrences(mem, border, toks, end) : a + text_length(toks) < end
  PROVE  TwoRegions(occurrences(mem, 1, toks, border), occurrences(mem, border, toks, end),
                    mapped_file_unique_pattern(mem, FALSE, toks, regions))
  <1> DEFINE A == occurrences(mem, 1, toks, border)
             B == occurrences(mem, border, toks, end)
             m == mapped_file_unique_pattern(mem, FALSE, toks, regions)
             one == find_unique_pattern(mem, FALSE, 1, toks, border - 1)
             two == find_unique_pattern(mem, one.multiple, border, toks, end - border)
  <1>0. 1 \in Addresses /\ 1 <= border /\ border \in Nat /\ 1 \in Nat
    BY DEF Addresses
  <1>1. UniqueMatch(mem, 1, toks, border, FALSE, one)
    BY <1>0, FindsUnique
  <1>2. one.multiple \in BOOLEAN
    BY <1>1 DEF UniqueMatch
  <1>3. UniqueMatch(mem, border, toks, end, one.multiple, two)
    <2> HIDE DEF one
    <2>1. PICK b \in BOOLEAN : b = one.multiple
      BY <1>2
    <2> QED
      BY <2>1, FindsUnique
  <1>4. RegionStep(mem, toks, Match(0, FALSE), r) = Match(one.first, one.multiple)
    BY DEF RegionStep, Match
  <1>5. m = RegionStep(mem, toks, Match(one.first, one.multiple), t)
    <2>1. m = RegionStep(mem, toks, RegionStep(mem, toks, Match(0, FALSE), r), t)
      <3>1. PICK b \in BOOLEAN : b = FALSE
        OBVIOUS
      <3>2. mapped_file_unique_pattern(mem, b, toks, regions)
            = RegionStep(mem, toks, RegionStep(mem, toks, Match(0, b), r), t)
        BY MappedTwo
      <3> QED
        BY <3>1, <3>2
    <2> HIDE DEF m, one
    <2> QED
      BY <1>4, <2>1
  <1>6. m = Match(IF one.first = 0 THEN two.first ELSE one.first, two.multiple)
    <2> HIDE DEF m
    <2>2. Match(one.first, one.multiple).first = one.first /\ Match(one.first, one.multiple).multiple = one.multiple
      BY DEF Match
    <2> HIDE DEF one
    <2> QED
      BY <1>5, <2>2 DEF RegionStep
  <1>7. m.multiple = two.multiple /\ m.first = IF one.first = 0 THEN two.first ELSE one.first
    <2> HIDE DEF one, two, m
    <2> QED
      BY <1>6 DEF Match
  <1>a. \A a \in A : a \in Nat /\ 1 <= a /\ a + Len(toks) <= border
    BY <1>0, OccurrencesTyped
  <1>b. \A b \in B : b \in Nat /\ border <= b /\ b + Len(toks) <= end
    BY <1>0, OccurrencesTyped
  <1>c. Len(toks) \in Nat
    BY SeqTyped
  <1>8. m.multiple = ((\E a, b \in A : a # b) \/ \E a, b \in B : a # b)
    <2>1. one.multiple <=> \E a, b \in A : a # b
      BY <1>1 DEF UniqueMatch
    <2>2. two.multiple \in BOOLEAN /\ (two.multiple <=> one.multiple \/ \E a, b \in B : a # b)
      <3> HIDE DEF one, two
      <3> QED
        BY <1>3 DEF UniqueMatch
    <2> HIDE DEF one, two, m, A, B
    <2> QED
      BY <1>7, <2>1, <2>2
  <1>9. m.first = IF A \union B = {} THEN 0 ELSE Min(A \union B)
    <2>1. one.first \in A \union {0} /\ \A a \in A : one.first # 0 /\ one.first <= a
      BY <1>1 DEF UniqueMatch, FirstMatch
    <2>2. two.first \in B \union {0} /\ \A b \in B : two.first # 0 /\ two.first <= b
      <3> HIDE DEF one, two
      <3> QED
        BY <1>3 DEF UniqueMatch, FirstMatch
    <2> HIDE DEF one, two, m, A, B
    <2>3. CASE one.first # 0
      <3>1. PICK x \in A : x = one.first /\ \A a \in A : x <= a
        BY <2>1, <2>3
      <3>2. m.first = x
        BY <1>7, <2>3, <3>1
      <3>3. ASSUME NEW n \in A \union B PROVE x <= n
        <4>1. x \in Nat /\ x + Len(toks) <= border /\ border \in Nat
          BY <1>0, <1>a
        <4>2. n \in A => x <= n
          BY <3>1
        <4>3. n \in B => n \in Nat /\ border <= n
          BY <1>b
        <4> QED
          BY <1>c, <4>1, <4>2, <4>3
      <3>4. x \in A \union B /\ A \union B \in SUBSET Nat
        BY <1>a, <1>b
      <3>5. Min(A \union B) = x
        BY <3>3, <3>4, MinUnique
      <3> QED
        BY <3>2, <3>4, <3>5
    <2>4. CASE one.first = 0
      <3>1. A = {} /\ A \union B = B
        BY <2>1, <2>4
      <3>2. m.first = two.first
        BY <1>7, <2>4
      <3>3. CASE B = {}
        BY <2>2, <3>1, <3>2, <3>3
      <3>4. CASE B # {}
        <4>1. PICK x \in B : x = two.first /\ \A b \in B : x <= b
          BY <2>2, <3>4
        <4>2. B \in SUBSET Nat
          BY <1>b
        <4>3. Min(B) = x
          BY <4>1, <4>2, MinUnique
        <4> QED
          BY <3>1, <3>2, <3>4, <4>1, <4>3
      <3> QED
        BY <3>3, <3>4
    <2> QED
      BY <2>3, <2>4
  <1> QED
    BY <1>8, <1>9 DEF TwoRegions

(* What find_unique_pattern returns for an input that may be given, and    *)
(* what it returns for a file mapped as two regions, tells whether there   *)
(* is more than one match.                                                 *)
LEMMA MultipleMeant == IInv => MultipleMeansMultiple
  <1> SUFFICES ASSUME IInv, Got("pattern") PROVE MultipleMeansMultiple
    BY DEF MultipleMeansMultiple
  <1> DEFINE end == Len(input.mem) + 1
             mem == input.mem
             toks == input.toks
             all == occurrences(mem, 1, toks, end)
             u == find_unique_pattern(mem, FALSE, 1, toks, end - 1)
             r == [start |-> 1, end |-> input.border, readable |-> TRUE]
             t == [start |-> input.border, end |-> end, readable |-> TRUE]
             A == occurrences(mem, 1, toks, input.border)
             B == occurrences(mem, input.border, toks, end)
             m == mapped_file_unique_pattern(mem, FALSE, toks, <<r, t>>)
  <1>1. /\ result = scanned(input)
        /\ Len(mem) \in Nat /\ end \in Nat /\ end_of(input) = end
        /\ toks \in Seq(Range(toks)) /\ IsPattern(toks)
        /\ input.border \in Addresses /\ input.border <= Len(input.mem)
    BY PatternGiven
  <1>2. end - 1 = Len(mem) /\ 1 \in Addresses /\ 1 \in Nat /\ 1 <= end /\ input.border \in Nat /\ input.border <= end
    BY <1>1 DEF Addresses
  <1>3. result.find = find_pattern(mem, 1, toks, end - 1) /\ result.unique = u
    BY <1>1, <1>2 DEF scanned
  <1>4. Halves(input) = <<r, t>>
    BY DEF Halves
  <1>5. result.mapped = m
    BY <1>1, <1>4 DEF scanned
  <1>6. Range(Halves(input)) = {r, t}
    <2>1. DOMAIN <<r, t>> = {1, 2} /\ <<r, t>>[1] = r /\ <<r, t>>[2] = t
      OBVIOUS
    <2> HIDE DEF r, t
    <2> QED
      BY <1>4, <2>1 DEF Range
  <1> HIDE DEF end
  <1>7. UniqueMatch(mem, 1, toks, end, FALSE, u)
    BY <1>1, <1>2, FindsUnique
  <1>8. IsFiniteSet(all) /\ IsFiniteSet(A) /\ IsFiniteSet(B)
    BY <1>1, <1>2, OccurrencesFinite
  <1>9. /\ Cardinality(all) > 1 <=> \E a, b \in all : a # b
        /\ Cardinality(A) > 1 <=> \E a, b \in A : a # b
        /\ Cardinality(B) > 1 <=> \E a, b \in B : a # b
    <2> HIDE DEF all, A, B
    <2> QED
      BY <1>8, TwoOf
  <1>10. /\ u.multiple => Cardinality(all) > 1
         /\ roomy(input, 1, end) => u.multiple = (Cardinality(all) > 1)
         /\ u.first = result.find
    <2>1. /\ u.first = result.find
          /\ u.multiple \in BOOLEAN
          /\ u.multiple => \E a, b \in all : a # b
          /\ roomy(input, 1, end) => ((\E a, b \in all : a # b) => u.multiple)
      BY <1>3, <1>7 DEF UniqueMatch, roomy
    <2> HIDE DEF u, all
    <2> QED
      BY <1>9, <2>1
  <1>11. ASSUME roomy(input, r.start, r.end), roomy(input, t.start, t.end)
         PROVE  /\ m.multiple = ((\E a, b \in A : a # b) \/ \E a, b \in B : a # b)
                /\ m.first = IF A \union B = {} THEN 0 ELSE Min(A \union B)
    <2>1. (\A a \in A : a + text_length(toks) < input.border) /\ \A a \in B : a + text_length(toks) < end
      BY <1>11 DEF roomy
    <2>2. r.start = 1 /\ r.end = input.border /\ r.readable = TRUE
      OBVIOUS
    <2>3. t.start = input.border /\ t.end = end /\ t.readable = TRUE
      OBVIOUS
    <2>4. TwoRegions(A, B, m)
      <3>1. PICK regions : regions = <<r, t>>
        OBVIOUS
      <3>2. m = mapped_file_unique_pattern(mem, FALSE, toks, regions)
        BY <3>1
      <3> HIDE DEF r, t, m
      <3> QED
        BY <1>1, <1>2, <2>1, <2>2, <2>3, <3>1, <3>2, MappedFinds
    <2> HIDE DEF A, B, m
    <2> QED
      BY <2>4 DEF TwoRegions
  <1> DEFINE in_region(x) == occurrences(input.mem, x.start, input.toks, x.end)
             regions == Range(Halves(input))
             seen == UNION {in_region(x) : x \in regions}
  <1>12. in_region(r) = A /\ in_region(t) = B
    OBVIOUS
  <1>13. ASSUME \A x \in regions : roomy(input, x.start, x.end)
         PROVE  /\ m.multiple = (\E x \in regions : Cardinality(in_region(x)) > 1)
                /\ m.first = IF seen = {} THEN 0 ELSE Min(seen)
    <2>1. roomy(input, r.start, r.end) /\ roomy(input, t.start, t.end)
      BY <1>6, <1>13
    <2>2. seen = A \union B
      <3> HIDE DEF r, t, A, B
      <3> QED
        BY <1>6, <1>12
    <2>3. (\E x \in regions : Cardinality(in_region(x)) > 1) <=> (Cardinality(A) > 1 \/ Cardinality(B) > 1)
      <3> HIDE DEF r, t, A, B, in_region
      <3> QED
        BY <1>6, <1>12
    <2> HIDE DEF m, A, B, seen, regions, in_region
    <2>4. m.multiple = (\E x \in regions : Cardinality(in_region(x)) > 1)
      BY <1>9, <1>11, <2>1, <2>3
    <2> QED
      BY <1>11, <2>1, <2>2, <2>4
  <1>14. end_of(input) = end /\ result.unique = u /\ result.mapped = m
    BY <1>1, <1>3, <1>5
  <1> HIDE DEF u, m, r, t, A, B
  <1> QED
    BY <1>10, <1>13, <1>14 DEF MultipleMeansMultiple, all

(* find_unique_pattern tells of several matches when there are, in any     *)
(* memory.                                                                 *)
THEOREM SeveralMatchesAreSeen == Spec => []MultipleMeansMultiple
  BY MultipleMeant, Invariance, PTL

(* How many elements of a set are between two numbers. *)
Between(S, i, k) == Cardinality({j \in S : i <= j /\ j <= k})

(* One fewer from the next number on, if the first one is an element.      *)
LEMMA BetweenStep ==
  ASSUME NEW S \in SUBSET Nat, NEW i \in Nat, NEW k \in Nat, i <= k
  PROVE  /\ Between(S, i, k) \in Nat /\ Between(S, i + 1, k) \in Nat
         /\ i \in S => Between(S, i, k) = Between(S, i + 1, k) + 1
         /\ i \notin S => Between(S, i, k) = Between(S, i + 1, k)
  <1> DEFINE all == {j \in S : i <= j /\ j <= k}
             rest == {j \in S : i + 1 <= j /\ j <= k}
  <1>1. IsFiniteSet(rest) /\ IsFiniteSet(all)
    <2>1. rest \in SUBSET Nat /\ (\A j \in rest : j <= k) /\ all \in SUBSET Nat /\ (\A j \in all : j <= k)
      OBVIOUS
    <2> HIDE DEF all, rest
    <2> QED
      BY <2>1, FS_BoundedSetOfNaturals
  <1>2. Cardinality(all) \in Nat /\ Cardinality(rest) \in Nat
    <2> HIDE DEF all, rest
    <2> QED
      BY <1>1, FS_CardinalityType
  <1>0. \A j \in S : j \in Nat /\ (i <= j <=> i = j \/ i + 1 <= j) /\ ~(i + 1 <= i)
    OBVIOUS
  <1>3. CASE i \in S
    <2>1. all = rest \union {i} /\ i \notin rest
      BY <1>0, <1>3
    <2>2. Cardinality(rest \union {i}) = Cardinality(rest) + 1
      <3> HIDE DEF all, rest
      <3> QED
        BY <1>1, <2>1, FS_AddElement
    <2> QED
      BY <1>2, <1>3, <2>1, <2>2 DEF Between
  <1>4. CASE i \notin S
    <2>1. all = rest
      BY <1>0, <1>4
    <2> QED
      BY <1>2, <1>4, <2>1 DEF Between
  <1> QED
    BY <1>3, <1>4

(* None after the last, one at least up to an element.                     *)
LEMMA BetweenEnds ==
  ASSUME NEW S \in SUBSET Nat, NEW i \in Nat
  PROVE  /\ Between(S, i + 1, i) = 0
         /\ \A k \in S : i <= k => Between(S, i, k) >= 1
  <1>0. \A j \in S : j \in Nat /\ ~(i + 1 <= j /\ j <= i)
    OBVIOUS
  <1>1. {j \in S : i + 1 <= j /\ j <= i} = {}
    BY <1>0
  <1>2. Between(S, i + 1, i) = 0
    BY <1>1, FS_EmptySet DEF Between
  <1>3. ASSUME NEW k \in S, i <= k PROVE Between(S, i, k) >= 1
    <2> DEFINE all == {j \in S : i <= j /\ j <= k}
    <2>2. k \in Nat /\ k <= k
      BY <1>0
    <2>a. k \in all
      BY <1>3, <2>2
    <2>b. all \in SUBSET Nat
      BY <1>0
    <2>c. \A j \in all : j <= k
      OBVIOUS
    <2>1. k \in all /\ all \in SUBSET Nat /\ \A j \in all : j <= k
      BY <2>a, <2>b, <2>c
    <2> HIDE DEF all
    <2>3. IsFiniteSet(all)
      BY <2>1, <2>2, FS_BoundedSetOfNaturals
    <2>4. Cardinality(all) \in Nat /\ Cardinality(all) # 0
      BY <2>1, <2>3, FS_CardinalityType, FS_EmptySet
    <2>5. Between(S, i, k) = Cardinality(all)
      BY DEF Between, all
    <2> QED
      BY <2>4, <2>5
  <1> QED
    BY <1>2, <1>3

(* k is where a search ends with a result: the n-th element of C from i    *)
(* on, with no more than r elements of R before it, if r limits them.      *)
Nth(C, R, i, n, r, k) ==
  /\ k \in C /\ i <= k /\ Between(C, i, k) = n
  /\ r < 0 \/ Between(R, i, k) <= r

(* The steps of a search, as the search makes them.                        *)
LEMMA NthSteps ==
  ASSUME NEW C \in SUBSET Nat, NEW R \in SUBSET Nat, C \intersect R = {},
         NEW i \in Nat, NEW n \in Nat \ {0}, NEW r \in Int, NEW k \in C
  PROVE  /\ i \in R /\ r = 0 => ~Nth(C, R, i, n, r, k)
         /\ i \in R /\ r # 0 => (Nth(C, R, i, n, r, k) <=> Nth(C, R, i + 1, n, r - 1, k))
         /\ i \notin R /\ i \notin C => (Nth(C, R, i, n, r, k) <=> Nth(C, R, i + 1, n, r, k))
         /\ i \in C /\ n = 1 => (Nth(C, R, i, n, r, k) <=> k = i)
         /\ i \in C /\ n # 1 => (Nth(C, R, i, n, r, k) <=> Nth(C, R, i + 1, n - 1, r, k))
  <1>0. k \in Nat
    OBVIOUS
  <1>1. CASE ~(i <= k)
    <2>1. ~(i + 1 <= k) /\ k # i
      BY <1>0, <1>1
    <2> QED
      BY <1>1, <2>1 DEF Nth
  <1>2. CASE i <= k
    <2>1. PICK c \in Nat, d \in Nat : c = Between(C, i, k) /\ d = Between(C, i + 1, k)
            /\ (i \in C => c = d + 1) /\ (i \notin C => c = d)
      BY <1>0, <1>2, BetweenStep
    <2>2. PICK p \in Nat, q \in Nat : p = Between(R, i, k) /\ q = Between(R, i + 1, k)
            /\ (i \in R => p = q + 1) /\ (i \notin R => p = q)
      BY <1>0, <1>2, BetweenStep
    <2>3. Nth(C, R, i, n, r, k) <=> c = n /\ (r < 0 \/ p <= r)
      BY <1>2, <2>1, <2>2 DEF Nth
    <2>4. \A m, s : Nth(C, R, i + 1, m, s, k) <=> i + 1 <= k /\ d = m /\ (s < 0 \/ q <= s)
      BY <2>1, <2>2 DEF Nth
    <2>5. i + 1 <= k => d >= 1
      <3>1. i + 1 \in Nat
        OBVIOUS
      <3> QED
        BY <2>1, <3>1, BetweenEnds
    <2>6. i = k => d = 0 /\ q = 0
      BY <2>1, <2>2, BetweenEnds
    <2>7. i = k \/ i + 1 <= k
      BY <1>0, <1>2
    <2>8. i = k => i \in C /\ i \notin R
      OBVIOUS
    <2>a. ~(i = k /\ i + 1 <= k)
      OBVIOUS
    <2>9. i \in R /\ r = 0 => ~Nth(C, R, i, n, r, k)
      BY <2>2, <2>3
    <2>10. i \in R /\ r # 0 => (Nth(C, R, i, n, r, k) <=> Nth(C, R, i + 1, n, r - 1, k))
      BY <2>1, <2>2, <2>3, <2>4, <2>7, <2>8
    <2>11. i \notin R /\ i \notin C => (Nth(C, R, i, n, r, k) <=> Nth(C, R, i + 1, n, r, k))
      BY <2>1, <2>2, <2>3, <2>4, <2>7, <2>8
    <2>12. i \in C /\ n = 1 => (Nth(C, R, i, n, r, k) <=> k = i)
      BY <2>1, <2>2, <2>3, <2>5, <2>6, <2>7, <2>8, <2>a
    <2>13. i \in C /\ n # 1 => (Nth(C, R, i, n, r, k) <=> Nth(C, R, i + 1, n - 1, r, k))
      BY <2>1, <2>2, <2>3, <2>4, <2>5, <2>6, <2>7, <2>8, <2>a
    <2> QED
      BY <2>9, <2>10, <2>11, <2>12, <2>13
  <1> QED
    BY <1>1, <1>2

(* There is but one such place.                                            *)
LEMMA NthUnique ==
  ASSUME NEW C \in SUBSET Nat, NEW R, NEW i \in Nat, NEW n, NEW r, NEW k, NEW m,
         Nth(C, R, i, n, r, k), Nth(C, R, i, n, r, m)
  PROVE  k = m
  <1>1. ASSUME NEW a \in C, NEW b \in C, i <= a, a < b PROVE Between(C, i, a) # Between(C, i, b)
    <2> DEFINE A == {j \in C : i <= j /\ j <= a}
               B == {j \in C : i <= j /\ j <= b}
    <2>0. a \in Nat /\ b \in Nat /\ \A j \in C : j \in Nat /\ (j <= a => j <= b)
      BY <1>1
    <2>a. A \in SUBSET B
      BY <2>0
    <2>b. b \in B /\ b \notin A
      BY <1>1, <2>0
    <2>c. B \in SUBSET Nat /\ \A j \in B : j <= b
      BY <2>0
    <2>1. A \in SUBSET B /\ b \in B /\ b \notin A /\ B \in SUBSET Nat /\ \A j \in B : j <= b
      BY <2>a, <2>b, <2>c
    <2> HIDE DEF A, B
    <2>2. IsFiniteSet(B)
      BY <2>0, <2>1, FS_BoundedSetOfNaturals
    <2>3. Cardinality(A) # Cardinality(B)
      BY <2>1, <2>2, FS_Subset
    <2> QED
      BY <2>3 DEF Between, A, B
  <1>2. k \in C /\ m \in C /\ i <= k /\ i <= m /\ Between(C, i, k) = Between(C, i, m)
    BY DEF Nth
  <1>3. k \in Nat /\ m \in Nat
    BY <1>2
  <1> QED
    BY <1>1, <1>2, <1>3

(* The states of a search: the next word, how many are to be found, and    *)
(* how many returns may be passed.                                         *)
Searches(addrs) == (1 .. Len(addrs) + 1) \X Int \X Int

(* One word of a search, and what follows it, by g. *)
FindStep(g, code, addrs, match, skip, s) ==
  LET i == s[1]
      n == s[2]
      rets == s[3]
  IN  IF i > Len(addrs) THEN None
      ELSE IF code[addrs[i]].id = "RET"
        THEN IF rets = 0 THEN None ELSE g[<<i + 1, n, rets - 1>>]
      ELSE IF ~(match[addrs[i]] # None \/ insn_match(skip, code[addrs[i]])) THEN g[<<i + 1, n, rets>>]
      ELSE IF n = 1 THEN match[addrs[i]]
      ELSE g[<<i + 1, n - 1, rets>>]

(* g is the recursion that find_nth defines. *)
FindSteps(g, code, addrs, match, skip) ==
  g = [s \in Searches(addrs) |-> FindStep(g, code, addrs, match, skip, s)]

(* find_nth is what some function of its recursion answers at the start.   *)
LEMMA FindNthIs ==
  ASSUME NEW code, NEW addrs, NEW n, NEW rets, NEW match, NEW skip, NEW f, FindSteps(f, code, addrs, match, skip)
  PROVE  \E g : /\ FindSteps(g, code, addrs, match, skip)
                /\ find_nth(code, addrs, n, rets, match, skip) = g[<<1, n, rets>>]
  <1> DEFINE G == CHOOSE g : FindSteps(g, code, addrs, match, skip)
  <1>1. find_nth(code, addrs, n, rets, match, skip) = G[<<1, n, rets>>]
    BY DEF find_nth, FindSteps, FindStep, Searches
  <1> QED
    BY <1>1

(* There is a function of the recursion. *)
LEMMA FindStepsExist ==
  ASSUME NEW code, NEW addrs, addrs \in Seq(Range(addrs)), NEW match, NEW skip
  PROVE  \E f : FindSteps(f, code, addrs, match, skip)
  <1> DEFINE D == Searches(addrs)
             V == {match[addrs[j]] : j \in DOMAIN addrs} \union {None}
             H == [g \in [D -> V] |-> [s \in D |-> FindStep(g, code, addrs, match, skip, s)]]
             rank == [s \in D |-> Len(addrs) + 1 - s[1]]
  <1>0. Len(addrs) \in Nat /\ DOMAIN addrs = 1 .. Len(addrs) /\ Len(addrs) + 1 \in Nat
    BY SeqTyped
  <1>1. \A s \in D : \E i \in 1 .. Len(addrs) + 1, n \in Int, r \in Int : s = <<i, n, r>>
    BY DEF Searches
  <1>2. \A i \in 1 .. Len(addrs) + 1, n \in Int, r \in Int : <<i, n, r>> \in D /\ rank[<<i, n, r>>] = Len(addrs) + 1 - i
    BY DEF Searches
  <1>3. ASSUME NEW i \in 1 .. Len(addrs) + 1, ~(i > Len(addrs)), NEW n \in Int, NEW r \in Int
        PROVE  /\ i \in DOMAIN addrs /\ i + 1 \in 1 .. Len(addrs) + 1 /\ n - 1 \in Int /\ r - 1 \in Int
               /\ <<i + 1, n, r - 1>> \in D /\ <<i + 1, n, r>> \in D /\ <<i + 1, n - 1, r>> \in D
    <2>1. i \in DOMAIN addrs /\ i + 1 \in 1 .. Len(addrs) + 1 /\ n - 1 \in Int /\ r - 1 \in Int
      BY <1>0, <1>3
    <2> QED
      BY <1>2, <2>1
  <1> HIDE DEF D
  <1>4. None \in V /\ \A j \in DOMAIN addrs : match[addrs[j]] \in V
    OBVIOUS
  <1>5. ASSUME NEW g \in [D -> V], NEW s \in D PROVE FindStep(g, code, addrs, match, skip, s) \in V
    <2> HIDE DEF V, rank, H
    <2>1. PICK i \in 1 .. Len(addrs) + 1, n \in Int, r \in Int : s = <<i, n, r>>
      BY <1>1
    <2>2. CASE i > Len(addrs)
      BY <1>4, <2>1, <2>2 DEF FindStep
    <2>3. CASE ~(i > Len(addrs))
      <3>1. i \in DOMAIN addrs /\ g[<<i + 1, n, r - 1>>] \in V /\ g[<<i + 1, n, r>>] \in V /\ g[<<i + 1, n - 1, r>>] \in V
        BY <1>3, <2>3
      <3>2. match[addrs[i]] \in V
        BY <1>4, <3>1
      <3> QED
        BY <1>4, <2>1, <2>3, <3>1, <3>2 DEF FindStep
    <2> QED
      BY <2>2, <2>3
  <1>6. H \in [[D -> V] -> [D -> V]]
    <2> HIDE DEF V
    <2> QED
      BY <1>5
  <1>7. rank \in [D -> 0 .. Len(addrs) + 1]
    <2>1. ASSUME NEW s \in D PROVE rank[s] \in 0 .. Len(addrs) + 1
      <3>1. PICK i \in 1 .. Len(addrs) + 1, n \in Int, r \in Int : s = <<i, n, r>>
        BY <1>1
      <3>2. rank[s] = Len(addrs) + 1 - i
        BY <3>1
      <3> QED
        BY <1>0, <3>2
    <2> QED
      BY <2>1
  <1>8. ASSUME NEW g \in [D -> V], NEW h \in [D -> V], NEW s \in D,
               \A t \in D : rank[t] < rank[s] => g[t] = h[t]
        PROVE  H[g][s] = H[h][s]
    <2> SUFFICES FindStep(g, code, addrs, match, skip, s) = FindStep(h, code, addrs, match, skip, s)
      OBVIOUS
    <2>1. PICK i \in 1 .. Len(addrs) + 1, n \in Int, r \in Int : s = <<i, n, r>>
      BY <1>1
    <2> HIDE DEF V, rank, H
    <2>2. CASE i > Len(addrs)
      BY <2>1, <2>2 DEF FindStep
    <2>3. CASE ~(i > Len(addrs))
      <3>1. \A m \in Int, q \in Int : <<i + 1, m, q>> \in D /\ rank[<<i + 1, m, q>>] < rank[s]
        <4>1. i + 1 \in 1 .. Len(addrs) + 1
          BY <1>3, <2>3
        <4>2. Len(addrs) + 1 - (i + 1) < Len(addrs) + 1 - i
          BY <1>0
        <4>3. rank[s] = Len(addrs) + 1 - i
          BY <1>2, <2>1
        <4>4. \A m \in Int, q \in Int : <<i + 1, m, q>> \in D /\ rank[<<i + 1, m, q>>] = Len(addrs) + 1 - (i + 1)
          BY <1>2, <4>1
        <4> QED
          BY <4>2, <4>3, <4>4
      <3>2. \A m \in Int, q \in Int : g[<<i + 1, m, q>>] = h[<<i + 1, m, q>>]
        BY <1>8, <3>1
      <3>3. n - 1 \in Int /\ r - 1 \in Int
        OBVIOUS
      <3>4. g[<<i + 1, n, r - 1>>] = h[<<i + 1, n, r - 1>>] /\ g[<<i + 1, n, r>>] = h[<<i + 1, n, r>>]
            /\ g[<<i + 1, n - 1, r>>] = h[<<i + 1, n - 1, r>>]
        BY <3>2, <3>3
      <3> QED
        BY <2>1, <3>4 DEF FindStep
    <2> QED
      BY <2>2, <2>3
  <1>9. Recursive(D, V, Len(addrs) + 1, rank, H)
    <2>1. V # {}
      BY <1>4
    <2> HIDE DEF V, rank, H
    <2> QED
      BY <1>0, <1>6, <1>7, <1>8, <2>1 DEF Recursive
  <1>10. PICK f \in [D -> V] : H[f] = f
    <2> HIDE DEF V, rank, H
    <2> QED
      BY <1>9, Recursion
  <1>11. FindSteps(f, code, addrs, match, skip)
    <2>1. f = [s \in D |-> FindStep(f, code, addrs, match, skip, s)]
      <3> HIDE DEF V, rank
      <3> QED
        BY <1>10
    <2> QED
      BY <2>1 DEF FindSteps, D
  <1> QED
    BY <1>11

--------------------------------------------------------------------------------
(* The words of a search that count. *)
CountsAt(code, addrs, match, skip) ==
  {j \in DOMAIN addrs : /\ code[addrs[j]].id # "RET"
                        /\ match[addrs[j]] # None \/ insn_match(skip, code[addrs[j]])}

(* The returns among the words of a search. *)
ReturnsAt(code, addrs) == {j \in DOMAIN addrs : code[addrs[j]].id = "RET"}

(* x is what a search from word i on answers: the n-th word that counts.   *)
Answers(code, addrs, match, skip, i, n, rets, x) ==
  LET C == CountsAt(code, addrs, match, skip)
      R == ReturnsAt(code, addrs)
  IN  /\ \A k \in C : Nth(C, R, i, n, rets, k) => x = match[addrs[k]]
      /\ (\A k \in C : ~Nth(C, R, i, n, rets, k)) => x = None

(* The search finds the n-th word that counts, unless returns end it.      *)
LEMMA FindsNth ==
  ASSUME NEW code, NEW addrs, addrs \in Seq(Range(addrs)), NEW n \in Nat \ {0}, NEW rets \in Int,
         NEW match, NEW skip
  PROVE  Answers(code, addrs, match, skip, 1, n, rets, find_nth(code, addrs, n, rets, match, skip))
  <1> DEFINE C == CountsAt(code, addrs, match, skip)
             R == ReturnsAt(code, addrs)
             L == Len(addrs)
  <1>0. Len(addrs) \in Nat /\ DOMAIN addrs = 1 .. Len(addrs) /\ L + 1 \in Nat
    BY SeqTyped
  <1>1. PICK g : /\ FindSteps(g, code, addrs, match, skip)
                 /\ find_nth(code, addrs, n, rets, match, skip) = g[<<1, n, rets>>]
    <2>1. PICK f : FindSteps(f, code, addrs, match, skip)
      BY FindStepsExist
    <2> QED
      BY <2>1, FindNthIs
  <1>2. C \in SUBSET Nat /\ R \in SUBSET Nat /\ C \intersect R = {} /\ C \subseteq 1 .. L
    BY <1>0 DEF CountsAt, ReturnsAt
  <1> DEFINE P == {i \in Nat : i \in 1 .. L + 1 =>
                     \A m \in Nat \ {0}, r \in Int : Answers(code, addrs, match, skip, i, m, r, g[<<i, m, r>>])}
  <1>3. ASSUME NEW i \in 1 .. L + 1, NEW m \in Int, NEW r \in Int
        PROVE  g[<<i, m, r>>]
               = IF i > Len(addrs) THEN None
                 ELSE IF code[addrs[i]].id = "RET"
                   THEN IF r = 0 THEN None ELSE g[<<i + 1, m, r - 1>>]
                 ELSE IF ~(match[addrs[i]] # None \/ insn_match(skip, code[addrs[i]])) THEN g[<<i + 1, m, r>>]
                 ELSE IF m = 1 THEN match[addrs[i]]
                 ELSE g[<<i + 1, m - 1, r>>]
    <2>1. <<i, m, r>> \in Searches(addrs)
      BY DEF Searches
    <2>2. PICK s \in Searches(addrs) : s = <<i, m, r>>
      BY <2>1
    <2>3. g[s] = FindStep(g, code, addrs, match, skip, s)
      BY <1>1 DEF FindSteps
    <2> QED
      BY <2>2, <2>3 DEF FindStep
  <1>4. ASSUME NEW i \in Nat, 1 <= i, i < L + 1, \A k \in Nat : i < k => k \in P PROVE i \in P
    <2> SUFFICES ASSUME NEW m \in Nat \ {0}, NEW r \in Int
                 PROVE  Answers(code, addrs, match, skip, i, m, r, g[<<i, m, r>>])
      OBVIOUS
    <2>1. i \in 1 .. L + 1 /\ ~(i > Len(addrs)) /\ i \in DOMAIN addrs /\ i + 1 \in 1 .. L + 1 /\ i + 1 \in Nat /\ i < i + 1
      BY <1>0, <1>4
    <2>2. \A q \in Nat \ {0}, t \in Int : Answers(code, addrs, match, skip, i + 1, q, t, g[<<i + 1, q, t>>])
      BY <1>4, <2>1
    <2>a. \A q \in Nat \ {0}, t \in Int :
            /\ \A k \in C : Nth(C, R, i + 1, q, t, k) => g[<<i + 1, q, t>>] = match[addrs[k]]
            /\ (\A k \in C : ~Nth(C, R, i + 1, q, t, k)) => g[<<i + 1, q, t>>] = None
      BY <2>2 DEF Answers
    <2>3. g[<<i, m, r>>]
           = IF code[addrs[i]].id = "RET"
             THEN IF r = 0 THEN None ELSE g[<<i + 1, m, r - 1>>]
             ELSE IF ~(match[addrs[i]] # None \/ insn_match(skip, code[addrs[i]])) THEN g[<<i + 1, m, r>>]
             ELSE IF m = 1 THEN match[addrs[i]]
             ELSE g[<<i + 1, m - 1, r>>]
      <3>1. m \in Int
        OBVIOUS
      <3> QED
        BY <1>3, <2>1, <3>1
    <2>4. /\ i \in R <=> code[addrs[i]].id = "RET"
          /\ i \in C <=> (code[addrs[i]].id # "RET" /\ (match[addrs[i]] # None \/ insn_match(skip, code[addrs[i]])))
      BY <2>1 DEF CountsAt, ReturnsAt
    <2> SUFFICES /\ \A k \in C : Nth(C, R, i, m, r, k) => g[<<i, m, r>>] = match[addrs[k]]
                 /\ (\A k \in C : ~Nth(C, R, i, m, r, k)) => g[<<i, m, r>>] = None
      BY DEF Answers
    <2> HIDE DEF C, R, P
    <2>5. \A k \in C :
         /\ i \in R /\ r = 0 => ~Nth(C, R, i, m, r, k)
         /\ i \in R /\ r # 0 => (Nth(C, R, i, m, r, k) <=> Nth(C, R, i + 1, m, r - 1, k))
         /\ i \notin R /\ i \notin C => (Nth(C, R, i, m, r, k) <=> Nth(C, R, i + 1, m, r, k))
         /\ i \in C /\ m = 1 => (Nth(C, R, i, m, r, k) <=> k = i)
         /\ i \in C /\ m # 1 => (Nth(C, R, i, m, r, k) <=> Nth(C, R, i + 1, m - 1, r, k))
      BY <1>2, NthSteps
    <2>6. CASE i \in R /\ r = 0
      <3>1. g[<<i, m, r>>] = None
        BY <2>3, <2>4, <2>6
      <3> QED
        BY <2>5, <2>6, <3>1
    <2>7. CASE i \in R /\ r # 0
      <3>1. g[<<i, m, r>>] = g[<<i + 1, m, r - 1>>] /\ r - 1 \in Int
        BY <2>3, <2>4, <2>7
      <3> QED
        BY <2>5, <2>7, <2>a, <3>1
    <2>8. CASE i \notin R /\ i \notin C
      <3>1. g[<<i, m, r>>] = g[<<i + 1, m, r>>]
        BY <2>3, <2>4, <2>8
      <3> QED
        BY <2>5, <2>8, <2>a, <3>1
    <2>9. CASE i \in C /\ m = 1
      <3>1. g[<<i, m, r>>] = match[addrs[i]]
        BY <2>3, <2>4, <2>9
      <3> QED
        BY <2>5, <2>9, <3>1
    <2>10. CASE i \in C /\ m # 1
      <3>1. g[<<i, m, r>>] = g[<<i + 1, m - 1, r>>] /\ m - 1 \in Nat \ {0}
        BY <2>3, <2>4, <2>10
      <3> QED
        BY <2>5, <2>10, <2>a, <3>1
    <2> QED
      BY <1>2, <2>6, <2>7, <2>8, <2>9, <2>10
  <1>5. ASSUME NEW i \in Nat, i >= L + 1 PROVE i \in P
    <2> SUFFICES ASSUME i \in 1 .. L + 1, NEW m \in Nat \ {0}, NEW r \in Int
                 PROVE  Answers(code, addrs, match, skip, i, m, r, g[<<i, m, r>>])
      OBVIOUS
    <2>1. i > Len(addrs)
      BY <1>0, <1>5
    <2>a. m \in Int
      OBVIOUS
    <2>2. g[<<i, m, r>>] = None
      BY <1>3, <2>1, <2>a
    <2>3. \A k \in C : ~(i <= k)
      BY <1>0, <1>2, <1>5
    <2>4. \A k \in C : ~Nth(C, R, i, m, r, k)
      BY <2>3 DEF Nth
    <2> QED
      BY <2>2, <2>4 DEF Answers
  <1>6. \A i \in Nat : 1 <= i => i \in P
    <2> HIDE DEF P, L
    <2>1. PICK low \in Nat : low = 1
      OBVIOUS
    <2>2. PICK e \in Nat : e = L + 1
      BY <1>0
    <2>3. \A i \in Nat : i >= e => i \in P
      BY <1>5, <2>2
    <2>4. \A i \in Nat : low <= i /\ i < e /\ (\A k \in Nat : i < k => k \in P) => i \in P
      BY <1>4, <2>1, <2>2
    <2>5. \A i \in Nat : low <= i => i \in P
      BY <2>3, <2>4, Downwards
    <2> QED
      BY <2>1, <2>5
  <1>7. 1 \in P /\ 1 \in 1 .. L + 1
    <2> HIDE DEF P
    <2> QED
      BY <1>0, <1>6
  <1>8. Answers(code, addrs, match, skip, 1, n, rets, g[<<1, n, rets>>])
    BY <1>7
  <1> QED
    BY <1>1, <1>8

(* What is known of a code input.                                          *)
LEMMA CodeGiven ==
  ASSUME IInv, Got("code")
  PROVE  /\ result = traced(input)
         /\ input.insns \in Codes /\ input.copied \in Copied /\ input.n \in 1 .. 2 /\ input.rets \in -1 .. 1
         /\ input.include_r \in BOOLEAN
         /\ input = [kind |-> "code", insns |-> input.insns, copied |-> input.copied, n |-> input.n,
                     rets |-> input.rets, include_r |-> input.include_r]
  <1>1. CodeInput(input)
    BY DEF IInv, InputOK, Got, PatternInput, StringInput, CallInput
  <1>2. PICK insns \in Codes, k \in Copied, n \in 1..2, r \in -1..1, include \in BOOLEAN :
          input = [kind |-> "code", insns |-> insns, copied |-> k, n |-> n, rets |-> r, include_r |-> include]
    BY <1>1 DEF CodeInput
  <1> QED
    BY <1>2 DEF IInv, ResultOK

(* Where the j-th word of a hooked function is.                            *)
Moved(i, j) == IF j <= i.copied THEN BufferAt + j - 1 ELSE CodeAt + j - 1

(* The words that are searched are the function's.                         *)
LEMMA SearchedIs ==
  ASSUME NEW i, i.insns \in Codes, i.copied \in Copied,
         NEW addrs, addrs = searched(hooks(i), CodeAt, Len(i.insns))
  PROVE  /\ Len(i.insns) \in Nat /\ DOMAIN i.insns = 1 .. Len(i.insns) /\ i.copied \in Nat
         /\ addrs \in Seq(Range(addrs)) /\ Len(addrs) = Len(i.insns) /\ DOMAIN addrs = 1 .. Len(i.insns)
         /\ \A j \in 1 .. Len(i.insns) :
              /\ addrs[j] = Moved(i, j) /\ addrs[j] \in Words
              /\ hooked(i)[addrs[j]] = i.insns[j]
  <1> DEFINE L == Len(i.insns)
             c == i.copied
             around == CodeAt .. (CodeAt + 2 * L - 1)
             buffer == BufferAt .. (BufferAt + c - 1)
  <1>1. /\ CodeAt \in Int /\ BufferAt \in Int
        /\ c \in Nat /\ c <= L
        /\ around \subseteq Words /\ buffer \subseteq Words /\ around \intersect buffer = {}
    BY LayoutAssumption
  <1>2. L \in Nat /\ DOMAIN i.insns = 1 .. L
    BY LayoutAssumption, SeqTyped
  <1> HIDE DEF L, c, around, buffer
  <1>3. \A a \in Int, n \in Nat : /\ words(a, n) \in Seq(Int) /\ Len(words(a, n)) = n
                                  /\ \A j \in 1 .. n : words(a, n)[j] = a + j - 1
    BY DEF words
  <1>4. addrs \in Seq(Int) /\ Len(addrs) = L /\ \A j \in 1 .. L : addrs[j] = Moved(i, j)
    <2>1. CASE c = 0
      <3>1. hooks(i) = [a \in {} |-> [addr |-> BufferAt, size |-> c]]
        BY <2>1 DEF hooks, c
      <3>2. CodeAt \notin DOMAIN hooks(i)
        BY <3>1
      <3>3. OriginalInstsFor(hooks(i), CodeAt).size = 0
        BY <3>2 DEF OriginalInstsFor
      <3>4. addrs = words(CodeAt, L)
        BY <3>3 DEF searched, L
      <3>5. \A j \in 1 .. L : Moved(i, j) = CodeAt + j - 1
        BY <1>2, <2>1 DEF Moved, c
      <3> QED
        BY <1>1, <1>2, <1>3, <3>4, <3>5
    <2>2. CASE c # 0
      <3>1. hooks(i) = [x \in {CodeAt} |-> [addr |-> BufferAt, size |-> c]]
        BY <2>2 DEF hooks, c
      <3>2. OriginalInstsFor(hooks(i), CodeAt) = [addr |-> BufferAt, size |-> c]
        BY <3>1 DEF OriginalInstsFor
      <3>3. addrs = words(BufferAt, c) \o words(CodeAt + c, L - c)
        <4>1. ~(L < c)
          BY <1>1, <1>2
        <4> QED
          BY <2>2, <3>2, <4>1 DEF searched, L
      <3>4. CodeAt + c \in Int /\ L - c \in Nat
        BY <1>1, <1>2
      <3>5. PICK s \in Seq(Int), t \in Seq(Int) :
              /\ s = words(BufferAt, c) /\ t = words(CodeAt + c, L - c) /\ Len(s) = c /\ Len(t) = L - c
              /\ \A j \in 1 .. c : s[j] = BufferAt + j - 1
              /\ \A j \in 1 .. (L - c) : t[j] = CodeAt + c + j - 1
        BY <1>1, <1>3, <3>4
      <3>6. addrs = s \o t
        BY <3>3, <3>5
      <3>a. /\ addrs \in Seq(Int) /\ Len(addrs) = Len(s) + Len(t)
            /\ \A j \in 1 .. Len(s) + Len(t) : addrs[j] = IF j <= Len(s) THEN s[j] ELSE t[j - Len(s)]
        BY <3>6, ConcatProperties
      <3>b. c + (L - c) = L
        BY <1>1, <1>2
      <3>7. addrs \in Seq(Int) /\ Len(addrs) = L
        BY <3>5, <3>a, <3>b
      <3>c. \A j \in 1 .. L : addrs[j] = IF j <= c THEN s[j] ELSE t[j - c]
        BY <3>5, <3>a, <3>b
      <3>8. ASSUME NEW j \in 1 .. L PROVE addrs[j] = Moved(i, j)
        <4>1. CASE j <= c
          <5>1. j \in 1 .. c /\ addrs[j] = s[j]
            BY <1>1, <1>2, <3>c, <4>1
          <5> QED
            BY <3>5, <4>1, <5>1 DEF Moved, c
        <4>2. CASE ~(j <= c)
          <5>1. j - c \in 1 .. (L - c) /\ addrs[j] = t[j - c]
            BY <1>1, <1>2, <3>c, <4>2
          <5>2. t[j - c] = CodeAt + c + (j - c) - 1
            BY <3>5, <5>1
          <5>3. CodeAt + c + (j - c) - 1 = CodeAt + j - 1
            BY <1>1, <1>2
          <5> QED
            BY <4>2, <5>1, <5>2, <5>3 DEF Moved, c
        <4> QED
          BY <4>1, <4>2
      <3> QED
        BY <3>7, <3>8
    <2> QED
      BY <2>1, <2>2
  <1>5. addrs \in Seq(Range(addrs)) /\ DOMAIN addrs = 1 .. L
    <2>1. DOMAIN addrs = 1 .. L /\ \A j \in 1 .. L : addrs[j] \in Range(addrs)
      BY <1>4 DEF Range
    <2> QED
      BY <1>2, <1>4, <2>1
  <1>6. ASSUME NEW j \in 1 .. L PROVE addrs[j] \in Words /\ hooked(i)[addrs[j]] = i.insns[j]
    <2>1. CASE j <= c
      <3>1. addrs[j] = BufferAt + j - 1
        BY <1>4, <2>1 DEF Moved, c
      <3>2. addrs[j] \in buffer
        BY <1>1, <1>2, <2>1, <3>1 DEF buffer
      <3>3. addrs[j] \in Words /\ addrs[j] \notin around
        BY <1>1, <3>2
      <3>4. addrs[j] \notin CodeAt .. (CodeAt + c - 1)
        BY <1>1, <1>2, <3>3 DEF around
      <3>5. addrs[j] - BufferAt + 1 = j
        BY <1>1, <3>1
      <3> QED
        BY <3>2, <3>3, <3>4, <3>5 DEF hooked, buffer, c
    <2>2. CASE ~(j <= c)
      <3>1. addrs[j] = CodeAt + j - 1
        BY <1>4, <2>2 DEF Moved, c
      <3>2. addrs[j] \in around
        BY <1>1, <1>2, <3>1 DEF around
      <3>3. addrs[j] \in Words /\ addrs[j] \notin buffer
        BY <1>1, <3>2
      <3>4. addrs[j] \notin CodeAt .. (CodeAt + c - 1)
        BY <1>1, <1>2, <2>2, <3>1
      <3>5. addrs[j] - CodeAt + 1 = j
        BY <1>1, <3>1
      <3>6. hooked(i)[addrs[j]] = plain(i)[addrs[j]]
        BY <3>3, <3>4 DEF hooked, buffer, c
      <3>7. plain(i)[addrs[j]] = i.insns[j]
        BY <1>2, <3>3, <3>5 DEF plain
      <3> QED
        BY <3>3, <3>6, <3>7
    <2> QED
      BY <2>1, <2>2
  <1> QED
    BY <1>1, <1>2, <1>4, <1>5, <1>6 DEF L, c

(* The n-th of a function's instructions with one of ids, if no more than  *)
(* rets returns come before it; of any number, if that is -1.              *)
NthWith(insns, ids, n, rets) ==
  {k \in {k \in DOMAIN insns : insns[k].id \in ids /\ Cardinality({j \in 1..k : insns[j].id \in ids}) = n} :
     rets = -1 \/ Cardinality({j \in 1..k : insns[j].id = "RET"}) <= rets}

(* The words that count in a search are the instructions with one of ids.  *)
CountedBy(i, ids, match, skip, addrs) ==
  \A j \in 1 .. Len(i.insns) :
    i.insns[j].id \in ids <=> /\ i.insns[j].id # "RET"
                              /\ match[addrs[j]] # None \/ insn_match(skip, i.insns[j])

(* x is what match gives for the one instruction of K, or None.            *)
FoundIn(i, K, match, addrs, x) ==
  /\ \A k \in K :
       /\ k \in 1 .. Len(i.insns)
       /\ x = match[addrs[k]] /\ addrs[k] = Moved(i, k)
       /\ addrs[k] \in Words /\ hooked(i)[addrs[k]] = i.insns[k]
       /\ \A m \in K : m = k
  /\ K = {} => x = None

(* A search of a hooked function finds it.                                 *)
LEMMA SearchFinds ==
  ASSUME NEW i, i.insns \in Codes, i.copied \in Copied,
         NEW n \in Nat \ {0}, NEW rets \in Int, rets >= -1, NEW match, NEW skip,
         NEW addrs, addrs = searched(hooks(i), CodeAt, Len(i.insns)),
         NEW ids, "RET" \notin ids,
         CountedBy(i, ids, match, skip, addrs),
         NEW x, x = find_nth(hooked(i), addrs, n, rets, match, skip)
  PROVE  FoundIn(i, NthWith(i.insns, ids, n, rets), match, addrs, x)
  <1> DEFINE L == Len(i.insns)
             C == CountsAt(hooked(i), addrs, match, skip)
             R == ReturnsAt(hooked(i), addrs)
             K == NthWith(i.insns, ids, n, rets)
  <1>1. /\ L \in Nat /\ DOMAIN i.insns = 1 .. L /\ i.copied \in Nat
        /\ addrs \in Seq(Range(addrs)) /\ Len(addrs) = L /\ DOMAIN addrs = 1 .. L
        /\ \A j \in 1 .. L :
             /\ addrs[j] = Moved(i, j) /\ addrs[j] \in Words
             /\ hooked(i)[addrs[j]] = i.insns[j]
    BY SearchedIs
  <1>2. Answers(hooked(i), addrs, match, skip, 1, n, rets, x)
    BY <1>1, FindsNth
  <1>3. C = {j \in 1 .. L : i.insns[j].id \in ids}
    BY <1>1 DEF CountsAt, CountedBy
  <1>4. R = {j \in 1 .. L : i.insns[j].id = "RET"}
    BY <1>1 DEF ReturnsAt
  <1>5. C \in SUBSET Nat /\ 1 \in Nat
    BY <1>1, <1>3
  <1>6. ASSUME NEW k PROVE k \in K <=> Nth(C, R, 1, n, rets, k)
    <2>1. CASE k \in C
      <3>1. k \in 1 .. L /\ k \in Nat /\ 1 <= k /\ i.insns[k].id \in ids
        BY <1>1, <1>3, <2>1
      <3>2. \A j : j \in 1 .. k <=> j \in 1 .. L /\ 1 <= j /\ j <= k
        BY <1>1, <3>1
      <3>3. {j \in C : 1 <= j /\ j <= k} = {j \in 1 .. k : i.insns[j].id \in ids}
        BY <1>3, <3>2
      <3>4. {j \in R : 1 <= j /\ j <= k} = {j \in 1 .. k : i.insns[j].id = "RET"}
        BY <1>4, <3>2
      <3>5. rets < 0 <=> rets = -1
        OBVIOUS
      <3> HIDE DEF C, R, L
      <3>6. Nth(C, R, 1, n, rets, k) <=>
              /\ Cardinality({j \in 1 .. k : i.insns[j].id \in ids}) = n
              /\ rets = -1 \/ Cardinality({j \in 1 .. k : i.insns[j].id = "RET"}) <= rets
        BY <2>1, <3>1, <3>3, <3>4, <3>5 DEF Nth, Between
      <3> QED
        BY <1>1, <3>1, <3>6 DEF NthWith
    <2>2. CASE k \notin C
      <3>1. k \notin K
        BY <1>1, <1>3, <2>2 DEF NthWith
      <3> QED
        BY <2>2, <3>1 DEF Nth
    <2> QED
      BY <2>1, <2>2
  <1>7. /\ \A k \in C : Nth(C, R, 1, n, rets, k) => x = match[addrs[k]]
        /\ (\A k \in C : ~Nth(C, R, 1, n, rets, k)) => x = None
    BY <1>2 DEF Answers
  <1> HIDE DEF C, R
  <1>8. ASSUME NEW k \in K
        PROVE  /\ k \in 1 .. L
               /\ x = match[addrs[k]] /\ addrs[k] = Moved(i, k)
               /\ addrs[k] \in Words /\ hooked(i)[addrs[k]] = i.insns[k]
               /\ \A m \in K : m = k
    <2> HIDE DEF K
    <2>1. k \in C /\ Nth(C, R, 1, n, rets, k)
      BY <1>6, <1>8 DEF Nth
    <2>2. k \in 1 .. L /\ i.insns[k].id \in ids
      BY <1>3, <2>1
    <2>3. \A m \in K : m = k
      <3>1. SUFFICES ASSUME NEW m \in K PROVE m = k
        OBVIOUS
      <3>2. Nth(C, R, 1, n, rets, m)
        BY <1>6
      <3>3. PICK one \in Nat : one = 1
        BY <1>5
      <3> QED
        BY <1>5, <2>1, <3>2, <3>3, NthUnique
    <2> QED
      BY <1>1, <1>7, <2>1, <2>2, <2>3
  <1>9. ASSUME K = {} PROVE x = None
    BY <1>6, <1>7, <1>9
  <1> QED
    BY <1>8, <1>9 DEF FoundIn

(* found is what K asks for, in whichever place it is.                     *)
Transparent(i, id, K, found) ==
  IF \E k \in K : i.insns[k].id = id
    THEN \E k \in K :
           /\ found # None
           /\ k > i.copied => found.dst = CodeAt + k - 1 + i.insns[k].target
           /\ k <= i.copied => found.dst = BufferAt + k - 1 + i.insns[k].target
    ELSE found = None

(* What find_nth_b and find_nth_bl give for the instruction they find.     *)
LEMMA BranchFound ==
  ASSUME NEW i, i.insns \in Codes, i.copied \in Copied,
         NEW n \in Nat \ {0}, NEW rets \in Int, rets >= -1,
         NEW id, id # "RET", NEW skip, "RET" \notin skip,
         NEW match,
         match = [a \in Words |-> IF hooked(i)[a].id = id THEN [dst |-> pointing_at(hooked(i)[a], a)] ELSE None],
         NEW x, x = find_nth(hooked(i), searched(hooks(i), CodeAt, Len(i.insns)), n, rets, match, skip)
  PROVE  Transparent(i, id, NthWith(i.insns, {id} \union skip, n, rets), x)
  <1> DEFINE ids == {id} \union skip
             K == NthWith(i.insns, ids, n, rets)
             L == Len(i.insns)
  <1>0. PICK addrs : addrs = searched(hooks(i), CodeAt, Len(i.insns))
    OBVIOUS
  <1>1. \A j \in 1 .. L : addrs[j] \in Words /\ hooked(i)[addrs[j]] = i.insns[j]
    BY <1>0, SearchedIs
  <1>2. \A d : [dst |-> d] # None
    BY DEF None
  <1>3. \A j \in 1 .. L : match[addrs[j]] # None <=> i.insns[j].id = id
    BY <1>1, <1>2
  <1>4. CountedBy(i, ids, match, skip, addrs)
    BY <1>3 DEF insn_match, CountedBy
  <1>5. "RET" \notin ids
    OBVIOUS
  <1>6. FoundIn(i, K, match, addrs, x)
    <2> HIDE DEF ids
    <2> QED
      BY <1>0, <1>4, <1>5, SearchFinds
  <1>7. ASSUME NEW k \in K
        PROVE  /\ i.insns[k].id = id =>
                   /\ x # None
                   /\ k > i.copied => x.dst = CodeAt + k - 1 + i.insns[k].target
                   /\ k <= i.copied => x.dst = BufferAt + k - 1 + i.insns[k].target
               /\ i.insns[k].id # id => x = None
               /\ \A m \in K : m = k
    <2> HIDE DEF K, ids
    <2>1. PICK a : /\ a = addrs[k] /\ a = Moved(i, k) /\ a \in Words /\ hooked(i)[a] = i.insns[k]
                   /\ x = match[a] /\ k \in 1 .. L
      BY <1>6 DEF FoundIn
    <2>2. x = IF i.insns[k].id = id THEN [dst |-> a + i.insns[k].target] ELSE None
      BY <2>1 DEF pointing_at
    <2>3. i.copied \in Nat /\ k \in Nat
      BY <1>0, <2>1, SearchedIs
    <2>4. (k > i.copied => a = CodeAt + k - 1) /\ (k <= i.copied => a = BufferAt + k - 1)
      BY <2>1, <2>3 DEF Moved
    <2>5. \A m \in K : m = k
      BY <1>6 DEF FoundIn
    <2> QED
      BY <1>2, <2>2, <2>3, <2>4, <2>5
  <1>8. K = {} => x = None
    BY <1>6 DEF FoundIn
  <1>9. Transparent(i, id, K, x)
    <2> HIDE DEF K
    <2> QED
      BY <1>7, <1>8 DEF Transparent
  <1> QED
    BY <1>9

(* Searches of a hooked function find what those of a plain one find. *)
LEMMA HooksTransparent == IInv => HooksAreTransparent
  <1> SUFFICES ASSUME IInv, Got("code") PROVE HooksAreTransparent
    BY DEF HooksAreTransparent
  <1> DEFINE i == input
             skip(id) == IF i.include_r THEN (IF id = "B" THEN {"BR"} ELSE {"BLR"}) ELSE {}
             addrs == searched(hooks(i), CodeAt, Len(i.insns))
             match(id) == [a \in Words |-> IF hooked(i)[a].id = id THEN [dst |-> pointing_at(hooked(i)[a], a)] ELSE None]
  <1>1. /\ result = traced(i)
        /\ i.insns \in Codes /\ i.copied \in Copied /\ i.n \in 1 .. 2 /\ i.rets \in -1 .. 1
        /\ i.include_r \in BOOLEAN
    BY CodeGiven
  <1>2. i.n \in Nat \ {0} /\ i.rets \in Int /\ i.rets >= -1
    BY <1>1
  <1>3. DOMAIN hooked(i) = Words
    BY DEF hooked
  <1>4. result.b = find_nth(hooked(i), addrs, i.n, i.rets, match("B"), skip("B"))
    <2>1. result.b = find_nth_b(hooked(i), hooks(i), CodeAt, i.n, i.include_r, i.rets, Len(i.insns))
      BY <1>1 DEF traced
    <2>2. [a \in DOMAIN hooked(i) |-> b_conv(hooked(i)[a], a)] = match("B")
      BY <1>3 DEF b_conv
    <2>3. (IF i.include_r THEN {"BR"} ELSE {}) = skip("B")
      OBVIOUS
    <2> HIDE DEF match, skip
    <2> QED
      BY <2>1, <2>2, <2>3 DEF find_nth_b
  <1>5. result.bl = find_nth(hooked(i), addrs, i.n, i.rets, match("BL"), skip("BL"))
    <2>1. result.bl = find_nth_bl(hooked(i), hooks(i), CodeAt, i.n, i.include_r, i.rets, Len(i.insns))
      BY <1>1 DEF traced
    <2>2. [a \in DOMAIN hooked(i) |-> bl_conv(hooked(i)[a], a)] = match("BL")
      BY <1>3 DEF bl_conv
    <2>3. (IF i.include_r THEN {"BLR"} ELSE {}) = skip("BL")
      OBVIOUS
    <2> HIDE DEF match, skip
    <2> QED
      BY <2>1, <2>2, <2>3 DEF find_nth_bl
  <1>6. ASSUME NEW id \in {"B", "BL"}, NEW found, found = IF id = "B" THEN result.b ELSE result.bl
        PROVE  Transparent(i, id, NthWith(i.insns, {id} \union skip(id), i.n, i.rets), found)
    <2>1. found = find_nth(hooked(i), addrs, i.n, i.rets, match(id), skip(id))
      BY <1>4, <1>5, <1>6
    <2>2. id # "RET" /\ "RET" \notin skip(id)
      OBVIOUS
    <2>3. PICK m, s, n, r : m = match(id) /\ s = skip(id) /\ n = i.n /\ r = i.rets
      OBVIOUS
    <2> HIDE DEF skip
    <2> QED
      BY <1>1, <1>2, <2>1, <2>2, <2>3, BranchFound
  <1>7. \A id \in {"B", "BL"} :
          Transparent(i, id, NthWith(i.insns, {id} \union skip(id), i.n, i.rets), IF id = "B" THEN result.b ELSE result.bl)
    BY <1>6
  <1> HIDE DEF skip
  <1>8. \A id \in {"B", "BL"} :
          Transparent(i, id, nth(i, LAMBDA insn : insn.id \in {id} \union skip(id)), IF id = "B" THEN result.b ELSE result.bl)
    BY <1>7 DEF nth, NthWith
  <1> QED
    BY <1>8 DEF HooksAreTransparent, Transparent, nth, skip

(* A hook does not change what find_nth_b and find_nth_bl find, in any     *)
(* function.                                                               *)
THEOREM HooksDoNotMatter == Spec => []HooksAreTransparent
  BY HooksTransparent, Invariance, PTL

(* Where what k of a function puts in a register is used after it. *)
UsesOf(insns, k) ==
  {j \in DOMAIN insns : j > k /\ insns[j].id \in {"ADD", "LDR"} /\ insns[j].base = insns[k].reg}

(* The search for the register's use, from an instruction on that no hook  *)
(* has moved.                                                              *)
UseAt(i, k, x) ==
  /\ UsesOf(i.insns, k) = {} => x = None
  /\ UsesOf(i.insns, k) # {} =>
       \E m \in UsesOf(i.insns, k) :
         /\ m = Min(UsesOf(i.insns, k))
         /\ x = [at |-> CodeAt + m - 1, reg |-> i.insns[m].reg, imm |-> i.insns[m].imm]

(* The search for a use of a register finds the first one after an         *)
(* instruction that the hook has not moved.                                *)
LEMMA UseFound ==
  ASSUME NEW i, i.insns \in Codes, i.copied \in Copied, NEW k \in DOMAIN i.insns, k > i.copied,
         i.insns[k].id \in {"ADR", "ADRP"},
         NEW at, at = CodeAt + k - 1,
         NEW reg, reg = i.insns[k].reg,
         NEW x, x = find_nth_reg(hooked(i), hooks(i), at, reg, 1, -1, Len(i.insns))
  PROVE  UseAt(i, k, x)
  <1> DEFINE L == Len(i.insns)
             c == i.copied
             around == CodeAt .. (CodeAt + 2 * L - 1)
             buffer == BufferAt .. (BufferAt + c - 1)
             addrs == words(at, L)
             match == [a \in Words |-> reg_match_conv(hooked(i)[a], a, reg)]
             C == CountsAt(hooked(i), addrs, match, {})
             R == ReturnsAt(hooked(i), addrs)
             U == UsesOf(i.insns, k)
  <1>1. /\ CodeAt \in Int /\ BufferAt \in Int
        /\ c \in Nat /\ c <= L
        /\ around \subseteq Words /\ buffer \subseteq Words /\ around \intersect buffer = {}
    BY LayoutAssumption
  <1>2. L \in Nat /\ DOMAIN i.insns = 1 .. L
    BY LayoutAssumption, SeqTyped
  <1>3. k \in Nat /\ 1 <= k /\ k <= L /\ at \in Int
    BY <1>1, <1>2
  <1>4. searched(hooks(i), at, L) = addrs
    <2>1. at \notin DOMAIN hooks(i)
      <3>1. c = 0 \/ at # CodeAt
        BY <1>1, <1>3
      <3> QED
        BY <3>1 DEF hooks, c
    <2>2. OriginalInstsFor(hooks(i), at).size = 0
      BY <2>1 DEF OriginalInstsFor
    <2> QED
      BY <2>2 DEF searched
  <1>5. x = find_nth(hooked(i), addrs, 1, -1, match, {})
    <2>1. DOMAIN hooked(i) = Words
      BY DEF hooked
    <2>2. [a \in DOMAIN hooked(i) |-> reg_match_conv(hooked(i)[a], a, reg)] = match
      BY <2>1
    <2> HIDE DEF match, addrs
    <2> QED
      BY <1>4, <2>2 DEF find_nth_reg
  <1> HIDE DEF L, c, around, buffer
  <1>6. addrs \in Seq(Int) /\ Len(addrs) = L /\ DOMAIN addrs = 1 .. L /\ \A j \in 1 .. L : addrs[j] = at + j - 1
    BY <1>2, <1>3 DEF words
  <1>7. addrs \in Seq(Range(addrs))
    <2>1. \A j \in 1 .. L : addrs[j] \in Range(addrs)
      BY <1>6 DEF Range
    <2> HIDE DEF addrs
    <2> QED
      BY <1>2, <1>6, <2>1
  <1> HIDE DEF addrs
  <1>8. ASSUME NEW j \in 1 .. L
        PROVE  /\ addrs[j] \in Words
               /\ k + j - 1 <= L => k + j - 1 \in 1 .. L /\ hooked(i)[addrs[j]] = i.insns[k + j - 1]
               /\ k + j - 1 > L => hooked(i)[addrs[j]] = [id |-> "invalid"]
    <2>a. j \in Nat /\ 1 <= j /\ j <= L
      BY <1>2
    <2>1. addrs[j] = CodeAt + (k + j - 1) - 1 /\ k + j - 1 \in Nat
      <3>1. addrs[j] = at + j - 1
        BY <1>6
      <3>2. k + j - 1 \in Nat
        BY <1>3, <2>a
      <3>3. at + j - 1 = CodeAt + (k + j - 1) - 1
        BY <1>1, <1>3, <2>a
      <3> QED
        BY <3>1, <3>2, <3>3
    <2>2. addrs[j] \in around
      <3>1. CodeAt + (k + j - 1) - 1 \in CodeAt .. (CodeAt + 2 * L - 1)
        BY <1>1, <1>2, <1>3, <2>a
      <3> QED
        BY <2>1, <3>1 DEF around
    <2>3. addrs[j] \in Words /\ addrs[j] \notin buffer
      BY <1>1, <2>2
    <2>4. addrs[j] \notin CodeAt .. (CodeAt + c - 1)
      BY <1>1, <1>2, <1>3, <2>1, <2>a DEF c
    <2>5. addrs[j] - CodeAt + 1 = k + j - 1
      BY <1>1, <2>1
    <2>6. hooked(i)[addrs[j]] = plain(i)[addrs[j]]
      BY <2>3, <2>4 DEF hooked, buffer, c
    <2>7. plain(i)[addrs[j]] = IF k + j - 1 \in DOMAIN i.insns THEN i.insns[k + j - 1] ELSE [id |-> "invalid"]
      BY <2>3, <2>5 DEF plain
    <2>8. k + j - 1 <= L <=> k + j - 1 \in 1 .. L
      BY <1>2, <1>3
    <2>9. k + j - 1 > L <=> ~(k + j - 1 <= L)
      BY <1>2, <1>3
    <2> QED
      BY <1>2, <2>3, <2>6, <2>7, <2>8, <2>9
  <1>9. \A a \in Words : match[a] = reg_match_conv(hooked(i)[a], a, reg)
    OBVIOUS
  <1>10. \A p, q, r : [at |-> p, reg |-> q, imm |-> r] # None
    BY DEF None
  <1>11. \A j \in 1 .. L : j \in C <=> k + j - 1 \in U
    <2> SUFFICES ASSUME NEW j \in 1 .. L PROVE j \in C <=> k + j - 1 \in U
      OBVIOUS
    <2> HIDE DEF match
    <2> DEFINE insn == hooked(i)[addrs[j]]
    <2>1. match[addrs[j]] = reg_match_conv(insn, addrs[j], reg)
      BY <1>8, <1>9
    <2>2. match[addrs[j]] # None <=> insn.id \in {"ADD", "LDR"} /\ insn.base = reg
      BY <1>10, <2>1 DEF reg_match_conv
    <2>3. j \in C <=> insn.id \in {"ADD", "LDR"} /\ insn.base = reg
      BY <1>6, <2>2 DEF CountsAt, insn_match
    <2>4. k + j - 1 \in Int /\ L \in Int
      BY <1>2, <1>3
    <2>5. CASE k + j - 1 > L
      <3>1. insn.id = "invalid"
        BY <1>8, <2>5
      <3>2. k + j - 1 \notin DOMAIN i.insns
        BY <1>2, <2>4, <2>5
      <3> QED
        BY <2>3, <3>1, <3>2 DEF UsesOf
    <2>6. CASE k + j - 1 <= L
      <3>1. k + j - 1 \in DOMAIN i.insns /\ insn = i.insns[k + j - 1]
        BY <1>2, <1>8, <2>6
      <3>2. k + j - 1 > k \/ k + j - 1 = k
        BY <1>2, <1>3
      <3>3. ~(k > k)
        BY <1>3
      <3>4. i.insns[k].id \notin {"ADD", "LDR"}
        OBVIOUS
      <3> HIDE DEF insn
      <3> QED
        BY <2>3, <3>1, <3>2, <3>3, <3>4 DEF UsesOf
    <2> QED
      BY <2>4, <2>5, <2>6
  <1>12. /\ \A j \in C : Nth(C, R, 1, 1, -1, j) => x = match[addrs[j]]
         /\ (\A j \in C : ~Nth(C, R, 1, 1, -1, j)) => x = None
    <2>a. 1 \in Nat \ {0} /\ -1 \in Int
      OBVIOUS
    <2>1. PICK n \in Nat \ {0}, r \in Int, skip \in {{}} : n = 1 /\ r = -1 /\ skip = {}
      BY <2>a
    <2>2. Answers(hooked(i), addrs, match, skip, 1, n, r, find_nth(hooked(i), addrs, n, r, match, skip))
      <3> HIDE DEF match
      <3> QED
        BY <1>7, FindsNth
    <2> HIDE DEF match
    <2> QED
      BY <1>5, <2>1, <2>2 DEF Answers
  <1>13. C \subseteq 1 .. L
    BY <1>6 DEF CountsAt
  <1> HIDE DEF C, R, match, U
  <1>14. ASSUME U = {} PROVE x = None
    <2>1. C = {}
      BY <1>11, <1>13, <1>14
    <2> QED
      BY <1>12, <2>1
  <1>15. ASSUME U # {}
         PROVE  \E m \in U : m = Min(U) /\ x = [at |-> CodeAt + m - 1, reg |-> i.insns[m].reg, imm |-> i.insns[m].imm]
    <2>1. \A u \in U : u \in Nat /\ k < u /\ u <= L /\ u - k + 1 \in 1 .. L /\ k + (u - k + 1) - 1 = u
      BY <1>2, <1>3 DEF UsesOf, U
    <2>2. U \in SUBSET Nat
      BY <2>1
    <2>3. PICK m \in U : m = Min(U) /\ \A u \in U : m <= u
      BY <1>15, <2>2, MinIs
    <2>4. PICK j \in 1 .. L : j = m - k + 1 /\ k + j - 1 = m
      BY <2>1
    <2>5. j \in C
      BY <1>11, <2>4
    <2>6. \A h \in C : j <= h
      <3>1. SUFFICES ASSUME NEW h \in C PROVE j <= h
        OBVIOUS
      <3>2. h \in 1 .. L
        BY <1>13
      <3>3. k + h - 1 \in U
        BY <1>11, <3>2
      <3>4. m <= k + h - 1 /\ m \in Nat
        BY <2>1, <2>3, <3>3
      <3> QED
        BY <1>2, <1>3, <2>4, <3>2, <3>4
    <2>7. {h \in C : 1 <= h /\ h <= j} = {j}
      <3>1. \A h \in C : h <= j => h = j
        <4>1. \A h \in C : h \in Int
          BY <1>13
        <4> QED
          BY <2>6, <4>1
      <3>2. 1 <= j /\ j <= j
        BY <1>2
      <3> QED
        BY <2>5, <3>1, <3>2
    <2>8. Between(C, 1, j) = 1
      BY <2>7, FS_Singleton DEF Between
    <2>9. Nth(C, R, 1, 1, -1, j)
      BY <1>2, <2>5, <2>8 DEF Nth
    <2>10. x = reg_match_conv(i.insns[m], addrs[j], reg)
      <3>1. x = match[addrs[j]]
        BY <1>12, <2>5, <2>9
      <3>2. addrs[j] \in Words /\ hooked(i)[addrs[j]] = i.insns[k + j - 1]
        BY <1>8, <2>1, <2>4
      <3> QED
        BY <1>9, <2>4, <3>1, <3>2
    <2>11. i.insns[m].id \in {"ADD", "LDR"} /\ i.insns[m].base = reg
      BY DEF UsesOf, U
    <2>12. addrs[j] = CodeAt + m - 1
      BY <1>1, <1>3, <1>6, <2>1, <2>4
    <2>13. x = [at |-> CodeAt + m - 1, reg |-> i.insns[m].reg, imm |-> i.insns[m].imm]
      BY <2>10, <2>11, <2>12 DEF reg_match_conv
    <2> QED
      BY <2>3, <2>13
  <1> QED
    BY <1>14, <1>15 DEF U, UseAt

(* getpcaddr adds the n-th ADR or ADRP and the first use of its register. *)
LEMMA PcAddrSums == IInv => PcAddrAddsUp
  <1> SUFFICES ASSUME IInv, Got("code") PROVE PcAddrAddsUp
    BY DEF PcAddrAddsUp
  <1> DEFINE i == input
             ids == {"ADR", "ADRP"}
             addrs == searched(hooks(i), CodeAt, Len(i.insns))
             match == [a \in Words |-> pc_rel_conv(hooked(i)[a], a)]
             pcrel == find_nth_pc_rel(hooked(i), hooks(i), CodeAt, i.n, -1, Len(i.insns))
             K == NthWith(i.insns, ids, i.n, -1)
  <1>1. /\ result = traced(i)
        /\ i.insns \in Codes /\ i.copied \in Copied /\ i.n \in 1 .. 2
        /\ i = [kind |-> "code", insns |-> i.insns, copied |-> i.copied, n |-> i.n, rets |-> i.rets, include_r |-> i.include_r]
    BY CodeGiven
  <1>2. result.pcaddr = getpcaddr(hooked(i), hooks(i), CodeAt, i.n, 1, Len(i.insns))
    BY <1>1 DEF traced
  <1>3. pcrel = find_nth(hooked(i), addrs, i.n, -1, match, {})
    <2>1. DOMAIN hooked(i) = Words
      BY DEF hooked
    <2>2. [a \in DOMAIN hooked(i) |-> pc_rel_conv(hooked(i)[a], a)] = match
      BY <2>1
    <2> HIDE DEF match
    <2> QED
      BY <2>2 DEF find_nth_pc_rel
  <1>4. \A p, q, r : [at |-> p, reg |-> q, dst |-> r] # None
    BY DEF None
  <1>5. /\ Len(i.insns) \in Nat /\ DOMAIN i.insns = 1 .. Len(i.insns) /\ i.copied \in Nat
        /\ \A j \in 1 .. Len(i.insns) : addrs[j] \in Words /\ hooked(i)[addrs[j]] = i.insns[j]
    <2>1. PICK s : s = addrs
      OBVIOUS
    <2> QED
      BY <1>1, <2>1, SearchedIs
  <1>6. CountedBy(i, ids, match, {}, addrs)
    <2>1. \A j \in 1 .. Len(i.insns) : match[addrs[j]] # None <=> i.insns[j].id \in ids
      <3> HIDE DEF addrs
      <3> QED
        BY <1>4, <1>5 DEF pc_rel_conv
    <2> HIDE DEF match, addrs
    <2> QED
      BY <2>1 DEF CountedBy, insn_match
  <1>7. FoundIn(i, K, match, addrs, pcrel)
    <2>a. i.n \in Nat \ {0} /\ -1 \in Int /\ -1 >= -1 /\ "RET" \notin ids
      BY <1>1
    <2>1. PICK n \in Nat \ {0}, r \in Int, s \in {addrs}, these \in {ids}, skip \in {{}} :
            n = i.n /\ r = -1 /\ s = addrs /\ these = ids /\ skip = {} /\ "RET" \notin these /\ r >= -1
      <3> HIDE DEF addrs, ids
      <3> QED
        BY <2>a
    <2>2. PICK m, x : m = match /\ x = pcrel
      OBVIOUS
    <2>3. CountedBy(i, these, m, skip, s) /\ s = searched(hooks(i), CodeAt, Len(i.insns)) /\ x = find_nth(hooked(i), s, n, r, m, skip)
      <3> HIDE DEF match, pcrel, ids
      <3> QED
        BY <1>3, <1>6, <2>1, <2>2
    <2>4. FoundIn(i, NthWith(i.insns, these, n, r), m, s, x)
      BY <1>1, <2>1, <2>3, SearchFinds
    <2> HIDE DEF match, pcrel, addrs, ids
    <2> QED
      BY <2>1, <2>2, <2>4
  <1>8. ASSUME NEW k \in K, k > i.copied
        PROVE  LET U == UsesOf(i.insns, k)
               IN  result.pcaddr = IF U = {} THEN None
                                   ELSE [at |-> CodeAt + Min(U) - 1, reg |-> i.insns[Min(U)].reg,
                                         dst |-> CodeAt + k - 1 + i.insns[k].target + i.insns[Min(U)].imm]
    <2>1. PICK a : /\ a = addrs[k] /\ a = Moved(i, k) /\ a \in Words /\ hooked(i)[a] = i.insns[k]
                   /\ pcrel = match[a] /\ k \in 1 .. Len(i.insns)
      <3> HIDE DEF K, match, pcrel, addrs
      <3> QED
        BY <1>7 DEF FoundIn
    <2>2. a = CodeAt + k - 1
      BY <1>5, <1>8, <2>1 DEF Moved
    <2>3. i.insns[k].id \in ids
      BY DEF NthWith
    <2>4. pcrel = [at |-> a, reg |-> i.insns[k].reg, dst |-> a + i.insns[k].target]
      <3> HIDE DEF pcrel
      <3> QED
        BY <2>1, <2>3 DEF pc_rel_conv, pointing_at
    <2> HIDE DEF pcrel
    <2>5. pcrel.at = a /\ pcrel.reg = i.insns[k].reg /\ pcrel.dst = a + i.insns[k].target /\ pcrel # None
      BY <1>4, <2>4
    <2>6. PICK reg, x : reg = i.insns[k].reg /\ x = find_nth_reg(hooked(i), hooks(i), a, reg, 1, -1, Len(i.insns))
      OBVIOUS
    <2>a. k \in DOMAIN i.insns
      BY <1>5, <2>1
    <2>7. UseAt(i, k, x)
      <3> HIDE DEF K, match, addrs
      <3> QED
        BY <1>1, <1>8, <2>2, <2>3, <2>6, <2>a, UseFound
    <2>8. result.pcaddr = IF x = None THEN None
                          ELSE [at |-> x.at, reg |-> x.reg, dst |-> a + i.insns[k].target + x.imm]
      <3>1. result.pcaddr = IF pcrel = None \/ x = None THEN None
                            ELSE [at |-> x.at, reg |-> x.reg, dst |-> pcrel.dst + x.imm]
        BY <1>2, <2>5, <2>6 DEF getpcaddr, pcrel
      <3> QED
        BY <2>5, <3>1
    <2>9. \A p, q, r : [at |-> p, reg |-> q, imm |-> r] # None
      BY DEF None
    <2> QED
      BY <2>2, <2>7, <2>8, <2>9 DEF UseAt
  <1>9. nth([i EXCEPT !.rets = -1], LAMBDA insn : insn.id \in {"ADR", "ADRP"}) = K
    <2>1. [i EXCEPT !.rets = -1] = [kind |-> "code", insns |-> i.insns, copied |-> i.copied, n |-> i.n, rets |-> -1, include_r |-> i.include_r]
      BY <1>1
    <2>2. PICK w : w = [i EXCEPT !.rets = -1] /\ w.insns = i.insns /\ w.n = i.n /\ w.rets = -1
      BY <2>1
    <2>3. nth(w, LAMBDA insn : insn.id \in {"ADR", "ADRP"}) = K
      BY <2>2 DEF nth, NthWith
    <2> QED
      BY <2>2, <2>3 DEF nth
  <1> QED
    BY <1>8, <1>9 DEF PcAddrAddsUp, UsesOf, nth

(* getpcaddr adds up what the two instructions say, in any function.       *)
THEOREM AddressesAddUp == Spec => []PcAddrAddsUp
  BY PcAddrSums, Invariance, PTL

(* A string's unit, or -1 after its end. *)
UnitAt(s, p) == IF p \in 1 .. Len(s) THEN s[p] ELSE -1

(* a is less than b at the first position where they are not the same.     *)
LessAt(a, b, m) ==
  /\ m \in Nat \ {0}
  /\ \A p \in Nat \ {0} : p < m => UnitAt(a, p) = UnitAt(b, p)
  /\ UnitAt(a, m) < UnitAt(b, m)

(* What the units of two strings are. *)
LEMMA UnitsAre ==
  ASSUME NEW a \in Seq(Nat), NEW b \in Seq(Nat)
  PROVE  /\ Len(a) \in Nat /\ Len(b) \in Nat /\ DOMAIN a = 1 .. Len(a) /\ DOMAIN b = 1 .. Len(b)
         /\ \A p \in Nat \ {0} : /\ p <= Len(a) => UnitAt(a, p) = a[p] /\ a[p] \in Nat
                                 /\ ~(p <= Len(a)) => UnitAt(a, p) = -1
                                 /\ p <= Len(b) => UnitAt(b, p) = b[p] /\ b[p] \in Nat
                                 /\ ~(p <= Len(b)) => UnitAt(b, p) = -1
         /\ \A p : p \in differences(a, b) <=> p \in Nat \ {0} /\ p <= Len(a) /\ p <= Len(b) /\ a[p] # b[p]
         /\ differences(a, b) \in SUBSET Nat
  <1>1. Len(a) \in Nat /\ Len(b) \in Nat /\ DOMAIN a = 1 .. Len(a) /\ DOMAIN b = 1 .. Len(b)
    OBVIOUS
  <1>2. \A p \in Nat \ {0} : (p \in 1 .. Len(a) <=> p <= Len(a)) /\ (p \in 1 .. Len(b) <=> p <= Len(b))
    BY <1>1
  <1>3. (\A p \in 1 .. Len(a) : a[p] \in Nat) /\ \A p \in 1 .. Len(b) : b[p] \in Nat
    BY <1>1
  <1>4. \A p : p \in 1 .. Len(a) /\ p \in 1 .. Len(b) <=> p \in Nat \ {0} /\ p <= Len(a) /\ p <= Len(b)
    BY <1>1
  <1>5. \A p : p \in differences(a, b) <=> p \in Nat \ {0} /\ p <= Len(a) /\ p <= Len(b) /\ a[p] # b[p]
    BY <1>1, <1>4 DEF differences
  <1>6. differences(a, b) \in SUBSET Nat
    BY <1>5
  <1>7. \A p \in Nat \ {0} : /\ p <= Len(a) => UnitAt(a, p) = a[p] /\ a[p] \in Nat
                             /\ ~(p <= Len(a)) => UnitAt(a, p) = -1
                             /\ p <= Len(b) => UnitAt(b, p) = b[p] /\ b[p] \in Nat
                             /\ ~(p <= Len(b)) => UnitAt(b, p) = -1
    BY <1>2, <1>3 DEF UnitAt
  <1> QED
    BY <1>1, <1>5, <1>6, <1>7

(* strless is the order by the first difference, the end before any unit.  *)
LEMMA LessIs ==
  ASSUME NEW a \in Seq(Nat), NEW b \in Seq(Nat), a # Null, b # Null
  PROVE  strless(a, b) <=> \E m : LessAt(a, b, m)
  <1> DEFINE D == differences(a, b)
  <1>1. /\ Len(a) \in Nat /\ Len(b) \in Nat
        /\ \A p \in Nat \ {0} : /\ p <= Len(a) => UnitAt(a, p) = a[p] /\ a[p] \in Nat
                                /\ ~(p <= Len(a)) => UnitAt(a, p) = -1
                                /\ p <= Len(b) => UnitAt(b, p) = b[p] /\ b[p] \in Nat
                                /\ ~(p <= Len(b)) => UnitAt(b, p) = -1
        /\ \A p : p \in D <=> p \in Nat \ {0} /\ p <= Len(a) /\ p <= Len(b) /\ a[p] # b[p]
        /\ D \in SUBSET Nat
    BY UnitsAre
  <1>2. strless(a, b) <=> IF D = {} THEN Len(a) < Len(b) ELSE a[Min(D)] < b[Min(D)]
    BY DEF strless, strless_impl, shorter
  <1> HIDE DEF D
  <1>3. ASSUME strless(a, b) PROVE \E m : LessAt(a, b, m)
    <2>1. CASE D = {}
      <3>1. Len(a) < Len(b)
        BY <1>2, <1>3, <2>1
      <3>2. PICK m \in Nat \ {0} : m = Len(a) + 1
        BY <1>1
      <3>3. ~(m <= Len(a)) /\ m <= Len(b)
        BY <1>1, <3>1, <3>2
      <3>4. UnitAt(a, m) < UnitAt(b, m)
        BY <1>1, <3>3
      <3>5. ASSUME NEW p \in Nat \ {0}, p < m PROVE UnitAt(a, p) = UnitAt(b, p)
        <4>1. p <= Len(a) /\ p <= Len(b)
          BY <1>1, <3>1, <3>2, <3>5
        <4> QED
          BY <1>1, <2>1, <4>1
      <3> QED
        BY <3>4, <3>5 DEF LessAt
    <2>2. CASE D # {}
      <3>1. PICK m \in D : m = Min(D) /\ \A n \in D : m <= n
        BY <1>1, <2>2, MinIs
      <3>2. a[m] < b[m]
        BY <1>2, <1>3, <2>2, <3>1
      <3>3. m \in Nat \ {0} /\ m <= Len(a) /\ m <= Len(b)
        BY <1>1
      <3>4. UnitAt(a, m) < UnitAt(b, m)
        BY <1>1, <3>2, <3>3
      <3>5. ASSUME NEW p \in Nat \ {0}, p < m PROVE UnitAt(a, p) = UnitAt(b, p)
        <4>1. p <= Len(a) /\ p <= Len(b)
          BY <1>1, <3>3, <3>5
        <4>2. p \notin D
          BY <3>1, <3>3, <3>5
        <4> QED
          BY <1>1, <4>1, <4>2
      <3> QED
        BY <3>3, <3>4, <3>5 DEF LessAt
    <2> QED
      BY <2>1, <2>2
  <1>4. ASSUME NEW m, LessAt(a, b, m) PROVE strless(a, b)
    <2>1. /\ m \in Nat \ {0} /\ UnitAt(a, m) < UnitAt(b, m)
          /\ \A p \in Nat \ {0} : p < m => UnitAt(a, p) = UnitAt(b, p)
      BY <1>4 DEF LessAt
    <2>2. m <= Len(b)
      BY <1>1, <2>1
    <2>3. \A p \in D : m <= p
      <3>1. SUFFICES ASSUME NEW p \in D, ~(m <= p) PROVE FALSE
        OBVIOUS
      <3>2. p \in Nat \ {0} /\ p <= Len(a) /\ p <= Len(b) /\ a[p] # b[p]
        BY <1>1
      <3>3. p < m
        BY <2>1, <3>1, <3>2
      <3> QED
        BY <1>1, <2>1, <3>2, <3>3
    <2>4. CASE m <= Len(a)
      <3>1. a[m] < b[m] /\ a[m] \in Nat /\ b[m] \in Nat
        BY <1>1, <2>1, <2>2, <2>4
      <3>a. a[m] # b[m]
        BY <3>1
      <3>2. m \in D
        BY <1>1, <2>1, <2>2, <2>4, <3>a
      <3>3. Min(D) = m
        BY <1>1, <2>3, <3>2, MinUnique
      <3> QED
        BY <1>2, <3>1, <3>2, <3>3
    <2>5. CASE ~(m <= Len(a))
      <3>1. D = {}
        BY <1>1, <2>1, <2>3, <2>5
      <3>2. Len(a) < Len(b)
        BY <1>1, <2>1, <2>2, <2>5
      <3> QED
        BY <1>2, <3>1, <3>2
    <2> QED
      BY <2>4, <2>5
  <1> QED
    BY <1>3, <1>4

(* Strings without a difference that are as long are the same.             *)
LEMMA SameIs ==
  ASSUME NEW a \in Seq(Nat), NEW b \in Seq(Nat)
  PROVE  /\ differences(a, b) = differences(b, a)
         /\ a = b <=> Len(a) = Len(b) /\ differences(a, b) = {}
  <1>1. /\ \A p : p \in differences(a, b) <=> p \in Nat \ {0} /\ p <= Len(a) /\ p <= Len(b) /\ a[p] # b[p]
        /\ Len(a) \in Nat /\ Len(b) \in Nat
    BY UnitsAre
  <1>2. \A p : p \in differences(b, a) <=> p \in Nat \ {0} /\ p <= Len(b) /\ p <= Len(a) /\ b[p] # a[p]
    BY UnitsAre
  <1>3. ASSUME Len(a) = Len(b), differences(a, b) = {} PROVE a = b
    <2>1. \A p \in 1 .. Len(a) : a[p] = b[p]
      BY <1>1, <1>3
    <2> QED
      BY <1>3, <2>1
  <1> QED
    BY <1>1, <1>2, <1>3

(* strcomp compares.                                                       *)
LEMMA CompIs ==
  ASSUME NEW a \in Seq(Nat) \union {Null}, NEW b \in Seq(Nat) \union {Null}, Null \notin Seq(Nat)
  PROVE  /\ strcomp(a, b) <=> a = b
         /\ a # Null /\ b # Null => (strcomp_impl(a, b) <=> a = b)
  <1>1. CASE a # Null /\ b # Null
    <2>1. a \in Seq(Nat) /\ b \in Seq(Nat)
      BY <1>1
    <2> QED
      BY <1>1, <2>1, SameIs DEF strcomp, strcomp_impl
  <1>2. CASE ~(a # Null /\ b # Null)
    BY <1>2 DEF strcomp, strcomp_impl
  <1> QED
    BY <1>1, <1>2

(* Of two strings exactly one is less, or they are equal.                  *)
LEMMA LessOrEqual ==
  ASSUME NEW a \in Seq(Nat), NEW b \in Seq(Nat), a # Null, b # Null
  PROVE  /\ a = b => ~strless(a, b)
         /\ a # b => strless(a, b) \/ strless(b, a)
         /\ ~(strless(a, b) /\ strless(b, a))
  <1> DEFINE D == differences(a, b)
  <1>1. strless(a, b) <=> IF D = {} THEN Len(a) < Len(b) ELSE a[Min(D)] < b[Min(D)]
    BY DEF strless, strless_impl, shorter
  <1>2. strless(b, a) <=> IF D = {} THEN Len(b) < Len(a) ELSE b[Min(D)] < a[Min(D)]
    BY SameIs DEF strless, strless_impl, shorter
  <1>3. a = b <=> Len(a) = Len(b) /\ D = {}
    BY SameIs
  <1>4. /\ \A p : p \in D <=> p \in Nat \ {0} /\ p <= Len(a) /\ p <= Len(b) /\ a[p] # b[p]
        /\ D \in SUBSET Nat /\ Len(a) \in Nat /\ Len(b) \in Nat
        /\ \A p \in Nat \ {0} : (p <= Len(a) => a[p] \in Nat) /\ (p <= Len(b) => b[p] \in Nat)
    BY UnitsAre
  <1> HIDE DEF D
  <1>5. CASE D = {}
    BY <1>1, <1>2, <1>3, <1>4, <1>5
  <1>6. CASE D # {}
    <2>1. PICK m \in D : m = Min(D)
      BY <1>4, <1>6, MinIs
    <2>2. a[m] # b[m] /\ a[m] \in Nat /\ b[m] \in Nat
      BY <1>4
    <2>3. a[m] < b[m] \/ b[m] < a[m]
      BY <2>2
    <2>4. ~(a[m] < b[m] /\ b[m] < a[m])
      BY <2>2
    <2> QED
      BY <1>1, <1>2, <1>3, <1>6, <2>1, <2>3, <2>4
  <1> QED
    BY <1>5, <1>6

(* And less is transitive.                                                 *)
LEMMA LessTransitive ==
  ASSUME NEW a \in Seq(Nat), NEW b \in Seq(Nat), NEW c \in Seq(Nat), a # Null, b # Null, c # Null,
         strless(a, b), strless(b, c)
  PROVE  strless(a, c)
  <1>1. PICK m : LessAt(a, b, m)
    BY LessIs
  <1>2. PICK n : LessAt(b, c, n)
    BY LessIs
  <1>3. \A p \in Nat \ {0} : UnitAt(a, p) \in Int /\ UnitAt(b, p) \in Int /\ UnitAt(c, p) \in Int
    <2>1. \A s \in Seq(Nat), p \in Nat \ {0} : UnitAt(s, p) \in Int
      BY DEF UnitAt
    <2> QED
      BY <2>1
  <1>4. m \in Nat \ {0} /\ n \in Nat \ {0}
    BY <1>1, <1>2 DEF LessAt
  <1>5. PICK k \in Nat \ {0} : k <= m /\ k <= n /\ (k = m \/ k = n)
    <2>1. CASE m <= n
      BY <1>4, <2>1
    <2>2. CASE ~(m <= n)
      <3>1. n <= m /\ n <= n
        BY <1>4, <2>2
      <3> QED
        BY <1>4, <3>1
    <2> QED
      BY <2>1, <2>2
  <1>6. \A p \in Nat \ {0} : p < k => UnitAt(a, p) = UnitAt(b, p) /\ UnitAt(b, p) = UnitAt(c, p)
    <2>1. \A p \in Nat \ {0} : p < k => p < m /\ p < n
      BY <1>4, <1>5
    <2> QED
      BY <1>1, <1>2, <2>1 DEF LessAt
  <1>7. UnitAt(a, k) < UnitAt(c, k)
    <2>1. k = m \/ k < m
      BY <1>4, <1>5
    <2>2. k = n \/ k < n
      BY <1>4, <1>5
    <2>3. k = m => UnitAt(a, k) < UnitAt(b, k)
      BY <1>1 DEF LessAt
    <2>4. k < m => UnitAt(a, k) = UnitAt(b, k)
      BY <1>1 DEF LessAt
    <2>5. k = n => UnitAt(b, k) < UnitAt(c, k)
      BY <1>2 DEF LessAt
    <2>6. k < n => UnitAt(b, k) = UnitAt(c, k)
      BY <1>2 DEF LessAt
    <2> QED
      BY <1>3, <1>5, <2>1, <2>2, <2>3, <2>4, <2>5, <2>6
  <1>8. LessAt(a, c, k)
    BY <1>6, <1>7 DEF LessAt
  <1> QED
    BY <1>8, LessIs

(* What holds of 0, and of n + 1 when it holds of n, holds up to a bound.  *)
LEMMA Upwards ==
  ASSUME NEW P, NEW last \in Nat, 0 \in P,
         \A n \in Nat : n < last /\ n \in P => n + 1 \in P
  PROVE  \A n \in Nat : n <= last => n \in P
  <1> DEFINE Bad == {n \in Nat : n <= last /\ n \notin P}
  <1>1. Bad = {}
    <2> SUFFICES ASSUME Bad # {} PROVE FALSE
      OBVIOUS
    <2>1. Bad \in SUBSET Nat
      OBVIOUS
    <2>2. PICK n \in Bad : \A m \in Bad : n <= m
      <3> HIDE DEF Bad
      <3> QED
        BY <2>1, Least
    <2>3. n \in Nat /\ n <= last /\ n \notin P
      BY <2>2
    <2>4. n # 0
      BY <2>3
    <2>5. n - 1 \in Nat /\ n - 1 < last /\ (n - 1) + 1 = n /\ ~(n <= n - 1) /\ n - 1 <= last
      BY <2>3, <2>4
    <2>6. n - 1 \notin Bad
      BY <2>2, <2>5
    <2>7. n - 1 \in P
      BY <2>5, <2>6
    <2> QED
      BY <2>3, <2>5, <2>7
  <1> QED
    BY <1>1

--------------------------------------------------------------------------------
(* G's values are the concatenations of the first sequences.               *)
Flat(G, seqs) ==
  /\ G \in [0 .. Len(seqs) -> Seq(Nat)]
  /\ G[0] = <<>>
  /\ \A i \in 1 .. Len(seqs) : G[i] = G[i - 1] \o seqs[i]

(* One step of FlattenSeq's recursion, by g. *)
FlattenStep(g, seqs, i) == IF i = 1 THEN seqs[i] ELSE g[i - 1] \o seqs[i]

(* g is the recursion that FlattenSeq defines. *)
FlattenSteps(g, seqs) == g = [i \in 1 .. Len(seqs) |-> FlattenStep(g, seqs, i)]

(* FlattenSeq is what some function of its recursion answers at the end.   *)
LEMMA FlattenIs ==
  ASSUME NEW seqs, Len(seqs) # 0, NEW f, FlattenSteps(f, seqs)
  PROVE  \E g : FlattenSteps(g, seqs) /\ FlattenSeq(seqs) = g[Len(seqs)]
  <1> DEFINE G == CHOOSE g : FlattenSteps(g, seqs)
  <1>1. FlattenSeq(seqs) = G[Len(seqs)]
    BY DEF FlattenSeq, FlattenSteps, FlattenStep
  <1> QED
    BY <1>1

(* There is a function of the recursion.                                   *)
LEMMA FlattenStepsExist ==
  ASSUME NEW seqs \in Seq(Seq(Nat))
  PROVE  \E f : FlattenSteps(f, seqs)
  <1> DEFINE L == Len(seqs)
             D == 1 .. L
             V == Seq(Nat)
             H == [g \in [D -> V] |-> [i \in D |-> FlattenStep(g, seqs, i)]]
             rank == [i \in D |-> i]
  <1>0. L \in Nat /\ \A i \in D : seqs[i] \in V
    OBVIOUS
  <1>1. \A i \in D : i = 1 \/ i - 1 \in D
    BY <1>0
  <1>2. ASSUME NEW g \in [D -> V], NEW i \in D PROVE FlattenStep(g, seqs, i) \in V
    <2>1. CASE i = 1
      BY <1>0, <2>1 DEF FlattenStep
    <2>2. CASE i # 1
      <3>1. g[i - 1] \in V /\ seqs[i] \in V
        BY <1>0, <1>1, <2>2
      <3> QED
        BY <2>2, <3>1 DEF FlattenStep
    <2> QED
      BY <2>1, <2>2
  <1>3. H \in [[D -> V] -> [D -> V]]
    <2> HIDE DEF D, V
    <2> QED
      BY <1>2
  <1>4. rank \in [D -> 0 .. L]
    BY <1>0
  <1>5. ASSUME NEW g \in [D -> V], NEW h \in [D -> V], NEW i \in D, \A j \in D : rank[j] < rank[i] => g[j] = h[j]
        PROVE  H[g][i] = H[h][i]
    <2>1. i # 1 => g[i - 1] = h[i - 1]
      <3>1. i # 1 => i - 1 \in D /\ i - 1 < i
        BY <1>0, <1>1
      <3> QED
        BY <1>5, <3>1
    <2>2. FlattenStep(g, seqs, i) = FlattenStep(h, seqs, i)
      BY <2>1 DEF FlattenStep
    <2>3. H[g][i] = FlattenStep(g, seqs, i) /\ H[h][i] = FlattenStep(h, seqs, i)
      <3> HIDE DEF D, V
      <3> QED
        OBVIOUS
    <2> QED
      BY <2>2, <2>3
  <1>6. V # {}
    <2>1. <<>> \in V
      OBVIOUS
    <2> QED
      BY <2>1
  <1>7. Recursive(D, V, L, rank, H)
    <2> HIDE DEF D, V, H, rank
    <2> QED
      BY <1>0, <1>3, <1>4, <1>5, <1>6 DEF Recursive
  <1>8. PICK f \in [D -> V] : H[f] = f
    <2> HIDE DEF D, V, H, rank
    <2> QED
      BY <1>7, Recursion
  <1>9. f = [i \in D |-> FlattenStep(f, seqs, i)]
    <2> HIDE DEF D, V
    <2> QED
      BY <1>8
  <1>10. FlattenSteps(f, seqs)
    BY <1>9 DEF FlattenSteps
  <1> QED
    BY <1>10

(* FlattenSeq concatenates.                                                *)
LEMMA Flattened ==
  ASSUME NEW seqs \in Seq(Seq(Nat))
  PROVE  \E G : Flat(G, seqs) /\ FlattenSeq(seqs) = G[Len(seqs)]
  <1> DEFINE L == Len(seqs)
  <1>0. L \in Nat /\ \A i \in 1 .. L : seqs[i] \in Seq(Nat)
    OBVIOUS
  <1>1. CASE L = 0
    <2> DEFINE G == [i \in 0 .. 0 |-> <<>>]
    <2>1. FlattenSeq(seqs) = <<>>
      BY <1>1 DEF FlattenSeq
    <2>2. Flat(G, seqs)
      BY <1>1 DEF Flat
    <2>3. G[L] = <<>>
      BY <1>1
    <2> QED
      BY <2>1, <2>2, <2>3
  <1>2. CASE L # 0
    <2>1. PICK g : FlattenSteps(g, seqs) /\ FlattenSeq(seqs) = g[L]
      <3>1. PICK f : FlattenSteps(f, seqs)
        BY FlattenStepsExist
      <3> QED
        BY <1>2, <3>1, FlattenIs
    <2>2. \A i \in 1 .. L : g[i] = IF i = 1 THEN seqs[i] ELSE g[i - 1] \o seqs[i]
      BY <2>1 DEF FlattenSteps, FlattenStep
    <2> DEFINE P == {i \in Nat : i \in 1 .. L => g[i] \in Seq(Nat)}
    <2>3. 0 \in P
      OBVIOUS
    <2>4. ASSUME NEW n \in Nat, n < L, n \in P PROVE n + 1 \in P
      <3>1. n + 1 \in 1 .. L /\ (n + 1) - 1 = n /\ seqs[n + 1] \in Seq(Nat)
        BY <1>0, <2>4
      <3>2. CASE n = 0
        <4>1. g[n + 1] = seqs[n + 1]
          BY <2>2, <3>1, <3>2
        <4> QED
          BY <3>1, <4>1
      <3>3. CASE n # 0
        <4>1. n \in 1 .. L /\ n + 1 # 1
          BY <1>0, <2>4, <3>3
        <4>2. g[n + 1] = g[n] \o seqs[n + 1] /\ g[n] \in Seq(Nat)
          BY <2>2, <2>4, <3>1, <4>1
        <4>3. PICK s \in Seq(Nat), t \in Seq(Nat) : s = g[n] /\ t = seqs[n + 1] /\ g[n + 1] = s \o t
          BY <3>1, <4>2
        <4>4. g[n + 1] \in Seq(Nat)
          BY <4>3
        <4> QED
          BY <4>4
      <3> QED
        BY <3>2, <3>3
    <2>5. \A i \in 1 .. L : g[i] \in Seq(Nat)
      <3> HIDE DEF P, L
      <3>1. \A n \in Nat : n <= L => n \in P
        BY <1>0, <2>3, <2>4, Upwards
      <3>2. \A i \in 1 .. L : i \in Nat /\ i <= L
        BY <1>0
      <3> QED
        BY <3>1, <3>2 DEF P
    <2> DEFINE G == [i \in 0 .. L |-> IF i = 0 THEN <<>> ELSE g[i]]
    <2> HIDE DEF P
    <2>6. G \in [0 .. L -> Seq(Nat)]
      <3>1. \A i \in 0 .. L : i = 0 \/ i \in 1 .. L
        BY <1>0
      <3>2. <<>> \in Seq(Nat)
        OBVIOUS
      <3> HIDE DEF L
      <3> QED
        BY <2>5, <3>1, <3>2
    <2>7. G[0] = <<>> /\ \A i \in 1 .. L : G[i] = g[i]
      BY <1>0
    <2>8. ASSUME NEW i \in 1 .. L PROVE G[i] = G[i - 1] \o seqs[i]
      <3>1. CASE i = 1
        <4>1. \A s \in Seq(Nat) : <<>> \o s = s
          OBVIOUS
        <4>2. G[i - 1] = <<>> /\ G[i] = seqs[i]
          BY <2>2, <2>7, <3>1
        <4> HIDE DEF G
        <4> QED
          BY <1>0, <4>1, <4>2
      <3>2. CASE i # 1
        <4>1. i - 1 \in 1 .. L
          BY <1>0, <3>2
        <4> HIDE DEF G
        <4> QED
          BY <2>2, <2>7, <3>2, <4>1
      <3> QED
        BY <3>1, <3>2
    <2>9. Flat(G, seqs) /\ G[L] = g[L]
      <3>1. L \in 1 .. L
        BY <1>0, <1>2
      <3>2. G[L] = g[L]
        BY <2>7, <3>1
      <3> HIDE DEF G
      <3> QED
        BY <2>6, <2>7, <2>8, <3>2 DEF Flat
    <2> QED
      BY <2>1, <2>9
  <1> QED
    BY <1>1, <1>2

(* The first of the concatenations are prefixes of the later ones.         *)
LEMMA FlatGrows ==
  ASSUME NEW seqs \in Seq(Seq(Nat)), NEW G, Flat(G, seqs), NEW i \in 0 .. Len(seqs)
  PROVE  \A k \in 0 .. Len(seqs) : i <= k =>
           /\ G[k] \in Seq(Nat) /\ G[i] \in Seq(Nat) /\ Len(G[i]) <= Len(G[k])
           /\ \A p \in 1 .. Len(G[i]) : G[k][p] = G[i][p]
  <1> DEFINE L == Len(seqs)
             P == {k \in Nat : k \in 0 .. L /\ i <= k =>
                                 /\ Len(G[i]) <= Len(G[k]) /\ \A p \in 1 .. Len(G[i]) : G[k][p] = G[i][p]}
  <1>0. L \in Nat /\ (\A k \in 1 .. L : seqs[k] \in Seq(Nat)) /\ i \in Nat /\ i <= L
    OBVIOUS
  <1>1. G \in [0 .. L -> Seq(Nat)] /\ \A k \in 1 .. L : G[k] = G[k - 1] \o seqs[k]
    BY DEF Flat
  <1>2. \A k \in 0 .. L : G[k] \in Seq(Nat) /\ Len(G[k]) \in Nat
    BY <1>1
  <1>3. 0 \in P
    <2>1. i <= 0 => i = 0
      BY <1>0
    <2>2. Len(G[0]) <= Len(G[0])
      BY <1>0, <1>2
    <2> QED
      BY <2>1, <2>2
  <1>4. ASSUME NEW n \in Nat, n < L, n \in P PROVE n + 1 \in P
    <2> SUFFICES ASSUME i <= n + 1
                 PROVE  Len(G[i]) <= Len(G[n + 1]) /\ \A p \in 1 .. Len(G[i]) : G[n + 1][p] = G[i][p]
      OBVIOUS
    <2>1. n + 1 \in 1 .. L /\ (n + 1) - 1 = n /\ n \in 0 .. L /\ n + 1 \in 0 .. L
      BY <1>0, <1>4
    <2>2. G[n + 1] = G[n] \o seqs[n + 1] /\ seqs[n + 1] \in Seq(Nat) /\ G[n] \in Seq(Nat)
      BY <1>0, <1>1, <1>2, <2>1
    <2>3. CASE i = n + 1
      <3>1. Len(G[n + 1]) <= Len(G[n + 1])
        BY <1>2, <2>1
      <3> QED
        BY <2>3, <3>1
    <2>4. CASE i # n + 1
      <3>1. i <= n
        BY <1>0, <2>4
      <3>2. Len(G[i]) <= Len(G[n]) /\ \A p \in 1 .. Len(G[i]) : G[n][p] = G[i][p]
        BY <1>4, <2>1, <3>1
      <3>3. PICK s \in Seq(Nat), t \in Seq(Nat) : s = G[n] /\ t = seqs[n + 1] /\ G[n + 1] = s \o t
        BY <2>2
      <3>4. Len(s \o t) = Len(s) + Len(t) /\ (\A p \in 1 .. Len(s) : (s \o t)[p] = s[p]) /\ Len(s) \in Nat /\ Len(t) \in Nat
        OBVIOUS
      <3>5. Len(G[i]) \in Nat
        BY <1>0, <1>2
      <3>6. Len(G[i]) <= Len(G[n + 1])
        <4>1. PICK x \in Nat, y \in Nat, z \in Nat : x = Len(G[i]) /\ y = Len(s) /\ z = Len(t)
          BY <3>4, <3>5
        <4>2. Len(G[n + 1]) = y + z /\ x <= y
          BY <3>2, <3>3, <3>4, <4>1
        <4>3. x <= y + z
          BY <4>1, <4>2
        <4> QED
          BY <4>1, <4>2, <4>3
      <3>7. \A p \in 1 .. Len(G[i]) : p \in 1 .. Len(s)
        <4>1. Len(G[i]) <= Len(s)
          BY <3>2, <3>3
        <4>2. \A x \in Nat, y \in Nat : x <= y => 1 .. x \subseteq 1 .. y
          OBVIOUS
        <4> QED
          BY <3>4, <3>5, <4>1, <4>2
      <3> QED
        BY <3>2, <3>3, <3>4, <3>6, <3>7
    <2> QED
      BY <2>3, <2>4
  <1>5. \A n \in Nat : n <= L => n \in P
    <2> HIDE DEF P, L
    <2> QED
      BY <1>0, <1>3, <1>4, Upwards
  <1>6. ASSUME NEW k \in 0 .. L, i <= k
        PROVE  /\ G[k] \in Seq(Nat) /\ G[i] \in Seq(Nat) /\ Len(G[i]) <= Len(G[k])
               /\ \A p \in 1 .. Len(G[i]) : G[k][p] = G[i][p]
    <2>1. k \in Nat /\ k <= L
      BY <1>0
    <2>2. k \in P
      <3> HIDE DEF P
      <3> QED
        BY <1>5, <2>1
    <2> QED
      BY <1>2, <1>6, <2>2
  <1> QED
    BY <1>6

(* The units of a text's characters in UTF-16. *)
Units16(text) == [i \in DOMAIN text |-> text[i].utf16]

(* And in UTF-8. *)
Units8(text) == [i \in DOMAIN text |-> text[i].utf8]

(* What is assumed of characters, for those of one text and of two.        *)
LEMMA CharsGiven ==
  ASSUME NEW t \in Texts
  PROVE  /\ Len(t) \in Nat /\ DOMAIN t = 1 .. Len(t)
         /\ \A i \in 1 .. Len(t) :
              /\ t[i].utf8 \in Seq(Nat) /\ t[i].utf16 \in Seq(Nat)
              /\ 1 <= Len(t[i].utf16) /\ Len(t[i].utf16) <= Len(t[i].utf8)
         /\ \A u \in Texts : \A i \in DOMAIN t, j \in DOMAIN u :
              t[i] # u[j] => differences(t[i].utf16, u[j].utf16) # {}
  <1> DEFINE chars == UNION {Range(text) : text \in Texts}
  <1>1. \A char \in chars :
           /\ char.utf8 \in Seq(Nat) /\ char.utf16 \in Seq(Nat)
           /\ 1 <= Len(char.utf16) /\ Len(char.utf16) <= Len(char.utf8)
           /\ \A other \in chars \ {char} : differences(char.utf16, other.utf16) # {}
    BY TextsAssumption
  <1>2. \A u \in Texts : \A j \in DOMAIN u : u[j] \in chars
    BY DEF Range
  <1>3. t \in Seq(Range(t))
    BY TextsAssumption
  <1> HIDE DEF chars
  <1>4. Len(t) \in Nat /\ DOMAIN t = 1 .. Len(t)
    BY <1>3, SeqTyped
  <1> QED
    BY <1>1, <1>2, <1>4

(* A text's units are sequences, one per character. *)
LEMMA UnitsTyped ==
  ASSUME NEW t \in Texts
  PROVE  /\ Units16(t) \in Seq(Seq(Nat)) /\ Len(Units16(t)) = Len(t)
         /\ Units8(t) \in Seq(Seq(Nat)) /\ Len(Units8(t)) = Len(t)
         /\ \A i \in 1 .. Len(t) : Units16(t)[i] = t[i].utf16 /\ Units8(t)[i] = t[i].utf8
         /\ utf16(t) = FlattenSeq(Units16(t)) /\ utf8(t) = FlattenSeq(Units8(t))
  <1>1. Len(t) \in Nat /\ DOMAIN t = 1 .. Len(t)
        /\ \A i \in 1 .. Len(t) : t[i].utf8 \in Seq(Nat) /\ t[i].utf16 \in Seq(Nat)
    BY CharsGiven
  <1>2. Units16(t) = [i \in 1 .. Len(t) |-> t[i].utf16] /\ Units8(t) = [i \in 1 .. Len(t) |-> t[i].utf8]
    BY <1>1 DEF Units16, Units8
  <1>3. utf16(t) = FlattenSeq(Units16(t)) /\ utf8(t) = FlattenSeq(Units8(t))
    BY DEF utf16, utf8, Units16, Units8
  <1>4. \A S, f : \A n \in Nat : f \in [1 .. n -> S] => f \in Seq(S) /\ Len(f) = n
    OBVIOUS
  <1>5. Units16(t) \in [1 .. Len(t) -> Seq(Nat)] /\ Units8(t) \in [1 .. Len(t) -> Seq(Nat)]
    BY <1>1, <1>2
  <1> QED
    BY <1>1, <1>2, <1>3, <1>4, <1>5

(* A text has no more units in UTF-16 than in UTF-8.                       *)
LEMMA TextUnits ==
  ASSUME NEW t \in Texts
  PROVE  utf16(t) \in Seq(Nat) /\ utf8(t) \in Seq(Nat) /\ Len(utf16(t)) <= Len(utf8(t))
  <1> DEFINE L == Len(t)
  <1>1. /\ L \in Nat
        /\ \A i \in 1 .. L : /\ t[i].utf8 \in Seq(Nat) /\ t[i].utf16 \in Seq(Nat)
                             /\ Len(t[i].utf16) <= Len(t[i].utf8)
    BY CharsGiven
  <1>2. PICK G : Flat(G, Units16(t)) /\ FlattenSeq(Units16(t)) = G[L]
    BY UnitsTyped, Flattened
  <1>3. PICK H : Flat(H, Units8(t)) /\ FlattenSeq(Units8(t)) = H[L]
    BY UnitsTyped, Flattened
  <1>4. /\ G \in [0 .. L -> Seq(Nat)] /\ G[0] = <<>>
        /\ \A i \in 1 .. L : G[i] = G[i - 1] \o t[i].utf16
    BY <1>2, UnitsTyped DEF Flat
  <1>5. /\ H \in [0 .. L -> Seq(Nat)] /\ H[0] = <<>>
        /\ \A i \in 1 .. L : H[i] = H[i - 1] \o t[i].utf8
    BY <1>3, UnitsTyped DEF Flat
  <1> DEFINE P == {n \in Nat : n <= L => Len(G[n]) <= Len(H[n])}
  <1>6. 0 \in P
    <2>1. Len(<<>>) <= Len(<<>>)
      OBVIOUS
    <2> QED
      BY <1>4, <1>5, <2>1
  <1>7. ASSUME NEW n \in Nat, n < L, n \in P PROVE n + 1 \in P
    <2>1. n + 1 \in 1 .. L /\ (n + 1) - 1 = n /\ n \in 0 .. L /\ n <= L
      BY <1>1, <1>7
    <2>2. PICK g \in Seq(Nat), h \in Seq(Nat), c \in Seq(Nat), d \in Seq(Nat) :
            /\ g = G[n] /\ h = H[n] /\ c = t[n + 1].utf16 /\ d = t[n + 1].utf8
            /\ G[n + 1] = g \o c /\ H[n + 1] = h \o d
      <3>1. G[n] \in Seq(Nat) /\ H[n] \in Seq(Nat)
        BY <1>4, <1>5, <2>1
      <3>2. t[n + 1].utf16 \in Seq(Nat) /\ t[n + 1].utf8 \in Seq(Nat)
        BY <1>1, <2>1
      <3>3. G[n + 1] = G[n] \o t[n + 1].utf16 /\ H[n + 1] = H[n] \o t[n + 1].utf8
        BY <1>4, <1>5, <2>1
      <3> QED
        BY <3>1, <3>2, <3>3
    <2>3. Len(g) <= Len(h) /\ Len(c) <= Len(d)
      BY <1>1, <1>7, <2>1, <2>2
    <2>4. Len(g \o c) = Len(g) + Len(c) /\ Len(h \o d) = Len(h) + Len(d)
      OBVIOUS
    <2>5. Len(g) \in Nat /\ Len(h) \in Nat /\ Len(c) \in Nat /\ Len(d) \in Nat
      OBVIOUS
    <2>6. Len(g) + Len(c) <= Len(h) + Len(d)
      BY <2>3, <2>5
    <2>7. Len(G[n + 1]) <= Len(H[n + 1])
      BY <2>2, <2>4, <2>6
    <2> QED
      BY <2>7
  <1>8. Len(G[L]) <= Len(H[L])
    <2>1. \A n \in Nat : n <= L => n \in P
      <3> HIDE DEF P, L
      <3> QED
        BY <1>1, <1>6, <1>7, Upwards
    <2>2. L \in P /\ L <= L
      <3> HIDE DEF P
      <3> QED
        BY <1>1, <2>1
    <2> QED
      BY <2>2
  <1>9. L \in 0 .. L
    BY <1>1
  <1> QED
    BY <1>2, <1>3, <1>4, <1>5, <1>8, <1>9, UnitsTyped

(* Texts with the same units are the same.                                 *)
LEMMA UnitsDiffer ==
  ASSUME NEW t \in Texts, NEW u \in Texts, utf16(t) = utf16(u), Len(t) <= Len(u)
  PROVE  t = u
  <1> DEFINE L == Len(t)
             M == Len(u)
  <1>1. /\ L \in Nat /\ M \in Nat /\ DOMAIN t = 1 .. L /\ DOMAIN u = 1 .. M
        /\ \A i \in 1 .. L : t[i].utf16 \in Seq(Nat)
        /\ \A i \in 1 .. M : u[i].utf16 \in Seq(Nat) /\ 1 <= Len(u[i].utf16)
        /\ \A i \in 1 .. L, j \in 1 .. M : t[i] # u[j] => differences(t[i].utf16, u[j].utf16) # {}
    BY CharsGiven
  <1>2. PICK G : Flat(G, Units16(t)) /\ FlattenSeq(Units16(t)) = G[L]
    BY UnitsTyped, Flattened
  <1>3. PICK H : Flat(H, Units16(u)) /\ FlattenSeq(Units16(u)) = H[M]
    BY UnitsTyped, Flattened
  <1>4. /\ G \in [0 .. L -> Seq(Nat)] /\ G[0] = <<>>
        /\ \A i \in 1 .. L : G[i] = G[i - 1] \o t[i].utf16
    BY <1>2, UnitsTyped DEF Flat
  <1>5. /\ H \in [0 .. M -> Seq(Nat)] /\ H[0] = <<>>
        /\ \A i \in 1 .. M : H[i] = H[i - 1] \o u[i].utf16
    BY <1>3, UnitsTyped DEF Flat
  <1>6. G[L] = H[M]
    BY <1>2, <1>3, UnitsTyped
  <1>7. \A i \in 0 .. L : Len(G[i]) <= Len(G[L]) /\ \A p \in 1 .. Len(G[i]) : G[L][p] = G[i][p]
    <2>1. SUFFICES ASSUME NEW i \in 0 .. L
                   PROVE  Len(G[i]) <= Len(G[L]) /\ \A p \in 1 .. Len(G[i]) : G[L][p] = G[i][p]
      OBVIOUS
    <2>2. PICK s \in Seq(Seq(Nat)) : s = Units16(t) /\ Len(s) = L
      BY UnitsTyped
    <2>3. \A k \in 0 .. Len(s) : i <= k =>
           /\ G[k] \in Seq(Nat) /\ G[i] \in Seq(Nat) /\ Len(G[i]) <= Len(G[k])
           /\ \A p \in 1 .. Len(G[i]) : G[k][p] = G[i][p]
      BY <1>2, <2>2, FlatGrows
    <2>4. L \in 0 .. L /\ i <= L
      BY <1>1
    <2> QED
      BY <2>2, <2>3, <2>4
  <1>8. \A i \in 0 .. M : Len(H[i]) <= Len(H[M]) /\ \A p \in 1 .. Len(H[i]) : H[M][p] = H[i][p]
    <2>1. SUFFICES ASSUME NEW i \in 0 .. M
                   PROVE  Len(H[i]) <= Len(H[M]) /\ \A p \in 1 .. Len(H[i]) : H[M][p] = H[i][p]
      OBVIOUS
    <2>2. PICK s \in Seq(Seq(Nat)) : s = Units16(u) /\ Len(s) = M
      BY UnitsTyped
    <2>3. \A k \in 0 .. Len(s) : i <= k =>
           /\ H[k] \in Seq(Nat) /\ H[i] \in Seq(Nat) /\ Len(H[i]) <= Len(H[k])
           /\ \A p \in 1 .. Len(H[i]) : H[k][p] = H[i][p]
      BY <1>3, <2>2, FlatGrows
    <2>4. M \in 0 .. M /\ i <= M
      BY <1>1
    <2> QED
      BY <2>2, <2>3, <2>4
  <1> DEFINE P == {n \in Nat : n <= L => G[n] = H[n] /\ \A i \in 1 .. n : t[i] = u[i]}
  <1>9. 0 \in P
    BY <1>4, <1>5
  <1>10. ASSUME NEW n \in Nat, n < L, n \in P PROVE n + 1 \in P
    <2>1. /\ n + 1 \in 1 .. L /\ n + 1 \in 1 .. M /\ (n + 1) - 1 = n /\ n \in 0 .. L /\ n <= L
          /\ n + 1 \in 0 .. L /\ n + 1 \in 0 .. M
      BY <1>1, <1>10
    <2>2. PICK g \in Seq(Nat), c \in Seq(Nat), d \in Seq(Nat) :
            /\ g = G[n] /\ g = H[n] /\ c = t[n + 1].utf16 /\ d = u[n + 1].utf16
            /\ G[n + 1] = g \o c /\ H[n + 1] = g \o d
      <3>1. G[n] \in Seq(Nat) /\ G[n] = H[n]
        BY <1>4, <1>10, <2>1
      <3>2. t[n + 1].utf16 \in Seq(Nat) /\ u[n + 1].utf16 \in Seq(Nat)
        BY <1>1, <2>1
      <3>3. G[n + 1] = G[n] \o t[n + 1].utf16 /\ H[n + 1] = H[n] \o u[n + 1].utf16
        BY <1>4, <1>5, <2>1
      <3> QED
        BY <3>1, <3>2, <3>3
    <2>3. PICK x \in Nat, y \in Nat, z \in Nat : x = Len(g) /\ y = Len(c) /\ z = Len(d)
      OBVIOUS
    <2>4. ASSUME NEW p \in Nat \ {0}, p <= y, p <= z PROVE c[p] = d[p]
      <3>1. Len(g \o c) = x + y /\ Len(g \o d) = x + z
        BY <2>3
      <3>2. x + p \in 1 .. (x + y) /\ x + p \in 1 .. (x + z) /\ ~(x + p <= x) /\ (x + p) - x = p
        BY <2>4
      <3>3. (g \o c)[x + p] = c[p] /\ (g \o d)[x + p] = d[p]
        BY <2>3, <3>2, ConcatProperties
      <3>4. G[L][x + p] = (g \o c)[x + p]
        BY <1>7, <2>1, <2>2, <3>1, <3>2
      <3>5. H[M][x + p] = (g \o d)[x + p]
        BY <1>8, <2>1, <2>2, <3>1, <3>2
      <3> QED
        BY <1>6, <3>3, <3>4, <3>5
    <2>5. differences(c, d) = {}
      BY <2>3, <2>4, UnitsAre
    <2>6. t[n + 1] = u[n + 1]
      BY <1>1, <2>1, <2>2, <2>5
    <2>7. G[n + 1] = H[n + 1]
      BY <2>2, <2>6
    <2>8. \A i \in 1 .. (n + 1) : i = n + 1 \/ i \in 1 .. n
      OBVIOUS
    <2> QED
      BY <1>10, <2>1, <2>6, <2>7, <2>8
  <1>11. G[L] = H[L] /\ \A i \in 1 .. L : t[i] = u[i]
    <2>1. \A n \in Nat : n <= L => n \in P
      <3> HIDE DEF P, L
      <3> QED
        BY <1>1, <1>9, <1>10, Upwards
    <2>2. L \in P /\ L <= L
      <3> HIDE DEF P
      <3> QED
        BY <1>1, <2>1
    <2> QED
      BY <2>2
  <1>12. L = M
    <2> SUFFICES ASSUME L # M PROVE FALSE
      OBVIOUS
    <2>1. L + 1 \in 1 .. M /\ L + 1 \in 0 .. M /\ (L + 1) - 1 = L /\ L \in 0 .. M
      <3>1. L \in Nat /\ M \in Nat /\ L <= M
        BY <1>1
      <3> HIDE DEF L, M
      <3> QED
        BY <3>1
    <2>2. PICK h \in Seq(Nat), d \in Seq(Nat) : h = H[L] /\ d = u[L + 1].utf16 /\ H[L + 1] = h \o d /\ 1 <= Len(d)
      BY <1>1, <1>5, <2>1
    <2>3. Len(h \o d) = Len(h) + Len(d) /\ Len(h) \in Nat /\ Len(d) \in Nat
      OBVIOUS
    <2>4. Len(H[L + 1]) <= Len(H[M]) /\ H[M] = h
      BY <1>6, <1>8, <1>11, <2>1, <2>2
    <2>5. Len(h) + Len(d) <= Len(h)
      BY <2>2, <2>3, <2>4
    <2>6. \A x \in Nat, y \in Nat : x + y <= x => ~(1 <= y)
      OBVIOUS
    <2> QED
      BY <2>2, <2>3, <2>5, <2>6
  <1>13. t \in Seq(Range(t)) /\ u \in Seq(Range(u))
    BY TextsAssumption
  <1> QED
    BY <1>1, <1>11, <1>12, <1>13

(* The string of a text is its units, and of no other text. *)
LEMMA StrIs ==
  ASSUME NEW s \in Texts \union {Null}, NEW t \in Texts \union {Null}
  PROVE  /\ str(s) \in Seq(Nat) \union {Null}
         /\ str(s) = Null <=> s = Null
         /\ str(s) = str(t) <=> s = t
         /\ s # Null => str(s) = utf16(s) /\ utf8(s) \in Seq(Nat) /\ Len(utf16(s)) <= Len(utf8(s))
  <1>0. Null \notin Texts /\ Null \notin Seq(Nat)
    BY TextsAssumption
  <1>1. \A x \in Texts : /\ str(x) = utf16(x) /\ str(x) \in Seq(Nat) /\ utf8(x) \in Seq(Nat)
                         /\ Len(utf16(x)) <= Len(utf8(x))
    BY <1>0, TextUnits DEF str, alloc_str
  <1>2. str(Null) = Null
    BY DEF str
  <1>3. ASSUME s \in Texts, t \in Texts, str(s) = str(t) PROVE s = t
    <2>1. utf16(s) = utf16(t)
      BY <1>1, <1>3
    <2>2. Len(s) \in Nat /\ Len(t) \in Nat
      BY <1>3, CharsGiven
    <2>3. Len(s) <= Len(t) \/ Len(t) <= Len(s)
      BY <2>2
    <2> QED
      BY <1>3, <2>1, <2>3, UnitsDiffer
  <1> QED
    BY <1>0, <1>1, <1>2, <1>3

(* What is known of a strings input.                                       *)
LEMMA StringsGiven ==
  ASSUME IInv, Got("strings")
  PROVE  /\ result = added(input)
         /\ input.a \in Texts \union {Null} /\ input.b \in Texts \union {Null} /\ input.c \in Texts \union {Null}
  <1>1. StringInput(input)
    BY DEF IInv, InputOK, Got, PatternInput, CodeInput, CallInput
  <1> QED
    BY <1>1 DEF IInv, ResultOK, StringInput

(* Any three strings that may be given are ordered. *)
LEMMA Ordered == IInv => StringsAreOrdered
  <1> SUFFICES ASSUME IInv, Got("strings") PROVE StringsAreOrdered
    BY DEF StringsAreOrdered
  <1>1. PICK x \in Texts \union {Null}, y \in Texts \union {Null}, z \in Texts \union {Null} :
          x = input.a /\ y = input.b /\ z = input.c
    BY StringsGiven
  <1>2. PICK a \in Seq(Nat) \union {Null}, b \in Seq(Nat) \union {Null}, c \in Seq(Nat) \union {Null} :
          /\ a = str(x) /\ b = str(y) /\ c = str(z)
          /\ a = b <=> x = y
          /\ a # Null => a = utf16(x) /\ utf8(x) \in Seq(Nat)
    BY StrIs
  <1>3. Null \notin Seq(Nat)
    BY TextsAssumption
  <1>4. (IF strless(a, b) THEN 1 ELSE 0) + (IF strless(b, a) THEN 1 ELSE 0) + (IF strcomp(a, b) THEN 1 ELSE 0) = 1
    <2>1. strcomp(a, b) <=> a = b
      BY <1>3, CompIs
    <2>2. CASE a # Null /\ b # Null
      <3>1. a \in Seq(Nat) /\ b \in Seq(Nat)
        BY <2>2
      <3>2. /\ a = b => ~strless(a, b) /\ ~strless(b, a)
            /\ a # b => strless(a, b) \/ strless(b, a)
            /\ ~(strless(a, b) /\ strless(b, a))
        BY <2>2, <3>1, LessOrEqual
      <3> QED
        BY <2>1, <3>2
    <2>3. CASE a = Null
      <3>1. (strless(a, b) <=> b # Null) /\ ~strless(b, a)
        BY <2>3 DEF strless, strless_impl
      <3> QED
        BY <2>1, <2>3, <3>1
    <2>4. CASE b = Null
      <3>1. (strless(b, a) <=> a # Null) /\ ~strless(a, b)
        BY <2>4 DEF strless, strless_impl
      <3> QED
        BY <2>1, <2>4, <3>1
    <2> QED
      BY <2>2, <2>3, <2>4
  <1>5. ASSUME strless(a, b), strless(b, c) PROVE strless(a, c)
    <2>1. b # Null /\ c # Null
      BY <1>5 DEF strless
    <2>2. CASE a = Null
      BY <2>1, <2>2 DEF strless, strless_impl
    <2>3. CASE a # Null
      <3>1. a \in Seq(Nat) /\ b \in Seq(Nat) /\ c \in Seq(Nat)
        BY <2>1, <2>3
      <3> QED
        BY <1>5, <2>1, <2>3, <3>1, LessTransitive
    <2> QED
      BY <2>2, <2>3
  <1>6. ASSUME strstart(a, b), ~strcomp(a, b) PROVE strless(b, a)
    <2>1. b # Null /\ a # Null /\ Len(a) >= Len(b) /\ differences(a, b) = {}
      BY <1>6 DEF strstart, strstart_impl
    <2>2. a \in Seq(Nat) /\ b \in Seq(Nat)
      BY <2>1
    <2>3. a # b
      BY <1>3, <1>6, CompIs
    <2>4. differences(b, a) = {} /\ Len(a) # Len(b)
      BY <2>1, <2>2, <2>3, SameIs
    <2>5. Len(b) < Len(a)
      <3>1. Len(a) \in Nat /\ Len(b) \in Nat
        BY <2>2
      <3> QED
        BY <2>1, <2>4, <3>1
    <2> QED
      BY <2>1, <2>4, <2>5 DEF strless, strless_impl, shorter
  <1>7. strcomp(a, b) <=> x = y
    BY <1>2, <1>3, CompIs
  <1>8. ASSUME a # Null PROVE strcomp_impl(a, utf8(x)) <=> utf8(x) = a
    <2>1. PICK u \in Seq(Nat) \union {Null} : u = utf8(x) /\ u # Null
      BY <1>2, <1>3, <1>8
    <2>2. strcomp_impl(a, u) <=> a = u
      BY <1>3, <1>8, <2>1, CompIs
    <2> QED
      BY <2>1, <2>2
  <1>9. strcomp(a, b) \in BOOLEAN /\ strcomp_impl(a, utf8(x)) \in BOOLEAN
    BY DEF strcomp, strcomp_impl
  <1>10. /\ strcomp(a, b) = (x = y)
         /\ a # Null => (strcomp_impl(a, utf8(x)) = (utf8(x) = a))
    BY <1>7, <1>8, <1>9
  <1>11. str(input.a) = a /\ str(input.b) = b /\ str(input.c) = c
    BY <1>1, <1>2
  <1> QED
    BY <1>1, <1>4, <1>5, <1>6, <1>10, <1>11 DEF StringsAreOrdered

(* == and < of strings are an order, whatever the texts.                   *)
THEOREM StringsHaveAnOrder == Spec => []StringsAreOrdered
  BY Ordered, Invariance, PTL

--------------------------------------------------------------------------------
(* A concatenation starts and ends with what it is made of.                *)
LEMMA ConcatEnds ==
  ASSUME NEW s \in Seq(Nat), NEW t \in Seq(Nat), s # Null, t # Null, Null \notin Seq(Nat)
  PROVE  /\ s \o t \in Seq(Nat) /\ Len(s \o t) = Len(s) + Len(t)
         /\ strstart(s \o t, s) /\ strend(s \o t, t)
  <1>1. PICK u \in Seq(Nat), x \in Nat, y \in Nat : u = s \o t /\ x = Len(s) /\ y = Len(t) /\ u # Null
    <2>1. s \o t \in Seq(Nat) /\ Len(s) \in Nat /\ Len(t) \in Nat
      OBVIOUS
    <2>2. \A w \in Seq(Nat) : w # Null
      OBVIOUS
    <2> QED
      BY <2>1, <2>2
  <1>2. Len(u) = x + y /\ \A i \in 1 .. (x + y) : u[i] = IF i <= x THEN s[i] ELSE t[i - x]
    BY <1>1, ConcatProperties
  <1>3. differences(u, s) = {}
    <2>1. ASSUME NEW p, p \in differences(u, s) PROVE FALSE
      <3>1. p \in Nat \ {0} /\ p <= Len(u) /\ p <= Len(s) /\ u[p] # s[p]
        BY <2>1, UnitsAre
      <3>2. p \in 1 .. (x + y) /\ p <= x
        BY <1>1, <1>2, <3>1
      <3> QED
        BY <1>2, <3>1, <3>2
    <2> QED
      BY <2>1
  <1>4. strstart(u, s)
    <2>1. x + y >= x
      OBVIOUS
    <2> QED
      BY <1>1, <1>2, <1>3, <2>1 DEF strstart, strstart_impl
  <1>5. strend(u, t)
    <2>1. x + y >= y
      OBVIOUS
    <2>2. ASSUME NEW k \in 0 .. (y - 1) PROVE u[x + y - k] = t[y - k]
      <3>1. x + y - k \in 1 .. (x + y) /\ ~(x + y - k <= x) /\ x + y - k - x = y - k
        OBVIOUS
      <3> QED
        BY <1>2, <3>1
    <2> QED
      BY <1>1, <1>2, <2>1, <2>2 DEF strend, strend_impl
  <1> QED
    BY <1>1, <1>2, <1>4, <1>5

(* strend says what a suffix is.                                           *)
LEMMA EndIsSuffix ==
  ASSUME NEW a \in Seq(Nat), NEW b \in Seq(Nat), a # Null, b # Null
  PROVE  strend(a, b) = IsSuffix(b, a)
  <1>1. PICK x \in Nat, y \in Nat : x = Len(a) /\ y = Len(b)
    OBVIOUS
  <1>2. PICK r, s : r = Reverse(a) /\ s = Reverse(b)
    OBVIOUS
  <1>3. /\ r \in Seq(Nat) /\ Len(r) = x /\ \A i \in 1 .. x : r[i] = a[(x - i) + 1]
        /\ s \in Seq(Nat) /\ Len(s) = y /\ \A i \in 1 .. y : s[i] = b[(y - i) + 1]
    <2>1. \A i \in 1 .. x : (x - i) + 1 \in 1 .. x
      OBVIOUS
    <2>2. \A i \in 1 .. y : (y - i) + 1 \in 1 .. y
      OBVIOUS
    <2> QED
      BY <1>1, <1>2, <2>1, <2>2 DEF Reverse
  <1>4. IsSuffix(b, a) <=> y <= x /\ SubSeq(s, 1, y) = SubSeq(r, 1, y)
    BY <1>2, <1>3 DEF IsSuffix, IsPrefix
  <1>5. strend(a, b) <=> x >= y /\ \A k \in 0 .. (y - 1) : a[x - k] = b[y - k]
    BY <1>1 DEF strend, strend_impl
  <1>6. ASSUME y <= x PROVE SubSeq(s, 1, y) = SubSeq(r, 1, y) <=> \A k \in 0 .. (y - 1) : a[x - k] = b[y - k]
    <2>1. SubSeq(s, 1, y) = [i \in 1 .. y |-> s[i]]
      BY <1>3
    <2>2. SubSeq(r, 1, y) = [i \in 1 .. y |-> r[i]]
      BY <1>3, <1>6
    <2>3. SubSeq(s, 1, y) = SubSeq(r, 1, y) <=> \A i \in 1 .. y : s[i] = r[i]
      BY <2>1, <2>2
    <2>4. \A i \in 1 .. y : i \in 1 .. x
      BY <1>6
    <2>5. ASSUME \A i \in 1 .. y : s[i] = r[i], NEW k \in 0 .. (y - 1) PROVE a[x - k] = b[y - k]
      <3>1. k + 1 \in 1 .. y /\ (x - (k + 1)) + 1 = x - k /\ (y - (k + 1)) + 1 = y - k
        OBVIOUS
      <3> QED
        BY <1>3, <2>4, <2>5, <3>1
    <2>6. ASSUME \A k \in 0 .. (y - 1) : a[x - k] = b[y - k], NEW i \in 1 .. y PROVE s[i] = r[i]
      <3>1. i - 1 \in 0 .. (y - 1) /\ (x - i) + 1 = x - (i - 1) /\ (y - i) + 1 = y - (i - 1)
        OBVIOUS
      <3> QED
        BY <1>3, <2>4, <2>6, <3>1
    <2> QED
      BY <2>3, <2>5, <2>6
  <1>7. x >= y <=> y <= x
    OBVIOUS
  <1>8. strend(a, b) <=> IsSuffix(b, a)
    BY <1>4, <1>5, <1>6, <1>7
  <1>9. strend(a, b) \in BOOLEAN /\ IsSuffix(b, a) \in BOOLEAN
    BY DEF strend, strend_impl, IsSuffix, IsPrefix
  <1> QED
    BY <1>8, <1>9

(* Padding makes a string as long as it says, and starts with it.          *)
LEMMA PaddedIs ==
  ASSUME NEW s \in Seq(Nat), NEW n \in Nat, Len(s) <= n, s # Null, Null \notin Seq(Nat)
  PROVE  Padded(s, n) \in Seq(Nat) /\ Len(Padded(s, n)) = n /\ strstart(Padded(s, n), s)
  <1>1. PICK x \in Nat, y \in Nat : x = Len(s) /\ y = n - Len(s) /\ x + y = n
    OBVIOUS
  <1>2. PICK t \in Seq(Nat) : t = [i \in 1 .. y |-> 0] /\ Len(t) = y /\ t # Null
    <2>1. [i \in 1 .. y |-> 0] \in Seq(Nat) /\ Len([i \in 1 .. y |-> 0]) = y
      OBVIOUS
    <2>2. \A w \in Seq(Nat) : w # Null
      OBVIOUS
    <2> QED
      BY <2>1, <2>2
  <1>3. Padded(s, n) = s \o t
    BY <1>1, <1>2 DEF Padded
  <1>4. s \o t \in Seq(Nat) /\ Len(s \o t) = Len(s) + Len(t) /\ strstart(s \o t, s)
    BY <1>2, ConcatEnds
  <1> QED
    BY <1>1, <1>2, <1>3, <1>4

(* The sums of any two strings that may be given start and end with them. *)
LEMMA EndsAreThere == IInv => SumsHaveTheirEnds
  <1> SUFFICES ASSUME IInv, Got("strings") PROVE SumsHaveTheirEnds
    BY DEF SumsHaveTheirEnds
  <1>1. PICK s \in Texts \union {Null}, t \in Texts \union {Null} : s = input.a /\ t = input.b
    BY StringsGiven
  <1>2. CASE ~(str(s) # Null /\ str(t) # Null)
    BY <1>1, <1>2 DEF SumsHaveTheirEnds
  <1>3. CASE str(s) # Null /\ str(t) # Null
    <2>1. PICK a \in Seq(Nat), b \in Seq(Nat) : a = str(s) /\ b = str(t)
      BY <1>3, StrIs
    <2>2. Null \notin Seq(Nat) /\ a # Null /\ b # Null /\ s # Null /\ t # Null
      <3>1. Null \notin Seq(Nat)
        BY TextsAssumption
      <3> QED
        BY <1>3, <2>1, <3>1, StrIs
    <2>3. PICK u \in Seq(Nat), v \in Seq(Nat) :
            /\ u = utf8(s) /\ v = utf8(t) /\ a = utf16(s) /\ b = utf16(t)
            /\ Len(a) <= Len(u) /\ Len(b) <= Len(v)
      BY <2>1, <2>2, StrIs
    <2>4. /\ result.sum = strappend(a, b)
          /\ result.byte_sum = strappend_bytes(a, t)
          /\ result.sum_to_bytes = strappend_to_bytes(s, b)
      BY <1>1, <2>1, <2>2, StringsGiven DEF added
    <2>5. result.sum = a \o b
      BY <2>2, <2>4 DEF strappend
    <2>6. /\ a \o b \in Seq(Nat) /\ Len(a \o b) = Len(a) + Len(b)
          /\ strstart(a \o b, a) /\ strend(a \o b, b)
      BY <2>2, ConcatEnds
    <2>7. strend(a, b) = IsSuffix(b, a)
      BY <2>2, EndIsSuffix
    <2>8. Len(result.byte_sum) = Len(a) + Len(v) /\ strstart(result.byte_sum, result.sum)
      <3>1. PICK n \in Nat, w \in Seq(Nat) : n = Len(a) + Len(v) /\ w = a \o b /\ w # Null
        <4>1. Len(a) + Len(v) \in Nat
          OBVIOUS
        <4>2. \A r \in Seq(Nat) : r # Null
          BY <2>2
        <4> QED
          BY <2>6, <4>1, <4>2
      <3>2. Len(w) <= n
        <4>1. Len(a) \in Nat /\ Len(b) \in Nat /\ Len(v) \in Nat
          OBVIOUS
        <4> QED
          BY <2>3, <2>6, <3>1, <4>1
      <3>3. result.byte_sum = Padded(w, n)
        BY <2>2, <2>3, <2>4, <3>1 DEF strappend_bytes
      <3>4. Len(Padded(w, n)) = n /\ strstart(Padded(w, n), w)
        BY <2>2, <3>1, <3>2, PaddedIs
      <3> QED
        BY <2>5, <3>1, <3>3, <3>4
    <2>9. Len(result.sum_to_bytes) = Len(b) + Len(u) /\ strend(result.sum_to_bytes, b)
      <3>1. PICK n \in Nat : n = Len(u) /\ Len(a) <= n
        BY <2>3
      <3>2. PICK w \in Seq(Nat) : w = Padded(a, n) /\ Len(w) = n /\ w # Null
        BY <2>2, <3>1, PaddedIs
      <3>3. result.sum_to_bytes = w \o b
        BY <2>2, <2>3, <2>4, <3>1, <3>2 DEF strappend_to_bytes
      <3>4. Len(w \o b) = Len(w) + Len(b) /\ strend(w \o b, b)
        BY <2>2, <3>2, ConcatEnds
      <3>5. Len(w) + Len(b) = Len(b) + Len(u)
        BY <3>1, <3>2
      <3> QED
        BY <3>3, <3>4, <3>5
    <2>10. str(input.a) = a /\ str(input.b) = b /\ utf8(input.a) = u /\ utf8(input.b) = v
      BY <1>1, <2>1, <2>3
    <2> QED
      BY <2>5, <2>6, <2>7, <2>8, <2>9, <2>10 DEF SumsHaveTheirEnds
  <1> QED
    BY <1>2, <1>3

(* Sums of strings have their operands at their ends, whatever the texts.  *)
THEOREM SumsKeepTheirOperands == Spec => []SumsHaveTheirEnds
  BY EndsAreThere, Invariance, PTL

--------------------------------------------------------------------------------
(* g is Chain for the classes in S, whose parents are in S too. *)
ChainsOf(g, S) ==
  /\ S \subseteq Classes /\ g \in [S -> Seq(Classes)]
  /\ \A c \in S : \/ Parent[c] = null /\ g[c] = <<c>>
                  \/ Parent[c] \in S /\ g[c] = <<c>> \o g[Parent[c]]

(* The parent of a class is a class, or there is none, and null is none. *)
LEMMA ParentOf ==
  /\ null \notin Classes
  /\ \A c \in Classes : Parent[c] \in Classes \union {null}
  BY ClassesAssumption, HierarchyAssumption

(* There is one such g: two of them agree.                                 *)
LEMMA ChainsAgree ==
  ASSUME NEW g, NEW S, NEW h, NEW T, ChainsOf(g, S), ChainsOf(h, T)
  PROVE  \A c \in S \intersect T : g[c] = h[c]
  <1> DEFINE Wrong == {c \in S \intersect T : g[c] # h[c]}
  <1> SUFFICES ASSUME Wrong # {} PROVE FALSE
    OBVIOUS
  <1>1. PICK c \in Wrong : Parent[c] \notin Wrong
    <2>1. Wrong \in SUBSET Classes
      BY DEF ChainsOf
    <2> HIDE DEF Wrong
    <2> QED
      BY <2>1, ParentsAssumption
  <1> QED
    BY <1>1, ParentOf DEF ChainsOf

(* And every class is among them.                                          *)
LEMMA ChainsReach ==
  ASSUME NEW c \in Classes
  PROVE  \E g, S : ChainsOf(g, S) /\ c \in S
  <1> DEFINE Wrong == {d \in Classes : ~\E g, S : ChainsOf(g, S) /\ d \in S}
  <1> SUFFICES ASSUME Wrong # {} PROVE FALSE
    OBVIOUS
  <1>1. PICK d \in Wrong : Parent[d] \notin Wrong
    <2>1. Wrong \in SUBSET Classes
      OBVIOUS
    <2> HIDE DEF Wrong
    <2> QED
      BY <2>1, ParentsAssumption
  <1>2. d \in Classes /\ ~\E g, S : ChainsOf(g, S) /\ d \in S
    OBVIOUS
  <1>3. CASE Parent[d] = null
    <2>1. <<d>> \in Seq(Classes)
      BY <1>2
    <2>2. ChainsOf([x \in {d} |-> <<x>>], {d})
      BY <1>2, <1>3, <2>1 DEF ChainsOf
    <2> QED
      BY <1>2, <2>2
  <1>4. CASE Parent[d] \in Classes
    <2>1. PICK g, S : ChainsOf(g, S) /\ Parent[d] \in S
      BY <1>1, <1>4
    <2>2. d \notin S /\ S \subseteq Classes /\ g \in [S -> Seq(Classes)]
      BY <1>2, <2>1 DEF ChainsOf
    <2> DEFINE T == S \union {d}
               h == [x \in T |-> IF x = d THEN <<d>> \o g[Parent[d]] ELSE g[x]]
    <2>3. g[Parent[d]] \in Seq(Classes)
      BY <2>1, <2>2
    <2>4. <<d>> \o g[Parent[d]] \in Seq(Classes)
      BY <1>2, <2>3
    <2>5. h \in [T -> Seq(Classes)] /\ T \subseteq Classes
      BY <1>2, <2>2, <2>4
    <2>6. h[d] = <<d>> \o g[Parent[d]] /\ \A x \in S : h[x] = g[x]
      BY <2>2
    <2>7. d \in T /\ S \subseteq T /\ \A x \in T : x = d \/ x \in S
      OBVIOUS
    <2> HIDE DEF h, T
    <2>8. \A x \in S : \/ Parent[x] = null /\ g[x] = <<x>>
                       \/ Parent[x] \in S /\ g[x] = <<x>> \o g[Parent[x]]
      BY <2>1 DEF ChainsOf
    <2>9. ASSUME NEW x \in S
          PROVE  \/ Parent[x] = null /\ h[x] = <<x>>
                 \/ Parent[x] \in T /\ h[x] = <<x>> \o h[Parent[x]]
      BY <2>6, <2>7, <2>8
    <2>10. Parent[d] \in T /\ h[d] = <<d>> \o h[Parent[d]]
      BY <2>1, <2>6, <2>7
    <2>11. ChainsOf(h, T)
      BY <2>5, <2>7, <2>9, <2>10 DEF ChainsOf
    <2> QED
      BY <1>2, <2>7, <2>11
  <1> QED
    BY <1>2, <1>3, <1>4, ParentOf

(* Chain is the function its definition says.                              *)
LEMMA ChainIs == ChainsOf([c \in Classes |-> Chain[c]], Classes)
  <1> DEFINE Chains(c) == CHOOSE g : \E S : ChainsOf(g, S) /\ c \in S
             F == [c \in Classes \union {null} |-> IF c = null THEN <<>> ELSE Chains(c)[c]]
  <1>1. ASSUME NEW c \in Classes PROVE \E S : ChainsOf(Chains(c), S) /\ c \in S
    BY ChainsReach
  <1>2. ASSUME NEW c \in Classes
        PROVE  /\ F[c] \in Seq(Classes)
               /\ \/ Parent[c] = null /\ F[c] = <<c>>
                  \/ Parent[c] \in Classes /\ F[c] = <<c>> \o F[Parent[c]]
    <2> DEFINE g == Chains(c)
    <2>1. PICK S : ChainsOf(g, S) /\ c \in S
      BY <1>1
    <2>2. F[c] = g[c]
      BY ParentOf
    <2> HIDE DEF g
    <2>3. g[c] \in Seq(Classes)
      BY <2>1 DEF ChainsOf
    <2>4. CASE Parent[c] = null /\ g[c] = <<c>>
      BY <2>2, <2>3, <2>4
    <2>5. CASE Parent[c] \in S /\ g[c] = <<c>> \o g[Parent[c]]
      <3>1. PICK d \in Classes : d = Parent[c]
        BY <2>1, <2>5 DEF ChainsOf
      <3> DEFINE h == Chains(d)
      <3>2. PICK T : ChainsOf(h, T) /\ d \in T
        BY <1>1
      <3>3. F[d] = h[d]
        BY ParentOf
      <3> HIDE DEF h, F
      <3>4. g[d] = h[d]
        BY <2>1, <2>5, <3>1, <3>2, ChainsAgree
      <3> QED
        BY <2>2, <2>3, <2>5, <3>1, <3>3, <3>4
    <2> QED
      BY <2>1, <2>4, <2>5 DEF ChainsOf
  <1>3. F = [c \in Classes \union {null} |-> IF c = null THEN <<>> ELSE <<c>> \o F[Parent[c]]]
    <2> DEFINE G == [c \in Classes \union {null} |-> IF c = null THEN <<>> ELSE <<c>> \o F[Parent[c]]]
    <2>1. F[null] = <<>> /\ G[null] = <<>>
      OBVIOUS
    <2>2. ASSUME NEW c \in Classes PROVE F[c] = G[c]
      <3>1. G[c] = <<c>> \o F[Parent[c]]
        BY ParentOf
      <3>2. <<c>> \o <<>> = <<c>>
        OBVIOUS
      <3> HIDE DEF F, G
      <3> QED
        BY <1>2, <2>1, <3>1, <3>2
    <2>3. DOMAIN F = Classes \union {null} /\ DOMAIN G = Classes \union {null}
          /\ F = [c \in DOMAIN F |-> F[c]] /\ G = [c \in DOMAIN G |-> G[c]]
      OBVIOUS
    <2> HIDE DEF F, G
    <2>4. F = G
      BY <2>1, <2>2, <2>3
    <2> QED
      BY <2>4 DEF G
  <1> HIDE DEF F
  <1>4. Chain = [c \in Classes \union {null} |-> IF c = null THEN <<>> ELSE <<c>> \o Chain[Parent[c]]]
    BY <1>3 DEF Chain
  <1>5. Chain[null] = <<>> /\ \A c \in Classes : Chain[c] = <<c>> \o Chain[Parent[c]]
    BY <1>4, ParentOf
  <1>6. \A c \in Classes : <<c>> \o <<>> = <<c>> /\ <<c>> \in Seq(Classes)
    OBVIOUS
  <1> DEFINE C == [c \in Classes |-> Chain[c]]
  <1>7. \A c \in Classes : C[c] = Chain[c]
    OBVIOUS
  <1>8. \A c \in Classes : Chain[c] \in Seq(Classes)
    <2> DEFINE Wrong == {c \in Classes : Chain[c] \notin Seq(Classes)}
    <2> SUFFICES ASSUME Wrong # {} PROVE FALSE
      OBVIOUS
    <2>1. PICK c \in Wrong : Parent[c] \notin Wrong
      <3>1. Wrong \in SUBSET Classes
        OBVIOUS
      <3> HIDE DEF Wrong
      <3> QED
        BY <3>1, ParentsAssumption
    <2>2. c \in Classes /\ Chain[c] \notin Seq(Classes) /\ Chain[c] = <<c>> \o Chain[Parent[c]]
      BY <1>5
    <2>3. Parent[c] = null \/ Chain[Parent[c]] \in Seq(Classes)
      BY <2>1, <2>2, ParentOf
    <2>4. CASE Parent[c] = null
      BY <1>5, <1>6, <2>2, <2>4
    <2>5. CASE Chain[Parent[c]] \in Seq(Classes)
      <3>1. PICK s \in Seq(Classes) : s = Chain[Parent[c]]
        BY <2>5
      <3>2. <<c>> \o s \in Seq(Classes)
        BY <2>2
      <3> QED
        BY <2>2, <3>1, <3>2
    <2> QED
      BY <2>3, <2>4, <2>5
  <1>9. C \in [Classes -> Seq(Classes)]
    BY <1>8
  <1> HIDE DEF C
  <1>10. ChainsOf(C, Classes)
    BY <1>5, <1>6, <1>7, <1>9, ParentOf DEF ChainsOf
  <1> QED
    BY <1>10 DEF C

(* A chain begins with its class, and goes on with the parent's.           *)
LEMMA ChainMembers ==
  ASSUME NEW c \in Classes
  PROVE  /\ Chain[c] \in Seq(Classes) /\ DOMAIN Chain[c] \subseteq Nat
         /\ ToSet(Chain[c]) \subseteq Classes /\ c \in ToSet(Chain[c])
         /\ 1 \in DOMAIN Chain[c] /\ Chain[c][1] = c
         /\ Parent[c] = null => ToSet(Chain[c]) = {c}
         /\ Parent[c] # null => Parent[c] \in Classes /\ ToSet(Chain[c]) = {c} \union ToSet(Chain[Parent[c]])
  <1>1. /\ Chain[c] \in Seq(Classes)
        /\ \/ Parent[c] = null /\ Chain[c] = <<c>>
           \/ Parent[c] \in Classes /\ Chain[Parent[c]] \in Seq(Classes) /\ Chain[c] = <<c>> \o Chain[Parent[c]]
    BY ChainIs DEF ChainsOf
  <1>2. \A s \in Seq(Classes) : Len(s) \in Nat /\ DOMAIN s = 1 .. Len(s) /\ \A i \in 1 .. Len(s) : s[i] \in Classes
    OBVIOUS
  <1>3. DOMAIN Chain[c] \subseteq Nat /\ ToSet(Chain[c]) \subseteq Classes
    BY <1>1, <1>2 DEF ToSet
  <1>4. CASE Parent[c] = null /\ Chain[c] = <<c>>
    <2>1. ToSet(Chain[c]) = {c}
      BY <1>4 DEF ToSet
    <2>2. 1 \in DOMAIN Chain[c] /\ Chain[c][1] = c
      BY <1>4
    <2> QED
      BY <1>1, <1>3, <1>4, <2>1, <2>2
  <1>5. CASE Parent[c] \in Classes /\ Chain[Parent[c]] \in Seq(Classes) /\ Chain[c] = <<c>> \o Chain[Parent[c]]
    <2>1. PICK s \in Seq(Classes) : s = Chain[Parent[c]]
      BY <1>5
    <2>2. PICK t \in Seq(Classes) : t = <<c>> \o s
      <3>1. <<c>> \in Seq(Classes)
        OBVIOUS
      <3>2. <<c>> \o s \in Seq(Classes)
        BY <3>1
      <3> QED
        BY <3>2
    <2>3. PICK n \in Nat : n = Len(s) /\ DOMAIN s = 1 .. n
      OBVIOUS
    <2>4. Len(t) = n + 1 /\ t[1] = c /\ \A i \in 1 .. n : t[i + 1] = s[i]
      BY <2>2, <2>3
    <2>5. DOMAIN t = 1 .. (n + 1)
      BY <2>4
    <2>6. \A i \in 1 .. (n + 1) : i = 1 \/ (i - 1 \in 1 .. n /\ (i - 1) + 1 = i)
      OBVIOUS
    <2>7. ToSet(t) = {c} \union ToSet(s)
      <3>1. ASSUME NEW x \in ToSet(t) PROVE x \in {c} \union ToSet(s)
        <4>1. PICK i \in 1 .. (n + 1) : x = t[i]
          BY <2>5 DEF ToSet
        <4>2. CASE i = 1
          BY <2>4, <4>1, <4>2
        <4>3. CASE i # 1
          <5>1. PICK j \in 1 .. n : i = j + 1
            BY <2>6, <4>3
          <5>2. x = s[j]
            BY <2>4, <4>1, <5>1
          <5> QED
            BY <2>3, <5>2 DEF ToSet
        <4> QED
          BY <4>2, <4>3
      <3>2. ASSUME NEW x \in ToSet(s) PROVE x \in ToSet(t)
        <4>1. PICK i \in 1 .. n : x = s[i]
          BY <2>3 DEF ToSet
        <4>2. i + 1 \in 1 .. (n + 1)
          OBVIOUS
        <4> QED
          BY <2>4, <2>5, <4>1, <4>2 DEF ToSet
      <3>3. c \in ToSet(t)
        BY <2>4, <2>5 DEF ToSet
      <3> QED
        BY <3>1, <3>2, <3>3
    <2>8. Parent[c] # null
      BY <1>5, ParentOf
    <2>9. 1 \in DOMAIN Chain[c] /\ Chain[c][1] = c
      <3>1. Chain[c] = t
        BY <1>5, <2>1, <2>2
      <3> QED
        BY <2>4, <2>5, <3>1
    <2> QED
      BY <1>1, <1>3, <1>5, <2>1, <2>2, <2>7, <2>8, <2>9
  <1> QED
    BY <1>1, <1>4, <1>5

(* The parents of a parent are parents.                                    *)
LEMMA ChainsNest ==
  ASSUME NEW c \in Classes, NEW d \in ToSet(Chain[c])
  PROVE  ToSet(Chain[d]) \subseteq ToSet(Chain[c])
  <1> DEFINE Wrong == {x \in Classes : ~\A y \in ToSet(Chain[x]) : ToSet(Chain[y]) \subseteq ToSet(Chain[x])}
  <1> SUFFICES ASSUME Wrong # {} PROVE FALSE
    OBVIOUS
  <1>1. PICK x \in Wrong : Parent[x] \notin Wrong
    <2>1. Wrong \in SUBSET Classes
      OBVIOUS
    <2> HIDE DEF Wrong
    <2> QED
      BY <2>1, ParentsAssumption
  <1>2. x \in Classes
    OBVIOUS
  <1>3. PICK y \in ToSet(Chain[x]) : ~(ToSet(Chain[y]) \subseteq ToSet(Chain[x]))
    OBVIOUS
  <1>4. CASE Parent[x] = null
    <2>1. ToSet(Chain[x]) = {x}
      BY <1>2, <1>4, ChainMembers
    <2>2. y = x
      BY <1>3, <2>1
    <2> QED
      BY <1>3, <2>2
  <1>5. CASE Parent[x] # null
    <2>1. Parent[x] \in Classes /\ ToSet(Chain[x]) = {x} \union ToSet(Chain[Parent[x]])
      BY <1>2, <1>5, ChainMembers
    <2>2. y # x
      BY <1>3
    <2>3. y \in ToSet(Chain[Parent[x]])
      BY <1>3, <2>1, <2>2
    <2>4. ToSet(Chain[y]) \subseteq ToSet(Chain[Parent[x]])
      BY <1>1, <2>1, <2>3
    <2> QED
      BY <1>3, <2>1, <2>4
  <1> QED
    BY <1>4, <1>5

(* What is assignable to a class is assignable to what that class is.      *)
LEMMA AssignableTransitive ==
  ASSUME NEW a, NEW b \in Classes, NEW c \in Classes,
         class_is_assignable_from(a, b), class_is_assignable_from(b, c)
  PROVE  class_is_assignable_from(a, c)
  <1>1. \A x \in Classes : x \in ToSet(Chain[x]) /\ ToSet(Chain[x]) \subseteq Classes
    BY ChainMembers
  <1>2. CASE a = Object
    BY <1>2 DEF class_is_assignable_from
  <1>3. CASE a # Object /\ b = Object
    <2>1. Object \in Classes /\ ToSet(Chain[Object]) = {Object}
      BY ClassesAssumption, InterfacesAssumption, ChainMembers
    <2>2. ToSet(Interfaces[Object]) = {}
      BY InterfacesAssumption DEF ToSet
    <2> QED
      BY <1>3, <2>1, <2>2 DEF class_is_assignable_from
  <1>4. CASE b \in ToSet(Chain[c])
    <2>1. ToSet(Chain[b]) \subseteq ToSet(Chain[c])
      BY <1>4, ChainsNest
    <2> QED
      BY <1>4, <2>1 DEF class_is_assignable_from
  <1>5. CASE \E d \in ToSet(Chain[c]) : b \in ToSet(Interfaces[d])
    <2>1. PICK d \in ToSet(Chain[c]) : b \in ToSet(Interfaces[d])
      BY <1>5
    <2>2. d \in Classes
      BY <1>1, <2>1
    <2>3. Parent[b] = null /\ ToSet(Interfaces[b]) \subseteq ToSet(Interfaces[d])
      BY <2>1, <2>2, InterfacesAssumption
    <2>4. ToSet(Chain[b]) = {b}
      BY <2>3, ChainMembers
    <2> QED
      BY <2>1, <2>3, <2>4 DEF class_is_assignable_from
  <1> QED
    BY <1>1, <1>2, <1>3, <1>4, <1>5 DEF class_is_assignable_from

--------------------------------------------------------------------------------
(* A search that finds places has a first one. *)
LEMMA FirstIsFound ==
  ASSUME NEW places \in SUBSET (Nat \X Nat), places # {}
  PROVE  first(places) \in places
  <1> DEFINE Rows == {p[1] : p \in places}
  <1>1. PICK i \in Rows : \A n \in Rows : i <= n
    <2>1. Rows \in SUBSET Nat /\ Rows # {}
      OBVIOUS
    <2> HIDE DEF Rows
    <2> QED
      BY <2>1, Least
  <1> DEFINE Row == {p[2] : p \in {r \in places : r[1] = i}}
  <1>2. PICK j \in Row : \A n \in Row : j <= n
    <2>1. Row \in SUBSET Nat /\ Row # {}
      OBVIOUS
    <2> HIDE DEF Row
    <2> QED
      BY <2>1, Least
  <1>3. <<i, j>> \in places
    BY <1>2
  <1>4. ASSUME NEW r \in places, r # <<i, j>>
        PROVE  before(<<i, j>>, r)
    <2>1. r = <<r[1], r[2]>> /\ r[1] \in Nat /\ r[2] \in Nat /\ i \in Nat /\ j \in Nat
      OBVIOUS
    <2>2. i <= r[1]
      BY <1>1
    <2>3. r[1] = i => j <= r[2]
      BY <1>2
    <2> QED
      BY <2>1, <2>2, <2>3, <1>4 DEF before
  <1> QED
    BY <1>3, <1>4 DEF first

(* Places are pairs of numbers and stand for methods. *)
LEMMA PlacesTyped ==
  ASSUME NEW klass \in Classes
  PROVE  /\ candidates(klass, Classes) \in SUBSET (Nat \X Nat)
         /\ \A p \in candidates(klass, Classes) : method_id(klass, p) \in AllMethods
  <1>1. Chain[klass] \in Seq(Classes)
    BY ChainMembers
  <1>2. \A i \in DOMAIN Chain[klass] : i \in Nat /\ Chain[klass][i] \in Classes
    BY <1>1
  <1>3. \A c \in Classes : DOMAIN Methods[c] \subseteq Nat
    BY MethodsAssumption
  <1>4. ASSUME NEW p \in candidates(klass, Classes)
        PROVE  p \in Nat \X Nat /\ method_id(klass, p) \in AllMethods
    <2>0. \E i \in {k \in DOMAIN Chain[klass] : Chain[klass][k] \in Classes} :
            p \in {<<i, j>> : j \in DOMAIN Methods[Chain[klass][i]]}
      BY DEF candidates
    <2>a. PICK i \in {k \in DOMAIN Chain[klass] : Chain[klass][k] \in Classes} :
            p \in {<<i, j>> : j \in DOMAIN Methods[Chain[klass][i]]}
      BY <2>0
    <2>b. PICK j \in DOMAIN Methods[Chain[klass][i]] : p = <<i, j>>
      BY <2>a
    <2>1. i \in DOMAIN Chain[klass] /\ j \in DOMAIN Methods[Chain[klass][i]] /\ p = <<i, j>>
      BY <2>a, <2>b
    <2>2. p[1] = i /\ p[2] = j
      BY <2>1
    <2>3. method_id(klass, p) = <<Chain[klass][i], j>>
      BY <2>2 DEF method_id
    <2> QED
      BY <1>2, <1>3, <2>1, <2>3 DEF AllMethods
  <1> QED
    BY <1>4

(* What a search ends with matches. *)
LEMMA FoundMatches ==
  ASSUME NEW klass \in Classes, NEW q, q.klass = klass, NEW id, id = find_among(candidates(klass, Classes), q),
         id # NoMethod
  PROVE  id \in AllMethods /\ matches(method(id), q) # "none"
  <1> DEFINE places == candidates(klass, Classes)
             exact == matching(places, q, "exact")
             light == lightest(places, q)
  <1>1. places \in SUBSET (Nat \X Nat) /\ \A p \in places : method_id(klass, p) \in AllMethods
    BY PlacesTyped
  <1> HIDE DEF places
  <1>2. \A p \in exact : p \in places /\ matches(method(method_id(klass, p)), q) = "exact"
    BY DEF matching
  <1>3. \A p \in light : p \in places /\ matches(method(method_id(klass, p)), q) = "convertible"
    BY DEF matching, lightest
  <1> HIDE DEF exact, light
  <1>4. exact \in SUBSET (Nat \X Nat) /\ light \in SUBSET (Nat \X Nat)
    BY <1>1, <1>2, <1>3
  <1>5. CASE exact # {}
    <2>1. id = method_id(klass, first(exact))
      BY <1>5 DEF find_among, exact, places
    <2>2. first(exact) \in exact
      BY <1>4, <1>5, FirstIsFound
    <2> QED
      BY <1>1, <1>2, <2>1, <2>2
  <1>6. CASE exact = {} /\ light # {}
    <2>1. id = method_id(klass, first(light))
      BY <1>6 DEF find_among, exact, light, places
    <2>2. first(light) \in light
      BY <1>4, <1>6, FirstIsFound
    <2> QED
      BY <1>1, <1>3, <2>1, <2>2
  <1>7. CASE exact = {} /\ light = {}
    BY <1>7 DEF find_among, exact, light, places
  <1> QED
    BY <1>5, <1>6, <1>7

(* A class is asked for the method in one of its own slots.                *)
LEMMA BySlot ==
  ASSUME NEW klass \in Classes, NEW slot, NEW id, id = by_slot(klass, slot), id # NoMethod
  PROVE  id \in AllMethods /\ method(id).slot = slot
  <1> DEFINE js == {j \in DOMAIN Methods[klass] : Methods[klass][j].slot = slot}
  <1>1. js # {} /\ id = <<klass, Min(js)>>
    BY DEF by_slot
  <1>2. js \in SUBSET Nat
    BY MethodsAssumption
  <1>3. PICK j \in js : id = <<klass, j>>
    <2>1. Min(js) \in js
      <3> HIDE DEF js
      <3> QED
        BY <1>1, <1>2, MinIs
    <2> HIDE DEF js
    <2> QED
      BY <1>1, <2>1
  <1>4. j \in DOMAIN Methods[klass] /\ Methods[klass][j].slot = slot
    BY <1>3
  <1>5. id[1] = klass /\ id[2] = j
    BY <1>3
  <1> QED
    BY <1>3, <1>4, <1>5 DEF AllMethods, method

(* The methods of a class and its parents.                                 *)
LEMMA InheritedTyped ==
  ASSUME NEW klass \in Classes
  PROVE  /\ Inherited(klass) \subseteq AllMethods
         /\ \A c \in ToSet(Chain[klass]) : Inherited(c) \subseteq Inherited(klass)
         /\ \A id \in Inherited(klass) : \E i \in DOMAIN Chain[klass] : \E j \in DOMAIN Methods[Chain[klass][i]] :
              id = <<Chain[klass][i], j>>
         /\ \A i \in DOMAIN Chain[klass] : \A j \in DOMAIN Methods[Chain[klass][i]] :
              <<Chain[klass][i], j>> \in Inherited(klass)
  <1>1. ToSet(Chain[klass]) \subseteq Classes /\ DOMAIN Chain[klass] \subseteq Nat
    BY ChainMembers
  <1>2. \A c \in ToSet(Chain[klass]) : ToSet(Chain[c]) \subseteq ToSet(Chain[klass])
    BY ChainsNest
  <1>3. \A x : x \in ToSet(Chain[klass]) <=> \E i \in DOMAIN Chain[klass] : x = Chain[klass][i]
    BY DEF ToSet
  <1>4. Inherited(klass) \subseteq AllMethods
    BY <1>1 DEF Inherited, AllMethods
  <1>5. \A c \in ToSet(Chain[klass]) : Inherited(c) \subseteq Inherited(klass)
    BY <1>2 DEF Inherited
  <1>6. ASSUME NEW id \in Inherited(klass)
        PROVE  \E i \in DOMAIN Chain[klass] : \E j \in DOMAIN Methods[Chain[klass][i]] : id = <<Chain[klass][i], j>>
    <2>1. PICK c \in ToSet(Chain[klass]) : \E j \in DOMAIN Methods[c] : id = <<c, j>>
      BY DEF Inherited
    <2>2. PICK i \in DOMAIN Chain[klass] : c = Chain[klass][i]
      BY <1>3
    <2> QED
      BY <2>1, <2>2
  <1>7. ASSUME NEW i \in DOMAIN Chain[klass], NEW j \in DOMAIN Methods[Chain[klass][i]]
        PROVE  <<Chain[klass][i], j>> \in Inherited(klass)
    <2>1. Chain[klass][i] \in ToSet(Chain[klass])
      BY <1>3
    <2> QED
      BY <2>1 DEF Inherited
  <1> QED
    BY <1>4, <1>5, <1>6, <1>7

(* The nearest class of a chain that has a method in a slot. *)
Nearest(klass, slot, i) ==
  /\ i \in DOMAIN Chain[klass]
  /\ by_slot(Chain[klass][i], slot) # NoMethod
  /\ \A k \in 1 .. i - 1 : by_slot(Chain[klass][k], slot) = NoMethod

(* The entry of a vtable slot: the method that the nearest class has in    *)
(* that slot, or the stub.                                                 *)
LEMMA VtableEntry ==
  ASSUME NEW klass \in Classes, NEW slot, \E id \in Inherited(klass) : method(id).slot = slot
  PROVE  \E i \in DOMAIN Chain[klass] :
           /\ Nearest(klass, slot, i)
           /\ vtable(klass, slot) = IF method(by_slot(Chain[klass][i], slot)).callable
                                      THEN by_slot(Chain[klass][i], slot) ELSE Stub
  <1> DEFINE places == {i \in DOMAIN Chain[klass] : by_slot(Chain[klass][i], slot) # NoMethod}
  <1>1. Chain[klass] \in Seq(Classes)
    BY ChainMembers
  <1>2. PICK n \in Nat : DOMAIN Chain[klass] = 1 .. n
    BY <1>1
  <1>3. places # {}
    <2>1. PICK id \in Inherited(klass) : method(id).slot = slot
      OBVIOUS
    <2>a. PICK i \in DOMAIN Chain[klass] : \E j \in DOMAIN Methods[Chain[klass][i]] : id = <<Chain[klass][i], j>>
      BY <2>1, InheritedTyped
    <2>2. PICK j \in DOMAIN Methods[Chain[klass][i]] : id = <<Chain[klass][i], j>>
      BY <2>a
    <2>3. Methods[Chain[klass][i]][j].slot = slot
      BY <2>1, <2>2 DEF method
    <2>4. by_slot(Chain[klass][i], slot) # <<>>
      BY <2>3 DEF by_slot
    <2> QED
      BY <2>4 DEF NoMethod
  <1>4. PICK i \in places : \A k \in places : i <= k
    <2>1. places \in SUBSET Nat
      BY <1>2
    <2> HIDE DEF places
    <2> QED
      BY <1>3, <2>1, Least
  <1>5. Nearest(klass, slot, i)
    <2>1. ASSUME NEW k \in 1 .. i - 1 PROVE by_slot(Chain[klass][k], slot) = NoMethod
      <3>1. k \in 1 .. n /\ ~(i <= k)
        BY <1>2, <1>4
      <3> QED
        BY <1>2, <1>4, <3>1
    <2> QED
      BY <2>1 DEF Nearest
  <1> DEFINE nearest == CHOOSE x \in DOMAIN Chain[klass] :
                          /\ by_slot(Chain[klass][x], slot) # NoMethod
                          /\ \A k \in 1 .. x - 1 : by_slot(Chain[klass][k], slot) = NoMethod
  <1>6. nearest \in DOMAIN Chain[klass] /\ Nearest(klass, slot, nearest)
    BY <1>4, <1>5 DEF Nearest
  <1>7. vtable(klass, slot) = IF method(by_slot(Chain[klass][nearest], slot)).callable
                                THEN by_slot(Chain[klass][nearest], slot) ELSE Stub
    BY DEF vtable
  <1> HIDE DEF nearest
  <1> QED
    BY <1>6, <1>7

(* A vtable's entries are methods, and those that have code are in their   *)
(* slot.                                                                   *)
LEMMA VtableTyped ==
  ASSUME NEW klass \in Classes, NEW slot \in Nat, slot < vtable_count(klass)
  PROVE  vtable(klass, slot) \in AllMethods
  <1>1. vtable_count(klass) \in Nat
    BY VtablesAssumption
  <1>2. slot \in 0 .. (vtable_count(klass) - 1)
    BY <1>1
  <1>3. \E id \in Inherited(klass) : method(id).slot = slot
    BY <1>2, VtablesAssumption
  <1>4. PICK i \in DOMAIN Chain[klass] :
          /\ Nearest(klass, slot, i)
          /\ vtable(klass, slot) = IF method(by_slot(Chain[klass][i], slot)).callable
                                     THEN by_slot(Chain[klass][i], slot) ELSE Stub
    BY <1>3, VtableEntry
  <1>5. Chain[klass][i] \in Classes
    BY ChainMembers DEF ToSet
  <1>6. by_slot(Chain[klass][i], slot) \in AllMethods
    BY <1>4, <1>5, BySlot DEF Nearest
  <1> QED
    BY <1>4, <1>6, VtablesAssumption

(* Lookup in a vtable finds a method, or none. *)
LEMMA ByVtable ==
  ASSUME NEW klass \in Classes, NEW declaring, NEW slot \in Nat, NEW id, id = by_vtable(klass, declaring, slot),
         id # NoMethod
  PROVE  id \in AllMethods
  <1>1. \A s : by_slot(klass, s) = NoMethod \/ by_slot(klass, s) \in AllMethods
    BY BySlot
  <1>2. vtable_count(klass) \in Nat
    BY VtablesAssumption
  <1>3. CASE declaring \notin InterfaceTypes
    <2>1. slot < vtable_count(klass)
      BY <1>2, <1>3 DEF by_vtable
    <2>2. vtable(klass, slot) \in AllMethods
      BY <2>1, VtableTyped
    <2>3. id = vtable(klass, slot) \/ id = by_slot(klass, slot)
      BY <1>3 DEF by_vtable
    <2> QED
      BY <1>1, <2>2, <2>3
  <1>4. CASE declaring \in InterfaceTypes /\ slot >= Len(Methods[declaring])
    BY <1>4 DEF by_vtable
  <1>5. CASE declaring \in InterfaceTypes /\ slot < Len(Methods[declaring]) /\ declaring \in DOMAIN Offsets[klass]
    <2>1. Offsets[klass][declaring] \in Nat
      BY <1>5, VtablesAssumption
    <2>2. PICK s \in Nat : s = Offsets[klass][declaring] + slot
      BY <2>1
    <2>3. s < vtable_count(klass) /\ id = vtable(klass, s)
      BY <1>5, <2>2 DEF by_vtable
    <2> QED
      BY <2>3, VtableTyped
  <1>6. CASE declaring \in InterfaceTypes /\ slot < Len(Methods[declaring]) /\ declaring \notin DOMAIN Offsets[klass]
    <2>1. ~(slot >= Len(Methods[declaring]))
      BY <1>6, HierarchyAssumption, MethodsAssumption
    <2>2. klass \in InterfaceTypes /\ slot < Len(Methods[klass]) /\ id = <<klass, slot + 1>>
      BY <1>6, <2>1 DEF by_vtable
    <2>3. Methods[klass] \in Seq(ToSet(Methods[klass]))
      BY MethodsAssumption
    <2>4. slot + 1 \in DOMAIN Methods[klass]
      BY <2>2, <2>3
    <2> QED
      BY <2>2, <2>4 DEF AllMethods
  <1>7. Len(Methods[declaring]) \in Nat \/ declaring \notin InterfaceTypes
    BY HierarchyAssumption, MethodsAssumption
  <1> QED
    BY <1>3, <1>4, <1>5, <1>6, <1>7

(* What is known of a call. *)
LEMMA CallGiven ==
  ASSUME IInv, Got("call")
  PROVE  input.call \in MemberCalls /\ result = call(input.call)
  <1>1. CallInput(input)
    BY DEF IInv, InputOK, Got, PatternInput, CodeInput, StringInput
  <1> QED
    BY <1>1 DEF IInv, ResultOK, CallInput

(* A method that has run had code, and unless the lookup went by types     *)
(* they have been compared.                                                *)
HasRun(c, info, id, m, returns, args, x) ==
  /\ id # NoMethod /\ m.callable
  /\ types_checked(info) \/ (/\ param_match(m, c.generics, extracted(args)) # "none"
                             /\ convertible(returns, m.returns, FALSE))
  /\ x.method = id
  /\ \A k \in DOMAIN m.params : x.params[k] = inflated(m.params[k], c.generics)
  /\ x.returned = inflated(m.returns, c.generics)

(* A call that delivers a value has run its method. *)
LEMMA InvokeDelivers ==
  ASSUME NEW c, NEW info, NEW id, NEW m, NEW returns, NEW args, NEW x,
         x = invoke(c, info, id, m, returns, args), x.is = "value"
  PROVE  HasRun(c, info, id, m, returns, args, x)
  <1>1. result_or_throw(c).is # "value"
    BY DEF result_or_throw
  <1>2. escaped(c).is # "value"
    BY DEF escaped
  <1>3. id # NoMethod /\ m.callable
    BY <1>1 DEF invoke
  <1>4. types_checked(info) \/ (/\ param_match(m, c.generics, extracted(args)) # "none"
                                /\ convertible(returns, m.returns, FALSE))
    BY <1>1, <1>3 DEF invoke
  <1>5. ~(id = NoMethod \/ ~m.callable)
        /\ ~(/\ id # NoMethod /\ m.callable /\ ~types_checked(info)
             /\ \/ param_match(m, c.generics, extracted(args)) = "none"
                \/ ~convertible(returns, m.returns, FALSE))
    BY <1>3, <1>4
  <1>6. x = IF m.generics > 0 /\ make_generic_fails(m, c.generics) THEN escaped(c)
            ELSE IF c.raises THEN result_or_throw(c)
            ELSE delivered(id, [k \in DOMAIN m.params |-> inflated(m.params[k], c.generics)],
                           inflated(m.returns, c.generics))
    BY <1>5 DEF invoke
  <1>7. x = delivered(id, [k \in DOMAIN m.params |-> inflated(m.params[k], c.generics)],
                      inflated(m.returns, c.generics))
    BY <1>1, <1>2, <1>6
  <1>8. PICK params : params = [k \in DOMAIN m.params |-> inflated(m.params[k], c.generics)]
    OBVIOUS
  <1>9. x = [is |-> "value", method |-> id, params |-> params, returned |-> inflated(m.returns, c.generics)]
    BY <1>7, <1>8 DEF delivered
  <1>10. \A k \in DOMAIN m.params : params[k] = inflated(m.params[k], c.generics)
    BY <1>8
  <1>11. x.method = id /\ x.params = params /\ x.returned = inflated(m.returns, c.generics)
    BY <1>9
  <1>12. \A k \in DOMAIN m.params : x.params[k] = inflated(m.params[k], c.generics)
    BY <1>10, <1>11
  <1> QED
    BY <1>3, <1>4, <1>11, <1>12 DEF HasRun

(* The types of a method's signature name no generic parameter but its     *)
(* own.                                                                    *)
LEMMA ParamTyped ==
  ASSUME NEW id \in AllMethods
  PROVE  /\ Len(method(id).params) \in Nat /\ DOMAIN method(id).params = 1 .. Len(method(id).params)
         /\ method(id).generics \in Nat
         /\ \A k \in DOMAIN method(id).params :
              method(id).params[k].mvar \in Int /\ method(id).params[k].mvar < method(id).generics
         /\ method(id).returns.mvar \in Int /\ method(id).returns.mvar < method(id).generics
         /\ method(id).returns.mvar >= 0 => method(id).returns.class \in ParameterClasses
  <1> DEFINE m == method(id)
  <1>1. m.params \in Seq(ToSet(m.params)) /\ m.generics \in Nat
        /\ \A t \in SignatureTypes(m) : t.mvar \in Int /\ t.mvar < m.generics
    BY SignaturesAssumption
  <1>2. m.returns \in SignatureTypes(m)
    BY DEF SignatureTypes
  <1>3. \A k \in DOMAIN m.params : m.params[k] \in SignatureTypes(m)
    BY DEF SignatureTypes, ToSet
  <1>4. m.returns.mvar >= 0 => m.returns.class \in ParameterClasses
    BY <1>2 DEF ParameterClasses
  <1> HIDE DEF m
  <1>5. Len(m.params) \in Nat /\ DOMAIN m.params = 1 .. Len(m.params)
    BY <1>1
  <1> QED
    BY <1>1, <1>2, <1>3, <1>4, <1>5 DEF m

(* The arguments of a method that is no mismatch are convertible. *)
LEMMA ParamsMatch ==
  ASSUME NEW id \in AllMethods, NEW generics, NEW args, param_match(method(id), generics, args) # "none",
         NEW k \in DOMAIN args, args[k] # NoType, k \in DOMAIN method(id).params
  PROVE  /\ inflated(method(id).params[k], generics).mvar \in Int
         /\ inflated(method(id).params[k], generics).mvar < 0
         /\ is_convertible_from(inflated(method(id).params[k], generics), args[k], TRUE)
  <1> DEFINE m == method(id)
             p == m.params[k]
  <1>1. p.mvar \in Int /\ p.mvar < m.generics /\ m.generics \in Nat
    BY ParamTyped
  <1>2. ~skipped(m, k, args)
    BY <1>1 DEF skipped
  <1>3. is_convertible_from(inflated(p, generics), args[k], TRUE)
    BY <1>2 DEF param_match
  <1>4. inflated(p, generics).mvar \in Int /\ inflated(p, generics).mvar < 0
    <2> HIDE DEF p
    <2>1. CASE p.mvar >= 0
      BY <2>1 DEF inflated
    <2>2. CASE ~(p.mvar >= 0)
      BY <1>1, <2>2 DEF inflated
    <2> QED
      BY <2>1, <2>2
  <1> QED
    BY <1>3, <1>4

(* It has as many parameters as there are arguments. *)
LEMMA ParamsAreCounted ==
  ASSUME NEW id \in AllMethods, NEW generics, NEW args, args \in Seq(ToSet(args)),
         param_match(method(id), generics, extracted(args)) # "none"
  PROVE  DOMAIN args = DOMAIN method(id).params /\ DOMAIN extracted(args) = DOMAIN args
  <1>1. Len(args) \in Nat /\ DOMAIN args = 1 .. Len(args)
    OBVIOUS
  <1>2. extracted(args) = [k \in 1 .. Len(args) |-> extract_type(args[k])]
    BY <1>1 DEF extracted
  <1>3. DOMAIN extracted(args) = 1 .. Len(args) /\ Len(extracted(args)) = Len(args)
    <2>1. \A f : \A n \in Nat : f = [k \in 1 .. n |-> extract_type(args[k])] => Len(f) = n
      OBVIOUS
    <2> QED
      BY <1>1, <1>2, <2>1
  <1>4. Len(method(id).params) = Len(extracted(args))
    BY DEF param_match
  <1> QED
    BY <1>1, <1>3, <1>4, ParamTyped

(* What a C++ value of a call may be. *)
IsValue(v) ==
  \/ v.type = NoType
  \/ v.object = null
  \/ v.type.class \in Classes /\ v.object \in Classes /\ class_is_assignable_from(v.type.class, v.object)

(* What a value refers to fits whatever its type is convertible to. *)
LEMMA ConvertibleFits ==
  ASSUME NEW v, IsValue(v), v.type # NoType, NEW t, t.mvar \in Int, t.mvar < 0, NEW args, is_convertible_from(t, extract_type(v), args)
  PROVE  fits(v.object, t)
  <1> SUFFICES ASSUME v.object # null PROVE fits(v.object, t)
    BY DEF fits
  <1>1. v.type.class \in Classes /\ v.object \in Classes /\ class_is_assignable_from(v.type.class, v.object)
    BY DEF IsValue
  <1>2. \A a : class_is_assignable_from(a, extract_type(v).class) => class_is_assignable_from(a, v.object)
    <2>1. CASE v.type = Type(Object)
      BY <2>1 DEF extract_type, Type
    <2>2. CASE v.type # Type(Object)
      BY <1>1, <2>2, AssignableTransitive DEF extract_type
    <2> QED
      BY <2>1, <2>2
  <1>3. \/ t.mvar >= 0
        \/ class_is_assignable_from(t.class, extract_type(v).class)
        \/ EnumBase[t.class] # null /\ class_is_assignable_from(EnumBase[t.class], extract_type(v).class)
    BY DEF is_convertible_from
  <1>4. ~(t.mvar >= 0)
    OBVIOUS
  <1> QED
    BY <1>2, <1>3, <1>4 DEF fits

(* A value of unknown type stays one of unknown type. *)
LEMMA TypesAreKept ==
  ASSUME NEW v, v.type # NoType
  PROVE  extract_type(v) # NoType
  BY DEF extract_type, Type, NoType

(* What is assumed of a call. *)
LEMMA CallTyped ==
  ASSUME NEW c \in MemberCalls
  PROVE  /\ c.klass \in Classes
         /\ c.returns.mvar \in Int /\ c.returns.mvar < 0 /\ c.returns.class \in Classes \ ParameterClasses
         /\ c.args \in Seq(ToSet(c.args)) /\ \A k \in DOMAIN c.args : IsValue(c.args[k])
         /\ c.op \in {"set_property", "set_field"} => DOMAIN c.args = {1}
         /\ (c.op = "run_method" /\ c.info.kind = "args") => "klass" \in DOMAIN c.info
         /\ (c.op = "run_method" /\ c.info.kind = "vtable") => c.info.slot \in Nat
  <1>1. c.args \in Seq(ToSet(c.args))
    BY CallsAssumption
  <1>2. \A k \in DOMAIN c.args : c.args[k] \in ToSet(c.args)
    BY DEF ToSet
  <1>3. \A v \in ToSet(c.args) : IsValue(v)
    BY CallsAssumption DEF IsValue
  <1>4. c.op \in {"set_property", "set_field"} => DOMAIN c.args = {1}
    <2> SUFFICES ASSUME c.op \in {"set_property", "set_field"} PROVE DOMAIN c.args = {1}
      OBVIOUS
    <2>1. Len(c.args) = 1
      BY CallsAssumption
    <2> QED
      BY <1>1, <2>1
  <1> QED
    BY <1>1, <1>2, <1>3, <1>4, CallsAssumption

(* Which lookup a call asks for. *)
Asked(c) == sought(c, c.info, c.args)

(* The method that a lookup finds for a call. *)
LEMMA FindsMethod ==
  ASSUME NEW c \in MemberCalls, c.op = "run_method", c.info.kind \in {"name", "args", "slot", "vtable"},
         NEW id, id = find_method(c.klass, Asked(c)), id # NoMethod
  PROVE  /\ id \in AllMethods
         /\ c.info.kind = "name" => param_match(method(id), c.generics, extracted(c.args)) # "none"
  <1>1. c.klass \in Classes
    BY CallTyped
  <1>2. CASE c.info.kind = "name"
    <2>1. PICK q : q = [kind |-> "types", klass |-> c.klass, name |-> c.info.name, generics |-> c.generics,
                        params |-> extracted(c.args)]
      OBVIOUS
    <2>2. [by_types(c, c.info.name, c.args) EXCEPT !.klass = c.klass] = q
      BY <2>1 DEF by_types
    <2>3. by_types(c, c.info.name, c.args).kind = "types"
      BY DEF by_types
    <2>4. id = find_among(candidates(c.klass, Classes), q)
      BY <1>2, <2>2, <2>3 DEF find_method, Asked, sought
    <2>5. q.klass = c.klass /\ q.kind = "types" /\ q.generics = c.generics /\ q.params = extracted(c.args)
      BY <2>1
    <2>6. id \in AllMethods /\ matches(method(id), q) # "none"
      BY <1>1, <2>4, <2>5, FoundMatches
    <2>7. param_match(method(id), q.generics, q.params) # "none"
      BY <2>5, <2>6 DEF matches
    <2> QED
      BY <2>5, <2>6, <2>7
  <1>3. CASE c.info.kind = "args"
    <2>1. PICK q : q = [c.info EXCEPT !.klass = c.klass]
      OBVIOUS
    <2>2. id = find_among(candidates(c.klass, Classes), q)
      BY <1>3, <2>1 DEF find_method, Asked, sought
    <2>3. q.klass = c.klass
      BY <1>3, <2>1, CallTyped
    <2> QED
      BY <1>1, <1>3, <2>2, <2>3, FoundMatches
  <1>4. CASE c.info.kind = "slot"
    <2>1. id = by_slot(c.klass, c.info.slot)
      BY <1>4 DEF find_method, Asked, sought
    <2> QED
      BY <1>1, <1>4, <2>1, BySlot
  <1>5. CASE c.info.kind = "vtable"
    <2>1. id = by_vtable(c.klass, c.info.declaring, c.info.slot)
      BY <1>5 DEF find_method, Asked, sought
    <2>2. c.info.slot \in Nat
      BY <1>5, CallTyped
    <2> QED
      BY <1>1, <1>5, <2>1, <2>2, ByVtable
  <1> QED
    BY <1>2, <1>3, <1>4, <1>5

(* The method id has run for c, with x as its outcome. *)
RanFor(c, id, x) ==
  /\ id \in AllMethods /\ x.method = id /\ method(id).callable
  /\ id = find_method(c.klass, Asked(c))
  /\ param_match(method(id), c.generics, extracted(c.args)) # "none"
  /\ \A k \in DOMAIN method(id).params : x.params[k] = inflated(method(id).params[k], c.generics)
  /\ x.returned = inflated(method(id).returns, c.generics)
  /\ c.info.kind # "name" => convertible(c.returns, method(id).returns, FALSE)

(* A call that delivers a value has run the method it looked up. *)
LEMMA RunFinds ==
  ASSUME NEW c \in MemberCalls, c.op = "run_method", c.info.kind \in {"name", "args", "slot", "vtable"},
         NEW x, x = call(c), x.is = "value"
  PROVE  \E id : RanFor(c, id, x)
  <1>1. PICK id : id = find_method(c.klass, Asked(c))
    OBVIOUS
  <1>2. x = invoke(c, c.info, id, method_or_none(id), c.returns, c.args)
    <2>1. x = IF find_crashes(c.klass, Asked(c)) THEN [is |-> "crashed"]
              ELSE invoke(c, c.info, id, method_or_none(id), c.returns, c.args)
      BY <1>1 DEF call, run_method_impl, run_method, Asked
    <2>2. x # [is |-> "crashed"]
      OBVIOUS
    <2> QED
      BY <2>1, <2>2
  <1>3. PICK m : m = method_or_none(id)
    OBVIOUS
  <1>4. /\ id # NoMethod /\ m.callable
        /\ types_checked(c.info) \/ (/\ param_match(m, c.generics, extracted(c.args)) # "none"
                                     /\ convertible(c.returns, m.returns, FALSE))
        /\ x.method = id
        /\ \A k \in DOMAIN m.params : x.params[k] = inflated(m.params[k], c.generics)
        /\ x.returned = inflated(m.returns, c.generics)
    <2>1. PICK info, returns, args : info = c.info /\ returns = c.returns /\ args = c.args
      OBVIOUS
    <2>2. x = invoke(c, info, id, m, returns, args)
      BY <1>2, <1>3, <2>1
    <2>3. x.is = "value"
      OBVIOUS
    <2>4. HasRun(c, info, id, m, returns, args, x)
      BY <2>2, <2>3, InvokeDelivers
    <2> QED
      BY <2>1, <2>4 DEF HasRun
  <1>5. m = method(id)
    BY <1>3, <1>4 DEF method_or_none
  <1>6. id \in AllMethods /\ (c.info.kind = "name" => param_match(m, c.generics, extracted(c.args)) # "none")
    BY <1>1, <1>4, <1>5, FindsMethod
  <1>7. c.info.kind # "name" => ~types_checked(c.info)
    BY DEF types_checked
  <1>8. /\ param_match(m, c.generics, extracted(c.args)) # "none"
        /\ c.info.kind # "name" => convertible(c.returns, m.returns, FALSE)
    BY <1>4, <1>6, <1>7
  <1> QED
    BY <1>1, <1>4, <1>5, <1>6, <1>8 DEF RanFor

(* The arguments of a method that has run fit its parameters. *)
LEMMA RunFits ==
  ASSUME NEW c \in MemberCalls, NEW id, NEW x, RanFor(c, id, x), NEW k \in DOMAIN c.args, c.args[k].type # NoType
  PROVE  fits(c.args[k].object, x.params[k])
  <1>1. /\ id \in AllMethods
        /\ param_match(method(id), c.generics, extracted(c.args)) # "none"
        /\ \A j \in DOMAIN method(id).params : x.params[j] = inflated(method(id).params[j], c.generics)
    BY DEF RanFor
  <1>2. c.args \in Seq(ToSet(c.args)) /\ IsValue(c.args[k])
    BY CallTyped
  <1>3. PICK args, generics : args = c.args /\ generics = c.generics
    OBVIOUS
  <1>4. DOMAIN args = DOMAIN method(id).params /\ DOMAIN extracted(args) = DOMAIN args
    BY <1>1, <1>2, <1>3, ParamsAreCounted
  <1>5. PICK types : types = extracted(args)
    OBVIOUS
  <1>6. types[k] = extract_type(args[k])
    BY <1>3, <1>5 DEF extracted
  <1>7. types[k] # NoType
    BY <1>3, <1>6, TypesAreKept
  <1>8. PICK t : t = inflated(method(id).params[k], generics)
    OBVIOUS
  <1>9. t.mvar \in Int /\ t.mvar < 0 /\ is_convertible_from(t, types[k], TRUE)
    BY <1>1, <1>3, <1>4, <1>5, <1>7, <1>8, ParamsMatch
  <1>10. PICK v : v = args[k]
    OBVIOUS
  <1>11. fits(v.object, t)
    <2>1. PICK b \in BOOLEAN : b = TRUE
      OBVIOUS
    <2>2. is_convertible_from(t, extract_type(v), b)
      BY <1>6, <1>9, <1>10, <2>1
    <2> QED
      BY <1>2, <1>3, <1>9, <1>10, <2>2, ConvertibleFits
  <1>12. x.params[k] = t
    BY <1>1, <1>3, <1>4, <1>8
  <1> QED
    BY <1>3, <1>10, <1>11, <1>12

(* A property or field that is found is declared by some class. *)
LEMMA DeclaredIs ==
  ASSUME NEW members, NEW klass \in Classes, NEW name, NEW x, x = declared(members, klass, name), x # NoMethod
  PROVE  \E d \in Classes : name \in DOMAIN members[d] /\ x = members[d][name]
  <1> DEFINE places == {i \in DOMAIN Chain[klass] : name \in DOMAIN members[Chain[klass][i]]}
  <1>1. places # {} /\ x = members[Chain[klass][Min(places)]][name]
    BY DEF declared
  <1>2. places \in SUBSET Nat
    BY ChainMembers
  <1>3. PICK i \in places : i = Min(places)
    <2> HIDE DEF places
    <2> QED
      BY <1>1, <1>2, MinIs
  <1>4. Chain[klass][i] \in Classes
    BY ChainMembers DEF ToSet
  <1> QED
    BY <1>1, <1>3, <1>4

(* What a value refers to fits a type that the code takes it for. *)
LEMMA AcceptedFits ==
  ASSUME NEW v, IsValue(v), v.type # NoType, NEW t, t.mvar \in Int, t.mvar < 0,
         NEW args \in BOOLEAN, convertible(t, extract_type(v), args)
  PROVE  fits(v.object, t)
  <1>1. is_convertible_from(t, extract_type(v), args)
    BY DEF convertible
  <1> QED
    BY <1>1, ConvertibleFits

(* A method of a property has no generic parameters. *)
LEMMA AccessorIs ==
  ASSUME NEW c \in MemberCalls, NEW property, property = find_property(c.klass, c.name), property # NoMethod,
         NEW id \in {property.get, property.set}, id # NoMethod
  PROVE  id \in AllMethods /\ method(id).generics = 0
  <1>1. PICK d \in Classes : c.name \in DOMAIN Properties[d] /\ property = Properties[d][c.name]
    <2>1. c.klass \in Classes /\ property = declared(Properties, c.klass, c.name)
      BY CallTyped DEF find_property
    <2> QED
      BY <2>1, DeclaredIs
  <1> QED
    BY <1>1, DeclarationsAssumption

(* A field's type is no generic parameter. *)
LEMMA FieldIs ==
  ASSUME NEW c \in MemberCalls, NEW field, field = find_field(c.klass, c.name), field # NoMethod
  PROVE  field.mvar \in Int /\ field.mvar < 0
  <1>1. PICK d \in Classes : c.name \in DOMAIN Fields[d] /\ field = Fields[d][c.name]
    <2>1. c.klass \in Classes /\ field = declared(Fields, c.klass, c.name)
      BY CallTyped DEF find_field
    <2> QED
      BY <2>1, DeclaredIs
  <1> QED
    BY <1>1, DeclarationsAssumption

(* A value that a property is set to fits the setter's parameter. *)
LEMMA SetterFits ==
  ASSUME NEW c \in MemberCalls, c.op = "set_property", NEW x, x = call(c), x.is = "value",
         c.args[1].type # NoType
  PROVE  fits(c.args[1].object, x.params[1])
  <1>1. PICK property : property = find_property(c.klass, c.name)
    OBVIOUS
  <1>2. PICK setter : setter = IF property = NoMethod THEN NoMethod ELSE property.set
    OBVIOUS
  <1>3. x = set_with(c, setter)
    BY <1>1, <1>2 DEF call, set_property_impl
  <1>4. result_or_throw(c).is # "value"
    BY DEF result_or_throw
  <1>5. /\ setter # NoMethod /\ Len(method(setter).params) = 1
        /\ convertible(method(setter).params[1], extract_type(c.args[1]), TRUE)
        /\ x = run_method(c, ByMethod(setter), setter, method(setter).returns, c.args)
    BY <1>3, <1>4 DEF set_with
  <1>6. setter \in AllMethods /\ method(setter).generics = 0
    BY <1>1, <1>2, <1>5, AccessorIs
  <1>7. PICK info, returns, args, m : info = ByMethod(setter) /\ returns = method(setter).returns /\ args = c.args
                                      /\ m = method(setter)
    OBVIOUS
  <1>8. x = invoke(c, info, setter, m, returns, args)
    BY <1>5, <1>7 DEF run_method, method_or_none
  <1>9. HasRun(c, info, setter, m, returns, args, x)
    BY <1>8, InvokeDelivers
  <1>10. 1 \in DOMAIN m.params
    BY <1>5, <1>6, <1>7, ParamTyped
  <1>11. m.params[1].mvar \in Int /\ m.params[1].mvar < 0
    BY <1>6, <1>7, <1>10, ParamTyped
  <1>12. x.params[1] = m.params[1]
    <2>1. x.params[1] = inflated(m.params[1], c.generics)
      BY <1>9, <1>10 DEF HasRun
    <2>2. ~(m.params[1].mvar >= 0)
      BY <1>11
    <2> QED
      BY <2>1, <2>2 DEF inflated
  <1>a. PICK v, t : v = c.args[1] /\ t = m.params[1]
    OBVIOUS
  <1>b. PICK b \in BOOLEAN : b = TRUE
    OBVIOUS
  <1>13. v = c.args[1] /\ t = m.params[1] /\ b = TRUE
    BY <1>a, <1>b
  <1>14. IsValue(v)
    <2>1. 1 \in DOMAIN c.args
      BY CallTyped
    <2> QED
      BY <1>13, <2>1, CallTyped
  <1>15. convertible(t, extract_type(v), b)
    BY <1>5, <1>7, <1>13
  <1>16. fits(v.object, t)
    BY <1>11, <1>13, <1>14, <1>15, AcceptedFits
  <1> QED
    BY <1>12, <1>13, <1>16

(* A value that a field is set to fits the field. *)
LEMMA FieldFits ==
  ASSUME NEW c \in MemberCalls, c.op = "set_field", NEW x, x = call(c), x.is = "value",
         c.args[1].type # NoType
  PROVE  fits(c.args[1].object, x.params[1])
  <1>1. PICK field : field = find_field(c.klass, c.name)
    OBVIOUS
  <1>2. x = set_field_impl(c)
    BY DEF call
  <1>3. result_or_throw(c).is # "value"
    BY DEF result_or_throw
  <1>4. /\ field # NoMethod /\ convertible(field, extract_type(c.args[1]), FALSE)
        /\ x = delivered(NoMethod, <<field>>, c.returns)
    BY <1>1, <1>2, <1>3 DEF set_field_impl
  <1>5. x.params = <<field>>
    BY <1>4 DEF delivered
  <1>a. PICK v, t : v = c.args[1] /\ t = field
    OBVIOUS
  <1>b. PICK b \in BOOLEAN : b = FALSE
    OBVIOUS
  <1>6. v = c.args[1] /\ t = field /\ b = FALSE
    BY <1>a, <1>b
  <1>7. IsValue(v)
    <2>1. 1 \in DOMAIN c.args
      BY CallTyped
    <2> QED
      BY <1>6, <2>1, CallTyped
  <1>8. t.mvar \in Int /\ t.mvar < 0
    BY <1>1, <1>4, <1>6, FieldIs
  <1>9. convertible(t, extract_type(v), b)
    BY <1>4, <1>6
  <1>10. fits(v.object, t)
    BY <1>6, <1>7, <1>8, <1>9, AcceptedFits
  <1> QED
    BY <1>5, <1>6, <1>10

(* Calls that may be made fit their arguments. *)
LEMMA ArgumentsAreFit == IInv => ArgumentsFit
  <1> SUFFICES ASSUME IInv, Called({"run_method", "set_property", "set_field"}),
                      input.call.op = "run_method" => input.call.info.kind \in {"name", "args", "slot", "vtable"}
               PROVE  \A k \in DOMAIN input.call.args :
                        input.call.args[k].type # NoType => fits(input.call.args[k].object, result.params[k])
    BY DEF ArgumentsFit
  <1>1. PICK c, x : c = input.call /\ x = result
    OBVIOUS
  <1>2. c \in MemberCalls /\ x = call(c) /\ x.is = "value" /\ c.op \in {"run_method", "set_property", "set_field"}
    BY <1>1, CallGiven DEF Called
  <1>3. SUFFICES ASSUME NEW k \in DOMAIN c.args, c.args[k].type # NoType PROVE fits(c.args[k].object, x.params[k])
    BY <1>1
  <1>4. CASE c.op = "run_method"
    <2>1. c.info.kind \in {"name", "args", "slot", "vtable"}
      BY <1>1, <1>4
    <2>2. PICK id : RanFor(c, id, x)
      BY <1>2, <1>4, <2>1, RunFinds
    <2> QED
      BY <1>2, <1>3, <2>2, RunFits
  <1>5. CASE c.op = "set_property"
    <2>1. k = 1
      BY <1>2, <1>3, <1>5, CallTyped
    <2> QED
      BY <1>2, <1>3, <1>5, <2>1, SetterFits
  <1>6. CASE c.op = "set_field"
    <2>1. k = 1
      BY <1>2, <1>3, <1>6, CallTyped
    <2> QED
      BY <1>2, <1>3, <1>6, <2>1, FieldFits
  <1> QED
    BY <1>2, <1>4, <1>5, <1>6

(* Only itself and Object are assignable from a generic parameter's class. *)
LEMMA ParameterIsObject ==
  ASSUME NEW p \in ParameterClasses, NEW a, class_is_assignable_from(a, p)
  PROVE  a \in {p, Object}
  <1>1. p \in Classes /\ Parent[p] = Object /\ Interfaces[p] = <<>>
    BY SignaturesAssumption
  <1>2. Object \in Classes /\ Object # null /\ Parent[Object] = null /\ Interfaces[Object] = <<>>
    BY ClassesAssumption, InterfacesAssumption
  <1>3. ToSet(Chain[p]) = {p, Object}
    BY <1>1, <1>2, ChainMembers
  <1>4. \A d \in {p, Object} : ToSet(Interfaces[d]) = {}
    BY <1>1, <1>2 DEF ToSet
  <1> QED
    BY <1>3, <1>4 DEF class_is_assignable_from

(* What a method returns fits the type that was asked for, if the types    *)
(* were compared.                                                          *)
LEMMA ReturnIsFit ==
  ASSUME NEW c \in MemberCalls, NEW id \in AllMethods, NEW b \in BOOLEAN, convertible(c.returns, method(id).returns, b)
  PROVE  fits(inflated(method(id).returns, c.generics).class, c.returns)
  <1> DEFINE r == method(id).returns
  <1>1. is_convertible_from(c.returns, r, b)
    BY DEF convertible
  <1>2. c.returns.mvar \in Int /\ c.returns.mvar < 0 /\ c.returns.class \in Classes \ ParameterClasses
    BY CallTyped
  <1>3. r.mvar \in Int /\ (r.mvar >= 0 => r.class \in ParameterClasses)
    BY ParamTyped
  <1> HIDE DEF r
  <1>4. ~(c.returns.mvar >= 0)
    BY <1>2
  <1>5. \/ class_is_assignable_from(c.returns.class, r.class)
        \/ EnumBase[c.returns.class] # null /\ class_is_assignable_from(EnumBase[c.returns.class], r.class)
    BY <1>1, <1>4 DEF is_convertible_from
  <1>6. fits(inflated(r, c.generics).class, c.returns)
    <2>1. CASE ~(r.mvar >= 0)
      BY <1>5, <2>1 DEF inflated, fits
    <2>2. CASE r.mvar >= 0
      <3>1. r.class \in ParameterClasses
        BY <1>3, <2>2
      <3>2. EnumBase[c.returns.class] # r.class
        BY <1>2, <3>1, SignaturesAssumption
      <3>3. c.returns.class = Object \/ (EnumBase[c.returns.class] # null /\ EnumBase[c.returns.class] = Object)
        BY <1>2, <1>5, <3>1, <3>2, ParameterIsObject
      <3>4. \A d : class_is_assignable_from(Object, d)
        BY DEF class_is_assignable_from
      <3> QED
        BY <3>3, <3>4 DEF fits
    <2> QED
      BY <2>1, <2>2
  <1> QED
    BY <1>6 DEF r

(* The value of a property fits what was asked for. *)
LEMMA GetterFits ==
  ASSUME NEW c \in MemberCalls, c.op = "get_property", NEW x, x = call(c), x.is = "value"
  PROVE  fits(x.returned.class, c.returns)
  <1>1. PICK property : property = find_property(c.klass, c.name)
    OBVIOUS
  <1>2. PICK getter : getter = IF property = NoMethod THEN NoMethod ELSE property.get
    OBVIOUS
  <1>3. x = get_with(c, getter)
    BY <1>1, <1>2 DEF call, get_property_impl
  <1>4. result_or_throw(c).is # "value"
    BY DEF result_or_throw
  <1>5. /\ getter # NoMethod /\ convertible(c.returns, method(getter).returns, FALSE)
        /\ x = run_method(c, ByMethod(getter), getter, c.returns, <<>>)
    BY <1>3, <1>4 DEF get_with
  <1>6. getter \in AllMethods
    BY <1>1, <1>2, <1>5, AccessorIs
  <1>7. PICK info, returns, args, m : info = ByMethod(getter) /\ returns = c.returns /\ args = <<>> /\ m = method(getter)
    OBVIOUS
  <1>8. x = invoke(c, info, getter, m, returns, args)
    BY <1>5, <1>7 DEF run_method, method_or_none
  <1>9. HasRun(c, info, getter, m, returns, args, x)
    BY <1>8, InvokeDelivers
  <1>10. x.returned = inflated(method(getter).returns, c.generics)
    BY <1>7, <1>9 DEF HasRun
  <1>11. PICK b \in BOOLEAN : b = FALSE
    OBVIOUS
  <1>12. convertible(c.returns, method(getter).returns, b)
    BY <1>5, <1>11
  <1> QED
    BY <1>6, <1>10, <1>12, ReturnIsFit

(* The value of a field fits what was asked for. *)
LEMMA FieldValueFits ==
  ASSUME NEW c \in MemberCalls, c.op = "get_field", NEW x, x = call(c), x.is = "value"
  PROVE  fits(x.returned.class, c.returns)
  <1>1. PICK field : field = find_field(c.klass, c.name)
    OBVIOUS
  <1>2. x = get_field_impl(c)
    BY DEF call
  <1>3. result_or_throw(c).is # "value"
    BY DEF result_or_throw
  <1>4. convertible(c.returns, field, FALSE) /\ x = delivered(NoMethod, <<>>, field)
    BY <1>1, <1>2, <1>3 DEF get_field_impl
  <1>5. x.returned = field
    BY <1>4 DEF delivered
  <1>6. ~(c.returns.mvar >= 0)
    BY CallTyped
  <1> QED
    BY <1>4, <1>5, <1>6 DEF convertible, is_convertible_from, fits

(* A cast gives an object of the class that was asked for. *)
LEMMA CastFits ==
  ASSUME NEW c \in MemberCalls, c.op = "cast", NEW x, x = call(c), x.is = "value"
  PROVE  fits(x.returned.class, c.returns)
  <1>1. PICK inst : inst = c.args[1]
    OBVIOUS
  <1>2. x = cast(c)
    BY DEF call
  <1>3. result_or_throw(c).is # "value"
    BY DEF result_or_throw
  <1>4. class_is_assignable_from(c.returns.class, inst.object) /\ x = delivered(NoMethod, <<>>, Type(inst.object))
    BY <1>1, <1>2, <1>3 DEF cast
  <1>5. x.returned.class = inst.object
    BY <1>4 DEF delivered, Type
  <1> QED
    BY <1>4, <1>5 DEF fits

(* What calls return fits, when they compare types. *)
LEMMA ReturnsAreFit ==
  ASSUME IInv, Called({"run_method", "get_property", "get_field", "cast"}),
         input.call.op = "run_method" => input.call.info.kind \in {"args", "slot", "vtable"}
  PROVE  ReturnFits
  <1>1. PICK c, x : c = input.call /\ x = result
    OBVIOUS
  <1>2. c \in MemberCalls /\ x = call(c) /\ x.is = "value"
        /\ c.op \in {"run_method", "get_property", "get_field", "cast"}
    BY <1>1, CallGiven DEF Called
  <1>3. SUFFICES fits(x.returned.class, c.returns)
    BY <1>1 DEF ReturnFits
  <1>4. CASE c.op = "run_method"
    <2>1. c.info.kind \in {"args", "slot", "vtable"}
      BY <1>1, <1>4
    <2>2. PICK id : RanFor(c, id, x)
      BY <1>2, <1>4, <2>1, RunFinds
    <2>3. id \in AllMethods /\ x.returned = inflated(method(id).returns, c.generics)
          /\ convertible(c.returns, method(id).returns, FALSE)
      BY <2>1, <2>2 DEF RanFor
    <2>4. PICK b \in BOOLEAN : b = FALSE
      OBVIOUS
    <2>5. convertible(c.returns, method(id).returns, b)
      BY <2>3, <2>4
    <2> QED
      BY <1>2, <2>3, <2>5, ReturnIsFit
  <1>5. CASE c.op # "run_method"
    BY <1>2, <1>5, GetterFits, FieldValueFits, CastFits
  <1> QED
    BY <1>4, <1>5

(* The methods of class c with the name and parameters of mm. *)
Same(c, mm) == {j \in DOMAIN Methods[c] : Methods[c][j].name = mm.name /\ Methods[c][j].params = mm.params}

(* The nearest of them in a chain. *)
NearestSame(klass, mm) ==
  LET nearest == Min({i \in DOMAIN Chain[klass] : Same(Chain[klass][i], mm) # {}})
  IN  <<Chain[klass][nearest], Min(Same(Chain[klass][nearest], mm))>>

(* The methods in a slot of a class. *)
InSlot(declaring, slot) == {id \in Inherited(declaring) : method(id).slot = slot}

(* The one that the slot means. *)
MeantBy(declaring, slot) ==
  IF declaring \in InterfaceTypes THEN method(<<declaring, slot + 1>>)
  ELSE method(CHOOSE id \in InSlot(declaring, slot) : TRUE)

(* override is that of the method that is meant. *)
LEMMA OverrideIs ==
  ASSUME NEW klass, NEW declaring, NEW slot
  PROVE  override(klass, declaring, slot) = NearestSame(klass, MeantBy(declaring, slot))
  BY DEF override, NearestSame, Same, MeantBy, InSlot

(* The methods of a class in the slot of a method with mm's signature are  *)
(* those with that signature.                                              *)
LEMMA SlotIsSignature ==
  ASSUME NEW klass \in Classes \ InterfaceTypes, NEW slot \in Nat,
         NEW meant \in Inherited(klass), method(meant).slot = slot,
         NEW mm, same_signature(method(meant), mm),
         NEW i \in DOMAIN Chain[klass]
  PROVE  by_slot(Chain[klass][i], slot) =
           IF Same(Chain[klass][i], mm) = {} THEN NoMethod
           ELSE <<Chain[klass][i], Min(Same(Chain[klass][i], mm))>>
  <1> DEFINE c == Chain[klass][i]
             js == {j \in DOMAIN Methods[c] : Methods[c][j].slot = slot}
  <1>1. \A j \in DOMAIN Methods[c] : <<c, j>> \in Inherited(klass)
    BY InheritedTyped
  <1>2. \A j \in DOMAIN Methods[c] : method(<<c, j>>) = Methods[c][j]
    BY DEF method
  <1> HIDE DEF c
  <1>3. ASSUME NEW j \in DOMAIN Methods[c]
        PROVE  Methods[c][j].slot = slot <=> Methods[c][j].name = mm.name /\ Methods[c][j].params = mm.params
    <2>1. method(meant).slot >= 0
      OBVIOUS
    <2>2. PICK other \in Inherited(klass) : other = <<c, j>>
      BY <1>1
    <2>3. method(meant).slot = method(other).slot <=> same_signature(method(meant), method(other))
      BY <2>1, VtablesAssumption
    <2>4. method(other) = Methods[c][j]
      BY <1>2, <2>2
    <2> QED
      BY <2>3, <2>4 DEF same_signature
  <1>4. js = Same(c, mm)
    BY <1>3 DEF Same
  <1>5. by_slot(c, slot) = IF js = {} THEN NoMethod ELSE <<c, Min(js)>>
    BY DEF by_slot
  <1> HIDE DEF js
  <1> QED
    BY <1>4, <1>5 DEF c

(* A vtable's entry that has code is the nearest method with the signature *)
(* of any method in its slot.                                              *)
LEMMA EntryOverrides ==
  ASSUME NEW klass \in Classes \ InterfaceTypes, NEW slot \in Nat,
         NEW meant \in Inherited(klass), method(meant).slot = slot,
         NEW mm, same_signature(method(meant), mm),
         NEW id, id = vtable(klass, slot), method(id).callable
  PROVE  id = NearestSame(klass, mm)
  <1>1. PICK i \in DOMAIN Chain[klass] :
          /\ Nearest(klass, slot, i)
          /\ vtable(klass, slot) = IF method(by_slot(Chain[klass][i], slot)).callable
                                     THEN by_slot(Chain[klass][i], slot) ELSE Stub
    BY VtableEntry
  <1>2. id = by_slot(Chain[klass][i], slot)
    BY <1>1, VtablesAssumption
  <1> DEFINE S == {k \in DOMAIN Chain[klass] : Same(Chain[klass][k], mm) # {}}
  <1>3. \A k \in DOMAIN Chain[klass] :
          /\ Same(Chain[klass][k], mm) = {} => by_slot(Chain[klass][k], slot) = NoMethod
          /\ Same(Chain[klass][k], mm) # {} =>
               by_slot(Chain[klass][k], slot) = <<Chain[klass][k], Min(Same(Chain[klass][k], mm))>>
    BY SlotIsSignature
  <1>4. DOMAIN Chain[klass] \subseteq Nat /\ \A k \in DOMAIN Chain[klass] : k >= 1
    <2>1. Chain[klass] \in Seq(Classes)
      BY ChainMembers
    <2> QED
      BY <2>1
  <1>5. i \in S
    BY <1>1, <1>3 DEF Nearest
  <1>6. \A k \in S : i <= k
    <2> SUFFICES ASSUME NEW k \in S, ~(i <= k) PROVE FALSE
      OBVIOUS
    <2>1. k \in 1 .. i - 1
      BY <1>4
    <2>2. by_slot(Chain[klass][k], slot) = NoMethod
      BY <1>1, <2>1 DEF Nearest
    <2>3. by_slot(Chain[klass][k], slot) = <<Chain[klass][k], Min(Same(Chain[klass][k], mm))>>
      BY <1>3
    <2>4. \A a, b : <<a, b>> # NoMethod
      BY DEF NoMethod
    <2> QED
      BY <2>2, <2>3, <2>4
  <1>7. Min(S) = i
    <2>1. S \in SUBSET Nat
      BY <1>4
    <2> HIDE DEF S
    <2> QED
      BY <1>5, <1>6, <2>1, MinUnique
  <1>8. id = <<Chain[klass][i], Min(Same(Chain[klass][i], mm))>>
    BY <1>2, <1>3, <1>5
  <1> QED
    BY <1>7, <1>8 DEF NearestSame

(* A call by a class's slot runs the override of the method there. *)
LEMMA ClassSlots ==
  ASSUME NEW klass \in Classes \ InterfaceTypes, NEW declaring \in ToSet(Chain[klass]), declaring \notin InterfaceTypes,
         NEW slot \in Nat,
         (\E id \in Inherited(declaring) : method(id).slot = slot) \/ slot >= vtable_count(klass),
         NEW id, id = by_vtable(klass, declaring, slot), id # NoMethod, method(id).callable
  PROVE  id = override(klass, declaring, slot)
  <1>1. slot < vtable_count(klass)
    <2>1. vtable_count(klass) \in Nat
      BY VtablesAssumption
    <2> QED
      BY <2>1 DEF by_vtable
  <1>2. PICK meant : meant = CHOOSE d \in InSlot(declaring, slot) : TRUE
    OBVIOUS
  <1>3. meant \in InSlot(declaring, slot)
    <2>1. vtable_count(klass) \in Nat
      BY VtablesAssumption
    <2>2. InSlot(declaring, slot) # {}
      BY <1>1, <2>1 DEF InSlot
    <2> QED
      BY <1>2, <2>2
  <1>4. meant \in Inherited(klass) /\ method(meant).slot = slot
    BY <1>3, InheritedTyped DEF InSlot
  <1>5. PICK mm : mm = method(meant)
    OBVIOUS
  <1>a. override(klass, declaring, slot) = NearestSame(klass, mm)
    <2>1. mm = MeantBy(declaring, slot)
      BY <1>2, <1>5 DEF MeantBy
    <2> QED
      BY <2>1, OverrideIs
  <1>6. PICK i \in DOMAIN Chain[klass] :
          /\ Nearest(klass, slot, i)
          /\ vtable(klass, slot) = IF method(by_slot(Chain[klass][i], slot)).callable
                                     THEN by_slot(Chain[klass][i], slot) ELSE Stub
    BY <1>4, VtableEntry
  <1>7. id = vtable(klass, slot)
    <2>1. id = vtable(klass, slot) \/ id = by_slot(klass, slot)
      BY <1>1 DEF by_vtable
    <2>2. ASSUME id = by_slot(klass, slot) PROVE id = vtable(klass, slot)
      <3>1. 1 \in DOMAIN Chain[klass] /\ Chain[klass][1] = klass
        BY ChainMembers
      <3>2. i = 1
        <4>1. i \in Nat /\ i >= 1
          <5>1. Chain[klass] \in Seq(Classes)
            BY ChainMembers
          <5> QED
            BY <1>6, <5>1
        <4>2. ~(1 \in 1 .. i - 1)
          BY <1>6, <2>2, <3>1 DEF Nearest
        <4> QED
          BY <4>1, <4>2
      <3> QED
        BY <1>6, <2>2, <3>1, <3>2
    <2> QED
      BY <2>1, <2>2
  <1>8. same_signature(method(meant), mm)
    BY <1>5 DEF same_signature
  <1> QED
    BY <1>4, <1>a, <1>7, <1>8, EntryOverrides

(* A call by an interface's slot runs the method that implements it. *)
LEMMA InterfaceSlots ==
  ASSUME NEW klass \in Classes \ InterfaceTypes, NEW declaring \in InterfaceTypes, NEW slot \in Nat,
         NEW id, id = by_vtable(klass, declaring, slot), id # NoMethod, method(id).callable
  PROVE  id = override(klass, declaring, slot)
  <1>1. Methods[declaring] \in Seq(ToSet(Methods[declaring]))
    BY HierarchyAssumption, MethodsAssumption
  <1>2. Len(Methods[declaring]) \in Nat /\ DOMAIN Methods[declaring] = 1 .. Len(Methods[declaring])
    BY <1>1
  <1>3. slot < Len(Methods[declaring]) /\ declaring \in DOMAIN Offsets[klass]
    BY <1>2 DEF by_vtable
  <1>4. id = IF Offsets[klass][declaring] + slot < vtable_count(klass)
               THEN vtable(klass, Offsets[klass][declaring] + slot) ELSE NoMethod
    BY <1>2, <1>3 DEF by_vtable
  <1>5. Offsets[klass][declaring] \in Nat
    BY <1>3, VtablesAssumption
  <1>6. PICK entry \in Nat : entry = Offsets[klass][declaring] + slot
    BY <1>5
  <1>7. PICK j \in DOMAIN Methods[declaring] : j = slot + 1
    BY <1>2, <1>3
  <1>8. PICK meant \in Inherited(klass) :
          method(meant).slot = Offsets[klass][declaring] + j - 1
          /\ same_signature(method(meant), method(<<declaring, j>>))
    BY <1>3, <1>7, VtablesAssumption
  <1>9. method(meant).slot = entry
    BY <1>5, <1>6, <1>7, <1>8
  <1>10. PICK mm : mm = method(<<declaring, j>>)
    OBVIOUS
  <1>11. override(klass, declaring, slot) = NearestSame(klass, mm)
    <2>1. mm = MeantBy(declaring, slot)
      BY <1>7, <1>10 DEF MeantBy
    <2> QED
      BY <2>1, OverrideIs
  <1>12. id = vtable(klass, entry)
    BY <1>4, <1>6
  <1>13. id = NearestSame(klass, mm)
    BY <1>8, <1>9, <1>10, <1>12, EntryOverrides
  <1> QED
    BY <1>11, <1>13

(* Calls by slot run what the object's class overrides the slot with. *)
LEMMA SlotsAreResolved == IInv => SlotsResolve
  <1> SUFFICES ASSUME IInv, Called({"run_method"}), input.call.info.kind = "vtable",
                      derives(input.call.klass, input.call.info.declaring)
               PROVE  result.method = override(input.call.klass, input.call.info.declaring, input.call.info.slot)
    BY DEF SlotsResolve
  <1>1. PICK c, x : c = input.call /\ x = result
    OBVIOUS
  <1>2. c \in MemberCalls /\ x = call(c) /\ x.is = "value" /\ c.op = "run_method" /\ c.info.kind = "vtable"
    BY <1>1, CallGiven DEF Called
  <1>3. PICK id : RanFor(c, id, x)
    BY <1>2, RunFinds
  <1>4. PICK klass, declaring, slot : klass = c.klass /\ declaring = c.info.declaring /\ slot = c.info.slot
    OBVIOUS
  <1>5. id \in AllMethods /\ x.method = id /\ method(id).callable /\ id = by_vtable(klass, declaring, slot)
    BY <1>2, <1>3, <1>4 DEF RanFor, find_method, Asked, sought
  <1>6. id # NoMethod
    BY <1>5 DEF AllMethods, NoMethod
  <1>7. klass \in Classes /\ slot \in Nat
    BY <1>2, <1>4, CallTyped
  <1>8. klass \notin InterfaceTypes /\ (declaring \in ToSet(Chain[klass]) \/ declaring \in DOMAIN Offsets[klass])
    BY <1>1, <1>4 DEF derives
  <1>9. declaring \in ToSet(Chain[klass]) =>
          (\E d \in Inherited(declaring) : method(d).slot = slot) \/ slot >= vtable_count(klass)
    BY <1>2, <1>4, CallsAssumption
  <1>10. declaring \in InterfaceTypes \/ declaring \in ToSet(Chain[klass])
    BY <1>7, <1>8, VtablesAssumption
  <1>11. id = override(klass, declaring, slot)
    <2>1. CASE declaring \in InterfaceTypes
      BY <1>5, <1>6, <1>7, <1>8, <2>1, InterfaceSlots
    <2>2. CASE declaring \notin InterfaceTypes
      BY <1>5, <1>6, <1>7, <1>8, <1>9, <1>10, <2>2, ClassSlots
    <2> QED
      BY <2>1, <2>2
  <1> QED
    BY <1>1, <1>4, <1>5, <1>11

(* Any call that may be made and delivers a value fits. *)
LEMMA FitOfCalls == IInv => CallsFit
  BY ArgumentsAreFit, ReturnsAreFit, SlotsAreResolved DEF CallsFit

(* A call of a member that is made runs the member that was asked for,     *)
(* with arguments and a result that fit the declared types, for any        *)
(* hierarchy, members and arguments.                                       *)
THEOREM CallsAlwaysFit == Spec => []CallsFit
  BY FitOfCalls, Invariance, PTL

=================================================================================
