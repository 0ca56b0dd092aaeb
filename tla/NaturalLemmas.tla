--------------------------- MODULE NaturalLemmas ---------------------------
(* Facts about the natural numbers that several proofs need.  The least-number
   principle of a set is the form of induction the provers can use: the library
   states induction for an operator, the well-foundedness of < for a set. *)
EXTENDS Integers, WellFoundedInduction, TLAPS

\* A set of naturals with an element has a least one.
LEMMA LeastNatural ==
    ASSUME NEW T \in SUBSET Nat, T # {}
    PROVE  \E m \in T : \A n \in T : m <= n
<1>1. PICK m \in T : \A n \in T : ~ (<<n, m>> \in OpToRel(<, Nat))
  BY NatLessThanWellFounded, WFMin, Zenon
<1>2. \A n \in T : ~ (n < m)
  BY <1>1 DEF OpToRel
<1> QED
  BY <1>2

\* A set that holds 0, and with every n the number after it, holds every natural.
LEMMA InductiveSet ==
    ASSUME NEW T, 0 \in T, \A n \in Nat : n \in T => n + 1 \in T
    PROVE  Nat \subseteq T
<1> SUFFICES ASSUME Nat \ T # {} PROVE FALSE
  OBVIOUS
<1>1. PICK m \in Nat \ T : \A n \in Nat \ T : m <= n
  BY LeastNatural
<1>2. m # 0 /\ m - 1 \in Nat /\ m - 1 \notin Nat \ T
  BY <1>1
<1>3. (m - 1) + 1 \in T
  BY <1>2
<1> QED
  BY <1>1, <1>3

\* The same for the indices from 0 up to some last one.
LEMMA EveryIndex ==
    ASSUME NEW last \in Nat, NEW T, 0 \in T, \A k \in 1 .. last : k - 1 \in T => k \in T
    PROVE  0 .. last \subseteq T
<1> DEFINE U == {n \in Nat : n <= last => n \in T}
<1>1. 0 \in U
  OBVIOUS
<1>2. ASSUME NEW n \in Nat, n \in U PROVE n + 1 \in U
  <2>1. n + 1 <= last => n + 1 \in 1 .. last /\ (n + 1) - 1 = n
    OBVIOUS
  <2> QED
    BY <1>2, <2>1
<1> HIDE DEF U
<1>3. Nat \subseteq U
  BY <1>1, <1>2, InductiveSet
<1> QED
  BY <1>3 DEF U

\* f is a recursion over the indices: it begins with `first` and takes the steps.
Recursion(f, S, first, last, step) ==
    /\ f \in [0 .. last -> S] /\ f[0] = first
    /\ \A k \in 1 .. last : f[k] = step[k][f[k - 1]]

\* Such a function exists: what a recursive function of this project computes
\* satisfies its defining equation.
LEMMA RecursionExists ==
    ASSUME NEW S, NEW first \in S, NEW last \in Nat, NEW step \in [1 .. last -> [S -> S]]
    PROVE  \E f : Recursion(f, S, first, last, step)
<1> DEFINE Solves(f, n) ==
               /\ f \in [0 .. n -> S] /\ f[0] = first
               /\ \A k \in 1 .. n : f[k] = step[k][f[k - 1]]
           T == {n \in Nat : \E f : Solves(f, n)}
<1>1. 0 \in T
  <2>1. Solves([k \in 0 .. 0 |-> first], 0)
    OBVIOUS
  <2> QED
    BY <2>1
<1>2. ASSUME NEW n \in 1 .. last, n - 1 \in T PROVE n \in T
  <2>1. PICK f : Solves(f, n - 1)
    BY <1>2
  <2> DEFINE g == [k \in 0 .. n |-> IF k = n THEN step[n][f[n - 1]] ELSE f[k]]
  <2>2. /\ n \in Nat /\ n - 1 \in 0 .. n - 1 /\ 0 \in 0 .. n /\ n \in 0 .. n /\ n # 0
        /\ \A k \in 0 .. n : k # n => k \in 0 .. n - 1
        /\ \A k \in 1 .. n : k - 1 \in 0 .. n /\ k - 1 # n /\ k \in 0 .. n
        /\ \A k \in 1 .. n : k # n => k \in 1 .. n - 1
    OBVIOUS
  <2>3. f[n - 1] \in S /\ step[n][f[n - 1]] \in S
    BY <2>1, <2>2
  <2>4. g \in [0 .. n -> S] /\ g[0] = first
    BY <2>1, <2>2, <2>3
  <2>5. ASSUME NEW k \in 1 .. n PROVE g[k] = step[k][g[k - 1]]
    <3>1. g[k - 1] = f[k - 1]
      BY <2>2
    <3> QED
      BY <2>1, <2>2, <3>1
  <2>6. Solves(g, n)
    BY <2>4, <2>5
  <2> QED
    BY <2>2, <2>6
<1> HIDE DEF T
<1>3. \A k \in 1 .. last : k - 1 \in T => k \in T
  BY <1>2
<1>4. 0 .. last \subseteq T
  BY <1>1, <1>3, EveryIndex
<1>5. last \in T
  BY <1>4
<1> QED
  BY <1>5 DEF T, Recursion

\* A bounded set of naturals with an element has a greatest one.
LEMMA GreatestNatural ==
    ASSUME NEW T \in SUBSET Nat, T # {}, NEW bound \in Nat, \A t \in T : t <= bound
    PROVE  \E m \in T : \A n \in T : n <= m
<1> DEFINE gaps == {g \in Nat : \E t \in T : g = bound - t}
<1>1. gaps \in SUBSET Nat /\ gaps # {}
  <2>1. PICK t \in T : TRUE
    OBVIOUS
  <2>2. bound - t \in Nat
    OBVIOUS
  <2> QED
    BY <2>2
<1>2. PICK g \in gaps : \A h \in gaps : g <= h
  <2> HIDE DEF gaps
  <2> QED
    BY <1>1, LeastNatural
<1>3. PICK m \in T : g = bound - m
  BY <1>2
<1>4. ASSUME NEW n \in T PROVE n <= m
  <2>1. bound - n \in gaps /\ n \in Nat /\ m \in Nat
    OBVIOUS
  <2>2. g <= bound - n
    BY <1>2, <2>1
  <2> QED
    BY <1>3, <2>1, <2>2
<1> QED
  BY <1>4

\* How far a quotient is from its dividend.
LEMMA DivBounds ==
    ASSUME NEW n \in Nat, NEW r \in Nat \ {0}
    PROVE  /\ n \div r \in Nat /\ n \div r <= n
           /\ (n \div r) * r <= n /\ n <= (n \div r) * r + r - 1
OBVIOUS

LEMMA DivMonotone ==
    ASSUME NEW m \in Nat, NEW n \in Nat, NEW r \in Nat \ {0}, m <= n
    PROVE  m \div r <= n \div r
OBVIOUS

LEMMA TimesMonotone ==
    ASSUME NEW m \in Nat, NEW n \in Nat, NEW r \in Nat, m < n
    PROVE  m * r \in Nat /\ m * r + r <= n * r
OBVIOUS
=============================================================================
