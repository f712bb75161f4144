---------------------------- MODULE SharedLemmas ----------------------------
(***************************************************************************)
(* What several proofs need: what taking a line out of a set and putting   *)
(* one in do to the blocks and the lines the set has, and induction over   *)
(* the natural numbers, for a set of them that is given by name.           *)
(***************************************************************************)
EXTENDS Integers, LineSets, WellFoundedInduction, TLAPS

Holds(q, b) == \E w \in DOMAIN q : q[w].block = b
Has(q, x) == \E w \in DOMAIN q : q[w] = x

\* No block is there twice.
Unique(q) == \A v, w \in DOMAIN q : q[v].block = q[w].block => v = w
-----------------------------------------------------------------------------
LEMMA WithoutIs ==
    ASSUME NEW S, NEW q \in Seq(S), NEW w \in DOMAIN q
    PROVE  /\ Without(q, w) \in Seq(S)
           /\ Len(Without(q, w)) = Len(q) - 1
           /\ \A k \in 1 .. Len(q) - 1 :
                Without(q, w)[k] = IF k < w THEN q[k] ELSE q[k + 1]
  <1> DEFINE before == SubSeq(q, 1, w - 1)
             behind == SubSeq(q, w + 1, Len(q))
  <1>1. w \in 1 .. Len(q) /\ Len(q) \in Nat
      OBVIOUS
  <1>2. before \in Seq(S) /\ Len(before) = w - 1
        /\ \A k \in 1 .. w - 1 : before[k] = q[k]
      BY <1>1
  <1>3. behind \in Seq(S) /\ Len(behind) = Len(q) - w
        /\ \A k \in 1 .. Len(q) - w : behind[k] = q[w + k]
      BY <1>1
  <1>4. Without(q, w) = before \o behind
      BY DEF Without
  <1> HIDE DEF before, behind
  <1>5. before \o behind \in Seq(S) /\ Len(before \o behind) = Len(q) - 1
      BY <1>1, <1>2, <1>3
  <1>6. ASSUME NEW k \in 1 .. Len(q) - 1
        PROVE  (before \o behind)[k] = IF k < w THEN q[k] ELSE q[k + 1]
    <2>1. (before \o behind)[k] = IF k <= w - 1 THEN before[k] ELSE behind[k - (w - 1)]
        BY <1>1, <1>2, <1>3
    <2> QED
        BY <1>1, <1>2, <1>3, <2>1
  <1> QED
      BY <1>4, <1>5, <1>6

LEMMA WithoutKeeps ==
    ASSUME NEW S, NEW q \in Seq(S), Unique(q), NEW w \in DOMAIN q
    PROVE  /\ Without(q, w) \in Seq(S) /\ Unique(Without(q, w))
           /\ Len(Without(q, w)) = Len(q) - 1
           /\ \A b : Holds(Without(q, w), b) <=> Holds(q, b) /\ b # q[w].block
           /\ \A x : Has(Without(q, w), x) <=> Has(q, x) /\ x # q[w]
  <1> DEFINE r == Without(q, w)
  <1>1. Len(q) \in Nat /\ w \in 1 .. Len(q)
      OBVIOUS
  <1>2. /\ r \in Seq(S) /\ Len(r) = Len(q) - 1
        /\ \A k \in 1 .. Len(q) - 1 : r[k] = IF k < w THEN q[k] ELSE q[k + 1]
      BY <1>1, WithoutIs
  <1> HIDE DEF r
  <1>3. \A k \in DOMAIN r : \E v \in DOMAIN q \ {w} : r[k] = q[v]
    <2> TAKE k \in DOMAIN r
    <2>1. CASE k < w
        BY <1>1, <1>2, <2>1
    <2>2. CASE ~(k < w)
      <3>1. k + 1 \in DOMAIN q \ {w}
          BY <1>1, <1>2, <2>2
      <3> QED
          BY <1>1, <1>2, <2>2, <3>1
    <2> QED
        BY <2>1, <2>2
  <1>4. \A v \in DOMAIN q \ {w} : \E k \in DOMAIN r : r[k] = q[v]
    <2> TAKE v \in DOMAIN q \ {w}
    <2>1. CASE v < w
        BY <1>1, <1>2, <2>1
    <2>2. CASE ~(v < w)
      <3>1. v - 1 \in DOMAIN r /\ ~(v - 1 < w) /\ (v - 1) + 1 = v
          BY <1>1, <1>2, <2>2
      <3> QED
          BY <1>1, <1>2, <3>1
    <2> QED
        BY <2>1, <2>2
  <1>5. Unique(r)
    <2> SUFFICES ASSUME NEW j \in DOMAIN r, NEW k \in DOMAIN r,
                        r[j].block = r[k].block
                 PROVE  j = k
        BY DEF Unique
    <2> DEFINE from(n) == IF n < w THEN n ELSE n + 1
    <2>1. from(j) \in DOMAIN q /\ from(k) \in DOMAIN q
          /\ r[j] = q[from(j)] /\ r[k] = q[from(k)]
        BY <1>1, <1>2
    <2>2. from(j) = from(k)
        BY <2>1 DEF Unique
    <2> QED
        BY <1>1, <1>2, <2>2
  <1>6. \A b : Holds(r, b) <=> Holds(q, b) /\ b # q[w].block
      BY <1>3, <1>4 DEF Holds, Unique
  <1>7. \A x : Has(r, x) <=> Has(q, x) /\ x # q[w]
      BY <1>3, <1>4 DEF Has, Unique
  <1> QED
      BY <1>2, <1>5, <1>6, <1>7 DEF r

LEMMA AppendKeeps ==
    ASSUME NEW S, NEW q \in Seq(S), Unique(q), NEW x \in S, ~Holds(q, x.block)
    PROVE  /\ Append(q, x) \in Seq(S) /\ Unique(Append(q, x))
           /\ Len(Append(q, x)) = Len(q) + 1
           /\ \A b : Holds(Append(q, x), b) <=> Holds(q, b) \/ b = x.block
           /\ \A y : Has(Append(q, x), y) <=> Has(q, y) \/ y = x
  <1> DEFINE r == Append(q, x)
  <1>1. Len(q) \in Nat
      OBVIOUS
  <1>2. /\ r \in Seq(S) /\ Len(r) = Len(q) + 1
        /\ r[Len(q) + 1] = x /\ \A k \in DOMAIN q : r[k] = q[k]
      BY <1>1
  <1>3. DOMAIN r = DOMAIN q \cup {Len(q) + 1}
      BY <1>1, <1>2
  <1> HIDE DEF r
  <1>4. Unique(r)
      BY <1>2, <1>3 DEF Unique, Holds
  <1>5. \A b : Holds(r, b) <=> Holds(q, b) \/ b = x.block
      BY <1>2, <1>3 DEF Holds
  <1>6. \A y : Has(r, y) <=> Has(q, y) \/ y = x
      BY <1>2, <1>3 DEF Has
  <1> QED
      BY <1>2, <1>4, <1>5, <1>6 DEF r

LEMMA TailIsWithout ==
    ASSUME NEW S, NEW q \in Seq(S), q # <<>>
    PROVE  Tail(q) = Without(q, 1) /\ Head(q) = q[1] /\ 1 \in DOMAIN q
  <1>1. Len(q) \in Nat /\ Len(q) # 0
      OBVIOUS
  <1>2. 1 \in DOMAIN q
      BY <1>1
  <1>3. /\ Tail(q) \in Seq(S) /\ Len(Tail(q)) = Len(q) - 1
        /\ \A k \in 1 .. Len(q) - 1 : Tail(q)[k] = q[k + 1]
      BY <1>1
  <1>4. /\ Without(q, 1) \in Seq(S) /\ Len(Without(q, 1)) = Len(q) - 1
        /\ \A k \in 1 .. Len(q) - 1 : Without(q, 1)[k] = q[k + 1]
      BY <1>1, <1>2, WithoutIs
  <1>5. Tail(q) = Without(q, 1)
      BY <1>1, <1>3, <1>4
  <1> QED
      BY <1>2, <1>5
-----------------------------------------------------------------------------
LEMMA Smallest ==
    ASSUME NEW T, T \subseteq Nat, T # {}
    PROVE  \E x \in T : \A y \in T : x <= y
  <1>1. PICK x \in T : \A y \in T : <<y, x>> \notin OpToRel(<, Nat)
      BY NatLessThanWellFounded, WFMin
  <1>2. \A y \in T : ~(y < x)
      BY <1>1 DEF OpToRel
  <1> QED
      BY <1>2

\* The induction of NaturalsInduction with a set in place of the operator,
\* which a proof can name.
LEMMA Induction ==
    ASSUME NEW S, 0 \in S, \A n \in Nat : n \in S => n + 1 \in S
    PROVE  Nat \subseteq S
  <1> SUFFICES ASSUME Nat \ S # {} PROVE FALSE
      OBVIOUS
  <1>1. PICK n \in Nat \ S : \A m \in Nat \ S : n <= m
      BY Smallest
  <1>2. n - 1 \in Nat /\ (n - 1) + 1 = n
      BY <1>1
  <1>3. n - 1 \in S
      BY <1>1, <1>2
  <1> QED
      BY <1>1, <1>2, <1>3

\* E takes any element of S, in each of n steps, to one; f starts at a and
\* goes on with E.
Stepper(E, S, n) == E \in [S \X (1 .. n) -> S]
Iterates(f, E, S, a, n) ==
    f \in [0 .. n -> S] /\ f[0] = a /\ \A i \in 1 .. n : f[i] = E[<<f[i - 1], i>>]

LEMMA IterationExists ==
    ASSUME NEW S, NEW a \in S, NEW n \in Nat, NEW E, Stepper(E, S, n)
    PROVE  \E f : Iterates(f, E, S, a, n)
  <1> USE DEF Stepper, Iterates
  <1> DEFINE Up(f, m) == /\ f \in [0 .. m -> S] /\ f[0] = a
                         /\ \A i \in 1 .. m : f[i] = E[<<f[i - 1], i>>]
             T == {m \in Nat : m <= n => \E f : Up(f, m)}
  <1>1. 0 \in T
    <2>1. Up([i \in 0 .. 0 |-> a], 0)
        OBVIOUS
    <2> QED
        BY <2>1
  <1>2. ASSUME NEW m \in Nat, m \in T PROVE m + 1 \in T
    <2> SUFFICES ASSUME m + 1 <= n PROVE \E f : Up(f, m + 1)
        OBVIOUS
    <2>1. PICK f : Up(f, m)
        BY <1>2
    <2> DEFINE g == [i \in 0 .. m + 1 |-> IF i = m + 1 THEN E[<<f[m], m + 1>>]
                                          ELSE f[i]]
    <2>2. f[m] \in S /\ E[<<f[m], m + 1>>] \in S
        BY <2>1
    <2>3. g \in [0 .. m + 1 -> S] /\ g[0] = a
        BY <2>1, <2>2
    <2>4. (\A i \in 0 .. m : g[i] = f[i]) /\ g[m + 1] = E[<<f[m], m + 1>>]
        OBVIOUS
    <2> HIDE DEF g
    <2>5. \A i \in 1 .. m : g[i] = f[i] /\ g[i - 1] = f[i - 1]
        BY <2>4
    <2>6. \A i \in 1 .. m : g[i] = E[<<g[i - 1], i>>]
        BY <2>1, <2>5
    <2>7. g[m + 1] = E[<<g[(m + 1) - 1], m + 1>>]
        BY <2>4
    <2>8. \A i \in 1 .. m + 1 : i \in 1 .. m \/ i = m + 1
        OBVIOUS
    <2>9. Up(g, m + 1)
        BY <2>3, <2>6, <2>7, <2>8
    <2> HIDE DEF Up
    <2> QED
        BY <2>9
  <1> HIDE DEF T
  <1>3. n \in T
      BY <1>1, <1>2, Induction
  <1> QED
      BY <1>3 DEF T
-----------------------------------------------------------------------------
(* Division.                                                               *)

LEMMA DivisionIs ==
    ASSUME NEW x \in Int, NEW d \in Nat \ {0}
    PROVE  /\ x \div d \in Int /\ x % d \in 0 .. d - 1
           /\ x = (d * (x \div d)) + (x % d)
  OBVIOUS

LEMMA ProductIsAtLeast ==
    ASSUME NEW d \in Nat \ {0}, NEW k \in Int, k >= 1
    PROVE  d * k \in Int /\ d * k >= d
  OBVIOUS

LEMMA RestsAreUnique ==
    ASSUME NEW d \in Nat \ {0}, NEW q \in Int, NEW r \in 0 .. d - 1,
           NEW p \in Int, NEW s \in 0 .. d - 1, (d * q) + r = (d * p) + s
    PROVE  q = p /\ r = s
  <1>0. d * q \in Int /\ d * p \in Int
      OBVIOUS
  <1>1. CASE q = p
      BY <1>1
  <1>2. ASSUME q > p PROVE FALSE
    <2>1. d * (q - p) >= d
        BY <1>2, ProductIsAtLeast
    <2>2. d * (q - p) = (d * q) - (d * p)
        OBVIOUS
    <2> QED
        BY <1>0, <2>1, <2>2
  <1>3. ASSUME p > q PROVE FALSE
    <2>1. d * (p - q) >= d
        BY <1>3, ProductIsAtLeast
    <2>2. d * (p - q) = (d * p) - (d * q)
        OBVIOUS
    <2> QED
        BY <1>0, <2>1, <2>2
  <1> QED
      BY <1>1, <1>2, <1>3

\* How a quotient and a rest are recognised.
LEMMA DivisionBy ==
    ASSUME NEW x \in Int, NEW d \in Nat \ {0}, NEW q \in Int, NEW r \in 0 .. d - 1,
           x = (d * q) + r
    PROVE  x \div d = q /\ x % d = r
  <1>1. /\ x \div d \in Int /\ x % d \in 0 .. d - 1
        /\ x = (d * (x \div d)) + (x % d)
      BY DivisionIs
  <1> QED
      BY <1>1, RestsAreUnique

LEMMA SmallRest ==
    ASSUME NEW d \in Nat \ {0}, NEW x \in 0 .. d - 1
    PROVE  x % d = x
  OBVIOUS

\* Numbers less than d apart have different rests.
LEMMA NearRestsDiffer ==
    ASSUME NEW d \in Nat \ {0}, NEW x \in Int, NEW y \in Int,
           x - y \in 0 .. d - 1, x % d = y % d
    PROVE  x = y
  <1> DEFINE q == x \div d  p == y \div d  r == x % d
  <1>1. /\ q \in Int /\ p \in Int /\ r \in 0 .. d - 1
        /\ x = (d * q) + r /\ y = (d * p) + r
      BY DivisionIs
  <1> HIDE DEF q, p, r
  <1>2. d * q \in Int /\ d * p \in Int
      BY <1>1
  <1>3. (d * q) + 0 = (d * p) + (x - y)
      BY <1>1, <1>2
  <1>4. 0 = x - y
      BY <1>1, <1>3, RestsAreUnique
  <1> QED
      BY <1>4
=============================================================================
