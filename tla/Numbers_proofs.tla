--------------------------- MODULE Numbers_proofs ---------------------------
(***************************************************************************)
(* Lemmas about natural numbers: quotients and remainders, least numbers   *)
(* and ranks, and functions that the modules of this project define by     *)
(* recursion on numbers: lists of blocks that are followed, trees that are *)
(* descended, one write after another. They are stated with sets and       *)
(* functions in the place of predicates and operators.                     *)
(***************************************************************************)
EXTENDS Integers, FiniteSets, FiniteSetTheorems, WellFoundedInduction, TLAPS

-----------------------------------------------------------------------------
(* Quotients and remainders *)

(* Multiplication by a natural number keeps the order. *)
LEMMA TimesMonotone ==
  ASSUME NEW m \in Nat, NEW a \in Int, NEW b \in Int, a >= b
  PROVE  m * a >= m * b
<1>1. a - b \in Nat
  OBVIOUS
<1>2. m * (a - b) >= 0
  BY <1>1
<1>3. m * (a - b) = m * a - m * b
  OBVIOUS
<1> QED
  BY <1>2, <1>3

(* Quotient and remainder of a natural number. *)
LEMMA DivMod ==
  ASSUME NEW a \in Nat, NEW b \in Nat \ {0}
  PROVE  /\ a \div b \in Nat
         /\ a % b \in 0..(b - 1)
         /\ a = b * (a \div b) + (a % b)
<1>1. a \div b \in Int /\ a % b \in 0..(b - 1) /\ a = b * (a \div b) + (a % b)
  OBVIOUS
<1>2. a \div b >= 0
  OBVIOUS
<1> QED
  BY <1>1, <1>2

(* A product lies strictly between two consecutive multiples only if its    *)
(* factors do: the quotient is unique.                                      *)
LEMMA QuotientUnique ==
  ASSUME NEW b \in Nat \ {0}, NEW q \in Int, NEW r \in 0..(b - 1),
         NEW p \in Int, NEW s \in 0..(b - 1),
         b * q + r = b * p + s
  PROVE  q = p /\ r = s
<1>1. ~(q > p)
  <2> SUFFICES ASSUME q >= p + 1 PROVE FALSE
    OBVIOUS
  <2>1. b * q >= b * (p + 1)
    BY TimesMonotone
  <2>2. b * (p + 1) = b * p + b
    OBVIOUS
  <2>3. b * q \in Int /\ b * p \in Int
    OBVIOUS
  <2> QED
    BY <2>1, <2>2, <2>3
<1>2. ~(p > q)
  <2> SUFFICES ASSUME p >= q + 1 PROVE FALSE
    OBVIOUS
  <2>1. b * p >= b * (q + 1)
    BY TimesMonotone
  <2>2. b * (q + 1) = b * q + b
    OBVIOUS
  <2>3. b * q \in Int /\ b * p \in Int
    OBVIOUS
  <2> QED
    BY <2>1, <2>2, <2>3
<1>3. q = p
  BY <1>1, <1>2
<1>4. b * q = b * p /\ b * q \in Int
  BY <1>3
<1> QED
  BY <1>3, <1>4

\* Quotient and remainder are unique.
LEMMA DivUnique ==
  ASSUME NEW a \in Nat, NEW b \in Nat \ {0}, NEW q \in Int, NEW r \in 0..(b - 1),
         a = b * q + r
  PROVE  a \div b = q /\ a % b = r
<1>1. /\ a \div b \in Nat /\ a % b \in 0..(b - 1)
      /\ a = b * (a \div b) + (a % b)
  BY DivMod
<1> DEFINE p == a \div b
           s == a % b
<1>2. p \in Int /\ s \in 0..(b - 1) /\ b * p + s = b * q + r
  BY <1>1
<1> HIDE DEF p, s
<1>3. p = q /\ s = r
  BY <1>2, QuotientUnique
<1> QED
  BY <1>3 DEF p, s

(* From a number to the next one. *)
LEMMA DivNext ==
  ASSUME NEW a \in Nat, NEW b \in Nat \ {0}
  PROVE  IF a % b = b - 1
           THEN (a + 1) \div b = (a \div b) + 1 /\ (a + 1) % b = 0
           ELSE (a + 1) \div b = a \div b /\ (a + 1) % b = (a % b) + 1
<1> DEFINE q == a \div b
           r == a % b
<1>1. q \in Nat /\ r \in 0..(b - 1) /\ a = b * q + r
  BY DivMod
<1> HIDE DEF q, r
<1>2. CASE r = b - 1
  <2>1. b * (q + 1) = b * q + b /\ b * q \in Int
    BY <1>1
  <2>2. a + 1 = b * (q + 1) + 0
    BY <1>1, <1>2, <2>1
  <2>3. (a + 1) \div b = q + 1 /\ (a + 1) % b = 0
    BY <1>1, <2>2, DivUnique
  <2> QED
    BY <1>2, <2>3 DEF q, r
<1>3. CASE r # b - 1
  <2>1. a + 1 = b * q + (r + 1) /\ r + 1 \in 0..(b - 1)
    BY <1>1, <1>3
  <2>2. (a + 1) \div b = q /\ (a + 1) % b = r + 1
    BY <1>1, <2>1, DivUnique
  <2> QED
    BY <1>3, <2>2 DEF q, r
<1> QED
  BY <1>2, <1>3

(* Numbers that differ by one multiple. *)
LEMMA DivShift ==
  ASSUME NEW a \in Nat, NEW b \in Nat \ {0}, NEW k \in Nat, a >= b * k
  PROVE  (a - b * k) \div b = (a \div b) - k /\ (a - b * k) % b = a % b
<1> DEFINE q == a \div b
           r == a % b
<1>1. q \in Nat /\ r \in 0..(b - 1) /\ a = b * q + r
  BY DivMod
<1> HIDE DEF q, r
<1>2. b * (q - k) = b * q - b * k /\ b * q \in Int /\ b * k \in Int
  BY <1>1
<1>3. a - b * k \in Nat /\ a - b * k = b * (q - k) + r
  BY <1>1, <1>2
<1>4. (a - b * k) \div b = q - k /\ (a - b * k) % b = r
  BY <1>1, <1>3, DivUnique
<1> QED
  BY <1>4 DEF q, r

(* Dividing by b and then by m is dividing by b * m. *)
LEMMA DivTwice ==
  ASSUME NEW a \in Nat, NEW b \in Nat \ {0}, NEW m \in Nat \ {0}
  PROVE  a \div (b * m) = (a \div b) \div m
<1> DEFINE q == a \div b
           r == a % b
           e == q \div m
           i == q % m
<1>1. q \in Nat /\ r \in 0..(b - 1) /\ a = b * q + r
  BY DivMod
<1>2. e \in Nat /\ i \in 0..(m - 1) /\ q = m * e + i
  BY <1>1, DivMod
<1> HIDE DEF q, r, e, i
<1>3. a = (b * m) * e + (b * i + r)
  <2>1. b * q = b * (m * e) + b * i
    BY <1>2
  <2>2. b * (m * e) = (b * m) * e
    BY <1>2
  <2> QED
    BY <1>1, <1>2, <2>1, <2>2
<1>4. b * m \in Nat \ {0}
  <2>1. b * m >= b * 1
    BY TimesMonotone
  <2> QED
    BY <2>1
<1>5. b * i + r \in 0..(b * m - 1)
  <2>1. b * (m - 1) >= b * i
    BY <1>2, TimesMonotone
  <2>2. b * (m - 1) = b * m - b
    OBVIOUS
  <2>3. b * i >= 0 /\ b * i \in Int
    BY <1>2
  <2> QED
    BY <1>1, <1>4, <2>1, <2>2, <2>3
<1>6. a \div (b * m) = e
  BY <1>2, <1>3, <1>4, <1>5, DivUnique
<1> QED
  BY <1>6 DEF e, q

\* A larger number has no smaller quotient.
LEMMA DivMonotone ==
  ASSUME NEW a \in Nat, NEW c \in Nat, NEW b \in Nat \ {0}, a <= c
  PROVE  a \div b <= c \div b
<1> DEFINE q == a \div b
           p == c \div b
<1>1. /\ q \in Nat /\ a % b \in 0..(b - 1) /\ a = b * q + (a % b)
      /\ p \in Nat /\ c % b \in 0..(b - 1) /\ c = b * p + (c % b)
  BY DivMod
<1> HIDE DEF q, p
<1>2. ~(q > p)
  <2> SUFFICES ASSUME q >= p + 1 PROVE FALSE
    BY <1>1
  <2>1. b * q >= b * (p + 1)
    BY <1>1, TimesMonotone
  <2>2. b * (p + 1) = b * p + b /\ b * p \in Int /\ b * q \in Int
    BY <1>1
  <2> QED
    BY <1>1, <2>1, <2>2
<1> QED
  BY <1>1, <1>2 DEF q, p

-----------------------------------------------------------------------------
(* Least numbers, ranks and induction *)

\* A set of natural numbers that is not empty has a least element.
LEMMA LeastNumber ==
  ASSUME NEW S \in SUBSET Nat, S # {}
  PROVE  \E n \in S : \A m \in S : n <= m
<1>1. PICK n \in S : \A m \in S : ~(<<m, n>> \in OpToRel(<, Nat))
  BY NatLessThanWellFounded, WFMin
<1>2. \A m \in S : ~(m < n)
  BY <1>1 DEF OpToRel
<1> QED
  BY <1>2

\* So one of the elements of a set has the lowest rank.
LEMMA LowestRank ==
  ASSUME NEW R, R # {}, NEW rank, \A s \in R : rank[s] \in Nat
  PROVE  \E s \in R : \A t \in R : rank[s] <= rank[t]
<1> DEFINE ranks == {rank[s] : s \in R}
<1>1. ranks \in SUBSET Nat /\ ranks # {}
  OBVIOUS
<1>2. PICK n \in ranks : \A m \in ranks : n <= m
  BY <1>1, LeastNumber
<1> QED
  BY <1>2

\* One of the elements of a finite set has the highest rank: the one with the
\* fewest elements above it.
LEMMA HighestRank ==
  ASSUME NEW R, IsFiniteSet(R), R # {}, NEW rank, \A s \in R : rank[s] \in Nat
  PROVE  \E s \in R : \A t \in R : rank[t] <= rank[s]
<1> DEFINE above == [s \in R |-> {t \in R : rank[s] < rank[t]}]
           size == [s \in R |-> Cardinality(above[s])]
<1>1. \A s \in R : above[s] = {t \in R : rank[s] < rank[t]} /\ size[s] = Cardinality(above[s])
  OBVIOUS
<1> HIDE DEF above, size
<1>2. \A s \in R : IsFiniteSet(above[s]) /\ size[s] \in Nat
  <2> SUFFICES ASSUME NEW s \in R PROVE IsFiniteSet(above[s]) /\ size[s] \in Nat
    OBVIOUS
  <2>1. above[s] \in SUBSET R
    BY <1>1
  <2>2. IsFiniteSet(above[s])
    BY <2>1, FS_Subset
  <2>3. Cardinality(above[s]) \in Nat
    BY <2>2, FS_CardinalityType
  <2> QED
    BY <1>1, <2>2, <2>3
<1>3. PICK s \in R : \A t \in R : size[s] <= size[t]
  BY <1>2, LowestRank
<1>4. ASSUME NEW t \in above[s]
      PROVE  FALSE
  <2>1. t \in R /\ rank[s] < rank[t]
    BY <1>1
  <2>2. above[t] \in SUBSET above[s] /\ t \notin above[t]
    BY <1>1, <2>1
  <2>3. size[t] <= size[s] /\ size[s] # size[t]
    <3>1. /\ Cardinality(above[t]) <= Cardinality(above[s])
          /\ Cardinality(above[s]) = Cardinality(above[t]) => above[s] = above[t]
      BY <1>2, <2>2, FS_Subset
    <3> QED
      BY <1>1, <1>4, <2>1, <2>2, <3>1
  <2> QED
    BY <1>2, <1>3, <2>1, <2>3
<1>5. \A t \in R : ~(rank[s] < rank[t])
  BY <1>1, <1>4
<1> QED
  BY <1>5

\* The elements of R below s.
LowerThan(R, rank, s) == {t \in R : rank[t] < rank[s]}

\* When no two elements of a finite set have the same rank, there is one with k
\* elements below it for each number k up to the size of the set.
LEMMA Ranked ==
  ASSUME NEW R, IsFiniteSet(R), NEW rank, \A s \in R : rank[s] \in Nat,
         \A s, t \in R : rank[s] = rank[t] => s = t,
         NEW k \in Nat, k < Cardinality(R)
  PROVE  \E s \in R : Cardinality(LowerThan(R, rank, s)) = k
<1> DEFINE below(s) == LowerThan(R, rank, s)
           high == {s \in R : k <= Cardinality(below(s))}
<1>1. \A s \in R : /\ below(s) \in SUBSET R /\ IsFiniteSet(below(s))
                   /\ Cardinality(below(s)) \in Nat
  <2> SUFFICES ASSUME NEW s \in R
               PROVE  /\ below(s) \in SUBSET R /\ IsFiniteSet(below(s))
                      /\ Cardinality(below(s)) \in Nat
    OBVIOUS
  <2>1. below(s) \in SUBSET R
    BY DEF LowerThan
  <2> HIDE DEF below
  <2> QED
    BY <2>1, FS_Subset, FS_CardinalityType
<1>2. \A s \in R : below(s) = {t \in R : rank[t] < rank[s]}
  BY DEF LowerThan
<1> HIDE DEF below
<1>3. high # {}
  <2>1. R # {}
    <3> SUFFICES ASSUME R = {} PROVE FALSE
      OBVIOUS
    <3>1. Cardinality(R) = 0
      BY FS_EmptySet
    <3> QED
      BY <3>1
  <2>2. PICK s \in R : \A t \in R : rank[t] <= rank[s]
    BY <2>1, HighestRank
  <2>3. below(s) = R \ {s}
    <3>1. \A t \in R : t # s => rank[t] < rank[s]
      BY <2>2
    <3> QED
      BY <1>2, <3>1
  <2>4. Cardinality(R \ {s}) = Cardinality(R) - 1 /\ Cardinality(R) \in Nat
    BY FS_RemoveElement, FS_CardinalityType
  <2>5. k <= Cardinality(below(s))
    BY <2>3, <2>4
  <2> QED
    BY <2>5
<1>4. PICK s \in high : \A t \in high : rank[s] <= rank[t]
  <2>1. \A s \in high : rank[s] \in Nat
    OBVIOUS
  <2> HIDE DEF high
  <2> QED
    BY <1>3, <2>1, LowestRank
<1>5. ~(k < Cardinality(below(s)))
  <2> SUFFICES ASSUME k < Cardinality(below(s)) PROVE FALSE
    OBVIOUS
  <2>1. below(s) # {}
    <3> SUFFICES ASSUME below(s) = {} PROVE FALSE
      OBVIOUS
    <3>1. Cardinality(below(s)) = 0
      BY FS_EmptySet
    <3> QED
      BY <3>1
  <2>2. PICK t \in below(s) : \A u \in below(s) : rank[u] <= rank[t]
    <3>1. \A u \in below(s) : rank[u] \in Nat
      BY <1>1
    <3> QED
      BY <1>1, <2>1, <3>1, HighestRank
  <2>3. t \in R /\ rank[t] < rank[s]
    BY <1>2, <2>2
  <2>4. below(t) = below(s) \ {t}
    <3>1. \A u \in R : rank[u] < rank[t] <=> rank[u] < rank[s] /\ u # t
      BY <1>2, <2>2, <2>3
    <3> QED
      BY <1>2, <2>3, <3>1
  <2>5. Cardinality(below(s) \ {t}) = Cardinality(below(s)) - 1
    BY <1>1, <2>2, FS_RemoveElement
  <2>6. t \in high
    BY <1>1, <2>3, <2>4, <2>5
  <2> QED
    BY <1>4, <2>3, <2>6
<1> QED
  BY <1>1, <1>4, <1>5 DEF below

\* Induction: a set with 0, and with n + 1 when it has n, has all numbers.
LEMMA Induction ==
  ASSUME NEW S, 0 \in S, \A n \in Nat : n \in S => n + 1 \in S
  PROVE  Nat \subseteq S
<1> SUFFICES ASSUME Nat \ S # {} PROVE FALSE
  OBVIOUS
<1>1. PICK n \in Nat \ S : \A m \in Nat \ S : n <= m
  BY LeastNumber
<1>2. n # 0 /\ n - 1 \in Nat /\ n - 1 < n
  BY <1>1
<1>3. n - 1 \in S
  BY <1>1, <1>2
<1> QED
  BY <1>1, <1>2, <1>3

\* Two functions that start and go on alike are the same.
LEMMA RecursionSame ==
  ASSUME NEW f, NEW g, NEW m \in Int, NEW n \in Int,
         m <= n => f[m] = g[m],
         \A i \in (m + 1)..n : f[i - 1] = g[i - 1] => f[i] = g[i]
  PROVE  \A i \in m..n : f[i] = g[i]
<1> DEFINE A == {k \in Nat : m + k <= n => f[m + k] = g[m + k]}
<1>1. 0 \in A
  OBVIOUS
<1>2. ASSUME NEW k \in Nat, k \in A
      PROVE  k + 1 \in A
  <2>1. CASE m + (k + 1) <= n
    <3>1. m + (k + 1) \in (m + 1)..n /\ m + (k + 1) - 1 = m + k
      BY <2>1
    <3> QED
      BY <1>2, <3>1
  <2> QED
    BY <2>1
<1>3. \A k \in Nat : k \in A
  BY <1>1, <1>2, Induction
<1> SUFFICES ASSUME NEW i \in m..n
             PROVE  f[i] = g[i]
  OBVIOUS
<1>4. i - m \in Nat /\ m + (i - m) = i /\ i <= n
  OBVIOUS
<1> QED
  BY <1>3, <1>4

-----------------------------------------------------------------------------
(* The forms of recursive definitions. The provers instantiate the lemmas  *)
(* when these stay folded.                                                 *)

Steps(step, S) == step \in [S -> S]

\* f is defined by its value for m and by how a value follows from the last.
Follows(f, a, step, m, n) == f[m] = a /\ \A i \in (m + 1)..n : f[i] = step[f[i - 1]]

ValuesIn(f, m, n, S) == f \in [m..n -> S]

\* A function of the numbers m..n that is defined by its first value and by how
\* a value follows from the one before exists, and its values are in S.
LEMMA RecursionExists ==
  ASSUME NEW S, NEW a \in S, NEW step, Steps(step, S), NEW m \in Int, NEW n \in Int, m <= n
  PROVE  \E f : ValuesIn(f, m, n, S) /\ Follows(f, a, step, m, n)
<1> USE DEF Steps, ValuesIn, Follows
<1> DEFINE Upto(k, f) == f = [i \in m..(m + k) |-> IF i = m THEN a ELSE step[f[i - 1]]]
           A == {k \in Nat : \E f \in [m..(m + k) -> S] : Upto(k, f)}
<1>1. 0 \in A
  <2>1. Upto(0, [i \in m..m |-> a])
    OBVIOUS
  <2> QED
    BY <2>1
<1>2. ASSUME NEW k \in Nat, k \in A
      PROVE  k + 1 \in A
  <2>1. PICK f \in [m..(m + k) -> S] : Upto(k, f)
    BY <1>2
  <2> DEFINE g == [i \in m..(m + k + 1) |->
                     IF i = m + k + 1 THEN step[f[m + k]] ELSE f[i]]
  <2>2. g \in [m..(m + (k + 1)) -> S]
    OBVIOUS
  <2>3. ASSUME NEW i \in m..(m + (k + 1))
        PROVE  g[i] = IF i = m THEN a ELSE step[g[i - 1]]
    <3>1. CASE i = m + k + 1
      BY <3>1
    <3>2. CASE i # m + k + 1
      <4>1. i \in m..(m + k) /\ g[i] = f[i]
        BY <3>2
      <4>2. i # m => i - 1 \in m..(m + k) /\ g[i - 1] = f[i - 1]
        BY <4>1
      <4>3. f[i] = IF i = m THEN a ELSE step[f[i - 1]]
        BY <2>1, <4>1
      <4> QED
        BY <4>1, <4>2, <4>3
    <3> QED
      BY <3>1, <3>2
  <2>4. Upto(k + 1, g)
    <3> HIDE DEF g
    <3> QED
      BY <2>2, <2>3
  <2>5. k + 1 \in Nat
    OBVIOUS
  <2> HIDE DEF g, Upto
  <2> QED
    BY <2>2, <2>4, <2>5
<1> HIDE DEF A
<1>3. n - m \in A
  <2>1. \A k \in Nat : k \in A => k + 1 \in A
    BY <1>2
  <2>2. Nat \subseteq A
    BY <1>1, <2>1, Induction
  <2> QED
    BY <2>2
<1> USE DEF A
<1> QED
  <2>1. PICK f \in [m..(m + (n - m)) -> S] : Upto(n - m, f)
    BY <1>3
  <2>2. m + (n - m) = n
    OBVIOUS
  <2>3. f \in [m..n -> S] /\ f = [i \in m..n |-> IF i = m THEN a ELSE step[f[i - 1]]]
    BY <2>1, <2>2
  <2>4. ASSUME NEW i \in (m + 1)..n
        PROVE  i \in m..n /\ i # m
    OBVIOUS
  <2>5. \A i \in m..n : f[i] = IF i = m THEN a ELSE step[f[i - 1]]
    BY <2>3
  <2>6. m \in m..n
    OBVIOUS
  <2> QED
    BY <2>3, <2>4, <2>5, <2>6

\* What holds of the first value, and of a value when it holds of the one
\* before, holds of all.
LEMMA RecursionKeeps ==
  ASSUME NEW I, NEW f, NEW m \in Int, NEW n \in Int,
         m <= n => f[m] \in I,
         \A i \in (m + 1)..n : f[i - 1] \in I => f[i] \in I
  PROVE  \A i \in m..n : f[i] \in I
<1> DEFINE A == {k \in Nat : m + k <= n => f[m + k] \in I}
<1>1. 0 \in A
  OBVIOUS
<1>2. ASSUME NEW k \in Nat, k \in A
      PROVE  k + 1 \in A
  <2>1. CASE m + (k + 1) <= n
    <3>1. m + (k + 1) \in (m + 1)..n /\ m + (k + 1) - 1 = m + k
      BY <2>1
    <3> QED
      BY <1>2, <3>1
  <2> QED
    BY <2>1
<1>3. \A k \in Nat : k \in A
  BY <1>1, <1>2, Induction
<1> SUFFICES ASSUME NEW i \in m..n
             PROVE  f[i] \in I
  OBVIOUS
<1>4. i - m \in Nat /\ m + (i - m) = i /\ i <= n
  OBVIOUS
<1> QED
  BY <1>3, <1>4

\* Z has X and is not left by the steps F, and is the least such set.
Closes(F, T, X, Z) ==
  /\ Z \in SUBSET T /\ X \subseteq Z /\ F[Z] = Z
  /\ \A C : X \subseteq C /\ (\A Y \in SUBSET T : Y \subseteq C => F[Y] \subseteq C)
            => Z \subseteq C

Grows(F, T) == \A Y \in SUBSET T : Y \subseteq F[Y]

\* n - m steps are enough.
Suffice(F, T, X, m, n) == F[X] = X \/ Cardinality(T) - Cardinality(X) <= n - m

\* A set that grows step by step inside of a finite set T is complete after
\* enough steps: a further one adds nothing. It is in every set that the steps
\* do not leave.
LEMMA Closure ==
  ASSUME NEW T, IsFiniteSet(T), NEW X \in SUBSET T,
         NEW F, Steps(F, SUBSET T), Grows(F, T),
         NEW m \in Int, NEW n \in Int, m <= n, Suffice(F, T, X, m, n),
         NEW f, Follows(f, X, F, m, n), NEW Z, Z = f[n]
  PROVE  Closes(F, T, X, Z)
<1> USE DEF Steps, Grows, Suffice, Follows
<1> /\ m \in m..n /\ n \in m..n
    /\ \A i \in (m + 1)..n : i \in m..n /\ i - 1 \in m..n /\ i # m
  OBVIOUS
<1>1. /\ f[m] = X
      /\ \A i \in (m + 1)..n : f[i] = F[f[i - 1]]
  OBVIOUS
<1>2. \A i \in m..n : f[i] \in {Y \in SUBSET T : X \subseteq Y}
  <2> DEFINE I == {Y \in SUBSET T : X \subseteq Y}
  <2>1. f[m] \in I
    BY <1>1
  <2>2. \A i \in (m + 1)..n : f[i - 1] \in I => f[i] \in I
    BY <1>1
  <2> HIDE DEF I
  <2>3. \A i \in m..n : f[i] \in I
    BY <2>1, <2>2, RecursionKeeps
  <2> QED
    BY <2>3 DEF I
<1> DEFINE Size(i) == Cardinality(f[i])
           Done(i) == F[f[i]] = f[i] \/ Size(i) >= Size(m) + (i - m)
<1>3. /\ Cardinality(T) \in Nat
      /\ \A Y \in SUBSET T :
           /\ Cardinality(Y) \in Nat /\ Cardinality(Y) <= Cardinality(T)
           /\ Cardinality(Y) = Cardinality(T) => Y = T
  BY FS_Subset, FS_CardinalityType
<1>4. ASSUME NEW Y \in SUBSET T, F[Y] # Y
      PROVE  Cardinality(F[Y]) >= Cardinality(Y) + 1
  <2>1. F[Y] \in SUBSET T /\ Y \subseteq F[Y]
    OBVIOUS
  <2>2. IsFiniteSet(F[Y])
    BY <2>1, FS_Subset
  <2>3. Cardinality(Y) <= Cardinality(F[Y]) /\ (Cardinality(F[Y]) = Cardinality(Y) => F[Y] = Y)
    BY <2>1, <2>2, FS_Subset
  <2> QED
    BY <1>3, <1>4, <2>1, <2>3
<1>5. \A i \in m..n : Done(i)
  <2> DEFINE d == [i \in m..n |-> Done(i)]
  <2>1. m <= n => d[m] \in {TRUE}
    <3>1. Size(m) \in Nat
      BY <1>2, <1>3
    <3>2. Size(m) >= Size(m) + (m - m)
      <4> HIDE DEF Size
      <4> QED
        BY <3>1
    <3> QED
      BY <3>2
  <2>2. ASSUME NEW i \in (m + 1)..n, d[i - 1] \in {TRUE}
        PROVE  d[i] \in {TRUE}
    <3>1. Done(i - 1)
      BY <2>2
    <3>2. f[i - 1] \in SUBSET T /\ f[i] = F[f[i - 1]] /\ f[m] \in SUBSET T
      BY <1>1, <1>2
    <3>3. CASE F[f[i - 1]] = f[i - 1]
      BY <3>2, <3>3
    <3>4. CASE F[f[i - 1]] # f[i - 1]
      <4>1. Size(i - 1) >= Size(m) + (i - 1 - m)
        BY <3>1, <3>4
      <4>2. Size(i) >= Size(i - 1) + 1
        BY <1>4, <3>2, <3>4
      <4>3. Size(i) \in Nat /\ Size(i - 1) \in Nat /\ Size(m) \in Nat
        BY <1>2, <1>3
      <4>4. Size(i) >= Size(m) + (i - m)
        <5> HIDE DEF Size
        <5> QED
          BY <4>1, <4>2, <4>3
      <4> QED
        BY <4>4
    <3> QED
      BY <3>3, <3>4
  <2> HIDE DEF d
  <2>3. \A i \in m..n : d[i] \in {TRUE}
    BY <2>1, <2>2, RecursionKeeps
  <2> QED
    BY <2>3 DEF d
<1>6. F[f[n]] = f[n]
  <2>1. CASE F[X] = X
    <3> DEFINE I == {X}
    <3>1. f[m] \in I
      BY <1>1
    <3>2. \A i \in (m + 1)..n : f[i - 1] \in I => f[i] \in I
      BY <1>1, <2>1
    <3> HIDE DEF I
    <3>3. \A i \in m..n : f[i] \in I
      BY <3>1, <3>2, RecursionKeeps
    <3>4. f[n] = X
      BY <3>3 DEF I
    <3> QED
      BY <2>1, <3>4
  <2>2. CASE F[f[n]] # f[n] /\ Cardinality(T) - Cardinality(X) <= n - m
    <3>1. Size(n) >= Size(m) + (n - m)
      BY <1>5, <2>2
    <3>2. f[n] \in SUBSET T /\ Size(m) = Cardinality(X)
      BY <1>1, <1>2
    <3>3. Size(n) \in Nat /\ Size(m) \in Nat /\ Size(n) <= Cardinality(T)
      BY <1>2, <1>3
    <3>4. Size(n) = Cardinality(T)
      <4> HIDE DEF Size
      <4> QED
        BY <1>3, <2>2, <3>1, <3>2, <3>3
    <3>5. f[n] = T
      BY <1>3, <3>2, <3>4
    <3>6. F[f[n]] \in SUBSET T /\ f[n] \subseteq F[f[n]]
      BY <3>2
    <3> QED
      BY <2>2, <3>5, <3>6
  <2> QED
    BY <2>1, <2>2
<1>7. ASSUME NEW C, X \subseteq C, \A Y \in SUBSET T : Y \subseteq C => F[Y] \subseteq C
      PROVE  f[n] \subseteq C
  <2> DEFINE I == {Y \in SUBSET T : Y \subseteq C}
  <2>1. f[m] \in I
    BY <1>1, <1>7
  <2>2. \A i \in (m + 1)..n : f[i - 1] \in I => f[i] \in I
    BY <1>1, <1>7
  <2> HIDE DEF I
  <2>3. \A i \in m..n : f[i] \in I
    BY <2>1, <2>2, RecursionKeeps
  <2> QED
    BY <2>3 DEF I
<1> QED
  BY <1>2, <1>6, <1>7 DEF Closes
=============================================================================
