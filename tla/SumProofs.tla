------------------------------ MODULE SumProofs ------------------------------
(***************************************************************************)
(* Facts about sums over finite sets, as MapThenSumSet computes them.      *)
(*                                                                         *)
(* The model sums with MapThenSumSet, which recurses on the set.  What it  *)
(* computes cannot be found by an induction rule here, so the facts come   *)
(* from a smallest counterexample: of the subsets of a finite set where a  *)
(* claim fails, one contains no other, and the claim holds of it minus one *)
(* element.                                                                *)
(***************************************************************************)
EXTENDS Integers, Sequences, FiniteSetsExt, FiniteSetTheorems, WellFoundedInduction, TLAPS

Pick(s) == CHOOSE x \in s : TRUE

(* g gives every subset of S the sum of F over it, as MapThenSumSet does.  *)
IsTotal(g, F, S) ==
  g = [s \in SUBSET S |-> IF s = {} THEN 0 ELSE F[Pick(s)] + g[s \ {Pick(s)}]]

Total(F, S) == (CHOOSE g : IsTotal(g, F, S))[S]

(* A set of finite sets has a smallest one: what an induction on finite    *)
(* sets is made of here.                                                   *)
LEMMA Smallest ==
  ASSUME NEW S, IsFiniteSet(S), NEW T \in SUBSET (SUBSET S), T # {}
  PROVE  \E s \in T : \A t \in T : t \subseteq s => t = s
  <1>1. PICK s \in T : \A t \in T : ~(<<t, s>> \in StrictSubsetOrdering(S))
    <2>1. T \subseteq FiniteSubsetsOf(S)
      BY FS_FiniteSubsetsOfFinite
    <2>2. IsWellFoundedOn(StrictSubsetOrdering(S), FiniteSubsetsOf(S))
      BY FS_StrictSubsetOrderingWellFounded
    <2> QED
      BY <2>1, <2>2, WFMin
  <1> QED
    BY <1>1 DEF StrictSubsetOrdering

LEMMA Picked == ASSUME NEW s, s # {} PROVE Pick(s) \in s
  BY DEF Pick

LEMMA TotalAt ==
  ASSUME NEW F, NEW S, NEW g, IsTotal(g, F, S), NEW s \in SUBSET S
  PROVE  g[s] = IF s = {} THEN 0 ELSE F[Pick(s)] + g[s \ {Pick(s)}]
  <1> DEFINE h == [t \in SUBSET S |-> IF t = {} THEN 0 ELSE F[Pick(t)] + g[t \ {Pick(t)}]]
  <1>1. g = h
    BY DEF IsTotal
  <1>2. h[s] = IF s = {} THEN 0 ELSE F[Pick(s)] + g[s \ {Pick(s)}]
    OBVIOUS
  <1> HIDE DEF h
  <1> QED
    BY <1>1, <1>2

(* There is one such function at most, ...                                 *)
LEMMA TotalsAgree ==
  ASSUME NEW F, NEW A, IsFiniteSet(A), NEW B, NEW f, NEW g, IsTotal(f, F, A), IsTotal(g, F, B),
         NEW s \in SUBSET A, s \in SUBSET B
  PROVE  f[s] = g[s]
  <1> DEFINE Bad == {t \in SUBSET A : t \in SUBSET B /\ f[t] # g[t]}
  <1>1. SUFFICES ASSUME Bad # {} PROVE FALSE
    OBVIOUS
  <1>c. Bad \in SUBSET (SUBSET A)
    OBVIOUS
  <1> HIDE DEF Bad
  <1>2. PICK t \in Bad : \A u \in Bad : u \subseteq t => u = t
    BY <1>1, <1>c, Smallest
  <1>a. t \in SUBSET A /\ t \in SUBSET B /\ f[t] # g[t]
    BY DEF Bad
  <1>b. f[t] = IF t = {} THEN 0 ELSE F[Pick(t)] + f[t \ {Pick(t)}]
    BY <1>a, TotalAt
  <1>d. g[t] = IF t = {} THEN 0 ELSE F[Pick(t)] + g[t \ {Pick(t)}]
    BY <1>a, TotalAt
  <1>3. t # {}
    BY <1>a, <1>b, <1>d
  <1>4. Pick(t) \in t
    BY <1>3, Picked
  <1>5. f[t \ {Pick(t)}] = g[t \ {Pick(t)}]
    BY <1>2, <1>4, <1>a DEF Bad
  <1> QED
    BY <1>3, <1>5, <1>a, <1>b, <1>d

(* ... and there is one.                                                   *)
LEMMA TotalExists ==
  ASSUME NEW F, NEW A, IsFiniteSet(A)
  PROVE  \E g : IsTotal(g, F, A)
  <1> DEFINE G(t) == CHOOSE g : IsTotal(g, F, t)
             Bad == {s \in SUBSET A : ~ \E g : IsTotal(g, F, s)}
  <1>1. SUFFICES ASSUME Bad # {} PROVE FALSE
    OBVIOUS
  <1>c. Bad \in SUBSET (SUBSET A)
    OBVIOUS
  <1> HIDE DEF Bad
  <1>2. PICK s \in Bad : \A t \in Bad : t \subseteq s => t = s
    BY <1>1, <1>c, Smallest
  <1> USE DEF Bad
  <1>3. ASSUME NEW t, t \subseteq s, t # s
        PROVE  IsTotal(G(t), F, t) /\ IsFiniteSet(t)
    <2>1. \E g : IsTotal(g, F, t)
      <3>1. t \in SUBSET A /\ t \notin Bad
        BY <1>2, <1>3
      <3> QED
        BY <3>1
    <2>2. IsFiniteSet(t)
      BY <1>3, FS_Subset
    <2> QED
      BY <2>1, <2>2
  <1> HIDE DEF G
  <1> DEFINE L(t) == IF t = {} THEN 0 ELSE F[Pick(t)] + G(t \ {Pick(t)})[t \ {Pick(t)}]
             h == [t \in SUBSET s |-> L(t)]
  <1>4. ASSUME NEW u, u \subseteq s, u # s
        PROVE  L(u) = G(u)[u]
    <2>1. IsTotal(G(u), F, u) /\ IsFiniteSet(u)
      BY <1>3, <1>4
    <2>2. CASE u = {}
      BY <2>1, <2>2, TotalAt
    <2>3. CASE u # {}
      <3> DEFINE v == u \ {Pick(u)}
      <3>1. Pick(u) \in u /\ v \subseteq u /\ v # s
        BY <1>4, <2>3, Picked
      <3>2. IsTotal(G(v), F, v) /\ IsFiniteSet(v)
        BY <1>3, <1>4, <3>1
      <3>3. G(u)[v] = G(v)[v]
        BY <2>1, <3>1, <3>2, TotalsAgree
      <3>4. G(u)[u] = F[Pick(u)] + G(u)[v]
        BY <2>1, <2>3, TotalAt
      <3> QED
        BY <2>3, <3>3, <3>4
    <2> QED
      BY <2>2, <2>3
  <1>5. \A t \in SUBSET s : t # {} => h[t \ {Pick(t)}] = G(t \ {Pick(t)})[t \ {Pick(t)}]
    <2> SUFFICES ASSUME NEW t \in SUBSET s, t # {}
                 PROVE  h[t \ {Pick(t)}] = G(t \ {Pick(t)})[t \ {Pick(t)}]
      OBVIOUS
    <2> DEFINE u == t \ {Pick(t)}
    <2>1. u \subseteq s /\ u # s
      BY Picked
    <2>2. h[u] = L(u)
      BY <2>1
    <2> HIDE DEF L
    <2> QED
      BY <1>4, <2>1, <2>2
  <1>6. \A t \in SUBSET s : L(t) = IF t = {} THEN 0 ELSE F[Pick(t)] + h[t \ {Pick(t)}]
    BY <1>5
  <1>7. h = [t \in SUBSET s |-> IF t = {} THEN 0 ELSE F[Pick(t)] + h[t \ {Pick(t)}]]
    <2> HIDE DEF L
    <2> QED
      BY <1>6
  <1> HIDE DEF h
  <1> QED
    BY <1>2, <1>7 DEF IsTotal

LEMMA SumUnfolds ==
  ASSUME NEW F, NEW A, IsFiniteSet(A)
  PROVE  Total(F, A) = IF A = {} THEN 0 ELSE F[Pick(A)] + Total(F, A \ {Pick(A)})
  <1> DEFINE G(t) == CHOOSE g : IsTotal(g, F, t)
  <1>1. ASSUME NEW t \in SUBSET A
        PROVE  IsTotal(G(t), F, t) /\ IsFiniteSet(t) /\ Total(F, t) = G(t)[t]
    <2>1. IsFiniteSet(t)
      BY FS_Subset
    <2>2. \E g : IsTotal(g, F, t)
      BY <2>1, TotalExists
    <2> QED
      BY <2>1, <2>2 DEF Total
  <1> HIDE DEF G
  <1>2. CASE A = {}
    <2>1. G(A)[A] = 0
      BY <1>1, <1>2, TotalAt
    <2> QED
      BY <1>1, <1>2, <2>1
  <1>3. CASE A # {}
    <2> DEFINE v == A \ {Pick(A)}
    <2>1. G(A)[A] = F[Pick(A)] + G(A)[v]
      BY <1>1, <1>3, TotalAt
    <2>2. G(A)[v] = G(v)[v]
      BY <1>1, TotalsAgree
    <2> QED
      BY <1>1, <1>3, <2>1, <2>2
  <1> QED
    BY <1>2, <1>3

LEMMA SumTyped ==
  ASSUME NEW F, NEW A, IsFiniteSet(A), \A x \in A : F[x] \in Nat
  PROVE  Total(F, A) \in Nat
  <1> DEFINE Bad == {s \in SUBSET A : Total(F, s) \notin Nat}
  <1>1. SUFFICES ASSUME Bad # {} PROVE FALSE
    OBVIOUS
  <1>2. Bad \in SUBSET (SUBSET A)
    OBVIOUS
  <1> HIDE DEF Bad
  <1>3. PICK s \in Bad : \A t \in Bad : t \subseteq s => t = s
    BY <1>1, <1>2, Smallest
  <1> USE DEF Bad
  <1>4. IsFiniteSet(s)
    BY <1>3, FS_Subset
  <1>5. Total(F, s) = IF s = {} THEN 0 ELSE F[Pick(s)] + Total(F, s \ {Pick(s)})
    BY <1>4, SumUnfolds
  <1>6. s # {}
    BY <1>3, <1>5
  <1>7. Pick(s) \in s
    BY <1>6, Picked
  <1>8. Total(F, s \ {Pick(s)}) \in Nat
    BY <1>3, <1>7
  <1>9. F[Pick(s)] \in Nat
    BY <1>3, <1>7
  <1>10. F[Pick(s)] + Total(F, s \ {Pick(s)}) \in Nat
    BY <1>8, <1>9
  <1> QED
    BY <1>3, <1>5, <1>6, <1>10

(* Sums of functions that agree on the set are equal; the sum of the       *)
(* smaller function is not greater.                                        *)
LEMMA SumSame ==
  ASSUME NEW F, NEW G, NEW A, IsFiniteSet(A), \A x \in A : F[x] = G[x]
  PROVE  Total(F, A) = Total(G, A)
  <1> DEFINE Bad == {s \in SUBSET A : Total(F, s) # Total(G, s)}
  <1>1. SUFFICES ASSUME Bad # {} PROVE FALSE
    OBVIOUS
  <1>2. Bad \in SUBSET (SUBSET A)
    OBVIOUS
  <1> HIDE DEF Bad
  <1>3. PICK s \in Bad : \A t \in Bad : t \subseteq s => t = s
    BY <1>1, <1>2, Smallest
  <1> USE DEF Bad
  <1>4. IsFiniteSet(s)
    BY <1>3, FS_Subset
  <1>5. Total(F, s) = IF s = {} THEN 0 ELSE F[Pick(s)] + Total(F, s \ {Pick(s)})
    BY <1>4, SumUnfolds
  <1>6. Total(G, s) = IF s = {} THEN 0 ELSE G[Pick(s)] + Total(G, s \ {Pick(s)})
    BY <1>4, SumUnfolds
  <1>7. s # {}
    BY <1>3, <1>5, <1>6
  <1>8. Pick(s) \in s
    BY <1>7, Picked
  <1>9. Total(F, s \ {Pick(s)}) = Total(G, s \ {Pick(s)}) /\ F[Pick(s)] = G[Pick(s)]
    BY <1>3, <1>8
  <1> QED
    BY <1>3, <1>5, <1>6, <1>9

LEMMA SumMonotone ==
  ASSUME NEW F, NEW G, NEW A, IsFiniteSet(A),
         \A x \in A : F[x] \in Nat /\ G[x] \in Nat /\ F[x] <= G[x]
  PROVE  Total(F, A) <= Total(G, A)
  <1> DEFINE Bad == {s \in SUBSET A : ~(Total(F, s) <= Total(G, s))}
  <1>1. SUFFICES ASSUME Bad # {} PROVE FALSE
    OBVIOUS
  <1>2. Bad \in SUBSET (SUBSET A)
    OBVIOUS
  <1> HIDE DEF Bad
  <1>3. PICK s \in Bad : \A t \in Bad : t \subseteq s => t = s
    BY <1>1, <1>2, Smallest
  <1> USE DEF Bad
  <1>4. IsFiniteSet(s)
    BY <1>3, FS_Subset
  <1>5. Total(F, s) = IF s = {} THEN 0 ELSE F[Pick(s)] + Total(F, s \ {Pick(s)})
    BY <1>4, SumUnfolds
  <1>6. Total(G, s) = IF s = {} THEN 0 ELSE G[Pick(s)] + Total(G, s \ {Pick(s)})
    BY <1>4, SumUnfolds
  <1>7. s # {}
    BY <1>3, <1>5, <1>6
  <1>8. Pick(s) \in s
    BY <1>7, Picked
  <1> DEFINE v == s \ {Pick(s)}
  <1>9. Total(F, v) <= Total(G, v)
    BY <1>3, <1>8
  <1>10. Total(F, v) \in Nat /\ Total(G, v) \in Nat
    <2>1. IsFiniteSet(v) /\ (\A x \in v : F[x] \in Nat) /\ (\A x \in v : G[x] \in Nat)
      BY <1>3, <1>4, FS_Subset
    <2> QED
      BY <2>1, SumTyped
  <1>11. F[Pick(s)] \in Nat /\ G[Pick(s)] \in Nat /\ F[Pick(s)] <= G[Pick(s)]
    BY <1>3, <1>8
  <1>12. F[Pick(s)] + Total(F, v) <= G[Pick(s)] + Total(G, v)
    BY <1>9, <1>10, <1>11
  <1> QED
    BY <1>3, <1>5, <1>6, <1>7, <1>12

(* Any element may be taken out first.                                     *)
LEMMA SumWithout ==
  ASSUME NEW F, NEW A, IsFiniteSet(A), \A x \in A : F[x] \in Nat, NEW a \in A
  PROVE  Total(F, A) = F[a] + Total(F, A \ {a})
  <1> DEFINE Bad == {s \in SUBSET A : \E x \in s : Total(F, s) # F[x] + Total(F, s \ {x})}
  <1>1. SUFFICES ASSUME Bad # {} PROVE FALSE
    <2>1. A \notin Bad => Total(F, A) = F[a] + Total(F, A \ {a})
      OBVIOUS
    <2> HIDE DEF Bad
    <2> QED
      BY <2>1
  <1>2. Bad \in SUBSET (SUBSET A)
    OBVIOUS
  <1> HIDE DEF Bad
  <1>3. PICK s \in Bad : \A t \in Bad : t \subseteq s => t = s
    BY <1>1, <1>2, Smallest
  <1> USE DEF Bad
  <1>4. PICK x \in s : Total(F, s) # F[x] + Total(F, s \ {x})
    BY <1>3
  <1> DEFINE p == Pick(s)
  <1>5. \A t \in SUBSET A : IsFiniteSet(t)
    BY FS_Subset
  <1>6. Total(F, s) = F[p] + Total(F, s \ {p})
    BY <1>3, <1>4, <1>5, SumUnfolds
  <1>7. p \in s /\ p # x
    BY <1>4, <1>6, Picked
  <1> HIDE DEF p
  <1>8. Total(F, s \ {p}) = F[x] + Total(F, (s \ {p}) \ {x})
    <2>1. s \ {p} \in SUBSET A /\ s \ {p} \notin Bad /\ x \in s \ {p}
      <3>1. s \ {p} \subseteq s /\ s \ {p} # s
        BY <1>7
      <3> HIDE DEF Bad
      <3> QED
        BY <1>2, <1>3, <1>7, <3>1
    <2> QED
      BY <2>1
  <1>9. Total(F, s \ {x}) = F[p] + Total(F, (s \ {x}) \ {p})
    <2>1. s \ {x} \in SUBSET A /\ s \ {x} \notin Bad /\ p \in s \ {x}
      <3>1. s \ {x} \subseteq s /\ s \ {x} # s
        BY <1>4
      <3> HIDE DEF Bad
      <3> QED
        BY <1>2, <1>3, <1>7, <3>1
    <2> QED
      BY <2>1
  <1>10. (s \ {p}) \ {x} = (s \ {x}) \ {p}
    OBVIOUS
  <1> DEFINE rest == Total(F, (s \ {x}) \ {p})
  <1>11. rest \in Nat /\ F[x] \in Nat /\ F[p] \in Nat
    <2>1. (s \ {x}) \ {p} \in SUBSET A /\ \A y \in (s \ {x}) \ {p} : F[y] \in Nat
      BY <1>3
    <2> QED
      BY <1>3, <1>5, <1>7, <2>1, SumTyped
  <1> HIDE DEF rest
  <1>12. Total(F, s \ {p}) = F[x] + rest /\ Total(F, s \ {x}) = F[p] + rest
    BY <1>8, <1>9, <1>10 DEF rest
  <1> QED
    BY <1>4, <1>6, <1>11, <1>12

(* One summand changes; one is added.                                      *)
LEMMA TotalChanged ==
  ASSUME NEW F, NEW G, NEW A, IsFiniteSet(A), NEW a \in A,
         \A x \in A : F[x] \in Nat /\ G[x] \in Nat,
         \A x \in A : x # a => F[x] = G[x]
  PROVE  /\ Total(F, A) \in Nat /\ Total(G, A) \in Nat
         /\ F[a] <= Total(F, A)
         /\ Total(G, A) + F[a] = Total(F, A) + G[a]
  <1> DEFINE rest == Total(F, A \ {a})
  <1>1. IsFiniteSet(A \ {a})
    BY FS_Subset
  <1>2. rest \in Nat
    BY <1>1, SumTyped
  <1>3. Total(G, A \ {a}) = rest
    BY <1>1, SumSame
  <1>4. Total(F, A) = F[a] + rest
    BY SumWithout
  <1>5. Total(G, A) = G[a] + rest
    BY <1>3, SumWithout
  <1>6. F[a] \in Nat /\ G[a] \in Nat
    OBVIOUS
  <1> HIDE DEF rest
  <1> QED
    BY <1>2, <1>4, <1>5, <1>6

LEMMA TotalGrown ==
  ASSUME NEW F, NEW G, NEW A, IsFiniteSet(A),
         \A x \in A : F[x] \in Nat, \A x \in A : F[x] = G[x]
  PROVE  /\ Total(F, A) \in Nat
         /\ \A a : a \notin A /\ G[a] \in Nat => Total(G, A \cup {a}) = G[a] + Total(F, A)
  <1>1. Total(G, A) = Total(F, A) /\ Total(F, A) \in Nat
    BY SumSame, SumTyped
  <1>2. ASSUME NEW a, a \notin A, G[a] \in Nat
        PROVE  Total(G, A \cup {a}) = G[a] + Total(F, A)
    <2> DEFINE B == A \cup {a}
    <2>1. IsFiniteSet(B)
      BY FS_AddElement
    <2>2. B \ {a} = A /\ a \in B
      BY <1>2
    <2>3. \A x \in B : G[x] \in Nat
      BY <1>2
    <2>4. Total(G, B) = G[a] + Total(G, B \ {a})
      <3> HIDE DEF B
      <3> QED
        BY <2>1, <2>2, <2>3, SumWithout
    <2> QED
      BY <1>1, <2>2, <2>4
  <1> QED
    BY <1>1, <1>2

LEMMA TotalOfNothing ==
  ASSUME NEW F, NEW A, IsFiniteSet(A), \A x \in A : F[x] = 0
  PROVE  Total(F, A) = 0
  <1> DEFINE Bad == {s \in SUBSET A : Total(F, s) # 0}
  <1>1. SUFFICES ASSUME Bad # {} PROVE FALSE
    OBVIOUS
  <1>2. Bad \in SUBSET (SUBSET A)
    OBVIOUS
  <1>3. PICK s \in Bad : \A t \in Bad : t \subseteq s => t = s
    <2> HIDE DEF Bad
    <2> QED
      BY <1>1, <1>2, Smallest
  <1>4. s \in SUBSET A /\ IsFiniteSet(s)
    BY FS_Subset
  <1>5. CASE s = {}
    BY <1>4, <1>5, SumUnfolds
  <1>6. CASE s # {}
    <2> DEFINE p == Pick(s)
    <2>1. p \in s
      BY <1>6, Picked
    <2>2. Total(F, s) = F[p] + Total(F, s \ {p})
      BY <1>4, <1>6, SumUnfolds
    <2>3. Total(F, s \ {p}) = 0
      <3> HIDE DEF p
      <3>1. s \ {p} \in SUBSET A /\ s \ {p} \subseteq s /\ s \ {p} # s
        BY <1>4, <2>1
      <3> QED
        BY <1>3, <3>1
    <2>4. F[p] = 0
      BY <1>4, <2>1
    <2> QED
      BY <2>2, <2>3, <2>4
  <1> QED
    BY <1>5, <1>6


-----------------------------------------------------------------------------
(* Sums over sequences: the sums over their indices.                       *)
SeqTotal(s) == Total(s, DOMAIN s)

(* A sum does not change when its indices are shifted.                     *)
LEMMA SumShifts ==
  ASSUME NEW n \in Nat, NEW F, NEW G, \A i \in 1 .. n : F[i] \in Nat /\ G[i + 1] = F[i]
  PROVE  Total(F, 1 .. n) = Total(G, 2 .. n + 1)
  <1> DEFINE Up(s) == {i \in 2 .. n + 1 : i - 1 \in s}
             Bad == {s \in SUBSET (1 .. n) : Total(F, s) # Total(G, Up(s))}
  <1>f. /\ IsFiniteSet(1 .. n)
        /\ \A s \in SUBSET (1 .. n) : IsFiniteSet(s) /\ IsFiniteSet(Up(s))
    <2>1. IsFiniteSet(1 .. n) /\ IsFiniteSet(2 .. n + 1)
      BY FS_Interval
    <2>2. \A s : Up(s) \subseteq 2 .. n + 1
      OBVIOUS
    <2> HIDE DEF Up
    <2> QED
      BY <2>1, <2>2, FS_Subset
  <1>1. SUFFICES ASSUME Bad # {} PROVE FALSE
    <2>1. Up(1 .. n) = 2 .. n + 1
      OBVIOUS
    <2>2. 1 .. n \notin Bad => Total(F, 1 .. n) = Total(G, Up(1 .. n))
      OBVIOUS
    <2> HIDE DEF Bad, Up
    <2> QED
      BY <2>1, <2>2
  <1>2. Bad \in SUBSET (SUBSET (1 .. n))
    OBVIOUS
  <1> HIDE DEF Bad
  <1>3. PICK s \in Bad : \A t \in Bad : t \subseteq s => t = s
    <2>1. PICK N : N = 1 .. n
      OBVIOUS
    <2>2. IsFiniteSet(N) /\ Bad \in SUBSET (SUBSET N)
      BY <1>2, <1>f, <2>1
    <2> QED
      BY <1>1, <2>2, Smallest
  <1>4. s \in SUBSET (1 .. n) /\ Total(F, s) # Total(G, Up(s))
    BY <1>3 DEF Bad
  <1>5. s # {}
    <2>1. Up({}) = {}
      OBVIOUS
    <2>2. Total(F, {}) = 0 /\ Total(G, {}) = 0
      BY TotalOfNothing, FS_EmptySet
    <2> HIDE DEF Up
    <2> QED
      BY <1>4, <2>1, <2>2
  <1>6. PICK x \in s : TRUE
    BY <1>5
  <1>7. Total(F, s) = F[x] + Total(F, s \ {x})
    <2>1. IsFiniteSet(s)
      BY <1>f, <1>4
    <2>2. \A i \in s : F[i] \in Nat
      BY <1>4
    <2> QED
      BY <1>6, <2>1, <2>2, SumWithout
  <1>8. Total(G, Up(s)) = G[x + 1] + Total(G, Up(s) \ {x + 1})
    <2>1. x + 1 \in Up(s) /\ \A i \in Up(s) : G[i] \in Nat
      <3>1. x + 1 \in Up(s)
        BY <1>4, <1>6
      <3>2. ASSUME NEW i \in Up(s)
            PROVE  G[i] \in Nat
        <4>1. i - 1 \in 1 .. n /\ (i - 1) + 1 = i
          BY <1>4
        <4> QED
          BY <4>1
      <3> QED
        BY <3>1, <3>2
    <2> HIDE DEF Up
    <2>2. PICK U : U = Up(s)
      OBVIOUS
    <2>3. PICK y : y = x + 1
      OBVIOUS
    <2>4. IsFiniteSet(U) /\ y \in U /\ \A i \in U : G[i] \in Nat
      BY <1>f, <1>4, <2>1, <2>2, <2>3
    <2>5. Total(G, U) = G[y] + Total(G, U \ {y})
      BY <2>4, SumWithout
    <2> QED
      BY <2>2, <2>3, <2>5
  <1>9. Up(s) \ {x + 1} = Up(s \ {x})
    BY <1>4, <1>6
  <1>10. Total(F, s \ {x}) = Total(G, Up(s \ {x}))
    <2>1. s \ {x} \notin Bad
      BY <1>3, <1>6
    <2> HIDE DEF Up
    <2> QED
      BY <1>4, <2>1 DEF Bad
  <1>11. G[x + 1] = F[x]
    BY <1>4, <1>6
  <1> HIDE DEF Up
  <1> QED
    BY <1>4, <1>7, <1>8, <1>9, <1>10, <1>11

(* What a sequence of numbers sums to, and what its two ends add.          *)
LEMMA SeqTotalTyped ==
  ASSUME NEW s \in Seq(Nat)
  PROVE  /\ SeqTotal(s) \in Nat
         /\ \A i \in DOMAIN s : s[i] <= SeqTotal(s)
  <1>1. IsFiniteSet(DOMAIN s)
    <2>1. DOMAIN s = 1 .. Len(s) /\ Len(s) \in Nat
      OBVIOUS
    <2> QED
      BY <2>1, FS_Interval
  <1>2. \A i \in DOMAIN s : s[i] \in Nat
    OBVIOUS
  <1>3. SeqTotal(s) \in Nat
    BY <1>1, <1>2, SumTyped DEF SeqTotal
  <1>4. ASSUME NEW i \in DOMAIN s
        PROVE  s[i] <= SeqTotal(s)
    <2>1. SeqTotal(s) = s[i] + Total(s, DOMAIN s \ {i})
      BY <1>1, <1>2, SumWithout DEF SeqTotal
    <2>2. IsFiniteSet(DOMAIN s \ {i})
      BY <1>1, FS_Subset
    <2>3. Total(s, DOMAIN s \ {i}) \in Nat
      BY <1>2, <2>2, SumTyped
    <2> QED
      BY <1>2, <2>1, <2>3
  <1> QED
    BY <1>3, <1>4

LEMMA SeqTotalAppend ==
  ASSUME NEW s \in Seq(Nat), NEW e \in Nat
  PROVE  SeqTotal(Append(s, e)) = SeqTotal(s) + e
  <1>1. PICK n \in Nat : n = Len(s)
    OBVIOUS
  <1>2. PICK t : t = Append(s, e)
    OBVIOUS
  <1>3. DOMAIN s = 1 .. n /\ DOMAIN t = (1 .. n) \cup {n + 1}
    BY <1>1, <1>2
  <1>4. \A i \in 1 .. n : s[i] \in Nat /\ s[i] = t[i]
    BY <1>1, <1>2
  <1>5. t[n + 1] = e /\ n + 1 \notin 1 .. n
    BY <1>1, <1>2
  <1>6. IsFiniteSet(1 .. n)
    BY FS_Interval
  <1>7. /\ Total(s, 1 .. n) \in Nat
        /\ Total(t, (1 .. n) \cup {n + 1}) = t[n + 1] + Total(s, 1 .. n)
    <2>1. PICK N : N = 1 .. n
      OBVIOUS
    <2>2. PICK m : m = n + 1
      OBVIOUS
    <2>3. IsFiniteSet(N) /\ (\A i \in N : s[i] \in Nat) /\ (\A i \in N : s[i] = t[i])
      BY <1>4, <1>6, <2>1
    <2>4. m \notin N /\ t[m] \in Nat
      BY <1>5, <2>1, <2>2
    <2>5. Total(s, N) \in Nat /\ Total(t, N \cup {m}) = t[m] + Total(s, N)
      BY <2>3, <2>4, TotalGrown
    <2> QED
      BY <2>1, <2>2, <2>5
  <1> QED
    BY <1>2, <1>3, <1>5, <1>7 DEF SeqTotal

LEMMA SeqTotalTail ==
  ASSUME NEW s \in Seq(Nat), s # <<>>
  PROVE  SeqTotal(s) = Head(s) + SeqTotal(Tail(s))
  <1>1. PICK n \in Nat : n + 1 = Len(s)
    <2>1. Len(s) \in Nat /\ Len(s) # 0
      OBVIOUS
    <2>2. Len(s) - 1 \in Nat /\ (Len(s) - 1) + 1 = Len(s)
      BY <2>1
    <2> QED
      BY <2>2
  <1>2. PICK t : t = Tail(s)
    OBVIOUS
  <1>3. DOMAIN s = 1 .. n + 1 /\ DOMAIN t = 1 .. n
    BY <1>1, <1>2
  <1>4. \A i \in 1 .. n : t[i] \in Nat /\ s[i + 1] = t[i]
    BY <1>1, <1>2
  <1>5. Total(t, 1 .. n) = Total(s, 2 .. n + 1)
    BY <1>4, SumShifts
  <1>6. Total(s, 1 .. n + 1) = s[1] + Total(s, (1 .. n + 1) \ {1})
    <2>1. IsFiniteSet(1 .. n + 1)
      BY FS_Interval
    <2>2. \A i \in 1 .. n + 1 : s[i] \in Nat
      BY <1>3
    <2>3. 1 \in 1 .. n + 1
      OBVIOUS
    <2> QED
      BY <2>1, <2>2, <2>3, SumWithout
  <1>7. (1 .. n + 1) \ {1} = 2 .. n + 1
    OBVIOUS
  <1> QED
    <2>1. Head(s) = s[1] /\ s[1] \in Nat
      BY <1>3
    <2>2. SeqTotal(s) = s[1] + SeqTotal(t)
      BY <1>3, <1>5, <1>6, <1>7 DEF SeqTotal
    <2> QED
      BY <1>2, <2>1, <2>2
=============================================================================
