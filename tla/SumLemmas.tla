----------------------------- MODULE SumLemmas -----------------------------
(***************************************************************************)
(* What MapThenSumSet of the community modules computes, for every finite  *)
(* set of terms: the fold's recursive function exists, the order in which  *)
(* it takes the elements does not matter, and a sum of naturals grows with *)
(* its set and with its terms.  The inductions take a minimal              *)
(* counterexample, since the induction theorems of the library cannot be   *)
(* instantiated.                                                           *)
(***************************************************************************)
EXTENDS Integers, FiniteSetsExt, FiniteSetTheorems, TLAPS

\* The element the fold takes first.
First(s) == CHOOSE x \in s : TRUE

\* f sums the terms v of every subset of S.
IsSum(v, S, f) ==
    f = [s \in SUBSET S |-> IF s = {} THEN 0 ELSE v[First(s)] + f[s \ {First(s)}]]

Total(v, S) == LET f == CHOOSE f : IsSum(v, S, f) IN f[S]

----------------------------------------------------------------------------
(* Minimal counterexamples *)

\* A family of subsets of a finite set has a minimal member.
LEMMA MinimalSubset ==
  ASSUME NEW S, IsFiniteSet(S), NEW T, T \subseteq SUBSET S, T # {}
  PROVE  \E x \in T : \A y \in T : y \subseteq x => y = x
<1> DEFINE R == StrictSubsetOrdering(S)
<1>1. IsWellFoundedOn(R, FiniteSubsetsOf(S))
  BY FS_StrictSubsetOrderingWellFounded
<1>2. FiniteSubsetsOf(S) = SUBSET S
  BY FS_FiniteSubsetsOfFinite
<1>3. \A x, y \in SUBSET S : y \subseteq x /\ x # y => <<y, x>> \in R
  BY DEF StrictSubsetOrdering
<1> HIDE DEF R
<1>4. \E x \in T : \A y \in T : ~(<<y, x>> \in R)
  BY <1>1, <1>2, WFMin
<1> QED BY <1>3, <1>4

\* The fold takes an element of the set.
LEMMA TakenFrom ==
  ASSUME NEW s, s # {}
  PROVE  First(s) \in s
BY DEF First

----------------------------------------------------------------------------
(* The recursive function *)

\* A function that sums the subsets of S has the value its equation says.
LEMMA SumAt ==
  ASSUME NEW v, NEW S, NEW f, IsSum(v, S, f), NEW s \in SUBSET S
  PROVE  f[s] = IF s = {} THEN 0 ELSE v[First(s)] + f[s \ {First(s)}]
<1>1. f = [r \in SUBSET S |-> IF r = {} THEN 0 ELSE v[First(r)] + f[r \ {First(r)}]]
  BY DEF IsSum
<1> QED BY <1>1

\* Two functions that sum agree on the subsets they share.
LEMMA SumUnique ==
  ASSUME NEW v, NEW S, IsFiniteSet(S), NEW R, R \subseteq S,
         NEW f, NEW g, IsSum(v, S, f), IsSum(v, R, g), NEW s \in SUBSET R
  PROVE  f[s] = g[s]
<1> DEFINE D == {r \in SUBSET R : f[r] # g[r]}
<1> SUFFICES ASSUME D # {} PROVE FALSE
  OBVIOUS
<1>1. PICK r \in D : \A y \in D : y \subseteq r => y = r
  <2>1. D \subseteq SUBSET S
    OBVIOUS
  <2> HIDE DEF D
  <2> QED BY <2>1, MinimalSubset
<1>2. r \in SUBSET S /\ r \in SUBSET R /\ f[r] # g[r]
  OBVIOUS
<1> HIDE DEF D
<1>3. f[r] = IF r = {} THEN 0 ELSE v[First(r)] + f[r \ {First(r)}]
  BY <1>2, SumAt
<1>4. g[r] = IF r = {} THEN 0 ELSE v[First(r)] + g[r \ {First(r)}]
  BY <1>2, SumAt
<1>5. CASE r = {}
  BY <1>2, <1>3, <1>4, <1>5
<1>6. CASE r # {}
  <2>1. First(r) \in r
    BY <1>6, TakenFrom
  <2>2. r \ {First(r)} \notin D
    BY <1>1, <2>1
  <2>3. f[r \ {First(r)}] = g[r \ {First(r)}]
    BY <2>2, <1>2 DEF D
  <2> QED BY <1>2, <1>3, <1>4, <1>6, <2>3
<1> QED BY <1>5, <1>6

\* What sums the subsets of S sums, restricted, those of a part of S.
LEMMA SumRestricted ==
  ASSUME NEW v, NEW S, NEW R, R \subseteq S, NEW f, IsSum(v, S, f)
  PROVE  \E g : IsSum(v, R, g) /\ g[R] = f[R]
<1> DEFINE g == [s \in SUBSET R |-> f[s]]
<1>1. ASSUME NEW s \in SUBSET R
      PROVE  g[s] = IF s = {} THEN 0 ELSE v[First(s)] + g[s \ {First(s)}]
  <2>1. f[s] = IF s = {} THEN 0 ELSE v[First(s)] + f[s \ {First(s)}]
    BY SumAt
  <2>2. s \ {First(s)} \in SUBSET R
    OBVIOUS
  <2> QED BY <2>1, <2>2
<1> QED BY <1>1 DEF IsSum

\* A finite set has a function that sums its subsets.
LEMMA SumExists ==
  ASSUME NEW v, NEW S, IsFiniteSet(S)
  PROVE  \E f : IsSum(v, S, f)
<1> DEFINE D == {r \in SUBSET S : ~\E f : IsSum(v, r, f)}
<1> SUFFICES ASSUME D # {} PROVE FALSE
  OBVIOUS
<1>1. PICK r \in D : \A y \in D : y \subseteq r => y = r
  <2>1. D \subseteq SUBSET S
    OBVIOUS
  <2> HIDE DEF D
  <2> QED BY <2>1, MinimalSubset
<1>2. r \in SUBSET S /\ ~\E f : IsSum(v, r, f)
  OBVIOUS
<1>3. \A q \in SUBSET r : q # r => \E f : IsSum(v, q, f)
  BY <1>1
<1> HIDE DEF D
<1> DEFINE F(q) == CHOOSE f : IsSum(v, q, f)
<1>4. ASSUME NEW q \in SUBSET r, q # r PROVE IsSum(v, q, F(q))
  BY <1>3, <1>4
<1> HIDE DEF F
<1> DEFINE g == [q \in SUBSET r |->
                   IF q = {} THEN 0 ELSE v[First(q)] + F(q \ {First(q)})[q \ {First(q)}]]
<1>5. ASSUME NEW q \in SUBSET r, q # r PROVE F(q)[q] = g[q]
  <2>1. F(q)[q] = IF q = {} THEN 0 ELSE v[First(q)] + F(q)[q \ {First(q)}]
    BY <1>4, <1>5, SumAt
  <2>2. CASE q = {}
    BY <2>1, <2>2
  <2>3. CASE q # {}
    <3> DEFINE p == q \ {First(q)}
    <3>1. First(q) \in q
      BY <2>3, TakenFrom
    <3>2. p \in SUBSET r /\ p # r /\ p \subseteq q
      BY <3>1
    <3>3. IsFiniteSet(q) /\ p \in SUBSET p
      BY <1>2, FS_Subset
    <3>4. F(q)[p] = F(p)[p]
      <4>1. IsSum(v, q, F(q)) /\ IsSum(v, p, F(p))
        BY <1>4, <1>5, <3>2
      <4> HIDE DEF p
      <4> QED BY <4>1, <3>2, <3>3, SumUnique
    <3> QED BY <2>1, <2>3, <3>4
  <2> QED BY <2>2, <2>3
<1>6. ASSUME NEW q \in SUBSET r
      PROVE  g[q] = IF q = {} THEN 0 ELSE v[First(q)] + g[q \ {First(q)}]
  <2>1. CASE q = {}
    BY <2>1
  <2>2. CASE q # {}
    <3>1. First(q) \in q
      BY <2>2, TakenFrom
    <3>2. q \ {First(q)} \in SUBSET r /\ q \ {First(q)} # r
      BY <3>1
    <3>3. F(q \ {First(q)})[q \ {First(q)}] = g[q \ {First(q)}]
      BY <3>2, <1>5
    <3>4. g[q] = v[First(q)] + F(q \ {First(q)})[q \ {First(q)}]
      BY <2>2
    <3> QED BY <2>2, <3>3, <3>4
  <2> QED BY <2>1, <2>2
<1>7. IsSum(v, r, g)
  BY <1>6 DEF IsSum
<1> QED BY <1>2, <1>7

----------------------------------------------------------------------------
(* Sums *)

\* The sum is what any function that sums says.
LEMMA TotalIs ==
  ASSUME NEW v, NEW S, IsFiniteSet(S), NEW f, IsSum(v, S, f)
  PROVE  Total(v, S) = f[S]
<1> DEFINE g == CHOOSE h : IsSum(v, S, h)
<1>1. IsSum(v, S, g)
  OBVIOUS
<1>2. Total(v, S) = g[S]
  BY DEF Total
<1> HIDE DEF g
<1>3. f[S] = g[S]
  BY <1>1, SumUnique
<1> QED BY <1>2, <1>3

\* The sum of nothing, and the sum as the fold computes it.
LEMMA TotalSteps ==
  ASSUME NEW v, NEW S, IsFiniteSet(S)
  PROVE  Total(v, S) = IF S = {} THEN 0 ELSE v[First(S)] + Total(v, S \ {First(S)})
<1> DEFINE R == S \ {First(S)}
<1>1. PICK f : IsSum(v, S, f)
  BY SumExists
<1>2. Total(v, S) = f[S]
  BY <1>1, TotalIs
<1>3. f[S] = IF S = {} THEN 0 ELSE v[First(S)] + f[R]
  <2>1. S \in SUBSET S
    OBVIOUS
  <2> QED BY <1>1, <2>1, SumAt
<1>4. Total(v, R) = f[R]
  <2>1. IsFiniteSet(R) /\ R \subseteq S /\ R \in SUBSET R
    BY FS_Subset
  <2> HIDE DEF R
  <2>2. PICK g : IsSum(v, R, g) /\ g[R] = f[R]
    BY <1>1, <2>1, SumRestricted
  <2>3. Total(v, R) = g[R]
    BY <2>1, <2>2, TotalIs
  <2> QED BY <2>2, <2>3
<1> QED BY <1>2, <1>3, <1>4

\* A sum of naturals is a natural.
LEMMA TotalType ==
  ASSUME NEW v, NEW S, IsFiniteSet(S), \A x \in S : v[x] \in Nat
  PROVE  Total(v, S) \in Nat
<1> DEFINE D == {r \in SUBSET S : Total(v, r) \notin Nat}
<1> SUFFICES ASSUME D # {} PROVE FALSE
  OBVIOUS
<1>1. PICK r \in D : \A y \in D : y \subseteq r => y = r
  <2>1. D \subseteq SUBSET S
    OBVIOUS
  <2> HIDE DEF D
  <2> QED BY <2>1, MinimalSubset
<1>2. r \in SUBSET S /\ Total(v, r) \notin Nat /\ IsFiniteSet(r)
  BY FS_Subset
<1>3. Total(v, r) = IF r = {} THEN 0 ELSE v[First(r)] + Total(v, r \ {First(r)})
  BY <1>2, TotalSteps
<1>4. r # {} /\ First(r) \in r
  BY <1>2, <1>3, TakenFrom
<1>5. Total(v, r \ {First(r)}) \in Nat
  BY <1>1, <1>2, <1>4
<1>6. v[First(r)] \in Nat
  BY <1>2, <1>4
<1> QED BY <1>2, <1>3, <1>4, <1>5, <1>6

\* Any element may be taken first.
LEMMA TotalAny ==
  ASSUME NEW v, NEW S, IsFiniteSet(S), \A x \in S : v[x] \in Nat, NEW y \in S
  PROVE  Total(v, S) = v[y] + Total(v, S \ {y})
<1> DEFINE Odd(r) == \E x \in r : Total(v, r) # v[x] + Total(v, r \ {x})
           D == {r \in SUBSET S : Odd(r)}
<1> SUFFICES ASSUME D # {} PROVE FALSE
  <2>1. D = {} => ~Odd(S)
    OBVIOUS
  <2> QED BY <2>1
<1>1. PICK r \in D : \A q \in D : q \subseteq r => q = r
  <2>1. D \subseteq SUBSET S
    OBVIOUS
  <2> HIDE DEF D
  <2> QED BY <2>1, MinimalSubset
<1>2. PICK x \in r : Total(v, r) # v[x] + Total(v, r \ {x})
  OBVIOUS
<1>3. r \in SUBSET S /\ IsFiniteSet(r)
  BY FS_Subset
<1>4. \A q \in SUBSET r : q # r => ~Odd(q)
  BY <1>1, <1>3
<1> HIDE DEF D
<1> DEFINE p == First(r)
<1>5. p \in r /\ Total(v, r) = v[p] + Total(v, r \ {p})
  <2>1. r # {}
    BY <1>2
  <2> QED BY <1>3, <2>1, TakenFrom, TotalSteps
<1>6. p # x
  BY <1>2, <1>5
<1> HIDE DEF p
<1>7. Total(v, r \ {p}) = v[x] + Total(v, (r \ {p}) \ {x})
  BY <1>4, <1>5, <1>6, <1>2
<1>8. Total(v, r \ {x}) = v[p] + Total(v, (r \ {x}) \ {p})
  BY <1>4, <1>5, <1>6, <1>2
<1>9. (r \ {x}) \ {p} = (r \ {p}) \ {x}
  OBVIOUS
<1>10. v[p] \in Nat /\ v[x] \in Nat /\ Total(v, (r \ {p}) \ {x}) \in Nat
  <2>1. (r \ {p}) \ {x} \in SUBSET S
    BY <1>3
  <2>2. IsFiniteSet((r \ {p}) \ {x})
    BY <2>1, FS_Subset
  <2>3. \A z \in (r \ {p}) \ {x} : v[z] \in Nat
    BY <2>1
  <2> QED BY <1>2, <1>3, <1>5, <2>2, <2>3, TotalType
<1> DEFINE rest == Total(v, (r \ {p}) \ {x})
<1>11. /\ Total(v, r) = v[p] + Total(v, r \ {p})
       /\ Total(v, r \ {p}) = v[x] + rest
       /\ Total(v, r \ {x}) = v[p] + rest
       /\ v[p] \in Nat /\ v[x] \in Nat /\ rest \in Nat
  BY <1>5, <1>7, <1>8, <1>9, <1>10
<1> HIDE DEF rest
<1> QED BY <1>2, <1>11

\* A sum of naturals grows with its set and with its terms.
LEMMA TotalMonotone ==
  ASSUME NEW v, NEW w, NEW T, IsFiniteSet(T), NEW S, S \subseteq T,
         \A x \in S : v[x] \in Nat /\ v[x] <= w[x],
         \A x \in T : w[x] \in Nat
  PROVE  Total(v, S) <= Total(w, T)
<1> DEFINE Odd(r) == ~(Total(v, r \cap S) <= Total(w, r))
           D == {r \in SUBSET T : Odd(r)}
<1> SUFFICES ASSUME D # {} PROVE FALSE
  <2>1. D = {} => ~Odd(T)
    OBVIOUS
  <2>2. T \cap S = S
    OBVIOUS
  <2> QED BY <2>1, <2>2
<1>1. PICK r \in D : \A q \in D : q \subseteq r => q = r
  <2>1. D \subseteq SUBSET T
    OBVIOUS
  <2> HIDE DEF D
  <2> QED BY <2>1, MinimalSubset
<1>2. /\ r \in SUBSET T /\ ~(Total(v, r \cap S) <= Total(w, r))
      /\ IsFiniteSet(r) /\ IsFiniteSet(r \cap S)
  BY FS_Subset
<1>3. r # {}
  <2>1. Total(v, {}) = 0 /\ Total(w, {}) = 0
    BY FS_EmptySet, TotalSteps
  <2> QED BY <1>2, <2>1
<1>4. PICK x \in r : TRUE
  BY <1>3
<1> DEFINE q == r \ {x}
<1>5. Total(v, q \cap S) <= Total(w, q)
  <2>1. q \in SUBSET T /\ q \subseteq r /\ q # r
    BY <1>2, <1>4
  <2> QED BY <1>1, <2>1
<1>6. Total(w, r) = w[x] + Total(w, q) /\ w[x] \in Nat /\ Total(w, q) \in Nat
  <2>1. IsFiniteSet(q) /\ q \in SUBSET T
    BY <1>2, FS_Subset
  <2> QED BY <1>2, <1>4, <2>1, TotalAny, TotalType
<1>7. Total(v, q \cap S) \in Nat
  <2>1. IsFiniteSet(q \cap S)
    BY <1>2, FS_Subset
  <2>2. \A z \in q \cap S : v[z] \in Nat
    OBVIOUS
  <2> QED BY <2>1, <2>2, TotalType
<1>8. CASE x \in S
  <2>1. x \in r \cap S /\ (r \cap S) \ {x} = q \cap S
    BY <1>8
  <2>2. \A z \in r \cap S : v[z] \in Nat
    OBVIOUS
  <2>3. Total(v, r \cap S) = v[x] + Total(v, (r \cap S) \ {x})
    BY <1>2, <2>1, <2>2, TotalAny
  <2>4. Total(v, r \cap S) = v[x] + Total(v, q \cap S)
    BY <2>1, <2>3
  <2>5. v[x] \in Nat /\ v[x] <= w[x]
    BY <1>8
  <2> HIDE DEF q
  <2> QED BY <1>2, <1>5, <1>6, <1>7, <2>4, <2>5
<1>9. CASE x \notin S
  <2>1. r \cap S = q \cap S
    BY <1>9
  <2>2. Total(v, r \cap S) = Total(v, q \cap S)
    BY <2>1
  <2> HIDE DEF q
  <2> QED BY <1>2, <1>5, <1>6, <1>7, <2>2
<1> QED BY <1>8, <1>9

\* The fold of the community modules, for terms that are given by a function.
LEMMA SumIsTotal ==
  ASSUME NEW v, NEW S, IsFiniteSet(S)
  PROVE  MapThenSumSet(LAMBDA x : v[x], S) = Total(v, S)
<1> DEFINE Sums(f) == f = [s \in SUBSET S |->
                  IF s = {} THEN 0
                  ELSE v[CHOOSE x \in s : TRUE] + f[s \ {CHOOSE x \in s : TRUE}]]
           g == CHOOSE f : Sums(f)
<1>1. MapThenSumSet(LAMBDA x : v[x], S) = g[S]
  BY DEF MapThenSumSet, MapThenFoldSet
<1>2. IsSum(v, S, g)
  <2>1. \A f : IsSum(v, S, f) <=> Sums(f)
    BY DEF IsSum, First
  <2> HIDE DEF Sums
  <2>2. \E f : Sums(f)
    BY <2>1, SumExists
  <2> QED BY <2>1, <2>2
<1> HIDE DEF g
<1>3. Total(v, S) = g[S]
  BY <1>2, TotalIs
<1> QED BY <1>1, <1>3
=============================================================================
