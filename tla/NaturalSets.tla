----------------------------- MODULE NaturalSets -----------------------------
(***************************************************************************)
(* Sets of natural numbers have a least element, and a greatest one when   *)
(* they are bounded: what the proofs need to know of CHOOSE, Max and Min,  *)
(* what induction over finite sets and sums over them rest on, and where   *)
(* an element of a finite set stands in a strict order.                    *)
(***************************************************************************)
EXTENDS Integers, FiniteSetTheorems, WellFoundedInduction, TLAPS

LEMMA LeastElement ==
    ASSUME NEW T \in SUBSET Nat, T # {}
    PROVE  \E x \in T : \A y \in T : x <= y
<1>1. PICK x \in T : \A y \in T : ~ (<<y, x>> \in OpToRel(<, Nat))
  BY NatLessThanWellFounded, WFMin
<1>2. \A y \in T : ~ (y < x)
  BY <1>1 DEF OpToRel
<1> QED  BY <1>2

LEMMA GreatestElement ==
    ASSUME NEW T \in SUBSET Nat, T # {}, NEW n \in Nat, \A y \in T : y <= n
    PROVE  \E x \in T : \A y \in T : y <= x
<1> DEFINE Bounds == {m \in Nat : \A y \in T : y <= m}
<1>1. PICK m \in Bounds : \A b \in Bounds : m <= b
  BY LeastElement
<1>2. m \in T
  <2>1. SUFFICES ASSUME m \notin T PROVE FALSE
    OBVIOUS
  <2>2. \A y \in T : y \in Nat /\ y < m
    BY <2>1
  <2>3. PICK y \in T : TRUE
    OBVIOUS
  <2>4. m - 1 \in Nat
    BY <2>2, <2>3
  <2>5. m - 1 \in Bounds
    BY <2>2, <2>4
  <2> QED  BY <1>1, <2>4, <2>5
<1> QED  BY <1>1, <1>2

LEMMA FiniteGreatest ==
    ASSUME NEW T \in SUBSET Nat, IsFiniteSet(T), T # {}
    PROVE  \E x \in T : \A y \in T : x >= y
<1> DEFINE Topless(S) == S # {} /\ IsFiniteSet(S) /\ \A x \in S : \E y \in S : ~ (x >= y)
           Sizes == {Cardinality(S) : S \in {R \in SUBSET Nat : Topless(R)}}
<1> SUFFICES ASSUME Topless(T) PROVE FALSE
  OBVIOUS
<1>1. Sizes \subseteq Nat /\ Sizes # {}
  BY FS_CardinalityType
<1>2. PICK n \in Sizes : \A m \in Sizes : n <= m
  BY <1>1, LeastElement
<1>3. PICK S \in SUBSET Nat : Topless(S) /\ n = Cardinality(S)
  BY <1>2
<1>4. PICK x \in S : TRUE
  BY <1>3
<1> DEFINE R == S \ {x}
<1>5. IsFiniteSet(R) /\ Cardinality(R) = n - 1 /\ n \in Nat
  BY <1>1, <1>3, <1>4, FS_RemoveElement
<1>6. R # {}
  BY <1>3, <1>4
<1>7. ~ Topless(R)
  <2>1. ~ (n <= n - 1)
    BY <1>5
  <2> QED  BY <1>2, <1>5, <2>1
<1>8. PICK m \in R : \A y \in R : m >= y
  BY <1>5, <1>6, <1>7
<1>9. CASE m >= x
  BY <1>3, <1>8, <1>9
<1>10. CASE ~ (m >= x)
  <2>1. \A y \in S : x >= y
    BY <1>3, <1>4, <1>8, <1>10
  <2> QED  BY <1>3, <1>4, <2>1
<1> QED  BY <1>9, <1>10

-----------------------------------------------------------------------------
(* Induction over the subsets of a finite set *)

\* What holds of a set when it holds of the set without any one of its members
\* holds of every subset of a finite set.
LEMMA SubsetInduction ==
    ASSUME NEW S, IsFiniteSet(S), NEW Q \in SUBSET (SUBSET S),
           \A s \in SUBSET S : (\A x \in s : s \ {x} \in Q) => s \in Q
    PROVE  \A s \in SUBSET S : s \in Q
<1> DEFINE Sizes == {Cardinality(s) : s \in (SUBSET S) \ Q}
<1> SUFFICES ASSUME (SUBSET S) \ Q # {} PROVE FALSE
  OBVIOUS
<1>1. \A s \in SUBSET S : IsFiniteSet(s) /\ Cardinality(s) \in Nat
  BY FS_Subset, FS_CardinalityType
<1>2. PICK n \in Sizes : \A m \in Sizes : n <= m
  <2>1. Sizes \in SUBSET Nat /\ Sizes # {}
    BY <1>1
  <2> HIDE DEF Sizes
  <2> QED  BY <2>1, LeastElement
<1>3. PICK s \in (SUBSET S) \ Q : n = Cardinality(s)
  BY <1>2
<1>4. PICK x \in s : s \ {x} \notin Q
  BY <1>3
<1>5. Cardinality(s \ {x}) = n - 1 /\ n \in Nat
  BY <1>1, <1>3, <1>4, FS_RemoveElement
<1>6. Cardinality(s \ {x}) \in Sizes
  <2>1. s \ {x} \in (SUBSET S) \ Q
    BY <1>3, <1>4
  <2> QED  BY <2>1
<1> HIDE DEF Sizes
<1>7. n <= Cardinality(s \ {x})
  BY <1>2, <1>6
<1> QED  BY <1>5, <1>7

-----------------------------------------------------------------------------
(* Sums *)

\* The sums of f over the subsets of S, as the folds of sets compute them.
SumTable(f, S) ==
    CHOOSE iter : iter = [s \in SUBSET S |->
        IF s = {} THEN 0
        ELSE LET x == CHOOSE x \in s : TRUE IN f[x] + iter[s \ {x}]]

SumOver(f) == SumTable(f, DOMAIN f)[DOMAIN f]

One(s) == CHOOSE x \in s : TRUE

LEMMA SumTableIs ==
    ASSUME NEW f, NEW S, IsFiniteSet(S)
    PROVE  \A s \in SUBSET S : SumTable(f, S)[s] =
               IF s = {} THEN 0 ELSE f[One(s)] + SumTable(f, S)[s \ {One(s)}]
<1> DEFINE Small(n) == {s \in SUBSET S : Cardinality(s) <= n}
           Next(g, D) == [s \in D |-> IF s = {} THEN 0 ELSE f[One(s)] + g[s \ {One(s)}]]
           Good(n) == \E g : g = Next(g, Small(n))
           Bad == {n \in Nat : ~ Good(n)}
<1>1. \A s \in SUBSET S : IsFiniteSet(s) /\ Cardinality(s) \in Nat
  BY FS_Subset, FS_CardinalityType
<1>2. \A s \in SUBSET S : s # {} => One(s) \in s /\ Cardinality(s \ {One(s)}) = Cardinality(s) - 1
  BY <1>1, FS_RemoveElement DEF One
<1>3. Bad = {}
  <2> SUFFICES ASSUME Bad # {} PROVE FALSE
    OBVIOUS
  <2>1. PICK n \in Bad : \A m \in Bad : n <= m
    <3> HIDE DEF Good
    <3> QED  BY LeastElement
  <2>2. CASE n = 0
    <3>1. \A s \in Small(n) : s = {}
      BY <1>1, <2>2, FS_EmptySet
    <3>2. [s \in Small(n) |-> 0] = Next([s \in Small(n) |-> 0], Small(n))
      BY <3>1
    <3> QED  BY <2>1, <3>2
  <2>3. CASE n # 0
    <3>1. n - 1 \in Nat /\ n - 1 \notin Bad
      <4>1. n \in Nat /\ n - 1 \in Nat /\ ~ (n <= n - 1)
        <5> HIDE DEF Good
        <5> QED  BY <2>1, <2>3
      <4> HIDE DEF Bad
      <4> QED  BY <2>1, <4>1
    <3>2. PICK g : g = Next(g, Small(n - 1))
      BY <3>1
    <3> DEFINE h == Next(g, Small(n))
    <3>3. \A s \in Small(n) : s # {} => s \ {One(s)} \in Small(n - 1)
      BY <1>1, <1>2, <2>1
    <3>4. \A s \in Small(n - 1) : s \in Small(n) /\ h[s] = g[s]
      <4>1. \A s \in Small(n - 1) : s \in Small(n)
        BY <1>1, <2>1
      <4>2. \A s \in Small(n - 1) : g[s] = IF s = {} THEN 0 ELSE f[One(s)] + g[s \ {One(s)}]
        BY <3>2
      <4> QED  BY <4>1, <4>2
    <3>5. h = Next(h, Small(n))
      BY <3>3, <3>4
    <3> HIDE DEF h
    <3> QED  BY <2>1, <3>5
  <2> QED  BY <2>2, <2>3
<1>4. Cardinality(S) \in Nat /\ Small(Cardinality(S)) = SUBSET S
  BY <1>1, FS_Subset, FS_CardinalityType
<1>5. PICK g : g = Next(g, SUBSET S)
  <2>1. Good(Cardinality(S))
    <3> HIDE DEF Good
    <3> QED  BY <1>3, <1>4
  <2> HIDE DEF Next, Small
  <2> QED  BY <1>4, <2>1
<1>6. SumTable(f, S) = CHOOSE h : h = Next(h, SUBSET S)
  BY DEF SumTable, One
<1> HIDE DEF Next
<1>7. SumTable(f, S) = Next(SumTable(f, S), SUBSET S)
  BY <1>5, <1>6
<1> DEFINE T == SumTable(f, S)
<1> HIDE DEF T
<1>8. T = Next(T, SUBSET S)
  BY <1>7 DEF T
<1>9. \A s \in SUBSET S : T[s] = IF s = {} THEN 0 ELSE f[One(s)] + T[s \ {One(s)}]
  BY <1>8 DEF Next
<1> QED  BY <1>9 DEF T

\* The parts of a finite set: a sum of none, of one more, of a part alone.
LEMMA SumTypedStep ==
    ASSUME NEW S, IsFiniteSet(S), NEW f \in [S -> Int]
    PROVE  /\ SumTable(f, S)[{}] = 0
           /\ \A s \in SUBSET S : SumTable(f, S)[s] \in Int
           /\ \A s \in SUBSET S : s # {} =>
                SumTable(f, S)[s] = f[One(s)] + SumTable(f, S)[s \ {One(s)}]
<1> DEFINE T == SumTable(f, S)
<1> HIDE DEF T
<1>1. \A s \in SUBSET S : T[s] = IF s = {} THEN 0 ELSE f[One(s)] + T[s \ {One(s)}]
  BY SumTableIs DEF T
<1>2. \A s \in SUBSET S : s # {} => One(s) \in s
  BY DEF One
<1> DEFINE Q == {s \in SUBSET S : T[s] \in Int}
<1>3. \A s \in SUBSET S : (\A x \in s : s \ {x} \in Q) => s \in Q
  <2> SUFFICES ASSUME NEW s \in SUBSET S, \A x \in s : s \ {x} \in Q PROVE T[s] \in Int
    OBVIOUS
  <2>1. CASE s = {}
    BY <1>1, <2>1
  <2>2. CASE s # {}
    <3>1. f[One(s)] \in Int /\ T[s \ {One(s)}] \in Int
      BY <1>2, <2>2
    <3> QED  BY <1>1, <2>2, <3>1
  <2> QED  BY <2>1, <2>2
<1>4. \A s \in SUBSET S : s \in Q
  <2> HIDE DEF Q
  <2> QED  BY <1>3, SubsetInduction DEF Q
<1> QED  BY <1>1, <1>4 DEF T

LEMMA SumOfOneMore ==
    ASSUME NEW S, IsFiniteSet(S), NEW f \in [S -> Int]
    PROVE  \A s \in SUBSET S : \A x \in s :
               SumTable(f, S)[s] = f[x] + SumTable(f, S)[s \ {x}]
<1> DEFINE T == SumTable(f, S)
           Q == {s \in SUBSET S : \A x \in s : T[s] = f[x] + T[s \ {x}]}
<1>1. /\ \A s \in SUBSET S : T[s] \in Int
      /\ \A s \in SUBSET S : s # {} => T[s] = f[One(s)] + T[s \ {One(s)}]
  BY SumTypedStep
<1>2. \A s \in SUBSET S : s # {} => One(s) \in s
  BY DEF One
<1> HIDE DEF T
<1>3. ASSUME NEW s \in SUBSET S, \A x \in s : s \ {x} \in Q, NEW x \in s
      PROVE  T[s] = f[x] + T[s \ {x}]
  <2> DEFINE y == One(s)
  <2>1. y \in s /\ T[s] = f[y] + T[s \ {y}]
    BY <1>1, <1>2, <1>3
  <2> HIDE DEF y
  <2>2. CASE x = y
    BY <2>1, <2>2
  <2>3. CASE x # y
    <3>1. x \in s \ {y} /\ y \in s \ {x}
      BY <1>3, <2>1, <2>3
    <3>2. T[s \ {y}] = f[x] + T[(s \ {y}) \ {x}]
      BY <1>3, <2>1, <3>1
    <3>3. T[s \ {x}] = f[y] + T[(s \ {x}) \ {y}]
      BY <1>3, <2>1, <3>1
    <3>4. (s \ {y}) \ {x} = (s \ {x}) \ {y}
      OBVIOUS
    <3>5. f[x] \in Int /\ f[y] \in Int /\ T[(s \ {x}) \ {y}] \in Int
      BY <1>1, <1>3, <2>1
    <3> DEFINE Z == T[(s \ {x}) \ {y}]
    <3>6. T[s] = f[y] + (f[x] + Z) /\ T[s \ {x}] = f[y] + Z /\ Z \in Int
      BY <2>1, <3>2, <3>3, <3>4, <3>5
    <3> HIDE DEF Z, Q
    <3> QED  BY <3>5, <3>6
  <2> QED  BY <2>2, <2>3
<1>4. \A s \in SUBSET S : (\A x \in s : s \ {x} \in Q) => s \in Q
  BY <1>3
<1> HIDE DEF Q
<1>5. \A s \in SUBSET S : s \in Q
  BY <1>4, SubsetInduction DEF Q
<1> QED  BY <1>5 DEF Q, T

\* A table of a larger set gives the same sums.
LEMMA SumOfPart ==
    ASSUME NEW S, IsFiniteSet(S), NEW f \in [S -> Int], NEW R \in SUBSET S
    PROVE  SumOver([x \in R |-> f[x]]) = SumTable(f, S)[R]
<1> DEFINE g == [x \in R |-> f[x]]
           T == SumTable(f, S)
           U == SumTable(g, R)
           Q == {s \in SUBSET R : U[s] = T[s]}
<1>1. IsFiniteSet(R)
  BY FS_Subset
<1>2. /\ T[{}] = 0
      /\ \A s \in SUBSET S : s # {} => T[s] = f[One(s)] + T[s \ {One(s)}]
  BY SumTypedStep
<1>3. /\ U[{}] = 0
      /\ \A s \in SUBSET R : s # {} => U[s] = g[One(s)] + U[s \ {One(s)}]
  <2>1. g \in [R -> Int]
    OBVIOUS
  <2> HIDE DEF g
  <2> QED  BY <1>1, <2>1, SumTypedStep
<1>4. \A s \in SUBSET R : s # {} => One(s) \in s /\ g[One(s)] = f[One(s)]
  BY DEF One
<1> HIDE DEF T, U
<1>5. \A s \in SUBSET R : (\A x \in s : s \ {x} \in Q) => s \in Q
  <2> SUFFICES ASSUME NEW s \in SUBSET R, \A x \in s : s \ {x} \in Q
               PROVE  U[s] = T[s]
    OBVIOUS
  <2>1. CASE s = {}
    BY <1>2, <1>3, <2>1
  <2>2. CASE s # {}
    BY <1>2, <1>3, <1>4, <2>2
  <2> QED  BY <2>1, <2>2
<1>6. R \in Q
  <2> HIDE DEF Q
  <2> QED  BY <1>1, <1>5, SubsetInduction DEF Q
<1>7. DOMAIN g = R
  OBVIOUS
<1> QED  BY <1>6, <1>7 DEF SumOver, T, U

LEMMA SumOfNone ==
    ASSUME NEW f, DOMAIN f = {}
    PROVE  SumOver(f) = 0
<1>1. IsFiniteSet({})
  BY FS_EmptySet
<1> QED  BY <1>1, SumTableIs DEF SumOver

LEMMA SumTyped ==
    ASSUME NEW S, IsFiniteSet(S), NEW f \in [S -> Int]
    PROVE  SumOver(f) \in Int
BY SumTypedStep DEF SumOver

\* A sum of two parts.
LEMMA SumOfParts ==
    ASSUME NEW S, IsFiniteSet(S), NEW f \in [S -> Int], NEW A \in SUBSET S
    PROVE  SumOver(f) = SumOver([x \in A |-> f[x]]) + SumOver([x \in S \ A |-> f[x]])
<1> DEFINE T == SumTable(f, S)
           C == S \ A
           Q == {s \in SUBSET C : T[A \cup s] = T[A] + T[s]}
<1>1. /\ T[{}] = 0 /\ \A s \in SUBSET S : T[s] \in Int
      /\ \A s \in SUBSET S : \A x \in s : T[s] = f[x] + T[s \ {x}]
  BY SumTypedStep, SumOfOneMore
<1>2. IsFiniteSet(C)
  BY FS_Subset
<1>3. /\ SumOver(f) = T[S]
      /\ SumOver([x \in A |-> f[x]]) = T[A] /\ SumOver([x \in C |-> f[x]]) = T[C]
  BY SumOfPart DEF SumOver
<1> HIDE DEF T
<1>4. \A s \in SUBSET C : (\A x \in s : s \ {x} \in Q) => s \in Q
  <2> SUFFICES ASSUME NEW s \in SUBSET C, \A x \in s : s \ {x} \in Q
               PROVE  T[A \cup s] = T[A] + T[s]
    OBVIOUS
  <2>1. CASE s = {}
    <3>1. A \cup s = A
      BY <2>1
    <3> QED  BY <1>1, <2>1, <3>1
  <2>2. CASE s # {}
    <3>1. PICK x \in s : TRUE
      BY <2>2
    <3>2. (A \cup s) \ {x} = A \cup (s \ {x})
      BY <3>1
    <3>3. T[A \cup s] = f[x] + T[A \cup (s \ {x})] /\ T[s] = f[x] + T[s \ {x}]
      <4>1. A \cup s \in SUBSET S /\ x \in A \cup s /\ s \in SUBSET S
        BY <3>1
      <4> HIDE DEF Q
      <4> QED  BY <1>1, <3>1, <3>2, <4>1
    <3>4. T[A \cup (s \ {x})] = T[A] + T[s \ {x}]
      BY <3>1
    <3>5. f[x] \in Int /\ T[A] \in Int /\ T[s \ {x}] \in Int
      BY <1>1, <3>1
    <3> QED  BY <3>3, <3>4, <3>5
  <2> QED  BY <2>1, <2>2
<1>5. C \in Q
  <2>1. Q \in SUBSET (SUBSET C) /\ C \in SUBSET C
    OBVIOUS
  <2> HIDE DEF Q, C
  <2> QED  BY <1>2, <1>4, <2>1, SubsetInduction
<1>6. A \cup C = S
  OBVIOUS
<1> QED  BY <1>3, <1>5, <1>6
\* A sum of one.
LEMMA SumOfOne ==
    ASSUME NEW f, NEW x, DOMAIN f = {x}, f[x] \in Int
    PROVE  SumOver(f) = f[x]
<1> DEFINE S == {x}
           T == SumTable(f, S)
<1>1. IsFiniteSet(S) /\ One(S) = x /\ S # {} /\ S \ {x} = {} /\ DOMAIN f = S
  BY FS_Singleton DEF One
<1> HIDE DEF S
<1> HIDE DEF T
<1>2. \A s \in SUBSET S : T[s] = IF s = {} THEN 0 ELSE f[One(s)] + T[s \ {One(s)}]
  <2>1. IsFiniteSet(S)
    BY <1>1
  <2> QED  BY <2>1, SumTableIs, Zenon DEF T
<1>3. T[{}] = 0 /\ T[S] = f[x] + T[{}]
  <2>1. S \in SUBSET S /\ {} \in SUBSET S
    OBVIOUS
  <2> QED  BY <1>1, <1>2, <2>1
<1>4. T[S] = f[x]
  BY <1>3
<1> QED  BY <1>1, <1>4 DEF SumOver, T

\* A sum by groups.
LEMMA SumByGroups ==
    ASSUME NEW S, IsFiniteSet(S), NEW f \in [S -> Int],
           NEW T, IsFiniteSet(T), NEW g \in [S -> T]
    PROVE  SumOver(f) = SumOver([t \in T |-> SumOver([x \in {x \in S : g[x] = t} |-> f[x]])])
<1> DEFINE Group(t) == {x \in S : g[x] = t}
           h == [t \in T |-> SumOver([x \in Group(t) |-> f[x]])]
           F == SumTable(f, S)
           H == SumTable(h, T)
           In(U) == {x \in S : g[x] \in U}
           Q == {U \in SUBSET T : F[In(U)] = H[U]}
<1>1. \A R \in SUBSET S : SumOver([x \in R |-> f[x]]) = F[R]
  BY SumOfPart
<1>2. /\ F[{}] = 0 /\ \A s \in SUBSET S : F[s] \in Int
  BY SumTypedStep
<1>3. \A t \in T : h[t] = F[Group(t)] /\ h[t] \in Int
  <2>1. \A t \in T : Group(t) \in SUBSET S
    OBVIOUS
  <2> QED  BY <1>1, <1>2, <2>1
<1>4. h \in [T -> Int]
  BY <1>3
<1> HIDE DEF h
<1>5. /\ H[{}] = 0
      /\ \A U \in SUBSET T : \A t \in U : H[U] = h[t] + H[U \ {t}]
  BY <1>4, SumTypedStep, SumOfOneMore
<1>6. \A A \in SUBSET S : \A B \in SUBSET A : F[A] = F[B] + F[A \ B]
  <2> SUFFICES ASSUME NEW A \in SUBSET S, NEW B \in SUBSET A PROVE F[A] = F[B] + F[A \ B]
    OBVIOUS
  <2> DEFINE e == [x \in A |-> f[x]]
  <2>1. e \in [A -> Int] /\ IsFiniteSet(A)
    BY FS_Subset
  <2>2. /\ [x \in B |-> e[x]] = [x \in B |-> f[x]]
        /\ [x \in A \ B |-> e[x]] = [x \in A \ B |-> f[x]]
    OBVIOUS
  <2>3. SumOver(e) = SumOver([x \in B |-> e[x]]) + SumOver([x \in A \ B |-> e[x]])
    <3> HIDE DEF e
    <3> QED  BY <2>1, SumOfParts
  <2>4. B \in SUBSET S /\ A \ B \in SUBSET S
    OBVIOUS
  <2> QED  BY <1>1, <2>2, <2>3, <2>4
<1> HIDE DEF F, H
<1>7. \A U \in SUBSET T : (\A t \in U : U \ {t} \in Q) => U \in Q
  <2> SUFFICES ASSUME NEW U \in SUBSET T, \A t \in U : U \ {t} \in Q
               PROVE  F[In(U)] = H[U]
    OBVIOUS
  <2>1. CASE U = {}
    <3>1. In(U) = {}
      BY <2>1
    <3> QED  BY <1>2, <1>5, <2>1, <3>1
  <2>2. CASE U # {}
    <3>1. PICK t \in U : TRUE
      BY <2>2
    <3>2. In(U) \ Group(t) = In(U \ {t}) /\ Group(t) \in SUBSET In(U) /\ In(U) \in SUBSET S
      BY <3>1
    <3>3. F[In(U)] = F[Group(t)] + F[In(U \ {t})]
      <4> HIDE DEF In, Group, Q
      <4> QED  BY <1>6, <3>2
    <3>4. F[In(U \ {t})] = H[U \ {t}]
      BY <3>1
    <3>5. H[U] = h[t] + H[U \ {t}] /\ h[t] = F[Group(t)]
      BY <1>3, <1>5, <3>1
    <3> QED  BY <3>3, <3>4, <3>5
  <2> QED  BY <2>1, <2>2
<1>8. T \in Q
  <2>1. Q \in SUBSET (SUBSET T) /\ T \in SUBSET T
    OBVIOUS
  <2> HIDE DEF Q
  <2> QED  BY <1>7, <2>1, SubsetInduction
<1>9. In(T) = S /\ DOMAIN f = S /\ DOMAIN h = T
  BY <1>4
<1>10. SumOver(f) = F[S] /\ SumOver(h) = H[T]
  BY <1>9 DEF SumOver, F, H
<1> QED  BY <1>8, <1>9, <1>10 DEF h

\* The sum of a difference.
LEMMA SumOfDifference ==
    ASSUME NEW S, IsFiniteSet(S), NEW f \in [S -> Int], NEW g \in [S -> Int]
    PROVE  SumOver([x \in S |-> f[x] - g[x]]) = SumOver(f) - SumOver(g)
<1> DEFINE d == [x \in S |-> f[x] - g[x]]
           D == SumTable(d, S)
           F == SumTable(f, S)
           G == SumTable(g, S)
           Q == {s \in SUBSET S : D[s] = F[s] - G[s]}
<1>1. d \in [S -> Int] /\ DOMAIN f = S /\ DOMAIN g = S /\ DOMAIN d = S
  OBVIOUS
<1>2. /\ \A x \in S : d[x] = f[x] - g[x] /\ f[x] \in Int /\ g[x] \in Int
  OBVIOUS
<1> HIDE DEF d
<1>3. /\ D[{}] = 0 /\ \A s \in SUBSET S : D[s] \in Int
      /\ \A s \in SUBSET S : \A x \in s : D[s] = d[x] + D[s \ {x}]
  BY <1>1, SumTypedStep, SumOfOneMore
<1>4. /\ F[{}] = 0 /\ \A s \in SUBSET S : F[s] \in Int
      /\ \A s \in SUBSET S : \A x \in s : F[s] = f[x] + F[s \ {x}]
  BY SumTypedStep, SumOfOneMore
<1>5. /\ G[{}] = 0 /\ \A s \in SUBSET S : G[s] \in Int
      /\ \A s \in SUBSET S : \A x \in s : G[s] = g[x] + G[s \ {x}]
  BY SumTypedStep, SumOfOneMore
<1> HIDE DEF D, F, G
<1>6. \A s \in SUBSET S : (\A x \in s : s \ {x} \in Q) => s \in Q
  <2> SUFFICES ASSUME NEW s \in SUBSET S, \A x \in s : s \ {x} \in Q PROVE D[s] = F[s] - G[s]
    OBVIOUS
  <2>1. CASE s = {}
    BY <1>3, <1>4, <1>5, <2>1
  <2>2. CASE s # {}
    <3>1. PICK x \in s : TRUE
      BY <2>2
    <3> DEFINE r == s \ {x}
    <3>2. r \in SUBSET S /\ D[r] = F[r] - G[r]
      BY <3>1
    <3>3. D[s] = d[x] + D[r] /\ F[s] = f[x] + F[r] /\ G[s] = g[x] + G[r]
      BY <1>3, <1>4, <1>5, <3>1
    <3> HIDE DEF r, Q
    <3>4. F[r] \in Int /\ G[r] \in Int /\ D[r] \in Int
      BY <1>3, <1>4, <1>5, <3>2
    <3>5. d[x] = f[x] - g[x] /\ f[x] \in Int /\ g[x] \in Int
      BY <1>2, <3>1
    <3> QED  BY <3>2, <3>3, <3>4, <3>5
  <2> QED  BY <2>1, <2>2
<1>7. S \in Q
  <2>1. Q \in SUBSET (SUBSET S) /\ S \in SUBSET S
    OBVIOUS
  <2> HIDE DEF Q
  <2> QED  BY <1>6, <2>1, SubsetInduction
<1>8. SumOver(d) = D[S] /\ SumOver(f) = F[S] /\ SumOver(g) = G[S]
  BY <1>1 DEF SumOver, D, F, G
<1> QED  BY <1>7, <1>8 DEF d

\* A sum of amounts is one, and no part of it is more.
LEMMA SumOfAmounts ==
    ASSUME NEW S, IsFiniteSet(S), NEW f \in [S -> Nat], NEW A \in SUBSET S
    PROVE  /\ SumOver(f) \in Nat
           /\ SumOver([x \in A |-> f[x]]) \in Nat /\ SumOver([x \in A |-> f[x]]) <= SumOver(f)
<1> DEFINE F == SumTable(f, S)
           Q == {s \in SUBSET S : F[s] \in Nat}
<1>1. f \in [S -> Int] /\ \A x \in S : f[x] \in Nat
  OBVIOUS
<1>2. /\ F[{}] = 0
      /\ \A s \in SUBSET S : \A x \in s : F[s] = f[x] + F[s \ {x}]
  BY <1>1, SumTypedStep, SumOfOneMore
<1>3. \A R \in SUBSET S : SumOver([x \in R |-> f[x]]) = F[R]
  BY <1>1, SumOfPart
<1>4. SumOver(f) = F[S]
  BY DEF SumOver
<1>5. SumOver(f) = SumOver([x \in A |-> f[x]]) + SumOver([x \in S \ A |-> f[x]])
  BY <1>1, SumOfParts
<1> HIDE DEF F
<1>6. \A s \in SUBSET S : (\A x \in s : s \ {x} \in Q) => s \in Q
  <2> SUFFICES ASSUME NEW s \in SUBSET S, \A x \in s : s \ {x} \in Q PROVE F[s] \in Nat
    OBVIOUS
  <2>1. CASE s = {}
    BY <1>2, <2>1
  <2>2. CASE s # {}
    <3>1. PICK x \in s : TRUE
      BY <2>2
    <3>2. F[s \ {x}] \in Nat /\ F[s] = f[x] + F[s \ {x}] /\ f[x] \in Nat
      BY <1>1, <1>2, <3>1
    <3> QED  BY <3>2
  <2> QED  BY <2>1, <2>2
<1>7. \A s \in SUBSET S : s \in Q
  <2> HIDE DEF Q
  <2> QED  BY <1>6, SubsetInduction DEF Q
<1>8. F[S] \in Nat /\ F[A] \in Nat /\ F[S \ A] \in Nat
  <2>1. S \in SUBSET S /\ S \ A \in SUBSET S
    OBVIOUS
  <2> QED  BY <1>7, <2>1
<1>9. SumOver([x \in A |-> f[x]]) = F[A] /\ SumOver([x \in S \ A |-> f[x]]) = F[S \ A]
  BY <1>3
<1> QED  BY <1>4, <1>5, <1>8, <1>9

-----------------------------------------------------------------------------
(* Finite sets in a strict order *)

\* R orders S strictly and totally.
StrictOrder(R, S) ==
    /\ \A x \in S : <<x, x>> \notin R
    /\ \A x, y, z \in S : <<x, y>> \in R /\ <<y, z>> \in R => <<x, z>> \in R
    /\ \A x, y \in S : x = y \/ <<x, y>> \in R \/ <<y, x>> \in R

\* What comes before x.
Before(R, S, x) == {y \in S : <<y, x>> \in R}

\* How many do.
RankOf(R, S, x) == Cardinality(Before(R, S, x))

\* Ranks rise with the order.
LEMMA RanksRise ==
    ASSUME NEW S, IsFiniteSet(S), NEW R, StrictOrder(R, S)
    PROVE  /\ \A x \in S : RankOf(R, S, x) \in 0..(Cardinality(S) - 1)
           /\ \A x, y \in S : <<x, y>> \in R => RankOf(R, S, x) < RankOf(R, S, y)
           /\ Cardinality(S) \in Nat
<1>1. \A x \in S : IsFiniteSet(Before(R, S, x)) /\ RankOf(R, S, x) \in Nat
  <2> SUFFICES ASSUME NEW x \in S PROVE IsFiniteSet(Before(R, S, x)) /\ RankOf(R, S, x) \in Nat
    OBVIOUS
  <2>1. Before(R, S, x) \subseteq S
    BY DEF Before
  <2>2. IsFiniteSet(Before(R, S, x))
    BY <2>1, FS_Subset
  <2> QED  BY <2>2, FS_CardinalityType DEF RankOf
<1>2. Cardinality(S) \in Nat
  BY FS_CardinalityType
<1>3. \A x \in S : RankOf(R, S, x) <= Cardinality(S) - 1
  <2> SUFFICES ASSUME NEW x \in S PROVE RankOf(R, S, x) <= Cardinality(S) - 1
    OBVIOUS
  <2>1. Before(R, S, x) \subseteq S /\ Before(R, S, x) # S
    BY DEF Before, StrictOrder
  <2>2. RankOf(R, S, x) <= Cardinality(S) /\ RankOf(R, S, x) # Cardinality(S)
    BY <2>1, FS_Subset DEF RankOf
  <2> QED  BY <1>1, <1>2, <2>2
<1>4. \A x, y \in S : <<x, y>> \in R => RankOf(R, S, x) < RankOf(R, S, y)
  <2> SUFFICES ASSUME NEW x \in S, NEW y \in S, <<x, y>> \in R
               PROVE  RankOf(R, S, x) < RankOf(R, S, y)
    OBVIOUS
  <2>1. Before(R, S, x) \subseteq Before(R, S, y) /\ x \in Before(R, S, y) /\ x \notin Before(R, S, x)
    BY DEF Before, StrictOrder
  <2>2. RankOf(R, S, x) <= RankOf(R, S, y) /\ RankOf(R, S, x) # RankOf(R, S, y)
    BY <1>1, <2>1, FS_Subset DEF RankOf
  <2> QED  BY <1>1, <2>2
<1> QED  BY <1>1, <1>2, <1>3, <1>4

\* Every place is taken by one element.
LEMMA RanksTaken ==
    ASSUME NEW S, IsFiniteSet(S), NEW R, StrictOrder(R, S)
    PROVE  /\ \A x, y \in S : RankOf(R, S, x) = RankOf(R, S, y) => x = y
           /\ \A k \in 1..Cardinality(S) : \E x \in S : RankOf(R, S, x) = k - 1
<1> DEFINE n == Cardinality(S)
           p == [x \in S |-> RankOf(R, S, x) + 1]
<1>1. /\ \A x \in S : RankOf(R, S, x) \in 0..(n - 1)
      /\ \A x, y \in S : <<x, y>> \in R => RankOf(R, S, x) < RankOf(R, S, y)
      /\ n \in Nat
  BY RanksRise
<1> HIDE DEF n
<1>2. \A x, y \in S : RankOf(R, S, x) = RankOf(R, S, y) => x = y
  <2> SUFFICES ASSUME NEW x \in S, NEW y \in S, RankOf(R, S, x) = RankOf(R, S, y), x # y
               PROVE  FALSE
    OBVIOUS
  <2>1. RankOf(R, S, x) \in Int /\ RankOf(R, S, y) \in Int
    BY <1>1
  <2>2. <<x, y>> \in R \/ <<y, x>> \in R
    BY DEF StrictOrder
  <2> QED  BY <1>1, <2>1, <2>2
<1>3. p \in [S -> 1..n] /\ \A x, y \in S : p[x] = p[y] => x = y
  BY <1>1, <1>2
<1>4. p \in Injection(S, 1..n)
  BY <1>3 DEF Injection, IsInjective
<1>5. IsFiniteSet(1..n) /\ Cardinality(1..n) = n
  BY <1>1, FS_Interval
<1>6. p \in Surjection(S, 1..n)
  <2> HIDE DEF p
  <2>1. Cardinality(S) = Cardinality(1..n)
    BY <1>5 DEF n
  <2> QED  BY <1>4, <1>5, <2>1, FS_Injection
<1>7. \A k \in 1..n : \E x \in S : p[x] = k
  BY <1>6 DEF Surjection
<1>8. \A k \in 1..n : \E x \in S : RankOf(R, S, x) = k - 1
  <2> SUFFICES ASSUME NEW k \in 1..n PROVE \E x \in S : RankOf(R, S, x) = k - 1
    OBVIOUS
  <2>1. PICK x \in S : p[x] = k
    BY <1>7
  <2>2. RankOf(R, S, x) + 1 = k /\ RankOf(R, S, x) \in Int
    BY <1>1, <2>1
  <2> QED  BY <2>2
<1> QED  BY <1>2, <1>8 DEF n

\* A sequence of the elements in that order.
Lists(q, R, S) ==
    /\ q \in [1..Cardinality(S) -> S]
    /\ \A k \in 1..Cardinality(S) : RankOf(R, S, q[k]) = k - 1

\* In such a sequence each element has the position after its rank.
LEMMA ListIs ==
    ASSUME NEW S, IsFiniteSet(S), NEW R, StrictOrder(R, S), NEW q, Lists(q, R, S)
    PROVE  /\ \A x \in S : RankOf(R, S, x) + 1 \in DOMAIN q /\ q[RankOf(R, S, x) + 1] = x
           /\ \A i, j \in DOMAIN q : i < j => <<q[i], q[j]>> \in R
           /\ \A i, j \in DOMAIN q : q[i] = q[j] => i = j
<1>1. /\ \A x \in S : RankOf(R, S, x) \in 0..(Cardinality(S) - 1)
      /\ \A x, y \in S : <<x, y>> \in R => RankOf(R, S, x) < RankOf(R, S, y)
      /\ Cardinality(S) \in Nat
  BY RanksRise
<1>2. \A x, y \in S : RankOf(R, S, x) = RankOf(R, S, y) => x = y
  BY RanksTaken
<1>3. \A x \in S : RankOf(R, S, x) + 1 \in DOMAIN q /\ q[RankOf(R, S, x) + 1] = x
  <2> SUFFICES ASSUME NEW x \in S
               PROVE  RankOf(R, S, x) + 1 \in DOMAIN q /\ q[RankOf(R, S, x) + 1] = x
    OBVIOUS
  <2>1. RankOf(R, S, x) + 1 \in DOMAIN q
    BY <1>1 DEF Lists
  <2>2. RankOf(R, S, q[RankOf(R, S, x) + 1]) = (RankOf(R, S, x) + 1) - 1 /\ q[RankOf(R, S, x) + 1] \in S
    BY <2>1 DEF Lists
  <2> QED  BY <1>1, <1>2, <2>1, <2>2
<1>4. \A i, j \in DOMAIN q : q[i] = q[j] => i = j
  BY <1>1 DEF Lists
<1>5. ASSUME NEW i \in DOMAIN q, NEW j \in DOMAIN q, i < j
      PROVE  <<q[i], q[j]>> \in R
  <2>1. q[i] \in S /\ q[j] \in S /\ RankOf(R, S, q[i]) = i - 1 /\ RankOf(R, S, q[j]) = j - 1
        /\ i \in Int /\ j \in Int
    BY <1>1 DEF Lists
  <2>2. q[i] # q[j]
    BY <1>4, <1>5, <2>1
  <2>3. ~ (<<q[j], q[i]>> \in R)
    BY <1>1, <1>5, <2>1
  <2> QED  BY <2>1, <2>2, <2>3 DEF StrictOrder
<1> QED  BY <1>3, <1>4, <1>5
=============================================================================
