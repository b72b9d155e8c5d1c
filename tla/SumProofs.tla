----------------------------- MODULE SumProofs -----------------------------
(***************************************************************************)
(* Facts about SumFunctionOnSet, the sum of f[x] over the x of a finite    *)
(* set: that it does not depend on the order in which the fold takes them. *)
(* Its definition is recursive; what holds of every finite set is proved   *)
(* by looking at a smallest set it would not hold of.                      *)
(***************************************************************************)
EXTENDS Integers, FiniteSets, Functions, FiniteSetTheorems, WellFoundedInduction, TLAPS

LEMMA FiniteImage ==
  ASSUME NEW S, IsFiniteSet(S), NEW g
  PROVE  IsFiniteSet({g[x] : x \in S})
<1> DEFINE T == {g[x] : x \in S}
           h == [x \in S |-> g[x]]
<1>1. h \in Surjection(S, T)
  BY DEF Surjection
<1> QED
  BY <1>1, FS_Surjection

\* Of the finite sets in T one has no smaller one in T: not one with an element
\* less.
LEMMA LeastCardinality ==
  ASSUME NEW T, T # {}, \A S \in T : IsFiniteSet(S)
  PROVE  \E S \in T : \A R \in T : Cardinality(S) <= Cardinality(R)
<1> DEFINE Sizes == {Cardinality(S) : S \in T}
<1>1. Sizes \subseteq Nat /\ Sizes # {}
  BY FS_CardinalityType
<1>2. IsWellFoundedOn(OpToRel(<, Nat), Nat)
  BY NatLessThanWellFounded
<1> HIDE DEF Sizes
<1>3. PICK n \in Sizes : \A m \in Sizes : ~ (<<m, n>> \in OpToRel(<, Nat))
  BY <1>1, <1>2, WFMin, Zenon
<1>4. ASSUME NEW m \in Sizes PROVE n <= m
  <2>1. m \in Nat /\ n \in Nat /\ ~ (m < n)
    BY <1>1, <1>3 DEF OpToRel
  <2> QED BY <2>1
<1> QED
  BY <1>3, <1>4 DEF Sizes

LEMMA OneLess ==
  ASSUME NEW S, IsFiniteSet(S), NEW x \in S
  PROVE  /\ IsFiniteSet(S \ {x})
         /\ Cardinality(S \ {x}) < Cardinality(S)
         /\ Cardinality(S \ {x}) = Cardinality(S) - 1
BY FS_RemoveElement, FS_CardinalityType

\* Of the subsets of a finite set in T, one has no subset in T with one element
\* less.
LEMMA Minimal ==
  ASSUME NEW S, IsFiniteSet(S), NEW T, T \subseteq SUBSET S, T # {}
  PROVE  \E R \in T : IsFiniteSet(R) /\ \A y \in R : R \ {y} \notin T
<1>1. \A R \in T : IsFiniteSet(R)
  BY FS_Subset
<1>2. PICK R \in T : \A Q \in T : Cardinality(R) <= Cardinality(Q)
  BY <1>1, LeastCardinality
<1>3. ASSUME NEW y \in R, R \ {y} \in T PROVE FALSE
  <2>1. /\ Cardinality(R \ {y}) < Cardinality(R) /\ Cardinality(R) \in Nat
        /\ Cardinality(R \ {y}) \in Nat
    BY <1>1, OneLess, FS_CardinalityType
  <2> QED BY <1>2, <1>3, <2>1
<1> QED
  BY <1>1, <1>3

(***************************************************************************)
(* The fold, as a function of the subsets of S.                            *)
(***************************************************************************)

first(s) == CHOOSE x \in s : TRUE

\* h is the function that the fold of f over S defines, as far as the subsets in D.
IsSum(h, f, D) ==
  h = [s \in D |-> IF s = {} THEN 0 ELSE f[first(s)] + h[s \ {first(s)}]]

LEMMA SumIs ==
  ASSUME NEW f, NEW S, \E h : IsSum(h, f, SUBSET S)
  PROVE  \E h : IsSum(h, f, SUBSET S) /\ SumFunctionOnSet(f, S) = h[S]
<1> DEFINE h == CHOOSE g : IsSum(g, f, SUBSET S)
<1>1. IsSum(h, f, SUBSET S)
  OBVIOUS
<1>2. SumFunctionOnSet(f, S) = h[S]
  BY DEF SumFunctionOnSet, FoldFunctionOnSet, MapThenFoldSet, IsSum, first
<1> QED
  BY <1>1, <1>2

\* The subsets of S of at most n elements.
UpTo(S, n) == {s \in SUBSET S : Cardinality(s) <= n}

LEMMA UpToFinite ==
  ASSUME NEW S, IsFiniteSet(S), NEW n \in Nat, NEW s \in UpTo(S, n), s # {}
  PROVE  /\ first(s) \in s /\ IsFiniteSet(s) /\ Cardinality(s) \in Nat
         /\ s \ {first(s)} \in UpTo(S, n)
         /\ n # 0 /\ s \ {first(s)} \in UpTo(S, n - 1)
<1>1. first(s) \in s
  BY DEF first
<1>2. IsFiniteSet(s)
  BY FS_Subset DEF UpTo
<1>3. /\ Cardinality(s) \in Nat /\ Cardinality(s \ {first(s)}) \in Nat
      /\ Cardinality(s \ {first(s)}) = Cardinality(s) - 1
  BY <1>1, <1>2, OneLess, FS_CardinalityType
<1> QED
  BY <1>1, <1>2, <1>3 DEF UpTo

LEMMA SumExistsUpTo ==
  ASSUME NEW f, NEW S, IsFiniteSet(S), NEW n \in Nat, n # 0,
         NEW h, IsSum(h, f, UpTo(S, n - 1))
  PROVE  \E g : IsSum(g, f, UpTo(S, n))
<1> DEFINE g == [s \in UpTo(S, n) |->
                   IF s = {} THEN 0 ELSE f[first(s)] + h[s \ {first(s)}]]
<1>1. \A s \in UpTo(S, n - 1) : h[s] = IF s = {} THEN 0 ELSE f[first(s)] + h[s \ {first(s)}]
  BY DEF IsSum
<1>2. \A s \in UpTo(S, n - 1) : s \in UpTo(S, n)
  <2>1. ASSUME NEW s \in UpTo(S, n - 1) PROVE s \in UpTo(S, n)
    <3>1. s \in SUBSET S /\ IsFiniteSet(s) /\ Cardinality(s) <= n - 1
      BY FS_Subset DEF UpTo
    <3>2. Cardinality(s) \in Nat
      BY <3>1, FS_CardinalityType
    <3> QED BY <3>1, <3>2 DEF UpTo
  <2> QED BY <2>1
<1>3. \A s \in UpTo(S, n - 1) : g[s] = h[s]
  BY <1>1, <1>2
<1>4. ASSUME NEW s \in UpTo(S, n)
      PROVE  g[s] = IF s = {} THEN 0 ELSE f[first(s)] + g[s \ {first(s)}]
  <2>1. s # {} => g[s \ {first(s)}] = h[s \ {first(s)}]
    BY <1>3, UpToFinite
  <2> QED BY <2>1
<1>5. DOMAIN g = UpTo(S, n)
  OBVIOUS
<1>6. g = [s \in UpTo(S, n) |-> g[s]]
  OBVIOUS
<1> HIDE DEF g
<1> QED
  BY <1>4, <1>6 DEF IsSum

LEMMA SumExists ==
  ASSUME NEW f, NEW S, IsFiniteSet(S)
  PROVE  \E h : IsSum(h, f, SUBSET S)
<1> DEFINE T == {n \in Nat : ~ \E h : IsSum(h, f, UpTo(S, n))}
<1>1. T = {}
  <2> SUFFICES ASSUME T # {} PROVE FALSE
    OBVIOUS
  <2>1. IsWellFoundedOn(OpToRel(<, Nat), Nat) /\ T \subseteq Nat
    BY NatLessThanWellFounded
  <2>2. PICK n \in T : \A m \in T : ~ (<<m, n>> \in OpToRel(<, Nat))
    <3> HIDE DEF T
    <3> QED BY <2>1, WFMin, Zenon
  <2>3. n \in Nat /\ ~ \E h : IsSum(h, f, UpTo(S, n))
    BY <2>2
  <2>4. n # 0
    <3>1. SUFFICES ASSUME n = 0 PROVE FALSE
      OBVIOUS
    <3> DEFINE h == [s \in UpTo(S, 0) |-> 0]
    <3>2. \A s \in UpTo(S, 0) : s = {}
      BY UpToFinite
    <3>3. IsSum(h, f, UpTo(S, 0))
      BY <3>2 DEF IsSum
    <3> QED BY <2>3, <3>1, <3>3
  <2>5. n - 1 \in Nat /\ <<n - 1, n>> \in OpToRel(<, Nat)
    BY <2>3, <2>4 DEF OpToRel
  <2>6. PICK h : IsSum(h, f, UpTo(S, n - 1))
    BY <2>2, <2>5
  <2> QED BY <2>3, <2>4, <2>6, SumExistsUpTo
<1>2. PICK h : IsSum(h, f, UpTo(S, Cardinality(S)))
  BY <1>1, FS_CardinalityType
<1>3. UpTo(S, Cardinality(S)) = SUBSET S
  BY FS_Subset DEF UpTo
<1> QED
  BY <1>2, <1>3

\* Two folds agree on the sets on which what they sum agrees.
LEMMA SumsAgree ==
  ASSUME NEW f, NEW g, NEW h, NEW i, NEW C, NEW D, IsSum(h, f, SUBSET C), IsSum(i, g, SUBSET D),
         NEW S, S \subseteq C, S \subseteq D, IsFiniteSet(S), \A x \in S : f[x] = g[x]
  PROVE  h[S] = i[S]
<1> DEFINE T == {R \in SUBSET S : h[R] # i[R]}
<1>1. SUFFICES ASSUME T # {} PROVE FALSE
  OBVIOUS
<1>3. PICK R \in T : IsFiniteSet(R) /\ \A y \in R : R \ {y} \notin T
  <2>1. T \subseteq SUBSET S
    OBVIOUS
  <2> HIDE DEF T
  <2> QED BY <1>1, <2>1, Minimal
<1>4. R \in SUBSET S /\ h[R] # i[R] /\ IsFiniteSet(R)
  BY <1>3
<1>5. /\ h[R] = IF R = {} THEN 0 ELSE f[first(R)] + h[R \ {first(R)}]
      /\ i[R] = IF R = {} THEN 0 ELSE g[first(R)] + i[R \ {first(R)}]
  <2>1. R \in SUBSET C /\ R \in SUBSET D
    BY <1>4
  <2> QED BY <2>1 DEF IsSum
<1>6. R # {}
  BY <1>4, <1>5
<1>7. first(R) \in R
  BY <1>6 DEF first
<1>8. R \ {first(R)} \notin T
  BY <1>3, <1>7
<1>9. h[R \ {first(R)}] = i[R \ {first(R)}] /\ f[first(R)] = g[first(R)]
  BY <1>4, <1>7, <1>8
<1> QED
  BY <1>4, <1>5, <1>9

(***************************************************************************)
(* What a reader needs to know of sums.                                    *)
(***************************************************************************)

LEMMA SumEmpty ==
  ASSUME NEW f
  PROVE  SumFunctionOnSet(f, {}) = 0
<1>1. PICK h : IsSum(h, f, SUBSET {}) /\ SumFunctionOnSet(f, {}) = h[{}]
  BY SumExists, SumIs, FS_EmptySet
<1> QED
  BY <1>1 DEF IsSum

\* The sum depends on f on S alone.
LEMMA SumAgrees ==
  ASSUME NEW f, NEW g, NEW S, IsFiniteSet(S), \A x \in S : f[x] = g[x]
  PROVE  SumFunctionOnSet(f, S) = SumFunctionOnSet(g, S)
<1>1. PICK h : IsSum(h, f, SUBSET S) /\ SumFunctionOnSet(f, S) = h[S]
  BY SumExists, SumIs
<1>2. PICK i : IsSum(i, g, SUBSET S) /\ SumFunctionOnSet(g, S) = i[S]
  BY SumExists, SumIs
<1>3. S \subseteq S
  OBVIOUS
<1>4. h[S] = i[S]
  BY <1>1, <1>2, <1>3, SumsAgree
<1> QED
  BY <1>1, <1>2, <1>4

\* One step of the fold.
LEMMA SumFirst ==
  ASSUME NEW f, NEW S, IsFiniteSet(S), S # {}
  PROVE  SumFunctionOnSet(f, S) = f[first(S)] + SumFunctionOnSet(f, S \ {first(S)})
<1>1. PICK h : IsSum(h, f, SUBSET S) /\ SumFunctionOnSet(f, S) = h[S]
  BY SumExists, SumIs
<1> DEFINE R == S \ {first(S)}
<1>2. IsFiniteSet(R) /\ R \in SUBSET S
  BY FS_Subset
<1>3. PICK i : IsSum(i, f, SUBSET R) /\ SumFunctionOnSet(f, R) = i[R]
  BY <1>2, SumExists, SumIs
<1>4. h[R] = i[R]
  <2>1. R \subseteq S /\ R \subseteq R /\ \A x \in R : f[x] = f[x]
    OBVIOUS
  <2> HIDE DEF R
  <2> QED BY <1>1, <1>2, <1>3, <2>1, SumsAgree
<1>5. h[S] = f[first(S)] + h[R]
  BY <1>1 DEF IsSum
<1> QED
  BY <1>1, <1>3, <1>4, <1>5

\* The sum of integers is an integer.
LEMMA SumInt ==
  ASSUME NEW f, NEW S, IsFiniteSet(S), \A x \in S : f[x] \in Int
  PROVE  SumFunctionOnSet(f, S) \in Int
<1> DEFINE T == {R \in SUBSET S : SumFunctionOnSet(f, R) \notin Int}
<1>1. T \subseteq SUBSET S
  OBVIOUS
<1>2. SUFFICES ASSUME T # {} PROVE FALSE
  OBVIOUS
<1>3. PICK R \in T : IsFiniteSet(R) /\ \A y \in R : R \ {y} \notin T
  <2> HIDE DEF T
  <2> QED BY <1>1, <1>2, Minimal
<1>4. R \in SUBSET S /\ SumFunctionOnSet(f, R) \notin Int
  BY <1>3
<1>5. R # {}
  BY <1>4, SumEmpty
<1>6. first(R) \in R
  BY <1>5 DEF first
<1>7. SumFunctionOnSet(f, R \ {first(R)}) \in Int
  BY <1>3, <1>4, <1>6
<1>8. SumFunctionOnSet(f, R) = f[first(R)] + SumFunctionOnSet(f, R \ {first(R)})
  BY <1>3, <1>5, SumFirst
<1> QED
  BY <1>4, <1>6, <1>7, <1>8

\* Any element may be taken out first.
LEMMA SumTake ==
  ASSUME NEW f, NEW S, IsFiniteSet(S), \A x \in S : f[x] \in Int, NEW y \in S
  PROVE  SumFunctionOnSet(f, S) = f[y] + SumFunctionOnSet(f, S \ {y})
<1> DEFINE Takes(R) == \A z \in R :
             SumFunctionOnSet(f, R) = f[z] + SumFunctionOnSet(f, R \ {z})
           T == {R \in SUBSET S : ~ Takes(R)}
<1>1. T \subseteq SUBSET S
  OBVIOUS
<1>2. SUFFICES ASSUME T # {} PROVE FALSE
  OBVIOUS
<1>3. PICK R \in T : IsFiniteSet(R) /\ \A z \in R : R \ {z} \notin T
  <2> HIDE DEF T
  <2> QED BY <1>1, <1>2, Minimal
<1>4. R \in SUBSET S /\ ~ Takes(R)
  BY <1>3
<1>5. PICK z \in R : SumFunctionOnSet(f, R) # f[z] + SumFunctionOnSet(f, R \ {z})
  BY <1>4
<1>6. PICK x : x = first(R)
  OBVIOUS
<1>7. x \in R /\ SumFunctionOnSet(f, R) = f[x] + SumFunctionOnSet(f, R \ {x})
  BY <1>3, <1>5, <1>6, SumFirst DEF first
<1>8. x # z
  BY <1>5, <1>7
<1>9. Takes(R \ {x}) /\ Takes(R \ {z})
  BY <1>3, <1>4, <1>5, <1>7
<1>10. /\ SumFunctionOnSet(f, R \ {x}) = f[z] + SumFunctionOnSet(f, (R \ {x}) \ {z})
       /\ SumFunctionOnSet(f, R \ {z}) = f[x] + SumFunctionOnSet(f, (R \ {z}) \ {x})
  BY <1>7, <1>8, <1>9
<1>11. (R \ {x}) \ {z} = (R \ {z}) \ {x}
  OBVIOUS
<1>12. SumFunctionOnSet(f, (R \ {x}) \ {z}) \in Int
  <2>1. IsFiniteSet((R \ {x}) \ {z}) /\ \A w \in (R \ {x}) \ {z} : f[w] \in Int
    BY <1>3, <1>4, FS_Subset
  <2> QED BY <2>1, SumInt
<1>13. f[x] \in Int /\ f[z] \in Int
  BY <1>4, <1>7
<1>14. PICK r \in Int : r = SumFunctionOnSet(f, (R \ {x}) \ {z})
  BY <1>12
<1>15. SumFunctionOnSet(f, R) = f[x] + (f[z] + r) /\ SumFunctionOnSet(f, R \ {z}) = f[x] + r
  BY <1>7, <1>10, <1>11, <1>14
<1> QED
  BY <1>5, <1>13, <1>15

LEMMA SumPut ==
  ASSUME NEW f, NEW S, IsFiniteSet(S), NEW y, y \notin S, \A x \in S \cup {y} : f[x] \in Int
  PROVE  SumFunctionOnSet(f, S \cup {y}) = f[y] + SumFunctionOnSet(f, S)
<1>1. IsFiniteSet(S \cup {y}) /\ y \in S \cup {y} /\ (S \cup {y}) \ {y} = S
  BY FS_AddElement
<1> QED
  BY <1>1, SumTake

\* The sum over two sets that have nothing in common.
LEMMA SumUnion ==
  ASSUME NEW f, NEW R, NEW S, IsFiniteSet(R), IsFiniteSet(S), R \cap S = {},
         \A x \in R \cup S : f[x] \in Int
  PROVE  SumFunctionOnSet(f, R \cup S) = SumFunctionOnSet(f, R) + SumFunctionOnSet(f, S)
<1> DEFINE T == {Q \in SUBSET S : SumFunctionOnSet(f, R \cup Q)
                                    # SumFunctionOnSet(f, R) + SumFunctionOnSet(f, Q)}
<1>1. T \subseteq SUBSET S
  OBVIOUS
<1>2. SUFFICES ASSUME T # {} PROVE FALSE
  OBVIOUS
<1>3. PICK Q \in T : IsFiniteSet(Q) /\ \A y \in Q : Q \ {y} \notin T
  <2> HIDE DEF T
  <2> QED BY <1>1, <1>2, Minimal
<1>4. /\ Q \in SUBSET S
      /\ SumFunctionOnSet(f, R \cup Q) # SumFunctionOnSet(f, R) + SumFunctionOnSet(f, Q)
  BY <1>3
<1>5. SumFunctionOnSet(f, R) \in Int
  BY SumInt
<1>6. Q # {}
  <2>1. SUFFICES ASSUME Q = {} PROVE FALSE
    OBVIOUS
  <2>2. R \cup Q = R /\ SumFunctionOnSet(f, Q) = 0
    BY <2>1, SumEmpty
  <2>3. SumFunctionOnSet(f, R \cup Q) = SumFunctionOnSet(f, R)
    BY <2>2
  <2>4. PICK r \in Int : r = SumFunctionOnSet(f, R)
    BY <1>5
  <2> QED BY <1>4, <2>2, <2>3, <2>4
<1>7. PICK y : y \in Q
  BY <1>6
<1>8. SumFunctionOnSet(f, R \cup (Q \ {y}))
        = SumFunctionOnSet(f, R) + SumFunctionOnSet(f, Q \ {y})
  BY <1>3, <1>4, <1>7
<1>9. /\ IsFiniteSet(R \cup Q) /\ IsFiniteSet(Q \ {y}) /\ y \in R \cup Q
      /\ (R \cup Q) \ {y} = R \cup (Q \ {y})
      /\ \A x \in R \cup Q : f[x] \in Int
  BY <1>3, <1>4, <1>7, FS_Union, FS_Subset
<1>10. SumFunctionOnSet(f, R \cup Q) = f[y] + SumFunctionOnSet(f, R \cup (Q \ {y}))
  BY <1>9, SumTake
<1>11. SumFunctionOnSet(f, Q) = f[y] + SumFunctionOnSet(f, Q \ {y})
  BY <1>3, <1>7, <1>9, SumTake
<1>12. SumFunctionOnSet(f, Q \ {y}) \in Int /\ f[y] \in Int
  BY <1>7, <1>9, SumInt
<1> QED
  BY <1>4, <1>5, <1>8, <1>10, <1>11, <1>12

\* Zeros add up to zero.
LEMMA SumZero ==
  ASSUME NEW f, NEW S, IsFiniteSet(S), \A x \in S : f[x] = 0
  PROVE  SumFunctionOnSet(f, S) = 0
<1> DEFINE T == {R \in SUBSET S : SumFunctionOnSet(f, R) # 0}
<1>1. T \subseteq SUBSET S
  OBVIOUS
<1>2. SUFFICES ASSUME T # {} PROVE FALSE
  OBVIOUS
<1>3. PICK R \in T : IsFiniteSet(R) /\ \A y \in R : R \ {y} \notin T
  <2> HIDE DEF T
  <2> QED BY <1>1, <1>2, Minimal
<1>4. R \in SUBSET S /\ SumFunctionOnSet(f, R) # 0
  BY <1>3
<1>5. R # {}
  BY <1>4, SumEmpty
<1>6. first(R) \in R
  BY <1>5 DEF first
<1>7. SumFunctionOnSet(f, R \ {first(R)}) = 0 /\ f[first(R)] = 0
  BY <1>3, <1>4, <1>6
<1>8. SumFunctionOnSet(f, R) = f[first(R)] + SumFunctionOnSet(f, R \ {first(R)})
  BY <1>3, <1>5, SumFirst
<1> QED
  BY <1>4, <1>7, <1>8

\* A sum changes its sign with its terms.
LEMMA SumNegates ==
  ASSUME NEW f, NEW g, NEW S, IsFiniteSet(S), \A x \in S : f[x] \in Int /\ g[x] = - f[x]
  PROVE  SumFunctionOnSet(g, S) = - SumFunctionOnSet(f, S)
<1> DEFINE T == {R \in SUBSET S : SumFunctionOnSet(g, R) # - SumFunctionOnSet(f, R)}
<1>1. T \subseteq SUBSET S
  OBVIOUS
<1>2. SUFFICES ASSUME T # {} PROVE FALSE
  OBVIOUS
<1>3. PICK R \in T : IsFiniteSet(R) /\ \A y \in R : R \ {y} \notin T
  <2> HIDE DEF T
  <2> QED BY <1>1, <1>2, Minimal
<1>4. R \in SUBSET S /\ SumFunctionOnSet(g, R) # - SumFunctionOnSet(f, R)
  BY <1>3
<1>5. R # {}
  BY <1>4, SumEmpty
<1>6. PICK y : y = first(R) /\ y \in R
  BY <1>5 DEF first
<1>7. SumFunctionOnSet(g, R \ {y}) = - SumFunctionOnSet(f, R \ {y})
  BY <1>3, <1>4, <1>6
<1>8. /\ SumFunctionOnSet(g, R) = g[y] + SumFunctionOnSet(g, R \ {y})
      /\ SumFunctionOnSet(f, R) = f[y] + SumFunctionOnSet(f, R \ {y})
  BY <1>3, <1>5, <1>6, SumFirst
<1>9. IsFiniteSet(R \ {y}) /\ \A x \in R \ {y} : f[x] \in Int
  BY <1>3, <1>4, FS_Subset
<1>10. SumFunctionOnSet(f, R \ {y}) \in Int /\ f[y] \in Int /\ g[y] = - f[y]
  BY <1>4, <1>6, <1>9, SumInt
<1> QED
  BY <1>4, <1>7, <1>8, <1>10

\* A sum over the image of I under a g that names every element once.
LEMMA SumImage ==
  ASSUME NEW f, NEW g, NEW k, NEW I, IsFiniteSet(I),
         \A i, j \in I : g[i] = g[j] => i = j,
         \A i \in I : f[g[i]] \in Int /\ k[i] = f[g[i]]
  PROVE  SumFunctionOnSet(f, {g[i] : i \in I}) = SumFunctionOnSet(k, I)
<1> DEFINE Image(J) == {g[i] : i \in J}
           T == {J \in SUBSET I : SumFunctionOnSet(f, Image(J)) # SumFunctionOnSet(k, J)}
<1>1. T \subseteq SUBSET I
  OBVIOUS
<1>2. SUFFICES ASSUME T # {} PROVE FALSE
  OBVIOUS
<1>3. PICK J \in T : IsFiniteSet(J) /\ \A i \in J : J \ {i} \notin T
  <2> HIDE DEF T
  <2> QED BY <1>1, <1>2, Minimal
<1>4. J \in SUBSET I /\ SumFunctionOnSet(f, Image(J)) # SumFunctionOnSet(k, J)
  BY <1>3
<1>5. J # {}
  <2>1. SUFFICES ASSUME J = {} PROVE FALSE
    OBVIOUS
  <2>2. Image(J) = {}
    BY <2>1
  <2>3. SumFunctionOnSet(f, Image(J)) = 0
    BY <2>2, SumEmpty
  <2> QED BY <1>4, <2>1, <2>3, SumEmpty
<1>6. PICK i : i = first(J) /\ i \in J
  BY <1>5 DEF first
<1>7. SumFunctionOnSet(f, Image(J \ {i})) = SumFunctionOnSet(k, J \ {i})
  BY <1>3, <1>4, <1>6
<1>8. SumFunctionOnSet(k, J) = k[i] + SumFunctionOnSet(k, J \ {i})
  BY <1>3, <1>5, <1>6, SumFirst
<1>9. Image(J) \ {g[i]} = Image(J \ {i}) /\ g[i] \in Image(J)
  BY <1>4, <1>6
<1>10. IsFiniteSet(Image(J))
  BY <1>3, FiniteImage
<1>11. SumFunctionOnSet(f, Image(J)) = f[g[i]] + SumFunctionOnSet(f, Image(J) \ {g[i]})
  <2>1. \A x \in Image(J) : f[x] \in Int
    BY <1>4
  <2> HIDE DEF Image
  <2> QED BY <1>9, <1>10, <2>1, SumTake
<1>12. SumFunctionOnSet(f, Image(J) \ {g[i]}) = SumFunctionOnSet(f, Image(J \ {i}))
  BY <1>9
<1> QED
  BY <1>4, <1>6, <1>7, <1>8, <1>11, <1>12

\* A sum may be taken block by block.
LEMMA SumBlocks ==
  ASSUME NEW f, NEW E, IsFiniteSet(E), \A e \in E : f[e] \in Int,
         NEW A, IsFiniteSet(A), NEW b, \A e \in E : b[e] \in A
  PROVE  SumFunctionOnSet([a \in A |-> SumFunctionOnSet(f, {e \in E : b[e] = a})], A)
           = SumFunctionOnSet(f, E)
<1> DEFINE Block(D, a) == {e \in D : b[e] = a}
           G(D) == [a \in A |-> SumFunctionOnSet(f, Block(D, a))]
           T == {D \in SUBSET E : SumFunctionOnSet(G(D), A) # SumFunctionOnSet(f, D)}
<1>1. T \subseteq SUBSET E
  OBVIOUS
<1>2. SUFFICES ASSUME T # {} PROVE FALSE
  OBVIOUS
<1>3. PICK D \in T : IsFiniteSet(D) /\ \A y \in D : D \ {y} \notin T
  <2> HIDE DEF T
  <2> QED BY <1>1, <1>2, Minimal
<1>4. D \in SUBSET E /\ SumFunctionOnSet(G(D), A) # SumFunctionOnSet(f, D)
  BY <1>3
<1>5. D # {}
  <2>1. SUFFICES ASSUME D = {} PROVE FALSE
    OBVIOUS
  <2>2. ASSUME NEW a \in A PROVE G(D)[a] = 0
    <3>1. Block(D, a) = {}
      BY <2>1
    <3>2. SumFunctionOnSet(f, Block(D, a)) = 0
      BY <3>1, SumEmpty
    <3> QED BY <3>2
  <2>3. SumFunctionOnSet(G(D), A) = 0
    <3> HIDE DEF G
    <3> QED BY <2>2, SumZero
  <2> QED BY <1>4, <2>1, <2>3, SumEmpty
<1>6. PICK y : y \in D
  BY <1>5
<1>7. PICK C, p, g, h : C = D \ {y} /\ p = b[y] /\ g = G(D) /\ h = G(C)
  OBVIOUS
<1>8. SumFunctionOnSet(h, A) = SumFunctionOnSet(f, C)
  BY <1>3, <1>4, <1>6, <1>7
<1>9. p \in A /\ IsFiniteSet(C) /\ f[y] \in Int /\ C \in SUBSET E
  BY <1>3, <1>4, <1>6, <1>7, FS_Subset
<1>10. ASSUME NEW a \in A
       PROVE  /\ g[a] = SumFunctionOnSet(f, Block(D, a)) /\ g[a] \in Int
              /\ h[a] = SumFunctionOnSet(f, Block(C, a)) /\ h[a] \in Int
  <2>1. /\ IsFiniteSet(Block(D, a)) /\ \A e \in Block(D, a) : f[e] \in Int
        /\ IsFiniteSet(Block(C, a)) /\ \A e \in Block(C, a) : f[e] \in Int
    BY <1>3, <1>4, <1>9, FS_Subset
  <2>2. /\ g[a] = SumFunctionOnSet(f, Block(D, a))
        /\ h[a] = SumFunctionOnSet(f, Block(C, a))
    BY <1>7
  <2> HIDE DEF Block
  <2> QED BY <2>1, <2>2, SumInt
<1>11. ASSUME NEW a \in A \ {p} PROVE g[a] = h[a]
  <2>1. Block(D, a) = Block(C, a)
    BY <1>7
  <2> HIDE DEF Block
  <2> QED BY <1>10, <2>1
<1>12. g[p] = f[y] + h[p]
  <2>1. /\ Block(D, p) \ {y} = Block(C, p) /\ y \in Block(D, p)
        /\ IsFiniteSet(Block(D, p)) /\ \A e \in Block(D, p) : f[e] \in Int
    BY <1>3, <1>4, <1>6, <1>7, FS_Subset
  <2> HIDE DEF Block
  <2>2. SumFunctionOnSet(f, Block(D, p)) = f[y] + SumFunctionOnSet(f, Block(D, p) \ {y})
    BY <2>1, SumTake
  <2> QED BY <1>9, <1>10, <2>1, <2>2
<1> HIDE DEF G, Block
<1>13. /\ SumFunctionOnSet(g, A) = g[p] + SumFunctionOnSet(g, A \ {p})
       /\ SumFunctionOnSet(h, A) = h[p] + SumFunctionOnSet(h, A \ {p})
  BY <1>9, <1>10, SumTake
<1>14. IsFiniteSet(A \ {p}) /\ \A a \in A \ {p} : h[a] \in Int
  BY <1>10, FS_Subset
<1>15. SumFunctionOnSet(g, A \ {p}) = SumFunctionOnSet(h, A \ {p})
  BY <1>11, <1>14, SumAgrees
<1>16. SumFunctionOnSet(h, A \ {p}) \in Int /\ h[p] \in Int
  BY <1>9, <1>10, <1>14, SumInt
<1>17. SumFunctionOnSet(f, D) = f[y] + SumFunctionOnSet(f, C)
  BY <1>3, <1>4, <1>6, <1>7, SumTake
<1> QED
  BY <1>4, <1>7, <1>8, <1>9, <1>12, <1>13, <1>15, <1>16, <1>17

\* Sums add up term by term, and by a factor.
LEMMA SumLinear ==
  ASSUME NEW f, NEW g, NEW h, NEW a \in Int, NEW b \in Int, NEW S, IsFiniteSet(S),
         \A x \in S : f[x] \in Int /\ g[x] \in Int /\ h[x] = a * f[x] + b * g[x]
  PROVE  SumFunctionOnSet(h, S) = a * SumFunctionOnSet(f, S) + b * SumFunctionOnSet(g, S)
<1> DEFINE Adds(R) == SumFunctionOnSet(h, R)
                        = a * SumFunctionOnSet(f, R) + b * SumFunctionOnSet(g, R)
           T == {R \in SUBSET S : ~ Adds(R)}
<1>1. T \subseteq SUBSET S
  OBVIOUS
<1>2. SUFFICES ASSUME T # {} PROVE FALSE
  OBVIOUS
<1>3. PICK R \in T : IsFiniteSet(R) /\ \A y \in R : R \ {y} \notin T
  <2> HIDE DEF T
  <2> QED BY <1>1, <1>2, Minimal
<1>4. R \in SUBSET S /\ ~ Adds(R)
  BY <1>3
<1>5. R # {}
  <2>1. Adds({})
    <3>1. 0 = a * 0 + b * 0
      OBVIOUS
    <3> QED BY <3>1, SumEmpty
  <2> QED BY <1>4, <2>1
<1>6. PICK y : y = first(R) /\ y \in R
  BY <1>5 DEF first
<1>7. Adds(R \ {y})
  BY <1>3, <1>4, <1>6
<1>8. /\ SumFunctionOnSet(h, R) = h[y] + SumFunctionOnSet(h, R \ {y})
      /\ SumFunctionOnSet(g, R) = g[y] + SumFunctionOnSet(g, R \ {y})
      /\ SumFunctionOnSet(f, R) = f[y] + SumFunctionOnSet(f, R \ {y})
  BY <1>3, <1>5, <1>6, SumFirst
<1>9. IsFiniteSet(R \ {y}) /\ \A x \in R \ {y} : f[x] \in Int /\ g[x] \in Int
  BY <1>3, <1>4, FS_Subset
<1>10. /\ SumFunctionOnSet(f, R \ {y}) \in Int /\ SumFunctionOnSet(g, R \ {y}) \in Int
       /\ f[y] \in Int /\ g[y] \in Int /\ h[y] = a * f[y] + b * g[y]
  BY <1>4, <1>6, <1>9, SumInt
<1>11. PICK F \in Int, G \in Int :
         F = SumFunctionOnSet(f, R \ {y}) /\ G = SumFunctionOnSet(g, R \ {y})
  BY <1>10
<1>12. PICK fy \in Int, gy \in Int : fy = f[y] /\ gy = g[y]
  BY <1>10
<1>13. /\ SumFunctionOnSet(h, R) = (a * fy + b * gy) + (a * F + b * G)
       /\ SumFunctionOnSet(f, R) = fy + F /\ SumFunctionOnSet(g, R) = gy + G
  BY <1>7, <1>8, <1>10, <1>11, <1>12
<1>14. (a * fy + b * gy) + (a * F + b * G) = a * (fy + F) + b * (gy + G)
  OBVIOUS
<1> QED
  BY <1>4, <1>13, <1>14

\* What is not negative does not add up to less than one of its terms.
LEMMA SumNat ==
  ASSUME NEW f, NEW S, IsFiniteSet(S), \A x \in S : f[x] \in Nat
  PROVE  /\ SumFunctionOnSet(f, S) \in Nat
         /\ \A y \in S : f[y] <= SumFunctionOnSet(f, S)
<1> DEFINE T == {R \in SUBSET S : SumFunctionOnSet(f, R) \notin Nat}
<1>1. T \subseteq SUBSET S
  OBVIOUS
<1>2. T = {}
  <2>1. SUFFICES ASSUME T # {} PROVE FALSE
    OBVIOUS
  <2>2. PICK R \in T : IsFiniteSet(R) /\ \A y \in R : R \ {y} \notin T
    <3> HIDE DEF T
    <3> QED BY <1>1, <2>1, Minimal
  <2>3. R \in SUBSET S /\ SumFunctionOnSet(f, R) \notin Nat
    BY <2>2
  <2>4. R # {}
    BY <2>3, SumEmpty
  <2>5. PICK y : y = first(R) /\ y \in R
    BY <2>4 DEF first
  <2>6. SumFunctionOnSet(f, R \ {y}) \in Nat /\ f[y] \in Nat
    BY <2>2, <2>3, <2>5
  <2>7. SumFunctionOnSet(f, R) = f[y] + SumFunctionOnSet(f, R \ {y})
    BY <2>2, <2>4, <2>5, SumFirst
  <2> QED BY <2>3, <2>6, <2>7
<1>3. \A R \in SUBSET S : SumFunctionOnSet(f, R) \in Nat
  BY <1>2
<1>4. ASSUME NEW y \in S PROVE f[y] <= SumFunctionOnSet(f, S)
  <2>1. SumFunctionOnSet(f, S) = f[y] + SumFunctionOnSet(f, S \ {y})
    BY SumTake
  <2>2. S \ {y} \in SUBSET S
    OBVIOUS
  <2>3. SumFunctionOnSet(f, S \ {y}) \in Nat /\ f[y] \in Nat
    BY <1>3, <2>2
  <2> QED BY <2>1, <2>3
<1> QED
  BY <1>3, <1>4

\* Counting by a sum of ones.
LEMMA SumCounts ==
  ASSUME NEW S, IsFiniteSet(S), NEW f, \A x \in S : f[x] = 1
  PROVE  SumFunctionOnSet(f, S) = Cardinality(S)
<1> DEFINE T == {R \in SUBSET S : SumFunctionOnSet(f, R) # Cardinality(R)}
<1>1. T \subseteq SUBSET S
  OBVIOUS
<1>2. SUFFICES ASSUME T # {} PROVE FALSE
  OBVIOUS
<1>3. PICK R \in T : IsFiniteSet(R) /\ \A y \in R : R \ {y} \notin T
  <2> HIDE DEF T
  <2> QED BY <1>1, <1>2, Minimal
<1>4. R \in SUBSET S /\ SumFunctionOnSet(f, R) # Cardinality(R)
  BY <1>3
<1>5. R # {}
  BY <1>4, SumEmpty, FS_EmptySet
<1>6. PICK y : y = first(R) /\ y \in R
  BY <1>5 DEF first
<1>7. SumFunctionOnSet(f, R \ {y}) = Cardinality(R \ {y}) /\ f[y] = 1
  BY <1>3, <1>4, <1>6
<1>8. SumFunctionOnSet(f, R) = f[y] + SumFunctionOnSet(f, R \ {y})
  BY <1>3, <1>5, <1>6, SumFirst
<1>9. Cardinality(R \ {y}) = Cardinality(R) - 1 /\ Cardinality(R) \in Nat
  BY <1>3, <1>6, OneLess, FS_CardinalityType
<1> QED
  BY <1>4, <1>7, <1>8, <1>9

LEMMA SumCountsSome ==
  ASSUME NEW S, IsFiniteSet(S), NEW P, P \subseteq S, NEW f,
         \A x \in S : f[x] = IF x \in P THEN 1 ELSE 0
  PROVE  SumFunctionOnSet(f, S) = Cardinality(P)
<1>1. IsFiniteSet(P) /\ IsFiniteSet(S \ P) /\ P \cap (S \ P) = {} /\ P \cup (S \ P) = S
  BY FS_Subset
<1>2. SumFunctionOnSet(f, S) = SumFunctionOnSet(f, P) + SumFunctionOnSet(f, S \ P)
  <2>1. \A x \in P \cup (S \ P) : f[x] \in Int
    OBVIOUS
  <2>2. SumFunctionOnSet(f, P \cup (S \ P)) = SumFunctionOnSet(f, P) + SumFunctionOnSet(f, S \ P)
    BY <1>1, <2>1, SumUnion
  <2> QED BY <1>1, <2>2
<1>3. SumFunctionOnSet(f, P) = Cardinality(P)
  BY <1>1, SumCounts
<1>4. SumFunctionOnSet(f, S \ P) = 0
  BY <1>1, SumZero
<1>5. Cardinality(P) \in Nat
  BY <1>1, FS_CardinalityType
<1> QED
  BY <1>2, <1>3, <1>4, <1>5
=============================================================================
