----------------------------- MODULE DataLemmas -----------------------------
(***************************************************************************)
(* What the proofs need to know about data: induction in a form that       *)
(* speaks of sets and takes no operator, greatest elements, divisibility   *)
(* and sums over finite sets.                                              *)
(***************************************************************************)
EXTENDS FiniteSetsExt, FiniteSetTheorems, WellFoundedInduction, TLAPS

LEMMA LeastNatural ==
  ASSUME NEW T \in SUBSET Nat, T # {}
  PROVE  \E x \in T : \A y \in T : x <= y
<1> DEFINE R == OpToRel(<, Nat)
<1>1. IsWellFoundedOn(R, Nat)
  BY NatLessThanWellFounded
<1> HIDE DEF R
<1>2. PICK x \in T : \A y \in T : ~(<<y, x>> \in R)
  BY <1>1, WFMin
<1>3. \A y \in T : ~(y < x)
  BY <1>2 DEF R, OpToRel
<1> QED
  BY <1>3

(* A set of numbers that holds 0 and the successor of each it holds.       *)
LEMMA NaturalsFromZero ==
  ASSUME NEW Good \in SUBSET Nat, 0 \in Good, \A n \in Good : n + 1 \in Good
  PROVE  Good = Nat
<1> SUFFICES ASSUME Nat \ Good # {} PROVE FALSE
  OBVIOUS
<1>1. PICK n \in Nat \ Good : \A m \in Nat \ Good : n <= m
  BY LeastNatural
<1>2. n # 0 /\ n - 1 \in Nat
  BY <1>1
<1>3. n - 1 \in Good
  BY <1>1, <1>2
<1> QED
  BY <1>1, <1>3

(* A set of subsets that holds the empty one and grows with each element.  *)
LEMMA SubsetsFromEmpty ==
  ASSUME NEW S, IsFiniteSet(S), NEW Good \in SUBSET SUBSET S,
         {} \in Good, \A T \in Good : \A x \in S \ T : T \cup {x} \in Good
  PROVE  S \in Good
<1> DEFINE Sizes == {n \in Nat : \A T \in SUBSET S : Cardinality(T) = n => T \in Good}
<1>1. \A T \in SUBSET S : IsFiniteSet(T) /\ Cardinality(T) \in Nat
  BY FS_Subset, FS_CardinalityType
<1>2. 0 \in Sizes
  BY <1>1, FS_EmptySet
<1>3. ASSUME NEW n \in Sizes PROVE n + 1 \in Sizes
  <2> SUFFICES ASSUME NEW T \in SUBSET S, Cardinality(T) = n + 1 PROVE T \in Good
    OBVIOUS
  <2>1. T # {}
    BY FS_EmptySet
  <2>2. PICK x \in T : TRUE
    BY <2>1
  <2>3. Cardinality(T \ {x}) = n
    BY <1>1, <2>2, FS_RemoveElement
  <2>4. T \ {x} \in Good
    BY <2>3
  <2>5. T = (T \ {x}) \cup {x}
    BY <2>2
  <2> QED
    BY <2>2, <2>4, <2>5
<1>4. Sizes = Nat
  <2> HIDE DEF Sizes
  <2>1. Sizes \in SUBSET Nat
    BY DEF Sizes
  <2> QED
    BY <1>2, <1>3, <2>1, NaturalsFromZero
<1> QED
  BY <1>1, <1>4

(* A finite set of integers has a greatest element.                        *)
LEMMA Greatest ==
  ASSUME NEW S \in SUBSET Int, IsFiniteSet(S), S # {}
  PROVE  \E m \in S : \A x \in S : x <= m
<1> DEFINE Good == {T \in SUBSET S : T # {} => \E m \in T : \A x \in T : x <= m}
<1>1. {} \in Good /\ Good \in SUBSET SUBSET S
  OBVIOUS
<1>2. ASSUME NEW T \in Good, NEW x \in S PROVE T \cup {x} \in Good
  <2>1. CASE T = {}
    BY <2>1
  <2>2. CASE T # {}
    <3>1. PICK m \in T : \A y \in T : y <= m
      BY <2>2
    <3>2. m \in Int /\ x \in Int /\ T \subseteq Int
      OBVIOUS
    <3>3. CASE x <= m
      BY <3>1, <3>2, <3>3
    <3>4. CASE x > m
      BY <3>1, <3>2, <3>4
    <3> QED
      BY <3>2, <3>3, <3>4
  <2> QED
    BY <2>1, <2>2
<1> HIDE DEF Good
<1>3. S \in Good
  BY <1>1, <1>2, SubsetsFromEmpty
<1> QED
  BY <1>3 DEF Good

-----------------------------------------------------------------------------
(* Multiples.                                                              *)

LEMMA ModDef ==
  ASSUME NEW a \in Int, NEW n \in Nat \ {0}
  PROVE  a % n = 0 <=> \E k \in Int : a = k * n
<1>1. ASSUME a % n = 0 PROVE \E k \in Int : a = k * n
  <2>1. a \div n \in Int /\ a = n * (a \div n) + (a % n)
    BY SMTT(30)
  <2>2. a = (a \div n) * n
    BY <2>1, <1>1, SMTT(30)
  <2> QED
    BY <2>1, <2>2
<1>2. ASSUME NEW k \in Int, a = k * n PROVE a % n = 0
  BY <1>2, SMTT(30)
<1> QED
  BY <1>1, <1>2

LEMMA ModSum ==
  ASSUME NEW a \in Int, NEW b \in Int, NEW n \in Nat \ {0}, a % n = 0, b % n = 0
  PROVE  (a + b) % n = 0 /\ (a - b) % n = 0
<1>1. PICK k \in Int : a = k * n
  BY ModDef
<1>2. PICK j \in Int : b = j * n
  BY ModDef
<1>3. a + b = (k + j) * n /\ a - b = (k - j) * n
  BY <1>1, <1>2, SMTT(30)
<1>4. a + b \in Int /\ a - b \in Int /\ k + j \in Int /\ k - j \in Int
  OBVIOUS
<1> QED
  BY <1>3, <1>4, ModDef

LEMMA ModSelf == \A n \in Nat \ {0} : n % n = 0 /\ 0 % n = 0
BY SMTT(30)

LEMMA ModLeast ==
  ASSUME NEW a \in Int, NEW n \in Nat \ {0}, a % n = 0, a > 0
  PROVE  a >= n
BY SMTT(30)

-----------------------------------------------------------------------------
(* Sums.  SumFunctionOnSet is a fold that chooses the elements one by one: *)
(* first that there is such a fold, then that the order does not matter.   *)

Chosen(s) == CHOOSE x \in s : TRUE

Unfolded(f, g, s) == IF s = {} THEN 0 ELSE f[Chosen(s)] + g[s \ {Chosen(s)}]

IsFold(f, g, R) == g = [s \in R |-> Unfolded(f, g, s)]

Fold(f, S) == CHOOSE g : IsFold(f, g, SUBSET S)

LEMMA SumIsFold == \A f, S : SumFunctionOnSet(f, S) = Fold(f, S)[S]
BY DEF SumFunctionOnSet, FoldFunctionOnSet, MapThenFoldSet, Fold, IsFold, Unfolded, Chosen

LEMMA FoldAt ==
  ASSUME NEW f, NEW g, NEW R, IsFold(f, g, R), NEW s \in R
  PROVE  g[s] = Unfolded(f, g, s)
BY DEF IsFold

LEMMA FoldExists ==
  ASSUME NEW f, NEW S, IsFiniteSet(S)
  PROVE  IsFold(f, Fold(f, S), SUBSET S)
<1> DEFINE Small(n) == {s \in SUBSET S : Cardinality(s) <= n}
           Good == {n \in Nat : \E g : IsFold(f, g, Small(n))}
<1>1. \A s \in SUBSET S : IsFiniteSet(s) /\ Cardinality(s) \in Nat /\ Cardinality(s) <= Cardinality(S)
  BY FS_Subset, FS_CardinalityType
<1>2. \E g : IsFold(f, g, Small(0))
  <2>1. \A s \in Small(0) : s = {}
    BY <1>1, FS_EmptySet
  <2>2. IsFold(f, [s \in Small(0) |-> 0], Small(0))
    BY <2>1 DEF IsFold, Unfolded
  <2> QED
    BY <2>2
<1>3. ASSUME NEW n \in Nat, NEW g, IsFold(f, g, Small(n))
      PROVE  \E h : IsFold(f, h, Small(n + 1))
  <2> DEFINE h == [s \in Small(n + 1) |-> Unfolded(f, g, s)]
  <2>2. ASSUME NEW s \in Small(n + 1), s # {}
        PROVE  s \ {Chosen(s)} \in Small(n) /\ s \ {Chosen(s)} \in Small(n + 1)
    <3>1. Chosen(s) \in s
      BY <2>2 DEF Chosen
    <3>2. Cardinality(s \ {Chosen(s)}) = Cardinality(s) - 1
      BY <3>1, <1>1, FS_RemoveElement
    <3> QED
      BY <3>2, <1>1
  <2>3. \A s \in Small(n) : g[s] = Unfolded(f, g, s) /\ h[s] = Unfolded(f, g, s)
    BY <1>1, <1>3 DEF IsFold
  <2>4. ASSUME NEW s \in Small(n + 1) PROVE Unfolded(f, g, s) = Unfolded(f, h, s)
    <3>1. CASE s = {}
      BY <3>1 DEF Unfolded
    <3>2. CASE s # {}
      <4>1. g[s \ {Chosen(s)}] = h[s \ {Chosen(s)}]
        BY <3>2, <2>2, <2>3
      <4> QED
        BY <4>1 DEF Unfolded
    <3> QED
      BY <3>1, <3>2
  <2>5. IsFold(f, h, Small(n + 1))
    BY <2>4 DEF IsFold
  <2> HIDE DEF Small, h
  <2> QED
    BY <2>5
<1>4. Small(Cardinality(S)) = SUBSET S
  BY <1>1
<1>5. Cardinality(S) \in Nat
  BY <1>1
<1> HIDE DEF Small
<1>6. Good \in SUBSET Nat /\ 0 \in Good /\ \A n \in Good : n + 1 \in Good
  BY <1>2, <1>3
<1>7. Good = Nat
  <2> HIDE DEF Good
  <2> QED
    BY <1>6, NaturalsFromZero
<1>8. \E g : IsFold(f, g, SUBSET S)
  BY <1>4, <1>5, <1>7
<1> QED
  BY <1>8 DEF Fold

LEMMA FoldUnfolds ==
  ASSUME NEW f, NEW S, IsFiniteSet(S), NEW s \in SUBSET S
  PROVE  Fold(f, S)[s] = Unfolded(f, Fold(f, S), s)
BY FoldExists, FoldAt

LEMMA FoldsAgree ==
  ASSUME NEW f, NEW S, IsFiniteSet(S), NEW T \in SUBSET S
  PROVE  \A s \in SUBSET T : Fold(f, T)[s] = Fold(f, S)[s]
<1> DEFINE Agree(n) == \A s \in SUBSET T : Cardinality(s) = n => Fold(f, T)[s] = Fold(f, S)[s]
           Good == {n \in Nat : Agree(n)}
<1>1. IsFiniteSet(T) /\ \A s \in SUBSET T : s \in SUBSET S /\ IsFiniteSet(s) /\ Cardinality(s) \in Nat
  BY FS_Subset, FS_CardinalityType
<1>2. \A s \in SUBSET T : /\ Fold(f, T)[s] = Unfolded(f, Fold(f, T), s)
                         /\ Fold(f, S)[s] = Unfolded(f, Fold(f, S), s)
  BY <1>1, FoldUnfolds
<1>3. Agree(0)
  BY <1>1, <1>2, FS_EmptySet DEF Unfolded
<1>4. ASSUME NEW n \in Nat, Agree(n) PROVE Agree(n + 1)
  <2> SUFFICES ASSUME NEW s \in SUBSET T, Cardinality(s) = n + 1
               PROVE  Fold(f, T)[s] = Fold(f, S)[s]
    OBVIOUS
  <2>1. s # {}
    BY FS_EmptySet
  <2>2. Chosen(s) \in s
    BY <2>1 DEF Chosen
  <2>3. Cardinality(s \ {Chosen(s)}) = n /\ s \ {Chosen(s)} \in SUBSET T
    <3>1. Cardinality(s \ {Chosen(s)}) = Cardinality(s) - 1
      BY <1>1, <2>2, FS_RemoveElement
    <3> QED
      BY <3>1
  <2>4. Fold(f, T)[s \ {Chosen(s)}] = Fold(f, S)[s \ {Chosen(s)}]
    BY <1>4, <2>3
  <2> QED
    BY <1>2, <2>1, <2>4 DEF Unfolded
<1> HIDE DEF Agree
<1>5. Good \in SUBSET Nat /\ 0 \in Good /\ \A n \in Good : n + 1 \in Good
  BY <1>3, <1>4
<1>6. Good = Nat
  <2> HIDE DEF Good
  <2> QED
    BY <1>5, NaturalsFromZero
<1>7. \A s \in SUBSET T : Agree(Cardinality(s))
  BY <1>1, <1>6
<1> QED
  BY <1>7 DEF Agree

(* The chosen element and the rest.                                        *)
LEMMA SumChosen ==
  ASSUME NEW f, NEW S, IsFiniteSet(S)
  PROVE  SumFunctionOnSet(f, S) =
           IF S = {} THEN 0 ELSE f[Chosen(S)] + SumFunctionOnSet(f, S \ {Chosen(S)})
<1>1. Fold(f, S)[S] = Unfolded(f, Fold(f, S), S)
  BY FoldUnfolds
<1>2. Fold(f, S \ {Chosen(S)})[S \ {Chosen(S)}] = Fold(f, S)[S \ {Chosen(S)}]
  BY FoldsAgree
<1> QED
  BY <1>1, <1>2, SumIsFold DEF Unfolded

THEOREM SumEmpty == \A f : SumFunctionOnSet(f, {}) = 0
BY SumChosen, FS_EmptySet

(* A finite sum of integers is one, and any element can be taken first.    *)
LEMMA SumTypeAndRemove ==
  ASSUME NEW f, NEW S, IsFiniteSet(S), \A x \in S : f[x] \in Int
  PROVE  /\ SumFunctionOnSet(f, S) \in Int
         /\ \A x \in S : SumFunctionOnSet(f, S) = f[x] + SumFunctionOnSet(f, S \ {x})
<1> DEFINE Sum(T) == SumFunctionOnSet(f, T)
           Nice(T) == Sum(T) \in Int /\ \A x \in T : Sum(T) = f[x] + Sum(T \ {x})
           NiceTo(n) == \A T \in SUBSET S : Cardinality(T) <= n => Nice(T)
           Good == {n \in Nat : NiceTo(n)}
<1>1. \A T \in SUBSET S : IsFiniteSet(T) /\ Cardinality(T) \in Nat
  BY FS_Subset, FS_CardinalityType
<1>2. \A T \in SUBSET S : Sum(T) = IF T = {} THEN 0 ELSE f[Chosen(T)] + Sum(T \ {Chosen(T)})
  BY <1>1, SumChosen
<1> HIDE DEF Sum
<1>3. NiceTo(0)
  <2>1. ASSUME NEW T \in SUBSET S, Cardinality(T) <= 0 PROVE T = {}
    BY <2>1, <1>1, FS_EmptySet
  <2>2. Nice({})
    BY <1>2
  <2> HIDE DEF Nice
  <2> QED
    BY <2>1, <2>2
<1>4. ASSUME NEW n \in Nat, NiceTo(n) PROVE NiceTo(n + 1)
  <2>e. Nice({})
    BY <1>2, SMTT(30)
  <2> SUFFICES ASSUME NEW T \in SUBSET S, Cardinality(T) <= n + 1, T # {}
               PROVE  Nice(T)
    <3> HIDE DEF Nice
    <3> QED
      BY <2>e
  <2> DEFINE c == Chosen(T)
  <2>1. c \in T
    BY DEF Chosen
  <2> HIDE DEF c
  <2>2. \A x \in T : Cardinality(T \ {x}) <= n /\ T \ {x} \in SUBSET S
    BY <1>1, FS_RemoveElement
  <2>3. \A x \in T : Nice(T \ {x})
    BY <1>4, <2>2
  <2>4. Sum(T) = f[c] + Sum(T \ {c})
    BY <1>2 DEF c
  <2>5. Sum(T) \in Int
    BY <2>1, <2>3, <2>4
  <2>6. ASSUME NEW x \in T, x # c PROVE Sum(T) = f[x] + Sum(T \ {x})
    <3> DEFINE rest == (T \ {c}) \ {x}
    <3>1. x \in T \ {c} /\ c \in T \ {x} /\ rest = (T \ {x}) \ {c}
      BY <2>1, <2>6
    <3>2. rest \in SUBSET S /\ Cardinality(rest) <= n
      <4> DEFINE d == T \ {c}
      <4>1. IsFiniteSet(d) /\ Cardinality(d) \in Nat /\ Cardinality(d) <= n
        BY <1>1, <2>1, <2>2
      <4>2. rest \in SUBSET d
        OBVIOUS
      <4> HIDE DEF d, rest
      <4>3. Cardinality(rest) <= Cardinality(d) /\ Cardinality(rest) \in Nat
        BY <4>1, <4>2, FS_Subset, FS_CardinalityType
      <4> QED
        BY <4>1, <4>2, <4>3 DEF d
    <3> HIDE DEF rest
    <3>3. Sum(T \ {c}) = f[x] + Sum(rest)
      BY <3>1, <2>1, <2>3 DEF rest
    <3>4. Sum(T \ {x}) = f[c] + Sum(rest) /\ Sum(T \ {x}) \in Int
      BY <3>1, <2>3
    <3>5. f[x] \in Int /\ f[c] \in Int /\ Sum(rest) \in Int
      BY <1>4, <2>1, <3>2
    <3> HIDE DEF NiceTo, Nice
    <3> QED
      BY <2>4, <3>3, <3>4, <3>5
  <2> QED
    BY <2>4, <2>5, <2>6
<1> HIDE DEF NiceTo
<1>5. Good \in SUBSET Nat /\ 0 \in Good /\ \A n \in Good : n + 1 \in Good
  BY <1>3, <1>4
<1>6. Good = Nat
  <2> HIDE DEF Good
  <2> QED
    BY <1>5, NaturalsFromZero
<1>7. Nice(S)
  <2>1. NiceTo(Cardinality(S)) /\ Cardinality(S) \in Nat
    BY <1>1, <1>6
  <2> QED
    BY <2>1 DEF NiceTo
<1> QED
  BY <1>7 DEF Sum

(* Adding an element to a set adds its value to the sum.                   *)
LEMMA SumAdd ==
  ASSUME NEW f, NEW S, IsFiniteSet(S), NEW x, x \notin S, \A y \in S \cup {x} : f[y] \in Int
  PROVE  SumFunctionOnSet(f, S \cup {x}) = f[x] + SumFunctionOnSet(f, S)
<1>1. IsFiniteSet(S \cup {x}) /\ x \in S \cup {x} /\ (S \cup {x}) \ {x} = S
  BY FS_AddElement
<1> QED
  BY <1>1, SumTypeAndRemove

(* Sums over the same values are the same.                                 *)
LEMMA SumSame ==
  ASSUME NEW f, NEW g, NEW S, IsFiniteSet(S), \A x \in S : f[x] \in Int /\ g[x] = f[x]
  PROVE  SumFunctionOnSet(g, S) = SumFunctionOnSet(f, S)
<1> DEFINE Good == {T \in SUBSET S : SumFunctionOnSet(g, T) = SumFunctionOnSet(f, T)}
<1>1. {} \in Good
  BY SumEmpty
<1>2. ASSUME NEW T \in Good, NEW x \in S \ T PROVE T \cup {x} \in Good
  <2>1. IsFiniteSet(T) /\ T \in SUBSET S
    BY FS_Subset
  <2>2. SumFunctionOnSet(f, T \cup {x}) = f[x] + SumFunctionOnSet(f, T)
    BY <2>1, SumAdd
  <2>3. SumFunctionOnSet(g, T \cup {x}) = g[x] + SumFunctionOnSet(g, T)
    BY <2>1, SumAdd
  <2> QED
    BY <2>2, <2>3
<1>3. S \in Good
  <2> Good \in SUBSET (SUBSET S)
    OBVIOUS
  <2> HIDE DEF Good
  <2> QED
    BY <1>1, <1>2, SubsetsFromEmpty
<1> QED
  BY <1>3

(* One value changes: so does the sum, by as much.                         *)
THEOREM SumChange ==
  ASSUME NEW f, NEW g, NEW S, IsFiniteSet(S), NEW x \in S,
         \A y \in S : f[y] \in Int /\ g[y] \in Int,
         \A y \in S \ {x} : g[y] = f[y]
  PROVE  SumFunctionOnSet(g, S) = SumFunctionOnSet(f, S) + (g[x] - f[x])
<1>1. IsFiniteSet(S \ {x})
  BY FS_RemoveElement
<1>2. SumFunctionOnSet(g, S \ {x}) = SumFunctionOnSet(f, S \ {x})
  BY <1>1, SumSame
<1>3. /\ SumFunctionOnSet(f, S) = f[x] + SumFunctionOnSet(f, S \ {x})
      /\ SumFunctionOnSet(g, S) = g[x] + SumFunctionOnSet(g, S \ {x})
      /\ SumFunctionOnSet(f, S \ {x}) \in Int
  BY <1>1, SumTypeAndRemove
<1> QED
  BY <1>2, <1>3

(* A sum over two parts is the sum of the sums over them.                  *)
THEOREM SumParts ==
  ASSUME NEW f, NEW A, NEW B, IsFiniteSet(A), IsFiniteSet(B), A \cap B = {},
         \A x \in A \cup B : f[x] \in Int
  PROVE  SumFunctionOnSet(f, A \cup B) = SumFunctionOnSet(f, A) + SumFunctionOnSet(f, B)
<1> DEFINE Sum(T) == SumFunctionOnSet(f, T)
           Good == {T \in SUBSET B : Sum(A \cup T) = Sum(A) + Sum(T)}
<1>1. Sum(A) \in Int
  BY SumTypeAndRemove
<1>2. {} \in Good
  BY SumEmpty, <1>1
<1>3. ASSUME NEW T \in Good, NEW x \in B \ T PROVE T \cup {x} \in Good
  <2>1. IsFiniteSet(T) /\ IsFiniteSet(A \cup T) /\ T \in SUBSET B
    BY FS_Subset, FS_Union
  <2>2. Sum(T \cup {x}) = f[x] + Sum(T) /\ Sum(T) \in Int
    BY <2>1, SumAdd, SumTypeAndRemove
  <2>3. Sum((A \cup T) \cup {x}) = f[x] + Sum(A \cup T)
    BY <2>1, SumAdd
  <2>4. (A \cup T) \cup {x} = A \cup (T \cup {x})
    OBVIOUS
  <2>5. f[x] \in Int
    OBVIOUS
  <2>6. Sum(A \cup T) = Sum(A) + Sum(T)
    OBVIOUS
  <2>7. Sum(A \cup (T \cup {x})) = Sum(A) + Sum(T \cup {x})
    <3>1. Sum(A \cup (T \cup {x})) = f[x] + Sum(A \cup T)
      BY <2>3, <2>4
    <3> HIDE DEF Sum, Good
    <3> QED
      BY <1>1, <2>2, <2>5, <2>6, <3>1
  <2> QED
    BY <2>7
<1>4. B \in Good
  <2> Good \in SUBSET (SUBSET B)
    OBVIOUS
  <2> HIDE DEF Good
  <2> QED
    BY <1>2, <1>3, SubsetsFromEmpty
<1> QED
  BY <1>4

(* Naturals have a natural sum.                                            *)
LEMMA SumNat ==
  ASSUME NEW f, NEW S, IsFiniteSet(S), \A x \in S : f[x] \in Nat
  PROVE  SumFunctionOnSet(f, S) \in Nat
<1> DEFINE Good == {T \in SUBSET S : SumFunctionOnSet(f, T) \in Nat}
<1>1. {} \in Good
  BY SumEmpty
<1>2. ASSUME NEW T \in Good, NEW x \in S \ T PROVE T \cup {x} \in Good
  <2>1. IsFiniteSet(T) /\ T \in SUBSET S
    BY FS_Subset
  <2>2. SumFunctionOnSet(f, T \cup {x}) = f[x] + SumFunctionOnSet(f, T)
    BY <2>1, SumAdd
  <2> QED
    BY <2>2
<1>3. S \in Good
  <2> Good \in SUBSET (SUBSET S)
    OBVIOUS
  <2> HIDE DEF Good
  <2> QED
    BY <1>1, <1>2, SubsetsFromEmpty
<1> QED
  BY <1>3


(* Sums are added, compared and cut element by element.                    *)
LEMMA SumPlus ==
  ASSUME NEW f, NEW g, NEW h, NEW S, IsFiniteSet(S),
         \A x \in S : f[x] \in Int /\ g[x] \in Int /\ h[x] = f[x] + g[x]
  PROVE  SumFunctionOnSet(h, S) = SumFunctionOnSet(f, S) + SumFunctionOnSet(g, S)
<1> DEFINE Sum(k, T) == SumFunctionOnSet(k, T)
           Good == {T \in SUBSET S : Sum(h, T) = Sum(f, T) + Sum(g, T)}
<1>1. {} \in Good
  BY SumEmpty
<1>2. ASSUME NEW T \in Good, NEW x \in S \ T PROVE T \cup {x} \in Good
  <2>1. IsFiniteSet(T) /\ T \in SUBSET S
    BY FS_Subset
  <2>2. /\ Sum(f, T \cup {x}) = f[x] + Sum(f, T) /\ Sum(f, T) \in Int
        /\ Sum(g, T \cup {x}) = g[x] + Sum(g, T) /\ Sum(g, T) \in Int
        /\ Sum(h, T \cup {x}) = h[x] + Sum(h, T)
    BY <2>1, SumAdd, SumTypeAndRemove
  <2>3. f[x] \in Int /\ g[x] \in Int /\ h[x] = f[x] + g[x] /\ Sum(h, T) = Sum(f, T) + Sum(g, T)
    OBVIOUS
  <2>4. Sum(h, T \cup {x}) = Sum(f, T \cup {x}) + Sum(g, T \cup {x})
    <3> HIDE DEF Sum, Good
    <3> QED
      BY <2>2, <2>3
  <2> QED
    BY <2>4
<1>3. S \in Good
  <2> Good \in SUBSET (SUBSET S)
    OBVIOUS
  <2> HIDE DEF Good
  <2> QED
    BY <1>1, <1>2, SubsetsFromEmpty
<1> QED
  BY <1>3

LEMMA SumLeq ==
  ASSUME NEW f, NEW g, NEW S, IsFiniteSet(S),
         \A x \in S : f[x] \in Int /\ g[x] \in Int /\ f[x] <= g[x]
  PROVE  SumFunctionOnSet(f, S) <= SumFunctionOnSet(g, S)
<1> DEFINE d == [x \in S |-> g[x] - f[x]]
<1>1. SumFunctionOnSet(d, S) \in Nat
  BY SumNat
<1>2. SumFunctionOnSet(g, S) = SumFunctionOnSet(f, S) + SumFunctionOnSet(d, S)
  BY SumPlus
<1>3. SumFunctionOnSet(f, S) \in Int
  BY SumTypeAndRemove
<1> HIDE DEF d
<1> QED
  BY <1>1, <1>2, <1>3

LEMMA SumZero ==
  ASSUME NEW f, NEW S, IsFiniteSet(S), \A x \in S : f[x] = 0
  PROVE  SumFunctionOnSet(f, S) = 0
<1>1. SumFunctionOnSet(f, S) = SumFunctionOnSet(f, S) + SumFunctionOnSet(f, S)
  BY SumPlus
<1>2. SumFunctionOnSet(f, S) \in Int
  BY SumTypeAndRemove
<1>3. \A n \in Int : n = n + n => n = 0
  OBVIOUS
<1> QED
  BY <1>1, <1>2, <1>3

(* A sum over a part is one over the whole that is zero elsewhere.         *)
LEMMA SumSupport ==
  ASSUME NEW f, NEW g, NEW S, IsFiniteSet(S), NEW T \in SUBSET S,
         \A x \in T : f[x] \in Int /\ g[x] = f[x],
         \A x \in S \ T : g[x] = 0
  PROVE  SumFunctionOnSet(g, S) = SumFunctionOnSet(f, T)
<1>1. IsFiniteSet(T) /\ IsFiniteSet(S \ T) /\ T \cup (S \ T) = S /\ T \cap (S \ T) = {}
  BY FS_Subset
<1>2. SumFunctionOnSet(g, S) = SumFunctionOnSet(g, T) + SumFunctionOnSet(g, S \ T)
  <2>1. \A x \in T \cup (S \ T) : g[x] \in Int
    OBVIOUS
  <2> QED
    BY <1>1, <2>1, SumParts
<1>3. SumFunctionOnSet(g, S \ T) = 0
  BY <1>1, SumZero
<1>4. SumFunctionOnSet(g, T) = SumFunctionOnSet(f, T) /\ SumFunctionOnSet(f, T) \in Int
  BY <1>1, SumSame, SumTypeAndRemove
<1> QED
  BY <1>2, <1>3, <1>4

(* A double sum may be taken in either order.                              *)
THEOREM SumSwap ==
  ASSUME NEW F, NEW S, NEW T, IsFiniteSet(S), IsFiniteSet(T), \A x \in S, y \in T : F[x][y] \in Int
  PROVE  SumFunctionOnSet([x \in S |-> SumFunctionOnSet(F[x], T)], S)
           = SumFunctionOnSet([y \in T |-> SumFunctionOnSet([x \in S |-> F[x][y]], S)], T)
<1> DEFINE Col(y) == [x \in S |-> F[x][y]]
           rows == [x \in S |-> SumFunctionOnSet(F[x], T)]
           cols(R) == [y \in T |-> SumFunctionOnSet(Col(y), R)]
           Good == {R \in SUBSET S : SumFunctionOnSet(rows, R) = SumFunctionOnSet(cols(R), T)}
<1>1. \A x \in S : rows[x] = SumFunctionOnSet(F[x], T) /\ rows[x] \in Int
  BY SumTypeAndRemove
<1>2. \A y \in T, x \in S : Col(y)[x] = F[x][y] /\ Col(y)[x] \in Int
  OBVIOUS
<1>3. {} \in Good
  <2>1. SumFunctionOnSet(rows, {}) = 0
    BY SumEmpty
  <2>2. \A y \in T : cols({})[y] = 0
    BY SumEmpty
  <2> HIDE DEF rows, cols
  <2>3. SumFunctionOnSet(cols({}), T) = 0
    BY <2>2, SumZero
  <2> QED
    BY <2>1, <2>3
<1>4. ASSUME NEW R \in Good, NEW z \in S \ R PROVE R \cup {z} \in Good
  <2>1. IsFiniteSet(R) /\ R \in SUBSET S
    BY FS_Subset
  <2>2. SumFunctionOnSet(rows, R \cup {z}) = rows[z] + SumFunctionOnSet(rows, R) /\ SumFunctionOnSet(rows, R) \in Int
    <3> HIDE DEF rows
    <3> QED
      BY <1>1, <2>1, SumAdd, SumTypeAndRemove
  <2>3. \A y \in T : /\ cols(R)[y] \in Int /\ F[z][y] \in Int
                     /\ cols(R \cup {z})[y] = F[z][y] + cols(R)[y]
    <3> SUFFICES ASSUME NEW y \in T
                 PROVE  /\ cols(R)[y] \in Int /\ F[z][y] \in Int
                        /\ cols(R \cup {z})[y] = F[z][y] + cols(R)[y]
      OBVIOUS
    <3>1. \A x \in R \cup {z} : Col(y)[x] \in Int
      BY <1>2
    <3>2. Col(y)[z] = F[z][y]
      OBVIOUS
    <3> HIDE DEF Col
    <3>3. SumFunctionOnSet(Col(y), R \cup {z}) = Col(y)[z] + SumFunctionOnSet(Col(y), R)
      BY <2>1, <3>1, SumAdd
    <3>4. SumFunctionOnSet(Col(y), R) \in Int
      BY <2>1, <3>1, SumTypeAndRemove
    <3> QED
      BY <3>2, <3>3, <3>4
  <2>4. SumFunctionOnSet(cols(R \cup {z}), T) = SumFunctionOnSet(F[z], T) + SumFunctionOnSet(cols(R), T)
    <3> DEFINE before == cols(R)
               after == cols(R \cup {z})
               one == F[z]
    <3>1. \A y \in T : before[y] \in Int /\ one[y] \in Int /\ after[y] = one[y] + before[y]
      BY <2>3
    <3> HIDE DEF before, after, one
    <3>2. SumFunctionOnSet(after, T) = SumFunctionOnSet(one, T) + SumFunctionOnSet(before, T)
      BY <3>1, SumPlus
    <3> QED
      BY <3>2 DEF before, after, one
  <2>5. SumFunctionOnSet(rows, R) = SumFunctionOnSet(cols(R), T) /\ rows[z] = SumFunctionOnSet(F[z], T)
    BY <1>1
  <2> HIDE DEF rows, cols
  <2> QED
    BY <2>2, <2>4, <2>5
<1>5. S \in Good
  <2> Good \in SUBSET (SUBSET S)
    OBVIOUS
  <2> HIDE DEF Good
  <2> QED
    BY <1>3, <1>4, SubsetsFromEmpty
<1> QED
  BY <1>5


(* A part of naturals adds up to no more than the whole.                   *)
LEMMA SumMonotone ==
  ASSUME NEW f, NEW S, IsFiniteSet(S), NEW T \in SUBSET S, \A x \in S : f[x] \in Nat
  PROVE  SumFunctionOnSet(f, T) <= SumFunctionOnSet(f, S)
<1>1. IsFiniteSet(T) /\ IsFiniteSet(S \ T) /\ T \cup (S \ T) = S /\ T \cap (S \ T) = {}
  BY FS_Subset
<1>2. SumFunctionOnSet(f, S) = SumFunctionOnSet(f, T) + SumFunctionOnSet(f, S \ T)
  <2>1. \A x \in T \cup (S \ T) : f[x] \in Int
    OBVIOUS
  <2> QED
    BY <1>1, <2>1, SumParts
<1>3. SumFunctionOnSet(f, S \ T) \in Nat /\ SumFunctionOnSet(f, T) \in Nat
  BY <1>1, SumNat
<1> QED
  BY <1>2, <1>3


(* The sum of the negated values.                                          *)
LEMMA SumNegative ==
  ASSUME NEW f, NEW g, NEW S, IsFiniteSet(S), \A x \in S : f[x] \in Int /\ g[x] = -f[x]
  PROVE  SumFunctionOnSet(g, S) = -SumFunctionOnSet(f, S)
<1> DEFINE zero == [x \in S |-> 0]
<1>1. \A x \in S : f[x] \in Int /\ g[x] \in Int /\ zero[x] = f[x] + g[x]
  OBVIOUS
<1>2. \A x \in S : zero[x] = 0
  OBVIOUS
<1> HIDE DEF zero
<1>3. SumFunctionOnSet(zero, S) = SumFunctionOnSet(f, S) + SumFunctionOnSet(g, S)
  BY <1>1, SumPlus
<1>4. SumFunctionOnSet(zero, S) = 0
  BY <1>2, SumZero
<1>5. SumFunctionOnSet(f, S) \in Int /\ SumFunctionOnSet(g, S) \in Int
  BY <1>1, SumTypeAndRemove
<1> QED
  BY <1>3, <1>4, <1>5

LEMMA SumSingle ==
  ASSUME NEW f, NEW x, f[x] \in Int
  PROVE  SumFunctionOnSet(f, {x}) = f[x]
<1>1. SumFunctionOnSet(f, {} \cup {x}) = f[x] + SumFunctionOnSet(f, {})
  BY FS_EmptySet, SumAdd
<1>2. {} \cup {x} = {x}
  OBVIOUS
<1> QED
  BY <1>1, <1>2, SumEmpty

(* A function that is zero but for two arguments.                          *)
LEMMA SumPair ==
  ASSUME NEW f, NEW S, IsFiniteSet(S), NEW x, NEW y, x # y,
         \A z \in S : f[z] \in Int, \A z \in S \ {x, y} : f[z] = 0
  PROVE  SumFunctionOnSet(f, S) = (IF x \in S THEN f[x] ELSE 0) + (IF y \in S THEN f[y] ELSE 0)
<1> DEFINE T == S \cap {x, y}
<1>1. T \in SUBSET S /\ (\A z \in T : f[z] \in Int /\ f[z] = f[z]) /\ (\A z \in S \ T : f[z] = 0)
  OBVIOUS
<1>2. SumFunctionOnSet(f, S) = SumFunctionOnSet(f, T)
  <2> HIDE DEF T
  <2> QED
    BY <1>1, SumSupport
<1>3. CASE x \in S /\ y \in S
  <2>1. T = {x} \cup {y} /\ IsFiniteSet({x}) /\ IsFiniteSet({y})
    BY <1>3, FS_Singleton
  <2>2. SumFunctionOnSet(f, {x} \cup {y}) = SumFunctionOnSet(f, {x}) + SumFunctionOnSet(f, {y})
    BY <1>3, <2>1, SumParts
  <2>3. SumFunctionOnSet(f, {x}) = f[x] /\ SumFunctionOnSet(f, {y}) = f[y]
    BY <1>3, SumSingle
  <2> QED
    BY <1>2, <1>3, <2>1, <2>2, <2>3
<1>4. CASE x \in S /\ y \notin S
  <2>1. T = {x}
    BY <1>4
  <2>2. SumFunctionOnSet(f, {x}) = f[x] /\ f[x] \in Int
    BY <1>4, SumSingle
  <2>3. SumFunctionOnSet(f, S) = f[x]
    <3> HIDE DEF T
    <3> QED
      BY <1>2, <2>1, <2>2
  <2> QED
    BY <1>4, <2>2, <2>3
<1>5. CASE x \notin S /\ y \in S
  <2>1. T = {y}
    BY <1>5
  <2>2. SumFunctionOnSet(f, {y}) = f[y] /\ f[y] \in Int
    BY <1>5, SumSingle
  <2>3. SumFunctionOnSet(f, S) = f[y]
    <3> HIDE DEF T
    <3> QED
      BY <1>2, <2>1, <2>2
  <2> QED
    BY <1>5, <2>2, <2>3
<1>6. CASE x \notin S /\ y \notin S
  <2>1. T = {}
    BY <1>6
  <2> QED
    BY <1>2, <1>6, <2>1, SumEmpty
<1> QED
  BY <1>3, <1>4, <1>5, <1>6

(* Adding up by groups and adding up the groups.                           *)
THEOREM SumGroups ==
  ASSUME NEW f, NEW key, NEW A, NEW D, IsFiniteSet(A), IsFiniteSet(D),
         \A x \in A : f[x] \in Int /\ key[x] \in D
  PROVE  SumFunctionOnSet([d \in D |-> SumFunctionOnSet(f, {x \in A : key[x] = d})], D)
           = SumFunctionOnSet(f, A)
<1> DEFINE F == [x \in A |-> [d \in D |-> IF key[x] = d THEN f[x] ELSE 0]]
           rows == [x \in A |-> SumFunctionOnSet(F[x], D)]
           cols == [d \in D |-> SumFunctionOnSet([x \in A |-> F[x][d]], A)]
           groups == [d \in D |-> SumFunctionOnSet(f, {x \in A : key[x] = d})]
<1>1. \A x \in A, d \in D : F[x][d] \in Int /\ F[x][d] = IF key[x] = d THEN f[x] ELSE 0
  OBVIOUS
<1>2. \A x \in A : rows[x] = SumFunctionOnSet(F[x], D)
  OBVIOUS
<1>3. \A d \in D : /\ groups[d] = SumFunctionOnSet(f, {x \in A : key[x] = d})
                   /\ cols[d] = SumFunctionOnSet([x \in A |-> F[x][d]], A)
  OBVIOUS
<1>4. SumFunctionOnSet(rows, A) = SumFunctionOnSet(cols, D)
  <2> HIDE DEF F
  <2> QED
    BY <1>1, SumSwap
<1> HIDE DEF F, rows, cols, groups
<1>5. \A x \in A : f[x] \in Int /\ rows[x] = f[x]
  <2> TAKE x \in A
  <2>1. /\ {key[x]} \in SUBSET D /\ F[x][key[x]] = f[x] /\ f[x] \in Int
        /\ \A d \in {key[x]} : F[x][d] \in Int /\ F[x][d] = F[x][d]
        /\ \A d \in D \ {key[x]} : F[x][d] = 0
    BY <1>1
  <2>2. SumFunctionOnSet(F[x], D) = SumFunctionOnSet(F[x], {key[x]})
    BY <2>1, SumSupport
  <2>3. SumFunctionOnSet(F[x], {key[x]}) = F[x][key[x]]
    BY <2>1, SumSingle
  <2> QED
    BY <1>2, <2>1, <2>2, <2>3
<1>6. \A d \in D : groups[d] \in Int /\ cols[d] = groups[d]
  <2> TAKE d \in D
  <2> DEFINE G == {x \in A : key[x] = d}
             col == [x \in A |-> F[x][d]]
  <2>1. G \in SUBSET A /\ IsFiniteSet(G)
    BY FS_Subset
  <2>2. (\A x \in G : f[x] \in Int /\ col[x] = f[x]) /\ (\A x \in A \ G : col[x] = 0)
    BY <1>1
  <2>3. cols[d] = SumFunctionOnSet(col, A) /\ groups[d] = SumFunctionOnSet(f, G)
    BY <1>3
  <2> HIDE DEF G, col
  <2>4. SumFunctionOnSet(col, A) = SumFunctionOnSet(f, G) /\ SumFunctionOnSet(f, G) \in Int
    BY <2>1, <2>2, SumSupport, SumTypeAndRemove
  <2> QED
    BY <2>3, <2>4
<1>7. SumFunctionOnSet(rows, A) = SumFunctionOnSet(f, A)
  BY <1>5, SumSame
<1>8. SumFunctionOnSet(cols, D) = SumFunctionOnSet(groups, D)
  BY <1>6, SumSame
<1> QED
  BY <1>4, <1>7, <1>8 DEF groups


(* A sum over a part, written over the whole.                              *)
LEMMA SumWhere ==
  ASSUME NEW f, NEW S, IsFiniteSet(S), NEW T \in SUBSET S, \A x \in T : f[x] \in Int
  PROVE  SumFunctionOnSet([x \in S |-> IF x \in T THEN f[x] ELSE 0], S) = SumFunctionOnSet(f, T)
<1> DEFINE g == [x \in S |-> IF x \in T THEN f[x] ELSE 0]
<1>1. (\A x \in T : f[x] \in Int /\ g[x] = f[x]) /\ (\A x \in S \ T : g[x] = 0)
  OBVIOUS
<1> HIDE DEF g
<1>2. SumFunctionOnSet(g, S) = SumFunctionOnSet(f, T)
  BY <1>1, SumSupport
<1> QED
  BY <1>2 DEF g

(* The values of a function on a finite set.                               *)
LEMMA ImageIsFinite ==
  ASSUME NEW f, NEW S, IsFiniteSet(S)
  PROVE  IsFiniteSet({f[x] : x \in S})
<1> DEFINE Image(T) == {f[x] : x \in T}
           Good == {T \in SUBSET S : IsFiniteSet(Image(T))}
<1>1. {} \in Good
  <2>1. Image({}) = {}
    OBVIOUS
  <2> QED
    BY <2>1, FS_EmptySet
<1>2. ASSUME NEW T \in Good, NEW x \in S \ T PROVE T \cup {x} \in Good
  <2>1. Image(T \cup {x}) = Image(T) \cup {f[x]}
    OBVIOUS
  <2>2. IsFiniteSet(Image(T) \cup {f[x]})
    BY FS_AddElement
  <2> QED
    BY <2>1, <2>2
<1>3. Good \in SUBSET SUBSET S
  OBVIOUS
<1> HIDE DEF Good
<1>4. S \in Good
  BY <1>1, <1>2, <1>3, SubsetsFromEmpty
<1> QED
  BY <1>4 DEF Good

(* As many of the greatest as are asked for.                               *)
LEMMA GreatestFew ==
  ASSUME NEW S, IsFiniteSet(S), NEW f, \A x \in S : f[x] \in Int, NEW n \in Nat, n <= Cardinality(S)
  PROVE  \E C \in SUBSET S : /\ Cardinality(C) = n
                             /\ \A c \in C, b \in S \ C : f[b] <= f[c]
<1> DEFINE Few(m) == \E C \in SUBSET S : /\ Cardinality(C) = m
                                         /\ \A c \in C, b \in S \ C : f[b] <= f[c]
           Good == {m \in Nat : m <= Cardinality(S) => Few(m)}
<1>1. Cardinality(S) \in Nat
  BY FS_CardinalityType
<1>2. 0 \in Good
  <2>1. Few(0)
    <3> WITNESS {} \in SUBSET S
    <3> QED
      BY FS_EmptySet
  <2> QED
    BY <2>1
<1>3. ASSUME NEW m \in Good PROVE m + 1 \in Good
  <2> SUFFICES ASSUME m + 1 <= Cardinality(S) PROVE Few(m + 1)
    OBVIOUS
  <2>1. PICK C \in SUBSET S : Cardinality(C) = m /\ \A c \in C, b \in S \ C : f[b] <= f[c]
    <3>1. m <= Cardinality(S)
      BY <1>1
    <3> QED
      BY <1>3, <3>1
  <2> DEFINE R == S \ C
             V == {f[x] : x \in R}
  <2>2. IsFiniteSet(C) /\ IsFiniteSet(R) /\ m \in Nat
    BY FS_Subset
  <2>3. R # {}
    <3> SUFFICES ASSUME R = {} PROVE FALSE
      OBVIOUS
    <3>1. C = S
      OBVIOUS
    <3> QED
      BY <1>1, <2>1, <2>2, <3>1
  <2>4. IsFiniteSet(V) /\ V \in SUBSET Int /\ V # {}
    BY <2>2, <2>3, ImageIsFinite
  <2>5. PICK v \in V : \A w \in V : w <= v
    <3> HIDE DEF V
    <3> QED
      BY <2>4, Greatest
  <2>6. PICK x \in R : f[x] = v
    OBVIOUS
  <2>7. Cardinality(C \cup {x}) = m + 1
    BY <2>1, <2>2, FS_AddElement
  <2>8. \A c \in C \cup {x}, b \in S \ (C \cup {x}) : f[b] <= f[c]
    BY <2>1, <2>5, <2>6
  <2>9. C \cup {x} \in SUBSET S
    OBVIOUS
  <2> QED
    BY <2>7, <2>8, <2>9
<1> HIDE DEF Few
<1>4. Good = Nat
  <2>1. Good \in SUBSET Nat
    OBVIOUS
  <2> HIDE DEF Good
  <2> QED
    BY <1>2, <1>3, <2>1, NaturalsFromZero
<1>5. Few(n)
  BY <1>4
<1> QED
  BY <1>5 DEF Few

(* As many equal values add up to their number times the value.            *)
LEMMA SumConstant ==
  ASSUME NEW f, NEW S, IsFiniteSet(S), NEW a \in Int, \A x \in S : f[x] = a
  PROVE  SumFunctionOnSet(f, S) = a * Cardinality(S)
<1> DEFINE Good == {T \in SUBSET S : SumFunctionOnSet(f, T) = a * Cardinality(T)}
<1>1. {} \in Good
  BY SumEmpty, FS_EmptySet
<1>2. ASSUME NEW T \in Good, NEW x \in S \ T PROVE T \cup {x} \in Good
  <2>1. IsFiniteSet(T) /\ Cardinality(T) \in Nat /\ T \cup {x} \in SUBSET S
    BY FS_Subset, FS_CardinalityType
  <2>2. Cardinality(T \cup {x}) = Cardinality(T) + 1
    BY <2>1, FS_AddElement
  <2>3. SumFunctionOnSet(f, T \cup {x}) = a + SumFunctionOnSet(f, T)
    <3>1. \A y \in T \cup {x} : f[y] \in Int
      OBVIOUS
    <3>2. SumFunctionOnSet(f, T \cup {x}) = f[x] + SumFunctionOnSet(f, T)
      BY <2>1, <3>1, SumAdd
    <3> QED
      BY <3>2
  <2>4. \A n \in Nat : a + a * n = a * (n + 1)
    BY SMTT(30)
  <2> QED
    BY <2>1, <2>2, <2>3, <2>4
<1>3. S \in Good
  <2>1. Good \in SUBSET (SUBSET S)
    OBVIOUS
  <2> HIDE DEF Good
  <2> QED
    BY <1>1, <1>2, <2>1, SubsetsFromEmpty
<1> QED
  BY <1>3

(* The greater and the lesser of two numbers.                              *)
LEMMA PairBounds ==
  ASSUME NEW a \in Int, NEW b \in Int
  PROVE  /\ Max({a, b}) = IF a >= b THEN a ELSE b
         /\ Min({a, b}) = IF a <= b THEN a ELSE b
<1>1. CASE a >= b
  <2>1. \A m \in {a, b} : (\A y \in {a, b} : m >= y) <=> m = a
    BY <1>1
  <2>2. \A m \in {a, b} : (\A y \in {a, b} : m <= y) <=> m = b
    BY <1>1
  <2> QED
    BY <1>1, <2>1, <2>2 DEF Max, Min
<1>2. CASE a < b
  <2>1. \A m \in {a, b} : (\A y \in {a, b} : m >= y) <=> m = b
    BY <1>2
  <2>2. \A m \in {a, b} : (\A y \in {a, b} : m <= y) <=> m = a
    BY <1>2
  <2> QED
    BY <1>2, <2>1, <2>2 DEF Max, Min
<1> QED
  BY <1>1, <1>2
=============================================================================
