------------------------ MODULE VertexProgramProofs ------------------------
(***************************************************************************)
(* Lemmas about numbers, sums and the vertex programs, for the proofs      *)
(* about the components that run them.                                     *)
(***************************************************************************)
EXTENDS VertexProgram, FiniteSetTheorems, WellFoundedInduction, TLAPS

----------------------------------------------------------------------------
(* The relation < on the natural numbers, as a set of pairs. *)
Less == OpToRel(<, Nat)

LEMMA LessIsLess == \A i, j \in Nat : i < j => <<i, j>> \in Less
BY DEF OpToRel, Less

LEMMA LessWellFounded == IsWellFoundedOn(Less, Nat)
BY NatLessThanWellFounded DEF Less

(* A nonempty set of natural numbers has a least element: the induction    *)
(* principle of these proofs, with a set in the place of a predicate.      *)
LEMMA LeastNat ==
  ASSUME NEW T, T \subseteq Nat, T # {}
  PROVE  \E x \in T : \A y \in T : x <= y
<1>1. PICK x \in T : \A y \in T : ~ (<<y, x>> \in Less)
  BY LessWellFounded, WFMin
<1>2. ASSUME NEW y \in T PROVE x <= y
  <2>1. x \in Nat /\ y \in Nat
    OBVIOUS
  <2>2. ~ (y < x)
    BY <1>1, <2>1, LessIsLess
  <2>. QED  BY <2>1, <2>2
<1>. QED  BY <1>2

(* What holds of the first number of an interval and is handed on from     *)
(* each to the next holds of all of them; T is the set it holds of.        *)
LEMMA IntervalInduction ==
  ASSUME NEW a \in Nat, NEW b \in Nat, NEW T,
         a \in T,
         \A k \in a .. b : k \in T /\ k + 1 \in a .. b => k + 1 \in T
  PROVE  a .. b \subseteq T
<1> DEFINE Other == (a .. b) \ T
<1> SUFFICES ASSUME Other # {} PROVE FALSE
  OBVIOUS
<1>1. Other \subseteq Nat
  OBVIOUS
<1>2. \A k \in Other : k # a /\ k - 1 \in a .. b /\ k = (k - 1) + 1 /\ ~ (k <= k - 1)
  OBVIOUS
<1> HIDE DEF Other
<1>3. PICK x \in Other : \A y \in Other : x <= y
  BY <1>1, LeastNat
<1>4. x - 1 \in T
  BY <1>2, <1>3 DEF Other
<1>. QED  BY <1>2, <1>3, <1>4 DEF Other

(* Min of a nonempty set of natural numbers is its least element. *)
LEMMA MinIsLeast ==
  ASSUME NEW T, T \subseteq Nat, T # {}
  PROVE  Min(T) \in T /\ \A y \in T : Min(T) <= y
BY LeastNat DEF Min

(* What holds of the empty set, and of every subset of S when it holds of  *)
(* it without any one of its elements, holds of all subsets of S.          *)
LEMMA SubsetInduction ==
  ASSUME NEW S, IsFiniteSet(S), NEW T, {} \in T,
         \A s \in SUBSET S : s # {} /\ (\A x \in s : s \ {x} \in T) => s \in T
  PROVE  SUBSET S \subseteq T
<1> DEFINE Other == {s \in SUBSET S : s \notin T}
           Size == {Cardinality(s) : s \in Other}
<1> SUFFICES ASSUME Other # {} PROVE FALSE
  OBVIOUS
<1>1. \A s \in SUBSET S : IsFiniteSet(s) /\ Cardinality(s) \in Nat
  BY FS_Subset, FS_CardinalityType
<1>2. Size \subseteq Nat /\ Size # {}
  BY <1>1
<1>3. PICK n \in Size : \A k \in Size : n <= k
  BY <1>2, LeastNat
<1>4. PICK s \in Other : n = Cardinality(s)
  BY <1>3
<1>5. PICK x \in s : s \ {x} \notin T
  BY <1>4
<1>6. Cardinality(s \ {x}) = n - 1
  BY <1>1, <1>4, <1>5, FS_RemoveElement
<1>7. Cardinality(s \ {x}) \in Size
  BY <1>4, <1>5
<1>8. n \in Nat /\ n <= n - 1
  <2> HIDE DEF Size
  <2>. QED  BY <1>2, <1>3, <1>6, <1>7
<1>. QED  BY <1>8

(* A sum is that of a recursion over the subsets of its indices, ... *)
LEMMA SumRecursion ==
  ASSUME NEW f, IsFiniteSet(DOMAIN f), \A x \in DOMAIN f : f[x] \in Int
  PROVE  \E g \in [SUBSET DOMAIN f -> Int] :
           /\ g[{}] = 0 /\ SumFunction(f) = g[DOMAIN f]
           /\ \A s \in SUBSET DOMAIN f : s # {} =>
                \E x \in s : g[s] = f[x] + g[s \ {x}]
<1> DEFINE S == DOMAIN f
           first(s) == CHOOSE x \in s : TRUE
           step(g, s) == IF s = {} THEN 0 ELSE f[first(s)] + g[s \ {first(s)}]
           sum == CHOOSE g : g = [s \in SUBSET S |-> step(g, s)]
           n == Cardinality(S)
           T == {k \in 0 .. n : \E g \in [SUBSET S -> Int] :
                   \A s \in SUBSET S : Cardinality(s) <= k => g[s] = step(g, s)}
<1>1. \A s \in SUBSET S : /\ IsFiniteSet(s) /\ Cardinality(s) \in Nat
                          /\ Cardinality(s) <= n
                          /\ Cardinality(s) = 0 <=> s = {}
  BY FS_Subset, FS_CardinalityType, FS_EmptySet
<1>2. \A s \in SUBSET S : s # {} =>
        /\ first(s) \in s /\ f[first(s)] \in Int
        /\ s \ {first(s)} \in SUBSET S
        /\ Cardinality(s \ {first(s)}) = Cardinality(s) - 1
  BY <1>1, FS_RemoveElement
<1> HIDE DEF first
<1>3. 0 \in T
  <2> DEFINE g == [s \in SUBSET S |-> 0]
  <2>1. g \in [SUBSET S -> Int]
    OBVIOUS
  <2>2. ASSUME NEW s \in SUBSET S, Cardinality(s) <= 0 PROVE g[s] = step(g, s)
    BY <1>1, <2>2
  <2>3. 0 \in 0 .. n
    BY <1>1
  <2> HIDE DEF g, n, first
  <2>. QED  BY <2>1, <2>2, <2>3
<1>4. ASSUME NEW k \in 0 .. n, k \in T, k + 1 \in 0 .. n PROVE k + 1 \in T
  <2>1. PICK g \in [SUBSET S -> Int] :
          \A s \in SUBSET S : Cardinality(s) <= k => g[s] = step(g, s)
    BY <1>4
  <2> DEFINE h == [s \in SUBSET S |->
                     IF Cardinality(s) <= k THEN g[s] ELSE step(g, s)]
  <2>2. \A s \in SUBSET S : step(g, s) \in Int
    BY <1>2
  <2>3. h \in [SUBSET S -> Int]
    BY <2>1, <2>2
  <2>4. ASSUME NEW s \in SUBSET S, Cardinality(s) <= k + 1 PROVE h[s] = step(h, s)
    <3>1. h[s] = step(g, s)
      BY <2>1
    <3>2. s # {} => h[s \ {first(s)}] = g[s \ {first(s)}]
      BY <1>1, <1>2, <2>4
    <3>. QED  BY <3>1, <3>2
  <2> HIDE DEF h
  <2>. QED  BY <1>4, <2>3, <2>4
<1>5. n \in Nat /\ 0 .. n \subseteq T
  <2>1. n \in Nat
    BY <1>1
  <2> HIDE DEF T, n
  <2>. QED  BY <1>3, <1>4, <2>1, IntervalInduction
<1>6. \E g : g = [s \in SUBSET S |-> step(g, s)]
  <2>1. n \in T
    <3> HIDE DEF T, n
    <3>. QED  BY <1>5
  <2>2. PICK g \in [SUBSET S -> Int] :
          \A s \in SUBSET S : Cardinality(s) <= n => g[s] = step(g, s)
    BY <2>1
  <2>3. \A s \in SUBSET S : g[s] = step(g, s)
    BY <1>1, <2>2
  <2>. QED  BY <2>2, <2>3
<1>7. sum = [s \in SUBSET S |-> step(sum, s)]
  BY <1>6
<1>8. SUBSET S \subseteq {s \in SUBSET S : sum[s] \in Int}
  <2> DEFINE R == {s \in SUBSET S : sum[s] \in Int}
  <2> HIDE DEF sum
  <2>1. {} \in R
    BY <1>7
  <2>2. ASSUME NEW s \in SUBSET S, s # {}, \A x \in s : s \ {x} \in R PROVE s \in R
    <3>1. first(s) \in s /\ f[first(s)] \in Int
      BY <1>2, <2>2
    <3>2. sum[s \ {first(s)}] \in Int
      BY <2>2, <3>1
    <3>3. sum[s] = f[first(s)] + sum[s \ {first(s)}]
      BY <1>7, <2>2
    <3>. QED  BY <3>1, <3>2, <3>3
  <2> HIDE DEF R
  <2>3. SUBSET S \subseteq R
    BY <2>1, <2>2, SubsetInduction
  <2>. QED  BY <2>3 DEF R
<1>9. SumFunction(f) = sum[S]
  BY DEF SumFunction, SumFunctionOnSet, FoldFunctionOnSet, MapThenFoldSet, first
<1> HIDE DEF sum
<1>10. sum \in [SUBSET S -> Int]
  BY <1>7, <1>8
<1>11. \A s \in SUBSET S : s # {} => first(s) \in s /\ sum[s] = f[first(s)] + sum[s \ {first(s)}]
  BY <1>2, <1>7
<1>12. sum[{}] = 0
  BY <1>7
<1> HIDE DEF step, first
<1>. WITNESS sum \in [SUBSET DOMAIN f -> Int]
<1>. QED  BY <1>9, <1>11, <1>12

(* ... in which it does not matter which index is taken first, ... *)
SumsUp(g, f) ==
  /\ g \in [SUBSET DOMAIN f -> Int] /\ g[{}] = 0
  /\ \A s \in SUBSET DOMAIN f : \A x \in s : g[s] = f[x] + g[s \ {x}]

LEMMA SumInAnyOrder ==
  ASSUME NEW f, IsFiniteSet(DOMAIN f), \A x \in DOMAIN f : f[x] \in Int
  PROVE  \E g : SumsUp(g, f) /\ SumFunction(f) = g[DOMAIN f]
<1>1. PICK g \in [SUBSET DOMAIN f -> Int] :
        /\ g[{}] = 0 /\ SumFunction(f) = g[DOMAIN f]
        /\ \A s \in SUBSET DOMAIN f : s # {} =>
             \E x \in s : g[s] = f[x] + g[s \ {x}]
  BY SumRecursion
<1> DEFINE T == {s \in SUBSET DOMAIN f : \A x \in s : g[s] = f[x] + g[s \ {x}]}
<1>2. {} \in T
  OBVIOUS
<1>3. ASSUME NEW s \in SUBSET DOMAIN f, s # {}, \A x \in s : s \ {x} \in T
      PROVE  s \in T
  <2>1. PICK c \in s : g[s] = f[c] + g[s \ {c}]
    BY <1>1, <1>3
  <2>2. ASSUME NEW x \in s, x # c PROVE g[s] = f[x] + g[s \ {x}]
    <3>1. x \in s \ {c} /\ c \in s \ {x} /\ (s \ {c}) \ {x} = (s \ {x}) \ {c}
      BY <2>2
    <3>2. g[s \ {c}] = f[x] + g[(s \ {c}) \ {x}]
      BY <1>3, <3>1
    <3>3. g[s \ {x}] = f[c] + g[(s \ {x}) \ {c}]
      BY <1>3, <3>1
    <3>4. /\ f[x] \in Int /\ f[c] \in Int /\ g[(s \ {c}) \ {x}] \in Int
          /\ g[s \ {c}] \in Int /\ g[s \ {x}] \in Int
      BY <1>1, <2>1, <2>2
    <3>5. PICK k \in Int : k = g[(s \ {c}) \ {x}] /\ k = g[(s \ {x}) \ {c}]
      BY <3>1, <3>4
    <3>6. g[s \ {c}] = f[x] + k /\ g[s \ {x}] = f[c] + k
      BY <3>2, <3>3, <3>5
    <3>7. f[c] + (f[x] + k) = f[x] + (f[c] + k)
      BY <3>4, <3>5
    <3>. QED  BY <2>1, <3>6, <3>7
  <2>. QED  BY <2>1, <2>2
<1>4. SUBSET DOMAIN f \subseteq T
  <2> HIDE DEF T
  <2>. QED  BY <1>2, <1>3, SubsetInduction
<1>. QED  BY <1>1, <1>4 DEF SumsUp

(* ... and which is determined by what is added up. *)
Renames(p, f, b) ==
  /\ \A x \in DOMAIN f : p[x] \in DOMAIN b /\ f[x] = b[p[x]]
  /\ \A x, y \in DOMAIN f : p[x] = p[y] => x = y

LEMMA SumsAgree ==
  ASSUME NEW f, NEW g, NEW h, NEW b, SumsUp(g, f), SumsUp(h, b),
         NEW p, IsFiniteSet(DOMAIN f), Renames(p, f, b)
  PROVE  \A s \in SUBSET DOMAIN f : g[s] = h[{p[x] : x \in s}]
<1> DEFINE Image(s) == {p[x] : x \in s}
           T == {s \in SUBSET DOMAIN f : g[s] = h[Image(s)]}
<1>1. {} \in T
  <2>1. Image({}) = {}
    OBVIOUS
  <2>. QED  BY <2>1 DEF SumsUp
<1>2. ASSUME NEW s \in SUBSET DOMAIN f, s # {}, \A x \in s : s \ {x} \in T
      PROVE  s \in T
  <2>1. PICK x \in s : TRUE
    BY <1>2
  <2>2. Image(s) \in SUBSET DOMAIN b /\ p[x] \in Image(s)
    BY <2>1 DEF Renames
  <2>3. Image(s) \ {p[x]} = Image(s \ {x})
    BY <2>1 DEF Renames
  <2>4. g[s] = f[x] + g[s \ {x}] /\ g[s \ {x}] = h[Image(s \ {x})]
    BY <1>2, <2>1 DEF SumsUp
  <2>5. h[Image(s)] = b[p[x]] + h[Image(s) \ {p[x]}]
    <3> HIDE DEF Image
    <3>. QED  BY <2>2 DEF SumsUp
  <2>6. f[x] = b[p[x]]
    BY <2>1 DEF Renames
  <2>. QED  BY <2>3, <2>4, <2>5, <2>6
<1>3. SUBSET DOMAIN f \subseteq T
  <2> HIDE DEF T, Image
  <2>1. \A s \in SUBSET DOMAIN f :
          s # {} /\ (\A x \in s : s \ {x} \in T) => s \in T
    BY <1>2
  <2>. QED  BY <1>1, <2>1, SubsetInduction
<1>. QED  BY <1>3

(* The sum of finitely many integers is an integer. *)
LEMMA SumType ==
  ASSUME NEW f, IsFiniteSet(DOMAIN f), \A x \in DOMAIN f : f[x] \in Int
  PROVE  SumFunction(f) \in Int
<1>1. PICK g : SumsUp(g, f) /\ SumFunction(f) = g[DOMAIN f]
  BY SumInAnyOrder
<1>. QED  BY <1>1 DEF SumsUp

(* It does not matter what the indices are called. *)
LEMMA SumRenamed ==
  ASSUME NEW f, NEW b, NEW p, IsFiniteSet(DOMAIN f), IsFiniteSet(DOMAIN b),
         \A y \in DOMAIN b : b[y] \in Int, Renames(p, f, b),
         \A y \in DOMAIN b : \E x \in DOMAIN f : p[x] = y
  PROVE  SumFunction(f) = SumFunction(b)
<1>1. PICK g : SumsUp(g, f) /\ SumFunction(f) = g[DOMAIN f]
  BY SumInAnyOrder DEF Renames
<1>2. PICK h : SumsUp(h, b) /\ SumFunction(b) = h[DOMAIN b]
  BY SumInAnyOrder
<1>3. {p[x] : x \in DOMAIN f} = DOMAIN b
  BY DEF Renames
<1>4. DOMAIN f \in SUBSET DOMAIN f
  OBVIOUS
<1>5. g[DOMAIN f] = h[{p[x] : x \in DOMAIN f}]
  BY <1>1, <1>2, <1>4, SumsAgree
<1>. QED  BY <1>1, <1>2, <1>3, <1>5

(* Finitely many integers, one per index. *)
Summable(f) == IsFiniteSet(DOMAIN f) /\ \A x \in DOMAIN f : f[x] \in Int

(* A sum without indices is nothing. *)
LEMMA SumOfNothing ==
  ASSUME NEW f, DOMAIN f = {}
  PROVE  SumFunction(f) = 0
<1>1. PICK g : SumsUp(g, f) /\ SumFunction(f) = g[DOMAIN f]
  BY FS_EmptySet, SumInAnyOrder
<1>. QED  BY <1>1 DEF SumsUp

(* Any index may be taken out of a sum. *)
LEMMA SumWithout ==
  ASSUME NEW f, Summable(f), NEW x \in DOMAIN f
  PROVE  SumFunction(f) = f[x] + SumFunction(Restrict(f, DOMAIN f \ {x}))
<1> DEFINE rest == DOMAIN f \ {x}
           b == Restrict(f, rest)
           p == [y \in rest |-> y]
<1>1. DOMAIN b = rest /\ \A y \in rest : b[y] = f[y]
  BY DEF Restrict
<1>2. IsFiniteSet(rest)
  BY FS_RemoveElement DEF Summable
<1> HIDE DEF b
<1>3. PICK g : SumsUp(g, f) /\ SumFunction(f) = g[DOMAIN f]
  BY SumInAnyOrder DEF Summable
<1>4. PICK h : SumsUp(h, b) /\ SumFunction(b) = h[DOMAIN b]
  BY <1>1, <1>2, SumInAnyOrder DEF Summable
<1>5. Renames(p, b, f)
  BY <1>1 DEF Renames
<1>6. {p[y] : y \in DOMAIN b} = rest
  BY <1>1
<1>7. h[DOMAIN b] = g[{p[y] : y \in DOMAIN b}]
  <2> HIDE DEF p, rest
  <2>1. DOMAIN b \in SUBSET DOMAIN b
    OBVIOUS
  <2>. QED  BY <1>1, <1>2, <1>3, <1>4, <1>5, <2>1, SumsAgree
<1>8. g[DOMAIN f] = f[x] + g[DOMAIN f \ {x}]
  BY <1>3 DEF SumsUp
<1>. QED  BY <1>3, <1>4, <1>6, <1>7, <1>8 DEF b

(* The sum over some of the indices. *)
SumOver(f, s) == SumFunction(Restrict(f, s))

LEMMA SumOverType ==
  ASSUME NEW f, Summable(f), NEW s, s \subseteq DOMAIN f
  PROVE  /\ Summable(Restrict(f, s)) /\ DOMAIN Restrict(f, s) = s
         /\ SumOver(f, s) \in Int
<1>1. DOMAIN Restrict(f, s) = s /\ \A x \in s : Restrict(f, s)[x] = f[x]
  BY DEF Restrict
<1>2. IsFiniteSet(s)
  BY FS_Subset DEF Summable
<1>3. Summable(Restrict(f, s))
  BY <1>1, <1>2 DEF Summable
<1>. QED  BY <1>1, <1>3, SumType DEF SumOver, Summable

LEMMA SumOverWithout ==
  ASSUME NEW f, Summable(f), NEW s, s \subseteq DOMAIN f, NEW x \in s
  PROVE  SumOver(f, s) = f[x] + SumOver(f, s \ {x})
<1> DEFINE b == Restrict(f, s)
<1>1. Summable(b) /\ DOMAIN b = s /\ b[x] = f[x]
  BY SumOverType DEF Restrict
<1>2. Restrict(b, s \ {x}) = Restrict(f, s \ {x})
  BY <1>1 DEF Restrict
<1> HIDE DEF b
<1>3. SumFunction(b) = b[x] + SumFunction(Restrict(b, DOMAIN b \ {x}))
  BY <1>1, SumWithout
<1>. QED  BY <1>1, <1>2, <1>3 DEF SumOver, b

LEMMA SumOverAll ==
  ASSUME NEW f, f = [x \in DOMAIN f |-> f[x]]
  PROVE  SumOver(f, DOMAIN f) = SumFunction(f)
BY DEF SumOver, Restrict

(* As many times the same number. *)
LEMMA SumOfEqual ==
  ASSUME NEW f, Summable(f), NEW c \in Int, NEW S, S \subseteq DOMAIN f,
         \A x \in S : f[x] = c
  PROVE  SumOver(f, S) = c * Cardinality(S)
<1> DEFINE T == {s \in SUBSET S : SumOver(f, s) = c * Cardinality(s)}
<1>1. IsFiniteSet(S)
  BY FS_Subset DEF Summable
<1>2. {} \in T
  <2>1. SumOver(f, {}) = 0
    <3>1. DOMAIN Restrict(f, {}) = {}
      BY DEF Restrict
    <3>. QED  BY <3>1, SumOfNothing DEF SumOver
  <2>2. Cardinality({}) = 0
    BY FS_EmptySet
  <2>3. c * 0 = 0
    OBVIOUS
  <2>. QED  BY <2>1, <2>2, <2>3
<1>3. ASSUME NEW s \in SUBSET S, s # {}, \A x \in s : s \ {x} \in T
      PROVE  s \in T
  <2>1. PICK x \in s : TRUE
    BY <1>3
  <2>2. IsFiniteSet(s) /\ Cardinality(s) \in Nat /\ Cardinality(s \ {x}) = Cardinality(s) - 1
    BY <1>1, <2>1, FS_Subset, FS_CardinalityType, FS_RemoveElement
  <2>3. SumOver(f, s) = f[x] + SumOver(f, s \ {x})
    BY <2>1, SumOverWithout
  <2>4. SumOver(f, s \ {x}) = c * Cardinality(s \ {x}) /\ f[x] = c
    BY <1>3, <2>1
  <2> DEFINE n == Cardinality(s)
  <2>5. SumOver(f, s) = c + c * (n - 1) /\ n \in Nat
    BY <2>2, <2>3, <2>4
  <2> HIDE DEF n
  <2>6. c + c * (n - 1) = c * n
    BY <2>5
  <2>. QED  BY <2>5, <2>6 DEF n
<1>4. SUBSET S \subseteq T
  <2> HIDE DEF T
  <2>1. \A s \in SUBSET S : s # {} /\ (\A x \in s : s \ {x} \in T) => s \in T
    BY <1>3
  <2>. QED  BY <1>1, <1>2, <2>1, SubsetInduction
<1>. QED  BY <1>4

(* Sums of integers that are twice the one the sum of the others. *)
LEMMA SumOfHalves ==
  ASSUME NEW f, NEW a, NEW b, Summable(f), Summable(a), Summable(b),
         DOMAIN a = DOMAIN f, DOMAIN b = DOMAIN f,
         \A x \in DOMAIN f : 2 * f[x] = a[x] + b[x]
  PROVE  \A s \in SUBSET DOMAIN f : 2 * SumOver(f, s) = SumOver(a, s) + SumOver(b, s)
<1> DEFINE T == {s \in SUBSET DOMAIN f : 2 * SumOver(f, s) = SumOver(a, s) + SumOver(b, s)}
<1>1. {} \in T
  <2>1. \A h : SumOver(h, {}) = 0
    <3>1. \A h : DOMAIN Restrict(h, {}) = {}
      BY DEF Restrict
    <3>. QED  BY <3>1, SumOfNothing DEF SumOver
  <2>. QED  BY <2>1
<1>2. ASSUME NEW s \in SUBSET DOMAIN f, s # {}, \A x \in s : s \ {x} \in T
      PROVE  s \in T
  <2>1. PICK x \in s : TRUE
    BY <1>2
  <2>2. /\ SumOver(f, s) = f[x] + SumOver(f, s \ {x})
        /\ SumOver(a, s) = a[x] + SumOver(a, s \ {x})
        /\ SumOver(b, s) = b[x] + SumOver(b, s \ {x})
    BY <2>1, SumOverWithout
  <2>3. 2 * SumOver(f, s \ {x}) = SumOver(a, s \ {x}) + SumOver(b, s \ {x})
    BY <1>2, <2>1
  <2>4. /\ f[x] \in Int /\ a[x] \in Int /\ b[x] \in Int
        /\ SumOver(f, s \ {x}) \in Int /\ SumOver(a, s \ {x}) \in Int
        /\ SumOver(b, s \ {x}) \in Int
    <3>1. s \ {x} \subseteq DOMAIN f
      OBVIOUS
    <3>. QED  BY <2>1, <3>1, SumOverType DEF Summable
  <2>5. 2 * f[x] = a[x] + b[x]
    BY <2>1
  <2>. QED  BY <2>2, <2>3, <2>4, <2>5
<1>3. SUBSET DOMAIN f \subseteq T
  <2> HIDE DEF T
  <2>1. \A s \in SUBSET DOMAIN f :
          s # {} /\ (\A x \in s : s \ {x} \in T) => s \in T
    BY <1>2
  <2>. QED  BY <1>1, <2>1, SubsetInduction DEF Summable
<1>. QED  BY <1>3

(* A sum may be taken group by group: p says of an index which group it is *)
(* in.                                                                     *)
Group(p, s, v) == {x \in s : p[x] = v}

GroupSums(f, p, s, V) == [v \in V |-> SumOver(f, Group(p, s, v))]

LEMMA SumByGroups ==
  ASSUME NEW f, Summable(f), NEW V, IsFiniteSet(V),
         NEW p, \A x \in DOMAIN f : p[x] \in V
  PROVE  \A s \in SUBSET DOMAIN f :
           SumFunction(GroupSums(f, p, s, V)) = SumOver(f, s)
<1> DEFINE F(s) == GroupSums(f, p, s, V)
           T == {s \in SUBSET DOMAIN f : SumFunction(F(s)) = SumOver(f, s)}
<1>1. ASSUME NEW s \in SUBSET DOMAIN f
      PROVE  /\ Summable(F(s)) /\ DOMAIN F(s) = V
             /\ F(s) = [v \in V |-> F(s)[v]]
             /\ \A v \in V : F(s)[v] = SumOver(f, Group(p, s, v))
  <2>1. \A v \in V : Group(p, s, v) \subseteq DOMAIN f
    BY DEF Group
  <2>2. \A v \in V : SumOver(f, Group(p, s, v)) \in Int
    BY <2>1, SumOverType
  <2>. QED  BY <2>2 DEF Summable, GroupSums
<1>2. {} \in T
  <2>1. SumOver(f, {}) = 0
    <3>1. DOMAIN Restrict(f, {}) = {}
      BY DEF Restrict
    <3>. QED  BY <3>1, SumOfNothing DEF SumOver
  <2>2. {} \in SUBSET DOMAIN f /\ \A v \in V : Group(p, {}, v) = {}
    BY DEF Group
  <2>3. Summable(F({})) /\ DOMAIN F({}) = V /\ \A v \in V : F({})[v] = 0
    BY <1>1, <2>1, <2>2
  <2>4. SumOver(F({}), V) = 0 * Cardinality(V)
    <3> HIDE DEF F
    <3>. QED  BY <2>3, SumOfEqual
  <2>5. 0 * Cardinality(V) = 0
    <3>1. Cardinality(V) \in Nat
      BY FS_CardinalityType
    <3>. QED  BY <3>1
  <2>6. SumOver(F({}), V) = SumFunction(F({}))
    <3>1. F({}) = [v \in V |-> F({})[v]] /\ DOMAIN F({}) = V
      BY <1>1, <2>2
    <3> HIDE DEF F
    <3>. QED  BY <3>1, SumOverAll
  <2>. QED  BY <2>1, <2>4, <2>5, <2>6
<1>3. ASSUME NEW s \in SUBSET DOMAIN f, s # {}, \A x \in s : s \ {x} \in T
      PROVE  s \in T
  <2>1. PICK x \in s : TRUE
    BY <1>3
  <2> DEFINE s0 == s \ {x}
             u == p[x]
             rest == V \ {u}
  <2>2. s0 \in SUBSET DOMAIN f /\ u \in V /\ x \in DOMAIN f
    BY <2>1
  <2>3. SumFunction(F(s0)) = SumOver(f, s0) /\ SumOver(f, s) = f[x] + SumOver(f, s0)
    BY <1>3, <2>1, SumOverWithout
  <2>4. \A v \in rest : F(s)[v] = F(s0)[v]
    <3>1. \A v \in rest : Group(p, s, v) = Group(p, s0, v)
      BY DEF Group
    <3> HIDE DEF s0, F
    <3>. QED  BY <1>1, <2>2, <3>1
  <2>5. F(s)[u] = f[x] + F(s0)[u]
    <3>1. Group(p, s0, u) = Group(p, s, u) \ {x} /\ x \in Group(p, s, u)
          /\ Group(p, s, u) \subseteq DOMAIN f
      BY <2>1 DEF Group
    <3>2. SumOver(f, Group(p, s, u)) = f[x] + SumOver(f, Group(p, s, u) \ {x})
      BY <3>1, SumOverWithout
    <3> HIDE DEF s0, F, u
    <3>. QED  BY <1>1, <2>2, <3>1, <3>2
  <2>6. SumFunction(F(s)) = F(s)[u] + SumOver(F(s), rest)
        /\ SumFunction(F(s0)) = F(s0)[u] + SumOver(F(s0), rest)
    <3>1. /\ Summable(F(s)) /\ DOMAIN F(s) = V
          /\ Summable(F(s0)) /\ DOMAIN F(s0) = V
      BY <1>1, <2>2
    <3> HIDE DEF s0, F, u
    <3>. QED  BY <2>2, <3>1, SumWithout DEF SumOver
  <2>7. SumOver(F(s), rest) = SumOver(F(s0), rest)
    <3> HIDE DEF F, s0
    <3>1. Restrict(F(s), rest) = Restrict(F(s0), rest)
      BY <2>4 DEF Restrict
    <3>. QED  BY <3>1 DEF SumOver
  <2>8. /\ SumOver(F(s0), rest) \in Int /\ F(s0)[u] \in Int /\ f[x] \in Int
        /\ SumOver(f, s0) \in Int
    <3>1. Summable(F(s0)) /\ DOMAIN F(s0) = V /\ rest \subseteq V
      BY <1>1, <2>2
    <3> HIDE DEF s0, F, u
    <3>. QED  BY <2>2, <3>1, SumOverType DEF Summable
  <2> HIDE DEF s0, F, u, rest
  <2>. QED  BY <2>3, <2>5, <2>6, <2>7, <2>8 DEF s0
<1>4. SUBSET DOMAIN f \subseteq T
  <2> HIDE DEF T
  <2>1. \A s \in SUBSET DOMAIN f :
          s # {} /\ (\A x \in s : s \ {x} \in T) => s \in T
    BY <1>3
  <2>. QED  BY <1>2, <2>1, SubsetInduction DEF Summable
<1>. QED  BY <1>4

(* Min of a finite nonempty set of integers is its least element. *)
LEMMA MinOfFinite ==
  ASSUME NEW S, IsFiniteSet(S), S \subseteq Int, S # {}
  PROVE  Min(S) \in S /\ \A y \in S : Min(S) <= y
<1> DEFINE T == {s \in SUBSET S : s = {} \/ \E x \in s : \A y \in s : x <= y}
<1>1. {} \in T
  OBVIOUS
<1>2. ASSUME NEW s \in SUBSET S, s # {}, \A x \in s : s \ {x} \in T PROVE s \in T
  <2>1. PICK x \in s : TRUE
    BY <1>2
  <2>2. CASE s \ {x} = {}
    <3>1. x <= x /\ \A y \in s : y = x
      BY <2>1, <2>2
    <3>. QED  BY <3>1
  <2>3. CASE s \ {x} # {}
    <3>1. PICK z \in s \ {x} : \A y \in s \ {x} : z <= y
      BY <1>2, <2>3
    <3>2. x \in Int /\ z \in Int /\ \A y \in s : y \in Int /\ (y = x \/ z <= y)
      BY <3>1
    <3>3. CASE x <= z
      <4>1. \A y \in s : x <= y
        BY <3>2, <3>3
      <4>. QED  BY <4>1
    <3>4. CASE z <= x
      <4>1. \A y \in s : z <= y
        BY <3>2, <3>4
      <4>. QED  BY <3>1, <4>1
    <3>. QED  BY <3>2, <3>3, <3>4
  <2>. QED  BY <2>2, <2>3
<1>3. SUBSET S \subseteq T
  <2> HIDE DEF T
  <2>. QED  BY <1>1, <1>2, SubsetInduction
<1>4. \E x \in S : \A y \in S : x <= y
  <2>1. S \in T
    BY <1>3
  <2>. QED  BY <2>1
<1>. QED  BY <1>4 DEF Min

(* Max of a finite nonempty set of numbers is its greatest element. *)
LEMMA MaxOfFinite ==
  ASSUME NEW S, IsFiniteSet(S), S \subseteq Int, S # {}
  PROVE  Max(S) \in S /\ \A y \in S : y <= Max(S)
<1> DEFINE T == {s \in SUBSET S : s = {} \/ \E x \in s : \A y \in s : x >= y}
<1>1. {} \in T
  OBVIOUS
<1>2. ASSUME NEW s \in SUBSET S, s # {}, \A x \in s : s \ {x} \in T PROVE s \in T
  <2>1. PICK x \in s : TRUE
    BY <1>2
  <2>2. CASE s \ {x} = {}
    <3>1. x >= x /\ \A y \in s : y = x
      BY <2>1, <2>2
    <3>. QED  BY <3>1
  <2>3. CASE s \ {x} # {}
    <3>1. PICK z \in s \ {x} : \A y \in s \ {x} : z >= y
      BY <1>2, <2>3
    <3>2. x \in Int /\ z \in Int /\ \A y \in s : y \in Int /\ (y = x \/ z >= y)
      BY <3>1
    <3>3. CASE x >= z
      <4>1. \A y \in s : x >= y
        BY <3>2, <3>3
      <4>. QED  BY <4>1
    <3>4. CASE z >= x
      <4>1. \A y \in s : z >= y
        BY <3>2, <3>4
      <4>. QED  BY <3>1, <4>1
    <3>. QED  BY <3>2, <3>3, <3>4
  <2>. QED  BY <2>2, <2>3
<1>3. SUBSET S \subseteq T
  <2> HIDE DEF T
  <2>. QED  BY <1>1, <1>2, SubsetInduction
<1>4. \E x \in S : \A y \in S : x >= y
  <2>1. S \in T
    BY <1>3
  <2>. QED  BY <2>1
<1>5. Max(S) \in S /\ \A y \in S : Max(S) >= y
  BY <1>4 DEF Max
<1>. QED  BY <1>5

----------------------------------------------------------------------------
(* What a vertex program makes of integers are integers. *)
LEMMA ComputeType ==
  ASSUME NEW v \in Int, NEW value \in Int, NEW degree \in Nat, NEW msgs,
         NEW teleport \in Int, NEW iteration,
         IsFiniteSet(DOMAIN msgs), \A e \in DOMAIN msgs : msgs[e] \in Int
  PROVE  LET r == ComputeVertex(v, value, degree, msgs, teleport, iteration)
         IN  r.value \in Int /\ r.send \subseteq Int
<1> DEFINE best == Min({value} \cup Range(msgs))
           sum == SumFunction(msgs)
           base == IF teleport = NoTeleport THEN Unit - Damp(Unit) ELSE teleport
           rank == IF iteration = 1 THEN value ELSE Damp(sum) + base
           share == rank \div degree
<1>1. best \in Int
  <2>1. Range(msgs) = {msgs[e] : e \in DOMAIN msgs}
    BY DEF Range
  <2>2. IsFiniteSet(Range(msgs))
    <3> DEFINE g == [e \in DOMAIN msgs |-> msgs[e]]
    <3>1. g \in Surjection(DOMAIN msgs, Range(msgs))
      BY <2>1 DEF Surjection
    <3>. QED  BY <3>1, FS_Surjection
  <2>3. IsFiniteSet({value} \cup Range(msgs))
    BY <2>2, FS_Singleton, FS_Union
  <2>4. {value} \cup Range(msgs) \subseteq Int /\ {value} \cup Range(msgs) # {}
    BY <2>1
  <2>5. best \in {value} \cup Range(msgs)
    BY <2>3, <2>4, MinOfFinite
  <2>. QED  BY <2>4, <2>5
<1>2. rank \in Int
  <2>1. sum \in Int /\ base \in Int
    BY SumType, UnitAssumption DEF NoTeleport, Damp
  <2> HIDE DEF sum, base
  <2>. QED  BY <2>1 DEF Damp
<1>3. degree > 0 => share \in Int
  <2> HIDE DEF rank
  <2>. QED  BY <1>2
<1>4. CASE Algorithm = "wcc"
  <2>1. ComputeVertex(v, value, degree, msgs, teleport, iteration)
          = IF iteration = 1 THEN [value |-> v, send |-> {v}]
            ELSE [value |-> best, send |-> IF best < value THEN {best} ELSE {}]
    BY <1>4 DEF ComputeVertex, Wcc
  <2> HIDE DEF best
  <2>. QED  BY <1>1, <2>1
<1>5. CASE Algorithm # "wcc"
  <2>1. ComputeVertex(v, value, degree, msgs, teleport, iteration)
          = [value |-> rank, send |-> IF degree > 0 THEN {share} ELSE {}]
    BY <1>5 DEF ComputeVertex, PageRank
  <2> HIDE DEF rank, share
  <2>. QED  BY <1>2, <1>3, <2>1
<1>. QED  BY <1>4, <1>5

(* The teleport of integer ranks is an integer. *)
LEMMA TeleportType ==
  ASSUME NEW vertices, NEW teleport \in Int, NEW v,
         DOMAIN vertices \subseteq Nat, \A u \in DOMAIN vertices : vertices[u] \in Int
  PROVE  TeleportAt(vertices, teleport, v) \in Int
<1> DEFINE positive == {u \in DOMAIN vertices : u <= v /\ vertices[u] > 0}
<1>1. CASE positive = {}
  BY <1>1 DEF TeleportAt
<1>2. CASE positive # {}
  <2>1. Min(positive) \in positive
    BY <1>2, MinIsLeast
  <2>2. vertices[Min(positive)] \in Int
    BY <2>1
  <2> HIDE DEF positive
  <2>3. \/ TeleportAt(vertices, teleport, v) = teleport
        \/ TeleportAt(vertices, teleport, v)
             = vertices[Min(positive)] - Damp(vertices[Min(positive)])
    BY DEF TeleportAt, positive
  <2>. QED  BY <2>2, <2>3 DEF Damp
<1>. QED  BY <1>1, <1>2

(* Labels stay natural numbers, and so does what is sent. *)
LEMMA WccType ==
  ASSUME NEW v \in Nat, NEW value, NEW msgs, NEW iteration,
         iteration # 1 => value \in Nat,
         \A e \in DOMAIN msgs : msgs[e] \in Nat
  PROVE  LET r == Wcc(v, value, msgs, iteration)
         IN  r.value \in Nat /\ r.send \subseteq Nat
<1>1. CASE iteration = 1
  BY <1>1 DEF Wcc
<1>2. CASE iteration # 1
  <2>1. /\ {value} \cup Range(msgs) \subseteq Nat
        /\ {value} \cup Range(msgs) # {}
    BY <1>2 DEF Range
  <2>2. Min({value} \cup Range(msgs)) \in Nat
    BY <2>1, MinIsLeast
  <2>. QED  BY <1>2, <2>2 DEF Wcc
<1>. QED  BY <1>1, <1>2

(* Without messages a label stays what it is and is not sent on. *)
LEMMA WccQuiet ==
  ASSUME NEW v, NEW value \in Nat, NEW msgs, NEW iteration,
         iteration # 1, DOMAIN msgs = {}
  PROVE  LET r == Wcc(v, value, msgs, iteration)
         IN  r.value = value /\ r.send = {}
<1>1. {value} \cup Range(msgs) = {value}
  BY DEF Range
<1>2. Min({value}) = value
  BY MinIsLeast
<1>3. ~ (value < value)
  OBVIOUS
<1>. QED  BY <1>1, <1>2, <1>3 DEF Wcc

(* process_superstep of WCC on labels and messages that are numbers yields *)
(* labels and messages that are numbers.                                   *)
LEMMA SuperstepType ==
  ASSUME Algorithm = "wcc",
         NEW db, NEW mail, NEW t, NEW k,
         DOMAIN db.vertices \subseteq Nat,
         k # 1 => \A v \in DOMAIN db.vertices : db.vertices[v] \in Nat,
         \A e \in DOMAIN mail : mail[e] \in Nat
  PROVE  LET r == ProcessSuperstep(db, mail, t, k)
         IN  /\ \A v \in DOMAIN r.db.vertices : r.db.vertices[v] \in Nat
             /\ \A e \in DOMAIN r.outbox : r.outbox[e] \in Nat
<1> DEFINE out(v) == {e \in db.edges : e.src = v}
           result == [v \in DOMAIN db.vertices |->
                        ComputeVertex(v, db.vertices[v], Cardinality(out(v)),
                                      MailOf(mail, v),
                                      TeleportAt(db.vertices, t, v), k)]
           sent == {e \in db.edges :
                      e.src \in DOMAIN result /\ result[e.src].send # {}}
<1>1. \A v \in DOMAIN db.vertices :
        result[v] = Wcc(v, db.vertices[v], MailOf(mail, v), k)
  BY DEF ComputeVertex
<1>2. \A v : \A e \in DOMAIN MailOf(mail, v) : MailOf(mail, v)[e] \in Nat
  BY DEF MailOf, Restrict
<1>3. DOMAIN result = DOMAIN db.vertices
  OBVIOUS
<1>4. /\ ProcessSuperstep(db, mail, t, k).db.vertices
           = [v \in DOMAIN db.vertices |-> result[v].value]
      /\ ProcessSuperstep(db, mail, t, k).outbox
           = [e \in sent |-> CHOOSE m \in result[e.src].send : TRUE]
  BY DEF ProcessSuperstep
<1> HIDE DEF result
<1>5. \A v \in DOMAIN db.vertices : result[v].value \in Nat /\ result[v].send \subseteq Nat
  BY <1>1, <1>2, WccType
<1>. QED  BY <1>3, <1>4, <1>5

(* A WCC superstep after the first that meets no messages changes no label *)
(* and sends nothing.                                                      *)
LEMMA SuperstepQuiet ==
  ASSUME Algorithm = "wcc",
         NEW db, NEW mail, NEW t, NEW k,
         k # 1, DOMAIN mail = {},
         \A v \in DOMAIN db.vertices : db.vertices[v] \in Nat
  PROVE  LET r == ProcessSuperstep(db, mail, t, k)
         IN  /\ \A v \in DOMAIN db.vertices : r.db.vertices[v] = db.vertices[v]
             /\ DOMAIN r.outbox = {}
<1> DEFINE out(v) == {e \in db.edges : e.src = v}
           result == [v \in DOMAIN db.vertices |->
                        ComputeVertex(v, db.vertices[v], Cardinality(out(v)),
                                      MailOf(mail, v),
                                      TeleportAt(db.vertices, t, v), k)]
           sent == {e \in db.edges :
                      e.src \in DOMAIN result /\ result[e.src].send # {}}
<1>1. \A v \in DOMAIN db.vertices :
        result[v] = Wcc(v, db.vertices[v], MailOf(mail, v), k)
  BY DEF ComputeVertex
<1>2. \A v : DOMAIN MailOf(mail, v) = {}
  BY DEF MailOf, Restrict
<1>3. DOMAIN result = DOMAIN db.vertices
  OBVIOUS
<1>4. /\ ProcessSuperstep(db, mail, t, k).db.vertices
           = [v \in DOMAIN db.vertices |-> result[v].value]
      /\ DOMAIN ProcessSuperstep(db, mail, t, k).outbox = sent
  BY DEF ProcessSuperstep
<1> HIDE DEF result
<1>5. ASSUME NEW v \in DOMAIN db.vertices
      PROVE  result[v].value = db.vertices[v] /\ result[v].send = {}
  <2>1. db.vertices[v] \in Nat /\ DOMAIN MailOf(mail, v) = {}
    BY <1>2
  <2>. QED  BY <1>1, <2>1, WccQuiet
<1>. QED  BY <1>3, <1>4, <1>5

============================================================================
