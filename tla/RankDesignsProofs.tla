-------------------------- MODULE RankDesignsProofs --------------------------
(***************************************************************************)
(* Proofs about the search for the best designs: every variable keeps its  *)
(* type, every design in the heap is valid whenever the search ends, and a *)
(* search that ends in time has found the best ones.                       *)
(*                                                                         *)
(* A path that the search has open is extended and cut back all the time,  *)
(* so the first invariant speaks of each prefix of it (PathInv): a good    *)
(* path of layers takes one option of each layer, without conflicts; a     *)
(* good path of the other search adds one element of a new category at     *)
(* every step, so that its design has as many elements as forced and       *)
(* picked together.                                                        *)
(*                                                                         *)
(* The second one says that nothing is lost (Coverage): a design within    *)
(* reach is in the heap, or a full heap of designs at least as good has    *)
(* beaten it, or it is still ahead: one of the open loops has not tried    *)
(* the option that leads to it, or the call just entered leads to it.      *)
(*                                                                         *)
(* Scores are sums over finite sets, the best of a set is a CHOOSE.  What  *)
(* they are is proved by induction on finite sets: the proper subsets of a *)
(* finite set are well-founded, and a set of sets takes the place of the   *)
(* predicate of an induction theorem.                                      *)
(***************************************************************************)
EXTENDS RankDesigns, FiniteSetTheorems, SequenceTheorems, WellFoundedInduction, TLAPS

-----------------------------------------------------------------------------
(* Finite sets: induction, first elements, sums.                           *)

\* A set of subsets of a finite set contains all of them if it contains each one
\* whose proper subsets it contains.
LEMMA FiniteInduction ==
    ASSUME NEW S, IsFiniteSet(S), NEW Good,
           \A T \in SUBSET S : (\A U \in SUBSET T : U # T => U \in Good) => T \in Good
    PROVE  S \in Good
<1> DEFINE Bad == (SUBSET S) \ Good
           R == StrictSubsetOrdering(S)
<1>1. SUFFICES ASSUME S \notin Good PROVE FALSE
  OBVIOUS
<1>2. IsWellFoundedOn(R, SUBSET S)
  BY FS_StrictSubsetOrderingWellFounded, FS_FiniteSubsetsOfFinite
<1>3. Bad \subseteq SUBSET S /\ Bad # {}
  BY <1>1
<1> HIDE DEF R, Bad
<1>4. PICK T \in Bad : \A U \in Bad : <<U, T>> \notin R
  BY <1>2, <1>3, WFMin
<1>5. \A U \in SUBSET T : U # T => U \in Good
  BY <1>4 DEF R, Bad, StrictSubsetOrdering
<1> QED
  BY <1>4, <1>5 DEF Bad

\* R compares any two elements of S, and is transitive on it.
Orders(R, S) ==
    /\ \A x, y \in S : x # y => <<x, y>> \in R \/ <<y, x>> \in R
    /\ \A x, y, z \in S : <<x, y>> \in R /\ <<y, z>> \in R => <<x, z>> \in R

\* A total order has a first element in each finite set.
LEMMA FirstExists ==
    ASSUME NEW S, IsFiniteSet(S), S # {}, NEW R, Orders(R, S)
    PROVE  \E m \in S : \A x \in S \ {m} : <<m, x>> \in R
<1> DEFINE First(m, T) == m \in T /\ \A x \in T \ {m} : <<m, x>> \in R
           Good == {T \in SUBSET S : T = {} \/ \E m \in T : First(m, T)}
<1>1. ASSUME NEW T \in SUBSET S, \A U \in SUBSET T : U # T => U \in Good, T # {}
      PROVE  \E m \in T : First(m, T)
  <2>1. PICK x \in T : TRUE
    BY <1>1
  <2>2. CASE T = {x}
    BY <2>2
  <2>3. CASE T \ {x} # {}
    <3>1. PICK m \in T \ {x} : First(m, T \ {x})
      <4> DEFINE U == T \ {x}
      <4> HIDE DEF First
      <4>1. U \in SUBSET T /\ U # T /\ U # {}
        BY <2>1, <2>3
      <4>2. U \in Good
        BY <1>1, <4>1
      <4> QED
        BY <4>1, <4>2
    <3>2. m \in S /\ x \in S /\ m # x /\ T \subseteq S
      BY <2>1, <3>1
    <3>3. CASE <<m, x>> \in R
      BY <3>1, <3>3
    <3>4. CASE <<x, m>> \in R
      BY <2>1, <3>1, <3>2, <3>4 DEF Orders
    <3> QED
      BY <3>2, <3>3, <3>4 DEF Orders
  <2> QED
    BY <2>1, <2>2, <2>3
<1>2. S \in Good
  <2> HIDE DEF First
  <2>1. \A T \in SUBSET S : (\A U \in SUBSET T : U # T => U \in Good) => T \in Good
    BY <1>1
  <2> HIDE DEF Good
  <2> QED
    BY <2>1, FiniteInduction
<1> QED
  BY <1>2

\* Induction on numbers, with a set in place of the predicate.
LEMMA NatSetInduction ==
    ASSUME NEW Good, 0 \in Good, \A n \in Nat : n \in Good => n + 1 \in Good
    PROVE  Nat \subseteq Good
<1> SUFFICES ASSUME NEW b \in Nat, b \notin Good PROVE FALSE
  OBVIOUS
<1> DEFINE Bad == (0 .. b) \ Good
           R == {p \in Nat \X Nat : p[1] < p[2]}
<1>1. IsFiniteSet(Bad) /\ Bad # {} /\ Bad \subseteq Nat
  <2>1. IsFiniteSet(0 .. b)
    BY FS_Interval
  <2>2. b \in Bad /\ Bad \subseteq 0 .. b
    OBVIOUS
  <2> QED
    BY <2>1, <2>2, FS_Subset
<1>2. Orders(R, Bad)
  BY DEF Orders
<1>4. PICK m \in Bad : \A x \in Bad \ {m} : <<m, x>> \in R
  BY <1>1, <1>2, FirstExists
<1>5. m # 0 /\ m - 1 \in Nat /\ m - 1 < m /\ m - 1 \in 0 .. b /\ m \in Nat
  BY <1>4
<1>6. ASSUME NEW k \in Bad, k = m - 1 PROVE FALSE
  <2>1. k # m /\ k < m
    BY <1>5, <1>6
  <2>2. <<m, k>> \in R
    BY <1>4, <2>1, <1>6
  <2> QED
    BY <2>1, <2>2
<1>7. m - 1 + 1 = m
  BY <1>5
<1> QED
  BY <1>4, <1>5, <1>6, <1>7

\* The equation of the function that MapThenSumSet defines, for the summands g.
IsSum(g, S, sum) ==
    sum = [s \in SUBSET S |->
              IF s = {} THEN 0
              ELSE LET x == CHOOSE x \in s : TRUE IN g[x] + sum[s \ {x}]]

AnElement(s) == CHOOSE x \in s : TRUE

Unfolds(g, sum, s) ==
    /\ s = {} => sum[s] = 0
    /\ s # {} => /\ AnElement(s) \in s
                 /\ sum[s] = g[AnElement(s)] + sum[s \ {AnElement(s)}]

LEMMA SumUnfolds ==
    ASSUME NEW g, NEW S, NEW sum, IsSum(g, S, sum), NEW s \in SUBSET S
    PROVE  Unfolds(g, sum, s)
<1>1. s # {} => AnElement(s) \in s
  BY DEF AnElement
<1>2. sum[s] = IF s = {} THEN 0 ELSE g[AnElement(s)] + sum[s \ {AnElement(s)}]
  BY DEF IsSum, AnElement
<1> QED
  BY <1>1, <1>2 DEF Unfolds

Solution(g, S) == CHOOSE sum : IsSum(g, S, sum)
Total(g, S) == Solution(g, S)[S]

LEMMA SumIsUnique ==
    ASSUME NEW D, NEW g \in [D -> Int], NEW S \in SUBSET D, IsFiniteSet(S),
           NEW T, NEW U, S \subseteq T, S \subseteq U,
           NEW sum, NEW mus, IsSum(g, T, sum), IsSum(g, U, mus)
    PROVE  sum[S] = mus[S] /\ sum[S] \in Int
<1> DEFINE Good == {s \in SUBSET S : sum[s] = mus[s] /\ sum[s] \in Int}
<1>1. ASSUME NEW s \in SUBSET S, \A u \in SUBSET s : u # s => u \in Good
      PROVE  s \in Good
  <2>1. Unfolds(g, sum, s) /\ Unfolds(g, mus, s)
    <3>1. s \in SUBSET T /\ s \in SUBSET U
      OBVIOUS
    <3> QED
      BY <3>1, SumUnfolds
  <2>2. CASE s = {}
    BY <2>1, <2>2 DEF Unfolds
  <2>3. CASE s # {}
    <3> DEFINE x == AnElement(s)
               u == s \ {x}
    <3> HIDE DEF x
    <3>1. x \in s /\ sum[s] = g[x] + sum[u] /\ mus[s] = g[x] + mus[u]
      BY <2>1, <2>3 DEF x, Unfolds
    <3>2. u \in SUBSET s /\ u # s
      BY <3>1
    <3>3. u \in Good
      BY <1>1, <3>2
    <3> QED
      BY <3>1, <3>3
  <2> QED
    BY <2>2, <2>3
<1> QED
  <2> HIDE DEF Good
  <2>1. S \in Good
    BY <1>1, FiniteInduction
  <2> QED
    BY <2>1 DEF Good

LEMMA SolutionSolves ==
    ASSUME NEW g, NEW S, \E sum : IsSum(g, S, sum)
    PROVE  IsSum(g, S, Solution(g, S))
BY DEF Solution

LEMMA SumIsTotal ==
    ASSUME NEW D, NEW g \in [D -> Int], NEW S \in SUBSET D, IsFiniteSet(S),
           \E sum : IsSum(g, S, sum), NEW T, S \subseteq T, NEW sum, IsSum(g, T, sum)
    PROVE  sum[S] = Total(g, S) /\ sum[S] \in Int
<1>1. IsSum(g, S, Solution(g, S))
  BY SolutionSolves
<1> QED
  BY <1>1, SumIsUnique DEF Total

LEMMA SumExists ==
    ASSUME NEW S, IsFiniteSet(S), NEW g \in [S -> Int]
    PROVE  \E sum : IsSum(g, S, sum)
<1> DEFINE Good == {T \in SUBSET S : \E sum : IsSum(g, T, sum)}
<1>1. ASSUME NEW T \in SUBSET S, \A U \in SUBSET T : U # T => U \in Good
      PROVE  T \in Good
  <2> DEFINE sum == [s \in SUBSET T |->
                       IF s = {} THEN 0
                       ELSE g[AnElement(s)] + Total(g, s \ {AnElement(s)})]
  <2>1. ASSUME NEW U \in SUBSET T, U # T
        PROVE  /\ U \in SUBSET S /\ IsFiniteSet(U) /\ \E j : IsSum(g, U, j)
               /\ IsSum(g, U, Solution(g, U))
    BY <1>1, <2>1, FS_Subset, SolutionSolves
  <2>2. ASSUME NEW u \in SUBSET T, u # T
        PROVE  Total(g, u) = sum[u]
    <3>1. IsSum(g, u, Solution(g, u))
      BY <2>1, <2>2
    <3>2. Unfolds(g, Solution(g, u), u)
      <4>1. u \in SUBSET u
        OBVIOUS
      <4> QED
        BY <3>1, <4>1, SumUnfolds
    <3>3. CASE u = {}
      BY <3>2, <3>3 DEF Unfolds, Total
    <3>4. CASE u # {}
      <4> DEFINE y == AnElement(u)
                 v == u \ {y}
      <4>1. y \in u /\ Total(g, u) = g[y] + Solution(g, u)[v]
        BY <3>2, <3>4 DEF Unfolds, Total
      <4>2. v \in SUBSET T /\ v # T /\ v \subseteq u
        BY <2>2, <4>1
      <4> HIDE DEF v
      <4>3. v \in SUBSET S /\ IsFiniteSet(v) /\ \E j : IsSum(g, v, j)
        BY <2>1, <4>2
      <4>4. Solution(g, u)[v] = Total(g, v)
        BY <3>1, <4>2, <4>3, SumIsTotal
      <4> QED
        BY <3>4, <4>1, <4>4 DEF v
    <3> QED
      BY <3>3, <3>4
  <2>3. \A s \in SUBSET T : s # {} => sum[s] = g[AnElement(s)] + sum[s \ {AnElement(s)}]
    <3> SUFFICES ASSUME NEW s \in SUBSET T, s # {}
                 PROVE  sum[s] = g[AnElement(s)] + sum[s \ {AnElement(s)}]
      OBVIOUS
    <3> DEFINE w == s \ {AnElement(s)}
    <3>1. w \in SUBSET T /\ w # T
      BY DEF AnElement
    <3>2. sum[s] = g[AnElement(s)] + Total(g, w)
      OBVIOUS
    <3> HIDE DEF sum, w
    <3>3. Total(g, w) = sum[w]
      BY <2>2, <3>1
    <3> QED
      BY <3>2, <3>3 DEF w
  <2>4. /\ sum = [s \in SUBSET T |-> sum[s]]
        /\ sum[{}] = 0
    OBVIOUS
  <2> HIDE DEF sum
  <2>5. sum = [s \in SUBSET T |->
                  IF s = {} THEN 0 ELSE g[AnElement(s)] + sum[s \ {AnElement(s)}]]
    BY <2>3, <2>4
  <2>6. IsSum(g, T, sum)
    BY <2>5 DEF IsSum, AnElement
  <2> QED
    BY <2>6
<1> QED
  <2> HIDE DEF Good
  <2>1. S \in Good
    BY <1>1, FiniteInduction
  <2> QED
    BY <2>1 DEF Good

LEMMA TotalIsInt ==
    ASSUME NEW D, NEW g \in [D -> Int], NEW S \in SUBSET D, IsFiniteSet(S)
    PROVE  /\ IsSum(g, S, Solution(g, S))
           /\ Total(g, S) \in Int
           /\ S = {} => Total(g, S) = 0
<1>1. [x \in S |-> g[x]] \in [S -> Int]
  OBVIOUS
<1>2. PICK sum : IsSum([x \in S |-> g[x]], S, sum)
  BY <1>1, SumExists
<1>3. IsSum(g, S, sum)
  BY <1>2 DEF IsSum
<1>4. IsSum(g, S, Solution(g, S))
  BY <1>3, SolutionSolves
<1>5. Total(g, S) \in Int
  BY <1>3, SumIsTotal
<1>6. Unfolds(g, Solution(g, S), S)
  BY <1>4, SumUnfolds
<1> QED
  BY <1>4, <1>5, <1>6 DEF Unfolds, Total

\* Whichever element is taken from a sum first, the rest adds up to the same.
LEMMA TotalRemoves ==
    ASSUME NEW D, NEW g \in [D -> Int], NEW S \in SUBSET D, IsFiniteSet(S)
    PROVE  \A x \in S : Total(g, S) = g[x] + Total(g, S \ {x})
<1> DEFINE Good == {T \in SUBSET S : \A x \in T : Total(g, T) = g[x] + Total(g, T \ {x})}
<1>1. ASSUME NEW T \in SUBSET S
      PROVE  T \in SUBSET D /\ IsFiniteSet(T) /\ Total(g, T) \in Int
  BY FS_Subset, TotalIsInt
<1>2. ASSUME NEW T \in SUBSET S, T # {}
      PROVE  /\ AnElement(T) \in T
             /\ Total(g, T) = g[AnElement(T)] + Total(g, T \ {AnElement(T)})
  <2> DEFINE y == AnElement(T)
             u == T \ {y}
  <2>1. IsSum(g, T, Solution(g, T))
    BY <1>1, TotalIsInt
  <2>2. Unfolds(g, Solution(g, T), T)
    <3>1. T \in SUBSET T
      OBVIOUS
    <3> QED
      BY <2>1, <3>1, SumUnfolds
  <2>3. y \in T /\ Total(g, T) = g[y] + Solution(g, T)[u]
    BY <1>2, <2>2 DEF Unfolds, Total
  <2>4. u \in SUBSET S /\ u \subseteq T
    OBVIOUS
  <2> HIDE DEF u
  <2>5. u \in SUBSET D /\ IsFiniteSet(u) /\ \E j : IsSum(g, u, j)
    BY <1>1, <2>4, TotalIsInt
  <2>6. Solution(g, T)[u] = Total(g, u)
    BY <2>1, <2>4, <2>5, SumIsTotal
  <2> QED
    BY <2>3, <2>6 DEF u
<1>3. ASSUME NEW T \in SUBSET S, \A U \in SUBSET T : U # T => U \in Good, NEW x \in T
      PROVE  Total(g, T) = g[x] + Total(g, T \ {x})
  <2> DEFINE y == AnElement(T)
             u == T \ {y}
             v == T \ {x}
             w == (T \ {x}) \ {y}
  <2>1. y \in T /\ Total(g, T) = g[y] + Total(g, u)
    BY <1>2
  <2>2. CASE x = y
    BY <2>1, <2>2
  <2>3. CASE x # y
    <3>1. /\ u \in SUBSET T /\ u # T /\ x \in u /\ u \ {x} = w
          /\ v \in SUBSET T /\ v # T /\ y \in v /\ v \ {y} = w
          /\ w \in SUBSET S
      BY <2>1, <2>3
    <3> HIDE DEF u, v, w, y
    <3>2. Total(g, u) = g[x] + Total(g, w)
      BY <1>3, <3>1
    <3>3. Total(g, v) = g[y] + Total(g, w)
      BY <1>3, <3>1
    <3>4. g[x] \in Int /\ g[y] \in Int /\ Total(g, w) \in Int
      BY <1>1, <2>1, <3>1
    <3>5. Total(g, T) = g[x] + Total(g, v)
      BY <2>1, <3>2, <3>3, <3>4
    <3> QED
      BY <3>5 DEF v
  <2> QED
    BY <2>2, <2>3
<1> QED
  <2>1. \A T \in SUBSET S : (\A U \in SUBSET T : U # T => U \in Good) => T \in Good
    BY <1>3
  <2> HIDE DEF Good
  <2>2. S \in Good
    BY <2>1, FiniteInduction
  <2> QED
    BY <2>2 DEF Good

-----------------------------------------------------------------------------
(* Good paths, valid designs.                                              *)

Picks == Categories(study) \X Nat
DesignOf(p) == Seed \cup {e \in ToSet(p) : e[2] # 0}

GoodLayers(p) ==
    /\ Len(p) <= Len(study.value)
    /\ \A i \in DOMAIN p : p[i] \in LayerOptions(i)
    /\ \A i, j \in DOMAIN p : <<p[i], p[j]>> \notin Conflicts

GoodOthers(p) ==
    /\ \A i \in DOMAIN p : p[i] \in Elements(study) /\ p[i][1] \notin ForcedCategories
    /\ \A e, f \in DesignOf(p) : e[1] = f[1] => e = f
    /\ IsFiniteSet(DesignOf(p))
    /\ Cardinality(DesignOf(p)) = Cardinality(study.forced) + Len(p)

GoodPaths == {p \in Seq(Picks) : IF study.layered THEN GoodLayers(p) ELSE GoodOthers(p)}
ValidDesigns == {D \in Selections : IsValid(D)}

PathInv == \A k \in 0 .. Len(path) : SubSeq(path, 1, k) \in GoodPaths
StackInv ==
    /\ pc = "call" => Len(tried) = Len(path)
    /\ pc = "loop" => /\ Len(tried) = Len(path) + 1
                      /\ study.layered => Len(path) < Len(study.value)
Inv == TypeOK /\ PathInv /\ StackInv /\ heap \subseteq ValidDesigns

-----------------------------------------------------------------------------
(* The input does not change.                                              *)

LEMMA SameInput ==
    ASSUME study' = study
    PROVE  /\ GoodPaths' = GoodPaths /\ ValidDesigns' = ValidDesigns
           /\ Picks' = Picks /\ Elements(study)' = Elements(study)
<1>1. Conflicts' = Conflicts
  BY DEF Conflicts
<1>2. ASSUME NEW c
      PROVE  LayerOptions(c)' = LayerOptions(c)
  BY DEF LayerOptions, Candidates, Of, ForcedCategories, Elements, Categories
<1>3. Picks' = Picks /\ Elements(study)' = Elements(study) /\ ForcedCategories' = ForcedCategories
  BY DEF Picks, Elements, Categories, ForcedCategories
<1>4. GoodPaths' = GoodPaths
  BY <1>1, <1>2, <1>3 DEF GoodPaths, GoodLayers, GoodOthers, DesignOf, Seed
<1>5. ValidDesigns' = ValidDesigns
  BY <1>1, <1>3 DEF ValidDesigns, Selections, IsValid, PassesRequireAny, TargetCount, Categories
<1> QED
  BY <1>3, <1>4, <1>5

LEMMA Input ==
    ASSUME TypeOK
    PROVE  IsStudy(study)
  BY RankAssumption DEF TypeOK

LEMMA ElementFacts ==
    ASSUME TypeOK, NEW e \in Elements(study)
    PROVE  /\ e \in Picks /\ e[2] # 0
           /\ e[1] \in 1 .. Len(study.value)
           /\ e = <<e[1], e[2]>>
<1>1. study.value \in Seq(Seq(Int))
  BY Input DEF IsStudy
<1>2. PICK c \in Categories(study) : e \in {c} \X DOMAIN study.value[c]
  BY DEF Elements
<1>3. DOMAIN study.value[c] \subseteq Nat \ {0}
  BY <1>1, <1>2 DEF Categories
<1> QED
  BY <1>1, <1>2, <1>3 DEF Picks, Categories

-----------------------------------------------------------------------------
(* Prefixes.                                                               *)

LEMMA SeqFront ==
    ASSUME NEW S, NEW s \in Seq(S), s # <<>>
    PROVE  /\ Front(s) \in Seq(S) /\ Len(Front(s)) = Len(s) - 1
           /\ \A k \in 0 .. Len(s) - 1 : SubSeq(Front(s), 1, k) = SubSeq(s, 1, k)
<1>1. Len(s) \in Nat /\ Len(s) > 0
  OBVIOUS
<1>2. Front(s) \in Seq(S) /\ Len(Front(s)) = Len(s) - 1
  <2>1. \A i \in 1 .. Len(s) - 1 : s[i] \in S
    BY <1>1, ElementOfSeq
  <2>2. 1 \in Int /\ Len(s) - 1 \in Int
    BY <1>1
  <2>3. /\ SubSeq(s, 1, Len(s) - 1) \in Seq(S)
        /\ Len(SubSeq(s, 1, Len(s) - 1)) =
              IF 1 <= Len(s) - 1 THEN Len(s) - 1 - 1 + 1 ELSE 0
    BY <2>1, <2>2, SubSeqProperties
  <2>4. (IF 1 <= Len(s) - 1 THEN Len(s) - 1 - 1 + 1 ELSE 0) = Len(s) - 1
    <3>1. \A n \in Nat : n > 0 => (IF 1 <= n - 1 THEN n - 1 - 1 + 1 ELSE 0) = n - 1
      OBVIOUS
    <3> QED
      BY <1>1, <3>1
  <2>5. Front(s) = SubSeq(s, 1, Len(s) - 1)
    BY Zenon DEF Front
  <2> QED
    BY <2>3, <2>4, <2>5, Zenon
<1>3. \A i \in 1 .. Len(s) - 1 : Front(s)[i] = s[i]
  BY <1>1 DEF Front
<1>4. ASSUME NEW k \in 0 .. Len(s) - 1
      PROVE  SubSeq(Front(s), 1, k) = SubSeq(s, 1, k)
  BY <1>1, <1>2, <1>3, <1>4
<1> QED
  BY <1>2, <1>4

LEMMA SeqAppend ==
    ASSUME NEW S, NEW s \in Seq(S), NEW e \in S
    PROVE  /\ Append(s, e) \in Seq(S) /\ Len(Append(s, e)) = Len(s) + 1
           /\ \A k \in 0 .. Len(s) : SubSeq(Append(s, e), 1, k) = SubSeq(s, 1, k)
           /\ SubSeq(Append(s, e), 1, Len(s) + 1) = Append(s, e)
<1>1. Len(s) \in Nat /\ Append(s, e) \in Seq(S) /\ Len(Append(s, e)) = Len(s) + 1
  OBVIOUS
<1>2. ASSUME NEW k \in 0 .. Len(s)
      PROVE  SubSeq(Append(s, e), 1, k) = SubSeq(s, 1, k)
  BY <1>1
<1>3. SubSeq(Append(s, e), 1, Len(s) + 1) = Append(s, e)
  BY <1>1
<1> QED
  BY <1>1, <1>2, <1>3

LEMMA SeqElements ==
    ASSUME NEW S, NEW s \in Seq(S), NEW e \in S
    PROVE  /\ \A k \in 1 .. Len(s) : s[k] \in ToSet(s)
           /\ ToSet(Append(s, e)) = ToSet(s) \cup {e}
<1>1. DOMAIN s = 1 .. Len(s) /\ Len(s) \in Nat
  OBVIOUS
<1>2. DOMAIN Append(s, e) = 1 .. Len(s) + 1
  BY <1>1
<1>3. \A k \in 1 .. Len(s) : Append(s, e)[k] = s[k]
  OBVIOUS
<1>4. Append(s, e)[Len(s) + 1] = e
  OBVIOUS
<1>5. ToSet(Append(s, e)) \subseteq ToSet(s) \cup {e}
  BY <1>1, <1>2, <1>3, <1>4 DEF ToSet
<1>6. ToSet(s) \subseteq ToSet(Append(s, e))
  BY <1>1, <1>2, <1>3 DEF ToSet
<1>7. Len(s) + 1 \in DOMAIN Append(s, e)
  BY <1>1, <1>2
<1>8. e \in ToSet(Append(s, e))
  BY <1>4, <1>7 DEF ToSet
<1> QED
  BY <1>1, <1>5, <1>6, <1>8 DEF ToSet

LEMMA CutBack ==
    ASSUME path \in Seq(Picks), path # <<>>, PathInv, path' = Front(path), study' = study
    PROVE  /\ PathInv' /\ path' \in Seq(Picks)
           /\ Len(path') = Len(path) - 1
<1>1. path' \in Seq(Picks) /\ Len(path') = Len(path) - 1 /\ Len(path) \in Nat
  BY SeqFront
<1>2. ASSUME NEW k \in 0 .. Len(path')
      PROVE  SubSeq(path', 1, k) \in GoodPaths'
  <2>1. SubSeq(path', 1, k) = SubSeq(path, 1, k)
    BY <1>1, SeqFront
  <2>2. k \in 0 .. Len(path)
    BY <1>1
  <2> QED
    BY <2>1, <2>2, SameInput DEF PathInv
<1> QED
  BY <1>1, <1>2 DEF PathInv

LEMMA Extended ==
    ASSUME path \in Seq(Picks), NEW e \in Picks, PathInv, path' = Append(path, e),
           study' = study, Append(path, e) \in GoodPaths
    PROVE  /\ PathInv' /\ path' \in Seq(Picks)
           /\ Len(path') = Len(path) + 1
<1>1. path' \in Seq(Picks) /\ Len(path') = Len(path) + 1 /\ Len(path) \in Nat
  OBVIOUS
<1>2. ASSUME NEW k \in 0 .. Len(path')
      PROVE  SubSeq(path', 1, k) \in GoodPaths'
  <2>1. CASE k \in 0 .. Len(path)
    <3>1. SubSeq(path', 1, k) = SubSeq(path, 1, k)
      BY <2>1, SeqAppend
    <3> QED
      BY <2>1, <3>1, SameInput DEF PathInv
  <2>2. CASE k = Len(path) + 1
    <3>1. SubSeq(path', 1, k) = Append(path, e)
      BY <2>2, SeqAppend
    <3> QED
      BY <3>1, SameInput
  <2> QED
    BY <1>1, <2>1, <2>2
<1> QED
  BY <1>1, <1>2 DEF PathInv

LEMMA SeqWhole ==
    ASSUME NEW S, NEW s \in Seq(S)
    PROVE  SubSeq(s, 1, Len(s)) = s /\ Len(s) \in Nat
OBVIOUS

LEMMA PathIsGood ==
    ASSUME path \in Seq(Picks), PathInv
    PROVE  path \in GoodPaths
<1>1. SubSeq(path, 1, Len(path)) = path /\ Len(path) \in 0 .. Len(path)
  BY SeqWhole
<1> QED
  BY <1>1 DEF PathInv

-----------------------------------------------------------------------------
(* One more pick.                                                          *)

LEMMA OptionIsPick ==
    ASSUME TypeOK, StackInv, pc = "loop", NEW e \in Options
    PROVE  e \in Picks
<1>1. CASE study.layered
  <2>1. Len(path) + 1 \in Categories(study)
    BY <1>1, Input DEF StackInv, IsStudy, Categories, TypeOK
  <2>2. e \in Of(Len(path) + 1) \/ e = <<Len(path) + 1, 0>>
    BY <1>1 DEF Options, LayerOptions, Candidates
  <2> QED
    BY <2>1, <2>2, ElementFacts DEF Of, Picks
<1>2. CASE ~study.layered
  BY <1>2, ElementFacts DEF Options, OtherOptions, Of
<1> QED
  BY <1>1, <1>2

LEMMA LayerPick ==
    ASSUME TypeOK, PathInv, StackInv, pc = "loop", study.layered,
           NEW e \in Options, ~ConflictsWithSelected(e)
    PROVE  Append(path, e) \in GoodPaths
<1> DEFINE p == Append(path, e)
           n == Len(path)
<1>1. e \in Picks /\ path \in Seq(Picks)
  BY OptionIsPick DEF TypeOK, Picks
<1>2. n \in Nat /\ n < Len(study.value) /\ Len(study.value) \in Nat
  BY <1>1, Input DEF StackInv, IsStudy
<1>3. /\ p \in Seq(Picks) /\ Len(p) = n + 1 /\ p[n + 1] = e
      /\ \A i \in 1 .. n : p[i] = path[i]
  BY <1>1
<1>4. GoodLayers(path)
  BY <1>1, PathIsGood DEF GoodPaths
<1>5. \A i \in DOMAIN p : p[i] \in LayerOptions(i)
  <2>1. e \in LayerOptions(n + 1)
    BY DEF Options
  <2> QED
    BY <1>1, <1>2, <1>3, <1>4, <2>1 DEF GoodLayers
<1>6. ASSUME NEW i \in DOMAIN p, NEW j \in DOMAIN p
      PROVE  <<p[i], p[j]>> \notin Conflicts
  <2>1. CASE i \in 1 .. n /\ j \in 1 .. n
    BY <1>1, <1>3, <1>4, <2>1 DEF GoodLayers
  <2>2. \A k \in 1 .. n : <<e, path[k]>> \notin Conflicts
    BY <1>1, SeqElements DEF ConflictsWithSelected
  <2>3. \A a, b : <<a, b>> \in Conflicts => <<b, a>> \in Conflicts /\ a # b
    BY DEF Conflicts
  <2>4. CASE i = n + 1 /\ j \in 1 .. n
    BY <1>3, <2>2, <2>4
  <2>5. CASE i \in 1 .. n /\ j = n + 1
    BY <1>3, <2>2, <2>3, <2>5
  <2>6. CASE i = n + 1 /\ j = n + 1
    BY <2>3, <2>6
  <2> QED
    BY <1>2, <1>3, <2>1, <2>4, <2>5, <2>6
<1>7. Len(p) <= Len(study.value)
  BY <1>2, <1>3
<1>8. GoodLayers(p)
  BY <1>5, <1>6, <1>7 DEF GoodLayers
<1> QED
  BY <1>3, <1>8 DEF GoodPaths

LEMMA OtherPick ==
    ASSUME TypeOK, PathInv, StackInv, pc = "loop", ~study.layered, NEW e \in Options
    PROVE  Append(path, e) \in GoodPaths
<1> DEFINE p == Append(path, e)
<1>1. e \in Picks /\ path \in Seq(Picks) /\ p \in Seq(Picks)
  BY OptionIsPick DEF TypeOK, Picks
<1>2. GoodOthers(path)
  BY <1>1, PathIsGood DEF GoodPaths
<1>3. /\ e \in Elements(study) /\ e[2] # 0
      /\ e[1] \notin ForcedCategories
      /\ \A f \in ToSet(path) : f[1] # e[1]
  <2>1. PICK d \in CandidateFree : e \in Of(d) /\ \A f \in ToSet(path) : RanksBefore(f[1], d)
    BY DEF Options, OtherOptions
  <2> QED
    BY <2>1, ElementFacts DEF Of, CandidateFree, RanksBefore
<1>4. ToSet(p) = ToSet(path) \cup {e}
  BY <1>1, SeqElements
<1>5. DesignOf(p) = DesignOf(path) \cup {e}
  BY <1>3, <1>4 DEF DesignOf
<1>6. \A f \in DesignOf(path) : f[1] # e[1]
  BY <1>3 DEF DesignOf, Seed, ForcedCategories
<1>7. /\ \A i \in DOMAIN p : p[i] \in Elements(study) /\ p[i][1] \notin ForcedCategories
      /\ Len(p) = Len(path) + 1 /\ Len(path) \in Nat
  BY <1>1, <1>2, <1>3 DEF GoodOthers
<1>8. \A f, g \in DesignOf(p) : f[1] = g[1] => f = g
  BY <1>2, <1>5, <1>6 DEF GoodOthers
<1>9. IsFiniteSet(DesignOf(p)) /\ Cardinality(DesignOf(p)) = Cardinality(study.forced) + Len(p)
  <2>1. IsFiniteSet(study.forced) /\ Cardinality(study.forced) \in Nat
    BY Input, FS_CardinalityType DEF IsStudy
  <2>2. e \notin DesignOf(path)
    BY <1>6
  <2>3. /\ IsFiniteSet(DesignOf(path))
        /\ Cardinality(DesignOf(path)) = Cardinality(study.forced) + Len(path)
    BY <1>2 DEF GoodOthers
  <2>4. /\ IsFiniteSet(DesignOf(path) \cup {e})
        /\ Cardinality(DesignOf(path) \cup {e}) = Cardinality(DesignOf(path)) + 1
    BY <2>2, <2>3, FS_AddElement
  <2> QED
    BY <1>5, <1>7, <2>1, <2>3, <2>4
<1> QED
  BY <1>1, <1>7, <1>8, <1>9 DEF GoodPaths, GoodOthers

-----------------------------------------------------------------------------
(* A complete design.                                                      *)

LEMMA LayersAreValid ==
    ASSUME TypeOK, PathInv, study.layered, Complete,
           PassesRequireAny(Design), Design # {}
    PROVE  Design \in ValidDesigns
<1>1. /\ path \in Seq(Picks)
      /\ Len(path) = Len(study.value) /\ Len(path) \in Nat
      /\ DOMAIN path = Categories(study) /\ DOMAIN path = 1 .. Len(path)
  BY Input DEF TypeOK, Picks, Complete, Categories, IsStudy
<1>2. GoodLayers(path)
  BY <1>1, PathIsGood DEF GoodPaths
<1>3. Design = {e \in ToSet(path) : e[2] # 0}
  BY DEF Design, Seed
<1>4. ASSUME NEW e \in Design
      PROVE  e \in Elements(study) /\ e[1] \in DOMAIN path /\ path[e[1]] = e
  <2>1. PICK i \in DOMAIN path : e = path[i] /\ e[2] # 0
    BY <1>3 DEF ToSet
  <2>2. e \in LayerOptions(i)
    BY <1>2, <2>1 DEF GoodLayers
  <2>3. e \in Candidates(i)
    BY <2>1, <2>2 DEF LayerOptions
  <2> QED
    BY <2>1, <2>3 DEF Candidates, Of
<1>5. Design \in Selections
  BY <1>4 DEF Selections
<1>6. ASSUME NEW g \in study.forced
      PROVE  g \in Design
  <2>1. g \in Elements(study) /\ g[1] \in Categories(study) /\ g[2] # 0
    BY Input, ElementFacts DEF IsStudy, Categories
  <2>2. g[1] \in ForcedCategories
    BY DEF ForcedCategories
  <2>3. path[g[1]] \in LayerOptions(g[1])
    BY <1>1, <1>2, <2>1 DEF GoodLayers
  <2>4. path[g[1]] \in study.forced /\ path[g[1]][1] = g[1]
    BY <2>2, <2>3 DEF LayerOptions, Candidates, Of
  <2>5. path[g[1]] = g
    BY <2>4, Input DEF IsStudy
  <2> QED
    BY <1>1, <1>3, <2>1, <2>5 DEF ToSet
<1>7. \A e, f \in Design : <<e, f>> \notin Conflicts
  BY <1>2, <1>4 DEF GoodLayers
<1>8. ASSUME study.requireAll
      PROVE  {e[1] : e \in Design} = Categories(study)
  <2>1. ASSUME NEW c \in Categories(study)
        PROVE  path[c] \in Design /\ path[c][1] = c
    <3>1. path[c] \in Candidates(c)
      BY <1>1, <1>2, <1>8, <2>1 DEF GoodLayers, LayerOptions
    <3>2. path[c] \in Elements(study) /\ path[c][1] = c
      BY <3>1 DEF Candidates, Of
    <3> QED
      BY <1>1, <1>3, <2>1, <3>2, ElementFacts DEF ToSet
  <2> QED
    BY <1>1, <1>4, <2>1
<1> QED
  BY <1>5, <1>6, <1>7, <1>8 DEF ValidDesigns, IsValid

LEMMA OthersAreValid ==
    ASSUME TypeOK, PathInv, ~study.layered, Complete,
           PassesRequireAny(Design), Design # {}
    PROVE  Design \in ValidDesigns
<1>1. path \in Seq(Picks) /\ Design = DesignOf(path)
  BY DEF TypeOK, Picks, Design, DesignOf
<1>2. GoodOthers(path)
  BY <1>1, PathIsGood DEF GoodPaths
<1>3. study.forced \subseteq Design /\ Design \subseteq study.forced \cup ToSet(path)
  BY DEF Design, Seed
<1>4. Design \subseteq Elements(study)
  BY <1>2, <1>3, Input DEF GoodOthers, ToSet, IsStudy
<1>5. Design \in Selections
  BY <1>1, <1>2, <1>4 DEF GoodOthers, Selections
<1>6. Cardinality(Design) = TargetCount
  BY <1>1, <1>2 DEF GoodOthers, Complete
<1>7. Conflicts = {}
  BY DEF Conflicts
<1> QED
  BY <1>3, <1>5, <1>6, <1>7 DEF ValidDesigns, IsValid

-----------------------------------------------------------------------------
(* The invariant.                                                          *)

LEMMA InvInit == Init => Inv
<1> SUFFICES ASSUME Init
             PROVE  Inv
  OBVIOUS
<1>1. TypeOK
  <2>1. path \in Seq(Categories(study) \X Nat) /\ tried \in Seq(SUBSET (Categories(study) \X Nat))
    BY DEF Init
  <2> QED
    BY <2>1 DEF Init, TypeOK
<1>2. IsStudy(study) /\ path = <<>> /\ Len(path) = 0
  BY <1>1, Input DEF Init
<1>3. StackInv /\ heap \subseteq ValidDesigns
  BY <1>2 DEF Init, StackInv
<1>4. path \in GoodPaths
  <2>1. path \in Seq(Picks) /\ DOMAIN path = {} /\ ToSet(path) = {}
    BY <1>2 DEF ToSet
  <2>2. GoodLayers(path)
    BY <1>2, <2>1 DEF GoodLayers, IsStudy
  <2>3. CASE ~study.layered
    <3>1. DesignOf(path) = study.forced
      BY <2>1, <2>3 DEF DesignOf, Seed
    <3>2. Cardinality(study.forced) \in Nat
      BY <1>2, FS_CardinalityType DEF IsStudy
    <3> QED
      BY <1>2, <2>1, <2>3, <3>1, <3>2 DEF GoodPaths, GoodOthers, IsStudy
  <2> QED
    BY <2>1, <2>2, <2>3 DEF GoodPaths
<1>5. PathInv
  <2>1. ASSUME NEW k \in 0 .. Len(path)
        PROVE  SubSeq(path, 1, k) = path
    BY <1>2
  <2> QED
    BY <1>4, <2>1 DEF PathInv
<1> QED
  BY <1>1, <1>3, <1>5 DEF Inv

LEMMA Returned ==
    ASSUME Inv, Return, study' = study
    PROVE  /\ PathInv' /\ path' \in Seq(Categories(study) \X Nat)
           /\ pc' \in {"loop", "done"}
           /\ pc' = "loop" => /\ Len(path') = Len(path) - 1
                              /\ study.layered => Len(path') < Len(study.value)
<1>1. path \in Seq(Picks) /\ PathInv /\ Len(path) \in Nat
  BY DEF Inv, TypeOK, Picks
<1>2. CASE path = <<>>
  BY <1>1, <1>2, SameInput DEF Return, PathInv, Picks
<1>3. CASE path # <<>>
  <2>1. path' = Front(path) /\ pc' = "loop"
    BY <1>3 DEF Return
  <2>2. PathInv' /\ path' \in Seq(Picks) /\ Len(path') = Len(path) - 1
    BY <1>1, <1>3, <2>1, CutBack
  <2>3. study.layered => Len(path) <= Len(study.value)
    BY <1>1, PathIsGood DEF GoodPaths, GoodLayers
  <2>4. Len(study.value) \in Nat
    BY Input DEF Inv, IsStudy
  <2> QED
    BY <1>1, <2>1, <2>2, <2>3, <2>4 DEF Picks
<1> QED
  BY <1>2, <1>3

LEMMA PushKeeps ==
    ASSUME Inv, study' = study, NEW D, D \in ValidDesigns, Push(D)
    PROVE  /\ heap' \subseteq seen' /\ seen' \subseteq SUBSET Elements(study)
           /\ heap' \subseteq ValidDesigns
<1>1. D \in SUBSET Elements(study)
  BY DEF ValidDesigns, Selections
<1>2. heap \subseteq seen /\ seen \subseteq SUBSET Elements(study) /\ heap \subseteq ValidDesigns
  BY DEF Inv, TypeOK
<1>3. CASE UNCHANGED <<heap, seen>>
  BY <1>2, <1>3
<1>4. CASE seen' = seen \cup {D} /\ heap' \subseteq heap \cup {D}
  BY <1>1, <1>2, <1>4
<1> QED
  BY <1>3, <1>4 DEF Push

LEMMA InvNext == Inv /\ [Next]_vars => Inv'
<1> SUFFICES ASSUME Inv, [Next]_vars
             PROVE  Inv'
  OBVIOUS
<1> USE DEF Inv
<1>1. CASE TimesOut
  BY <1>1, SameInput DEF TimesOut, TypeOK, PathInv, StackInv
<1>2. CASE Pruned
  <2>1. PathInv' /\ StackInv'
    BY <1>2, Returned DEF Pruned, StackInv
  <2> QED
    BY <1>2, <2>1, Returned, SameInput DEF Pruned, TypeOK
<1>3. CASE Completed
  <2>1. PathInv' /\ StackInv'
    BY <1>3, Returned DEF Completed, StackInv
  <2>2. CASE UNCHANGED <<heap, seen>>
    BY <1>3, <2>1, <2>2, Returned, SameInput DEF Completed, TypeOK
  <2>3. CASE Push(Design) /\ PassesRequireAny(Design) /\ Design # {}
    <3>1. Design \in ValidDesigns
      BY <1>3, <2>3, LayersAreValid, OthersAreValid DEF Completed
    <3>2. /\ heap' \subseteq seen' /\ seen' \subseteq SUBSET Elements(study)
          /\ heap' \subseteq ValidDesigns
      BY <1>3, <2>3, <3>1, PushKeeps DEF Completed
    <3> QED
      BY <1>3, <2>1, <3>2, Returned, SameInput DEF Completed, TypeOK
  <2> QED
    BY <1>3, <2>2, <2>3 DEF Completed, Push
<1>4. CASE Opened
  <2>1. Len(tried') = Len(path) + 1 /\ tried' \in Seq(SUBSET (Categories(study) \X Nat))
    BY <1>4 DEF Opened, TypeOK, StackInv
  <2>2. study.layered => Len(path) < Len(study.value)
    <3>1. study.layered => Len(path) <= Len(study.value) /\ Len(path) # Len(study.value)
      BY <1>4, PathIsGood DEF Opened, Complete, TypeOK, Picks, GoodPaths, GoodLayers
    <3>2. Len(path) \in Nat /\ Len(study.value) \in Nat
      BY Input DEF TypeOK, IsStudy
    <3> QED
      BY <3>1, <3>2
  <2>3. StackInv'
    BY <1>4, <2>1, <2>2 DEF Opened, StackInv
  <2> QED
    BY <1>4, <2>1, <2>3, SameInput DEF Opened, TypeOK, PathInv
<1>5. ASSUME NEW e \in Options, Tries(e)
      PROVE  Inv'
  <2>1. e \in Picks /\ path \in Seq(Picks) /\ pc = "loop" /\ study' = study
    BY <1>5, OptionIsPick DEF Tries, TypeOK, Picks
  <2>2. tried' \in Seq(SUBSET Picks) /\ Len(tried') = Len(tried)
    <3>1. tried \in Seq(SUBSET Picks) /\ tried # <<>>
      BY <2>1 DEF TypeOK, StackInv, Picks
    <3>2. Last(tried) \cup {e} \in SUBSET Picks
      BY <2>1, <3>1 DEF Last
    <3>3. Front(tried) \in Seq(SUBSET Picks) /\ Len(Front(tried)) = Len(tried) - 1
      BY <3>1, SeqFront
    <3>4. tried' = Append(Front(tried), Last(tried) \cup {e})
      BY <1>5 DEF Tries
    <3> QED
      BY <3>1, <3>2, <3>3, <3>4, SeqAppend
  <2>3. CASE UNCHANGED <<path, pc>>
    BY <1>5, <2>1, <2>2, <2>3, SameInput DEF Tries, TypeOK, PathInv, StackInv, Picks
  <2>4. CASE path' = Append(path, e) /\ pc' = "call" /\ ~ConflictsWithSelected(e)
    <3>1. Append(path, e) \in GoodPaths
      BY <2>1, <2>4, LayerPick, OtherPick
    <3>2. PathInv' /\ path' \in Seq(Picks) /\ Len(path') = Len(path) + 1
      BY <2>1, <2>4, <3>1, Extended
    <3>3. StackInv'
      BY <2>1, <2>2, <2>4, <3>2 DEF StackInv
    <3> QED
      BY <1>5, <2>1, <2>2, <2>4, <3>2, <3>3, SameInput DEF Tries, TypeOK, Picks
  <2> QED
    BY <1>5, <2>3, <2>4 DEF Tries
<1>6. CASE Exhausted
  <2>1. /\ tried' \in Seq(SUBSET (Categories(study) \X Nat))
        /\ Len(tried') = Len(path)
    <3>1. /\ tried \in Seq(SUBSET (Categories(study) \X Nat)) /\ tried # <<>>
          /\ Len(tried) = Len(path) + 1 /\ Len(path) \in Nat
      BY <1>6 DEF Exhausted, TypeOK, StackInv
    <3> QED
      BY <1>6, <3>1, SeqFront DEF Exhausted
  <2>2. PathInv' /\ StackInv'
    <3>1. Len(path) \in Nat
      BY DEF TypeOK
    <3> QED
      BY <1>6, <2>1, <3>1, Returned DEF Exhausted, StackInv
  <2> QED
    BY <1>6, <2>1, <2>2, Returned, SameInput DEF Exhausted, TypeOK
<1>7. CASE UNCHANGED vars
  BY <1>7, SameInput DEF vars, TypeOK, PathInv, StackInv
<1> QED
  BY <1>1, <1>2, <1>3, <1>4, <1>5, <1>6, <1>7 DEF Next

THEOREM InvAlways == Spec => []Inv
<1> QED
  BY InvInit, InvNext, PTL DEF Spec

-----------------------------------------------------------------------------
(* The type invariant, for any inputs, limits and time at which the search *)
(* stops.                                                                  *)
THEOREM TypeCorrect == Spec => []TypeOK
<1>1. Inv => TypeOK
  BY DEF Inv
<1> QED
  BY <1>1, InvAlways, PTL

(* For every study, constraint and number of categories, and also when the *)
(* search runs out of time: every design that rank_designs returns takes   *)
(* at most one element of a category, has the forced elements and one of   *)
(* the required ones, contains no blocked pair, and has target_count       *)
(* elements, which may be more than MaxSelections when they are forced.    *)
THEOREM DesignsValid == Spec => []DesignsAreValid
<1>1. Inv => DesignsAreValid
  BY DEF Inv, ValidDesigns, DesignsAreValid
<1> QED
  BY <1>1, InvAlways, PTL

-----------------------------------------------------------------------------
(* The numbers of the input.                                               *)

LEMMA StudyFacts ==
    ASSUME TypeOK
    PROVE  /\ Len(study.value) \in Nat
           /\ Categories(study) = 1 .. Len(study.value)
           /\ study.limit \in Nat \ {0}
           /\ IsFiniteSet(Categories(study))
           /\ study.layered \in BOOLEAN /\ study.requireAll \in BOOLEAN
<1>1. IsStudy(study)
  BY Input
<1>2. /\ Len(study.value) \in Nat /\ Categories(study) = 1 .. Len(study.value)
      /\ study.limit \in Nat \ {0}
      /\ study.layered \in BOOLEAN /\ study.requireAll \in BOOLEAN
  <2>1. study.value \in Seq(Seq(Int)) /\ study.limit \in 1 .. 20
    BY <1>1 DEF IsStudy
  <2>2. Len(study.value) \in Nat /\ Categories(study) = 1 .. Len(study.value)
    BY <2>1 DEF Categories
  <2> QED
    BY <1>1, <2>1, <2>2 DEF IsStudy
<1>3. IsFiniteSet(1 .. Len(study.value))
  BY <1>2, FS_Interval
<1> QED
  BY <1>2, <1>3

LEMMA ElementsFinite ==
    ASSUME TypeOK
    PROVE  /\ IsFiniteSet(Elements(study))
           /\ \A D \in SUBSET Elements(study) : IsFiniteSet(D)
<1> DEFINE Part == [c \in Categories(study) |-> {c} \X DOMAIN study.value[c]]
           Parts == {{c} \X DOMAIN study.value[c] : c \in Categories(study)}
<1>1. Part \in Surjection(Categories(study), Parts)
  BY DEF Surjection
<1>2. IsFiniteSet(Categories(study))
  BY StudyFacts
<1>3. IsFiniteSet(Parts)
  <2> HIDE DEF Part, Parts
  <2> QED
    BY <1>1, <1>2, FS_Surjection
<1>4. ASSUME NEW c \in Categories(study)
      PROVE  IsFiniteSet({c} \X DOMAIN study.value[c])
  <2>1. study.value \in Seq(Seq(Int))
    BY Input DEF IsStudy
  <2>2. /\ Len(study.value[c]) \in Nat
        /\ DOMAIN study.value[c] = 1 .. Len(study.value[c])
    BY <2>1 DEF Categories
  <2>3. IsFiniteSet(DOMAIN study.value[c])
    BY <2>2, FS_Interval
  <2> QED
    BY <2>3, FS_Singleton, FS_Product
<1>5. IsFiniteSet(UNION Parts)
  BY <1>3, <1>4, FS_UNION
<1>6. IsFiniteSet(Elements(study))
  BY <1>5 DEF Elements
<1> QED
  BY <1>6, FS_Subset

LEMMA GainIsInt ==
    ASSUME TypeOK, NEW e \in Elements(study)
    PROVE  Gain(e) \in Int
<1>1. study.value \in Seq(Seq(Int))
  BY Input DEF IsStudy
<1>2. PICK c \in Categories(study) : e \in {c} \X DOMAIN study.value[c]
  BY DEF Elements
<1>3. e[1] = c /\ e[2] \in DOMAIN study.value[c]
  BY <1>2
<1>4. study.value[c] \in Seq(Int)
  BY <1>1, <1>2 DEF Categories
<1>5. study.value[c][e[2]] \in Int
  BY <1>3, <1>4
<1> QED
  BY <1>3, <1>5 DEF Gain

GainOf == [e \in Elements(study) |-> Gain(e)]

LEMMA ScoreIsTotal ==
    ASSUME NEW D \in SUBSET Elements(study), TypeOK
    PROVE  Score(D) = Total(GainOf, D) /\ Score(D) \in Int
<1> DEFINE Eq(sum) == sum = [s \in SUBSET D |->
              IF s = {} THEN 0
              ELSE LET x == CHOOSE x \in s : TRUE IN Gain(x) + sum[s \ {x}]]
<1>0. IsFiniteSet(D) /\ GainOf \in [Elements(study) -> Int]
  BY ElementsFinite, GainIsInt DEF GainOf
<1>1. \A sum : IsSum(GainOf, D, sum) <=> Eq(sum)
  <2> SUFFICES ASSUME NEW sum PROVE IsSum(GainOf, D, sum) <=> Eq(sum)
    OBVIOUS
  <2>1. \A s \in SUBSET D : s # {} => (CHOOSE x \in s : TRUE) \in Elements(study)
    OBVIOUS
  <2> QED
    BY <2>1 DEF IsSum, GainOf
<1>2. Eq(CHOOSE sum : Eq(sum))
  <2>1. Eq(Solution(GainOf, D))
    BY <1>0, <1>1, TotalIsInt
  <2> HIDE DEF Eq
  <2> QED
    BY <2>1
<1>3. Score(D) = (CHOOSE sum : Eq(sum))[D]
  BY DEF Score, MapThenSumSet, MapThenFoldSet
<1> HIDE DEF Eq
<1> QED
  BY <1>0, <1>1, <1>2, <1>3, SumIsTotal, TotalIsInt

\* The best of a category is one of its elements.
LEMMA MaxGainIs ==
    ASSUME TypeOK, NEW S \in SUBSET Elements(study), S # {}
    PROVE  MaxGain(S) \in Int /\ \A e \in S : Gain(e) <= MaxGain(S)
<1> DEFINE R == {p \in S \X S : Gain(p[1]) >= Gain(p[2])}
           G == {Gain(e) : e \in S}
<1>1. IsFiniteSet(S) /\ \A e \in S : Gain(e) \in Int
  BY ElementsFinite, GainIsInt
<1>2. Orders(R, S)
  BY <1>1 DEF Orders
<1>3. PICK m \in S : \A x \in S \ {m} : <<m, x>> \in R
  BY <1>1, <1>2, FirstExists
<1>4. Gain(m) \in G /\ \A x \in G : Gain(m) >= x
  <2>1. \A x \in S : x # m => Gain(m) >= Gain(x)
    BY <1>3
  <2>2. \A x \in S : Gain(m) >= Gain(x)
    BY <1>1, <2>1
  <2> QED
    BY <2>2
<1>5. MaxGain(S) \in G /\ \A x \in G : MaxGain(S) >= x
  <2>1. MaxGain(S) = CHOOSE x \in G : \A y \in G : x >= y
    BY DEF MaxGain, Max
  <2> HIDE DEF G
  <2> QED
    BY <1>4, <2>1
<1> QED
  BY <1>1, <1>5

LEMMA CategoryFacts ==
    ASSUME TypeOK, NEW c \in Categories(study)
    PROVE  /\ Of(c) \in SUBSET Elements(study) /\ Of(c) # {}
           /\ MaxGain(Of(c)) \in Int
<1>1. study.value \in Seq(Seq(Int)) /\ study.value[c] # <<>>
  BY Input DEF IsStudy
<1>2. study.value[c] \in Seq(Int)
  BY <1>1 DEF Categories
<1>3. 1 \in DOMAIN study.value[c]
  BY <1>1, <1>2
<1>4. <<c, 1>> \in Of(c)
  BY <1>3 DEF Of, Elements
<1>5. Of(c) \in SUBSET Elements(study) /\ Of(c) # {}
  BY <1>4 DEF Of
<1> QED
  BY <1>5, MaxGainIs

\* ranked_free is a list: the ranks are a total order of the categories.
LEMMA RankFacts ==
    ASSUME TypeOK
    PROVE  /\ \A c, d \in Categories(study) : c # d => RanksBefore(c, d) \/ RanksBefore(d, c)
           /\ \A c, d \in Categories(study) : ~(RanksBefore(c, d) /\ RanksBefore(d, c))
           /\ \A c, d, e \in Categories(study) :
                 RanksBefore(c, d) /\ RanksBefore(d, e) => RanksBefore(c, e)
<1> DEFINE m(c) == MaxGain(Of(c))
<1>1. \A c \in Categories(study) : m(c) \in Int /\ c \in Int
  BY CategoryFacts, StudyFacts
<1>2. \A c, d : RanksBefore(c, d) <=> c # d /\ (m(c) > m(d) \/ (m(c) = m(d) /\ c < d))
  BY DEF RanksBefore
<1> HIDE DEF m
<1> QED
  BY <1>1, <1>2

LEMMA BestIs ==
    ASSUME TypeOK, NEW c \in Categories(study)
    PROVE  /\ Best(c) \in Int /\ Best(c) >= 0
           /\ \A e \in Candidates(c) : Gain(e) <= Best(c)
<1>1. Candidates(c) \in SUBSET Elements(study) /\ Candidates(c) # {}
  BY CategoryFacts, Input DEF Candidates, Of, ForcedCategories, IsStudy
<1>2. MaxGain(Candidates(c)) \in Int /\ \A e \in Candidates(c) : Gain(e) <= MaxGain(Candidates(c))
  BY <1>1, MaxGainIs
<1>3. ASSUME NEW m \in Int PROVE Max({0, m}) \in Int /\ Max({0, m}) >= 0 /\ Max({0, m}) >= m
  <2>1. \E x \in {0, m} : \A y \in {0, m} : x >= y
    BY <1>3
  <2> QED
    BY <2>1 DEF Max
<1>4. Best(c) \in Int /\ Best(c) >= 0 /\ Best(c) >= MaxGain(Candidates(c))
  BY <1>2, <1>3 DEF Best
<1> QED
  BY <1>1, <1>2, <1>4, GainIsInt

BestOf == [c \in Categories(study) |-> Best(c)]

LEMMA BestSum ==
    ASSUME TypeOK, NEW S \in SUBSET Categories(study)
    PROVE  MapThenSumSet(Best, S) = Total(BestOf, S)
<1> DEFINE Eq(sum) == sum = [s \in SUBSET S |->
              IF s = {} THEN 0
              ELSE LET x == CHOOSE x \in s : TRUE IN Best(x) + sum[s \ {x}]]
<1>0. IsFiniteSet(S) /\ BestOf \in [Categories(study) -> Int]
  BY StudyFacts, FS_Subset, BestIs DEF BestOf
<1>1. \A sum : IsSum(BestOf, S, sum) <=> Eq(sum)
  <2> SUFFICES ASSUME NEW sum PROVE IsSum(BestOf, S, sum) <=> Eq(sum)
    OBVIOUS
  <2>1. \A s \in SUBSET S : s # {} => (CHOOSE x \in s : TRUE) \in Categories(study)
    OBVIOUS
  <2> QED
    BY <2>1 DEF IsSum, BestOf
<1>2. Eq(CHOOSE sum : Eq(sum))
  <2>1. Eq(Solution(BestOf, S))
    BY <1>0, <1>1, TotalIsInt
  <2> HIDE DEF Eq
  <2> QED
    BY <2>1
<1>3. MapThenSumSet(Best, S) = (CHOOSE sum : Eq(sum))[S]
  BY DEF MapThenSumSet, MapThenFoldSet
<1> HIDE DEF Eq
<1> QED
  BY <1>0, <1>1, <1>2, <1>3, SumIsTotal, TotalIsInt

-----------------------------------------------------------------------------
(* The order of the heap.                                                  *)

\* Designs are compared at the first element that only one of them has.
LexLeq(x, y) == x[1] < y[1] \/ (x[1] = y[1] /\ x[2] <= y[2])
Apart(d, e) == (d \ e) \cup (e \ d)
FirstApart(d, e) == CHOOSE x \in Apart(d, e) : \A y \in Apart(d, e) : LexLeq(x, y)

LEMMA LexOrder ==
    ASSUME TypeOK
    PROVE  /\ \A x, y \in Elements(study) : LexLeq(x, y) \/ LexLeq(y, x)
           /\ \A x, y \in Elements(study) : LexLeq(x, y) /\ LexLeq(y, x) => x = y
           /\ \A x, y, z \in Elements(study) : LexLeq(x, y) /\ LexLeq(y, z) => LexLeq(x, z)
<1>1. ASSUME NEW x \in Elements(study)
      PROVE  x[1] \in Int /\ x[2] \in Int /\ x = <<x[1], x[2]>>
  BY ElementFacts, StudyFacts DEF Picks
<1>2. \A x, y \in Elements(study) : x[1] = y[1] /\ x[2] = y[2] => x = y
  BY <1>1
<1> QED
  BY <1>1, <1>2 DEF LexLeq

LEMMA FirstApartIs ==
    ASSUME TypeOK, NEW d \in SUBSET Elements(study), NEW e \in SUBSET Elements(study), d # e
    PROVE  /\ FirstApart(d, e) \in Apart(d, e)
           /\ \A y \in Apart(d, e) : LexLeq(FirstApart(d, e), y)
           /\ FirstApart(d, e) = FirstApart(e, d)
           /\ Earlier(d, e) <=> FirstApart(d, e) \in d
<1> DEFINE A == Apart(d, e)
           R == {p \in A \X A : LexLeq(p[1], p[2])}
<1>1. A \subseteq Elements(study) /\ A # {} /\ IsFiniteSet(A)
  BY ElementsFinite DEF Apart
<1>2. Orders(R, A)
  BY <1>1, LexOrder DEF Orders
<1>3. PICK m \in A : \A x \in A \ {m} : <<m, x>> \in R
  BY <1>1, <1>2, FirstExists
<1>4. \A x \in A : LexLeq(m, x)
  BY <1>1, <1>3, LexOrder
<1>5. FirstApart(d, e) \in A /\ \A y \in A : LexLeq(FirstApart(d, e), y)
  BY <1>4 DEF FirstApart
<1>6. Apart(e, d) = Apart(d, e)
  BY DEF Apart
<1> QED
  BY <1>5, <1>6 DEF FirstApart, Earlier, Apart, LexLeq

\* The signatures order the designs.
LEMMA EarlierIsOrder ==
    ASSUME TypeOK
    PROVE  /\ \A d, e \in SUBSET Elements(study) : d # e => Earlier(d, e) \/ Earlier(e, d)
           /\ \A d, e, f \in SUBSET Elements(study) :
                 d # e /\ e # f /\ d # f /\ Earlier(d, e) /\ Earlier(e, f) => Earlier(d, f)
<1>1. ASSUME NEW d \in SUBSET Elements(study), NEW e \in SUBSET Elements(study), d # e
      PROVE  Earlier(d, e) \/ Earlier(e, d)
  BY <1>1, FirstApartIs DEF Apart
<1>2. ASSUME NEW d \in SUBSET Elements(study), NEW e \in SUBSET Elements(study),
             NEW f \in SUBSET Elements(study),
             d # e, e # f, d # f, Earlier(d, e), Earlier(e, f)
      PROVE  Earlier(d, f)
  <2> DEFINE x == FirstApart(d, e)
             y == FirstApart(e, f)
             z == FirstApart(d, f)
  <2>1. x \in d /\ x \notin e /\ \A u \in Apart(d, e) : LexLeq(x, u)
    BY <1>2, FirstApartIs DEF Apart
  <2>2. y \in e /\ y \notin f /\ \A u \in Apart(e, f) : LexLeq(y, u)
    BY <1>2, FirstApartIs DEF Apart
  <2>3. z \in Apart(d, f) /\ (\A u \in Apart(d, f) : LexLeq(z, u)) /\ (Earlier(d, f) <=> z \in d)
    BY <1>2, FirstApartIs
  <2> HIDE DEF x, y, z
  <2>4. SUFFICES ASSUME z \notin d PROVE FALSE
    BY <2>3
  <2>5. z \in f /\ z \in Elements(study)
    BY <2>3, <2>4 DEF Apart
  <2>6. CASE z \in e
    <3>1. LexLeq(x, z) /\ z # x
      BY <2>1, <2>4, <2>6 DEF Apart
    <3>2. x \notin f => LexLeq(z, x)
      BY <2>1, <2>3 DEF Apart
    <3>3. x \in f
      BY <2>1, <2>5, <3>1, <3>2, LexOrder
    <3>4. LexLeq(y, x)
      BY <2>1, <2>2, <3>3 DEF Apart
    <3>5. y \in d => LexLeq(z, y)
      BY <2>2, <2>3 DEF Apart
    <3>6. y \notin d => LexLeq(x, y)
      BY <2>1, <2>2 DEF Apart
    <3>7. LexLeq(y, z) /\ y # z /\ x # y
      BY <2>1, <2>2, <2>5, <3>1, <3>4, LexOrder
    <3> QED
      BY <2>1, <2>2, <2>5, <3>4, <3>5, <3>6, <3>7, LexOrder
  <2>7. CASE z \notin e
    <3>1. LexLeq(y, z) /\ z # y
      BY <2>2, <2>5, <2>7 DEF Apart
    <3>2. y \in d => LexLeq(z, y)
      BY <2>2, <2>3 DEF Apart
    <3>3. y \notin d
      BY <2>2, <2>5, <3>1, <3>2, LexOrder
    <3>4. LexLeq(x, y) /\ x # y
      BY <2>1, <2>2, <3>3 DEF Apart
    <3>5. x \notin f => LexLeq(z, x)
      BY <2>1, <2>3 DEF Apart
    <3>6. x \in f => LexLeq(y, x)
      BY <2>1, <2>2 DEF Apart
    <3> QED
      BY <2>1, <2>2, <2>5, <3>1, <3>4, <3>5, <3>6, LexOrder
  <2> QED
    BY <2>6, <2>7
<1> QED
  BY <1>1, <1>2

LEMMA WorstIs ==
    ASSUME TypeOK, heap # {}
    PROVE  Worst \in heap /\ \A E \in heap : Score(Worst) <= Score(E)
<1> DEFINE Under(d, e) == Score(d) < Score(e) \/ (Score(d) = Score(e) /\ Earlier(d, e))
           R == {p \in heap \X heap : p[1] # p[2] /\ Under(p[1], p[2])}
<1>1. heap \subseteq SUBSET Elements(study) /\ IsFiniteSet(heap)
  <2>1. heap \subseteq SUBSET Elements(study)
    BY DEF TypeOK
  <2> QED
    BY <2>1, ElementsFinite, FS_SUBSET, FS_Subset
<1>2. \A d \in heap : Score(d) \in Int
  BY <1>1, ScoreIsTotal
<1>3. PICK m \in heap : \A x \in heap \ {m} : Under(m, x)
  <2>1. \A x, y \in heap : x # y => Under(x, y) \/ Under(y, x)
    BY <1>1, <1>2, EarlierIsOrder
  <2>2. \A x, y \in heap : ~(x # y /\ Under(x, y) /\ Under(y, x))
    <3>1. \A x, y \in heap : ~(x # y /\ Earlier(x, y) /\ Earlier(y, x))
      BY <1>1, FirstApartIs DEF Apart
    <3> QED
      BY <1>2, <3>1
  <2>3. \A x, y, z \in heap : x # y /\ y # z /\ x # z /\ Under(x, y) /\ Under(y, z) => Under(x, z)
    BY <1>1, <1>2, EarlierIsOrder
  <2> HIDE DEF Under
  <2>4. Orders(R, heap)
    BY <2>1, <2>2, <2>3 DEF Orders
  <2>5. PICK m \in heap : \A x \in heap \ {m} : <<m, x>> \in R
    BY <1>1, <2>4, FirstExists
  <2> QED
    BY <2>5
<1>4. Worst \in heap /\ \A x \in heap \ {Worst} : Under(Worst, x)
  BY <1>3 DEF Worst
<1> QED
  BY <1>2, <1>4

-----------------------------------------------------------------------------
(* Which designs the search still has ahead of it.                         *)

\* The valid designs within reach of the search.
Targets == {D \in ValidDesigns : Searched(D)}

Free(D) == D \ study.forced
Firsts(p, k) == {p[i] : i \in 1 .. k}

\* e is the pick that leads from the first k picks of p towards D: what D has of
\* the next layer, or the one of its elements that comes next in rank.
IsNext(p, k, D, e) ==
    IF study.layered
    THEN e[1] = k + 1 /\ IF e[2] = 0 THEN \A f \in D : f[1] # k + 1 ELSE e \in D
    ELSE /\ e \in Free(D) \ Firsts(p, k)
         /\ \A f \in Free(D) \ Firsts(p, k) : f # e => RanksBefore(e[1], f[1])

\* The first k picks of p lead to D.
Follows(p, k, D) == \A i \in 1 .. k : IsNext(p, i - 1, D, p[i])

\* The loop that follows k picks has not tried the pick that leads to D.
Remains(p, k, t, D) == \E e \in Picks : IsNext(p, k, D, e) /\ e \notin t[k + 1]

\* The search with path p and tried t will come to D: by an open loop, or by
\* the call that it has just entered.
Ahead(p, t, c, D) ==
    \E k \in 0 .. Len(p) :
        /\ Follows(p, k, D)
        /\ IF k < Len(t) THEN Remains(p, k, t, D) ELSE k = Len(p) /\ c = "call"

\* The heap h has no place for D any more.
Beaten(h, D) == Cardinality(h) = study.limit /\ \A E \in h : Score(D) <= Score(E)
Settled(h, D) == D \in h \/ Beaten(h, D)

\* What was pushed is settled, also when it was thrown out again: a design that
\* comes up a second time may be ignored.
HeapInv ==
    /\ Cardinality(heap) <= study.limit
    /\ heap \subseteq Targets
    /\ \A D \in seen : Settled(heap, D)
ReachInv == ~study.layered => \A i \in DOMAIN path : path[i][1] \in CandidateFree
DoneInv == pc = "done" /\ ~late => tried = <<>> /\ path = <<>>
Coverage == ~late => \A D \in Targets : Settled(heap, D) \/ Ahead(path, tried, pc, D)

LEMMA DesignFacts ==
    ASSUME TypeOK, NEW D \in ValidDesigns
    PROVE  /\ D \in SUBSET Elements(study) /\ IsFiniteSet(D) /\ Score(D) \in Int
           /\ \A e, f \in D : e[1] = f[1] => e = f
           /\ study.forced \subseteq D
           /\ D # {} /\ PassesRequireAny(D)
           /\ \A e, f \in D : <<e, f>> \notin Conflicts
           /\ study.layered /\ study.requireAll => {e[1] : e \in D} = Categories(study)
           /\ ~study.layered => Cardinality(D) = TargetCount
<1>1. D \in SUBSET Elements(study)
  BY DEF ValidDesigns, Selections
<1>2. IsFiniteSet(D) /\ Score(D) \in Int
  BY <1>1, ElementsFinite, ScoreIsTotal
<1> QED
  BY <1>1, <1>2 DEF ValidDesigns, Selections, IsValid

\* An element of a design that has the forced elements is a candidate.
LEMMA InCandidates ==
    ASSUME TypeOK, NEW D \in ValidDesigns, NEW e \in D
    PROVE  e \in Candidates(e[1]) /\ e[1] \in Categories(study) /\ e[2] # 0
<1>1. e \in Elements(study) /\ e[1] \in Categories(study) /\ e[2] # 0
  BY DesignFacts, ElementFacts DEF Categories
<1>2. e[1] \in ForcedCategories => e \in study.forced
  BY DesignFacts DEF ForcedCategories
<1> QED
  BY <1>1, <1>2 DEF Candidates, Of

\* What a path of layers says of a design that it leads to.
LEMMA LayersFollowed ==
    ASSUME TypeOK, PathInv, study.layered, NEW D \in ValidDesigns,
           Follows(path, Len(path), D)
    PROVE  /\ Len(path) \in Nat /\ Len(path) <= Len(study.value)
           /\ Design = {e \in D : e[1] <= Len(path)}
<1>1. /\ path \in Seq(Picks) /\ Len(path) \in Nat /\ DOMAIN path = 1 .. Len(path)
      /\ Len(path) <= Len(study.value)
  BY PathIsGood DEF TypeOK, Picks, GoodPaths, GoodLayers
<1>2. ASSUME NEW i \in 1 .. Len(path)
      PROVE  /\ path[i][1] = i
             /\ IF path[i][2] = 0 THEN \A f \in D : f[1] # i ELSE path[i] \in D
  <2>1. i - 1 + 1 = i
    OBVIOUS
  <2> QED
    BY <2>1 DEF Follows, IsNext
<1>3. ASSUME NEW e \in D, e[1] <= Len(path) PROVE e \in Design
  <2>1. e[1] \in 1 .. Len(path) /\ e[2] # 0
    BY <1>1, <1>3, DesignFacts, ElementFacts, StudyFacts
  <2>2. path[e[1]] \in D /\ path[e[1]][1] = e[1]
    BY <1>2, <2>1
  <2>3. path[e[1]] = e
    BY <2>2, DesignFacts
  <2> QED
    BY <1>1, <2>1, <2>3 DEF Design, ToSet
<1>4. ASSUME NEW e \in Design PROVE e \in D /\ e[1] <= Len(path)
  <2>1. PICK i \in 1 .. Len(path) : e = path[i] /\ e[2] # 0
    BY <1>1 DEF Design, Seed, ToSet
  <2> QED
    BY <1>1, <1>2, <2>1
<1> QED
  BY <1>1, <1>3, <1>4

\* The bound: no design ahead of a path of layers scores more.
LEMMA BoundHolds ==
    ASSUME TypeOK, PathInv, study.layered, NEW D \in ValidDesigns,
           Follows(path, Len(path), D)
    PROVE  Score(D) <= Optimistic /\ Optimistic \in Int
<1> DEFINE k == Len(path)
           n == Len(study.value)
           Upto(j) == {e \in D : e[1] <= j}
           Rest(j) == (j + 1) .. n
           f(j) == Total(GainOf, Upto(j)) + Total(BestOf, Rest(j))
           Good == {j \in Nat : k + j <= n => f(k + j) <= f(k)}
<1>1. k \in Nat /\ n \in Nat /\ k <= n
  BY LayersFollowed, StudyFacts
<1>2. /\ D \in SUBSET Elements(study)
      /\ GainOf \in [Elements(study) -> Int] /\ BestOf \in [Categories(study) -> Int]
      /\ \A e \in D : e[1] \in 1 .. n
  BY DesignFacts, GainIsInt, BestIs, InCandidates, StudyFacts DEF GainOf, BestOf
<1>3. ASSUME NEW j \in Nat
      PROVE  /\ Upto(j) \in SUBSET Elements(study) /\ IsFiniteSet(Upto(j))
             /\ Rest(j) \in SUBSET Categories(study) /\ IsFiniteSet(Rest(j))
             /\ Total(GainOf, Upto(j)) \in Int /\ Total(BestOf, Rest(j)) \in Int
  <2>1. Upto(j) \in SUBSET Elements(study) /\ Rest(j) \in SUBSET Categories(study)
    BY <1>1, <1>2, StudyFacts
  <2>2. IsFiniteSet(Upto(j)) /\ IsFiniteSet(Rest(j))
    BY <2>1, ElementsFinite, StudyFacts, FS_Subset
  <2> HIDE DEF Upto, Rest
  <2> QED
    BY <1>2, <2>1, <2>2, TotalIsInt
<1>4. ASSUME NEW j \in Nat, j < n
      PROVE  f(j + 1) <= f(j)
  <2>1. j + 1 \in Rest(j) /\ Rest(j) \ {j + 1} = Rest(j + 1) /\ j + 1 \in Categories(study)
    BY <1>1, <1>4, StudyFacts
  <2>2. Total(BestOf, Rest(j)) = BestOf[j + 1] + Total(BestOf, Rest(j) \ {j + 1})
    <3> HIDE DEF Rest
    <3>1. Rest(j) \in SUBSET Categories(study) /\ IsFiniteSet(Rest(j))
      BY <1>3
    <3> QED
      BY <1>2, <2>1, <3>1, TotalRemoves
  <2>3. Total(BestOf, Rest(j)) = Best(j + 1) + Total(BestOf, Rest(j + 1))
    BY <2>1, <2>2 DEF BestOf
  <2>4. Best(j + 1) \in Int /\ Best(j + 1) >= 0
    BY <2>1, BestIs
  <2>5. CASE \A e \in D : e[1] # j + 1
    <3>1. Upto(j + 1) = Upto(j)
      BY <1>2, <2>5
    <3> HIDE DEF Upto, Rest
    <3> QED
      BY <1>3, <2>3, <2>4, <3>1
  <2>6. ASSUME NEW e \in D, e[1] = j + 1
        PROVE  f(j + 1) <= f(j)
    <3>1. e \in Upto(j + 1) /\ Upto(j + 1) \ {e} = Upto(j)
      <4>1. \A x \in D : x[1] = j + 1 => x = e
        BY <2>6, DesignFacts
      <4> QED
        BY <1>2, <2>6, <4>1
    <3>2. GainOf[e] = Gain(e) /\ Gain(e) <= Best(j + 1) /\ Gain(e) \in Int
      BY <1>2, <2>1, <2>6, InCandidates, BestIs, GainIsInt DEF GainOf
    <3>3. j + 1 \in Nat
      OBVIOUS
    <3> HIDE DEF Upto, Rest
    <3>4. Upto(j + 1) \in SUBSET Elements(study) /\ IsFiniteSet(Upto(j + 1))
      BY <1>3, <3>3
    <3>5. Total(GainOf, Upto(j + 1)) = GainOf[e] + Total(GainOf, Upto(j + 1) \ {e})
      BY <1>2, <3>1, <3>4, TotalRemoves
    <3>6. /\ Total(GainOf, Upto(j)) \in Int
          /\ Total(BestOf, Rest(j)) \in Int /\ Total(BestOf, Rest(j + 1)) \in Int
      BY <1>3, <3>3
    <3>7. Total(GainOf, Upto(j + 1)) = Gain(e) + Total(GainOf, Upto(j))
      BY <3>1, <3>2, <3>5
    <3>8. \A a, b, c, d, u, v \in Int : a = c + d /\ b = u + v /\ c <= u => a + v <= d + b
      OBVIOUS
    <3>9. Total(GainOf, Upto(j + 1)) \in Int /\ Total(BestOf, Rest(j)) \in Int
      BY <1>3, <3>3
    <3> QED
      BY <2>3, <2>4, <3>2, <3>6, <3>7, <3>8, <3>9
  <2> QED
    BY <2>5, <2>6
<1>5. \A j \in Nat : f(j) \in Int
  <2> HIDE DEF Upto, Rest
  <2> QED
    BY <1>3
<1>6. n - k \in Good
  <2> HIDE DEF f
  <2>1. 0 \in Good
    BY <1>1, <1>5
  <2>2. ASSUME NEW j \in Nat, j \in Good PROVE j + 1 \in Good
    <3>1. SUFFICES ASSUME k + (j + 1) <= n PROVE f(k + (j + 1)) <= f(k)
      OBVIOUS
    <3>2. f(k + j) <= f(k) /\ k + j \in Nat /\ k + j < n
      BY <1>1, <2>2, <3>1
    <3>3. f((k + j) + 1) <= f(k + j)
      BY <1>4, <3>2
    <3>4. (k + j) + 1 = k + (j + 1)
      BY <1>1
    <3> QED
      BY <1>1, <1>5, <3>2, <3>3, <3>4
  <2>3. n - k \in Nat
    BY <1>1
  <2> HIDE DEF Good
  <2> QED
    BY <2>1, <2>2, <2>3, NatSetInduction
<1>7. f(n) <= f(k)
  <2>1. k + (n - k) = n
    BY <1>1
  <2>2. k + (n - k) <= n => f(k + (n - k)) <= f(k)
    BY <1>6
  <2> HIDE DEF f
  <2> QED
    BY <1>1, <2>1, <2>2
<1>8. f(n) = Score(D)
  <2>1. Upto(n) = D /\ Rest(n) = {}
    BY <1>1, <1>2
  <2>2. Total(BestOf, {}) = 0
    BY <1>2, FS_EmptySet, TotalIsInt
  <2> HIDE DEF Upto, Rest
  <2> QED
    BY <1>2, <2>1, <2>2, ScoreIsTotal, DesignFacts
<1>9. f(k) = Optimistic
  <2>1. Design = Upto(k)
    BY LayersFollowed
  <2>2. Score(Upto(k)) = Total(GainOf, Upto(k))
    BY <1>1, <1>3, ScoreIsTotal
  <2>3. MapThenSumSet(Best, Rest(k)) = Total(BestOf, Rest(k))
    BY <1>1, <1>3, BestSum
  <2> QED
    BY <2>1, <2>2, <2>3 DEF Optimistic
<1> HIDE DEF f
<1> QED
  BY <1>1, <1>5, <1>7, <1>8, <1>9

\* What a path of the other search says of a design that it leads to: the picks
\* are the elements of the design that come first.
LEMMA OthersFollowed ==
    ASSUME TypeOK, ~study.layered, NEW D \in ValidDesigns, Follows(path, Len(path), D)
    PROVE  /\ DOMAIN path = 1 .. Len(path) /\ Len(path) \in Nat
           /\ Firsts(path, Len(path)) = ToSet(path)
           /\ ToSet(path) \subseteq Free(D)
           /\ \A i \in DOMAIN path : \A f \in Free(D) \ ToSet(path) : RanksBefore(path[i][1], f[1])
<1>1. DOMAIN path = 1 .. Len(path) /\ Len(path) \in Nat
  BY DEF TypeOK
<1>2. Firsts(path, Len(path)) = ToSet(path)
  BY <1>1 DEF Firsts, ToSet
<1>3. ASSUME NEW i \in DOMAIN path
      PROVE  path[i] \in Free(D) /\ \A f \in Free(D) \ ToSet(path) : RanksBefore(path[i][1], f[1])
  <2>1. IsNext(path, i - 1, D, path[i])
    BY <1>1 DEF Follows
  <2>2. Firsts(path, i - 1) \subseteq ToSet(path) /\ path[i] \in ToSet(path)
    BY <1>1 DEF Firsts, ToSet
  <2> QED
    BY <2>1, <2>2 DEF IsNext
<1> QED
  BY <1>1, <1>2, <1>3 DEF ToSet

\* A path that is not complete can be continued towards the design.
LEMMA NextExists ==
    ASSUME TypeOK, PathInv, NEW D \in ValidDesigns, Follows(path, Len(path), D), ~Complete
    PROVE  \E e \in Picks : IsNext(path, Len(path), D, e)
<1> DEFINE k == Len(path)
<1>1. D \subseteq Picks
  BY DesignFacts, ElementFacts
<1>2. CASE study.layered
  <2>1. k \in Nat /\ k + 1 \in Categories(study)
    BY <1>2, LayersFollowed, StudyFacts DEF Complete
  <2>2. CASE \E f \in D : f[1] = k + 1
    <3>1. PICK f \in D : f[1] = k + 1
      BY <2>2
    <3>2. f[2] # 0
      BY InCandidates
    <3> QED
      BY <1>1, <1>2, <3>1, <3>2 DEF IsNext
  <2>3. CASE ~\E f \in D : f[1] = k + 1
    <3>1. <<k + 1, 0>> \in Picks
      BY <2>1 DEF Picks
    <3>2. IsNext(path, k, D, <<k + 1, 0>>)
      BY <1>2, <2>3 DEF IsNext
    <3> QED
      BY <3>1, <3>2
  <2> QED
    BY <2>2, <2>3
<1>3. CASE ~study.layered
  <2> DEFINE F == Free(D) \ ToSet(path)
             R == {p \in F \X F : RanksBefore(p[1][1], p[2][1])}
  <2>1. /\ Firsts(path, k) = ToSet(path) /\ ToSet(path) \subseteq Free(D)
    BY <1>3, OthersFollowed
  <2>2. F # {}
    <3>1. SUFFICES ASSUME Free(D) \subseteq ToSet(path) PROVE FALSE
      OBVIOUS
    <3>2. \A e \in D : e[2] # 0
      BY InCandidates
    <3>3. DesignOf(path) = D
      BY <1>3, <2>1, <3>1, <3>2, DesignFacts DEF DesignOf, Seed, Free
    <3>4. GoodOthers(path)
      BY <1>3, PathIsGood DEF TypeOK, Picks, GoodPaths
    <3> QED
      BY <1>3, <3>3, <3>4, DesignFacts DEF GoodOthers, Complete
  <2>3. F \subseteq D /\ IsFiniteSet(F)
    BY DesignFacts, FS_Subset DEF Free
  <2>4. Orders(R, F)
    <3>1. \A e \in F : e[1] \in Categories(study)
      BY <2>3, InCandidates
    <3>2. \A e, f \in F : e # f => e[1] # f[1]
      BY <2>3, DesignFacts
    <3> HIDE DEF F
    <3> QED
      BY <3>1, <3>2, RankFacts DEF Orders
  <2>5. PICK m \in F : \A x \in F \ {m} : <<m, x>> \in R
    BY <2>2, <2>3, <2>4, FirstExists
  <2>6. IsNext(path, k, D, m)
    BY <1>3, <2>1, <2>5 DEF IsNext
  <2> QED
    BY <1>1, <2>3, <2>6
<1> QED
  BY <1>2, <1>3

\* The pick that leads to a design within reach is one of the loop's options.
LEMMA NextIsOption ==
    ASSUME TypeOK, PathInv, StackInv, pc = "loop", NEW D \in Targets,
           Follows(path, Len(path), D), NEW e \in Picks, IsNext(path, Len(path), D, e)
    PROVE  e \in Options
<1>1. D \in ValidDesigns /\ Searched(D)
  BY DEF Targets
<1>2. CASE study.layered
  <2> DEFINE c == Len(path) + 1
  <2>1. c \in Categories(study) /\ e[1] = c /\ e = <<e[1], e[2]>>
    BY <1>1, <1>2, LayersFollowed, StudyFacts DEF StackInv, IsNext, Picks
  <2>2. CASE e[2] = 0
    <3>1. \A f \in D : f[1] # c
      BY <1>2, <2>2 DEF IsNext
    <3>2. ~study.requireAll
      BY <1>1, <1>2, <2>1, <3>1, DesignFacts
    <3>3. c \notin ForcedCategories
      BY <1>1, <3>1, DesignFacts DEF ForcedCategories
    <3> QED
      BY <1>2, <2>1, <2>2, <3>2, <3>3 DEF Options, LayerOptions
  <2>3. CASE e[2] # 0
    <3>1. e \in D
      BY <1>2, <2>3 DEF IsNext
    <3> QED
      BY <1>1, <1>2, <2>1, <3>1, InCandidates DEF Options, LayerOptions
  <2> QED
    BY <2>2, <2>3
<1>3. CASE ~study.layered
  <2>1. /\ Firsts(path, Len(path)) = ToSet(path)
        /\ \A i \in DOMAIN path : \A f \in Free(D) \ ToSet(path) : RanksBefore(path[i][1], f[1])
    BY <1>1, <1>3, OthersFollowed
  <2>2. e \in Free(D) \ ToSet(path)
    BY <1>3, <2>1 DEF IsNext
  <2>3. \A g \in ToSet(path) : RanksBefore(g[1], e[1])
    BY <2>1, <2>2 DEF ToSet
  <2>4. e[1] \in CandidateFree
    BY <1>1, <1>3, <2>2 DEF Searched, Free
  <2>5. e \in Of(e[1])
    BY <1>1, <2>2, DesignFacts DEF Of, Free
  <2> QED
    BY <1>3, <2>3, <2>4, <2>5 DEF Options, OtherOptions
<1> QED
  BY <1>2, <1>3

\* It is not passed over for a conflict.
LEMMA NextFits ==
    ASSUME TypeOK, PathInv, NEW D \in ValidDesigns,
           Follows(path, Len(path), D), NEW e \in Picks, IsNext(path, Len(path), D, e)
    PROVE  ~ConflictsWithSelected(e)
<1>1. CASE study.layered
  <2>1. SUFFICES ASSUME NEW f \in ToSet(path), <<e, f>> \in Conflicts PROVE FALSE
    BY DEF ConflictsWithSelected
  <2>2. e \in Elements(study) /\ f \in Elements(study)
    BY <1>1, <2>1 DEF Conflicts
  <2>3. e[2] # 0 /\ f[2] # 0
    BY <2>2, ElementFacts
  <2>4. f \in D
    BY <1>1, <2>3, LayersFollowed DEF Design
  <2>5. e \in D
    BY <1>1, <2>3 DEF IsNext
  <2> QED
    BY <2>1, <2>4, <2>5, DesignFacts
<1>2. CASE ~study.layered
  BY <1>2 DEF ConflictsWithSelected, Conflicts
<1> QED
  BY <1>1, <1>2

\* A complete path leads to one design, the one that is pushed.
LEMMA CompleteIs ==
    ASSUME TypeOK, PathInv, NEW D \in ValidDesigns, Follows(path, Len(path), D), Complete
    PROVE  Design = D
<1>1. CASE study.layered
  <2>1. \A e \in D : e[1] <= Len(path)
    <3>1. Len(path) = Len(study.value)
      BY <1>1 DEF Complete
    <3> QED
      BY <3>1, InCandidates, StudyFacts
  <2> QED
    BY <1>1, <2>1, LayersFollowed
<1>2. CASE ~study.layered
  <2>1. Design = DesignOf(path)
    BY DEF Design, DesignOf
  <2>2. Design \subseteq D
    BY <1>2, OthersFollowed, DesignFacts DEF Design, Seed, Free
  <2>3. GoodOthers(path)
    BY <1>2, PathIsGood DEF TypeOK, Picks, GoodPaths
  <2>4. Cardinality(Design) = Cardinality(D)
    BY <1>2, <2>1, <2>3, DesignFacts DEF GoodOthers, Complete
  <2> QED
    BY <2>2, <2>4, DesignFacts, FS_Subset
<1> QED
  BY <1>1, <1>2

-----------------------------------------------------------------------------
(* A push.                                                                 *)

LEMMA HeapFacts ==
    ASSUME TypeOK
    PROVE  /\ IsFiniteSet(heap) /\ Cardinality(heap) \in Nat
           /\ heap \subseteq SUBSET Elements(study)
           /\ \A E \in heap : Score(E) \in Int
<1>1. heap \subseteq SUBSET Elements(study)
  BY DEF TypeOK
<1>2. IsFiniteSet(heap)
  BY <1>1, ElementsFinite, FS_SUBSET, FS_Subset
<1> QED
  BY <1>1, <1>2, FS_CardinalityType, ScoreIsTotal

\* A design that is in the heap, or that a full heap has beaten, is so for good,
\* and the one that is pushed becomes so.
LEMMA PushSettles ==
    ASSUME TypeOK, HeapInv, NEW D \in Targets, Push(D)
    PROVE  /\ Cardinality(heap') <= study.limit
           /\ heap' \subseteq heap \cup {D} /\ seen' \subseteq seen \cup {D}
           /\ \A E \in SUBSET Elements(study) : Settled(heap, E) => Settled(heap', E)
           /\ Settled(heap', D)
<1>1. D # {} /\ D \in SUBSET Elements(study) /\ Score(D) \in Int
  BY DesignFacts DEF Targets
<1>2. /\ IsFiniteSet(heap) /\ Cardinality(heap) \in Nat /\ heap \subseteq seen
      /\ \A E \in heap : Score(E) \in Int
      /\ study.limit \in Nat \ {0} /\ Cardinality(heap) <= study.limit
  BY HeapFacts, StudyFacts DEF TypeOK, HeapInv
<1>3. CASE D \in seen
  BY <1>1, <1>2, <1>3 DEF Push, HeapInv
<1>4. CASE D \notin seen /\ HasRoom
  <2>1. heap' = heap \cup {D} /\ seen' = seen \cup {D} /\ Cardinality(heap) < study.limit
    BY <1>1, <1>4 DEF Push, HasRoom
  <2>2. Cardinality(heap') = Cardinality(heap) + 1
    BY <1>2, <1>4, <2>1, FS_AddElement
  <2>3. \A E : Settled(heap, E) => E \in heap
    BY <1>2, <2>1 DEF Settled, Beaten
  <2> QED
    BY <1>2, <2>1, <2>2, <2>3 DEF Settled
<1>5. CASE D \notin seen /\ ~HasRoom
  <2>1. Cardinality(heap) = study.limit /\ heap # {} /\ seen' = seen \cup {D}
    BY <1>1, <1>2, <1>5, FS_EmptySet DEF Push, HasRoom
  <2>2. Worst \in heap /\ \A E \in heap : Score(Worst) <= Score(E)
    BY <2>1, WorstIs
  <2>3. CASE heap' = heap /\ Score(D) <= Score(Worst)
    <3>1. \A E \in heap : Score(D) <= Score(E)
      BY <1>1, <1>2, <2>2, <2>3
    <3> QED
      BY <1>2, <2>1, <2>3, <3>1 DEF Settled, Beaten
  <2>4. CASE heap' = (heap \ {Worst}) \cup {D} /\ Score(D) >= Score(Worst)
    <3>1. Cardinality(heap') = study.limit
      <4>1. IsFiniteSet(heap \ {Worst}) /\ Cardinality(heap \ {Worst}) = Cardinality(heap) - 1
        BY <1>2, <2>2, FS_RemoveElement
      <4>2. D \notin heap \ {Worst}
        BY <1>2, <1>5
      <4>3. Cardinality((heap \ {Worst}) \cup {D}) = Cardinality(heap \ {Worst}) + 1
        BY <4>1, <4>2, FS_AddElement
      <4> QED
        BY <1>2, <2>1, <2>4, <4>1, <4>3
    <3>2. \A E \in heap' : Score(Worst) <= Score(E)
      BY <2>2, <2>4
    <3>3. ASSUME NEW E \in SUBSET Elements(study), Settled(heap, E) PROVE Settled(heap', E)
      <4>1. Score(E) \in Int
        BY ScoreIsTotal
      <4>2. CASE E \in heap
        <5>1. E \in heap' \/ E = Worst
          BY <2>4, <4>2
        <5>2. Beaten(heap', Worst)
          BY <3>1, <3>2 DEF Beaten
        <5> QED
          BY <5>1, <5>2 DEF Settled
      <4>3. CASE Beaten(heap, E)
        <5>1. Score(E) <= Score(Worst) /\ Score(Worst) \in Int
          BY <1>2, <2>2, <4>3 DEF Beaten
        <5>2. \A G \in heap' : Score(G) \in Int
          BY <1>1, <1>2, <2>4
        <5>3. \A G \in heap' : Score(E) <= Score(G)
          BY <3>2, <4>1, <5>1, <5>2
        <5> QED
          BY <3>1, <5>3 DEF Settled, Beaten
      <4> QED
        BY <3>3, <4>2, <4>3 DEF Settled
    <3> QED
      BY <1>2, <2>1, <2>4, <3>1, <3>3 DEF Settled
  <2>5. \/ heap' = heap /\ Score(D) <= Score(Worst)
        \/ heap' = (heap \ {Worst}) \cup {D} /\ Score(D) >= Score(Worst)
    <3>1. heap' = IF \/ Score(D) > Score(Worst)
                     \/ Score(D) = Score(Worst) /\ Earlier(D, Worst)
                  THEN (heap \ {Worst}) \cup {D}
                  ELSE heap
      BY <1>1, <1>5 DEF Push
    <3>2. Score(Worst) \in Int
      BY <1>2, <2>2
    <3> QED
      BY <1>1, <3>1, <3>2
  <2> QED
    BY <2>3, <2>4, <2>5
<1> QED
  BY <1>3, <1>4, <1>5

\* What is pruned cannot enter the heap.
LEMMA PrunedIsBeaten ==
    ASSUME TypeOK, PathInv, HeapInv, Prunes, NEW D \in ValidDesigns,
           Follows(path, Len(path), D)
    PROVE  Beaten(heap, D)
<1>1. study.layered /\ Cardinality(heap) >= study.limit /\ Optimistic < Score(Worst)
  BY DEF Prunes
<1>2. /\ Cardinality(heap) = study.limit /\ heap # {}
      /\ \A E \in heap : Score(E) \in Int
  BY <1>1, HeapFacts, StudyFacts, FS_EmptySet DEF HeapInv
<1>3. Score(D) <= Optimistic /\ Optimistic \in Int /\ Score(D) \in Int
  BY <1>1, BoundHolds, DesignFacts
<1>4. Worst \in heap /\ \A E \in heap : Score(Worst) <= Score(E)
  BY <1>2, WorstIs
<1> QED
  BY <1>1, <1>2, <1>3, <1>4 DEF Beaten

-----------------------------------------------------------------------------
(* The invariant of the search.                                            *)

SearchInv == HeapInv /\ ReachInv /\ DoneInv /\ Coverage

LEMMA SameSearch ==
    ASSUME study' = study
    PROVE  /\ Targets' = Targets /\ CandidateFree' = CandidateFree
           /\ \A h, D : Settled(h, D)' <=> Settled(h, D)
           /\ \A p, t, c, D : Ahead(p, t, c, D)' <=> Ahead(p, t, c, D)
<1>1. \A D : Score(D)' = Score(D)
  BY DEF Score, MapThenSumSet, MapThenFoldSet, Gain
<1>2. \A c, d : RanksBefore(c, d)' = RanksBefore(c, d)
  BY DEF RanksBefore, MaxGain, Gain, Max, Of, Elements, Categories
<1>3. CandidateFree' = CandidateFree
  BY DEF CandidateFree, RanksBefore, MaxGain, Gain, Max, Of, Elements, Categories, ForcedCategories
<1>4. Targets' = Targets
  BY <1>3, SameInput DEF Targets, Searched
<1>5. \A h, D : Settled(h, D)' <=> Settled(h, D)
  BY <1>1 DEF Settled, Beaten
<1>6. \A p, k, D, e : IsNext(p, k, D, e)' <=> IsNext(p, k, D, e)
  BY <1>2 DEF IsNext, Free, Firsts
<1>7. \A p, k, D : Follows(p, k, D)' <=> Follows(p, k, D)
  BY <1>6 DEF Follows
<1>8. \A p, k, t, D : Remains(p, k, t, D)' <=> Remains(p, k, t, D)
  BY <1>6 DEF Remains, Picks, Categories
<1>9. \A p, t, c, D : Ahead(p, t, c, D)' <=> Ahead(p, t, c, D)
  BY <1>7, <1>8 DEF Ahead
<1> QED
  BY <1>3, <1>4, <1>5, <1>9

LEMMA FrontIndex ==
    ASSUME NEW S, NEW s \in Seq(S), s # <<>>
    PROVE  /\ Front(s) \in Seq(S) /\ Len(Front(s)) = Len(s) - 1 /\ Len(s) \in Nat \ {0}
           /\ \A i \in 1 .. Len(s) - 1 : Front(s)[i] = s[i]
           /\ Last(s) = s[Len(s)]
<1>1. Len(s) \in Nat \ {0}
  OBVIOUS
<1>2. Front(s) \in Seq(S) /\ Len(Front(s)) = Len(s) - 1
  BY SeqFront
<1>3. \A i \in 1 .. Len(s) - 1 : Front(s)[i] = s[i]
  BY <1>1 DEF Front
<1> QED
  BY <1>1, <1>2, <1>3 DEF Last

\* The open loops see only the picks before them.
LEMMA SamePrefix ==
    ASSUME NEW p, NEW q, NEW k \in Nat, \A i \in 1 .. k : p[i] = q[i]
    PROVE  /\ \A D : Follows(p, k, D) <=> Follows(q, k, D)
           /\ \A D, e : IsNext(p, k, D, e) <=> IsNext(q, k, D, e)
           /\ \A t, D : Remains(p, k, t, D) <=> Remains(q, k, t, D)
<1>1. ASSUME NEW j \in 0 .. k
      PROVE  \A D, e : IsNext(p, j, D, e) <=> IsNext(q, j, D, e)
  <2>1. Firsts(p, j) = Firsts(q, j)
    BY DEF Firsts
  <2> QED
    BY <2>1 DEF IsNext
<1>2. \A D : Follows(p, k, D) <=> Follows(q, k, D)
  <2>1. \A i \in 1 .. k : i - 1 \in 0 .. k
    OBVIOUS
  <2> QED
    BY <1>1, <2>1 DEF Follows
<1>3. k \in 0 .. k
  OBVIOUS
<1> QED
  BY <1>1, <1>2, <1>3 DEF Remains

\* A loop that a step leaves alone still leads to the designs it led to.
LEMMA StaysAhead ==
    ASSUME NEW p, NEW q, NEW t, NEW u, NEW c, NEW D, NEW k \in Nat,
           k <= Len(q), Len(q) \in Nat, \A i \in 1 .. k : q[i] = p[i],
           k < Len(u), u[k + 1] = t[k + 1],
           Follows(p, k, D), Remains(p, k, t, D)
    PROVE  Ahead(q, u, c, D)
<1>1. Follows(q, k, D) /\ Remains(q, k, t, D)
  BY SamePrefix
<1>2. Remains(q, k, u, D)
  BY <1>1 DEF Remains
<1>3. k \in 0 .. Len(q)
  OBVIOUS
<1> QED
  BY <1>1, <1>2, <1>3 DEF Ahead

LEMMA SearchInit == Init => SearchInv
<1> SUFFICES ASSUME Init PROVE SearchInv
  OBVIOUS
<1>1. TypeOK
  BY InvInit DEF Inv
<1>2. HeapInv
  BY <1>1, StudyFacts, FS_EmptySet DEF Init, HeapInv
<1>3. ReachInv /\ DoneInv
  BY DEF Init, ReachInv, DoneInv
<1>4. ASSUME NEW D PROVE Ahead(path, tried, pc, D)
  <2>1. path = <<>> /\ tried = <<>> /\ pc = "call" /\ Len(path) = 0 /\ Len(tried) = 0
    BY DEF Init
  <2>2. Follows(path, 0, D)
    BY DEF Follows
  <2> QED
    BY <2>1, <2>2 DEF Ahead
<1> QED
  BY <1>2, <1>3, <1>4 DEF SearchInv, Coverage

\* A design that is pushed is within reach.
LEMMA DesignInReach ==
    ASSUME Inv, ReachInv, Complete, PassesRequireAny(Design), Design # {}
    PROVE  Design \in Targets
<1>1. Design \in ValidDesigns
  BY LayersAreValid, OthersAreValid DEF Inv
<1>2. Searched(Design)
  BY DEF Searched, Design, Seed, ToSet, ReachInv
<1> QED
  BY <1>1, <1>2 DEF Targets

\* The heap changes by pushes of designs within reach only.
LEMMA HeapChange ==
    ASSUME Inv, HeapInv, ReachInv, [Next]_vars
    PROVE  /\ study' = study
           /\ \/ UNCHANGED <<heap, seen>>
              \/ \E D \in Targets : Push(D)
<1> USE DEF Inv
<1>1. CASE Completed
  BY <1>1, DesignInReach DEF Completed, Push
<1>2. CASE ~Completed
  BY <1>2 DEF Next, TimesOut, Pruned, Opened, Tries, Exhausted, vars
<1> QED
  BY <1>1, <1>2 DEF Completed

LEMMA HeapStep ==
    ASSUME Inv, HeapInv, ReachInv, [Next]_vars
    PROVE  /\ HeapInv'
           /\ \A D \in SUBSET Elements(study) : Settled(heap, D) => Settled(heap', D)
<1>1. study' = study /\ TypeOK
  BY HeapChange DEF Inv
<1>2. CASE UNCHANGED <<heap, seen>>
  BY <1>1, <1>2, SameSearch DEF HeapInv
<1>3. ASSUME NEW D \in Targets, Push(D)
      PROVE  /\ HeapInv'
             /\ \A E \in SUBSET Elements(study) : Settled(heap, E) => Settled(heap', E)
  <2>1. /\ Cardinality(heap') <= study.limit
        /\ heap' \subseteq heap \cup {D} /\ seen' \subseteq seen \cup {D}
        /\ \A E \in SUBSET Elements(study) : Settled(heap, E) => Settled(heap', E)
        /\ Settled(heap', D)
    BY <1>1, <1>3, PushSettles
  <2>2. \A E \in seen' : Settled(heap', E)
    BY <1>1, <2>1 DEF HeapInv, TypeOK
  <2> QED
    BY <1>1, <2>1, <2>2, SameSearch DEF HeapInv
<1> QED
  BY <1>2, <1>3, HeapChange

LEMMA ReachStep == Inv /\ ReachInv /\ [Next]_vars => ReachInv'
<1> SUFFICES ASSUME Inv, ReachInv, [Next]_vars, ~study'.layered, NEW i \in DOMAIN path'
             PROVE  path'[i][1] \in CandidateFree'
  BY DEF ReachInv
<1> USE DEF Inv, ReachInv
<1>1. /\ study' = study /\ CandidateFree' = CandidateFree
      /\ path \in Seq(Picks) /\ Len(path) \in Nat /\ DOMAIN path = 1 .. Len(path)
  <2>1. study' = study
    BY DEF Next, TimesOut, Pruned, Completed, Opened, Tries, Exhausted, vars
  <2> QED
    BY <2>1, SameSearch DEF TypeOK, Picks
<1>2. CASE path' = path
  BY <1>1, <1>2
<1>3. CASE Return
  <2>1. CASE path # <<>>
    BY <1>1, <1>3, <2>1, FrontIndex DEF Return
  <2> QED
    BY <1>2, <1>3, <2>1 DEF Return
<1>4. ASSUME NEW e \in Options, Tries(e)
      PROVE  path'[i][1] \in CandidateFree'
  <2>1. e[1] \in CandidateFree
    BY <1>1 DEF Options, OtherOptions, Of
  <2>2. CASE path' = Append(path, e)
    BY <1>1, <2>1, <2>2
  <2> QED
    BY <1>2, <1>4, <2>2 DEF Tries
<1> QED
  BY <1>2, <1>3, <1>4 DEF Next, TimesOut, Pruned, Completed, Opened, Exhausted, vars

LEMMA DoneStep == Inv /\ DoneInv /\ [Next]_vars => DoneInv'
<1> SUFFICES ASSUME Inv, DoneInv, [Next]_vars, pc' = "done", ~late'
             PROVE  tried' = <<>> /\ path' = <<>>
  BY DEF DoneInv
<1> USE DEF Inv, DoneInv
<1>1. /\ Len(path) \in Nat /\ path = <<>> => Len(path) = 0
      /\ \A s \in Seq(SUBSET Picks) : Len(s) = 0 => s = <<>>
      /\ tried \in Seq(SUBSET Picks)
  BY DEF TypeOK, Picks
<1>2. CASE Pruned \/ Completed
  <2>1. path = <<>> /\ path' = path /\ tried' = tried /\ Len(tried) = 0
    BY <1>1, <1>2 DEF Pruned, Completed, Return, StackInv
  <2> QED
    BY <1>1, <2>1
<1>3. CASE Exhausted
  <2>1. path = <<>> /\ path' = path /\ tried' = Front(tried) /\ Len(tried) = 1
    BY <1>1, <1>3 DEF Exhausted, Return, StackInv
  <2>2. tried # <<>>
    BY <1>1, <2>1
  <2>3. tried' \in Seq(SUBSET Picks) /\ Len(tried') = 0
    BY <1>1, <2>1, <2>2, FrontIndex
  <2> QED
    BY <1>1, <2>1, <2>3
<1>4. CASE TimesOut \/ Opened
  BY <1>4 DEF TimesOut, Opened
<1>5. ASSUME NEW e \in Options, Tries(e) PROVE FALSE
  BY <1>5 DEF Tries
<1>6. CASE UNCHANGED vars
  BY <1>6 DEF vars
<1> QED
  BY <1>2, <1>3, <1>4, <1>5, <1>6 DEF Next

\* A design ahead of the search is either the business of the innermost call or
\* loop, or of a loop further out, which is not affected by what that does.
LEMMA AheadCases ==
    ASSUME Inv, NEW D, Ahead(path, tried, pc, D), pc # "done"
    PROVE  \/ \E k \in Nat : /\ k < Len(path) /\ k < Len(tried)
                             /\ Follows(path, k, D) /\ Remains(path, k, tried, D)
           \/ pc = "call" /\ Follows(path, Len(path), D)
           \/ /\ pc = "loop" /\ Follows(path, Len(path), D)
              /\ Remains(path, Len(path), tried, D)
<1>1. /\ Len(path) \in Nat /\ pc \in {"call", "loop"}
      /\ pc = "call" => Len(tried) = Len(path)
      /\ pc = "loop" => Len(tried) = Len(path) + 1
  BY DEF Inv, TypeOK, StackInv
<1>2. PICK k \in 0 .. Len(path) :
          /\ Follows(path, k, D)
          /\ IF k < Len(tried) THEN Remains(path, k, tried, D) ELSE k = Len(path) /\ pc = "call"
  BY DEF Ahead
<1>3. k \in Nat /\ (k < Len(path) \/ k = Len(path))
  BY <1>1
<1> QED
  BY <1>1, <1>2, <1>3

\* The step of a call that returns or of a loop that ends.
LEMMA ReturnKeeps ==
    ASSUME Inv, Return, NEW D, NEW k \in Nat, k < Len(path), k < Len(tried), k < Len(tried'),
           tried'[k + 1] = tried[k + 1], Follows(path, k, D), Remains(path, k, tried, D)
    PROVE  Ahead(path', tried', pc', D)
<1>1. path \in Seq(Picks) /\ Len(path) \in Nat
  BY DEF Inv, TypeOK, Picks
<1>2. path # <<>> /\ path' = Front(path)
  BY DEF Return
<1>3. Len(path') = Len(path) - 1 /\ \A i \in 1 .. Len(path) - 1 : path'[i] = path[i]
  BY <1>1, <1>2, FrontIndex
<1>4. k <= Len(path') /\ Len(path') \in Nat /\ \A i \in 1 .. k : path'[i] = path[i]
  BY <1>1, <1>3
<1> QED
  BY <1>4, StaysAhead

LEMMA CoverageStep == Inv /\ SearchInv /\ [Next]_vars => Coverage'
<1> SUFFICES ASSUME Inv, SearchInv, [Next]_vars
             PROVE  Coverage'
  OBVIOUS
<1> USE DEF Inv
<1>0. study' = study
  BY HeapChange DEF SearchInv
<1> SUFFICES ASSUME ~late', NEW D \in Targets, ~Settled(heap', D)
             PROVE  Ahead(path', tried', pc', D)
  BY <1>0, SameSearch DEF Coverage
<1>1. D \in ValidDesigns /\ D \in SUBSET Elements(study) /\ TypeOK
  BY DesignFacts DEF Targets
<1>2. ~Settled(heap, D)
  BY <1>1, HeapStep DEF SearchInv
<1>3. ~late
  BY DEF Next, TimesOut, Pruned, Completed, Opened, Tries, Exhausted, vars
<1>4. Ahead(path, tried, pc, D)
  BY <1>2, <1>3 DEF SearchInv, Coverage
<1>5. /\ path \in Seq(Picks) /\ Len(path) \in Nat
      /\ tried \in Seq(SUBSET Picks) /\ Len(tried) \in Nat
  BY DEF TypeOK, Picks
<1> DEFINE Outer(k) == /\ k < Len(path) /\ k < Len(tried)
                       /\ Follows(path, k, D) /\ Remains(path, k, tried, D)
<1>6. CASE Pruned
  <2>1. CASE Follows(path, Len(path), D)
    BY <1>1, <1>2, <1>6, <2>1, PrunedIsBeaten DEF Pruned, SearchInv, Settled
  <2>2. ASSUME NEW k \in Nat, Outer(k) PROVE Ahead(path', tried', pc', D)
    BY <1>6, <2>2, ReturnKeeps DEF Pruned
  <2> QED
    BY <1>4, <1>6, <2>1, <2>2, AheadCases DEF Pruned
<1>7. CASE Completed
  <2>1. ~Follows(path, Len(path), D)
    <3>1. SUFFICES ASSUME Follows(path, Len(path), D) PROVE FALSE
      OBVIOUS
    <3>2. Design = D
      BY <1>1, <1>7, <3>1, CompleteIs DEF Completed
    <3>3. Push(D)
      BY <1>1, <1>7, <3>2, DesignFacts DEF Completed
    <3>4. Settled(heap', D)
      BY <1>1, <3>3, PushSettles DEF SearchInv
    <3> QED
      BY <3>4
  <2>2. ASSUME NEW k \in Nat, Outer(k) PROVE Ahead(path', tried', pc', D)
    BY <1>7, <2>2, ReturnKeeps DEF Completed
  <2> QED
    BY <1>4, <1>7, <2>1, <2>2, AheadCases DEF Completed
<1>8. CASE Opened
  <2>1. /\ path' = path /\ tried' = Append(tried, {}) /\ pc' = "loop" /\ pc = "call"
        /\ Len(tried) = Len(path) /\ Len(tried') = Len(path) + 1
        /\ \A i \in 1 .. Len(tried) : tried'[i] = tried[i]
        /\ tried'[Len(path) + 1] = {}
    BY <1>5, <1>8 DEF Opened, StackInv
  <2>2. CASE Follows(path, Len(path), D)
    <3>1. Remains(path', Len(path), tried', D)
      BY <1>1, <1>8, <2>1, <2>2, NextExists DEF Opened, Remains
    <3>2. Len(path) \in 0 .. Len(path')
      BY <1>5, <2>1
    <3> QED
      BY <1>5, <2>1, <2>2, <3>1, <3>2 DEF Ahead
  <2>3. ASSUME NEW k \in Nat, Outer(k) PROVE Ahead(path', tried', pc', D)
    <3>1. k + 1 \in 1 .. Len(tried) /\ k <= Len(path') /\ k < Len(tried')
      BY <1>5, <2>1, <2>3
    <3> QED
      BY <1>5, <2>1, <2>3, <3>1, StaysAhead
  <2> QED
    BY <1>4, <2>1, <2>2, <2>3, AheadCases
<1>9. ASSUME NEW e \in Options, Tries(e) PROVE Ahead(path', tried', pc', D)
  <2> DEFINE n == Len(path)
  <2>1. pc = "loop" /\ Len(tried) = n + 1 /\ tried # <<>> /\ e \in Picks
    BY <1>5, <1>9, OptionIsPick DEF Tries, StackInv
  <2>2. /\ Len(tried') = n + 1
        /\ tried'[n + 1] = tried[n + 1] \cup {e}
        /\ \A i \in 1 .. n : tried'[i] = tried[i]
    <3>1. /\ Front(tried) \in Seq(SUBSET Picks) /\ Len(Front(tried)) = n
          /\ \A i \in 1 .. n : Front(tried)[i] = tried[i]
          /\ Last(tried) = tried[n + 1]
      BY <1>5, <2>1, FrontIndex
    <3>2. tried' = Append(Front(tried), Last(tried) \cup {e})
      BY <1>9 DEF Tries
    <3> QED
      BY <1>5, <3>1, <3>2
  <2>3. \/ path' = path /\ pc' = "loop" /\ ConflictsWithSelected(e)
        \/ path' = Append(path, e) /\ pc' = "call" /\ ~ConflictsWithSelected(e)
    BY <1>9, <2>1 DEF Tries
  <2>4. /\ Len(path') \in Nat /\ n <= Len(path')
        /\ \A i \in 1 .. n : path'[i] = path[i]
    BY <1>5, <2>1, <2>3
  <2>5. ASSUME NEW k \in Nat, Outer(k) PROVE Ahead(path', tried', pc', D)
    <3>1. k + 1 \in 1 .. n /\ k <= Len(path') /\ k < Len(tried')
      BY <1>5, <2>2, <2>4, <2>5
    <3>2. \A i \in 1 .. k : path'[i] = path[i]
      BY <1>5, <2>4, <2>5
    <3> QED
      BY <2>2, <2>4, <2>5, <3>1, <3>2, StaysAhead
  <2>6. ASSUME Follows(path, n, D), Remains(path, n, tried, D)
        PROVE  Ahead(path', tried', pc', D)
    <3>1. PICK g \in Picks : IsNext(path, n, D, g) /\ g \notin tried[n + 1]
      BY <2>6 DEF Remains
    <3>2. Follows(path', n, D) /\ IsNext(path', n, D, g)
      BY <1>5, <2>4, <2>6, <3>1, SamePrefix
    <3>3. CASE g # e
      <4>1. g \notin tried'[n + 1]
        BY <2>2, <3>1, <3>3
      <4>2. Remains(path', n, tried', D)
        BY <3>2, <4>1 DEF Remains
      <4>3. n \in 0 .. Len(path') /\ n < Len(tried')
        BY <1>5, <2>2, <2>4
      <4> QED
        BY <3>2, <4>2, <4>3 DEF Ahead
    <3>4. CASE g = e
      <4>1. path' = Append(path, e) /\ pc' = "call"
        BY <1>1, <2>3, <2>6, <3>1, <3>4, NextFits
      <4>2. Len(path') = n + 1 /\ path'[n + 1] = e
        BY <1>5, <2>1, <4>1
      <4>3. Follows(path', n + 1, D)
        <5>1. \A i \in 1 .. n + 1 : i \in 1 .. n \/ i = n + 1
          BY <1>5
        <5>2. n + 1 - 1 = n
          BY <1>5
        <5> QED
          BY <3>2, <3>4, <4>2, <5>1, <5>2 DEF Follows
      <4>4. n + 1 \in 0 .. Len(path')
        BY <1>5, <4>2
      <4> QED
        BY <1>5, <2>2, <4>1, <4>2, <4>3, <4>4 DEF Ahead
    <3> QED
      BY <3>3, <3>4
  <2> QED
    BY <1>4, <2>1, <2>5, <2>6, AheadCases
<1>10. CASE Exhausted
  <2> DEFINE n == Len(path)
  <2>1. pc = "loop" /\ Len(tried) = n + 1 /\ tried # <<>>
    BY <1>5, <1>10 DEF Exhausted, StackInv
  <2>2. /\ Len(tried') = n /\ Last(tried) = tried[n + 1]
        /\ \A i \in 1 .. n : tried'[i] = tried[i]
    BY <1>5, <1>10, <2>1, FrontIndex DEF Exhausted
  <2>3. ~(Follows(path, n, D) /\ Remains(path, n, tried, D))
    <3>1. SUFFICES ASSUME Follows(path, n, D), NEW g \in Picks, IsNext(path, n, D, g),
                          g \notin tried[n + 1]
                   PROVE  FALSE
      BY DEF Remains
    <3>2. g \in Options
      BY <1>1, <2>1, <3>1, NextIsOption
    <3> QED
      BY <1>10, <2>2, <3>1, <3>2 DEF Exhausted
  <2>4. ASSUME NEW k \in Nat, Outer(k) PROVE Ahead(path', tried', pc', D)
    <3>1. k + 1 \in 1 .. n /\ k < Len(tried')
      BY <1>5, <2>2, <2>4
    <3> QED
      BY <1>10, <2>2, <2>4, <3>1, ReturnKeeps DEF Exhausted
  <2> QED
    BY <1>4, <2>1, <2>3, <2>4, AheadCases
<1>11. CASE TimesOut
  BY <1>11 DEF TimesOut
<1>12. CASE UNCHANGED vars
  BY <1>4, <1>12 DEF vars
<1> QED
  BY <1>6, <1>7, <1>8, <1>9, <1>10, <1>11, <1>12 DEF Next

LEMMA SearchStep == Inv /\ SearchInv /\ [Next]_vars => SearchInv'
BY HeapStep, ReachStep, DoneStep, CoverageStep DEF SearchInv

\* A search that ends in time has nothing ahead of it any more.
LEMMA EndIsExact == Inv /\ SearchInv => RankingIsExact
<1> SUFFICES ASSUME Inv, SearchInv, pc = "done", ~late
             PROVE  /\ Cardinality(heap) = Min({study.limit, Cardinality(Targets)})
                    /\ \A D \in Targets \ heap : \A E \in heap : Score(D) <= Score(E)
  BY DEF RankingIsExact, Targets, ValidDesigns
<1> DEFINE n == Cardinality(heap)
           m == Cardinality(Targets)
<1>1. TypeOK /\ tried = <<>> /\ path = <<>> /\ Len(path) = 0 /\ Len(tried) = 0
  BY DEF Inv, SearchInv, DoneInv
<1>2. \A D \in Targets : ~Ahead(path, tried, pc, D)
  BY <1>1 DEF Ahead
<1>3. \A D \in Targets : Settled(heap, D)
  BY <1>2 DEF SearchInv, Coverage
<1>4. IsFiniteSet(Targets) /\ heap \subseteq Targets /\ m \in Nat /\ n \in Nat /\ n <= m
  <2>1. Targets \subseteq SUBSET Elements(study)
    BY DEF Targets, ValidDesigns, Selections
  <2>2. IsFiniteSet(Targets)
    BY <1>1, <2>1, ElementsFinite, FS_SUBSET, FS_Subset
  <2> QED
    BY <2>2, FS_Subset, FS_CardinalityType DEF SearchInv, HeapInv
<1>5. study.limit \in Nat /\ n <= study.limit
  BY <1>1, StudyFacts DEF SearchInv, HeapInv
<1>6. ASSUME NEW a \in Nat, NEW b \in Nat, a <= b
      PROVE  Min({a, b}) = a /\ Min({b, a}) = a
  BY <1>6 DEF Min
<1>7. CASE n = study.limit
  BY <1>3, <1>4, <1>5, <1>6, <1>7 DEF Settled, Beaten
<1>8. CASE n # study.limit
  <2>1. Targets = heap
    BY <1>3, <1>4, <1>8 DEF Settled, Beaten
  <2> QED
    BY <1>4, <1>5, <1>6, <2>1
<1> QED
  BY <1>7, <1>8

-----------------------------------------------------------------------------
(* For every study of either kind, with any number of categories, elements *)
(* and constraints, and any limit: a search that ends in time returns the  *)
(* best designs that exist within reach, as many as were asked for.        *)
THEOREM RankingExact == Spec => []RankingIsExact
<1>1. Inv /\ SearchInv /\ [Next]_vars => SearchInv'
  BY SearchStep
<1> QED
  BY InvAlways, SearchInit, <1>1, EndIsExact, PTL DEF Spec
=============================================================================
