-------------------------------- MODULE Sums --------------------------------
(***************************************************************************)
(* Sums of weights over finite sets, which the byte and attempt budgets    *)
(* are stated with (MapThenSumSet): what adding, dropping or changing one  *)
(* member does to a sum.  The recursion of the fold is shown to have a     *)
(* solution by taking the least cardinality for which it would have none.  *)
(***************************************************************************)
EXTENDS Integers, FiniteSets, FiniteSetsExt, FiniteSetTheorems, WellFoundedInduction, TLAPS

(* The sum of the weights w of the members of S.                           *)
Sum(w, S) == MapThenSumSet(LAMBDA x : w[x], S)

(* The member a fold takes next, and what a fold does with a part of S.    *)
Pick(s) == CHOOSE x \in s : TRUE
Tally(w, f, s) == IF s = {} THEN 0 ELSE w[Pick(s)] + f[s \ {Pick(s)}]

(* The function the fold is defined by.                                    *)
Folds(w, S, f) == f = [s \in SUBSET S |-> Tally(w, f, s)]

(* Weights are natural numbers.                                            *)
Weighs(w, S) == \A x \in S : w[x] \in Nat

(* Every set of natural numbers that is not empty has a least one.         *)
LEMMA LeastNumber ==
  ASSUME NEW B, B \subseteq Nat, B # {}
  PROVE  \E b \in B : \A c \in B : b <= c
<1> DEFINE R == OpToRel(<, Nat)
<1>1. IsWellFoundedOn(R, Nat)
  BY NatLessThanWellFounded, Zenon
<1>2. R = {ss \in Nat \X Nat : ss[1] < ss[2]}
  BY DEF OpToRel
<1> HIDE DEF R
<1>3. PICK b \in B : \A c \in B : ~(<<c, b>> \in R)
  BY <1>1, WFMin
<1>4. ASSUME NEW x \in Nat, NEW y \in Nat, x < y PROVE <<x, y>> \in R
  <2>1. <<x, y>> \in Nat \X Nat /\ <<x, y>>[1] = x /\ <<x, y>>[2] = y
    OBVIOUS
  <2> QED BY <2>1, <1>2, <1>4
<1>5. ASSUME NEW c \in B PROVE b <= c
  <2>1. b \in Nat /\ c \in Nat /\ ~(<<c, b>> \in R)
    BY <1>3
  <2>2. ~(c < b)
    BY <1>4, <2>1
  <2> QED BY <2>1, <2>2
<1> QED BY <1>5

(* The member that is taken is one, and a smaller set is left.             *)
LEMMA Picked ==
  ASSUME NEW s, IsFiniteSet(s), s # {}
  PROVE  /\ Pick(s) \in s
         /\ IsFiniteSet(s \ {Pick(s)})
         /\ Cardinality(s) \in Nat /\ Cardinality(s \ {Pick(s)}) \in Nat
         /\ Cardinality(s) = Cardinality(s \ {Pick(s)}) + 1
<1>1. Pick(s) \in s
  BY DEF Pick
<1>2. /\ IsFiniteSet(s \ {Pick(s)})
      /\ Cardinality(s \ {Pick(s)}) = Cardinality(s) - 1
  BY <1>1, FS_RemoveElement
<1>3. Cardinality(s) \in Nat /\ Cardinality(s \ {Pick(s)}) \in Nat
  BY <1>2, FS_CardinalityType
<1> QED BY <1>1, <1>2, <1>3

(* A function that tallies every part of S with at most n members.         *)
Part(S, n) == {s \in SUBSET S : Cardinality(s) <= n}
Tallies(w, S, n, f) ==
  /\ f \in [Part(S, n) -> Nat]
  /\ \A s \in Part(S, n) : f[s] = Tally(w, f, s)

(* Parts with one member more can be tallied as well.                      *)
LEMMA TallyMore ==
  ASSUME NEW S, IsFiniteSet(S), NEW w, Weighs(w, S), NEW n \in Nat,
         NEW f, Tallies(w, S, n, f)
  PROVE  \E g : Tallies(w, S, n + 1, g)
<1> DEFINE g == [s \in Part(S, n + 1) |-> Tally(w, f, s)]
<1>1. ASSUME NEW s \in Part(S, n + 1), s # {}
      PROVE  /\ Pick(s) \in S /\ w[Pick(s)] \in Nat
             /\ s \ {Pick(s)} \in Part(S, n)
  <2>1. s \in SUBSET S /\ Cardinality(s) <= n + 1
    BY DEF Part
  <2>2. IsFiniteSet(s)
    BY <2>1, FS_Subset
  <2>3. /\ Pick(s) \in s
        /\ Cardinality(s) \in Nat /\ Cardinality(s \ {Pick(s)}) \in Nat
        /\ Cardinality(s) = Cardinality(s \ {Pick(s)}) + 1
    BY <1>1, <2>2, Picked
  <2>4. Cardinality(s \ {Pick(s)}) <= n
    BY <2>1, <2>3
  <2>5. s \ {Pick(s)} \in SUBSET S
    BY <2>1
  <2> QED BY <2>1, <2>3, <2>4, <2>5 DEF Part, Weighs
<1>2. ASSUME NEW s \in Part(S, n + 1) PROVE Tally(w, f, s) \in Nat
  <2>1. CASE s = {}
    BY <2>1 DEF Tally
  <2>2. CASE s # {}
    <3>1. w[Pick(s)] \in Nat /\ f[s \ {Pick(s)}] \in Nat
      BY <1>1, <2>2 DEF Tallies
    <3> QED BY <2>2, <3>1 DEF Tally
  <2> QED BY <2>1, <2>2
<1>3. ASSUME NEW s \in Part(S, n) PROVE s \in Part(S, n + 1) /\ g[s] = f[s]
  <2>1. s \in SUBSET S /\ Cardinality(s) <= n
    BY DEF Part
  <2>2. Cardinality(s) \in Nat
    BY <2>1, FS_Subset, FS_CardinalityType
  <2>3. s \in Part(S, n + 1)
    BY <2>1, <2>2 DEF Part
  <2>4. f[s] = Tally(w, f, s)
    BY DEF Tallies
  <2> QED BY <2>3, <2>4
<1>4. ASSUME NEW s \in Part(S, n + 1) PROVE g[s] = Tally(w, g, s)
  <2>1. g[s] = Tally(w, f, s)
    OBVIOUS
  <2>2. CASE s = {}
    BY <2>1, <2>2 DEF Tally
  <2>3. CASE s # {}
    <3>1. g[s \ {Pick(s)}] = f[s \ {Pick(s)}]
      BY <1>1, <1>3, <2>3
    <3> HIDE DEF g
    <3> QED BY <2>1, <2>3, <3>1 DEF Tally
  <2> QED BY <2>2, <2>3
<1>5. g \in [Part(S, n + 1) -> Nat]
  BY <1>2
<1>6. Tallies(w, S, n + 1, g)
  <2> HIDE DEF g
  <2> QED BY <1>4, <1>5 DEF Tallies
<1> QED BY <1>6

(* The recursion of the fold has a solution.                               *)
LEMMA FoldExists ==
  ASSUME NEW S, IsFiniteSet(S), NEW w, Weighs(w, S)
  PROVE  \E f \in [SUBSET S -> Nat] : Folds(w, S, f)
<1> DEFINE Bad == {n \in Nat : ~\E f : Tallies(w, S, n, f)}
<1>1. 0 \notin Bad
  <2> DEFINE f == [s \in Part(S, 0) |-> 0]
  <2>1. ASSUME NEW s \in Part(S, 0) PROVE s = {}
    <3>1. IsFiniteSet(s) /\ Cardinality(s) \in Nat /\ Cardinality(s) <= 0
      BY FS_Subset, FS_CardinalityType DEF Part
    <3>2. Cardinality(s) = 0
      BY <3>1
    <3> QED BY <3>1, <3>2, FS_EmptySet
  <2>2. Tallies(w, S, 0, f)
    BY <2>1 DEF Tallies, Tally
  <2> QED BY <2>2
<1>2. Bad = {}
  <2> SUFFICES ASSUME Bad # {} PROVE FALSE
    OBVIOUS
  <2>1. PICK n \in Bad : \A m \in Bad : n <= m
    BY LeastNumber
  <2>2. n \in Nat /\ n - 1 \in Nat /\ n - 1 \notin Bad
    BY <1>1, <2>1
  <2>3. PICK f : Tallies(w, S, n - 1, f)
    BY <2>2
  <2>4. \E g : Tallies(w, S, (n - 1) + 1, g)
    BY <2>2, <2>3, TallyMore
  <2>5. (n - 1) + 1 = n
    BY <2>2
  <2> QED BY <2>4, <2>5
<1>3. Cardinality(S) \in Nat
  BY FS_CardinalityType
<1>4. PICK f : Tallies(w, S, Cardinality(S), f)
  BY <1>2, <1>3
<1>5. Part(S, Cardinality(S)) = SUBSET S
  BY FS_Subset DEF Part
<1>6. f \in [SUBSET S -> Nat] /\ \A s \in SUBSET S : f[s] = Tally(w, f, s)
  BY <1>4, <1>5 DEF Tallies
<1>7. f = [s \in SUBSET S |-> Tally(w, f, s)]
  BY <1>6
<1> QED BY <1>6, <1>7 DEF Folds

(* Weights that agree are tallied alike, whatever the sets they weigh.     *)
LEMMA FoldUnique ==
  ASSUME NEW S, NEW T, NEW w, NEW v, NEW f, NEW g, Folds(w, S, f), Folds(v, T, g),
         NEW U \in SUBSET (S \cap T), IsFiniteSet(U), \A x \in U : w[x] = v[x]
  PROVE  f[U] = g[U]
<1> DEFINE Odd == {s \in SUBSET U : f[s] # g[s]}
           Sizes == {Cardinality(s) : s \in Odd}
<1>0. ASSUME NEW s \in SUBSET U PROVE f[s] = Tally(w, f, s) /\ g[s] = Tally(v, g, s)
  <2>1. s \in SUBSET S /\ s \in SUBSET T
    OBVIOUS
  <2> QED BY <2>1 DEF Folds
<1>1. Odd = {}
  <2> SUFFICES ASSUME Odd # {} PROVE FALSE
    OBVIOUS
  <2>1. Sizes \subseteq Nat /\ Sizes # {}
    BY FS_Subset, FS_CardinalityType
  <2>2. PICK n \in Sizes : \A m \in Sizes : n <= m
    BY <2>1, LeastNumber
  <2>3. PICK s \in Odd : n = Cardinality(s)
    BY <2>2
  <2>4. s \in SUBSET U /\ IsFiniteSet(s) /\ f[s] # g[s]
    BY <2>3, FS_Subset
  <2>5. s # {}
    BY <1>0, <2>4 DEF Tally
  <2>6. /\ Pick(s) \in s
        /\ Cardinality(s) \in Nat /\ Cardinality(s \ {Pick(s)}) \in Nat
        /\ Cardinality(s) = Cardinality(s \ {Pick(s)}) + 1
    BY <2>4, <2>5, Picked
  <2>7. s \ {Pick(s)} \notin Odd
    <3>1. ~(n <= Cardinality(s \ {Pick(s)}))
      BY <2>3, <2>6
    <3> QED BY <2>2, <3>1
  <2>8. f[s \ {Pick(s)}] = g[s \ {Pick(s)}]
    BY <2>4, <2>7
  <2>9. w[Pick(s)] = v[Pick(s)]
    BY <2>4, <2>6
  <2> QED BY <1>0, <2>4, <2>5, <2>8, <2>9 DEF Tally
<1> QED BY <1>1

(* The sum is what the recursion gives the whole set.                      *)
LEMMA SumIs ==
  ASSUME NEW S, IsFiniteSet(S), NEW w, NEW f, Folds(w, S, f)
  PROVE  Sum(w, S) = f[S]
<1>1. Sum(w, S) = (CHOOSE g : Folds(w, S, g))[S]
  BY DEF Sum, Folds, Tally, Pick, MapThenSumSet, MapThenFoldSet
<1>2. Folds(w, S, CHOOSE g : Folds(w, S, g))
  <2> HIDE DEF Folds
  <2> QED OBVIOUS
<1> HIDE DEF Sum
<1>3. (CHOOSE g : Folds(w, S, g))[S] = f[S]
  <2> PICK h \in {CHOOSE g : Folds(w, S, g)} : TRUE
    OBVIOUS
  <2> QED BY <1>2, FoldUnique, S \in SUBSET (S \cap S)
<1> QED BY <1>1, <1>3

(* The sum of nothing, and the range of every sum.                         *)
LEMMA SumEmpty == ASSUME NEW w PROVE Sum(w, {}) = 0
<1>1. IsFiniteSet({}) /\ Weighs(w, {})
  BY FS_EmptySet DEF Weighs
<1>2. PICK f \in [SUBSET {} -> Nat] : Folds(w, {}, f)
  BY <1>1, FoldExists
<1>3. {} \in SUBSET {}
  OBVIOUS
<1>4. f[{}] = Tally(w, f, {})
  BY <1>2, <1>3 DEF Folds
<1>5. Sum(w, {}) = f[{}]
  BY <1>1, <1>2, SumIs
<1> QED BY <1>4, <1>5 DEF Tally

LEMMA SumNat ==
  ASSUME NEW S, IsFiniteSet(S), NEW w, Weighs(w, S)
  PROVE  Sum(w, S) \in Nat
<1>1. PICK f \in [SUBSET S -> Nat] : Folds(w, S, f)
  BY FoldExists
<1>2. Sum(w, S) = f[S]
  BY <1>1, SumIs
<1>3. S \in SUBSET S
  OBVIOUS
<1> QED BY <1>2, <1>3

(* A sum depends on the weights of its members only.                       *)
LEMMA SumAgree ==
  ASSUME NEW S, IsFiniteSet(S), NEW w, Weighs(w, S), NEW v, \A x \in S : v[x] = w[x]
  PROVE  Sum(v, S) = Sum(w, S)
<1>1. Weighs(v, S)
  BY DEF Weighs
<1>2. PICK f \in [SUBSET S -> Nat] : Folds(w, S, f)
  BY FoldExists
<1>3. PICK g \in [SUBSET S -> Nat] : Folds(v, S, g)
  BY <1>1, FoldExists
<1>4. S \in SUBSET (S \cap S)
  OBVIOUS
<1>5. g[S] = f[S]
  BY <1>2, <1>3, <1>4, FoldUnique
<1> QED BY <1>2, <1>3, <1>5, SumIs

(* A part of S is tallied within the fold over S as by its own.            *)
LEMMA TallyIsSum ==
  ASSUME NEW S, IsFiniteSet(S), NEW w, Weighs(w, S), NEW f, Folds(w, S, f),
         NEW U \in SUBSET S
  PROVE  f[U] = Sum(w, U)
<1>1. IsFiniteSet(U) /\ Weighs(w, U)
  BY FS_Subset DEF Weighs
<1>2. PICK g \in [SUBSET U -> Nat] : Folds(w, U, g)
  BY <1>1, FoldExists
<1>3. U \in SUBSET (S \cap U)
  OBVIOUS
<1>4. f[U] = g[U]
  BY <1>1, <1>2, <1>3, FoldUnique
<1> QED BY <1>1, <1>2, <1>4, SumIs

(* The member that is picked counts once.                                  *)
LEMMA SumPicked ==
  ASSUME NEW S, IsFiniteSet(S), NEW w, Weighs(w, S), S # {}
  PROVE  Sum(w, S) = w[Pick(S)] + Sum(w, S \ {Pick(S)})
<1>1. PICK f \in [SUBSET S -> Nat] : Folds(w, S, f)
  BY FoldExists
<1>2. S \in SUBSET S /\ S \ {Pick(S)} \in SUBSET S
  OBVIOUS
<1>3. f[S] = Tally(w, f, S)
  BY <1>1, <1>2 DEF Folds
<1>4. f[S] = Sum(w, S) /\ f[S \ {Pick(S)}] = Sum(w, S \ {Pick(S)})
  BY <1>1, <1>2, TallyIsSum
<1> QED BY <1>3, <1>4 DEF Tally

(* So does any other: the order in which a fold takes the members of a set *)
(* does not matter.                                                        *)
LEMMA SumRemove ==
  ASSUME NEW S, IsFiniteSet(S), NEW w, Weighs(w, S), NEW x \in S
  PROVE  Sum(w, S) = w[x] + Sum(w, S \ {x})
<1> DEFINE Odd == {s \in SUBSET S : \E z \in s : Sum(w, s) # w[z] + Sum(w, s \ {z})}
           Counts == {Cardinality(s) : s \in Odd}
<1>1. ASSUME NEW s \in SUBSET S
      PROVE  IsFiniteSet(s) /\ Cardinality(s) \in Nat /\ Weighs(w, s) /\ Sum(w, s) \in Nat
  <2>1. IsFiniteSet(s) /\ Weighs(w, s)
    BY FS_Subset DEF Weighs
  <2> QED BY <2>1, SumNat, FS_CardinalityType
<1>2. ASSUME NEW s \in SUBSET S, s # {}
      PROVE  Pick(s) \in s /\ Sum(w, s) = w[Pick(s)] + Sum(w, s \ {Pick(s)})
  BY <1>1, <1>2, Picked, SumPicked
<1>3. Odd = {}
  <2> SUFFICES ASSUME Odd # {} PROVE FALSE
    OBVIOUS
  <2>1. Counts \subseteq Nat /\ Counts # {}
    BY <1>1
  <2>2. PICK n \in Counts : \A m \in Counts : n <= m
    BY <2>1, LeastNumber
  <2>3. PICK s \in Odd : n = Cardinality(s)
    BY <2>2
  <2> HIDE DEF Counts
  <2>4. PICK z \in s : s \in SUBSET S /\ Sum(w, s) # w[z] + Sum(w, s \ {z})
    BY <2>3
  <2>5. ASSUME NEW u \in s, NEW t \in s \ {u}
        PROVE  Sum(w, s \ {u}) = w[t] + Sum(w, (s \ {u}) \ {t})
    <3>1. s \ {u} \in SUBSET S
      BY <2>4
    <3>2. Cardinality(s \ {u}) = Cardinality(s) - 1 /\ Cardinality(s) \in Nat
      BY <1>1, <2>4, FS_RemoveElement
    <3>3. Cardinality(s \ {u}) \notin Counts
      BY <2>2, <2>3, <3>2
    <3>4. s \ {u} \notin Odd
      BY <3>3 DEF Counts
    <3> HIDE DEF Sum
    <3> QED BY <3>1, <3>4
  <2> DEFINE y == Pick(s)
  <2>6. y \in s /\ Sum(w, s) = w[y] + Sum(w, s \ {y})
    BY <1>2, <2>4
  <2> HIDE DEF y, Odd
  <2>7. y # z
    BY <2>4, <2>6
  <2>8. Sum(w, s \ {y}) = w[z] + Sum(w, (s \ {y}) \ {z})
    BY <2>4, <2>5, <2>6, <2>7
  <2>9. Sum(w, s \ {z}) = w[y] + Sum(w, (s \ {z}) \ {y})
    BY <2>4, <2>5, <2>6, <2>7
  <2>10. (s \ {z}) \ {y} = (s \ {y}) \ {z}
    OBVIOUS
  <2>11. w[y] \in Nat /\ w[z] \in Nat /\ Sum(w, (s \ {y}) \ {z}) \in Nat
    <3>1. (s \ {y}) \ {z} \in SUBSET S
      BY <2>4
    <3> QED BY <1>1, <2>4, <2>6, <3>1 DEF Weighs
  <2>12. Sum(w, s) = w[z] + Sum(w, s \ {z})
    BY <2>6, <2>8, <2>9, <2>10, <2>11
  <2> QED BY <2>4, <2>12
<1>4. S \in SUBSET S
  OBVIOUS
<1> HIDE DEF Sum
<1> QED BY <1>3, <1>4

(* One member more.                                                        *)
LEMMA SumAdd ==
  ASSUME NEW S, IsFiniteSet(S), NEW w, NEW x, x \notin S, Weighs(w, S \cup {x})
  PROVE  Sum(w, S \cup {x}) = w[x] + Sum(w, S)
<1>1. IsFiniteSet(S \cup {x}) /\ x \in S \cup {x}
  BY FS_AddElement
<1>2. (S \cup {x}) \ {x} = S
  OBVIOUS
<1>3. Sum(w, S \cup {x}) = w[x] + Sum(w, (S \cup {x}) \ {x})
  BY <1>1, SumRemove
<1> QED BY <1>2, <1>3

(* Another weight for one member.                                          *)
LEMMA SumChange ==
  ASSUME NEW S, IsFiniteSet(S), NEW w, Weighs(w, S), NEW x \in S,
         NEW v, v[x] \in Nat, \A y \in S \ {x} : v[y] = w[y]
  PROVE  Sum(v, S) = Sum(w, S) - w[x] + v[x]
<1>1. Weighs(v, S)
  BY DEF Weighs
<1>2. Sum(w, S) = w[x] + Sum(w, S \ {x}) /\ Sum(v, S) = v[x] + Sum(v, S \ {x})
  BY <1>1, SumRemove
<1>3. IsFiniteSet(S \ {x}) /\ Weighs(w, S \ {x})
  BY FS_RemoveElement DEF Weighs
<1>4. Sum(v, S \ {x}) = Sum(w, S \ {x}) /\ Sum(w, S \ {x}) \in Nat
  BY <1>3, SumAgree, SumNat
<1>5. w[x] \in Nat /\ v[x] \in Nat
  BY DEF Weighs
<1> QED BY <1>2, <1>4, <1>5

(* Weights of nothing add up to nothing.                                   *)
LEMMA SumZero ==
  ASSUME NEW S, IsFiniteSet(S), NEW w, \A x \in S : w[x] = 0
  PROVE  Sum(w, S) = 0
<1> DEFINE f == [s \in SUBSET S |-> 0]
<1>1. ASSUME NEW s \in SUBSET S PROVE Tally(w, f, s) = 0
  <2>1. CASE s = {}
    BY <2>1 DEF Tally
  <2>2. CASE s # {}
    <3>1. Pick(s) \in S /\ s \ {Pick(s)} \in SUBSET S
      BY <2>2 DEF Pick
    <3> QED BY <2>2, <3>1 DEF Tally
  <2> QED BY <2>1, <2>2
<1>2. Folds(w, S, f)
  <2>1. \A s \in SUBSET S : f[s] = Tally(w, f, s)
    BY <1>1
  <2> DEFINE g == f
  <2>2. g = [s \in SUBSET S |-> g[s]]
    OBVIOUS
  <2> HIDE DEF f
  <2> QED BY <2>1, <2>2 DEF Folds
<1>3. S \in SUBSET S
  OBVIOUS
<1> QED BY <1>2, <1>3, SumIs

(* What a property of a finite set that fails somewhere fails at first:    *)
(* a set without which, less any member, it holds.                         *)
LEMMA FirstFailure ==
  ASSUME NEW S, IsFiniteSet(S), NEW Odd, Odd \subseteq SUBSET S, Odd # {}
  PROVE  \E T \in Odd : IsFiniteSet(T) /\ \A x \in T : T \ {x} \notin Odd
<1> DEFINE Counts == {Cardinality(T) : T \in Odd}
<1>1. ASSUME NEW T \in Odd PROVE IsFiniteSet(T) /\ Cardinality(T) \in Nat
  BY FS_Subset, FS_CardinalityType
<1>2. Counts \subseteq Nat /\ Counts # {}
  BY <1>1
<1>3. PICK n \in Counts : \A m \in Counts : n <= m
  BY <1>2, LeastNumber
<1>4. PICK T \in Odd : n = Cardinality(T)
  BY <1>3
<1>5. ASSUME NEW x \in T, T \ {x} \in Odd PROVE FALSE
  <2>1. Cardinality(T \ {x}) \in Counts /\ Cardinality(T) \in Nat
    BY <1>1, <1>4, <1>5
  <2>2. Cardinality(T \ {x}) = Cardinality(T) - 1
    BY <1>1, FS_RemoveElement
  <2> QED BY <1>3, <1>4, <2>1, <2>2
<1> QED BY <1>1, <1>4, <1>5

(* The sum over two sets that share nothing.                               *)
LEMMA SumUnion ==
  ASSUME NEW S, IsFiniteSet(S), NEW T, IsFiniteSet(T), S \cap T = {},
         NEW w, Weighs(w, S \cup T)
  PROVE  Sum(w, S \cup T) = Sum(w, S) + Sum(w, T)
<1> DEFINE Odd == {U \in SUBSET T : Sum(w, S \cup U) # Sum(w, S) + Sum(w, U)}
<1>1. SUFFICES Odd = {}
  OBVIOUS
<1>2. SUFFICES ASSUME Odd # {} PROVE FALSE
  OBVIOUS
<1>3. PICK U \in Odd : IsFiniteSet(U) /\ \A x \in U : U \ {x} \notin Odd
  BY <1>2, FirstFailure
<1>4. Sum(w, S) \in Nat
  BY SumNat DEF Weighs
<1>5. U # {}
  <2>1. CASE U = {}
    <3>1. S \cup U = S /\ Sum(w, U) = 0
      BY <2>1, SumEmpty
    <3> QED BY <1>3, <1>4, <3>1
  <2> QED BY <2>1
<1>6. PICK x \in U : TRUE
  BY <1>5
<1>7. Sum(w, S \cup (U \ {x})) = Sum(w, S) + Sum(w, U \ {x})
  BY <1>3, <1>6
<1>8. Sum(w, U) = w[x] + Sum(w, U \ {x})
  BY <1>3, <1>6, SumRemove DEF Weighs
<1>9. Sum(w, S \cup U) = w[x] + Sum(w, S \cup (U \ {x}))
  <2>1. IsFiniteSet(S \cup U) /\ Weighs(w, S \cup U) /\ x \in S \cup U
    BY <1>3, <1>6, FS_Union DEF Weighs
  <2>2. (S \cup U) \ {x} = S \cup (U \ {x})
    BY <1>3, <1>6
  <2> QED BY <2>1, <2>2, SumRemove
<1>10. w[x] \in Nat /\ Sum(w, U \ {x}) \in Nat
  <2>1. IsFiniteSet(U \ {x}) /\ Weighs(w, U \ {x})
    BY <1>3, FS_Subset DEF Weighs
  <2> QED BY <1>3, <1>6, <2>1, SumNat DEF Weighs
<1> QED BY <1>3, <1>4, <1>7, <1>8, <1>9, <1>10

(* A part weighs no more than the whole.                                   *)
LEMMA SumPart ==
  ASSUME NEW S, IsFiniteSet(S), NEW w, Weighs(w, S), NEW T \in SUBSET S
  PROVE  Sum(w, T) <= Sum(w, S)
<1>1. IsFiniteSet(T) /\ IsFiniteSet(S \ T)
  BY FS_Subset
<1>2. Weighs(w, T) /\ Weighs(w, S \ T) /\ T \cup (S \ T) = S /\ T \cap (S \ T) = {}
  BY DEF Weighs
<1>3. Sum(w, S) = Sum(w, T) + Sum(w, S \ T)
  BY <1>1, <1>2, SumUnion
<1>4. Sum(w, T) \in Nat /\ Sum(w, S \ T) \in Nat
  BY <1>1, <1>2, SumNat
<1> QED BY <1>3, <1>4

(* Nor do members that weigh no more each.                                 *)
LEMMA SumBelow ==
  ASSUME NEW S, IsFiniteSet(S), NEW w, Weighs(w, S), NEW v, Weighs(v, S),
         \A x \in S : v[x] <= w[x]
  PROVE  Sum(v, S) <= Sum(w, S)
<1> DEFINE Odd == {U \in SUBSET S : ~(Sum(v, U) <= Sum(w, U))}
<1>1. SUFFICES Odd = {}
  OBVIOUS
<1>2. SUFFICES ASSUME Odd # {} PROVE FALSE
  OBVIOUS
<1>3. PICK U \in Odd : IsFiniteSet(U) /\ \A x \in U : U \ {x} \notin Odd
  BY <1>2, FirstFailure
<1>4. U # {}
  <2>1. CASE U = {}
    <3>1. Sum(v, U) = 0 /\ Sum(w, U) = 0
      BY <2>1, SumEmpty
    <3> QED BY <1>3, <3>1
  <2> QED BY <2>1
<1>5. PICK x \in U : TRUE
  BY <1>4
<1>6. Weighs(v, U) /\ Weighs(w, U) /\ Weighs(v, U \ {x}) /\ Weighs(w, U \ {x})
  BY <1>3 DEF Weighs
<1>7. Sum(v, U \ {x}) <= Sum(w, U \ {x})
  BY <1>3, <1>5
<1>8. Sum(v, U) = v[x] + Sum(v, U \ {x}) /\ Sum(w, U) = w[x] + Sum(w, U \ {x})
  BY <1>3, <1>5, <1>6, SumRemove
<1>9. /\ Sum(v, U \ {x}) \in Nat /\ Sum(w, U \ {x}) \in Nat
      /\ v[x] \in Nat /\ w[x] \in Nat /\ v[x] <= w[x]
  <2>1. IsFiniteSet(U \ {x})
    BY <1>3, FS_Subset
  <2> QED BY <1>3, <1>5, <1>6, <2>1, SumNat DEF Weighs
<1> QED BY <1>3, <1>7, <1>8, <1>9
=============================================================================
