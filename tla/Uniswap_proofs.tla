--------------------------- MODULE Uniswap_proofs ---------------------------
(***************************************************************************)
(* Theorems about a run of the provider-capacity matrix (MatrixRun) for    *)
(* any providers, ranges, sizes, bounds of its budgets and interleaving of *)
(* its workers, and about the event ingest (EventIngest) for any chain,    *)
(* plans of one chunk size and orchestrators that race.                    *)
(***************************************************************************)
EXTENDS MatrixRun, EventIngest, Sums

-----------------------------------------------------------------------------
(* The catalog of calls *)

(* What the sequences of the configuration hold.                           *)
LEMMA Catalogued ==
  /\ \A i \in DOMAIN Sizes : Sizes[i] \in Nat \ {0}
  /\ Len(Sizes) \in DOMAIN Sizes /\ Len(Sizes) \in Nat
  /\ Cohort \in Members(Sizes)
  /\ \A s \in Members(Sizes) : s \in Nat \ {0} /\ s <= Cohort
  /\ Members(Orgs) # {} /\ Members(Ranges) # {}
<1>1. Len(Sizes) \in Nat /\ Len(Sizes) > 0 /\ DOMAIN Sizes = 1 .. Len(Sizes)
  BY MatrixAssumption
<1>2. \A i \in DOMAIN Sizes : Sizes[i] \in Nat \ {0}
  BY <1>1, MatrixAssumption
<1>3. Len(Sizes) \in DOMAIN Sizes
  BY <1>1
<1>4. \A i \in DOMAIN Sizes : Sizes[i] <= Cohort
  <2> TAKE i \in DOMAIN Sizes
  <2>1. i = Len(Sizes) \/ i < Len(Sizes)
    BY <1>1
  <2>2. Sizes[i] \in Nat /\ Sizes[Len(Sizes)] \in Nat
    BY <1>2, <1>3
  <2> QED BY <1>3, <2>1, <2>2, MatrixAssumption DEF Cohort
<1>5. 1 \in DOMAIN Orgs /\ 1 \in DOMAIN Ranges
  BY MatrixAssumption
<1> QED BY <1>1, <1>2, <1>3, <1>4, <1>5 DEF Members, Cohort

(* A product of sizes is one.                                              *)
LEMMA Times == ASSUME NEW m \in Nat, NEW n \in Nat PROVE m * n \in Nat
OBVIOUS

(* Behind the chain calls the schedule has none.                           *)
LEMMA TargetsFollow ==
  ASSUME NEW n \in Nat, n <= Len(Schedule), n > Len(Orgs)
  PROVE  Schedule[n].kind # "chain"
<1> DEFINE N == Len(Orgs) * (NTarget + 1)
<1>1. \A p, i : TargetCall(p, i).kind # "chain"
  BY DEF TargetCall, Scalar, Batch
<1>2. Len(Orgs) \in Nat /\ Len(Ranges) \in Nat /\ Len(Sizes) \in Nat /\ Cohort \in Nat
  BY Catalogued, MatrixAssumption
<1>3. NTarget \in Nat
  <2>1. Len(Ranges) * Cohort \in Nat /\ Len(Ranges) * Len(Sizes) \in Nat
    BY <1>2, Times
  <2> QED BY <2>1 DEF NTarget, NScalar
<1>4. N \in Nat
  BY <1>2, <1>3, Times
<1>5. Schedule = [i \in 1 .. N |->
        IF i <= Len(Orgs) THEN Chain(Orgs[((i - 1) % Len(Orgs)) + 1])
        ELSE TargetCall(Orgs[((i - 1) % Len(Orgs)) + 1], (i - 1) \div Len(Orgs))]
  BY DEF Schedule
<1> HIDE DEF N
<1>6. Len(Schedule) = N
  BY <1>4, <1>5
<1>7. n \in 1 .. N /\ ~(n <= Len(Orgs))
  BY <1>2, <1>4, <1>6
<1>8. Schedule[n] = TargetCall(Orgs[((n - 1) % Len(Orgs)) + 1], (n - 1) \div Len(Orgs))
  BY <1>5, <1>7
<1> QED BY <1>1, <1>8

(* There are finitely many calls.                                          *)
LEMMA CallsAreFinite == IsFiniteSet(Call)
<1> DEFINE O == Members(Orgs)  R == Members(Ranges)  Z == Members(Sizes)
<1>1. IsFiniteSet(O)
  <2> DEFINE f == [i \in 1 .. Len(Orgs) |-> Orgs[i]]
  <2>1. IsFiniteSet(1 .. Len(Orgs)) /\ DOMAIN Orgs = 1 .. Len(Orgs)
    BY MatrixAssumption, FS_Interval
  <2>2. f \in Surjection(1 .. Len(Orgs), O)
    BY <2>1 DEF Surjection, Members
  <2> QED BY <2>1, <2>2, FS_Surjection
<1>2. IsFiniteSet(R)
  <2> DEFINE f == [i \in 1 .. Len(Ranges) |-> Ranges[i]]
  <2>1. IsFiniteSet(1 .. Len(Ranges)) /\ DOMAIN Ranges = 1 .. Len(Ranges)
    BY MatrixAssumption, FS_Interval
  <2>2. f \in Surjection(1 .. Len(Ranges), R)
    BY <2>1 DEF Surjection, Members
  <2> QED BY <2>1, <2>2, FS_Surjection
<1>3. IsFiniteSet(Z)
  <2> DEFINE f == [i \in 1 .. Len(Sizes) |-> Sizes[i]]
  <2>1. IsFiniteSet(1 .. Len(Sizes)) /\ DOMAIN Sizes = 1 .. Len(Sizes)
    BY MatrixAssumption, FS_Interval
  <2>2. f \in Surjection(1 .. Len(Sizes), Z)
    BY <2>1 DEF Surjection, Members
  <2> QED BY <2>1, <2>2, FS_Surjection
<1>4. IsFiniteSet(Address)
  BY Catalogued, FS_Interval DEF Address
<1> HIDE DEF O, R, Z
<1>5. IsFiniteSet({Chain(p) : p \in O})
  <2> DEFINE T == {Chain(p) : p \in O}
             f == [p \in O |-> Chain(p)]
  <2>1. f \in Surjection(O, T)
    BY DEF Surjection
  <2> HIDE DEF f, T
  <2>2. IsFiniteSet(T)
    BY <1>1, <2>1, FS_Surjection
  <2> QED BY <2>2 DEF T
<1>6. IsFiniteSet({Scalar(p, r, a) : p \in O, r \in R, a \in Address})
  <2> DEFINE S == (O \X R) \X Address
             T == {Scalar(p, r, a) : p \in O, r \in R, a \in Address}
             f == [x \in S |-> Scalar(x[1][1], x[1][2], x[2])]
  <2>1. IsFiniteSet(S)
    BY <1>1, <1>2, <1>4, FS_Product
  <2>2. \A x \in S : f[x] \in T
    OBVIOUS
  <2>3. \A t \in T : \E x \in S : f[x] = t
    <3> TAKE t \in T
    <3>1. PICK p \in O, r \in R, a \in Address : t = Scalar(p, r, a)
      OBVIOUS
    <3>2. <<<<p, r>>, a>> \in S /\ f[<<<<p, r>>, a>>] = t
      BY <3>1
    <3> QED BY <3>2
  <2>4. f \in Surjection(S, T)
    BY <2>2, <2>3 DEF Surjection
  <2> HIDE DEF f, T, S
  <2>5. IsFiniteSet(T)
    BY <2>1, <2>4, FS_Surjection
  <2> QED BY <2>5 DEF T
<1>7. IsFiniteSet({Batch(p, r, s) : p \in O, r \in R, s \in Z})
  <2> DEFINE S == (O \X R) \X Z
             T == {Batch(p, r, s) : p \in O, r \in R, s \in Z}
             f == [x \in S |-> Batch(x[1][1], x[1][2], x[2])]
  <2>1. IsFiniteSet(S)
    BY <1>1, <1>2, <1>3, FS_Product
  <2>2. \A x \in S : f[x] \in T
    OBVIOUS
  <2>3. \A t \in T : \E x \in S : f[x] = t
    <3> TAKE t \in T
    <3>1. PICK p \in O, r \in R, s \in Z : t = Batch(p, r, s)
      OBVIOUS
    <3>2. <<<<p, r>>, s>> \in S /\ f[<<<<p, r>>, s>>] = t
      BY <3>1
    <3> QED BY <3>2
  <2>4. f \in Surjection(S, T)
    BY <2>2, <2>3 DEF Surjection
  <2> HIDE DEF f, T, S
  <2>5. IsFiniteSet(T)
    BY <2>1, <2>4, FS_Surjection
  <2> QED BY <2>5 DEF T
<1> DEFINE A == {Chain(p) : p \in O}
           B == {Scalar(p, r, a) : p \in O, r \in R, a \in Address}
           C == {Batch(p, r, s) : p \in O, r \in R, s \in Z}
<1>8. Call = (A \cup B) \cup C
  BY DEF Call, O, R, Z
<1> HIDE DEF A, B, C
<1>9. IsFiniteSet(A) /\ IsFiniteSet(B) /\ IsFiniteSet(C)
  BY <1>5, <1>6, <1>7 DEF A, B, C
<1>10. IsFiniteSet(A \cup B)
  BY <1>9, FS_Union
<1>11. IsFiniteSet((A \cup B) \cup C)
  BY <1>9, <1>10, FS_Union
<1> QED BY <1>8, <1>11

-----------------------------------------------------------------------------
(* What the receipts hold *)

(* The bytes of one call's attempts are a sum over its receipts.           *)
LEMMA SpentIs ==
  ASSUME NEW s \in Seq(Body)
  PROVE  Spent(s) = Sum([i \in DOMAIN s |-> Bytes(s[i])], DOMAIN s)
<1> DEFINE w == [i \in DOMAIN s |-> Bytes(s[i])]
           Raw(f) == f = [t \in SUBSET (DOMAIN s) |->
                       IF t = {} THEN 0
                       ELSE Bytes(s[CHOOSE x \in t : TRUE]) + f[t \ {CHOOSE x \in t : TRUE}]]
<1>1. IsFiniteSet(DOMAIN s)
  BY FS_Interval
<1>2. Weighs(w, DOMAIN s)
  BY MatrixAssumption DEF Weighs, Bytes
<1>3. Spent(s) = (CHOOSE f : Raw(f))[DOMAIN s]
  BY DEF Spent, MapThenSumSet, MapThenFoldSet
<1>4. ASSUME NEW f PROVE Raw(f) <=> Folds(w, DOMAIN s, f)
  <2>1. \A t \in SUBSET (DOMAIN s) : t # {} => w[Pick(t)] = Bytes(s[Pick(t)])
    BY DEF Pick
  <2> HIDE DEF w
  <2> DEFINE part(t) == IF t = {} THEN 0
                        ELSE Bytes(s[CHOOSE x \in t : TRUE]) + f[t \ {CHOOSE x \in t : TRUE}]
  <2>2. \A t \in SUBSET (DOMAIN s) : part(t) = Tally(w, f, t)
    <3>1. SUFFICES ASSUME NEW t \in SUBSET (DOMAIN s) PROVE part(t) = Tally(w, f, t)
      OBVIOUS
    <3>2. t = {} => part(t) = 0 /\ Tally(w, f, t) = 0
      BY DEF Tally
    <3>3. t # {} => part(t) = Bytes(s[Pick(t)]) + f[t \ {Pick(t)}]
      BY DEF Pick
    <3>4. t # {} => Tally(w, f, t) = w[Pick(t)] + f[t \ {Pick(t)}]
      BY DEF Tally
    <3> HIDE DEF part
    <3> QED BY <2>1, <3>2, <3>3, <3>4
  <2>3. Raw(f) <=> f = [t \in SUBSET (DOMAIN s) |-> part(t)]
    BY Zenon
  <2>4. Folds(w, DOMAIN s, f) <=> f = [t \in SUBSET (DOMAIN s) |-> Tally(w, f, t)]
    BY Zenon DEF Folds
  <2> HIDE DEF part, Raw
  <2>5. [t \in SUBSET (DOMAIN s) |-> part(t)] = [t \in SUBSET (DOMAIN s) |-> Tally(w, f, t)]
    BY <2>2, Zenon
  <2> QED BY <2>3, <2>4, <2>5, Zenon
<1> HIDE DEF Raw, w
<1>5. \E f : Raw(f)
  BY <1>1, <1>2, <1>4, FoldExists
<1>6. Raw(CHOOSE f : Raw(f))
  BY <1>5
<1>7. Folds(w, DOMAIN s, CHOOSE f : Raw(f))
  BY <1>4, <1>6
<1>8. Sum(w, DOMAIN s) = (CHOOSE f : Raw(f))[DOMAIN s]
  BY <1>1, <1>7, SumIs
<1> QED BY <1>3, <1>8 DEF w

(* An attempt more adds its bytes.                                         *)
LEMMA SpentAppend ==
  ASSUME NEW s \in Seq(Body), NEW b \in Body
  PROVE  Spent(s) \in Nat /\ Spent(Append(s, b)) = Spent(s) + Bytes(b)
<1> DEFINE n == Len(s)
           t == Append(s, b)
           w == [i \in 1 .. n |-> Bytes(s[i])]
           v == [i \in 1 .. (n + 1) |-> Bytes(t[i])]
<1>1. /\ n \in Nat /\ DOMAIN s = 1 .. n
      /\ t \in Seq(Body) /\ DOMAIN t = 1 .. (n + 1)
      /\ t[n + 1] = b /\ \A i \in 1 .. n : t[i] = s[i]
  OBVIOUS
<1>2. \A c \in Body : Bytes(c) \in Nat
  BY MatrixAssumption DEF Bytes
<1>3. Spent(s) = Sum(w, 1 .. n) /\ Spent(t) = Sum(v, 1 .. (n + 1))
  <2>1. Spent(s) = Sum([i \in DOMAIN s |-> Bytes(s[i])], DOMAIN s)
    BY SpentIs
  <2>2. Spent(t) = Sum([i \in DOMAIN t |-> Bytes(t[i])], DOMAIN t)
    BY <1>1, SpentIs
  <2> QED BY <1>1, <2>1, <2>2
<1> HIDE DEF n, t
<1>4. /\ IsFiniteSet(1 .. n) /\ n + 1 \notin 1 .. n
      /\ 1 .. (n + 1) = (1 .. n) \cup {n + 1}
  <2>1. n \in Nat
    BY <1>1
  <2>2. 1 \in Int /\ n \in Int
    BY <2>1
  <2>3. IsFiniteSet(1 .. n)
    BY <2>2, FS_Interval
  <2>4. n + 1 \notin 1 .. n /\ 1 .. (n + 1) = (1 .. n) \cup {n + 1}
    BY <2>1
  <2> QED BY <2>3, <2>4
<1>5. Weighs(w, 1 .. n) /\ Weighs(v, 1 .. (n + 1)) /\ v[n + 1] = Bytes(b)
  <2>1. \A i \in 1 .. n : s[i] \in Body
    BY <1>1
  <2>2. \A i \in 1 .. (n + 1) : t[i] \in Body
    BY <1>1
  <2>3. n + 1 \in 1 .. (n + 1)
    BY <1>1
  <2> QED BY <1>1, <1>2, <2>1, <2>2, <2>3 DEF Weighs
<1>6. \A i \in 1 .. n : v[i] = w[i]
  BY <1>1
<1> HIDE DEF v, w
<1>7. Sum(v, (1 .. n) \cup {n + 1}) = v[n + 1] + Sum(v, 1 .. n)
  <2>1. Weighs(v, (1 .. n) \cup {n + 1})
    BY <1>4, <1>5
  <2> QED BY <1>4, <2>1, SumAdd
<1>8. Sum(v, 1 .. n) = Sum(w, 1 .. n)
  BY <1>4, <1>5, <1>6, SumAgree
<1>9. Sum(w, 1 .. n) \in Nat
  BY <1>4, <1>5, SumNat
<1>10. Bytes(b) \in Nat
  BY <1>2
<1>11. Sum(v, 1 .. (n + 1)) = v[n + 1] + Sum(v, 1 .. n)
  <2> HIDE DEF Sum
  <2> QED BY <1>4, <1>7, Zenon
<1>12. Spent(s) \in Nat /\ Spent(t) = Spent(s) + Bytes(b)
  <2>1. Spent(t) = Bytes(b) + Sum(w, 1 .. n)
    BY <1>3, <1>5, <1>8, <1>11, Zenon
  <2> QED BY <1>3, <1>9, <1>10, <2>1
<1> QED BY <1>12 DEF t

(* The bytes of all receipts of a directory.                               *)
Total(rs) == MapThenSumSet(LAMBDA c : Spent(rs[c]), Call)
Weight(rs) == [c \in Call |-> Spent(rs[c])]

LEMMA TotalIs ==
  ASSUME NEW rs \in [Call -> Seq(Body)]
  PROVE  Weighs(Weight(rs), Call) /\ Total(rs) = Sum(Weight(rs), Call)
<1> DEFINE Raw(f) == f = [t \in SUBSET Call |->
                       IF t = {} THEN 0
                       ELSE Spent(rs[CHOOSE x \in t : TRUE]) + f[t \ {CHOOSE x \in t : TRUE}]]
           w == Weight(rs)
<1>1. IsFiniteSet(Call)
  BY CallsAreFinite
<1>2. Weighs(w, Call)
  <2>1. "same" \in Body
    BY DEF Body
  <2>2. \A c \in Call : rs[c] \in Seq(Body)
    OBVIOUS
  <2>3. \A c \in Call : Spent(rs[c]) \in Nat
    BY <2>1, <2>2, SpentAppend
  <2> QED BY <2>3 DEF Weighs, Weight
<1>3. Total(rs) = (CHOOSE f : Raw(f))[Call]
  BY DEF Total, MapThenSumSet, MapThenFoldSet
<1>4. ASSUME NEW f PROVE Raw(f) <=> Folds(w, Call, f)
  <2>1. \A t \in SUBSET Call : t # {} => w[Pick(t)] = Spent(rs[Pick(t)])
    BY DEF Pick, Weight
  <2> HIDE DEF w
  <2> DEFINE part(t) == IF t = {} THEN 0
                        ELSE Spent(rs[CHOOSE x \in t : TRUE]) + f[t \ {CHOOSE x \in t : TRUE}]
  <2>2. \A t \in SUBSET Call : part(t) = Tally(w, f, t)
    <3>1. SUFFICES ASSUME NEW t \in SUBSET Call PROVE part(t) = Tally(w, f, t)
      OBVIOUS
    <3>2. t = {} => part(t) = 0 /\ Tally(w, f, t) = 0
      BY DEF Tally
    <3>3. t # {} => part(t) = Spent(rs[Pick(t)]) + f[t \ {Pick(t)}]
      BY DEF Pick
    <3>4. t # {} => Tally(w, f, t) = w[Pick(t)] + f[t \ {Pick(t)}]
      BY DEF Tally
    <3> HIDE DEF part
    <3> QED BY <2>1, <3>2, <3>3, <3>4
  <2>3. Raw(f) <=> f = [t \in SUBSET Call |-> part(t)]
    BY Zenon
  <2>4. Folds(w, Call, f) <=> f = [t \in SUBSET Call |-> Tally(w, f, t)]
    BY Zenon DEF Folds
  <2> HIDE DEF part, Raw
  <2>5. [t \in SUBSET Call |-> part(t)] = [t \in SUBSET Call |-> Tally(w, f, t)]
    BY <2>2, Zenon
  <2> QED BY <2>3, <2>4, <2>5, Zenon
<1> HIDE DEF Raw, w
<1>5. \E f : Raw(f)
  BY <1>1, <1>2, <1>4, FoldExists
<1>6. Raw(CHOOSE f : Raw(f))
  BY <1>5
<1>7. Folds(w, Call, CHOOSE f : Raw(f))
  BY <1>4, <1>6
<1>8. Sum(w, Call) = (CHOOSE f : Raw(f))[Call]
  BY <1>1, <1>7, SumIs
<1> QED BY <1>2, <1>3, <1>8 DEF w

(* One more attempt of one call.                                           *)
LEMMA TotalAppend ==
  ASSUME NEW rs \in [Call -> Seq(Body)], NEW c \in Call, NEW b \in Body
  PROVE  /\ Total(rs) \in Nat
         /\ Total([rs EXCEPT ![c] = Append(@, b)]) = Total(rs) + Bytes(b)
<1> DEFINE qs == [rs EXCEPT ![c] = Append(@, b)]
           w == Weight(rs)
           v == Weight(qs)
<1>1. rs[c] \in Seq(Body)
  OBVIOUS
<1>2. Append(rs[c], b) \in Seq(Body)
  BY <1>1
<1>3. /\ qs \in [Call -> Seq(Body)] /\ qs[c] = Append(rs[c], b)
      /\ \A d \in Call \ {c} : qs[d] = rs[d]
  BY <1>2
<1>4. w[c] = Spent(rs[c]) /\ v[c] = Spent(qs[c]) /\ \A d \in Call \ {c} : v[d] = w[d]
  BY <1>3 DEF Weight
<1>5. Spent(rs[c]) \in Nat /\ Bytes(b) \in Nat /\ v[c] = w[c] + Bytes(b)
  <2>1. Spent(rs[c]) \in Nat /\ Spent(Append(rs[c], b)) = Spent(rs[c]) + Bytes(b)
    BY <1>1, SpentAppend
  <2>2. Bytes(b) \in Nat
    BY MatrixAssumption DEF Bytes
  <2> QED BY <1>3, <1>4, <2>1, <2>2
<1>6. /\ Weighs(w, Call) /\ Total(rs) = Sum(w, Call) /\ Total(qs) = Sum(v, Call)
  BY <1>3, TotalIs
<1>7. IsFiniteSet(Call)
  BY CallsAreFinite
<1> HIDE DEF w, v, qs
<1>8. Sum(w, Call) \in Nat
  BY <1>6, <1>7, SumNat
<1>9. v[c] \in Nat /\ w[c] \in Nat
  BY <1>4, <1>5
<1>10. Sum(v, Call) = Sum(w, Call) - w[c] + v[c]
  BY <1>4, <1>6, <1>7, <1>9, SumChange
<1>11. Total(qs) = Total(rs) + Bytes(b)
  BY <1>5, <1>6, <1>8, <1>9, <1>10
<1> QED BY <1>6, <1>8, <1>11 DEF qs

(* Nothing is retained in an empty directory.                              *)
LEMMA TotalEmpty == Total([c \in Call |-> <<>>]) = 0
<1> DEFINE rs == [c \in Call |-> <<>>]
           w == Weight(rs)
           Zero == [c \in Call |-> 0]
<1>1. rs \in [Call -> Seq(Body)]
  OBVIOUS
<1>2. <<>> \in Seq(Body) /\ DOMAIN <<>> = {}
  OBVIOUS
<1>3. Spent(<<>>) = 0
  <2> DEFINE e == <<>>
             u == [i \in DOMAIN e |-> Bytes(e[i])]
  <2>1. Spent(e) = Sum(u, DOMAIN e)
    BY <1>2, SpentIs
  <2>2. DOMAIN e = {}
    OBVIOUS
  <2> HIDE DEF e, u
  <2>3. Spent(e) = 0
    BY <2>1, <2>2, SumEmpty
  <2> QED BY <2>3 DEF e
<1>4. \A c \in Call : w[c] = 0
  BY <1>3 DEF Weight
<1>5. Total(rs) = Sum(w, Call)
  BY <1>1, TotalIs
<1> HIDE DEF w
<1>6. Sum(w, Call) = 0
  <2>1. Sum(w, Call) = 0
    BY <1>4, CallsAreFinite, SumZero
  <2> QED BY <2>1
<1> QED BY <1>5, <1>6

-----------------------------------------------------------------------------
(* A run *)

(* The variables keep their types.                                         *)
RunTypes ==
  /\ rows \in [Call -> Seq(Body)] /\ raw \in SUBSET (Call \X (Nat \ {0}))
  /\ phase \in [Call -> {"idle", "start", "gate", "wait", "done", "raised", "lost"}]
  /\ reserved \in Int /\ retained \in Nat /\ attempts \in 0 .. MaxProvider
  /\ budget \in Budgets /\ cap \in Caps
  /\ late \in BOOLEAN /\ stop \in BOOLEAN /\ next \in Nat
  /\ mode \in {"chain", "pool", "seal", "failed", "ended", "dead"}
  /\ terminal \in {"none", "torn", "COMPLETE", "FAILED"}
  /\ faults \in 0 .. MaxFaults

(* Workers that hold a reservation, which is worth a full body each.       *)
Holding == {c \in Call : phase[c] \in {"gate", "wait"}}
Room == [c \in Call |-> MaxBody]

(* The tracker knows the bytes of all receipts while its process lives,    *)
(* and with all that is under way they stay within the budget.             *)
Tracked ==
  /\ mode # "dead" =>
       /\ Total(rows) = retained
       /\ retained + reserved <= budget
       /\ Sum(Room, Holding) <= reserved
  /\ mode = "dead" => Total(rows) <= budget

(* From the evaluation on nobody works, and a manifest names the directory. *)
Ending ==
  /\ mode \in {"seal", "failed", "ended", "dead"} => Active = {}
  /\ mode = "ended" <=> terminal \in {"COMPLETE", "FAILED"}
  /\ terminal = "torn" => mode = "dead"
  /\ mode = "ended" => listed = [rows |-> rows, raw |-> raw]

(* Targets are called only once each provider's chain is proved, and no    *)
(* chain call is repeated then.                                            *)
Proven ==
  /\ mode \in {"pool", "seal"} \/ terminal = "COMPLETE" =>
       /\ ChainProven(rows)
       /\ \A p \in Members(Orgs) : Chain(p) \notin Active
  /\ mode = "pool" => next > Len(Orgs)

(* What COMPLETE seals was evaluated from the directory as it is.          *)
Evaluated ==
  /\ mode = "seal" \/ terminal = "COMPLETE" =>
       report = Report(rows) /\ InventoryHolds(rows, raw)
  /\ terminal = "COMPLETE" => report.complete

RunInv == RunTypes /\ Tracked /\ Ending /\ Proven /\ Evaluated

(* Room for another body.                                                  *)
LEMMA Granted ==
  ASSUME RunTypes, NEW c \in Call, c \notin Holding
  PROVE  /\ Sum(Room, Holding) \in Nat
         /\ Sum(Room, Holding \cup {c}) = Sum(Room, Holding) + MaxBody
<1>1. IsFiniteSet(Holding)
  BY CallsAreFinite, FS_Subset, Holding \in SUBSET Call DEF Holding
<1>2. MaxBody \in Nat /\ Room[c] = MaxBody
  BY MatrixAssumption DEF Room
<1>3. Weighs(Room, Holding) /\ Weighs(Room, Holding \cup {c})
  BY <1>2 DEF Weighs, Room, Holding
<1>4. Sum(Room, Holding) \in Nat
  BY <1>1, <1>3, SumNat
<1>5. Sum(Room, Holding \cup {c}) = Room[c] + Sum(Room, Holding)
  BY <1>1, <1>3, SumAdd
<1> QED BY <1>2, <1>4, <1>5

(* A body less to wait for.                                                *)
LEMMA Freed ==
  ASSUME RunTypes, NEW c \in Holding
  PROVE  /\ Sum(Room, Holding \ {c}) \in Nat
         /\ Sum(Room, Holding) = Sum(Room, Holding \ {c}) + MaxBody
<1>1. IsFiniteSet(Holding) /\ c \in Call
  BY CallsAreFinite, FS_Subset, Holding \in SUBSET Call DEF Holding
<1>2. MaxBody \in Nat /\ Room[c] = MaxBody
  BY <1>1, MatrixAssumption DEF Room
<1>3. Weighs(Room, Holding) /\ Weighs(Room, Holding \ {c})
  BY MatrixAssumption DEF Weighs, Room, Holding
<1>4. IsFiniteSet(Holding \ {c})
  BY <1>1, FS_RemoveElement
<1>5. Sum(Room, Holding \ {c}) \in Nat
  BY <1>3, <1>4, SumNat
<1>6. Sum(Room, Holding) = Room[c] + Sum(Room, Holding \ {c})
  BY <1>1, <1>3, SumRemove
<1> QED BY <1>2, <1>5, <1>6

(* What an attempt that is retained leaves behind.                         *)
LEMMA Retained ==
  ASSUME RunTypes, NEW c \in Call, NEW b \in Body, Retain(c, b)
  PROVE  /\ phase[c] = "wait"
         /\ rows' = [rows EXCEPT ![c] = Append(@, b)] /\ rows' \in [Call -> Seq(Body)]
         /\ raw' \in SUBSET (Call \X (Nat \ {0}))
         /\ reserved' = reserved - MaxBody /\ retained' = retained + Bytes(b)
         /\ \E to \in {"done", "start"} : phase' = [phase EXCEPT ![c] = to]
         /\ UNCHANGED <<attempts, inputVars, late, stop, mainVars>>
         /\ faults' \in 0 .. MaxFaults
<1>1. rows[c] \in Seq(Body) /\ Append(rows[c], b) \in Seq(Body)
  BY DEF RunTypes
<1>2. Len(Append(rows[c], b)) \in Nat \ {0}
  BY <1>1
<1>3. rows' = [rows EXCEPT ![c] = Append(@, b)]
  BY DEF Retain
<1>4. rows' \in [Call -> Seq(Body)]
  BY <1>1, <1>3 DEF RunTypes
<1>5. raw' \in SUBSET (Call \X (Nat \ {0}))
  BY <1>2 DEF Retain, RunTypes
<1>6. \E to \in {"done", "start"} : phase' = [phase EXCEPT ![c] = to]
  BY DEF Retain, Move
<1>7. faults' \in 0 .. MaxFaults
  BY RunAssumption DEF Retain, Fault, RunTypes
<1> QED BY <1>3, <1>4, <1>5, <1>6, <1>7 DEF Retain

(* A worker works in a live process, on its own call.                      *)
LEMMA WorkStep ==
  ASSUME RunInv, NEW c \in Call, Work(c)
  PROVE  /\ c \in Active /\ Active' \subseteq Active
         /\ mode \in {"chain", "pool"} /\ UNCHANGED mainVars /\ UNCHANGED inputVars
         /\ \A d \in Call \ {c} : rows'[d] = rows[d]
<1>1. phase \in [Call -> {"idle", "start", "gate", "wait", "done", "raised", "lost"}]
  BY DEF RunInv, RunTypes
<1>2. ASSUME c \in Active
      PROVE  mode \in {"chain", "pool"}
  BY <1>2 DEF RunInv, RunTypes, Ending
<1>3. ASSUME c \in Active,
             \E to \in {"start", "gate", "wait", "done", "raised"} :
               phase' = [phase EXCEPT ![c] = to]
      PROVE  Active' \subseteq Active
  BY <1>1, <1>3 DEF Active
<1>4. CASE StartAttempt(c)
  <2>1. c \in Active
    BY <1>4 DEF StartAttempt, Active
  <2>2. phase' = [phase EXCEPT ![c] = "gate"] /\ UNCHANGED <<dirVars, inputVars, mainVars>>
    BY <1>4 DEF StartAttempt, Move
  <2> QED BY <1>2, <1>3, <2>1, <2>2 DEF dirVars
<1>5. CASE StartRefused(c)
  <2>1. c \in Active
    BY <1>5 DEF StartRefused, Active
  <2>2. phase' = [phase EXCEPT ![c] = "raised"] /\ UNCHANGED <<dirVars, inputVars, mainVars>>
    BY <1>5 DEF StartRefused, Move
  <2> QED BY <1>2, <1>3, <2>1, <2>2 DEF dirVars
<1>6. CASE EnterGate(c)
  <2>1. c \in Active
    BY <1>6 DEF EnterGate, Active
  <2>2. phase' = [phase EXCEPT ![c] = "wait"] /\ UNCHANGED <<dirVars, inputVars, mainVars>>
    BY <1>6 DEF EnterGate, Move
  <2> QED BY <1>2, <1>3, <2>1, <2>2 DEF dirVars
<1>7. CASE GateRefused(c)
  <2>1. c \in Active
    BY <1>7 DEF GateRefused, Active
  <2>2. phase' = [phase EXCEPT ![c] = "raised"] /\ UNCHANGED <<dirVars, inputVars, mainVars>>
    BY <1>7 DEF GateRefused, Move
  <2> QED BY <1>2, <1>3, <2>1, <2>2 DEF dirVars
<1>8. CASE SendRefused(c) \/ StreamAborted(c) \/ ReceiptFails(c)
  <2>1. c \in Active
    BY <1>8 DEF SendRefused, StreamAborted, ReceiptFails, Active
  <2>2. phase' = [phase EXCEPT ![c] = "raised"] /\ UNCHANGED <<rows, inputVars, mainVars>>
    BY <1>8 DEF SendRefused, StreamAborted, ReceiptFails, Abort, Move
  <2> QED BY <1>2, <1>3, <2>1, <2>2
<1>9. CASE \E b \in Body : Retain(c, b)
  <2>1. PICK b \in Body : Retain(c, b)
    BY <1>9
  <2>2. /\ phase[c] = "wait" /\ rows' = [rows EXCEPT ![c] = Append(@, b)]
        /\ \E to \in {"done", "start"} : phase' = [phase EXCEPT ![c] = to]
        /\ UNCHANGED inputVars /\ UNCHANGED mainVars
    BY <2>1, Retained DEF RunInv
  <2>3. c \in Active
    BY <2>2 DEF Active
  <2>4. \A d \in Call \ {c} : rows'[d] = rows[d]
    BY <2>2 DEF RunInv, RunTypes
  <2> QED BY <1>2, <1>3, <2>2, <2>3, <2>4
<1> QED BY <1>4, <1>5, <1>6, <1>7, <1>8, <1>9 DEF Work

(* An action of a worker keeps the types.                                  *)
LEMMA WorkTypes ==
  ASSUME RunInv, NEW c \in Call, Work(c)
  PROVE  RunTypes'
<1> USE DEF RunInv
<1>1. RunTypes /\ UNCHANGED mainVars /\ UNCHANGED inputVars /\ MaxBody \in Nat
  BY WorkStep, MatrixAssumption
<1>2. ASSUME NEW to \in {"start", "gate", "wait", "done", "raised"},
             phase' = [phase EXCEPT ![c] = to]
      PROVE  phase' \in [Call -> {"idle", "start", "gate", "wait", "done", "raised", "lost"}]
  BY <1>1, <1>2 DEF RunTypes
<1>3. CASE StartAttempt(c)
  <2>1. /\ phase' = [phase EXCEPT ![c] = "gate"]
        /\ attempts' = attempts + 1 /\ attempts < MaxProvider /\ reserved' = reserved + MaxBody
        /\ UNCHANGED <<rows, raw, retained, late, stop, faults>>
    BY <1>3 DEF StartAttempt, Move, dirVars
  <2>2. attempts' \in 0 .. MaxProvider /\ reserved' \in Int
    BY <1>1, <2>1, RunAssumption DEF RunTypes
  <2> QED BY <1>1, <1>2, <2>1, <2>2 DEF RunTypes, mainVars, inputVars
<1>4. CASE StartRefused(c) \/ EnterGate(c) \/ GateRefused(c)
  <2>1. /\ \E to \in {"raised", "wait"} : phase' = [phase EXCEPT ![c] = to]
        /\ UNCHANGED <<rows, raw, attempts, reserved, retained, late, stop, faults>>
    BY <1>4 DEF StartRefused, EnterGate, GateRefused, Move, dirVars, budgetVars
  <2> QED BY <1>1, <1>2, <2>1 DEF RunTypes, mainVars, inputVars
<1>5. CASE SendRefused(c) \/ StreamAborted(c) \/ ReceiptFails(c)
  <2>1. /\ phase' = [phase EXCEPT ![c] = "raised"] /\ reserved' = reserved - MaxBody
        /\ stop' \in BOOLEAN /\ UNCHANGED <<rows, retained, attempts, late>>
    BY <1>1, <1>5 DEF SendRefused, StreamAborted, ReceiptFails, Abort, Move, RunTypes
  <2>2. faults' = faults \/ Fault(1)
    BY <1>5 DEF SendRefused, StreamAborted, ReceiptFails
  <2>3. faults' \in 0 .. MaxFaults
    BY <1>1, <2>2, RunAssumption DEF Fault, RunTypes
  <2>4. Len(rows[c]) + 1 \in Nat \ {0}
    BY <1>1 DEF RunTypes
  <2>5. raw' = raw \/ raw' = raw \cup {<<c, Len(rows[c]) + 1>>}
    BY <1>5 DEF SendRefused, StreamAborted, ReceiptFails
  <2>6. raw' \in SUBSET (Call \X (Nat \ {0}))
    BY <1>1, <2>4, <2>5 DEF RunTypes
  <2>7. reserved' \in Int
    BY <1>1, <2>1 DEF RunTypes
  <2> QED BY <1>1, <1>2, <2>1, <2>3, <2>6, <2>7 DEF RunTypes, mainVars, inputVars
<1>6. CASE \E b \in Body : Retain(c, b)
  <2>1. PICK b \in Body : Retain(c, b)
    BY <1>6
  <2>2. /\ rows' \in [Call -> Seq(Body)] /\ raw' \in SUBSET (Call \X (Nat \ {0}))
        /\ reserved' = reserved - MaxBody /\ retained' = retained + Bytes(b)
        /\ \E to \in {"done", "start"} : phase' = [phase EXCEPT ![c] = to]
        /\ UNCHANGED <<attempts, late, stop>>
        /\ faults' \in 0 .. MaxFaults
    BY <1>1, <2>1, Retained
  <2>3. Bytes(b) \in Nat
    BY MatrixAssumption DEF Bytes
  <2>4. reserved' \in Int /\ retained' \in Nat
    BY <1>1, <2>2, <2>3 DEF RunTypes
  <2> QED BY <1>1, <1>2, <2>2, <2>4 DEF RunTypes, mainVars, inputVars
<1> QED BY <1>3, <1>4, <1>5, <1>6 DEF Work

(* An action of a worker keeps the tracker's books.                        *)
LEMMA WorkTracked ==
  ASSUME RunInv, NEW c \in Call, Work(c)
  PROVE  Tracked'
<1>1. /\ mode # "dead" /\ mode' = mode /\ budget' = budget
      /\ RunTypes /\ reserved \in Int /\ retained \in Nat /\ budget \in Nat
      /\ Total(rows) = retained /\ retained + reserved <= budget
      /\ Sum(Room, Holding) <= reserved
  BY WorkStep, RunAssumption DEF RunInv, RunTypes, Tracked, mainVars, inputVars
<1>2. phase \in [Call -> {"idle", "start", "gate", "wait", "done", "raised", "lost"}]
  BY <1>1 DEF RunTypes
<1>3. MaxBody \in Nat /\ \A b \in Body : Bytes(b) \in Nat /\ Bytes(b) <= MaxBody
  BY MatrixAssumption DEF Bytes
<1>4. Room' = Room
  BY DEF Room
<1>5. SUFFICES /\ Total(rows') = retained' /\ retained' + reserved' <= budget
               /\ Sum(Room, Holding') <= reserved'
  BY <1>1, <1>4 DEF Tracked
<1>6. ASSUME c \in Holding, \E to \in {"start", "done", "raised"} : phase' = [phase EXCEPT ![c] = to]
      PROVE  /\ Sum(Room, Holding') \in Nat
             /\ Sum(Room, Holding) = Sum(Room, Holding') + MaxBody
  <2>1. Holding' = Holding \ {c}
    BY <1>2, <1>6 DEF Holding
  <2> QED BY <1>1, <1>6, <2>1, Freed
<1>7. CASE StartAttempt(c)
  <2>1. /\ phase[c] = "start" /\ phase' = [phase EXCEPT ![c] = "gate"] /\ rows' = rows
        /\ retained' = retained /\ reserved' = reserved + MaxBody
        /\ retained + reserved + MaxBody <= budget
    BY <1>7 DEF StartAttempt, Move, Fits, dirVars
  <2>2. c \notin Holding /\ Holding' = Holding \cup {c}
    BY <1>2, <2>1 DEF Holding
  <2>3. Sum(Room, Holding) \in Nat /\ Sum(Room, Holding') = Sum(Room, Holding) + MaxBody
    BY <1>1, <2>2, Granted
  <2> QED BY <1>1, <1>3, <2>1, <2>3
<1>8. CASE StartRefused(c) \/ EnterGate(c)
  <2>1. /\ \/ phase[c] = "start" /\ phase' = [phase EXCEPT ![c] = "raised"]
           \/ phase[c] = "gate" /\ phase' = [phase EXCEPT ![c] = "wait"]
        /\ UNCHANGED <<rows, reserved, retained>>
    BY <1>8 DEF StartRefused, EnterGate, Move, dirVars, budgetVars
  <2>2. Holding' = Holding
    BY <1>2, <2>1 DEF Holding
  <2> QED BY <1>1, <2>1, <2>2
<1>9. CASE GateRefused(c)
  <2>1. /\ phase[c] = "gate" /\ phase' = [phase EXCEPT ![c] = "raised"]
        /\ UNCHANGED <<rows, reserved, retained>>
    BY <1>9 DEF GateRefused, Move, dirVars, budgetVars
  <2>2. c \in Holding
    BY <2>1 DEF Holding
  <2> QED BY <1>1, <1>3, <1>6, <2>1, <2>2
<1>10. CASE SendRefused(c) \/ StreamAborted(c) \/ ReceiptFails(c)
  <2>1. /\ phase[c] \in {"gate", "wait"} /\ phase' = [phase EXCEPT ![c] = "raised"]
        /\ reserved' = reserved - MaxBody /\ UNCHANGED <<rows, retained>>
    BY <1>10 DEF SendRefused, StreamAborted, ReceiptFails, Abort, Move
  <2>2. c \in Holding
    BY <2>1 DEF Holding
  <2> QED BY <1>1, <1>3, <1>6, <2>1, <2>2
<1>11. CASE \E b \in Body : Retain(c, b)
  <2>1. PICK b \in Body : Retain(c, b)
    BY <1>11
  <2>2. /\ phase[c] = "wait" /\ rows' = [rows EXCEPT ![c] = Append(@, b)]
        /\ reserved' = reserved - MaxBody /\ retained' = retained + Bytes(b)
        /\ \E to \in {"done", "start"} : phase' = [phase EXCEPT ![c] = to]
    BY <1>1, <2>1, Retained
  <2>3. c \in Holding
    BY <2>2 DEF Holding
  <2>4. rows \in [Call -> Seq(Body)]
    BY <1>1 DEF RunTypes
  <2>5. Total([rows EXCEPT ![c] = Append(@, b)]) = Total(rows) + Bytes(b)
    BY <2>4, TotalAppend
  <2>6. Total(rows') = retained'
    BY <1>1, <2>2, <2>5
  <2>7. Sum(Room, Holding') \in Nat /\ Sum(Room, Holding) = Sum(Room, Holding') + MaxBody
    BY <1>6, <2>2, <2>3
  <2>8. Bytes(b) \in Nat /\ Bytes(b) <= MaxBody
    BY <1>3
  <2> QED BY <1>1, <1>3, <2>2, <2>6, <2>7, <2>8
<1> QED BY <1>7, <1>8, <1>9, <1>10, <1>11 DEF Work

(* An action of a worker comes before any seal, and repeats no chain call  *)
(* behind their phase.                                                     *)
LEMMA WorkSealsNothing ==
  ASSUME RunInv, NEW c \in Call, Work(c)
  PROVE  Ending' /\ Proven' /\ Evaluated'
<1>1. /\ c \in Active /\ Active' \subseteq Active
      /\ mode \in {"chain", "pool"} /\ UNCHANGED mainVars
      /\ \A d \in Call \ {c} : rows'[d] = rows[d]
  BY WorkStep
<1>2. terminal \notin {"torn", "COMPLETE", "FAILED"}
  BY <1>1 DEF RunInv, Ending
<1>3. Ending' /\ Evaluated'
  BY <1>1, <1>2 DEF Ending, Evaluated, mainVars
<1>4. ASSUME mode = "pool"
      PROVE  ChainProven(rows') /\ \A p \in Members(Orgs) : Chain(p) \notin Active'
  <2>1. ChainProven(rows) /\ \A p \in Members(Orgs) : Chain(p) \notin Active
    BY <1>4 DEF RunInv, Proven
  <2>2. ASSUME NEW p \in Members(Orgs) PROVE rows'[Chain(p)] = rows[Chain(p)]
    <3>1. Chain(p) \in Call /\ Chain(p) # c
      BY <1>1, <2>1 DEF Call
    <3> QED BY <1>1, <3>1
  <2> QED BY <1>1, <2>1, <2>2 DEF ChainProven
<1>5. Proven'
  <2>1. mode = "pool" => next > Len(Orgs)
    BY DEF RunInv, Proven
  <2> QED BY <1>1, <1>2, <1>4, <2>1 DEF Proven, ChainProven, mainVars
<1> QED BY <1>3, <1>5

(* The beginning.                                                          *)
LEMMA BeginsSound == RunInit => RunInv
<1> SUFFICES ASSUME RunInit PROVE RunInv
  OBVIOUS
<1> USE DEF RunInit
<1>1. Active = {} /\ Holding = {}
  BY DEF Active, Holding
<1>2. RunTypes
  <2>1. rows \in [Call -> Seq(Body)] /\ raw \in SUBSET (Call \X (Nat \ {0}))
    OBVIOUS
  <2>2. attempts \in 0 .. MaxProvider /\ faults \in 0 .. MaxFaults
    BY RunAssumption
  <2>3. /\ phase \in [Call -> {"idle", "start", "gate", "wait", "done", "raised", "lost"}]
        /\ mode = "chain" /\ terminal = "none"
    OBVIOUS
  <2>4. /\ reserved \in Int /\ retained \in Nat /\ next \in Nat
        /\ budget \in Budgets /\ cap \in Caps
    OBVIOUS
  <2>5. late \in BOOLEAN /\ stop \in BOOLEAN
    BY Zenon
  <2>6. /\ mode \in {"chain", "pool", "seal", "failed", "ended", "dead"}
        /\ terminal \in {"none", "torn", "COMPLETE", "FAILED"}
    BY <2>3
  <2> HIDE DEF RunInit
  <2> QED BY <2>1, <2>2, <2>3, <2>4, <2>5, <2>6 DEF RunTypes
<1>3. Total(rows) = 0 /\ Sum(Room, Holding) = 0
  BY <1>1, TotalEmpty, SumEmpty
<1>4. Tracked
  BY <1>2, <1>3, RunAssumption DEF Tracked, RunTypes
<1> QED BY <1>1, <1>2, <1>4 DEF RunInv, Ending, Proven, Evaluated

(* The books hold while nothing is retained and nobody reserves, in the    *)
(* process that lives on.                                                  *)
LEMMA SameBooks ==
  ASSUME RunInv, UNCHANGED <<rows, reserved, retained, budget>>,
         mode # "dead", mode' # "dead", Holding' = Holding
  PROVE  Tracked'
<1>1. Room' = Room
  BY DEF Room
<1> QED BY <1>1 DEF RunInv, Tracked

(* The next call of the schedule is handed to a worker.                    *)
LEMMA SubmitSound == ASSUME RunInv, Submit PROVE RunInv'
<1> DEFINE c == Schedule[next]
<1>1. /\ mode \in {"chain", "pool"} /\ next <= Len(Schedule) /\ next \in Nat
      /\ phase' = [phase EXCEPT ![c] = "start"] /\ next' = next + 1
      /\ UNCHANGED <<dirVars, budgetVars, inputVars, late, stop, mode, report,
                     terminal, listed, faults>>
  BY DEF Submit, Move, RunInv, RunTypes
<1>2. mode = "pool" => c.kind # "chain" /\ next > Len(Orgs) /\ Len(Orgs) \in Nat
  BY <1>1, TargetsFollow, MatrixAssumption DEF RunInv, Proven
<1> HIDE DEF c
<1>3. phase \in [Call -> {"idle", "start", "gate", "wait", "done", "raised", "lost"}]
  BY DEF RunInv, RunTypes
<1>4. RunTypes'
  <2>1. phase' \in [Call -> {"idle", "start", "gate", "wait", "done", "raised", "lost"}]
    BY <1>1, <1>3
  <2> QED BY <1>1, <2>1 DEF RunInv, RunTypes, dirVars, budgetVars, inputVars
<1>5. Tracked'
  <2>1. /\ mode # "dead" /\ mode' = mode
        /\ rows' = rows /\ reserved' = reserved /\ retained' = retained /\ budget' = budget
    BY <1>1 DEF dirVars, budgetVars, inputVars
  <2>2. CASE c \notin Holding
    <3>1. Holding' = Holding
      BY <1>1, <1>3, <2>2 DEF Holding
    <3> QED BY <2>1, <3>1, SameBooks
  <2>3. CASE c \in Holding
    <3>1. Holding' = Holding \ {c}
      BY <1>1, <1>3, <2>3 DEF Holding
    <3>2. /\ Sum(Room, Holding \ {c}) \in Nat
          /\ Sum(Room, Holding) = Sum(Room, Holding \ {c}) + MaxBody
      BY <2>3, Freed DEF RunInv
    <3>3. MaxBody \in Nat /\ reserved \in Int /\ Room' = Room
      BY MatrixAssumption DEF RunInv, RunTypes, Room
    <3>4. /\ Total(rows) = retained /\ retained + reserved <= budget
          /\ Sum(Room, Holding) <= reserved
      BY <2>1 DEF RunInv, Tracked
    <3>5. Sum(Room, Holding') <= reserved
      BY <3>1, <3>2, <3>3, <3>4
    <3> QED BY <2>1, <3>3, <3>4, <3>5 DEF Tracked
  <2> QED BY <2>2, <2>3
<1>6. terminal = "none"
  BY <1>1 DEF RunInv, RunTypes, Ending
<1>7. Ending' /\ Evaluated'
  BY <1>1, <1>6 DEF Ending, Evaluated
<1>8. Proven'
  <2>1. ASSUME mode = "pool", NEW p \in Members(Orgs) PROVE Chain(p) \notin Active'
    <3>1. Chain(p) \notin Active
      BY <2>1 DEF RunInv, Proven
    <3>2. Chain(p) # c
      <4>1. Chain(p).kind = "chain"
        BY DEF Chain
      <4>2. c.kind # "chain"
        BY <1>2, <2>1
      <4> QED BY <4>1, <4>2
    <3>3. Chain(p) \in Call
      BY DEF Call
    <3> QED BY <1>1, <1>3, <3>1, <3>2, <3>3 DEF Active
  <2>2. mode = "pool" => ChainProven(rows) /\ next' > Len(Orgs)
    BY <1>1, <1>2 DEF RunInv, Proven
  <2>3. rows' = rows
    BY <1>1 DEF dirVars
  <2> QED BY <1>1, <1>6, <2>1, <2>2, <2>3 DEF Proven
<1> QED BY <1>4, <1>5, <1>7, <1>8 DEF RunInv

(* A step of the main thread that touches neither the directory nor the    *)
(* workers, and seals nothing.                                             *)
LEMMA MainSound ==
  ASSUME RunInv, Notice \/ EndChain \/ Stopped \/ Evaluate PROVE RunInv'
<1>1. /\ mode \in {"chain", "pool"} /\ terminal = "none"
      /\ UNCHANGED <<dirVars, phase, budgetVars, inputVars, late, next, terminal, listed, faults>>
  BY DEF RunInv, RunTypes, Ending, Notice, EndChain, Stopped, Evaluate, Goto, mainVars
<1>2. Active' = Active /\ Holding' = Holding /\ rows' = rows /\ raw' = raw
  BY <1>1 DEF Active, Holding, dirVars
<1>3. /\ mode' \in {"chain", "pool", "seal", "failed"} /\ stop' \in BOOLEAN
      /\ mode' \in {"seal", "failed"} => Active = {}
      /\ mode' = "pool" =>
           \/ mode = "pool"
           \/ ChainProven(rows) /\ Active = {} /\ next > Len(Orgs)
      /\ mode' = "seal" => mode = "pool" /\ InventoryHolds(rows, raw) /\ report' = Report(rows)
  BY <1>1 DEF Notice, EndChain, Stopped, Evaluate, Goto, mainVars, Drained, RunInv, RunTypes
<1>4. RunTypes'
  BY <1>1, <1>3 DEF RunInv, RunTypes, dirVars, budgetVars, inputVars
<1>5. Tracked'
  BY <1>1, <1>2, <1>3, SameBooks DEF dirVars, budgetVars, inputVars
<1>6. Ending' /\ Evaluated'
  BY <1>1, <1>2, <1>3 DEF Ending, Evaluated
<1>7. Proven'
  BY <1>1, <1>2, <1>3 DEF RunInv, Proven
<1> QED BY <1>4, <1>5, <1>6, <1>7 DEF RunInv

(* The manifest.                                                           *)
LEMMA SealSound == ASSUME RunInv, SealEvaluated \/ SealFailed PROVE RunInv'
<1>1. PICK kind \in {"COMPLETE", "FAILED"} :
        /\ Seal(kind) /\ mode \in {"seal", "failed"}
        /\ kind = "COMPLETE" => mode = "seal" /\ report.complete
  BY DEF SealEvaluated, SealFailed
<1>2. /\ terminal' = kind /\ mode' = "ended" /\ listed' = [rows |-> rows, raw |-> raw]
      /\ UNCHANGED <<dirVars, phase, budgetVars, inputVars, late, stop, next, report, faults>>
  BY <1>1 DEF Seal
<1>3. Active' = Active /\ Holding' = Holding /\ rows' = rows /\ raw' = raw /\ Active = {}
  BY <1>1, <1>2 DEF RunInv, Ending, Active, Holding, dirVars
<1>4. RunTypes'
  BY <1>2 DEF RunInv, RunTypes, dirVars, budgetVars, inputVars
<1>5. Tracked'
  BY <1>1, <1>2, <1>3, SameBooks DEF dirVars, budgetVars, inputVars
<1>6. Ending'
  BY <1>2, <1>3 DEF Ending
<1>7. Proven' /\ Evaluated'
  BY <1>1, <1>2, <1>3 DEF RunInv, Proven, Evaluated
<1> QED BY <1>4, <1>5, <1>6, <1>7 DEF RunInv

(* What the books bound.                                                   *)
LEMMA WithinBudget == ASSUME RunInv PROVE Total(rows) <= budget
<1>1. CASE mode = "dead"
  BY <1>1 DEF RunInv, Tracked
<1>2. CASE mode # "dead"
  <2>1. /\ Total(rows) = retained /\ retained + reserved <= budget
        /\ Sum(Room, Holding) <= reserved
    BY <1>2 DEF RunInv, Tracked
  <2>2. IsFiniteSet(Holding) /\ Weighs(Room, Holding)
    BY CallsAreFinite, FS_Subset, MatrixAssumption, Holding \in SUBSET Call
       DEF Holding, Weighs, Room
  <2>3. Sum(Room, Holding) \in Nat
    BY <2>2, SumNat
  <2>4. retained \in Nat /\ reserved \in Int /\ budget \in Nat
    BY RunAssumption DEF RunInv, RunTypes
  <2> QED BY <2>1, <2>3, <2>4
<1> QED BY <1>1, <1>2

(* A death loses the books, not what they bounded.                         *)
LEMMA CrashSound == ASSUME RunInv, Crash PROVE RunInv'
<1>1. /\ mode \notin {"ended", "dead"} /\ mode' = "dead"
      /\ terminal' \in {terminal, "torn"} /\ terminal = "none"
      /\ phase' = [c \in Call |-> "lost"]
      /\ reserved' = 0 /\ retained' = 0 /\ attempts' = 0
      /\ late' = FALSE /\ stop' = FALSE /\ next' = 0
      /\ UNCHANGED <<dirVars, inputVars, listed>>
      /\ Fault(1)
  BY DEF Crash, RunInv, RunTypes, Ending
<1>2. Active' = {} /\ rows' = rows /\ budget' = budget
  BY <1>1 DEF Active, dirVars, inputVars
<1>3. faults' \in 0 .. MaxFaults /\ attempts' \in 0 .. MaxProvider
  BY <1>1, RunAssumption DEF Fault, RunInv, RunTypes
<1>4. RunTypes'
  <2>1. rows' = rows /\ raw' = raw /\ budget' = budget /\ cap' = cap
    BY <1>1 DEF dirVars, inputVars
  <2>2. phase' \in [Call -> {"idle", "start", "gate", "wait", "done", "raised", "lost"}]
    BY <1>1
  <2>3. /\ reserved' \in Int /\ retained' \in Nat /\ next' \in Nat
        /\ mode' \in {"chain", "pool", "seal", "failed", "ended", "dead"}
        /\ terminal' \in {"none", "torn", "COMPLETE", "FAILED"}
    BY <1>1
  <2>5. late' \in BOOLEAN /\ stop' \in BOOLEAN
    BY <1>1, Zenon
  <2>4. /\ rows \in [Call -> Seq(Body)] /\ raw \in SUBSET (Call \X (Nat \ {0}))
        /\ budget \in Budgets /\ cap \in Caps
    BY DEF RunInv, RunTypes
  <2> QED BY <1>3, <2>1, <2>2, <2>3, <2>4, <2>5 DEF RunTypes
<1>5. Total(rows) <= budget
  BY WithinBudget
<1>6. Tracked'
  BY <1>1, <1>2, <1>5 DEF Tracked
<1>7. Ending' /\ Proven' /\ Evaluated'
  BY <1>1, <1>2 DEF Ending, Proven, Evaluated
<1> QED BY <1>4, <1>6, <1>7 DEF RunInv

(* The wall-clock budget is spent; or nothing happens.                     *)
LEMMA WallSound == ASSUME RunInv, WallPasses \/ UNCHANGED vars PROVE RunInv'
<1>1. /\ late' \in BOOLEAN /\ faults' \in 0 .. MaxFaults
      /\ UNCHANGED <<dirVars, phase, budgetVars, inputVars, stop, mainVars>>
  <2>1. late \in BOOLEAN /\ faults \in 0 .. MaxFaults
    BY DEF RunInv, RunTypes
  <2>2. CASE WallPasses
    <3>1. Fault(1) /\ late' = TRUE
          /\ UNCHANGED <<dirVars, phase, budgetVars, inputVars, stop, mainVars>>
      BY <2>2 DEF WallPasses
    <3>2. faults' \in 0 .. MaxFaults
      BY <2>1, <3>1, RunAssumption DEF Fault
    <3> QED BY <3>1, <3>2
  <2>3. CASE UNCHANGED vars
    BY <2>1, <2>3 DEF vars
  <2> QED BY <2>2, <2>3
<1>2. UNCHANGED <<rows, raw, phase, reserved, retained, attempts, budget, cap, stop, mode, next,
                  report, terminal, listed>>
  BY <1>1 DEF dirVars, budgetVars, inputVars, mainVars
<1>3. Active' = Active /\ Holding' = Holding /\ Room' = Room
  BY <1>2 DEF Active, Holding, Room
<1>4. RunTypes' /\ Tracked'
  BY <1>1, <1>2, <1>3 DEF RunInv, RunTypes, Tracked
<1>5. Ending' /\ Proven' /\ Evaluated'
  BY <1>2, <1>3 DEF RunInv, Ending, Proven, Evaluated
<1> QED BY <1>4, <1>5 DEF RunInv

(* Every reachable state is sound, whatever the workers do in which order. *)
THEOREM RunIsSound == RunSpec => []RunInv
<1>1. ASSUME RunInv, [Next]_vars PROVE RunInv'
  <2>1. ASSUME NEW c \in Call, Work(c) PROVE RunInv'
    BY <1>1, <2>1, WorkTypes, WorkTracked, WorkSealsNothing DEF RunInv
  <2>2. CASE Main
    BY <1>1, <2>2, SubmitSound, MainSound, SealSound DEF Main
  <2>3. CASE Crash \/ WallPasses \/ UNCHANGED vars
    BY <1>1, <2>3, CrashSound, WallSound
  <2> QED BY <1>1, <2>1, <2>2, <2>3 DEF Next, Progress
<1> QED BY BeginsSound, <1>1, PTL DEF RunSpec

(* Whatever several workers reserve, retry or leak at once, the receipts   *)
(* on disk never hold more than the budget of retained bytes (class        *)
(* BudgetTracker): bytes that are still to come are paid for in advance.   *)
THEOREM BudgetAlwaysHolds == RunSpec => []BudgetHolds
<1>1. ASSUME RunInv PROVE BudgetHolds
  BY <1>1, WithinBudget DEF BudgetHolds, Total
<1> QED BY <1>1, RunIsSound, PTL

-----------------------------------------------------------------------------
(* The evidence *)

(* What a verdict says of a call's attempts.                               *)
LEMMA VerdictsMean ==
  ASSUME NEW s
  PROVE  /\ Verdict(s) \in {"missing", "hard", "success", "capacity"}
         /\ Verdict(s) \notin {"missing", "hard"} => s # <<>> /\ ~Shows(s, HardBody)
         /\ Verdict(s) = "success" => Shows(s, Success)
         /\ Verdict(s) = "capacity" => ~Shows(s, Success)
BY DEF Verdict

(* What a cell that does not block the selection says of its calls         *)
(* (evaluate_cell): the references succeeded and agree; the batches were   *)
(* answered or failed for capacity; and it passes only if all of them      *)
(* equal their union.                                                      *)
LEMMA CellsMean ==
  ASSUME NEW rs, NEW r, NEW s, Cell(rs, r, s) \notin {"incomplete", "hard"}
  PROVE  /\ \A p \in Members(Orgs), a \in 1 .. s : Verdict(rs[Scalar(p, r, a)]) = "success"
         /\ \A p, q \in Members(Orgs) : Union(rs, p, r, s) = Union(rs, q, r, s)
         /\ \A p \in Members(Orgs) : Verdict(rs[Batch(p, r, s)]) \notin {"hard", "missing"}
         /\ Cell(rs, r, s) = "pass" =>
              \A p \in Members(Orgs) : /\ Verdict(rs[Batch(p, r, s)]) = "success"
                                       /\ BatchLogs(rs, p, r, s) = Union(rs, p, r, s)
         /\ Cell(rs, r, s) # "pass" =>
              \E p \in Members(Orgs) : Verdict(rs[Batch(p, r, s)]) = "capacity"
<1> DEFINE P == Members(Orgs)
           scalars == {Verdict(rs[Scalar(p, r, a)]) : p \in P, a \in 1 .. s}
           batches == {Verdict(rs[Batch(p, r, s)]) : p \in P}
           differ == \E p, q \in P : Union(rs, p, r, s) # Union(rs, q, r, s)
           equal == \A p \in P : BatchLogs(rs, p, r, s) = Union(rs, p, r, s)
<1>1. Cell(rs, r, s) =
        IF "missing" \in scalars THEN "incomplete"
        ELSE IF scalars # {"success"} THEN "hard"
        ELSE IF differ THEN "hard"
        ELSE IF batches \cap {"hard", "missing"} # {} THEN "hard"
        ELSE IF "capacity" \in batches THEN "capacity"
        ELSE IF equal THEN "pass" ELSE "hard"
  BY DEF Cell
<1>2. \A p \in P, a \in 1 .. s : Verdict(rs[Scalar(p, r, a)]) \in scalars
  OBVIOUS
<1>3. \A p \in P : Verdict(rs[Batch(p, r, s)]) \in batches
  OBVIOUS
<1>4. \A v \in batches : \E p \in P : v = Verdict(rs[Batch(p, r, s)])
  OBVIOUS
<1>5. \A p \in P : Verdict(rs[Batch(p, r, s)]) \in {"missing", "hard", "success", "capacity"}
  BY VerdictsMean
<1> HIDE DEF scalars, batches, differ, equal
<1>6. /\ scalars = {"success"} /\ ~differ
      /\ batches \cap {"hard", "missing"} = {}
      /\ Cell(rs, r, s) = "pass" => "capacity" \notin batches /\ equal
      /\ Cell(rs, r, s) # "pass" => "capacity" \in batches
  BY <1>1
<1>7. \A p \in P, a \in 1 .. s : Verdict(rs[Scalar(p, r, a)]) = "success"
  BY <1>2, <1>6
<1>8. \A p \in P : Verdict(rs[Batch(p, r, s)]) \notin {"hard", "missing"}
  BY <1>3, <1>6
<1>9. ASSUME Cell(rs, r, s) = "pass", NEW p \in P
      PROVE  Verdict(rs[Batch(p, r, s)]) = "success"
  BY <1>3, <1>5, <1>6, <1>8, <1>9
<1>10. ASSUME Cell(rs, r, s) # "pass"
       PROVE  \E p \in P : Verdict(rs[Batch(p, r, s)]) = "capacity"
  BY <1>4, <1>6, <1>10
<1> QED BY <1>6, <1>7, <1>8, <1>9, <1>10 DEF differ, equal

(* Where a size is selected nothing blocks it, and it is the largest of    *)
(* sizes that are viable together with every smaller one.                  *)
LEMMA SelectionsMean ==
  ASSUME NEW cells, Select(cells) # None
  PROVE  /\ \A rs \in DOMAIN cells : cells[rs] \notin {"hard", "incomplete"}
         /\ Monotonic(Viable(cells))
         /\ Select(cells) \in Viable(cells)
         /\ \A t \in Viable(cells) : t <= Select(cells)
<1> DEFINE V == Viable(cells)
           blocked == \E rs \in DOMAIN cells : cells[rs] \in {"hard", "incomplete"}
           top == CHOOSE s \in V : \A t \in V : t <= s
<1>1. Select(cells) = IF blocked \/ ~Monotonic(V) \/ V = {} THEN None ELSE top
  BY DEF Select
<1>2. ~blocked /\ Monotonic(V) /\ V # {} /\ Select(cells) = top
  <2> HIDE DEF blocked, V, top
  <2> QED BY <1>1
<1>3. V \subseteq Nat /\ \A s \in V : s <= Cohort
  BY Catalogued DEF Viable
<1>4. Cohort \in Nat
  BY Catalogued
<1>5. \E s \in V : \A t \in V : t <= s
  <2> DEFINE B == {Cohort - s : s \in V}
  <2> HIDE DEF V
  <2>1. B \subseteq Nat /\ B # {}
    <3>1. ASSUME NEW s \in V PROVE Cohort - s \in Nat
      <4>1. s \in Nat /\ s <= Cohort
        BY <1>3
      <4> QED BY <1>4, <4>1
    <3> QED BY <1>2, <3>1
  <2>2. PICK b \in B : \A c \in B : b <= c
    BY <2>1, LeastNumber
  <2>3. PICK s \in V : b = Cohort - s
    BY <2>2
  <2>4. ASSUME NEW t \in V PROVE t <= s
    <3>1. Cohort - t \in B
      OBVIOUS
    <3>2. Cohort - s <= Cohort - t
      BY <2>2, <2>3, <3>1
    <3>3. s \in Nat /\ t \in Nat
      BY <1>3
    <3> QED BY <1>4, <3>2, <3>3
  <2> QED BY <2>4
<1>6. top \in V /\ \A t \in V : t <= top
  <2> HIDE DEF V
  <2> QED BY <1>5
<1> HIDE DEF V, top
<1>7. \A rs \in DOMAIN cells : cells[rs] \notin {"hard", "incomplete"}
  BY <1>2
<1> QED BY <1>2, <1>6, <1>7 DEF V

(* What a report that passes says of the cells.                            *)
LEMMA ReportsMean ==
  ASSUME NEW rs, Report(rs).pass
  PROVE  /\ Report(rs).selected = Select(Cells(rs)) /\ Select(Cells(rs)) # None
         /\ Report(rs).selected \in Members(Sizes)
         /\ \A r \in Members(Ranges), s \in Members(Sizes) :
              /\ Cell(rs, r, s) \notin {"incomplete", "hard"}
              /\ s <= Report(rs).selected => Cell(rs, r, s) = "pass"
         /\ \A s \in Members(Sizes) :
              s > Report(rs).selected => \E r \in Members(Ranges) : Cell(rs, r, s) # "pass"
<1> DEFINE cells == Cells(rs)
           top == Select(cells)
<1>1. Report(rs).selected = top /\ top # None
  BY DEF Report
<1>2. /\ DOMAIN cells = Members(Ranges) \X Members(Sizes)
      /\ \A r \in Members(Ranges), s \in Members(Sizes) :
           <<r, s>> \in DOMAIN cells /\ cells[<<r, s>>] = Cell(rs, r, s)
  BY DEF Cells
<1> HIDE DEF cells
<1>3. /\ \A c \in DOMAIN cells : cells[c] \notin {"hard", "incomplete"}
      /\ Monotonic(Viable(cells)) /\ top \in Viable(cells)
      /\ \A t \in Viable(cells) : t <= top
  BY <1>1, SelectionsMean
<1> HIDE DEF top
<1>4. Viable(cells) =
        {s \in Members(Sizes) : \A r \in Members(Ranges) : Cell(rs, r, s) = "pass"}
  BY <1>2 DEF Viable
<1>5. \A s \in Members(Sizes) : s \in Nat
  BY Catalogued
<1>6. top \in Members(Sizes) /\ top \in Nat
  BY <1>3, <1>4, <1>5
<1>7. ASSUME NEW s \in Members(Sizes), s <= top PROVE s \in Viable(cells)
  <2>1. s = top \/ s < top
    BY <1>5, <1>6, <1>7
  <2> QED BY <1>3, <2>1 DEF Monotonic
<1>8. ASSUME NEW s \in Members(Sizes), s > top PROVE s \notin Viable(cells)
  BY <1>3, <1>5, <1>6, <1>8
<1>9. \A r \in Members(Ranges), s \in Members(Sizes) : Cell(rs, r, s) \notin {"incomplete", "hard"}
  BY <1>2, <1>3
<1> QED BY <1>1, <1>4, <1>6, <1>7, <1>8, <1>9 DEF cells, top

(* A PASS rests on calls that all have attempts, none of them a hard       *)
(* blocker.                                                                *)
LEMMA PassesAreCovered ==
  ASSUME NEW rs, Report(rs).pass, ChainProven(rs), NEW c \in Call
  PROVE  /\ rs[c] # <<>>
         /\ c.kind # "chain" => ~Shows(rs[c], HardBody)
<1>1. CASE c \in {Chain(p) : p \in Members(Orgs)}
  <2>1. PICK p \in Members(Orgs) : c = Chain(p)
    BY <1>1
  <2>2. c.kind = "chain"
    BY <2>1 DEF Chain
  <2>3. Shows(rs[c], Success)
    BY <2>1 DEF ChainProven
  <2>4. rs[c] # <<>>
    BY <2>3 DEF Shows
  <2> QED BY <2>2, <2>4
<1>2. CASE c \in {Scalar(p, r, a) : p \in Members(Orgs), r \in Members(Ranges), a \in Address}
  <2>1. PICK p \in Members(Orgs), r \in Members(Ranges), a \in Address : c = Scalar(p, r, a)
    BY <1>2
  <2>2. Cohort \in Members(Sizes)
    BY Catalogued
  <2>3. Cell(rs, r, Cohort) \notin {"incomplete", "hard"}
    BY <2>2, ReportsMean
  <2>4. Verdict(rs[Scalar(p, r, a)]) = "success"
    BY <2>3, CellsMean DEF Address
  <2> QED BY <2>1, <2>4, VerdictsMean
<1>3. CASE c \in {Batch(p, r, s) : p \in Members(Orgs), r \in Members(Ranges), s \in Members(Sizes)}
  <2>1. PICK p \in Members(Orgs), r \in Members(Ranges), s \in Members(Sizes) : c = Batch(p, r, s)
    BY <1>3
  <2>2. Cell(rs, r, s) \notin {"incomplete", "hard"}
    BY ReportsMean
  <2>3. Verdict(rs[Batch(p, r, s)]) \notin {"hard", "missing"}
    BY <2>2, CellsMean
  <2> QED BY <2>1, <2>3, VerdictsMean
<1> QED BY <1>1, <1>2, <1>3 DEF Call

-----------------------------------------------------------------------------
(* What a run seals *)

(* A manifest names exactly what the directory holds, for good; what       *)
(* COMPLETE seals authenticates from the disk alone                        *)
(* (authenticate_completed_run), and a PASS can be replayed.               *)
THEOREM SealsAlwaysAuthenticate == RunSpec => []SealsAuthenticate
<1>1. ASSUME RunInv PROVE SealsAuthenticate
  <2>1. terminal \in {"COMPLETE", "FAILED"} => listed = [rows |-> rows, raw |-> raw]
    BY <1>1 DEF RunInv, Ending
  <2>2. ASSUME terminal = "COMPLETE"
        PROVE  /\ report = Report(rows) /\ InventoryHolds(rows, raw) /\ report.complete
               /\ ChainProven(rows)
    BY <1>1, <2>2 DEF RunInv, Evaluated, Proven
  <2>3. Report(rows).cells = Cells(rows) /\ Report(rows).selected = Select(Cells(rows))
    BY DEF Report
  <2>4. ASSUME terminal = "COMPLETE" PROVE Authenticates(listed, report, rows, raw)
    BY <2>1, <2>2, <2>3, <2>4 DEF Authenticates
  <2>5. ASSUME terminal = "COMPLETE", report.pass PROVE Replayable(report, rows)
    <3>1. Report(rows).pass /\ report = Report(rows) /\ ChainProven(rows) /\ report.complete
      BY <2>2, <2>5
    <3>2. \A c \in Call : rows[c] # <<>>
      BY <3>1, PassesAreCovered
    <3>3. report.selected # None
      BY <3>1, ReportsMean
    <3> QED BY <2>5, <3>1, <3>2, <3>3 DEF Replayable
  <2> QED BY <2>1, <2>4, <2>5 DEF SealsAuthenticate
<1> QED BY <1>1, RunIsSound, PTL

(* The selected size rests on the attempts themselves: all references      *)
(* succeeded and agree, batches up to the size equal their union, one      *)
(* beyond it failed for capacity, and no hard blocker was ever seen.       *)
THEOREM SelectionAlwaysJustified == RunSpec => []SelectionIsJustified
<1>1. ASSUME RunInv, terminal = "COMPLETE", report.pass,
             NEW r \in Members(Ranges), NEW p \in Members(Orgs)
      PROVE  /\ \A c \in Call : c.kind # "chain" => ~Shows(rows[c], HardBody)
             /\ \A a \in Address, q \in Members(Orgs) :
                  /\ Shows(rows[Scalar(p, r, a)], Success)
                  /\ Best(rows[Scalar(p, r, a)]) = Best(rows[Scalar(q, r, a)])
             /\ \A s \in Members(Sizes) :
                  s <= report.selected =>
                    /\ Shows(rows[Batch(p, r, s)], Success)
                    /\ \A a \in 1 .. s :
                         Best(rows[Batch(p, r, s)]) = Best(rows[Scalar(p, r, a)])
             /\ \A s \in Members(Sizes) :
                  s > report.selected =>
                    \E q \in Members(Orgs), t \in Members(Ranges) :
                      ~Shows(rows[Batch(q, t, s)], Success)
  <2>1. Report(rows).pass /\ report = Report(rows) /\ ChainProven(rows)
    BY <1>1 DEF RunInv, Evaluated, Proven
  <2>2. \A c \in Call : c.kind # "chain" => ~Shows(rows[c], HardBody)
    BY <2>1, PassesAreCovered
  <2>3. /\ \A t \in Members(Ranges), s \in Members(Sizes) :
             /\ Cell(rows, t, s) \notin {"incomplete", "hard"}
             /\ s <= report.selected => Cell(rows, t, s) = "pass"
        /\ \A s \in Members(Sizes) :
             s > report.selected => \E t \in Members(Ranges) : Cell(rows, t, s) # "pass"
    BY <2>1, ReportsMean
  <2>4. ASSUME NEW a \in Address, NEW q \in Members(Orgs)
        PROVE  /\ Shows(rows[Scalar(p, r, a)], Success)
               /\ Best(rows[Scalar(p, r, a)]) = Best(rows[Scalar(q, r, a)])
    <3>1. Cell(rows, r, Cohort) \notin {"incomplete", "hard"} /\ a \in 1 .. Cohort
      BY <2>3, Catalogued DEF Address
    <3>2. Verdict(rows[Scalar(p, r, a)]) = "success"
      BY <3>1, CellsMean
    <3>3. Union(rows, p, r, Cohort) = Union(rows, q, r, Cohort)
      BY <3>1, CellsMean
    <3>4. \A o \in Members(Orgs) : Union(rows, o, r, Cohort)[a] = Best(rows[Scalar(o, r, a)])
      BY <3>1 DEF Union
    <3> QED BY <3>2, <3>3, <3>4, VerdictsMean
  <2>5. ASSUME NEW s \in Members(Sizes), s <= report.selected
        PROVE  /\ Shows(rows[Batch(p, r, s)], Success)
               /\ \A a \in 1 .. s : Best(rows[Batch(p, r, s)]) = Best(rows[Scalar(p, r, a)])
    <3>1. Cell(rows, r, s) = "pass"
      BY <2>3, <2>5
    <3>2. /\ Verdict(rows[Batch(p, r, s)]) = "success"
          /\ BatchLogs(rows, p, r, s) = Union(rows, p, r, s)
      BY <3>1, CellsMean
    <3>3. \A a \in 1 .. s : BatchLogs(rows, p, r, s)[a] = Union(rows, p, r, s)[a]
      BY <3>2
    <3>4. \A a \in 1 .. s : Best(rows[Batch(p, r, s)]) = Best(rows[Scalar(p, r, a)])
      BY <3>3 DEF BatchLogs, Union
    <3> QED BY <3>2, <3>4, VerdictsMean
  <2>6. ASSUME NEW s \in Members(Sizes), s > report.selected
        PROVE  \E q \in Members(Orgs), t \in Members(Ranges) :
                 ~Shows(rows[Batch(q, t, s)], Success)
    <3>1. PICK t \in Members(Ranges) : Cell(rows, t, s) # "pass"
      BY <2>3, <2>6
    <3>2. Cell(rows, t, s) \notin {"incomplete", "hard"}
      BY <2>3
    <3>3. PICK q \in Members(Orgs) : Verdict(rows[Batch(q, t, s)]) = "capacity"
      BY <3>1, <3>2, CellsMean
    <3> QED BY <3>3, VerdictsMean
  <2> QED BY <2>2, <2>4, <2>5, <2>6
<1>2. RunInv => SelectionIsJustified
  BY <1>1 DEF SelectionIsJustified
<1> QED BY <1>2, RunIsSound, PTL

-----------------------------------------------------------------------------
(***************************************************************************)
(* The event ingest                                                        *)
(***************************************************************************)

(* Every plan walks chunks of one size: a pilot bounds the production plan *)
(* and leaves chunk_size alone.  job_coverage refuses receipts of another  *)
(* size, but only as a run begins.                                         *)
OneSize == \A t \in Plans, u \in Plans : t.size = u.size

(* The chunks of the whole range, of which each job takes the first ones.  *)
Grid == Tiling(Cutoff, Production.size)

(* What an orchestrator is doing.                                          *)
OrchestratorRun ==
  [pc : {"off", "chunk", "end", "headers", "insert"}, plan : Plans,
   jobs : SUBSET (DOMAIN Kinds), lo : Nat, logs : SUBSET (Nat \X {0, 1}), last : {0, 1},
   headers : SUBSET (Nat \X {0, 1}), cache : SUBSET (Source \X Nat \X {0, 1})]

(* The types that the proofs need.                                         *)
IngestTypes ==
  /\ split \in Splits /\ moved \in SUBSET Source /\ lax \in Source
  /\ work \in [Orchestrator -> OrchestratorRun]

(* The logs are the chain's own as far as its blocks stay.                 *)
Faithful(kind, lo, hi, logs) ==
  {x \in logs : x[1] < split} =
  {<<b, 0>> : b \in {c \in lo..hi : c < split /\ <<kind, c, 0>> \in Logged}}

(* A receipt is of a chunk, one for each kind, and can be replayed.        *)
Receipts ==
  /\ \A r \in stored : /\ <<r.lo, r.hi>> \in Grid
                       /\ Verified(r) /\ Decodes(r)
                       /\ Faithful(r.kind, r.lo, r.hi, r.logs)
  /\ \A r \in stored, q \in stored : r.kind = q.kind /\ r.lo = q.lo => r = q

(* A run stands at a chunk of its job, has receipts of all chunks before   *)
(* it, and what it carries is fit for a receipt.                           *)
Standing(p) ==
  Pc(p) # "off" =>
    /\ JobEnd[work[p].plan] > 0
    /\ work[p].jobs # {}
    /\ <<work[p].lo, Hi(p)>> \in JobTiling[work[p].plan]
    /\ \A c \in JobTiling[work[p].plan] : c[1] < work[p].lo => c \in StoredRanges(Job(p))
    /\ Pc(p) \in {"end", "headers", "insert"} =>
         Faithful(Job(p), work[p].lo, Hi(p), work[p].logs)
    /\ Pc(p) = "insert" =>
         /\ work[p].logs \subseteq work[p].headers
         /\ {h[1] : h \in work[p].headers} = Blocks(work[p].logs)

(* What was reported is complete.                                          *)
Done ==
  \A d \in reported : \E t \in Plans :
    JobEnd[t] > 0 /\ d.end = JobEnd[t] /\ Complete(d.kind, t)

(* What every step of an orchestrator, or of the chain, keeps.             *)
IngestInv == IngestTypes /\ Receipts /\ (\A p \in Orchestrator : Standing(p)) /\ Done
-----------------------------------------------------------------------------
(* Chunks *)

(* Multiples of n are n apart, and what follows one by n is one.           *)
LEMMA MultiplesApart ==
  ASSUME NEW n \in Nat \ {0}, NEW x \in Nat, NEW y \in Nat, x % n = 0, y % n = 0, x < y
  PROVE  x + n <= y
<1>1. PICK i \in Int : x = n * i
  <2>1. x = n * (x \div n) /\ x \div n \in Int
    OBVIOUS
  <2> QED BY <2>1
<1>2. PICK j \in Int : y = n * j
  <2>1. y = n * (y \div n) /\ y \div n \in Int
    OBVIOUS
  <2> QED BY <2>1
<1>3. i < j
  <2> SUFFICES ASSUME j <= i PROVE FALSE
    BY <1>1, <1>2
  <2>1. n * (i - j) >= 0
    BY <1>1, <1>2
  <2> QED BY <1>1, <1>2, <2>1
<1>4. n * (j - i - 1) >= 0
  BY <1>1, <1>2, <1>3
<1> QED BY <1>1, <1>2, <1>4

LEMMA MultipleOf ==
  ASSUME NEW n \in Nat \ {0}, NEW i \in Int
  PROVE  (n * i) % n = 0
<1> DEFINE y == n * i
           q == y \div n
           r == y % n
<1>1. y \in Int /\ q \in Int /\ r \in Int /\ y = n * q + r /\ 0 <= r /\ r < n
  OBVIOUS
<1> HIDE DEF q, r
<1>2. n * (i - q) = r
  BY <1>1
<1>3. i - q < 1
  <2> SUFFICES ASSUME i - q >= 1 PROVE FALSE
    BY <1>1
  <2>1. n * (i - q - 1) >= 0
    BY <1>1
  <2> QED BY <1>1, <1>2, <2>1
<1>4. i - q > -1
  <2> SUFFICES ASSUME i - q <= -1 PROVE FALSE
    BY <1>1
  <2>1. n * (-1 - (i - q)) >= 0
    BY <1>1
  <2> QED BY <1>1, <1>2, <2>1
<1>5. i = q
  BY <1>1, <1>3, <1>4
<1> QED BY <1>1, <1>2, <1>5 DEF r

LEMMA MultipleNext ==
  ASSUME NEW n \in Nat \ {0}, NEW x \in Nat, x % n = 0
  PROVE  /\ (x + n) % n = 0
         /\ x # 0 => x - n \in Nat /\ (x - n) % n = 0
<1>1. PICK i \in Int : x = n * i
  <2>1. x = n * (x \div n) /\ x \div n \in Int
    OBVIOUS
  <2> QED BY <2>1
<1>2. x + n = n * (i + 1) /\ x - n = n * (i - 1)
  BY <1>1
<1>3. (n * (i + 1)) % n = 0 /\ (n * (i - 1)) % n = 0
  BY <1>1, MultipleOf
<1>4. ASSUME x # 0 PROVE x - n \in Nat
  <2>1. 0 % n = 0
    OBVIOUS
  <2>2. 0 + n <= x
    BY <1>4, <2>1, MultiplesApart
  <2> QED BY <2>2
<1> QED BY <1>2, <1>3, <1>4

(* Every number is less than n behind a multiple of n.                     *)
LEMMA MultipleBefore ==
  ASSUME NEW n \in Nat \ {0}, NEW x \in Nat
  PROVE  \E y \in 0 .. x : y % n = 0 /\ x < y + n
<1> DEFINE r == x % n
           y == x - r
<1>1. PICK q \in Int : /\ x = n * q + r /\ r \in Int /\ 0 <= r /\ r < n
  <2>1. /\ x \div n \in Int /\ x = n * (x \div n) + r /\ r \in Int /\ 0 <= r /\ r < n
    OBVIOUS
  <2> HIDE DEF r
  <2> QED BY <2>1
<1> HIDE DEF r
<1>2. y = n * q /\ y % n = 0
  BY <1>1, MultipleOf
<1>3. q >= 0
  <2> SUFFICES ASSUME q <= -1 PROVE FALSE
    BY <1>1
  <2>1. n * (-1 - q) >= 0
    BY <1>1
  <2> QED BY <1>1, <2>1
<1>4. n * q >= 0
  BY <1>1, <1>3
<1> QED BY <1>1, <1>2, <1>4

(* A chunk begins behind a multiple of the chunk size and is cut at the    *)
(* end of the range.                                                       *)
LEMMA ChunkShape ==
  ASSUME NEW size \in Nat \ {0}, NEW end \in Nat, NEW c \in Tiling(end, size)
  PROVE  /\ c = <<c[1], c[2]>> /\ c[1] \in 1 .. end /\ (c[1] - 1) % size = 0
         /\ c[2] = ChunkEnd(c[1], size, end)
         /\ c[2] \in Nat /\ c[1] <= c[2] /\ c[2] <= end /\ c[2] <= c[1] + size - 1
<1>1. PICK lo \in 1 .. end : (lo - 1) % size = 0 /\ c = <<lo, ChunkEnd(lo, size, end)>>
  BY DEF Tiling
<1>2. c[1] = lo /\ c[2] = ChunkEnd(lo, size, end)
  BY <1>1
<1> QED BY <1>1, <1>2 DEF ChunkEnd, Least

LEMMA ChunkMade ==
  ASSUME NEW size \in Nat \ {0}, NEW end \in Nat, NEW lo \in 1 .. end, (lo - 1) % size = 0
  PROVE  <<lo, ChunkEnd(lo, size, end)>> \in Tiling(end, size)
BY DEF Tiling

(* Chunks share no block.                                                  *)
LEMMA ChunksApart ==
  ASSUME NEW size \in Nat \ {0}, NEW end \in Nat,
         NEW c \in Tiling(end, size), NEW d \in Tiling(end, size), c[1] < d[1]
  PROVE  c[2] < d[1]
<1>1. /\ c[1] \in Nat \ {0} /\ d[1] \in Nat \ {0}
      /\ c[2] \in Nat /\ c[2] <= c[1] + size - 1
      /\ (c[1] - 1) % size = 0 /\ (d[1] - 1) % size = 0
  BY ChunkShape
<1>2. PICK x \in Nat, y \in Nat : x = c[1] - 1 /\ y = d[1] - 1
  BY <1>1
<1>3. x + size <= y
  BY <1>1, <1>2, MultiplesApart
<1> QED BY <1>1, <1>2, <1>3

(* Behind a chunk that does not end the range there is another one, and    *)
(* nothing in between.                                                     *)
LEMMA ChunkNext ==
  ASSUME NEW size \in Nat \ {0}, NEW end \in Nat, NEW c \in Tiling(end, size), c[2] < end
  PROVE  /\ c[2] + 1 \in 1 .. end
         /\ <<c[2] + 1, ChunkEnd(c[2] + 1, size, end)>> \in Tiling(end, size)
<1>1. /\ c[1] \in Nat \ {0} /\ (c[1] - 1) % size = 0
      /\ c[2] \in Nat /\ c[2] = c[1] + size - 1
  BY ChunkShape DEF ChunkEnd, Least
<1>2. PICK x \in Nat : x = c[1] - 1
  BY <1>1
<1>3. (x + size) % size = 0 /\ x + size = (c[2] + 1) - 1
  BY <1>1, <1>2, MultipleNext
<1>4. c[2] + 1 \in 1 .. end
  BY <1>1
<1>5. PICK lo \in 1 .. end : lo = c[2] + 1
  BY <1>4
<1> QED BY <1>3, <1>4, <1>5, ChunkMade

(* Before a chunk that does not begin the range there is another one.      *)
LEMMA ChunkBefore ==
  ASSUME NEW size \in Nat \ {0}, NEW end \in Nat, NEW c \in Tiling(end, size), c[1] # 1
  PROVE  \E b \in Tiling(end, size) : b[2] = c[1] - 1
<1>1. c[1] \in 1 .. end /\ (c[1] - 1) % size = 0
  BY ChunkShape
<1>2. PICK x \in Nat : x = c[1] - 1 /\ x # 0
  BY <1>1
<1>3. x - size \in Nat /\ (x - size) % size = 0
  BY <1>1, <1>2, MultipleNext
<1>4. PICK lo \in 1 .. end : lo = x - size + 1 /\ lo - 1 = x - size
  BY <1>1, <1>2, <1>3
<1>5. <<lo, ChunkEnd(lo, size, end)>> \in Tiling(end, size)
  BY <1>3, <1>4, ChunkMade
<1>6. ChunkEnd(lo, size, end) = x
  BY <1>1, <1>2, <1>4 DEF ChunkEnd, Least
<1> QED BY <1>2, <1>5, <1>6

(* Every block is in a chunk.                                              *)
LEMMA ChunkOf ==
  ASSUME NEW size \in Nat \ {0}, NEW end \in Nat, NEW b \in 1 .. end
  PROVE  \E c \in Tiling(end, size) : c[1] <= b /\ b <= c[2]
<1>0. PICK x \in Nat : x = b - 1
  OBVIOUS
<1>1. PICK y \in 0 .. x : y % size = 0 /\ x < y + size
  BY MultipleBefore
<1>2. PICK lo \in 1 .. end : lo = y + 1 /\ lo - 1 = y
  BY <1>0, <1>1
<1>3. <<lo, ChunkEnd(lo, size, end)>> \in Tiling(end, size)
  BY <1>1, <1>2, ChunkMade
<1>4. lo <= b /\ b <= ChunkEnd(lo, size, end)
  BY <1>0, <1>1, <1>2 DEF ChunkEnd, Least
<1> QED BY <1>3, <1>4

(* A range that ends with a chunk has the chunks up to there.              *)
LEMMA TilingCut ==
  ASSUME NEW size \in Nat \ {0}, NEW end \in Nat, NEW e \in Tiling(end, size)
  PROVE  Tiling(e[2], size) = {c \in Tiling(end, size) : c[2] <= e[2]}
<1>1. /\ e[1] \in 1 .. end /\ e[2] \in Nat /\ e[2] <= end /\ e[1] <= e[2]
      /\ e[2] = ChunkEnd(e[1], size, end)
  BY ChunkShape
<1>2. PICK cut \in Nat : cut = e[2]
  BY <1>1
<1>3. ASSUME NEW c \in Tiling(cut, size) PROVE c \in Tiling(end, size) /\ c[2] <= cut
  <2>1. /\ c = <<c[1], c[2]>> /\ c[1] \in 1 .. cut /\ (c[1] - 1) % size = 0
        /\ c[2] = ChunkEnd(c[1], size, cut) /\ c[2] <= cut
    BY ChunkShape
  <2>2. PICK lo \in 1 .. end : lo = c[1]
    BY <1>1, <1>2, <2>1
  <2>3. PICK d \in Tiling(end, size) : d = <<lo, ChunkEnd(lo, size, end)>>
    BY <2>1, <2>2, ChunkMade
  <2>4. d[1] = lo /\ d[2] = ChunkEnd(lo, size, end) /\ d[2] \in Nat
    BY <2>3, ChunkShape
  <2>5. d[2] <= cut
    <3>1. CASE d[1] < e[1]
      BY <1>1, <1>2, <2>4, <3>1, ChunksApart
    <3>2. CASE d[1] = e[1]
      BY <1>1, <1>2, <2>4, <3>2
    <3>3. CASE e[1] < d[1]
      <4>1. e[2] < d[1]
        BY <3>3, ChunksApart
      <4> QED BY <1>2, <2>1, <2>2, <2>4, <4>1
    <3> QED BY <1>1, <2>2, <2>4, <3>1, <3>2, <3>3
  <2>6. ChunkEnd(lo, size, end) = ChunkEnd(lo, size, cut)
    BY <1>1, <1>2, <2>4, <2>5 DEF ChunkEnd, Least
  <2> QED BY <2>1, <2>2, <2>3, <2>6
<1>4. ASSUME NEW c \in Tiling(end, size), c[2] <= cut PROVE c \in Tiling(cut, size)
  <2>1. /\ c = <<c[1], c[2]>> /\ c[1] \in 1 .. end /\ (c[1] - 1) % size = 0
        /\ c[2] = ChunkEnd(c[1], size, end) /\ c[2] \in Nat /\ c[1] <= c[2]
    BY ChunkShape
  <2>2. PICK lo \in 1 .. cut : lo = c[1]
    BY <1>1, <1>2, <1>4, <2>1
  <2>3. <<lo, ChunkEnd(lo, size, cut)>> \in Tiling(cut, size)
    BY <2>1, <2>2, ChunkMade
  <2>4. ChunkEnd(lo, size, cut) = ChunkEnd(lo, size, end)
    BY <1>1, <1>2, <1>4, <2>1, <2>2 DEF ChunkEnd, Least
  <2> QED BY <2>1, <2>2, <2>3, <2>4
<1> QED BY <1>2, <1>3, <1>4

(* The jobs of every plan end with a chunk of the whole range.             *)
LEMMA JobEndIsChunkEnd ==
  ASSUME NEW t \in Plans, JobEnd[t] > 0
  PROVE  \E c \in Tiling(Cutoff, t.size) : c[2] = JobEnd[t]
<1> DEFINE kept == {c \in Tiling(Cutoff, t.size) : c[2] <= t.bound /\ c[1] <= t.chunks * t.size}
           ends == {c[2] : c \in kept}
           gaps == {Cutoff - x : x \in ends}
<1>1. JobEnd[t] = IF kept = {} THEN 0 ELSE CHOOSE e \in ends : \A c \in kept : c[2] <= e
  BY DEF JobEnd, AlignedEnd
<1>2. t.size \in Nat \ {0} /\ Cutoff \in Nat
  BY IngestAssumption
<1>3. \A x \in ends : x \in Nat /\ x <= Cutoff
  BY <1>2, ChunkShape
<1>4. kept # {}
  BY <1>1
<1>5. \E e \in ends : \A c \in kept : c[2] <= e
  <2>1. gaps \subseteq Nat /\ gaps # {}
    <3>1. \A x \in ends : Cutoff - x \in Nat
      BY <1>2, <1>3
    <3>2. PICK c \in kept : TRUE
      BY <1>4
    <3>3. Cutoff - c[2] \in gaps
      OBVIOUS
    <3> QED BY <3>1, <3>3
  <2>2. PICK g \in gaps : \A h \in gaps : g <= h
    BY <2>1, LeastNumber
  <2>3. PICK e \in ends : g = Cutoff - e
    BY <2>2
  <2>4. ASSUME NEW c \in kept PROVE c[2] <= e
    <3>1. c[2] \in ends /\ Cutoff - c[2] \in gaps
      OBVIOUS
    <3>2. Cutoff - e <= Cutoff - c[2]
      BY <2>2, <2>3, <3>1
    <3>3. e \in Nat /\ c[2] \in Nat
      BY <1>3, <2>3, <3>1
    <3> QED BY <1>2, <3>2, <3>3
  <2> QED BY <2>3, <2>4
<1>6. JobEnd[t] \in ends
  BY <1>1, <1>4, <1>5
<1> QED BY <1>6

(* The chunks of a job are the chunks of the whole range as far as it      *)
(* goes, whichever plan it is of.                                          *)
LEMMA JobTilingIsGrid ==
  ASSUME OneSize, NEW t \in Plans, JobEnd[t] > 0
  PROVE  /\ JobTiling[t] = {c \in Grid : c[2] <= JobEnd[t]}
         /\ JobTiling[t] = Tiling(JobEnd[t], t.size)
         /\ \E c \in Grid : c[2] = JobEnd[t]
         /\ t.size = Production.size
<1>1. t.size = Production.size /\ t.size \in Nat \ {0} /\ Cutoff \in Nat
  BY IngestAssumption DEF OneSize
<1>2. PICK e \in Tiling(Cutoff, t.size) : e[2] = JobEnd[t]
  BY JobEndIsChunkEnd
<1>3. JobTiling[t] = Tiling(e[2], t.size)
  BY <1>2 DEF JobTiling
<1> QED BY <1>1, <1>2, <1>3, TilingCut DEF Grid

(* The chunks of the whole range are told apart by their first block.      *)
LEMMA GridFacts ==
  ASSUME NEW c \in Grid
  PROVE  /\ c = <<c[1], c[2]>> /\ c[1] \in Nat \ {0} /\ c[2] \in Nat
         /\ c[1] <= c[2] /\ c[2] <= Cutoff
         /\ \A d \in Grid : c[1] < d[1] => c[2] < d[1]
         /\ \A d \in Grid : c[1] = d[1] => c = d
<1>1. Production.size \in Nat \ {0} /\ Cutoff \in Nat
  BY IngestAssumption
<1>2. /\ c = <<c[1], c[2]>> /\ c[1] \in 1 .. Cutoff /\ c[2] \in Nat
      /\ c[1] <= c[2] /\ c[2] <= Cutoff /\ c[2] = ChunkEnd(c[1], Production.size, Cutoff)
  BY <1>1, ChunkShape DEF Grid
<1>3. ASSUME NEW d \in Grid, c[1] < d[1] PROVE c[2] < d[1]
  BY <1>1, <1>3, ChunksApart DEF Grid
<1>4. ASSUME NEW d \in Grid, c[1] = d[1] PROVE c = d
  <2>1. d = <<d[1], d[2]>> /\ d[2] = ChunkEnd(d[1], Production.size, Cutoff)
    BY <1>1, ChunkShape DEF Grid
  <2> QED BY <1>2, <1>4, <2>1
<1>5. c[1] \in Nat \ {0}
  BY <1>2
<1> QED BY <1>2, <1>3, <1>4, <1>5

(* How a run walks the chunks of a job: the first chunk, ...               *)
LEMMA WalkBegins ==
  ASSUME OneSize, NEW t \in Plans, JobEnd[t] > 0
  PROVE  /\ JobEnd[t] \in Nat \ {0}
         /\ <<1, ChunkEnd(1, t.size, JobEnd[t])>> \in JobTiling[t]
         /\ \A c \in JobTiling[t] : c \in Grid /\ ~(c[1] < 1)
<1>1. t.size \in Nat \ {0}
  BY IngestAssumption
<1>2. JobEnd[t] \in Nat \ {0}
  BY JobTilingIsGrid, GridFacts
<1>3. PICK end \in Nat \ {0} : end = JobEnd[t]
  BY <1>2
<1>4. PICK lo \in 1 .. end : lo = 1 /\ lo - 1 = 0
  BY <1>3
<1>5. 0 % t.size = 0
  BY <1>1
<1>6. <<lo, ChunkEnd(lo, t.size, end)>> \in Tiling(end, t.size)
  BY <1>1, <1>3, <1>4, <1>5, ChunkMade
<1>7. ASSUME NEW c \in JobTiling[t] PROVE c \in Grid /\ ~(c[1] < 1)
  <2>1. c \in Grid
    BY JobTilingIsGrid
  <2> QED BY <2>1, GridFacts
<1> QED BY <1>2, <1>3, <1>4, <1>6, <1>7, JobTilingIsGrid

(* ... from one chunk to the next, and the last one.                       *)
LEMMA WalkGoesOn ==
  ASSUME OneSize, NEW t \in Plans, JobEnd[t] > 0, NEW c \in JobTiling[t]
  PROVE  /\ c[2] < JobEnd[t] =>
              /\ c[2] + 1 \in Nat
              /\ <<c[2] + 1, ChunkEnd(c[2] + 1, t.size, JobEnd[t])>> \in JobTiling[t]
              /\ \A d \in JobTiling[t] : d[1] < c[2] + 1 => d = c \/ d[1] < c[1]
         /\ ~(c[2] < JobEnd[t]) => \A d \in JobTiling[t] : d = c \/ d[1] < c[1]
<1>1. t.size \in Nat \ {0}
  BY IngestAssumption
<1>2. PICK end \in Nat \ {0} : end = JobEnd[t]
  BY WalkBegins
<1>3. c \in Tiling(end, t.size)
  BY <1>2, JobTilingIsGrid
<1>4. c \in Grid /\ c[1] \in Nat \ {0} /\ c[2] \in Nat /\ c[1] <= c[2] /\ c[2] <= end
  BY <1>2, JobTilingIsGrid, GridFacts
<1>5. ASSUME c[2] < end
      PROVE  <<c[2] + 1, ChunkEnd(c[2] + 1, t.size, end)>> \in Tiling(end, t.size)
  BY <1>1, <1>2, <1>3, <1>5, ChunkNext
<1>6. ASSUME NEW d \in JobTiling[t]
      PROVE  d[1] < c[2] + 1 \/ ~(c[2] < end) => d = c \/ d[1] < c[1]
  <2>1. /\ d \in Grid /\ d[1] \in Nat \ {0} /\ d[2] \in Nat /\ d[1] <= d[2] /\ d[2] <= end
    BY <1>2, JobTilingIsGrid, GridFacts
  <2>2. c[1] < d[1] => c[2] < d[1]
    BY <1>4, <2>1, GridFacts
  <2>3. c[1] = d[1] => d = c
    BY <1>4, <2>1, GridFacts
  <2> QED BY <1>4, <2>1, <2>2, <2>3
<1>7. JobTiling[t] = Tiling(end, t.size)
  BY <1>2, JobTilingIsGrid
<1> QED BY <1>2, <1>4, <1>5, <1>6, <1>7

(* The chunks of a job leave no block out.                                 *)
LEMMA WalkCovers ==
  ASSUME OneSize, NEW t \in Plans, JobEnd[t] > 0
  PROVE  /\ \A c \in JobTiling[t] : c[1] # 1 => \E b \in JobTiling[t] : b[2] = c[1] - 1
         /\ \A b \in 1 .. JobEnd[t] : \E c \in JobTiling[t] : c[1] <= b /\ b <= c[2]
         /\ \E c \in JobTiling[t] : c[2] = JobEnd[t]
<1>1. t.size \in Nat \ {0}
  BY IngestAssumption
<1>2. PICK end \in Nat \ {0} : end = JobEnd[t]
  BY WalkBegins
<1>3. JobTiling[t] = Tiling(end, t.size)
  BY <1>2, JobTilingIsGrid
<1>4. ASSUME NEW c \in Tiling(end, t.size), c[1] # 1
      PROVE  \E b \in Tiling(end, t.size) : b[2] = c[1] - 1
  BY <1>1, <1>4, ChunkBefore
<1>5. ASSUME NEW b \in 1 .. end PROVE \E c \in Tiling(end, t.size) : c[1] <= b /\ b <= c[2]
  BY <1>1, ChunkOf
<1>6. PICK c \in Grid : c[2] = end
  BY <1>2, JobTilingIsGrid
<1>7. c \in JobTiling[t]
  BY <1>2, <1>6, JobTilingIsGrid
<1> QED BY <1>2, <1>3, <1>4, <1>5, <1>6, <1>7
-----------------------------------------------------------------------------
(* What runs carry *)

(* The source that is read first is one, and one source omits nothing.     *)
LEMMA TwoSources ==
  ASSUME NEW x \in Source
  PROVE  Primary \in Source /\ \E s \in Source : s # x
<1>1. Primary \in Source
  BY DEF Primary
<1>2. ASSUME \A s \in Source : s = x PROVE FALSE
  <2>1. Source = {x}
    BY <1>2
  <2>2. Cardinality({x}) = 1
    BY FS_Singleton
  <2> QED BY <2>1, <2>2, IngestAssumption
<1> QED BY <1>1, <1>2

(* The job at hand.                                                        *)
LEMMA JobAtHand ==
  ASSUME NEW jobs \in SUBSET (DOMAIN Kinds), jobs # {}
  PROVE  First(jobs) \in jobs
<1>1. jobs \subseteq Nat
  BY IngestAssumption
<1>2. \E i \in jobs : \A j \in jobs : i <= j
  BY <1>1, LeastNumber
<1> QED BY <1>2 DEF First

(* Blocks before the split are the first side's on both sources.           *)
LEMMA FullLogs ==
  ASSUME IngestTypes, NEW s \in Source, NEW kind, NEW lo \in Nat, NEW hi \in Nat
  PROVE  /\ LogsOf(s, kind, lo, hi) \in SUBSET (Nat \X {0, 1})
         /\ Faithful(kind, lo, hi, LogsOf(s, kind, lo, hi))
<1>1. split \in Nat
  BY IngestAssumption DEF IngestTypes
<1>2. ASSUME NEW b \in lo .. hi
      PROVE  b \in Nat /\ Side(s, b) \in {0, 1} /\ (b < split => Side(s, b) = 0)
  BY <1>1 DEF Side
<1>3. ASSUME NEW x \in LogsOf(s, kind, lo, hi)
      PROVE  \E b \in lo .. hi : x = <<b, Side(s, b)>> /\ <<kind, b, Side(s, b)>> \in Logged
  BY DEF LogsOf
<1>4. ASSUME NEW b \in lo .. hi, <<kind, b, Side(s, b)>> \in Logged
      PROVE  <<b, Side(s, b)>> \in LogsOf(s, kind, lo, hi)
  BY <1>4 DEF LogsOf
<1>5. LogsOf(s, kind, lo, hi) \in SUBSET (Nat \X {0, 1})
  <2>1. ASSUME NEW x \in LogsOf(s, kind, lo, hi) PROVE x \in Nat \X {0, 1}
    <3>1. PICK b \in lo .. hi : x = <<b, Side(s, b)>>
      BY <1>3
    <3>2. b \in Nat /\ Side(s, b) \in {0, 1}
      BY <1>2
    <3> QED BY <3>1, <3>2
  <2> QED BY <2>1
<1>6. ASSUME NEW x \in LogsOf(s, kind, lo, hi), x[1] < split
      PROVE  \E b \in lo .. hi : x = <<b, 0>> /\ b < split /\ <<kind, b, 0>> \in Logged
  <2>1. PICK b \in lo .. hi : x = <<b, Side(s, b)>> /\ <<kind, b, Side(s, b)>> \in Logged
    BY <1>3
  <2>2. x[1] = b
    BY <2>1
  <2>3. Side(s, b) = 0 /\ b < split
    BY <1>2, <1>6, <2>2
  <2> QED BY <2>1, <2>3
<1>7. ASSUME NEW b \in lo .. hi, b < split, <<kind, b, 0>> \in Logged
      PROVE  <<b, 0>> \in LogsOf(s, kind, lo, hi)
  BY <1>2, <1>4, <1>7
<1> DEFINE logs == LogsOf(s, kind, lo, hi)
           settled == {c \in lo .. hi : c < split /\ <<kind, c, 0>> \in Logged}
<1>8. {x \in logs : x[1] < split} \subseteq {<<b, 0>> : b \in settled}
  BY <1>6
<1>9. ASSUME NEW b \in settled PROVE <<b, 0>> \in {x \in logs : x[1] < split}
  <2>1. <<b, 0>> \in logs /\ b < split
    BY <1>7
  <2> QED BY <2>1
<1> QED BY <1>5, <1>8, <1>9 DEF Faithful

(* What is said of a header is one of the two sides.                       *)
LEMMA HeaderSides ==
  ASSUME IngestTypes, NEW p \in Orchestrator, NEW s, NEW b
  PROVE  HeaderSide(p, s, b) \in {0, 1}
<1>1. work[p] \in OrchestratorRun
  BY DEF IngestTypes
<1>2. work[p].last \in {0, 1} /\ work[p].cache \subseteq Source \X Nat \X {0, 1}
  BY <1>1 DEF OrchestratorRun
<1>3. Side(s, b) \in {0, 1}
  BY DEF Side
<1>4. ASSUME Cached(p, s, b) # {} PROVE (CHOOSE x \in Cached(p, s, b) : TRUE)[3] \in {0, 1}
  <2>1. PICK x \in Cached(p, s, b) : x = CHOOSE y \in Cached(p, s, b) : TRUE
    BY <1>4
  <2>2. x \in Source \X Nat \X {0, 1}
    BY <1>2, <2>1 DEF Cached
  <2> QED BY <2>1, <2>2
<1> QED BY <1>2, <1>3, <1>4 DEF HeaderSide

(* The chunk at hand is one of the job's, and of the whole range's.        *)
LEMMA ChunkAtHand ==
  ASSUME OneSize, IngestInv, NEW p \in Orchestrator, Pc(p) # "off"
  PROVE  /\ work[p].plan \in Plans /\ JobEnd[work[p].plan] > 0
         /\ work[p].lo \in Nat /\ Hi(p) \in Nat
         /\ <<work[p].lo, Hi(p)>> \in JobTiling[work[p].plan]
         /\ <<work[p].lo, Hi(p)>> \in Grid
         /\ First(work[p].jobs) \in work[p].jobs
<1>1. work[p] \in OrchestratorRun
  BY DEF IngestInv, IngestTypes
<1>2. work[p].plan \in Plans /\ work[p].lo \in Nat /\ work[p].jobs \in SUBSET (DOMAIN Kinds)
  BY <1>1 DEF OrchestratorRun
<1>3. /\ JobEnd[work[p].plan] > 0 /\ work[p].jobs # {}
      /\ <<work[p].lo, Hi(p)>> \in JobTiling[work[p].plan]
  BY DEF IngestInv, Standing
<1>4. <<work[p].lo, Hi(p)>> \in Grid
  BY <1>2, <1>3, JobTilingIsGrid
<1>5. Hi(p) \in Nat
  BY <1>4, GridFacts
<1> QED BY <1>2, <1>3, <1>4, <1>5, JobAtHand

-----------------------------------------------------------------------------
(* Steps *)

(* Receipts stay.                                                          *)
LEMMA ReceiptsStay ==
  ASSUME stored \subseteq stored', NEW kind
  PROVE  StoredRanges(kind) \subseteq StoredRanges(kind)'
BY DEF StoredRanges

(* So a run that takes no step stays where it stands.                      *)
LEMMA StandsStill ==
  ASSUME stored \subseteq stored', split' = split,
         NEW q, Standing(q), work'[q] = work[q]
  PROVE  Standing(q)'
<1>1. Pc(q)' = Pc(q) /\ Hi(q)' = Hi(q) /\ Job(q)' = Job(q)
  BY DEF Pc, Hi, Job
<1>2. PICK kind \in {Job(q)} : TRUE
  OBVIOUS
<1>3. StoredRanges(Job(q)) = StoredRanges(kind) /\ StoredRanges(Job(q))' = StoredRanges(kind)'
  BY <1>1, <1>2 DEF StoredRanges
<1>4. StoredRanges(kind) \subseteq StoredRanges(kind)'
  BY ReceiptsStay
<1>5. Faithful(Job(q), work[q].lo, Hi(q), work[q].logs)' =
      Faithful(Job(q), work[q].lo, Hi(q), work[q].logs)
  BY <1>1 DEF Faithful
<1> QED BY <1>1, <1>3, <1>4, <1>5 DEF Standing

(* What was done stays done.                                               *)
LEMMA DoneStays ==
  ASSUME stored \subseteq stored', reported' = reported, Done
  PROVE  Done'
BY ReceiptsStay DEF Done, Complete

(* A step that writes no receipt keeps the receipts in order.              *)
LEMMA ReceiptsKept ==
  ASSUME Receipts, stored' = stored, split' = split
  PROVE  Receipts'
<1>1. ASSUME NEW r \in stored
      PROVE  Verified(r)' = Verified(r) /\ Decodes(r)' = Decodes(r)
  BY DEF Verified, Decodes, Blocks
<1>2. ASSUME NEW r \in stored
      PROVE  Faithful(r.kind, r.lo, r.hi, r.logs)' = Faithful(r.kind, r.lo, r.hi, r.logs)
  BY DEF Faithful
<1> QED BY <1>1, <1>2 DEF Receipts

(* A run that quits stands nowhere.                                        *)
LEMMA QuitStands ==
  ASSUME OneSize, IngestInv, NEW p \in Orchestrator, Quits(p), split' = split,
         stored \subseteq stored'
  PROVE  /\ work' \in [Orchestrator -> OrchestratorRun]
         /\ \A q \in Orchestrator : Standing(q)'
<1>1. Off \in OrchestratorRun /\ Off.pc = "off"
  BY IngestAssumption DEF Off, OrchestratorRun
<1>2. work \in [Orchestrator -> OrchestratorRun]
  BY DEF IngestInv, IngestTypes
<1>3. work' \in [Orchestrator -> OrchestratorRun] /\ work'[p] = Off
  BY <1>1, <1>2 DEF Quits, Becomes
<1>4. ASSUME NEW q \in Orchestrator PROVE Standing(q)'
  <2>1. CASE q = p
    BY <1>1, <1>3, <2>1 DEF Standing, Pc
  <2>2. CASE q # p
    <3>1. work'[q] = work[q]
      BY <1>2, <2>2 DEF Quits, Becomes
    <3> QED BY <3>1, StandsStill DEF IngestInv
  <2> QED BY <2>1, <2>2
<1> QED BY <1>3, <1>4

(* Behind a chunk with a receipt the run stands at the next one, or the    *)
(* job is done.                                                            *)
LEMMA OnwardStands ==
  ASSUME OneSize, IngestInv, NEW p \in Orchestrator, Pc(p) # "off", Onward(p),
         split' = split, stored \subseteq stored',
         \E r \in stored' : r.kind = Job(p) /\ r.lo = work[p].lo /\ r.hi = Hi(p)
  PROVE  /\ work' \in [Orchestrator -> OrchestratorRun]
         /\ \A q \in Orchestrator : Standing(q)'
         /\ Done'
<1> DEFINE w == work[p]
           rest == w.jobs \ {First(w.jobs)}
           fresh == [w EXCEPT !.pc = "chunk", !.logs = {}, !.last = 0, !.headers = {}]
           step == [fresh EXCEPT !.lo = Hi(p) + 1]
           begin == [fresh EXCEPT !.jobs = rest, !.lo = 1]
           chunk == <<w.lo, Hi(p)>>
<1>1. PICK t \in Plans : t = w.plan
  BY ChunkAtHand
<1> DEFINE end == JobEnd[t]
<1>2. /\ t \in Plans /\ end > 0 /\ w.lo \in Nat /\ Hi(p) \in Nat
      /\ chunk \in JobTiling[t] /\ First(w.jobs) \in w.jobs
      /\ chunk[1] = w.lo /\ chunk[2] = Hi(p)
  BY <1>1, ChunkAtHand
<1>3. /\ w \in OrchestratorRun /\ work \in [Orchestrator -> OrchestratorRun]
      /\ w.jobs \in SUBSET (DOMAIN Kinds)
  BY DEF IngestInv, IngestTypes, OrchestratorRun
<1>4. fresh \in OrchestratorRun
  BY <1>3 DEF OrchestratorRun
<1>5. PICK kind \in {Job(p)} : TRUE
  OBVIOUS
<1>6. \A d \in JobTiling[t] : d = chunk \/ d[1] < w.lo => d \in StoredRanges(kind)'
  <2>1. chunk \in StoredRanges(kind)'
    BY <1>5 DEF StoredRanges
  <2>2. \A d \in JobTiling[t] : d[1] < w.lo => d \in StoredRanges(kind)
    BY <1>1, <1>5 DEF IngestInv, Standing
  <2>3. StoredRanges(kind) \subseteq StoredRanges(kind)'
    BY ReceiptsStay
  <2> QED BY <2>1, <2>2, <2>3
<1>7. ASSUME NEW q \in Orchestrator, q # p, NEW rec, Becomes(p, rec) PROVE Standing(q)'
  <2>1. work'[q] = work[q]
    BY <1>3, <1>7 DEF Becomes
  <2> QED BY <2>1, StandsStill DEF IngestInv
<1>8. CASE Hi(p) < end
  <2>1. Becomes(p, step) /\ reported' = reported
    BY <1>1, <1>8 DEF Onward
  <2>2. step \in OrchestratorRun
    <3>1. Hi(p) + 1 \in Nat
      BY <1>2
    <3> HIDE DEF fresh
    <3> QED BY <1>4, <3>1 DEF OrchestratorRun
  <2>3. work' \in [Orchestrator -> OrchestratorRun] /\ work'[p] = step
    BY <1>3, <2>1, <2>2 DEF Becomes
  <2>4. /\ step.pc = "chunk" /\ step.plan = t /\ step.jobs = w.jobs /\ step.lo = Hi(p) + 1
    BY <1>1, <1>3 DEF OrchestratorRun
  <2>5. /\ Pc(p)' = "chunk" /\ work'[p].plan = t /\ work'[p].jobs = w.jobs
        /\ work'[p].lo = Hi(p) + 1 /\ Job(p)' = kind
        /\ Hi(p)' = ChunkEnd(Hi(p) + 1, t.size, end)
    BY <1>5, <2>3, <2>4 DEF Pc, Job, Hi
  <2>6. /\ <<Hi(p) + 1, ChunkEnd(Hi(p) + 1, t.size, end)>> \in JobTiling[t]
        /\ \A d \in JobTiling[t] : d[1] < Hi(p) + 1 => d = chunk \/ d[1] < w.lo
    BY <1>2, <1>8, WalkGoesOn
  <2>7. StoredRanges(Job(p))' = StoredRanges(kind)'
    BY <2>5 DEF StoredRanges
  <2>8. Standing(p)'
    BY <1>2, <1>6, <2>5, <2>6, <2>7 DEF Standing
  <2>9. Done'
    BY <2>1, DoneStays DEF IngestInv
  <2> QED BY <1>7, <2>1, <2>3, <2>8, <2>9
<1>9. CASE ~(Hi(p) < end)
  <2>1. /\ reported' = reported \cup {[kind |-> kind, end |-> end]}
        /\ IF rest = {} THEN Quits(p) ELSE Becomes(p, begin)
    BY <1>1, <1>5, <1>9 DEF Onward
  <2>2. Complete(kind, t)'
    <3>1. \A d \in JobTiling[t] : d = chunk \/ d[1] < w.lo
      BY <1>2, <1>9, WalkGoesOn
    <3> QED BY <1>6, <3>1 DEF Complete
  <2>3. Done'
    <3>1. ASSUME NEW d \in reported'
          PROVE  \E u \in Plans : JobEnd[u] > 0 /\ d.end = JobEnd[u] /\ Complete(d.kind, u)'
      <4>1. CASE d \in reported
        <5>1. PICK u \in Plans : JobEnd[u] > 0 /\ d.end = JobEnd[u] /\ Complete(d.kind, u)
          BY <4>1 DEF IngestInv, Done
        <5>2. Complete(d.kind, u)'
          BY <5>1, ReceiptsStay DEF Complete
        <5> QED BY <5>1, <5>2
      <4>2. CASE d = [kind |-> kind, end |-> end]
        BY <1>2, <2>2, <4>2
      <4> QED BY <2>1, <4>1, <4>2
    <3> QED BY <3>1 DEF Done, Complete, StoredRanges
  <2>4. CASE rest = {}
    BY <2>1, <2>3, <2>4, QuitStands
  <2>5. CASE rest # {}
    <3>1. Becomes(p, begin)
      BY <2>1, <2>5
    <3>2. begin \in OrchestratorRun
      BY <1>3 DEF OrchestratorRun
    <3>3. work' \in [Orchestrator -> OrchestratorRun] /\ work'[p] = begin
      BY <1>3, <3>1, <3>2 DEF Becomes
    <3>4. begin.pc = "chunk" /\ begin.plan = t /\ begin.jobs = rest /\ begin.lo = 1
      BY <1>1, <1>3 DEF OrchestratorRun
    <3>5. /\ Pc(p)' = "chunk" /\ work'[p].plan = t /\ work'[p].jobs = rest
          /\ work'[p].lo = 1 /\ Hi(p)' = ChunkEnd(1, t.size, end)
      BY <3>3, <3>4 DEF Pc, Hi
    <3>6. /\ <<1, ChunkEnd(1, t.size, end)>> \in JobTiling[t]
          /\ \A d \in JobTiling[t] : ~(d[1] < 1)
      BY <1>2, WalkBegins
    <3>7. Standing(p)'
      BY <1>2, <2>5, <3>5, <3>6 DEF Standing
    <3> QED BY <1>7, <2>3, <3>1, <3>3, <3>7
  <2> QED BY <2>4, <2>5
<1> QED BY <1>8, <1>9

(* Before the first run.                                                  *)
LEMMA IngestBegins == IngestInit => IngestInv
<1> SUFFICES ASSUME IngestInit PROVE IngestInv
  OBVIOUS
<1>1. Off \in OrchestratorRun /\ Off.pc = "off"
  BY IngestAssumption DEF Off, OrchestratorRun
<1>2. IngestTypes
  BY <1>1 DEF IngestInit, IngestTypes
<1>3. Receipts /\ Done
  BY DEF IngestInit, Receipts, Done
<1>4. ASSUME NEW p \in Orchestrator PROVE Standing(p)
  BY <1>1 DEF IngestInit, Standing, Pc
<1> QED BY <1>2, <1>3, <1>4 DEF IngestInv

(* A run that takes up another step at the chunk it stands at.             *)
LEMMA StepAtChunk ==
  ASSUME IngestInv, NEW p \in Orchestrator, Pc(p) # "off",
         NEW rec \in OrchestratorRun, Becomes(p, rec),
         rec.plan = work[p].plan, rec.jobs = work[p].jobs, rec.lo = work[p].lo,
         rec.pc \in {"end", "headers", "insert"} =>
           Faithful(Job(p), work[p].lo, Hi(p), rec.logs),
         rec.pc = "insert" => /\ rec.logs \subseteq rec.headers
                              /\ {h[1] : h \in rec.headers} = Blocks(rec.logs),
         split' = split, moved' \in SUBSET Source, lax' = lax, stored' = stored,
         reported' = reported
  PROVE  IngestInv'
<1>1. work \in [Orchestrator -> OrchestratorRun]
  BY DEF IngestInv, IngestTypes
<1>2. work' \in [Orchestrator -> OrchestratorRun] /\ work'[p] = rec
  BY <1>1 DEF Becomes
<1>3. IngestTypes'
  BY <1>2 DEF IngestInv, IngestTypes
<1>4. Receipts'
  BY ReceiptsKept DEF IngestInv
<1>5. Done'
  BY DoneStays DEF IngestInv
<1>6. ASSUME NEW q \in Orchestrator PROVE Standing(q)'
  <2>1. CASE q # p
    <3>1. work'[q] = work[q]
      BY <1>1, <2>1 DEF Becomes
    <3> QED BY <3>1, StandsStill DEF IngestInv
  <2>2. CASE q = p
    <3>1. /\ work'[p].plan = work[p].plan /\ work'[p].jobs = work[p].jobs
          /\ work'[p].lo = work[p].lo /\ Pc(p)' = rec.pc
          /\ Hi(p)' = Hi(p) /\ Job(p)' = Job(p)
      BY <1>2 DEF Pc, Hi, Job
    <3>2. StoredRanges(Job(p))' = StoredRanges(Job(p))
      BY <3>1 DEF StoredRanges
    <3>3. Pc(p)' \in {"end", "headers", "insert"} =>
            Faithful(Job(p), work[p].lo, Hi(p), work[p].logs)'
      BY <1>2, <3>1 DEF Faithful
    <3>4. Pc(p)' = "insert" => /\ work'[p].logs \subseteq work'[p].headers
                               /\ {h[1] : h \in work'[p].headers} = Blocks(work'[p].logs)
      BY <1>2, <3>1
    <3>5. Standing(p)
      BY DEF IngestInv
    <3>6. /\ JobEnd[work[p].plan] > 0 /\ work[p].jobs # {}
          /\ <<work[p].lo, Hi(p)>> \in JobTiling[work[p].plan]
          /\ \A c \in JobTiling[work[p].plan] : c[1] < work[p].lo => c \in StoredRanges(Job(p))
      BY <3>5 DEF Standing
    <3>7. Blocks(work[p].logs)' = Blocks(work'[p].logs)
      BY DEF Blocks
    <3> QED BY <2>2, <3>1, <3>2, <3>3, <3>4, <3>6, <3>7 DEF Standing
  <2> QED BY <2>1, <2>2
<1> QED BY <1>3, <1>4, <1>5, <1>6 DEF IngestInv

(* A run that quits leaves everything else as it is.                       *)
LEMMA StepQuits ==
  ASSUME OneSize, IngestInv, NEW p \in Orchestrator, Quits(p),
         split' = split, moved' = moved, lax' = lax, stored' = stored, reported' = reported
  PROVE  IngestInv'
<1>1. work' \in [Orchestrator -> OrchestratorRun] /\ \A q \in Orchestrator : Standing(q)'
  BY QuitStands
<1>2. IngestTypes'
  BY <1>1 DEF IngestInv, IngestTypes
<1>3. Receipts' /\ Done'
  BY ReceiptsKept, DoneStays DEF IngestInv
<1> QED BY <1>1, <1>2, <1>3 DEF IngestInv

(* The split is where it was, whoever follows.                             *)
LEMMA StepReorganise ==
  ASSUME IngestInv, NEW s \in Source, Reorganise(s)
  PROVE  IngestInv'
<1>1. /\ moved' \in SUBSET Source /\ split' = split /\ lax' = lax /\ stored' = stored
      /\ work' = work /\ reported' = reported
  BY DEF Reorganise, IngestInv, IngestTypes
<1>2. IngestTypes'
  BY <1>1 DEF IngestInv, IngestTypes
<1>3. Receipts' /\ Done'
  BY <1>1, ReceiptsKept, DoneStays DEF IngestInv
<1>4. ASSUME NEW p \in Orchestrator PROVE Standing(p)'
  BY <1>1, StandsStill DEF IngestInv
<1> QED BY <1>2, <1>3, <1>4 DEF IngestInv

(* A run is launched on the jobs that miss receipts; the others are done.  *)
LEMMA StepLaunch ==
  ASSUME OneSize, IngestInv, NEW p \in Orchestrator, NEW t \in Plans, Launch(p, t)
  PROVE  IngestInv'
<1> DEFINE jobs == {i \in DOMAIN Kinds : ~Complete(Kinds[i], t)}
           rec == [Off EXCEPT !.pc = "chunk", !.plan = t, !.jobs = jobs, !.lo = 1]
<1>1. /\ JobEnd[t] > 0 /\ split' = split /\ moved' = moved /\ lax' = lax /\ stored' = stored
      /\ reported' = reported \cup {[kind |-> Kinds[i], end |-> JobEnd[t]] :
                                      i \in (DOMAIN Kinds) \ jobs}
      /\ jobs = {} => work' = work
      /\ jobs # {} => Becomes(p, rec)
  BY DEF Launch
<1>2. Receipts'
  BY <1>1, ReceiptsKept DEF IngestInv
<1>3. Done'
  <2>1. ASSUME NEW kind, NEW u PROVE Complete(kind, u)' = Complete(kind, u)
    BY <1>1 DEF Complete, StoredRanges
  <2>2. ASSUME NEW d \in reported'
        PROVE  \E u \in Plans : JobEnd[u] > 0 /\ d.end = JobEnd[u] /\ Complete(d.kind, u)'
    <3>1. CASE d \in reported
      BY <2>1, <3>1 DEF IngestInv, Done
    <3>2. CASE d \notin reported
      <4>1. PICK i \in (DOMAIN Kinds) \ jobs : d = [kind |-> Kinds[i], end |-> JobEnd[t]]
        BY <1>1, <3>2
      <4>2. Complete(d.kind, t) /\ d.end = JobEnd[t]
        BY <4>1
      <4> QED BY <1>1, <2>1, <4>2
    <3> QED BY <3>1, <3>2
  <2> QED BY <2>2 DEF Done, Complete, StoredRanges
<1>4. work \in [Orchestrator -> OrchestratorRun]
  BY DEF IngestInv, IngestTypes
<1>5. CASE jobs = {}
  <2>1. IngestTypes'
    BY <1>1, <1>5 DEF IngestInv, IngestTypes
  <2>2. ASSUME NEW q \in Orchestrator PROVE Standing(q)'
    BY <1>1, <1>5, StandsStill DEF IngestInv
  <2> QED BY <1>2, <1>3, <2>1, <2>2 DEF IngestInv
<1>6. CASE jobs # {}
  <2>0. Off \in OrchestratorRun
    BY IngestAssumption DEF Off, OrchestratorRun
  <2>1. rec \in OrchestratorRun
    BY <2>0 DEF OrchestratorRun
  <2>2. rec.pc = "chunk" /\ rec.plan = t /\ rec.jobs = jobs /\ rec.lo = 1
    BY DEF Off
  <2>3. work' \in [Orchestrator -> OrchestratorRun] /\ work'[p] = rec
    BY <1>1, <1>4, <1>6, <2>1 DEF Becomes
  <2>4. IngestTypes'
    BY <1>1, <2>3 DEF IngestInv, IngestTypes
  <2>5. ASSUME NEW q \in Orchestrator PROVE Standing(q)'
    <3>1. CASE q # p
      <4>1. work'[q] = work[q]
        BY <1>1, <1>4, <1>6, <3>1 DEF Becomes
      <4> QED BY <1>1, <4>1, StandsStill DEF IngestInv
    <3>2. CASE q = p
      <4>1. /\ Pc(p)' = "chunk" /\ work'[p].plan = t /\ work'[p].jobs = jobs
            /\ work'[p].lo = 1 /\ Hi(p)' = ChunkEnd(1, t.size, JobEnd[t])
        BY <2>2, <2>3 DEF Pc, Hi
      <4>2. /\ <<1, ChunkEnd(1, t.size, JobEnd[t])>> \in JobTiling[t]
            /\ \A d \in JobTiling[t] : ~(d[1] < 1)
        BY <1>1, WalkBegins
      <4> QED BY <1>1, <1>6, <3>2, <4>1, <4>2 DEF Standing
    <3> QED BY <3>1, <3>2
  <2> QED BY <1>2, <1>3, <2>4, <2>5 DEF IngestInv
<1> QED BY <1>5, <1>6

(* A chunk that has its receipt.                                           *)
LEMMA StepResume ==
  ASSUME OneSize, IngestInv, NEW p \in Orchestrator, Resume(p)
  PROVE  IngestInv'
<1>1. /\ Pc(p) = "chunk" /\ Prior(p) # {}
      /\ split' = split /\ moved' = moved /\ lax' = lax /\ stored' = stored
      /\ Onward(p) \/ (Quits(p) /\ reported' = reported)
  BY DEF Resume
<1>2. CASE Onward(p)
  <2>1. \E r \in stored' : r.kind = Job(p) /\ r.lo = work[p].lo /\ r.hi = Hi(p)
    BY <1>1 DEF Prior
  <2>2. /\ work' \in [Orchestrator -> OrchestratorRun]
        /\ \A q \in Orchestrator : Standing(q)'
        /\ Done'
    BY <1>1, <1>2, <2>1, OnwardStands
  <2>3. IngestTypes'
    BY <1>1, <2>2 DEF IngestInv, IngestTypes
  <2>4. Receipts'
    BY <1>1, ReceiptsKept DEF IngestInv
  <2> QED BY <2>2, <2>3, <2>4 DEF IngestInv
<1>3. CASE Quits(p) /\ reported' = reported
  BY <1>1, <1>3, StepQuits
<1> QED BY <1>1, <1>2, <1>3

(* The sources agree on logs that one of them did not touch.               *)
LEMMA StepFetchLogs ==
  ASSUME OneSize, IngestInv, NEW p \in Orchestrator, FetchLogs(p)
  PROVE  IngestInv'
<1> DEFINE full == [s \in Source |-> LogsOf(s, Job(p), work[p].lo, Hi(p))]
<1>1. PICK part \in SUBSET full[lax] :
        LET got == [full EXCEPT ![lax] = part]
        IN  IF \A a, b \in Source : Reconciled(got[a], got[b])
            THEN Becomes(p, [work[p] EXCEPT !.pc = "end", !.logs = got[Primary]])
            ELSE Quits(p)
  BY DEF FetchLogs
<1>2. /\ Pc(p) = "chunk"
      /\ split' = split /\ moved' = moved /\ lax' = lax /\ stored' = stored /\ reported' = reported
  BY DEF FetchLogs
<1> DEFINE got == [full EXCEPT ![lax] = part]
<1>3. CASE \A a, b \in Source : Reconciled(got[a], got[b])
  <2>1. lax \in Source /\ IngestTypes /\ work[p] \in OrchestratorRun
    BY DEF IngestInv, IngestTypes
  <2>2. PICK s \in Source : s # lax
    BY <2>1, TwoSources
  <2>3. got[s] = LogsOf(s, Job(p), work[p].lo, Hi(p)) /\ Primary \in Source
    BY <2>1, <2>2, TwoSources
  <2>4. got[Primary] = LogsOf(s, Job(p), work[p].lo, Hi(p))
    BY <1>3, <2>3 DEF Reconciled
  <2>5. work[p].lo \in Nat /\ Hi(p) \in Nat
    BY <1>2, ChunkAtHand
  <2>6. PICK logs : logs = got[Primary]
    OBVIOUS
  <2>7. logs \in SUBSET (Nat \X {0, 1}) /\ Faithful(Job(p), work[p].lo, Hi(p), logs)
    BY <2>1, <2>4, <2>5, <2>6, FullLogs
  <2>8. PICK rec : rec = [work[p] EXCEPT !.pc = "end", !.logs = logs]
    OBVIOUS
  <2>9. rec \in OrchestratorRun
    BY <2>1, <2>7, <2>8 DEF OrchestratorRun
  <2>10. /\ rec.pc = "end" /\ rec.plan = work[p].plan /\ rec.jobs = work[p].jobs
         /\ rec.lo = work[p].lo /\ rec.logs = logs
    BY <2>1, <2>8 DEF OrchestratorRun
  <2>11. Becomes(p, rec)
    BY <1>1, <1>3, <2>6, <2>8
  <2>12. moved' \in SUBSET Source
    BY <1>2 DEF IngestInv, IngestTypes
  <2> QED BY <1>2, <2>7, <2>9, <2>10, <2>11, <2>12, StepAtChunk
<1>4. CASE ~\A a, b \in Source : Reconciled(got[a], got[b])
  BY <1>1, <1>2, <1>4, StepQuits
<1> QED BY <1>3, <1>4

(* The end header only tells the sides apart.                              *)
LEMMA StepFetchEnd ==
  ASSUME OneSize, IngestInv, NEW p \in Orchestrator, FetchEnd(p)
  PROVE  IngestInv'
<1>1. /\ Pc(p) = "end"
      /\ split' = split /\ moved' = moved /\ lax' = lax /\ stored' = stored /\ reported' = reported
      /\ \/ \E l \in {0, 1} : Becomes(p, [work[p] EXCEPT !.pc = "headers", !.last = l])
         \/ Quits(p)
  BY DEF FetchEnd
<1>2. ASSUME NEW l \in {0, 1}, Becomes(p, [work[p] EXCEPT !.pc = "headers", !.last = l])
      PROVE  IngestInv'
  <2>1. work[p] \in OrchestratorRun /\ moved' \in SUBSET Source
    BY <1>1 DEF IngestInv, IngestTypes
  <2>2. PICK rec : rec = [work[p] EXCEPT !.pc = "headers", !.last = l]
    OBVIOUS
  <2>3. rec \in OrchestratorRun
    BY <2>1, <2>2 DEF OrchestratorRun
  <2>4. /\ rec.pc = "headers" /\ rec.plan = work[p].plan /\ rec.jobs = work[p].jobs
        /\ rec.lo = work[p].lo /\ rec.logs = work[p].logs
    BY <2>1, <2>2 DEF OrchestratorRun
  <2>5. Faithful(Job(p), work[p].lo, Hi(p), rec.logs)
    BY <1>1, <2>4 DEF IngestInv, Standing
  <2> QED BY <1>1, <1>2, <2>1, <2>2, <2>3, <2>4, <2>5, StepAtChunk
<1>3. CASE Quits(p)
  BY <1>1, <1>3, StepQuits
<1> QED BY <1>1, <1>2, <1>3

(* The record of a run that has its headers.                               *)
Headed(w, hs, cs, rec) ==
  /\ rec = [w EXCEPT !.pc = "insert", !.headers = hs, !.cache = cs]
  /\ rec.pc = "insert" /\ rec.plan = w.plan /\ rec.jobs = w.jobs
  /\ rec.lo = w.lo /\ rec.logs = w.logs /\ rec.headers = hs

(* Headers, and headers kept with their source, of whatever run.           *)
Stamps == SUBSET (Nat \X {0, 1})
Caches == SUBSET (Source \X Nat \X {0, 1})

LEMMA HeadersTaken ==
  ASSUME NEW w \in OrchestratorRun, NEW hs \in Stamps, NEW cs \in Caches
  PROVE  \E rec \in OrchestratorRun : Headed(w, hs, cs, rec)
<1> DEFINE rec == [w EXCEPT !.pc = "insert", !.headers = hs, !.cache = cs]
<1>1. rec \in OrchestratorRun
  BY DEF OrchestratorRun, Stamps, Caches
<1>2. /\ rec.pc = "insert" /\ rec.plan = w.plan /\ rec.jobs = w.jobs
      /\ rec.lo = w.lo /\ rec.logs = w.logs /\ rec.headers = hs
  BY DEF OrchestratorRun
<1>3. Headed(w, hs, cs, rec)
  BY <1>2 DEF Headed
<1> QED BY <1>1, <1>3

(* Headers that agree are the logs' own.                                   *)
LEMMA StepFetchHeaders ==
  ASSUME OneSize, IngestInv, NEW p \in Orchestrator, FetchHeaders(p)
  PROVE  IngestInv'
<1> DEFINE w == work[p]
           seen == {<<s, b, HeaderSide(p, s, b)>> : s \in Source, b \in Blocks(w.logs) \cup {Hi(p)}}
           found == {<<b, HeaderSide(p, Primary, b)>> : b \in Blocks(w.logs)}
           kept == w.cache \cup {x \in seen : x[2] < Cutoff}
<1>1. /\ Pc(p) = "headers"
      /\ split' = split /\ moved' = moved /\ lax' = lax /\ stored' = stored /\ reported' = reported
      /\ IF HeadersAgree(p)
         THEN Becomes(p, [w EXCEPT !.pc = "insert", !.headers = found, !.cache = kept])
         ELSE Quits(p)
  BY DEF FetchHeaders
<1>2. CASE HeadersAgree(p)
  <2>1. w \in OrchestratorRun /\ moved' \in SUBSET Source /\ IngestTypes
    BY <1>1 DEF IngestInv, IngestTypes
  <2>2. w.logs \subseteq Nat \X {0, 1} /\ w.cache \subseteq Source \X Nat \X {0, 1}
    BY <2>1 DEF OrchestratorRun
  <2>3. Primary \in Source /\ Hi(p) \in Nat
    BY <1>1, <2>1, TwoSources, ChunkAtHand DEF IngestTypes
  <2>4. \A b \in Blocks(w.logs) : b \in Nat
    BY <2>2 DEF Blocks
  <2>5. \A s, b : HeaderSide(p, s, b) \in {0, 1}
    BY <2>1, HeaderSides
  <2>6. found \in SUBSET (Nat \X {0, 1})
    BY <2>4, <2>5
  <2>7. kept \in SUBSET (Source \X Nat \X {0, 1})
    <3>1. seen \subseteq Source \X Nat \X {0, 1}
      BY <2>3, <2>4, <2>5
    <3> HIDE DEF seen
    <3> QED BY <2>2, <3>1
  <2>8. w.logs \subseteq found
    <3>1. ASSUME NEW x \in w.logs PROVE x \in found
      <4>1. x = <<x[1], x[2]>> /\ x[1] \in Blocks(w.logs)
        BY <2>2 DEF Blocks
      <4>2. HeaderSide(p, Primary, x[1]) = x[2]
        BY <1>2, <2>3 DEF HeadersAgree
      <4> QED BY <4>1, <4>2
    <3> QED BY <3>1
  <2>9. {h[1] : h \in found} = Blocks(w.logs)
    <3>1. ASSUME NEW h \in found PROVE h[1] \in Blocks(w.logs)
      OBVIOUS
    <3>2. ASSUME NEW b \in Blocks(w.logs) PROVE \E h \in found : h[1] = b
      <4>1. <<b, HeaderSide(p, Primary, b)>> \in found
        OBVIOUS
      <4> QED BY <4>1
    <3> HIDE DEF found
    <3> QED BY <3>1, <3>2
  <2>10. PICK hs \in {found}, cs \in {kept} : TRUE
    OBVIOUS
  <2>11. hs = found /\ cs = kept
    BY <2>10
  <2>12. hs \in Stamps /\ cs \in Caches
    BY <2>6, <2>7, <2>11 DEF Stamps, Caches
  <2>13. PICK v \in OrchestratorRun : v = w
    BY <2>1
  <2>14. PICK rec \in OrchestratorRun : Headed(v, hs, cs, rec)
    BY <2>12, HeadersTaken
  <2>15. /\ rec = [w EXCEPT !.pc = "insert", !.headers = hs, !.cache = cs]
         /\ rec.pc = "insert" /\ rec.plan = w.plan /\ rec.jobs = w.jobs
         /\ rec.lo = w.lo /\ rec.logs = w.logs /\ rec.headers = hs
    BY <2>13, <2>14 DEF Headed
  <2>16. Faithful(Job(p), w.lo, Hi(p), rec.logs)
    <3>1. Standing(p)
      BY DEF IngestInv
    <3>2. Faithful(Job(p), w.lo, Hi(p), w.logs)
      BY <1>1, <3>1 DEF Standing
    <3>3. rec.logs = w.logs
      BY <2>15
    <3> QED BY <3>2, <3>3
  <2>17. rec.logs \subseteq rec.headers /\ {h[1] : h \in rec.headers} = Blocks(rec.logs)
    BY <2>8, <2>9, <2>11, <2>15
  <2>18. Becomes(p, rec)
    BY <1>1, <1>2, <2>11, <2>15
  <2> HIDE DEF found, kept, seen
  <2> QED BY <1>1, <2>1, <2>14, <2>15, <2>16, <2>17, <2>18, StepAtChunk
<1>3. CASE ~HeadersAgree(p)
  BY <1>1, <1>3, StepQuits
<1> QED BY <1>2, <1>3

(* A receipt is written where the range had none of its kind.              *)
LEMMA StepInsert ==
  ASSUME OneSize, IngestInv, NEW p \in Orchestrator, Insert(p)
  PROVE  IngestInv'
<1> DEFINE w == work[p]
<1>1. /\ Pc(p) = "insert"
      /\ split' = split /\ moved' = moved /\ lax' = lax
  BY DEF Insert
<1>2. CASE Prior(p) = {}
  <2>1. PICK new : new = [kind |-> Job(p), lo |-> w.lo, hi |-> Hi(p), logs |-> w.logs,
                          last |-> w.last, headers |-> w.headers]
    OBVIOUS
  <2>2. stored' = stored \cup {new} /\ Onward(p)
    BY <1>2, <2>1 DEF Insert
  <2>3. /\ new.kind = Job(p) /\ new.lo = w.lo /\ new.hi = Hi(p) /\ new.logs = w.logs
        /\ new.headers = w.headers
    BY <2>1
  <2>4. /\ work' \in [Orchestrator -> OrchestratorRun]
        /\ \A q \in Orchestrator : Standing(q)'
        /\ Done'
    <3>1. \E r \in stored' : r.kind = Job(p) /\ r.lo = w.lo /\ r.hi = Hi(p)
      BY <2>2, <2>3
    <3> QED BY <1>1, <2>2, <3>1, OnwardStands
  <2>5. IngestTypes'
    BY <1>1, <2>4 DEF IngestInv, IngestTypes
  <2>6. /\ <<new.lo, new.hi>> \in Grid /\ <<new.lo, new.hi>>[1] = new.lo
        /\ <<new.lo, new.hi>>[2] = new.hi
    BY <1>1, <2>3, ChunkAtHand
  <2>7. /\ Faithful(new.kind, new.lo, new.hi, new.logs)
        /\ new.logs \subseteq new.headers
        /\ {h[1] : h \in new.headers} = Blocks(new.logs)
    BY <1>1, <2>3 DEF IngestInv, Standing
  <2>8. ASSUME NEW r \in stored'
        PROVE  /\ <<r.lo, r.hi>> \in Grid
               /\ {h[1] : h \in r.headers} = Blocks(r.logs)
               /\ r.logs \subseteq r.headers
               /\ Faithful(r.kind, r.lo, r.hi, r.logs)
    BY <2>2, <2>6, <2>7 DEF IngestInv, Receipts, Verified, Decodes
  <2>9. ASSUME NEW r \in stored, r.kind = new.kind, r.lo = new.lo PROVE FALSE
    <3>1. <<r.lo, r.hi>> \in Grid /\ <<r.lo, r.hi>>[1] = r.lo /\ <<r.lo, r.hi>>[2] = r.hi
      BY DEF IngestInv, Receipts
    <3>2. <<r.lo, r.hi>> = <<new.lo, new.hi>>
      BY <2>6, <2>9, <3>1, GridFacts
    <3>3. r.hi = new.hi
      BY <2>6, <3>1, <3>2
    <3> QED BY <1>2, <2>3, <2>9, <3>3 DEF Prior
  <2>10. \A r \in stored', q \in stored' : r.kind = q.kind /\ r.lo = q.lo => r = q
    BY <2>2, <2>9 DEF IngestInv, Receipts
  <2>11. ASSUME NEW r
         PROVE  /\ Faithful(r.kind, r.lo, r.hi, r.logs)' = Faithful(r.kind, r.lo, r.hi, r.logs)
                /\ Verified(r)' = ({h[1] : h \in r.headers} = Blocks(r.logs))
                /\ Decodes(r)' = (r.logs \subseteq r.headers)
    BY <1>1 DEF Faithful, Verified, Decodes, Blocks
  <2>12. Receipts'
    BY <2>8, <2>10, <2>11 DEF Receipts
  <2> QED BY <2>4, <2>5, <2>12 DEF IngestInv
<1>3. CASE Prior(p) # {}
  <2>1. Quits(p) /\ stored' = stored /\ reported' = reported
    BY <1>3 DEF Insert
  <2> QED BY <1>1, <2>1, StepQuits
<1> QED BY <1>2, <1>3

(* A run that dies.                                                        *)
LEMMA StepFalter ==
  ASSUME OneSize, IngestInv, NEW p \in Orchestrator, Falter(p)
  PROVE  IngestInv'
BY StepQuits DEF Falter

(* Every step keeps it.                                                    *)
LEMMA IngestStep == OneSize /\ IngestInv /\ [IngestNext]_ingestVars => IngestInv'
<1> SUFFICES ASSUME OneSize, IngestInv, [IngestNext]_ingestVars PROVE IngestInv'
  OBVIOUS
<1>1. ASSUME NEW p \in Orchestrator, Steps(p) PROVE IngestInv'
  BY <1>1, StepResume, StepFetchLogs, StepFetchEnd, StepFetchHeaders, StepInsert DEF Steps
<1>2. ASSUME NEW p \in Orchestrator, Falter(p) PROVE IngestInv'
  BY <1>2, StepFalter
<1>3. ASSUME NEW p \in Orchestrator, NEW t \in Plans, Launch(p, t) PROVE IngestInv'
  BY <1>3, StepLaunch
<1>4. ASSUME NEW s \in Source, Reorganise(s) PROVE IngestInv'
  BY <1>4, StepReorganise
<1>5. CASE UNCHANGED ingestVars
  <2>1. /\ split' = split /\ moved' = moved /\ lax' = lax /\ stored' = stored
        /\ work' = work /\ reported' = reported
    BY <1>5 DEF ingestVars
  <2>2. IngestTypes'
    BY <2>1 DEF IngestInv, IngestTypes
  <2>3. Receipts' /\ Done'
    BY <2>1, ReceiptsKept, DoneStays DEF IngestInv
  <2>4. ASSUME NEW p \in Orchestrator PROVE Standing(p)'
    BY <2>1, StandsStill DEF IngestInv
  <2> QED BY <2>2, <2>3, <2>4 DEF IngestInv
<1> QED BY <1>1, <1>2, <1>3, <1>4, <1>5 DEF IngestNext

(* A job with all its receipts replays to the chain's logs.                *)
LEMMA CompleteReplays ==
  ASSUME OneSize, IngestInv, NEW kind, NEW t \in Plans, JobEnd[t] > 0, Complete(kind, t)
  PROVE  /\ Replays(kind, JobEnd[t])
         /\ {x \in Rows(kind, JobEnd[t]) : x[1] < split} =
            {<<b, 0>> : b \in {c \in 1 .. Least(split - 1, JobEnd[t]) :
                                 <<kind, c, 0>> \in Logged}}
<1>1. PICK end \in Nat \ {0} : end = JobEnd[t]
  BY WalkBegins
<1> DEFINE R == Within(kind, end)
           settled == {c \in 1 .. Least(split - 1, end) : <<kind, c, 0>> \in Logged}
<1>2. ASSUME NEW r \in R
      PROVE  /\ r \in stored /\ r.kind = kind /\ <<r.lo, r.hi>> \in JobTiling[t]
             /\ r.lo \in Nat \ {0} /\ r.hi \in Nat /\ r.hi <= end
  <2>1. r \in stored /\ r.kind = kind /\ r.hi <= end
    BY DEF Within
  <2>2. <<r.lo, r.hi>> \in Grid /\ <<r.lo, r.hi>>[1] = r.lo /\ <<r.lo, r.hi>>[2] = r.hi
    BY <2>1 DEF IngestInv, Receipts
  <2>3. r.lo \in Nat \ {0} /\ r.hi \in Nat
    BY <2>2, GridFacts
  <2>4. <<r.lo, r.hi>> \in JobTiling[t]
    BY <1>1, <2>1, <2>2, JobTilingIsGrid
  <2> QED BY <2>1, <2>3, <2>4
<1>3. ASSUME NEW c \in JobTiling[t] PROVE \E r \in R : r.lo = c[1] /\ r.hi = c[2]
  <2>1. c \in StoredRanges(kind)
    BY DEF Complete
  <2>2. PICK r \in stored : r.kind = kind /\ c = <<r.lo, r.hi>>
    BY <2>1 DEF StoredRanges
  <2>3. c[2] <= end
    BY <1>1, JobTilingIsGrid
  <2>4. r.lo = c[1] /\ r.hi = c[2]
    BY <2>2
  <2> QED BY <2>2, <2>3, <2>4 DEF Within
<1>4. \A r \in R : Verified(r) /\ Decodes(r)
  BY <1>2 DEF IngestInv, Receipts
<1>5. ASSUME NEW r \in R PROVE r.lo = 1 \/ \E q \in R : q.hi = r.lo - 1
  <2>1. <<r.lo, r.hi>> \in JobTiling[t] /\ <<r.lo, r.hi>>[1] = r.lo
    BY <1>2
  <2>2. CASE r.lo # 1
    <3>1. PICK b \in JobTiling[t] : b[2] = r.lo - 1
      BY <2>1, <2>2, WalkCovers
    <3> QED BY <1>3, <3>1
  <2> QED BY <2>2
<1>6. ASSUME NEW r \in R, NEW q \in R, r # q PROVE r.hi < q.lo \/ q.hi < r.lo
  <2> DEFINE c == <<r.lo, r.hi>>
             d == <<q.lo, q.hi>>
  <2>1. /\ c \in Grid /\ c[1] = r.lo /\ c[2] = r.hi
        /\ d \in Grid /\ d[1] = q.lo /\ d[2] = q.hi
    BY <1>2, JobTilingIsGrid
  <2>2. r.lo # q.lo
    BY <1>2, <1>6 DEF IngestInv, Receipts
  <2>3. c[1] < d[1] => c[2] < d[1]
    BY <2>1, GridFacts
  <2>4. d[1] < c[1] => d[2] < c[1]
    BY <2>1, GridFacts
  <2>5. r.lo \in Nat /\ q.lo \in Nat
    BY <1>2
  <2> QED BY <2>1, <2>2, <2>3, <2>4, <2>5
<1>7. \E r \in R : r.hi = end
  <2>1. PICK c \in JobTiling[t] : c[2] = end
    BY <1>1, WalkCovers
  <2> QED BY <1>3, <2>1
<1>8. split \in Nat
  BY IngestAssumption DEF IngestInv, IngestTypes
<1>9. ASSUME NEW x \in Rows(kind, end), x[1] < split
      PROVE  x \in {<<b, 0>> : b \in settled}
  <2>1. PICK r \in R : x \in r.logs
    BY DEF Rows
  <2>2. Faithful(kind, r.lo, r.hi, r.logs)
    BY <1>2 DEF IngestInv, Receipts
  <2>3. PICK b \in r.lo .. r.hi : x = <<b, 0>> /\ b < split /\ <<kind, b, 0>> \in Logged
    BY <1>9, <2>1, <2>2 DEF Faithful
  <2>4. b \in 1 .. Least(split - 1, end)
    <3>1. r.lo \in Nat \ {0} /\ r.hi \in Nat /\ r.hi <= end
      BY <1>2
    <3>2. b >= 1 /\ b <= end /\ b <= split - 1 /\ b \in Int
      BY <1>8, <2>3, <3>1
    <3> QED BY <1>8, <3>2 DEF Least
  <2> QED BY <2>3, <2>4
<1>10. ASSUME NEW b \in settled
       PROVE  <<b, 0>> \in Rows(kind, end) /\ <<b, 0>>[1] < split
  <2>1. b \in 1 .. end /\ b < split /\ <<kind, b, 0>> \in Logged
    BY <1>8 DEF Least
  <2>2. PICK c \in JobTiling[t] : c[1] <= b /\ b <= c[2]
    BY <1>1, <2>1, WalkCovers
  <2>3. PICK r \in R : r.lo = c[1] /\ r.hi = c[2]
    BY <1>3
  <2>4. b \in r.lo .. r.hi
    BY <1>2, <2>1, <2>2, <2>3
  <2>5. Faithful(kind, r.lo, r.hi, r.logs)
    BY <1>2 DEF IngestInv, Receipts
  <2>6. <<b, 0>> \in r.logs
    BY <2>1, <2>4, <2>5 DEF Faithful
  <2> QED BY <2>1, <2>3, <2>6 DEF Rows
<1>11. {x \in Rows(kind, end) : x[1] < split} = {<<b, 0>> : b \in settled}
  <2> HIDE DEF R
  <2> QED BY <1>9, <1>10
<1>12. Replays(kind, end)
  BY <1>4, <1>5, <1>6, <1>7 DEF Replays
<1> QED BY <1>1, <1>11, <1>12

(* Whatever was reported as done replays offline, without gaps, to the     *)
(* chain's own logs.                                                       *)
THEOREM ReportsAlwaysReplay == OneSize /\ IngestSpec => []ReportsReplay
<1>1. OneSize /\ IngestInv => ReportsReplay
  BY CompleteReplays DEF IngestInv, Done, ReportsReplay
<1>2. CASE ~OneSize
  BY <1>2
<1>3. CASE OneSize
  <2>1. IngestInv /\ [IngestNext]_ingestVars => IngestInv'
    BY <1>3, IngestStep
  <2>2. IngestInv => ReportsReplay
    BY <1>1, <1>3
  <2> QED BY IngestBegins, <2>1, <2>2, PTL DEF IngestSpec
<1> QED BY <1>2, <1>3
=============================================================================
