------------------------- MODULE PairEngine_proofs -------------------------
(***************************************************************************)
(* Theorems about the pair-event engine: for any plan, workers, stewards   *)
(* and limits, whatever leases lapse and whoever dies, claims and attempts *)
(* agree, receipts and headers agree, the domains in force tile the plan   *)
(* and are found complete, only the holder of a live lease moves its node, *)
(* and the database implements the ledger of the plan.                     *)
(***************************************************************************)
EXTENDS PairEngine, Sums

-----------------------------------------------------------------------------
(* Lemmas about the plan *)

(* A domain has blocks, a least and a last one among them, and addresses.  *)
LEMMA DomainShape ==
  ASSUME NEW d \in Domains
  PROVE  /\ d.lo \in Block /\ d.hi \in Block /\ d.lo <= d.hi
         /\ d.lo \in Int /\ d.hi \in Int
         /\ d.lo..d.hi \subseteq Block
         /\ d.ads \subseteq Pool /\ d.ads # {}
         /\ Cells(d) # {}
<1>1. d \in Domain
  BY EngineAssumption
<1>2. /\ d.lo \in Block /\ d.hi \in Block /\ d.lo <= d.hi
      /\ d.ads \subseteq Pool /\ d.ads # {}
  BY <1>1 DEF Domain
<1>3. d.lo \in Int /\ d.hi \in Int /\ d.lo..d.hi \subseteq Block
  BY <1>2, PlanAssumption DEF Block
<1>4. PICK a \in d.ads : TRUE
  BY <1>2
<1>5. d.lo \in d.lo..d.hi
  BY <1>2, <1>3
<1>6. <<d.lo, a>> \in Cells(d)
  BY <1>4, <1>5 DEF Cells
<1> QED BY <1>2, <1>3, <1>6

(* The two halves of a block interval share no block and lose none.        *)
LEMMA HalvesOfInterval ==
  ASSUME NEW lo \in Int, NEW hi \in Int, lo < hi,
         NEW end, end = lo + (hi - lo + 1) \div 2 - 1
  PROVE  /\ end \in Int /\ lo <= end /\ end < hi
         /\ lo..hi = (lo..end) \cup (end + 1..hi)
         /\ (lo..end) \cap (end + 1..hi) = {}
<1>1. end \in Int /\ lo <= end /\ end < hi
  OBVIOUS
<1>2. lo..hi = (lo..end) \cup (end + 1..hi)
  BY <1>1
<1>3. (lo..end) \cap (end + 1..hi) = {}
  BY <1>1
<1> QED BY <1>1, <1>2, <1>3

(* The parts a domain is replaced by: its cells, cut into disjoint pieces. *)
Cut(P, d) ==
  /\ P \subseteq Domains
  /\ UNION {Cells(k) : k \in P} = Cells(d)
  /\ \A j, k \in P : j # k => Cells(j) \cap Cells(k) = {}
  /\ \A k \in P : Cells(k) # Cells(d)

(* Two domains whose cells are two disjoint parts of d cut it.             *)
LEMMA TwoHalves ==
  ASSUME NEW d \in Domains, NEW j \in Domains, NEW k \in Domains,
         Cells(j) \cup Cells(k) = Cells(d), Cells(j) \cap Cells(k) = {}
  PROVE  Cut({j, k}, d)
<1>1. Cells(j) # {} /\ Cells(k) # {}
  BY DomainShape
<1>2. UNION {Cells(i) : i \in {j, k}} = Cells(j) \cup Cells(k)
  OBVIOUS
<1> QED BY <1>1, <1>2 DEF Cut

(* choose_split replaces a domain by a partition of it, or raises          *)
(* (uniswap_v2_pair_events_v2.py:753-850).                                 *)
LEMMA ChildrenCut ==
  ASSUME NEW d \in Domains, NEW r \in Reason, Children(d, r) # {}
  PROVE  Cut(Children(d, r), d)
<1>1. Children(d, r) \subseteq Domains
  BY EngineAssumption
<1>2. CASE Children(d, r) = SplitByBlock(d)
  <2> DEFINE end == d.lo + (d.hi - d.lo + 1) \div 2 - 1
             j == [lo |-> d.lo, hi |-> end, ads |-> d.ads]
             k == [lo |-> end + 1, hi |-> d.hi, ads |-> d.ads]
  <2>1. ~(d.hi <= d.lo) /\ Children(d, r) = {j, k}
    BY <1>2 DEF SplitByBlock
  <2>2. d.lo \in Int /\ d.hi \in Int /\ d.lo < d.hi
    BY <2>1, DomainShape
  <2>3. /\ d.lo..d.hi = (d.lo..end) \cup (end + 1..d.hi)
        /\ (d.lo..end) \cap (end + 1..d.hi) = {}
    <3> HIDE DEF end
    <3>1. end = d.lo + (d.hi - d.lo + 1) \div 2 - 1
      BY DEF end
    <3> QED BY <2>2, <3>1, HalvesOfInterval
  <2>4. /\ Cells(j) = (d.lo..end) \X d.ads
        /\ Cells(k) = (end + 1..d.hi) \X d.ads
        /\ Cells(d) = (d.lo..d.hi) \X d.ads
    BY DEF Cells
  <2> HIDE DEF j, k, end
  <2>5. Cells(j) \cup Cells(k) = Cells(d) /\ Cells(j) \cap Cells(k) = {}
    BY <2>3, <2>4
  <2>6. j \in Domains /\ k \in Domains
    BY <1>1, <2>1
  <2> QED BY <2>1, <2>5, <2>6, TwoHalves
<1>3. CASE Children(d, r) = SplitByAddress(d)
  <2> DEFINE left == {a \in d.ads : Rank(a, d.ads) < Cardinality(d.ads) \div 2}
             j == [lo |-> d.lo, hi |-> d.hi, ads |-> left]
             k == [lo |-> d.lo, hi |-> d.hi, ads |-> d.ads \ left]
  <2>1. Children(d, r) = {j, k}
    BY <1>3 DEF SplitByAddress
  <2>2. left \subseteq d.ads
    OBVIOUS
  <2>3. /\ Cells(j) = (d.lo..d.hi) \X left
        /\ Cells(k) = (d.lo..d.hi) \X (d.ads \ left)
        /\ Cells(d) = (d.lo..d.hi) \X d.ads
    BY DEF Cells
  <2> HIDE DEF j, k, left
  <2>4. Cells(j) \cup Cells(k) = Cells(d) /\ Cells(j) \cap Cells(k) = {}
    BY <2>2, <2>3
  <2>5. j \in Domains /\ k \in Domains
    BY <1>1, <2>1
  <2> QED BY <2>1, <2>4, <2>5, TwoHalves
<1> QED BY <1>2, <1>3 DEF Children

(* Windows that start at different multiples of the window size are apart. *)
LEMMA WindowsApart ==
  ASSUME NEW W \in Nat \ {0}, NEW x \in Nat, NEW y \in Nat,
         x % W = 0, y % W = 0, x < y
  PROVE  x + W <= y
<1>1. x = W * (x \div W) /\ y = W * (y \div W)
  OBVIOUS
<1>2. x \div W \in Int /\ y \div W \in Int
  OBVIOUS
<1>3. PICK i \in {x \div W}, j \in {y \div W} : TRUE
  OBVIOUS
<1>4. i \in Int /\ j \in Int /\ x = W * i /\ y = W * j
  BY <1>1, <1>2, <1>3
<1>5. i < j
  <2> SUFFICES ASSUME j <= i PROVE FALSE
    BY <1>4
  <2>1. W * j <= W * i
    BY <1>4
  <2> QED BY <1>4, <2>1
<1>6. W * (i + 1) <= W * j
  BY <1>4, <1>5
<1>7. W * (i + 1) = W * i + W
  BY <1>4
<1> QED BY <1>4, <1>6, <1>7

(* The cohorts of a list of addresses share no address.                    *)
LEMMA CohortsApart ==
  ASSUME NEW S, NEW b \in Cohorts(S), NEW c \in Cohorts(S), b # c
  PROVE  b \cap c = {}
BY DEF Cohorts

(* A root is the product of a window and a cohort of the pools born by     *)
(* the window's end.                                                       *)
LEMMA RootShape ==
  ASSUME NEW d \in RootFilters
  PROVE  /\ d \in Domains
         /\ (d.lo - Deploy) % WindowSize = 0
         /\ d.hi = Least(d.lo + WindowSize - 1, Cutoff)
         /\ d.ads \in Cohorts({a \in Pool : Birth[a] <= d.hi})
<1>1. PICK w \in RootWindows : \E c \in Cohorts({a \in Pool : Birth[a] <= w[2]}) :
        d = [lo |-> w[1], hi |-> w[2], ads |-> c]
  BY DEF RootFilters
<1>2. PICK s \in Block : /\ (s - Deploy) % WindowSize = 0
                         /\ w = <<s, Least(s + WindowSize - 1, Cutoff)>>
  BY <1>1 DEF RootWindows
<1>3. PICK c \in Cohorts({a \in Pool : Birth[a] <= w[2]}) :
        d = [lo |-> w[1], hi |-> w[2], ads |-> c]
  BY <1>1
<1>4. d.lo = s /\ d.hi = w[2] /\ d.ads = c /\ w[2] = Least(s + WindowSize - 1, Cutoff)
  BY <1>2, <1>3
<1> QED BY <1>2, <1>3, <1>4, EngineAssumption

(* The roots of a plan are disjoint                                        *)
(* (uniswap_v2_pair_events_v2.py:365-419).                                 *)
LEMMA RootsApart ==
  ASSUME NEW d \in RootFilters, NEW e \in RootFilters, d # e
  PROVE  Cells(d) \cap Cells(e) = {}
<1>1. d \in Domains /\ e \in Domains
  BY RootShape
<1>2. ASSUME NEW f \in RootFilters, NEW g \in RootFilters, f.lo < g.lo
      PROVE  Cells(f) \cap Cells(g) = {}
  <2>1. f \in Domains /\ g \in Domains
    BY RootShape
  <2>2. /\ f.lo \in Block /\ g.lo \in Block /\ f.hi \in Int /\ g.hi \in Int
    BY <2>1, DomainShape
  <2>3. /\ WindowSize \in Nat \ {0} /\ Deploy \in Nat /\ Cutoff \in Nat
        /\ f.lo - Deploy \in Nat /\ g.lo - Deploy \in Nat /\ f.lo \in Int /\ g.lo \in Int
    BY <2>2, PlanAssumption DEF Block
  <2>4. (f.lo - Deploy) % WindowSize = 0 /\ (g.lo - Deploy) % WindowSize = 0
    BY RootShape
  <2>5. PICK x \in {f.lo - Deploy}, y \in {g.lo - Deploy} : TRUE
    OBVIOUS
  <2>6. x + WindowSize <= y
    BY <1>2, <2>3, <2>4, <2>5, WindowsApart
  <2>7. f.hi <= f.lo + WindowSize - 1
    <3>1. f.hi = Least(f.lo + WindowSize - 1, Cutoff)
      BY RootShape
    <3> QED BY <2>3, <3>1 DEF Least
  <2>8. f.hi < g.lo
    BY <2>2, <2>3, <2>5, <2>6, <2>7
  <2>9. (f.lo..f.hi) \cap (g.lo..g.hi) = {}
    BY <2>2, <2>3, <2>8
  <2> QED BY <2>9 DEF Cells
<1>3. CASE d.lo = e.lo
  <2>1. d.hi = e.hi
    BY <1>3, RootShape
  <2>2. d.ads \in Cohorts({a \in Pool : Birth[a] <= d.hi})
    BY RootShape
  <2>3. e.ads \in Cohorts({a \in Pool : Birth[a] <= d.hi})
    BY <2>1, RootShape
  <2>4. d.ads # e.ads
    <3> SUFFICES ASSUME d.ads = e.ads PROVE FALSE
      OBVIOUS
    <3>1. d \in Domain /\ e \in Domain
      BY <1>1, EngineAssumption
    <3>2. d = e
      BY <1>3, <2>1, <3>1 DEF Domain
    <3> QED BY <3>2
  <2>5. d.ads \cap e.ads = {}
    BY <2>2, <2>3, <2>4, CohortsApart
  <2> QED BY <2>5 DEF Cells
<1>4. d.lo \in Int /\ e.lo \in Int
  BY <1>1, DomainShape
<1>5. CASE d.lo < e.lo
  BY <1>2, <1>5
<1>6. CASE e.lo < d.lo
  BY <1>2, <1>6
<1> QED BY <1>3, <1>4, <1>5, <1>6

-----------------------------------------------------------------------------
(* The inductive invariant *)

Labels == {"idle", "page", "drop", "logs", "headers", "settle", "batch", "final", "failed"}
PleaRow == [kind : {"candidate", "agreed", "retry", "terminal", "split"},
            by : Mode \cup Reason \cup {None}, first : BOOLEAN]

(* What an actor has listed fits the place it is at.                       *)
ActorTyped(a) ==
  /\ pc[a] \in {"page", "drop", "final"} => page[a] \subseteq Domains
  /\ pc[a] \in {"headers", "batch"} => page[a] \subseteq Block
  /\ pc[a] \in {"drop", "logs", "headers", "settle"} => at[a] \in Domains

ActorsTyped ==
  /\ pc \in [Actor -> Labels]
  /\ try \in [Worker -> Nat]
  /\ plea \in [Worker -> PleaRow \cup {None}]
  /\ seen \in [Actor -> Nat]
  /\ page = [a \in Actor |-> page[a]]
  /\ \A a \in Actor : ActorTyped(a)

(* Before the plan is ready only roots are there, and nobody works.        *)
RootsFirst ==
  ready = "INITIALIZING" =>
    /\ \A a \in Actor : pc[a] = "idle"
    /\ \A d \in Domains : /\ status[d] \in {"ABSENT", "PENDING"}
                          /\ Present(d) => d \in RootFilters

(* The domains in force are disjoint, none of them holds another domain    *)
(* that ever was, and together they stay the planned area.                 *)
Tiling ==
  /\ \A d, e \in Frontier : d # e => Cells(d) \cap Cells(e) = {}
  /\ \A d \in Frontier, e \in Domains :
       e # d /\ Present(e) => ~(Cells(e) \subseteq Cells(d))
  /\ ready = "READY" =>
       UNION {Cells(d) : d \in Frontier} = UNION {Cells(d) : d \in RootFilters}

(* What a worker decided is still so when it commits.                      *)
PleaFits(w, p) ==
  /\ p \in PleaRow
  /\ p.kind = "retry" => try[w] + 1 < MaxAttempts
  /\ p.kind = "terminal" => p.by \in Mode
  /\ p.kind = "split" => p.by \in Reason /\ Children(at[w], p.by) # {}
  /\ p.kind = "agreed" => RequiredBlocks(at[w]) \subseteq header
PleaStands(w) == PleaFits(w, plea[w])

(* A worker that still has its lease counts the attempts right.            *)
ClaimStands(w) ==
  /\ pc[w] \in {"logs", "headers", "settle"} =>
       /\ try[w] < MaxAttempts
       /\ Owns(w) => try[w] = attempt[at[w]]
  /\ pc[w] = "headers" => RequiredBlocks(at[w]) \ page[w] \subseteq header
  /\ pc[w] = "settle" => PleaStands(w)

ClaimsStand == \A w \in Worker : ClaimStands(w)

EngineInv ==
  /\ EngineTypeOK /\ ActorsTyped /\ RootsFirst /\ Tiling
  /\ LeasesAreExclusive /\ TerminalIsExhausted /\ ClaimsStand
  /\ AgreedIsEvidenced /\ BacklogIsExact

(* What the invariant says of the initial states.                          *)
LEMMA EngineInitInv == EngineInit => EngineInv
<1> SUFFICES ASSUME EngineInit PROVE EngineInv
  OBVIOUS
<1>1. EngineTypeOK
  BY EngineAssumption DEF EngineInit, EngineTypeOK
<1>2. ActorsTyped
  BY EngineAssumption DEF EngineInit, ActorsTyped, ActorTyped, Labels, Actor
<1>3. Frontier = {} /\ \A d \in Domains : ~Present(d)
  BY DEF EngineInit, Frontier, Present
<1>4. RootsFirst /\ Tiling
  BY <1>3 DEF EngineInit, RootsFirst, Tiling, Present
<1>5. LeasesAreExclusive /\ TerminalIsExhausted /\ AgreedIsEvidenced
  BY EngineAssumption DEF EngineInit, LeasesAreExclusive, TerminalIsExhausted, AgreedIsEvidenced
<1>6. ClaimsStand
  BY DEF EngineInit, ClaimsStand, ClaimStands, Actor
<1>7. Needed(cand) = {}
  BY DEF EngineInit, Needed
<1>8. BacklogIsExact
  BY <1>7, FS_EmptySet DEF EngineInit, BacklogIsExact, MissingBlocks
<1> QED BY <1>1, <1>2, <1>4, <1>5, <1>6, <1>8 DEF EngineInv

-----------------------------------------------------------------------------
(* Lemmas about one step *)

(* Blocks of a domain are blocks of the plan.                              *)
LEMMA RequiredIsBlocks ==
  ASSUME NEW d \in Domains
  PROVE  RequiredBlocks(d) \subseteq Block
BY DomainShape DEF RequiredBlocks

(* A set of numbers from 1 to 4 has a lowest one.                          *)
LEMMA LowestOfFour ==
  ASSUME NEW S \in SUBSET (1..4), S # {}
  PROVE  Lowest(S) \in S /\ \A c \in S : Lowest(S) <= c
<1>1. \E b \in S : \A c \in S : b <= c
  <2>1. CASE 1 \in S
    BY <2>1
  <2>2. CASE 1 \notin S /\ 2 \in S
    BY <2>2
  <2>3. CASE 1 \notin S /\ 2 \notin S /\ 3 \in S
    BY <2>3
  <2>4. CASE 1 \notin S /\ 2 \notin S /\ 3 \notin S
    <3>1. \A c \in S : c = 4
      BY <2>4
    <3>2. PICK b \in S : TRUE
      OBVIOUS
    <3>3. b = 4 /\ 4 <= 4
      BY <3>1, <3>2
    <3> QED BY <3>1, <3>2, <3>3
  <2> QED BY <2>1, <2>2, <2>3, <2>4
<1> QED BY <1>1 DEF Lowest

(* The class a failure is routed by is one of its own, and body size only  *)
(* when it is nothing else (engine 348-363).                               *)
LEMMA RouteIsOwn ==
  ASSUME NEW F, F # {},
         F \subseteq {"transport", "provider_disagreement", "explicit_range_limit",
                      "body_size_pressure"}
  PROVE  /\ Route(F) \in F
         /\ Route(F) = "body_size_pressure" => F = {"body_size_pressure"}
<1> DEFINE S == {i \in 1..4 : Precedence[i] \in F}
<1>1. /\ Precedence[1] = "transport" /\ Precedence[2] = "provider_disagreement"
      /\ Precedence[3] = "explicit_range_limit" /\ Precedence[4] = "body_size_pressure"
  BY DEF Precedence
<1>2. S # {}
  <2>1. 1 \in 1..4 /\ 2 \in 1..4 /\ 3 \in 1..4 /\ 4 \in 1..4
    OBVIOUS
  <2> QED BY <1>1, <2>1
<1>3. Lowest(S) \in S /\ \A c \in S : Lowest(S) <= c
  BY <1>2, LowestOfFour
<1>4. Route(F) = Precedence[Lowest(S)]
  BY DEF Route
<1>5. PICK i \in 1..4 : i = Lowest(S)
  BY <1>3
<1>6. Route(F) = Precedence[i] /\ Precedence[i] \in F
  BY <1>3, <1>4, <1>5
<1>7. ASSUME Route(F) = "body_size_pressure" PROVE F = {"body_size_pressure"}
  <2>0. i = 1 \/ i = 2 \/ i = 3 \/ i = 4
    OBVIOUS
  <2>1. i = 4
    BY <2>0, <1>1, <1>6, <1>7
  <2>2. 1 \notin S /\ 2 \notin S /\ 3 \notin S
    <3> HIDE DEF S
    <3>1. \A c \in S : 4 <= c
      BY <1>3, <1>5, <2>1
    <3> QED BY <3>1
  <2>3. Precedence[1] \notin F /\ Precedence[2] \notin F /\ Precedence[3] \notin F
    BY <2>2
  <2> QED BY <1>1, <2>3
<1> QED BY <1>6, <1>7

(* The failures of a pair of responses (_inspect_pair).                    *)
LEMMA FailureShape ==
  ASSUME NEW F \in {{"provider_disagreement"}, {"transport"}} \cup Failures
  PROVE  /\ F # {}
         /\ F = {"provider_disagreement"} \/ F \subseteq Fault
<1>1. ASSUME F \in Failures PROVE F # {} /\ F \subseteq Fault
  <2>1. PICK p \in SUBSET Fault, s \in SUBSET Fault :
          F = {Route(f) : f \in {p, s} \ {{}}} /\ F # {}
    BY <1>1 DEF Failures
  <2>2. ASSUME NEW f \in {p, s} \ {{}} PROVE Route(f) \in Fault
    BY RouteIsOwn DEF Fault
  <2> QED BY <2>1, <2>2
<1> QED BY <1>1 DEF Fault

(* A leased node is in flight, has attempts left, and nothing acquired.    *)
LEMMA Leased ==
  ASSUME EngineInv, NEW d \in Domains, lease[d] # None
  PROVE  /\ lease[d] \in Lease /\ lease[d].by \in Worker /\ lease[d].live \in BOOLEAN
         /\ status[d] = "IN_FLIGHT" /\ cand[d] = None /\ leaf[d] = None
         /\ terminal[d] = None
         /\ attempt[d] \in Nat /\ attempt[d] < MaxAttempts
<1>1. lease[d] \in Lease
  BY DEF EngineInv, EngineTypeOK
<1>2. status[d] = "IN_FLIGHT" /\ cand[d] = None /\ attempt[d] < MaxAttempts
  BY DEF EngineInv, LeasesAreExclusive
<1>3. leaf[d] = None
  BY <1>2 DEF EngineInv, AgreedIsEvidenced
<1>4. terminal[d] = None
  BY <1>2 DEF EngineInv, TerminalIsExhausted
<1>5. attempt[d] \in Nat
  BY EngineAssumption DEF EngineInv, EngineTypeOK
<1> QED BY <1>1, <1>2, <1>3, <1>4, <1>5 DEF Lease

(* The sweep makes each lapsed node one attempt poorer.                    *)
LEMMA Sweep ==
  ASSUME EngineInv, NEW d \in Domains
  PROVE  /\ Swept[d] \in 0..MaxAttempts
         /\ d \in Lapsed => /\ lease[d] # None /\ ~lease[d].live
                            /\ Swept[d] = attempt[d] + 1
                            /\ SweptTerminal[d] = IF Swept[d] = MaxAttempts
                                                  THEN "lease_expired" ELSE None
         /\ d \notin Lapsed => /\ Swept[d] = attempt[d]
                               /\ SweptTerminal[d] = terminal[d]
<1>1. attempt[d] \in 0..MaxAttempts /\ MaxAttempts \in Nat
  BY EngineAssumption DEF EngineInv, EngineTypeOK
<1>2. CASE d \in Lapsed
  <2>1. lease[d] # None /\ ~lease[d].live
    BY <1>2 DEF Lapsed
  <2>2. attempt[d] \in Nat /\ attempt[d] < MaxAttempts /\ terminal[d] = None
    BY <2>1, Leased
  <2>3. Swept[d] = attempt[d] + 1
    BY <1>2 DEF Swept
  <2>4. SweptTerminal[d] = IF Swept[d] >= MaxAttempts THEN "lease_expired" ELSE terminal[d]
    BY <1>2 DEF SweptTerminal
  <2> QED BY <1>1, <1>2, <2>1, <2>2, <2>3, <2>4
<1>3. CASE d \notin Lapsed
  BY <1>1, <1>3 DEF Swept, SweptTerminal
<1> QED BY <1>2, <1>3

(* Lowest picks a member.                                                  *)
LEMMA LowestBlock ==
  ASSUME NEW B \in SUBSET Block, B # {}
  PROVE  Lowest(B) \in B
<1>1. B \subseteq Nat
  BY PlanAssumption DEF Block
<1> QED BY <1>1, LeastNumber DEF Lowest

(* A commit that succeeds is that of the worker with the lease, which      *)
(* counted its attempts right and gives the lease up (engine 4996-5010).   *)
LEMMA Committing ==
  ASSUME EngineInv, NEW w \in Worker, Settled(w)
  PROVE  /\ at[w] \in Domains /\ lease[at[w]] # None /\ lease[at[w]].by = w
         /\ pc[w] = "settle" /\ PleaStands(w) /\ try[w] = attempt[at[w]]
         /\ lease' = [lease EXCEPT ![at[w]] = None]
         /\ Return(w, "idle") /\ UNCHANGED <<planVars, header>>
<1>1. w \in Actor /\ pc[w] = "settle" /\ Commit(w) /\ Return(w, "idle") /\ UNCHANGED planVars
  BY DEF Settled, Actor
<1>2. at[w] \in Domains /\ PleaStands(w)
  BY <1>1 DEF EngineInv, ActorsTyped, ActorTyped, ClaimsStand, ClaimStands
<1>3. [by |-> w, live |-> TRUE] # None
  <2>1. [by |-> w, live |-> TRUE] \in Lease
    BY DEF Lease
  <2> QED BY <2>1, NoneAssumption
<1>4. lease[at[w]] # None /\ lease[at[w]].by = w
  BY <1>1, <1>3 DEF Commit, CommitCandidate, CommitAgreed, CommitRetry, CommitTerminal,
                    CommitSplit, Holds, Owns
<1>5. try[w] = attempt[at[w]]
  BY <1>1, <1>4 DEF EngineInv, ClaimsStand, ClaimStands, Owns
<1>6. lease' = [lease EXCEPT ![at[w]] = None] /\ header' = header
  BY <1>1 DEF Commit, CommitCandidate, CommitAgreed, CommitRetry, CommitTerminal,
              CommitSplit, evidenceVars
<1> QED BY <1>1, <1>2, <1>4, <1>5, <1>6

(* Types are kept: no step names a domain, block or mode outside the plan. *)
LEMMA TypeStep ==
  ASSUME EngineInv, [EngineNext]_vars
  PROVE  EngineTypeOK'
<1> USE DEF EngineInv
<1> DEFINE NodeTypes ==
      /\ status \in [Domains -> {"ABSENT", "PENDING", "IN_FLIGHT", "AGREED", "SPLIT"}]
      /\ attempt \in [Domains -> 0..MaxAttempts]
      /\ reason \in [Domains -> Reason \cup {None}]
      /\ lease \in [Domains -> Lease \cup {None}]
      /\ terminal \in [Domains -> Mode \cup {None}]
    EvidenceTypes ==
      /\ cand \in [Domains -> Candidate \cup {None}]
      /\ leaf \in [Domains -> (SUBSET Block) \cup {None}]
      /\ header \subseteq Block /\ backlog \subseteq Block /\ missing \in Nat
    PlanTypes == policy \in Policies /\ ready \in {"INITIALIZING", "READY"}
                   /\ gen \in 1..(MaxGen + 1)
    AtTypes == at \in [Actor -> Domains \cup {None}]
<1>0. NodeTypes /\ EvidenceTypes /\ PlanTypes /\ AtTypes /\ faults \in 0..MaxFaults
  BY DEF EngineTypeOK
<1>c. MaxAttempts \in Nat \ {0} /\ MaxGen \in Nat /\ MaxFaults \in Nat
      /\ RootFilters \subseteq Domains
  BY EngineAssumption
<1>w. Worker \subseteq Actor /\ Steward \subseteq Actor
  BY DEF Actor
<1>q. EngineTypeOK' <=> NodeTypes' /\ EvidenceTypes' /\ PlanTypes' /\ AtTypes'
                          /\ (faults \in 0..MaxFaults)'
  BY DEF EngineTypeOK
<1>r. ASSUME NEW a \in Actor, NEW l \in Labels, Return(a, l) PROVE AtTypes'
  BY <1>r, <1>0 DEF Return
<1>t. ASSUME UNCHANGED nodeVars PROVE NodeTypes'
  BY <1>t, <1>0 DEF nodeVars
<1>e. ASSUME UNCHANGED evidenceVars PROVE EvidenceTypes'
  BY <1>e, <1>0 DEF evidenceVars
<1>p. ASSUME UNCHANGED planVars PROVE PlanTypes'
  BY <1>p, <1>0 DEF planVars
<1>a. ASSUME UNCHANGED at PROVE AtTypes'
  BY <1>a, <1>0
<1>s. ASSUME NEW b \in Block, Stored(b), UNCHANGED <<cand, leaf>> PROVE EvidenceTypes'
  BY <1>s, <1>0 DEF Stored
<1>f. ASSUME faults < MaxFaults, faults' = faults + 1 PROVE (faults \in 0..MaxFaults)'
  BY <1>f, <1>0, <1>c
<1> HIDE DEF NodeTypes, EvidenceTypes, PlanTypes, AtTypes, EngineInv
<1>1. CASE InsertRoots
  <2>1. NodeTypes'
    BY <1>1, <1>0 DEF InsertRoots, NodeTypes
  <2>2. UNCHANGED <<evidenceVars, planVars, at, faults>>
    BY <1>1 DEF InsertRoots, actorVars
  <2> QED BY <2>1, <2>2, <1>q, <1>0, <1>e, <1>p, <1>a
<1>2. CASE MarkReady
  BY <1>2, <1>q, <1>0, <1>t, <1>e, <1>a DEF MarkReady, actorVars, PlanTypes
<1>3. CASE Attach
  <2>1. PlanTypes'
    BY <1>3, <1>0, <1>c DEF Attach, PlanTypes
  <2> QED BY <1>3, <2>1, <1>q, <1>0, <1>t, <1>e, <1>a DEF Attach, actorVars
<1>4. ASSUME NEW a \in Actor, OpenPage(a) PROVE EngineTypeOK'
  BY <1>4, <1>q, <1>0, <1>t, <1>e, <1>p, <1>a DEF OpenPage
<1>5. ASSUME NEW a \in Actor, Authenticate(a) PROVE EngineTypeOK'
  <2>1. PICK d \in page[a] :
          /\ \/ cand' = cand
             \/ /\ cand[d] # None
                /\ cand' = [cand EXCEPT ![d] = [gen |-> gen, ev |-> @.ev]]
          /\ at' = [at EXCEPT ![a] = d] \/ at' = at
    <3>1. PICK d \in page[a] :
            LET bad  == cand[d] = None \/ cand[d].ev = "lost"
            IN  /\ cand' = [cand EXCEPT ![d] = IF bad \/ gen # seen[a] THEN @
                                               ELSE [gen |-> gen, ev |-> @.ev]]
                /\ at' = [at EXCEPT ![a] = d] \/ at' = at
      BY <1>5 DEF Authenticate
    <3>2. CASE cand[d] = None \/ cand[d].ev = "lost" \/ gen # seen[a]
      BY <3>1, <3>2, <1>0 DEF EvidenceTypes
    <3>3. CASE ~(cand[d] = None \/ cand[d].ev = "lost" \/ gen # seen[a])
      BY <3>1, <3>3
    <3> QED BY <3>1, <3>2, <3>3
  <2>2. d \in Domains
    BY <1>5, <2>1 DEF EngineInv, ActorsTyped, ActorTyped, Authenticate
  <2>3. cand' \in [Domains -> Candidate \cup {None}]
    <3>1. cand[d] # None => [gen |-> gen, ev |-> cand[d].ev] \in Candidate
      BY <2>2, <1>0 DEF EvidenceTypes, PlanTypes, Candidate
    <3> QED BY <3>1, <2>1, <2>2, <1>0 DEF EvidenceTypes
  <2>4. EvidenceTypes' /\ AtTypes'
    BY <2>1, <2>2, <2>3, <1>5, <1>0 DEF EvidenceTypes, AtTypes, Authenticate
  <2> QED BY <1>5, <2>4, <1>q, <1>0, <1>t, <1>p DEF Authenticate
<1>6. ASSUME NEW a \in Actor, Drop(a) PROVE EngineTypeOK'
  <2>1. at[a] \in Domains
    BY <1>6 DEF EngineInv, ActorsTyped, ActorTyped, Drop
  <2>2. AtTypes' /\ cand' \in [Domains -> Candidate \cup {None}]
    BY <1>6, <2>1, <1>0 DEF Drop, AtTypes, EvidenceTypes
  <2> DEFINE gone == IF cand[at[a]] = None THEN {} ELSE Unneeded(at[a], cand')
  <2>3. backlog' = backlog \ gone /\ missing' = missing - Cardinality(gone)
    BY <1>6 DEF Drop
  <2>4. gone \subseteq backlog /\ missing = Cardinality(backlog)
    BY DEF Unneeded, EngineInv, BacklogIsExact
  <2> HIDE DEF gone
  <2>5. IsFiniteSet(backlog)
    <3>1. IsFiniteSet(Block)
      BY FS_Interval, PlanAssumption DEF Block
    <3> QED BY <3>1, <1>0, FS_Subset DEF EvidenceTypes
  <2>6. Cardinality(gone) \in Nat /\ Cardinality(gone) <= Cardinality(backlog)
        /\ Cardinality(backlog) \in Nat
    BY <2>4, <2>5, FS_Subset, FS_CardinalityType
  <2>7. EvidenceTypes'
    BY <1>6, <1>0, <2>2, <2>3, <2>4, <2>6 DEF EvidenceTypes, Drop
  <2> QED BY <1>6, <2>2, <2>7, <1>q, <1>0, <1>t, <1>p DEF Drop
<1>7. ASSUME NEW w \in Worker, Take(w) PROVE EngineTypeOK'
  <2> DEFINE left == [d \in Domains |-> IF d \in Lapsed THEN "PENDING" ELSE status[d]]
             kept == [d \in Domains |-> IF d \in Lapsed THEN None ELSE lease[d]]
  <2>1. /\ attempt' = Swept /\ terminal' = SweptTerminal
        /\ UNCHANGED <<reason, evidenceVars, planVars, faults>>
        /\ \/ status' = left /\ lease' = kept /\ Return(w, "idle")
           \/ \E d \in Free :
                /\ status' = [left EXCEPT ![d] = "IN_FLIGHT"]
                /\ lease' = [kept EXCEPT ![d] = [by |-> w, live |-> TRUE]]
                /\ at' = [at EXCEPT ![w] = d]
    BY <1>7 DEF Take
  <2>2. /\ left \in [Domains -> {"ABSENT", "PENDING", "IN_FLIGHT", "AGREED", "SPLIT"}]
        /\ kept \in [Domains -> Lease \cup {None}]
    BY <1>0 DEF NodeTypes
  <2>3. attempt' \in [Domains -> 0..MaxAttempts] /\ terminal' \in [Domains -> Mode \cup {None}]
    <3>1. \A d \in Domains : Swept[d] \in 0..MaxAttempts /\ SweptTerminal[d] \in Mode \cup {None}
      <4> TAKE d \in Domains
      <4>1. terminal[d] \in Mode \cup {None} /\ "lease_expired" \in Mode
        BY <1>0 DEF NodeTypes, Mode
      <4> QED BY <4>1, Sweep
    <3> QED BY <2>1, <3>1 DEF Swept, SweptTerminal
  <2>4. Free \subseteq Domains /\ [by |-> w, live |-> TRUE] \in Lease
    BY DEF Free, Lease
  <2> HIDE DEF left, kept
  <2>5. status' \in [Domains -> {"ABSENT", "PENDING", "IN_FLIGHT", "AGREED", "SPLIT"}]
    BY <2>1, <2>2, <2>4
  <2>6. lease' \in [Domains -> Lease \cup {None}]
    BY <2>1, <2>2, <2>4
  <2>7. NodeTypes'
    BY <2>1, <2>3, <2>5, <2>6, <1>0 DEF NodeTypes
  <2>8. AtTypes'
    <3>1. CASE Return(w, "idle")
      BY <3>1, <1>r, <1>w DEF Labels
    <3>2. CASE \E d \in Free : at' = [at EXCEPT ![w] = d]
      BY <3>2, <2>4, <1>0 DEF AtTypes
    <3> QED BY <2>1, <3>1, <3>2
  <2> QED BY <2>1, <2>7, <2>8, <1>q, <1>0, <1>e, <1>p
<1>8. ASSUME NEW d \in Domains, Lapse(d) PROVE EngineTypeOK'
  <2>1. [by |-> lease[d].by, live |-> FALSE] \in Lease
    BY <1>8, Leased DEF Lapse, Lease
  <2>2. NodeTypes'
    BY <1>8, <2>1, <1>0 DEF Lapse, NodeTypes
  <2> QED BY <1>8, <2>2, <1>q, <1>0, <1>e, <1>p, <1>a DEF Lapse, actorVars
<1>9. ASSUME NEW w \in Worker, Fail(w) \/ Agree(w) \/ CommitRaises(w) PROVE EngineTypeOK'
  BY <1>9, <1>q, <1>0, <1>t, <1>e, <1>p, <1>a DEF Fail, Agree, CommitRaises
<1>10. ASSUME NEW w \in Worker, Resolve(w) PROVE EngineTypeOK'
  <2>1. AtTypes'
    BY <1>10, <1>r, <1>a, <1>w DEF Resolve, Labels
  <2> QED BY <1>10, <2>1, <1>q, <1>0, <1>t, <1>e, <1>p DEF Resolve
<1>11. ASSUME NEW w \in Worker, GetHeader(w) PROVE EngineTypeOK'
  <2>1. EvidenceTypes'
    <3>1. CASE page[w] # {} /\ Stored(Lowest(page[w]))
      <4>1. page[w] \in SUBSET Block
        BY <1>11, <1>w DEF EngineInv, ActorsTyped, ActorTyped, GetHeader
      <4>2. Lowest(page[w]) \in Block
        BY <3>1, <4>1, LowestBlock
      <4> QED BY <1>11, <3>1, <4>2, <1>s DEF GetHeader
    <3>2. CASE UNCHANGED <<header, backlog, missing>>
      BY <1>11, <3>2, <1>e DEF GetHeader, evidenceVars
    <3> QED BY <1>11, <3>1, <3>2 DEF GetHeader
  <2> QED BY <1>11, <2>1, <1>q, <1>0, <1>t, <1>p, <1>a DEF GetHeader
<1>12. ASSUME NEW s \in Steward, StoreHeader(s) PROVE EngineTypeOK'
  <2>1. page[s] \in SUBSET Block /\ page[s] # {}
    BY <1>12, <1>w DEF EngineInv, ActorsTyped, ActorTyped, StoreHeader
  <2>2. EvidenceTypes'
    BY <1>12, <2>1, LowestBlock, <1>s DEF StoreHeader
  <2> QED BY <1>12, <2>2, <1>q, <1>0, <1>t, <1>p, <1>a DEF StoreHeader
<1>13. ASSUME NEW s \in Steward, ListMissing(s) \/ ListFinalizable(s) PROVE EngineTypeOK'
  BY <1>13, <1>q, <1>0, <1>t, <1>e, <1>p, <1>a DEF ListMissing, ListFinalizable
<1>14. ASSUME NEW s \in Steward, BatchFails(s) PROVE EngineTypeOK'
  BY <1>14, <1>q, <1>0, <1>t, <1>e, <1>p, <1>r, <1>f, <1>w DEF BatchFails, Labels
<1>15. ASSUME NEW s \in Steward, EndTurn(s) PROVE EngineTypeOK'
  BY <1>15, <1>q, <1>0, <1>t, <1>e, <1>p, <1>r, <1>w DEF EndTurn, Labels
<1>16. ASSUME NEW a \in Actor, Crash(a) PROVE EngineTypeOK'
  BY <1>16, <1>q, <1>0, <1>t, <1>e, <1>p, <1>r, <1>f DEF Crash, Labels
<1>17. ASSUME NEW a \in Actor, Restart(a) PROVE EngineTypeOK'
  BY <1>17, <1>q, <1>0, <1>t, <1>e, <1>p, <1>a DEF Restart
<1>18. ASSUME NEW d \in Domains, Rot(d) PROVE EngineTypeOK'
  <2>1. [gen |-> cand[d].gen, ev |-> "lost"] \in Candidate
    BY <1>18, <1>0 DEF Rot, EvidenceTypes, Candidate
  <2>2. EvidenceTypes'
    BY <1>18, <2>1, <1>0 DEF Rot, EvidenceTypes
  <2> QED BY <1>18, <2>2, <1>q, <1>0, <1>t, <1>p, <1>a, <1>f DEF Rot, actorVars
<1>19. ASSUME NEW s \in Steward, Finalize(s) PROVE EngineTypeOK'
  <2>1. PICK d \in page[s] :
          \/ UNCHANGED <<status, leaf, at>>
          \/ /\ leaf' = [leaf EXCEPT ![d] = RequiredBlocks(d)]
             /\ status' = [status EXCEPT ![d] = "AGREED"] /\ UNCHANGED at
          \/ Return(s, "failed") /\ UNCHANGED <<status, leaf>>
    BY <1>19 DEF Finalize
  <2>2. d \in Domains /\ RequiredBlocks(d) \in SUBSET Block
    BY <1>19, <2>1, <1>w, RequiredIsBlocks DEF EngineInv, ActorsTyped, ActorTyped, Finalize
  <2>3. NodeTypes' /\ EvidenceTypes'
    BY <1>19, <2>1, <2>2, <1>0 DEF Finalize, NodeTypes, EvidenceTypes
  <2>4. AtTypes'
    BY <2>1, <1>r, <1>a, <1>w DEF Labels
  <2> QED BY <1>19, <2>3, <2>4, <1>q, <1>0, <1>p DEF Finalize
<1>20. ASSUME NEW w \in Worker, Settled(w) PROVE EngineTypeOK'
  <2> DEFINE d == at[w]
  <2>1. /\ d \in Domains /\ lease[d] # None /\ PleaStands(w) /\ try[w] = attempt[d]
        /\ lease' = [lease EXCEPT ![d] = None] /\ Return(w, "idle") /\ UNCHANGED planVars
    BY <1>20, Committing
  <2>2. lease' \in [Domains -> Lease \cup {None}]
    BY <2>1, <1>0 DEF NodeTypes
  <2>3. CASE CommitCandidate(w)
    <3> DEFINE new == RequiredBlocks(d) \ (header \cup backlog)
    <3>1. PICK e \in {"good", "forked"} :
            /\ cand' = [cand EXCEPT ![d] = [gen |-> gen, ev |-> e]]
            /\ faults' = IF e = "forked" THEN faults + 1 ELSE faults
            /\ e = "forked" => faults < MaxFaults
      BY <2>3 DEF CommitCandidate
    <3>2. [gen |-> gen, ev |-> e] \in Candidate
      BY <1>0 DEF PlanTypes, Candidate
    <3>3. new \subseteq Block /\ Cardinality(new) \in Nat
      <4>1. IsFiniteSet(Block)
        BY FS_Interval, PlanAssumption DEF Block
      <4>2. RequiredBlocks(d) \subseteq Block
        BY <2>1, RequiredIsBlocks
      <4> QED BY <4>1, <4>2, FS_Subset, FS_CardinalityType
    <3>4. backlog' = backlog \cup new /\ missing' = missing + Cardinality(new)
          /\ UNCHANGED <<leaf, header>>
      BY <2>3 DEF CommitCandidate
    <3> HIDE DEF new
    <3>5. EvidenceTypes'
      BY <3>1, <3>2, <3>3, <3>4, <2>1, <1>0 DEF EvidenceTypes
    <3>6. NodeTypes'
      BY <2>3, <2>1, <2>2, <1>0 DEF CommitCandidate, NodeTypes
    <3>7. (faults \in 0..MaxFaults)'
      BY <3>1, <1>f, <1>0
    <3> QED BY <2>1, <3>5, <3>6, <3>7, <1>q, <1>r, <1>p, <1>w DEF Labels
  <2>4. CASE CommitAgreed(w)
    <3>1. RequiredBlocks(d) \in SUBSET Block
      BY <2>1, RequiredIsBlocks
    <3>2. EvidenceTypes' /\ NodeTypes'
      BY <2>1, <2>2, <2>4, <3>1, <1>0 DEF CommitAgreed, EvidenceTypes, NodeTypes
    <3> QED BY <2>1, <2>4, <3>2, <1>q, <1>0, <1>r, <1>p, <1>w DEF Labels, CommitAgreed
  <2>5. CASE CommitRetry(w) /\ plea[w].kind = "retry"
    <3>1. attempt[d] + 1 \in 0..MaxAttempts
      BY <2>1, <2>5, <1>0, <1>c DEF PleaStands, PleaFits, NodeTypes
    <3>2. NodeTypes'
      BY <2>1, <2>2, <2>5, <3>1, <1>0 DEF CommitRetry, NodeTypes
    <3> QED BY <2>1, <2>5, <3>2, <1>q, <1>0, <1>r, <1>e, <1>p, <1>w DEF Labels, CommitRetry
  <2>6. CASE CommitTerminal(w) /\ plea[w].kind = "terminal"
    <3>1. plea[w].by \in Mode /\ MaxAttempts \in 0..MaxAttempts
      BY <2>1, <2>6, <1>c DEF PleaStands, PleaFits
    <3>2. NodeTypes'
      BY <2>1, <2>2, <2>6, <3>1, <1>0 DEF CommitTerminal, NodeTypes
    <3> QED BY <2>1, <2>6, <3>2, <1>q, <1>0, <1>r, <1>e, <1>p, <1>w DEF Labels, CommitTerminal
  <2>7. CASE CommitSplit(w) /\ plea[w].kind = "split"
    <3>1. plea[w].by \in Reason
      BY <2>1, <2>7 DEF PleaStands, PleaFits
    <3>2. NodeTypes'
      BY <2>1, <2>2, <2>7, <3>1, <1>0 DEF CommitSplit, NodeTypes
    <3> QED BY <2>1, <2>7, <3>2, <1>q, <1>0, <1>r, <1>e, <1>p, <1>w DEF Labels, CommitSplit
  <2> QED BY <1>20, <2>3, <2>4, <2>5, <2>6, <2>7 DEF Settled, Commit
<1>21. CASE UNCHANGED vars
  BY <1>21, <1>q, <1>0, <1>t, <1>e, <1>p, <1>a DEF vars, actorVars
<1>22. CASE \E a \in Actor : ActorStep(a) \/ Crash(a) \/ Restart(a)
  BY <1>22, <1>4, <1>5, <1>6, <1>16, <1>17 DEF ActorStep
<1>23. CASE \E w \in Worker : WorkerStep(w)
  BY <1>23, <1>7, <1>9, <1>10, <1>11, <1>20 DEF WorkerStep
<1>24. CASE \E s \in Steward : StewardStep(s)
  BY <1>24, <1>12, <1>13, <1>14, <1>15, <1>19 DEF StewardStep
<1> QED
  BY <1>1, <1>2, <1>3, <1>8, <1>18, <1>21, <1>22, <1>23, <1>24 DEF EngineNext

(* A plea made of fitting parts.                                           *)
LEMMA FitsWhen ==
  ASSUME NEW w \in Worker, NEW f \in BOOLEAN,
         NEW k \in {"candidate", "agreed", "retry", "terminal", "split"},
         NEW b \in Mode \cup Reason \cup {None},
         k = "retry" => try[w] + 1 < MaxAttempts,
         k = "terminal" => b \in Mode,
         k = "split" => b \in Reason /\ Children(at[w], b) # {},
         k = "agreed" => RequiredBlocks(at[w]) \subseteq header
  PROVE  PleaFits(w, [kind |-> k, by |-> b, first |-> f])
BY DEF PleaFits, PleaRow

(* A plea that was refused once fits as well as before (CommitRaises).     *)
LEMMA FitsAgain ==
  ASSUME NEW w \in Worker, NEW p, PleaFits(w, p)
  PROVE  PleaFits(w, [p EXCEPT !.first = FALSE])
BY DEF PleaFits, PleaRow

(* What a worker asks for after a failure: a retry only with an attempt    *)
(* left, a terminal with a mode, a split only into something.              *)
LEMMA RetryFits ==
  ASSUME NEW w \in Worker, try[w] \in Nat, try[w] < MaxAttempts,
         NEW mode, Exhausted(w) => mode \in Mode
  PROVE  /\ PleaFits(w, Retry(w, mode))
         /\ PleaFits(w, [Retry(w, mode) EXCEPT !.first = FALSE])
<1> SUFFICES PleaFits(w, Retry(w, mode))
  BY FitsAgain
<1>1. CASE Exhausted(w)
  <2>1. mode \in Mode
    BY <1>1
  <2>2. Retry(w, mode) = [kind |-> "terminal", by |-> mode, first |-> TRUE]
    BY <1>1 DEF Retry, Plea
  <2>3. PleaFits(w, [kind |-> "terminal", by |-> mode, first |-> TRUE])
    BY <2>1, FitsWhen
  <2> QED BY <2>2, <2>3
<1>2. CASE ~Exhausted(w)
  <2>1. Retry(w, mode) = [kind |-> "retry", by |-> None, first |-> TRUE]
    BY <1>2 DEF Retry, Plea
  <2>2. try[w] + 1 < MaxAttempts
    BY <1>2, EngineAssumption DEF Exhausted
  <2>3. PleaFits(w, [kind |-> "retry", by |-> None, first |-> TRUE])
    BY <2>2, FitsWhen
  <2> QED BY <2>1, <2>3
<1> QED BY <1>1, <1>2

(* What a failed request is routed to fits the claim (_route_failure).     *)
LEMMA FailFits ==
  ASSUME EngineInv, NEW w \in Worker, Fail(w)
  PROVE  \E p : PleaFits(w, p) /\ Settle(w, p)
<1>1. w \in Actor /\ pc[w] \in {"logs", "headers"}
  BY DEF Fail, Actor
<1>2. try[w] \in Nat /\ try[w] < MaxAttempts
  BY <1>1 DEF EngineInv, ActorsTyped, ClaimsStand, ClaimStands
<1>3. PICK F \in {{"provider_disagreement"}, {"transport"}} \cup Failures :
        LET r == SplitReason(F, Exhausted(w))
        IN  Settle(w, IF r # None THEN SplitOrTerminal(w, r) ELSE Retry(w, Route(F)))
  BY DEF Fail
<1> DEFINE r == SplitReason(F, Exhausted(w))
<1>4. F # {} /\ (F = {"provider_disagreement"} \/ F \subseteq Fault)
  BY <1>3, FailureShape
<1>5. CASE r # None
  <2>1. r \in Reason
    BY <1>5 DEF SplitReason, Reason
  <2> HIDE DEF r
  <2>2. PleaFits(w, SplitOrTerminal(w, r))
    <3>1. CASE Children(at[w], r) = {}
      <4>1. SplitOrTerminal(w, r) = [kind |-> "terminal", by |-> "unsplittable", first |-> TRUE]
        BY <3>1 DEF SplitOrTerminal, Plea
      <4> QED BY <4>1, FitsWhen DEF Mode
    <3>2. CASE Children(at[w], r) # {}
      <4>1. SplitOrTerminal(w, r) = [kind |-> "split", by |-> r, first |-> TRUE]
        BY <3>2 DEF SplitOrTerminal, Plea
      <4> QED BY <4>1, <2>1, <3>2, FitsWhen
    <3> QED BY <3>1, <3>2
  <2>3. Settle(w, SplitOrTerminal(w, r))
    BY <1>3, <1>5 DEF r
  <2> QED BY <2>2, <2>3
<1>6. CASE r = None
  <2>1. ASSUME Exhausted(w) PROVE Route(F) \in Mode
    <3>1. None \notin Reason
      BY NoneAssumption
    <3>2. F # {"provider_disagreement"} /\ F # {"body_size_pressure"}
      BY <1>6, <2>1, <3>1 DEF SplitReason, Reason
    <3>3. F \subseteq Fault
      BY <1>4, <3>2
    <3>4. Route(F) \in F /\ Route(F) # "body_size_pressure"
      BY <1>4, <3>2, <3>3, RouteIsOwn DEF Fault
    <3> QED BY <3>3, <3>4 DEF Fault, Mode
  <2>2. PleaFits(w, Retry(w, Route(F)))
    BY <1>2, <2>1, RetryFits
  <2> QED BY <1>3, <1>6, <2>2
<1> QED BY <1>5, <1>6

(* The part of the invariant about actors, and what leaves the others be.  *)
ActorFunctions ==
  /\ pc \in [Actor -> Labels]
  /\ try \in [Worker -> Nat]
  /\ plea \in [Worker -> PleaRow \cup {None}]
  /\ seen \in [Actor -> Nat]
  /\ page = [a \in Actor |-> page[a]]

OthersRest(a) ==
  \A b \in Actor \ {a} :
    /\ pc'[b] = pc[b] /\ at'[b] = at[b] /\ page'[b] = page[b]
    /\ b \in Worker => try'[b] = try[b] /\ plea'[b] = plea[b]

(* No worker but a gets a lease, and no attempt of a held node moves.      *)
OthersKeep(a) ==
  /\ header \subseteq header'
  /\ \A d \in Domains : lease'[d] # None /\ lease'[d].by # a =>
       lease[d] # None /\ lease'[d].by = lease[d].by /\ attempt'[d] = attempt[d]

(* One actor moves to a place that fits and takes no other's claim.        *)
LEMMA ActorMoved ==
  ASSUME EngineInv, NEW a \in Actor, ActorFunctions', OthersRest(a), OthersKeep(a),
         ActorTyped(a)', a \in Worker => ClaimStands(a)'
  PROVE  ActorsTyped' /\ ClaimsStand'
<1>1. ASSUME NEW b \in Actor, b # a PROVE ActorTyped(b)'
  BY <1>1 DEF EngineInv, ActorsTyped, ActorTyped, OthersRest
<1>2. ASSUME NEW w \in Worker, w # a PROVE ClaimStands(w)'
  <2>1. /\ w \in Actor /\ pc'[w] = pc[w] /\ at'[w] = at[w] /\ page'[w] = page[w]
        /\ try'[w] = try[w] /\ plea'[w] = plea[w] /\ header \subseteq header'
    BY <1>2 DEF OthersRest, OthersKeep, Actor
  <2>2. ClaimStands(w) /\ ActorTyped(w)
    BY <2>1 DEF EngineInv, ClaimsStand, ActorsTyped
  <2>3. ASSUME pc[w] \in {"logs", "headers", "settle"}, Owns(w)'
        PROVE  try[w] = attempt'[at[w]]
    <3>1. at[w] \in Domains
      BY <2>2, <2>3 DEF ActorTyped
    <3>2. lease'[at[w]] # None /\ lease'[at[w]].by = w
      BY <2>1, <2>3 DEF Owns
    <3>3. lease[at[w]] # None /\ lease[at[w]].by = w /\ attempt'[at[w]] = attempt[at[w]]
      BY <3>1, <3>2, <1>2 DEF OthersKeep
    <3> QED BY <2>2, <2>3, <3>3 DEF ClaimStands, Owns
  <2>4. PleaStands(w) => PleaStands(w)'
    BY <2>1 DEF PleaStands, PleaFits
  <2> QED BY <2>1, <2>2, <2>3, <2>4 DEF ClaimStands
<1>3. \A b \in Actor : ActorTyped(b)'
  BY <1>1
<1>4. \A w \in Worker : ClaimStands(w)'
  BY <1>2
<1> QED BY <1>3, <1>4 DEF ActorsTyped, ActorFunctions, ClaimsStand

(* A call that returns or fails claims nothing.                            *)
LEMMA Returned ==
  ASSUME EngineInv, NEW a \in Actor, NEW l \in {"idle", "failed"}, Return(a, l)
  PROVE  /\ ActorFunctions' /\ OthersRest(a) /\ ActorTyped(a)'
         /\ a \in Worker => ClaimStands(a)'
<1>1. pc' = [pc EXCEPT ![a] = l] /\ at' = [at EXCEPT ![a] = None]
      /\ seen' = [seen EXCEPT ![a] = 0] /\ page' = [page EXCEPT ![a] = {}]
      /\ try' = [w \in Worker |-> IF w = a THEN 0 ELSE try[w]]
      /\ plea' = [w \in Worker |-> IF w = a THEN None ELSE plea[w]]
  BY DEF Return, Goto
<1>2. ActorFunctions /\ at \in [Actor -> Domains \cup {None}]
  BY DEF EngineInv, ActorsTyped, ActorFunctions, EngineTypeOK
<1>3. l \in Labels
  BY DEF Labels
<1>4. ActorFunctions'
  <2>1. pc' \in [Actor -> Labels] /\ seen' \in [Actor -> Nat]
    BY <1>1, <1>2, <1>3 DEF ActorFunctions
  <2>2. try' \in [Worker -> Nat] /\ plea' \in [Worker -> PleaRow \cup {None}]
    BY <1>1, <1>2 DEF ActorFunctions
  <2>3. page' = [b \in Actor |-> page'[b]]
    BY <1>1, <1>2 DEF ActorFunctions
  <2> QED BY <2>1, <2>2, <2>3 DEF ActorFunctions
<1>5. OthersRest(a)
  BY <1>1, <1>2 DEF ActorFunctions, OthersRest
<1>6. pc'[a] = l
  BY <1>1, <1>2 DEF ActorFunctions
<1>7. ActorTyped(a)' /\ ClaimStands(a)'
  BY <1>6 DEF ActorTyped, ClaimStands
<1> QED BY <1>4, <1>5, <1>7

(* Nothing that leaves leases, attempts and headers alone gives a claim.   *)
LEMMA NothingClaimed ==
  ASSUME NEW a, UNCHANGED <<lease, attempt>>, header \subseteq header'
  PROVE  OthersKeep(a)
BY DEF OthersKeep

(* A step of the plan, the clock or the disk leaves every actor in place.  *)
LEMMA NobodyMoved ==
  ASSUME EngineInv, UNCHANGED actorVars, header \subseteq header',
         \A d \in Domains : lease'[d] # None =>
           lease[d] # None /\ lease'[d].by = lease[d].by /\ attempt'[d] = attempt[d]
  PROVE  ActorsTyped' /\ ClaimsStand'
<1>1. ActorsTyped'
  BY DEF EngineInv, ActorsTyped, ActorTyped, actorVars
<1>2. ASSUME NEW w \in Worker PROVE ClaimStands(w)'
  <2>1. ClaimStands(w) /\ ActorTyped(w) /\ w \in Actor
    BY DEF EngineInv, ClaimsStand, ActorsTyped, Actor
  <2>2. ASSUME pc[w] \in {"logs", "headers", "settle"}, Owns(w)'
        PROVE  try[w] = attempt'[at[w]]
    <3>1. at[w] \in Domains
      BY <2>1, <2>2 DEF ActorTyped
    <3>2. lease'[at[w]] # None /\ lease'[at[w]].by = w
      BY <2>2 DEF Owns, actorVars
    <3> QED BY <2>1, <2>2, <3>1, <3>2 DEF ClaimStands, Owns
  <2>3. PleaStands(w) => PleaStands(w)'
    BY DEF PleaStands, PleaFits, actorVars
  <2> QED BY <2>1, <2>2, <2>3 DEF ClaimStands, actorVars
<1> QED BY <1>1, <1>2 DEF ClaimsStand

(* Every actor's place, list, claim and plea fit together.                 *)
LEMMA ActorsStep ==
  ASSUME EngineInv, [EngineNext]_vars
  PROVE  ActorsTyped' /\ ClaimsStand'
<1>0. ActorFunctions /\ at \in [Actor -> Domains \cup {None}] /\ gen \in Nat
  BY DEF EngineInv, ActorsTyped, ActorFunctions, EngineTypeOK
<1>w. Worker \subseteq Actor /\ Steward \subseteq Actor
      /\ \A w \in Worker : w \notin Steward
  BY EngineAssumption DEF Actor
<1>q. ASSUME NEW a \in Actor, ActorFunctions', OthersRest(a), ActorTyped(a)',
             a \in Worker => ClaimStands(a)', UNCHANGED <<lease, attempt>>,
             header \subseteq header'
      PROVE  ActorsTyped' /\ ClaimsStand'
  BY <1>q, NothingClaimed, ActorMoved
<1>r. ASSUME NEW a \in Actor, NEW l \in {"idle", "failed"}, Return(a, l),
             UNCHANGED <<lease, attempt>>, header \subseteq header'
      PROVE  ActorsTyped' /\ ClaimsStand'
  BY <1>r, Returned, <1>q
<1>1. CASE InsertRoots \/ MarkReady \/ Attach \/ UNCHANGED vars
  BY <1>1, NobodyMoved DEF InsertRoots, MarkReady, Attach, vars, nodeVars, evidenceVars
<1>2. ASSUME NEW d \in Domains, Lapse(d) PROVE ActorsTyped' /\ ClaimsStand'
  <2>1. lease \in [Domains -> Lease \cup {None}]
    BY DEF EngineInv, EngineTypeOK
  <2> QED BY <1>2, <2>1, NobodyMoved DEF Lapse, evidenceVars
<1>3. ASSUME NEW d \in Domains, Rot(d) PROVE ActorsTyped' /\ ClaimsStand'
  BY <1>3, NobodyMoved DEF Rot, nodeVars
<1>4. ASSUME NEW a \in Actor, OpenPage(a) PROVE ActorsTyped' /\ ClaimsStand'
  <2>1. /\ pc' = [pc EXCEPT ![a] = "page"] /\ page' = [page EXCEPT ![a] = Unstamped]
        /\ seen' = [seen EXCEPT ![a] = gen] /\ UNCHANGED <<at, try, plea>>
        /\ UNCHANGED <<lease, attempt, header>>
    BY <1>4 DEF OpenPage, Goto, nodeVars, evidenceVars
  <2>2. ActorFunctions' /\ OthersRest(a) /\ pc'[a] = "page" /\ page'[a] = Unstamped
    BY <2>1, <1>0 DEF ActorFunctions, OthersRest, Labels
  <2>3. ActorTyped(a)' /\ ClaimStands(a)'
    BY <2>2 DEF ActorTyped, ClaimStands, Unstamped
  <2> QED BY <2>1, <2>2, <2>3, <1>q
<1>5. ASSUME NEW a \in Actor, Authenticate(a) PROVE ActorsTyped' /\ ClaimsStand'
  <2>0. page[a] \subseteq Domains /\ pc[a] = "page"
    BY <1>5 DEF Authenticate, EngineInv, ActorsTyped, ActorTyped
  <2>1. PICK d \in page[a], rest \in SUBSET page[a] :
          /\ page' = [page EXCEPT ![a] = rest]
          /\ \/ at' = [at EXCEPT ![a] = d] /\ pc' = [pc EXCEPT ![a] = "drop"]
             \/ UNCHANGED <<at, pc>>
          /\ UNCHANGED <<try, plea, seen, lease, attempt, header>>
    BY <1>5 DEF Authenticate, Goto, nodeVars
  <2>2. ActorFunctions' /\ OthersRest(a)
    BY <2>1, <1>0 DEF ActorFunctions, OthersRest, Labels
  <2>3. page'[a] = rest /\ (pc'[a] = "page" \/ (pc'[a] = "drop" /\ at'[a] = d))
    BY <2>0, <2>1, <1>0 DEF ActorFunctions
  <2>4. ActorTyped(a)' /\ ClaimStands(a)'
    BY <2>0, <2>1, <2>3 DEF ActorTyped, ClaimStands
  <2> QED BY <2>1, <2>2, <2>4, <1>q
<1>6. ASSUME NEW a \in Actor, Drop(a) PROVE ActorsTyped' /\ ClaimsStand'
  <2>0. page[a] \subseteq Domains
    BY <1>6 DEF Drop, EngineInv, ActorsTyped, ActorTyped
  <2>1. /\ at' = [at EXCEPT ![a] = None] /\ pc' = [pc EXCEPT ![a] = "page"]
        /\ UNCHANGED <<try, plea, seen, page, lease, attempt, header>>
    BY <1>6 DEF Drop, Goto, nodeVars
  <2>2. ActorFunctions' /\ OthersRest(a) /\ pc'[a] = "page" /\ page'[a] = page[a]
    BY <2>1, <1>0 DEF ActorFunctions, OthersRest, Labels
  <2>3. ActorTyped(a)' /\ ClaimStands(a)'
    BY <2>0, <2>2 DEF ActorTyped, ClaimStands
  <2> QED BY <2>1, <2>2, <2>3, <1>q
<1>7. ASSUME NEW a \in Actor, Crash(a) PROVE ActorsTyped' /\ ClaimsStand'
  BY <1>7, <1>r DEF Crash, nodeVars, evidenceVars
<1>8. ASSUME NEW a \in Actor, Restart(a) PROVE ActorsTyped' /\ ClaimsStand'
  <2>1. /\ pc' = [pc EXCEPT ![a] = "idle"] /\ UNCHANGED <<at, try, plea, seen, page>>
        /\ UNCHANGED <<lease, attempt, header>>
    BY <1>8 DEF Restart, Goto, nodeVars, evidenceVars
  <2>2. ActorFunctions' /\ OthersRest(a) /\ pc'[a] = "idle"
    BY <2>1, <1>0 DEF ActorFunctions, OthersRest, Labels
  <2>3. ActorTyped(a)' /\ ClaimStands(a)'
    BY <2>2 DEF ActorTyped, ClaimStands
  <2> QED BY <2>1, <2>2, <2>3, <1>q
<1>9. ASSUME NEW s \in Steward, ListMissing(s) PROVE ActorsTyped' /\ ClaimsStand'
  <2>1. /\ pc' = [pc EXCEPT ![s] = "batch"] /\ page' = [page EXCEPT ![s] = MissingBlocks]
        /\ seen' = [seen EXCEPT ![s] = 0] /\ UNCHANGED <<at, try, plea>>
        /\ UNCHANGED <<lease, attempt, header>>
    BY <1>9 DEF ListMissing, Goto, nodeVars, evidenceVars
  <2>2. ActorFunctions' /\ OthersRest(s) /\ pc'[s] = "batch" /\ page'[s] = MissingBlocks
    BY <2>1, <1>0, <1>w DEF ActorFunctions, OthersRest, Labels
  <2>3. MissingBlocks \subseteq Block
    BY RequiredIsBlocks DEF MissingBlocks, Needed
  <2>4. ActorTyped(s)' /\ ClaimStands(s)'
    BY <2>2, <2>3 DEF ActorTyped, ClaimStands
  <2> QED BY <2>1, <2>2, <2>4, <1>q, <1>w
<1>10. ASSUME NEW s \in Steward, StoreHeader(s) PROVE ActorsTyped' /\ ClaimsStand'
  <2>0. page[s] \subseteq Block /\ pc[s] = "batch"
    BY <1>10, <1>w DEF StoreHeader, EngineInv, ActorsTyped, ActorTyped
  <2>1. PICK b \in {Lowest(page[s])} : page' = [page EXCEPT ![s] = @ \ {b}] /\ Stored(b)
    BY <1>10 DEF StoreHeader
  <2>2. UNCHANGED <<pc, at, try, plea, seen, lease, attempt>> /\ header \subseteq header'
    BY <1>10, <2>1 DEF StoreHeader, nodeVars, Stored
  <2>3. ActorFunctions' /\ OthersRest(s) /\ page'[s] = page[s] \ {b}
    BY <2>1, <2>2, <1>0, <1>w DEF ActorFunctions, OthersRest
  <2>4. ActorTyped(s)' /\ ClaimStands(s)'
    BY <2>0, <2>2, <2>3 DEF ActorTyped, ClaimStands
  <2> QED BY <2>2, <2>3, <2>4, <1>q, <1>w
<1>11. ASSUME NEW s \in Steward, BatchFails(s) \/ EndTurn(s) PROVE ActorsTyped' /\ ClaimsStand'
  BY <1>11, <1>r, <1>w DEF BatchFails, EndTurn, nodeVars, evidenceVars
<1>12. ASSUME NEW s \in Steward, ListFinalizable(s) PROVE ActorsTyped' /\ ClaimsStand'
  <2>1. PICK listed \in SUBSET Domains :
          /\ pc' = [pc EXCEPT ![s] = "final"] /\ page' = [page EXCEPT ![s] = listed]
          /\ UNCHANGED <<at, try, plea, seen, lease, attempt, header>>
    BY <1>12 DEF ListFinalizable, Goto, nodeVars, evidenceVars
  <2>2. ActorFunctions' /\ OthersRest(s) /\ pc'[s] = "final" /\ page'[s] = listed
    BY <2>1, <1>0, <1>w DEF ActorFunctions, OthersRest, Labels
  <2>3. ActorTyped(s)' /\ ClaimStands(s)'
    BY <2>2 DEF ActorTyped, ClaimStands
  <2> QED BY <2>1, <2>2, <2>3, <1>q, <1>w
<1>13. ASSUME NEW s \in Steward, Finalize(s) PROVE ActorsTyped' /\ ClaimsStand'
  <2>0. page[s] \subseteq Domains /\ pc[s] = "final"
    BY <1>13, <1>w DEF Finalize, EngineInv, ActorsTyped, ActorTyped
  <2>1. PICK d \in page[s] :
          \/ page' = [page EXCEPT ![s] = @ \ {d}] /\ UNCHANGED <<pc, at, try, plea, seen>>
          \/ Return(s, "failed")
    BY <1>13 DEF Finalize
  <2>2. UNCHANGED <<lease, attempt, header>>
    BY <1>13 DEF Finalize
  <2>3. CASE Return(s, "failed")
    BY <2>2, <2>3, <1>r, <1>w
  <2>4. CASE page' = [page EXCEPT ![s] = @ \ {d}] /\ UNCHANGED <<pc, at, try, plea, seen>>
    <3>1. ActorFunctions' /\ OthersRest(s) /\ page'[s] = page[s] \ {d}
      BY <2>4, <1>0, <1>w DEF ActorFunctions, OthersRest
    <3>2. ActorTyped(s)' /\ ClaimStands(s)'
      BY <2>0, <2>4, <3>1 DEF ActorTyped, ClaimStands
    <3> QED BY <2>2, <3>1, <3>2, <1>q, <1>w
  <2> QED BY <2>1, <2>3, <2>4
<1>14. ASSUME NEW w \in Worker, NEW p, PleaFits(w, p), Settle(w, p), at[w] \in Domains,
              try[w] < MaxAttempts, Owns(w) => try[w] = attempt[at[w]],
              UNCHANGED <<at, try, seen, page, lease, attempt, header>>
       PROVE  ActorsTyped' /\ ClaimsStand'
  <2>1. pc' = [pc EXCEPT ![w] = "settle"] /\ plea' = [plea EXCEPT ![w] = p]
    BY <1>14 DEF Settle, Goto
  <2>2. p \in PleaRow
    BY <1>14 DEF PleaFits
  <2>3. ActorFunctions' /\ OthersRest(w) /\ pc'[w] = "settle" /\ plea'[w] = p
    BY <1>14, <2>1, <2>2, <1>0, <1>w DEF ActorFunctions, OthersRest, Labels
  <2>4. ActorTyped(w)'
    BY <1>14, <2>3 DEF ActorTyped
  <2>5. PleaStands(w)'
    BY <1>14, <2>3 DEF PleaStands, PleaFits
  <2>6. ClaimStands(w)'
    BY <1>14, <2>3, <2>5 DEF ClaimStands, Owns
  <2> QED BY <1>14, <2>3, <2>4, <2>6, <1>q, <1>w
<1>15. ASSUME NEW w \in Worker, pc[w] \in {"logs", "headers", "settle"}
       PROVE  /\ at[w] \in Domains /\ try[w] \in Nat /\ try[w] < MaxAttempts
              /\ Owns(w) => try[w] = attempt[at[w]]
  BY <1>15, <1>w DEF EngineInv, ActorsTyped, ActorTyped, ClaimsStand, ClaimStands
<1>16. ASSUME NEW w \in Worker, Fail(w) PROVE ActorsTyped' /\ ClaimsStand'
  <2>1. pc[w] \in {"logs", "headers"}
        /\ UNCHANGED <<at, try, seen, page, lease, attempt, header>>
    BY <1>16 DEF Fail, nodeVars, evidenceVars
  <2> QED BY <1>16, <2>1, <1>14, <1>15, FailFits
<1>17. ASSUME NEW w \in Worker, Agree(w) PROVE ActorsTyped' /\ ClaimsStand'
  <2>1. pc[w] = "logs" /\ UNCHANGED <<at, try, seen, lease, attempt, header>>
    BY <1>17 DEF Agree, nodeVars, evidenceVars
  <2>2. CASE Settle(w, Plea("candidate", None)) /\ UNCHANGED page
    <3>1. PleaFits(w, Plea("candidate", None))
      BY FitsWhen DEF Plea
    <3> QED BY <2>1, <2>2, <3>1, <1>14, <1>15
  <2>3. CASE /\ page' = [page EXCEPT ![w] = RequiredBlocks(at[w])]
             /\ Goto(w, "headers") /\ UNCHANGED plea
    <3>1. pc' = [pc EXCEPT ![w] = "headers"]
      BY <2>3 DEF Goto
    <3>2. ActorFunctions' /\ OthersRest(w) /\ pc'[w] = "headers"
          /\ page'[w] = RequiredBlocks(at[w])
      BY <2>1, <2>3, <3>1, <1>0, <1>w DEF ActorFunctions, OthersRest, Labels
    <3>3. /\ at[w] \in Domains /\ try[w] < MaxAttempts
          /\ Owns(w) => try[w] = attempt[at[w]]
      BY <2>1, <1>15
    <3>4. ActorTyped(w)'
      BY <2>1, <3>2, <3>3, RequiredIsBlocks DEF ActorTyped
    <3>5. ClaimStands(w)'
      BY <2>1, <3>2, <3>3 DEF ClaimStands, Owns
    <3> QED BY <2>1, <3>2, <3>4, <3>5, <1>q, <1>w
  <2> QED BY <1>17, <2>2, <2>3 DEF Agree
<1>18. ASSUME NEW w \in Worker, GetHeader(w) PROVE ActorsTyped' /\ ClaimsStand'
  <2>1. pc[w] = "headers" /\ UNCHANGED <<at, try, seen, lease, attempt>>
    BY <1>18 DEF GetHeader, nodeVars
  <2>2. /\ at[w] \in Domains /\ try[w] < MaxAttempts
        /\ Owns(w) => try[w] = attempt[at[w]]
    BY <2>1, <1>15
  <2>3. RequiredBlocks(at[w]) \ page[w] \subseteq header /\ page[w] \subseteq Block
    BY <2>1, <1>w DEF EngineInv, ActorsTyped, ActorTyped, ClaimsStand, ClaimStands
  <2>4. CASE page[w] = {} /\ Settle(w, Plea("agreed", None))
             /\ UNCHANGED <<page, header, backlog, missing>>
    <3>1. RequiredBlocks(at[w]) \subseteq header
      BY <2>3, <2>4
    <3>2. PleaFits(w, Plea("agreed", None))
      BY <3>1, FitsWhen DEF Plea
    <3> QED BY <2>1, <2>2, <2>4, <3>2, <1>14
  <2>5. CASE page[w] # {} /\ UNCHANGED <<pc, plea>>
             /\ LET b == Lowest(page[w]) IN page' = [page EXCEPT ![w] = @ \ {b}] /\ Stored(b)
    <3>1. PICK b \in {Lowest(page[w])} : page' = [page EXCEPT ![w] = @ \ {b}] /\ Stored(b)
      BY <2>5
    <3>2. header' = header \cup {b}
      BY <3>1 DEF Stored
    <3>3. ActorFunctions' /\ OthersRest(w) /\ page'[w] = page[w] \ {b} /\ pc'[w] = "headers"
      BY <2>1, <2>5, <3>1, <1>0, <1>w DEF ActorFunctions, OthersRest
    <3>4. ActorTyped(w)'
      BY <2>1, <2>2, <2>3, <3>3 DEF ActorTyped
    <3>5. ClaimStands(w)'
      BY <2>1, <2>2, <2>3, <3>2, <3>3 DEF ClaimStands, Owns
    <3> QED BY <2>1, <3>2, <3>3, <3>4, <3>5, <1>q, <1>w
  <2> QED BY <1>18, <2>4, <2>5 DEF GetHeader
<1>19. ASSUME NEW w \in Worker, CommitRaises(w) PROVE ActorsTyped' /\ ClaimsStand'
  <2>1. /\ pc[w] = "settle" /\ UNCHANGED <<at, try, seen, page, lease, attempt, header, pc>>
        /\ plea' = [plea EXCEPT ![w] = [Retry(w, "internal") EXCEPT !.first = FALSE]]
    BY <1>19 DEF CommitRaises, nodeVars, evidenceVars
  <2>2. PleaFits(w, [Retry(w, "internal") EXCEPT !.first = FALSE])
    BY <2>1, <1>15, RetryFits DEF Mode
  <2>3. Settle(w, [Retry(w, "internal") EXCEPT !.first = FALSE])
    BY <2>1, <1>0, <1>w DEF Settle, Goto, ActorFunctions
  <2> QED BY <2>1, <2>2, <2>3, <1>14, <1>15
<1>20. ASSUME NEW w \in Worker, Resolve(w) PROVE ActorsTyped' /\ ClaimsStand'
  <2>1. pc[w] = "settle" /\ UNCHANGED <<lease, attempt, header>>
    BY <1>20 DEF Resolve, nodeVars, evidenceVars
  <2>2. CASE Return(w, "idle") \/ Return(w, "failed")
    BY <2>1, <2>2, <1>r, <1>w
  <2>3. CASE Settle(w, [Retry(w, "internal") EXCEPT !.first = FALSE])
             /\ UNCHANGED <<at, try, seen, page>>
    <3>1. PleaFits(w, [Retry(w, "internal") EXCEPT !.first = FALSE])
      BY <2>1, <1>15, RetryFits DEF Mode
    <3> QED BY <2>1, <2>3, <3>1, <1>14, <1>15
  <2> QED BY <1>20, <2>2, <2>3 DEF Resolve
<1>21. ASSUME NEW w \in Worker, Settled(w) PROVE ActorsTyped' /\ ClaimsStand'
  <2>1. /\ at[w] \in Domains /\ lease' = [lease EXCEPT ![at[w]] = None]
        /\ Return(w, "idle") /\ header' = header
    BY <1>21, Committing
  <2>2. \A d \in Domains \ {at[w]} : attempt'[d] = attempt[d]
    BY <1>21 DEF Settled, Commit, CommitCandidate, CommitAgreed, CommitRetry, CommitTerminal,
                 CommitSplit, EngineInv, EngineTypeOK
  <2>3. lease \in [Domains -> Lease \cup {None}]
    BY DEF EngineInv, EngineTypeOK
  <2>4. OthersKeep(w)
    BY <2>1, <2>2, <2>3 DEF OthersKeep
  <2> QED BY <2>1, <2>4, <1>w, Returned, ActorMoved
<1>22. ASSUME NEW w \in Worker, Take(w) PROVE ActorsTyped' /\ ClaimsStand'
  <2> DEFINE kept == [d \in Domains |-> IF d \in Lapsed THEN None ELSE lease[d]]
  <2>1. /\ attempt' = Swept /\ UNCHANGED <<header>>
        /\ \/ lease' = kept /\ Return(w, "idle")
           \/ \E d \in Free :
                /\ lease' = [kept EXCEPT ![d] = [by |-> w, live |-> TRUE]]
                /\ at' = [at EXCEPT ![w] = d] /\ try' = [try EXCEPT ![w] = Swept[d]]
                /\ plea' = [plea EXCEPT ![w] = None]
                /\ seen' = [seen EXCEPT ![w] = 0] /\ UNCHANGED page
                /\ pc' = [pc EXCEPT ![w] = "logs"]
    BY <1>22 DEF Take, Goto, evidenceVars
  <2>2. ASSUME NEW d \in Domains, kept[d] # None
        PROVE  lease[d] # None /\ kept[d] = lease[d] /\ Swept[d] = attempt[d]
    BY <2>2, Sweep
  <2>3. CASE lease' = kept /\ Return(w, "idle")
    <3>1. OthersKeep(w)
      BY <2>1, <2>2, <2>3 DEF OthersKeep
    <3> QED BY <2>3, <3>1, <1>w, Returned, ActorMoved
  <2>4. ASSUME NEW d \in Free,
               lease' = [kept EXCEPT ![d] = [by |-> w, live |-> TRUE]],
               at' = [at EXCEPT ![w] = d], try' = [try EXCEPT ![w] = Swept[d]],
               plea' = [plea EXCEPT ![w] = None],
               seen' = [seen EXCEPT ![w] = 0], UNCHANGED page,
               pc' = [pc EXCEPT ![w] = "logs"]
        PROVE  ActorsTyped' /\ ClaimsStand'
    <3>1. d \in Domains /\ Swept[d] < MaxAttempts /\ Swept[d] \in 0..MaxAttempts
      BY Sweep DEF Free
    <3>2. \A e \in Domains : lease'[e] = IF e = d THEN [by |-> w, live |-> TRUE] ELSE kept[e]
      BY <2>4, <3>1
    <3>3. OthersKeep(w)
      <4>1. ASSUME NEW e \in Domains, lease'[e] # None, lease'[e].by # w
            PROVE  lease[e] # None /\ lease'[e].by = lease[e].by /\ attempt'[e] = attempt[e]
        <5>1. e # d
          BY <4>1, <3>2
        <5>2. lease'[e] = kept[e]
          BY <5>1, <3>2
        <5> HIDE DEF kept
        <5> QED BY <4>1, <5>2, <2>1, <2>2
      <4> QED BY <4>1, <2>1 DEF OthersKeep
    <3>4. Swept[d] \in Nat
      BY <3>1, EngineAssumption
    <3>5. /\ ActorFunctions' /\ OthersRest(w) /\ pc'[w] = "logs" /\ at'[w] = d
          /\ try'[w] = Swept[d]
      BY <2>4, <3>1, <3>4, <1>0, <1>w DEF ActorFunctions, OthersRest, Labels
    <3>6. ActorTyped(w)'
      BY <3>1, <3>5 DEF ActorTyped
    <3>7. ClaimStands(w)'
      BY <3>1, <3>5, <2>1 DEF ClaimStands, Owns
    <3> QED BY <3>3, <3>5, <3>6, <3>7, <1>w, ActorMoved
  <2> HIDE DEF kept
  <2> QED BY <2>1, <2>3, <2>4
<1>23. CASE \E a \in Actor : ActorStep(a) \/ Crash(a) \/ Restart(a)
  BY <1>23, <1>4, <1>5, <1>6, <1>7, <1>8 DEF ActorStep
<1>24. CASE \E w \in Worker : WorkerStep(w)
  BY <1>24, <1>16, <1>17, <1>18, <1>19, <1>20, <1>21, <1>22 DEF WorkerStep
<1>25. CASE \E s \in Steward : StewardStep(s)
  BY <1>25, <1>9, <1>10, <1>11, <1>12, <1>13 DEF StewardStep
<1> QED
  BY <1>1, <1>2, <1>3, <1>23, <1>24, <1>25 DEF EngineNext

-----------------------------------------------------------------------------
(* What moves nodes and evidence *)

(* The steps that touch a node row, its lease or its terminal receipt.     *)
LEMMA NodeMoves ==
  ASSUME [EngineNext]_vars
  PROVE  \/ InsertRoots
         \/ \E w \in Worker : Take(w) \/ Settled(w)
         \/ \E s \in Steward : Finalize(s)
         \/ \E d \in Domains : Lapse(d)
         \/ UNCHANGED nodeVars
<1>1. CASE InsertRoots \/ MarkReady \/ Attach \/ UNCHANGED vars
  BY <1>1 DEF MarkReady, Attach, vars
<1>2. CASE \E a \in Actor : ActorStep(a) \/ Crash(a) \/ Restart(a)
  BY <1>2 DEF ActorStep, OpenPage, Authenticate, Drop, Crash, Restart
<1>3. CASE \E w \in Worker : WorkerStep(w)
  BY <1>3 DEF WorkerStep, Fail, Agree, GetHeader, CommitRaises, Resolve
<1>4. CASE \E s \in Steward : StewardStep(s)
  BY <1>4 DEF StewardStep, ListMissing, StoreHeader, BatchFails, ListFinalizable, EndTurn
<1>5. CASE \E d \in Domains : Lapse(d) \/ Rot(d)
  BY <1>5 DEF Rot
<1> QED BY <1>1, <1>2, <1>3, <1>4, <1>5 DEF EngineNext

(* A claim makes at most one free node in flight and frees the lapsed ones.*)
LEMMA Taken ==
  ASSUME EngineInv, NEW w \in Worker, Take(w)
  PROVE  /\ \E T \in SUBSET Free :
              /\ \A d, e \in T : d = e
              /\ \A d \in Domains :
                   /\ status'[d] = IF d \in T THEN "IN_FLIGHT"
                                   ELSE IF d \in Lapsed THEN "PENDING" ELSE status[d]
                   /\ lease'[d] = IF d \in T THEN [by |-> w, live |-> TRUE]
                                  ELSE IF d \in Lapsed THEN None ELSE lease[d]
         /\ attempt' = Swept /\ terminal' = SweptTerminal
         /\ UNCHANGED <<reason, evidenceVars, planVars, faults>>
<1> DEFINE left == [d \in Domains |-> IF d \in Lapsed THEN "PENDING" ELSE status[d]]
           kept == [d \in Domains |-> IF d \in Lapsed THEN None ELSE lease[d]]
<1>1. /\ attempt' = Swept /\ terminal' = SweptTerminal
      /\ UNCHANGED <<reason, evidenceVars, planVars, faults>>
      /\ \/ status' = left /\ lease' = kept
         \/ \E d \in Free :
              /\ status' = [left EXCEPT ![d] = "IN_FLIGHT"]
              /\ lease' = [kept EXCEPT ![d] = [by |-> w, live |-> TRUE]]
  BY DEF Take
<1> DEFINE Fits(T) ==
      /\ \A d, e \in T : d = e
      /\ \A d \in Domains :
           /\ status'[d] = IF d \in T THEN "IN_FLIGHT"
                           ELSE IF d \in Lapsed THEN "PENDING" ELSE status[d]
           /\ lease'[d] = IF d \in T THEN [by |-> w, live |-> TRUE]
                          ELSE IF d \in Lapsed THEN None ELSE lease[d]
<1>2. ASSUME status' = left /\ lease' = kept
      PROVE  \E T \in SUBSET Free : Fits(T)
  <2>1. Fits({})
    BY <1>2
  <2>2. {} \in SUBSET Free
    OBVIOUS
  <2> HIDE DEF Fits
  <2> QED BY <2>1, <2>2
<1>3. ASSUME NEW c \in Free, status' = [left EXCEPT ![c] = "IN_FLIGHT"],
             lease' = [kept EXCEPT ![c] = [by |-> w, live |-> TRUE]]
      PROVE  \E T \in SUBSET Free : Fits(T)
  <2>1. c \in Domains
    BY DEF Free
  <2>2. Fits({c})
    BY <1>3, <2>1
  <2>3. {c} \in SUBSET Free
    OBVIOUS
  <2> HIDE DEF Fits
  <2> QED BY <2>2, <2>3
<1>4. \E T \in SUBSET Free : Fits(T)
  <2> HIDE DEF Fits, left, kept
  <2> QED BY <1>1, <1>2, <1>3
<1> QED BY <1>1, <1>4

(* Finalization turns at most one pending candidate with its headers into  *)
(* a leaf.                                                                 *)
LEMMA Finalized ==
  ASSUME EngineInv, NEW s \in Steward, Finalize(s)
  PROVE  /\ \/ UNCHANGED <<status, leaf>>
            \/ \E d \in Domains :
                 /\ status[d] = "PENDING" /\ cand[d] # None /\ RequiredBlocks(d) \subseteq header
                 /\ status' = [status EXCEPT ![d] = "AGREED"]
                 /\ leaf' = [leaf EXCEPT ![d] = RequiredBlocks(d)]
         /\ UNCHANGED <<attempt, reason, lease, terminal, cand, header, backlog, missing,
                        planVars>>
<1>1. page[s] \subseteq Domains
  BY DEF EngineInv, ActorsTyped, ActorTyped, Finalize, Actor
<1> QED BY <1>1 DEF Finalize, Finalizable

(* A split replaces a leased domain by new ones that cut it.               *)
LEMMA Splitting ==
  ASSUME EngineInv, NEW w \in Worker, Settled(w), plea[w].kind = "split", CommitSplit(w),
         NEW kids, kids = Children(at[w], plea[w].by)
  PROVE  /\ Cut(kids, at[w]) /\ at[w] \in Frontier /\ at[w] \notin kids
         /\ \A k \in kids : status[k] = "ABSENT"
         /\ \A d \in Domains : status'[d] = IF d = at[w] THEN "SPLIT"
                                            ELSE IF d \in kids THEN "PENDING" ELSE status[d]
         /\ UNCHANGED <<attempt, terminal, evidenceVars, planVars>>
<1>1. at[w] \in Domains /\ PleaStands(w) /\ lease[at[w]] # None /\ UNCHANGED planVars
  BY Committing
<1>2. plea[w].by \in Reason /\ kids # {}
  BY <1>1 DEF PleaStands, PleaFits
<1>3. Cut(kids, at[w])
  BY <1>1, <1>2, ChildrenCut
<1>4. at[w] \in Frontier
  BY <1>1, Leased DEF Frontier
<1>5. ASSUME NEW k \in kids PROVE k # at[w] /\ status[k] = "ABSENT"
  <2>1. k \in Domains /\ Cells(k) \subseteq Cells(at[w]) /\ k # at[w]
    BY <1>3 DEF Cut
  <2> QED BY <1>4, <2>1 DEF EngineInv, Tiling, Present
<1>6. /\ \A d \in Domains : status'[d] = IF d = at[w] THEN "SPLIT"
                                         ELSE IF d \in kids THEN "PENDING" ELSE status[d]
      /\ UNCHANGED <<attempt, terminal, evidenceVars>>
  BY DEF CommitSplit
<1> QED BY <1>1, <1>3, <1>4, <1>5, <1>6

-----------------------------------------------------------------------------
(* The area of the plan *)

(* Readiness is set once, by MarkReady.                                    *)
LEMMA ReadyMoves ==
  ASSUME [EngineNext]_vars
  PROVE  ready' = ready \/ (MarkReady /\ UNCHANGED nodeVars)
<1>1. CASE InsertRoots \/ MarkReady \/ Attach \/ UNCHANGED vars
  BY <1>1 DEF InsertRoots, MarkReady, Attach, vars, planVars
<1>2. CASE \E a \in Actor : ActorStep(a) \/ Crash(a) \/ Restart(a)
  BY <1>2 DEF ActorStep, OpenPage, Authenticate, Drop, Crash, Restart, planVars
<1>3. CASE \E w \in Worker : WorkerStep(w)
  BY <1>3 DEF WorkerStep, Take, Fail, Agree, GetHeader, Settled, CommitRaises, Resolve, planVars
<1>4. CASE \E s \in Steward : StewardStep(s)
  BY <1>4 DEF StewardStep, ListMissing, StoreHeader, BatchFails, ListFinalizable, Finalize,
              EndTurn, planVars
<1>5. CASE \E d \in Domains : Lapse(d) \/ Rot(d)
  BY <1>5 DEF Lapse, Rot, planVars
<1> QED BY <1>1, <1>2, <1>3, <1>4, <1>5 DEF EngineNext

(* Roots are inserted, and nothing else is done, until the plan is ready   *)
(* (engine 1862-1893: resume_existing and the workers need a READY plan).  *)
LEMMA RootsStep ==
  ASSUME EngineInv, [EngineNext]_vars
  PROVE  RootsFirst'
<1> SUFFICES ASSUME ready' = "INITIALIZING" PROVE RootsFirst'
  BY DEF RootsFirst
<1>0. ready = "INITIALIZING"
  BY ReadyMoves DEF MarkReady
<1>1. /\ \A a \in Actor : pc[a] = "idle"
      /\ \A d \in Domains : /\ status[d] \in {"ABSENT", "PENDING"}
                            /\ Present(d) => d \in RootFilters
  BY <1>0 DEF EngineInv, RootsFirst
<1>w. Worker \subseteq Actor /\ Steward \subseteq Actor
  BY DEF Actor
<1>2. CASE InsertRoots
  <2>1. PICK S \in SUBSET RootFilters :
          status' = [d \in Domains |-> IF d \in S /\ ~Present(d) THEN "PENDING" ELSE status[d]]
    BY <1>2 DEF InsertRoots
  <2>2. pc' = pc
    BY <1>2 DEF InsertRoots, actorVars
  <2>3. ASSUME NEW d \in Domains
        PROVE  status'[d] \in {"ABSENT", "PENDING"} /\ (Present(d)' => d \in RootFilters)
    BY <1>1, <2>1 DEF Present
  <2> QED BY <1>1, <2>2, <2>3 DEF RootsFirst
<1>3. ASSUME UNCHANGED <<pc, status>> PROVE RootsFirst'
  BY <1>1, <1>3 DEF RootsFirst, Present
<1>4. CASE MarkReady \/ Attach \/ UNCHANGED vars
  BY <1>3, <1>4 DEF MarkReady, Attach, vars, nodeVars, actorVars
<1>5. ASSUME NEW a \in Actor PROVE ~(ActorStep(a) \/ Crash(a) \/ Restart(a))
  BY <1>0, <1>1 DEF ActorStep, OpenPage, Authenticate, Drop, Crash, Restart, Works
<1>6. ASSUME NEW w \in Worker PROVE ~WorkerStep(w)
  BY <1>0, <1>1, <1>w DEF WorkerStep, Take, Fail, Agree, GetHeader, Settled, CommitRaises,
                          Resolve, Paged, Works
<1>7. ASSUME NEW s \in Steward PROVE ~StewardStep(s)
  BY <1>0, <1>1, <1>w DEF StewardStep, ListMissing, StoreHeader, BatchFails, ListFinalizable,
                          Finalize, EndTurn, Paged, Works
<1>8. ASSUME NEW d \in Domains, Lapse(d) PROVE FALSE
  <2>1. status[d] = "IN_FLIGHT"
    BY <1>8, Leased DEF Lapse
  <2> QED BY <1>1, <2>1
<1>9. ASSUME NEW d \in Domains, Rot(d) PROVE RootsFirst'
  BY <1>3, <1>9 DEF Rot, nodeVars, actorVars
<1> QED BY <1>2, <1>4, <1>5, <1>6, <1>7, <1>8, <1>9 DEF EngineNext

(* Steps that neither insert nor split keep the domains in force.          *)
LEMMA FrontierKept ==
  ASSUME EngineInv, ready' = ready,
         \A d \in Domains : /\ status'[d] = "ABSENT" <=> status[d] = "ABSENT"
                            /\ status'[d] = "SPLIT" <=> status[d] = "SPLIT"
  PROVE  Frontier' = Frontier /\ Tiling'
<1>1. Frontier' = Frontier /\ \A d \in Domains : Present(d)' <=> Present(d)
  BY DEF Frontier, Present
<1> QED BY <1>1 DEF EngineInv, Tiling

(* Inserting some roots.                                                   *)
LEMMA TilingOfRoots ==
  ASSUME EngineInv, InsertRoots
  PROVE  Tiling'
<1>1. PICK S \in SUBSET RootFilters :
        status' = [d \in Domains |-> IF d \in S /\ ~Present(d) THEN "PENDING" ELSE status[d]]
  BY DEF InsertRoots
<1>2. ready' # "READY"
  BY DEF InsertRoots, planVars
<1>3. ASSUME NEW d \in Domains, Present(d)' PROVE d \in RootFilters
  BY <1>1, <1>3 DEF InsertRoots, EngineInv, RootsFirst, Present
<1>4. ASSUME NEW d \in Frontier', NEW e \in Domains, d # e, Present(e)'
      PROVE  Cells(d) \cap Cells(e) = {} /\ ~(Cells(e) \subseteq Cells(d))
  <2>1. d \in RootFilters /\ e \in RootFilters
    BY <1>3, <1>4 DEF Frontier, Present
  <2>2. Cells(d) \cap Cells(e) = {}
    BY <2>1, <1>4, RootsApart
  <2> QED BY <2>2, DomainShape
<1>5. \A d \in Frontier' : d \in Domains /\ Present(d)'
  BY DEF Frontier, Present
<1> QED BY <1>2, <1>4, <1>5 DEF Tiling

(* The area of two sets of domains is that of the one and of the other.    *)
LEMMA UnionOfParts ==
  ASSUME NEW A, NEW B
  PROVE  UNION {Cells(d) : d \in A \cup B}
           = (UNION {Cells(d) : d \in A}) \cup (UNION {Cells(d) : d \in B})
<1> DEFINE all == UNION {Cells(d) : d \in A \cup B}
           left == UNION {Cells(d) : d \in A}
           right == UNION {Cells(d) : d \in B}
<1>1. ASSUME NEW c PROVE c \in all <=> c \in left \/ c \in right
  <2>1. c \in all <=> \E d \in A \cup B : c \in Cells(d)
    OBVIOUS
  <2>2. c \in left <=> \E d \in A : c \in Cells(d)
    OBVIOUS
  <2>3. c \in right <=> \E d \in B : c \in Cells(d)
    OBVIOUS
  <2> HIDE DEF all, left, right
  <2> QED BY <2>1, <2>2, <2>3
<1> HIDE DEF all, left, right
<1>2. all = left \cup right
  BY <1>1
<1> QED BY <1>2 DEF all, left, right

(* Replacing a domain by its parts.                                        *)
LEMMA TilingOfSplit ==
  ASSUME EngineInv, NEW x \in Frontier, NEW kids, Cut(kids, x), x \notin kids, ready' = ready,
         \A k \in kids : status[k] = "ABSENT",
         \A d \in Domains : status'[d] = IF d = x THEN "SPLIT"
                                         ELSE IF d \in kids THEN "PENDING" ELSE status[d]
  PROVE  Frontier' = (Frontier \ {x}) \cup kids /\ Tiling'
<1>1. x \in Domains /\ kids \subseteq Domains /\ Present(x) /\ status[x] # "SPLIT"
  BY DEF Cut, Frontier, Present
<1>2. Frontier' = (Frontier \ {x}) \cup kids
  BY <1>1 DEF Frontier
<1>3. \A d \in Domains : Present(d)' <=> Present(d) \/ d \in kids
  BY <1>1 DEF Present
<1>4. /\ \A d, e \in Frontier : d # e => Cells(d) \cap Cells(e) = {}
      /\ \A d \in Frontier, e \in Domains :
           (e # d /\ Present(e)) => ~(Cells(e) \subseteq Cells(d))
  BY DEF EngineInv, Tiling
<1>5. /\ UNION {Cells(k) : k \in kids} = Cells(x)
      /\ \A j, k \in kids : j # k => Cells(j) \cap Cells(k) = {}
      /\ \A k \in kids : Cells(k) # Cells(x) /\ Cells(k) \subseteq Cells(x) /\ Cells(k) # {}
  BY <1>1, DomainShape DEF Cut
<1>6. ASSUME NEW d \in Frontier', NEW e \in Frontier', d # e
      PROVE  Cells(d) \cap Cells(e) = {}
  BY <1>2, <1>4, <1>5, <1>6
<1>7. ASSUME NEW d \in Frontier', NEW e \in Domains, e # d, Present(e)'
      PROVE  ~(Cells(e) \subseteq Cells(d))
  <2>1. CASE d \in Frontier \ {x} /\ e \in kids
    <3>1. Cells(d) \cap Cells(x) = {}
      BY <1>4, <2>1
    <3> QED BY <3>1, <1>5, <2>1
  <2>2. CASE d \in Frontier \ {x} /\ Present(e)
    BY <1>4, <1>7, <2>2
  <2>3. CASE d \in kids /\ e \in kids
    BY <1>5, <1>7, <2>3
  <2>4. CASE d \in kids /\ e = x
    BY <1>5, <2>4
  <2>5. CASE d \in kids /\ e # x /\ Present(e)
    <3>1. ~(Cells(e) \subseteq Cells(x))
      BY <1>4, <2>5
    <3> QED BY <3>1, <1>5, <2>5
  <2> QED BY <1>2, <1>3, <1>7, <2>1, <2>2, <2>3, <2>4, <2>5
<1>8. ASSUME ready' = "READY"
      PROVE  UNION {Cells(d) : d \in Frontier'} = UNION {Cells(d) : d \in RootFilters}
  <2>1. UNION {Cells(d) : d \in Frontier} = UNION {Cells(d) : d \in RootFilters}
    BY <1>8 DEF EngineInv, Tiling
  <2>2. UNION {Cells(d) : d \in (Frontier \ {x}) \cup kids}
          = (UNION {Cells(d) : d \in Frontier \ {x}}) \cup (UNION {Cells(k) : k \in kids})
    BY UnionOfParts
  <2>3. UNION {Cells(d) : d \in Frontier} = (UNION {Cells(d) : d \in Frontier \ {x}}) \cup Cells(x)
    <3>1. Frontier = (Frontier \ {x}) \cup {x}
      OBVIOUS
    <3>2. UNION {Cells(d) : d \in (Frontier \ {x}) \cup {x}}
            = (UNION {Cells(d) : d \in Frontier \ {x}}) \cup (UNION {Cells(d) : d \in {x}})
      BY UnionOfParts
    <3>3. UNION {Cells(d) : d \in {x}} = Cells(x)
      OBVIOUS
    <3> QED BY <3>1, <3>2, <3>3
  <2> QED BY <1>2, <1>5, <2>1, <2>2, <2>3
<1> QED BY <1>2, <1>6, <1>7, <1>8 DEF Tiling

(* What a commit other than a split does to the rows of nodes.             *)
LEMMA SettledKinds ==
  ASSUME EngineInv, NEW w \in Worker, Settled(w)
  PROVE  \/ plea[w].kind = "split" /\ CommitSplit(w)
         \/ \E s \in {"PENDING", "AGREED"} : status' = [status EXCEPT ![at[w]] = s]
<1>1. Commit(w)
  BY DEF Settled
<1> QED BY <1>1 DEF Commit, CommitCandidate, CommitAgreed, CommitRetry, CommitTerminal

(* The domains in force keep tiling the plan.                              *)
LEMMA TilingStep ==
  ASSUME EngineInv, [EngineNext]_vars
  PROVE  Tiling'
<1>t. status \in [Domains -> {"ABSENT", "PENDING", "IN_FLIGHT", "AGREED", "SPLIT"}]
  BY DEF EngineInv, EngineTypeOK
<1>1. CASE MarkReady /\ UNCHANGED nodeVars
  <2>1. {d \in Domains : Present(d)} = RootFilters /\ ready = "INITIALIZING" /\ status' = status
    BY <1>1 DEF MarkReady, nodeVars
  <2>2. Frontier = RootFilters
    BY <2>1 DEF EngineInv, RootsFirst, Frontier, Present
  <2>3. Frontier' = Frontier /\ \A d \in Domains : Present(d)' <=> Present(d)
    BY <2>1 DEF Frontier, Present
  <2> QED BY <2>2, <2>3 DEF EngineInv, Tiling
<1>2. ASSUME ready' = ready PROVE Tiling'
  <2>1. CASE InsertRoots
    BY <2>1, TilingOfRoots
  <2>2. ASSUME NEW w \in Worker, Take(w) PROVE Tiling'
    <3>1. PICK T \in SUBSET Free :
            \A d \in Domains : status'[d] = IF d \in T THEN "IN_FLIGHT"
                                            ELSE IF d \in Lapsed THEN "PENDING" ELSE status[d]
      BY <2>2, Taken
    <3>2. ASSUME NEW d \in Domains
          PROVE  /\ status'[d] = "ABSENT" <=> status[d] = "ABSENT"
                 /\ status'[d] = "SPLIT" <=> status[d] = "SPLIT"
      <4>1. d \in Lapsed => status[d] = "IN_FLIGHT"
        BY Leased DEF Lapsed
      <4>2. d \in T => status[d] = "PENDING" \/ d \in Lapsed
        BY DEF Free
      <4> QED BY <3>1, <4>1, <4>2
    <3> QED BY <1>2, <3>2, FrontierKept
  <2>3. ASSUME NEW w \in Worker, Settled(w) PROVE Tiling'
    <3>1. at[w] \in Domains /\ status[at[w]] = "IN_FLIGHT"
      BY <2>3, Committing, Leased
    <3>2. CASE plea[w].kind = "split" /\ CommitSplit(w)
      BY <1>2, <2>3, <3>2, Splitting, TilingOfSplit
    <3>3. ASSUME NEW s \in {"PENDING", "AGREED"}, status' = [status EXCEPT ![at[w]] = s]
          PROVE  Tiling'
      <4>1. ASSUME NEW d \in Domains
            PROVE  /\ status'[d] = "ABSENT" <=> status[d] = "ABSENT"
                   /\ status'[d] = "SPLIT" <=> status[d] = "SPLIT"
        BY <1>t, <3>1, <3>3
      <4> QED BY <1>2, <4>1, FrontierKept
    <3> QED BY <2>3, <3>2, <3>3, SettledKinds
  <2>4. ASSUME NEW s \in Steward, Finalize(s) PROVE Tiling'
    <3>1. \/ status' = status
          \/ \E d \in Domains : status[d] = "PENDING" /\ status' = [status EXCEPT ![d] = "AGREED"]
      BY <2>4, Finalized
    <3>2. ASSUME NEW d \in Domains
          PROVE  /\ status'[d] = "ABSENT" <=> status[d] = "ABSENT"
                 /\ status'[d] = "SPLIT" <=> status[d] = "SPLIT"
      BY <1>t, <3>1
    <3> QED BY <1>2, <3>2, FrontierKept
  <2>5. CASE status' = status
    BY <1>2, <2>5, FrontierKept
  <2>6. (\E d \in Domains : Lapse(d)) => status' = status
    BY DEF Lapse
  <2>7. UNCHANGED nodeVars => status' = status
    BY DEF nodeVars
  <2> QED BY <2>1, <2>2, <2>3, <2>4, <2>5, <2>6, <2>7, NodeMoves
<1> QED BY <1>1, <1>2, ReadyMoves

-----------------------------------------------------------------------------
(* Claims, attempts and terminal receipts *)

(* Blocks are finite, so is what is made of them.                          *)
LEMMA BlocksAreFinite ==
  ASSUME NEW B \in SUBSET Block
  PROVE  IsFiniteSet(B) /\ Cardinality(B) \in Nat
<1>1. IsFiniteSet(Block)
  BY PlanAssumption, FS_Interval DEF Block
<1> QED BY <1>1, FS_Subset, FS_CardinalityType

(* Only a commit gives a node a candidate: a stamp or damage keeps the one *)
(* there is, a drop takes it away.                                         *)
LEMMA CandidateMoves ==
  ASSUME EngineInv, [EngineNext]_vars
  PROVE  \/ \E w \in Worker : Settled(w)
         \/ \E a \in Actor : Drop(a)
         \/ \A d \in Domains : cand'[d] = None <=> cand[d] = None
<1>0. gen \in 1..(MaxGen + 1) /\ cand \in [Domains -> Candidate \cup {None}]
  BY DEF EngineInv, EngineTypeOK
<1>1. CASE InsertRoots \/ MarkReady \/ Attach \/ UNCHANGED vars
  BY <1>1 DEF InsertRoots, MarkReady, Attach, vars, evidenceVars
<1>2. ASSUME NEW a \in Actor, Authenticate(a), NEW e \in Domains
      PROVE  cand'[e] = None <=> cand[e] = None
  <2>1. PICK d \in page[a] :
          cand' = [cand EXCEPT ![d] =
                     IF (cand[d] = None \/ cand[d].ev = "lost") \/ gen # seen[a] THEN @
                     ELSE [gen |-> gen, ev |-> @.ev]]
    BY <1>2 DEF Authenticate
  <2>2. d \in Domains
    BY <1>2 DEF EngineInv, ActorsTyped, ActorTyped, Authenticate
  <2>3. CASE (cand[d] = None \/ cand[d].ev = "lost") \/ gen # seen[a]
    BY <1>0, <2>1, <2>3
  <2>4. CASE ~((cand[d] = None \/ cand[d].ev = "lost") \/ gen # seen[a])
    <3>1. cand[d] \in Candidate
      BY <1>0, <2>2, <2>4
    <3>2. [gen |-> gen, ev |-> cand[d].ev] \in Candidate
      BY <1>0, <3>1 DEF Candidate
    <3>3. [gen |-> gen, ev |-> cand[d].ev] # None
      BY <3>2, NoneAssumption
    <3>4. cand' = [cand EXCEPT ![d] = [gen |-> gen, ev |-> cand[d].ev]]
      BY <2>1, <2>4
    <3> QED BY <1>0, <2>2, <2>4, <3>3, <3>4
  <2> QED BY <2>3, <2>4
<1>3. ASSUME NEW d \in Domains, Rot(d), NEW e \in Domains
      PROVE  cand'[e] = None <=> cand[e] = None
  <2>1. cand[d] # None /\ cand' = [cand EXCEPT ![d] = [gen |-> cand[d].gen, ev |-> "lost"]]
    BY <1>3 DEF Rot
  <2>2. cand[d] \in Candidate
    BY <1>0, <2>1
  <2>3. [gen |-> cand[d].gen, ev |-> "lost"] \in Candidate
    BY <2>2 DEF Candidate
  <2>4. [gen |-> cand[d].gen, ev |-> "lost"] # None
    BY <2>3, NoneAssumption
  <2> QED BY <1>0, <2>1, <2>4
<1>4. CASE \E a \in Actor : ActorStep(a) \/ Crash(a) \/ Restart(a)
  <2>1. ASSUME NEW a \in Actor, OpenPage(a) \/ Crash(a) \/ Restart(a)
        PROVE  cand' = cand
    BY <2>1 DEF OpenPage, Crash, Restart, evidenceVars
  <2> QED BY <1>2, <1>4, <2>1 DEF ActorStep
<1>5. CASE \E w \in Worker : WorkerStep(w)
  <2>1. ASSUME NEW w \in Worker, WorkerStep(w), ~Settled(w) PROVE cand' = cand
    BY <2>1 DEF WorkerStep, Take, Fail, Agree, GetHeader, CommitRaises, Resolve, evidenceVars
  <2> QED BY <1>5, <2>1
<1>6. CASE \E s \in Steward : StewardStep(s)
  BY <1>6 DEF StewardStep, ListMissing, StoreHeader, BatchFails, ListFinalizable, Finalize,
              EndTurn, evidenceVars
<1>7. CASE \E d \in Domains : Lapse(d)
  BY <1>7 DEF Lapse, evidenceVars
<1> QED BY <1>1, <1>3, <1>4, <1>5, <1>6, <1>7 DEF EngineNext

(* The claim and the receipts of one node.                                 *)
ClaimRow(d) ==
  /\ status[d] = "IN_FLIGHT" <=> lease[d] # None
  /\ lease[d] # None => attempt[d] < MaxAttempts /\ cand[d] = None
  /\ terminal[d] # None <=> attempt[d] = MaxAttempts
  /\ terminal[d] # None => status[d] = "PENDING" /\ cand[d] = None

(* A node whose row is left alone and that acquires nothing keeps its      *)
(* claim.                                                                  *)
LEMMA ClaimKept ==
  ASSUME EngineInv, NEW d \in Domains,
         status'[d] = status[d], lease'[d] = lease[d] \/ (lease[d] # None /\ lease'[d] # None),
         attempt'[d] = attempt[d], terminal'[d] = terminal[d],
         cand[d] = None => cand'[d] = None
  PROVE  ClaimRow(d)'
BY DEF EngineInv, LeasesAreExclusive, TerminalIsExhausted, ClaimRow

(* Claims, attempts and terminal receipts agree after every step.          *)
LEMMA ClaimsStep ==
  ASSUME EngineInv, [EngineNext]_vars
  PROVE  LeasesAreExclusive' /\ TerminalIsExhausted'
<1> SUFFICES ASSUME NEW d \in Domains PROVE ClaimRow(d)'
  BY DEF ClaimRow, LeasesAreExclusive, TerminalIsExhausted
<1>0. ClaimRow(d)
  BY DEF EngineInv, LeasesAreExclusive, TerminalIsExhausted, ClaimRow
<1>t. /\ status \in [Domains -> {"ABSENT", "PENDING", "IN_FLIGHT", "AGREED", "SPLIT"}]
      /\ attempt \in [Domains -> 0..MaxAttempts]
      /\ lease \in [Domains -> Lease \cup {None}]
      /\ cand \in [Domains -> Candidate \cup {None}]
      /\ terminal \in [Domains -> Mode \cup {None}]
      /\ MaxAttempts \in Nat \ {0}
  BY EngineAssumption DEF EngineInv, EngineTypeOK
<1>1. ASSUME NEW w \in Worker, Settled(w) PROVE ClaimRow(d)'
  <2>1. /\ at[w] \in Domains /\ lease[at[w]] # None /\ PleaStands(w)
        /\ try[w] = attempt[at[w]] /\ lease' = [lease EXCEPT ![at[w]] = None]
    BY <1>1, Committing
  <2>2. /\ status[at[w]] = "IN_FLIGHT" /\ cand[at[w]] = None /\ terminal[at[w]] = None
        /\ attempt[at[w]] \in Nat /\ attempt[at[w]] < MaxAttempts
    BY <2>1, Leased
  <2>3. Commit(w)
    BY <1>1 DEF Settled
  <2>4. ASSUME d # at[w],
               status'[d] = status[d], attempt'[d] = attempt[d], terminal'[d] = terminal[d],
               cand'[d] = cand[d]
        PROVE  ClaimRow(d)'
    BY <1>t, <2>1, <2>4, ClaimKept
  <2>5. ASSUME d = at[w], status'[d] # "IN_FLIGHT", attempt'[d] < MaxAttempts,
               attempt'[d] \in Nat, terminal'[d] = None
        PROVE  ClaimRow(d)'
    BY <1>t, <2>1, <2>5 DEF ClaimRow
  <2>6. CASE CommitCandidate(w)
    <3>1. PICK e : cand' = [cand EXCEPT ![at[w]] = [gen |-> gen, ev |-> e]]
      BY <2>6 DEF CommitCandidate
    <3>2. status' = [status EXCEPT ![at[w]] = "PENDING"] /\ UNCHANGED <<attempt, terminal>>
      BY <2>6 DEF CommitCandidate
    <3>3. d # at[w] => cand'[d] = cand[d]
      BY <1>t, <3>1
    <3> QED BY <1>t, <2>1, <2>2, <2>4, <2>5, <3>2, <3>3
  <2>7. CASE CommitAgreed(w)
    BY <1>t, <2>1, <2>2, <2>4, <2>5, <2>7 DEF CommitAgreed
  <2>8. CASE plea[w].kind = "retry" /\ CommitRetry(w)
    <3>1. attempt[at[w]] + 1 < MaxAttempts
      BY <2>1, <2>8 DEF PleaStands, PleaFits
    <3>2. /\ status' = [status EXCEPT ![at[w]] = "PENDING"]
          /\ attempt' = [attempt EXCEPT ![at[w]] = @ + 1]
          /\ UNCHANGED <<terminal, cand>>
      BY <2>8 DEF CommitRetry, evidenceVars
    <3> QED BY <1>t, <2>1, <2>2, <2>4, <2>5, <3>1, <3>2
  <2>9. CASE plea[w].kind = "terminal" /\ CommitTerminal(w)
    <3>1. plea[w].by \in Mode
      BY <2>1, <2>9 DEF PleaStands, PleaFits
    <3>2. plea[w].by # None
      BY <3>1, NoneAssumption
    <3>3. /\ status' = [status EXCEPT ![at[w]] = "PENDING"]
          /\ attempt' = [attempt EXCEPT ![at[w]] = MaxAttempts]
          /\ terminal' = [terminal EXCEPT ![at[w]] = plea[w].by]
          /\ cand' = cand
      BY <2>9 DEF CommitTerminal, evidenceVars
    <3>4. CASE d = at[w]
      BY <1>t, <2>1, <2>2, <3>2, <3>3, <3>4 DEF ClaimRow
    <3>5. CASE d # at[w]
      BY <1>t, <2>4, <3>3, <3>5
    <3> QED BY <3>4, <3>5
  <2>10. CASE plea[w].kind = "split" /\ CommitSplit(w)
    <3> DEFINE kids == Children(at[w], plea[w].by)
    <3>1. /\ at[w] \notin kids
          /\ \A k \in kids : status[k] = "ABSENT"
          /\ status'[d] = IF d = at[w] THEN "SPLIT" ELSE IF d \in kids THEN "PENDING" ELSE status[d]
          /\ UNCHANGED <<attempt, terminal, evidenceVars>>
      BY <1>1, <2>10, Splitting
    <3> HIDE DEF kids
    <3>2. cand' = cand
      BY <3>1 DEF evidenceVars
    <3>3. CASE d = at[w]
      BY <2>2, <2>5, <3>1, <3>3
    <3>4. CASE d # at[w] /\ d \notin kids
      BY <2>4, <3>1, <3>2, <3>4
    <3>5. CASE d # at[w] /\ d \in kids
      <4>1. lease'[d] = None /\ terminal[d] = None
        BY <1>0, <1>t, <2>1, <3>1, <3>5 DEF ClaimRow
      <4> QED BY <1>0, <3>1, <3>2, <3>5, <4>1 DEF ClaimRow
    <3> QED BY <3>3, <3>4, <3>5
  <2> QED BY <2>3, <2>6, <2>7, <2>8, <2>9, <2>10 DEF Commit
<1>2. ASSUME cand[d] = None => cand'[d] = None PROVE ClaimRow(d)'
  <2>1. CASE InsertRoots
    <3>1. PICK S : status' = [e \in Domains |-> IF e \in S /\ ~Present(e) THEN "PENDING"
                                                ELSE status[e]]
      BY <2>1 DEF InsertRoots
    <3>2. UNCHANGED <<attempt, lease, terminal, cand>>
      BY <2>1 DEF InsertRoots, evidenceVars
    <3>3. status'[d] = status[d] \/ (status[d] = "ABSENT" /\ status'[d] = "PENDING")
      BY <3>1 DEF Present
    <3> QED BY <1>0, <3>2, <3>3 DEF ClaimRow
  <2>2. ASSUME NEW w \in Worker, Take(w) PROVE ClaimRow(d)'
    <3>1. PICK T \in SUBSET Free :
            /\ status'[d] = IF d \in T THEN "IN_FLIGHT"
                            ELSE IF d \in Lapsed THEN "PENDING" ELSE status[d]
            /\ lease'[d] = IF d \in T THEN [by |-> w, live |-> TRUE]
                           ELSE IF d \in Lapsed THEN None ELSE lease[d]
      BY <2>2, Taken
    <3>2. attempt' = Swept /\ terminal' = SweptTerminal /\ cand' = cand
      BY <2>2, Taken DEF evidenceVars
    <3>3. d \in Lapsed => cand[d] = None
      BY Leased DEF Lapsed
    <3>4. CASE d \in T
      <4>1. /\ status[d] = "PENDING" \/ d \in Lapsed
            /\ Swept[d] < MaxAttempts /\ cand[d] = None
        BY <3>4 DEF Free
      <4>2. [by |-> w, live |-> TRUE] \in Lease
        BY DEF Lease
      <4>3. lease'[d] # None
        BY <3>1, <3>4, <4>2, NoneAssumption
      <4>4. terminal'[d] = None /\ attempt'[d] < MaxAttempts /\ attempt'[d] # MaxAttempts
        <5>1. CASE d \in Lapsed
          BY <1>t, <3>2, <4>1, <5>1, Sweep
        <5>2. CASE d \notin Lapsed
          BY <1>0, <1>t, <3>2, <4>1, <5>2, Sweep DEF ClaimRow
        <5> QED BY <5>1, <5>2
      <4> QED BY <3>1, <3>2, <3>4, <4>1, <4>3, <4>4 DEF ClaimRow
    <3>5. CASE d \notin T /\ d \in Lapsed
      <4>1. status'[d] = "PENDING" /\ lease'[d] = None
        BY <3>1, <3>5
      <4>2. terminal'[d] = (IF attempt'[d] = MaxAttempts THEN "lease_expired" ELSE None)
        BY <3>2, <3>5, Sweep
      <4>3. "lease_expired" # None
        BY NoneAssumption DEF Mode
      <4> QED BY <3>2, <3>3, <3>5, <4>1, <4>2, <4>3 DEF ClaimRow
    <3>6. CASE d \notin T /\ d \notin Lapsed
      <4>1. /\ status'[d] = status[d] /\ lease'[d] = lease[d]
            /\ attempt'[d] = attempt[d] /\ terminal'[d] = terminal[d]
        BY <3>1, <3>2, <3>6, Sweep
      <4> QED BY <1>2, <4>1, ClaimKept
    <3> QED BY <3>4, <3>5, <3>6
  <2>3. ASSUME NEW s \in Steward, Finalize(s) PROVE ClaimRow(d)'
    <3>1. /\ \/ status' = status
             \/ \E e \in Domains : /\ status[e] = "PENDING" /\ cand[e] # None
                                   /\ status' = [status EXCEPT ![e] = "AGREED"]
          /\ UNCHANGED <<attempt, lease, terminal, cand>>
      BY <2>3, Finalized
    <3>2. \/ status'[d] = status[d]
          \/ status[d] = "PENDING" /\ cand[d] # None /\ status'[d] = "AGREED"
      BY <1>t, <3>1
    <3> QED BY <1>0, <3>1, <3>2 DEF ClaimRow
  <2>4. ASSUME NEW e \in Domains, Lapse(e) PROVE ClaimRow(d)'
    <3>1. lease[e] # None /\ lease' = [lease EXCEPT ![e] = [by |-> lease[e].by, live |-> FALSE]]
      BY <2>4 DEF Lapse
    <3>2. [by |-> lease[e].by, live |-> FALSE] \in Lease
      BY <3>1, Leased DEF Lease
    <3>3. lease'[d] = lease[d] \/ (lease[d] # None /\ lease'[d] # None)
      BY <1>t, <3>1, <3>2, NoneAssumption
    <3>4. UNCHANGED <<status, attempt, terminal>>
      BY <2>4 DEF Lapse
    <3> QED BY <1>2, <3>3, <3>4, ClaimKept
  <2>5. CASE UNCHANGED nodeVars
    BY <1>2, <2>5, ClaimKept DEF nodeVars
  <2> QED BY <1>1, <2>1, <2>2, <2>3, <2>4, <2>5, NodeMoves
<1>3. ASSUME NEW a \in Actor, Drop(a) PROVE cand[d] = None => cand'[d] = None
  <2>1. cand' = [cand EXCEPT ![at[a]] = None]
    BY <1>3 DEF Drop
  <2> QED BY <1>t, <2>1
<1> QED BY <1>1, <1>2, <1>3, CandidateMoves

-----------------------------------------------------------------------------
(* Receipts, headers and the backlog *)

(* A block is needed when a candidate asks for it.                         *)
LEMMA NeededIff ==
  ASSUME NEW c, NEW b
  PROVE  b \in Needed(c) <=> \E e \in Domains : c[e] # None /\ b \in RequiredBlocks(e)
BY DEF Needed

(* Candidates on the same domains need the same blocks, and more of them   *)
(* the more.                                                               *)
LEMMA NeededSame ==
  ASSUME NEW b, NEW c, \A e \in Domains : b[e] = None <=> c[e] = None
  PROVE  Needed(b) = Needed(c)
<1>1. {e \in Domains : b[e] # None} = {e \in Domains : c[e] # None}
  OBVIOUS
<1> QED BY <1>1 DEF Needed

(* The steps that touch candidates, headers or the backlog.                *)
LEMMA EvidenceMoves ==
  ASSUME EngineInv, [EngineNext]_vars
  PROVE  \/ \E w \in Worker : Settled(w)
         \/ \E a \in Actor : Drop(a)
         \/ \E b \in Block : Stored(b) /\ UNCHANGED <<cand, nodeVars, leaf>>
         \/ /\ UNCHANGED <<header, backlog, missing>>
            /\ \A d \in Domains : cand'[d] = None <=> cand[d] = None
<1>1. CASE \E b \in Block : Stored(b) /\ UNCHANGED <<cand, nodeVars, leaf>>
  BY <1>1
<1>2. CASE UNCHANGED <<header, backlog, missing>>
  BY <1>2, CandidateMoves DEF Drop
<1>3. CASE \E w \in Worker : Settled(w)
  BY <1>3
<1>4. CASE \E a \in Actor : Drop(a)
  BY <1>4
<1>w. Worker \subseteq Actor /\ Steward \subseteq Actor
  BY DEF Actor
<1>5. ASSUME NEW w \in Worker, GetHeader(w)
      PROVE  \/ \E b \in Block : Stored(b) /\ UNCHANGED <<cand, nodeVars, leaf>>
             \/ UNCHANGED <<header, backlog, missing>>
  <2>1. page[w] \subseteq Block /\ UNCHANGED <<nodeVars, cand, leaf>>
    BY <1>5, <1>w DEF GetHeader, EngineInv, ActorsTyped, ActorTyped
  <2>2. CASE page[w] # {} /\ Stored(Lowest(page[w]))
    BY <2>1, <2>2, LowestBlock
  <2>3. CASE UNCHANGED <<page, header, backlog, missing>>
    BY <2>3
  <2> QED BY <1>5, <2>2, <2>3 DEF GetHeader
<1>6. ASSUME NEW s \in Steward, StoreHeader(s)
      PROVE  \E b \in Block : Stored(b) /\ UNCHANGED <<cand, nodeVars, leaf>>
  <2>1. page[s] \subseteq Block /\ page[s] # {} /\ UNCHANGED <<nodeVars, cand, leaf>>
    BY <1>6, <1>w DEF StoreHeader, EngineInv, ActorsTyped, ActorTyped
  <2>2. Stored(Lowest(page[s]))
    BY <1>6 DEF StoreHeader
  <2> QED BY <2>1, <2>2, LowestBlock
<1>7. CASE InsertRoots \/ MarkReady \/ Attach \/ UNCHANGED vars
  BY <1>2, <1>7 DEF InsertRoots, MarkReady, Attach, vars, evidenceVars
<1>8. CASE \E a \in Actor : ActorStep(a) \/ Crash(a) \/ Restart(a)
  <2>1. ASSUME NEW a \in Actor, OpenPage(a) \/ Crash(a) \/ Restart(a) \/ Authenticate(a)
        PROVE  UNCHANGED <<header, backlog, missing>>
    BY <2>1 DEF OpenPage, Crash, Restart, Authenticate, evidenceVars
  <2> QED BY <1>2, <1>4, <1>8, <2>1 DEF ActorStep
<1>9. CASE \E w \in Worker : WorkerStep(w)
  <2>1. ASSUME NEW w \in Worker, WorkerStep(w), ~Settled(w), ~GetHeader(w)
        PROVE  UNCHANGED <<header, backlog, missing>>
    BY <2>1 DEF WorkerStep, Take, Fail, Agree, CommitRaises, Resolve, evidenceVars
  <2> QED BY <1>1, <1>2, <1>3, <1>5, <1>9, <2>1
<1>10. CASE \E s \in Steward : StewardStep(s)
  <2>1. ASSUME NEW s \in Steward, StewardStep(s), ~StoreHeader(s)
        PROVE  UNCHANGED <<header, backlog, missing>>
    BY <2>1 DEF StewardStep, ListMissing, BatchFails, ListFinalizable, Finalize, EndTurn,
                evidenceVars
  <2> QED BY <1>1, <1>2, <1>6, <1>10, <2>1
<1>11. CASE \E d \in Domains : Lapse(d) \/ Rot(d)
  BY <1>2, <1>11 DEF Lapse, Rot, evidenceVars
<1> QED BY <1>7, <1>8, <1>9, <1>10, <1>11 DEF EngineNext

(* Headers only accumulate.                                                *)
LEMMA HeadersGrow ==
  ASSUME EngineInv, [EngineNext]_vars
  PROVE  header \subseteq header'
<1>1. (\E w \in Worker : Settled(w)) => header' = header
  BY Committing
<1>2. (\E a \in Actor : Drop(a)) => header' = header
  BY DEF Drop
<1> QED BY <1>1, <1>2, EvidenceMoves DEF Stored

(* An agreed node and its leaf receipt.                                    *)
LeafRow(d) ==
  /\ status[d] = "AGREED" <=> leaf[d] # None
  /\ leaf[d] # None => leaf[d] = RequiredBlocks(d) /\ leaf[d] \subseteq header

(* A leaf receipt is written with the agreement, over headers that stay.   *)
LEMMA LeavesStep ==
  ASSUME EngineInv, [EngineNext]_vars
  PROVE  AgreedIsEvidenced'
<1> SUFFICES ASSUME NEW d \in Domains PROVE LeafRow(d)'
  BY DEF LeafRow, AgreedIsEvidenced
<1>0. LeafRow(d) /\ header \subseteq header'
  BY HeadersGrow DEF EngineInv, AgreedIsEvidenced, LeafRow
<1>t. /\ status \in [Domains -> {"ABSENT", "PENDING", "IN_FLIGHT", "AGREED", "SPLIT"}]
      /\ leaf \in [Domains -> (SUBSET Block) \cup {None}]
  BY DEF EngineInv, EngineTypeOK
<1>r. RequiredBlocks(d) # None
  BY RequiredIsBlocks, NoneAssumption
<1>1. ASSUME leaf'[d] = leaf[d], status'[d] = "AGREED" <=> status[d] = "AGREED"
      PROVE  LeafRow(d)'
  BY <1>0, <1>1 DEF LeafRow
<1>2. ASSUME leaf'[d] = RequiredBlocks(d), status'[d] = "AGREED", RequiredBlocks(d) \subseteq header
      PROVE  LeafRow(d)'
  BY <1>0, <1>2, <1>r DEF LeafRow
<1>3. CASE InsertRoots
  <2>1. PICK S : status' = [e \in Domains |-> IF e \in S /\ ~Present(e) THEN "PENDING"
                                              ELSE status[e]]
    BY <1>3 DEF InsertRoots
  <2>2. leaf' = leaf
    BY <1>3 DEF InsertRoots, evidenceVars
  <2>3. status'[d] = "AGREED" <=> status[d] = "AGREED"
    BY <2>1 DEF Present
  <2> QED BY <1>1, <2>2, <2>3
<1>4. ASSUME NEW w \in Worker, Take(w) PROVE LeafRow(d)'
  <2>1. PICK T \in SUBSET Free :
          status'[d] = IF d \in T THEN "IN_FLIGHT"
                       ELSE IF d \in Lapsed THEN "PENDING" ELSE status[d]
    BY <1>4, Taken
  <2>2. leaf' = leaf
    BY <1>4, Taken DEF evidenceVars
  <2>3. d \in Lapsed => status[d] = "IN_FLIGHT"
    BY Leased DEF Lapsed
  <2>4. d \in T => status[d] = "PENDING" \/ d \in Lapsed
    BY DEF Free
  <2> QED BY <1>1, <2>1, <2>2, <2>3, <2>4
<1>5. ASSUME NEW w \in Worker, Settled(w) PROVE LeafRow(d)'
  <2>1. at[w] \in Domains /\ status[at[w]] = "IN_FLIGHT" /\ leaf[at[w]] = None /\ PleaStands(w)
    BY <1>5, Committing, Leased
  <2>2. Commit(w)
    BY <1>5 DEF Settled
  <2>3. CASE plea[w].kind = "agreed" /\ CommitAgreed(w)
    <3>1. /\ leaf' = [leaf EXCEPT ![at[w]] = RequiredBlocks(at[w])]
          /\ status' = [status EXCEPT ![at[w]] = "AGREED"]
      BY <2>3 DEF CommitAgreed
    <3>2. RequiredBlocks(at[w]) \subseteq header
      BY <2>1, <2>3 DEF PleaStands, PleaFits
    <3>3. CASE d = at[w]
      BY <1>2, <1>t, <2>1, <3>1, <3>2, <3>3
    <3>4. CASE d # at[w]
      BY <1>1, <1>t, <3>1, <3>4
    <3> QED BY <3>3, <3>4
  <2>4. CASE CommitCandidate(w) \/ CommitRetry(w) \/ CommitTerminal(w)
    <3>1. leaf' = leaf /\ status' = [status EXCEPT ![at[w]] = "PENDING"]
      BY <2>4 DEF CommitCandidate, CommitRetry, CommitTerminal, evidenceVars
    <3> QED BY <1>1, <1>t, <2>1, <3>1
  <2>5. CASE plea[w].kind = "split" /\ CommitSplit(w)
    <3> DEFINE kids == Children(at[w], plea[w].by)
    <3>1. /\ \A k \in kids : status[k] = "ABSENT"
          /\ status'[d] = IF d = at[w] THEN "SPLIT" ELSE IF d \in kids THEN "PENDING" ELSE status[d]
          /\ UNCHANGED evidenceVars
      BY <1>5, <2>5, Splitting
    <3> HIDE DEF kids
    <3>2. leaf' = leaf
      BY <3>1 DEF evidenceVars
    <3> QED BY <1>1, <2>1, <3>1, <3>2
  <2> QED BY <2>2, <2>3, <2>4, <2>5 DEF Commit
<1>6. ASSUME NEW s \in Steward, Finalize(s) PROVE LeafRow(d)'
  <2>1. CASE UNCHANGED <<status, leaf>>
    BY <1>1, <2>1
  <2>2. ASSUME NEW e \in Domains, status[e] = "PENDING", RequiredBlocks(e) \subseteq header,
               status' = [status EXCEPT ![e] = "AGREED"],
               leaf' = [leaf EXCEPT ![e] = RequiredBlocks(e)]
        PROVE  LeafRow(d)'
    <3>1. CASE d = e
      BY <1>2, <1>t, <2>2, <3>1
    <3>2. CASE d # e
      BY <1>1, <1>t, <2>2, <3>2
    <3> QED BY <3>1, <3>2
  <2> QED BY <1>6, <2>1, <2>2, Finalized
<1>7. CASE \E e \in Domains : Lapse(e)
  BY <1>1, <1>7 DEF Lapse, evidenceVars
<1>8. CASE UNCHANGED nodeVars
  <2>1. leaf' = leaf \/ (\E w \in Worker : Settled(w)) \/ (\E s \in Steward : Finalize(s))
    <3>1. CASE InsertRoots \/ MarkReady \/ Attach \/ UNCHANGED vars
      BY <3>1 DEF InsertRoots, MarkReady, Attach, vars, evidenceVars
    <3>2. CASE \E a \in Actor : ActorStep(a) \/ Crash(a) \/ Restart(a)
      BY <3>2 DEF ActorStep, OpenPage, Authenticate, Drop, Crash, Restart, evidenceVars
    <3>3. CASE \E w \in Worker : WorkerStep(w)
      BY <3>3 DEF WorkerStep, Take, Fail, Agree, GetHeader, CommitRaises, Resolve, evidenceVars
    <3>4. CASE \E s \in Steward : StewardStep(s)
      BY <3>4 DEF StewardStep, ListMissing, StoreHeader, BatchFails, ListFinalizable, EndTurn,
                  evidenceVars
    <3>5. CASE \E e \in Domains : Lapse(e) \/ Rot(e)
      BY <3>5 DEF Lapse, Rot, evidenceVars
    <3> QED BY <3>1, <3>2, <3>3, <3>4, <3>5 DEF EngineNext
  <2>2. leaf' = leaf => LeafRow(d)'
    BY <1>1, <1>8 DEF nodeVars
  <2> QED BY <1>5, <1>6, <2>1, <2>2
<1> QED BY <1>3, <1>4, <1>5, <1>6, <1>7, <1>8, NodeMoves

(* The backlog and its counter follow candidates and headers.              *)
LEMMA BacklogStep ==
  ASSUME EngineInv, [EngineNext]_vars
  PROVE  BacklogIsExact'
<1>0. /\ backlog = Needed(cand) \ header /\ missing = Cardinality(backlog)
      /\ backlog \subseteq Block /\ header \subseteq Block
      /\ cand \in [Domains -> Candidate \cup {None}]
  BY DEF EngineInv, BacklogIsExact, MissingBlocks, EngineTypeOK
<1>f. IsFiniteSet(backlog) /\ Cardinality(backlog) \in Nat
  BY <1>0, BlocksAreFinite
<1> SUFFICES /\ backlog' = Needed(cand') \ header'
             /\ missing' = Cardinality(backlog')
  BY DEF BacklogIsExact, MissingBlocks, Needed
<1>1. ASSUME UNCHANGED <<header, backlog, missing>>,
             \A d \in Domains : cand'[d] = None <=> cand[d] = None
      PROVE  /\ backlog' = Needed(cand') \ header'
             /\ missing' = Cardinality(backlog')
  <2>1. Needed(cand') = Needed(cand)
    BY <1>1, NeededSame
  <2> QED BY <1>0, <1>1, <2>1
<1>2. ASSUME NEW b \in Block, Stored(b), cand' = cand
      PROVE  /\ backlog' = Needed(cand') \ header'
             /\ missing' = Cardinality(backlog')
  <2>1. backlog' = backlog \ {b} /\ header' = header \cup {b}
    BY <1>2 DEF Stored
  <2>2. Cardinality(backlog \ {b}) = IF b \in backlog THEN Cardinality(backlog) - 1
                                     ELSE Cardinality(backlog)
    BY <1>f, FS_RemoveElement
  <2>3. b \in backlog => Cardinality(backlog) > 0
    <3>1. Cardinality(backlog \ {b}) \in Nat
      BY <1>0, BlocksAreFinite
    <3> QED BY <1>f, <2>2, <3>1
  <2>4. missing' = IF b \in backlog /\ missing > 0 THEN missing - 1 ELSE missing
    BY <1>2 DEF Stored
  <2>5. missing' = Cardinality(backlog')
    BY <1>0, <1>f, <2>1, <2>2, <2>3, <2>4
  <2>6. backlog' = Needed(cand') \ header'
    <3> HIDE DEF Needed
    <3> QED BY <1>0, <1>2, <2>1
  <2> QED BY <2>5, <2>6
<1>3. ASSUME NEW a \in Actor, Drop(a)
      PROVE  /\ backlog' = Needed(cand') \ header'
             /\ missing' = Cardinality(backlog')
  <2> DEFINE gone == IF cand[at[a]] = None THEN {} ELSE Unneeded(at[a], cand')
  <2>1. at[a] \in Domains
    BY <1>3 DEF Drop, EngineInv, ActorsTyped, ActorTyped
  <2>2. /\ cand' = [cand EXCEPT ![at[a]] = None] /\ header' = header
        /\ backlog' = backlog \ gone /\ missing' = missing - Cardinality(gone)
    BY <1>3 DEF Drop
  <2>3. gone \subseteq backlog
    BY DEF Unneeded
  <2>4. \A e \in Domains : cand'[e] # None <=> cand[e] # None /\ e # at[a]
    BY <1>0, <2>1, <2>2
  <2>5. CASE cand[at[a]] = None
    <3>1. gone = {}
      BY <2>5
    <3>2. \A e \in Domains : cand'[e] = None <=> cand[e] = None
      BY <2>4, <2>5
    <3>3. Needed(cand') = Needed(cand)
      BY <3>2, NeededSame
    <3>4. Cardinality({}) = 0
      BY FS_EmptySet
    <3> HIDE DEF gone
    <3> QED BY <1>0, <1>f, <2>2, <3>1, <3>3, <3>4
  <2>6. CASE cand[at[a]] # None
    <3>1. gone = (backlog \cap RequiredBlocks(at[a])) \ Needed(cand')
      BY <2>6 DEF Unneeded
    <3>2. ASSUME NEW b
          PROVE  b \in Needed(cand) <=> b \in Needed(cand') \/ b \in RequiredBlocks(at[a])
      <4>1. b \in Needed(cand) <=> \E e \in Domains : cand[e] # None /\ b \in RequiredBlocks(e)
        BY NeededIff
      <4>2. b \in Needed(cand') <=> \E e \in Domains : cand'[e] # None /\ b \in RequiredBlocks(e)
        BY NeededIff
      <4> QED BY <2>1, <2>4, <2>6, <4>1, <4>2
    <3> HIDE DEF gone
    <3>3. backlog \ gone = Needed(cand') \ header
      BY <1>0, <3>1, <3>2
    <3>4. backlog \cap gone = gone
      BY <2>3
    <3>5. Cardinality(backlog \ gone) = Cardinality(backlog) - Cardinality(gone)
      BY <1>f, <3>4, FS_Difference
    <3> QED BY <1>0, <2>2, <3>3, <3>5
  <2> QED BY <2>5, <2>6
<1>4. ASSUME NEW w \in Worker, Settled(w)
      PROVE  /\ backlog' = Needed(cand') \ header'
             /\ missing' = Cardinality(backlog')
  <2>1. at[w] \in Domains /\ cand[at[w]] = None
    BY <1>4, Committing, Leased
  <2>2. Commit(w)
    BY <1>4 DEF Settled
  <2>3. CASE ~CommitCandidate(w)
    <3>1. UNCHANGED <<header, backlog, missing, cand>>
      BY <2>2, <2>3 DEF Commit, CommitAgreed, CommitRetry, CommitTerminal, CommitSplit,
                        evidenceVars
    <3> QED BY <1>1, <3>1
  <2>4. CASE CommitCandidate(w)
    <3> DEFINE new == RequiredBlocks(at[w]) \ (header \cup backlog)
    <3>1. /\ backlog' = backlog \cup new /\ missing' = missing + Cardinality(new)
          /\ header' = header
      BY <2>4 DEF CommitCandidate
    <3>2. PICK e \in {"good", "forked"} : cand' = [cand EXCEPT ![at[w]] = [gen |-> gen, ev |-> e]]
      BY <2>4 DEF CommitCandidate
    <3>3. [gen |-> gen, ev |-> e] \in Candidate
      BY DEF Candidate, EngineInv, EngineTypeOK
    <3>4. \A f \in Domains : cand'[f] # None <=> cand[f] # None \/ f = at[w]
      BY <1>0, <2>1, <3>2, <3>3, NoneAssumption
    <3>5. ASSUME NEW b
          PROVE  b \in Needed(cand') <=> b \in Needed(cand) \/ b \in RequiredBlocks(at[w])
      <4>1. b \in Needed(cand) <=> \E f \in Domains : cand[f] # None /\ b \in RequiredBlocks(f)
        BY NeededIff
      <4>2. b \in Needed(cand') <=> \E f \in Domains : cand'[f] # None /\ b \in RequiredBlocks(f)
        BY NeededIff
      <4> QED BY <2>1, <3>4, <4>1, <4>2
    <3>6. backlog \cup new = Needed(cand') \ header
      BY <1>0, <3>5
    <3>7. IsFiniteSet(new) /\ Cardinality(new) \in Nat
      BY <2>1, RequiredIsBlocks, BlocksAreFinite
    <3>8. backlog \cap new = {}
      OBVIOUS
    <3> HIDE DEF new
    <3>9. Cardinality(backlog \cup new) = Cardinality(backlog) + Cardinality(new)
      <4>1. Cardinality(backlog \cup new)
              = Cardinality(backlog) + Cardinality(new) - Cardinality(backlog \cap new)
        BY <1>f, <3>7, FS_Union
      <4>2. Cardinality(backlog \cap new) = 0
        BY <3>8, FS_EmptySet
      <4> QED BY <1>f, <3>7, <4>1, <4>2
    <3> QED BY <1>0, <3>1, <3>6, <3>9
  <2> QED BY <2>3, <2>4
<1> QED BY <1>1, <1>2, <1>3, <1>4, EvidenceMoves

-----------------------------------------------------------------------------
(* Theorems *)

(* The invariant is kept by every step.                                    *)
LEMMA EngineInvStep ==
  ASSUME EngineInv, [EngineNext]_vars
  PROVE  EngineInv'
BY TypeStep, ActorsStep, RootsStep, TilingStep, ClaimsStep, LeavesStep, BacklogStep
   DEF EngineInv

(* Whatever workers, stewards, crashes and lapsing leases do to the        *)
(* database, its rows fit one another and what the processes know          *)
(* (uniswap_v2_pair_events_v2_engine.py).                                  *)
THEOREM EngineIsSound == EngineSpec => []EngineInv
<1>1. EngineInv /\ [EngineNext]_vars => EngineInv'
  BY EngineInvStep
<1> QED BY EngineInitInv, <1>1, PTL DEF EngineSpec

(* A node is in flight exactly under a lease, with attempts left and       *)
(* nothing acquired, and has a terminal receipt exactly when its attempts  *)
(* are used up (_expire_leases, claim_pending and the commits).            *)
THEOREM ClaimsAlwaysAgree == EngineSpec => []ClaimsAgree
<1>1. EngineInv => ClaimsAgree
  BY DEF EngineInv, ClaimsAgree
<1> QED BY <1>1, EngineIsSound, PTL

(* An agreed node has its leaf receipt over stored headers, and the header *)
(* backlog and its counter are what candidates without headers need        *)
(* (store_header, _drop_bad_candidate, finalize_candidate).                *)
THEOREM HeadersAlwaysAgree == EngineSpec => []HeadersAgree
<1>1. EngineInv => HeadersAgree
  BY DEF EngineInv, HeadersAgree
<1> QED BY <1>1, EngineIsSound, PTL

-----------------------------------------------------------------------------
(* The streaming coverage proof *)

(* The leaf that is fed last, and what the stream does with a set of them. *)
LastOf(S) ==
  CHOOSE d \in S : \A e \in S : d.lo > e.lo \/ (d.lo = e.lo /\ d.hi >= e.hi)
Clamped(a, d) == IF d.lo > Birth[a] THEN d.lo ELSE Birth[a]
Feed(a, f, S) ==
  IF S = {} THEN Fresh(a)
  ELSE IF LastOf(S).hi < Clamped(a, LastOf(S)) THEN f[S \ {LastOf(S)}]
       ELSE AddSorted(f[S \ {LastOf(S)}], Clamped(a, LastOf(S)), LastOf(S).hi)

(* A function that feeds every set of a class as the stream does.          *)
Feeds(a, D, f) == \A S \in D : f[S] = Feed(a, f, S)

(* A leaf has a first and a last block, both of the plan.                  *)
LEMMA LeafShape ==
  ASSUME NEW d \in Domain
  PROVE  /\ d.lo \in Int /\ d.hi \in Int /\ d.lo <= d.hi
         /\ Deploy <= d.lo /\ d.hi <= Cutoff /\ Deploy \in Nat /\ Cutoff \in Nat
<1>1. d.lo \in Block /\ d.hi \in Block /\ d.lo <= d.hi
  BY DEF Domain
<1>2. Deploy \in Nat /\ Cutoff \in Nat
  BY PlanAssumption
<1> QED BY <1>1, <1>2 DEF Block

(* The leaf that is fed last is one that starts last.                      *)
LEMMA LastStartsLast ==
  ASSUME NEW S \in SUBSET Domain, S # {}
  PROVE  LastOf(S) \in S /\ \A e \in S : e.lo <= LastOf(S).lo
<1> DEFINE Late == {Cutoff - d.lo : d \in S}
<1>1. ASSUME NEW d \in S
      PROVE  /\ d.lo \in Int /\ d.hi \in Int /\ Cutoff \in Nat
             /\ Cutoff - d.lo \in Nat /\ Cutoff - d.hi \in Nat
  BY LeafShape
<1>2. Late \subseteq Nat /\ Late # {}
  BY <1>1
<1>3. PICK n \in Late : \A m \in Late : n <= m
  BY <1>2, LeastNumber
<1>4. PICK h \in S : n = Cutoff - h.lo
  BY <1>3
<1>5. ASSUME NEW e \in S PROVE e.lo <= h.lo
  <2>1. Cutoff - h.lo <= Cutoff - e.lo
    BY <1>3, <1>4
  <2> QED BY <1>1, <2>1
<1> DEFINE T == {d \in S : d.lo = h.lo}
           Ends == {Cutoff - d.hi : d \in T}
<1>6. Ends \subseteq Nat /\ Ends # {}
  BY <1>1
<1>7. PICK k \in Ends : \A m \in Ends : k <= m
  BY <1>6, LeastNumber
<1>8. PICK d \in T : k = Cutoff - d.hi
  BY <1>7
<1>9. ASSUME NEW e \in S PROVE d.lo > e.lo \/ (d.lo = e.lo /\ d.hi >= e.hi)
  <2>1. CASE e.lo = h.lo
    <3>1. Cutoff - d.hi <= Cutoff - e.hi
      BY <1>7, <1>8, <2>1
    <3> QED BY <1>1, <1>8, <2>1, <3>1
  <2>2. CASE e.lo # h.lo
    <3>1. e.lo \in Int /\ h.lo \in Int /\ e.lo <= h.lo
      BY <1>1, <1>5
    <3>2. e.lo < h.lo
      BY <2>2, <3>1
    <3> QED BY <3>2
  <2> QED BY <2>1, <2>2
<1>10. PICK x \in {LastOf(S)} : TRUE
  OBVIOUS
<1>11. x \in S /\ \A e \in S : x.lo > e.lo \/ (x.lo = e.lo /\ x.hi >= e.hi)
  BY <1>8, <1>9, <1>10 DEF LastOf
<1>12. \A e \in S : e.lo <= x.lo
  BY <1>1, <1>11
<1> QED BY <1>10, <1>11, <1>12

(* A plan has finitely many domains.                                       *)
LEMMA LeavesAreFinite ==
  ASSUME NEW L \in SUBSET Domain
  PROVE  IsFiniteSet(L)
<1> DEFINE T == (Block \X Block) \X (SUBSET Pool)
           parts == [d \in L |-> <<<<d.lo, d.hi>>, d.ads>>]
<1>1. IsFiniteSet(Block) /\ IsFiniteSet(Pool)
  BY FS_Interval, PlanAssumption DEF Block
<1>2. IsFiniteSet(T)
  <2>1. IsFiniteSet(Block \X Block) /\ IsFiniteSet(SUBSET Pool)
    BY <1>1, FS_Product, FS_SUBSET
  <2> QED BY <2>1, FS_Product
<1>3. parts \in [L -> T]
  BY DEF Domain
<1>4. ASSUME NEW d \in L, NEW e \in L, parts[d] = parts[e] PROVE d = e
  <2>1. d.lo = e.lo /\ d.hi = e.hi /\ d.ads = e.ads
    BY <1>4
  <2> QED BY <2>1 DEF Domain
<1> HIDE DEF parts, T
<1>5. parts \in Injection(L, T)
  BY <1>3, <1>4 DEF Injection, IsInjective
<1> QED BY <1>2, <1>5, FS_Injection

(* Sets with one leaf more can be fed as well.                             *)
LEMMA FeedMore ==
  ASSUME NEW a, NEW L \in SUBSET Domain, NEW n \in Nat, NEW f, Feeds(a, Part(L, n), f)
  PROVE  \E g : Feeds(a, Part(L, n + 1), g)
<1> DEFINE g == [S \in Part(L, n + 1) |-> Feed(a, f, S)]
<1>1. ASSUME NEW S \in Part(L, n + 1)
      PROVE  S \in SUBSET L /\ IsFiniteSet(S) /\ Cardinality(S) \in Nat
  BY LeavesAreFinite, FS_Subset, FS_CardinalityType DEF Part
<1>2. ASSUME NEW S \in Part(L, n + 1), S # {}
      PROVE  S \ {LastOf(S)} \in Part(L, n)
  <2>1. LastOf(S) \in S
    BY <1>1, <1>2, LastStartsLast
  <2>2. Cardinality(S \ {LastOf(S)}) = Cardinality(S) - 1
    BY <1>1, <2>1, FS_RemoveElement
  <2>3. Cardinality(S) <= n + 1
    BY DEF Part
  <2>4. Cardinality(S \ {LastOf(S)}) <= n
    BY <1>1, <2>2, <2>3
  <2> QED BY <1>1, <2>4 DEF Part
<1>3. ASSUME NEW S \in Part(L, n) PROVE S \in Part(L, n + 1) /\ g[S] = f[S]
  <2>1. S \in SUBSET L /\ Cardinality(S) <= n
    BY DEF Part
  <2>2. Cardinality(S) \in Nat
    BY <2>1, LeavesAreFinite, FS_Subset, FS_CardinalityType
  <2>3. S \in Part(L, n + 1)
    BY <2>1, <2>2 DEF Part
  <2>4. f[S] = Feed(a, f, S)
    BY DEF Feeds
  <2> QED BY <2>3, <2>4
<1>4. ASSUME NEW S \in Part(L, n + 1) PROVE g[S] = Feed(a, g, S)
  <2>1. g[S] = Feed(a, f, S)
    OBVIOUS
  <2>2. CASE S = {}
    BY <2>1, <2>2 DEF Feed
  <2>3. CASE S # {}
    <3>1. g[S \ {LastOf(S)}] = f[S \ {LastOf(S)}]
      BY <1>2, <1>3, <2>3
    <3> HIDE DEF g
    <3> QED BY <2>1, <2>3, <3>1 DEF Feed
  <2> QED BY <2>2, <2>3
<1> HIDE DEF g
<1>5. Feeds(a, Part(L, n + 1), g)
  BY <1>4 DEF Feeds
<1> QED BY <1>5

(* The recursion of the stream has a solution.                             *)
LEMMA FeedExists ==
  ASSUME NEW a, NEW L \in SUBSET Domain
  PROVE  \E f : f = [S \in SUBSET L |-> Feed(a, f, S)]
<1> DEFINE Bad == {n \in Nat : ~\E f : Feeds(a, Part(L, n), f)}
<1>0. IsFiniteSet(L)
  BY LeavesAreFinite
<1>1. 0 \notin Bad
  <2> DEFINE f == [S \in Part(L, 0) |-> Fresh(a)]
  <2>1. ASSUME NEW S \in Part(L, 0) PROVE S = {}
    <3>1. IsFiniteSet(S) /\ Cardinality(S) \in Nat /\ Cardinality(S) <= 0
      BY <1>0, FS_Subset, FS_CardinalityType DEF Part
    <3>2. Cardinality(S) = 0
      BY <3>1
    <3> QED BY <3>1, <3>2, FS_EmptySet
  <2>2. Feeds(a, Part(L, 0), f)
    BY <2>1 DEF Feeds, Feed
  <2> QED BY <2>2
<1>2. Bad = {}
  <2> SUFFICES ASSUME Bad # {} PROVE FALSE
    OBVIOUS
  <2>1. PICK n \in Bad : \A m \in Bad : n <= m
    BY LeastNumber
  <2>2. n \in Nat /\ n - 1 \in Nat /\ n - 1 \notin Bad
    BY <1>1, <2>1
  <2>3. PICK f : Feeds(a, Part(L, n - 1), f)
    BY <2>2
  <2>4. \E g : Feeds(a, Part(L, (n - 1) + 1), g)
    BY <2>2, <2>3, FeedMore
  <2>5. (n - 1) + 1 = n
    BY <2>2
  <2> QED BY <2>4, <2>5
<1>3. Cardinality(L) \in Nat
  BY <1>0, FS_CardinalityType
<1>4. PICK h : Feeds(a, Part(L, Cardinality(L)), h)
  BY <1>2, <1>3
<1>5. Part(L, Cardinality(L)) = SUBSET L
  BY <1>0, FS_Subset DEF Part
<1> DEFINE f == [S \in SUBSET L |-> h[S]]
<1>6. ASSUME NEW S \in SUBSET L PROVE f[S] = Feed(a, f, S)
  <2>1. f[S] = Feed(a, h, S)
    BY <1>4, <1>5 DEF Feeds
  <2>2. CASE S = {}
    BY <2>1, <2>2 DEF Feed
  <2>3. CASE S # {}
    <3>1. f[S \ {LastOf(S)}] = h[S \ {LastOf(S)}]
      OBVIOUS
    <3> HIDE DEF f
    <3> QED BY <2>1, <2>3, <3>1 DEF Feed
  <2> QED BY <2>2, <2>3
<1>7. f = [S \in SUBSET L |-> f[S]]
  OBVIOUS
<1> HIDE DEF f
<1>8. f = [S \in SUBSET L |-> Feed(a, f, S)]
  BY <1>6, <1>7
<1> QED BY <1>8

(* The stream is what that function gives all the leaves.                  *)
LEMMA Streamed ==
  ASSUME NEW a, NEW L \in SUBSET Domain
  PROVE  \E f : Feeds(a, SUBSET L, f) /\ Stream(a, L) = f[L]
<1> DEFINE Fed(f) == f = [S \in SUBSET L |-> Feed(a, f, S)]
<1>1. \E f : Fed(f)
  BY FeedExists
<1>2. Stream(a, L) = (CHOOSE f : Fed(f))[L]
  BY DEF Stream, Feed, LastOf, Clamped
<1> PICK g \in {CHOOSE f : Fed(f)} : TRUE
  OBVIOUS
<1>3. Fed(g)
  BY <1>1
<1>4. Feeds(a, SUBSET L, g)
  BY <1>3 DEF Feeds
<1> QED BY <1>2, <1>4

(* Two leaves that share a block of the pool's life.                       *)
Shared(a, S) ==
  \E b \in Birth[a]..Cutoff : \E d, e \in S :
    d # e /\ b \in d.lo..d.hi /\ b \in e.lo..e.hi

(* A block before the start of a leaf that no leaf has.                    *)
Skipped(a, S, end) ==
  \E b \in Birth[a]..end : /\ \A d \in S : b \notin d.lo..d.hi
                           /\ \E d \in S : b < d.lo

(* What the cursor says of the leaves that it was fed.                     *)
CursorFits(a, S, c) ==
  /\ c.end \in Int /\ Birth[a] - 1 <= c.end
  /\ c.end = Birth[a] - 1 \/ \E d \in S : c.end = d.hi
  /\ \A d \in S : d.hi <= c.end
  /\ c.over <=> Shared(a, S)
  /\ c.gap => Skipped(a, S, c.end)
  /\ ~c.gap => \A b \in Birth[a]..c.end : \E d \in S : b \in d.lo..d.hi
  /\ ~c.gap /\ ~c.over => c.covered = c.end - Birth[a] + 1

(* A pool is born within the plan.                                         *)
LEMMA PoolShape ==
  ASSUME NEW a \in Pool
  PROVE  Birth[a] \in Int /\ Cutoff \in Int /\ Birth[a] <= Cutoff
BY PlanAssumption DEF Block

(* The cursor before the first leaf.                                       *)
LEMMA FreshFits ==
  ASSUME NEW a \in Pool
  PROVE  CursorFits(a, {}, Fresh(a))
<1> DEFINE c == Fresh(a)
<1>1. c.end = Birth[a] - 1 /\ c.covered = 0 /\ c.gap = FALSE /\ c.over = FALSE
  BY DEF Fresh
<1>2. Birth[a] \in Int
  BY PoolShape
<1> HIDE DEF c
<1>3. CursorFits(a, {}, c)
  BY <1>1, <1>2 DEF CursorFits, Shared
<1> QED BY <1>3 DEF c

(* A leaf that ends before the pool is born changes nothing.               *)
LEMMA UnbornFits ==
  ASSUME NEW a \in Pool, NEW S \in SUBSET Domain, NEW d \in S, NEW c,
         \A e \in S : e.lo <= d.lo, CursorFits(a, S \ {d}, c), d.hi < Birth[a]
  PROVE  CursorFits(a, S, c)
<1>1. Birth[a] \in Int /\ Cutoff \in Int /\ c.end \in Int /\ Birth[a] - 1 <= c.end
  BY PoolShape DEF CursorFits
<1>2. ASSUME NEW e \in S PROVE e.lo \in Int /\ e.hi \in Int /\ e.lo <= e.hi
  BY LeafShape
<1>3. ASSUME NEW b \in Int, Birth[a] <= b PROVE b \notin d.lo..d.hi
  BY <1>1, <1>2, <1>3
<1>4. c.over <=> Shared(a, S)
  <2>1. c.over <=> Shared(a, S \ {d})
    BY DEF CursorFits
  <2>2. Shared(a, S) <=> Shared(a, S \ {d})
    BY <1>1, <1>3 DEF Shared
  <2> QED BY <2>1, <2>2
<1>5. c.gap => Skipped(a, S, c.end)
  <2> SUFFICES ASSUME c.gap PROVE Skipped(a, S, c.end)
    OBVIOUS
  <2>1. PICK b \in Birth[a]..c.end : /\ \A e \in S \ {d} : b \notin e.lo..e.hi
                                   /\ \E e \in S \ {d} : b < e.lo
    BY DEF CursorFits, Skipped
  <2>2. b \in Int /\ Birth[a] <= b
    BY <1>1
  <2>3. b \notin d.lo..d.hi
    BY <1>3, <2>2
  <2>4. \A e \in S : b \notin e.lo..e.hi
    BY <2>1, <2>3
  <2>5. \E e \in S : b < e.lo
    BY <2>1
  <2> QED BY <2>4, <2>5 DEF Skipped
<1>6. \A e \in S : e.hi <= c.end
  BY <1>1, <1>2 DEF CursorFits
<1> QED BY <1>4, <1>5, <1>6 DEF CursorFits

(* A leaf that reaches into the pool's life.                               *)
LEMMA AddedFits ==
  ASSUME NEW a \in Pool, NEW S \in SUBSET Domain, NEW d \in S, NEW c,
         \A e \in S : e.lo <= d.lo, CursorFits(a, S \ {d}, c),
         NEW lo, lo = Clamped(a, d), lo <= d.hi
  PROVE  CursorFits(a, S, AddSorted(c, lo, d.hi))
<1> DEFINE t == AddSorted(c, lo, d.hi)
<1>1. Birth[a] \in Int /\ Cutoff \in Int /\ c.end \in Int /\ Birth[a] - 1 <= c.end
  BY PoolShape DEF CursorFits
<1>2. ASSUME NEW e \in S PROVE e.lo \in Int /\ e.hi \in Int /\ e.lo <= e.hi /\ e.hi <= Cutoff
  BY LeafShape
<1>3. /\ lo \in Int /\ Birth[a] <= lo /\ d.lo <= lo /\ (lo = d.lo \/ lo = Birth[a])
  BY <1>1, <1>2 DEF Clamped
<1>4. \A e \in S \ {d} : e.hi <= c.end
  BY DEF CursorFits
<1>5. CASE lo <= c.end
  <2>1. /\ t.end = IF d.hi > c.end THEN d.hi ELSE c.end
        /\ t.gap = c.gap /\ t.over = TRUE
    BY <1>5 DEF AddSorted
  <2> HIDE DEF t
  <2>2. PICK e \in S \ {d} : c.end = e.hi
    BY <1>1, <1>3, <1>5 DEF CursorFits
  <2>3. lo \in d.lo..d.hi /\ lo \in e.lo..e.hi
    <3>1. e.lo <= d.lo
      BY <2>2
    <3> QED BY <1>2, <1>3, <1>5, <2>2, <3>1
  <2>4. Shared(a, S)
    <3>1. lo \in Birth[a]..Cutoff
      BY <1>1, <1>2, <1>3
    <3>2. e \in S /\ d # e
      BY <2>2
    <3> QED BY <2>3, <3>1, <3>2 DEF Shared
  <2>5. t.end \in Int /\ c.end <= t.end /\ d.hi <= t.end /\ (t.end = c.end \/ t.end = d.hi)
    BY <1>1, <1>2, <2>1
  <2>6. \E x \in S : t.end = x.hi
    BY <2>2, <2>5
  <2>7. ASSUME NEW x \in S PROVE x.hi <= t.end
    BY <1>1, <1>2, <1>4, <2>5
  <2>8. ASSUME t.gap PROVE Skipped(a, S, t.end)
    <3>1. PICK b \in Birth[a]..c.end : /\ \A x \in S \ {d} : b \notin x.lo..x.hi
                                     /\ \E x \in S \ {d} : b < x.lo
      BY <2>1, <2>8 DEF CursorFits, Skipped
    <3>2. PICK x \in S \ {d} : b < x.lo
      BY <3>1
    <3>3. b < d.lo
      BY <1>1, <1>2, <3>2
    <3>4. b \notin d.lo..d.hi
      BY <1>1, <1>2, <3>3
    <3>5. b \in Birth[a]..t.end
      BY <1>1, <2>5
    <3> QED BY <3>1, <3>3, <3>4, <3>5 DEF Skipped
  <2>9. ASSUME ~t.gap, NEW b \in Birth[a]..t.end PROVE \E x \in S : b \in x.lo..x.hi
    <3>1. CASE b <= c.end
      <4>1. b \in Birth[a]..c.end
        BY <1>1, <2>5, <3>1
      <4> QED BY <2>1, <2>9, <4>1 DEF CursorFits
    <3>2. CASE c.end < b
      <4>1. b \in d.lo..d.hi
        BY <1>1, <1>2, <1>3, <1>5, <2>5, <3>2
      <4> QED BY <4>1
    <3> QED BY <1>1, <2>5, <3>1, <3>2
  <2>10. CursorFits(a, S, t)
    BY <1>1, <2>1, <2>4, <2>5, <2>6, <2>7, <2>8, <2>9 DEF CursorFits
  <2> QED BY <2>10 DEF t
<1>6. CASE c.end < lo
  <2>1. /\ t.end = d.hi /\ t.covered = c.covered + d.hi - lo + 1
        /\ t.gap = (c.gap \/ lo > c.end + 1) /\ t.over = c.over
    <3> DEFINE r == [end |-> d.hi, covered |-> c.covered + d.hi - lo + 1,
                     gap |-> (c.gap \/ lo > c.end + 1), over |-> c.over]
    <3>1. ~(lo <= c.end)
      BY <1>1, <1>3, <1>6
    <3>2. t = r
      BY <3>1 DEF AddSorted
    <3>3. /\ r.end = d.hi /\ r.covered = c.covered + d.hi - lo + 1
          /\ r.gap = (c.gap \/ lo > c.end + 1) /\ r.over = c.over
      BY Zenon
    <3> HIDE DEF t, r
    <3> QED BY <3>2, <3>3
  <2> HIDE DEF t
  <2>2. t.end \in Int /\ Birth[a] - 1 <= t.end /\ c.end <= t.end
    BY <1>1, <1>2, <1>3, <1>6, <2>1
  <2>3. ASSUME NEW x \in S PROVE x.hi <= t.end
    BY <1>1, <1>2, <1>4, <2>1, <2>2
  <2>4. t.over <=> Shared(a, S)
    <3>1. c.over <=> Shared(a, S \ {d})
      BY DEF CursorFits
    <3>2. ASSUME NEW x \in S \ {d}, NEW b \in Birth[a]..Cutoff, b \in x.lo..x.hi
          PROVE  b \notin d.lo..d.hi
      <4>1. b \in Int /\ Birth[a] <= b /\ b <= c.end
        BY <1>1, <1>2, <1>4, <3>2
      <4> QED BY <1>1, <1>2, <1>3, <1>6, <4>1
    <3>3. Shared(a, S) <=> Shared(a, S \ {d})
      BY <3>2 DEF Shared
    <3> QED BY <2>1, <3>1, <3>3
  <2>5. ASSUME t.gap PROVE Skipped(a, S, t.end)
    <3>1. CASE c.gap
      <4>1. PICK b \in Birth[a]..c.end : /\ \A x \in S \ {d} : b \notin x.lo..x.hi
                                       /\ \E x \in S \ {d} : b < x.lo
        BY <3>1 DEF CursorFits, Skipped
      <4>2. PICK x \in S \ {d} : b < x.lo
        BY <4>1
      <4>3. b < d.lo
        BY <1>1, <1>2, <4>2
      <4>4. b \notin d.lo..d.hi
        BY <1>1, <1>2, <4>3
      <4>5. b \in Birth[a]..t.end
        BY <1>1, <2>2
      <4> QED BY <4>1, <4>3, <4>4, <4>5 DEF Skipped
    <3>2. CASE lo > c.end + 1
      <4>1. PICK b \in Int : b = c.end + 1
        BY <1>1
      <4>2. lo = d.lo /\ b < d.lo /\ Birth[a] <= b
        BY <1>1, <1>3, <3>2, <4>1
      <4>3. b \in Birth[a]..t.end
        BY <1>1, <1>2, <2>1, <4>1, <4>2
      <4>4. ASSUME NEW x \in S PROVE b \notin x.lo..x.hi
        <5>1. CASE x = d
          BY <1>2, <4>2, <5>1
        <5>2. CASE x # d
          <6>1. x.hi <= c.end
            BY <1>4, <5>2
          <6> QED BY <1>1, <1>2, <4>1, <6>1
        <5> QED BY <5>1, <5>2
      <4> QED BY <4>2, <4>3, <4>4 DEF Skipped
    <3> QED BY <2>1, <2>5, <3>1, <3>2
  <2>6. ASSUME ~t.gap, NEW b \in Birth[a]..t.end PROVE \E x \in S : b \in x.lo..x.hi
    <3>1. CASE b <= c.end
      <4>1. b \in Birth[a]..c.end
        BY <1>1, <2>2, <3>1
      <4> QED BY <2>1, <2>6, <4>1 DEF CursorFits
    <3>2. CASE c.end < b
      <4>0. ~(lo > c.end + 1)
        BY <2>1, <2>6
      <4>1. lo <= b
        BY <1>1, <1>3, <2>2, <3>2, <4>0
      <4>2. b \in d.lo..d.hi
        BY <1>2, <1>3, <2>1, <2>2, <4>1
      <4> QED BY <4>2
    <3> QED BY <1>1, <2>2, <3>1, <3>2
  <2>7. ASSUME ~t.gap, ~t.over PROVE t.covered = t.end - Birth[a] + 1
    <3>1. ~c.gap /\ ~c.over /\ ~(lo > c.end + 1)
      BY <2>1, <2>7
    <3>2. c.covered = c.end - Birth[a] + 1 /\ lo = c.end + 1
      BY <1>1, <1>3, <1>6, <3>1 DEF CursorFits
    <3> QED BY <1>1, <1>2, <1>3, <2>1, <3>2
  <2>8. CursorFits(a, S, t)
    BY <2>1, <2>2, <2>3, <2>4, <2>5, <2>6, <2>7 DEF CursorFits
  <2> QED BY <2>8 DEF t
<1> QED BY <1>1, <1>3, <1>5, <1>6

(* What the stream returns fits all the leaves.                            *)
LEMMA StreamFits ==
  ASSUME NEW a \in Pool, NEW L \in SUBSET Domain
  PROVE  CursorFits(a, L, Stream(a, L))
<1>1. PICK f : Feeds(a, SUBSET L, f) /\ Stream(a, L) = f[L]
  BY Streamed
<1> DEFINE Odd == {S \in SUBSET L : ~CursorFits(a, S, f[S])}
<1>2. Odd = {}
  <2> SUFFICES ASSUME Odd # {} PROVE FALSE
    OBVIOUS
  <2>1. PICK S \in Odd : \A x \in S : S \ {x} \notin Odd
    BY LeavesAreFinite, FirstFailure
  <2>2. S \in SUBSET L /\ ~CursorFits(a, S, f[S]) /\ f[S] = Feed(a, f, S)
    BY <1>1, <2>1 DEF Feeds
  <2>3. S # {}
    BY <2>2, FreshFits DEF Feed
  <2> DEFINE d == LastOf(S)
             c == f[S \ {d}]
  <2>4. S \in SUBSET Domain /\ d \in S /\ \A e \in S : e.lo <= d.lo
    BY <2>2, <2>3, LastStartsLast
  <2>5. f[S] = IF d.hi < Clamped(a, d) THEN c ELSE AddSorted(c, Clamped(a, d), d.hi)
    BY <2>2, <2>3 DEF Feed
  <2>6. CursorFits(a, S \ {d}, c)
    BY <2>1, <2>2, <2>4
  <2> HIDE DEF d, c
  <2>7. d.lo \in Int /\ d.hi \in Int /\ d.lo <= d.hi /\ Birth[a] \in Int
    BY <2>4, LeafShape, PoolShape
  <2>8. PICK lo \in Int : lo = Clamped(a, d) /\ (lo = d.lo \/ lo = Birth[a])
    BY <2>7 DEF Clamped
  <2>9. CASE d.hi < lo
    <3>1. d.hi < Birth[a]
      BY <2>7, <2>8, <2>9
    <3> QED BY <2>2, <2>4, <2>5, <2>6, <2>8, <2>9, <3>1, UnbornFits
  <2>10. CASE lo <= d.hi
    <3>1. CursorFits(a, S, AddSorted(c, lo, d.hi))
      BY <2>4, <2>6, <2>8, <2>10, AddedFits
    <3> QED BY <2>2, <2>5, <2>7, <2>8, <2>10, <3>1
  <2> QED BY <2>7, <2>8, <2>9, <2>10
<1> QED BY <1>1, <1>2

(* Every block of the pool's life lies in exactly one leaf that names it.  *)
CoveredOnce(a, L) ==
  \A b \in Birth[a]..Cutoff :
    \E d \in L : /\ <<b, a>> \in Cells(d)
                 /\ \A e \in L : <<b, a>> \in Cells(e) => e = d

(* For any set of leaves, however cut and in whatever order they were      *)
(* written, the streaming proof finds a pool complete exactly when every   *)
(* block of its life lies in one leaf and no more: it fails on every gap   *)
(* and every overlap (prove_full_registry_coverage, add_sorted).           *)
THEOREM StreamDecidesCoverage ==
  \A a \in Pool, L \in SUBSET Domain : Complete(a, L) <=> CoveredOnce(a, L)
<1> SUFFICES ASSUME NEW a \in Pool, NEW L \in SUBSET Domain
             PROVE  Complete(a, L) <=> CoveredOnce(a, L)
  OBVIOUS
<1> DEFINE S == {d \in L : a \in d.ads}
           c == Stream(a, S)
<1>1. Complete(a, L) <=> /\ ~c.gap /\ c.end >= Cutoff /\ ~c.over
                         /\ c.covered = Cutoff - Birth[a] + 1
  BY DEF Complete
<1>2. CursorFits(a, S, c)
  BY StreamFits
<1>3. ASSUME NEW d, NEW b PROVE d \in L /\ <<b, a>> \in Cells(d) <=> d \in S /\ b \in d.lo..d.hi
  BY DEF Cells
<1>4. Birth[a] \in Int /\ Cutoff \in Int /\ Birth[a] <= Cutoff /\ c.end \in Int
  BY <1>2, PoolShape DEF CursorFits
<1>5. ASSUME NEW d \in S PROVE d.lo \in Int /\ d.hi \in Int /\ d.hi <= Cutoff
  BY LeafShape
<1> HIDE DEF S, c
<1>6. c.end <= Cutoff
  BY <1>2, <1>4, <1>5 DEF CursorFits
<1>7. ASSUME ~c.gap, c.end >= Cutoff, ~c.over PROVE CoveredOnce(a, L)
  <2> SUFFICES ASSUME NEW b \in Birth[a]..Cutoff
               PROVE  \E d \in L : /\ <<b, a>> \in Cells(d)
                                   /\ \A e \in L : <<b, a>> \in Cells(e) => e = d
    BY DEF CoveredOnce
  <2>1. b \in Birth[a]..c.end
    BY <1>4, <1>7
  <2>2. PICK d \in S : b \in d.lo..d.hi
    BY <1>2, <1>7, <2>1 DEF CursorFits
  <2>3. \A e \in S : b \in e.lo..e.hi => e = d
    BY <1>2, <1>7, <2>2 DEF CursorFits, Shared
  <2> QED BY <1>3, <2>2, <2>3
<1>8. ASSUME CoveredOnce(a, L)
      PROVE  ~c.gap /\ c.end >= Cutoff /\ ~c.over /\ c.covered = Cutoff - Birth[a] + 1
  <2>1. ASSUME NEW b \in Birth[a]..Cutoff
        PROVE  \E d \in S : b \in d.lo..d.hi /\ \A e \in S : b \in e.lo..e.hi => e = d
    BY <1>3, <1>8 DEF CoveredOnce
  <2>2. ~c.gap
    <3>1. ~Skipped(a, S, c.end)
      BY <1>4, <1>6, <2>1 DEF Skipped
    <3> QED BY <1>2, <3>1 DEF CursorFits
  <2>3. ~c.over
    <3>1. ~Shared(a, S)
      BY <2>1 DEF Shared
    <3> QED BY <1>2, <3>1 DEF CursorFits
  <2>4. c.end >= Cutoff
    <3>1. Cutoff \in Birth[a]..Cutoff
      BY <1>4
    <3>2. PICK d \in S : Cutoff \in d.lo..d.hi
      BY <2>1, <3>1
    <3>3. Cutoff <= d.hi /\ d.hi <= c.end
      BY <1>2, <1>5, <3>2 DEF CursorFits
    <3> QED BY <1>4, <1>5, <3>3
  <2>5. c.end = Cutoff
    BY <1>4, <1>6, <2>4
  <2>6. c.covered = Cutoff - Birth[a] + 1
    BY <1>2, <2>2, <2>3, <2>5 DEF CursorFits
  <2> QED BY <2>2, <2>3, <2>4, <2>6
<1> QED BY <1>1, <1>7, <1>8

(* Every block of a pool's life lies in a root that names the pool         *)
(* (uniswap_v2_pair_events_v2.py:365-419).                                 *)
LEMMA RootsCover ==
  ASSUME NEW a \in Pool, NEW b \in Birth[a]..Cutoff
  PROVE  \E d \in RootFilters : <<b, a>> \in Cells(d)
<1>1. /\ Deploy \in Nat /\ Cutoff \in Nat /\ WindowSize \in Nat \ {0}
      /\ Birth[a] \in Int /\ Deploy <= Birth[a] /\ b \in Int /\ Birth[a] <= b /\ b <= Cutoff
  BY PlanAssumption DEF Block
<1>2. b - Deploy \in Nat
  BY <1>1
<1>3. PICK n \in Nat, r \in Nat : b - Deploy = WindowSize * n + r /\ r < WindowSize
  <2>1. PICK x \in {b - Deploy} : TRUE
    OBVIOUS
  <2>2. x \in Nat /\ x \div WindowSize \in Nat /\ x % WindowSize \in Nat
    BY <1>1, <1>2, <2>1
  <2>3. x = WindowSize * (x \div WindowSize) + (x % WindowSize) /\ x % WindowSize < WindowSize
    BY <1>1, <2>2
  <2> QED BY <2>1, <2>2, <2>3
<1>4. PICK t \in Nat : t = WindowSize * n /\ t % WindowSize = 0 /\ b - Deploy = t + r
  <2>1. WindowSize * n \in Nat /\ (WindowSize * n) % WindowSize = 0
    BY <1>1
  <2> QED BY <1>3, <2>1
<1> DEFINE s == Deploy + t
           e == Least(s + WindowSize - 1, Cutoff)
           S == {x \in Pool : Birth[x] <= e}
           C == {x \in S : Rank(x, S) \div CohortSize = Rank(a, S) \div CohortSize}
           d == [lo |-> s, hi |-> e, ads |-> C]
<1>5. s \in Int /\ s \in Block /\ s <= b /\ s - Deploy = t /\ b <= s + WindowSize - 1
  BY <1>1, <1>3, <1>4 DEF Block
<1>6. e \in Int /\ b <= e
  BY <1>1, <1>5 DEF Least
<1>7. <<s, e>> \in RootWindows
  BY <1>4, <1>5 DEF RootWindows
<1> HIDE DEF s, e
<1>8. a \in S
  BY <1>1, <1>6
<1>9. C \in Cohorts(S) /\ a \in C
  BY <1>8 DEF Cohorts
<1>10. d \in RootFilters
  <2> DEFINE w == <<s, e>>
  <2>1. w[1] = s /\ w[2] = e
    OBVIOUS
  <2>2. C \in Cohorts({x \in Pool : Birth[x] <= w[2]})
    BY <1>9, <2>1
  <2>3. d = [lo |-> w[1], hi |-> w[2], ads |-> C]
    BY <2>1
  <2>4. w \in RootWindows
    BY <1>7
  <2> HIDE DEF C, S, d, w
  <2> DEFINE Of(v) == {[lo |-> v[1], hi |-> v[2], ads |-> c] :
                         c \in Cohorts({x \in Pool : Birth[x] <= v[2]})}
  <2>5. d \in Of(w)
    BY <2>2, <2>3
  <2>6. RootFilters = UNION {Of(v) : v \in RootWindows}
    BY DEF RootFilters
  <2> HIDE DEF Of
  <2> QED BY <2>4, <2>5, <2>6
<1>11. b \in s..e
  BY <1>1, <1>5, <1>6
<1>12. <<b, a>> \in Cells(d)
  BY <1>9, <1>11 DEF Cells
<1> QED BY <1>10, <1>12

-----------------------------------------------------------------------------
(* Coverage *)

(* Once the plan is ready every block of a pool's life lies in one of the  *)
(* domains in force and no more.                                           *)
LEMMA FrontierCoversOnce ==
  ASSUME EngineInv, ready = "READY", NEW a \in Pool
  PROVE  Frontier \in SUBSET Domain /\ CoveredOnce(a, Frontier)
<1>1. Frontier \in SUBSET Domain
  BY EngineAssumption DEF Frontier
<1>2. ASSUME NEW b \in Birth[a]..Cutoff
      PROVE  \E d \in Frontier :
               /\ <<b, a>> \in Cells(d)
               /\ \A e \in Frontier : <<b, a>> \in Cells(e) => e = d
  <2>1. PICK r \in RootFilters : <<b, a>> \in Cells(r)
    BY RootsCover
  <2>2. UNION {Cells(d) : d \in Frontier} = UNION {Cells(d) : d \in RootFilters}
    BY DEF EngineInv, Tiling
  <2>3. PICK d \in Frontier : <<b, a>> \in Cells(d)
    <3>1. <<b, a>> \in UNION {Cells(d) : d \in RootFilters}
      BY <2>1
    <3> QED BY <2>2, <3>1
  <2>4. ASSUME NEW e \in Frontier, <<b, a>> \in Cells(e) PROVE e = d
    <3>1. e # d => Cells(e) \cap Cells(d) = {}
      BY DEF EngineInv, Tiling
    <3> QED BY <2>3, <2>4, <3>1
  <2> QED BY <2>3, <2>4
<1> QED BY <1>1, <1>2 DEF CoveredOnce

(* From the READY marker on, through every split, the domains in force cut *)
(* the planned area into disjoint pieces, and the streaming proof over     *)
(* them finds every pool complete (initialize_production_roots_batch,      *)
(* choose_split, prove_full_registry_coverage).                            *)
THEOREM CoverageAlwaysExact == EngineSpec => []CoverageIsExact
<1>1. ASSUME EngineInv, ready = "READY", NEW a \in Pool PROVE Complete(a, Frontier)
  BY <1>1, FrontierCoversOnce, StreamDecidesCoverage
<1>2. EngineInv => CoverageIsExact
  BY <1>1 DEF EngineInv, Tiling, DomainsTile, CoverageIsExact
<1> QED BY <1>2, EngineIsSound, PTL

-----------------------------------------------------------------------------
(* Leases and the ledger *)

(* One step of a node that is leased to a live worker.                     *)
LEMMA HolderStep ==
  ASSUME EngineInv, [EngineNext]_vars, NEW d \in Domains, lease[d] # None, lease[d].live,
         <<status[d], attempt[d], reason[d]>>' # <<status[d], attempt[d], reason[d]>>
  PROVE  \E w \in Worker : /\ lease[d].by = w /\ at[w] = d
                           /\ pc[w] = "settle" /\ pc'[w] = "idle"
<1>0. status[d] = "IN_FLIGHT" /\ d \notin Lapsed /\ d \notin Free
  BY Leased DEF Lapsed, Free
<1>t. /\ status \in [Domains -> {"ABSENT", "PENDING", "IN_FLIGHT", "AGREED", "SPLIT"}]
      /\ attempt \in [Domains -> 0..MaxAttempts]
      /\ reason \in [Domains -> Reason \cup {None}]
      /\ pc \in [Actor -> Labels]
  BY DEF EngineInv, EngineTypeOK, ActorsTyped
<1>1. ASSUME NEW w \in Worker, Settled(w) PROVE d = at[w]
  <2>1. Commit(w) /\ at[w] \in Domains
    BY <1>1, Committing DEF Settled
  <2>2. CASE plea[w].kind = "split" /\ CommitSplit(w)
    <3> DEFINE kids == Children(at[w], plea[w].by)
    <3>1. /\ \A k \in kids : status[k] = "ABSENT"
          /\ status'[d] = IF d = at[w] THEN "SPLIT" ELSE IF d \in kids THEN "PENDING" ELSE status[d]
          /\ attempt' = attempt
      BY <1>1, <2>2, Splitting
    <3>2. reason' = [reason EXCEPT ![at[w]] = plea[w].by]
      BY <2>2 DEF CommitSplit
    <3> HIDE DEF kids
    <3> QED BY <1>0, <1>t, <3>1, <3>2
  <2>3. CASE CommitCandidate(w) \/ CommitAgreed(w) \/ CommitRetry(w) \/ CommitTerminal(w)
    BY <1>t, <2>3 DEF CommitCandidate, CommitAgreed, CommitRetry, CommitTerminal
  <2> QED BY <2>1, <2>2, <2>3 DEF Commit
<1>2. ASSUME NEW w \in Worker, Settled(w)
      PROVE  lease[d].by = w /\ at[w] = d /\ pc[w] = "settle" /\ pc'[w] = "idle"
  <2>1. lease[at[w]].by = w /\ pc[w] = "settle" /\ Return(w, "idle")
    BY <1>2, Committing
  <2>2. pc'[w] = "idle"
    BY <1>t, <2>1 DEF Return, Goto, Actor
  <2> QED BY <1>1, <1>2, <2>1, <2>2
<1>3. ASSUME InsertRoots PROVE FALSE
  BY <1>0, <1>3 DEF InsertRoots, Present
<1>4. ASSUME NEW w \in Worker, Take(w) PROVE FALSE
  BY <1>0, <1>4, Taken, Sweep
<1>5. ASSUME NEW s \in Steward, Finalize(s) PROVE FALSE
  BY <1>0, <1>t, <1>5, Finalized
<1>6. ASSUME \E e \in Domains : Lapse(e) PROVE FALSE
  BY <1>6 DEF Lapse
<1>7. ASSUME UNCHANGED nodeVars PROVE FALSE
  BY <1>7 DEF nodeVars
<1> QED BY <1>2, <1>3, <1>4, <1>5, <1>6, <1>7, NodeMoves

(* A node whose lease is live changes only at the commit of the worker     *)
(* that holds it (_require_lease, _expire_leases).                         *)
THEOREM OnlyHoldersMove == EngineSpec => OnlyHolderMoves
<1> DEFINE A == \A d \in Domains :
       lease[d] # None /\ lease[d].live
         /\ <<status[d], attempt[d], reason[d]>>' # <<status[d], attempt[d], reason[d]>>
       => \E w \in Worker : /\ lease[d].by = w /\ at[w] = d
                            /\ pc[w] = "settle" /\ pc'[w] = "idle"
<1>1. EngineInv /\ [EngineNext]_vars => A
  BY HolderStep
<1>2. EngineInv /\ [EngineNext]_vars => [A]_vars
  BY <1>1
<1>3. EngineSpec => [][A]_vars
  <2> HIDE DEF A
  <2> QED BY <1>2, EngineIsSound, PTL DEF EngineSpec
<1> QED BY <1>3 DEF OnlyHolderMoves

-----------------------------------------------------------------------------
(* The ledger of the plan *)

(* The verdict on one domain in force.                                     *)
Judged(d) == IF status[d] = "AGREED" THEN "agreed"
             ELSE IF attempt[d] = MaxAttempts THEN "blocked" ELSE "open"

(* A domain that is not there, or is leased, or has a candidate and waits  *)
(* for its headers, has attempts left.                                     *)
LEMMA StillOpen ==
  ASSUME EngineInv, NEW d \in Domains,
         \/ status[d] \in {"ABSENT", "IN_FLIGHT"}
         \/ status[d] = "PENDING" /\ cand[d] # None
  PROVE  attempt[d] # MaxAttempts /\ Judged(d) = "open"
BY DEF EngineInv, TerminalIsExhausted, Judged

(* The domains in force stay and at most one of them is decided.           *)
LEMMA OneDecided ==
  ASSUME NEW d \in Frontier, Frontier' = Frontier, Judged(d) = "open",
         \A e \in Frontier : e # d => Judged(e)' = Judged(e)
  PROVE  Ledger!Next \/ UNCHANGED Verdicts
<1>1. Verdicts = [e \in Frontier |-> Judged(e)] /\ Verdicts' = [e \in Frontier |-> Judged(e)']
  BY DEF Verdicts, Judged
<1>2. Judged(d)' \in {"agreed", "blocked", "open"}
  BY DEF Judged
<1>3. CASE Judged(d)' = "open"
  <2>1. \A e \in Frontier : Judged(e)' = Judged(e)
    BY <1>3
  <2> QED BY <1>1, <2>1
<1>4. CASE Judged(d)' \in {"agreed", "blocked"}
  <2>1. DOMAIN Verdicts = Frontier /\ Verdicts[d] = "open"
    BY <1>1
  <2>2. Verdicts' = [Verdicts EXCEPT ![d] = Judged(d)']
    BY <1>1
  <2>3. Ledger!Decide
    BY <1>4, <2>1, <2>2 DEF Ledger!Decide
  <2> QED BY <2>3 DEF Ledger!Next
<1> QED BY <1>2, <1>3, <1>4

(* The same domains with the same verdicts: the ledger does not move.      *)
LEMMA NoneDecided ==
  ASSUME Frontier' = Frontier, \A e \in Frontier : Judged(e)' = Judged(e)
  PROVE  UNCHANGED Verdicts
<1>1. Verdicts = [e \in Frontier |-> Judged(e)] /\ Verdicts' = [e \in Frontier |-> Judged(e)']
  BY DEF Verdicts, Judged
<1> QED BY <1>1

(* Roots inserted into the plan are open.                                  *)
LEMMA LedgerPlan ==
  ASSUME EngineInv, InsertRoots
  PROVE  Ledger!Plan
<1>1. PICK S \in SUBSET RootFilters :
        status' = [d \in Domains |-> IF d \in S /\ ~Present(d) THEN "PENDING" ELSE status[d]]
  BY DEF InsertRoots
<1>2. attempt' = attempt
  BY DEF InsertRoots
<1> DEFINE new == {d \in S : status[d] = "ABSENT"}
<1>3. S \subseteq Domains
  BY EngineAssumption
<1>4. Frontier' = Frontier \cup new /\ new \cap Frontier = {}
  BY <1>1, <1>3 DEF Frontier, Present
<1>5. ASSUME NEW d \in new PROVE Judged(d)' = "open"
  <2>1. d \in Domains /\ status[d] = "ABSENT" /\ status'[d] = "PENDING"
    BY <1>1, <1>3 DEF Present
  <2>2. attempt[d] # MaxAttempts
    BY <2>1, StillOpen
  <2> QED BY <1>2, <2>1, <2>2 DEF Judged
<1>6. ASSUME NEW d \in Frontier PROVE Judged(d)' = Judged(d)
  BY <1>1, <1>2 DEF Frontier, Judged, Present
<1>7. Verdicts = [e \in Frontier |-> Judged(e)] /\ Verdicts' = [e \in Frontier' |-> Judged(e)']
  BY DEF Verdicts, Judged
<1>8. new \in SUBSET (RootFilters \ DOMAIN Verdicts)
  BY <1>1, <1>4, <1>7
<1> HIDE DEF new
<1>9. Verdicts' = [d \in DOMAIN Verdicts \cup new |-> IF d \in new THEN "open" ELSE Verdicts[d]]
  BY <1>4, <1>5, <1>6, <1>7
<1> QED BY <1>8, <1>9 DEF Ledger!Plan

(* A claim decides nothing but that lapsed nodes are out of attempts.      *)
LEMMA LedgerBlock ==
  ASSUME EngineInv, NEW w \in Worker, Take(w)
  PROVE  Ledger!Block
<1>1. PICK T \in SUBSET Free :
        \A d \in Domains : status'[d] = IF d \in T THEN "IN_FLIGHT"
                                        ELSE IF d \in Lapsed THEN "PENDING" ELSE status[d]
  BY Taken
<1>2. attempt' = Swept
  BY Taken
<1>3. ASSUME NEW d \in Lapsed PROVE d \in Domains /\ status[d] = "IN_FLIGHT" /\ Judged(d) = "open"
  <2>1. d \in Domains /\ status[d] = "IN_FLIGHT"
    BY Leased DEF Lapsed
  <2> QED BY <2>1, StillOpen
<1>4. \A d \in T : d \in Domains /\ (status[d] = "PENDING" \/ d \in Lapsed)
                   /\ Swept[d] < MaxAttempts
  BY DEF Free
<1>5. Frontier' = Frontier
  BY <1>1, <1>3, <1>4 DEF Frontier
<1>6. ASSUME NEW d \in Frontier
      PROVE  Judged(d)' = Judged(d) \/ (Judged(d) = "open" /\ Judged(d)' = "blocked")
  <2>1. d \in Domains
    BY DEF Frontier
  <2>2. CASE d \in Lapsed
    <3>1. status'[d] # "AGREED"
      BY <1>1, <2>1, <2>2
    <3> QED BY <1>3, <2>2, <3>1 DEF Judged
  <2>3. CASE d \notin Lapsed
    <3>1. attempt'[d] = attempt[d]
      BY <1>2, <2>1, <2>3, Sweep
    <3>2. status'[d] = "AGREED" <=> status[d] = "AGREED"
      BY <1>1, <1>4, <2>1, <2>3
    <3> QED BY <3>1, <3>2 DEF Judged
  <2> QED BY <2>2, <2>3
<1>7. Verdicts = [e \in Frontier |-> Judged(e)] /\ Verdicts' = [e \in Frontier' |-> Judged(e)']
  BY DEF Verdicts, Judged
<1>8. DOMAIN Verdicts' = DOMAIN Verdicts /\ DOMAIN Verdicts = Frontier
  BY <1>5, <1>7
<1>9. \A d \in DOMAIN Verdicts :
        Verdicts'[d] \in {Verdicts[d]} \cup (IF Verdicts[d] = "open" THEN {"blocked"} ELSE {})
  BY <1>5, <1>6, <1>7
<1> QED BY <1>8, <1>9 DEF Ledger!Block

(* A split replaces an open domain by open parts of it.                    *)
LEMMA LedgerSplit ==
  ASSUME EngineInv, NEW w \in Worker, Settled(w), plea[w].kind = "split", CommitSplit(w)
  PROVE  Ledger!Split
<1> DEFINE x == at[w]
           kids == Children(at[w], plea[w].by)
<1>1. /\ Cut(kids, x) /\ x \in Frontier /\ x \notin kids
      /\ \A k \in kids : status[k] = "ABSENT"
      /\ \A d \in Domains : status'[d] = IF d = x THEN "SPLIT"
                                         ELSE IF d \in kids THEN "PENDING" ELSE status[d]
      /\ attempt' = attempt /\ UNCHANGED planVars
  BY Splitting
<1>2. status[x] = "IN_FLIGHT" /\ x \in Domains
  BY Committing, Leased
<1> HIDE DEF x, kids
<1>3. Frontier' = (Frontier \ {x}) \cup kids
  BY <1>1, TilingOfSplit DEF planVars
<1>4. kids \cap Frontier = {} /\ kids \subseteq Domains
  BY <1>1 DEF Frontier, Cut
<1>5. ASSUME NEW k \in kids PROVE Judged(k)' = "open"
  <2>1. k \in Domains /\ status[k] = "ABSENT" /\ status'[k] = "PENDING"
    BY <1>1, <1>4
  <2>2. attempt[k] # MaxAttempts
    BY <2>1, StillOpen
  <2> QED BY <1>1, <2>1, <2>2 DEF Judged
<1>6. ASSUME NEW d \in Frontier, d # x PROVE Judged(d)' = Judged(d)
  BY <1>1, <1>4, <1>6 DEF Frontier, Judged
<1>7. Verdicts = [e \in Frontier |-> Judged(e)] /\ Verdicts' = [e \in Frontier' |-> Judged(e)']
  BY DEF Verdicts, Judged
<1>8. DOMAIN Verdicts = Frontier /\ DOMAIN Verdicts' = (Frontier \ {x}) \cup kids
  BY <1>3, <1>7
<1>9. DOMAIN Verdicts' \ DOMAIN Verdicts = kids
  BY <1>4, <1>8
<1>10. Verdicts[x] = "open"
  BY <1>1, <1>2, <1>7, StillOpen
<1>11. Ledger!Partition(kids, Cells(x))
  BY <1>1 DEF Cut, Ledger!Partition
<1>12. Verdicts' = [e \in (DOMAIN Verdicts \ {x}) \cup kids |->
                      IF e \in kids THEN "open" ELSE Verdicts[e]]
  BY <1>3, <1>5, <1>6, <1>7, <1>8
<1>13. \E d \in DOMAIN Verdicts :
         /\ Verdicts[d] = "open"
         /\ kids \subseteq Domains /\ Ledger!Partition(kids, Cells(d))
         /\ Verdicts' = [e \in (DOMAIN Verdicts \ {d}) \cup kids |->
                           IF e \in kids THEN "open" ELSE Verdicts[e]]
  BY <1>1, <1>4, <1>8, <1>10, <1>11, <1>12
<1> QED BY <1>9, <1>13 DEF Ledger!Split

(* Every step of the engine is a step of the ledger or none.               *)
LEMMA LedgerStep ==
  ASSUME EngineInv, [EngineNext]_vars
  PROVE  Ledger!Next \/ UNCHANGED Verdicts
<1>t. /\ status \in [Domains -> {"ABSENT", "PENDING", "IN_FLIGHT", "AGREED", "SPLIT"}]
      /\ attempt \in [Domains -> 0..MaxAttempts]
  BY DEF EngineInv, EngineTypeOK
<1>1. CASE InsertRoots
  BY <1>1, LedgerPlan DEF Ledger!Next
<1>2. ASSUME NEW w \in Worker, Take(w) PROVE Ledger!Next
  BY <1>2, LedgerBlock DEF Ledger!Next
<1>3. ASSUME NEW w \in Worker, Settled(w) PROVE Ledger!Next \/ UNCHANGED Verdicts
  <2>1. Commit(w) /\ at[w] \in Domains /\ status[at[w]] = "IN_FLIGHT"
    BY <1>3, Committing, Leased DEF Settled
  <2>2. CASE plea[w].kind = "split" /\ CommitSplit(w)
    BY <1>3, <2>2, LedgerSplit DEF Ledger!Next
  <2>3. CASE CommitCandidate(w) \/ CommitAgreed(w) \/ CommitRetry(w) \/ CommitTerminal(w)
    <3>1. /\ \E s \in {"PENDING", "AGREED"} : status' = [status EXCEPT ![at[w]] = s]
          /\ \A e \in Domains : e # at[w] => attempt'[e] = attempt[e]
      BY <1>t, <2>3 DEF CommitCandidate, CommitAgreed, CommitRetry, CommitTerminal
    <3>2. Frontier' = Frontier /\ at[w] \in Frontier
      BY <1>t, <2>1, <3>1 DEF Frontier
    <3>3. Judged(at[w]) = "open"
      BY <2>1, StillOpen
    <3>4. \A e \in Frontier : e # at[w] => Judged(e)' = Judged(e)
      BY <1>t, <3>1 DEF Frontier, Judged
    <3> QED BY <3>2, <3>3, <3>4, OneDecided
  <2> QED BY <2>1, <2>2, <2>3 DEF Commit
<1>4. ASSUME NEW s \in Steward, Finalize(s) PROVE Ledger!Next \/ UNCHANGED Verdicts
  <2>1. attempt' = attempt
    BY <1>4, Finalized
  <2>2. CASE UNCHANGED status
    BY <2>1, <2>2, NoneDecided DEF Frontier, Judged
  <2>3. ASSUME NEW d \in Domains, status[d] = "PENDING", cand[d] # None,
               status' = [status EXCEPT ![d] = "AGREED"]
        PROVE  Ledger!Next \/ UNCHANGED Verdicts
    <3>1. Frontier' = Frontier /\ d \in Frontier
      BY <1>t, <2>3 DEF Frontier
    <3>2. Judged(d) = "open"
      BY <2>3, StillOpen
    <3>3. \A e \in Frontier : e # d => Judged(e)' = Judged(e)
      BY <1>t, <2>1, <2>3 DEF Frontier, Judged
    <3> QED BY <3>1, <3>2, <3>3, OneDecided
  <2> QED BY <1>4, <2>2, <2>3, Finalized
<1>5. ASSUME UNCHANGED <<status, attempt>> PROVE UNCHANGED Verdicts
  BY <1>5, NoneDecided DEF Frontier, Judged
<1>6. (\E d \in Domains : Lapse(d)) => UNCHANGED Verdicts
  BY <1>5 DEF Lapse
<1>7. UNCHANGED nodeVars => UNCHANGED Verdicts
  BY <1>5 DEF nodeVars
<1> QED BY <1>1, <1>2, <1>3, <1>4, <1>6, <1>7, NodeMoves

(* The database implements the ledger of the plan: a domain is replaced    *)
(* only by a partition of itself, and agreed or blocked it stays so        *)
(* (uniswap_v2_pair_events_v2_engine.py).                                  *)
THEOREM EngineImplementsLedger == EngineSpec => ImplementsPairLedger
<1>1. EngineInit => Ledger!Init
  <2> SUFFICES ASSUME EngineInit PROVE Ledger!Init
    OBVIOUS
  <2>1. Frontier = {}
    BY DEF EngineInit, Frontier
  <2>2. Verdicts = [d \in {} |-> "open"]
    BY <2>1 DEF Verdicts
  <2> QED BY <2>2 DEF Ledger!Init
<1>2. EngineInv /\ [EngineNext]_vars => [Ledger!Next]_Verdicts
  BY LedgerStep
<1>3. EngineSpec => Ledger!Spec
  BY <1>1, <1>2, EngineIsSound, PTL DEF EngineSpec, Ledger!Spec
<1> QED BY <1>3 DEF ImplementsPairLedger
=============================================================================
