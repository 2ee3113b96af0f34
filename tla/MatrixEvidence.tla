--------------------------- MODULE MatrixEvidence ---------------------------
(***************************************************************************)
(* The provider-capacity matrix (uniswap_v2_pair_events_v2_matrix.py): its *)
(* catalog of logical calls, what an attempt retains, how the retained     *)
(* attempts decide the cells and the cells select a cohort size, and what  *)
(* the inventory and the replay accept.  Values only; MatrixRun has state. *)
(*                                                                         *)
(* An address stands for its two topics.  The classes a failure is         *)
(* reported under are kept apart only where the selection does: "hard"     *)
(* blockers, and capacity.                                                 *)
(***************************************************************************)
EXTENDS Integers, Sequences, FiniteSets

CONSTANTS
  Orgs,     \* the provider organisations, in order
  Ranges,   \* the block ranges, in order
  Sizes,    \* the nested cohort sizes, increasing; the last is the cohort
  MaxBody,  \* max_response_bytes
  None

ASSUME MatrixAssumption ==
  /\ Orgs \in Seq(STRING) /\ Len(Orgs) > 0 /\ Ranges \in Seq(STRING) /\ Len(Ranges) > 0
  /\ Sizes \in Seq(Nat \ {0}) /\ Len(Sizes) > 0
  /\ \A i, j \in DOMAIN Sizes : i < j => Sizes[i] < Sizes[j]
  /\ MaxBody \in Nat \ {0, 1} /\ None \notin Nat

Members(s) == {s[i] : i \in DOMAIN s}
Cohort == Sizes[Len(Sizes)]
Address == 1..Cohort

(* n is the address of a scalar call, the size of a batch.                 *)
Chain(p) == [kind |-> "chain", org |-> p, range |-> "", n |-> 0]
Scalar(p, r, a) == [kind |-> "scalar", org |-> p, range |-> r, n |-> a]
Batch(p, r, size) == [kind |-> "batch", org |-> p, range |-> r, n |-> size]
Call ==
  {Chain(p) : p \in Members(Orgs)}
    \cup {Scalar(p, r, a) : p \in Members(Orgs), r \in Members(Ranges), a \in Address}
    \cup {Batch(p, r, s) : p \in Members(Orgs), r \in Members(Ranges), s \in Members(Sizes)}

(* Chain calls first; then the catalog, round robin over the providers.    *)
NScalar == Len(Ranges) * Cohort
NTarget == NScalar + Len(Ranges) * Len(Sizes)
TargetCall(p, i) ==
  IF i <= NScalar THEN Scalar(p, Ranges[((i - 1) \div Cohort) + 1], ((i - 1) % Cohort) + 1)
  ELSE LET j == i - NScalar - 1
       IN  Batch(p, Ranges[(j \div Len(Sizes)) + 1], Sizes[(j % Len(Sizes)) + 1])
Schedule ==
  [i \in 1..(Len(Orgs) * (NTarget + 1)) |->
     LET p == Orgs[((i - 1) % Len(Orgs)) + 1]
     IN  IF i <= Len(Orgs) THEN Chain(p) ELSE TargetCall(p, (i - 1) \div Len(Orgs))]

-----------------------------------------------------------------------------
(* Attempts *)

(* What a retained attempt shows: the true logs (or mainnet), other logs,  *)
(* an explicit size limit, a body cut at MaxBody, a refusal (quota, 401,   *)
(* another error), a refusal or transport failure without a body, and a    *)
(* body withheld because it held credentials.                              *)
Body == {"same", "odd", "limit", "cut", "refused", "empty", "secret"}
Success == {"same", "odd"}
HardBody == {"refused", "empty", "secret"}
Bytes(b) == IF b \in {"empty", "secret"} THEN 0 ELSE IF b = "cut" THEN MaxBody ELSE 1

(* Every attempt counts: a hard blocker outlives a later success, and a    *)
(* success a capacity failure.                                             *)
Shows(s, B) == \E i \in DOMAIN s : s[i] \in B

(* Mutation: only the last attempt is classified.                          *)
Verdict_Last(s) ==
  IF s = <<>> THEN "missing"
  ELSE LET b == s[Len(s)]
       IN  IF b \in HardBody THEN "hard" ELSE IF b \in Success THEN "success" ELSE "capacity"

Verdict(s) ==
  IF s = <<>> THEN "missing"
  ELSE IF Shows(s, HardBody) THEN "hard"
  ELSE IF Shows(s, Success) THEN "success" ELSE "capacity"
Best(s) == s[CHOOSE i \in DOMAIN s : s[i] \in Success /\ ~Shows(SubSeq(s, i + 1, Len(s)), Success)]

-----------------------------------------------------------------------------
(* Cells and selection; rows maps a call to its attempts *)

Union(rows, p, r, size) == [a \in 1..size |-> Best(rows[Scalar(p, r, a)])]
BatchLogs(rows, p, r, size) == [a \in 1..size |-> Best(rows[Batch(p, r, size)])]

Cell(rows, r, size) ==
  LET P == Members(Orgs)
      scalars == {Verdict(rows[Scalar(p, r, a)]) : p \in P, a \in 1..size}
      batches == {Verdict(rows[Batch(p, r, size)]) : p \in P}
  IN  IF "missing" \in scalars THEN "incomplete"
      ELSE IF scalars # {"success"} THEN "hard"
      ELSE IF \E p, q \in P : Union(rows, p, r, size) # Union(rows, q, r, size) THEN "hard"
      ELSE IF batches \cap {"hard", "missing"} # {} THEN "hard"
      ELSE IF "capacity" \in batches THEN "capacity"
      ELSE IF \A p \in P : BatchLogs(rows, p, r, size) = Union(rows, p, r, size)
           THEN "pass" ELSE "hard"
Cells(rows) == [rs \in Members(Ranges) \X Members(Sizes) |-> Cell(rows, rs[1], rs[2])]

Viable(cells) == {s \in Members(Sizes) : \A r \in Members(Ranges) : cells[<<r, s>>] = "pass"}
Monotonic(V) == \A s \in V, t \in Members(Sizes) : t < s => t \in V
Select(cells) ==
  LET V == Viable(cells)
      blocked == \E rs \in DOMAIN cells : cells[rs] \in {"hard", "incomplete"}
  IN  IF blocked \/ ~Monotonic(V) \/ V = {} THEN None
      ELSE CHOOSE s \in V : \A t \in V : t <= s

Report(rows) ==
  LET cells == Cells(rows)
  IN  [cells |-> cells, selected |-> Select(cells), pass |-> Select(cells) # None,
       complete |-> \A rs \in DOMAIN cells : cells[rs] # "incomplete"]

-----------------------------------------------------------------------------
(* Authentication; raw is the retained bodies, by the attempt they answer *)

Kept(b) == b # "secret"

(* int(body_bytes or -1): a retained body of no bytes never agrees.        *)
InventoryHolds(rows, raw) ==
  /\ \A c \in Call : \A i \in DOMAIN rows[c] :
       Kept(rows[c][i]) => <<c, i>> \in raw /\ Bytes(rows[c][i]) > 0
  /\ \A o \in raw : o[2] \in DOMAIN rows[o[1]]

ChainProven(rows) ==
  \A p \in Members(Orgs) :
    Shows(rows[Chain(p)], Success) /\ Best(rows[Chain(p)]) = "same"

(* authenticate_completed_run, and what it asks of a replay's source.      *)
Authenticates(listed, report, rows, raw) ==
  /\ listed = [rows |-> rows, raw |-> raw] /\ InventoryHolds(rows, raw)
  /\ report.cells = Cells(rows) /\ report.selected = Select(report.cells)
Replayable(report, rows) ==
  /\ report.complete /\ report.pass /\ report.selected # None
  /\ \A c \in Call : rows[c] # <<>>
  /\ ChainProven(rows)
=============================================================================
