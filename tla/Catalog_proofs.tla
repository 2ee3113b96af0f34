---------------------------- MODULE Catalog_proofs ----------------------------
(* Theorems about the control catalog for any number of migration runners, any     *)
(* checkouts, evidence, clocks, rows and questions.  The parts share no variable,  *)
(* so each has an inductive invariant of its own, kept by its own steps.            *)
EXTENDS Catalog, FiniteSetTheorems, WellFoundedInduction, TLAPS

-----------------------------------------------------------------------------
(* The migration runner.                                                           *)
Files == UNION {{d[i] : i \in DOMAIN d} : d \in Directories}
Run == [dir : Directories, at : Nat, locked : BOOLEAN, read : Seq(Files)]

(* The rows r are the first migrations of the directory d.                          *)
Begins(r, d) == Len(r) <= Len(d) /\ \A i \in 1..Len(r) : r[i] = d[i]

(* A runner has before it only files whose predecessors are in the history as its    *)
(* own checkout has them, and what it read is a beginning of the history.            *)
Follows(r, h) ==
    /\ r.at >= 1 /\ r.at <= Len(h) + 1 /\ r.at <= Len(r.dir) + 1
    /\ r.locked => r.at <= Len(r.dir)
    /\ \A j \in 1..(r.at - 1) : h[j] = r.dir[j]
    /\ Begins(r.read, h)

SchemaInv ==
    /\ history \in Seq(Files) /\ effects = history
    /\ \E d \in Directories : Begins(history, d)
    /\ runner \in [Runner -> Run \cup {Idle}]
    /\ \A p \in Runner : runner[p] # Idle => Follows(runner[p], history)

LEMMA DirectoryOfFiles == \A d \in Directories : d \in Seq(Files)
<1> TAKE d \in Directories
<1>1. d \in Seq({d[i] : i \in DOMAIN d})
  BY MigrationsAssumption
<1>2. {d[i] : i \in DOMAIN d} \subseteq Files
  BY DEF Files
<1> QED BY <1>1, <1>2

LEMMA SchemaInvInit == SchemaInit => SchemaInv
<1> SUFFICES ASSUME SchemaInit PROVE SchemaInv
  OBVIOUS
<1>1. <<>> \in Seq(Files) /\ Len(<<>>) = 0
  OBVIOUS
<1>2. \E d \in Directories : Begins(<<>>, d)
  <2>1. PICK d \in Directories : TRUE
    BY MigrationsAssumption
  <2>2. d \in Seq(Files)
    BY DirectoryOfFiles
  <2> QED BY <1>1, <2>2 DEF Begins
<1> QED BY <1>1, <1>2 DEF SchemaInit, SchemaInv

(* A step that touches one runner and not the database.                              *)
LEMMA RunnerMoves ==
    ASSUME SchemaInv, NEW p \in Runner, NEW r \in Run \cup {Idle}, r # Idle => Follows(r, history),
           runner' = [runner EXCEPT ![p] = r], UNCHANGED <<history, effects>>
    PROVE  SchemaInv'
<1>1. \A q \in Runner : runner'[q] = IF q = p THEN r ELSE runner[q]
  BY DEF SchemaInv
<1>2. runner' \in [Runner -> Run \cup {Idle}]
  BY DEF SchemaInv
<1>3. \A q \in Runner : runner'[q] # Idle => Follows(runner'[q], history')
  BY <1>1 DEF SchemaInv, Follows
<1> QED BY <1>2, <1>3 DEF SchemaInv

(* A file applied in the history is the one at its own position.                     *)
LEMMA AppliedAtItsPlace ==
    ASSUME OneLine, NEW d \in Directories, NEW e \in Directories, NEW rows \in Seq(Files),
           Begins(rows, e), NEW n \in 1..Len(d), Applied(rows, d[n])
    PROVE  n <= Len(rows) /\ rows[n].name = d[n].name
           /\ \A j \in 1..Len(rows) : rows[j].name = d[n].name => j = n
<1>1. d \in Seq(Files) /\ e \in Seq(Files)
  BY DirectoryOfFiles
<1>2. \A j \in 1..Len(rows) : j \in DOMAIN e /\ (rows[j].name = d[n].name <=> j = n)
  BY <1>1 DEF Begins, OneLine
<1> QED BY <1>2 DEF Applied

LEMMA CommitKeepsPrefix ==
    ASSUME OneLine, SchemaInv, NEW p \in Runner, CommitMigration(p)
    PROVE  SchemaInv'
<1> DEFINE r == runner[p]
           d == r.dir
           m == Migration(p)
<1>1. r \in Run /\ r # Idle /\ r.locked /\ Follows(r, history)
  BY MigrationsAssumption DEF SchemaInv, CommitMigration
<1>2. /\ d \in Directories /\ d \in Seq(Files)
      /\ r.at \in 1..Len(d) /\ m = d[r.at] /\ m \in Files
  BY <1>1, DirectoryOfFiles DEF Run, Follows, Migration
<1>3. PICK e \in Directories : Begins(history, e)
  BY DEF SchemaInv
<1>4. CASE Applied(history, m)
  BY <1>4, RunnerMoves DEF CommitMigration, Stop
<1>5. CASE ~Applied(history, m)
  <2>1. /\ history' = Append(history, m) /\ effects' = Append(effects, m)
        /\ runner' = [runner EXCEPT ![p].locked = FALSE, ![p].at = @ + 1]
    BY <1>5 DEF CommitMigration
  <2>2. history \in Seq(Files) /\ e \in Seq(Files)
    BY DirectoryOfFiles DEF SchemaInv
  <2>3. Len(history) = r.at - 1
    <3>1. ASSUME r.at <= Len(history) PROVE FALSE
      <4>1. r.at \in DOMAIN e /\ history[r.at] = e[r.at]
        BY <3>1, <2>2, <1>2, <1>3 DEF Begins
      <4>2. history[r.at].name = m.name
        BY <4>1, <1>2, <2>2 DEF OneLine
      <4> QED BY <4>2, <3>1, <1>2, <1>5 DEF Applied
    <3> QED BY <3>1, <1>1, <1>2, <2>2 DEF Follows
  <2>4. history' \in Seq(Files) /\ effects' = history' /\ Len(history') = r.at
        /\ \A j \in 1..Len(history) : history'[j] = history[j]
    BY <2>1, <2>2, <2>3, <1>2 DEF SchemaInv
  <2>5. Begins(history', d)
    BY <2>1, <2>2, <2>3, <2>4, <1>1, <1>2 DEF Begins, Follows
  <2> DEFINE n == [r EXCEPT !.locked = FALSE, !.at = r.at + 1]
  <2>6. n \in Run /\ n.dir = d /\ n.at = r.at + 1 /\ n.locked = FALSE /\ n.read = r.read
    <3>1. PICK k \in Nat : k = r.at + 1
      BY <1>1 DEF Run
    <3>2. PICK x \in BOOLEAN : x = FALSE
      BY Zenon
    <3>3. PICK o \in Run : o = r
      BY <1>1
    <3>4. PICK q \in {n} : q = [o EXCEPT !.locked = x, !.at = k]
      BY <3>1, <3>2, <3>3
    <3>5. q \in Run /\ q.dir = o.dir /\ q.at = k /\ q.locked = x /\ q.read = o.read
      BY <3>4 DEF Run
    <3> HIDE DEF n
    <3> QED BY <3>1, <3>2, <3>3, <3>4, <3>5
  <2>7. runner' = [runner EXCEPT ![p] = n]
    BY <2>1, <1>1 DEF SchemaInv, Run
  <2> HIDE DEF n
  <2>8. \A q \in Runner : runner'[q] = IF q = p THEN n ELSE runner[q]
    BY <2>7 DEF SchemaInv
  <2>9. Follows(n, history')
    <3>1. r.at \in Nat /\ r.at >= 1 /\ r.read \in Seq(Files) /\ Len(r.read) \in Nat
      BY <1>1 DEF Run, Follows
    <3>2. n.at >= 1 /\ n.at <= Len(history') + 1 /\ n.at <= Len(n.dir) + 1
      BY <3>1, <2>4, <2>6, <1>2
    <3>3. \A j \in 1..(n.at - 1) : history'[j] = n.dir[j]
      BY <3>1, <2>4, <2>5, <2>6 DEF Begins
    <3>4. Begins(n.read, history')
      <4>1. Len(r.read) <= Len(history) /\ \A i \in 1..Len(r.read) : r.read[i] = history[i]
        BY <1>1 DEF Follows, Begins
      <4>2. Len(r.read) <= Len(history')
        BY <4>1, <3>1, <2>2, <2>3, <2>4
      <4>3. \A i \in 1..Len(r.read) : history'[i] = history[i]
        BY <4>1, <3>1, <2>2, <2>4
      <4> QED BY <4>1, <4>2, <4>3, <2>6 DEF Begins
    <3> QED BY <3>2, <3>3, <3>4, <2>6 DEF Follows
  <2>10. ASSUME NEW q \in Runner, q # p, runner[q] # Idle PROVE Follows(runner[q], history')
    BY <2>10, <2>3, <2>4, <2>2 DEF SchemaInv, Follows, Begins, Run
  <2>11. \A q \in Runner : runner'[q] # Idle => Follows(runner'[q], history')
    BY <2>8, <2>9, <2>10
  <2>12. runner' \in [Runner -> Run \cup {Idle}]
    BY <2>6, <2>7 DEF SchemaInv
  <2> QED BY <2>4, <2>5, <2>11, <2>12, <1>2 DEF SchemaInv
<1> QED BY <1>4, <1>5

(* A file read as applied, unchanged, is in the history at its own position.           *)
LEMMA SkipFollows ==
    ASSUME OneLine, SchemaInv, NEW r \in Run, Follows(r, history), ~r.locked,
           NEW j \in 1..Len(r.read), r.at <= Len(r.dir), r.read[j] = r.dir[r.at]
    PROVE  Follows([r EXCEPT !.at = r.at + 1], history)
<1> DEFINE d == r.dir
           a == r.at
           rows == r.read
<1>1. PICK e \in Directories : Begins(history, e)
  BY DEF SchemaInv
<1>2. /\ d \in Directories /\ d \in Seq(Files) /\ a \in 1..Len(d) /\ rows \in Seq(Files)
      /\ history \in Seq(Files) /\ e \in Seq(Files)
  BY DirectoryOfFiles DEF Run, Follows, SchemaInv
<1>3. /\ Begins(rows, history) /\ a <= Len(history) + 1
      /\ \A k \in 1..(a - 1) : history[k] = d[k]
  BY DEF Follows
<1>4. j \in 1..Len(rows) /\ rows[j] = d[a]
  OBVIOUS
<1> DEFINE n == [r EXCEPT !.at = a + 1]
<1>5. n.dir = d /\ n.at = a + 1 /\ ~n.locked /\ n.read = rows
  BY DEF Run
<1> HIDE DEF d, a, rows, n
<1>6. j \in 1..Len(history) /\ history[j] = d[a]
  BY <1>2, <1>3, <1>4 DEF Begins
<1>7. Applied(history, d[a])
  BY <1>6 DEF Applied
<1>8. j = a
  BY <1>1, <1>2, <1>6, <1>7, AppliedAtItsPlace
<1>9. /\ a + 1 >= 1 /\ a + 1 <= Len(history) + 1 /\ a + 1 <= Len(d) + 1
      /\ \A k \in 1..(a + 1 - 1) : history[k] = d[k]
  BY <1>2, <1>3, <1>6, <1>8
<1>10. Follows(n, history)
  BY <1>2, <1>3, <1>5, <1>9 DEF Follows
<1> QED BY <1>10 DEF n, a

LEMMA SchemaInvStep == OneLine /\ SchemaInv /\ [SchemaNext]_schemaVars => SchemaInv'
<1> SUFFICES ASSUME OneLine, SchemaInv, [SchemaNext]_schemaVars PROVE SchemaInv'
  OBVIOUS
<1>r. \A p \in Runner : runner[p] # Idle => runner[p] \in Run /\ Follows(runner[p], history)
  BY DEF SchemaInv
<1>1. ASSUME NEW p \in Runner, StartRun(p) PROVE SchemaInv'
  <2>1. PICK d \in Directories :
          runner' = [runner EXCEPT ![p] =
                      [dir |-> d, at |-> 1, read |-> history, locked |-> FALSE]]
    BY <1>1 DEF StartRun
  <2> DEFINE r == [dir |-> d, at |-> 1, read |-> history, locked |-> FALSE]
  <2>2. r \in Run /\ Follows(r, history)
    BY DirectoryOfFiles DEF Run, Follows, Begins, SchemaInv
  <2> QED BY <1>1, <2>1, <2>2, RunnerMoves DEF StartRun
<1>2. ASSUME NEW p \in Runner, SkipApplied(p) PROVE SchemaInv'
  <2> DEFINE r == runner[p]
  <2>1. r \in Run /\ Follows(r, history) /\ r.at <= Len(r.dir) /\ ~r.locked
    BY <1>2, <1>r DEF SkipApplied, Pending
  <2>2. CASE runner' = Stop(p)
    BY <1>2, <2>2, RunnerMoves DEF SkipApplied, Stop
  <2>3. CASE runner' = Next1(p) /\ \E j \in 1..Len(r.read) : r.read[j] = Migration(p)
    <3> DEFINE n == [r EXCEPT !.at = r.at + 1]
    <3>1. runner' = [runner EXCEPT ![p] = n] /\ n \in Run
      <4>1. r.at + 1 \in Nat
        BY <2>1 DEF Run
      <4>2. n \in Run
        BY <2>1, <4>1 DEF Run
      <4>3. runner' = [runner EXCEPT ![p] = n]
        BY <2>1, <2>3 DEF Next1, SchemaInv, Run
      <4> QED BY <4>2, <4>3
    <3>2. Follows(n, history)
      BY <2>1, <2>3, SkipFollows DEF Migration
    <3> QED BY <3>1, <3>2, <1>2, RunnerMoves DEF SkipApplied
  <2> QED BY <1>2, <2>2, <2>3 DEF SkipApplied
<1>3. ASSUME NEW p \in Runner, BeginMigration(p) PROVE SchemaInv'
  <2> DEFINE r == runner[p]
             n == [r EXCEPT !.locked = TRUE]
  <2>1. r \in Run /\ Follows(r, history) /\ r.at <= Len(r.dir)
    BY <1>3, <1>r DEF BeginMigration, Pending
  <2>2. CASE runner' = Stop(p)
    BY <1>3, <2>2, RunnerMoves DEF BeginMigration, Stop
  <2>3. CASE runner' = [runner EXCEPT ![p].locked = TRUE]
    <3>1. runner' = [runner EXCEPT ![p] = n] /\ n \in Run
      BY <2>1, <2>3 DEF SchemaInv, Run
    <3>2. /\ n.dir = r.dir /\ n.at = r.at /\ n.locked /\ n.read = r.read
      BY <2>1 DEF Run
    <3> HIDE DEF n
    <3>3. Follows(n, history)
      BY <3>2, <2>1 DEF Follows
    <3> QED BY <3>1, <3>3, <1>3, RunnerMoves DEF BeginMigration
  <2> QED BY <1>3, <2>2, <2>3 DEF BeginMigration
<1>4. ASSUME NEW p \in Runner, CommitMigration(p) PROVE SchemaInv'
  BY <1>4, CommitKeepsPrefix
<1>5. ASSUME NEW p \in Runner, AbandonRun(p) PROVE SchemaInv'
  BY <1>5, RunnerMoves DEF AbandonRun, Stop
<1>6. ASSUME NEW p \in Runner, FinishRun(p) PROVE SchemaInv'
  BY <1>6, RunnerMoves DEF FinishRun, Stop
<1>7. ASSUME UNCHANGED schemaVars PROVE SchemaInv'
  BY <1>7 DEF schemaVars, SchemaInv, Follows
<1> QED BY <1>1, <1>2, <1>3, <1>4, <1>5, <1>6, <1>7 DEF SchemaNext


(* What the primary key of the history keeps, whatever the checkouts.                 *)
OnceInv == history \in Seq(Files) /\ EachRunsOnce /\ runner \in [Runner -> Run \cup {Idle}]
           /\ \A p \in Runner : runner[p] # Idle =>
                runner[p].at >= 1 /\ (runner[p].locked => runner[p].at <= Len(runner[p].dir))

(* A step that touches one runner and not the database.                              *)
LEMMA OnceMoves ==
    ASSUME OnceInv, NEW p \in Runner, NEW r \in Run \cup {Idle},
           r # Idle => r.at >= 1 /\ (r.locked => r.at <= Len(r.dir)),
           runner' = [runner EXCEPT ![p] = r], UNCHANGED <<history, effects>>
    PROVE  OnceInv'
<1>1. \A q \in Runner : runner'[q] = IF q = p THEN r ELSE runner[q]
  BY DEF OnceInv
<1>2. runner' \in [Runner -> Run \cup {Idle}]
  BY DEF OnceInv
<1>3. EachRunsOnce' /\ history' \in Seq(Files)
  BY DEF OnceInv, EachRunsOnce
<1> QED BY <1>1, <1>2, <1>3 DEF OnceInv

(* A migration that commits has a name the history has not.                          *)
LEMMA CommitRunsOnce ==
    ASSUME OnceInv, NEW p \in Runner, CommitMigration(p)
    PROVE  OnceInv'
<1> DEFINE r == runner[p]
           m == Migration(p)
           n == [r EXCEPT !.locked = FALSE, !.at = r.at + 1]
<1>1. r \in Run /\ r # Idle /\ r.locked /\ r.at >= 1 /\ r.at <= Len(r.dir)
  BY DEF OnceInv, CommitMigration
<1>2. r.dir \in Seq(Files) /\ r.at \in 1..Len(r.dir) /\ m \in Files
  BY <1>1, DirectoryOfFiles DEF Run, Migration
<1>3. CASE Applied(history, m)
  BY <1>3, OnceMoves DEF CommitMigration, Stop
<1>4. CASE ~Applied(history, m)
  <2>1. /\ history' = Append(history, m) /\ effects' = Append(effects, m)
        /\ runner' = [runner EXCEPT ![p].locked = FALSE, ![p].at = @ + 1]
    BY <1>4 DEF CommitMigration
  <2>2. history \in Seq(Files) /\ \A j \in 1..Len(history) : history[j].name # m.name
    BY <1>4 DEF OnceInv, Applied
  <2>3. /\ history' \in Seq(Files) /\ Len(history') = Len(history) + 1
        /\ \A j \in 1..Len(history) : history'[j] = history[j]
        /\ history'[Len(history) + 1] = m
    BY <2>1, <2>2, <1>2
  <2> HIDE DEF m
  <2>4. \A i, j \in 1..Len(history) : history[i].name = history[j].name => i = j
    BY <2>2 DEF OnceInv, EachRunsOnce
  <2>5. EachRunsOnce'
    <3>1. \A i, j \in 1..(Len(history) + 1) : history'[i].name = history'[j].name => i = j
      BY <2>2, <2>3, <2>4
    <3>2. DOMAIN history' = 1..(Len(history) + 1)
      BY <2>3
    <3>3. effects' = history'
      BY <2>1 DEF OnceInv, EachRunsOnce
    <3> QED BY <3>1, <3>2, <3>3 DEF EachRunsOnce
  <2>6. n \in Run /\ n.at = r.at + 1 /\ ~n.locked
    <3>1. PICK k \in Nat : k = r.at + 1
      BY <1>1 DEF Run
    <3>2. PICK x \in BOOLEAN : x = FALSE
      BY Zenon
    <3>3. PICK o \in Run : o = r
      BY <1>1
    <3>4. PICK q \in {n} : q = [o EXCEPT !.locked = x, !.at = k]
      BY <3>1, <3>2, <3>3
    <3>5. q \in Run /\ q.at = k /\ q.locked = x
      BY <3>4 DEF Run
    <3> HIDE DEF n
    <3> QED BY <3>1, <3>2, <3>3, <3>4, <3>5
  <2>7. runner' = [runner EXCEPT ![p] = n]
    BY <2>1, <1>1 DEF OnceInv, Run
  <2>8. n.at >= 1
    BY <2>6, <1>1 DEF Run
  <2> HIDE DEF n
  <2>9. \A q \in Runner : runner'[q] = IF q = p THEN n ELSE runner[q]
    BY <2>7 DEF OnceInv
  <2>10. runner' \in [Runner -> Run \cup {Idle}]
    BY <2>6, <2>7 DEF OnceInv
  <2> QED BY <2>3, <2>5, <2>6, <2>8, <2>9, <2>10 DEF OnceInv
<1> QED BY <1>3, <1>4

LEMMA OnceInvStep == OnceInv /\ [SchemaNext]_schemaVars => OnceInv'
<1> SUFFICES ASSUME OnceInv, [SchemaNext]_schemaVars PROVE OnceInv'
  OBVIOUS
<1>r. ASSUME NEW p \in Runner, runner[p] # Idle
      PROVE  runner[p] \in Run /\ runner[p].at >= 1
             /\ (runner[p].locked => runner[p].at <= Len(runner[p].dir))
  BY <1>r DEF OnceInv
<1>1. ASSUME NEW p \in Runner, StartRun(p) PROVE OnceInv'
  <2>1. PICK d \in Directories :
          runner' = [runner EXCEPT ![p] =
                      [dir |-> d, at |-> 1, read |-> history, locked |-> FALSE]]
    BY <1>1 DEF StartRun
  <2> DEFINE r == [dir |-> d, at |-> 1, read |-> history, locked |-> FALSE]
  <2>2. r \in Run /\ r.at >= 1 /\ ~r.locked
    BY DEF Run, OnceInv
  <2> HIDE DEF r
  <2> QED BY <1>1, <2>1, <2>2, OnceMoves DEF StartRun, r
<1>2. ASSUME NEW p \in Runner, SkipApplied(p) PROVE OnceInv'
  <2> DEFINE r == runner[p]
  <2>1. r \in Run /\ r.at >= 1 /\ ~r.locked
    BY <1>2, <1>r DEF SkipApplied, Pending
  <2>2. CASE runner' = Stop(p)
    BY <1>2, <2>2, OnceMoves DEF SkipApplied, Stop
  <2>3. CASE runner' = Next1(p)
    <3> DEFINE n == [r EXCEPT !.at = r.at + 1]
    <3>1. n \in Run /\ n.at = r.at + 1 /\ n.locked = r.locked
      BY <2>1 DEF Run
    <3>2. runner' = [runner EXCEPT ![p] = n]
      BY <2>1, <2>3 DEF Next1, OnceInv, Run
    <3>3. n.at >= 1
      BY <2>1, <3>1 DEF Run
    <3> HIDE DEF n
    <3> QED BY <2>1, <3>1, <3>2, <3>3, <1>2, OnceMoves DEF SkipApplied
  <2> QED BY <1>2, <2>2, <2>3 DEF SkipApplied
<1>3. ASSUME NEW p \in Runner, BeginMigration(p) PROVE OnceInv'
  <2> DEFINE r == runner[p]
             n == [r EXCEPT !.locked = TRUE]
  <2>1. r \in Run /\ r.at >= 1 /\ r.at <= Len(r.dir)
    BY <1>3, <1>r DEF BeginMigration, Pending
  <2>2. CASE runner' = Stop(p)
    BY <1>3, <2>2, OnceMoves DEF BeginMigration, Stop
  <2>3. CASE runner' = [runner EXCEPT ![p].locked = TRUE]
    <3>1. runner' = [runner EXCEPT ![p] = n] /\ n \in Run
      BY <2>1, <2>3 DEF OnceInv, Run
    <3>2. n.dir = r.dir /\ n.at = r.at
      BY <2>1 DEF Run
    <3> HIDE DEF n
    <3> QED BY <3>1, <3>2, <2>1, <1>3, OnceMoves DEF BeginMigration
  <2> QED BY <1>3, <2>2, <2>3 DEF BeginMigration
<1>4. ASSUME NEW p \in Runner, CommitMigration(p) PROVE OnceInv'
  BY <1>4, CommitRunsOnce
<1>5. ASSUME NEW p \in Runner, AbandonRun(p) PROVE OnceInv'
  BY <1>5, OnceMoves DEF AbandonRun, Stop
<1>6. ASSUME NEW p \in Runner, FinishRun(p) PROVE OnceInv'
  BY <1>6, OnceMoves DEF FinishRun, Stop
<1>7. ASSUME UNCHANGED schemaVars PROVE OnceInv'
  BY <1>7 DEF schemaVars, OnceInv, EachRunsOnce
<1> QED BY <1>1, <1>2, <1>3, <1>4, <1>5, <1>6, <1>7 DEF SchemaNext

(* For any checkouts, those that disagree included: racing runners, deaths and edited *)
(* files never run a file name twice, nor anything the history does not say           *)
(* (runner.py:233-240: statements and history row are one transaction).               *)
THEOREM EachFileRunsOnce == Spec => []EachRunsOnce
<1>1. Init => OnceInv
  <2> SUFFICES ASSUME Init PROVE OnceInv
    OBVIOUS
  <2>1. history = <<>> /\ effects = <<>> /\ runner = [p \in Runner |-> Idle]
    BY DEF Init, SchemaInit
  <2> QED BY <2>1 DEF OnceInv, EachRunsOnce
<1>2. OnceInv /\ [Next]_catalogVars => OnceInv'
  BY OnceInvStep DEF Next, catalogVars, schemaVars, VersionNext, FeeNext, AliasNext
<1>3. OnceInv => EachRunsOnce
  BY DEF OnceInv
<1> QED BY <1>1, <1>2, <1>3, PTL DEF Spec

(* While the checkouts hold one line of migrations (OneLine, a condition the code     *)
(* checks within one checkout only): whatever runners race, die or carry edited       *)
(* files, the committed statements are the first migrations of one checkout, each     *)
(* once and in order, and the history says exactly that (runner.py:212-240).          *)
THEOREM SchemaIsAlwaysAPrefix == OneLine /\ Spec => []SchemaIsAPrefix
<1>1. SchemaInv => SchemaIsAPrefix
  <2> SUFFICES ASSUME SchemaInv PROVE SchemaIsAPrefix
    OBVIOUS
  <2>1. PICK d \in Directories : Begins(history, d)
    BY DEF SchemaInv
  <2>2. d \in Seq(Files) /\ effects \in Seq(Files) /\ effects = history
    BY DirectoryOfFiles DEF SchemaInv
  <2>3. Len(effects) <= Len(d) /\ effects = SubSeq(d, 1, Len(effects))
    BY <2>1, <2>2 DEF Begins
  <2> QED BY <2>2, <2>3 DEF SchemaIsAPrefix
<1>2. Init => SchemaInv
  BY SchemaInvInit DEF Init
<1>3. CASE ~OneLine
  BY <1>3
<1>4. CASE OneLine
  <2>1. SchemaInv /\ [Next]_catalogVars => SchemaInv'
    BY <1>4, SchemaInvStep DEF Next, catalogVars, schemaVars, VersionNext, FeeNext, AliasNext
  <2> QED BY <1>1, <1>2, <2>1, PTL DEF Spec
<1> QED BY <1>3, <1>4

-----------------------------------------------------------------------------
(* The evidence registry.                                                            *)
EvidenceTyped ==
    /\ created \in [Version -> Clock \cup {None}]
    /\ registered \in [Evidence -> Clock \cup {None}]
    /\ links \in [Version \X Evidence -> LinkRow \cup {None}]
    /\ snapshots \subseteq SnapshotRow
    /\ decisions \in [Decision -> DecisionRow \cup {None}]
    /\ reading \in [Writer -> SnapshotRow \cup {None}]

LEMMA EvidenceTypedInit == EvidenceInit => EvidenceTyped
BY DEF EvidenceInit, EvidenceTyped

LEMMA SeedTyped ==
    ASSUME EvidenceTyped, NEW v \in Version, NEW o \in Verdict, NEW t \in Clock
    PROVE  /\ EmptyAt(v, t) \in SnapshotRow
           /\ Stored(v, t) \in SnapshotRow /\ Body(Stored(v, t)) = Body(EmptyAt(v, t))
           /\ SeedDecision(v, o, t) \in DecisionRow
<1>1. EmptyAt(v, t) \in SnapshotRow /\ Body(EmptyAt(v, t)) \in SnapshotBody
  BY DEF EmptyAt, SnapshotRow, Body, SnapshotBody
<1>2. Stored(v, t) \in SnapshotRow /\ Body(Stored(v, t)) = Body(EmptyAt(v, t))
  <2>1. CASE \E x \in snapshots : Body(x) = Body(EmptyAt(v, t))
    BY <2>1 DEF Stored, EvidenceTyped
  <2>2. CASE ~ \E x \in snapshots : Body(x) = Body(EmptyAt(v, t))
    BY <2>2, <1>1 DEF Stored
  <2> QED BY <2>1, <2>2
<1>3. SeedDecision(v, o, t) \in DecisionRow
  BY <1>1, EvidenceAssumption DEF SeedDecision, DecisionRow
<1> QED BY <1>1, <1>2, <1>3

(* A link the reader sees is the one on record, made by the time it reads for.         *)
LEMMA LinksAsOfTyped ==
    ASSUME EvidenceTyped, NEW v \in Version, NEW t \in Clock
    PROVE  /\ LinksAsOf(v, t) \subseteq LinkEntry
           /\ \A l \in LinksAsOf(v, t) :
                links[<<v, l.evidence>>] = [grade |-> l.grade, at |-> l.at] /\ l.at <= t
<1>1. ASSUME NEW l \in LinksAsOf(v, t)
      PROVE  /\ l \in LinkEntry
             /\ links[<<v, l.evidence>>] = [grade |-> l.grade, at |-> l.at] /\ l.at <= t
  <2>1. PICK e \in Evidence :
          /\ links[<<v, e>>] # None /\ links[<<v, e>>].at <= t
          /\ l = [evidence |-> e, grade |-> links[<<v, e>>].grade, at |-> links[<<v, e>>].at]
    BY DEF LinksAsOf
  <2> DEFINE r == links[<<v, e>>]
  <2>2. r \in LinkRow
    BY <2>1 DEF EvidenceTyped
  <2>3. r = [grade |-> r.grade, at |-> r.at] /\ r.grade \in Grade /\ r.at \in Clock
    BY <2>2 DEF LinkRow
  <2>4. l.evidence = e /\ l.grade = r.grade /\ l.at = r.at
    BY <2>1
  <2>5. l \in LinkEntry
    BY <2>1, <2>3 DEF LinkEntry
  <2> QED BY <2>1, <2>3, <2>4, <2>5
<1> QED BY <1>1

LEMMA EvidenceTypedStep == EvidenceTyped /\ [EvidenceNext]_evidenceVars => EvidenceTyped'
<1> SUFFICES ASSUME EvidenceTyped, [EvidenceNext]_evidenceVars PROVE EvidenceTyped'
  OBVIOUS
<1> USE DEF EvidenceTyped
<1>1. ASSUME NEW v \in Version, NEW t \in Clock, RegisterHypothesis(v, t) PROVE EvidenceTyped'
  BY <1>1 DEF RegisterHypothesis
<1>2. ASSUME NEW e \in Evidence, NEW t \in Clock, AddEvidence(e, t) PROVE EvidenceTyped'
  BY <1>2 DEF AddEvidence
<1>3. ASSUME NEW v \in Version, NEW e \in Evidence, NEW g \in Grade, NEW t \in Clock,
             LinkEvidence(v, e, g, t)
      PROVE  EvidenceTyped'
  <2>1. [grade |-> g, at |-> t] \in LinkRow
    BY DEF LinkRow
  <2> QED BY <1>3, <2>1 DEF LinkEvidence
<1>4. ASSUME NEW w \in Writer, NEW v \in Version, NEW t \in Clock, NEW g \in Clock,
             ReadForSnapshot(w, v, t, g)
      PROVE  EvidenceTyped'
  <2>1. LinksAsOf(v, t) \subseteq LinkEntry
    BY LinksAsOfTyped
  <2>2. [version |-> v, asOf |-> t, links |-> LinksAsOf(v, t), generatedAt |-> g] \in SnapshotRow
    BY <2>1 DEF SnapshotRow
  <2> QED BY <1>4, <2>2 DEF ReadForSnapshot
<1>5. ASSUME NEW w \in Writer, StoreSnapshot(w) \/ LoseSnapshot(w) PROVE EvidenceTyped'
  BY <1>5 DEF StoreSnapshot, LoseSnapshot, Store
<1>6. ASSUME NEW id \in Decision, NEW v \in Version, NEW o \in Verdict, NEW s \in snapshots,
             NEW t \in Clock, NEW d \in Decision \cup {None}, AppendDecision(id, v, o, s, t, d)
      PROVE  EvidenceTyped'
  <2> DEFINE row == [version |-> v, verdict |-> o, snapshot |-> Body(s),
                     at |-> t, supersedes |-> d]
  <2>1. Body(s) \in SnapshotBody
    BY DEF Body, SnapshotBody, SnapshotRow
  <2>2. row \in DecisionRow
    BY <2>1 DEF DecisionRow
  <2> QED BY <1>6, <2>2 DEF AppendDecision
<1>7. ASSUME NEW seed \in SUBSET Version, NEW t \in Clock, NEW o \in Verdict,
             SeedImport(seed, o, t)
      PROVE  EvidenceTyped'
  <2> DEFINE new == {v \in seed : decisions[SeedOf[v]] = None}
  <2>1. created' \in [Version -> Clock \cup {None}]
    BY <1>7 DEF SeedImport
  <2>2. decisions' \in [Decision -> DecisionRow \cup {None}]
    <3>1. \A v \in Version : SeedDecision(v, o, t) \in DecisionRow
      BY SeedTyped
    <3>2. \A d \in Decision :
            decisions'[d] = IF \E v \in new : SeedOf[v] = d
                            THEN SeedDecision(CHOOSE v \in new : SeedOf[v] = d, o, t)
                            ELSE decisions[d]
      BY <1>7 DEF SeedImport
    <3>3. DOMAIN decisions' = Decision /\ decisions' = [d \in Decision |-> decisions'[d]]
      BY <1>7 DEF SeedImport
    <3>4. \A d \in Decision : (\E v \in new : SeedOf[v] = d)
                                => (CHOOSE v \in new : SeedOf[v] = d) \in Version
      OBVIOUS
    <3>5. ASSUME NEW d \in Decision PROVE decisions'[d] \in DecisionRow \cup {None}
      <4>1. CASE \E v \in new : SeedOf[v] = d
        BY <4>1, <3>1, <3>2, <3>4
      <4>2. CASE ~ \E v \in new : SeedOf[v] = d
        BY <4>2, <3>2
      <4> QED BY <4>1, <4>2
    <3> QED BY <3>3, <3>5
  <2>3. snapshots' \subseteq SnapshotRow
    BY <1>7, SeedTyped DEF SeedImport
  <2> QED BY <1>7, <2>1, <2>2, <2>3 DEF SeedImport
<1>8. ASSUME UNCHANGED evidenceVars PROVE EvidenceTyped'
  BY <1>8 DEF evidenceVars
<1> QED BY <1>1, <1>2, <1>3, <1>4, <1>5, <1>6, <1>7, <1>8 DEF EvidenceNext

(* Rows stay as they were inserted.                                                   *)
LEMMA RowsStay ==
    ASSUME EvidenceTyped, [EvidenceNext]_evidenceVars
    PROVE  /\ \A v \in Version : created[v] # None => created'[v] = created[v]
           /\ \A e \in Evidence : registered[e] # None => registered'[e] = registered[e]
           /\ \A k \in Version \X Evidence : links[k] # None => links'[k] = links[k]
           /\ \A d \in Decision : decisions[d] # None => decisions'[d] = decisions[d]
<1> USE DEF EvidenceTyped
<1> DEFINE Goal ==
      /\ \A v \in Version : created[v] # None => created'[v] = created[v]
      /\ \A e \in Evidence : registered[e] # None => registered'[e] = registered[e]
      /\ \A k \in Version \X Evidence : links[k] # None => links'[k] = links[k]
      /\ \A d \in Decision : decisions[d] # None => decisions'[d] = decisions[d]
<1>1. ASSUME NEW v \in Version, NEW t \in Clock, RegisterHypothesis(v, t) PROVE Goal
  BY <1>1 DEF RegisterHypothesis
<1>2. ASSUME NEW e \in Evidence, NEW t \in Clock, AddEvidence(e, t) PROVE Goal
  BY <1>2 DEF AddEvidence
<1>3. ASSUME NEW v \in Version, NEW e \in Evidence, NEW g \in Grade, NEW t \in Clock,
             LinkEvidence(v, e, g, t)
      PROVE  Goal
  BY <1>3 DEF LinkEvidence
<1>4. ASSUME NEW w \in Writer, NEW v \in Version, NEW t \in Clock, NEW g \in Clock,
             ReadForSnapshot(w, v, t, g)
      PROVE  Goal
  BY <1>4 DEF ReadForSnapshot
<1>5. ASSUME NEW w \in Writer, StoreSnapshot(w) \/ LoseSnapshot(w) PROVE Goal
  BY <1>5 DEF StoreSnapshot, LoseSnapshot
<1>6. ASSUME NEW id \in Decision, NEW v \in Version, NEW o \in Verdict, NEW s \in snapshots,
             NEW t \in Clock, NEW d \in Decision \cup {None}, AppendDecision(id, v, o, s, t, d)
      PROVE  Goal
  BY <1>6 DEF AppendDecision
<1>7. ASSUME NEW seed \in SUBSET Version, NEW t \in Clock, NEW o \in Verdict,
             SeedImport(seed, o, t)
      PROVE  Goal
  BY <1>7 DEF SeedImport
<1>8. ASSUME UNCHANGED evidenceVars PROVE Goal
  BY <1>8 DEF evidenceVars
<1> QED BY <1>1, <1>2, <1>3, <1>4, <1>5, <1>6, <1>7, <1>8 DEF EvidenceNext

(* A link predates neither of its ends.                                               *)
LinksSound ==
    \A v \in Version, e \in Evidence : links[<<v, e>>] # None =>
        /\ created[v] # None /\ created[v] <= links[<<v, e>>].at
        /\ registered[e] # None /\ registered[e] <= links[<<v, e>>].at

LEMMA LinksSoundStep ==
    ASSUME EvidenceTyped, LinksSound, [EvidenceNext]_evidenceVars
    PROVE  LinksSound'
<1>1. CASE links' = links
  BY <1>1, RowsStay DEF LinksSound
<1>2. ASSUME NEW v \in Version, NEW e \in Evidence, NEW g \in Grade, NEW t \in Clock,
             LinkEvidence(v, e, g, t)
      PROVE  LinksSound'
  <2>1. /\ created' = created /\ registered' = registered
        /\ links' = [links EXCEPT ![<<v, e>>] = [grade |-> g, at |-> t]]
        /\ created[v] # None /\ created[v] <= t /\ registered[e] # None /\ registered[e] <= t
    BY <1>2 DEF LinkEvidence
  <2>2. \A k \in Version \X Evidence :
          links'[k] = IF k = <<v, e>> THEN [grade |-> g, at |-> t] ELSE links[k]
    BY <2>1 DEF EvidenceTyped
  <2>3. ASSUME NEW x \in Version, NEW y \in Evidence, links'[<<x, y>>] # None
        PROVE  /\ created[x] # None /\ created[x] <= links'[<<x, y>>].at
               /\ registered[y] # None /\ registered[y] <= links'[<<x, y>>].at
    <3>1. CASE x = v /\ y = e
      BY <3>1, <2>1, <2>2
    <3>2. CASE ~(x = v /\ y = e)
      BY <3>2, <2>2, <2>3 DEF LinksSound
    <3> QED BY <3>1, <3>2
  <2> QED BY <2>1, <2>3 DEF LinksSound
<1>3. links' = links \/ \E v \in Version, e \in Evidence, g \in Grade, t \in Clock :
        LinkEvidence(v, e, g, t)
  BY DEF EvidenceNext, evidenceVars, RegisterHypothesis, AddEvidence, ReadForSnapshot,
         StoreSnapshot, LoseSnapshot, AppendDecision, SeedImport
<1> QED BY <1>1, <1>2, <1>3

(* What a snapshot of version v shows was on record, and made by its time.             *)
Shows(table, v, asOf, shown) ==
    \A l \in shown : table[<<v, l.evidence>>] = [grade |-> l.grade, at |-> l.at] /\ l.at <= asOf

SnapshotsSound ==
    /\ \A s \in snapshots : Shows(links, s.version, s.asOf, s.links)
    /\ \A w \in Writer : reading[w] # None =>
         Shows(links, reading[w].version, reading[w].asOf, reading[w].links)

LEMMA ShowsStays ==
    ASSUME EvidenceTyped, [EvidenceNext]_evidenceVars, NEW v \in Version, NEW t \in Clock,
           NEW shown \in SUBSET LinkEntry, Shows(links, v, t, shown)
    PROVE  Shows(links', v, t, shown)
<1> SUFFICES ASSUME NEW l \in shown
             PROVE  links'[<<v, l.evidence>>] = [grade |-> l.grade, at |-> l.at] /\ l.at <= t
  BY DEF Shows
<1>1. <<v, l.evidence>> \in Version \X Evidence /\ l.grade \in Grade /\ l.at \in Clock
  BY DEF LinkEntry
<1>2. links[<<v, l.evidence>>] = [grade |-> l.grade, at |-> l.at] /\ l.at <= t
  BY DEF Shows
<1>3. [grade |-> l.grade, at |-> l.at] \in LinkRow
  BY <1>1 DEF LinkRow
<1>4. links[<<v, l.evidence>>] # None
  BY <1>2, <1>3, EvidenceAssumption
<1> QED BY <1>1, <1>2, <1>4, RowsStay

LEMMA SnapshotsSoundStep ==
    ASSUME EvidenceTyped, SnapshotsSound, [EvidenceNext]_evidenceVars
    PROVE  SnapshotsSound'
<1>1. \A s \in snapshots : Shows(links', s.version, s.asOf, s.links)
  BY ShowsStays DEF EvidenceTyped, SnapshotsSound, SnapshotRow
<1>2. \A w \in Writer : reading[w] # None =>
        Shows(links', reading[w].version, reading[w].asOf, reading[w].links)
  <2> SUFFICES ASSUME NEW w \in Writer, reading[w] # None
               PROVE  Shows(links', reading[w].version, reading[w].asOf, reading[w].links)
    OBVIOUS
  <2>1. reading[w] \in SnapshotRow
    BY DEF EvidenceTyped
  <2> QED BY <2>1, ShowsStays DEF SnapshotsSound, SnapshotRow
<1>3. CASE snapshots' = snapshots /\ reading' = reading
  BY <1>1, <1>2, <1>3 DEF SnapshotsSound
<1>4. ASSUME NEW w \in Writer, NEW v \in Version, NEW t \in Clock, NEW g \in Clock,
             ReadForSnapshot(w, v, t, g)
      PROVE  SnapshotsSound'
  <2> DEFINE r == [version |-> v, asOf |-> t, links |-> LinksAsOf(v, t), generatedAt |-> g]
  <2>1. Shows(links, r.version, r.asOf, r.links)
    BY LinksAsOfTyped DEF Shows
  <2>2. links' = links /\ snapshots' = snapshots /\ reading' = [reading EXCEPT ![w] = r]
    BY <1>4 DEF ReadForSnapshot
  <2> HIDE DEF r
  <2>3. \A x \in Writer : reading'[x] = IF x = w THEN r ELSE reading[x]
    BY <2>2 DEF EvidenceTyped
  <2> QED BY <1>1, <1>2, <2>1, <2>2, <2>3 DEF SnapshotsSound
<1>5. ASSUME NEW w \in Writer, StoreSnapshot(w) PROVE SnapshotsSound'
  <2>1. reading[w] # None /\ snapshots' \subseteq snapshots \cup {reading[w]}
    BY <1>5 DEF StoreSnapshot, Store
  <2>2. \A x \in Writer : reading'[x] = IF x = w THEN None ELSE reading[x]
    BY <1>5 DEF StoreSnapshot, EvidenceTyped
  <2> QED BY <1>1, <1>2, <2>1, <2>2 DEF SnapshotsSound
<1>6. ASSUME NEW w \in Writer, LoseSnapshot(w) PROVE SnapshotsSound'
  <2>1. snapshots' = snapshots
    BY <1>6 DEF LoseSnapshot
  <2>2. \A x \in Writer : reading'[x] = IF x = w THEN None ELSE reading[x]
    BY <1>6 DEF LoseSnapshot, EvidenceTyped
  <2> QED BY <1>1, <1>2, <2>1, <2>2 DEF SnapshotsSound
<1>7. ASSUME NEW seed \in SUBSET Version, NEW t \in Clock, NEW o \in Verdict,
             SeedImport(seed, o, t)
      PROVE  SnapshotsSound'
  <2>1. ASSUME NEW v \in seed
        PROVE  Shows(links', Stored(v, t).version, Stored(v, t).asOf, Stored(v, t).links)
    <3>1. Body(Stored(v, t)).links = {}
      BY SeedTyped DEF Body, EmptyAt
    <3>2. Stored(v, t).links = {}
      BY <3>1 DEF Body
    <3> QED BY <3>2 DEF Shows
  <2>2. /\ \A s \in snapshots' : s \in snapshots \/ \E v \in seed : s = Stored(v, t)
        /\ reading' = reading
    BY <1>7 DEF SeedImport
  <2> QED BY <1>1, <1>2, <2>1, <2>2 DEF SnapshotsSound
<1>8. \/ snapshots' = snapshots /\ reading' = reading
      \/ \E w \in Writer, v \in Version, t \in Clock, g \in Clock : ReadForSnapshot(w, v, t, g)
      \/ \E w \in Writer : StoreSnapshot(w) \/ LoseSnapshot(w)
      \/ \E seed \in SUBSET Version, t \in Clock, o \in Verdict : SeedImport(seed, o, t)
  BY DEF EvidenceNext, evidenceVars, RegisterHypothesis, AddEvidence, LinkEvidence,
         AppendDecision
<1> QED BY <1>3, <1>4, <1>5, <1>6, <1>7, <1>8

(* What append_decision has checked of a decision row r stays true of it.              *)
Stands(r) ==
    /\ Shows(links, r.version, r.snapshot.asOf, r.snapshot.links)
    /\ r.snapshot.asOf <= r.at
    /\ r.verdict = "PROMOTE" => /\ \E l \in r.snapshot.links : l.evidence \notin Literature
                                /\ \A l \in r.snapshot.links : l.grade = "PASS"
    /\ r.supersedes # None => /\ decisions[r.supersedes] # None
                              /\ decisions[r.supersedes].version = r.version
                              /\ decisions[r.supersedes].at < r.at

DecisionsSound == \A d \in Made : Stands(decisions[d])

LEMMA StandsStays ==
    ASSUME EvidenceTyped, [EvidenceNext]_evidenceVars, NEW r \in DecisionRow, Stands(r)
    PROVE  Stands(r)'
<1>1. /\ r.version \in Version /\ r.snapshot.asOf \in Clock
      /\ r.snapshot.links \in SUBSET LinkEntry
      /\ r.supersedes # None => r.supersedes \in Decision
  BY DEF DecisionRow, SnapshotBody
<1>2. Shows(links', r.version, r.snapshot.asOf, r.snapshot.links)
  BY <1>1, ShowsStays DEF Stands
<1>3. r.supersedes # None => decisions'[r.supersedes] = decisions[r.supersedes]
  BY <1>1, RowsStay DEF Stands
<1> QED BY <1>2, <1>3 DEF Stands

(* A decision that is admitted on a sound snapshot stands.                              *)
LEMMA AdmittedStands ==
    ASSUME EvidenceTyped, NEW d \in DecisionRow, NEW s \in SnapshotRow, Admissible(d, s),
           d.snapshot.asOf = s.asOf, d.snapshot.links = s.links,
           Shows(links, s.version, s.asOf, s.links)
    PROVE  Stands(d)
BY DEF Admissible, Stands, PromotionAllowed

LEMMA DecisionsSoundStep ==
    ASSUME EvidenceTyped, SnapshotsSound, DecisionsSound, [EvidenceNext]_evidenceVars
    PROVE  DecisionsSound'
<1>1. \A d \in Made : Stands(decisions[d])'
  <2> SUFFICES ASSUME NEW d \in Made PROVE Stands(decisions[d])'
    OBVIOUS
  <2>1. decisions[d] \in DecisionRow /\ decisions'[d] = decisions[d]
    BY RowsStay DEF Made, EvidenceTyped
  <2>2. PICK r \in DecisionRow : r = decisions[d]
    BY <2>1
  <2>3. Stands(r)'
    BY <2>2, StandsStays DEF DecisionsSound
  <2> QED BY <2>1, <2>2, <2>3
<1>2. CASE decisions' = decisions
  BY <1>1, <1>2 DEF DecisionsSound, Made
<1>3. ASSUME NEW id \in Decision, NEW v \in Version, NEW o \in Verdict, NEW s \in snapshots,
             NEW t \in Clock, NEW x \in Decision \cup {None}, AppendDecision(id, v, o, s, t, x)
      PROVE  DecisionsSound'
  <2> DEFINE row == [version |-> v, verdict |-> o, snapshot |-> Body(s),
                     at |-> t, supersedes |-> x]
  <2>1. s \in SnapshotRow /\ Body(s) \in SnapshotBody /\ row \in DecisionRow
    BY DEF EvidenceTyped, Body, SnapshotBody, SnapshotRow, DecisionRow
  <2>2. Admissible(row, s) /\ row.snapshot.asOf = s.asOf /\ row.snapshot.links = s.links
    BY <1>3 DEF AppendDecision, Body
  <2>3. decisions' = [decisions EXCEPT ![id] = row]
    BY <1>3 DEF AppendDecision
  <2> HIDE DEF row
  <2>4. Stands(row)'
    BY <2>1, <2>2, AdmittedStands, StandsStays DEF SnapshotsSound
  <2>5. \A d \in Decision : decisions'[d] = IF d = id THEN row ELSE decisions[d]
    BY <2>3 DEF EvidenceTyped
  <2>6. ASSUME NEW d \in Made' PROVE Stands(decisions[d])'
    BY <1>1, <2>4, <2>5 DEF Made
  <2> QED BY <2>6 DEF DecisionsSound
<1>4. ASSUME NEW seed \in SUBSET Version, NEW t \in Clock, NEW o \in Verdict,
             SeedImport(seed, o, t)
      PROVE  DecisionsSound'
  <2> DEFINE new == {v \in seed : decisions[SeedOf[v]] = None}
  <2>1. ASSUME NEW v \in new PROVE Stands(SeedDecision(v, o, t))'
    <3>1. SeedDecision(v, o, t) \in DecisionRow /\ Stored(v, t) \in SnapshotRow
          /\ Body(Stored(v, t)) = Body(EmptyAt(v, t))
      BY SeedTyped
    <3>2. Admissible(SeedDecision(v, o, t), Stored(v, t))
      BY <1>4 DEF SeedImport, SeedAccepted
    <3>3. /\ Stored(v, t).links = {} /\ Stored(v, t).asOf = t
          /\ SeedDecision(v, o, t).snapshot.links = {}
          /\ SeedDecision(v, o, t).snapshot.asOf = t
      BY <3>1 DEF Body, EmptyAt, SeedDecision
    <3>4. Shows(links, Stored(v, t).version, Stored(v, t).asOf, Stored(v, t).links)
      BY <3>3 DEF Shows
    <3> QED BY <3>1, <3>2, <3>3, <3>4, AdmittedStands, StandsStays
  <2>2. ASSUME NEW d \in Made' PROVE Stands(decisions[d])'
    <3>1. decisions'[d] = IF \E v \in new : SeedOf[v] = d
                          THEN SeedDecision(CHOOSE v \in new : SeedOf[v] = d, o, t)
                          ELSE decisions[d]
      BY <1>4 DEF SeedImport, Made
    <3>2. CASE \E v \in new : SeedOf[v] = d
      <4>1. (CHOOSE v \in new : SeedOf[v] = d) \in new
        BY <3>2
      <4>2. PICK v \in new : v = CHOOSE w \in new : SeedOf[w] = d
        BY <4>1
      <4>3. decisions'[d] = SeedDecision(v, o, t)
        BY <3>1, <3>2, <4>2
      <4> QED BY <4>3, <2>1
    <3>3. CASE ~ \E v \in new : SeedOf[v] = d
      <4>1. d \in Made
        BY <3>1, <3>3 DEF Made
      <4> QED BY <4>1, <1>1
    <3> QED BY <3>2, <3>3
  <2> QED BY <2>2 DEF DecisionsSound
<1>5. \/ decisions' = decisions
      \/ \E id \in Decision, v \in Version, o \in Verdict, s \in snapshots,
            t \in Clock, d \in Decision \cup {None} : AppendDecision(id, v, o, s, t, d)
      \/ \E seed \in SUBSET Version, t \in Clock, o \in Verdict : SeedImport(seed, o, t)
  BY DEF EvidenceNext, evidenceVars, RegisterHypothesis, AddEvidence, LinkEvidence,
         ReadForSnapshot, StoreSnapshot, LoseSnapshot
<1> QED BY <1>2, <1>3, <1>4, <1>5

EvidenceInv == EvidenceTyped /\ LinksSound /\ SnapshotsSound /\ DecisionsSound

LEMMA EvidenceInvHolds == Spec => []EvidenceInv
<1>1. Init => EvidenceInv
  <2>1. EvidenceInit => LinksSound /\ SnapshotsSound /\ DecisionsSound
    BY DEF EvidenceInit, LinksSound, SnapshotsSound, DecisionsSound, Made
  <2> QED BY <2>1, EvidenceTypedInit DEF Init, EvidenceInv
<1>2. EvidenceInv /\ [Next]_catalogVars => EvidenceInv'
  <2>1. [Next]_catalogVars => [EvidenceNext]_evidenceVars
    BY DEF Next, catalogVars, evidenceVars, VersionNext, FeeNext, AliasNext
  <2> QED BY <2>1, EvidenceTypedStep, LinksSoundStep, SnapshotsSoundStep, DecisionsSoundStep
        DEF EvidenceInv
<1> QED BY <1>1, <1>2, PTL DEF Spec

(* Of finitely many decisions one is the last, by time and by id on a tie: the current  *)
(* state show_hypothesis derives is well defined.                                       *)
LEMMA LastDecisionExists ==
    ASSUME EvidenceTyped, NEW own \in SUBSET Made, own # {}
    PROVE  \E d \in own : \A c \in own \ {d} : Before(c, d)
<1> DEFINE HasLast(U) == \E d \in U : \A c \in U \ {d} : Before(c, d)
           R == StrictSubsetOrdering(own)
           T == {U \in SUBSET own : U # {} /\ ~HasLast(U)}
<1> SUFFICES ASSUME ~HasLast(own) PROVE FALSE
  OBVIOUS
<1>1. IsFiniteSet(own) /\ FiniteSubsetsOf(own) = SUBSET own
  BY EvidenceAssumption, FS_Subset, FS_FiniteSubsetsOfFinite DEF Made
<1>2. IsWellFoundedOn(R, SUBSET own)
  BY <1>1, FS_StrictSubsetOrderingWellFounded
<1>3. T \subseteq SUBSET own /\ T # {}
  OBVIOUS
<1>4. PICK U \in T : \A V \in T : <<V, U>> \notin R
  <2> HIDE DEF R, T
  <2> QED BY <1>2, <1>3, WFMin
<1>5. PICK x \in U : TRUE
  OBVIOUS
<1>6. U \ {x} # {} /\ U \ {x} \in SUBSET own
  OBVIOUS
<1>7. <<U \ {x}, U>> \in R
  BY DEF StrictSubsetOrdering
<1>8. HasLast(U \ {x})
  BY <1>4, <1>6, <1>7
<1>9. PICK m \in U \ {x} : \A c \in (U \ {x}) \ {m} : Before(c, m)
  BY <1>8
<1>10. \A c \in U : c \in Nat /\ decisions[c].at \in Nat
  BY EvidenceAssumption DEF Made, EvidenceTyped, DecisionRow
<1>11. HasLast(U)
  <2>1. CASE Before(x, m)
    BY <1>9, <2>1
  <2>2. CASE ~Before(x, m)
    <3>1. Before(m, x)
      <4>1. m \in U /\ x \in U /\ m # x
        BY <1>5, <1>9
      <4>2. /\ m \in Nat /\ x \in Nat /\ decisions[m].at \in Nat /\ decisions[x].at \in Nat
        BY <4>1, <1>10
      <4> HIDE <1>9
      <4> QED BY ONLY <2>2, <4>1, <4>2 DEF Before
    <3>2. ASSUME NEW c \in U \ {x} PROVE Before(c, x)
      <4>1. c = m \/ Before(c, m)
        BY <1>9
      <4>2. /\ m \in Nat /\ x \in Nat /\ c \in Nat
            /\ decisions[m].at \in Nat /\ decisions[x].at \in Nat /\ decisions[c].at \in Nat
        BY <1>5, <1>9, <1>10
      <4> QED BY <3>1, <4>1, <4>2 DEF Before
    <3> QED BY <3>2
  <2> QED BY <2>1, <2>2
<1> QED BY <1>11

(* A promotion rests on evidence of its own version that was on record in time and       *)
(* passed, and a corrected decision is never the current state, for any clocks and any    *)
(* order of appends (repository.py:586-737, 830).                                         *)
THEOREM DecisionsAlwaysStand == Spec => []DecisionsStand
<1>1. EvidenceInv => PromotionsRestOnEvidence
  <2> SUFFICES ASSUME EvidenceInv, NEW d \in Made, decisions[d].verdict = "PROMOTE",
                      NEW s, s = decisions[d].snapshot, NEW v, v = decisions[d].version
               PROVE  /\ \E l \in s.links : l.evidence \notin Literature
                      /\ \A l \in s.links :
                           /\ links[<<v, l.evidence>>] = [grade |-> "PASS", at |-> l.at]
                           /\ created[v] <= l.at
                           /\ registered[l.evidence] <= l.at /\ l.at <= s.asOf
                      /\ s.asOf <= decisions[d].at
    BY DEF PromotionsRestOnEvidence
  <2>1. Stands(decisions[d]) /\ decisions[d] \in DecisionRow
    BY DEF EvidenceInv, DecisionsSound, EvidenceTyped, Made
  <2>2. v \in Version /\ s.links \subseteq LinkEntry
    BY <2>1 DEF DecisionRow, SnapshotBody
  <2>3. ASSUME NEW l \in s.links
        PROVE  /\ links[<<v, l.evidence>>] = [grade |-> "PASS", at |-> l.at]
               /\ created[v] <= l.at
               /\ registered[l.evidence] <= l.at /\ l.at <= s.asOf
    <3>1. /\ links[<<v, l.evidence>>] = [grade |-> l.grade, at |-> l.at]
          /\ l.at <= s.asOf /\ l.grade = "PASS"
      BY <2>1 DEF Stands, Shows
    <3>2. l.evidence \in Evidence /\ [grade |-> l.grade, at |-> l.at] \in LinkRow
      BY <2>2 DEF LinkEntry, LinkRow
    <3>3. links[<<v, l.evidence>>] # None /\ links[<<v, l.evidence>>].at = l.at
      BY <3>1, <3>2, EvidenceAssumption
    <3> QED BY <3>1, <3>2, <3>3, <2>2 DEF EvidenceInv, LinksSound
  <2> QED BY <2>1, <2>3 DEF Stands
<1>2. EvidenceInv => SupersededIsNotCurrent
  <2> SUFFICES ASSUME EvidenceInv, NEW d \in Made, decisions[d].supersedes # None,
                      Current(HypothesisOf[decisions[d].version]) = decisions[d].supersedes
               PROVE  FALSE
    BY DEF SupersededIsNotCurrent
  <2> DEFINE h == HypothesisOf[decisions[d].version]
             own == {x \in Made : HypothesisOf[decisions[x].version] = h}
             c == decisions[d].supersedes
  <2>1. /\ Stands(decisions[d]) /\ decisions[d] \in DecisionRow
        /\ c \in Decision /\ decisions[c] \in DecisionRow /\ decisions[c].at < decisions[d].at
    BY DEF EvidenceInv, DecisionsSound, EvidenceTyped, Made, Stands, DecisionRow
  <2>2. d \in own /\ own \in SUBSET Made
    BY Zenon
  <2>3. Current(h) = CHOOSE x \in own : \A y \in own \ {x} : Before(y, x)
    <3>1. own # {}
      BY <2>2
    <3> QED BY <3>1, Zenon DEF Current
  <2>4. \A y \in own \ {c} : Before(y, c)
    BY <2>2, <2>3, LastDecisionExists DEF EvidenceInv
  <2>5. decisions[c].at \in Nat /\ decisions[d].at \in Nat
    BY <2>1, EvidenceAssumption DEF DecisionRow
  <2>6. d # c /\ Before(d, c)
    BY <2>1, <2>2, <2>4, <2>5
  <2> QED BY <2>1, <2>5, <2>6 DEF Before
<1>3. EvidenceInv => DecisionsStand
  BY <1>1, <1>2 DEF DecisionsStand
<1> QED BY <1>3, EvidenceInvHolds, PTL

-----------------------------------------------------------------------------
(* The reference master: the rows of its three tables.                                    *)
End == Time \cup {Open}
Versions == [instrument : Instrument, seq : Nat, vf : Time, vt : End, kf : Time, kt : End]
Fees == [instrument : Instrument, rate : Rate, vf : Time, vt : End, kf : Time, kt : End]
Aliases == [name : Name, venue : Venue \cup {Global}, target : Target,
            vf : Time, vt : End, kf : Time, kt : End]

Lasting(r) == r.vf < r.vt /\ r.kf < r.kt

LEMMA EndIsNat == End \subseteq Nat /\ Time \subseteq Nat /\ Time \subseteq End
BY TimeAssumption DEF End

(* A closed row is the same row, with another end of knowledge.                            *)
LEMMA ClosedVersion ==
    ASSUME NEW r \in Versions, NEW t \in End
    PROVE  /\ Closed(r, t) \in Versions
           /\ Closed(r, t).instrument = r.instrument /\ Closed(r, t).seq = r.seq
           /\ Closed(r, t).vf = r.vf /\ Closed(r, t).vt = r.vt /\ Closed(r, t).kf = r.kf
           /\ Closed(r, t).kt = t
BY DEF Versions, Closed

LEMMA ClosedFee ==
    ASSUME NEW r \in Fees, NEW t \in End
    PROVE  /\ Closed(r, t) \in Fees
           /\ Closed(r, t).instrument = r.instrument /\ Closed(r, t).rate = r.rate
           /\ Closed(r, t).vf = r.vf /\ Closed(r, t).vt = r.vt /\ Closed(r, t).kf = r.kf
           /\ Closed(r, t).kt = t
BY DEF Fees, Closed

LEMMA ClosedAlias ==
    ASSUME NEW r \in Aliases, NEW t \in End
    PROVE  /\ Closed(r, t) \in Aliases
           /\ Closed(r, t).name = r.name /\ Closed(r, t).venue = r.venue
           /\ Closed(r, t).target = r.target
           /\ Closed(r, t).vf = r.vf /\ Closed(r, t).vt = r.vt /\ Closed(r, t).kf = r.kf
           /\ Closed(r, t).kt = t
BY DEF Aliases, Closed

LEMMA NewVersion ==
    ASSUME NEW i \in Instrument, NEW n \in 1..MaxRows, NEW w \in Window
    PROVE  /\ VersionRow(i, n, w) \in Versions /\ Lasting(VersionRow(i, n, w))
           /\ VersionRow(i, n, w).instrument = i /\ VersionRow(i, n, w).kf = w.kf
BY DEF VersionRow, Window, Versions, Lasting, End

LEMMA NewFee ==
    ASSUME NEW i \in Instrument, NEW x \in Rate, NEW w \in Window
    PROVE  /\ FeeRow(i, x, w) \in Fees /\ Lasting(FeeRow(i, x, w))
           /\ FeeRow(i, x, w).instrument = i /\ FeeRow(i, x, w).kf = w.kf
BY DEF FeeRow, Window, Fees, Lasting, End

LEMMA NewAlias ==
    ASSUME NEW n \in Name, NEW v \in Venue \cup {Global}, NEW x \in Target, NEW w \in Window
    PROVE  /\ AliasRow(n, v, x, w) \in Aliases /\ Lasting(AliasRow(n, v, x, w))
           /\ AliasRow(n, v, x, w).kf = w.kf
BY DEF AliasRow, Window, Aliases, Lasting, End

(* No two rows of one instrument meet in both times.                                       *)
VersionsApart ==
    /\ versions \subseteq Versions /\ \A r \in versions : Lasting(r)
    /\ \A x \in versions, y \in versions : x # y /\ x.instrument = y.instrument
         => x.seq # y.seq /\ ~Overlaps(x, y)

FeesApart ==
    /\ fees \subseteq Fees /\ \A r \in fees : Lasting(r)
    /\ \A x \in fees, y \in fees : x # y /\ x.instrument = y.instrument => ~Overlaps(x, y)

AliasesAgree ==
    /\ aliases \subseteq Aliases /\ \A r \in aliases : Lasting(r)
    /\ \A x \in aliases, y \in aliases :
         SameScope(x, y) /\ Overlaps(x, y) => x.target = y.target

LEMMA OverlapsIsSymmetric == \A x, y : Overlaps(x, y) <=> Overlaps(y, x)
BY DEF Overlaps

(* What a correction leaves of the table, and what it adds.                                *)
LEMMA VersionsApartStep ==
    ASSUME VersionsApart, VersionNext
    PROVE  VersionsApart'
<1>1. ASSUME NEW rest \in SUBSET Versions, \A r \in rest : Lasting(r),
             \A x \in rest, y \in rest : x # y /\ x.instrument = y.instrument
               => x.seq # y.seq /\ ~Overlaps(x, y),
             NEW r \in Versions, Lasting(r), VersionFits(rest, r), versions' = rest \cup {r}
      PROVE  VersionsApart'
  BY <1>1, OverlapsIsSymmetric DEF VersionsApart, VersionFits
<1>2. ASSUME NEW i \in Instrument, NEW n \in 1..MaxRows, NEW w \in Window, AddVersion(i, n, w)
      PROVE  VersionsApart'
  BY <1>1, <1>2, NewVersion DEF AddVersion, VersionsApart
<1>3. ASSUME NEW prior \in versions, NEW at \in Time, NEW n \in 1..MaxRows, NEW w \in Window,
             SupersedeVersion(prior, at, n, w)
      PROVE  VersionsApart'
  <2> DEFINE c == Closed(prior, at)
             rest == (versions \ {prior}) \cup {c}
             r == VersionRow(prior.instrument, n, w)
  <2>1. prior \in Versions /\ prior.kt = Open /\ prior.kf < at /\ at \in End /\ at < Open
    BY <1>3, EndIsNat, TimeAssumption DEF SupersedeVersion, Corrects, VersionsApart
  <2>2. /\ c \in Versions /\ c.instrument = prior.instrument /\ c.seq = prior.seq
        /\ c.vf = prior.vf /\ c.vt = prior.vt /\ c.kf = prior.kf /\ c.kt = at
    BY <2>1, ClosedVersion
  <2>3. r \in Versions /\ Lasting(r)
    BY <2>1, NewVersion DEF Versions
  <2>4. VersionFits(rest, r) /\ versions' = rest \cup {r}
    BY <1>3 DEF SupersedeVersion
  <2> HIDE DEF c, r
  <2>5. Lasting(c)
    BY <2>1, <2>2 DEF Lasting, VersionsApart
  <2>6. ASSUME NEW x \in versions, x # prior, x.instrument = prior.instrument
        PROVE  x.seq # c.seq /\ ~Overlaps(x, c) /\ ~Overlaps(c, x)
    <3>1. x.seq # prior.seq /\ ~Overlaps(x, prior) /\ x \in Versions
      BY <2>6 DEF VersionsApart
    <3>2. /\ x.kf \in Nat /\ x.kt \in Nat /\ x.vf \in Nat /\ x.vt \in Nat
          /\ prior.kf \in Nat /\ prior.vf \in Nat /\ prior.vt \in Nat /\ at \in Nat
      BY <3>1, <2>1, EndIsNat DEF Versions
    <3>3. ~Overlaps(x, c)
      BY <3>1, <3>2, <2>1, <2>2, TimeAssumption DEF Overlaps
    <3> QED BY <3>1, <3>3, <2>2, OverlapsIsSymmetric
  <2>7. rest \in SUBSET Versions /\ \A x \in rest : Lasting(x)
    BY <2>2, <2>5 DEF VersionsApart
  <2>8. \A x \in rest, y \in rest : x # y /\ x.instrument = y.instrument
          => x.seq # y.seq /\ ~Overlaps(x, y)
    BY <2>2, <2>6 DEF VersionsApart
  <2> QED BY <1>1, <2>3, <2>4, <2>7, <2>8
<1> QED BY <1>2, <1>3 DEF VersionNext

LEMMA FeesApartStep ==
    ASSUME FeesApart, FeeNext
    PROVE  FeesApart'
<1>1. ASSUME NEW rest \in SUBSET Fees, \A r \in rest : Lasting(r),
             \A x \in rest, y \in rest : x # y /\ x.instrument = y.instrument => ~Overlaps(x, y),
             NEW r \in Fees, Lasting(r), FeeFits(rest, r), fees' = rest \cup {r}
      PROVE  FeesApart'
  BY <1>1, OverlapsIsSymmetric DEF FeesApart, FeeFits
<1>2. ASSUME NEW i \in Instrument, NEW x \in Rate, NEW w \in Window, AddFee(i, x, w)
      PROVE  FeesApart'
  BY <1>1, <1>2, NewFee DEF AddFee, FeesApart
<1>3. ASSUME NEW prior \in fees, NEW at \in Time, NEW rate \in Rate, NEW w \in Window,
             SupersedeFee(prior, at, rate, w)
      PROVE  FeesApart'
  <2> DEFINE c == Closed(prior, at)
             rest == (fees \ {prior}) \cup {c}
             r == FeeRow(prior.instrument, rate, w)
  <2>1. prior \in Fees /\ prior.kt = Open /\ prior.kf < at /\ at \in End /\ at < Open
    BY <1>3, EndIsNat, TimeAssumption DEF SupersedeFee, Corrects, FeesApart
  <2>2. /\ c \in Fees /\ c.instrument = prior.instrument
        /\ c.vf = prior.vf /\ c.vt = prior.vt /\ c.kf = prior.kf /\ c.kt = at
    BY <2>1, ClosedFee
  <2>3. r \in Fees /\ Lasting(r)
    BY <2>1, NewFee DEF Fees
  <2>4. FeeFits(rest, r) /\ fees' = rest \cup {r}
    BY <1>3 DEF SupersedeFee
  <2> HIDE DEF c, r
  <2>5. Lasting(c)
    BY <2>1, <2>2 DEF Lasting, FeesApart
  <2>6. ASSUME NEW x \in fees, x # prior, x.instrument = prior.instrument
        PROVE  ~Overlaps(x, c) /\ ~Overlaps(c, x)
    <3>1. ~Overlaps(x, prior) /\ x \in Fees
      BY <2>6 DEF FeesApart
    <3>2. /\ x.kf \in Nat /\ x.kt \in Nat /\ x.vf \in Nat /\ x.vt \in Nat
          /\ prior.kf \in Nat /\ prior.vf \in Nat /\ prior.vt \in Nat /\ at \in Nat
      BY <3>1, <2>1, EndIsNat DEF Fees
    <3>3. ~Overlaps(x, c)
      BY <3>1, <3>2, <2>1, <2>2, TimeAssumption DEF Overlaps
    <3> QED BY <3>3, OverlapsIsSymmetric
  <2>7. rest \in SUBSET Fees /\ \A x \in rest : Lasting(x)
    BY <2>2, <2>5 DEF FeesApart
  <2>8. \A x \in rest, y \in rest : x # y /\ x.instrument = y.instrument => ~Overlaps(x, y)
    BY <2>2, <2>6 DEF FeesApart
  <2> QED BY <1>1, <2>3, <2>4, <2>7, <2>8
<1> QED BY <1>2, <1>3 DEF FeeNext

(* What an alias operation does to the table.                                             *)
LEMMA AliasesAgreeStep ==
    ASSUME AliasesAgree, AliasNext
    PROVE  AliasesAgree'
<1>1. ASSUME NEW rest \in SUBSET Aliases, \A r \in rest : Lasting(r),
             \A x \in rest, y \in rest : SameScope(x, y) /\ Overlaps(x, y) => x.target = y.target,
             NEW r \in Aliases, Lasting(r), AliasFits(rest, r), aliases' = rest \cup {r}
      PROVE  AliasesAgree'
  <2>1. \A x \in rest : /\ SameScope(x, r) /\ Overlaps(x, r) => x.target = r.target
                        /\ SameScope(r, x) /\ Overlaps(r, x) => x.target = r.target
    BY <1>1, OverlapsIsSymmetric DEF AliasFits, SameScope
  <2> QED BY <1>1, <2>1 DEF AliasesAgree
<1>2. ASSUME NEW n \in Name, NEW v \in Venue \cup {Global}, NEW x \in Target,
             NEW w \in AliasWindow, AddAlias(n, v, x, w)
      PROVE  AliasesAgree'
  BY <1>1, <1>2, NewAlias DEF AddAlias, AliasesAgree, AliasWindow
<1>3. ASSUME NEW prior \in aliases, NEW at \in AliasTime, NEW n \in Name, NEW t \in Target,
             NEW w \in AliasWindow, SupersedeAlias(prior, at, n, t, w)
      PROVE  AliasesAgree'
  <2> DEFINE c == Closed(prior, at)
             rest == (aliases \ {prior}) \cup {c}
             r == AliasRow(n, prior.venue, t, w)
  <2>1. prior \in Aliases /\ prior.kt = Open /\ prior.kf < at /\ at \in End /\ at < Open
    BY <1>3, EndIsNat, TimeAssumption, AliasAssumption
    DEF SupersedeAlias, Corrects, AliasesAgree
  <2>2. /\ c \in Aliases /\ c.name = prior.name /\ c.venue = prior.venue
        /\ c.target = prior.target
        /\ c.vf = prior.vf /\ c.vt = prior.vt /\ c.kf = prior.kf /\ c.kt = at
    BY <2>1, ClosedAlias
  <2>3. r \in Aliases /\ Lasting(r)
    BY <2>1, NewAlias DEF Aliases, AliasWindow
  <2>4. AliasFits(rest, r) /\ aliases' = rest \cup {r}
    BY <1>3 DEF SupersedeAlias
  <2> HIDE DEF c, r
  <2>5. Lasting(c)
    BY <2>1, <2>2 DEF Lasting, AliasesAgree
  <2>6. ASSUME NEW x \in aliases
        PROVE  /\ SameScope(x, c) /\ Overlaps(x, c) => x.target = c.target
               /\ SameScope(c, x) /\ Overlaps(c, x) => x.target = c.target
    <3>1. x \in Aliases /\ (SameScope(x, prior) /\ Overlaps(x, prior) => x.target = prior.target)
      BY DEF AliasesAgree
    <3>2. /\ x.kf \in Nat /\ x.kt \in Nat /\ x.vf \in Nat /\ x.vt \in Nat
          /\ prior.kf \in Nat /\ prior.vf \in Nat /\ prior.vt \in Nat /\ at \in Nat
      BY <3>1, <2>1, EndIsNat DEF Aliases
    <3>3. Overlaps(x, c) => Overlaps(x, prior)
      BY <3>2, <2>1, <2>2, TimeAssumption DEF Overlaps
    <3> QED BY <3>1, <3>3, <2>2, OverlapsIsSymmetric DEF SameScope
  <2>7. rest \in SUBSET Aliases /\ \A x \in rest : Lasting(x)
    BY <2>2, <2>5 DEF AliasesAgree
  <2>8. \A x \in rest, y \in rest : SameScope(x, y) /\ Overlaps(x, y) => x.target = y.target
    BY <2>6 DEF AliasesAgree
  <2> QED BY <1>1, <2>3, <2>4, <2>7, <2>8
<1>4. CASE aliases' = aliases
  BY <1>4 DEF AliasesAgree
<1> QED BY <1>2, <1>3, <1>4 DEF AliasNext, AskAmbiguous, QueueAmbiguity, ResolveCase, DismissCase

TablesInv == VersionsApart /\ FeesApart /\ AliasesAgree

LEMMA TablesInvHolds == Spec => []TablesInv
<1>1. Init => TablesInv
  BY DEF Init, RefInit, TablesInv, VersionsApart, FeesApart, AliasesAgree
<1>2. TablesInv /\ [Next]_catalogVars => TablesInv'
  <2> SUFFICES ASSUME TablesInv, [Next]_catalogVars PROVE TablesInv'
    OBVIOUS
  <2>1. versions' = versions => VersionsApart'
    BY DEF TablesInv, VersionsApart
  <2>2. fees' = fees => FeesApart'
    BY DEF TablesInv, FeesApart
  <2>3. aliases' = aliases => AliasesAgree'
    BY DEF TablesInv, AliasesAgree
  <2>4. ASSUME VersionNext PROVE TablesInv'
    <3>1. fees' = fees /\ aliases' = aliases
      BY <2>4 DEF VersionNext, AddVersion, SupersedeVersion
    <3> QED BY <3>1, <2>2, <2>3, <2>4, VersionsApartStep DEF TablesInv
  <2>5. ASSUME FeeNext PROVE TablesInv'
    <3>1. versions' = versions /\ aliases' = aliases
      BY <2>5 DEF FeeNext, AddFee, SupersedeFee
    <3> QED BY <3>1, <2>1, <2>3, <2>5, FeesApartStep DEF TablesInv
  <2>6. ASSUME AliasNext PROVE TablesInv'
    <3>1. versions' = versions /\ fees' = fees
      BY <2>6 DEF AliasNext, AddAlias, SupersedeAlias, AskAmbiguous, QueueAmbiguity,
                  ResolveCase, DismissCase
    <3> QED BY <3>1, <2>1, <2>2, <2>6, AliasesAgreeStep DEF TablesInv
  <2>7. ASSUME UNCHANGED refVars PROVE TablesInv'
    BY <2>1, <2>2, <2>3, <2>7 DEF refVars, TablesInv
  <2> QED BY <2>4, <2>5, <2>6, <2>7 DEF Next, catalogVars, refVars
<1> QED BY <1>1, <1>2, PTL DEF Spec

LEMMA AtMostOne ==
    ASSUME NEW S, \A x \in S, y \in S : x = y
    PROVE  Cardinality(S) <= 1
<1>1. CASE S = {}
  BY <1>1, FS_EmptySet
<1>2. CASE S # {}
  <2>1. PICK x \in S : S = {x}
    BY <1>2
  <2> QED BY <2>1, FS_Singleton
<1> QED BY <1>1, <1>2

(* Two rows active for one question overlap.                                              *)
LEMMA ActiveOverlap ==
    ASSUME NEW x, NEW y, NEW d \in Nat, NEW k \in Nat, Active(x, d, k), Active(y, d, k),
           {x.vf, x.vt, x.kf, x.kt, y.vf, y.vt, y.kf, y.kt} \subseteq Nat
    PROVE  Overlaps(x, y)
BY DEF Active, Overlaps

(* The one version, and the one schedule, of an instrument a question can be answered by. *)
LEMMA OneVersion ==
    ASSUME VersionsApart, NEW i \in Instrument, NEW d \in Time, NEW k \in Time
    PROVE  /\ \A x, y \in {r \in versions : r.instrument = i /\ Active(r, d, k)} : x = y
           /\ VersionAsOf(versions, i, d, k) = {r \in versions : r.instrument = i /\ Active(r, d, k)}
<1>1. ASSUME NEW x \in versions, NEW y \in versions, x.instrument = i, y.instrument = i,
             Active(x, d, k), Active(y, d, k)
      PROVE  x = y
  <2>1. {x.vf, x.vt, x.kf, x.kt, y.vf, y.vt, y.kf, y.kt} \subseteq Nat /\ d \in Nat /\ k \in Nat
    BY EndIsNat DEF VersionsApart, Versions
  <2>2. Overlaps(x, y)
    BY <1>1, <2>1, ActiveOverlap
  <2> QED BY <1>1, <2>2 DEF VersionsApart
<1>2. \A x \in versions : x.seq \in Nat
  BY DEF VersionsApart, Versions
<1> QED BY <1>1, <1>2 DEF VersionAsOf

LEMMA OneFee ==
    ASSUME FeesApart, NEW i \in Instrument, NEW d \in Time, NEW k \in Time
    PROVE  \A x, y \in FeeAsOf(fees, i, d, k) : x = y
<1>1. ASSUME NEW x \in fees, NEW y \in fees, x.instrument = i, y.instrument = i,
             Active(x, d, k), Active(y, d, k)
      PROVE  x = y
  <2>1. {x.vf, x.vt, x.kf, x.kt, y.vf, y.vt, y.kf, y.kt} \subseteq Nat /\ d \in Nat /\ k \in Nat
    BY EndIsNat DEF FeesApart, Fees
  <2>2. Overlaps(x, y)
    BY <1>1, <2>1, ActiveOverlap
  <2> QED BY <1>1, <2>2 DEF FeesApart
<1> QED BY <1>1 DEF FeeAsOf

(* Whatever was added and corrected, a question has at most one answer, both readers give   *)
(* it, and an alias names one target per scope (store.py:1170, 1399, 1477, as_of.py).       *)
THEOREM OneAnswerAlways == Spec => []OneAnswer
<1>1. TablesInv => OneAnswer
  <2> SUFFICES ASSUME TablesInv PROVE OneAnswer
    OBVIOUS
  <2>0. VersionsApart /\ FeesApart /\ AliasesAgree
    BY DEF TablesInv
  <2>1. ASSUME NEW i \in Instrument, NEW d \in Time, NEW k \in Time
        PROVE  /\ Cardinality(VersionAsOf(versions, i, d, k)) <= 1
               /\ Cardinality(FeeAsOf(fees, i, d, k)) <= 1
    BY <2>0, OneVersion, OneFee, AtMostOne
  <2>2. ASSUME NEW i \in Instrument, NEW d \in Time
        PROVE  /\ LatestVersion(versions, i, d) = VersionAsOf(versions, i, d, d)
               /\ LatestFee(fees, i, d) = FeeAsOf(fees, i, d, d)
    <3>1. \A r : ReferenceEligible(r, d, d) <=> Active(r, d, d)
      BY DEF ReferenceEligible, Active
    <3>2. LatestVersion(versions, i, d) = VersionAsOf(versions, i, d, d)
      <4> DEFINE rows == {r \in versions : r.instrument = i /\ Active(r, d, d)}
      <4>1. \A x, y \in rows : x = y
        BY <2>0, OneVersion
      <4>2. VersionAsOf(versions, i, d, d) = rows
        BY <2>0, OneVersion
      <4>3. LatestVersion(versions, i, d) = {r \in rows : \A x \in rows : x.seq <= r.seq}
        BY <3>1 DEF LatestVersion
      <4>4. \A r \in rows : r.seq \in Nat
        BY <2>0 DEF VersionsApart, Versions
      <4> QED BY <4>1, <4>2, <4>3, <4>4
    <3>3. LatestFee(fees, i, d) = FeeAsOf(fees, i, d, d)
      <4> DEFINE rows == FeeAsOf(fees, i, d, d)
      <4>1. \A x, y \in rows : x = y
        BY <2>0, OneFee
      <4>2. LatestFee(fees, i, d) =
              {r \in rows : \A x \in rows : x.vf < r.vf \/ (x.vf = r.vf /\ x.kf <= r.kf)}
        BY <3>1 DEF LatestFee, FeeAsOf
      <4>3. \A r \in rows : r.kf \in Nat
        BY <2>0, EndIsNat DEF FeesApart, Fees, FeeAsOf
      <4> QED BY <4>1, <4>2, <4>3
    <3> QED BY <3>2, <3>3
  <2>3. \A a \in aliases, b \in aliases : SameScope(a, b) /\ a.target # b.target => ~Overlaps(a, b)
    BY <2>0 DEF AliasesAgree
  <2> QED BY <2>1, <2>2, <2>3 DEF OneAnswer
<1> QED BY <1>1, TablesInvHolds, PTL

-----------------------------------------------------------------------------
(* The queue of ambiguous aliases.  x was named for question q by a row of the table.      *)
Named(table, q, x) ==
    \E r \in table : /\ r.name = q.name /\ r.venue \in {q.venue, Global} /\ r.target = x
                     /\ r.vf <= q.d /\ q.d < r.vt /\ r.kf <= q.k

CasesTyped ==
    /\ cases \in [Question -> Case \cup {Nothing}]
    /\ asking \in [Asker -> Ambiguous \cup {Nothing}]

CandidatesNamed ==
    /\ \A a \in Asker : asking[a] # Nothing =>
         \A x \in asking[a].candidates : Named(aliases, asking[a].question, x)
    /\ \A q \in Question : cases[q] # Nothing =>
         /\ \A x \in cases[q].candidates : Named(aliases, q, x)
         /\ cases[q].status = "RESOLVED" => cases[q].target \in cases[q].candidates

QueueInv == AliasesAgree /\ CasesTyped /\ CandidatesNamed

LEMMA TargetsNamed ==
    ASSUME AliasesAgree, NEW q \in Question, NEW x \in Targets(aliases, q)
    PROVE  x \in Target /\ Named(aliases, q, x)
BY DEF Targets, Matches, Active, Named, AliasesAgree, Aliases

(* A name given stays given: corrections only end what was known.                           *)
LEMMA NamedStays ==
    ASSUME AliasesAgree, [AliasNext]_refVars, NEW q, NEW x, Named(aliases, q, x)
    PROVE  Named(aliases', q, x)
<1>1. PICK r \in aliases : /\ r.name = q.name /\ r.venue \in {q.venue, Global} /\ r.target = x
                           /\ r.vf <= q.d /\ q.d < r.vt /\ r.kf <= q.k
  BY DEF Named
<1>2. CASE aliases \subseteq aliases'
  BY <1>1, <1>2 DEF Named
<1>3. ASSUME NEW prior \in aliases, NEW at \in AliasTime, NEW n \in Name, NEW t \in Target,
             NEW w \in AliasWindow, SupersedeAlias(prior, at, n, t, w)
      PROVE  Named(aliases', q, x)
  <2>1. (aliases \ {prior}) \cup {Closed(prior, at)} \subseteq aliases'
    BY <1>3 DEF SupersedeAlias
  <2>2. CASE r # prior
    <3>1. r \in aliases'
      BY <2>1, <2>2
    <3> QED BY <1>1, <3>1 DEF Named
  <2>3. CASE r = prior
    <3>1. r \in Aliases /\ at \in End
      BY EndIsNat, AliasAssumption DEF AliasesAgree
    <3>2. Closed(r, at) \in aliases'
      BY <2>1, <2>3
    <3>3. /\ Closed(r, at).name = r.name /\ Closed(r, at).venue = r.venue
          /\ Closed(r, at).target = r.target
          /\ Closed(r, at).vf = r.vf /\ Closed(r, at).vt = r.vt /\ Closed(r, at).kf = r.kf
      BY <3>1, ClosedAlias
    <3> QED BY <1>1, <3>2, <3>3 DEF Named
  <2> QED BY <2>2, <2>3
<1> QED BY <1>2, <1>3
      DEF AliasNext, AddAlias, AskAmbiguous, QueueAmbiguity, ResolveCase, DismissCase, refVars

LEMMA QueueInvStep == ASSUME QueueInv, [AliasNext]_refVars PROVE CasesTyped' /\ CandidatesNamed'
<1> USE DEF QueueInv, CasesTyped
<1>1. \A a \in Asker : asking[a] # Nothing =>
        /\ asking[a] \in Ambiguous
        /\ \A x \in asking[a].candidates : Named(aliases', asking[a].question, x)
  BY NamedStays DEF CandidatesNamed
<1>2. \A q \in Question : cases[q] # Nothing =>
        /\ cases[q] \in Case
        /\ \A x \in cases[q].candidates : Named(aliases', q, x)
        /\ cases[q].status = "RESOLVED" => cases[q].target \in cases[q].candidates
  BY NamedStays DEF CandidatesNamed
<1>3. CASE cases' = cases /\ asking' = asking
  BY <1>1, <1>2, <1>3 DEF CandidatesNamed
<1>4. ASSUME NEW a \in Asker, NEW q \in Question, AskAmbiguous(a, q)
      PROVE  CasesTyped' /\ CandidatesNamed'
  <2> DEFINE r == [question |-> q, candidates |-> Targets(aliases, q)]
  <2>1. r \in Ambiguous /\ \A x \in r.candidates : Named(aliases, r.question, x)
    BY TargetsNamed DEF Ambiguous, Question
  <2>2. asking' = [asking EXCEPT ![a] = r] /\ cases' = cases /\ aliases' = aliases
    BY <1>4 DEF AskAmbiguous
  <2> HIDE DEF r
  <2>3. \A b \in Asker : asking'[b] = IF b = a THEN r ELSE asking[b]
    BY <2>2
  <2> QED BY <1>1, <1>2, <2>1, <2>2, <2>3 DEF CandidatesNamed
<1>5. ASSUME NEW a \in Asker, QueueAmbiguity(a)
      PROVE  CasesTyped' /\ CandidatesNamed'
  <2> DEFINE q == asking[a].question
             r == [status |-> "QUEUED", target |-> Nothing, candidates |-> asking[a].candidates]
  <2>1. /\ asking[a] # Nothing /\ asking[a] \in Ambiguous /\ q \in Question
        /\ asking[a].candidates \in SUBSET Target
    BY <1>5 DEF QueueAmbiguity, Ambiguous, Question
  <2>2. r \in Case
    BY <2>1 DEF Case
  <2>3. /\ r.status = "QUEUED"
        /\ \A x \in r.candidates : Named(aliases', q, x)
    BY <2>1, <1>1
  <2>4. /\ cases' = IF cases[q] = Nothing THEN [cases EXCEPT ![q] = r] ELSE cases
        /\ asking' = [asking EXCEPT ![a] = Nothing]
    BY <1>5 DEF QueueAmbiguity
  <2> HIDE DEF q, r
  <2>5. /\ \A b \in Asker : asking'[b] = IF b = a THEN Nothing ELSE asking[b]
        /\ \A p \in Question : cases'[p] = cases[p] \/ (p = q /\ cases'[p] = r)
    BY <2>4
  <2>6. CasesTyped'
    BY <2>2, <2>4
  <2> QED BY <1>1, <1>2, <2>3, <2>5, <2>6 DEF CandidatesNamed
<1>6. ASSUME NEW q \in Question, NEW x \in Target, ResolveCase(q, x)
      PROVE  CasesTyped' /\ CandidatesNamed'
  <2>1. /\ cases[q] # Nothing /\ x \in cases[q].candidates
        /\ cases' = [cases EXCEPT ![q].status = "RESOLVED", ![q].target = x]
        /\ asking' = asking
    BY <1>6 DEF ResolveCase
  <2>2. PICK r \in Case : r = cases[q]
    BY <2>1
  <2> DEFINE n == [r EXCEPT !.status = "RESOLVED", !.target = x]
  <2>3. n \in Case /\ n.target = x /\ n.candidates = r.candidates
    BY DEF Case
  <2>4. cases' = [cases EXCEPT ![q] = n]
    BY <2>1, <2>2
  <2> HIDE DEF n
  <2>5. \A p \in Question : cases'[p] = IF p = q THEN n ELSE cases[p]
    BY <2>4
  <2>6. CasesTyped'
    BY <2>1, <2>3, <2>4
  <2> QED BY <1>1, <1>2, <2>1, <2>2, <2>3, <2>5, <2>6 DEF CandidatesNamed
<1>7. ASSUME NEW q \in Question, DismissCase(q)
      PROVE  CasesTyped' /\ CandidatesNamed'
  <2>1. PICK s \in {"REJECTED", "DEFERRED"} : cases' = [cases EXCEPT ![q].status = s]
    BY <1>7 DEF DismissCase
  <2>2. cases[q] # Nothing /\ asking' = asking
    BY <1>7 DEF DismissCase
  <2>3. PICK r \in Case : r = cases[q]
    BY <2>2
  <2> DEFINE n == [r EXCEPT !.status = s]
  <2>4. n \in Case /\ n.status # "RESOLVED" /\ n.candidates = r.candidates
    BY DEF Case
  <2>5. cases' = [cases EXCEPT ![q] = n]
    BY <2>1, <2>3
  <2> HIDE DEF n
  <2>6. \A p \in Question : cases'[p] = IF p = q THEN n ELSE cases[p]
    BY <2>5
  <2>7. CasesTyped'
    BY <2>2, <2>4, <2>5
  <2> QED BY <1>1, <1>2, <2>2, <2>3, <2>4, <2>6, <2>7 DEF CandidatesNamed
<1> QED BY <1>3, <1>4, <1>5, <1>6, <1>7 DEF AliasNext, AddAlias, SupersedeAlias, refVars

(* A resolution names a target that an alias really gave for the question, corrected away     *)
(* in between or not (store.py:818, 902, 1022).                                               *)
THEOREM PinnedWasAlwaysNamed == Spec => []PinnedWasNamed
<1>1. Init => CasesTyped /\ CandidatesNamed
  BY DEF Init, RefInit, CasesTyped, CandidatesNamed
<1>2. TablesInv /\ CasesTyped /\ CandidatesNamed /\ [Next]_catalogVars
        => CasesTyped' /\ CandidatesNamed'
  <2>1. [Next]_catalogVars => [AliasNext]_refVars \/ UNCHANGED <<aliases, cases, asking>>
    BY DEF Next, catalogVars, refVars, VersionNext, FeeNext, AddVersion, SupersedeVersion,
           AddFee, SupersedeFee
  <2>2. CasesTyped /\ CandidatesNamed /\ UNCHANGED <<aliases, cases, asking>>
          => CasesTyped' /\ CandidatesNamed'
    BY DEF CasesTyped, CandidatesNamed
  <2> QED BY <2>1, <2>2, QueueInvStep DEF QueueInv, TablesInv
<1>3. CasesTyped /\ CandidatesNamed => PinnedWasNamed
  BY DEF CasesTyped, CandidatesNamed, PinnedWasNamed, Named
<1> QED BY <1>1, <1>2, <1>3, TablesInvHolds, PTL DEF Spec

-----------------------------------------------------------------------------
(* History.  The rows a question at d, known at k, is answered from.                          *)
RowsFor(table, i, d, k) == {r \in table : r.instrument = i /\ Active(r, d, k)}

AnswersAreRows == \A i \in Instrument, d \in Time, k \in Time :
                    VersionAsOf(versions, i, d, k) = RowsFor(versions, i, d, k)

LEMMA VersionAnswers == VersionsApart => AnswersAreRows
BY OneVersion DEF RowsFor, AnswersAreRows

LEMMA VersionAnswersNext == VersionsApart' => AnswersAreRows'
BY VersionAnswers, PTL

(* Before the instant at, a row closed at it is as active as it was.                          *)
LEMMA ClosureIsLater ==
    ASSUME NEW prior, NEW c, NEW d, NEW k \in Time, NEW at \in Time, k < at, prior.kt = Open,
           c.vf = prior.vf, c.vt = prior.vt, c.kf = prior.kf, c.kt = at
    PROVE  Active(c, d, k) <=> Active(prior, d, k)
BY TimeAssumption DEF Active

(* A correction that becomes known after k shows a question known at k the same facts.        *)
LEMMA CorrectionIsLater ==
    ASSUME NEW table, NEW prior \in table, NEW c, NEW r, NEW i, NEW d,
           NEW k \in Time, NEW at \in Time, k < at, prior.kt = Open,
           c.instrument = prior.instrument, c.vf = prior.vf, c.vt = prior.vt, c.kf = prior.kf,
           c.kt = at, Closed(c, Open) = Closed(prior, Open), r.kf = at
    PROVE  Facts(RowsFor(((table \ {prior}) \cup {c}) \cup {r}, i, d, k))
             = Facts(RowsFor(table, i, d, k))
<1> DEFINE new == ((table \ {prior}) \cup {c}) \cup {r}
<1>1. Active(c, d, k) <=> Active(prior, d, k)
  BY ClosureIsLater
<1>2. ~Active(r, d, k)
  BY TimeAssumption DEF Active
<1>3. ASSUME NEW x \in RowsFor(new, i, d, k)
      PROVE  Closed(x, Open) \in Facts(RowsFor(table, i, d, k))
  <2>1. x # r /\ x.instrument = i /\ Active(x, d, k)
    BY <1>2 DEF RowsFor
  <2>2. CASE x = c
    BY <2>1, <2>2, <1>1 DEF RowsFor, Facts
  <2>3. CASE x # c
    BY <2>1, <2>3 DEF RowsFor, Facts
  <2> QED BY <2>2, <2>3
<1>4. ASSUME NEW x \in RowsFor(table, i, d, k)
      PROVE  Closed(x, Open) \in Facts(RowsFor(new, i, d, k))
  <2>1. CASE x = prior
    <3>1. c \in RowsFor(new, i, d, k)
      BY <2>1, <1>1 DEF RowsFor
    <3> QED BY <3>1, <2>1 DEF Facts
  <2>2. CASE x # prior
    BY <2>2 DEF RowsFor, Facts
  <2> QED BY <2>1, <2>2
<1>5. Facts(RowsFor(new, i, d, k)) \subseteq Facts(RowsFor(table, i, d, k))
  BY <1>3 DEF Facts
<1>6. Facts(RowsFor(table, i, d, k)) \subseteq Facts(RowsFor(new, i, d, k))
  BY <1>4 DEF Facts
<1> QED BY <1>5, <1>6

(* A row first known after k is not active at k.                                              *)
LEMMA AdditionIsLater ==
    ASSUME NEW table, NEW r, NEW i, NEW d, NEW k \in Time, r.kf \in Nat, ~(r.kf <= k)
    PROVE  RowsFor(table \cup {r}, i, d, k) = RowsFor(table, i, d, k)
BY TimeAssumption DEF RowsFor, Active

VersionsStable ==
    \A i \in Instrument, d \in Time, k \in Time :
      Facts(VersionAsOf(versions, i, d, k)) # Facts(VersionAsOf(versions', i, d, k))
        => Rewritten(versions, versions', k)

LEMMA VersionHistory == ASSUME VersionsApart, VersionNext PROVE VersionsStable
<1> SUFFICES ASSUME NEW i \in Instrument, NEW d \in Time, NEW k \in Time,
                    ~Rewritten(versions, versions', k)
             PROVE  Facts(RowsFor(versions', i, d, k)) = Facts(RowsFor(versions, i, d, k))
  <2>1. VersionsApart'
    BY VersionsApartStep
  <2> QED BY <2>1, VersionAnswers, VersionAnswersNext DEF AnswersAreRows, VersionsStable
<1>0. k \in Nat /\ Open \in End /\ versions \subseteq Versions
  BY EndIsNat DEF VersionsApart, End
<1>n. ASSUME NEW r \in Versions, r \in versions', r.kf <= k
      PROVE  \E y \in versions : y.instrument = r.instrument /\ y.seq = r.seq
  <2>1. PICK y \in versions : Closed(y, Open) = Closed(r, Open)
    BY <1>n DEF Rewritten, Facts
  <2>2. y.instrument = r.instrument /\ y.seq = r.seq
    BY <2>1, <1>0, ClosedVersion
  <2> QED BY <2>2
<1>1. ASSUME NEW j \in Instrument, NEW n \in 1..MaxRows, NEW w \in Window, AddVersion(j, n, w)
      PROVE  Facts(RowsFor(versions', i, d, k)) = Facts(RowsFor(versions, i, d, k))
  <2> DEFINE r == VersionRow(j, n, w)
  <2>1. r \in Versions /\ r.kf \in Nat
    BY NewVersion, EndIsNat DEF Versions
  <2>2. VersionFits(versions, r) /\ versions' = versions \cup {r}
    BY <1>1 DEF AddVersion
  <2> HIDE DEF r
  <2>3. ~(r.kf <= k)
    BY <2>1, <2>2, <1>n DEF VersionFits
  <2> QED BY <2>1, <2>2, <2>3, AdditionIsLater
<1>2. ASSUME NEW prior \in versions, NEW at \in Time, NEW n \in 1..MaxRows, NEW w \in Window,
             SupersedeVersion(prior, at, n, w)
      PROVE  Facts(RowsFor(versions', i, d, k)) = Facts(RowsFor(versions, i, d, k))
  <2> DEFINE c == Closed(prior, at)
             rest == (versions \ {prior}) \cup {c}
             r == VersionRow(prior.instrument, n, w)
  <2>1. prior \in Versions /\ prior.kt = Open /\ at \in End /\ at \in Nat /\ w.kf = at
    BY <1>2, <1>0, EndIsNat DEF SupersedeVersion, Corrects
  <2>2. /\ c \in Versions /\ c.instrument = prior.instrument /\ c.seq = prior.seq
        /\ c.vf = prior.vf /\ c.vt = prior.vt /\ c.kf = prior.kf /\ c.kt = at
    BY <2>1, ClosedVersion
  <2>3. r \in Versions /\ r.kf = at
    BY <2>1, NewVersion DEF Versions
  <2>4. VersionFits(rest, r) /\ versions' = rest \cup {r}
    BY <1>2 DEF SupersedeVersion
  <2>5. Closed(c, Open) = Closed(prior, Open)
    <3>1. /\ Closed(c, Open) \in Versions /\ Closed(prior, Open) \in Versions
          /\ Closed(c, Open).instrument = Closed(prior, Open).instrument
          /\ Closed(c, Open).seq = Closed(prior, Open).seq
          /\ Closed(c, Open).vf = Closed(prior, Open).vf
          /\ Closed(c, Open).vt = Closed(prior, Open).vt
          /\ Closed(c, Open).kf = Closed(prior, Open).kf
          /\ Closed(c, Open).kt = Closed(prior, Open).kt
      <4> HIDE DEF c
      <4> QED BY <1>0, <2>1, <2>2, ClosedVersion
    <3> DEFINE x == Closed(c, Open)
               y == Closed(prior, Open)
    <3> HIDE DEF x, y
    <3>2. x = y
      BY <3>1 DEF Versions, x, y
    <3> QED BY <3>2 DEF x, y
  <2> HIDE DEF c, r
  <2>6. ~(r.kf <= k)
    <3> SUFFICES ASSUME r.kf <= k PROVE FALSE
      OBVIOUS
    <3>1. PICK y \in versions : y.instrument = r.instrument /\ y.seq = r.seq
      BY <1>n, <2>3, <2>4
    <3>2. CASE y = prior
      BY <3>1, <3>2, <2>2, <2>4 DEF VersionFits
    <3>3. CASE y # prior
      BY <3>1, <3>3, <2>4 DEF VersionFits
    <3> QED BY <3>2, <3>3
  <2>7. k < at
    BY <2>6, <2>3, <2>1, <1>0
  <2>8. /\ prior \in versions /\ k \in Time /\ at \in Time /\ k < at /\ prior.kt = Open
        /\ c.instrument = prior.instrument /\ c.vf = prior.vf /\ c.vt = prior.vt
        /\ c.kf = prior.kf /\ c.kt = at /\ Closed(c, Open) = Closed(prior, Open) /\ r.kf = at
    BY <2>1, <2>2, <2>3, <2>5, <2>7
  <2>9. Facts(RowsFor(((versions \ {prior}) \cup {c}) \cup {r}, i, d, k))
          = Facts(RowsFor(versions, i, d, k))
    BY <2>8, CorrectionIsLater
  <2> QED BY <2>4, <2>9
<1> QED BY <1>1, <1>2 DEF VersionNext

FeesStable ==
    \A i \in Instrument, d \in Time, k \in Time :
      Facts(FeeAsOf(fees, i, d, k)) # Facts(FeeAsOf(fees', i, d, k))
        => Rewritten(fees, fees', k)

LEMMA FeeHistory == ASSUME FeesApart, FeeNext PROVE FeesStable
<1> SUFFICES ASSUME NEW i \in Instrument, NEW d \in Time, NEW k \in Time,
                    ~Rewritten(fees, fees', k)
             PROVE  Facts(RowsFor(fees', i, d, k)) = Facts(RowsFor(fees, i, d, k))
  BY DEF FeeAsOf, RowsFor, FeesStable
<1>0. k \in Nat /\ Open \in End /\ fees \subseteq Fees
  BY EndIsNat DEF FeesApart, End
<1>n. ASSUME NEW r \in Fees, r \in fees', r.kf <= k
      PROVE  \E y \in fees : /\ y.instrument = r.instrument
                             /\ y.vf = r.vf /\ y.vt = r.vt /\ y.kf = r.kf
  <2>1. PICK y \in fees : Closed(y, Open) = Closed(r, Open)
    BY <1>n DEF Rewritten, Facts
  <2>2. /\ y.instrument = r.instrument /\ y.vf = r.vf /\ y.vt = r.vt /\ y.kf = r.kf
    BY <2>1, <1>0, ClosedFee
  <2> QED BY <2>2
<1>o. ASSUME NEW y \in Fees, NEW r \in Fees, Lasting(y), Lasting(r),
             y.vf = r.vf, y.vt = r.vt, y.kf = r.kf
      PROVE  Overlaps(y, r)
  BY <1>o, EndIsNat DEF Overlaps, Lasting, Fees
<1>1. ASSUME NEW j \in Instrument, NEW n \in Rate, NEW w \in Window, AddFee(j, n, w)
      PROVE  Facts(RowsFor(fees', i, d, k)) = Facts(RowsFor(fees, i, d, k))
  <2> DEFINE r == FeeRow(j, n, w)
  <2>1. r \in Fees /\ r.kf \in Nat /\ Lasting(r)
    BY NewFee, EndIsNat DEF Fees
  <2>2. FeeFits(fees, r) /\ fees' = fees \cup {r}
    BY <1>1 DEF AddFee
  <2> HIDE DEF r
  <2>3. ~(r.kf <= k)
    <3> SUFFICES ASSUME r.kf <= k PROVE FALSE
      OBVIOUS
    <3>1. PICK y \in fees : /\ y.instrument = r.instrument
                            /\ y.vf = r.vf /\ y.vt = r.vt /\ y.kf = r.kf
      BY <1>n, <2>1, <2>2
    <3>2. Overlaps(y, r)
      BY <3>1, <2>1, <1>o DEF FeesApart
    <3> QED BY <3>1, <3>2, <2>2 DEF FeeFits
  <2> QED BY <2>1, <2>2, <2>3, AdditionIsLater
<1>2. ASSUME NEW prior \in fees, NEW at \in Time, NEW n \in Rate, NEW w \in Window,
             SupersedeFee(prior, at, n, w)
      PROVE  Facts(RowsFor(fees', i, d, k)) = Facts(RowsFor(fees, i, d, k))
  <2> DEFINE c == Closed(prior, at)
             rest == (fees \ {prior}) \cup {c}
             r == FeeRow(prior.instrument, n, w)
  <2>1. /\ prior \in Fees /\ prior.kt = Open /\ prior.kf < at /\ prior.kf \in Nat
        /\ at \in End /\ at \in Nat /\ w.kf = at
    BY <1>2, <1>0, EndIsNat DEF SupersedeFee, Corrects, Fees
  <2>2. /\ c \in Fees /\ c.instrument = prior.instrument /\ c.rate = prior.rate
        /\ c.vf = prior.vf /\ c.vt = prior.vt /\ c.kf = prior.kf /\ c.kt = at
    BY <2>1, ClosedFee
  <2>3. r \in Fees /\ r.kf = at /\ Lasting(r)
    BY <2>1, NewFee DEF Fees
  <2>4. FeeFits(rest, r) /\ fees' = rest \cup {r}
    BY <1>2 DEF SupersedeFee
  <2>5. Closed(c, Open) = Closed(prior, Open)
    <3>1. /\ Closed(c, Open) \in Fees /\ Closed(prior, Open) \in Fees
          /\ Closed(c, Open).instrument = Closed(prior, Open).instrument
          /\ Closed(c, Open).rate = Closed(prior, Open).rate
          /\ Closed(c, Open).vf = Closed(prior, Open).vf
          /\ Closed(c, Open).vt = Closed(prior, Open).vt
          /\ Closed(c, Open).kf = Closed(prior, Open).kf
          /\ Closed(c, Open).kt = Closed(prior, Open).kt
      <4> HIDE DEF c
      <4> QED BY <1>0, <2>1, <2>2, ClosedFee
    <3> DEFINE x == Closed(c, Open)
               y == Closed(prior, Open)
    <3> HIDE DEF x, y
    <3>2. x = y
      BY <3>1 DEF Fees, x, y
    <3> QED BY <3>2 DEF x, y
  <2> HIDE DEF c, r
  <2>6. ~(r.kf <= k)
    <3> SUFFICES ASSUME r.kf <= k PROVE FALSE
      OBVIOUS
    <3>1. PICK y \in fees : /\ y.instrument = r.instrument
                            /\ y.vf = r.vf /\ y.vt = r.vt /\ y.kf = r.kf
      BY <1>n, <2>3, <2>4
    <3>2. y # prior
      BY <3>1, <2>1, <2>3
    <3>3. Overlaps(y, r)
      BY <3>1, <2>3, <1>o DEF FeesApart
    <3> QED BY <3>1, <3>2, <3>3, <2>4 DEF FeeFits
  <2>7. k < at
    BY <2>6, <2>3, <2>1, <1>0
  <2>8. /\ prior \in fees /\ k \in Time /\ at \in Time /\ k < at /\ prior.kt = Open
        /\ c.instrument = prior.instrument /\ c.vf = prior.vf /\ c.vt = prior.vt
        /\ c.kf = prior.kf /\ c.kt = at /\ Closed(c, Open) = Closed(prior, Open) /\ r.kf = at
    BY <2>1, <2>2, <2>3, <2>5, <2>7
  <2>9. Facts(RowsFor(((fees \ {prior}) \cup {c}) \cup {r}, i, d, k))
          = Facts(RowsFor(fees, i, d, k))
    BY <2>8, CorrectionIsLater
  <2> QED BY <2>4, <2>9
<1> QED BY <1>1, <1>2 DEF FeeNext

AliasesStable ==
    \A q \in Question : Targets(aliases, q) # Targets(aliases', q) => Rewritten(aliases, aliases', q.k)

LEMMA AliasHistory == ASSUME AliasesAgree, AliasNext PROVE AliasesStable
<1> SUFFICES ASSUME NEW q \in Question, ~Rewritten(aliases, aliases', q.k)
             PROVE  Targets(aliases', q) = Targets(aliases, q)
  BY DEF AliasesStable
<1>0. q.k \in Time /\ q.k \in Nat /\ Open \in End /\ aliases \subseteq Aliases
  BY EndIsNat, AliasAssumption DEF AliasesAgree, End, Question
<1>n. ASSUME NEW r \in Aliases, r \in aliases', r.kf <= q.k
      PROVE  \E y \in aliases : SameAlias(y, r)
  <2>1. PICK y \in aliases : Closed(y, Open) = Closed(r, Open)
    BY <1>n DEF Rewritten, Facts
  <2>2. SameAlias(y, r)
    BY <2>1, <1>0, ClosedAlias DEF SameAlias, SameScope
  <2> QED BY <2>2
<1>1. ASSUME NEW n \in Name, NEW v \in Venue \cup {Global}, NEW x \in Target,
             NEW w \in AliasWindow, AddAlias(n, v, x, w)
      PROVE  Targets(aliases', q) = Targets(aliases, q)
  <2> DEFINE r == AliasRow(n, v, x, w)
  <2>1. r \in Aliases /\ r.kf \in Nat
    BY NewAlias, EndIsNat DEF Aliases, AliasWindow
  <2>2. AliasFits(aliases, r) /\ aliases' = aliases \cup {r}
    BY <1>1 DEF AddAlias
  <2> HIDE DEF r
  <2>3. ~(r.kf <= q.k)
    BY <2>1, <2>2, <1>n DEF AliasFits
  <2>4. ~Active(r, q.d, q.k)
    BY <2>3 DEF Active
  <2> QED BY <2>2, <2>4 DEF Targets, Matches
<1>2. ASSUME NEW prior \in aliases, NEW at \in AliasTime, NEW n \in Name, NEW t \in Target,
             NEW w \in AliasWindow, SupersedeAlias(prior, at, n, t, w)
      PROVE  Targets(aliases', q) = Targets(aliases, q)
  <2> DEFINE c == Closed(prior, at)
             rest == (aliases \ {prior}) \cup {c}
             r == AliasRow(n, prior.venue, t, w)
  <2>1. /\ prior \in Aliases /\ prior.kt = Open /\ prior.kf < at /\ prior.kf \in Nat
        /\ at \in Time /\ at \in End /\ at \in Nat /\ w.kf = at
    BY <1>2, <1>0, EndIsNat, AliasAssumption DEF SupersedeAlias, Corrects, Aliases
  <2>2. /\ c \in Aliases /\ c.name = prior.name /\ c.venue = prior.venue
        /\ c.target = prior.target
        /\ c.vf = prior.vf /\ c.vt = prior.vt /\ c.kf = prior.kf /\ c.kt = at
    BY <2>1, ClosedAlias
  <2>3. r \in Aliases /\ r.kf = at
    BY <2>1, NewAlias DEF Aliases, AliasWindow
  <2>4. AliasFits(rest, r) /\ aliases' = rest \cup {r}
    BY <1>2 DEF SupersedeAlias
  <2> HIDE DEF c, r
  <2>5. ~(r.kf <= q.k)
    <3> SUFFICES ASSUME r.kf <= q.k PROVE FALSE
      OBVIOUS
    <3>1. PICK y \in aliases : SameAlias(y, r)
      BY <1>n, <2>3, <2>4
    <3>2. y # prior
      BY <3>1, <2>1, <2>3 DEF SameAlias
    <3> QED BY <3>1, <3>2, <2>4 DEF AliasFits
  <2>6. q.k < at /\ ~Active(r, q.d, q.k)
    BY <2>5, <2>3, <2>1, <1>0 DEF Active
  <2>7. Active(c, q.d, q.k) <=> Active(prior, q.d, q.k)
    BY <2>1, <2>2, <2>6, <1>0, ClosureIsLater
  <2>8. \A x \in Matches(aliases', q) : \E y \in Matches(aliases, q) : y.target = x.target
    BY <2>2, <2>4, <2>6, <2>7 DEF Matches
  <2>9. \A y \in Matches(aliases, q) : \E x \in Matches(aliases', q) : y.target = x.target
    BY <2>2, <2>4, <2>7 DEF Matches
  <2> QED BY <2>8, <2>9 DEF Targets
<1>3. CASE aliases' = aliases
  BY <1>3
<1> QED BY <1>1, <1>2, <1>3 DEF AliasNext, AskAmbiguous, QueueAmbiguity, ResolveCase, DismissCase

(* An answer for a knowledge time changes only when a row known by that time is added: a       *)
(* correction leaves no gap and rewrites nothing known earlier (store.py:371-376, 914-920).     *)
THEOREM HistoryStaysStable == Spec => HistoryIsStable
<1> DEFINE Step == VersionsStable /\ FeesStable /\ AliasesStable
<1>1. ASSUME TablesInv, [Next]_catalogVars PROVE [Step]_refVars
  <2>1. CASE versions' = versions /\ fees' = fees /\ aliases' = aliases
    BY <2>1 DEF VersionsStable, FeesStable, AliasesStable
  <2>2. CASE VersionNext
    <3>1. fees' = fees /\ aliases' = aliases
      BY <2>2 DEF VersionNext, AddVersion, SupersedeVersion
    <3> QED BY <3>1, <2>2, <1>1, VersionHistory DEF TablesInv, FeesStable, AliasesStable
  <2>3. CASE FeeNext
    <3>1. versions' = versions /\ aliases' = aliases
      BY <2>3 DEF FeeNext, AddFee, SupersedeFee
    <3> QED BY <3>1, <2>3, <1>1, FeeHistory DEF TablesInv, VersionsStable, AliasesStable
  <2>4. CASE AliasNext
    <3>1. versions' = versions /\ fees' = fees
      BY <2>4 DEF AliasNext, AddAlias, SupersedeAlias, AskAmbiguous, QueueAmbiguity,
                  ResolveCase, DismissCase
    <3> QED BY <3>1, <2>4, <1>1, AliasHistory DEF TablesInv, VersionsStable, FeesStable
  <2> QED BY <1>1, <2>1, <2>2, <2>3, <2>4 DEF Next, catalogVars, refVars
<1>2. Step <=> /\ \A i \in Instrument, d \in Time, k \in Time :
                    /\ Facts(VersionAsOf(versions, i, d, k)) # Facts(VersionAsOf(versions', i, d, k))
                         => Rewritten(versions, versions', k)
                    /\ Facts(FeeAsOf(fees, i, d, k)) # Facts(FeeAsOf(fees', i, d, k))
                         => Rewritten(fees, fees', k)
               /\ \A q \in Question :
                    Targets(aliases, q) # Targets(aliases', q) => Rewritten(aliases, aliases', q.k)
  BY DEF VersionsStable, FeesStable, AliasesStable
<1> HIDE DEF Step
<1> QED BY <1>1, <1>2, TablesInvHolds, PTL DEF Spec, HistoryIsStable
=============================================================================
