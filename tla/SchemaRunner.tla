---- MODULE SchemaRunner ----
(* The catalog's migration runner (catalog/runner.py): several processes may   *)
(* run apply_migrations on one database at once, each over the migration       *)
(* directory of its own checkout.  A migration and its history row commit in   *)
(* one BEGIN IMMEDIATE transaction; what was applied is read before it.        *)
EXTENDS Naturals, Sequences

CONSTANTS Runner,        \* processes that run apply_migrations
          Directories,   \* migration directories: sequences of [name, checksum]
          Idle           \* the runner is not running

(* The version numbers of a checkout are unique and without gaps, and each is one *)
(* file name (_discover_migrations, runner.py:25-67).                             *)
ASSUME MigrationsAssumption ==
    /\ Directories # {}
    /\ \A d \in Directories : d \in Seq({d[i] : i \in DOMAIN d})
    /\ \A d \in Directories : \A i, j \in DOMAIN d : d[i].name = d[j].name <=> i = j
    /\ Idle \notin [dir : Directories, at : Nat, locked : BOOLEAN,
                   read : Seq(UNION {{d[i] : i \in DOMAIN d} : d \in Directories})]

(* The checkouts hold one line of migrations: the same number is the same file    *)
(* name in all of them; what a file holds may differ.  No code compares two       *)
(* checkouts: this is a condition on how the files are kept.                       *)
OneLine == \A d, e \in Directories : \A i \in DOMAIN d, j \in DOMAIN e :
             d[i].name = e[j].name <=> i = j

VARIABLES history,   \* rows of migration_history, in commit order
          effects,   \* migrations whose statements are committed, in order
          runner     \* [Runner -> Idle or its local state]

schemaVars == <<history, effects, runner>>

Applied(rows, m) == \E j \in 1..Len(rows) : rows[j].name = m.name

SchemaInit == history = <<>> /\ effects = <<>> /\ runner = [p \in Runner |-> Idle]

(* The directory is validated, the history table ensured and read, the         *)
(* connection is then in autocommit mode: the rows read may become stale.      *)
StartRun(p) ==
    /\ runner[p] = Idle
    /\ \E d \in Directories :
         runner' = [runner EXCEPT ![p] =
                      [dir |-> d, at |-> 1, read |-> history, locked |-> FALSE]]
    /\ UNCHANGED <<history, effects>>

Next1(p) == [runner EXCEPT ![p].at = @ + 1]
Stop(p)  == [runner EXCEPT ![p] = Idle]

Pending(p) == runner[p] # Idle /\ runner[p].at <= Len(runner[p].dir) /\ ~runner[p].locked
Migration(p) == runner[p].dir[runner[p].at]

(* A migration read as applied is skipped if its checksum is unchanged; an     *)
(* edited file ends the run.                                                   *)
SkipApplied(p) ==
    /\ Pending(p)
    /\ Applied(runner[p].read, Migration(p))
    /\ runner' = IF \E j \in 1..Len(runner[p].read) : runner[p].read[j] = Migration(p)
                 THEN Next1(p) ELSE Stop(p)
    /\ UNCHANGED <<history, effects>>

(* BEGIN IMMEDIATE takes the write lock; a lock held past the busy timeout is   *)
(* an error that ends the run.                                                 *)
BeginMigration(p) ==
    /\ Pending(p)
    /\ ~Applied(runner[p].read, Migration(p))
    /\ IF \E q \in Runner : runner[q] # Idle /\ runner[q].locked
       THEN runner' = Stop(p)
       ELSE runner' = [runner EXCEPT ![p].locked = TRUE]
    /\ UNCHANGED <<history, effects>>

(* Mutation: the history row replaces one another runner committed.            *)
CommitMigration_Replace(p) ==
    /\ runner[p] # Idle
    /\ runner[p].locked
    /\ history' = IF Applied(history, Migration(p)) THEN history
                  ELSE Append(history, Migration(p))
    /\ effects' = Append(effects, Migration(p))
    /\ runner' = [runner EXCEPT ![p].locked = FALSE, ![p].at = @ + 1]

(* The statements, the history row and the commit.  The row's filename is the  *)
(* primary key: a migration another runner has committed since the read fails   *)
(* here and the statements are rolled back with it.                            *)
CommitMigration(p) ==
    /\ runner[p] # Idle
    /\ runner[p].locked
    /\ IF Applied(history, Migration(p))
       THEN /\ runner' = Stop(p)
            /\ UNCHANGED <<history, effects>>
       ELSE /\ history' = Append(history, Migration(p))
            /\ effects' = Append(effects, Migration(p))
            /\ runner' = [runner EXCEPT ![p].locked = FALSE, ![p].at = @ + 1]

(* A statement fails, or the process dies: the open transaction is lost.       *)
AbandonRun(p) ==
    /\ runner[p] # Idle
    /\ runner' = Stop(p)
    /\ UNCHANGED <<history, effects>>

FinishRun(p) ==
    /\ runner[p] # Idle
    /\ runner[p].at > Len(runner[p].dir)
    /\ runner' = Stop(p)
    /\ UNCHANGED <<history, effects>>

SchemaNext == \E p \in Runner :
    \/ StartRun(p)
    \/ SkipApplied(p)
    \/ BeginMigration(p)
    \/ CommitMigration(p)
    \/ AbandonRun(p)
    \/ FinishRun(p)

(* Whatever the checkouts, a file name is run once at most, and the history says *)
(* exactly what was run.                                                           *)
EachRunsOnce ==
    /\ effects = history
    /\ \A i, j \in DOMAIN history : history[i].name = history[j].name => i = j

(* Racing runners, crashes and edited files notwithstanding, the schema is      *)
(* always the result of the first migrations of one directory, each run once    *)
(* and in order, and the history says exactly that (runner.py:212-240), while   *)
(* the checkouts hold one line of migrations.                                   *)
SchemaIsAPrefix ==
    /\ effects = history
    /\ \E d \in Directories : Len(effects) <= Len(d) /\ effects = SubSeq(d, 1, Len(effects))
====
