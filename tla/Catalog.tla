---- MODULE Catalog ----
(* The control catalog's own bookkeeping on one SQLite database: the migration     *)
(* runner, the evidence registry and the reference master.  They share the file    *)
(* and its write lock but no table, and the reference master's tables do not       *)
(* refer to each other, so their steps commute: a behaviour is explored for one    *)
(* part at a time, the one "part" names, the others staying as they are.           *)
EXTENDS SchemaRunner, EvidenceRegistry, ReferenceStore

VARIABLE part

Parts == {"schema", "evidence", "versions", "fees", "aliases"}

catalogVars == <<part, history, effects, runner, created, registered, links, snapshots,
                 decisions, reading, versions, fees, aliases, cases, asking>>

Init == part \in Parts /\ SchemaInit /\ EvidenceInit /\ RefInit

Next ==
    /\ part' = part
    /\ \/ part = "schema"   /\ SchemaNext   /\ UNCHANGED evidenceVars /\ UNCHANGED refVars
       \/ part = "evidence" /\ EvidenceNext /\ UNCHANGED schemaVars /\ UNCHANGED refVars
       \/ part = "versions" /\ VersionNext  /\ UNCHANGED schemaVars /\ UNCHANGED evidenceVars
       \/ part = "fees"     /\ FeeNext      /\ UNCHANGED schemaVars /\ UNCHANGED evidenceVars
       \/ part = "aliases"  /\ AliasNext    /\ UNCHANGED schemaVars /\ UNCHANGED evidenceVars

Spec == Init /\ [][Next]_catalogVars
====
