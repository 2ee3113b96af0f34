------------------------------ MODULE MCUniswap ------------------------------
(***************************************************************************)
(* The two Uniswap V2 programs that question two JSON-RPC sources at once, *)
(* the capacity matrix and the event ingest.  They share no state: a       *)
(* behaviour runs the one "part" names and the other stays as it begins.   *)
(***************************************************************************)
EXTENDS MatrixRun, EventIngest

MCOrgs == <<"infura", "blockpi">>
MCRanges == <<"hot">>
MCSizes == <<1, 2>>
(* Both providers, the first only, or neither answer the larger batch.     *)
MCCaps == {[infura |-> 2, blockpi |-> n] : n \in {1, 2}} \cup {[infura |-> 1, blockpi |-> 1]}

MCKinds == <<"swap", "sync">>
(* The last block loses its sync and gains a swap when it is replaced.     *)
MCLogged == {<<"swap", 1, 0>>, <<"sync", 1, 0>>, <<"swap", 3, 1>>, <<"sync", 3, 0>>}
(* Chunks (1,2) and (3,3); a pilot of one chunk, and one below any chunk.  *)
Pilot(chunks, bound) == [size |-> 2, chunks |-> chunks, bound |-> bound]
Whole == Pilot(2, 3)
MCPlans == {Whole, Pilot(1, 3), Pilot(2, 1)}

VARIABLE part

Init ==
  /\ part \in {"matrix", "ingest"} /\ RunInit /\ IngestInit
  (* One beginning of the part that rests.                                 *)
  /\ part = "matrix" => lax = "primary"
  /\ part = "ingest" => cap = CHOOSE m \in Caps : TRUE

PartNext ==
  /\ UNCHANGED part
  /\ \/ part = "matrix" /\ Next /\ UNCHANGED ingestVars
     \/ part = "ingest" /\ IngestNext /\ UNCHANGED vars

(* The fairness of each program (FairRunSpec, IngestFairness), while it is *)
(* the one that runs.                                                      *)
Spec ==
  /\ Init /\ [][PartNext]_<<part, vars, ingestVars>>
  /\ WF_vars(part = "matrix" /\ Progress)
  /\ \A p \in Orchestrator : /\ WF_ingestVars(part = "ingest" /\ Steps(p))
                             /\ SF_ingestVars(part = "ingest" /\ Launch(p, Production))
  /\ \A s \in Source : WF_ingestVars(part = "ingest" /\ Follow(s))

(* A run of the matrix comes to its manifest, unless its process dies; the *)
(* production plan of the ingest is completed in the end.                  *)
ProgramsEnd == /\ part = "matrix" => RunEnds
               /\ part = "ingest" => IngestCompletes
=============================================================================
