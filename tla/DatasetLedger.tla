--------------------------- MODULE DatasetLedger ---------------------------
(***************************************************************************)
(* What the dataset store promises: immutable datasets, registered once    *)
(* and only after they are published, with their lineage registered before *)
(* them; a successor retires its predecessor in the step that registers    *)
(* it, and a quarantine rejects all of its targets in one step, for good.  *)
(***************************************************************************)
CONSTANTS
  Dataset,     \* dataset ids, each the digest of content, lineage and predecessor
  Supersedes,  \* predecessor a dataset names, or None
  Inputs,      \* datasets a dataset was built from
  Targets,     \* datasets the quarantine rejects
  None         \* absence of a row, a predecessor, a dataset or a holder

VARIABLES published, rows

Registered == [quality |-> "PASS", status |-> "REGISTERED"]
Row == [quality : {"PASS", "REJECTED"}, status : {"REGISTERED", "SUPERSEDED"}]
Superseded(r) == [quality |-> r.quality, status |-> "SUPERSEDED"]
Rejected(r) == [quality |-> "REJECTED", status |-> r.status]

Init ==
  /\ published = {}
  /\ rows = [d \in Dataset |-> None]

Publish(d) ==
  /\ published' = published \cup {d}
  /\ UNCHANGED rows

Register(d) ==
  /\ rows[d] = None
  /\ d \in published
  /\ \A e \in Inputs[d] : rows[e] # None
  /\ Supersedes[d] # None => rows[Supersedes[d]] # None
  /\ rows' = [e \in Dataset |-> IF e = d THEN Registered
                                ELSE IF e = Supersedes[d] THEN Superseded(rows[e])
                                ELSE rows[e]]
  /\ UNCHANGED published

Quarantine ==
  /\ \A d \in Targets : rows[d] # None
  /\ rows' = [d \in Dataset |-> IF d \in Targets THEN Rejected(rows[d]) ELSE rows[d]]
  /\ UNCHANGED published

Next == Quarantine \/ \E d \in Dataset : Publish(d) \/ Register(d)

Spec == Init /\ [][Next]_<<published, rows>>
=============================================================================
