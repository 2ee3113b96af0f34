------------------------- MODULE PromotionLifecycle -------------------------
(***************************************************************************)
(* What the promotion registry promises: every model artifact is in one    *)
(* promotion state, and moves along the transition matrix, through the     *)
(* gates, one event at a time.  The matrix and the gates are those of      *)
(* promotion/state_machine.py; the concrete registry uses them too.        *)
(***************************************************************************)
CONSTANT Artifact

VARIABLE status \* promotion state of each artifact, "NONE" before registration

Approved  == {"PAPER_APPROVED", "LIVE_APPROVED"}
Suspended == {"PAPER_SUSPENDED", "LIVE_SUSPENDED"}
Terminal  == {"RETIRED", "REJECTED", "QUARANTINED"}
State     == {"RESEARCH_CANDIDATE", "RESEARCH_ACCEPTED"} \cup Approved \cup Suspended \cup Terminal

(* ALLOWED_TRANSITIONS, as a relation between the current and the target.  *)
Transitions ==
  ({"NONE"} \X {"RESEARCH_CANDIDATE"})
    \cup ({"RESEARCH_CANDIDATE"} \X {"RESEARCH_ACCEPTED", "PAPER_APPROVED"})
    \cup ({"RESEARCH_ACCEPTED"} \X {"PAPER_APPROVED"})
    \cup ({"PAPER_APPROVED"} \X {"PAPER_SUSPENDED", "LIVE_APPROVED"})
    \cup ({"PAPER_SUSPENDED"} \X {"PAPER_APPROVED"})
    \cup ({"LIVE_APPROVED"} \X {"LIVE_SUSPENDED"})
    \cup ({"LIVE_SUSPENDED"} \X {"LIVE_APPROVED"})
    \cup ((Approved \cup Suspended) \X Terminal)
    \cup ({"RESEARCH_CANDIDATE", "RESEARCH_ACCEPTED"} \X {"REJECTED", "QUARANTINED"})

(* What of the identity payload the gates read: who approves, and whether  *)
(* a paper observation is referenced.  Evidence is always referenced: the  *)
(* payload is refused without it.                                          *)
Payload == [owner : BOOLEAN, observed : BOOLEAN]

Gate(s, p) == s = "LIVE_APPROVED" => p.owner /\ p.observed

(* One event, and what it does to the artifact.                            *)
Advance(a, s, p) ==
  /\ <<status[a], s>> \in Transitions
  /\ Gate(s, p)
  /\ status' = [status EXCEPT ![a] = s]
=============================================================================
