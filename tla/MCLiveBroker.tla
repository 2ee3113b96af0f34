----------------------------- MODULE MCLiveBroker -----------------------------
(***************************************************************************)
(* LiveBroker on a small instance.  Nothing a broker does reaches the      *)
(* registry.  A behaviour is explored for one side at a time, the one      *)
(* "side" names: operators that race under a clock that may be set back,   *)
(* or a broker that trades while they take turns and the clock rests.      *)
(***************************************************************************)
EXTENDS LiveBroker, TLC

CONSTANTS o1, o2, m1, b1, y1, y2

Owner == [owner |-> TRUE, observed |-> TRUE]
MCPayloads == {Owner, [owner |-> FALSE, observed |-> TRUE]}
MCTrades == [b \in Broker |-> m1]
MCSymmetry == Permutations({y1, y2}) \cup Permutations({o1, o2})

VARIABLE side

TakeTurns == \A o, p \in Operator : o # p => opc'[o] = "idle" \/ opc'[p] = "idle"

(* Only the gate of LIVE_APPROVED reads the payload; elsewhere one will do. *)
OnePayload ==
  \A o \in Operator :
    opc'[o] # "idle" /\ request'[o].target # "LIVE_APPROVED" => request'[o].payload = Owner

SideStep ==
  /\ \/ side = "registry" /\ Registry
     \/ side = "broker" /\ BrokerNext /\ TakeTurns /\ UNCHANGED clock
  /\ OnePayload

MCInit == side \in {"registry", "broker"} /\ BrokerInit

MCNext == SideStep /\ UNCHANGED side

MCSpec == MCInit /\ [][MCNext]_<<side, vars>>
=============================================================================
