------------------------------ MODULE LiveBroker ------------------------------
(***************************************************************************)
(* execution/live.py: LiveBroker, which routes orders of one artifact to a *)
(* venue while the promotion registry says LIVE_APPROVED, and its kill     *)
(* switch.                                                                 *)
(*                                                                         *)
(* A broker is an object of a single-threaded process; the registry it     *)
(* queries changes underneath it, and a gate check is two queries.  The    *)
(* venue is external: it gives every order it accepts an id of its own,    *)
(* and its answer may be lost, after which the caller may well submit the  *)
(* same order again.                                                       *)
(***************************************************************************)
EXTENDS PromotionRegistry, FiniteSets

CONSTANTS
  Broker,       \* processes that hold a LiveBroker
  Trades,       \* the artifact each is constructed with
  Order,        \* order ids of the callers; one may be submitted again
  NoOrder,      \* no order being submitted
  MaxSends,     \* bound: orders of one broker that the venue accepts
  MaxRestarts   \* bound: deaths of one broker's process

ASSUME BrokerAssumption ==
  /\ Trades \in [Broker -> Artifact]
  /\ NoOrder \notin Order
  /\ MaxSends \in Nat /\ MaxRestarts \in Nat

VARIABLES
  bpc,      \* where the broker is: "down", "idle" or inside a call
  calling,  \* the call the gate was entered from: "construct", "submit", "check"
  order,    \* the order being submitted
  killed,   \* _killed
  open,     \* _open_orders: the venue's id of each order id, 0 when it has none
  signal,   \* open_orders of the last FlattenSignal
  placed,   \* history: what the venue accepted, in the order of its ids 1, 2, ...
  venue,    \* the venue's ids of the orders that are live there
  approved, \* history: LIVE_APPROVED at some moment of the current call
  deaths    \* how often the broker's process died

brokerVars == <<bpc, calling, order, killed, open, signal, placed, venue, approved, deaths>>
vars == <<registryVars, brokerVars>>

(* An accepted order: its id, the process that sent it, whether that       *)
(* process got the answer.                                                 *)
Placed == [id : Order, process : Nat, answered : BOOLEAN]

NoOrders == [o \in Order |-> 0]

IsLive(b) == CurrentState(Trades[b]) = "LIVE_APPROVED"

BrokerInit ==
  /\ RegistryInit
  /\ bpc = [b \in Broker |-> "down"]
  /\ calling = [b \in Broker |-> "construct"]
  /\ order = [b \in Broker |-> NoOrder]
  /\ killed = [b \in Broker |-> FALSE]
  /\ open = [b \in Broker |-> NoOrders]
  /\ signal = [b \in Broker |-> NoOrders]
  /\ placed = [b \in Broker |-> <<>>]
  /\ venue = [b \in Broker |-> {}]
  /\ approved = [b \in Broker |-> FALSE]
  /\ deaths = [b \in Broker |-> 0]
-----------------------------------------------------------------------------
(* The call ends: the object is there, or was never constructed.           *)
Leave(b, label) ==
  /\ bpc' = [bpc EXCEPT ![b] = label]
  /\ order' = [order EXCEPT ![b] = NoOrder]

Enter(b, call) ==
  /\ bpc' = [bpc EXCEPT ![b] = "state"]
  /\ calling' = [calling EXCEPT ![b] = call]
  /\ approved' = [approved EXCEPT ![b] = IsLive(b)]

Outcome(b) == IF calling[b] = "construct" THEN "down" ELSE "idle"

Construct(b) ==
  /\ bpc[b] = "down"
  /\ Enter(b, "construct")
  /\ UNCHANGED <<registryVars, order, killed, open, signal, placed, venue, deaths>>

(* Mutation: the promotion gate is not consulted.                          *)
Submit_SkipsGate(b) ==
  /\ bpc[b] = "idle" /\ ~killed[b] /\ Len(placed[b]) < MaxSends
  /\ \E o \in Order : order' = [order EXCEPT ![b] = o]
  /\ bpc' = [bpc EXCEPT ![b] = "risk"]
  /\ calling' = [calling EXCEPT ![b] = "submit"]
  /\ approved' = [approved EXCEPT ![b] = IsLive(b)]
  /\ UNCHANGED <<registryVars, killed, open, signal, placed, venue, deaths>>

(* submit_order: refused when killed, else the promotion gate.  Nobody     *)
(* asks whether the order id was submitted before.                         *)
Submit(b) ==
  /\ bpc[b] = "idle"
  /\ ~killed[b]
  /\ Len(placed[b]) < MaxSends
  /\ \E o \in Order : order' = [order EXCEPT ![b] = o]
  /\ Enter(b, "submit")
  /\ UNCHANGED <<registryVars, killed, open, signal, placed, venue, deaths>>

(* check_registry_and_kill_if_revoked.                                     *)
Check(b) ==
  /\ bpc[b] = "idle"
  /\ Enter(b, "check")
  /\ UNCHANGED <<registryVars, order, killed, open, signal, placed, venue, deaths>>

(* activate_kill_switch.                                                   *)
Kill(b) ==
  /\ killed' = [killed EXCEPT ![b] = TRUE]
  /\ signal' = [signal EXCEPT ![b] = open[b]]

(* get_active_promoted_artifact, first query: not approved raises          *)
(* PromotionError, which a check answers with the kill switch.             *)
QueryState(b) ==
  /\ bpc[b] = "state"
  /\ \/ /\ IsLive(b)
        /\ bpc' = [bpc EXCEPT ![b] = "event"]
        /\ UNCHANGED <<order, killed, signal>>
     \/ /\ ~IsLive(b) /\ calling[b] # "check"
        /\ Leave(b, Outcome(b))
        /\ UNCHANGED <<killed, signal>>
     \/ /\ ~IsLive(b) /\ calling[b] = "check"
        /\ Leave(b, "idle")
        /\ IF killed[b] THEN UNCHANGED <<killed, signal>> ELSE Kill(b)
  /\ UNCHANGED <<registryVars, calling, open, placed, venue, approved, deaths>>

(* Second query: the latest event, whose state the gate looks at again and *)
(* a check does not.                                                       *)
QueryEvent(b) ==
  /\ bpc[b] = "event"
  /\ \/ calling[b] = "submit" /\ IsLive(b)
        /\ bpc' = [bpc EXCEPT ![b] = "risk"] /\ UNCHANGED order
     \/ calling[b] = "construct" /\ IsLive(b) /\ Leave(b, "idle")
     \/ calling[b] # "check" /\ ~IsLive(b) /\ Leave(b, Outcome(b))
     \/ calling[b] = "check" /\ Leave(b, "idle")
  /\ UNCHANGED <<registryVars, calling, killed, open, signal, placed, venue, approved, deaths>>

(* A query raises an sqlite3 error, which is no PromotionError: it leaves  *)
(* the gate, and the check, as it is.                                      *)
QueryFails(b) ==
  /\ bpc[b] \in {"state", "event"}
  /\ Leave(b, Outcome(b))
  /\ UNCHANGED <<registryVars, calling, killed, open, signal, placed, venue, approved, deaths>>

(* PreTradeRiskValidator.validate: leverage and single-asset limits.       *)
PassRisk(b) ==
  /\ bpc[b] = "risk"
  /\ bpc' = [bpc EXCEPT ![b] = "send"]
  /\ UNCHANGED <<registryVars, calling, order, killed, open, signal, placed, venue, approved, deaths>>

RefuseRisk(b) ==
  /\ bpc[b] = "risk"
  /\ Leave(b, "idle")
  /\ UNCHANGED <<registryVars, calling, killed, open, signal, placed, venue, approved, deaths>>

(* The venue takes the order and gives it the next of its own ids.         *)
Accept(b, answered) ==
  LET accepted == [id |-> order[b], process |-> deaths[b], answered |-> answered] IN
  /\ placed' = [placed EXCEPT ![b] = Append(@, accepted)]
  /\ venue' = [venue EXCEPT ![b] = @ \cup {Len(placed[b]) + 1}]

(* The adapter returns the venue's id, which takes the place of an earlier *)
(* one under the same order id.                                            *)
SendOrder(b) ==
  /\ bpc[b] = "send"
  /\ Accept(b, TRUE)
  /\ open' = [open EXCEPT ![b][order[b]] = Len(placed[b]) + 1]
  /\ Leave(b, "idle")
  /\ UNCHANGED <<registryVars, calling, killed, signal, approved, deaths>>

(* The adapter raises: the venue refused the order, or accepted it and the *)
(* answer was lost.                                                        *)
SendRaises(b) ==
  /\ bpc[b] = "send"
  /\ Accept(b, FALSE) \/ UNCHANGED <<placed, venue>>
  /\ Leave(b, "idle")
  /\ UNCHANGED <<registryVars, calling, killed, open, signal, approved, deaths>>

(* cancel_order: refused when killed or unknown; the venue may or may not  *)
(* accept it, and the order stays in _open_orders until a status query.    *)
Cancel(b) ==
  /\ bpc[b] = "idle" /\ ~killed[b]
  /\ \E o \in Order : /\ open[b][o] \in venue[b]
                      /\ venue' = [venue EXCEPT ![b] = @ \ {open[b][o]}]
  /\ UNCHANGED <<registryVars, bpc, calling, order, killed, open, signal, placed, approved, deaths>>

(* Mutation: any answer takes the order out of _open_orders.               *)
QueryOrder_PopsAlways(b) ==
  /\ bpc[b] = "idle"
  /\ \E o \in Order : open[b][o] # 0 /\ open' = [open EXCEPT ![b][o] = 0]
  /\ UNCHANGED <<registryVars, bpc, calling, order, killed, signal, placed, venue, approved, deaths>>

(* get_order_status: an order that is filled, canceled or rejected is      *)
(* taken out of _open_orders.                                              *)
QueryOrder(b) ==
  /\ bpc[b] = "idle"
  /\ \E o \in Order : /\ open[b][o] # 0 /\ open[b][o] \notin venue[b]
                      /\ open' = [open EXCEPT ![b][o] = 0]
  /\ UNCHANGED <<registryVars, bpc, calling, order, killed, signal, placed, venue, approved, deaths>>

ActivateKillSwitch(b) ==
  /\ bpc[b] = "idle"
  /\ Kill(b)
  /\ UNCHANGED <<registryVars, bpc, calling, order, open, placed, venue, approved, deaths>>

(* The venue fills or rejects an order.                                    *)
VenueCloses(b) ==
  /\ \E t \in venue[b] : venue' = [venue EXCEPT ![b] = @ \ {t}]
  /\ UNCHANGED <<registryVars, bpc, calling, order, killed, open, signal, placed, approved, deaths>>

(* The broker's process dies.  Its orders stay at the venue; a new object  *)
(* knows nothing of them, nor of the kill switch.                          *)
Restart(b) ==
  /\ bpc[b] # "down"
  /\ deaths[b] < MaxRestarts
  /\ deaths' = [deaths EXCEPT ![b] = @ + 1]
  /\ Leave(b, "down")
  /\ killed' = [killed EXCEPT ![b] = FALSE]
  /\ open' = [open EXCEPT ![b] = NoOrders]
  /\ signal' = [signal EXCEPT ![b] = NoOrders]
  /\ UNCHANGED <<registryVars, calling, placed, venue, approved>>

(* An operator's call, or the clock; approved notes an approval that was   *)
(* in force at any moment of a broker's call.                              *)
Registry ==
  /\ RegistryNext
  /\ approved' = [b \in Broker |-> approved[b] \/ IsLive(b)']
  /\ UNCHANGED <<bpc, calling, order, killed, open, signal, placed, venue, deaths>>

Trade(b) ==
  \/ Construct(b) \/ Submit(b) \/ PassRisk(b) \/ RefuseRisk(b) \/ SendOrder(b) \/ SendRaises(b)
  \/ Cancel(b) \/ QueryOrder(b) \/ ActivateKillSwitch(b)

Query(b) == QueryState(b) \/ QueryEvent(b)

BrokerNext ==
  \/ Registry
  \/ \E b \in Broker : \/ Trade(b) \/ Query(b) \/ QueryFails(b) \/ Check(b)
                       \/ VenueCloses(b) \/ Restart(b)

BrokerSpec == BrokerInit /\ [][BrokerNext]_vars
-----------------------------------------------------------------------------
TypeOK ==
  /\ RegistryTypeOK
  /\ bpc \in [Broker -> {"down", "idle", "state", "event", "risk", "send"}]
  /\ calling \in [Broker -> {"construct", "submit", "check"}]
  /\ order \in [Broker -> Order \cup {NoOrder}]
  /\ killed \in [Broker -> BOOLEAN]
  /\ open \in [Broker -> [Order -> Nat]]
  /\ signal \in [Broker -> [Order -> Nat]]
  /\ placed \in [Broker -> Seq(Placed)]
  /\ venue \in [Broker -> SUBSET Nat]
  /\ approved \in [Broker -> BOOLEAN]
  /\ deaths \in [Broker -> Nat]

NewAtVenue(b) == \E t \in venue'[b] : t \notin venue[b]

(* From the kill switch to the end of its process a broker never puts      *)
(* another order at the venue, whatever call it was in.                    *)
KilledIsSilent == [][\A b \in Broker : NewAtVenue(b) => ~killed[b]]_vars

(* An order reaches the venue only in a call during which the artifact     *)
(* really was LIVE_APPROVED at some moment: an approval that was revoked   *)
(* before the call began never trades.                                     *)
OrdersWereApproved == [][\A b \in Broker : NewAtVenue(b) => approved[b]]_vars

(* A check that comes back without an error leaves the broker killed       *)
(* unless the artifact was LIVE_APPROVED at some moment of the check.      *)
CheckKills ==
  [][\A b \in Broker :
       calling[b] = "check" /\ Query(b) /\ bpc'[b] = "idle" => killed'[b] \/ approved[b]]_vars

(* Whatever is live at the venue stands in _open_orders under its order id *)
(* with the venue's id, unless its answer was lost, an earlier process     *)
(* sent it, or this process submitted the same order id again and got an   *)
(* answer: a status query or a cancel loses no other.  The three           *)
(* exceptions are the live orders which the signal of the kill switch,     *)
(* "any open order ids that the caller should attempt to flatten", does    *)
(* not name.                                                               *)
Known(b, t) == open[b][placed[b][t].id] = t

Resent(b, t) ==
  \E u \in DOMAIN placed[b] :
    /\ t < u
    /\ placed[b][u].id = placed[b][t].id
    /\ placed[b][u].process = deaths[b] /\ placed[b][u].answered

OthersAreKnown ==
  \A b \in Broker : \A t \in venue[b] :
    \/ Known(b, t)
    \/ ~placed[b][t].answered
    \/ placed[b][t].process < deaths[b]
    \/ Resent(b, t)
=============================================================================
