-------------------------- MODULE PromotionRegistry --------------------------
(***************************************************************************)
(* promotion/registry.py: the append-only table model_promotion_record and *)
(* the operators that register candidates and record transitions.          *)
(*                                                                         *)
(* A call reads the current state over one connection, validates the       *)
(* transition, takes the wall-clock time and inserts over another          *)
(* connection.  Nothing ties the insert to the state that was read.        *)
(***************************************************************************)
EXTENDS Naturals, Sequences

CONSTANTS
  Operator,  \* processes that call the registry
  Artifact,  \* model artifact ids
  Payloads,  \* identity payloads the operators come with
  MaxEvents, \* bound: events of one artifact
  MaxClock,  \* bound: distinct event_at times
  NoRequest  \* no call in progress

ASSUME RegistryBounds == MaxEvents \in Nat /\ MaxClock \in Nat

VARIABLES
  log,      \* rows of each artifact in rowid order: state, event_at, payload
  clock,    \* datetime.now
  opc,      \* where an operator's call is
  request,  \* its artifact, target state and payload
  eventAt,  \* the event_at it took
  raced,    \* history: another call's event entered the artifact's log since its read
  turned    \* history: the wall clock was once set back

callVars == <<opc, request, eventAt>>
historyVars == <<raced, turned>>
registryVars == <<log, clock, callVars, historyVars>>

(* The artifact's latest row: ORDER BY event_at DESC, rowid DESC.          *)
Later(r, i, q, j) == r.at < q.at \/ (r.at = q.at /\ i <= j)

LatestIndex(a) ==
  CHOOSE j \in DOMAIN log[a] : \A i \in DOMAIN log[a] : Later(log[a][i], i, log[a][j], j)

(* get_current_state.                                                      *)
CurrentState(a) == IF log[a] = <<>> THEN "NONE" ELSE log[a][LatestIndex(a)].state

Lifecycle == INSTANCE PromotionLifecycle WITH
               status <- [a \in Artifact |-> CurrentState(a)]

ASSUME PayloadAssumption == Payloads \subseteq Lifecycle!Payload

Request == [artifact : Artifact, target : Lifecycle!State, payload : Payloads]
Row == [state : Lifecycle!State, at : Nat, payload : Payloads]

RegistryInit ==
  /\ log = [a \in Artifact |-> <<>>]
  /\ clock = 0
  /\ opc = [o \in Operator |-> "idle"]
  /\ request = [o \in Operator |-> NoRequest]
  /\ eventAt = [o \in Operator |-> 0]
  /\ raced = [o \in Operator |-> FALSE]
  /\ turned = FALSE

(* Mutations: the transition matrix, or the gates, are not consulted.      *)
Valid_IgnoresMatrix(current, target, payload) ==
  /\ current \notin Lifecycle!Terminal
  /\ Lifecycle!Gate(target, payload)

Valid_IgnoresGates(current, target, payload) ==
  /\ current \notin Lifecycle!Terminal
  /\ <<current, target>> \in Lifecycle!Transitions

(* validate_transition_and_gates.                                          *)
Valid(current, target, payload) ==
  /\ current \notin Lifecycle!Terminal
  /\ <<current, target>> \in Lifecycle!Transitions
  /\ Lifecycle!Gate(target, payload)

(* register_candidate or transition_state up to the state read, with the   *)
(* checks on it: a registered artifact cannot be registered again, an      *)
(* unregistered one cannot move.  A call that is refused changes nothing.  *)
ReadState(o) ==
  /\ opc[o] = "idle"
  /\ \E a \in Artifact, s \in Lifecycle!State, p \in Payloads :
       /\ Len(log[a]) < MaxEvents
       /\ Valid(CurrentState(a), s, p)
       /\ request' = [request EXCEPT ![o] =
            [artifact |-> a, target |-> s, payload |-> p]]
  /\ opc' = [opc EXCEPT ![o] = "stamp"]
  /\ UNCHANGED <<log, clock, eventAt, historyVars>>

(* event_at = datetime.now(utc).                                           *)
StampEvent(o) ==
  /\ opc[o] = "stamp"
  /\ eventAt' = [eventAt EXCEPT ![o] = clock]
  /\ opc' = [opc EXCEPT ![o] = "insert"]
  /\ UNCHANGED <<log, clock, request, historyVars>>

RowOf(r, t) == [state |-> r.target, at |-> t, payload |-> r.payload]

(* The call returns or raises.                                             *)
EndCall(o) ==
  /\ opc' = [opc EXCEPT ![o] = "idle"]
  /\ request' = [request EXCEPT ![o] = NoRequest]
  /\ eventAt' = [eventAt EXCEPT ![o] = 0]

(* Calls on an artifact that have read its state and not ended.            *)
Underway(a) == {o \in Operator : opc[o] # "idle" /\ request[o].artifact = a}

(* INSERT and commit, whatever was inserted since the state was read.      *)
InsertEvent(o) ==
  LET a == request[o].artifact IN
  /\ opc[o] = "insert"
  /\ log' = [log EXCEPT ![a] = Append(log[a], RowOf(request[o], eventAt[o]))]
  /\ raced' = [p \in Operator |-> p # o /\ (raced[p] \/ p \in Underway(a))]
  /\ EndCall(o)
  /\ UNCHANGED <<clock, turned>>

(* The database stays busy, or the process dies: no row.                   *)
InsertFails(o) ==
  /\ opc[o] \in {"stamp", "insert"}
  /\ raced' = [raced EXCEPT ![o] = FALSE]
  /\ EndCall(o)
  /\ UNCHANGED <<log, clock, turned>>

(* The wall clock runs on, or is set back.                                 *)
Tick ==
  /\ clock' \in (0 .. MaxClock) \ {clock}
  /\ turned' = (turned \/ clock' < clock)
  /\ UNCHANGED <<log, callVars, raced>>

Operate(o) == ReadState(o) \/ StampEvent(o) \/ InsertEvent(o) \/ InsertFails(o)

RegistryNext == Tick \/ \E o \in Operator : Operate(o)

RegistrySpec == RegistryInit /\ [][RegistryNext]_registryVars
-----------------------------------------------------------------------------
RegistryTypeOK ==
  /\ log \in [Artifact -> Seq(Row)]
  /\ clock \in Nat
  /\ opc \in [Operator -> {"idle", "stamp", "insert"}]
  /\ request \in [Operator -> Request \cup {NoRequest}]
  /\ eventAt \in [Operator -> Nat]
  /\ raced \in [Operator -> BOOLEAN]
  /\ turned \in BOOLEAN

(* An artifact in a live-approved state got there by an event of the owner *)
(* that refers to a paper observation, whatever other operators inserted.  *)
LiveIsAuthorized ==
  \A a \in Artifact :
    CurrentState(a) = "LIVE_APPROVED" =>
      log[a][LatestIndex(a)].payload = [owner |-> TRUE, observed |-> TRUE]

(* An event takes its artifact along the transition matrix and through the *)
(* gates, to the state its call asked for.  Two cases are excepted: an     *)
(* event of another call entered the log between the read and the insert,  *)
(* when nothing is promised; or the wall clock was set back, when the new  *)
(* event may sort below an older one and change nothing.                   *)
EventsFollowLifecycle ==
  [][\A o \in Operator :
       InsertEvent(o) /\ ~raced[o] =>
         \/ Lifecycle!Advance(request[o].artifact, request[o].target, request[o].payload)
         \/ turned /\ \A a \in Artifact : UNCHANGED CurrentState(a)]_registryVars

(* models.py calls retired, rejected and quarantined "terminal states from *)
(* which an artifact cannot be promoted without a new identity": what is   *)
(* terminal stays terminal.                                                *)
TerminalIsFinal ==
  [][\A a \in Artifact :
       CurrentState(a) \in Lifecycle!Terminal => CurrentState(a)' \in Lifecycle!Terminal]_registryVars
=============================================================================
