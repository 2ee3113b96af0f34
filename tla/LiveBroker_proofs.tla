-------------------------- MODULE LiveBroker_proofs --------------------------
(***************************************************************************)
(* Theorems about PromotionRegistry and LiveBroker for any artifacts,      *)
(* payloads, clock, operators, brokers, orders and restarts.               *)
(***************************************************************************)
EXTENDS LiveBroker, TLAPS

-----------------------------------------------------------------------------
(* The registry *)

Pending(o) == opc[o] # "idle"

Typed == RegistryTypeOK /\ \A o \in Operator : Pending(o) => request[o] \in Request

LEMMA TypedInit == RegistryInit => Typed
<1> SUFFICES ASSUME RegistryInit PROVE Typed
  OBVIOUS
<1>1. raced \in [Operator -> BOOLEAN] /\ turned \in BOOLEAN
  BY Zenon DEF RegistryInit
<1>2. \A o \in Operator : ~Pending(o)
  BY DEF RegistryInit, Pending
<1>3. /\ log \in [Artifact -> Seq(Row)]
      /\ clock \in Nat /\ opc \in [Operator -> {"idle", "stamp", "insert"}]
      /\ request \in [Operator -> Request \cup {NoRequest}] /\ eventAt \in [Operator -> Nat]
  BY DEF RegistryInit
<1> QED
  BY <1>1, <1>2, <1>3 DEF Typed, RegistryTypeOK

LEMMA TypedStep == Typed /\ [RegistryNext]_registryVars => Typed'
<1> SUFFICES ASSUME Typed, [RegistryNext]_registryVars PROVE Typed'
  OBVIOUS
<1> USE DEF Typed, RegistryTypeOK, Pending, historyVars, callVars, EndCall
<1>1. ASSUME NEW o \in Operator, ReadState(o) PROVE Typed'
  <2>1. PICK a \in Artifact, s \in Lifecycle!State, p \in Payloads :
          request' = [request EXCEPT ![o] = [artifact |-> a, target |-> s, payload |-> p]]
    BY <1>1 DEF ReadState
  <2>2. [artifact |-> a, target |-> s, payload |-> p] \in Request
    BY DEF Request
  <2> QED
    BY <1>1, <2>1, <2>2 DEF ReadState, historyVars
<1>2. ASSUME NEW o \in Operator, StampEvent(o) PROVE Typed'
  BY <1>2 DEF StampEvent
<1>3. ASSUME NEW o \in Operator, InsertEvent(o) PROVE Typed'
  <2>1. request[o] \in Request
    BY <1>3 DEF InsertEvent
  <2>2. RowOf(request[o], eventAt[o]) \in Row /\ request[o].artifact \in Artifact
    BY <2>1 DEF RowOf, Row, Request
  <2>3. log' \in [Artifact -> Seq(Row)]
    BY <1>3, <2>2 DEF InsertEvent
  <2> QED
    BY <1>3, <2>3 DEF InsertEvent
<1>4. ASSUME NEW o \in Operator, InsertFails(o) PROVE Typed'
  BY <1>4 DEF InsertFails
<1>5. CASE Tick
  <2>1. clock' \in Nat
    BY <1>5, RegistryBounds DEF Tick
  <2>2. turned' \in BOOLEAN
    BY <1>5 DEF Tick
  <2> QED
    BY <1>5, <2>1, <2>2 DEF Tick
<1>6. CASE UNCHANGED registryVars
  BY <1>6 DEF registryVars
<1> QED
  BY <1>1, <1>2, <1>3, <1>4, <1>5, <1>6 DEF RegistryNext, Operate

(* The registry's variables keep their types.                              *)
THEOREM RegistryTypes == RegistrySpec => []RegistryTypeOK
<1> QED
  BY TypedInit, TypedStep, PTL DEF RegistrySpec, Typed
-----------------------------------------------------------------------------
(***************************************************************************)
(* A non-empty log has a latest row.  That every non-empty sequence has a  *)
(* maximum would take an induction; that every log has one is an invariant.*)
(***************************************************************************)
IsLatest(a, j) ==
  /\ j \in DOMAIN log[a]
  /\ \A i \in DOMAIN log[a] : Later(log[a][i], i, log[a][j], j)

HasLatest == \A a \in Artifact : log[a] # <<>> => \E j : IsLatest(a, j)

LEMMA LatestIsLatest ==
  ASSUME NEW a \in Artifact, HasLatest, log[a] # <<>>
  PROVE  IsLatest(a, LatestIndex(a))
<1>1. PICK j : IsLatest(a, j)
  BY DEF HasLatest
<1>2. \E k \in DOMAIN log[a] : \A i \in DOMAIN log[a] : Later(log[a][i], i, log[a][k], k)
  BY <1>1 DEF IsLatest
<1> QED
  BY <1>2 DEF LatestIndex, IsLatest

LEMMA LatestIsUnique ==
  ASSUME NEW l \in Seq(Row), NEW j \in DOMAIN l,
         \A i \in DOMAIN l : Later(l[i], i, l[j], j)
  PROVE  (CHOOSE k \in DOMAIN l : \A i \in DOMAIN l : Later(l[i], i, l[k], k)) = j
<1> DEFINE Top(k) == \A i \in DOMAIN l : Later(l[i], i, l[k], k)
<1>1. ASSUME NEW k \in DOMAIN l, Top(k) PROVE k = j
  <2>1. Later(l[k], k, l[j], j) /\ Later(l[j], j, l[k], k)
    BY <1>1
  <2>2. l[j] \in Row /\ l[k] \in Row /\ j \in Nat /\ k \in Nat
    OBVIOUS
  <2>3. l[j].at \in Nat /\ l[k].at \in Nat
    BY <2>2 DEF Row
  <2> QED
    BY <2>1, <2>2, <2>3 DEF Later
<1>2. Top(j)
  OBVIOUS
<1> HIDE DEF Top
<1>3. (CHOOSE k \in DOMAIN l : Top(k)) = j
  BY <1>1, <1>2
<1> QED
  BY <1>3 DEF Top

(* What one insertion does to the log of its artifact.                     *)
LEMMA Inserted ==
  ASSUME Typed, NEW o \in Operator, InsertEvent(o)
  PROVE  \E a \in Artifact, n \in Nat, row \in Row :
           /\ a = request[o].artifact /\ row = RowOf(request[o], eventAt[o])
           /\ DOMAIN log[a] = 1 .. n /\ DOMAIN log'[a] = 1 .. n + 1
           /\ \A i \in 1 .. n : log'[a][i] = log[a][i] /\ log[a][i] \in Row
           /\ log'[a][n + 1] = row
           /\ \A b \in Artifact : b # a => log'[b] = log[b]
<1>1. PICK a \in Artifact, row \in Row :
        a = request[o].artifact /\ row = RowOf(request[o], eventAt[o])
  BY DEF InsertEvent, Typed, RegistryTypeOK, Pending, Request, RowOf, Row
<1>2. log[a] \in Seq(Row) /\ Len(log[a]) \in Nat
  BY DEF Typed, RegistryTypeOK
<1>3. log' = [log EXCEPT ![a] = Append(log[a], row)]
  BY <1>1 DEF InsertEvent
<1>4. log'[a] = Append(log[a], row)
  BY <1>3 DEF Typed, RegistryTypeOK
<1>5. \A b \in Artifact : b # a => log'[b] = log[b]
  BY <1>3 DEF Typed, RegistryTypeOK
<1>6. /\ DOMAIN log[a] = 1 .. Len(log[a]) /\ DOMAIN log'[a] = 1 .. Len(log[a]) + 1
      /\ \A i \in 1 .. Len(log[a]) : log'[a][i] = log[a][i] /\ log[a][i] \in Row
      /\ log'[a][Len(log[a]) + 1] = row
  BY <1>2, <1>4
<1> QED
  BY <1>1, <1>2, <1>5, <1>6

LEMMA HasLatestStep == Typed /\ HasLatest /\ [RegistryNext]_registryVars => HasLatest'
<1> SUFFICES ASSUME Typed, HasLatest, [RegistryNext]_registryVars PROVE HasLatest'
  OBVIOUS
<1>1. ASSUME NEW o \in Operator, InsertEvent(o) PROVE HasLatest'
  <2>1. PICK a \in Artifact, n \in Nat, row \in Row :
          /\ DOMAIN log[a] = 1 .. n /\ DOMAIN log'[a] = 1 .. n + 1
          /\ \A i \in 1 .. n : log'[a][i] = log[a][i] /\ log[a][i] \in Row
          /\ log'[a][n + 1] = row
          /\ \A b \in Artifact : b # a => log'[b] = log[b]
    BY <1>1, Inserted
  <2>2. \E j : IsLatest(a, j)'
    <3>1. \A i \in 1 .. n : log[a][i].at \in Nat
      BY <2>1 DEF Row
    <3>2. row.at \in Nat
      BY <2>1 DEF Row
    <3>3. CASE \A i \in 1 .. n : log[a][i].at <= row.at
      <4>1. ASSUME NEW i \in 1 .. n + 1 PROVE Later(log'[a][i], i, row, n + 1)
        <5>1. CASE i \in 1 .. n
          BY <2>1, <3>1, <3>2, <3>3, <5>1 DEF Later
        <5>2. CASE i = n + 1
          BY <2>1, <3>2, <5>2 DEF Later
        <5> QED
          BY <5>1, <5>2
      <4>2. n + 1 \in 1 .. n + 1
        BY <2>1
      <4>3. IsLatest(a, n + 1)'
        BY <2>1, <4>1, <4>2 DEF IsLatest
      <4> QED
        BY <4>3
    <3>4. CASE \E i \in 1 .. n : ~(log[a][i].at <= row.at)
      <4>1. PICK i \in 1 .. n : log[a][i].at > row.at
        BY <3>1, <3>2, <3>4
      <4>2. PICK j : IsLatest(a, j)
        BY <2>1, <4>1 DEF HasLatest
      <4>3. j \in 1 .. n /\ \A k \in 1 .. n : Later(log[a][k], k, log[a][j], j)
        BY <2>1, <4>2 DEF IsLatest
      <4>4. row.at < log[a][j].at
        BY <3>1, <3>2, <4>1, <4>3 DEF Later
      <4>5. ASSUME NEW k \in 1 .. n + 1 PROVE Later(log'[a][k], k, log'[a][j], j)
        <5>1. log'[a][j] = log[a][j]
          BY <2>1, <4>3
        <5>2. CASE k \in 1 .. n
          BY <2>1, <4>3, <5>1, <5>2
        <5>3. CASE k = n + 1
          BY <2>1, <4>4, <5>1, <5>3 DEF Later
        <5> QED
          BY <2>1, <5>2, <5>3
      <4>6. j \in 1 .. n + 1
        BY <2>1, <4>3
      <4>7. IsLatest(a, j)'
        BY <2>1, <4>5, <4>6 DEF IsLatest
      <4> QED
        BY <4>7
    <3> QED
      BY <3>3, <3>4
  <2>3. ASSUME NEW b \in Artifact, b # a, log'[b] # <<>> PROVE \E j : IsLatest(b, j)'
    <3>1. log'[b] = log[b]
      BY <2>1, <2>3
    <3>2. PICK j : IsLatest(b, j)
      BY <2>3, <3>1 DEF HasLatest
    <3>3. IsLatest(b, j)'
      BY <3>1, <3>2 DEF IsLatest
    <3> QED
      BY <3>3
  <2>4. ASSUME NEW b \in Artifact, log'[b] # <<>> PROVE \E j : IsLatest(b, j)'
    BY <2>2, <2>3, <2>4
  <2> QED
    BY <2>4 DEF HasLatest
<1>2. CASE UNCHANGED log
  BY <1>2 DEF HasLatest, IsLatest
<1> QED
  BY <1>1, <1>2 DEF RegistryNext, Operate, ReadState, StampEvent, InsertFails, Tick, registryVars

LEMMA HasLatestInit == RegistryInit => HasLatest
BY DEF RegistryInit, HasLatest

(* An insertion is the only step that touches a log.                       *)
LEMMA OnlyInserts ==
  ASSUME [RegistryNext]_registryVars
  PROVE  UNCHANGED log \/ \E o \in Operator : InsertEvent(o)
BY DEF RegistryNext, Operate, ReadState, StampEvent, InsertFails, Tick, registryVars
-----------------------------------------------------------------------------
(***************************************************************************)
(* Gates.  The row that is inserted passed the gate when its call read the *)
(* state, whatever was inserted since.                                     *)
(***************************************************************************)
RowsGated ==
  \A a \in Artifact : \A i \in DOMAIN log[a] :
    Lifecycle!Gate(log[a][i].state, log[a][i].payload)

RequestsGated ==
  \A o \in Operator : Pending(o) => Lifecycle!Gate(request[o].target, request[o].payload)

Gated == RowsGated /\ RequestsGated

LEMMA GatedStep == Typed /\ Gated /\ [RegistryNext]_registryVars => Gated'
<1> SUFFICES ASSUME Typed, Gated, [RegistryNext]_registryVars PROVE Gated'
  OBVIOUS
<1>1. RowsGated'
  <2>1. ASSUME NEW o \in Operator, InsertEvent(o) PROVE RowsGated'
    <3>1. PICK a \in Artifact, n \in Nat, row \in Row :
            /\ a = request[o].artifact /\ row = RowOf(request[o], eventAt[o])
            /\ DOMAIN log[a] = 1 .. n /\ DOMAIN log'[a] = 1 .. n + 1
            /\ \A i \in 1 .. n : log'[a][i] = log[a][i] /\ log[a][i] \in Row
            /\ log'[a][n + 1] = row
            /\ \A b \in Artifact : b # a => log'[b] = log[b]
      BY <2>1, Inserted
    <3>2. Lifecycle!Gate(row.state, row.payload)
      BY <2>1, <3>1 DEF Gated, RequestsGated, Pending, InsertEvent, RowOf
    <3>3. \A i \in 1 .. n + 1 : Lifecycle!Gate(log'[a][i].state, log'[a][i].payload)
      <4>1. \A i \in 1 .. n : Lifecycle!Gate(log'[a][i].state, log'[a][i].payload)
        BY <3>1 DEF Gated, RowsGated
      <4>2. \A i \in 1 .. n + 1 : i \in 1 .. n \/ i = n + 1
        OBVIOUS
      <4> QED
        BY <3>1, <3>2, <4>1, <4>2
    <3>4. ASSUME NEW b \in Artifact PROVE \A i \in DOMAIN log'[b] :
            Lifecycle!Gate(log'[b][i].state, log'[b][i].payload)
      BY <3>1, <3>3 DEF Gated, RowsGated
    <3> QED
      BY <3>4 DEF RowsGated
  <2>2. CASE UNCHANGED log
    BY <2>2 DEF Gated, RowsGated
  <2> QED
    BY <2>1, <2>2, OnlyInserts
<1>2. RequestsGated'
  <2> USE DEF Gated, RequestsGated, Pending, Typed, RegistryTypeOK, callVars, EndCall
  <2>1. ASSUME NEW o \in Operator, ReadState(o) PROVE RequestsGated'
    BY <2>1 DEF ReadState, Valid
  <2>2. ASSUME NEW o \in Operator, StampEvent(o) \/ InsertEvent(o) \/ InsertFails(o)
        PROVE  RequestsGated'
    BY <2>2 DEF StampEvent, InsertEvent, InsertFails
  <2>3. CASE Tick \/ UNCHANGED registryVars
    BY <2>3 DEF Tick, registryVars
  <2> QED
    BY <2>1, <2>2, <2>3 DEF RegistryNext, Operate
<1> QED
  BY <1>1, <1>2 DEF Gated

(* LIVE_APPROVED always rests on an event of the owner with a paper        *)
(* observation, however many operators race.                               *)
THEOREM LiveAuthorized == RegistrySpec => []LiveIsAuthorized
<1>1. RegistryInit => Gated
  BY DEF RegistryInit, Gated, RowsGated, RequestsGated, Pending
<1>2. Typed /\ HasLatest /\ Gated => LiveIsAuthorized
  <2> SUFFICES ASSUME Typed, HasLatest, Gated, NEW a \in Artifact,
                      CurrentState(a) = "LIVE_APPROVED"
               PROVE  log[a][LatestIndex(a)].payload = [owner |-> TRUE, observed |-> TRUE]
    BY DEF LiveIsAuthorized
  <2>1. log[a] # <<>>
    BY DEF CurrentState
  <2>2. IsLatest(a, LatestIndex(a)) /\ log[a][LatestIndex(a)].state = "LIVE_APPROVED"
    BY <2>1, LatestIsLatest DEF CurrentState
  <2>3. PICK p : p = log[a][LatestIndex(a)].payload
    OBVIOUS
  <2>4. log[a][LatestIndex(a)] \in Row
    BY <2>2 DEF Typed, RegistryTypeOK, IsLatest
  <2>5. p \in Lifecycle!Payload /\ p.owner /\ p.observed
    BY <2>2, <2>3, <2>4, PayloadAssumption DEF Row, Gated, RowsGated, IsLatest, Lifecycle!Gate
  <2>6. p = [owner |-> TRUE, observed |-> TRUE]
    BY <2>5 DEF Lifecycle!Payload
  <2> QED
    BY <2>3, <2>6
<1> QED
  BY TypedInit, TypedStep, HasLatestInit, HasLatestStep, GatedStep, <1>1, <1>2, PTL
     DEF RegistrySpec
-----------------------------------------------------------------------------
(***************************************************************************)
(* Calls that no other call's event overtook.  What such a call read is    *)
(* still so when it inserts, and while the clock was never set back its    *)
(* event is the latest.                                                    *)
(***************************************************************************)
Past ==
  ~turned =>
    /\ \A a \in Artifact : \A i \in DOMAIN log[a] : log[a][i].at <= clock
    /\ \A o \in Operator : opc[o] = "insert" =>
         /\ eventAt[o] <= clock
         /\ ~raced[o] => \A i \in DOMAIN log[request[o].artifact] :
                           log[request[o].artifact][i].at <= eventAt[o]

Fresh ==
  \A o \in Operator : Pending(o) /\ ~raced[o] =>
    Valid(CurrentState(request[o].artifact), request[o].target, request[o].payload)

Ordered == Typed /\ HasLatest /\ Past /\ Fresh

(* A row's time is a number.                                               *)
LEMMA TimesAreNumbers ==
  ASSUME Typed, NEW a \in Artifact, NEW i \in DOMAIN log[a] PROVE log[a][i].at \in Nat
<1>1. log[a] \in Seq(Row)
  BY DEF Typed, RegistryTypeOK
<1>2. log[a][i] \in Row
  BY <1>1
<1> QED
  BY <1>2 DEF Row

LEMMA PastStep == Typed /\ Past /\ [RegistryNext]_registryVars => Past'
<1> SUFFICES ASSUME Typed, Past, [RegistryNext]_registryVars, ~turned' PROVE Past'
  BY DEF Past
<1> USE DEF callVars, historyVars
<1>0. ~turned
  BY DEF RegistryNext, Operate, ReadState, StampEvent, InsertEvent, InsertFails, Tick, registryVars
<1>01. /\ \A a \in Artifact : \A i \in DOMAIN log[a] : log[a][i].at <= clock
       /\ \A o \in Operator : opc[o] = "insert" =>
            /\ eventAt[o] <= clock
            /\ ~raced[o] => \A i \in DOMAIN log[request[o].artifact] :
                              log[request[o].artifact][i].at <= eventAt[o]
  BY <1>0 DEF Past
<1>1. ASSUME NEW o \in Operator, InsertEvent(o) PROVE Past'
  <2>1. PICK a \in Artifact, n \in Nat, row \in Row :
          /\ a = request[o].artifact /\ row = RowOf(request[o], eventAt[o])
          /\ DOMAIN log[a] = 1 .. n /\ DOMAIN log'[a] = 1 .. n + 1
          /\ \A i \in 1 .. n : log'[a][i] = log[a][i] /\ log[a][i] \in Row
          /\ log'[a][n + 1] = row
          /\ \A b \in Artifact : b # a => log'[b] = log[b]
    BY <1>1, Inserted
  <2>2. row.at = eventAt[o] /\ eventAt[o] <= clock
    BY <1>1, <1>01, <2>1 DEF RowOf, InsertEvent
  <2>3. \A i \in 1 .. n + 1 : i \in 1 .. n \/ i = n + 1
    OBVIOUS
  <2>4. ASSUME NEW b \in Artifact, NEW i \in DOMAIN log'[b] PROVE log'[b][i].at <= clock
    BY <1>01, <2>1, <2>2, <2>3
  <2>5. ASSUME NEW p \in Operator, opc'[p] = "insert"
        PROVE  /\ eventAt'[p] <= clock
               /\ ~raced'[p] => \A i \in DOMAIN log'[request'[p].artifact] :
                                  log'[request'[p].artifact][i].at <= eventAt'[p]
    <3>1. p # o /\ opc[p] = "insert" /\ eventAt'[p] = eventAt[p] /\ request'[p] = request[p]
      BY <1>1, <2>5 DEF InsertEvent, EndCall, Typed, RegistryTypeOK
    <3>2. eventAt[p] <= clock
      BY <1>01, <3>1
    <3>3. ASSUME ~raced'[p]
          PROVE  \A i \in DOMAIN log'[request[p].artifact] :
                   log'[request[p].artifact][i].at <= eventAt[p]
      <4>1. ~raced[p] /\ request[p].artifact # a
        BY <1>1, <2>1, <3>1, <3>3 DEF InsertEvent, Underway
      <4>2. request[p].artifact \in Artifact
        BY <3>1 DEF Typed, Pending, Request
      <4>3. log'[request[p].artifact] = log[request[p].artifact]
        BY <2>1, <4>1, <4>2
      <4> QED
        BY <1>01, <3>1, <4>1, <4>3
    <3> QED
      BY <3>1, <3>2, <3>3
  <2>6. clock' = clock
    BY <1>1 DEF InsertEvent
  <2> QED
    BY <2>4, <2>5, <2>6 DEF Past
<1>2. ASSUME NEW o \in Operator, ReadState(o) PROVE Past'
  BY <1>2, <1>01 DEF Past, ReadState, Typed, RegistryTypeOK
<1>3. ASSUME NEW o \in Operator, StampEvent(o) PROVE Past'
  <2>1. request[o].artifact \in Artifact
    BY <1>3 DEF StampEvent, Typed, Pending, Request
  <2>2. \A i \in DOMAIN log[request[o].artifact] : log[request[o].artifact][i].at <= clock
    BY <1>01, <2>1
  <2> QED
    <3>1. /\ eventAt'[o] = clock /\ clock' = clock /\ clock \in Nat
          /\ \A p \in Operator : p # o => eventAt'[p] = eventAt[p] /\ opc'[p] = opc[p]
          /\ UNCHANGED <<log, request, raced>>
      BY <1>3 DEF StampEvent, Typed, RegistryTypeOK
    <3>2. ASSUME NEW p \in Operator, opc'[p] = "insert"
          PROVE  /\ eventAt'[p] <= clock'
                 /\ ~raced'[p] => \A i \in DOMAIN log'[request'[p].artifact] :
                                    log'[request'[p].artifact][i].at <= eventAt'[p]
      <4>1. CASE p = o
        BY <2>2, <3>1, <4>1
      <4>2. CASE p # o
        BY <1>01, <3>1, <3>2, <4>2
      <4> QED
        BY <4>1, <4>2
    <3> QED
      BY <1>01, <3>1, <3>2 DEF Past
<1>4. ASSUME NEW o \in Operator, InsertFails(o) PROVE Past'
  BY <1>4, <1>01 DEF Past, InsertFails, EndCall, Typed, RegistryTypeOK
<1>5. CASE Tick
  <2>1. clock <= clock' /\ clock \in Nat /\ clock' \in Nat
    <3>1. ~(clock' < clock)
      BY <1>5, Zenon DEF Tick
    <3>2. clock' \in 0 .. MaxClock /\ clock \in Nat
      BY <1>5 DEF Tick, Typed, RegistryTypeOK
    <3> QED
      BY <3>1, <3>2, RegistryBounds
  <2>2. \A a \in Artifact : \A i \in DOMAIN log[a] : log[a][i].at <= clock'
    BY <1>01, <2>1, TimesAreNumbers
  <2>3. \A o \in Operator : opc[o] = "insert" => eventAt[o] <= clock'
    BY <1>01, <2>1 DEF Typed, RegistryTypeOK
  <2> QED
    BY <1>5, <1>01, <2>2, <2>3 DEF Past, Tick
<1>6. CASE UNCHANGED registryVars
  BY <1>6, <1>01 DEF Past, registryVars
<1> QED
  BY <1>1, <1>2, <1>3, <1>4, <1>5, <1>6 DEF RegistryNext, Operate

LEMMA StateKept == UNCHANGED log => \A a \in Artifact : CurrentState(a)' = CurrentState(a)
BY DEF CurrentState, LatestIndex

LEMMA FreshStep == Typed /\ Fresh /\ [RegistryNext]_registryVars => Fresh'
<1> SUFFICES ASSUME Typed, Fresh, [RegistryNext]_registryVars, NEW q \in Operator,
                    Pending(q)', ~raced'[q]
             PROVE  Valid(CurrentState(request[q].artifact), request[q].target,
                          request[q].payload)'
  BY DEF Fresh
<1> USE DEF Pending, callVars, historyVars
<1>0. ASSUME Pending(q), ~raced[q], request'[q] = request[q],
             log'[request[q].artifact] = log[request[q].artifact]
      PROVE  Valid(CurrentState(request[q].artifact), request[q].target, request[q].payload)'
  <2>1. Valid(CurrentState(request[q].artifact), request[q].target, request[q].payload)
    BY <1>0 DEF Fresh
  <2>2. CurrentState(request[q].artifact)' = CurrentState(request[q].artifact)
    BY <1>0 DEF CurrentState, LatestIndex
  <2> QED
    BY <1>0, <2>1, <2>2 DEF Valid
<1>1. ASSUME NEW o \in Operator, InsertEvent(o)
      PROVE  Valid(CurrentState(request[q].artifact), request[q].target, request[q].payload)'
  <2>1. q # o /\ Pending(q) /\ request'[q] = request[q]
    BY <1>1 DEF InsertEvent, EndCall, Typed, RegistryTypeOK
  <2>2. ~raced[q] /\ request[q].artifact # request[o].artifact
    BY <1>1, <2>1 DEF InsertEvent, Underway
  <2>3. request[q].artifact \in Artifact /\ request[o].artifact \in Artifact
    BY <1>1, <2>1 DEF InsertEvent, Typed, Request
  <2>4. log'[request[q].artifact] = log[request[q].artifact]
    BY <1>1, <2>2, <2>3, Inserted
  <2> QED
    BY <1>0, <2>1, <2>2, <2>4
<1>2. ASSUME NEW o \in Operator, ReadState(o)
      PROVE  Valid(CurrentState(request[q].artifact), request[q].target, request[q].payload)'
  <2>1. CASE q # o
    BY <1>0, <1>2, <2>1 DEF ReadState, Typed, RegistryTypeOK
  <2>2. CASE q = o
    <3>1. PICK a \in Artifact, s \in Lifecycle!State, p \in Payloads :
            /\ Valid(CurrentState(a), s, p)
            /\ request' = [request EXCEPT ![o] = [artifact |-> a, target |-> s, payload |-> p]]
      BY <1>2 DEF ReadState
    <3>2. request'[q].artifact = a /\ request'[q].target = s /\ request'[q].payload = p
      BY <2>2, <3>1 DEF Typed, RegistryTypeOK
    <3>3. CurrentState(a)' = CurrentState(a)
      BY <1>2, StateKept DEF ReadState
    <3> QED
      BY <3>1, <3>2, <3>3 DEF Valid
  <2> QED
    BY <2>1, <2>2
<1>3. ASSUME NEW o \in Operator, StampEvent(o)
      PROVE  Valid(CurrentState(request[q].artifact), request[q].target, request[q].payload)'
  BY <1>0, <1>3 DEF StampEvent, Typed, RegistryTypeOK
<1>4. ASSUME NEW o \in Operator, InsertFails(o)
      PROVE  Valid(CurrentState(request[q].artifact), request[q].target, request[q].payload)'
  BY <1>0, <1>4 DEF InsertFails, EndCall, Typed, RegistryTypeOK
<1>5. CASE Tick \/ UNCHANGED registryVars
  BY <1>0, <1>5 DEF Tick, registryVars
<1> QED
  BY <1>1, <1>2, <1>3, <1>4, <1>5 DEF RegistryNext, Operate

(***************************************************************************)
(* The event of a call that was not overtaken: the state it was validated  *)
(* against is the current one, and becomes its target unless an older row  *)
(* has a later time, which takes a clock that was set back.                *)
(***************************************************************************)
LEMMA EventAdvances ==
  ASSUME Ordered, Ordered', NEW o \in Operator, InsertEvent(o), ~raced[o]
  PROVE  \/ Lifecycle!Advance(request[o].artifact, request[o].target, request[o].payload)
         \/ turned /\ \A c \in Artifact : CurrentState(c)' = CurrentState(c)
<1> USE DEF Ordered
<1>1. PICK a \in Artifact, n \in Nat, row \in Row :
        /\ a = request[o].artifact /\ row = RowOf(request[o], eventAt[o])
        /\ DOMAIN log[a] = 1 .. n /\ DOMAIN log'[a] = 1 .. n + 1
        /\ \A i \in 1 .. n : log'[a][i] = log[a][i] /\ log[a][i] \in Row
        /\ log'[a][n + 1] = row
        /\ \A b \in Artifact : b # a => log'[b] = log[b]
  BY Inserted
<1>2. PICK s \in Lifecycle!State, p \in Lifecycle!Payload :
        row.state = s /\ s = request[o].target /\ p = request[o].payload
  BY <1>1, PayloadAssumption DEF Typed, Pending, InsertEvent, Request, RowOf
<1>3. <<CurrentState(a), s>> \in Lifecycle!Transitions /\ Lifecycle!Gate(s, p)
  BY <1>1, <1>2 DEF Fresh, Pending, InsertEvent, Valid
<1>4. row.at = eventAt[o] /\ row.at \in Nat /\ \A i \in 1 .. n : log[a][i].at \in Nat
  BY <1>1 DEF RowOf, Row
<1>5. ASSUME NEW b \in Artifact, b # a PROVE CurrentState(b)' = CurrentState(b)
  <2>1. log'[b] = log[b]
    BY <1>1, <1>5
  <2> QED
    BY <2>1 DEF CurrentState, LatestIndex
<1>6. log'[a] \in Seq(Row) /\ log'[a] # <<>>
  <2>1. n + 1 \in DOMAIN log'[a]
    BY <1>1
  <2> QED
    BY <2>1 DEF Typed, RegistryTypeOK
<1>7. CASE \A i \in 1 .. n : log[a][i].at <= row.at
  <2>1. ASSUME NEW i \in 1 .. n + 1 PROVE Later(log'[a][i], i, row, n + 1)
    <3>1. CASE i \in 1 .. n
      <4>1. log'[a][i] = log[a][i] /\ log[a][i].at <= row.at /\ log[a][i].at \in Nat
        BY <1>1, <1>4, <1>7, <3>1
      <4>2. i <= n + 1
        BY <3>1
      <4> QED
        BY <1>4, <4>1, <4>2 DEF Later
    <3>2. CASE i = n + 1
      BY <1>1, <1>4, <3>2 DEF Later
    <3> QED
      BY <3>1, <3>2
  <2>2. n + 1 \in 1 .. n + 1
    OBVIOUS
  <2>3. IsLatest(a, n + 1)'
    <3>1. \A i \in 1 .. n + 1 : Later(log'[a][i], i, log'[a][n + 1], n + 1)
      BY <1>1, <2>1
    <3> QED
      BY <1>1, <2>2, <3>1 DEF IsLatest
  <2>4. LatestIndex(a)' = n + 1
    BY <1>6, <2>3, LatestIsUnique DEF IsLatest, LatestIndex
  <2>5. CurrentState(a)' = s
    BY <1>1, <1>2, <1>6, <2>4 DEF CurrentState
  <2>6. [c \in Artifact |-> CurrentState(c)'] = [[c \in Artifact |-> CurrentState(c)] EXCEPT ![a] = s]
    BY <1>5, <2>5
  <2> QED
    BY <1>1, <1>2, <1>3, <2>6 DEF Lifecycle!Advance
<1>8. CASE \E i \in 1 .. n : ~(log[a][i].at <= row.at)
  <2>1. turned
    BY <1>1, <1>4, <1>8 DEF Past, InsertEvent
  <2>2. log[a] # <<>> /\ IsLatest(a, LatestIndex(a))
    <3>1. log[a] # <<>>
      BY <1>1, <1>8
    <3> QED
      BY <3>1, LatestIsLatest
  <2>3. PICK j \in 1 .. n : j = LatestIndex(a)
    BY <1>1, <2>2 DEF IsLatest
  <2>4. \A i \in 1 .. n : Later(log[a][i], i, log[a][j], j)
    BY <1>1, <2>2, <2>3 DEF IsLatest
  <2>5. row.at < log[a][j].at
    BY <1>4, <1>8, <2>4 DEF Later
  <2>6. ASSUME NEW i \in 1 .. n + 1 PROVE Later(log'[a][i], i, log'[a][j], j)
    <3>1. CASE i \in 1 .. n
      BY <1>1, <2>4, <3>1
    <3>2. CASE i = n + 1
      BY <1>1, <2>5, <3>2 DEF Later
    <3> QED
      BY <3>1, <3>2
  <2>7. j \in 1 .. n + 1
    OBVIOUS
  <2>8. LatestIndex(a)' = j
    BY <1>1, <1>6, <2>6, <2>7, LatestIsUnique DEF LatestIndex
  <2>9. CurrentState(a)' = CurrentState(a)
    BY <1>1, <1>6, <2>2, <2>3, <2>8 DEF CurrentState
  <2> QED
    BY <1>5, <2>1, <2>9
<1> QED
  BY <1>7, <1>8

(* An event follows the matrix and the gates and takes effect, unless      *)
(* another call's event overtook its call or the clock was set back: for   *)
(* any number of operators, whatever they do at once.                      *)
THEOREM EventsFollow == RegistrySpec => EventsFollowLifecycle
<1>1. RegistryInit => Ordered
  <2>1. RegistryInit => Past /\ Fresh
    BY DEF RegistryInit, Past, Fresh, Pending
  <2> QED
    BY <2>1, TypedInit, HasLatestInit DEF Ordered
<1>2. Ordered /\ [RegistryNext]_registryVars => Ordered'
  BY TypedStep, HasLatestStep, PastStep, FreshStep DEF Ordered
<1>3. Ordered /\ Ordered' /\ [RegistryNext]_registryVars
        => [\A o \in Operator : InsertEvent(o) /\ ~raced[o] =>
              \/ Lifecycle!Advance(request[o].artifact, request[o].target, request[o].payload)
              \/ turned /\ \A a \in Artifact : UNCHANGED CurrentState(a)]_registryVars
  BY EventAdvances
<1> QED
  BY <1>1, <1>2, <1>3, PTL DEF RegistrySpec, EventsFollowLifecycle
-----------------------------------------------------------------------------
(* The broker *)


BrokersTyped ==
  /\ bpc \in [Broker -> {"down", "idle", "state", "event", "risk", "send"}]
  /\ calling \in [Broker -> {"construct", "submit", "check"}]
  /\ order \in [Broker -> Order \cup {NoOrder}]
  /\ killed \in [Broker -> BOOLEAN]
  /\ open \in [Broker -> [Order -> Nat]]
  /\ signal \in [Broker -> [Order -> Nat]]
  /\ placed \in [Broker -> Seq(Placed)]
  /\ venue \in [Broker -> SUBSET Nat]
  /\ \A b \in Broker : venue[b] \subseteq DOMAIN placed[b]
  /\ approved \in [Broker -> BOOLEAN]
  /\ deaths \in [Broker -> Nat]
  /\ \A b \in Broker : bpc[b] = "send" \/ bpc[b] = "risk" => order[b] \in Order /\ calling[b] = "submit"
  /\ \A b \in Broker : bpc[b] \in {"state", "event"} /\ calling[b] = "submit" => order[b] \in Order

LEMMA IsLiveIsBoolean == \A b \in Broker : IsLive(b) \in BOOLEAN
BY DEF IsLive

(* What an accepted order adds to the broker's list at the venue.          *)
LEMMA Accepted ==
  ASSUME BrokersTyped, NEW b \in Broker, order[b] \in Order, NEW answered \in BOOLEAN,
         Accept(b, answered)
  PROVE  \E n \in Nat, new \in Placed :
           /\ new = [id |-> order[b], process |-> deaths[b], answered |-> answered]
           /\ n = Len(placed[b])
           /\ DOMAIN placed[b] = 1 .. n /\ DOMAIN placed'[b] = 1 .. n + 1
           /\ \A t \in 1 .. n : placed'[b][t] = placed[b][t] /\ placed[b][t] \in Placed
           /\ placed'[b][n + 1] = new
           /\ placed'[b] \in Seq(Placed)
           /\ placed' \in [Broker -> Seq(Placed)]
           /\ venue' \in [Broker -> SUBSET Nat]
           /\ venue'[b] = venue[b] \cup {n + 1}
           /\ \A c \in Broker : c # b => placed'[c] = placed[c] /\ venue'[c] = venue[c]
<1> USE DEF BrokersTyped
<1>1. PICK new \in Placed : new = [id |-> order[b], process |-> deaths[b], answered |-> answered]
  BY DEF Placed
<1>2. placed[b] \in Seq(Placed) /\ Len(placed[b]) \in Nat
  OBVIOUS
<1>3. placed' = [placed EXCEPT ![b] = Append(placed[b], new)]
  BY <1>1 DEF Accept
<1>4. placed'[b] = Append(placed[b], new) /\ \A c \in Broker : c # b => placed'[c] = placed[c]
  BY <1>3
<1>5. /\ placed'[b] \in Seq(Placed)
      /\ DOMAIN placed[b] = 1 .. Len(placed[b]) /\ DOMAIN placed'[b] = 1 .. Len(placed[b]) + 1
      /\ \A t \in 1 .. Len(placed[b]) : placed'[b][t] = placed[b][t] /\ placed[b][t] \in Placed
      /\ placed'[b][Len(placed[b]) + 1] = new
  BY <1>2, <1>4
<1>6. placed' \in [Broker -> Seq(Placed)]
  BY <1>3, <1>4, <1>5
<1>7. /\ venue' \in [Broker -> SUBSET Nat] /\ venue'[b] = venue[b] \cup {Len(placed[b]) + 1}
      /\ \A c \in Broker : c # b => venue'[c] = venue[c]
  BY <1>2 DEF Accept
<1> QED
  BY <1>1, <1>2, <1>4, <1>5, <1>6, <1>7

LEMMA BrokersTypedStep == BrokersTyped /\ [BrokerNext]_vars => BrokersTyped'
<1> SUFFICES ASSUME BrokersTyped, [BrokerNext]_vars PROVE BrokersTyped'
  OBVIOUS
<1> USE BrokerAssumption DEF BrokersTyped, Leave, Enter, Outcome, IsLive, NoOrders
<1>1. ASSUME NEW b \in Broker, Construct(b) PROVE BrokersTyped'
  BY <1>1 DEF Construct
<1>2. ASSUME NEW b \in Broker, Submit(b) PROVE BrokersTyped'
  BY <1>2 DEF Submit
<1>3. ASSUME NEW b \in Broker, PassRisk(b) PROVE BrokersTyped'
  BY <1>3 DEF PassRisk
<1>4. ASSUME NEW b \in Broker, RefuseRisk(b) PROVE BrokersTyped'
  BY <1>4 DEF RefuseRisk
<1>5. ASSUME NEW b \in Broker, SendOrder(b) PROVE BrokersTyped'
  <2>1. order[b] \in Order /\ Accept(b, TRUE)
    BY <1>5 DEF SendOrder
  <2>2. PICK n \in Nat :
          /\ n = Len(placed[b])
          /\ DOMAIN placed[b] = 1 .. n /\ DOMAIN placed'[b] = 1 .. n + 1
          /\ placed' \in [Broker -> Seq(Placed)] /\ venue' \in [Broker -> SUBSET Nat]
          /\ venue'[b] = venue[b] \cup {n + 1}
          /\ \A c \in Broker : c # b => placed'[c] = placed[c] /\ venue'[c] = venue[c]
    BY <2>1, Accepted
  <2>3. ASSUME NEW c \in Broker PROVE venue'[c] \subseteq DOMAIN placed'[c]
    <3>1. CASE c = b
      <4>1. venue[b] \subseteq 1 .. n
        BY <2>2
      <4> QED
        BY <2>2, <3>1, <4>1
    <3>2. CASE c # b
      BY <2>2, <3>2
    <3> QED
      BY <3>1, <3>2
  <2>4. open' \in [Broker -> [Order -> Nat]]
    BY <1>5, <2>2 DEF SendOrder
  <2> HIDE DEF NoOrders
  <2> QED
    BY <1>5, <2>2, <2>3, <2>4 DEF SendOrder
<1>6. ASSUME NEW b \in Broker, SendRaises(b) PROVE BrokersTyped'
  <2>1. CASE Accept(b, FALSE)
    <3>1. order[b] \in Order
      BY <1>6 DEF SendRaises
    <3>2. PICK n \in Nat :
            /\ DOMAIN placed[b] = 1 .. n /\ DOMAIN placed'[b] = 1 .. n + 1
            /\ placed' \in [Broker -> Seq(Placed)] /\ venue' \in [Broker -> SUBSET Nat]
            /\ venue'[b] = venue[b] \cup {n + 1}
            /\ \A c \in Broker : c # b => placed'[c] = placed[c] /\ venue'[c] = venue[c]
      BY <2>1, <3>1, Accepted
    <3>3. ASSUME NEW c \in Broker PROVE venue'[c] \subseteq DOMAIN placed'[c]
      <4>1. CASE c = b
        <5>1. venue[b] \subseteq 1 .. n
          BY <3>2
        <5> QED
          BY <3>2, <4>1, <5>1
      <4>2. CASE c # b
        BY <3>2, <4>2
      <4> QED
        BY <4>1, <4>2
    <3> QED
      BY <1>6, <3>2, <3>3 DEF SendRaises
  <2>2. CASE UNCHANGED <<placed, venue>>
    BY <1>6, <2>2 DEF SendRaises
  <2> QED
    BY <1>6, <2>1, <2>2 DEF SendRaises
<1>7. ASSUME NEW b \in Broker, Cancel(b) PROVE BrokersTyped'
  BY <1>7 DEF Cancel
<1>8. ASSUME NEW b \in Broker, QueryOrder(b) PROVE BrokersTyped'
  BY <1>8 DEF QueryOrder
<1>9. ASSUME NEW b \in Broker, ActivateKillSwitch(b) PROVE BrokersTyped'
  BY <1>9 DEF ActivateKillSwitch, Kill
<1>10. ASSUME NEW b \in Broker, QueryState(b) PROVE BrokersTyped'
  <2>1. CASE bpc' = [bpc EXCEPT ![b] = "event"] /\ UNCHANGED <<order, killed, signal>>
    BY <1>10, <2>1 DEF QueryState
  <2>2. CASE Leave(b, Outcome(b)) /\ UNCHANGED <<killed, signal>>
    BY <1>10, <2>2 DEF QueryState
  <2>3. CASE Leave(b, "idle") /\ (Kill(b) \/ UNCHANGED <<killed, signal>>)
    <3>1. CASE Kill(b)
      <4>1. killed' \in [Broker -> BOOLEAN] /\ signal' \in [Broker -> [Order -> Nat]]
        BY <3>1 DEF Kill
      <4>2. /\ Leave(b, "idle")
            /\ UNCHANGED <<calling, open, placed, venue, approved, deaths>>
        BY <1>10, <2>3 DEF QueryState
      <4> QED
        BY <4>1, <4>2
    <3>2. CASE UNCHANGED <<killed, signal>>
      BY <1>10, <2>3, <3>2 DEF QueryState
    <3> QED
      BY <2>3, <3>1, <3>2
  <2> QED
    BY <1>10, <2>1, <2>2, <2>3 DEF QueryState
<1>11. ASSUME NEW b \in Broker, QueryEvent(b) PROVE BrokersTyped'
  BY <1>11 DEF QueryEvent
<1>12. ASSUME NEW b \in Broker, QueryFails(b) PROVE BrokersTyped'
  BY <1>12 DEF QueryFails
<1>13. ASSUME NEW b \in Broker, Check(b) PROVE BrokersTyped'
  BY <1>13 DEF Check
<1>14. ASSUME NEW b \in Broker, VenueCloses(b) PROVE BrokersTyped'
  BY <1>14 DEF VenueCloses
<1>15. ASSUME NEW b \in Broker, Restart(b) PROVE BrokersTyped'
  BY <1>15 DEF Restart
<1>16. CASE Registry
  BY <1>16 DEF Registry
<1>17. CASE UNCHANGED vars
  BY <1>17 DEF vars, registryVars, brokerVars
<1> QED
  BY <1>1, <1>2, <1>3, <1>4, <1>5, <1>6, <1>7, <1>8, <1>9, <1>10, <1>11, <1>12,
     <1>13, <1>14, <1>15, <1>16, <1>17 DEF BrokerNext, Trade, Query

(* What an order accepted at the venue is made of.                         *)
LEMMA PlacedFields ==
  ASSUME BrokersTyped, NEW b \in Broker, NEW t \in DOMAIN placed[b]
  PROVE  placed[b][t].id \in Order /\ placed[b][t].process \in Nat
<1>1. placed[b] \in Seq(Placed)
  BY DEF BrokersTyped
<1>2. placed[b][t] \in Placed
  BY <1>1
<1> QED
  BY <1>2 DEF Placed

LEMMA BrokersTypedInit == BrokerInit => BrokersTyped
BY BrokerAssumption DEF BrokerInit, BrokersTyped, NoOrders

LEMMA RegistryAlways == BrokerSpec => []Typed
<1>1. BrokerInit => Typed
  BY TypedInit DEF BrokerInit
<1>2. [BrokerNext]_vars => [RegistryNext]_registryVars
  BY DEF BrokerNext, vars, Trade, Query, Registry, Construct, Submit, PassRisk, RefuseRisk, SendOrder,
         SendRaises, Cancel, QueryOrder, ActivateKillSwitch, QueryState, QueryEvent, QueryFails,
         Check, VenueCloses, Restart
<1> QED
  BY <1>1, <1>2, TypedStep, PTL DEF BrokerSpec

(* The broker's and the registry's variables keep their types.             *)
THEOREM BrokerTypes == BrokerSpec => []TypeOK
<1>1. Typed /\ BrokersTyped => TypeOK
  BY DEF Typed, BrokersTyped, TypeOK
<1> QED
  BY <1>1, RegistryAlways, BrokersTypedInit, BrokersTypedStep, PTL DEF BrokerSpec
-----------------------------------------------------------------------------
(***************************************************************************)
(* A call that got past the first query saw the approval, and so approved  *)
(* is set; nothing clears it before the call ends.  A submission under way *)
(* was entered before the kill switch, which only an idle broker throws.   *)
(***************************************************************************)
CallGated ==
  \A b \in Broker :
    /\ bpc[b] = "state" /\ IsLive(b) => approved[b]
    /\ bpc[b] \in {"event", "risk", "send"} => approved[b]
    /\ bpc[b] \in {"state", "event", "risk", "send"} /\ calling[b] = "submit" => ~killed[b]

LEMMA LiveOnlyByRegistry ==
  ASSUME UNCHANGED registryVars, NEW b \in Broker PROVE IsLive(b)' = IsLive(b)
BY DEF registryVars, IsLive, CurrentState, LatestIndex, Later

LEMMA CallGatedStep == BrokersTyped /\ CallGated /\ [BrokerNext]_vars => CallGated'
<1> SUFFICES ASSUME BrokersTyped, CallGated, [BrokerNext]_vars PROVE CallGated'
  OBVIOUS
<1> USE DEF BrokersTyped, CallGated, Leave, Enter, Outcome
<1>l. ASSUME UNCHANGED registryVars PROVE \A b \in Broker : IsLive(b)' = IsLive(b)
  BY <1>l, LiveOnlyByRegistry
<1> USE <1>l
<1>1. ASSUME NEW b \in Broker, Construct(b) PROVE CallGated'
  BY <1>1, <1>l DEF Construct
<1>2. ASSUME NEW b \in Broker, Submit(b) PROVE CallGated'
  BY <1>2 DEF Submit
<1>3. ASSUME NEW b \in Broker, PassRisk(b) PROVE CallGated'
  BY <1>3 DEF PassRisk
<1>4. ASSUME NEW b \in Broker, RefuseRisk(b) PROVE CallGated'
  BY <1>4 DEF RefuseRisk
<1>5. ASSUME NEW b \in Broker, SendOrder(b) PROVE CallGated'
  BY <1>5 DEF SendOrder
<1>6. ASSUME NEW b \in Broker, SendRaises(b) PROVE CallGated'
  BY <1>6 DEF SendRaises
<1>7. ASSUME NEW b \in Broker, Cancel(b) PROVE CallGated'
  BY <1>7 DEF Cancel
<1>8. ASSUME NEW b \in Broker, QueryOrder(b) PROVE CallGated'
  BY <1>8 DEF QueryOrder
<1>9. ASSUME NEW b \in Broker, ActivateKillSwitch(b) PROVE CallGated'
  BY <1>9 DEF ActivateKillSwitch, Kill
<1>10. ASSUME NEW b \in Broker, QueryState(b) PROVE CallGated'
  BY <1>10 DEF QueryState, Kill
<1>11. ASSUME NEW b \in Broker, QueryEvent(b) PROVE CallGated'
  BY <1>11 DEF QueryEvent
<1>12. ASSUME NEW b \in Broker, QueryFails(b) PROVE CallGated'
  BY <1>12 DEF QueryFails
<1>13. ASSUME NEW b \in Broker, Check(b) PROVE CallGated'
  BY <1>13 DEF Check
<1>14. ASSUME NEW b \in Broker, VenueCloses(b) PROVE CallGated'
  BY <1>14 DEF VenueCloses
<1>15. ASSUME NEW b \in Broker, Restart(b) PROVE CallGated'
  BY <1>15 DEF Restart
<1>16. CASE Registry
  BY <1>16 DEF Registry
<1>17. CASE UNCHANGED vars
  BY <1>17 DEF vars, registryVars, brokerVars
<1> QED
  BY <1>1, <1>2, <1>3, <1>4, <1>5, <1>6, <1>7, <1>8, <1>9, <1>10, <1>11, <1>12,
     <1>13, <1>14, <1>15, <1>16, <1>17 DEF BrokerNext, Trade, Query

LEMMA GatedAlways == BrokerSpec => [](BrokersTyped /\ CallGated)
<1>1. BrokerInit => CallGated
  BY DEF BrokerInit, CallGated
<1> QED
  BY <1>1, BrokersTypedInit, BrokersTypedStep, CallGatedStep, PTL DEF BrokerSpec

(* Only a submission that got to the venue puts an order there.            *)
LEMMA VenueGrows ==
  ASSUME BrokersTyped, [BrokerNext]_vars, NEW b \in Broker, NewAtVenue(b)
  PROVE  bpc[b] = "send"
<1> USE DEF BrokersTyped, NewAtVenue
<1>0. venue'[b] # venue[b]
  OBVIOUS
<1>1. ASSUME NEW c \in Broker, SendOrder(c) PROVE bpc[b] = "send"
  BY <1>0, <1>1 DEF SendOrder, Accept
<1>2. ASSUME NEW c \in Broker, SendRaises(c) PROVE bpc[b] = "send"
  BY <1>0, <1>2 DEF SendRaises, Accept
<1>3. ASSUME NEW c \in Broker, Cancel(c) \/ VenueCloses(c) PROVE FALSE
  <2>1. PICK t : venue' = [venue EXCEPT ![c] = venue[c] \ {t}]
    BY <1>3 DEF Cancel, VenueCloses
  <2>2. venue'[b] \subseteq venue[b]
    BY <2>1
  <2> QED
    BY <2>2
<1> QED
  BY <1>1, <1>2, <1>3
     DEF BrokerNext, vars, brokerVars, Trade, Query, Registry, Construct, Submit, PassRisk, RefuseRisk,
         QueryOrder, ActivateKillSwitch, QueryState, QueryEvent, QueryFails, Check, Restart

(* From the kill switch on the broker's process sends nothing.             *)
THEOREM KilledSilent == BrokerSpec => KilledIsSilent
<1>1. BrokersTyped /\ CallGated /\ [BrokerNext]_vars => [\A b \in Broker : NewAtVenue(b) => ~killed[b]]_vars
  BY VenueGrows DEF CallGated, BrokersTyped
<1> QED
  BY <1>1, GatedAlways, PTL DEF BrokerSpec, KilledIsSilent

(* No order without an approval in force during the call.                  *)
THEOREM OrdersApproved == BrokerSpec => OrdersWereApproved
<1>1. BrokersTyped /\ CallGated /\ [BrokerNext]_vars => [\A b \in Broker : NewAtVenue(b) => approved[b]]_vars
  BY VenueGrows DEF CallGated, BrokersTyped
<1> QED
  BY <1>1, GatedAlways, PTL DEF BrokerSpec, OrdersWereApproved

(* A check that ends without an error and without an approval has killed.  *)
THEOREM ChecksKill == BrokerSpec => CheckKills
<1>1. ASSUME BrokersTyped, CallGated, [BrokerNext]_vars, NEW b \in Broker,
             calling[b] = "check", Query(b), bpc'[b] = "idle"
      PROVE  killed'[b] \/ approved[b]
  <2>1. CASE QueryState(b)
    BY <1>1, <2>1 DEF QueryState, Leave, Kill, BrokersTyped
  <2>2. CASE QueryEvent(b)
    BY <1>1, <2>2 DEF QueryEvent, CallGated
  <2> QED
    BY <1>1, <2>1, <2>2 DEF Query
<1>2. BrokersTyped /\ CallGated /\ [BrokerNext]_vars =>
        [\A b \in Broker : calling[b] = "check" /\ Query(b) /\ bpc'[b] = "idle"
                           => killed'[b] \/ approved[b]]_vars
  BY <1>1
<1> QED
  BY <1>2, GatedAlways, PTL DEF BrokerSpec, CheckKills
-----------------------------------------------------------------------------
(***************************************************************************)
(* The orders at the venue.  An answered order of this process was put in  *)
(* _open_orders when the answer came; what stands there under an order id  *)
(* is an order accepted under it by this process.                          *)
(***************************************************************************)
Entries ==
  \A b \in Broker : \A o \in Order : open[b][o] # 0 =>
    /\ open[b][o] \in DOMAIN placed[b]
    /\ placed[b][open[b][o]].id = o

Listed ==
  \A b \in Broker : \A t \in DOMAIN placed[b] :
    placed[b][t].process <= deaths[b]

Orders == Entries /\ Listed /\ OthersAreKnown

(* A broker whose orders, process and entries stay as they are.            *)
LEMMA OrdersOfOne ==
  ASSUME BrokersTyped, Orders, NEW b \in Broker, placed'[b] = placed[b], deaths'[b] = deaths[b],
         venue'[b] \subseteq venue[b], open'[b] = open[b]
  PROVE  /\ \A o \in Order : open'[b][o] # 0 =>
               open'[b][o] \in DOMAIN placed'[b] /\ placed'[b][open'[b][o]].id = o
         /\ \A t \in DOMAIN placed'[b] : placed'[b][t].process <= deaths'[b]
         /\ \A t \in venue'[b] : \/ Known(b, t)' \/ ~placed'[b][t].answered
                               \/ placed'[b][t].process < deaths'[b] \/ Resent(b, t)'
<1>1. \A o \in Order : open'[b][o] # 0 =>
        open'[b][o] \in DOMAIN placed'[b] /\ placed'[b][open'[b][o]].id = o
  BY DEF Orders, Entries
<1>2. \A t \in DOMAIN placed'[b] : placed'[b][t].process <= deaths'[b]
  BY DEF Orders, Listed
<1>3. ASSUME NEW t \in venue'[b]
      PROVE  \/ Known(b, t)' \/ ~placed'[b][t].answered
             \/ placed'[b][t].process < deaths'[b] \/ Resent(b, t)'
  <2>1. \/ Known(b, t) \/ ~placed[b][t].answered
        \/ placed[b][t].process < deaths[b] \/ Resent(b, t)
    BY DEF Orders, OthersAreKnown
  <2>2. Known(b, t)' = Known(b, t)
    BY DEF Known
  <2>3. Resent(b, t)' = Resent(b, t)
    BY DEF Resent
  <2> QED
    BY <2>1, <2>2, <2>3
<1> QED
  BY <1>1, <1>2, <1>3

(* An action that leaves the venue's orders and the entries alone, or      *)
(* takes orders off the venue.                                             *)
LEMMA OrdersKept ==
  ASSUME BrokersTyped, Orders, UNCHANGED <<placed, deaths, open>>,
         \A b \in Broker : venue'[b] \subseteq venue[b]
  PROVE  Orders'
<1>1. \A b \in Broker : placed'[b] = placed[b] /\ deaths'[b] = deaths[b] /\ open'[b] = open[b]
  OBVIOUS
<1>2. Entries'
  BY <1>1, OrdersOfOne DEF Entries
<1>3. Listed'
  BY <1>1, OrdersOfOne DEF Listed
<1>4. OthersAreKnown'
  BY <1>1, OrdersOfOne DEF OthersAreKnown
<1> QED
  BY <1>2, <1>3, <1>4 DEF Orders

LEMMA OrdersStep == BrokersTyped /\ Orders /\ [BrokerNext]_vars => Orders'
<1> SUFFICES ASSUME BrokersTyped, Orders, [BrokerNext]_vars PROVE Orders'
  OBVIOUS
<1>1. ASSUME NEW b \in Broker, NEW answered \in BOOLEAN, order[b] \in Order, Accept(b, answered),
             UNCHANGED deaths,
             \/ answered /\ open' = [open EXCEPT ![b][order[b]] = Len(placed[b]) + 1]
             \/ ~answered /\ UNCHANGED open
      PROVE  Orders'
  <2>1. PICK n \in Nat, new \in Placed :
          /\ new = [id |-> order[b], process |-> deaths[b], answered |-> answered]
          /\ n = Len(placed[b])
          /\ DOMAIN placed[b] = 1 .. n /\ DOMAIN placed'[b] = 1 .. n + 1
          /\ \A t \in 1 .. n : placed'[b][t] = placed[b][t] /\ placed[b][t] \in Placed
          /\ placed'[b][n + 1] = new
          /\ venue'[b] = venue[b] \cup {n + 1}
          /\ \A c \in Broker : c # b => placed'[c] = placed[c] /\ venue'[c] = venue[c]
    BY <1>1, Accepted
  <2>2. new.id = order[b] /\ new.process = deaths[b] /\ new.answered = answered
    BY <2>1
  <2>3. /\ \A c \in Broker : c # b => open'[c] = open[c]
        /\ \A o \in Order : o # order[b] => open'[b][o] = open[b][o]
        /\ answered => open'[b][order[b]] = n + 1
        /\ ~answered => open'[b][order[b]] = open[b][order[b]]
        /\ deaths' = deaths /\ deaths[b] \in Nat
    BY <1>1, <2>1 DEF BrokersTyped
  <2>4. ASSUME NEW c \in Broker, c # b
        PROVE  /\ \A o \in Order : open'[c][o] # 0 =>
                     open'[c][o] \in DOMAIN placed'[c] /\ placed'[c][open'[c][o]].id = o
               /\ \A t \in DOMAIN placed'[c] : placed'[c][t].process <= deaths'[c]
               /\ \A t \in venue'[c] : \/ Known(c, t)' \/ ~placed'[c][t].answered
                                     \/ placed'[c][t].process < deaths'[c] \/ Resent(c, t)'
    BY <2>1, <2>3, <2>4, OrdersOfOne
  <2>5. ASSUME NEW o \in Order, open'[b][o] # 0
        PROVE  open'[b][o] \in 1 .. n + 1 /\ placed'[b][open'[b][o]].id = o
    <3>1. CASE answered /\ o = order[b]
      BY <2>1, <2>2, <2>3, <3>1
    <3>2. CASE ~(answered /\ o = order[b])
      <4>1. open'[b][o] = open[b][o] /\ open[b][o] \in 1 .. n /\ placed[b][open[b][o]].id = o
        BY <2>1, <2>3, <2>5, <3>2 DEF Orders, Entries
      <4> QED
        BY <2>1, <4>1
    <3> QED
      BY <3>1, <3>2
  <2>6. ASSUME NEW t \in 1 .. n + 1 PROVE placed'[b][t].process <= deaths'[b]
    <3>1. CASE t = n + 1
      BY <2>1, <2>2, <2>3, <3>1
    <3>2. CASE t \in 1 .. n
      BY <2>1, <2>3, <3>2 DEF Orders, Listed
    <3> QED
      BY <3>1, <3>2
  <2>7. ASSUME NEW t \in venue'[b]
        PROVE  \/ Known(b, t)' \/ ~placed'[b][t].answered
               \/ placed'[b][t].process < deaths'[b] \/ Resent(b, t)'
    <3>1. CASE t = n + 1
      BY <2>1, <2>2, <2>3, <3>1 DEF Known
    <3>2. CASE t # n + 1
      <4>1. t \in venue[b] /\ t \in 1 .. n /\ placed'[b][t] = placed[b][t]
        BY <2>1, <2>7, <3>2 DEF BrokersTyped
      <4>2. CASE answered /\ placed[b][t].id = order[b]
        <5>1. t < n + 1 /\ n + 1 \in DOMAIN placed'[b]
          BY <2>1, <4>1
        <5>2. placed'[b][n + 1].id = placed'[b][t].id
          BY <2>1, <2>2, <4>1, <4>2
        <5>3. placed'[b][n + 1].process = deaths'[b] /\ placed'[b][n + 1].answered
          BY <2>1, <2>2, <2>3, <4>2
        <5> QED
          BY <5>1, <5>2, <5>3 DEF Resent
      <4>3. CASE ~(answered /\ placed[b][t].id = order[b])
        <5>1. placed[b][t].id \in Order
          BY <2>1, <4>1 DEF Placed
        <5>2. open'[b][placed[b][t].id] = open[b][placed[b][t].id]
          BY <2>3, <4>3, <5>1
        <5>3. \/ Known(b, t) \/ ~placed[b][t].answered
              \/ placed[b][t].process < deaths[b] \/ Resent(b, t)
          BY <4>1 DEF Orders, OthersAreKnown
        <5>4. Known(b, t) => Known(b, t)'
          BY <4>1, <5>2 DEF Known
        <5>5. ASSUME Resent(b, t) PROVE Resent(b, t)'
          <6>1. PICK u \in 1 .. n : /\ t < u /\ placed[b][u].id = placed[b][t].id
                                   /\ placed[b][u].process = deaths[b] /\ placed[b][u].answered
            BY <2>1, <5>5 DEF Resent
          <6>2. u \in DOMAIN placed'[b] /\ placed'[b][u] = placed[b][u]
            BY <2>1
          <6> QED
            BY <2>3, <4>1, <6>1, <6>2 DEF Resent
        <5> QED
          BY <2>3, <4>1, <5>3, <5>4, <5>5
      <4> QED
        BY <4>2, <4>3
    <3> QED
      BY <3>1, <3>2
  <2>8. Entries'
    BY <2>1, <2>4, <2>5 DEF Entries
  <2>9. Listed'
    BY <2>1, <2>4, <2>6 DEF Listed
  <2>10. OthersAreKnown'
    BY <2>4, <2>7 DEF OthersAreKnown
  <2> QED
    BY <2>8, <2>9, <2>10 DEF Orders
<1>2. ASSUME NEW b \in Broker, SendOrder(b) PROVE Orders'
  BY <1>1, <1>2 DEF SendOrder, BrokersTyped
<1>3. ASSUME NEW b \in Broker, SendRaises(b) PROVE Orders'
  <2>1. CASE Accept(b, FALSE)
    BY <1>1, <1>3, <2>1 DEF SendRaises, BrokersTyped
  <2>2. CASE UNCHANGED <<placed, venue>>
    BY <1>3, <2>2, OrdersKept DEF SendRaises
  <2> QED
    BY <1>3, <2>1, <2>2 DEF SendRaises
<1>4. ASSUME NEW b \in Broker, Cancel(b) \/ VenueCloses(b) PROVE Orders'
  <2>1. \A c \in Broker : venue'[c] \subseteq venue[c]
    <3>1. PICK t : venue' = [venue EXCEPT ![b] = venue[b] \ {t}]
      BY <1>4 DEF Cancel, VenueCloses
    <3> QED
      BY <3>1 DEF BrokersTyped
  <2> QED
    BY <1>4, <2>1, OrdersKept DEF Cancel, VenueCloses
<1>5. ASSUME NEW b \in Broker, QueryOrder(b) PROVE Orders'
  <2>1. PICK o \in Order : /\ open[b][o] # 0 /\ open[b][o] \notin venue[b]
                          /\ open' = [open EXCEPT ![b][o] = 0]
    BY <1>5 DEF QueryOrder
  <2>2. UNCHANGED <<placed, venue, deaths>>
    BY <1>5 DEF QueryOrder
  <2>3. /\ \A c \in Broker : c # b => open'[c] = open[c]
        /\ \A x \in Order : x # o => open'[b][x] = open[b][x]
        /\ open'[b][o] = 0
    BY <2>1 DEF BrokersTyped
  <2>4. ASSUME NEW c \in Broker, NEW t \in venue[c], Known(c, t) PROVE Known(c, t)'
    <3>1. t \in DOMAIN placed[c]
      BY DEF BrokersTyped
    <3>2. placed[c][t].id \in Order
      BY <3>1, PlacedFields
    <3> QED
      BY <2>1, <2>2, <2>3, <2>4, <3>2 DEF Known
  <2>5. Entries' /\ Listed'
    BY <2>2, <2>3 DEF Orders, Entries, Listed
  <2>6. \A c \in Broker : \A t \in venue[c] : Resent(c, t)' = Resent(c, t)
    BY <2>2 DEF Resent
  <2>7. OthersAreKnown'
    BY <2>2, <2>4, <2>6 DEF Orders, OthersAreKnown
  <2> QED
    BY <2>5, <2>7 DEF Orders
<1>6. ASSUME NEW b \in Broker, Restart(b) PROVE Orders'
  <2>1. /\ UNCHANGED <<placed, venue>>
        /\ \A c \in Broker : c # b => open'[c] = open[c] /\ deaths'[c] = deaths[c]
        /\ deaths'[b] = deaths[b] + 1 /\ deaths[b] \in Nat
        /\ \A o \in Order : open'[b][o] = 0
    BY <1>6 DEF Restart, BrokersTyped, NoOrders
  <2>2. ASSUME NEW c \in Broker, c # b
        PROVE  /\ \A o \in Order : open'[c][o] # 0 =>
                     open'[c][o] \in DOMAIN placed'[c] /\ placed'[c][open'[c][o]].id = o
               /\ \A t \in DOMAIN placed'[c] : placed'[c][t].process <= deaths'[c]
               /\ \A t \in venue'[c] : \/ Known(c, t)' \/ ~placed'[c][t].answered
                                     \/ placed'[c][t].process < deaths'[c] \/ Resent(c, t)'
    BY <2>1, <2>2, OrdersOfOne
  <2>3. ASSUME NEW t \in DOMAIN placed[b] PROVE placed[b][t].process < deaths'[b]
    <3>1. placed[b][t].process \in Nat
      BY PlacedFields
    <3>2. placed[b][t].process <= deaths[b]
      BY DEF Orders, Listed
    <3> QED
      BY <2>1, <3>1, <3>2
  <2>4. \A t \in DOMAIN placed[b] : placed[b][t].process <= deaths'[b]
    <3>1. \A t \in DOMAIN placed[b] : placed[b][t].process \in Nat
      BY PlacedFields
    <3> QED
      BY <2>1, <2>3, <3>1
  <2>5. Entries' /\ Listed'
    BY <2>1, <2>2, <2>4 DEF Entries, Listed
  <2>6. OthersAreKnown'
    BY <2>1, <2>2, <2>3 DEF OthersAreKnown, BrokersTyped
  <2> QED
    BY <2>5, <2>6 DEF Orders
<1>7. ASSUME UNCHANGED <<placed, venue, deaths, open>> PROVE Orders'
  BY <1>7, OrdersKept
<1> QED
  BY <1>2, <1>3, <1>4, <1>5, <1>6, <1>7
     DEF BrokerNext, vars, brokerVars, Trade, Query, Registry, Construct, Submit, PassRisk, RefuseRisk,
         ActivateKillSwitch, QueryState, QueryEvent, QueryFails, Check

(* Only a lost answer, a restart or a second submission under one order id *)
(* keeps a live order out of _open_orders.                                 *)
THEOREM OthersKnown == BrokerSpec => []OthersAreKnown
<1>1. BrokerInit => Orders
  BY BrokerAssumption DEF BrokerInit, Orders, Entries, Listed, OthersAreKnown, NoOrders
<1> QED
  BY <1>1, BrokersTypedInit, BrokersTypedStep, OrdersStep, PTL DEF BrokerSpec, Orders
=============================================================================
