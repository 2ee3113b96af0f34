---------------------------- MODULE ChargeLedger ----------------------------
(***************************************************************************)
(* What the Coinalyze budget of the harmonic acquisition promises: a       *)
(* request pays for its body before it completes, a refund ends an         *)
(* unfinished payment only, and payments never exceed the ceiling.         *)
(***************************************************************************)
EXTENDS Naturals

CONSTANTS
  Identity,  \* planned requests
  Content,   \* response bodies, by digest
  Size,      \* bytes of a body
  Ceiling,   \* bytes the accepted allocation funds
  None       \* absence of a body, a request or a charge

VARIABLES spent, paid, completed

Init ==
  /\ spent = 0
  /\ paid = [i \in Identity |-> None]
  /\ completed = [i \in Identity |-> None]

Pay(i, c) ==
  /\ paid[i] = None
  /\ completed[i] = None
  /\ spent + Size[c] <= Ceiling
  /\ spent' = spent + Size[c]
  /\ paid' = [paid EXCEPT ![i] = c]
  /\ UNCHANGED completed

Refund(i) ==
  /\ paid[i] # None
  /\ completed[i] = None
  /\ spent' = spent - Size[paid[i]]
  /\ paid' = [paid EXCEPT ![i] = None]
  /\ UNCHANGED completed

Complete(i) ==
  /\ paid[i] # None
  /\ completed' = [completed EXCEPT ![i] = paid[i]]
  /\ UNCHANGED <<spent, paid>>

Next == \E i \in Identity : Refund(i) \/ Complete(i) \/ \E c \in Content : Pay(i, c)

Spec == Init /\ [][Next]_<<spent, paid, completed>>
=============================================================================
