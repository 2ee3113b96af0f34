---------------------------- MODULE ReceiptChain ----------------------------
(***************************************************************************)
(* What the receipts of the harmonic acquisition promise: every sealed run *)
(* covers exactly the facts recorded since the run sealed before it.       *)
(***************************************************************************)
EXTENDS Naturals, Sequences

VARIABLES
  recorded,  \* facts in the state, by kind
  chain      \* what each sealed run covers, oldest first

Marks == [attempts : Nat, facts : Nat]
Zero == [attempts |-> 0, facts |-> 0]
Below(m, n) == m.attempts <= n.attempts /\ m.facts <= n.facts
LastMark == IF chain = <<>> THEN Zero ELSE chain[Len(chain)].to

Init == recorded = Zero /\ chain = <<>>

Record ==
  /\ recorded' \in Marks
  /\ Below(recorded, recorded')
  /\ UNCHANGED chain

Seal ==
  /\ \E m \in [attempts : 0..recorded.attempts, facts : 0..recorded.facts] :
       Below(LastMark, m) /\ chain' = Append(chain, [from |-> LastMark, to |-> m])
  /\ UNCHANGED recorded

Next == Record \/ Seal

Spec == Init /\ [][Next]_<<recorded, chain>>
=============================================================================
