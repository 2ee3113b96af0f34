---------------------------- MODULE Harmonic_proofs ----------------------------
(***************************************************************************)
(* Theorems about HarmonicRuns, for any number of threads, plan rows and   *)
(* processes and any capacity of the queue, and about HarmonicCharges, for *)
(* any number of workers, requests, contents and runs and any ceiling.     *)
(*                                                                         *)
(* Runs: they are sealed in the order they were begun (Sealing), each      *)
(* starts where the one before it ends (Rows), and Points says how far the *)
(* publication is at each point of the main thread.                        *)
(*                                                                         *)
(* Charges: they change in the five transactions only (Transaction).  The  *)
(* rest of the invariant says that a call of a worker, a queued request    *)
(* and the reconciliation name a request and, where they reserve, a        *)
(* content.                                                                *)
(***************************************************************************)
EXTENDS HarmonicCharges, HarmonicRuns, Qualification, Sums

(* The runs.                                                               *)

InRun == {"prepare", "feed", "pills", "join", "count", "finish"}
Publishing == {"receipt", "locator", "fill", "seal", "head"}

Started == Len(run)
Seals == Len(seals)
EndOf(r) == IF r = 0 THEN Zero ELSE run[r].end

Rows ==
  /\ \A r \in 1..Started :
       /\ run[r].start = EndOf(r - 1)
       /\ Chain!Below(run[r].start, run[r].end)
       /\ Chain!Below(run[r].end, recorded)
       /\ run[r].ended => run[r].pred = r - 1
  /\ \A r \in 1..Seals : run[r].ended

Sealing ==
  /\ \A k \in 1..Seals : seals[k] = k /\ k \in receipts /\ locator[k] = "written"
  /\ Started \in {Seals, Seals + 1}
  /\ head \in {Seals, Seals - 1}
  /\ head # Seals => Started = Seals

Points ==
  /\ main \in Publishing =>
       /\ target = Started /\ target # 0 /\ run[target].ended /\ head = target - 1
       /\ after \in {"recover_run", "begin", "exit"}
  /\ main \in {"locator", "fill", "seal", "head"} => target \in receipts
  /\ main = "fill" => locator[target] = "empty"
  /\ main \in {"seal", "head"} => locator[target] = "written"
  /\ main = "head" => Seals = target
  /\ main = "recover_run" => head = Seals /\ (Started = Seals \/ ~run[Started].ended)
  /\ main = "begin" => head = Seals /\ Started = Seals
  /\ main \in InRun => head = Seals /\ Started = Seals + 1 /\ ~run[Started].ended

(* One process starts one run at most.                                     *)
StartsLeft ==
  /\ Started <= starts /\ starts <= MaxStarts
  /\ (main \in {"recover_head", "recover_run", "begin"} \/ (main \in Publishing /\ after # "exit"))
       => Started < starts

ChainInv == Rows /\ Sealing /\ Points /\ StartsLeft
RunsInv == RunsTypeOK /\ ChainInv

-----------------------------------------------------------------------------
LEMMA Update ==
  ASSUME NEW S, NEW s \in Seq(S), NEW i \in 1..Len(s), NEW e \in S
  PROVE  /\ [s EXCEPT ![i] = e] \in Seq(S)
         /\ Len([s EXCEPT ![i] = e]) = Len(s)
         /\ [s EXCEPT ![i] = e][i] = e
         /\ \A j \in 1..Len(s) : j # i => [s EXCEPT ![i] = e][j] = s[j]
OBVIOUS

LEMMA Extend ==
  ASSUME NEW S, NEW s \in Seq(S), NEW e \in S
  PROVE  /\ Append(s, e) \in Seq(S)
         /\ Len(Append(s, e)) = Len(s) + 1
         /\ Append(s, e)[Len(s) + 1] = e
         /\ \A j \in 1..Len(s) : Append(s, e)[j] = s[j]
OBVIOUS

(* A set within a singleton has one element at most.                       *)
LEMMA AtMostOne ==
  ASSUME NEW S, NEW a, S \subseteq {a}
  PROVE  Cardinality(S) \in {0, 1}
<1>1. IsFiniteSet({a}) /\ Cardinality({a}) = 1
  BY FS_Singleton
<1>2. IsFiniteSet(S) /\ Cardinality(S) <= 1
  BY <1>1, FS_Subset
<1>3. Cardinality(S) \in Nat
  BY <1>2, FS_CardinalityType
<1> QED
  BY <1>2, <1>3

(* The rows and the marks are what the types say.                          *)
LEMMA Shapes ==
  ASSUME RunsTypeOK
  PROVE  /\ Started \in Nat /\ DOMAIN run = 1..Started
         /\ Seals \in Nat /\ DOMAIN seals = 1..Seals
         /\ \A r \in 1..Started : run[r] \in Run
         /\ \A k \in 1..Seals : seals[k] \in Nat
         /\ recorded.attempts \in Nat /\ recorded.facts \in Nat
<1>1. run \in Seq(Run) /\ seals \in Seq(Nat) /\ recorded \in Chain!Marks
  BY DEF RunsTypeOK
<1>2. Started \in Nat /\ DOMAIN run = 1..Started /\ \A r \in 1..Started : run[r] \in Run
  BY <1>1 DEF Started
<1>3. Seals \in Nat /\ DOMAIN seals = 1..Seals /\ \A k \in 1..Seals : seals[k] \in Nat
  BY <1>1 DEF Seals
<1>4. recorded.attempts \in Nat /\ recorded.facts \in Nat
  BY <1>1 DEF Chain!Marks
<1> QED
  BY <1>2, <1>3, <1>4

(* What Sealing makes of the sets the recovery looks at: the sealed runs   *)
(* are the first ones, and only the last run can be unfinished or unsealed. *)
LEMMA Outstanding ==
  ASSUME RunsInv
  PROVE  /\ Sealed = 1..Seals
         /\ LastSeal = Seals
         /\ Unfinished \cup Unsealed \subseteq {Started}
         /\ Unfinished = {} <=> (Started = Seals \/ run[Started].ended)
         /\ Unsealed = {} <=> (Started = Seals \/ ~run[Started].ended)
         /\ Cardinality(Unfinished) \in {0, 1} /\ Cardinality(Unsealed) \in {0, 1}
         /\ Cardinality(Unfinished \cup Unsealed) \in {0, 1}
<1>1. /\ Started \in Nat /\ DOMAIN run = 1..Started
      /\ Seals \in Nat /\ DOMAIN seals = 1..Seals
  BY Shapes DEF RunsInv
<1>2. /\ \A k \in 1..Seals : seals[k] = k
      /\ Started \in {Seals, Seals + 1}
      /\ \A r \in 1..Seals : run[r].ended
  BY DEF RunsInv, ChainInv, Sealing, Rows
<1>3. Sealed = 1..Seals
  BY <1>1, <1>2 DEF Sealed
<1>4. LastSeal = Seals
  <2>1. CASE seals = <<>>
    BY <2>1 DEF LastSeal, Seals
  <2>2. CASE seals # <<>>
    <3>1. Seals # 0
      BY <2>2 DEF Seals, RunsInv, RunsTypeOK
    <3>2. seals[Seals] = Seals
      BY <1>1, <1>2, <3>1
    <3> QED
      BY <2>2, <3>2 DEF LastSeal, Seals
  <2> QED
    BY <2>1, <2>2
<1>5. \A r \in 1..Started : r # Started => r \in 1..Seals
  BY <1>1, <1>2
<1>6. Unfinished \subseteq {Started}
  BY <1>1, <1>2, <1>5 DEF Unfinished
<1>7. Unsealed \subseteq {Started}
  BY <1>1, <1>3, <1>5 DEF Unsealed
<1>8. Started # Seals => Started \in DOMAIN run /\ Started \notin Sealed
  BY <1>1, <1>2, <1>3
<1>9. Started = Seals => Started \notin Unfinished /\ Started \notin Unsealed
  BY <1>1, <1>2, <1>3 DEF Unfinished, Unsealed
<1>10. Unfinished = {} <=> (Started = Seals \/ run[Started].ended)
  BY <1>6, <1>8, <1>9 DEF Unfinished
<1>11. Unsealed = {} <=> (Started = Seals \/ ~run[Started].ended)
  BY <1>7, <1>8, <1>9 DEF Unsealed
<1>12. Unfinished \cup Unsealed \subseteq {Started}
  BY <1>6, <1>7
<1> QED
  BY <1>3, <1>4, <1>6, <1>7, <1>10, <1>11, <1>12, AtMostOne

-----------------------------------------------------------------------------
(* A step that seals nothing and leaves the sealed runs alone leaves what  *)
(* the chain covers.                                                       *)
LEMMA SameCover ==
  ASSUME UNCHANGED seals, \A k \in 1..Len(seals) : run'[seals[k]] = run[seals[k]]
  PROVE  Covered' = Covered
BY DEF Covered

(* Facts may be recorded and the process may move within its run, exit or  *)
(* die, and everything published stays as it is.                           *)
LEMMA QuietRunsStep ==
  ASSUME RunsInv,
         recorded' \in Chain!Marks, Chain!Below(recorded, recorded'),
         UNCHANGED <<run, receipts, locator, seals, head, starts>>,
         \/ UNCHANGED mainVars
         \/ main \in InRun /\ main' \in InRun
         \/ main' \in {"down", "exit"}
  PROVE  ChainInv' /\ [Chain!Next]_<<recorded, Covered>>
<1> USE DEF RunsInv, ChainInv
<1>1. /\ Started \in Nat /\ Seals \in Nat
      /\ recorded.attempts \in Nat /\ recorded.facts \in Nat
      /\ recorded'.attempts \in Nat /\ recorded'.facts \in Nat
      /\ \A r \in 1..Started : run[r].end.attempts \in Nat /\ run[r].end.facts \in Nat
  BY Shapes DEF Run, Chain!Marks
<1>2. Started' = Started /\ Seals' = Seals /\ \A r \in 0..Started : EndOf(r)' = EndOf(r)
  BY DEF Started, Seals, EndOf
<1>3. Rows'
  <2>1. \A r \in 1..Started : Chain!Below(run[r].end, recorded')
    BY <1>1 DEF Rows, Chain!Below
  <2>2. \A r \in 1..Started : run[r].start = EndOf(r - 1)'
    BY <1>1, <1>2 DEF Rows
  <2> QED
    BY <1>2, <2>1, <2>2 DEF Rows, Chain!Below
<1>4. Sealing'
  BY <1>2 DEF Sealing
<1>5. Points' /\ StartsLeft'
  BY <1>2 DEF Points, StartsLeft, InRun, Publishing, mainVars
<1>6. Covered' = Covered
  BY SameCover
<1>7. Chain!Record \/ UNCHANGED <<recorded, Covered>>
  BY <1>6 DEF Chain!Record
<1> QED
  BY <1>3, <1>4, <1>5, <1>7 DEF Chain!Next

(* The steps of a publication before the seal.                             *)
LEMMA SameRows ==
  ASSUME RunsInv, UNCHANGED <<recorded, run, seals>>
  PROVE  /\ Rows' /\ Covered' = Covered
         /\ Started' = Started /\ Seals' = Seals
         /\ Started \in Nat /\ Seals \in Nat
BY Shapes DEF RunsInv, ChainInv, Rows, Started, Seals, EndOf, Covered

LEMMA BindStep ==
  ASSUME RunsInv, Bind
  PROVE  ChainInv' /\ UNCHANGED <<recorded, Covered>>
<1> USE DEF RunsInv, ChainInv
<1>1. /\ Rows' /\ Covered' = Covered /\ Started' = Started /\ Seals' = Seals
      /\ Started \in Nat /\ starts \in Nat /\ MaxStarts \in Nat
  BY SameRows, RunAssumption DEF Bind, chainVars, RunsTypeOK
<1>2. Sealing' /\ Points' /\ StartsLeft'
  BY <1>1 DEF Bind, Move, chainVars, Sealing, Points, StartsLeft, InRun, Publishing
<1> QED
  BY <1>1, <1>2 DEF Bind, chainVars

(* Whoever recovers finds the head authentic and one run to publish at     *)
(* most, so it is not refused.                                             *)
LEMMA RecoverHeadStep ==
  ASSUME RunsInv, RecoverHead
  PROVE  /\ ChainInv' /\ UNCHANGED <<recorded, Covered>>
         /\ refused' = refused
<1> USE DEF RunsInv, ChainInv
<1>1. /\ Started \in Nat /\ Seals \in Nat
      /\ Started \in {Seals, Seals + 1}
      /\ head \in Nat /\ head \in {Seals, Seals - 1} /\ (head # Seals => Started = Seals)
      /\ \A k \in 1..Seals : k \in receipts /\ run[k].ended
  BY Shapes DEF Sealing, Rows, RunsTypeOK
<1>2. /\ Sealed = 1..Seals /\ LastSeal = Seals
      /\ Unsealed \subseteq {Started}
      /\ Unsealed = {} <=> (Started = Seals \/ ~run[Started].ended)
      /\ Cardinality(Unsealed) \in {0, 1}
  BY Outstanding
<1>3. Authentic
  BY <1>1, <1>2 DEF Authentic
<1>4. /\ main = "recover_head" /\ UNCHANGED <<chainVars, starts, refused>>
      /\ IF Unsealed # {} THEN \E r \in Unsealed : BeginPublication(r, "recover_run")
         ELSE IF head = LastSeal THEN Move("recover_run")
         ELSE BeginPublication(LastSeal, "recover_run")
  BY <1>2, <1>3 DEF RecoverHead
<1>5. /\ Rows' /\ Covered' = Covered /\ Started' = Started /\ Seals' = Seals
  BY <1>4, SameRows DEF chainVars
<1>6. Sealing' /\ StartsLeft'
  <2>1. main' \in {"receipt", "recover_run"} /\ (main' = "receipt" => after' = "recover_run")
    BY <1>4 DEF BeginPublication, Move
  <2> QED
    BY <1>4, <1>5, <2>1 DEF chainVars, Sealing, StartsLeft, Publishing
<1>7. Points'
  <2>1. CASE Unsealed # {}
    <3>1. BeginPublication(Started, "recover_run") /\ Started = Seals + 1 /\ run[Started].ended
      BY <1>1, <1>2, <1>4, <2>1
    <3> QED
      BY <1>1, <1>4, <1>5, <3>1 DEF Points, BeginPublication, chainVars, InRun, Publishing
  <2>2. CASE Unsealed = {} /\ head = Seals
    BY <1>1, <1>2, <1>4, <1>5, <2>2 DEF Points, Move, chainVars, InRun, Publishing
  <2>3. CASE Unsealed = {} /\ head # Seals
    <3>1. BeginPublication(Seals, "recover_run") /\ Started = Seals /\ Seals # 0 /\ head = Seals - 1
      BY <1>1, <1>2, <1>4, <2>3
    <3> QED
      BY <1>1, <1>4, <1>5, <3>1 DEF Points, BeginPublication, chainVars, InRun, Publishing
  <2> QED
    BY <2>1, <2>2, <2>3
<1> QED
  BY <1>4, <1>5, <1>6, <1>7 DEF chainVars

LEMMA PublicationStep ==
  ASSUME RunsInv, PublishReceipt \/ CreateLocator \/ FillLocator \/ FillFails
  PROVE  ChainInv' /\ UNCHANGED <<recorded, Covered>>
<1> USE DEF RunsInv, ChainInv
<1>1. /\ UNCHANGED <<recorded, run, seals, head, starts>>
      /\ UNCHANGED <<after, target>> \/ main' = "down"
  BY DEF PublishReceipt, CreateLocator, FillLocator, FillFails, Move, Exit
<1>2. /\ Rows' /\ Covered' = Covered /\ Started' = Started /\ Seals' = Seals
      /\ Started \in Nat /\ Seals \in Nat /\ Started \in {Seals, Seals + 1}
      /\ starts \in Nat /\ MaxStarts \in Nat
  BY <1>1, SameRows, RunAssumption DEF Sealing, RunsTypeOK
<1>3. main \in Publishing /\ target = Started /\ target # 0
  BY DEF Points, Publishing, PublishReceipt, CreateLocator, FillLocator, FillFails
<1>4. target \in 1..MaxStarts /\ locator \in [1..MaxStarts -> {"absent", "empty", "written"}]
  BY <1>2, <1>3 DEF StartsLeft, RunsTypeOK
<1>5. main' \in Publishing \cup {"down"} /\ main' # "head"
  BY DEF Publishing, PublishReceipt, CreateLocator, FillLocator, FillFails, Move, Exit
<1>6. StartsLeft'
  BY <1>1, <1>2, <1>3, <1>5 DEF StartsLeft, Publishing
<1>7. \A k \in 1..Seals : k \in receipts' /\ locator'[k] = "written"
  <2>1. CASE PublishReceipt
    BY <2>1 DEF PublishReceipt, Sealing
  <2>2. CASE CreateLocator \/ FillLocator
    BY <1>2, <1>4, <2>2 DEF CreateLocator, FillLocator, Sealing, StartsLeft
  <2>3. CASE FillFails
    BY <1>2, <1>4, <2>3 DEF FillFails, Sealing, Points
  <2> QED
    BY <2>1, <2>2, <2>3
<1>8. Sealing'
  BY <1>1, <1>2, <1>7 DEF Sealing
<1>9. Points'
  <2>1. CASE PublishReceipt
    BY <1>1, <1>2, <1>3, <2>1 DEF PublishReceipt, Move, Points, Publishing, InRun
  <2>2. CASE CreateLocator
    BY <1>1, <1>2, <1>3, <1>4, <2>2 DEF CreateLocator, Move, Points, Publishing, InRun
  <2>3. CASE FillLocator
    BY <1>1, <1>2, <1>3, <1>4, <2>3 DEF FillLocator, Move, Points, Publishing, InRun
  <2>4. CASE FillFails
    BY <2>4 DEF FillFails, Exit, Points, Publishing, InRun
  <2> QED
    BY <2>1, <2>2, <2>3, <2>4
<1> QED
  BY <1>1, <1>2, <1>6, <1>8, <1>9

LEMMA AdvanceHeadStep ==
  ASSUME RunsInv, AdvanceHead
  PROVE  /\ ChainInv' /\ UNCHANGED <<recorded, Covered>>
         /\ refused' = refused
<1> USE DEF RunsInv, ChainInv
<1>1. /\ main = "head" /\ target = Started /\ target # 0 /\ Seals = target
      /\ run[target].ended /\ head = target - 1
      /\ after \in {"recover_run", "begin", "exit"}
  BY DEF AdvanceHead, Points, Publishing
<1>2. run[target].pred = target - 1
  BY <1>1, Shapes DEF Rows
<1>3. /\ head' = target /\ Move(after)
      /\ UNCHANGED <<recorded, run, receipts, locator, seals, refused, starts>>
  BY <1>1, <1>2 DEF AdvanceHead
<1>4. /\ Rows' /\ Covered' = Covered /\ Started' = Started /\ Seals' = Seals
      /\ Started \in Nat /\ Seals \in Nat
  BY <1>3, SameRows
<1>5. Sealing' /\ Points' /\ StartsLeft'
  BY <1>1, <1>3, <1>4 DEF Sealing, Points, StartsLeft, Move, Publishing, InRun
<1> QED
  BY <1>3, <1>4, <1>5

(* complete_publication seals the last run, which starts where the run     *)
(* sealed before it ends.                                                  *)
LEMMA InsertSealStep ==
  ASSUME RunsInv, InsertSeal
  PROVE  ChainInv' /\ [Chain!Next]_<<recorded, Covered>>
<1> USE DEF RunsInv, ChainInv
<1>1. /\ main = "seal" /\ target = Started /\ target # 0
      /\ run[target].ended /\ head = target - 1
      /\ target \in receipts /\ locator[target] = "written"
      /\ after \in {"recover_run", "begin", "exit"}
  BY DEF InsertSeal, Points, Publishing
<1>2. /\ Move("head") /\ UNCHANGED <<recorded, run, receipts, locator, head, starts>>
      /\ seals' = IF target \in Sealed THEN seals ELSE Append(seals, target)
  BY DEF InsertSeal
<1>3. /\ Started \in Nat /\ Seals \in Nat /\ seals \in Seq(Nat)
      /\ DOMAIN run = 1..Started /\ target \in Nat
      /\ \A r \in 1..Started : run[r] \in Run
      /\ Sealed = 1..Seals /\ LastSeal = Seals
      /\ Started \in {Seals, Seals + 1} /\ \A j \in 1..Seals : seals[j] = j
  BY Shapes, Outstanding DEF RunsTypeOK, Sealing
<1>4. CASE target \in Sealed
  <2>1. Seals = target /\ UNCHANGED seals
    BY <1>1, <1>2, <1>3, <1>4
  <2>2. Rows' /\ Covered' = Covered /\ Started' = Started /\ Seals' = Seals
    BY <1>2, <2>1, SameRows
  <2>3. Sealing' /\ Points' /\ StartsLeft'
    BY <1>1, <1>2, <2>1, <2>2 DEF Sealing, Points, StartsLeft, Move, Publishing, InRun
  <2> QED
    BY <1>2, <2>2, <2>3
<1>5. CASE target \notin Sealed
  <2>1. seals' = Append(seals, target) /\ Seals = target - 1
    BY <1>1, <1>2, <1>3, <1>5
  <2>2. /\ Seals' = target /\ Started' = Started /\ seals'[target] = target
        /\ \A j \in 1..Seals : seals'[j] = j
    <3>1. /\ Len(Append(seals, target)) = Len(seals) + 1
          /\ Append(seals, target)[Len(seals) + 1] = target
          /\ \A j \in 1..Len(seals) : Append(seals, target)[j] = seals[j]
      BY <1>3, Extend
    <3>2. Seals' = Seals + 1 /\ Started' = Started
      BY <1>2, <2>1, <3>1 DEF Seals, Started
    <3>3. Seals + 1 = target
      BY <1>3, <2>1
    <3> QED
      BY <1>3, <2>1, <3>1, <3>2, <3>3 DEF Seals
  <2>3. Rows'
    <3>1. run' = run /\ recorded' = recorded /\ Started' = Started /\ Zero' = Zero
      BY <1>2, <2>2 DEF Zero
    <3>2. \A r \in 1..Started :
            /\ run[r].start = EndOf(r - 1)
            /\ Chain!Below(run[r].start, run[r].end)
            /\ Chain!Below(run[r].end, recorded)
            /\ run[r].ended => run[r].pred = r - 1
      BY <1>1 DEF Rows
    <3>3. \A r \in 1..Seals' : run'[r].ended
      <4>1. \A r \in 1..Seals : run[r].ended
        BY <1>1 DEF Rows
      <4>2. \A r \in 1..Seals' : r \in 1..Seals \/ r = target
        BY <1>3, <2>1, <2>2
      <4> QED
        BY <1>1, <3>1, <4>1, <4>2
    <3> QED
      BY <3>1, <3>2, <3>3 DEF Rows, EndOf
  <2>4. Sealing' /\ Points' /\ StartsLeft'
    BY <1>1, <1>2, <1>3, <2>1, <2>2 DEF Sealing, Points, StartsLeft, Move, Publishing, InRun
  <2> DEFINE t == run[target].end
             e == [from |-> run[target].start, to |-> t]
  <2>5. Covered' = Append(Covered, e)
    <3>1. Len(Covered) = Seals /\ DOMAIN Covered = 1..Seals
      BY <1>3 DEF Covered, Seals
    <3>2. Covered' = [j \in 1..Seals + 1 |-> IF j <= Seals THEN Covered[j] ELSE e]
      BY <1>2, <1>3, <2>1, <2>2 DEF Covered, Seals
    <3>3. Append(Covered, e) = [j \in 1..Seals + 1 |-> IF j <= Seals THEN Covered[j] ELSE e]
      <4>1. Covered \in Seq({Covered[j] : j \in 1..Seals})
        BY <1>3 DEF Covered, Seals
      <4> QED
        BY <3>1, <4>1
    <3> QED
      BY <3>2, <3>3
  <2>6. run[target].start = Chain!LastMark
    <3>1. run[target].start = EndOf(Seals)
      BY <1>1, <1>3, <2>1 DEF Rows
    <3>2. CASE Seals = 0
      BY <3>1, <3>2 DEF Covered, Seals, Chain!LastMark, EndOf, Zero, Chain!Zero
    <3>3. CASE Seals # 0
      <4>1. Covered # <<>> /\ Len(Covered) = Seals
        BY <1>3, <3>3 DEF Covered, Seals
      <4>2. Covered[Seals].to = run[Seals].end
        BY <1>3, <3>3 DEF Covered, Seals
      <4> QED
        BY <3>1, <3>3, <4>1, <4>2 DEF Chain!LastMark, EndOf
    <3> QED
      BY <3>2, <3>3
  <2>7. /\ t \in [attempts : 0..recorded.attempts, facts : 0..recorded.facts]
        /\ Chain!Below(Chain!LastMark, t)
    <3>1. t \in Chain!Marks /\ Chain!Below(t, recorded) /\ recorded \in Chain!Marks
      BY <1>1, <1>3 DEF Rows, Run, RunsTypeOK
    <3>2. /\ t = [attempts |-> t.attempts, facts |-> t.facts]
          /\ t.attempts \in 0..recorded.attempts /\ t.facts \in 0..recorded.facts
      BY <3>1 DEF Chain!Marks, Chain!Below
    <3>3. Chain!Below(run[target].start, t)
      BY <1>1, <1>3 DEF Rows
    <3> QED
      BY <2>6, <3>2, <3>3
  <2>8. Chain!Seal
    BY <1>2, <2>5, <2>6, <2>7 DEF Chain!Seal
  <2> QED
    BY <2>3, <2>4, <2>8 DEF Chain!Next
<1> QED
  BY <1>4, <1>5

-----------------------------------------------------------------------------
(* The steps that change the run rows: a run begins, ends or notes an      *)
(* error; none of them is sealed.                                          *)
LEMMA BeginRunStep ==
  ASSUME RunsInv, BeginRun
  PROVE  ChainInv' /\ UNCHANGED <<recorded, Covered>> /\ run' \in Seq(Run)
<1> USE DEF RunsInv, ChainInv
<1> DEFINE e == [start |-> HeadMarks, end |-> HeadMarks, ended |-> FALSE,
                 errors |-> 0, pred |-> head]
<1>1. /\ Started \in Nat /\ Seals \in Nat /\ DOMAIN seals = 1..Seals
      /\ recorded \in Chain!Marks /\ run \in Seq(Run) /\ head \in Nat
      /\ \A k \in 1..Seals : seals[k] = k
  BY Shapes DEF RunsTypeOK, Sealing
<1>2. /\ main = "begin" /\ head = Seals /\ Started = Seals
      /\ run' = Append(run, e) /\ recorded = HeadMarks /\ Move("prepare")
      /\ UNCHANGED <<recorded, receipts, locator, seals, head, starts>>
  BY DEF BeginRun, Points
<1>3. e \in Run /\ e.start = recorded /\ e.end = recorded /\ ~e.ended
  BY <1>1, <1>2 DEF Run
<1>4. /\ run' \in Seq(Run) /\ Started' = Started + 1 /\ run'[Started + 1] = e
      /\ \A r \in 1..Started : run'[r] = run[r]
  BY <1>1, <1>2, <1>3, Extend DEF Started
<1>5. Seals' = Seals
  BY <1>2 DEF Seals
<1>6. e.start = EndOf(Started)
  BY <1>1, <1>2, <1>3 DEF HeadMarks, EndOf
<1>7. \A r \in 0..Started : EndOf(r)' = EndOf(r)
  BY <1>1, <1>4 DEF EndOf
<1>8. Chain!Below(recorded, recorded)
  BY <1>1 DEF Chain!Below, Chain!Marks
<1>9. Rows'
  <2>1. ASSUME NEW r \in 1..Started + 1
        PROVE  /\ run'[r].start = EndOf(r - 1)'
               /\ Chain!Below(run'[r].start, run'[r].end)
               /\ Chain!Below(run'[r].end, recorded)
               /\ run'[r].ended => run'[r].pred = r - 1
    <3>1. CASE r = Started + 1
      <4>1. EndOf(r - 1)' = EndOf(Started)
        BY <1>1, <1>7, <3>1
      <4> QED
        BY <1>3, <1>4, <1>6, <1>8, <3>1, <4>1
    <3>2. CASE r \in 1..Started
      <4>1. EndOf(r - 1)' = EndOf(r - 1)
        BY <1>1, <1>7, <3>2
      <4>2. /\ run[r].start = EndOf(r - 1) /\ (run[r].ended => run[r].pred = r - 1)
            /\ Chain!Below(run[r].start, run[r].end) /\ Chain!Below(run[r].end, recorded)
        BY <3>2 DEF Rows
      <4> QED
        BY <1>4, <3>2, <4>1, <4>2
    <3> QED
      BY <1>1, <3>1, <3>2
  <2>2. \A r \in 1..Seals : run'[r].ended
    BY <1>2, <1>4 DEF Rows
  <2> QED
    BY <1>2, <1>4, <1>5, <2>1, <2>2 DEF Rows, Chain!Below
<1>10. Sealing'
  BY <1>2, <1>4, <1>5 DEF Sealing
<1>11. Points' /\ StartsLeft'
  <2>1. starts \in Nat /\ MaxStarts \in Nat
    BY RunAssumption DEF RunsTypeOK
  <2>2. StartsLeft'
    BY <1>1, <1>2, <1>4, <2>1 DEF StartsLeft, Move, Publishing
  <2>3. Started' = Seals' + 1 /\ ~run'[Started'].ended /\ head' = Seals'
    BY <1>1, <1>2, <1>3, <1>4, <1>5
  <2>4. main' = "prepare"
    BY <1>2 DEF Move
  <2> QED
    BY <2>2, <2>3, <2>4 DEF Points, InRun, Publishing
<1>12. Covered' = Covered
  BY <1>1, <1>2, <1>4, SameCover DEF Seals
<1> QED
  BY <1>2, <1>4, <1>9, <1>10, <1>11, <1>12

(* The row of the run that is not sealed is replaced.                      *)
LEMMA LastRowSet ==
  ASSUME RunsInv, Started = Seals + 1, NEW q \in Run,
         run' = [run EXCEPT ![Started] = q],
         UNCHANGED <<recorded, receipts, locator, seals, head>>,
         q.start = run[Started].start,
         Chain!Below(q.start, q.end), Chain!Below(q.end, recorded),
         q.ended => q.pred = Started - 1
  PROVE  /\ Rows' /\ Sealing' /\ Covered' = Covered
         /\ run' \in Seq(Run) /\ run'[Started] = q
         /\ Started' = Started /\ Seals' = Seals
<1> USE DEF RunsInv, ChainInv
<1>1. /\ Started \in Nat /\ Seals \in Nat /\ run \in Seq(Run)
      /\ \A k \in 1..Seals : seals[k] = k
  BY Shapes DEF RunsTypeOK, Sealing
<1>2. /\ run' \in Seq(Run) /\ Started' = Started /\ run'[Started] = q
      /\ \A r \in 1..Started : r # Started => run'[r] = run[r]
  <2>1. Started \in 1..Len(run)
    BY <1>1 DEF Started
  <2> QED
    BY <1>1, <2>1, Update DEF Started
<1>3. Seals' = Seals
  BY DEF Seals
<1>4. \A r \in 0..Started - 1 : EndOf(r)' = EndOf(r)
  BY <1>1, <1>2 DEF EndOf
<1>5. Rows'
  <2>1. ASSUME NEW r \in 1..Started
        PROVE  /\ run'[r].start = EndOf(r - 1)'
               /\ Chain!Below(run'[r].start, run'[r].end)
               /\ Chain!Below(run'[r].end, recorded)
               /\ run'[r].ended => run'[r].pred = r - 1
    <3>1. EndOf(r - 1)' = EndOf(r - 1)
      BY <1>1, <1>4
    <3>2. /\ run[r].start = EndOf(r - 1) /\ (run[r].ended => run[r].pred = r - 1)
          /\ Chain!Below(run[r].start, run[r].end) /\ Chain!Below(run[r].end, recorded)
      BY DEF Rows
    <3>3. CASE r = Started
      BY <1>2, <3>1, <3>2, <3>3
    <3>4. CASE r # Started
      BY <1>2, <3>1, <3>2, <3>4
    <3> QED
      BY <3>3, <3>4
  <2>2. \A r \in 1..Seals : run'[r].ended
    BY <1>1, <1>2 DEF Rows
  <2> QED
    BY <1>2, <1>3, <2>1, <2>2 DEF Rows, Chain!Below
<1>6. Sealing'
  BY <1>2, <1>3 DEF Sealing
<1>7. Covered' = Covered
  BY <1>1, <1>2, SameCover DEF Seals
<1> QED
  BY <1>2, <1>3, <1>5, <1>6, <1>7

(* finish_run, of the process's own run and of an interrupted one.         *)
LEMMA FinishStep ==
  ASSUME RunsInv, head = Seals, Started = Seals + 1, main \notin {"receipt", "down"},
         Finish(Started), NEW next \in {"begin", "exit"}, BeginPublication(Started, next),
         next = "begin" => main = "recover_run", UNCHANGED starts
  PROVE  ChainInv' /\ UNCHANGED <<recorded, Covered>> /\ run' \in Seq(Run)
<1> USE DEF RunsInv, ChainInv
<1> DEFINE q == [start |-> run[Started].start, end |-> recorded, ended |-> TRUE,
                 errors |-> run[Started].errors, pred |-> head]
<1>1. /\ Started \in Nat /\ Seals \in Nat /\ head \in Nat /\ recorded \in Chain!Marks
      /\ run[Started] \in Run
  BY Shapes DEF RunsTypeOK
<1>2. /\ run' = [run EXCEPT ![Started] = q]
      /\ UNCHANGED <<recorded, receipts, locator, seals, head>>
  BY DEF Finish
<1>3. q \in Run /\ q.start = run[Started].start /\ q.end = recorded /\ q.ended /\ q.pred = head
  BY <1>1 DEF Run
<1>4. Chain!Below(q.start, q.end) /\ Chain!Below(q.end, recorded)
  <2>1. /\ Chain!Below(run[Started].start, run[Started].end)
        /\ Chain!Below(run[Started].end, recorded)
    BY <1>1 DEF Rows
  <2> QED
    BY <1>1, <1>3, <2>1 DEF Run, Chain!Marks, Chain!Below
<1>5. /\ Rows' /\ Sealing' /\ Covered' = Covered
      /\ run' \in Seq(Run) /\ run'[Started] = q
      /\ Started' = Started /\ Seals' = Seals
  <2>1. q.ended => q.pred = Started - 1
    BY <1>1, <1>3
  <2> QED
    BY <1>2, <1>3, <1>4, <2>1, LastRowSet
<1>6. main' = "receipt" /\ target' = Started /\ after' = next
  BY DEF BeginPublication
<1>7. Points'
  BY <1>1, <1>2, <1>3, <1>5, <1>6 DEF Points, Publishing, InRun
<1>8. StartsLeft'
  BY <1>5, <1>6 DEF StartsLeft, Publishing
<1> QED
  BY <1>2, <1>5, <1>7, <1>8

LEMMA RecoverRunStep ==
  ASSUME RunsInv, RecoverRun
  PROVE  /\ ChainInv' /\ UNCHANGED <<recorded, Covered>> /\ run' \in Seq(Run)
         /\ refused' = refused
<1> USE DEF RunsInv, ChainInv
<1>1. /\ main = "recover_run" /\ head = Seals /\ (Started = Seals \/ ~run[Started].ended)
      /\ Started \in Nat /\ Seals \in Nat /\ Started \in {Seals, Seals + 1}
      /\ run \in Seq(Run)
  BY Shapes DEF RecoverRun, Points, Sealing, RunsTypeOK
<1>2. /\ Unfinished \subseteq {Started} /\ Cardinality(Unfinished) \in {0, 1}
      /\ Unfinished = {} <=> (Started = Seals \/ run[Started].ended)
  BY Outstanding
<1>3. \A r \in Unfinished : r = Started /\ Started = Seals + 1
  BY <1>1, <1>2
<1>4. ASSUME NEW r \in Unfinished PROVE run[r].start = HeadMarks
  <2>1. run[Started].start = EndOf(Seals) /\ r = Started
    BY <1>1, <1>3, <1>4 DEF Rows
  <2> QED
    BY <1>1, <2>1 DEF HeadMarks, EndOf
<1>5. /\ UNCHANGED <<poolVars, refused, starts>>
      /\ IF Unfinished = {} THEN Move("begin") /\ UNCHANGED chainVars
         ELSE \E r \in Unfinished : Finish(r) /\ BeginPublication(r, "begin")
  BY <1>2, <1>4 DEF RecoverRun
<1>6. CASE Unfinished = {}
  <2>1. Started = Seals /\ Move("begin") /\ UNCHANGED chainVars
    BY <1>1, <1>2, <1>5, <1>6
  <2>2. Rows' /\ Covered' = Covered /\ Started' = Started /\ Seals' = Seals
    BY <2>1, SameRows DEF chainVars
  <2>3. Sealing' /\ Points' /\ StartsLeft'
    BY <1>1, <1>5, <2>1, <2>2
       DEF chainVars, Move, Sealing, Points, StartsLeft, InRun, Publishing
  <2> QED
    BY <1>1, <1>5, <2>1, <2>2, <2>3 DEF chainVars
<1>7. CASE Unfinished # {}
  <2>1. Started = Seals + 1 /\ Finish(Started) /\ BeginPublication(Started, "begin")
    BY <1>3, <1>5, <1>7
  <2> QED
    BY <1>1, <1>5, <2>1, FinishStep
<1> QED
  BY <1>6, <1>7

LEMMA NoteErrorStep ==
  ASSUME RunsInv, NEW w \in Thread, NoteError(w)
  PROVE  ChainInv' /\ UNCHANGED <<recorded, Covered>> /\ run' \in Seq(Run)
<1> USE DEF RunsInv, ChainInv
<1> DEFINE q == Erring(run[Started])
<1>1. main \in InRun /\ head = Seals /\ Started = Seals + 1 /\ ~run[Started].ended
  BY DEF NoteError, Running, Points, InRun
<1>2. /\ Started \in Nat /\ Seals \in Nat /\ recorded \in Chain!Marks /\ run[Started] \in Run
  BY <1>1, Shapes DEF RunsTypeOK
<1>3. /\ run' = [run EXCEPT ![Started] = q]
      /\ UNCHANGED <<recorded, receipts, locator, seals, head, mainVars, starts>>
  BY DEF NoteError, Current, Started
<1>4. /\ q \in Run /\ q.start = run[Started].start /\ q.end = run[Started].end /\ ~q.ended
  BY <1>1, <1>2 DEF Run, Erring
<1>5. Chain!Below(q.start, q.end) /\ Chain!Below(q.end, recorded)
  BY <1>2, <1>4, <1>1 DEF Rows
<1>6. /\ Rows' /\ Sealing' /\ Covered' = Covered
      /\ run' \in Seq(Run) /\ run'[Started] = q
      /\ Started' = Started /\ Seals' = Seals
  BY <1>1, <1>3, <1>4, <1>5, LastRowSet
<1>7. Points' /\ StartsLeft'
  BY <1>1, <1>3, <1>4, <1>6 DEF Points, StartsLeft, InRun, Publishing, mainVars
<1> QED
  BY <1>3, <1>6, <1>7

-----------------------------------------------------------------------------
(* Every step keeps the chain and is a step of the abstract one.           *)
LEMMA ChainStep == RunsInv /\ [RunsNext]_runsVars => ChainInv' /\ [Chain!Next]_<<recorded, Covered>>
<1> SUFFICES ASSUME RunsInv, [RunsNext]_runsVars
             PROVE  ChainInv' /\ [Chain!Next]_<<recorded, Covered>>
  OBVIOUS
<1>1. recorded \in Chain!Marks /\ Chain!Below(recorded, recorded)
  BY Shapes DEF RunsInv, RunsTypeOK, Chain!Marks, Chain!Below
<1>2. CASE UNCHANGED runsVars
  BY <1>1, <1>2, QuietRunsStep DEF runsVars, chainVars
<1>3. CASE Bind
  BY <1>3, BindStep
<1>4. CASE SessionDies \/ EndProcess \/ FinishRefused \/ LocatorRefused \/ TailRefused
  <2>1. UNCHANGED <<chainVars, starts>> /\ main' = "down"
    BY <1>4 DEF SessionDies, EndProcess, FinishRefused, LocatorRefused, TailRefused, Refuse, Exit
  <2> QED
    BY <1>1, <2>1, QuietRunsStep DEF chainVars
<1>5. CASE RecoverHead
  BY <1>5, RecoverHeadStep
<1>6. CASE RecoverRun
  BY <1>6, RecoverRunStep
<1>7. CASE PublishReceipt \/ CreateLocator \/ FillLocator \/ FillFails
  BY <1>7, PublicationStep
<1>8. CASE InsertSeal
  BY <1>8, InsertSealStep
<1>9. CASE AdvanceHead
  BY <1>9, AdvanceHeadStep
<1>10. CASE BeginRun
  BY <1>10, BeginRunStep
<1>11. CASE Prepare
  <2>1. /\ main \in InRun /\ main' \in InRun
        /\ UNCHANGED <<run, receipts, locator, seals, head, starts>>
        /\ AddFact \/ UNCHANGED recorded
    BY <1>11 DEF Prepare, Move, InRun
  <2>2. recorded' \in Chain!Marks /\ Chain!Below(recorded, recorded')
    BY <1>1, <2>1 DEF AddFact, Chain!Marks, Chain!Below
  <2> QED
    BY <2>1, <2>2, QuietRunsStep
<1>12. CASE Feed \/ PutPill \/ Join \/ Count
  <2>1. /\ UNCHANGED <<chainVars, starts>>
        /\ UNCHANGED mainVars \/ (main \in InRun /\ main' \in InRun)
    BY <1>12 DEF Feed, PutPill, Join, Count, Move, InRun, mainVars
  <2> QED
    BY <1>1, <2>1, QuietRunsStep DEF chainVars
<1>13. CASE FinishRun
  <2>1. /\ head = Seals /\ Started = Seals + 1 /\ main = "finish"
        /\ Finish(Started) /\ BeginPublication(Started, "exit") /\ UNCHANGED starts
    BY <1>13 DEF FinishRun, RunsInv, ChainInv, Points, InRun, Current, Started
  <2> QED
    BY <2>1, FinishStep
<1>14. CASE \E w \in Thread : ThreadStep(w)
  <2> PICK w \in Thread : ThreadStep(w)
    BY <1>14
  <2>1. CASE TakeRow(w) \/ TakePill(w) \/ WorkFails(w) \/ WriteFails(w) \/ NoteErrorFails(w)
    <3>1. UNCHANGED <<chainVars, mainVars, starts>>
      BY <2>1 DEF TakeRow, TakePill, WorkFails, WriteFails, NoteErrorFails
    <3> QED
      BY <1>1, <3>1, QuietRunsStep DEF chainVars
  <2>2. CASE RecordAttempt(w) \/ RecordFact(w)
    <3>1. /\ UNCHANGED <<run, receipts, locator, seals, head, mainVars, starts>>
          /\ AddAttempt \/ AddFact
      BY <2>2 DEF RecordAttempt, RecordFact
    <3>2. recorded' \in Chain!Marks /\ Chain!Below(recorded, recorded')
      BY <1>1, <3>1 DEF AddAttempt, AddFact, Chain!Marks, Chain!Below
    <3> QED
      BY <3>1, <3>2, QuietRunsStep
  <2>3. CASE NoteError(w)
    BY <2>3, NoteErrorStep
  <2> QED
    BY <2>1, <2>2, <2>3 DEF ThreadStep
<1> QED
  BY <1>2, <1>3, <1>4, <1>5, <1>6, <1>7, <1>8, <1>9, <1>10, <1>11, <1>12, <1>13, <1>14
     DEF RunsNext, Session, Main

-----------------------------------------------------------------------------
(* The types, in two parts: what the pool of threads holds, and the rest.  *)
PoolTypes ==
  /\ at \in [Thread -> {"none", "get", "called", "recorded", "erring", "exited", "dead"}]
  /\ work \in Nat /\ pills \in Nat /\ fed \in Nat /\ calls \in Nat /\ errors \in Nat
  /\ stopping \in BOOLEAN

MainTypes ==
  /\ {main, after} \subseteq {"down", "recover_head", "recover_run", "receipt", "locator", "fill",
       "seal", "head", "begin", "prepare", "feed", "pills", "join", "count", "finish", "exit"}
  /\ target \in Nat /\ starts \in Nat
  /\ refused \in {"no", "ambiguous", "locator", "head", "tail"}

ChainTypes ==
  /\ recorded \in Chain!Marks
  /\ run \in Seq(Run)
  /\ receipts \in SUBSET Nat
  /\ locator \in [1..MaxStarts -> {"absent", "empty", "written"}]
  /\ seals \in Seq(Nat)
  /\ head \in Nat

LEMMA RunsTypes == RunsTypeOK <=> PoolTypes /\ MainTypes /\ ChainTypes
BY DEF RunsTypeOK, PoolTypes, MainTypes, ChainTypes

LEMMA PoolTyped == RunsTypeOK /\ [RunsNext]_runsVars => PoolTypes'
<1> SUFFICES ASSUME PoolTypes, [RunsNext]_runsVars PROVE PoolTypes'
  BY RunsTypes
<1>1. CASE UNCHANGED poolVars
  BY <1>1 DEF PoolTypes, poolVars
<1>2. CASE Exit
  BY <1>2 DEF Exit, PoolTypes
<1>3. CASE Prepare \/ Feed \/ PutPill
  BY <1>3 DEF Prepare, Feed, PutPill, PoolTypes
<1>4. CASE \E w \in Thread : ThreadStep(w)
  <2> PICK w \in Thread : ThreadStep(w)
    BY <1>4
  <2>1. CASE TakeRow(w)
    BY <2>1 DEF TakeRow, PoolTypes
  <2>2. CASE TakePill(w)
    BY <2>2 DEF TakePill, PoolTypes
  <2>3. CASE RecordAttempt(w) \/ RecordFact(w)
    BY <2>3 DEF RecordAttempt, RecordFact, PoolTypes
  <2>4. CASE WorkFails(w)
    BY <2>4 DEF WorkFails, PoolTypes
  <2>6. CASE WriteFails(w)
    BY <2>6 DEF WriteFails, PoolTypes
  <2>5. CASE NoteError(w) \/ NoteErrorFails(w)
    BY <2>5 DEF NoteError, NoteErrorFails, PoolTypes
  <2> QED
    BY <2>1, <2>2, <2>3, <2>4, <2>5, <2>6 DEF ThreadStep
<1>5. CASE Session \/ UNCHANGED runsVars
  BY <1>1, <1>2, <1>5 DEF Session, Bind, SessionDies, runsVars
<1>6. CASE Main
  <2>1. CASE RecoverHead \/ RecoverRun
    BY <1>1, <1>2, <2>1 DEF RecoverHead, RecoverRun, Refuse
  <2>2. CASE PublishReceipt \/ CreateLocator \/ LocatorRefused \/ FillLocator \/ FillFails
    BY <1>1, <1>2, <2>2
       DEF PublishReceipt, CreateLocator, LocatorRefused, FillLocator, FillFails, Refuse, poolVars
  <2>3. CASE InsertSeal \/ AdvanceHead \/ BeginRun \/ TailRefused \/ Join \/ Count
    BY <1>1, <1>2, <2>3 DEF InsertSeal, AdvanceHead, BeginRun, TailRefused, Join, Count, Refuse
  <2>4. CASE FinishRun \/ FinishRefused \/ EndProcess
    BY <1>1, <1>2, <2>4 DEF FinishRun, FinishRefused, EndProcess
  <2> QED
    BY <1>3, <1>6, <2>1, <2>2, <2>3, <2>4 DEF Main
<1> QED
  BY <1>4, <1>5, <1>6 DEF RunsNext

LEMMA MainTyped == RunsInv /\ [RunsNext]_runsVars => MainTypes'
<1> SUFFICES ASSUME RunsInv, MainTypes, [RunsNext]_runsVars PROVE MainTypes'
  BY RunsTypes DEF RunsInv
<1> USE DEF MainTypes
<1>1. CASE UNCHANGED <<mainVars, refused, starts>>
  BY <1>1 DEF mainVars
<1>2. CASE /\ Exit /\ UNCHANGED starts
           /\ refused' \in {refused, "ambiguous", "locator", "head", "tail"}
  BY <1>2 DEF Exit
<1>3. CASE \E w \in Thread : ThreadStep(w)
  BY <1>1, <1>3 DEF ThreadStep, TakeRow, TakePill, RecordAttempt, RecordFact, WorkFails,
                    WriteFails, NoteError, NoteErrorFails
<1>4. CASE Session \/ UNCHANGED runsVars
  BY <1>1, <1>2, <1>4 DEF Session, Bind, SessionDies, Move, runsVars
<1>5. CASE Main
  <2>1. CASE RecoverHead
    <3>1. /\ LastSeal \in Nat
          /\ \A r \in Unsealed : r \in Nat
      BY Shapes, Outstanding DEF RunsInv, Unsealed
    <3> QED
      BY <1>2, <2>1, <3>1 DEF RecoverHead, Refuse, BeginPublication, Move
  <2>2. CASE RecoverRun
    <3>1. \A r \in Unfinished : r \in Nat
      BY Shapes DEF RunsInv, Unfinished
    <3> QED
      BY <1>2, <2>2, <3>1 DEF RecoverRun, Refuse, BeginPublication, Move
  <2>3. CASE LocatorRefused \/ TailRefused \/ FillFails \/ FinishRefused \/ EndProcess
    BY <1>2, <2>3 DEF LocatorRefused, TailRefused, FillFails, FinishRefused, EndProcess, Refuse
  <2>4. CASE PublishReceipt \/ CreateLocator \/ FillLocator \/ InsertSeal
    BY <2>4 DEF PublishReceipt, CreateLocator, FillLocator, InsertSeal, Move
  <2>5. CASE AdvanceHead
    BY <1>2, <2>5 DEF AdvanceHead, Refuse, Move
  <2>6. CASE BeginRun \/ Prepare \/ Join \/ Count
    BY <2>6 DEF BeginRun, Prepare, Join, Count, Move
  <2>7. CASE Feed \/ PutPill
    BY <1>1, <2>7 DEF Feed, PutPill, Move
  <2>8. CASE FinishRun
    BY <2>8, Shapes DEF FinishRun, BeginPublication, Current, Started, RunsInv
  <2> QED
    BY <1>5, <2>1, <2>2, <2>3, <2>4, <2>5, <2>6, <2>7, <2>8 DEF Main
<1> QED
  BY <1>3, <1>4, <1>5 DEF RunsNext

LEMMA ChainTyped == RunsInv /\ [RunsNext]_runsVars => ChainTypes'
<1> SUFFICES ASSUME RunsInv, ChainTypes, MainTypes, [RunsNext]_runsVars PROVE ChainTypes'
  BY RunsTypes DEF RunsInv
<1>1. CASE UNCHANGED chainVars
  BY <1>1 DEF chainVars, ChainTypes
<1>2. CASE Prepare
  BY <1>2 DEF Prepare, AddFact, ChainTypes, Chain!Marks
<1>3. CASE \E w \in Thread : ThreadStep(w)
  <2> PICK w \in Thread : ThreadStep(w)
    BY <1>3
  <2>1. CASE RecordAttempt(w) \/ RecordFact(w)
    <3>1. (AddAttempt \/ AddFact) /\ UNCHANGED <<run, receipts, locator, seals, head>>
      BY <2>1 DEF RecordAttempt, RecordFact
    <3>2. recorded' \in Chain!Marks
      BY <3>1 DEF AddAttempt, AddFact, ChainTypes, Chain!Marks
    <3> QED
      BY <3>1, <3>2 DEF ChainTypes
  <2>2. CASE NoteError(w)
    BY <2>2, NoteErrorStep DEF NoteError, ChainTypes
  <2>3. CASE ~(RecordAttempt(w) \/ RecordFact(w) \/ NoteError(w))
    BY <1>1, <2>3 DEF ThreadStep, TakeRow, TakePill, WorkFails, WriteFails, NoteErrorFails
  <2> QED
    BY <2>1, <2>2, <2>3
<1>4. CASE Session \/ UNCHANGED runsVars
  BY <1>1, <1>4 DEF Session, Bind, SessionDies, runsVars
<1>5. CASE Main
  <2>1. CASE RecoverHead \/ LocatorRefused \/ TailRefused \/ FinishRefused \/ EndProcess
    BY <1>1, <2>1 DEF RecoverHead, LocatorRefused, TailRefused, FinishRefused, EndProcess, Refuse
  <2>2. CASE Feed \/ PutPill \/ Join \/ Count
    BY <1>1, <2>2 DEF Feed, PutPill, Join, Count
  <2>3. CASE RecoverRun
    <3>1. run' \in Seq(Run)
      BY <2>3, RecoverRunStep
    <3> QED
      BY <1>1, <2>3, <3>1 DEF RecoverRun, Refuse, Finish, ChainTypes, chainVars
  <2>4. CASE PublishReceipt
    BY <2>4 DEF PublishReceipt, ChainTypes, MainTypes
  <2>5. CASE CreateLocator
    BY <2>5 DEF CreateLocator, ChainTypes
  <2>6. CASE FillLocator
    BY <2>6 DEF FillLocator, ChainTypes
  <2>7. CASE FillFails
    BY <2>7 DEF FillFails, ChainTypes
  <2>8. CASE InsertSeal
    BY <2>8 DEF InsertSeal, ChainTypes, MainTypes
  <2>9. CASE AdvanceHead
    BY <1>1, <2>9 DEF AdvanceHead, Refuse, ChainTypes, MainTypes
  <2>10. CASE BeginRun
    BY <2>10, BeginRunStep DEF BeginRun, ChainTypes
  <2>11. CASE FinishRun
    <3>1. /\ head = Seals /\ Started = Seals + 1 /\ main = "finish"
          /\ Finish(Started) /\ BeginPublication(Started, "exit") /\ UNCHANGED starts
      BY <2>11 DEF FinishRun, RunsInv, ChainInv, Points, InRun, Current, Started
    <3>2. run' \in Seq(Run)
      BY <3>1, FinishStep
    <3> QED
      BY <3>1, <3>2 DEF Finish, ChainTypes
  <2> QED
    BY <1>2, <1>5, <2>1, <2>2, <2>3, <2>4, <2>5, <2>6, <2>7, <2>8, <2>9, <2>10, <2>11 DEF Main
<1> QED
  BY <1>3, <1>4, <1>5 DEF RunsNext

-----------------------------------------------------------------------------
LEMMA RunsInvInit == RunsInit => RunsInv
<1> SUFFICES ASSUME RunsInit PROVE RunsInv
  OBVIOUS
<1>1. RunsTypeOK
  <2>1. PoolTypes
    BY DEF RunsInit, NoPool, PoolTypes
  <2>2. MainTypes
    BY DEF RunsInit, MainTypes
  <2>3. ChainTypes
    <3>1. recorded \in Chain!Marks
      BY DEF RunsInit, Zero, Chain!Marks
    <3>2. run \in Seq(Run) /\ seals \in Seq(Nat)
      BY DEF RunsInit
    <3> QED
      BY <3>1, <3>2 DEF RunsInit, ChainTypes
  <2> QED
    BY <2>1, <2>2, <2>3, RunsTypes
<1>2. Started = 0 /\ Seals = 0
  BY DEF RunsInit, Started, Seals
<1>3. Rows /\ Sealing /\ Points /\ StartsLeft
  BY <1>2, RunAssumption DEF RunsInit, Rows, Sealing, Points, StartsLeft, Publishing, InRun
<1> QED
  BY <1>1, <1>3 DEF RunsInv, ChainInv

LEMMA RunsInvHolds == RunsSpec => []RunsInv
<1>1. RunsInv /\ [RunsNext]_runsVars => RunsInv'
  BY ChainStep, PoolTyped, MainTyped, ChainTyped, RunsTypes DEF RunsInv, PoolTypes, MainTypes, ChainTypes,
     RunsTypeOK
<1> QED
  BY RunsInvInit, <1>1, PTL DEF RunsSpec

(* Every variable keeps its type: no step takes a None entry that is not   *)
(* in the queue, or publishes a run that was not begun.                    *)
THEOREM RunsTypeCorrect == RunsSpec => []RunsTypeOK
BY RunsInvHolds, PTL DEF RunsInv

(* No crash leaves a seal without its evidence: the run is finished, its   *)
(* receipt and its locator are there, and it follows the run sealed before *)
(* (complete_publication).                                                 *)
THEOREM SealedHasEvidence == RunsSpec => []SealsRestOnEvidence
<1>1. RunsInv => SealsRestOnEvidence
  <2> SUFFICES ASSUME RunsInv, NEW k \in DOMAIN seals
               PROVE  /\ run[seals[k]].ended
                      /\ seals[k] \in receipts /\ locator[seals[k]] = "written"
                      /\ run[seals[k]].pred = IF k = 1 THEN 0 ELSE seals[k - 1]
    BY DEF SealsRestOnEvidence
  <2> USE DEF RunsInv, ChainInv
  <2>1. k \in 1..Seals /\ Seals \in Nat /\ Started \in Nat /\ Started \in {Seals, Seals + 1}
    BY Shapes DEF Sealing
  <2>2. seals[k] = k /\ k \in receipts /\ locator[k] = "written" /\ run[k].ended
    BY <2>1 DEF Sealing, Rows
  <2>3. run[k].pred = k - 1
    BY <2>1, <2>2 DEF Rows
  <2>4. k # 1 => seals[k - 1] = k - 1
    BY <2>1 DEF Sealing
  <2> QED
    BY <2>1, <2>2, <2>3, <2>4
<1> QED
  BY RunsInvHolds, <1>1, PTL

(* The head is the last seal or a publication is due, and one run at most  *)
(* is unfinished or unsealed (authenticate_prefix).                        *)
THEOREM AtMostOneAtStake == RunsSpec => []OneRunAtStake
<1>1. RunsInv => OneRunAtStake
  <2> SUFFICES ASSUME RunsInv PROVE OneRunAtStake
    OBVIOUS
  <2>1. /\ LastSeal = Seals
        /\ Unfinished = {} <=> (Started = Seals \/ run[Started].ended)
        /\ Unsealed = {} <=> (Started = Seals \/ ~run[Started].ended)
        /\ Cardinality(Unfinished \cup Unsealed) \in {0, 1}
    BY Outstanding
  <2>2. /\ head \in Nat /\ Seals \in Nat /\ Started \in Nat
        /\ head \in {Seals, Seals - 1} /\ (head # Seals => Started = Seals)
        /\ \A r \in 1..Started : run[r].ended => run[r].pred = r - 1
        /\ \A r \in 1..Seals : run[r].ended
    BY Shapes DEF RunsInv, RunsTypeOK, ChainInv, Sealing, Rows
  <2>3. head # Seals => Seals # 0 /\ head = Seals - 1 /\ run[Seals].pred = Seals - 1
    BY <2>2
  <2> QED
    BY <2>1, <2>2, <2>3 DEF OneRunAtStake
<1> QED
  BY RunsInvHolds, <1>1, PTL

(* A session is refused for a half-written locator or for facts behind the *)
(* last seal only: its own recovery is never ambiguous                     *)
(* (authenticate_prefix, _recover_unfinished_run, _require_runnable_head). *)
THEOREM RefusalsDue == RunsSpec => RefusalsAreDue
<1> DEFINE Due == refused' \notin {refused, "no"} =>
                    \/ refused' = "locator" /\ locator[target] = "empty"
                    \/ /\ refused' = "tail" /\ Unfinished = {} /\ Unsealed = {}
                       /\ recorded # HeadMarks
<1>1. RunsInv /\ [RunsNext]_runsVars => [Due]_runsVars
  <2> SUFFICES ASSUME RunsInv, RunsNext PROVE Due
    OBVIOUS
  <2>1. CASE RecoverHead \/ RecoverRun \/ AdvanceHead
    BY <2>1, RecoverHeadStep, RecoverRunStep, AdvanceHeadStep
  <2>2. CASE TailRefused
    <3>1. Started = Seals
      BY <2>2 DEF TailRefused, RunsInv, ChainInv, Points
    <3>2. Unfinished = {} /\ Unsealed = {}
      BY <3>1, Outstanding
    <3> QED
      BY <2>2, <3>2 DEF TailRefused, Refuse
  <2>3. CASE LocatorRefused
    BY <2>3 DEF LocatorRefused, Refuse
  <2>4. CASE refused' \in {refused, "no"}
    BY <2>4
  <2>5. CASE Session
    BY <2>4, <2>5 DEF Session, Bind, SessionDies
  <2>6. CASE \E w \in Thread : ThreadStep(w)
    BY <2>4, <2>6 DEF ThreadStep, TakeRow, TakePill, RecordAttempt, RecordFact, WorkFails,
                      WriteFails, NoteError, NoteErrorFails
  <2>7. CASE PublishReceipt \/ CreateLocator \/ FillLocator \/ FillFails \/ InsertSeal
    BY <2>4, <2>7 DEF PublishReceipt, CreateLocator, FillLocator, FillFails, InsertSeal
  <2>8. CASE BeginRun \/ Prepare \/ Feed \/ PutPill \/ Join \/ Count \/ FinishRun \/ FinishRefused
             \/ EndProcess
    BY <2>4, <2>8 DEF BeginRun, Prepare, Feed, PutPill, Join, Count, FinishRun, FinishRefused,
                      EndProcess
  <2> QED
    BY <2>1, <2>2, <2>3, <2>5, <2>6, <2>7, <2>8 DEF RunsNext, Main
<1> QED
  BY RunsInvHolds, <1>1, PTL DEF RunsSpec, RefusalsAreDue

(* The sealed runs are a chain of marks that covers every fact recorded    *)
(* before the last seal exactly once (finish_run, complete_publication).   *)
THEOREM RunsImplementChain == RunsSpec => ImplementsChain
<1>1. RunsInit => Chain!Init
  BY DEF RunsInit, Chain!Init, Zero, Chain!Zero, Covered
<1>2. RunsInv /\ [RunsNext]_runsVars => [Chain!Next]_<<recorded, Covered>>
  BY ChainStep
<1> QED
  BY RunsInvHolds, <1>1, <1>2, PTL DEF RunsSpec, ImplementsChain, Chain!Spec

--------------------------------------------------------------------------------
(* The charges.                                                            *)

Row == [content : Content, status : {"RESERVED", "PUBLISHED", "SETTLED", "RELEASED"}]

StateOK ==
  /\ charge \in [Identity -> Row \cup {NoCharge}]
  /\ ledger \in Int
  /\ completion \in [Identity -> Content \cup {None}]

(* What a transaction needs and keeps.                                     *)
Books == StateOK /\ SettledIsCompleted /\ BelowCeiling

RunOK ==
  /\ store \in SUBSET Content
  /\ phase \in {"down", "reconcile", "work", "closing", "closed"}
  /\ handed \in SUBSET Identity /\ passed \in SUBSET Identity
  /\ rec \in [identity : Identity, op : {"mark", "complete", "release"}] \cup {None}
  /\ runs \in Nat

WorkersOK ==
  /\ step \in [Worker -> Calls \cup {"idle", "fetch", "publish", "sync"}]
  /\ call \in [Worker -> {"none", "open", "queued", "ok", "failed"}]
  /\ row \in [Worker -> Identity \cup {None}]
  /\ body \in [Worker -> Content \cup {None}]
  /\ allowance \in [Worker -> Nat]
  /\ \A w \in Worker : step[w] # "idle" => row[w] \in Identity
  /\ \A w \in Worker : step[w] \in {"reserve", "publish", "sync"} => body[w] \in Content
  /\ \A w \in Worker : call[w] = "open" => step[w] \in Calls

QueueOK ==
  /\ queue \in Seq(Request \cup {Stop})
  /\ \A k \in DOMAIN queue : queue[k].op = "reserve" => queue[k].content \in Content

TypeInv == Books /\ RunOK /\ WorkersOK /\ QueueOK

LEMMA NoChargeIsNone == NoCharge.content = None /\ NoCharge.status = "NONE"
BY DEF NoCharge

-----------------------------------------------------------------------------
(* A charge that is set for one request is what it is set to, and the      *)
(* other requests keep theirs.                                             *)
LEMMA ChargeSet ==
  ASSUME StateOK, NEW i \in Identity, NEW r \in Row, charge' = [charge EXCEPT ![i] = r]
  PROVE  /\ charge' \in [Identity -> Row \cup {NoCharge}]
         /\ charge'[i] = r
         /\ \A j \in Identity \ {i} : charge'[j] = charge[j]
BY DEF StateOK

(* reserve_charge keeps the books and is a payment.                        *)
LEMMA ReserveKeepsBooks ==
  ASSUME Books, NEW i \in Identity, NEW c \in Content, ReserveCharge(i, c)
  PROVE  Books' /\ Budget!Pay(i, c)
<1> DEFINE r == [content |-> c, status |-> "RESERVED"]
<1>1. r \in Row /\ r.content = c /\ r.status = "RESERVED"
  BY DEF Row
<1>2. /\ charge' \in [Identity -> Row \cup {NoCharge}]
      /\ charge'[i] = r
      /\ \A j \in Identity \ {i} : charge'[j] = charge[j]
  BY <1>1, ChargeSet DEF ReserveCharge, Books
<1>3. ledger' = ledger + Size[c] /\ ledger' \in Int /\ ledger' <= Ceiling
  BY ChargeAssumption DEF ReserveCharge, Books, StateOK
<1>4. completion' = completion /\ charge[i].status \in {"NONE", "RELEASED"}
  BY DEF ReserveCharge
<1>5. completion[i] = None
  BY <1>4 DEF Books, SettledIsCompleted
<1>6. SettledIsCompleted'
  BY <1>1, <1>2, <1>4, <1>5 DEF Books, SettledIsCompleted
<1>7. Paid[i] = None
  BY <1>4 DEF Paid
<1>8. Paid' = [Paid EXCEPT ![i] = c]
  BY <1>1, <1>2 DEF Paid
<1>9. QED
  BY <1>2, <1>3, <1>4, <1>5, <1>6, <1>7, <1>8 DEF Books, StateOK, BelowCeiling, Budget!Pay, ReserveCharge

(* mark_charge_published keeps the books and pays nothing.                 *)
LEMMA MarkKeepsBooks ==
  ASSUME Books, NEW i \in Identity, MarkPublished(i)
  PROVE  Books' /\ UNCHANGED <<ledger, Paid, completion>>
<1>1. CASE charge[i].status = "PUBLISHED" /\ UNCHANGED stateVars
  BY <1>1 DEF stateVars, Books, StateOK, SettledIsCompleted, BelowCeiling, Paid
<1>2. CASE charge[i].status = "RESERVED" /\ SetStatus(i, "PUBLISHED") /\ UNCHANGED <<ledger, completion>>
  <2> DEFINE r == [content |-> charge[i].content, status |-> "PUBLISHED"]
  <2>1. charge[i] \in Row
    BY <1>2, NoChargeIsNone DEF Books, StateOK
  <2>2. r \in Row /\ r.content = charge[i].content /\ r.status = "PUBLISHED"
    BY <2>1 DEF Row
  <2>3. /\ charge' \in [Identity -> Row \cup {NoCharge}]
        /\ charge'[i] = r
        /\ \A j \in Identity \ {i} : charge'[j] = charge[j]
    BY <1>2, <2>2, ChargeSet DEF SetStatus, Books
  <2>4. SettledIsCompleted'
    BY <1>2, <2>2, <2>3 DEF Books, SettledIsCompleted
  <2>5. Paid' = Paid
    BY <1>2, <2>2, <2>3 DEF Paid
  <2>6. QED
    BY <1>2, <2>3, <2>4, <2>5 DEF Books, StateOK, BelowCeiling
<1>3. QED
  BY <1>1, <1>2 DEF MarkPublished

(* complete settles and completes in one step.                             *)
LEMMA CompleteKeepsBooks ==
  ASSUME Books, NEW i \in Identity, NEW c, CompleteAndSettle(i, c)
  PROVE  Books' /\ Budget!Complete(i)
<1> DEFINE r == [content |-> charge[i].content, status |-> "SETTLED"]
<1>1. charge[i].content = c /\ charge[i].status = "PUBLISHED"
  BY DEF CompleteAndSettle
<1>2. charge[i] \in Row /\ c \in Content /\ c # None
  BY <1>1, NoChargeIsNone, ChargeAssumption DEF Books, StateOK, Row
<1>3. r \in Row /\ r.content = c /\ r.status = "SETTLED"
  BY <1>1, <1>2 DEF Row
<1>4. /\ charge' \in [Identity -> Row \cup {NoCharge}]
      /\ charge'[i] = r
      /\ \A j \in Identity \ {i} : charge'[j] = charge[j]
  BY <1>3, ChargeSet DEF CompleteAndSettle, SetStatus, Books
<1>5. ledger' = ledger /\ completion' = [completion EXCEPT ![i] = c]
  BY DEF CompleteAndSettle
<1>6. completion' \in [Identity -> Content \cup {None}]
  BY <1>2, <1>5 DEF Books, StateOK
<1>7. SettledIsCompleted'
  BY <1>3, <1>4, <1>5 DEF Books, StateOK, SettledIsCompleted
<1>8. Paid' = Paid
  BY <1>1, <1>3, <1>4 DEF Paid
<1>9. Paid[i] = c
  BY <1>1 DEF Paid
<1>10. QED
  BY <1>2, <1>4, <1>5, <1>6, <1>7, <1>8, <1>9 DEF Books, StateOK, BelowCeiling, Budget!Complete

(* release_charge refunds an unfinished payment or does nothing.           *)
LEMMA ReleaseKeepsBooks ==
  ASSUME Books, NEW i \in Identity, ReleaseCharge(i)
  PROVE  Books' /\ (Budget!Refund(i) \/ UNCHANGED <<ledger, Paid, completion>>)
<1>1. CASE charge[i].status \in {"NONE", "RELEASED"} /\ UNCHANGED stateVars
  BY <1>1 DEF stateVars, Books, StateOK, SettledIsCompleted, BelowCeiling, Paid
<1>2. CASE /\ charge[i].status = "RESERVED"
           /\ ledger' = ledger - Size[charge[i].content]
           /\ SetStatus(i, "RELEASED")
           /\ UNCHANGED completion
  <2> DEFINE r == [content |-> charge[i].content, status |-> "RELEASED"]
  <2>1. charge[i] \in Row /\ charge[i].content \in Content /\ charge[i].content # None
    BY <1>2, NoChargeIsNone, ChargeAssumption DEF Books, StateOK, Row
  <2>2. r \in Row /\ r.content = charge[i].content /\ r.status = "RELEASED"
    BY <2>1 DEF Row
  <2>3. /\ charge' \in [Identity -> Row \cup {NoCharge}]
        /\ charge'[i] = r
        /\ \A j \in Identity \ {i} : charge'[j] = charge[j]
    BY <1>2, <2>2, ChargeSet DEF SetStatus, Books
  <2>4. ledger' \in Int /\ ledger' <= Ceiling
    <3>1. Size[charge[i].content] \in Nat
      BY <2>1, ChargeAssumption
    <3>2. ledger \in Int /\ ledger <= Ceiling /\ Ceiling \in Nat
      BY ChargeAssumption DEF Books, StateOK, BelowCeiling
    <3>3. QED
      BY <1>2, <3>1, <3>2
  <2>5. completion[i] = None
    BY <1>2 DEF Books, SettledIsCompleted
  <2>6. SettledIsCompleted'
    BY <1>2, <2>2, <2>3, <2>5 DEF Books, SettledIsCompleted
  <2>7. Paid[i] = charge[i].content
    BY <1>2 DEF Paid
  <2>8. Paid' = [Paid EXCEPT ![i] = None]
    BY <2>2, <2>3 DEF Paid
  <2>9. Budget!Refund(i)
    BY <1>2, <2>1, <2>5, <2>7, <2>8 DEF Budget!Refund
  <2>10. QED
    BY <1>2, <2>3, <2>4, <2>6, <2>9 DEF Books, StateOK, BelowCeiling
<1>3. QED
  BY <1>1, <1>2 DEF ReleaseCharge

(* Whatever a call does to the charges keeps the books and is a step of    *)
(* the budget.                                                             *)
LEMMA Transaction ==
  ASSUME Books, NEW op, NEW i \in Identity, NEW c, op = "reserve" => c \in Content, Apply(op, i, c)
  PROVE  Books' /\ [Budget!Next]_<<ledger, Paid, completion>>
<1>1. CASE op = "remaining" /\ UNCHANGED stateVars
  BY <1>1 DEF stateVars, Books, StateOK, SettledIsCompleted, BelowCeiling, Paid
<1>2. CASE op = "reserve" /\ ReserveCharge(i, c)
  BY <1>2, ReserveKeepsBooks DEF Budget!Next
<1>3. CASE op = "mark" /\ MarkPublished(i)
  BY <1>3, MarkKeepsBooks
<1>4. CASE op = "complete" /\ CompleteAndSettle(i, c)
  BY <1>4, CompleteKeepsBooks DEF Budget!Next
<1>5. CASE op = "release" /\ ReleaseCharge(i)
  BY <1>5, ReleaseKeepsBooks DEF Budget!Next
<1>6. QED
  BY <1>1, <1>2, <1>3, <1>4, <1>5 DEF Apply

(* The oldest request of the queue.                                        *)
LEMMA OldestRequest ==
  ASSUME QueueOK, queue # <<>>, Head(queue) # Stop
  PROVE  /\ Head(queue) \in Request
         /\ Head(queue).op = "reserve" => Head(queue).content \in Content
<1>1. Head(queue) = queue[1] /\ 1 \in DOMAIN queue
  BY DEF QueueOK
<1>2. QED
  BY <1>1 DEF QueueOK

(* Every step keeps the books and is a step of the budget or a stutter.    *)
LEMMA BooksStep == TypeInv /\ [Next]_vars => Books' /\ [Budget!Next]_<<ledger, Paid, completion>>
<1> SUFFICES ASSUME TypeInv, [Next]_vars
             PROVE  Books' /\ [Budget!Next]_<<ledger, Paid, completion>>
  OBVIOUS
<1>1. CASE UNCHANGED stateVars
  BY <1>1 DEF TypeInv, stateVars, Books, StateOK, SettledIsCompleted, BelowCeiling, Paid
<1>2. CASE RecoverCall
  <2>1. rec \in [identity : Identity, op : {"mark", "complete", "release"}]
    BY <1>2 DEF RecoverCall, TypeInv, RunOK
  <2>2. Apply(rec.op, rec.identity, charge[rec.identity].content)
    BY <1>2 DEF RecoverCall
  <2>3. QED
    BY <2>1, <2>2, Transaction DEF TypeInv
<1>3. CASE Serve
  <2>1. Apply(Head(queue).op, Head(queue).identity, Head(queue).content)
        /\ queue # <<>> /\ Head(queue) # Stop
    BY <1>3 DEF Serve
  <2>2. Head(queue) \in Request /\ (Head(queue).op = "reserve" => Head(queue).content \in Content)
    BY <2>1, OldestRequest DEF TypeInv
  <2>3. Head(queue).identity \in Identity
    BY <2>2 DEF Request
  <2>4. QED
    BY <2>1, <2>2, <2>3, Transaction DEF TypeInv
<1>4. ASSUME NEW w \in Worker, CallDirectly(w)
      PROVE  Books' /\ [Budget!Next]_<<ledger, Paid, completion>>
  <2>1. Apply(step[w], row[w], body[w]) /\ step[w] \in Calls
    BY <1>4 DEF CallDirectly
  <2>2. row[w] \in Identity /\ (step[w] = "reserve" => body[w] \in Content)
    BY <2>1 DEF TypeInv, WorkersOK, Calls
  <2>3. QED
    BY <2>1, <2>2, Transaction DEF TypeInv
<1>5. ASSUME NEW w \in Worker, Work(w), ~CallDirectly(w) PROVE UNCHANGED stateVars
  BY <1>5 DEF Work, Take, LookClosed, PutRequest, DirectCallFails, CallTimesOut, Continue, Fetch,
     Publish, SyncDirectory, FailUnpublished, GiveUp
<1>6. CASE \E i \in Identity : Recover(i)
  BY <1>1, <1>6 DEF Recover
<1>7. CASE StartRun \/ BeginWork \/ RequestStop \/ StopCoordinator \/ EndRun \/ Crash \/ ServeFails
  BY <1>1, <1>7 DEF StartRun, BeginWork, RequestStop, StopCoordinator, EndRun, Crash, ProcessEnds, ServeFails
<1>8. CASE UNCHANGED vars
  BY <1>1, <1>8 DEF vars, stateVars
<1>9. QED
  BY <1>1, <1>2, <1>3, <1>4, <1>5, <1>6, <1>7, <1>8 DEF Next

LEMMA RunStep == TypeInv /\ [Next]_vars => RunOK'
<1> SUFFICES ASSUME TypeInv, [Next]_vars PROVE RunOK'
  OBVIOUS
<1> USE DEF TypeInv, RunOK
<1>1. CASE StartRun \/ BeginWork \/ RequestStop \/ StopCoordinator
  BY <1>1 DEF StartRun, BeginWork, RequestStop, StopCoordinator
<1>2. CASE EndRun \/ Crash
  BY <1>2 DEF EndRun, Crash, ProcessEnds
<1>3. CASE RecoverCall
  BY <1>3 DEF RecoverCall
<1>4. ASSUME NEW i \in Identity, Recover(i) PROVE RunOK'
  BY <1>4 DEF Recover
<1>5. CASE Serve \/ ServeFails
  BY <1>5 DEF Serve, ServeFails, runVars
<1>6. ASSUME NEW w \in Worker, Work(w) PROVE RunOK'
  <2>1. ASSUME NEW i \in Identity, Take(w, i) PROVE RunOK'
    BY <2>1 DEF Take
  <2>2. CASE Publish(w)
    BY <2>2 DEF Publish, runVars, WorkersOK
  <2>3. CASE GiveUp(w)
    BY <2>3 DEF GiveUp
  <2>4. CASE UNCHANGED <<store, runVars>>
    BY <2>4 DEF runVars
  <2>5. QED
    BY <1>6, <2>1, <2>2, <2>3, <2>4 DEF Work, LookClosed, PutRequest, CallDirectly, DirectCallFails,
       CallTimesOut, Continue, Fetch, SyncDirectory, FailUnpublished
<1>7. CASE UNCHANGED vars
  BY <1>7 DEF vars, runVars
<1>8. QED
  BY <1>1, <1>2, <1>3, <1>4, <1>5, <1>6, <1>7 DEF Next

LEMMA QueueStep == TypeInv /\ [Next]_vars => QueueOK'
<1> SUFFICES ASSUME TypeInv, [Next]_vars PROVE QueueOK'
  OBVIOUS
<1> USE DEF TypeInv, QueueOK
<1>1. CASE UNCHANGED queue
  BY <1>1
<1>2. CASE queue' = <<>>
  BY <1>2
<1>3. CASE queue # <<>> /\ queue' = Tail(queue)
  BY <1>3
<1>4. CASE StopCoordinator
  <2>1. Stop.op # "reserve" /\ queue' = Append(queue, Stop)
    BY <1>4 DEF StopCoordinator, Stop
  <2>2. QED
    BY <2>1
<1>5. ASSUME NEW w \in Worker, PutRequest(w) PROVE QueueOK'
  <2> DEFINE r == [from |-> w, op |-> step[w], identity |-> row[w], content |-> body[w]]
  <2>1. step[w] \in Calls /\ queue' = Append(queue, r)
    BY <1>5 DEF PutRequest, WorkersOK
  <2>2. row[w] \in Identity /\ body[w] \in Content \cup {None} /\ (step[w] = "reserve" => body[w] \in Content)
    BY <2>1 DEF WorkersOK, Calls
  <2>3. r \in Request /\ (r.op = "reserve" => r.content \in Content)
    BY <2>1, <2>2 DEF Request
  <2>4. QED
    BY <2>1, <2>3
<1>6. ASSUME NEW w \in Worker, CallTimesOut(w) PROVE QueueOK'
  <2>1. queue' = [k \in DOMAIN queue |-> IF queue[k].from = w THEN [queue[k] EXCEPT !.from = None] ELSE queue[k]]
    BY <1>6 DEF CallTimesOut
  <2>2. ASSUME NEW k \in DOMAIN queue
        PROVE  /\ queue'[k] \in Request \cup {Stop}
               /\ queue'[k].op = queue[k].op /\ queue'[k].content = queue[k].content
    <3>1. CASE queue[k].from = w
      <4>1. w # None
        BY ChargeAssumption
      <4>2. queue[k] \in Request
        BY <3>1, <4>1 DEF Stop
      <4>3. QED
        BY <2>1, <3>1, <4>2 DEF Request
    <3>2. CASE queue[k].from # w
      BY <2>1, <3>2
    <3>3. QED
      BY <3>1, <3>2
  <2>3. queue' \in Seq(Request \cup {Stop}) /\ DOMAIN queue' = DOMAIN queue
    <3>1. PICK n \in Nat : DOMAIN queue = 1..n
      OBVIOUS
    <3>2. DOMAIN queue' = 1..n /\ queue' = [k \in 1..n |-> queue'[k]]
      BY <2>1, <3>1
    <3>3. \A k \in 1..n : queue'[k] \in Request \cup {Stop}
      BY <2>2, <3>1
    <3>4. queue' \in [1..n -> Request \cup {Stop}]
      BY <3>2, <3>3
    <3>5. QED
      BY <3>1, <3>2, <3>4
  <2>4. QED
    BY <2>2, <2>3
<1>7. CASE EndRun \/ Crash
  BY <1>2, <1>7 DEF EndRun, Crash, ProcessEnds
<1>8. CASE Serve \/ ServeFails
  BY <1>3, <1>8 DEF Serve, ServeFails
<1>9. ASSUME NEW w \in Worker, Work(w) PROVE QueueOK'
  BY <1>1, <1>5, <1>6, <1>9 DEF Work, Take, LookClosed, CallDirectly, DirectCallFails, Continue, Fetch,
     Publish, SyncDirectory, FailUnpublished, GiveUp
<1>10. CASE StartRun \/ RecoverCall \/ BeginWork \/ RequestStop \/ \E i \in Identity : Recover(i)
  BY <1>1, <1>10 DEF StartRun, RecoverCall, BeginWork, RequestStop, Recover, workerVars
<1>11. CASE UNCHANGED vars
  BY <1>1, <1>11 DEF vars
<1>12. QED
  BY <1>4, <1>7, <1>8, <1>9, <1>10, <1>11 DEF Next

LEMMA WorkersStep == TypeInv /\ [Next]_vars => WorkersOK'
<1> SUFFICES ASSUME TypeInv, [Next]_vars PROVE WorkersOK'
  OBVIOUS
<1> USE DEF TypeInv, WorkersOK, Calls
<1>1. CASE UNCHANGED workerVars
  BY <1>1 DEF workerVars
<1>2. CASE EndRun \/ Crash
  BY <1>2 DEF EndRun, Crash, ProcessEnds
<1>3. CASE Serve
  <2>1. PICK r \in Request : r = Head(queue)
    BY <1>3, OldestRequest DEF Serve
  <2>2. Apply(r.op, r.identity, r.content) /\ Answer(r.from, "ok") /\ Told(r.from, r.op)
        /\ UNCHANGED <<step, row, body>>
    BY <1>3, <2>1 DEF Serve
  <2>3. r.op = "remaining" => Ceiling - ledger \in Nat
    BY <2>2, ChargeAssumption DEF Apply, Books, StateOK
  <2>4. allowance' \in [Worker -> Nat]
    BY <2>2, <2>3 DEF Told
  <2>5. queue' \in Seq(Request \cup {Stop})
    BY QueueStep DEF QueueOK
  <2>6. QED
    BY <2>2, <2>4 DEF Answer
<1>4. CASE ServeFails
  <2>1. PICK r \in Request : r = Head(queue)
    BY <1>4, OldestRequest DEF ServeFails
  <2>2. Answer(r.from, "failed") /\ UNCHANGED <<step, row, body, allowance>>
    BY <1>4, <2>1 DEF ServeFails
  <2>3. QED
    BY <2>2 DEF Answer
<1>5. ASSUME NEW w \in Worker, Work(w) PROVE WorkersOK'
  <2>1. ASSUME NEW i \in Identity, Take(w, i) PROVE WorkersOK'
    BY <2>1 DEF Take
  <2>2. CASE LookClosed(w)
    BY <2>2 DEF LookClosed
  <2>3. CASE PutRequest(w)
    BY <2>3 DEF PutRequest
  <2>4. CASE CallDirectly(w)
    <3>1. Apply(step[w], row[w], body[w]) /\ Answer(w, "ok") /\ Told(w, step[w])
          /\ UNCHANGED <<step, row, body>>
      BY <2>4 DEF CallDirectly
    <3>2. step[w] = "remaining" => Ceiling - ledger \in Nat
      BY <3>1, ChargeAssumption DEF Apply, Books, StateOK
    <3>3. allowance' \in [Worker -> Nat]
      BY <3>1, <3>2 DEF Told
    <3>4. QED
      BY <3>1, <3>3 DEF Answer
  <2>5. CASE DirectCallFails(w)
    BY <2>5 DEF DirectCallFails, Answer
  <2>6. CASE CallTimesOut(w)
    BY <2>6 DEF CallTimesOut
  <2>7. CASE Continue(w)
    <3>1. CASE Idle(w)
      BY <3>1 DEF Idle, Goto
    <3>2. CASE /\ \/ step[w] = "remaining" /\ Goto(w, "fetch")
                  \/ step[w] = "reserve" /\ Goto(w, "publish")
                  \/ step[w] = "mark" /\ Goto(w, "complete")
               /\ UNCHANGED <<row, body, allowance>>
      BY <3>2 DEF Goto
    <3>3. QED
      BY <2>7, <3>1, <3>2 DEF Continue
  <2>8. CASE Fetch(w)
    BY <2>8 DEF Fetch, Goto
  <2>9. CASE Publish(w)
    BY <2>9 DEF Publish, Goto
  <2>10. CASE SyncDirectory(w)
    BY <2>10 DEF SyncDirectory, Goto
  <2>11. CASE FailUnpublished(w)
    BY <2>11 DEF FailUnpublished, Goto
  <2>12. CASE GiveUp(w)
    BY <2>12 DEF GiveUp, Idle, Goto
  <2>13. QED
    BY <1>5, <2>1, <2>2, <2>3, <2>4, <2>5, <2>6, <2>7, <2>8, <2>9, <2>10, <2>11, <2>12 DEF Work
<1>6. CASE StartRun \/ RecoverCall \/ BeginWork \/ RequestStop \/ StopCoordinator \/ \E i \in Identity : Recover(i)
  BY <1>1, <1>6 DEF StartRun, RecoverCall, BeginWork, RequestStop, StopCoordinator, Recover
<1>7. CASE UNCHANGED vars
  BY <1>1, <1>7 DEF vars
<1>8. QED
  BY <1>2, <1>3, <1>4, <1>5, <1>6, <1>7 DEF Next

LEMMA InitTyped == Init => TypeInv
<1> SUFFICES ASSUME Init PROVE TypeInv
  OBVIOUS
<1>1. Books
  BY ChargeAssumption DEF Init, Books, StateOK, SettledIsCompleted, BelowCeiling, NoCharge
<1>2. RunOK /\ WorkersOK
  BY DEF Init, RunOK, WorkersOK
<1>3. QueueOK
  BY DEF Init, QueueOK
<1>4. QED
  BY <1>1, <1>2, <1>3 DEF TypeInv

LEMMA TypeInvariant == Spec => []TypeInv
<1>1. TypeInv /\ [Next]_vars => TypeInv'
  BY BooksStep, RunStep, QueueStep, WorkersStep DEF TypeInv
<1>2. QED
  BY <1>1, InitTyped, PTL DEF Spec
-----------------------------------------------------------------------------
(* The variables keep their types: in particular a call never names        *)
(* anything but a planned request, and no worker is told a negative        *)
(* allowance.                                                              *)
THEOREM TypeCorrect == Spec => []TypeOK
<1>1. TypeInv => TypeOK
  <2> SUFFICES ASSUME TypeInv PROVE TypeOK
    OBVIOUS
  <2>1. rec \in [identity : Identity, op : Calls] \cup {None}
    BY DEF TypeInv, RunOK, Calls
  <2>2. charge \in [Identity -> [content : Content,
                              status : {"RESERVED", "PUBLISHED", "SETTLED", "RELEASED"}]
                             \cup {NoCharge}]
    BY DEF TypeInv, Books, StateOK, Row
  <2>3. ledger \in Int /\ completion \in [Identity -> Content \cup {None}]
    BY DEF TypeInv, Books, StateOK
  <2>4. QED
    BY <2>1, <2>2, <2>3 DEF TypeInv, RunOK, WorkersOK, QueueOK, TypeOK
<1>2. QED
  BY <1>1, TypeInvariant, PTL

(* A charge is settled exactly when its request has a completion for the   *)
(* charged content, whatever fails, races or dies.                         *)
THEOREM SettledCompleted == Spec => []SettledIsCompleted
<1>1. TypeInv => SettledIsCompleted
  BY DEF TypeInv, Books
<1>2. QED
  BY <1>1, TypeInvariant, PTL

(* No interleaving of stale allowances charges above the ceiling.          *)
THEOREM NeverAboveCeiling == Spec => []BelowCeiling
<1>1. TypeInv => BelowCeiling
  BY DEF TypeInv, Books
<1>2. QED
  BY <1>1, TypeInvariant, PTL

(* The charges implement the budget.                                       *)
THEOREM ChargesImplementBudget == Spec => ImplementsBudget
<1>1. Init => Budget!Init
  BY DEF Init, Budget!Init, Paid, NoCharge
<1>2. TypeInv /\ [Next]_vars => [Budget!Next]_<<ledger, Paid, completion>>
  BY BooksStep
<1>3. QED
  BY <1>1, <1>2, TypeInvariant, PTL DEF Spec, ImplementsBudget, Budget!Spec
-----------------------------------------------------------------------------
(* While the charges of an earlier run are reconciled nobody else calls,   *)
(* and a charge behind the cursor is open only while its calls are made.   *)
Quiet ==
  phase \in {"down", "reconcile"} => queue = <<>> /\ \A w \in Worker : step[w] = "idle" /\ call[w] = "none"

Visited ==
  /\ phase = "down" => passed = {} /\ rec = None
  /\ phase = "reconcile" => \A i \in passed : Open(i) => rec # None /\ rec.identity = i

LEMMA QuietStep == TypeInv /\ Quiet /\ [Next]_vars => Quiet'
<1> SUFFICES ASSUME TypeInv, Quiet, [Next]_vars, phase' \in {"down", "reconcile"}
             PROVE  queue' = <<>> /\ \A w \in Worker : step'[w] = "idle" /\ call'[w] = "none"
  BY DEF Quiet
<1> USE DEF Quiet
<1>1. CASE EndRun \/ Crash
  BY <1>1 DEF EndRun, Crash, ProcessEnds
<1>2. CASE StartRun \/ RecoverCall \/ \E i \in Identity : Recover(i)
  BY <1>2 DEF StartRun, RecoverCall, Recover, workerVars
<1>3. CASE BeginWork \/ RequestStop \/ StopCoordinator
  BY <1>3 DEF BeginWork, RequestStop, StopCoordinator
<1>4. CASE Serve \/ ServeFails
  BY <1>4 DEF Serve, ServeFails, runVars
<1>5. ASSUME NEW w \in Worker, Work(w) PROVE FALSE
  <2>1. phase' \in {"down", "reconcile"} => phase \in {"down", "reconcile"}
    BY <1>5 DEF Work, Take, LookClosed, PutRequest, CallDirectly, DirectCallFails, CallTimesOut,
       Continue, Fetch, Publish, SyncDirectory, FailUnpublished, GiveUp, runVars
  <2>2. step[w] = "idle" /\ call[w] = "none" /\ phase \in {"down", "reconcile"}
    BY <2>1
  <2>3. QED
    BY <1>5, <2>2 DEF Work, Take, LookClosed, PutRequest, CallDirectly, DirectCallFails, CallTimesOut,
       Continue, Fetch, Publish, SyncDirectory, FailUnpublished, GiveUp, Calls
<1>6. CASE UNCHANGED vars
  BY <1>6 DEF vars, runVars, workerVars
<1>7. QED
  BY <1>1, <1>2, <1>3, <1>4, <1>5, <1>6 DEF Next

(* What the calls of the reconciliation leave of a charge.                 *)
LEMMA Effect ==
  ASSUME Books, NEW i \in Identity, NEW c,
         NEW op \in {"mark", "complete", "release"}, Apply(op, i, c)
  PROVE  /\ \A j \in Identity \ {i} : charge'[j] = charge[j]
         /\ op # "mark" => charge'[i].status \notin {"RESERVED", "PUBLISHED"}
<1>1. CASE op = "mark" /\ MarkPublished(i)
  BY <1>1 DEF MarkPublished, SetStatus, stateVars, Books, StateOK
<1>2. CASE op = "complete" /\ CompleteAndSettle(i, c)
  BY <1>2 DEF CompleteAndSettle, SetStatus, Books, StateOK
<1>3. CASE op = "release" /\ ReleaseCharge(i)
  BY <1>3 DEF ReleaseCharge, SetStatus, stateVars, Books, StateOK
<1>4. QED
  BY <1>1, <1>2, <1>3 DEF Apply

LEMMA VisitedStep == TypeInv /\ Quiet /\ Visited /\ [Next]_vars => Visited'
<1> SUFFICES ASSUME TypeInv, Quiet, Visited, [Next]_vars PROVE Visited'
  OBVIOUS
<1>1. CASE EndRun \/ Crash
  BY <1>1 DEF EndRun, Crash, ProcessEnds, Visited
<1>2. CASE StartRun
  BY <1>2 DEF StartRun, Visited
<1>3. CASE BeginWork \/ RequestStop \/ StopCoordinator
  BY <1>3 DEF BeginWork, RequestStop, StopCoordinator, Visited
<1>4. ASSUME NEW i \in Identity, Recover(i) PROVE Visited'
  <2>1. /\ phase = "reconcile" /\ phase' = phase /\ rec = None
        /\ passed' = passed \cup {i} /\ charge' = charge
    BY <1>4 DEF Recover, stateVars
  <2>2. PICK op \in {"mark", "complete", "release"} : rec' = [identity |-> i, op |-> op]
    BY <1>4 DEF Recover
  <2>3. rec' # None /\ rec'.identity = i
    BY <2>2, ChargeAssumption
  <2>4. QED
    BY <2>1, <2>3 DEF Visited, Open
<1>5. CASE RecoverCall
  <2>1. /\ phase' = phase /\ passed' = passed /\ rec # None
        /\ Apply(rec.op, rec.identity, charge[rec.identity].content)
        /\ rec' = IF rec.op = "mark" THEN [identity |-> rec.identity, op |-> "complete"] ELSE None
    BY <1>5 DEF RecoverCall
  <2>2. PICK i \in Identity, op \in {"mark", "complete", "release"} : rec = [identity |-> i, op |-> op]
    BY <2>1 DEF TypeInv, RunOK
  <2>3. /\ \A j \in Identity \ {i} : charge'[j] = charge[j]
        /\ op # "mark" => charge'[i].status \notin {"RESERVED", "PUBLISHED"}
    BY <2>1, <2>2, Effect DEF TypeInv
  <2>4. \A j \in passed : phase = "reconcile" /\ j # i => ~Open(j)
    BY <2>1, <2>2 DEF Visited
  <2>5. passed \subseteq Identity
    BY DEF TypeInv, RunOK
  <2>6. CASE op = "mark"
    <3>1. rec' = [identity |-> i, op |-> "complete"] /\ rec' # None /\ rec'.identity = i
      BY <2>1, <2>2, <2>6, ChargeAssumption
    <3>2. phase # "down"
      BY <2>1 DEF Visited
    <3>3. QED
      BY <2>1, <2>3, <2>4, <2>5, <3>1, <3>2 DEF Visited, Open
  <2>7. CASE op # "mark"
    BY <2>1, <2>2, <2>3, <2>4, <2>5, <2>7 DEF Visited, Open
  <2>8. QED
    BY <2>6, <2>7
<1>6. CASE Serve \/ ServeFails
  <2>1. phase \notin {"down", "reconcile"} /\ phase' = phase
    BY <1>6 DEF Serve, ServeFails, Quiet, runVars
  <2>2. QED
    BY <2>1 DEF Visited
<1>7. ASSUME NEW w \in Worker, Work(w) PROVE Visited'
  <2>1. phase' \notin {"down", "reconcile"}
    <3>1. CASE phase \in {"down", "reconcile"}
      BY <1>7, <3>1 DEF Quiet, Work, Take, LookClosed, PutRequest, CallDirectly, DirectCallFails,
         CallTimesOut, Continue, Fetch, Publish, SyncDirectory, FailUnpublished, GiveUp, Calls
    <3>2. CASE phase \notin {"down", "reconcile"}
      BY <1>7, <3>2 DEF Work, Take, LookClosed, PutRequest, CallDirectly, DirectCallFails,
         CallTimesOut, Continue, Fetch, Publish, SyncDirectory, FailUnpublished, GiveUp, runVars
    <3>3. QED
      BY <3>1, <3>2
  <2>2. QED
    BY <2>1 DEF Visited
<1>8. CASE UNCHANGED vars
  BY <1>8 DEF vars, runVars, stateVars, Visited, Open
<1>9. QED
  BY <1>1, <1>2, <1>3, <1>4, <1>5, <1>6, <1>7, <1>8 DEF Next

(* When workers start, no charge of an earlier run is open: what that run  *)
(* spent was refunded or completed (reconcile_open_charges).               *)
THEOREM NoDebt == Spec => RecoveryLeavesNoDebt
<1>1. Init => Quiet /\ Visited
  BY DEF Init, Quiet, Visited
<1>2. TypeInv /\ Visited /\ [Next]_vars
        => (phase = "reconcile" /\ phase' = "work" => \A i \in Identity : ~Open(i))
  <2> SUFFICES ASSUME TypeInv, Visited, [Next]_vars, phase = "reconcile", phase' = "work"
               PROVE  \A i \in Identity : ~Open(i)
    OBVIOUS
  <2>1. BeginWork
    <3>1. ~(StartRun \/ RecoverCall \/ RequestStop \/ StopCoordinator \/ EndRun \/ Crash
              \/ (\E i \in Identity : Recover(i)) \/ Serve \/ ServeFails)
      BY DEF StartRun, RecoverCall, RequestStop, StopCoordinator, EndRun, Crash, ProcessEnds, Recover,
         Serve, ServeFails, runVars
    <3>2. \A w \in Worker : ~Work(w)
      BY DEF Work, Take, LookClosed, PutRequest, CallDirectly, DirectCallFails, CallTimesOut,
         Continue, Fetch, Publish, SyncDirectory, FailUnpublished, GiveUp, runVars
    <3>3. ~UNCHANGED vars
      BY DEF vars, runVars
    <3>4. QED
      BY <3>1, <3>2, <3>3 DEF Next
  <2>2. QED
    BY <2>1 DEF BeginWork, Visited
<1>3. QED
  BY <1>1, <1>2, TypeInvariant, QuietStep, VisitedStep, PTL DEF Spec, RecoveryLeavesNoDebt
-----------------------------------------------------------------------------
(* What is charged, marked and completed is in the store.  The argument is *)
(* that a request is reserved at most once per run and that its mark comes *)
(* after: a reservation that is served late, when its worker no longer     *)
(* waits, cannot replace the content another call relies on.               *)

Reserves(r, i) == r.op = "reserve" /\ r.identity = i
Marks(r, i) == r.op = "mark" /\ r.identity = i

(* The worker w has its reservation.                                       *)
Reserved(w) ==
  \/ step[w] = "reserve" /\ call[w] = "ok"
  \/ step[w] \in {"publish", "sync", "mark", "complete"}

(* A run hands a request to one worker.                                    *)
HandedOnce ==
  /\ \A w \in Worker : step[w] # "idle" => row[w] \in handed
  /\ \A v, w \in Worker : v # w /\ step[v] # "idle" /\ step[w] # "idle" => row[v] # row[w]
  /\ \A k \in DOMAIN queue : queue[k] # Stop => queue[k].identity \in handed

(* The one request a worker waits for is its own.                          *)
OwnRequest ==
  /\ \A k \in DOMAIN queue, w \in Worker : queue[k].from = w =>
       /\ call[w] = "queued" /\ step[w] # "idle"
       /\ queue[k].op = step[w] /\ queue[k].identity = row[w] /\ queue[k].content = body[w]
  /\ \A k, l \in DOMAIN queue : queue[k].from \in Worker /\ queue[k].from = queue[l].from => k = l

(* A queued reservation is the only one of its request, and the worker that *)
(* asked for it is not past it; a mark is queued after its reservation.    *)
ReservedOnce ==
  /\ \A k, l \in DOMAIN queue, i \in Identity : Reserves(queue[k], i) /\ Reserves(queue[l], i) => k = l
  /\ \A k \in DOMAIN queue, w \in Worker : Reserves(queue[k], row[w]) /\ step[w] # "idle" =>
       \/ step[w] = "reserve" /\ call[w] \in {"queued", "failed"}
       \/ step[w] = "release"
  /\ \A k \in DOMAIN queue, i \in Identity : Marks(queue[k], i) =>
       /\ \A l \in DOMAIN queue : ~Reserves(queue[l], i)
       /\ \A w \in Worker : step[w] # "idle" /\ row[w] = i => step[w] \in {"mark", "complete"}

(* A worker publishes what it was charged for, and what is marked, or is   *)
(* about to be, is in the store.                                           *)
Backing ==
  /\ \A w \in Worker : Reserved(w) => charge[row[w]].content = body[w]
  /\ \A w \in Worker : step[w] \in {"sync", "mark", "complete"} => body[w] \in store
  /\ \A k \in DOMAIN queue, i \in Identity : Marks(queue[k], i) => charge[i].content \in store
  /\ rec # None /\ rec.op \in {"mark", "complete"} => charge[rec.identity].content \in store
  /\ \A i \in Identity : charge[i].status \in {"PUBLISHED", "SETTLED"} => charge[i].content \in store

OnlyWhileReconciling == rec # None => phase = "reconcile"

BackedInv == TypeInv /\ Quiet /\ OnlyWhileReconciling /\ HandedOnce /\ OwnRequest /\ ReservedOnce /\ Backing

(* The other workers are where they were.                                  *)
Others(w) ==
  \A v \in Worker \ {w} : step'[v] = step[v] /\ call'[v] = call[v] /\ row'[v] = row[v] /\ body'[v] = body[v]

(* What is queued is a request or the sentinel, which is of no worker.     *)
LEMMA QueuedTyped ==
  ASSUME QueueOK, NEW k \in DOMAIN queue
  PROVE  /\ queue[k] \in Request \cup {Stop}
         /\ queue[k].from \in Worker => queue[k] # Stop
         /\ queue[k] # Stop => queue[k].op \in Calls /\ queue[k].identity \in Identity
         /\ Stop.op = "stop" /\ Stop.from = None
<1>1. queue[k] \in Request \cup {Stop}
  BY DEF QueueOK
<1>2. Stop.op = "stop" /\ Stop.from = None /\ None \notin Worker
  BY ChargeAssumption DEF Stop
<1>3. QED
  BY <1>1, <1>2 DEF Request

(* Taking the oldest request moves the others up by one.                   *)
LEMMA TailMoves ==
  ASSUME QueueOK, queue # <<>>, queue' = Tail(queue)
  PROVE  /\ 1 \in DOMAIN queue /\ Head(queue) = queue[1]
         /\ \A k \in DOMAIN queue' : k \in Nat /\ k + 1 \in DOMAIN queue /\ k + 1 # 1 /\ queue'[k] = queue[k + 1]
BY DEF QueueOK

(* A request that is put comes after the others.                           *)
LEMMA AppendMoves ==
  ASSUME QueueOK, NEW r, queue' = Append(queue, r)
  PROVE  \A k \in DOMAIN queue' :
           \/ k \in DOMAIN queue /\ queue'[k] = queue[k]
           \/ k = Len(queue) + 1 /\ queue'[k] = r
<1>1. PICK n \in Nat : n = Len(queue) /\ DOMAIN queue = 1..n
  BY DEF QueueOK
<1>2. DOMAIN queue' = 1..(n + 1) /\ queue'[n + 1] = r /\ \A k \in 1..n : queue'[k] = queue[k]
  BY <1>1 DEF QueueOK
<1>3. QED
  BY <1>1, <1>2

(* A call that times out only hides who asked.                             *)
LEMMA TimeOutMoves ==
  ASSUME QueueOK, NEW w \in Worker, CallTimesOut(w)
  PROVE  /\ DOMAIN queue' = DOMAIN queue
         /\ \A k \in DOMAIN queue :
              /\ queue'[k].op = queue[k].op /\ queue'[k].identity = queue[k].identity
              /\ queue'[k].content = queue[k].content
              /\ queue[k] # Stop => queue'[k].op # "stop"
              /\ queue[k] = Stop => queue'[k] = Stop
              /\ queue[k].from = w => queue'[k].from = None
              /\ queue[k].from # w => queue'[k].from = queue[k].from
<1>1. queue' = [k \in DOMAIN queue |-> IF queue[k].from = w THEN [queue[k] EXCEPT !.from = None] ELSE queue[k]]
  BY DEF CallTimesOut
<1>2. ASSUME NEW k \in DOMAIN queue
      PROVE  /\ queue'[k].op = queue[k].op /\ queue'[k].identity = queue[k].identity
             /\ queue'[k].content = queue[k].content
             /\ queue[k] # Stop => queue'[k].op # "stop"
             /\ queue[k] = Stop => queue'[k] = Stop
             /\ queue[k].from = w => queue'[k].from = None
             /\ queue[k].from # w => queue'[k].from = queue[k].from
  <2>1. queue[k] # Stop => queue[k].op # "stop"
    BY QueuedTyped DEF Calls
  <2>2. CASE queue[k].from = w
    <3>1. queue[k] # Stop /\ queue[k] \in Request
      BY <2>2, QueuedTyped
    <3>2. queue'[k] = [queue[k] EXCEPT !.from = None]
      BY <1>1, <2>2
    <3>3. queue'[k].op = queue[k].op /\ queue'[k].identity = queue[k].identity
          /\ queue'[k].content = queue[k].content /\ queue'[k].from = None
      BY <3>1, <3>2 DEF Request
    <3>4. QED
      BY <2>1, <2>2, <3>1, <3>3
  <2>3. CASE queue[k].from # w
    BY <1>1, <2>1, <2>3
  <2>4. QED
    BY <2>2, <2>3
<1>3. QED
  BY <1>1, <1>2

(* A run hands a request to one worker.                                    *)
LEMMA HandedStep == TypeInv /\ Quiet /\ HandedOnce /\ [Next]_vars => HandedOnce'
<1> SUFFICES ASSUME TypeInv, Quiet, HandedOnce, [Next]_vars PROVE HandedOnce'
  OBVIOUS
<1> USE DEF HandedOnce
<1>1. CASE EndRun \/ Crash
  BY <1>1 DEF EndRun, Crash, ProcessEnds
<1>2. CASE UNCHANGED <<step, row, handed, queue>>
  BY <1>2
<1>3. CASE StopCoordinator
  <2>1. queue' = Append(queue, Stop) /\ UNCHANGED <<step, row, handed>>
    BY <1>3 DEF StopCoordinator, workerVars
  <2>2. \A k \in DOMAIN queue' : (k \in DOMAIN queue /\ queue'[k] = queue[k]) \/ queue'[k] = Stop
    BY <2>1, AppendMoves DEF TypeInv
  <2>3. QED
    BY <2>1, <2>2
<1>4. CASE Serve \/ ServeFails
  <2>1. queue # <<>> /\ queue' = Tail(queue) /\ UNCHANGED <<step, row, handed>>
    BY <1>4 DEF Serve, ServeFails, runVars
  <2>2. \A k \in DOMAIN queue' : k + 1 \in DOMAIN queue /\ queue'[k] = queue[k + 1]
    BY <2>1, TailMoves DEF TypeInv
  <2>3. QED
    BY <2>1, <2>2
<1>5. ASSUME NEW w \in Worker, Work(w) PROVE HandedOnce'
  <2>1. ASSUME NEW i \in Identity, Take(w, i) PROVE HandedOnce'
    <3>1. /\ i \notin handed /\ handed' = handed \cup {i}
          /\ row'[w] = i /\ step[w] = "idle" /\ queue' = queue
          /\ \A v \in Worker \ {w} : step'[v] = step[v] /\ row'[v] = row[v]
      BY <2>1 DEF Take, TypeInv, WorkersOK
    <3>2. \A v \in Worker : step'[v] # "idle" => row'[v] \in handed'
      BY <3>1
    <3>3. \A u, v \in Worker : u # v /\ step'[u] # "idle" /\ step'[v] # "idle" => row'[u] # row'[v]
      BY <3>1
    <3>4. \A k \in DOMAIN queue' : queue'[k] # Stop => queue'[k].identity \in handed'
      BY <3>1
    <3>5. QED
      BY <3>2, <3>3, <3>4
  <2>2. CASE PutRequest(w)
    <3> DEFINE r == [from |-> w, op |-> step[w], identity |-> row[w], content |-> body[w]]
    <3>1. queue' = Append(queue, r) /\ UNCHANGED <<step, row, handed>> /\ step[w] # "idle"
      BY <2>2 DEF PutRequest, runVars, TypeInv, WorkersOK, Calls
    <3>2. \A k \in DOMAIN queue' : (k \in DOMAIN queue /\ queue'[k] = queue[k]) \/ queue'[k] = r
      BY <3>1, AppendMoves DEF TypeInv
    <3>3. r.identity \in handed
      BY <3>1
    <3>4. \A k \in DOMAIN queue' : queue'[k] # Stop => queue'[k].identity \in handed'
      BY <3>1, <3>2, <3>3
    <3>5. QED
      BY <3>1, <3>4
  <2>3. CASE CallTimesOut(w)
    <3>1. UNCHANGED <<step, row, handed>>
      BY <2>3 DEF CallTimesOut, runVars
    <3>2. \A k \in DOMAIN queue' : k \in DOMAIN queue /\ queue'[k].identity = queue[k].identity
                                   /\ (queue[k] = Stop => queue'[k] = Stop)
      BY <2>3, TimeOutMoves DEF TypeInv
    <3>3. QED
      BY <3>1, <3>2
  <2>4. CASE LookClosed(w) \/ CallDirectly(w) \/ DirectCallFails(w)
    BY <1>2, <2>4 DEF LookClosed, CallDirectly, DirectCallFails, runVars
  <2>5. CASE Continue(w) \/ Fetch(w) \/ Publish(w) \/ SyncDirectory(w) \/ FailUnpublished(w) \/ GiveUp(w)
    <3>1. /\ UNCHANGED <<handed, queue>> /\ step[w] # "idle"
          /\ \A v \in Worker \ {w} : step'[v] = step[v] /\ row'[v] = row[v]
          /\ step'[w] = "idle" \/ row'[w] = row[w]
      BY <2>5 DEF Continue, Fetch, Publish, SyncDirectory, FailUnpublished, GiveUp, Idle, Goto, runVars,
         TypeInv, WorkersOK
    <3>2. QED
      BY <3>1
  <2>6. QED
    BY <1>5, <2>1, <2>2, <2>3, <2>4, <2>5 DEF Work
<1>6. CASE StartRun \/ RecoverCall \/ BeginWork \/ RequestStop \/ \E i \in Identity : Recover(i)
  BY <1>2, <1>6 DEF StartRun, RecoverCall, BeginWork, RequestStop, Recover, workerVars
<1>7. CASE UNCHANGED vars
  BY <1>2, <1>7 DEF vars, runVars, workerVars
<1>8. QED
  BY <1>1, <1>3, <1>4, <1>5, <1>6, <1>7 DEF Next

(* The step of a worker that calls nobody: it waits for no queued request. *)
LEMMA LocalStep ==
  ASSUME TypeInv, OwnRequest, NEW w \in Worker,
         \/ LookClosed(w) \/ DirectCallFails(w) \/ CallDirectly(w) \/ Continue(w) \/ Fetch(w)
         \/ Publish(w) \/ SyncDirectory(w) \/ FailUnpublished(w) \/ GiveUp(w)
  PROVE  /\ Others(w) /\ UNCHANGED <<queue, rec, handed>> /\ store \subseteq store'
         /\ \A k \in DOMAIN queue : queue[k].from # w
<1>1. Others(w) /\ UNCHANGED <<queue, rec, handed>> /\ store \subseteq store'
  BY DEF Others, LookClosed, DirectCallFails, CallDirectly, Continue, Fetch, Publish, SyncDirectory,
     FailUnpublished, GiveUp, Idle, Goto, Answer, runVars, TypeInv, WorkersOK
<1>2. call[w] # "queued" \/ step[w] \in {"fetch", "publish", "sync"}
  BY DEF LookClosed, DirectCallFails, CallDirectly, Continue, Fetch, Publish, SyncDirectory,
     FailUnpublished, GiveUp
<1>3. \A k \in DOMAIN queue : queue[k].from # w
  <2> SUFFICES ASSUME NEW k \in DOMAIN queue, queue[k].from = w PROVE FALSE
    OBVIOUS
  <2>1. call[w] = "queued" /\ queue[k].op = step[w]
    BY DEF OwnRequest
  <2>2. queue[k].op \in Calls
    BY QueuedTyped DEF TypeInv
  <2>3. QED
    BY <1>2, <2>1, <2>2 DEF Calls
<1>4. QED
  BY <1>1, <1>3

(* The one request a worker waits for is its own.                          *)
LEMMA OwnStep == TypeInv /\ Quiet /\ OwnRequest /\ [Next]_vars => OwnRequest'
<1> SUFFICES ASSUME TypeInv, Quiet, OwnRequest, [Next]_vars PROVE OwnRequest'
  OBVIOUS
<1>1. CASE queue' = <<>>
  BY <1>1 DEF OwnRequest
<1>2. CASE UNCHANGED <<step, call, row, body, queue>>
  BY <1>2 DEF OwnRequest
<1>3. CASE StopCoordinator
  <2>1. queue' = Append(queue, Stop) /\ UNCHANGED <<step, call, row, body>>
    BY <1>3 DEF StopCoordinator, workerVars
  <2>2. \A k \in DOMAIN queue' : (k \in DOMAIN queue /\ queue'[k] = queue[k]) \/ queue'[k] = Stop
    BY <2>1, AppendMoves DEF TypeInv
  <2>3. Stop.from \notin Worker
    BY ChargeAssumption DEF Stop
  <2>4. QED
    BY <2>1, <2>2, <2>3 DEF OwnRequest
<1>4. CASE Serve \/ ServeFails
  <2>1. queue # <<>> /\ queue' = Tail(queue) /\ UNCHANGED <<step, row, body>>
    BY <1>4 DEF Serve, ServeFails
  <2>2. /\ 1 \in DOMAIN queue /\ Head(queue) = queue[1]
        /\ \A k \in DOMAIN queue' : k \in Nat /\ k + 1 \in DOMAIN queue /\ k + 1 # 1 /\ queue'[k] = queue[k + 1]
    BY <2>1, TailMoves DEF TypeInv
  <2>3. \A v \in Worker : v # queue[1].from => call'[v] = call[v]
    BY <1>4, <2>2 DEF Serve, ServeFails, Answer, TypeInv, WorkersOK
  <2>4. \A k \in DOMAIN queue' : queue'[k].from \in Worker => queue'[k].from # queue[1].from
    BY <2>2 DEF OwnRequest
  <2>5. QED
    BY <2>1, <2>2, <2>3, <2>4 DEF OwnRequest
<1>5. ASSUME NEW w \in Worker, Work(w) PROVE OwnRequest'
  <2>1. ASSUME NEW i \in Identity, Take(w, i) PROVE OwnRequest'
    <3>1. Others(w) /\ queue' = queue /\ step[w] = "idle"
      BY <2>1 DEF Take, Others, TypeInv, WorkersOK
    <3>2. \A k \in DOMAIN queue : queue[k].from # w
      BY <3>1 DEF OwnRequest
    <3>3. QED
      BY <3>1, <3>2 DEF OwnRequest, Others
  <2>2. CASE PutRequest(w)
    <3> DEFINE r == [from |-> w, op |-> step[w], identity |-> row[w], content |-> body[w]]
    <3>1. queue' = Append(queue, r) /\ UNCHANGED <<step, row, body>> /\ step[w] # "idle" /\ call[w] = "open"
          /\ call'[w] = "queued" /\ \A v \in Worker \ {w} : call'[v] = call[v]
      BY <2>2 DEF PutRequest, TypeInv, WorkersOK, Calls
    <3>2. \A k \in DOMAIN queue' : \/ k \in DOMAIN queue /\ queue'[k] = queue[k]
                                   \/ k = Len(queue) + 1 /\ queue'[k] = r
      BY <3>1, AppendMoves DEF TypeInv
    <3>3. \A k \in DOMAIN queue : queue[k].from # w
      BY <3>1 DEF OwnRequest
    <3>4. r.from = w /\ r.op = step[w] /\ r.identity = row[w] /\ r.content = body[w]
      OBVIOUS
    <3> HIDE DEF r
    <3>5. \A k \in DOMAIN queue', v \in Worker : queue'[k].from = v =>
            /\ call'[v] = "queued" /\ step'[v] # "idle"
            /\ queue'[k].op = step'[v] /\ queue'[k].identity = row'[v] /\ queue'[k].content = body'[v]
      BY <3>1, <3>2, <3>3, <3>4 DEF OwnRequest
    <3>6. \A k, l \in DOMAIN queue' : queue'[k].from \in Worker /\ queue'[k].from = queue'[l].from => k = l
      BY <3>2, <3>3, <3>4 DEF OwnRequest
    <3>7. QED
      BY <3>5, <3>6 DEF OwnRequest
  <2>3. CASE CallTimesOut(w)
    <3>1. UNCHANGED <<step, row, body>> /\ \A v \in Worker \ {w} : call'[v] = call[v]
      BY <2>3 DEF CallTimesOut, TypeInv, WorkersOK
    <3>2. /\ DOMAIN queue' = DOMAIN queue
          /\ \A k \in DOMAIN queue :
              /\ queue'[k].op = queue[k].op /\ queue'[k].identity = queue[k].identity
              /\ queue'[k].content = queue[k].content
              /\ queue[k].from = w => queue'[k].from = None
              /\ queue[k].from # w => queue'[k].from = queue[k].from
      BY <2>3, TimeOutMoves DEF TypeInv
    <3>3. \A k \in DOMAIN queue' : queue'[k].from \in Worker => queue'[k].from = queue[k].from /\ queue[k].from # w
      BY <3>2, ChargeAssumption
    <3>4. QED
      BY <3>1, <3>2, <3>3 DEF OwnRequest
  <2>4. CASE \/ LookClosed(w) \/ DirectCallFails(w) \/ CallDirectly(w) \/ Continue(w) \/ Fetch(w)
             \/ Publish(w) \/ SyncDirectory(w) \/ FailUnpublished(w) \/ GiveUp(w)
    <3>1. Others(w) /\ queue' = queue /\ \A k \in DOMAIN queue : queue[k].from # w
      BY <2>4, LocalStep
    <3>2. QED
      BY <3>1 DEF OwnRequest, Others
  <2>5. QED
    BY <1>5, <2>1, <2>2, <2>3, <2>4 DEF Work
<1>6. CASE EndRun \/ Crash
  BY <1>1, <1>6 DEF EndRun, Crash, ProcessEnds
<1>7. CASE StartRun \/ RecoverCall \/ BeginWork \/ RequestStop \/ \E i \in Identity : Recover(i)
  BY <1>2, <1>7 DEF StartRun, RecoverCall, BeginWork, RequestStop, Recover, workerVars
<1>8. CASE UNCHANGED vars
  BY <1>2, <1>8 DEF vars, workerVars
<1>9. QED
  BY <1>3, <1>4, <1>5, <1>6, <1>7, <1>8 DEF Next

(* A queued reservation is the only one of its request, and is not behind  *)
(* its worker.                                                             *)
LEMMA ReservedStep ==
  TypeInv /\ Quiet /\ HandedOnce /\ OwnRequest /\ ReservedOnce /\ [Next]_vars => ReservedOnce'
<1> SUFFICES ASSUME TypeInv, Quiet, HandedOnce, OwnRequest, ReservedOnce, [Next]_vars PROVE ReservedOnce'
  OBVIOUS
<1>1. CASE queue' = <<>>
  BY <1>1 DEF ReservedOnce
<1>2. CASE UNCHANGED <<step, call, row, queue>>
  BY <1>2 DEF ReservedOnce
<1>3. CASE StopCoordinator
  <2>1. queue' = Append(queue, Stop) /\ UNCHANGED <<step, call, row>>
    BY <1>3 DEF StopCoordinator, workerVars
  <2>2. \A k \in DOMAIN queue' : (k \in DOMAIN queue /\ queue'[k] = queue[k]) \/ queue'[k] = Stop
    BY <2>1, AppendMoves DEF TypeInv
  <2>3. \A i : ~Reserves(Stop, i) /\ ~Marks(Stop, i)
    BY DEF Stop, Reserves, Marks
  <2>4. QED
    BY <2>1, <2>2, <2>3 DEF ReservedOnce
<1>4. CASE Serve \/ ServeFails
  <2>1. queue # <<>> /\ queue' = Tail(queue) /\ UNCHANGED <<step, row>>
    BY <1>4 DEF Serve, ServeFails
  <2>2. /\ 1 \in DOMAIN queue /\ Head(queue) = queue[1]
        /\ \A k \in DOMAIN queue' : k \in Nat /\ k + 1 \in DOMAIN queue /\ k + 1 # 1 /\ queue'[k] = queue[k + 1]
    BY <2>1, TailMoves DEF TypeInv
  <2>3. \A v \in Worker : v # queue[1].from => call'[v] = call[v]
    BY <1>4, <2>2 DEF Serve, ServeFails, Answer, TypeInv, WorkersOK
  <2>4. \A k, l \in DOMAIN queue', i \in Identity : Reserves(queue'[k], i) /\ Reserves(queue'[l], i) => k = l
    BY <2>2 DEF ReservedOnce
  <2>5. ASSUME NEW k \in DOMAIN queue', NEW w \in Worker, Reserves(queue'[k], row'[w]), step'[w] # "idle"
        PROVE  \/ step'[w] = "reserve" /\ call'[w] \in {"queued", "failed"}
               \/ step'[w] = "release"
    <3>1. k + 1 \in DOMAIN queue /\ k + 1 # 1 /\ Reserves(queue[k + 1], row[w]) /\ step[w] # "idle"
      BY <2>1, <2>2, <2>5
    <3>2. (step[w] = "reserve" /\ call[w] \in {"queued", "failed"}) \/ step[w] = "release"
      BY <3>1 DEF ReservedOnce
    <3>3. CASE w = queue[1].from
      <4>1. step[w] = queue[1].op /\ queue[1].identity = row[w] /\ row[w] \in Identity
        BY <2>2, <3>1, <3>3 DEF OwnRequest, TypeInv, WorkersOK
      <4>2. step[w] # "reserve"
        BY <2>2, <3>1, <4>1 DEF ReservedOnce, Reserves
      <4>3. QED
        BY <2>1, <3>2, <4>2
    <3>4. CASE w # queue[1].from
      BY <2>1, <2>3, <3>2, <3>4
    <3>5. QED
      BY <3>3, <3>4
  <2>6. ASSUME NEW k \in DOMAIN queue', NEW i \in Identity, Marks(queue'[k], i)
        PROVE  /\ \A l \in DOMAIN queue' : ~Reserves(queue'[l], i)
               /\ \A w \in Worker : step'[w] # "idle" /\ row'[w] = i => step'[w] \in {"mark", "complete"}
    BY <2>1, <2>2, <2>6 DEF ReservedOnce
  <2>7. QED
    BY <2>4, <2>5, <2>6 DEF ReservedOnce
<1>5. ASSUME NEW w \in Worker, Work(w) PROVE ReservedOnce'
  <2>1. ASSUME NEW i \in Identity, Take(w, i) PROVE ReservedOnce'
    <3>1. i \notin handed /\ row'[w] = i /\ queue' = queue /\ Others(w)
      BY <2>1 DEF Take, Others, TypeInv, WorkersOK
    <3>2. \A k \in DOMAIN queue : ~Reserves(queue[k], i) /\ ~Marks(queue[k], i)
      BY <3>1 DEF HandedOnce, Reserves, Marks, Stop
    <3>3. \A k \in DOMAIN queue', v \in Worker : Reserves(queue'[k], row'[v]) /\ step'[v] # "idle" =>
            (step'[v] = "reserve" /\ call'[v] \in {"queued", "failed"}) \/ step'[v] = "release"
      BY <3>1, <3>2 DEF ReservedOnce, Others
    <3>4. \A k \in DOMAIN queue', j \in Identity : Marks(queue'[k], j) =>
            /\ \A l \in DOMAIN queue' : ~Reserves(queue'[l], j)
            /\ \A v \in Worker : step'[v] # "idle" /\ row'[v] = j => step'[v] \in {"mark", "complete"}
      BY <3>1, <3>2 DEF ReservedOnce, Others
    <3>5. QED
      BY <3>1, <3>3, <3>4 DEF ReservedOnce
  <2>2. CASE PutRequest(w)
    <3> DEFINE r == [from |-> w, op |-> step[w], identity |-> row[w], content |-> body[w]]
    <3>1. queue' = Append(queue, r) /\ UNCHANGED <<step, row>> /\ step[w] # "idle" /\ call[w] = "open"
          /\ call'[w] = "queued" /\ \A v \in Worker \ {w} : call'[v] = call[v]
      BY <2>2 DEF PutRequest, TypeInv, WorkersOK, Calls
    <3>2. \A k \in DOMAIN queue' : \/ k \in DOMAIN queue /\ queue'[k] = queue[k]
                                   \/ k = Len(queue) + 1 /\ queue'[k] = r
      BY <3>1, AppendMoves DEF TypeInv
    <3>3. r.op = step[w] /\ r.identity = row[w] /\ row[w] \in Identity
      BY <3>1 DEF TypeInv, WorkersOK
    <3> HIDE DEF r
    <3>4. step[w] = "reserve" => \A k \in DOMAIN queue : ~Reserves(queue[k], row[w]) /\ ~Marks(queue[k], row[w])
      BY <3>1, <3>3 DEF ReservedOnce
    <3>5. step[w] = "mark" => \A k \in DOMAIN queue : ~Reserves(queue[k], row[w])
      BY <3>1, <3>3 DEF ReservedOnce
    <3>6. \A v \in Worker : v # w /\ step[v] # "idle" => row[v] # row[w]
      BY <3>1 DEF HandedOnce
    <3>7. \A k, l \in DOMAIN queue', i \in Identity : Reserves(queue'[k], i) /\ Reserves(queue'[l], i) => k = l
      BY <3>2, <3>3, <3>4 DEF ReservedOnce, Reserves
    <3>8. ASSUME NEW k \in DOMAIN queue', NEW v \in Worker, Reserves(queue'[k], row'[v]), step'[v] # "idle"
          PROVE  (step'[v] = "reserve" /\ call'[v] \in {"queued", "failed"}) \/ step'[v] = "release"
      <4>1. CASE k \in DOMAIN queue /\ queue'[k] = queue[k]
        BY <3>1, <3>8, <4>1 DEF ReservedOnce
      <4>2. CASE queue'[k] = r
        BY <3>1, <3>3, <3>6, <3>8, <4>2 DEF Reserves
      <4>3. QED
        BY <3>2, <4>1, <4>2
    <3>9. ASSUME NEW k \in DOMAIN queue', NEW i \in Identity, Marks(queue'[k], i)
          PROVE  /\ \A l \in DOMAIN queue' : ~Reserves(queue'[l], i)
                 /\ \A v \in Worker : step'[v] # "idle" /\ row'[v] = i => step'[v] \in {"mark", "complete"}
      <4>1. CASE k \in DOMAIN queue /\ queue'[k] = queue[k]
        <5>1. ~Reserves(r, i)
          BY <3>3, <3>4, <3>9, <4>1 DEF Reserves
        <5>2. QED
          BY <3>1, <3>2, <3>9, <4>1, <5>1 DEF ReservedOnce
      <4>2. CASE queue'[k] = r
        <5>1. step[w] = "mark" /\ i = row[w]
          BY <3>3, <3>9, <4>2 DEF Marks
        <5>2. ~Reserves(r, i)
          BY <3>3, <5>1 DEF Reserves
        <5>3. QED
          BY <3>1, <3>2, <3>5, <3>6, <5>1, <5>2
      <4>3. QED
        BY <3>2, <4>1, <4>2
    <3>10. QED
      BY <3>7, <3>8, <3>9 DEF ReservedOnce
  <2>3. CASE CallTimesOut(w)
    <3>1. UNCHANGED <<step, row>> /\ call'[w] = "failed" /\ \A v \in Worker \ {w} : call'[v] = call[v]
      BY <2>3 DEF CallTimesOut, TypeInv, WorkersOK
    <3>2. DOMAIN queue' = DOMAIN queue
          /\ \A k \in DOMAIN queue : \A i :
               /\ Reserves(queue'[k], i) <=> Reserves(queue[k], i)
               /\ Marks(queue'[k], i) <=> Marks(queue[k], i)
      BY <2>3, TimeOutMoves DEF TypeInv, Reserves, Marks
    <3>3. \A k \in DOMAIN queue', v \in Worker : Reserves(queue'[k], row'[v]) /\ step'[v] # "idle" =>
            (step'[v] = "reserve" /\ call'[v] \in {"queued", "failed"}) \/ step'[v] = "release"
      BY <3>1, <3>2 DEF ReservedOnce
    <3>4. QED
      BY <3>1, <3>2, <3>3 DEF ReservedOnce
  <2>4. CASE \/ LookClosed(w) \/ DirectCallFails(w) \/ CallDirectly(w) \/ Continue(w) \/ Fetch(w)
             \/ Publish(w) \/ SyncDirectory(w) \/ FailUnpublished(w) \/ GiveUp(w)
    <3>1. Others(w) /\ queue' = queue
      BY <2>4, LocalStep
    <3>2. step[w] # "idle" /\ row[w] \in Identity
      BY <2>4 DEF LookClosed, DirectCallFails, CallDirectly, Continue, Fetch, Publish, SyncDirectory,
         FailUnpublished, GiveUp, Calls, TypeInv, WorkersOK
    <3>3. CASE step'[w] = "idle"
      BY <3>1, <3>3 DEF ReservedOnce, Others
    <3>4. CASE step'[w] # "idle"
      <4>1. row'[w] = row[w]
        BY <2>4, <3>4 DEF LookClosed, DirectCallFails, CallDirectly, Continue, Fetch, Publish, SyncDirectory,
           FailUnpublished, GiveUp, Idle, Goto, TypeInv, WorkersOK
      <4>2. (step[w] = "reserve" /\ call[w] \in {"queued", "failed"}) \/ step[w] = "release"
              => (step'[w] = "reserve" /\ call'[w] \in {"queued", "failed"}) \/ step'[w] = "release"
        BY <2>4, <3>4 DEF LookClosed, DirectCallFails, CallDirectly, Continue, Fetch, Publish, SyncDirectory,
           FailUnpublished, GiveUp, Idle, Goto, TypeInv, WorkersOK
      <4>3. step[w] \in {"mark", "complete"} => step'[w] \in {"mark", "complete"}
        BY <2>4, <3>4 DEF LookClosed, DirectCallFails, CallDirectly, Continue, Fetch, Publish, SyncDirectory,
           FailUnpublished, GiveUp, Idle, Goto, TypeInv, WorkersOK
      <4>4. QED
        BY <3>1, <3>2, <4>1, <4>2, <4>3 DEF ReservedOnce, Others
    <3>5. QED
      BY <3>3, <3>4
  <2>5. QED
    BY <1>5, <2>1, <2>2, <2>3, <2>4 DEF Work
<1>6. CASE EndRun \/ Crash
  BY <1>1, <1>6 DEF EndRun, Crash, ProcessEnds
<1>7. CASE StartRun \/ RecoverCall \/ BeginWork \/ RequestStop \/ \E i \in Identity : Recover(i)
  BY <1>2, <1>7 DEF StartRun, RecoverCall, BeginWork, RequestStop, Recover, workerVars
<1>8. CASE UNCHANGED vars
  BY <1>2, <1>8 DEF vars, workerVars
<1>9. QED
  BY <1>3, <1>4, <1>5, <1>6, <1>7, <1>8 DEF Next

(* What a call leaves of the content and the status of the charges.        *)
LEMMA ContentEffect ==
  ASSUME Books, NEW op, NEW i \in Identity, NEW c, op = "reserve" => c \in Content, Apply(op, i, c)
  PROVE  /\ \A j \in Identity \ {i} : charge'[j] = charge[j]
         /\ op # "reserve" => charge'[i].content = charge[i].content
         /\ op = "reserve" => charge'[i].content = c /\ charge'[i].status = "RESERVED"
         /\ charge'[i].status \in {"PUBLISHED", "SETTLED"} =>
              op = "mark" \/ charge[i].status \in {"PUBLISHED", "SETTLED"}
<1>1. CASE op = "remaining" /\ UNCHANGED stateVars
  BY <1>1 DEF stateVars
<1>2. CASE op = "reserve" /\ ReserveCharge(i, c)
  BY <1>2 DEF ReserveCharge, Books, StateOK
<1>3. CASE op = "mark" /\ MarkPublished(i)
  BY <1>3 DEF MarkPublished, SetStatus, stateVars, Books, StateOK
<1>4. CASE op = "complete" /\ CompleteAndSettle(i, c)
  BY <1>4 DEF CompleteAndSettle, SetStatus, Books, StateOK
<1>5. CASE op = "release" /\ ReleaseCharge(i)
  BY <1>5 DEF ReleaseCharge, SetStatus, stateVars, Books, StateOK
<1>6. QED
  BY <1>1, <1>2, <1>3, <1>4, <1>5 DEF Apply

(* A worker that goes on or gives up: while it has its reservation its body *)
(* stays, and it marks what is in the store.                               *)
LEMMA Progress ==
  ASSUME TypeInv, NEW w \in Worker,
         \/ LookClosed(w) \/ DirectCallFails(w) \/ Continue(w) \/ Fetch(w) \/ Publish(w)
         \/ SyncDirectory(w) \/ FailUnpublished(w) \/ GiveUp(w)
  PROVE  /\ UNCHANGED charge
         /\ Reserved(w)' => Reserved(w) /\ row'[w] = row[w] /\ body'[w] = body[w]
         /\ step'[w] \in {"sync", "mark", "complete"} =>
              body'[w] = body[w] /\ (step[w] \in {"sync", "mark", "complete"} \/ body[w] \in store')
<1> USE DEF TypeInv, WorkersOK, Reserved
<1>1. CASE LookClosed(w) \/ DirectCallFails(w)
  BY <1>1 DEF LookClosed, DirectCallFails, Answer, stateVars
<1>2. CASE Continue(w)
  BY <1>2 DEF Continue, Idle, Goto, stateVars
<1>3. CASE Fetch(w)
  BY <1>3 DEF Fetch, Goto, stateVars
<1>4. CASE Publish(w)
  BY <1>4 DEF Publish, Goto, stateVars
<1>5. CASE SyncDirectory(w) \/ FailUnpublished(w) \/ GiveUp(w)
  BY <1>5 DEF SyncDirectory, FailUnpublished, GiveUp, Idle, Goto, stateVars
<1>6. QED
  BY <1>1, <1>2, <1>3, <1>4, <1>5

(* A transaction whose content is at hand, and what it leaves of the       *)
(* charges' contents.                                                      *)
Applied(op, i, c) ==
  /\ Apply(op, i, c) /\ store' = store
  /\ op = "reserve" => c \in Content
  /\ op = "mark" => charge[i].content \in store
Contents(op, i, c) ==
  /\ \A j \in Identity : charge'[j].status \in {"PUBLISHED", "SETTLED"} => charge'[j].content \in store'
  /\ \A j \in Identity : op # "reserve" \/ j # i => charge'[j].content = charge[j].content
  /\ op = "reserve" => charge'[i].content = c

(* What a call that is applied disturbs: nobody else relies on the charge  *)
(* of a reservation, and a mark is of stored content.                      *)
LEMMA AppliedBacking ==
  ASSUME TypeInv, Backing, NEW op, NEW i \in Identity, NEW c, Applied(op, i, c)
  PROVE  Contents(op, i, c)
<1>1. /\ \A j \in Identity \ {i} : charge'[j] = charge[j]
      /\ op # "reserve" => charge'[i].content = charge[i].content
      /\ op = "reserve" => charge'[i].content = c /\ charge'[i].status = "RESERVED"
      /\ charge'[i].status \in {"PUBLISHED", "SETTLED"} =>
           op = "mark" \/ charge[i].status \in {"PUBLISHED", "SETTLED"}
  BY ContentEffect DEF TypeInv, Applied
<1>2. QED
  BY <1>1 DEF Backing, Applied, Contents

LEMMA BackingStep ==
  TypeInv /\ Quiet /\ OnlyWhileReconciling /\ HandedOnce /\ OwnRequest /\ ReservedOnce /\ Backing /\ [Next]_vars
    => Backing'
<1> SUFFICES ASSUME TypeInv, Quiet, OnlyWhileReconciling, HandedOnce, OwnRequest, ReservedOnce, Backing,
                    [Next]_vars
             PROVE  Backing'
  OBVIOUS
<1>1. CASE EndRun \/ Crash
  BY <1>1 DEF EndRun, Crash, ProcessEnds, Backing, Reserved, stateVars
<1>2. CASE UNCHANGED <<charge, store, rec, step, call, row, body, queue>>
  BY <1>2 DEF Backing, Reserved
<1>3. CASE StopCoordinator
  <2>1. queue' = Append(queue, Stop) /\ UNCHANGED <<charge, store, rec, step, call, row, body>>
    BY <1>3 DEF StopCoordinator, workerVars, stateVars
  <2>2. \A k \in DOMAIN queue' : (k \in DOMAIN queue /\ queue'[k] = queue[k]) \/ queue'[k] = Stop
    BY <2>1, AppendMoves DEF TypeInv
  <2>3. \A i : ~Marks(Stop, i)
    BY DEF Stop, Marks
  <2>4. QED
    BY <2>1, <2>2, <2>3 DEF Backing, Reserved
<1>4. ASSUME NEW i \in Identity, Recover(i) PROVE Backing'
  <2>1. UNCHANGED <<charge, store, step, call, row, body, queue>>
        /\ rec' = [identity |-> i,
             op |-> IF charge[i].content \notin store THEN "release"
                    ELSE IF charge[i].status = "RESERVED" THEN "mark" ELSE "complete"]
    BY <1>4 DEF Recover, stateVars, workerVars
  <2>2. rec'.op \in {"mark", "complete"} => charge'[rec'.identity].content \in store'
    BY <2>1
  <2>3. QED
    BY <2>1, <2>2 DEF Backing, Reserved
<1>5. CASE RecoverCall
  <2>1. /\ UNCHANGED <<store, step, call, row, body, queue>> /\ rec # None
        /\ Apply(rec.op, rec.identity, charge[rec.identity].content)
        /\ rec' = IF rec.op = "mark" THEN [identity |-> rec.identity, op |-> "complete"] ELSE None
    BY <1>5 DEF RecoverCall, workerVars
  <2>2. PICK i \in Identity, op \in {"mark", "complete", "release"} : rec = [identity |-> i, op |-> op]
    BY <2>1 DEF TypeInv, RunOK
  <2>3. /\ Apply(op, i, charge[i].content) /\ op # "reserve"
        /\ op \in {"mark", "complete"} => charge[i].content \in store
    BY <2>1, <2>2 DEF Backing
  <2>4. /\ \A j \in Identity : charge'[j].status \in {"PUBLISHED", "SETTLED"} => charge'[j].content \in store'
        /\ \A j \in Identity : charge'[j].content = charge[j].content
    <3>1. PICK c \in {charge[i].content} : TRUE
      OBVIOUS
    <3>2. Applied(op, i, c)
      BY <2>1, <2>3, <3>1 DEF Applied
    <3>3. Contents(op, i, c)
      BY <3>2, AppliedBacking
    <3>4. QED
      BY <2>3, <3>3 DEF Contents
  <2>5. queue = <<>> /\ \A w \in Worker : step[w] = "idle"
    BY <2>1 DEF OnlyWhileReconciling, Quiet
  <2>6. rec' # None => rec'.identity = i /\ op = "mark"
    BY <2>1, <2>2
  <2>7. rec' # None /\ rec'.op \in {"mark", "complete"} => charge'[rec'.identity].content \in store'
    BY <2>1, <2>3, <2>4, <2>6
  <2>8. QED
    BY <2>1, <2>4, <2>5, <2>7 DEF Backing, Reserved
<1>6. CASE Serve
  <2>1. /\ queue # <<>> /\ Head(queue) # Stop /\ queue' = Tail(queue) /\ UNCHANGED <<store, rec, step, row, body>>
        /\ Apply(Head(queue).op, Head(queue).identity, Head(queue).content) /\ Answer(Head(queue).from, "ok")
    BY <1>6 DEF Serve, runVars
  <2>2. /\ 1 \in DOMAIN queue /\ Head(queue) = queue[1]
        /\ \A k \in DOMAIN queue' : k \in Nat /\ k + 1 \in DOMAIN queue /\ k + 1 # 1 /\ queue'[k] = queue[k + 1]
    BY <2>1, TailMoves DEF TypeInv
  <2>3. PICK r \in Request : r = queue[1]
    BY <2>1, <2>2, OldestRequest DEF TypeInv
  <2>4. r.identity \in Identity /\ (r.op = "reserve" => r.content \in Content)
        /\ Apply(r.op, r.identity, r.content)
    BY <2>1, <2>2, <2>3, OldestRequest DEF TypeInv, Request
  <2> DEFINE i == r.identity
  <2>5. r.op = "mark" => charge[i].content \in store
    BY <2>2, <2>3, <2>4 DEF Backing, Marks
  <2>6. /\ \A j \in Identity : charge'[j].status \in {"PUBLISHED", "SETTLED"} => charge'[j].content \in store'
        /\ \A j \in Identity : r.op # "reserve" \/ j # i => charge'[j].content = charge[j].content
        /\ r.op = "reserve" => charge'[i].content = r.content
    <3>1. PICK op \in {r.op}, j \in Identity, c \in {r.content} : j = r.identity
      BY <2>4
    <3>2. Applied(op, j, c)
      BY <2>1, <2>4, <2>5, <3>1 DEF Applied
    <3>3. Contents(op, j, c)
      BY <3>2, AppliedBacking
    <3>4. op = r.op /\ j = r.identity /\ c = r.content
      BY <3>1
    <3>5. \A l \in Identity : r.op # "reserve" \/ l # i => charge'[l].content = charge[l].content
      BY <3>3, <3>4 DEF Contents
    <3>6. r.op = "reserve" => charge'[i].content = r.content
      BY <3>3, <3>4 DEF Contents
    <3> QED
      BY <3>3, <3>5, <3>6, Zenon DEF Contents
  <2>7. \A v \in Worker : v # r.from => call'[v] = call[v]
    BY <2>1, <2>2, <2>3 DEF Answer, TypeInv, WorkersOK
  <2>8. ASSUME NEW w \in Worker, Reserved(w)' PROVE charge'[row'[w]].content = body'[w]
    <3>1. row[w] \in Identity /\ step[w] # "idle"
      BY <2>1, <2>8 DEF Reserved, TypeInv, WorkersOK
    <3>2. CASE w = r.from /\ r.op = "reserve"
      BY <2>1, <2>2, <2>3, <2>6, <3>2 DEF OwnRequest
    <3>3. CASE w = r.from /\ r.op # "reserve"
      <4>1. step[w] = r.op /\ Reserved(w)
        BY <2>1, <2>2, <2>3, <2>8, <3>3 DEF OwnRequest, Reserved
      <4>2. QED
        BY <2>1, <2>6, <3>1, <3>3, <4>1 DEF Backing
    <3>4. CASE w # r.from
      <4>1. Reserved(w)
        BY <2>1, <2>7, <2>8, <3>4 DEF Reserved
      <4>2. r.op # "reserve" \/ row[w] # i
        BY <2>2, <2>3, <3>1, <4>1 DEF ReservedOnce, Reserves, Reserved
      <4>3. QED
        BY <2>1, <2>6, <3>1, <4>1, <4>2 DEF Backing
    <3>5. QED
      BY <3>2, <3>3, <3>4
  <2>9. ASSUME NEW k \in DOMAIN queue', NEW j \in Identity, Marks(queue'[k], j)
        PROVE  charge'[j].content \in store'
    <3>1. k + 1 \in DOMAIN queue /\ Marks(queue[k + 1], j)
      BY <2>2, <2>9
    <3>2. r.op # "reserve" \/ j # i
      BY <2>2, <2>3, <3>1 DEF ReservedOnce, Reserves
    <3>3. QED
      BY <2>1, <2>6, <3>1, <3>2 DEF Backing
  <2>10. rec' = None
    <3>1. rec = None
      BY <2>1 DEF OnlyWhileReconciling, Quiet
    <3>2. QED
      BY <2>1, <3>1
  <2>11. QED
    BY <2>1, <2>6, <2>8, <2>9, <2>10 DEF Backing
<1>7. CASE ServeFails
  <2>1. /\ queue # <<>> /\ queue' = Tail(queue) /\ UNCHANGED <<charge, store, rec, step, row, body>>
        /\ Answer(Head(queue).from, "failed")
    BY <1>7 DEF ServeFails, runVars, stateVars
  <2>2. \A k \in DOMAIN queue' : k + 1 \in DOMAIN queue /\ queue'[k] = queue[k + 1]
    BY <2>1, TailMoves DEF TypeInv
  <2>3. \A w \in Worker : Reserved(w)' => Reserved(w)
    BY <2>1 DEF Answer, Reserved, TypeInv, WorkersOK
  <2>4. QED
    BY <2>1, <2>2, <2>3 DEF Backing
<1>8. ASSUME NEW w \in Worker, Work(w) PROVE Backing'
  <2>1. ASSUME NEW i \in Identity, Take(w, i) PROVE Backing'
    <3>1. Others(w) /\ step'[w] = "remaining" /\ UNCHANGED <<charge, store, rec, queue>>
      BY <2>1 DEF Take, Others, stateVars, TypeInv, WorkersOK
    <3>2. QED
      BY <3>1 DEF Backing, Reserved, Others
  <2>2. CASE PutRequest(w)
    <3> DEFINE r == [from |-> w, op |-> step[w], identity |-> row[w], content |-> body[w]]
    <3>1. /\ queue' = Append(queue, r) /\ UNCHANGED <<charge, store, rec, step, row, body>>
          /\ call' = [call EXCEPT ![w] = "queued"]
      BY <2>2 DEF PutRequest, runVars, stateVars
    <3>2. \A k \in DOMAIN queue' : \/ k \in DOMAIN queue /\ queue'[k] = queue[k]
                                   \/ queue'[k] = r
      BY <3>1, AppendMoves DEF TypeInv
    <3>3. r.op = step[w] /\ r.identity = row[w]
      OBVIOUS
    <3> HIDE DEF r
    <3>4. \A i \in Identity : Marks(r, i) => charge[i].content \in store
      BY <3>3 DEF Marks, Backing, Reserved
    <3>5. \A v \in Worker : Reserved(v)' => Reserved(v)
      BY <3>1 DEF Reserved, TypeInv, WorkersOK
    <3>6. \A k \in DOMAIN queue', i \in Identity : Marks(queue'[k], i) => charge'[i].content \in store'
      BY <3>1, <3>2, <3>4 DEF Backing
    <3>7. QED
      BY <3>1, <3>5, <3>6 DEF Backing
  <2>3. CASE CallTimesOut(w)
    <3>1. /\ UNCHANGED <<charge, store, rec, step, row, body>>
          /\ call' = [call EXCEPT ![w] = "failed"]
      BY <2>3 DEF CallTimesOut, runVars, stateVars
    <3>2. DOMAIN queue' = DOMAIN queue
          /\ \A k \in DOMAIN queue : \A i : Marks(queue'[k], i) <=> Marks(queue[k], i)
      BY <2>3, TimeOutMoves DEF TypeInv, Marks
    <3>3. \A v \in Worker : Reserved(v)' => Reserved(v)
      BY <3>1 DEF Reserved, TypeInv, WorkersOK
    <3>4. QED
      BY <3>1, <3>2, <3>3 DEF Backing
  <2>4. CASE CallDirectly(w)
    <3>1. /\ Apply(step[w], row[w], body[w]) /\ step[w] \in Calls /\ call[w] = "none"
          /\ call' = [call EXCEPT ![w] = "ok"] /\ phase = "closed"
          /\ UNCHANGED <<store, rec, step, row, body, queue>>
      BY <2>4, ChargeAssumption DEF CallDirectly, Answer, runVars
    <3>2. row[w] \in Identity /\ step[w] # "idle" /\ (step[w] = "reserve" => body[w] \in Content)
      BY <3>1 DEF Calls, TypeInv, WorkersOK
    <3>3. step[w] = "mark" => charge[row[w]].content \in store
      BY <3>1 DEF Backing, Reserved
    <3>4. /\ \A j \in Identity : charge'[j].status \in {"PUBLISHED", "SETTLED"} => charge'[j].content \in store'
          /\ \A j \in Identity : step[w] # "reserve" \/ j # row[w] => charge'[j].content = charge[j].content
          /\ step[w] = "reserve" => charge'[row[w]].content = body[w]
      <4>1. PICK op \in {step[w]}, i \in Identity, c \in {body[w]} : i = row[w]
        BY <3>2
      <4>2. Applied(op, i, c)
        BY <3>1, <3>2, <3>3, <4>1 DEF Applied
      <4>3. Contents(op, i, c)
        BY <4>2, AppliedBacking
      <4>4. op = step[w] /\ i = row[w] /\ c = body[w]
        BY <4>1
      <4>5. \A j \in Identity : step[w] # "reserve" \/ j # row[w] => charge'[j].content = charge[j].content
        BY <4>3, <4>4 DEF Contents
      <4>6. step[w] = "reserve" => charge'[row[w]].content = body[w]
        BY <4>3, <4>4 DEF Contents
      <4> QED
        BY <4>3, <4>5, <4>6, Zenon DEF Contents
    <3>5. ASSUME NEW v \in Worker, Reserved(v)' PROVE charge'[row'[v]].content = body'[v]
      <4>1. CASE v = w /\ step[w] = "reserve"
        BY <3>1, <3>4, <4>1
      <4>2. CASE v = w /\ step[w] # "reserve"
        BY <3>1, <3>2, <3>4, <3>5, <4>2 DEF Backing, Reserved
      <4>3. CASE v # w
        <5>1. Reserved(v) /\ step[v] # "idle" /\ row[v] \in Identity
          BY <3>1, <3>5, <4>3 DEF Reserved, TypeInv, WorkersOK
        <5>2. row[v] # row[w]
          BY <3>2, <4>3, <5>1 DEF HandedOnce
        <5>3. QED
          BY <3>1, <3>4, <5>1, <5>2 DEF Backing
      <4>4. QED
        BY <4>1, <4>2, <4>3
    <3>6. ASSUME NEW k \in DOMAIN queue', NEW j \in Identity, Marks(queue'[k], j)
          PROVE  charge'[j].content \in store'
      <4>1. step[w] # "reserve" \/ j # row[w]
        BY <3>1, <3>2, <3>6 DEF ReservedOnce
      <4>2. QED
        BY <3>1, <3>4, <3>6, <4>1 DEF Backing
    <3>7. rec' = None
      BY <3>1 DEF OnlyWhileReconciling
    <3>8. QED
      BY <3>1, <3>4, <3>5, <3>6, <3>7 DEF Backing
  <2>5. CASE \/ LookClosed(w) \/ DirectCallFails(w) \/ Continue(w) \/ Fetch(w) \/ Publish(w)
             \/ SyncDirectory(w) \/ FailUnpublished(w) \/ GiveUp(w)
    <3>1. Others(w) /\ UNCHANGED <<queue, rec>> /\ store \subseteq store'
      BY <2>5, LocalStep
    <3>2. /\ UNCHANGED charge
          /\ Reserved(w)' => Reserved(w) /\ row'[w] = row[w] /\ body'[w] = body[w]
          /\ step'[w] \in {"sync", "mark", "complete"} =>
              body'[w] = body[w] /\ (step[w] \in {"sync", "mark", "complete"} \/ body[w] \in store')
      BY <2>5, Progress
    <3>3. \A v \in Worker : Reserved(v)' => Reserved(v) /\ row'[v] = row[v] /\ body'[v] = body[v]
      BY <3>1, <3>2 DEF Others, Reserved
    <3>4. \A v \in Worker : step'[v] \in {"sync", "mark", "complete"} => body'[v] \in store'
      BY <3>1, <3>2 DEF Others, Backing
    <3>5. QED
      BY <3>1, <3>2, <3>3, <3>4 DEF Backing
  <2>6. QED
    BY <1>8, <2>1, <2>2, <2>3, <2>4, <2>5 DEF Work
<1>9. CASE StartRun \/ BeginWork \/ RequestStop
  BY <1>2, <1>9 DEF StartRun, BeginWork, RequestStop, stateVars, workerVars
<1>10. CASE UNCHANGED vars
  BY <1>2, <1>10 DEF vars, stateVars, runVars, workerVars
<1>11. QED
  BY <1>1, <1>3, <1>4, <1>5, <1>6, <1>7, <1>8, <1>9, <1>10 DEF Next

LEMMA ReconcilingStep == TypeInv /\ Quiet /\ OnlyWhileReconciling /\ [Next]_vars => OnlyWhileReconciling'
<1> SUFFICES ASSUME TypeInv, Quiet, OnlyWhileReconciling, [Next]_vars PROVE OnlyWhileReconciling'
  OBVIOUS
<1> USE DEF OnlyWhileReconciling
<1>1. CASE EndRun \/ Crash
  BY <1>1 DEF EndRun, Crash, ProcessEnds
<1>2. CASE StartRun \/ RecoverCall \/ BeginWork \/ RequestStop \/ StopCoordinator \/ \E i \in Identity : Recover(i)
  BY <1>2 DEF StartRun, RecoverCall, BeginWork, RequestStop, StopCoordinator, Recover
<1>3. CASE Serve \/ ServeFails
  BY <1>3 DEF Serve, ServeFails, runVars
<1>4. ASSUME NEW w \in Worker, Work(w) PROVE rec' = rec /\ (phase = "reconcile" => phase' = "reconcile")
  BY <1>4 DEF Work, Take, LookClosed, PutRequest, CallDirectly, DirectCallFails, CallTimesOut,
     Continue, Fetch, Publish, SyncDirectory, FailUnpublished, GiveUp, runVars
<1>5. CASE UNCHANGED vars
  BY <1>5 DEF vars, runVars
<1>6. QED
  BY <1>1, <1>2, <1>3, <1>4, <1>5 DEF Next

(* What is marked or completed is in the store, whichever calls are served *)
(* late, after their worker gave up, or by the reconciliation of another   *)
(* run.                                                                    *)
THEOREM AlwaysBacked == Spec => []ChargesAreBacked
<1>1. Init => BackedInv
  <2> SUFFICES ASSUME Init PROVE BackedInv
    OBVIOUS
  <2>1. TypeInv /\ Quiet /\ OnlyWhileReconciling /\ HandedOnce /\ OwnRequest /\ ReservedOnce
    BY InitTyped DEF Init, Quiet, OnlyWhileReconciling, HandedOnce, OwnRequest, ReservedOnce
  <2>2. Backing
    BY NoChargeIsNone DEF Init, Backing, Reserved
  <2>3. QED
    BY <2>1, <2>2 DEF BackedInv
<1>2. BackedInv /\ [Next]_vars => BackedInv'
  BY BooksStep, RunStep, QueueStep, WorkersStep, QuietStep, ReconcilingStep, HandedStep, OwnStep,
     ReservedStep, BackingStep DEF BackedInv, TypeInv
<1>3. BackedInv => ChargesAreBacked
  BY DEF BackedInv, TypeInv, Books, Backing, ChargesAreBacked
<1>4. QED
  BY <1>1, <1>2, <1>3, PTL DEF Spec
-----------------------------------------------------------------------------
(* The Gate 1 store.                                                       *)

(* A ledger spends on downloads of the plan only, which fit its budget;    *)
(* what it has settled is proved.                                          *)
Keeps(l, plan, budget) ==
  /\ l.reserved \cap Settled(l) = {}
  /\ Settled(l) \subseteq rows
  /\ Known(l) \subseteq Downloads(plan)
  /\ Downloads(plan) # {} => l.max + Bytes(Listed, Downloads(plan)) <= budget

(* Of the ledgers, by the version of the lock.                             *)
Kept ==
  /\ lock = Absent => legacy = Absent /\ amend = Absent
  /\ lock # Absent /\ legacy = Absent =>
       /\ Version = 1 /\ Recoverable = {}
       /\ Keeps(NewLedger(Bytes(Actual, rows), <<>>), lock.plan, DownloadBudget)
  /\ Version \in {1, 2} /\ legacy # Absent => Keeps(legacy, lock.plan, DownloadBudget)
  /\ Version \in {1, 2} => lock.retained \subseteq rows
  /\ Version = 4 => amend # Absent /\ amend.max = 0 /\ Keeps(amend, lock.plan, Allowance)

(* Of the migration.                                                       *)
MigrationExact ==
  /\ approved # Absent => /\ approved.lock.version = 2
                          /\ Bytes(Listed, Downloads(approved.plan)) <= Allowance
  /\ amend # Absent => approved # Absent /\ amend.receipts # <<>> /\ approved.lock \in kept
  /\ amend # Absent /\ Version # 4 =>
       /\ lock = approved.lock /\ legacy = approved.legacy
       /\ Known(amend) = {} /\ amend.max = 0
       /\ rows \cup Recoverable = approved.retained /\ ~Poisoned
  /\ Version = 4 =>
       /\ lock.plan = approved.plan /\ legacy = approved.legacy
       /\ lock.receipts # <<>> /\ lock.source = Last(lock.receipts)
       /\ lock.retained \subseteq rows \cup Recoverable

(* The accepted ledger with one more receipt.                              *)
OneMore == amend = [accepted.amend EXCEPT !.receipts = Append(@, Last(amend.receipts))]

(* Of the correction.                                                      *)
CorrectionExact ==
  /\ accepted # Absent =>
       /\ Version = 4
       /\ lock.plan = accepted.lock.plan /\ lock.retained = accepted.lock.retained
       /\ Known(accepted.amend) \subseteq Known(amend)
       /\ amend.receipts # accepted.amend.receipts =>
            {accepted.lock, accepted.amend} \subseteq kept
       /\ lock # accepted.lock => amend.receipts # accepted.amend.receipts
  /\ Version = 4 /\ lock.receipts # amend.receipts =>
       /\ accepted # Absent /\ lock = accepted.lock /\ rows = accepted.rows /\ OneMore
       /\ lock.retained \subseteq rows

(* An object the ledger has a reservation or a charge for, or that the     *)
(* hole an overrun leaves explains.                                        *)
Accounted(l, k) ==
  /\ l # Absent
  /\ \/ k \in Known(l)
     \/ k \in Doubled /\ Overrun(l)
EveryByteIsAccounted ==
  \A c \in wire : Accounted(IF c[1] = "amend" THEN amend ELSE legacy, c[2])

(* Of a run, at each of its points.                                        *)
Looping == proc.pc \in {"loop", "sidecar", "fetch", "record", "settle"}
(* An ordinary run finds a store that is not half way through a migration  *)
(* or a correction, and does not leave it so.                              *)
Steady ==
  /\ Version # 4 => amend = Absent
  /\ Version = 4 => lock.receipts = amend.receipts
(* What an ordinary run has recovered, until its plan is installed.        *)
Planning ==
  /\ proc.pc \in {"recover", "compare", "reconcile", "adopt", "flush"} => proc.done = {}
  /\ proc.pc \in {"compare", "reconcile"} /\ lock # Absent => proc.mem = {}
  /\ proc.pc \in {"compare", "flush"} => lock # Absent
  /\ At("flush") => proc.mem \subseteq rows
  /\ At("adopt") => lock = Absent
  /\ proc.pc \in {"reconcile", "adopt"} /\ lock = Absent =>
       proc.mem \subseteq Recoverable \cup rows /\ Recoverable \subseteq proc.mem
(* What the loop has left behind, and the object it is at, are accounted   *)
(* for in the ledger the run spends from.                                  *)
Acquiring ==
  /\ Looping =>
       /\ lock # Absent /\ legacy # Absent
       /\ \A k \in proc.done \ proc.won : k \in Known(CurrentLedger) \/ Overrun(CurrentLedger)
  /\ Looping /\ ~At("loop") =>
       /\ proc.at \in Key
       /\ ~proc.alias => proc.at \in CurrentLedger.reserved
       /\ proc.alias => Accounted(CurrentLedger, proc.at)
  /\ At("record") => proc.at \in objects \cap sidecars
  /\ At("fetch") => proc.at \in sidecars
  /\ At("settle") => ~proc.alias /\ proc.at \in rows
Ordinary == Steady /\ Planning /\ Acquiring

(* A migration works on the store its review has seen.                     *)
Migrating ==
  /\ approved # Absent /\ lock = approved.lock /\ legacy = approved.legacy
  /\ proc.pc # "recover" => proc.mem = Recoverable /\ ~Poisoned
  /\ proc.pc \in {"prepare", "install"} =>
       rows \cup Recoverable = approved.retained /\ lock \in kept
  /\ At("install") => amend # Absent /\ Last(amend.receipts) = source

(* A correction works on the store its review has seen, and replaces a     *)
(* file only after it is preserved.                                        *)
Correcting ==
  /\ accepted # Absent /\ lock = accepted.lock /\ rows = accepted.rows
  /\ lock.retained \subseteq rows
  /\ At("keep_lock") => amend = accepted.amend \/ LedgerAdvanced
  /\ proc.pc \in {"keep_ledger", "advance"} => amend = accepted.amend /\ lock \in kept
  /\ At("advance") => amend \in kept
  /\ At("publish") => LedgerAdvanced

(* Of each kind of run.                                                    *)
ByKind ==
  /\ proc.kind = "none" => At("idle")
  /\ proc.kind = "ordinary" =>
       /\ proc.pc \in {"recover", "compare", "reconcile", "adopt", "flush"} \/ Looping
       /\ Ordinary
  /\ proc.kind = "migration" =>
       proc.pc \in {"recover", "preserve", "prepare", "install"} /\ Migrating
  /\ proc.kind = "correction" =>
       proc.pc \in {"keep_lock", "keep_ledger", "advance", "publish"} /\ Correcting

(* The inductive invariant.                                                *)
QualInv ==
  /\ QualTypeOK /\ Kept /\ MigrationExact /\ CorrectionExact /\ ByKind /\ EveryByteIsAccounted
-----------------------------------------------------------------------------
(* The ledgers.                                                            *)

(* Byte counts are sums.                                                   *)
LEMMA BytesAreSums == \A size, S : Bytes(size, S) = Sum(size, S)
BY DEF Bytes, Sum

(* Of the sizes of planned objects.                                        *)
LEMMA ListedBytes ==
  ASSUME NEW S \in SUBSET Key
  PROVE  IsFiniteSet(S) /\ Weighs(Listed, S) /\ Weighs(Actual, S)
         /\ Bytes(Listed, S) \in Nat /\ Bytes(Actual, S) \in Nat
<1>1. IsFiniteSet(S) /\ Weighs(Listed, S) /\ Weighs(Actual, S)
  BY SizeAssumption, FS_Subset DEF Weighs
<1> QED BY <1>1, SumNat, BytesAreSums

(* What a ledger names.                                                    *)
LEMMA SettledIn ==
  ASSUME NEW l \in Ledger
  PROVE  /\ Settled(l) \in SUBSET Key /\ l.reserved \in SUBSET Key /\ Known(l) \in SUBSET Key
         /\ l.max \in Nat
         /\ \A k \in Settled(l) : l.charge[k] \in Nat
         /\ \A k \in Key : k \in Settled(l) <=> l.charge[k] # Absent
BY DEF Settled, Known, Ledger

(* A new ledger names nothing.                                             *)
LEMMA NewIsEmpty ==
  ASSUME NEW max \in Nat, NEW sources \in Seq(Nat)
  PROVE  /\ NewLedger(max, sources) \in Ledger
         /\ Settled(NewLedger(max, sources)) = {} /\ Known(NewLedger(max, sources)) = {}
         /\ NewLedger(max, sources).reserved = {}
         /\ NewLedger(max, sources).max = max
         /\ NewLedger(max, sources).receipts = sources
         /\ SpentMax(NewLedger(max, sources)) = max
<1>1. NewLedger(max, sources) \in Ledger
  BY SizeAssumption DEF NewLedger, Ledger
<1>2. /\ Settled(NewLedger(max, sources)) = {} /\ Known(NewLedger(max, sources)) = {}
      /\ NewLedger(max, sources).reserved = {}
      /\ NewLedger(max, sources).max = max
      /\ NewLedger(max, sources).receipts = sources
  BY DEF NewLedger, Settled, Known
<1>3. \A w : Bytes(w, {}) = 0
  BY SumEmpty, BytesAreSums
<1> QED BY <1>1, <1>2, <1>3 DEF SpentMax, Charged

(* A reservation adds its object to what the ledger knows.                 *)
LEMMA Reserving ==
  ASSUME NEW l \in Ledger, NEW k \in Key
  PROVE  /\ Reserve(l, k) \in Ledger
         /\ Settled(Reserve(l, k)) = Settled(l)
         /\ Known(Reserve(l, k)) = Known(l) \cup {k}
         /\ k \notin Settled(l) => k \in Reserve(l, k).reserved
         /\ l.reserved \cap Settled(l) = {} => Reserve(l, k).reserved \cap Settled(l) = {}
         /\ Reserve(l, k).max = l.max /\ Reserve(l, k).receipts = l.receipts
         /\ Reserve(l, k).charge = l.charge
<1>1. CASE k \in Known(l)
  BY <1>1 DEF Reserve, Known
<1>2. CASE k \notin Known(l)
  <2> DEFINE r == [l EXCEPT !.reserved = @ \cup {k}]
  <2>1. /\ r \in Ledger /\ r.charge = l.charge /\ r.reserved = l.reserved \cup {k}
        /\ r.max = l.max /\ r.receipts = l.receipts
    BY DEF Ledger
  <2>2. Reserve(l, k) = r
    BY <1>2 DEF Reserve
  <2> HIDE DEF r
  <2> QED BY <1>2, <2>1, <2>2 DEF Settled, Known
<1> QED BY <1>1, <1>2

(* A settlement moves its object from the reservations to the charges.     *)
LEMMA Settling ==
  ASSUME NEW l \in Ledger, NEW k \in Key, NEW bytes \in Nat
  PROVE  /\ Settle(l, k, bytes) \in Ledger
         /\ Settled(Settle(l, k, bytes)) = Settled(l) \cup {k}
         /\ Known(Settle(l, k, bytes)) = Known(l) \cup {k}
         /\ Settle(l, k, bytes).reserved = l.reserved \ {k}
         /\ \A j \in Key \ {k} : Settle(l, k, bytes).charge[j] = l.charge[j]
         /\ Settle(l, k, bytes).max = l.max /\ Settle(l, k, bytes).receipts = l.receipts
<1> DEFINE s == Settle(l, k, bytes)
<1>1. /\ s \in Ledger /\ s.charge = [l.charge EXCEPT ![k] = bytes]
      /\ s.reserved = l.reserved \ {k} /\ s.max = l.max /\ s.receipts = l.receipts
  BY DEF Settle, Ledger
<1>2. l.charge \in [Key -> Nat \cup {Absent}]
  BY DEF Ledger
<1> HIDE DEF s
<1>3. s.charge[k] = bytes /\ \A j \in Key \ {k} : s.charge[j] = l.charge[j]
  BY <1>1, <1>2
<1>4. bytes # Absent
  BY SizeAssumption
<1>5. Settled(s) = Settled(l) \cup {k}
  BY <1>3, <1>4 DEF Settled
<1>6. Known(s) = Known(l) \cup {k}
  BY <1>1, <1>5 DEF Known
<1> QED BY <1>1, <1>3, <1>5, <1>6 DEF s

(* Settling what is not settled forgets no overrun.                        *)
LEMMA SettlingOverrun ==
  ASSUME NEW l \in Ledger, NEW k \in Key \ Settled(l), NEW bytes \in Nat, Overrun(l)
  PROVE  Overrun(Settle(l, k, bytes))
<1>1. PICK j \in Settled(l) : l.charge[j] > Listed[j]
  BY DEF Overrun
<1>2. j \in Key \ {k}
  BY <1>1, SettledIn
<1>3. j \in Settled(Settle(l, k, bytes)) /\ Settle(l, k, bytes).charge[j] = l.charge[j]
  BY <1>1, <1>2, Settling
<1> QED BY <1>1, <1>3 DEF Overrun

(* Without an overrun a ledger has spent no more than its objects were     *)
(* listed with.                                                            *)
LEMMA SpentAsListed ==
  ASSUME NEW l \in Ledger, ~Overrun(l), l.reserved \cap Settled(l) = {}
  PROVE  SpentMax(l) \in Nat /\ SpentMax(l) <= Bytes(Listed, Known(l)) + l.max
<1>1. /\ Settled(l) \in SUBSET Key /\ l.reserved \in SUBSET Key /\ l.max \in Nat
      /\ \A k \in Settled(l) : l.charge[k] \in Nat
  BY SettledIn
<1>2. /\ IsFiniteSet(Settled(l)) /\ IsFiniteSet(l.reserved)
      /\ Weighs(Listed, Settled(l)) /\ Weighs(Listed, l.reserved)
      /\ Weighs(Listed, l.reserved \cup Settled(l))
      /\ Bytes(Listed, Settled(l)) \in Nat /\ Bytes(Listed, l.reserved) \in Nat
  BY <1>1, ListedBytes DEF Weighs
<1>3. Weighs(l.charge, Settled(l))
  BY <1>1 DEF Weighs
<1>4. \A k \in Settled(l) : l.charge[k] <= Listed[k]
  BY <1>1, <1>2 DEF Overrun, Weighs
<1>5. Bytes(l.charge, Settled(l)) \in Nat
      /\ Bytes(l.charge, Settled(l)) <= Bytes(Listed, Settled(l))
  BY <1>2, <1>3, <1>4, SumNat, SumBelow, BytesAreSums
<1>6. Bytes(Listed, Known(l)) = Bytes(Listed, l.reserved) + Bytes(Listed, Settled(l))
  BY <1>2, SumUnion, BytesAreSums DEF Known
<1> QED BY <1>1, <1>2, <1>5, <1>6 DEF SpentMax, Charged

(* The budget blocks a download only when an object came larger than it    *)
(* was listed, or the ledger knows it already.                             *)
LEMMA BlockedOnlyByOverrun ==
  ASSUME NEW l \in Ledger, NEW plan, NEW budget \in Nat, Keeps(l, plan, budget),
         NEW k \in Downloads(plan), Listed[k] > Remaining(l, budget)
  PROVE  k \in Known(l) \/ Overrun(l)
<1> SUFFICES ASSUME k \notin Known(l), ~Overrun(l) PROVE FALSE
  OBVIOUS
<1>1. /\ l.reserved \cap Settled(l) = {} /\ Known(l) \subseteq Downloads(plan)
      /\ l.max + Bytes(Listed, Downloads(plan)) <= budget
  BY DEF Keeps
<1>2. Downloads(plan) \in SUBSET Key /\ Known(l) \in SUBSET Key /\ k \in Key /\ l.max \in Nat
  BY SettledIn DEF Downloads
<1>3. SpentMax(l) \in Nat /\ SpentMax(l) <= Bytes(Listed, Known(l)) + l.max
  BY <1>1, SpentAsListed
<1>4. Known(l) \cup {k} \in SUBSET Key
  BY <1>2
<1>5. /\ IsFiniteSet(Known(l)) /\ Weighs(Listed, Known(l) \cup {k})
      /\ IsFiniteSet(Downloads(plan)) /\ Weighs(Listed, Downloads(plan))
  BY <1>2, <1>4, ListedBytes
<1>6. Bytes(Listed, Known(l) \cup {k}) = Listed[k] + Bytes(Listed, Known(l))
  BY <1>5, SumAdd, BytesAreSums
<1>7. Bytes(Listed, Known(l) \cup {k}) <= Bytes(Listed, Downloads(plan))
  BY <1>1, <1>5, SumPart, BytesAreSums
<1>8. Bytes(Listed, Known(l)) \in Nat /\ Bytes(Listed, Downloads(plan)) \in Nat
      /\ Listed[k] \in Nat \ {0}
  BY <1>2, ListedBytes, SizeAssumption
<1>9. SpentMax(l) + Listed[k] <= budget
  BY <1>1, <1>2, <1>3, <1>6, <1>7, <1>8
<1>10. Remaining(l, budget) = budget - SpentMax(l)
  BY <1>3, <1>8, <1>9 DEF Remaining
<1> QED BY <1>3, <1>8, <1>9, <1>10

(* What is locked within a new ledger's remainder fits beside its cost.    *)
LEMMA PlanFits ==
  ASSUME NEW max \in Nat, NEW retained, NEW budget \in Nat,
         NEW plan \in Plans(retained, Remaining(NewLedger(max, <<>>), budget))
  PROVE  plan \in Sample /\ Keeps(NewLedger(max, <<>>), plan, budget)
<1> DEFINE l == NewLedger(max, <<>>)
<1>1. <<>> \in Seq(Nat)
  OBVIOUS
<1>2. /\ l \in Ledger /\ Settled(l) = {} /\ Known(l) = {} /\ l.max = max /\ SpentMax(l) = max
      /\ l.reserved = {}
  BY <1>1, NewIsEmpty
<1>3. plan \in Sample /\ Bytes(Listed, Downloads(plan)) <= Remaining(l, budget)
  BY DEF Plans, IsPlan, Fits
<1> HIDE DEF l
<1>4. ASSUME Downloads(plan) # {}
      PROVE  max + Bytes(Listed, Downloads(plan)) <= budget
  <2>1. PICK k \in Downloads(plan) : TRUE
    BY <1>4
  <2>2. Downloads(plan) \in SUBSET Key /\ k \in Key
    BY <2>1 DEF Downloads
  <2>3. Bytes(Listed, Downloads(plan)) \in Nat
        /\ IsFiniteSet(Downloads(plan)) /\ Weighs(Listed, Downloads(plan))
    BY <2>2, ListedBytes
  <2>4. {k} \in SUBSET Downloads(plan)
    BY <2>1
  <2>5. Sum(Listed, {k}) <= Bytes(Listed, Downloads(plan))
    BY <2>3, <2>4, SumPart, BytesAreSums
  <2>6. Sum(Listed, {} \cup {k}) = Listed[k] + Sum(Listed, {})
    BY <2>2, SumAdd, FS_EmptySet, ListedBytes, {} \cup {k} \in SUBSET Key
  <2>7. {} \cup {k} = {k} /\ Sum(Listed, {}) = 0 /\ Listed[k] \in Nat \ {0}
    BY <2>2, SumEmpty, SizeAssumption
  <2>8. Remaining(l, budget) > 0
    <3>1. Sum(Listed, {k}) = Listed[k] + 0
      BY <2>6, <2>7
    <3>2. Remaining(l, budget) \in Nat
      BY <1>2 DEF Remaining
    <3> QED BY <1>3, <2>3, <2>5, <2>7, <3>1, <3>2
  <2>9. Remaining(l, budget) = budget - max
    BY <1>2, <2>8 DEF Remaining
  <2> QED BY <1>3, <2>3, <2>9
<1> QED BY <1>2, <1>3, <1>4 DEF Keeps, l
-----------------------------------------------------------------------------
(* What the steps leave alone.                                             *)

(* Of a store whose files do not change.                                   *)
LEMMA SameStore ==
  ASSUME UNCHANGED <<lock, legacy, amend, rows, objects, sidecars>>
  PROVE  /\ Version' = Version /\ Recoverable' = Recoverable /\ Poisoned' = Poisoned
         /\ lock # Absent /\ legacy # Absent => CurrentLedger' = CurrentLedger
         /\ Limit' = Limit
BY DEF Version, Recoverable, Poisoned, CurrentLedger, Limit

(* A store has the version of its lock.                                    *)
LEMMA VersionOf ==
  ASSUME QualTypeOK
  PROVE  /\ lock = Absent <=> Version = 0
         /\ lock # Absent => lock \in Locks /\ Version = lock.version /\ Version \in {1, 2, 4}
BY DEF QualTypeOK, Version, Locks

(* A step of the process alone.                                            *)
LEMMA OnlyTheProcess ==
  ASSUME QualInv, UNCHANGED <<source, files, pins, wire>>, crashes' \in Nat,
         proc' \in Process, ByKind'
  PROVE  QualInv'
<1>0. UNCHANGED <<source, lock, legacy, amend, rows, objects, sidecars, kept, approved,
                  accepted, wire>>
  BY DEF files, pins
<1>1. Version' = Version /\ Recoverable' = Recoverable /\ Poisoned' = Poisoned
  BY <1>0, SameStore
<1>2. QualTypeOK'
  BY <1>0 DEF QualInv, QualTypeOK
<1>3. Kept'
  BY <1>0, <1>1 DEF QualInv, Kept, Keeps
<1>4. MigrationExact'
  BY <1>0, <1>1 DEF QualInv, MigrationExact
<1>5. CorrectionExact'
  BY <1>0, <1>1 DEF QualInv, CorrectionExact, OneMore
<1>6. EveryByteIsAccounted'
  BY <1>0 DEF QualInv, EveryByteIsAccounted, Accounted, Overrun
<1> QED BY <1>2, <1>3, <1>4, <1>5, <1>6 DEF QualInv

(* No run.                                                                 *)
LEMMA NoRunRuns == NoRun \in Process /\ NoRun.kind = "none" /\ NoRun.pc = "idle"
<1>1. FALSE \in BOOLEAN
  BY Zenon
<1> QED BY <1>1 DEF NoRun, Process

(* A process that ended or died.                                           *)
LEMMA Stopped == ASSUME proc' = NoRun PROVE proc' \in Process /\ ByKind'
BY NoRunRuns DEF ByKind, At

(* A step that ends the process and leaves the store alone.                *)
LEMMA Stops ==
  ASSUME QualInv, UNCHANGED <<source, files, pins, wire>>, crashes' \in Nat, Ends
  PROVE  QualInv'
<1>1. proc' \in Process /\ ByKind'
  BY Stopped DEF Ends
<1> QED BY <1>1, OnlyTheProcess

(* Where a process may be, by its kind.                                    *)
LEMMA KindOf ==
  ASSUME QualInv
  PROVE  /\ proc \in Process
         /\ proc.pc \in {"compare", "reconcile", "adopt", "flush"} \/ Looping
              => proc.kind = "ordinary"
         /\ proc.pc \in {"preserve", "prepare", "install"} => proc.kind = "migration"
         /\ proc.pc \in {"keep_lock", "keep_ledger", "advance", "publish"}
              => proc.kind = "correction"
         /\ At("recover") => proc.kind \in {"ordinary", "migration"}
         /\ proc.kind = "ordinary" => Ordinary
         /\ proc.kind = "migration" => Migrating
         /\ proc.kind = "correction" => Correcting
<1>1. proc \in Process /\ ByKind
  BY DEF QualInv, QualTypeOK
<1>2. proc.kind \in {"none", "ordinary", "migration", "correction"}
  BY <1>1 DEF Process
<1> QED BY <1>1, <1>2 DEF ByKind, Looping, At

(* The ledger a run spends from.                                           *)
LEMMA TheLedger ==
  ASSUME QualTypeOK, Kept, lock # Absent, legacy = Absent => Evidence = rows
  PROVE  /\ CurrentLedger \in Ledger /\ Keeps(CurrentLedger, lock.plan, Limit)
         /\ Version = 4 => CurrentLedger = amend /\ CurrentLedger.max = 0
         /\ Version # 4 /\ legacy # Absent => CurrentLedger = legacy
         /\ Version # 4 /\ legacy = Absent => CurrentLedger.reserved = {}
         /\ Limit \in Nat
<1>1. lock \in Locks /\ Version \in {1, 2, 4}
  BY VersionOf
<1>2. Limit \in Nat
  BY QualificationAssumption DEF Limit
<1>3. CASE Version = 4
  <2>1. CurrentLedger = amend /\ Limit = Allowance
    BY <1>3 DEF CurrentLedger, Limit
  <2>2. amend # Absent /\ amend.max = 0 /\ Keeps(amend, lock.plan, Allowance)
    BY <1>3 DEF Kept
  <2>3. amend \in Ledger
    BY <2>2 DEF QualTypeOK
  <2> QED BY <1>2, <1>3, <2>1, <2>2, <2>3
<1>4. CASE Version # 4 /\ legacy # Absent
  <2>1. CurrentLedger = legacy /\ Limit = DownloadBudget
    BY <1>4 DEF CurrentLedger, Limit
  <2>2. legacy \in Ledger /\ Keeps(legacy, lock.plan, DownloadBudget)
    BY <1>1, <1>4 DEF Kept, QualTypeOK
  <2> QED BY <1>2, <1>4, <2>1, <2>2
<1>5. CASE Version # 4 /\ legacy = Absent
  <2>1. CurrentLedger = NewLedger(Bytes(Actual, rows), <<>>) /\ Limit = DownloadBudget
    BY <1>5 DEF CurrentLedger, Limit
  <2>2. Keeps(NewLedger(Bytes(Actual, rows), <<>>), lock.plan, DownloadBudget)
    BY <1>5 DEF Kept
  <2>3. rows \in SUBSET Key /\ <<>> \in Seq(Nat)
    BY DEF QualTypeOK
  <2>4. /\ NewLedger(Bytes(Actual, rows), <<>>) \in Ledger
        /\ NewLedger(Bytes(Actual, rows), <<>>).reserved = {}
    BY <2>3, ListedBytes, NewIsEmpty
  <2> QED BY <1>2, <1>5, <2>1, <2>2, <2>4
<1> QED BY <1>3, <1>4, <1>5

(* An installed plan of version 4 has the approved ledger.                 *)
LEMMA LegacyOfMigrated ==
  ASSUME QualInv, Version = 4
  PROVE  /\ approved \in Approvals /\ legacy \in Ledger /\ legacy # Absent
         /\ amend \in Ledger /\ amend # Absent /\ lock \in Locks
<1>1. amend # Absent
  BY DEF QualInv, Kept
<1>2. approved # Absent /\ legacy = approved.legacy
  BY <1>1 DEF QualInv, MigrationExact
<1>3. approved \in Approvals /\ amend \in Ledger /\ lock # Absent
  BY <1>1, <1>2, VersionOf DEF QualInv, QualTypeOK
<1>4. legacy \in Ledger
  BY <1>2, <1>3 DEF Approvals
<1> QED BY <1>1, <1>3, <1>4, VersionOf, QualificationAssumption DEF QualInv

(* Evidence grows under an ordinary run.                                   *)
LEMMA EvidenceGrows ==
  ASSUME QualInv, Steady, QualTypeOK', proc' \in Process,
         UNCHANGED <<source, lock, legacy, amend, kept, pins>>,
         \A c \in wire' \ wire : Accounted(IF c[1] = "amend" THEN amend ELSE legacy, c[2]),
         rows \subseteq rows', objects \subseteq objects', sidecars \subseteq sidecars',
         lock # Absent /\ legacy = Absent => UNCHANGED <<rows, objects, sidecars>>,
         ByKind'
  PROVE  QualInv'
<1>0. UNCHANGED <<approved, accepted>>
  BY DEF pins
<1>1. Version' = Version /\ rows \cup Recoverable \subseteq rows' \cup Recoverable'
  BY DEF Version, Recoverable
<1>2. Kept'
  <2>1. lock # Absent /\ legacy = Absent => Recoverable' = Recoverable /\ rows' = rows
    BY DEF Recoverable
  <2> QED BY <1>1, <2>1 DEF QualInv, Kept, Keeps
<1>3. MigrationExact'
  BY <1>0, <1>1 DEF QualInv, MigrationExact, Steady
<1>4. CorrectionExact'
  BY <1>0, <1>1 DEF QualInv, CorrectionExact, Steady
<1>5. EveryByteIsAccounted'
  <2>1. \A c \in wire' : Accounted(IF c[1] = "amend" THEN amend ELSE legacy, c[2])
    BY DEF QualInv, EveryByteIsAccounted
  <2> QED BY <2>1 DEF EveryByteIsAccounted, Accounted, Overrun
<1> QED BY <1>2, <1>3, <1>4, <1>5 DEF QualInv

(* The ledger a run spends from is replaced by one that forgets nothing.   *)
Forgets(l, m) == ~(Known(l) \subseteq Known(m) /\ (Overrun(l) => Overrun(m)))
LEMMA LedgerGrows ==
  ASSUME QualInv, Steady, lock # Absent, legacy = Absent => Evidence = rows,
         UNCHANGED <<source, lock, rows, objects, sidecars, kept, pins, wire, crashes>>,
         NEW m, m \in Ledger, Put(m), Keeps(m, lock.plan, Limit),
         m.max = CurrentLedger.max, m.receipts = CurrentLedger.receipts,
         ~Forgets(CurrentLedger, m), proc' \in Process, ByKind'
  PROVE  QualInv'
<1>0. UNCHANGED <<approved, accepted>>
  BY DEF pins
<1>1. Version' = Version /\ Recoverable' = Recoverable /\ Version \in {1, 2, 4}
  BY VersionOf DEF Version, Recoverable, QualInv
<1>2. /\ CurrentLedger \in Ledger
      /\ Version = 4 => CurrentLedger = amend /\ CurrentLedger.max = 0
      /\ Version # 4 /\ legacy # Absent => CurrentLedger = legacy
  BY TheLedger DEF QualInv
<1>3. m # Absent
  BY QualificationAssumption
<1>4. CASE Version = 4
  <2>1. amend' = m /\ legacy' = legacy /\ amend # Absent
    BY <1>4 DEF Put, QualInv, Kept
  <2>2. Keeps(m, lock.plan, Allowance) /\ m.receipts = amend.receipts /\ m.max = 0
    BY <1>2, <1>4 DEF Limit
  <2>3. QualTypeOK'
    BY <1>0, <2>1 DEF QualInv, QualTypeOK
  <2>4. Kept'
    BY <1>1, <1>3, <1>4, <2>1, <2>2 DEF QualInv, Kept, Keeps
  <2>5. MigrationExact'
    BY <1>0, <1>1, <1>4, <2>1, <2>2 DEF QualInv, MigrationExact
  <2>6. CorrectionExact'
    BY <1>0, <1>1, <1>2, <1>4, <2>1, <2>2 DEF QualInv, CorrectionExact, Steady, Forgets
  <2>7. EveryByteIsAccounted'
    BY <1>2, <1>3, <1>4, <2>1 DEF QualInv, EveryByteIsAccounted, Accounted, Forgets
  <2> QED BY <2>3, <2>4, <2>5, <2>6, <2>7 DEF QualInv
<1>5. CASE Version # 4
  <2>1. legacy' = m /\ amend' = amend /\ amend = Absent
    BY <1>5 DEF Put, Steady
  <2>2. Keeps(m, lock.plan, DownloadBudget)
    BY <1>5 DEF Limit
  <2>3. QualTypeOK'
    BY <1>0, <2>1 DEF QualInv, QualTypeOK
  <2>4. Kept'
    BY <1>1, <1>3, <1>5, <2>1, <2>2 DEF QualInv, Kept, Keeps
  <2>5. MigrationExact'
    BY <1>0, <1>1, <1>5, <2>1 DEF QualInv, MigrationExact
  <2>6. CorrectionExact'
    BY <1>0, <1>1, <1>5, <2>1 DEF QualInv, CorrectionExact
  <2>7. EveryByteIsAccounted'
    BY <1>2, <1>3, <1>5, <2>1 DEF QualInv, EveryByteIsAccounted, Accounted, Forgets
  <2> QED BY <2>3, <2>4, <2>5, <2>6, <2>7 DEF QualInv
<1> QED BY <1>4, <1>5
-----------------------------------------------------------------------------
(* An ordinary run.                                                        *)

(* It is on its way to the plan: nothing of the loop is claimed.           *)
LEMMA OnItsWay ==
  ASSUME proc' \in Process, proc'.kind = "ordinary", Steady', Planning',
         proc'.pc \in {"recover", "compare", "reconcile", "adopt", "flush"}
  PROVE  ByKind'
BY DEF ByKind, Ordinary, Acquiring, Looping, At

(* It is in the loop: nothing of the plan is claimed.                      *)
LEMMA InTheLoop ==
  ASSUME proc' \in Process, proc'.kind = "ordinary", Steady', Acquiring', Looping'
  PROVE  ByKind'
BY DEF ByKind, Ordinary, Planning, Looping, At

(* A run starts on a store that is not half way through anything.          *)
LEMMA StartOrdinarySafe == ASSUME QualInv, StartOrdinary PROVE QualInv'
<1>1. /\ proc' \in Process /\ proc'.kind = "ordinary" /\ proc'.pc = "recover" /\ proc'.done = {}
  BY NoRunRuns DEF StartOrdinary, Begin, Process, NoRun
<1>2. UNCHANGED <<source, lock, legacy, amend, rows, objects, sidecars, kept>>
      /\ UNCHANGED <<source, files, pins, wire>> /\ crashes' = crashes
  BY DEF StartOrdinary, files
<1>3. Version' = Version
  BY <1>2 DEF Version
<1>4. Version # 4 => amend = Absent
  BY DEF StartOrdinary, Transition
<1>5. Version = 4 => lock.receipts = amend.receipts
  BY <1>4 DEF StartOrdinary, Transition, Migrated
<1>6. Steady' /\ Planning'
  BY <1>1, <1>2, <1>3, <1>4, <1>5 DEF Steady, Planning, At
<1>7. ByKind'
  BY <1>1, <1>6, OnItsWay
<1>8. crashes' \in Nat
  BY <1>2 DEF QualInv, QualTypeOK
<1> QED BY <1>1, <1>2, <1>7, <1>8, OnlyTheProcess

(* Runs that end where they are.                                           *)
LEMMA EndsSafe ==
  ASSUME QualInv,
         RecoveryRaises \/ CompleteRun \/ FetchRaises \/ Dies \/ (Compare /\ ~InputsHold)
  PROVE  QualInv'
<1>1. Ends /\ UNCHANGED <<source, files, pins, wire>>
  BY DEF RecoveryRaises, CompleteRun, FetchRaises, Dies, Compare
<1>2. crashes' \in Nat
  BY DEF RecoveryRaises, CompleteRun, FetchRaises, Dies, Compare, QualInv, QualTypeOK
<1> QED BY <1>1, <1>2, Stops

(* The recovery ends, in an ordinary run or in a migration.                *)
LEMMA RecoveredSafe ==
  ASSUME QualInv, Recovered
  PROVE  QualInv'
<1>1. UNCHANGED <<source, files, pins, wire>> /\ crashes' = crashes
      /\ UNCHANGED <<source, lock, legacy, amend, rows, objects, sidecars, kept, approved, accepted>>
  BY DEF Recovered, files, pins
<1>2. proc \in Process /\ proc.kind \in {"ordinary", "migration"} /\ Recoverable \in SUBSET Key
  <2>1. Recoverable \in SUBSET Key
    BY DEF QualInv, QualTypeOK, Recoverable
  <2> QED BY <2>1, KindOf DEF Recovered
<1>3. /\ proc' \in Process /\ proc'.kind = proc.kind /\ proc'.mem = Recoverable
      /\ proc'.done = proc.done
      /\ proc.kind = "migration" => proc'.pc = "preserve"
      /\ proc.kind # "migration" => proc'.pc = IF Version = 4 THEN "compare" ELSE "reconcile"
  BY <1>2 DEF Recovered, Process
<1>4. /\ Version' = Version /\ Recoverable' = Recoverable /\ Poisoned' = Poisoned
      /\ (lock = Absent <=> Version = 0)
  BY <1>1, SameStore, VersionOf DEF QualInv
<1>5. CASE proc.kind = "ordinary"
  <2>1. lock # Absent => Recoverable = {}
    BY <1>5 DEF Recovered
  <2>2. Steady'
    BY <1>1, <1>4, <1>5, KindOf DEF Ordinary, Steady
  <2>3. Planning'
    BY <1>1, <1>3, <1>4, <1>5, <2>1, KindOf DEF Ordinary, Recovered, Planning, At
  <2> QED BY <1>1, <1>3, <1>5, <2>2, <2>3, OnItsWay, OnlyTheProcess DEF QualInv, QualTypeOK
<1>6. CASE proc.kind = "migration"
  <2>1. ~Poisoned
    BY DEF Recovered, Poisoned
  <2>2. Migrating'
    BY <1>1, <1>3, <1>4, <1>6, <2>1, KindOf DEF Migrating, At
  <2>3. ByKind'
    BY <1>3, <1>6, <2>2 DEF ByKind
  <2> QED BY <1>1, <1>3, <2>3, OnlyTheProcess DEF QualInv, QualTypeOK
<1> QED BY <1>2, <1>5, <1>6

(* The reconciliation ends.                                                *)
LEMMA ReconciledSafe == ASSUME QualInv, Reconciled PROVE QualInv'
<1>1. UNCHANGED <<source, files, pins, wire>> /\ crashes' = crashes
      /\ UNCHANGED <<source, lock, legacy, amend, rows, objects, sidecars>>
  BY DEF Reconciled, files
<1>2. proc \in Process /\ proc.kind = "ordinary" /\ Ordinary /\ At("reconcile")
  BY KindOf DEF Reconciled, At
<1>3. /\ proc' \in Process /\ proc'.kind = "ordinary" /\ proc'.mem = proc.mem
      /\ proc'.done = proc.done
      /\ proc'.pc = IF lock = Absent THEN "adopt" ELSE IF Version = 4 THEN "flush" ELSE "compare"
  BY <1>2 DEF Reconciled, Moves, Process
<1>4. Version' = Version /\ Recoverable' = Recoverable
  BY <1>1, SameStore
<1>5. Steady'
  BY <1>1, <1>2, <1>4 DEF Ordinary, Steady
<1>6. Planning'
  BY <1>1, <1>2, <1>3, <1>4 DEF Ordinary, Planning, At
<1>7. ByKind'
  BY <1>3, <1>5, <1>6, OnItsWay
<1> QED BY <1>1, <1>3, <1>7, OnlyTheProcess DEF QualInv, QualTypeOK

(* The frozen inputs are compared.                                         *)
LEMMA CompareSafe == ASSUME QualInv, Compare PROVE QualInv'
<1>0. CASE ~InputsHold
  BY <1>0, EndsSafe
<1>1. CASE InputsHold
  <2>1. UNCHANGED <<source, files, pins, wire>> /\ crashes' = crashes
        /\ UNCHANGED <<source, lock, legacy, amend, rows, objects, sidecars>>
    BY DEF Compare, files
  <2>2. proc \in Process /\ proc.kind = "ordinary" /\ Ordinary /\ At("compare")
    BY KindOf DEF Compare, At
  <2>3. /\ proc' \in Process /\ proc'.kind = "ordinary" /\ proc'.mem = proc.mem
      /\ proc'.done = proc.done
        /\ proc'.pc = IF Version = 4 THEN "reconcile" ELSE "flush"
    BY <1>1, <2>2 DEF Compare, Moves, Process
  <2>4. Version' = Version /\ Recoverable' = Recoverable
    BY <2>1, SameStore
  <2>5. Steady'
    BY <2>1, <2>2, <2>4 DEF Ordinary, Steady
  <2>6. Planning'
    BY <2>1, <2>2, <2>3, <2>4 DEF Ordinary, Planning, At
  <2>7. ByKind'
    BY <2>3, <2>5, <2>6, OnItsWay
  <2> QED BY <2>1, <2>3, <2>7, OnlyTheProcess DEF QualInv, QualTypeOK
<1> QED BY <1>0, <1>1

(* Rows of what is recovered.                                              *)
LEMMA RecoverRowSafe == ASSUME QualInv, RecoverRow PROVE QualInv'
<1>1. /\ UNCHANGED <<source, lock, legacy, amend, objects, sidecars, kept, pins, proc, wire,
                     crashes>>
      /\ proc.kind = "ordinary" /\ lock # Absent /\ At("recover")
  BY DEF RecoverRow
<1>2. PICK k \in Recoverable \ Malformed : rows' = rows \cup {k}
  BY DEF RecoverRow
<1>3. k \in objects \cap sidecars
  BY <1>2 DEF Recoverable
<1>4. legacy # Absent
  BY <1>1, <1>2 DEF QualInv, Kept
<1>5. QualTypeOK'
  BY <1>1, <1>2, <1>3 DEF QualInv, QualTypeOK, pins
<1>6. proc \in Process /\ Ordinary /\ Version' = Version
  BY <1>1, KindOf DEF Version
<1>7. Steady' /\ Planning'
  BY <1>1, <1>6 DEF Ordinary, Steady, Planning, At
<1>8. ByKind'
  BY <1>1, <1>6, <1>7, OnItsWay DEF At
<1>9. rows \subseteq rows'
  BY <1>2
<1> QED BY <1>1, <1>4, <1>5, <1>6, <1>8, <1>9, EvidenceGrows DEF Ordinary

(* Rows a first plan stands on.                                            *)
LEMMA AdoptRowSafe == ASSUME QualInv, AdoptRow PROVE QualInv'
<1>1. /\ UNCHANGED <<source, lock, legacy, amend, objects, sidecars, kept, pins, proc, wire,
                     crashes>>
      /\ At("adopt")
  BY DEF AdoptRow
<1>2. PICK k \in proc.mem \ rows : rows' = rows \cup {k}
  BY DEF AdoptRow
<1>3. proc \in Process /\ proc.kind = "ordinary" /\ Ordinary /\ Version' = Version
  BY <1>1, KindOf DEF Version, At
<1>4. lock = Absent /\ proc.mem \subseteq Recoverable \cup rows /\ Recoverable \subseteq proc.mem
  BY <1>1, <1>3 DEF Ordinary, Planning, At
<1>5. k \in objects \cap sidecars
  BY <1>2, <1>4 DEF Recoverable
<1>6. QualTypeOK'
  BY <1>1, <1>2, <1>5 DEF QualInv, QualTypeOK, pins
<1>7. Recoverable' = Recoverable \ {k}
  BY <1>1, <1>2 DEF Recoverable
<1>8. Steady' /\ Planning'
  BY <1>1, <1>2, <1>3, <1>4, <1>7 DEF Ordinary, Steady, Planning, At
<1>9. ByKind'
  BY <1>1, <1>3, <1>8, OnItsWay DEF At
<1>10. rows \subseteq rows'
  BY <1>2
<1> QED BY <1>1, <1>3, <1>4, <1>6, <1>9, <1>10, EvidenceGrows DEF Ordinary

(* A settlement of what is proved.                                         *)
LEMMA SettleProvedSafe == ASSUME QualInv, SettleProved PROVE QualInv'
<1>1. /\ UNCHANGED <<source, lock, rows, objects, sidecars, kept, pins, proc, wire, crashes>>
      /\ At("reconcile")
  BY DEF SettleProved
<1>2. PICK k \in CurrentLedger.reserved \cap Evidence :
         Put(Settle(CurrentLedger, k, Actual[k]))
  BY DEF SettleProved
<1>3. proc \in Process /\ proc.kind = "ordinary" /\ Ordinary
  BY <1>1, KindOf DEF At
<1>4. lock # Absent
  <2> SUFFICES ASSUME lock = Absent PROVE FALSE
    OBVIOUS
  <2>1. legacy = Absent /\ Version = 0
    BY VersionOf DEF QualInv, Kept
  <2>2. CurrentLedger.reserved = {}
    BY <2>1 DEF CurrentLedger, NewLedger
  <2> QED BY <1>2, <2>2
<1>5. proc.mem = {} /\ Evidence = rows
  BY <1>1, <1>3, <1>4 DEF Ordinary, Planning, At, Evidence
<1>6. /\ CurrentLedger \in Ledger /\ Keeps(CurrentLedger, lock.plan, Limit)
  BY <1>4, <1>5, TheLedger DEF QualInv
<1>7. k \in Key /\ k \notin Settled(CurrentLedger) /\ k \in Known(CurrentLedger)
      /\ k \in rows /\ Actual[k] \in Nat
  BY <1>2, <1>5, <1>6, SettledIn, SizeAssumption DEF Keeps, Known
<1> DEFINE m == Settle(CurrentLedger, k, Actual[k])
<1>8. /\ m \in Ledger /\ m.max = CurrentLedger.max /\ m.receipts = CurrentLedger.receipts
      /\ Keeps(m, lock.plan, Limit) /\ ~Forgets(CurrentLedger, m)
  BY <1>6, <1>7, Settling, SettlingOverrun DEF Keeps, Forgets
<1>9. UNCHANGED Version /\ UNCHANGED Recoverable
  BY <1>1 DEF Version, Recoverable
<1>10. Steady'
  <2>1. CASE Version = 4
    <3>1. CurrentLedger = amend /\ amend' = m
      BY <1>2, <2>1 DEF CurrentLedger, Put
    <3> QED BY <1>1, <1>3, <1>8, <1>9, <2>1, <3>1 DEF Ordinary, Steady
  <2>2. CASE Version # 4
    BY <1>1, <1>2, <1>3, <1>9, <2>2 DEF Ordinary, Steady, Put
  <2> QED BY <2>1, <2>2
<1>11. Planning'
  BY <1>1, <1>3, <1>4, <1>5, <1>9 DEF Ordinary, Planning, At
<1>12. proc' \in Process /\ ByKind'
  BY <1>1, <1>3, <1>10, <1>11, OnItsWay DEF At
<1> HIDE DEF m
<1>13. Put(m)
  BY <1>2 DEF m
<1> QED BY <1>1, <1>3, <1>4, <1>5, <1>8, <1>12, <1>13, LedgerGrows DEF Ordinary

(* The first plan fits the budget beside what was retained.                *)
LEMMA LockPlanSafe == ASSUME QualInv, LockPlan PROVE QualInv'
<1>1. /\ UNCHANGED <<source, legacy, amend, rows, objects, sidecars, kept, pins, wire, crashes>>
      /\ UNCHANGED <<approved, accepted>>
      /\ At("adopt") /\ proc.mem \subseteq rows
  BY DEF LockPlan, pins
<1>2. proc \in Process /\ proc.kind = "ordinary" /\ Ordinary
  BY <1>1, KindOf DEF At
<1>3. lock = Absent /\ Recoverable \subseteq proc.mem /\ proc.done = {} /\ amend = Absent
  BY <1>1, <1>2 DEF Ordinary, Planning, At, QualInv, Kept
<1>4. legacy = Absent /\ Version = 0 /\ accepted = Absent
  BY <1>3, VersionOf DEF QualInv, Kept, CorrectionExact
<1>5. Recoverable = {} /\ Evidence = rows
  BY <1>1, <1>3 DEF Recoverable, Evidence
<1>6. CurrentLedger = NewLedger(Bytes(Actual, rows), <<>>)
  BY <1>4, <1>5 DEF CurrentLedger
<1>7. PICK plan \in Plans(rows, Remaining(NewLedger(Bytes(Actual, rows), <<>>), DownloadBudget)) :
        lock' = Lock(1, source, plan, rows, <<>>)
  BY <1>6 DEF LockPlan
<1>8. rows \in SUBSET Key /\ source \in Nat /\ <<>> \in Seq(Nat) /\ DownloadBudget \in Nat
  BY QualificationAssumption DEF QualInv, QualTypeOK
<1>9. /\ plan \in Sample
      /\ Keeps(NewLedger(Bytes(Actual, rows), <<>>), plan, DownloadBudget)
  <2>1. Bytes(Actual, rows) \in Nat
    BY <1>8, ListedBytes
  <2> QED BY <1>7, <1>8, <2>1, PlanFits
<1>10. /\ lock' \in Locks /\ lock'.plan = plan /\ lock'.version = 1 /\ lock'.retained = rows
  BY <1>7, <1>8, <1>9 DEF Lock, Locks
<1>11. lock' # Absent
  BY <1>10, QualificationAssumption
<1>12. Version' = 1
  BY <1>10, <1>11 DEF Version
<1>13. proc' \in Process /\ proc'.kind = "ordinary" /\ proc'.pc = "flush" /\ proc'.mem = proc.mem
       /\ proc'.done = proc.done
  BY <1>2 DEF LockPlan, Moves, Process
<1>14. Recoverable' = Recoverable
  BY <1>1 DEF Recoverable
<1>15. QualTypeOK'
  BY <1>1, <1>10, <1>13 DEF QualInv, QualTypeOK
<1>16. Kept'
  BY <1>1, <1>4, <1>5, <1>9, <1>10, <1>11, <1>12, <1>14 DEF Kept, Keeps
<1>17. MigrationExact' /\ CorrectionExact'
  BY <1>1, <1>3, <1>4, <1>12 DEF QualInv, MigrationExact, CorrectionExact
<1>18. EveryByteIsAccounted'
  BY <1>1 DEF QualInv, EveryByteIsAccounted, Accounted, Overrun
<1>19. Steady' /\ Planning'
  BY <1>1, <1>3, <1>11, <1>12, <1>13 DEF Steady, Planning, At
<1>20. ByKind'
  BY <1>13, <1>19, OnItsWay
<1> QED BY <1>15, <1>16, <1>17, <1>18, <1>20 DEF QualInv

(* The ledger is written before the loop.                                  *)
LEMMA FlushLedgerSafe == ASSUME QualInv, FlushLedger PROVE QualInv'
<1>1. /\ UNCHANGED <<source, lock, rows, objects, sidecars, kept, pins, wire, crashes>>
      /\ At("flush")
  BY DEF FlushLedger
<1>2. proc \in Process /\ proc.kind = "ordinary" /\ Ordinary
  BY <1>1, KindOf DEF At
<1>3. lock # Absent /\ proc.mem \subseteq rows /\ proc.done = {}
  BY <1>1, <1>2 DEF Ordinary, Planning, At
<1>4. Evidence = rows
  BY <1>3 DEF Evidence
<1>5. /\ CurrentLedger \in Ledger /\ Keeps(CurrentLedger, lock.plan, Limit)
  BY <1>3, <1>4, TheLedger DEF QualInv
<1>6. proc' \in Process /\ proc'.kind = "ordinary" /\ proc'.pc = "loop" /\ proc'.done = {}
  BY <1>2, <1>3 DEF FlushLedger, Moves, Process
<1>7. Put(CurrentLedger) /\ Version' = Version
  BY <1>1 DEF FlushLedger, Version
<1>8. Steady'
  <2>1. CASE Version = 4
    <3>1. amend' = amend
      BY <1>7, <2>1 DEF CurrentLedger, Put
    <3> QED BY <1>1, <1>2, <1>7, <2>1, <3>1 DEF Ordinary, Steady
  <2>2. CASE Version # 4
    BY <1>1, <1>2, <1>7, <2>2 DEF Ordinary, Steady, Put
  <2> QED BY <2>1, <2>2
<1>9. legacy' # Absent
  <2>1. CASE Version = 4
    BY <1>7, <2>1, LegacyOfMigrated DEF Put
  <2>2. CASE Version # 4
    BY <1>5, <1>7, <2>2, QualificationAssumption DEF Put
  <2> QED BY <2>1, <2>2
<1>10. Acquiring' /\ Looping'
  BY <1>1, <1>3, <1>6, <1>9 DEF Acquiring, Looping, At
<1>11. ByKind'
  BY <1>6, <1>8, <1>10, InTheLoop
<1>12. PICK m \in {CurrentLedger} : TRUE
  OBVIOUS
<1>13. ~Forgets(CurrentLedger, m)
  BY <1>12 DEF Forgets
<1> QED BY <1>1, <1>2, <1>3, <1>4, <1>5, <1>6, <1>7, <1>11, <1>12, <1>13, LedgerGrows DEF Ordinary
-----------------------------------------------------------------------------
(* The acquisition loop.                                                   *)

(* What holds at each of its points.                                       *)
LEMMA LoopState ==
  ASSUME QualInv, Looping
  PROVE  /\ proc \in Process /\ proc.kind = "ordinary" /\ Steady /\ Acquiring
         /\ lock # Absent /\ legacy # Absent
         /\ CurrentLedger \in Ledger /\ CurrentLedger # Absent
         /\ Keeps(CurrentLedger, lock.plan, Limit) /\ Limit \in Nat
         /\ lock \in Locks
         /\ \A k \in proc.done \ proc.won : k \in Known(CurrentLedger) \/ Overrun(CurrentLedger)
<1>1. proc \in Process /\ proc.kind = "ordinary" /\ Ordinary
  BY KindOf
<1>2. lock # Absent /\ legacy # Absent
      /\ \A k \in proc.done \ proc.won : k \in Known(CurrentLedger) \/ Overrun(CurrentLedger)
  BY <1>1 DEF Ordinary, Acquiring
<1>3. /\ CurrentLedger \in Ledger /\ Keeps(CurrentLedger, lock.plan, Limit) /\ Limit \in Nat
      /\ lock \in Locks
  BY <1>2, TheLedger, VersionOf DEF QualInv
<1>4. CurrentLedger # Absent
  BY <1>3, QualificationAssumption
<1> QED BY <1>1, <1>2, <1>3, <1>4 DEF Ordinary

(* The object a step of the loop is at has been accounted for.             *)
LEMMA AtObject ==
  ASSUME QualInv, Looping, ~At("loop")
  PROVE  proc.at \in Key /\ Accounted(CurrentLedger, proc.at)
         /\ (~proc.alias => proc.at \in CurrentLedger.reserved)
<1>1. Acquiring /\ CurrentLedger # Absent
  BY LoopState
<1>2. proc.at \in Key /\ (proc.alias => Accounted(CurrentLedger, proc.at))
      /\ (~proc.alias => proc.at \in CurrentLedger.reserved)
  BY <1>1 DEF Acquiring
<1> QED BY <1>1, <1>2 DEF Accounted, Known

(* A step of the loop that changes the process only.                       *)
LEMMA LoopStep ==
  ASSUME QualInv, Looping, UNCHANGED <<source, files, pins, wire, crashes>>,
         proc' \in Process, proc'.kind = "ordinary", proc'.pc \in {"loop", "sidecar"},
         \A k \in proc'.done \ proc'.won : k \in Known(CurrentLedger) \/ Overrun(CurrentLedger),
         proc'.pc = "sidecar" =>
           proc'.at \in Key /\ proc'.alias = TRUE /\ Accounted(CurrentLedger, proc'.at)
  PROVE  QualInv'
<1>1. UNCHANGED <<lock, legacy, amend, rows, objects, sidecars>>
  BY DEF files
<1>2. Steady /\ lock # Absent /\ legacy # Absent
  BY LoopState
<1>3. Version' = Version /\ CurrentLedger' = CurrentLedger
  BY <1>1, <1>2, SameStore
<1>4. Steady'
  BY <1>1, <1>2, <1>3 DEF Steady
<1>5. Known(CurrentLedger)' = Known(CurrentLedger)
      /\ Overrun(CurrentLedger)' = Overrun(CurrentLedger)
  BY <1>3 DEF Known, Settled, Overrun
<1>6. Accounted(CurrentLedger, proc.at)' = Accounted(CurrentLedger, proc'.at)
  BY <1>3, <1>5 DEF Accounted
<1>7. Acquiring' /\ Looping'
  BY <1>1, <1>2, <1>5, <1>6 DEF Acquiring, Looping, At
<1>8. ByKind'
  BY <1>4, <1>7, InTheLoop
<1> QED BY <1>8, OnlyTheProcess DEF QualInv, QualTypeOK

(* A retained object costs nothing.                                        *)
LEMMA ReuseSafe == ASSUME QualInv, Reuse PROVE QualInv'
<1>1. At("loop") /\ Looping /\ UNCHANGED <<source, files, pins, wire, crashes>>
  BY DEF Reuse, Looping, At
<1>2. PICK k \in (Entries \ proc.done) \cap rows :
        proc' = [proc EXCEPT !.done = @ \cup {k}, !.won = @ \cup {k}]
  BY DEF Reuse
<1>3. proc \in Process /\ proc.kind = "ordinary" /\ k \in Key
  BY <1>1, LoopState DEF Entries
<1>4. /\ proc' \in Process /\ proc'.kind = "ordinary" /\ proc'.pc = "loop"
      /\ proc'.done = proc.done \cup {k} /\ proc'.won = proc.won \cup {k}
  BY <1>1, <1>2, <1>3 DEF Process, At
<1>5. \A j \in proc'.done \ proc'.won : j \in Known(CurrentLedger) \/ Overrun(CurrentLedger)
  BY <1>1, <1>4, LoopState
<1> QED BY <1>1, <1>4, <1>5, LoopStep

(* What the budget blocks is known to the ledger or follows an overrun.    *)
LEMMA BlockSafe == ASSUME QualInv, Block PROVE QualInv'
<1>1. At("loop") /\ Looping /\ UNCHANGED <<source, files, pins, wire, crashes>>
  BY DEF Block, Looping, At
<1>2. PICK k \in Entries \ proc.done : /\ New(k) /\ BlockedByBudget(k)
                                       /\ proc' = [proc EXCEPT !.done = @ \cup {k}]
  BY DEF Block
<1>3. /\ proc \in Process /\ proc.kind = "ordinary" /\ k \in Key
      /\ CurrentLedger \in Ledger /\ Keeps(CurrentLedger, lock.plan, Limit) /\ Limit \in Nat
  BY <1>1, LoopState DEF Entries
<1>4. /\ proc' \in Process /\ proc'.kind = "ordinary" /\ proc'.pc = "loop"
      /\ proc'.done = proc.done \cup {k} /\ proc'.won = proc.won
  BY <1>1, <1>2, <1>3 DEF Process, At
<1>5. k \in Downloads(lock.plan) /\ Listed[k] > Remaining(CurrentLedger, Limit)
  BY <1>2, <1>3 DEF New, BlockedByBudget, Downloads
<1>6. k \in Known(CurrentLedger) \/ Overrun(CurrentLedger)
  BY <1>3, <1>5, BlockedOnlyByOverrun
<1>7. \A j \in proc'.done \ proc'.won : j \in Known(CurrentLedger) \/ Overrun(CurrentLedger)
  BY <1>1, <1>4, <1>6, LoopState
<1> QED BY <1>1, <1>4, <1>7, LoopStep

(* An alias is of an object that has been accounted for.                   *)
LEMMA AliasSafe == ASSUME QualInv, Alias PROVE QualInv'
<1>1. At("loop") /\ Looping /\ UNCHANGED <<source, files, pins, wire, crashes>>
  BY DEF Alias, Looping, At
<1>2. PICK k \in (Doubled \cap Entries \cap proc.done) \ proc.again :
        proc' = IF k \in proc.won THEN [proc EXCEPT !.again = @ \cup {k}]
                ELSE [proc EXCEPT !.at = k, !.alias = TRUE, !.pc = "sidecar"]
  BY DEF Alias
<1>3. proc \in Process /\ proc.kind = "ordinary" /\ k \in Key /\ CurrentLedger # Absent
  BY <1>1, LoopState DEF Entries
<1>4. TRUE \in BOOLEAN
  BY Zenon
<1>5. CASE k \in proc.won
  <2>1. /\ proc' \in Process /\ proc'.kind = "ordinary" /\ proc'.pc = "loop"
        /\ proc'.done = proc.done /\ proc'.won = proc.won
    BY <1>1, <1>2, <1>3, <1>5 DEF Process, At
  <2>2. \A j \in proc'.done \ proc'.won : j \in Known(CurrentLedger) \/ Overrun(CurrentLedger)
    BY <1>1, <2>1, LoopState
  <2> QED BY <1>1, <2>1, <2>2, LoopStep
<1>6. CASE k \notin proc.won
  <2>1. /\ proc' \in Process /\ proc'.kind = "ordinary" /\ proc'.pc = "sidecar"
        /\ proc'.done = proc.done /\ proc'.won = proc.won
        /\ proc'.at = k /\ proc'.alias = TRUE
    BY <1>1, <1>2, <1>3, <1>4, <1>6 DEF Process
  <2>2. \A j \in proc'.done \ proc'.won : j \in Known(CurrentLedger) \/ Overrun(CurrentLedger)
    BY <1>1, <2>1, LoopState
  <2>3. k \in Known(CurrentLedger) \/ Overrun(CurrentLedger)
    BY <1>1, <1>2, <1>6, LoopState
  <2>4. Accounted(CurrentLedger, proc'.at)
    BY <1>2, <1>3, <2>1, <2>3 DEF Accounted
  <2> QED BY <1>1, <1>3, <2>1, <2>2, <2>4, LoopStep
<1> QED BY <1>5, <1>6

(* The loop goes on behind an object.                                      *)
LEMMA BehindIs ==
  ASSUME proc \in Process, proc.at \in Key, NEW won \in SUBSET Key, proc' = Behind(won)
  PROVE  /\ proc' \in Process /\ proc'.kind = proc.kind /\ proc'.pc = "loop"
         /\ proc'.done = proc.done \cup {proc.at} /\ proc'.won = proc.won \cup won
BY DEF Behind, Process

(* A failed acquisition leaves its reservation charged.                    *)
LEMMA FailSafe == ASSUME QualInv, Fail PROVE QualInv'
<1>1. Looping /\ ~At("loop") /\ UNCHANGED <<source, files, pins, wire, crashes>>
  BY DEF Fail, Looping, At
<1>2. proc \in Process /\ proc.kind = "ordinary"
      /\ proc.at \in Key /\ Accounted(CurrentLedger, proc.at)
  BY <1>1, LoopState, AtObject
<1>3. /\ proc' \in Process /\ proc'.kind = "ordinary" /\ proc'.pc = "loop"
      /\ proc'.done = proc.done \cup {proc.at} /\ proc'.won = proc.won
  <2>1. PICK none \in SUBSET Key : none = {}
    OBVIOUS
  <2>2. proc' = Behind(none)
    BY <2>1 DEF Fail
  <2>3. /\ proc' \in Process /\ proc'.kind = proc.kind /\ proc'.pc = "loop"
        /\ proc'.done = proc.done \cup {proc.at} /\ proc'.won = proc.won \cup none
    BY <1>2, <2>2, BehindIs
  <2> QED BY <1>2, <2>1, <2>3
<1>4. proc.at \in Known(CurrentLedger) \/ Overrun(CurrentLedger)
  BY <1>2 DEF Accounted
<1>5. \A j \in proc'.done \ proc'.won : j \in Known(CurrentLedger) \/ Overrun(CurrentLedger)
  BY <1>1, <1>3, <1>4, LoopState
<1> QED BY <1>1, <1>3, <1>5, LoopStep

(* The ledger a run has just written is the one it reads.                  *)
LEMMA PutIs ==
  ASSUME NEW m, m # Absent, Put(m), UNCHANGED lock, legacy # Absent
  PROVE  CurrentLedger' = m /\ legacy' # Absent /\ Version' = Version
BY DEF Put, CurrentLedger, Version

(* An entry is reserved before its acquisition.                            *)
LEMMA ReserveEntrySafe == ASSUME QualInv, ReserveEntry PROVE QualInv'
<1>1. At("loop") /\ Looping
      /\ UNCHANGED <<source, lock, rows, objects, sidecars, kept, pins, wire, crashes>>
  BY DEF ReserveEntry, Looping, At
<1>2. PICK k \in Entries \ proc.done :
        /\ New(k) /\ Put(Reserve(CurrentLedger, k))
        /\ proc' = [proc EXCEPT !.at = k, !.alias = FALSE, !.pc = "sidecar"]
  BY DEF ReserveEntry
<1>3. /\ proc \in Process /\ proc.kind = "ordinary" /\ Steady /\ lock # Absent /\ legacy # Absent
      /\ CurrentLedger \in Ledger /\ Keeps(CurrentLedger, lock.plan, Limit)
  BY <1>1, LoopState
<1>4. k \in Key /\ k \notin rows /\ k \in Downloads(lock.plan)
  BY <1>2 DEF New, Entries, Downloads
<1>5. PICK m \in {Reserve(CurrentLedger, k)} : TRUE
  OBVIOUS
<1>6. PICK l \in {CurrentLedger} : TRUE
  OBVIOUS
<1>7. k \notin Settled(l)
  BY <1>3, <1>4, <1>6 DEF Keeps
<1>8. /\ m \in Ledger /\ Settled(m) = Settled(l) /\ Known(m) = Known(l) \cup {k}
      /\ k \in m.reserved /\ m.max = l.max /\ m.receipts = l.receipts /\ m.charge = l.charge
      /\ m.reserved \cap Settled(l) = {}
  BY <1>3, <1>4, <1>5, <1>6, <1>7, Reserving DEF Keeps
<1>9. Keeps(m, lock.plan, Limit)
  BY <1>3, <1>4, <1>6, <1>8 DEF Keeps
<1>10. Known(l) \subseteq Known(m) /\ (Overrun(l) => Overrun(m))
  BY <1>8 DEF Overrun
<1>11. m # Absent /\ Put(m)
  BY <1>2, <1>5, <1>8, QualificationAssumption
<1>12. CurrentLedger' = m /\ legacy' # Absent /\ Version' = Version
  BY <1>1, <1>3, <1>11, PutIs
<1>13. Steady'
  BY <1>1, <1>3, <1>6, <1>8, <1>11, <1>12 DEF Steady, Put, CurrentLedger
<1>14. FALSE \in BOOLEAN
  BY Zenon
<1>15. /\ proc' \in Process /\ proc'.kind = "ordinary" /\ proc'.pc = "sidecar"
       /\ proc'.done = proc.done /\ proc'.won = proc.won
       /\ proc'.at = k /\ proc'.alias = FALSE
  BY <1>2, <1>3, <1>4, <1>14 DEF Process
<1>16. \A j \in proc'.done \ proc'.won : j \in Known(m) \/ Overrun(m)
  BY <1>1, <1>6, <1>10, <1>15, LoopState
<1>17. Known(CurrentLedger)' = Known(m) /\ Overrun(CurrentLedger)' = Overrun(m)
  BY <1>12 DEF Known, Settled, Overrun
<1>18. Acquiring' /\ Looping'
  BY <1>1, <1>3, <1>4, <1>8, <1>12, <1>15, <1>16, <1>17 DEF Acquiring, Looping, At
<1>19. ByKind'
  BY <1>13, <1>15, <1>18, InTheLoop
<1> QED BY <1>1, <1>3, <1>6, <1>8, <1>9, <1>10, <1>11, <1>15, <1>19, LedgerGrows DEF Forgets

(* A step of an acquisition that leaves both ledgers alone.                *)
LEMMA AcquisitionStep ==
  ASSUME QualInv, Looping, ~At("loop"),
         UNCHANGED <<source, lock, legacy, amend, kept, pins, crashes>>,
         wire' \in {wire, wire \cup {<<Book, proc.at, "found">>}},
         rows \subseteq rows', objects \subseteq objects', sidecars \subseteq sidecars',
         objects' \cup sidecars' \subseteq Key, rows' \subseteq objects' \cap sidecars',
         proc' \in Process, proc'.kind = "ordinary",
         \/ /\ proc'.pc \in {"fetch", "record", "settle"}
            /\ proc'.at = proc.at /\ proc'.alias = proc.alias
            /\ proc'.done = proc.done /\ proc'.won = proc.won
            /\ proc'.pc = "fetch" => proc.at \in sidecars'
            /\ proc'.pc = "record" => proc.at \in objects' \cap sidecars'
            /\ proc'.pc = "settle" => ~proc.alias /\ proc.at \in rows'
         \/ /\ proc'.pc = "loop"
            /\ proc'.done = proc.done \cup {proc.at} /\ proc.won \subseteq proc'.won
  PROVE  QualInv'
<1>1. /\ Steady /\ Acquiring /\ lock # Absent /\ legacy # Absent
      /\ \A k \in proc.done \ proc.won : k \in Known(CurrentLedger) \/ Overrun(CurrentLedger)
  BY LoopState
<1>2. proc.at \in Key /\ Accounted(CurrentLedger, proc.at)
      /\ (~proc.alias => proc.at \in CurrentLedger.reserved)
  BY AtObject
<1>3. Version' = Version /\ CurrentLedger' = CurrentLedger
  BY <1>1 DEF Version, CurrentLedger
<1>4. Steady'
  BY <1>1, <1>3 DEF Steady
<1>5. Known(CurrentLedger)' = Known(CurrentLedger)
      /\ Overrun(CurrentLedger)' = Overrun(CurrentLedger)
  BY <1>3 DEF Known, Settled, Overrun
<1>6. Accounted(CurrentLedger, proc.at)' = Accounted(CurrentLedger, proc'.at)
  BY <1>3, <1>5 DEF Accounted
<1>7. proc.at \in Known(CurrentLedger) \/ Overrun(CurrentLedger)
  BY <1>2 DEF Accounted
<1>8. Acquiring' /\ Looping'
  BY <1>1, <1>2, <1>3, <1>5, <1>6, <1>7 DEF Acquiring, Looping, At
<1>9. ByKind'
  BY <1>4, <1>8, InTheLoop
<1>10. QualTypeOK'
  BY <1>2 DEF QualInv, QualTypeOK, pins, Book
<1>11. \A c \in wire' \ wire : Accounted(IF c[1] = "amend" THEN amend ELSE legacy, c[2])
  <2>1. CurrentLedger = IF Book = "amend" THEN amend ELSE legacy
    BY <1>1 DEF CurrentLedger, Book
  <2> QED BY <1>2, <2>1
<1> QED BY <1>1, <1>9, <1>10, <1>11, EvidenceGrows

(* The provider's checksum is retained.                                    *)
LEMMA PersistSidecarSafe == ASSUME QualInv, PersistSidecar PROVE QualInv'
<1>1. /\ Looping /\ ~At("loop") /\ At("sidecar") /\ sidecars' = sidecars \cup {proc.at}
      /\ UNCHANGED <<source, lock, legacy, amend, rows, objects, kept, pins, wire, crashes>>
  BY DEF PersistSidecar, Looping, At
<1>2. proc \in Process /\ proc.kind = "ordinary" /\ proc.at \in Key
  BY <1>1, LoopState, AtObject
<1>3. /\ proc' \in Process /\ proc'.kind = "ordinary" /\ proc'.pc = "fetch"
      /\ proc'.at = proc.at /\ proc'.alias = proc.alias
      /\ proc'.done = proc.done /\ proc'.won = proc.won
  BY <1>2 DEF PersistSidecar, Moves, Process
<1>4. /\ sidecars \subseteq sidecars' /\ objects' \cup sidecars' \subseteq Key
      /\ rows' \subseteq objects' \cap sidecars'
  BY <1>1, <1>2 DEF QualInv, QualTypeOK
<1> QED BY <1>1, <1>3, <1>4, AcquisitionStep

(* The object is published.                                                *)
LEMMA PublishObjectSafe == ASSUME QualInv, PublishObject PROVE QualInv'
<1>1. /\ Looping /\ ~At("loop") /\ At("fetch") /\ objects' = objects \cup {proc.at}
      /\ UNCHANGED <<source, lock, legacy, amend, rows, sidecars, kept, pins, crashes>>
      /\ wire' \in {wire, wire \cup {<<Book, proc.at, "found">>}}
  BY DEF PublishObject, Looping, At
<1>2. proc \in Process /\ proc.kind = "ordinary" /\ proc.at \in Key /\ proc.at \in sidecars
  BY <1>1, LoopState, AtObject DEF Acquiring
<1>3. /\ proc' \in Process /\ proc'.kind = "ordinary" /\ proc'.pc = "record"
      /\ proc'.at = proc.at /\ proc'.alias = proc.alias
      /\ proc'.done = proc.done /\ proc'.won = proc.won
  <2>1. (proc.at \in objects) \in BOOLEAN
    OBVIOUS
  <2>2. PICK held : held = (proc.at \in objects)
    OBVIOUS
  <2>3. held \in BOOLEAN
    BY <2>1, <2>2
  <2>4. proc' = [proc EXCEPT !.reused = held, !.pc = "record"]
    BY <2>2 DEF PublishObject
  <2> QED BY <1>2, <2>3, <2>4 DEF Process
<1>4. /\ objects \subseteq objects' /\ objects' \cup sidecars' \subseteq Key
      /\ rows' \subseteq objects' \cap sidecars'
  BY <1>1, <1>2 DEF QualInv, QualTypeOK
<1> QED BY <1>1, <1>2, <1>3, <1>4, AcquisitionStep

(* Its row is written, once it is retained with its checksum.              *)
LEMMA RecordRowSafe == ASSUME QualInv, RecordRow PROVE QualInv'
<1>1. /\ Looping /\ ~At("loop") /\ At("record") /\ rows' = rows \cup {proc.at}
      /\ UNCHANGED <<source, lock, legacy, amend, objects, sidecars, kept, pins, wire, crashes>>
  BY DEF RecordRow, Looping, At
<1>2. proc \in Process /\ proc.kind = "ordinary" /\ proc.at \in Key
      /\ proc.at \in objects \cap sidecars
  BY <1>1, LoopState, AtObject DEF Acquiring
<1>3. /\ rows \subseteq rows' /\ objects' \cup sidecars' \subseteq Key
      /\ rows' \subseteq objects' \cap sidecars'
  BY <1>1, <1>2 DEF QualInv, QualTypeOK
<1>4. CASE proc.alias
  <2>1. proc' = Behind({proc.at}) /\ {proc.at} \in SUBSET Key
    BY <1>2, <1>4 DEF RecordRow
  <2>2. /\ proc' \in Process /\ proc'.kind = "ordinary" /\ proc'.pc = "loop"
        /\ proc'.done = proc.done \cup {proc.at} /\ proc.won \subseteq proc'.won
    BY <1>2, <2>1, BehindIs
  <2> QED BY <1>1, <1>3, <2>2, AcquisitionStep
<1>5. CASE ~proc.alias
  <2>1. /\ proc' \in Process /\ proc'.kind = "ordinary" /\ proc'.pc = "settle"
        /\ proc'.at = proc.at /\ proc'.alias = proc.alias
        /\ proc'.done = proc.done /\ proc'.won = proc.won
    BY <1>2, <1>5 DEF RecordRow, Moves, Process
  <2>2. proc.at \in rows'
    BY <1>1
  <2> QED BY <1>1, <1>3, <1>5, <2>1, <2>2, AcquisitionStep
<1> QED BY <1>4, <1>5

(* Bytes cross for an object that has been accounted for.                  *)
LEMMA ReceiveSafe == ASSUME QualInv, Receive PROVE QualInv'
<1>1. /\ Looping /\ ~At("loop") /\ wire' = wire \cup {<<Book, proc.at, "bytes">>}
      /\ UNCHANGED <<source, files, pins, proc, crashes>>
      /\ UNCHANGED <<source, lock, legacy, amend, rows, objects, sidecars, kept, approved,
                     accepted>>
  BY DEF Receive, Looping, At, files, pins
<1>2. /\ proc.at \in Key /\ Accounted(CurrentLedger, proc.at) /\ lock # Absent /\ legacy # Absent
      /\ proc \in Process /\ proc.kind = "ordinary" /\ Ordinary
  BY <1>1, AtObject, LoopState, KindOf
<1>3. /\ Version' = Version /\ Recoverable' = Recoverable /\ Poisoned' = Poisoned
      /\ CurrentLedger' = CurrentLedger
  BY <1>1, <1>2, SameStore
<1>4. QualTypeOK'
  BY <1>1, <1>2 DEF QualInv, QualTypeOK, Book
<1>5. Kept'
  BY <1>1, <1>3 DEF QualInv, Kept, Keeps
<1>6. MigrationExact'
  BY <1>1, <1>3 DEF QualInv, MigrationExact
<1>7. CorrectionExact'
  BY <1>1, <1>3 DEF QualInv, CorrectionExact, OneMore
<1>8. EveryByteIsAccounted'
  <2>1. CurrentLedger = IF Book = "amend" THEN amend ELSE legacy
    BY <1>2 DEF CurrentLedger, Book
  <2>2. \A c \in wire' :
          Accounted(IF c[1] = "amend" THEN amend ELSE legacy, c[2])
    BY <1>1, <1>2, <2>1 DEF QualInv, EveryByteIsAccounted
  <2> QED BY <1>1, <2>2 DEF EveryByteIsAccounted, Accounted, Overrun
<1>9. ByKind'
  <2>1. Steady' /\ Acquiring' /\ Looping'
    BY <1>1, <1>2, <1>3 DEF Ordinary, Steady, Acquiring, Looping, At, Accounted, Known, Overrun
  <2> QED BY <1>1, <1>2, <2>1, InTheLoop
<1> QED BY <1>4, <1>5, <1>6, <1>7, <1>8, <1>9 DEF QualInv

(* Its reservation becomes a charge.                                       *)
LEMMA SettleEntrySafe == ASSUME QualInv, SettleEntry PROVE QualInv'
<1>1. /\ Looping /\ ~At("loop") /\ At("settle")
      /\ UNCHANGED <<source, lock, rows, objects, sidecars, kept, pins, wire, crashes>>
  BY DEF SettleEntry, Looping, At
<1>2. /\ proc \in Process /\ proc.kind = "ordinary" /\ Steady /\ lock # Absent /\ legacy # Absent
      /\ CurrentLedger \in Ledger /\ Keeps(CurrentLedger, lock.plan, Limit)
      /\ proc.at \in Key /\ proc.at \in rows /\ proc.at \in CurrentLedger.reserved
  BY <1>1, LoopState, AtObject DEF Acquiring
<1>3. PICK bytes \in {IF proc.reused THEN 0 ELSE Actual[proc.at]} : TRUE
  OBVIOUS
<1>4. PICK l \in {CurrentLedger} : TRUE
  OBVIOUS
<1>5. PICK k \in {proc.at} : TRUE
  OBVIOUS
<1>6. PICK m \in {Settle(l, k, bytes)} : TRUE
  OBVIOUS
<1>7. bytes \in Nat
  BY <1>2, <1>3, SizeAssumption
<1>8. k \in Key \ Settled(l) /\ k \in Known(l)
  BY <1>2, <1>4, <1>5 DEF Keeps, Known
<1>9. /\ m \in Ledger /\ Settled(m) = Settled(l) \cup {k} /\ Known(m) = Known(l)
      /\ m.reserved = l.reserved \ {k} /\ m.max = l.max /\ m.receipts = l.receipts
      /\ Overrun(l) => Overrun(m)
  <2>1. l \in Ledger /\ k \in Key
    BY <1>2, <1>4, <1>8
  <2>2. /\ m \in Ledger /\ Settled(m) = Settled(l) \cup {k} /\ Known(m) = Known(l) \cup {k}
        /\ m.reserved = l.reserved \ {k} /\ m.max = l.max /\ m.receipts = l.receipts
    BY <1>6, <1>7, <2>1, Settling
  <2>3. Overrun(l) => Overrun(m)
    BY <1>6, <1>7, <1>8, <2>1, SettlingOverrun
  <2> QED BY <1>8, <2>2, <2>3
<1>10. Keeps(m, lock.plan, Limit)
  BY <1>2, <1>4, <1>5, <1>9 DEF Keeps
<1>11. m # Absent /\ Put(m)
  BY <1>3, <1>4, <1>5, <1>6, <1>9, QualificationAssumption DEF SettleEntry
<1>12. CurrentLedger' = m /\ legacy' # Absent /\ Version' = Version
  BY <1>1, <1>2, <1>11, PutIs
<1>13. Steady'
  BY <1>1, <1>2, <1>4, <1>9, <1>11, <1>12 DEF Steady, Put, CurrentLedger
<1>14. /\ proc' \in Process /\ proc'.kind = "ordinary" /\ proc'.pc = "loop"
       /\ proc'.done = proc.done \cup {k} /\ proc'.won = proc.won \cup {k}
  <2>1. proc' = Behind({proc.at}) /\ {proc.at} \in SUBSET Key
    BY <1>2 DEF SettleEntry
  <2> QED BY <1>2, <1>5, <2>1, BehindIs
<1>15. \A j \in proc'.done \ proc'.won : j \in Known(m) \/ Overrun(m)
  BY <1>1, <1>4, <1>9, <1>14, LoopState
<1>16. Known(CurrentLedger)' = Known(m) /\ Overrun(CurrentLedger)' = Overrun(m)
  BY <1>12 DEF Known, Settled, Overrun
<1>17. Acquiring' /\ Looping'
  BY <1>1, <1>2, <1>12, <1>14, <1>15, <1>16 DEF Acquiring, Looping, At
<1>18. ByKind'
  BY <1>13, <1>14, <1>17, InTheLoop
<1> QED BY <1>1, <1>2, <1>4, <1>9, <1>10, <1>11, <1>14, <1>18, LedgerGrows DEF Forgets
-----------------------------------------------------------------------------
(* The migration.                                                          *)

(* A receipt that is appended is the last one.                             *)
LEMMA Receipts ==
  ASSUME NEW s \in Seq(Nat), NEW x \in Nat
  PROVE  /\ Append(s, x) \in Seq(Nat) /\ Last(Append(s, x)) = x
         /\ Append(s, x) # s /\ Append(s, x) # <<>>
<1>1. Len(Append(s, x)) = Len(s) + 1 /\ Len(s) \in Nat /\ Append(s, x)[Len(s) + 1] = x
  OBVIOUS
<1> QED BY <1>1 DEF Last

(* So is the first.                                                        *)
LEMMA FirstReceipt ==
  ASSUME NEW x \in Nat
  PROVE  <<x>> \in Seq(Nat) /\ <<x>> # <<>> /\ Last(<<x>>) = x
<1>1. Len(<<x>>) = 1 /\ <<x>>[1] = x
  OBVIOUS
<1> QED BY <1>1 DEF Last

(* A candidate migration is reviewed and pinned.                           *)
LEMMA ReviewMigrationSafe == ASSUME QualInv, ReviewMigration PROVE QualInv'
<1>1. /\ proc' = NoRun /\ Version = 2 /\ legacy # Absent /\ approved = Absent
      /\ source' = source + 1
      /\ UNCHANGED <<lock, legacy, amend, rows, objects, sidecars, kept, accepted, wire, crashes>>
  BY DEF ReviewMigration, files
<1>2. PICK plan \in Plans(rows \cup Recoverable, Allowance) :
        approved' = [lock |-> lock, legacy |-> legacy, plan |-> plan,
                     retained |-> rows \cup Recoverable]
  BY DEF ReviewMigration
<1>3. plan \in Sample /\ Bytes(Listed, Downloads(plan)) <= Allowance
  BY DEF Plans, IsPlan, Fits
<1>4. lock \in Locks /\ lock.version = 2 /\ legacy \in Ledger
  BY <1>1, VersionOf DEF QualInv, QualTypeOK
<1>5. rows \cup Recoverable \in SUBSET Key
  BY DEF QualInv, QualTypeOK, Recoverable
<1>6. approved' \in Approvals /\ approved'.lock = lock /\ approved'.plan = plan
  BY <1>2, <1>3, <1>4, <1>5 DEF Approvals
<1>7. Version' = Version /\ Recoverable' = Recoverable /\ amend = Absent
  BY <1>1 DEF Version, Recoverable, QualInv, MigrationExact
<1>8. proc' \in Process /\ ByKind'
  BY <1>1, Stopped
<1>9. QualTypeOK'
  BY <1>1, <1>6, <1>8 DEF QualInv, QualTypeOK
<1>10. Kept'
  BY <1>1, <1>7 DEF QualInv, Kept, Keeps
<1>11. MigrationExact'
  BY <1>1, <1>3, <1>4, <1>6, <1>7 DEF MigrationExact
<1>12. CorrectionExact'
  BY <1>1, <1>7 DEF QualInv, CorrectionExact
<1>13. EveryByteIsAccounted'
  BY <1>1 DEF QualInv, EveryByteIsAccounted, Accounted, Overrun
<1> QED BY <1>8, <1>9, <1>10, <1>11, <1>12, <1>13 DEF QualInv

(* It starts on the store that was reviewed.                               *)
LEMMA StartMigrationSafe == ASSUME QualInv, StartMigration PROVE QualInv'
<1>1. UNCHANGED <<source, files, pins, wire>> /\ crashes' = crashes
      /\ UNCHANGED <<lock, legacy, approved>> /\ MigrationAccepts
  BY DEF StartMigration, files, pins
<1>2. proc' \in Process /\ proc'.kind = "migration" /\ proc'.pc = "recover"
  BY NoRunRuns DEF StartMigration, Begin, Process
<1>3. Migrating'
  BY <1>1, <1>2 DEF Migrating, MigrationAccepts, At
<1>4. ByKind'
  BY <1>2, <1>3 DEF ByKind
<1> QED BY <1>1, <1>2, <1>4, OnlyTheProcess DEF QualInv, QualTypeOK

(* Evidence is preserved.                                                  *)
LEMMA KeptGrows ==
  ASSUME QualInv, kept \subseteq kept', proc' \in Process, ByKind',
         UNCHANGED <<source, lock, legacy, amend, rows, objects, sidecars, pins, wire, crashes>>
  PROVE  QualInv'
<1>0. UNCHANGED <<approved, accepted>>
  BY DEF pins
<1>1. Version' = Version /\ Recoverable' = Recoverable /\ Poisoned' = Poisoned
  BY SameStore
<1>2. QualTypeOK'
  BY <1>0 DEF QualInv, QualTypeOK
<1>3. Kept'
  BY <1>0, <1>1 DEF QualInv, Kept, Keeps
<1>4. MigrationExact'
  BY <1>0, <1>1 DEF QualInv, MigrationExact
<1>5. CorrectionExact'
  BY <1>0, <1>1 DEF QualInv, CorrectionExact, OneMore
<1>6. EveryByteIsAccounted'
  BY <1>0 DEF QualInv, EveryByteIsAccounted, Accounted, Overrun
<1> QED BY <1>2, <1>3, <1>4, <1>5, <1>6 DEF QualInv

(* The lock it replaces is preserved first.                                *)
LEMMA PreservePriorLockSafe == ASSUME QualInv, PreservePriorLock PROVE QualInv'
<1>1. /\ At("preserve") /\ proc.kind = "migration"
      /\ UNCHANGED <<source, lock, legacy, amend, rows, objects, sidecars, pins, wire, crashes>>
      /\ UNCHANGED <<approved, accepted>>
  BY DEF PreservePriorLock, pins
<1>2. proc \in Process /\ Migrating
  BY <1>1, KindOf
<1>3. CASE Evidence = approved.retained
  <2>1. kept' = kept \cup {lock} /\ Moves("prepare")
    BY <1>3 DEF PreservePriorLock
  <2>2. /\ proc' \in Process /\ proc'.kind = "migration" /\ proc'.pc = "prepare"
        /\ proc'.mem = proc.mem
    BY <1>1, <1>2, <2>1 DEF Moves, Process
  <2>3. Recoverable' = Recoverable /\ Poisoned' = Poisoned
    BY <1>1, SameStore
  <2>4. Migrating'
    BY <1>1, <1>2, <1>3, <2>1, <2>2, <2>3 DEF Migrating, At, Evidence
  <2>5. ByKind'
    BY <2>2, <2>4 DEF ByKind
  <2>6. kept \subseteq kept'
    BY <2>1
  <2> QED BY <1>1, <2>2, <2>5, <2>6, KeptGrows
<1>4. CASE Evidence # approved.retained
  <2>1. Ends /\ kept' = kept
    BY <1>4 DEF PreservePriorLock
  <2>2. UNCHANGED <<source, files, pins, wire>> /\ crashes' \in Nat
    BY <1>1, <2>1 DEF files, QualInv, QualTypeOK
  <2> QED BY <2>1, <2>2, Stops
<1> QED BY <1>3, <1>4

(* Of the store a migration finds.                                         *)
LEMMA BeforeTheLock ==
  ASSUME QualInv, Migrating
  PROVE  /\ approved \in Approvals /\ lock \in Locks /\ lock # Absent
         /\ Version = 2 /\ accepted = Absent /\ legacy # Absent
<1>1. approved \in Approvals /\ lock = approved.lock /\ legacy = approved.legacy
  BY DEF Migrating, QualInv, QualTypeOK
<1>2. lock \in Locks /\ legacy \in Ledger /\ lock.version = 2
  BY <1>1, QualificationAssumption DEF Approvals, QualInv, MigrationExact, Migrating
<1>3. lock # Absent /\ legacy # Absent
  BY <1>2, QualificationAssumption
<1>4. Version = 2
  BY <1>2, <1>3 DEF Version
<1> QED BY <1>1, <1>2, <1>3, <1>4 DEF QualInv, CorrectionExact

(* Its ledger is prepared, anew or with another receipt.                   *)
LEMMA PrepareLedgerSafe == ASSUME QualInv, PrepareLedger PROVE QualInv'
<1>1. /\ At("prepare")
      /\ UNCHANGED <<source, lock, legacy, rows, objects, sidecars, kept, pins, wire, crashes>>
      /\ UNCHANGED <<approved, accepted>>
  BY DEF PrepareLedger, pins
<1>2. proc \in Process /\ proc.kind = "migration" /\ Migrating
  BY <1>1, KindOf DEF At
<1>3. /\ approved \in Approvals /\ lock \in Locks /\ lock # Absent
      /\ Version = 2 /\ accepted = Absent /\ legacy # Absent
  BY <1>2, BeforeTheLock
<1>4. /\ Version' = Version /\ Recoverable' = Recoverable /\ Poisoned' = Poisoned
  BY <1>1 DEF Version, Recoverable, Poisoned
<1>5. source \in Nat
  BY DEF QualInv, QualTypeOK
<1>6. amend # Absent =>
        /\ amend \in Ledger /\ Known(amend) = {} /\ amend.max = 0 /\ amend.receipts # <<>>
        /\ amend.receipts \in Seq(Nat)
  BY <1>3 DEF QualInv, QualTypeOK, MigrationExact, Ledger
<1>7. /\ amend' \in Ledger /\ Known(amend') = {} /\ amend'.max = 0 /\ amend'.receipts # <<>>
      /\ Last(amend'.receipts) = source
  <2>1. CASE amend = Absent
    <3>1. amend' = NewLedger(0, <<source>>)
      BY <2>1 DEF PrepareLedger
    <3>2. <<source>> \in Seq(Nat) /\ <<source>> # <<>> /\ Last(<<source>>) = source
      BY <1>5, FirstReceipt
    <3> PICK m \in {NewLedger(0, <<source>>)} : TRUE
      OBVIOUS
    <3>3. /\ m \in Ledger /\ Known(m) = {} /\ m.max = 0 /\ m.receipts = <<source>>
      <4> PICK sources \in {<<source>>} : TRUE
        OBVIOUS
      <4>1. sources \in Seq(Nat) /\ 0 \in Nat
        BY <3>2
      <4>2. /\ NewLedger(0, sources) \in Ledger /\ Known(NewLedger(0, sources)) = {}
            /\ NewLedger(0, sources).max = 0 /\ NewLedger(0, sources).receipts = sources
        BY <4>1, NewIsEmpty
      <4> QED BY <4>2
    <3>4. amend' = m
      BY <3>1
    <3> QED BY <3>2, <3>3, <3>4
  <2>2. CASE amend # Absent /\ Last(amend.receipts) = source
    <3>1. amend' = amend
      BY <2>2 DEF PrepareLedger
    <3> QED BY <1>6, <2>2, <3>1
  <2>3. CASE amend # Absent /\ Last(amend.receipts) # source
    <3> PICK m \in {[amend EXCEPT !.receipts = Append(@, source)]} : TRUE
      OBVIOUS
    <3>1. amend' = m
      BY <2>3 DEF PrepareLedger
    <3>2. /\ Append(amend.receipts, source) \in Seq(Nat)
          /\ Last(Append(amend.receipts, source)) = source
          /\ Append(amend.receipts, source) # <<>>
      BY <1>5, <1>6, <2>3, Receipts
    <3>3. /\ m \in Ledger /\ m.max = 0 /\ m.receipts = Append(amend.receipts, source)
          /\ m.reserved = amend.reserved /\ m.charge = amend.charge
      BY <1>6, <2>3, <3>2 DEF Ledger
    <3>4. Known(m) = {}
      BY <1>6, <2>3, <3>3 DEF Known, Settled
    <3> QED BY <3>1, <3>2, <3>3, <3>4
  <2> QED BY <2>1, <2>2, <2>3
<1>8. amend' # Absent
  BY <1>7, QualificationAssumption
<1>9. proc' \in Process /\ proc'.kind = "migration" /\ proc'.pc = "install" /\ proc'.mem = proc.mem
  BY <1>2 DEF PrepareLedger, Moves, Process
<1>10. Migrating'
  BY <1>1, <1>2, <1>4, <1>7, <1>8, <1>9 DEF Migrating, At
<1>11. ByKind'
  BY <1>9, <1>10 DEF ByKind
<1>12. QualTypeOK'
  BY <1>1, <1>7, <1>9 DEF QualInv, QualTypeOK
<1>13. Kept'
  BY <1>1, <1>3, <1>4 DEF QualInv, Kept, Keeps
<1>14. MigrationExact'
  <2>1. rows \cup Recoverable = approved.retained /\ ~Poisoned /\ lock \in kept
        /\ lock = approved.lock /\ legacy = approved.legacy /\ approved # Absent
    BY <1>1, <1>2 DEF Migrating, At
  <2>2. Known(amend)' = {}
    BY <1>7 DEF Known, Settled
  <2> QED BY <1>1, <1>3, <1>4, <1>7, <2>1, <2>2 DEF QualInv, MigrationExact
<1>15. CorrectionExact'
  BY <1>1, <1>3, <1>4 DEF CorrectionExact
<1>16. EveryByteIsAccounted'
  <2>1. \A k : ~Accounted(amend, k)
    BY <1>6 DEF Accounted, Overrun, Known
  <2>2. \A c \in wire : c[1] # "amend" /\ Accounted(legacy, c[2])
    BY <2>1 DEF QualInv, EveryByteIsAccounted
  <2> QED BY <1>1, <2>2 DEF EveryByteIsAccounted, Accounted, Overrun
<1> QED BY <1>11, <1>12, <1>13, <1>14, <1>15, <1>16 DEF QualInv

(* Its lock is installed.                                                  *)
LEMMA InstallLockSafe == ASSUME QualInv, InstallLock PROVE QualInv'
<1>1. /\ At("install") /\ proc' = NoRun
      /\ lock' = Lock(4, source, approved.plan, approved.retained, amend.receipts)
      /\ UNCHANGED <<source, legacy, amend, rows, objects, sidecars, kept, pins, wire, crashes>>
      /\ UNCHANGED <<approved, accepted>>
  BY DEF InstallLock, pins, Ends
<1>2. Migrating
  BY <1>1, KindOf DEF At
<1>3. /\ approved \in Approvals /\ approved # Absent /\ Version = 2 /\ accepted = Absent
      /\ legacy # Absent /\ legacy = approved.legacy /\ lock = approved.lock
      /\ amend # Absent /\ Last(amend.receipts) = source
      /\ rows \cup Recoverable = approved.retained /\ lock \in kept
  BY <1>1, <1>2, BeforeTheLock DEF Migrating, At
<1>4. /\ amend \in Ledger /\ Known(amend) = {} /\ amend.max = 0 /\ amend.receipts # <<>>
      /\ amend.receipts \in Seq(Nat) /\ source \in Nat
  BY <1>3 DEF QualInv, QualTypeOK, MigrationExact, Ledger
<1>5. /\ lock' \in Locks /\ lock'.version = 4 /\ lock'.plan = approved.plan
      /\ lock'.retained = approved.retained /\ lock'.receipts = amend.receipts
      /\ lock'.source = source
  BY <1>1, <1>3, <1>4 DEF Lock, Locks, Approvals
<1>6. lock' # Absent
  BY <1>5, QualificationAssumption
<1>7. Version' = 4 /\ Recoverable' = Recoverable
  BY <1>1, <1>5, <1>6 DEF Version, Recoverable
<1>8. proc' \in Process /\ ByKind'
  BY <1>1, Stopped
<1>9. QualTypeOK'
  BY <1>1, <1>5, <1>8 DEF QualInv, QualTypeOK
<1>10. Kept'
  <2>1. Bytes(Listed, Downloads(approved.plan)) <= Allowance
    BY <1>3 DEF QualInv, MigrationExact
  <2>2. Bytes(Listed, Downloads(approved.plan)) \in Nat
    <3>1. Downloads(approved.plan) \in SUBSET Key
      BY DEF Downloads
    <3> QED BY <3>1, ListedBytes
  <2>3. Keeps(amend, approved.plan, Allowance)
    BY <1>4, <2>1, <2>2 DEF Keeps, Known
  <2>4. Keeps(amend, lock.plan, Allowance)'
    BY <1>1, <1>5, <2>3 DEF Keeps
  <2> QED BY <1>1, <1>3, <1>4, <1>6, <1>7, <2>4 DEF Kept
<1>11. MigrationExact'
  BY <1>1, <1>3, <1>4, <1>5, <1>7 DEF QualInv, MigrationExact
<1>12. CorrectionExact'
  BY <1>1, <1>3, <1>5 DEF CorrectionExact
<1>13. EveryByteIsAccounted'
  BY <1>1 DEF QualInv, EveryByteIsAccounted, Accounted, Overrun
<1> QED BY <1>8, <1>9, <1>10, <1>11, <1>12, <1>13 DEF QualInv
-----------------------------------------------------------------------------
(* The correction.                                                         *)

(* A correction is reviewed and pinned.                                    *)
LEMMA ReviewCorrectionSafe == ASSUME QualInv, ReviewCorrection PROVE QualInv'
<1>1. /\ proc' = NoRun /\ Version = 4 /\ accepted = Absent /\ source' = source + 1
      /\ accepted' = [lock |-> lock, amend |-> amend, rows |-> rows]
      /\ UNCHANGED <<lock, legacy, amend, rows, objects, sidecars, kept, approved, wire, crashes>>
  BY DEF ReviewCorrection, files
<1>2. lock \in Locks /\ amend \in Ledger
  BY <1>1, LegacyOfMigrated
<1>3. rows \in SUBSET Key
  BY DEF QualInv, QualTypeOK
<1>4. /\ accepted' \in Acceptances /\ accepted'.lock = lock /\ accepted'.amend = amend
      /\ accepted'.rows = rows
  BY <1>1, <1>2, <1>3 DEF Acceptances
<1>5. Version' = Version /\ Recoverable' = Recoverable /\ Poisoned' = Poisoned
  BY <1>1, SameStore
<1>6. proc' \in Process /\ ByKind'
  BY <1>1, Stopped
<1>7. QualTypeOK'
  BY <1>1, <1>4, <1>6 DEF QualInv, QualTypeOK
<1>8. Kept'
  BY <1>1, <1>5 DEF QualInv, Kept, Keeps
<1>9. MigrationExact'
  BY <1>1, <1>5 DEF QualInv, MigrationExact
<1>10. CorrectionExact'
  <2>1. lock.receipts = amend.receipts
    BY <1>1 DEF QualInv, CorrectionExact
  <2>2. Known(accepted.amend)' = Known(amend)'
    BY <1>1, <1>4 DEF Known, Settled
  <2> QED BY <1>1, <1>4, <1>5, <2>1, <2>2 DEF CorrectionExact
<1>11. EveryByteIsAccounted'
  BY <1>1 DEF QualInv, EveryByteIsAccounted, Accounted, Overrun
<1> QED BY <1>6, <1>7, <1>8, <1>9, <1>10, <1>11 DEF QualInv

(* It starts on the store that was reviewed, or half way through.          *)
LEMMA StartCorrectionSafe == ASSUME QualInv, StartCorrection PROVE QualInv'
<1>1. UNCHANGED <<source, files, pins, wire>> /\ crashes' = crashes
      /\ UNCHANGED <<source, lock, amend, rows, accepted>> /\ CorrectionAccepts
  BY DEF StartCorrection, files, pins
<1>2. proc' \in Process /\ proc'.kind = "correction" /\ proc'.pc = "keep_lock"
  BY NoRunRuns DEF StartCorrection, Process
<1>3. LedgerAdvanced' <=> LedgerAdvanced
  BY <1>1 DEF LedgerAdvanced, Advanced
<1>4. Correcting'
  BY <1>1, <1>2, <1>3 DEF Correcting, CorrectionAccepts, At
<1>5. ByKind'
  BY <1>2, <1>4 DEF ByKind
<1> QED BY <1>1, <1>2, <1>5, OnlyTheProcess DEF QualInv, QualTypeOK

(* The lock it replaces is preserved.                                      *)
LEMMA KeepLockSafe == ASSUME QualInv, KeepLock PROVE QualInv'
<1>1. /\ At("keep_lock") /\ kept' = kept \cup {lock}
      /\ UNCHANGED <<source, lock, legacy, amend, rows, objects, sidecars, pins, wire, crashes>>
      /\ UNCHANGED accepted
  BY DEF KeepLock, pins
<1>2. proc \in Process /\ proc.kind = "correction" /\ Correcting
  BY <1>1, KindOf DEF At
<1>3. /\ proc' \in Process /\ proc'.kind = "correction"
      /\ proc'.pc = IF LedgerAdvanced THEN "publish" ELSE "keep_ledger"
  BY <1>2 DEF KeepLock, Moves, Process
<1>4. LedgerAdvanced' <=> LedgerAdvanced
  BY <1>1 DEF LedgerAdvanced, Advanced
<1>5. Correcting'
  BY <1>1, <1>2, <1>3, <1>4 DEF Correcting, At
<1>6. ByKind' /\ kept \subseteq kept'
  BY <1>1, <1>3, <1>5 DEF ByKind
<1> QED BY <1>1, <1>3, <1>6, KeptGrows

(* So is the ledger.                                                       *)
LEMMA KeepLedgerSafe == ASSUME QualInv, KeepLedger PROVE QualInv'
<1>1. /\ At("keep_ledger") /\ kept' = kept \cup {amend}
      /\ UNCHANGED <<source, lock, legacy, amend, rows, objects, sidecars, pins, wire, crashes>>
      /\ UNCHANGED accepted
  BY DEF KeepLedger, pins
<1>2. proc \in Process /\ proc.kind = "correction" /\ Correcting
  BY <1>1, KindOf DEF At
<1>3. /\ proc' \in Process /\ proc'.kind = "correction" /\ proc'.pc = "advance"
  BY <1>2 DEF KeepLedger, Moves, Process
<1>4. Correcting'
  BY <1>1, <1>2, <1>3 DEF Correcting, At
<1>5. ByKind' /\ kept \subseteq kept'
  BY <1>1, <1>3, <1>4 DEF ByKind
<1> QED BY <1>1, <1>3, <1>5, KeptGrows

(* A correction under way is of a store of version 4.                      *)
LEMMA BeforeThePublication ==
  ASSUME QualInv, Correcting
  PROVE  /\ Version = 4 /\ accepted \in Acceptances /\ accepted # Absent
         /\ lock \in Locks /\ lock # Absent /\ lock = accepted.lock /\ rows = accepted.rows
         /\ amend \in Ledger /\ amend # Absent /\ amend.max = 0 /\ amend.receipts \in Seq(Nat)
         /\ Keeps(amend, lock.plan, Allowance) /\ source \in Nat
         /\ accepted.amend \in Ledger /\ accepted.amend.receipts \in Seq(Nat)
<1>1. /\ accepted \in Acceptances /\ accepted # Absent /\ Version = 4 /\ source \in Nat
      /\ lock = accepted.lock /\ rows = accepted.rows
  BY DEF Correcting, QualInv, QualTypeOK, CorrectionExact
<1>2. /\ lock \in Locks /\ lock # Absent /\ amend \in Ledger /\ amend # Absent /\ amend.max = 0
      /\ Keeps(amend, lock.plan, Allowance)
  BY <1>1, LegacyOfMigrated, VersionOf DEF QualInv, Kept
<1>3. accepted.amend \in Ledger
  BY <1>1 DEF Acceptances
<1>4. \A l \in Ledger : l.receipts \in Seq(Nat)
  BY DEF Ledger
<1> QED BY <1>1, <1>2, <1>3, <1>4

(* The ledger names the new source.                                        *)
LEMMA AdvanceReceiptSafe == ASSUME QualInv, AdvanceReceipt PROVE QualInv'
<1>1. /\ At("advance") /\ amend' = Advanced(amend)
      /\ UNCHANGED <<source, lock, legacy, rows, objects, sidecars, kept, pins, wire, crashes>>
      /\ UNCHANGED <<approved, accepted>>
  BY DEF AdvanceReceipt, pins
<1>2. proc \in Process /\ proc.kind = "correction" /\ Correcting
  BY <1>1, KindOf DEF At
<1>3. amend = accepted.amend /\ lock \in kept /\ amend \in kept /\ lock.retained \subseteq rows
  BY <1>1, <1>2 DEF Correcting, At
<1>4. /\ Version = 4 /\ accepted # Absent /\ lock = accepted.lock /\ rows = accepted.rows
      /\ amend \in Ledger /\ amend # Absent /\ amend.max = 0 /\ amend.receipts \in Seq(Nat)
      /\ Keeps(amend, lock.plan, Allowance) /\ source \in Nat
  BY <1>2, BeforeThePublication
<1>5. /\ Append(amend.receipts, source) \in Seq(Nat)
      /\ Last(Append(amend.receipts, source)) = source
      /\ Append(amend.receipts, source) # <<>>
  BY <1>4, Receipts
<1>6. PICK m \in {Advanced(amend)} : TRUE
  OBVIOUS
<1>7. /\ m \in Ledger /\ m.max = amend.max /\ m.reserved = amend.reserved
      /\ m.charge = amend.charge /\ m.receipts = Append(amend.receipts, source)
      /\ m = [amend EXCEPT !.receipts = Append(@, Last(m.receipts))]
  BY <1>4, <1>5, <1>6 DEF Advanced, Ledger
<1>8. Settled(m) = Settled(amend) /\ Known(m) = Known(amend) /\ (Overrun(amend) <=> Overrun(m))
  BY <1>7 DEF Known, Settled, Overrun
<1>9. amend' = m /\ m # Absent
  BY <1>1, <1>6, <1>7, QualificationAssumption
<1>10. Version' = Version /\ Recoverable' = Recoverable
  BY <1>1 DEF Version, Recoverable
<1>11. proc' \in Process /\ proc'.kind = "correction" /\ proc'.pc = "publish"
  BY <1>2 DEF AdvanceReceipt, Moves, Process
<1>12. LedgerAdvanced'
  BY <1>1, <1>3 DEF LedgerAdvanced, Advanced
<1>13. Correcting'
  BY <1>1, <1>2, <1>11, <1>12 DEF Correcting, At
<1>14. ByKind'
  BY <1>11, <1>13 DEF ByKind
<1>15. QualTypeOK'
  BY <1>1, <1>7, <1>9, <1>11 DEF QualInv, QualTypeOK
<1>16. Kept'
  <2>1. Keeps(m, lock.plan, Allowance)
    BY <1>4, <1>7, <1>8 DEF Keeps
  <2>2. Keeps(amend, lock.plan, Allowance)'
    BY <1>1, <1>9, <2>1 DEF Keeps
  <2>3. lock # Absent /\ legacy # Absent
    BY <1>4, VersionOf, LegacyOfMigrated DEF QualInv
  <2> QED BY <1>1, <1>4, <1>7, <1>9, <1>10, <2>2, <2>3 DEF Kept
<1>17. MigrationExact'
  BY <1>1, <1>4, <1>5, <1>7, <1>9, <1>10 DEF QualInv, MigrationExact
<1>18. CorrectionExact'
  <2>1. Known(amend)' = Known(amend) /\ Known(accepted.amend)' = Known(accepted.amend)
    BY <1>1, <1>8, <1>9 DEF Known, Settled
  <2>2. OneMore'
    BY <1>1, <1>3, <1>7, <1>9 DEF OneMore
  <2> QED BY <1>1, <1>3, <1>4, <1>10, <2>1, <2>2 DEF QualInv, CorrectionExact
<1>19. EveryByteIsAccounted'
  <2>1. \A k : Accounted(amend, k) => Accounted(m, k)
    BY <1>8, <1>9 DEF Accounted
  <2> QED BY <1>1, <1>9, <2>1 DEF QualInv, EveryByteIsAccounted, Accounted, Overrun
<1> QED BY <1>14, <1>15, <1>16, <1>17, <1>18, <1>19 DEF QualInv

(* The lock names it last.                                                 *)
LEMMA PublishLockSafe == ASSUME QualInv, PublishLock PROVE QualInv'
<1>1. /\ At("publish") /\ proc' = NoRun
      /\ lock' = [lock EXCEPT !.source = source, !.receipts = amend.receipts]
      /\ UNCHANGED <<source, legacy, amend, rows, objects, sidecars, kept, pins, wire, crashes>>
      /\ UNCHANGED <<approved, accepted>>
  BY DEF PublishLock, pins, Ends
<1>2. Correcting /\ LedgerAdvanced /\ lock.retained \subseteq rows
  BY <1>1, KindOf DEF At, Correcting
<1>3. /\ Version = 4 /\ accepted # Absent /\ lock = accepted.lock /\ rows = accepted.rows
      /\ lock \in Locks /\ lock # Absent /\ amend # Absent /\ amend.max = 0
      /\ Keeps(amend, lock.plan, Allowance) /\ source \in Nat /\ amend.receipts \in Seq(Nat)
      /\ accepted.amend \in Ledger /\ accepted.amend.receipts \in Seq(Nat)
  BY <1>2, BeforeThePublication
<1>4. amend.receipts = Append(accepted.amend.receipts, source)
  BY <1>2, <1>3 DEF LedgerAdvanced, Advanced, Ledger
<1>5. /\ amend.receipts # accepted.amend.receipts /\ Last(amend.receipts) = source
      /\ amend.receipts # <<>>
  BY <1>3, <1>4, Receipts
<1>6. /\ lock' \in Locks /\ lock'.version = lock.version /\ lock'.plan = lock.plan
      /\ lock'.retained = lock.retained /\ lock'.receipts = amend.receipts
      /\ lock'.source = source
  BY <1>1, <1>3 DEF Locks
<1>7. lock' # Absent
  BY <1>6, QualificationAssumption
<1>8. Version' = 4 /\ Recoverable' = Recoverable
  BY <1>1, <1>3, <1>6, <1>7 DEF Version, Recoverable
<1>9. proc' \in Process /\ ByKind'
  BY <1>1, Stopped
<1>10. QualTypeOK'
  BY <1>1, <1>6, <1>9 DEF QualInv, QualTypeOK
<1>11. Kept'
  <2>1. Keeps(amend, lock.plan, Allowance)'
    BY <1>1, <1>3, <1>6 DEF Keeps
  <2>2. legacy # Absent
    BY <1>3, LegacyOfMigrated
  <2> QED BY <1>1, <1>3, <1>7, <1>8, <2>1, <2>2 DEF Kept
<1>12. MigrationExact'
  BY <1>1, <1>2, <1>3, <1>5, <1>6, <1>8 DEF QualInv, MigrationExact
<1>13. CorrectionExact'
  <2>1. Known(amend)' = Known(amend) /\ Known(accepted.amend)' = Known(accepted.amend)
    BY <1>1 DEF Known, Settled
  <2> QED BY <1>1, <1>3, <1>5, <1>6, <1>8, <2>1 DEF QualInv, CorrectionExact
<1>14. EveryByteIsAccounted'
  BY <1>1 DEF QualInv, EveryByteIsAccounted, Accounted, Overrun
<1> QED BY <1>9, <1>10, <1>11, <1>12, <1>13, <1>14 DEF QualInv

(* Another version of the code.                                            *)
LEMMA DeploySafe == ASSUME QualInv, Deploy PROVE QualInv'
<1>1. /\ proc' = NoRun /\ source' = source + 1
      /\ UNCHANGED <<lock, legacy, amend, rows, objects, sidecars, kept, approved, accepted,
                     wire, crashes>>
  BY DEF Deploy, files, pins
<1>2. Version' = Version /\ Recoverable' = Recoverable /\ Poisoned' = Poisoned
  BY <1>1, SameStore
<1>3. proc' \in Process /\ ByKind'
  BY <1>1, Stopped
<1>4. QualTypeOK'
  BY <1>1, <1>3 DEF QualInv, QualTypeOK
<1>5. Kept'
  BY <1>1, <1>2 DEF QualInv, Kept, Keeps
<1>6. MigrationExact'
  BY <1>1, <1>2 DEF QualInv, MigrationExact
<1>7. CorrectionExact'
  BY <1>1, <1>2 DEF QualInv, CorrectionExact, OneMore
<1>8. EveryByteIsAccounted'
  BY <1>1 DEF QualInv, EveryByteIsAccounted, Accounted, Overrun
<1> QED BY <1>3, <1>4, <1>5, <1>6, <1>7, <1>8 DEF QualInv
-----------------------------------------------------------------------------
(* The store.                                                              *)

(* What an earlier version of the program left keeps the invariant.        *)
LEMMA QualBegins == ASSUME QualInit PROVE QualInv
<1>1. /\ source = 0 /\ objects \in SUBSET Held /\ sidecars = objects /\ rows \in SUBSET objects
      /\ amend = Absent /\ approved = Absent /\ accepted = Absent /\ proc = NoRun
      /\ wire = {} /\ crashes = 0
  BY DEF QualInit
<1>2. rows \in SUBSET Key /\ Bytes(Actual, rows) \in Nat /\ <<>> \in Seq(Nat)
  <2>1. rows \in SUBSET Key
    BY <1>1, QualificationAssumption
  <2> QED BY <2>1, ListedBytes
<1>3. proc \in Process /\ ByKind
  BY <1>1, NoRunRuns DEF ByKind, At
<1>4. CASE lock = Absent /\ legacy = Absent
  <2>1. Version = 0
    BY <1>4 DEF Version
  <2>2. QualTypeOK
    BY <1>1, <1>3, <1>4, QualificationAssumption DEF QualTypeOK
  <2> QED BY <1>1, <1>3, <1>4, <2>1, <2>2
       DEF QualInv, Kept, MigrationExact, CorrectionExact, EveryByteIsAccounted
<1>5. ASSUME legacy = NewLedger(Bytes(Actual, rows), <<>>),
             NEW plan \in Plans(rows, Remaining(NewLedger(Bytes(Actual, rows), <<>>), DownloadBudget)),
             lock = Lock(2, 0, plan, rows, <<>>)
      PROVE  QualInv
  <2>1. legacy \in Ledger /\ legacy # Absent
    <3>1. legacy \in Ledger
      BY <1>2, <1>5, NewIsEmpty
    <3> QED BY <3>1, QualificationAssumption
  <2>2. plan \in Sample /\ Keeps(legacy, plan, DownloadBudget)
    BY <1>2, <1>5, PlanFits, QualificationAssumption
  <2>3. /\ lock \in Locks /\ lock.version = 2 /\ lock.plan = plan /\ lock.retained = rows
    BY <1>2, <1>5, <2>2 DEF Lock, Locks
  <2>4. lock # Absent
    BY <2>3, QualificationAssumption
  <2>5. Version = 2
    BY <2>3, <2>4 DEF Version
  <2>6. QualTypeOK
    BY <1>1, <1>3, <2>1, <2>3, QualificationAssumption DEF QualTypeOK
  <2>7. Kept
    BY <1>1, <2>1, <2>2, <2>3, <2>4, <2>5 DEF Kept
  <2> QED BY <1>1, <1>3, <2>5, <2>6, <2>7
       DEF QualInv, MigrationExact, CorrectionExact, EveryByteIsAccounted
<1> QED BY <1>4, <1>5 DEF QualInit

(* Every step keeps it.                                                    *)
LEMMA QualSteps == ASSUME QualInv, [QualNext]_qualVars PROVE QualInv'
<1>1. CASE UNCHANGED qualVars
  <2>1. UNCHANGED <<source, files, pins, wire>> /\ proc' = proc /\ crashes' = crashes
        /\ UNCHANGED <<source, lock, legacy, amend, rows, objects, sidecars, kept, approved,
                       accepted>>
    BY <1>1 DEF qualVars, files, pins
  <2>2. UNCHANGED <<source, lock, legacy, amend, rows, objects, sidecars, pins, wire, crashes>>
    BY <2>1
  <2>3. Version' = Version /\ Recoverable' = Recoverable /\ Poisoned' = Poisoned
    BY <2>1, SameStore
  <2>4. ByKind'
    BY <2>1, <2>3 DEF QualInv, ByKind, Ordinary, Steady, Planning, Acquiring, Looping,
       Migrating, Correcting, At, LedgerAdvanced, Advanced, CurrentLedger, Evidence,
       Accounted, Known, Settled, Overrun
  <2> QED BY <2>1, <2>4, OnlyTheProcess DEF QualInv, QualTypeOK
<1>2. ASSUME StartOrdinary \/ StartMigration \/ StartCorrection PROVE QualInv'
  BY <1>2, StartOrdinarySafe, StartMigrationSafe, StartCorrectionSafe
<1>3. ASSUME ReviewMigration \/ ReviewCorrection \/ Deploy \/ Dies PROVE QualInv'
  BY <1>3, ReviewMigrationSafe, ReviewCorrectionSafe, DeploySafe, EndsSafe
<1>4. ASSUME \/ RecoveryRaises \/ RecoverRow \/ Recovered \/ SettleProved \/ Reconciled
             \/ Compare \/ AdoptRow \/ LockPlan \/ FlushLedger
      PROVE  QualInv'
  BY <1>4, EndsSafe, RecoverRowSafe, RecoveredSafe, SettleProvedSafe, ReconciledSafe,
     CompareSafe, AdoptRowSafe, LockPlanSafe, FlushLedgerSafe
<1>5. ASSUME \/ Reuse \/ Block \/ ReserveEntry \/ Alias \/ CompleteRun \/ Fail \/ FetchRaises
             \/ PersistSidecar \/ Receive \/ PublishObject \/ RecordRow \/ SettleEntry
      PROVE  QualInv'
  BY <1>5, ReuseSafe, BlockSafe, ReserveEntrySafe, AliasSafe, EndsSafe, FailSafe,
     PersistSidecarSafe, ReceiveSafe, PublishObjectSafe, RecordRowSafe, SettleEntrySafe
<1>6. ASSUME \/ PreservePriorLock \/ PrepareLedger \/ InstallLock
             \/ KeepLock \/ KeepLedger \/ AdvanceReceipt \/ PublishLock
      PROVE  QualInv'
  BY <1>6, PreservePriorLockSafe, PrepareLedgerSafe, InstallLockSafe, KeepLockSafe,
     KeepLedgerSafe, AdvanceReceiptSafe, PublishLockSafe
<1> QED BY <1>1, <1>2, <1>3, <1>4, <1>5, <1>6 DEF QualNext, ProcessStep

(* The store of the qualification is sound: the plan, the two ledgers, the *)
(* rows and the pinned reviews agree at every point of every run.          *)
THEOREM StoreIsSound == QualSpec => []QualInv
<1>1. QualInit => QualInv
  BY QualBegins
<1>2. QualInv /\ [QualNext]_qualVars => QualInv'
  BY QualSteps
<1> QED BY <1>1, <1>2, PTL DEF QualSpec

-----------------------------------------------------------------------------
(* What has crossed, and what it was charged.                              *)

(* A settled charge is the whole body, or nothing for an object that a     *)
(* download found published.                                               *)
Truthful(l, found) ==
  \A k \in Settled(l) : l.charge[k] = Actual[k] \/ (l.charge[k] = 0 /\ k \in found)
LedgersTrue ==
  \A book \in {"legacy", "amend"} :
    LedgerOf(book) # Absent => Truthful(LedgerOf(book), Found(book))

(* The loop is at downloads of the plan, and at an object it found when it *)
(* will say so.                                                            *)
AtDownloads ==
  /\ proc.pc \in {"record", "settle"} /\ proc.reused => proc.at \in Found(Book)
  /\ Looping => proc.done \ proc.won \subseteq Downloads(lock.plan)
  /\ Looping /\ ~At("loop") => proc.at \in Downloads(lock.plan)

(* Under a ledger nothing but downloads of its plan has crossed; a ledger  *)
(* that was left behind is within its budget.                              *)
WithinBudget(book) ==
  Crossed(book) # {} => Bytes(Listed, Crossed(book)) + LedgerOf(book).max <= LimitOf(book)
WithinPlan ==
  /\ lock = Absent => Crossed("legacy") = {}
  /\ Version # 4 => Crossed("amend") = {}
  /\ lock # Absent => Crossed(Book) \subseteq Downloads(lock.plan)
  /\ Version = 4 => WithinBudget("legacy")

WireInv == LedgersTrue /\ AtDownloads /\ WithinPlan

(* The plan of the ledger in force bounds what has crossed under it.       *)
LEMMA PlanBounds ==
  ASSUME QualInv, WireInv, lock # Absent, Crossed(Book) # {}
  PROVE  LedgerOf(Book) # Absent /\ WithinBudget(Book)
<1>1. \A k \in Crossed(Book) : <<Book, k, "bytes">> \in wire
  BY DEF Crossed
<1>2. LedgerOf(Book) # Absent
  <2>1. PICK k \in Crossed(Book) : TRUE
    OBVIOUS
  <2>2. PICK c \in {<<Book, k, "bytes">>} : TRUE
    OBVIOUS
  <2>3. c \in wire /\ c[1] = Book
    BY <1>1, <2>1, <2>2
  <2>4. Accounted(IF c[1] = "amend" THEN amend ELSE legacy, c[2])
    BY <2>3 DEF QualInv, EveryByteIsAccounted
  <2> QED BY <2>3, <2>4 DEF Accounted, LedgerOf
<1>3. /\ LedgerOf(Book) \in Ledger /\ Keeps(LedgerOf(Book), lock.plan, LimitOf(Book))
      /\ LimitOf(Book) \in Nat
  <2>1. Version \in {1, 2, 4}
    BY VersionOf DEF QualInv
  <2>2. LedgerOf(Book) \in Ledger
    BY <1>2 DEF LedgerOf, QualInv, QualTypeOK
  <2>3. Keeps(LedgerOf(Book), lock.plan, LimitOf(Book))
    BY <1>2, <2>1 DEF Book, LedgerOf, LimitOf, QualInv, Kept
  <2> QED BY <2>2, <2>3, QualificationAssumption DEF LimitOf
<1>4. /\ Crossed(Book) \subseteq Downloads(lock.plan) /\ Downloads(lock.plan) \in SUBSET Key
      /\ Downloads(lock.plan) # {} /\ Crossed(Book) \in SUBSET Key
  BY DEF WireInv, WithinPlan, Downloads
<1>5. /\ IsFiniteSet(Downloads(lock.plan)) /\ Weighs(Listed, Downloads(lock.plan))
      /\ Bytes(Listed, Downloads(lock.plan)) \in Nat /\ Bytes(Listed, Crossed(Book)) \in Nat
  BY <1>4, ListedBytes
<1>6. Bytes(Listed, Crossed(Book)) <= Bytes(Listed, Downloads(lock.plan))
  BY <1>4, <1>5, SumPart, BytesAreSums
<1>7. LedgerOf(Book).max + Bytes(Listed, Downloads(lock.plan)) <= LimitOf(Book)
  BY <1>3, <1>4 DEF Keeps
<1>8. LedgerOf(Book).max \in Nat
  BY <1>3, SettledIn
<1>9. Bytes(Listed, Crossed(Book)) + LedgerOf(Book).max <= LimitOf(Book)
  BY <1>3, <1>5, <1>6, <1>7, <1>8
<1> QED BY <1>2, <1>9 DEF WithinBudget

(* A step that keeps the plan and sends nothing over the network.          *)
LEMMA WireStays ==
  ASSUME QualInv, WireInv, wire' = wire, Version' = Version,
         lock' = Absent <=> lock = Absent, lock # Absent => lock'.plan = lock.plan,
         Version = 4 => legacy' = legacy, LedgersTrue', AtDownloads'
  PROVE  WireInv'
<1>1. \A book : Crossed(book)' = Crossed(book)
  BY DEF Crossed
<1>2. Book' = Book
  BY DEF Book
<1>3. Crossed(Book)' = Crossed(Book)
  BY <1>2 DEF Crossed
<1>4. lock # Absent => Downloads(lock.plan)' = Downloads(lock.plan)
  BY DEF Downloads
<1>5. Version = 4 => WithinBudget("legacy")'
  BY <1>1 DEF WireInv, WithinPlan, WithinBudget, LedgerOf, LimitOf
<1>6. WithinPlan'
  BY <1>1, <1>3, <1>4, <1>5 DEF WireInv, WithinPlan
<1> QED BY <1>6 DEF WireInv

(* A step that leaves lock and ledgers alone too.                          *)
LEMMA StoreStays ==
  ASSUME QualInv, WireInv, UNCHANGED <<lock, legacy, amend, wire>>, AtDownloads'
  PROVE  WireInv'
<1>1. Version' = Version
  BY DEF Version
<1>2. LedgersTrue'
  BY DEF WireInv, LedgersTrue, LedgerOf, Truthful, Settled, Found
<1> QED BY <1>1, <1>2, WireStays

(* Outside of the loop nothing is claimed of the process.                  *)
LEMMA Outside ==
  ASSUME proc'.pc \notin {"loop", "sidecar", "fetch", "record", "settle"}
  PROVE  AtDownloads'
BY DEF AtDownloads, Looping, At

(* The ledger in force is replaced by a truthful one.                      *)
LEMMA PutTruthful ==
  ASSUME QualInv, WireInv, UNCHANGED <<lock, wire>>, lock # Absent, NEW m, Put(m),
         Truthful(m, Found(Book)), AtDownloads'
  PROVE  WireInv'
<1>1. Version' = Version /\ Found("legacy")' = Found("legacy") /\ Found("amend")' = Found("amend")
  BY DEF Version, Found
<1>2. CASE Version = 4
  <2>1. amend' = m /\ legacy' = legacy
    BY <1>2 DEF Put
  <2>2. Truthful(m, Found("amend"))
    BY <1>2 DEF Book
  <2>3. LedgersTrue'
    BY <1>1, <2>1, <2>2 DEF WireInv, LedgersTrue, LedgerOf, Truthful, Settled
  <2> QED BY <1>1, <2>1, <2>3, WireStays
<1>3. CASE Version # 4
  <2>1. legacy' = m /\ amend' = amend
    BY <1>3 DEF Put
  <2>2. Truthful(m, Found("legacy"))
    BY <1>3 DEF Book
  <2>3. LedgersTrue'
    BY <1>1, <2>1, <2>2 DEF WireInv, LedgersTrue, LedgerOf, Truthful, Settled
  <2> QED BY <1>1, <1>3, <2>1, <2>3, WireStays
<1> QED BY <1>2, <1>3

(* The ledger in force is truthful.                                        *)
LEMMA InForce ==
  ASSUME QualInv, WireInv, lock # Absent
  PROVE  Truthful(CurrentLedger, Found(Book))
<1>1. CASE Version = 4
  <2>1. CurrentLedger = LedgerOf("amend") /\ Book = "amend" /\ LedgerOf("amend") # Absent
    BY <1>1 DEF CurrentLedger, Book, LedgerOf, QualInv, Kept
  <2> QED BY <2>1 DEF WireInv, LedgersTrue
<1>2. CASE Version # 4 /\ legacy # Absent
  <2>1. CurrentLedger = LedgerOf("legacy") /\ Book = "legacy" /\ LedgerOf("legacy") # Absent
    BY <1>2 DEF CurrentLedger, Book, LedgerOf
  <2> QED BY <2>1 DEF WireInv, LedgersTrue
<1>3. CASE Version # 4 /\ legacy = Absent
  <2>1. CurrentLedger = NewLedger(Bytes(Actual, Evidence), <<>>)
    BY <1>3 DEF CurrentLedger
  <2>2. Settled(CurrentLedger) = {}
    BY <2>1 DEF NewLedger, Settled
  <2> QED BY <2>2 DEF Truthful
<1> QED BY <1>1, <1>2, <1>3

(* A settlement charges the whole body, or nothing for what was found.     *)
LEMMA SettlesTruthfully ==
  ASSUME NEW l \in Ledger, NEW k \in Key, NEW bytes \in Nat, NEW found, Truthful(l, found),
         bytes = Actual[k] \/ (bytes = 0 /\ k \in found)
  PROVE  Truthful(Settle(l, k, bytes), found)
<1>1. PICK s \in {Settle(l, k, bytes)} : TRUE
  OBVIOUS
<1>2. Settled(s) = Settled(l) \cup {k} /\ \A j \in Key \ {k} : s.charge[j] = l.charge[j]
  BY <1>1, Settling
<1>3. s.charge[k] = bytes
  BY <1>1 DEF Settle, Ledger
<1>4. Settled(l) \in SUBSET Key
  BY SettledIn
<1>5. Truthful(s, found)
  BY <1>2, <1>3, <1>4 DEF Truthful
<1> QED BY <1>1, <1>5

(* At the start nothing has crossed, and no ledger has a charge.           *)
LEMMA WireBegins == ASSUME QualInit PROVE WireInv
<1>1. amend = Absent /\ proc = NoRun /\ wire = {}
  BY DEF QualInit
<1>2. /\ \A book : Crossed(book) = {}
      /\ legacy # Absent => Settled(legacy) = {}
  BY <1>1 DEF QualInit, Crossed, NewLedger, Settled
<1>3. LedgersTrue
  BY <1>1, <1>2 DEF LedgersTrue, LedgerOf, Truthful
<1>4. AtDownloads
  BY <1>1, NoRunRuns DEF AtDownloads, Looping, At
<1>5. WithinPlan
  BY <1>2 DEF WithinPlan, WithinBudget
<1> QED BY <1>3, <1>4, <1>5 DEF WireInv

(* A step outside of the loop that leaves lock and ledgers alone.          *)
LEMMA ElsewhereTrue ==
  ASSUME QualInv, WireInv, UNCHANGED <<lock, legacy, amend, wire>>,
         proc'.pc \notin {"loop", "sidecar", "fetch", "record", "settle"}
  PROVE  WireInv'
BY StoreStays, Outside

(* The steps outside of the loop that leave lock and ledgers alone.        *)
LEMMA ProcessTrue ==
  ASSUME QualInv, WireInv,
         \/ StartOrdinary \/ StartMigration \/ StartCorrection
         \/ ReviewMigration \/ ReviewCorrection \/ Deploy \/ Dies
         \/ RecoveryRaises \/ RecoverRow \/ Recovered \/ Reconciled \/ AdoptRow
         \/ CompleteRun \/ FetchRaises \/ PreservePriorLock \/ KeepLock \/ KeepLedger
  PROVE  WireInv'
<1>1. proc \in Process
  BY KindOf
<1>2. /\ UNCHANGED <<lock, legacy, amend, wire>>
  BY DEF StartOrdinary, StartMigration, StartCorrection, ReviewMigration, ReviewCorrection,
     Deploy, Dies, RecoveryRaises, RecoverRow, Recovered, Reconciled, AdoptRow, CompleteRun,
     FetchRaises, PreservePriorLock, KeepLock, KeepLedger, files
<1>3. CASE StartOrdinary \/ StartMigration \/ StartCorrection
  BY <1>2, <1>3, ElsewhereTrue
     DEF StartOrdinary, StartMigration, StartCorrection, Begin, NoRun
<1>4. CASE \/ ReviewMigration \/ ReviewCorrection \/ Deploy \/ Dies
           \/ RecoveryRaises \/ CompleteRun \/ FetchRaises
  <2>1. proc' = NoRun
    BY <1>4 DEF ReviewMigration, ReviewCorrection, Deploy, Dies, RecoveryRaises, CompleteRun,
       FetchRaises, Ends
  <2> QED BY <1>2, <2>1, NoRunRuns, ElsewhereTrue
<1>5. CASE RecoverRow \/ AdoptRow
  BY <1>2, <1>5, ElsewhereTrue DEF RecoverRow, AdoptRow, At
<1>6. CASE Recovered
  <2>1. proc'.pc \in {"preserve", "compare", "reconcile"}
    BY <1>1, <1>6 DEF Recovered, Process
  <2> QED BY <1>2, <2>1, ElsewhereTrue
<1>7. CASE Reconciled \/ KeepLock \/ KeepLedger
  <2>1. proc'.pc \in {"adopt", "flush", "compare", "publish", "keep_ledger", "advance"}
    BY <1>1, <1>7 DEF Reconciled, KeepLock, KeepLedger, Moves, Process
  <2> QED BY <1>2, <2>1, ElsewhereTrue
<1>8. CASE PreservePriorLock
  <2>1. proc'.pc \in {"prepare", "idle"}
    BY <1>1, <1>8, NoRunRuns DEF PreservePriorLock, Moves, Ends, Process
  <2> QED BY <1>2, <2>1, ElsewhereTrue
<1> QED BY <1>3, <1>4, <1>5, <1>6, <1>7, <1>8

(* The inputs are compared.                                                *)
LEMMA CompareTrue == ASSUME QualInv, WireInv, Compare PROVE WireInv'
<1>1. proc \in Process /\ UNCHANGED <<lock, legacy, amend, wire>>
  BY KindOf DEF Compare, files
<1>2. proc'.pc \in {"idle", "reconcile", "flush"}
  BY <1>1, NoRunRuns DEF Compare, Moves, Ends, Process
<1> QED BY <1>1, <1>2, ElsewhereTrue

(* A reservation whose object is proved is charged the whole body.         *)
LEMMA SettleProvedTrue == ASSUME QualInv, WireInv, SettleProved PROVE WireInv'
<1>1. /\ UNCHANGED <<lock, wire, proc>> /\ At("reconcile")
  BY DEF SettleProved
<1>2. PICK k \in CurrentLedger.reserved \cap Evidence :
         Put(Settle(CurrentLedger, k, Actual[k]))
  BY DEF SettleProved
<1>3. proc.kind = "ordinary" /\ Ordinary
  BY <1>1, KindOf DEF At
<1>4. lock # Absent
  <2> SUFFICES ASSUME lock = Absent PROVE FALSE
    OBVIOUS
  <2>1. legacy = Absent /\ Version = 0
    BY VersionOf DEF QualInv, Kept
  <2>2. CurrentLedger.reserved = {}
    BY <2>1 DEF CurrentLedger, NewLedger
  <2> QED BY <1>2, <2>2
<1>5. Evidence = rows
  BY <1>1, <1>3, <1>4 DEF Ordinary, Planning, At, Evidence
<1>6. CurrentLedger \in Ledger /\ k \in Key /\ Actual[k] \in Nat
  BY <1>2, <1>4, <1>5, TheLedger, SettledIn, SizeAssumption DEF QualInv
<1>7. Truthful(Settle(CurrentLedger, k, Actual[k]), Found(Book))
  BY <1>4, <1>6, InForce, SettlesTruthfully
<1>8. AtDownloads'
  BY <1>1, Outside DEF At
<1> QED BY <1>1, <1>2, <1>4, <1>7, <1>8, PutTruthful

(* The first plan is locked before anything has crossed.                   *)
LEMMA LockPlanTrue == ASSUME QualInv, WireInv, LockPlan PROVE WireInv'
<1>1. UNCHANGED <<legacy, amend, wire>> /\ At("adopt") /\ proc \in Process
  BY KindOf DEF LockPlan
<1>2. proc.kind = "ordinary" /\ Ordinary
  BY <1>1, KindOf DEF At
<1>3. lock = Absent
  BY <1>1, <1>2 DEF Ordinary, Planning, At
<1>4. Crossed("legacy") = {} /\ Crossed("amend") = {}
  BY <1>3 DEF WireInv, WithinPlan, Version
<1>5. Version' # 4
  BY DEF LockPlan, Lock, Version
<1>6. Crossed("legacy")' = {} /\ Crossed("amend")' = {} /\ Crossed(Book)' = {}
  BY <1>1, <1>4, <1>5 DEF Crossed, Book
<1>7. WithinPlan'
  BY <1>5, <1>6 DEF WithinPlan
<1>8. LedgersTrue'
  BY <1>1 DEF WireInv, LedgersTrue, LedgerOf, Truthful, Settled, Found
<1>9. proc'.pc = "flush"
  BY <1>1 DEF LockPlan, Moves, Process
<1>10. AtDownloads'
  BY <1>9, Outside
<1> QED BY <1>7, <1>8, <1>10 DEF WireInv

(* The ledger in force is written, and the loop begins.                    *)
LEMMA FlushLedgerTrue == ASSUME QualInv, WireInv, FlushLedger PROVE WireInv'
<1>1. UNCHANGED <<lock, wire>> /\ At("flush") /\ proc \in Process /\ Put(CurrentLedger)
  BY KindOf DEF FlushLedger
<1>2. proc.kind = "ordinary" /\ Ordinary
  BY <1>1, KindOf DEF At
<1>3. lock # Absent /\ proc.done = {}
  BY <1>1, <1>2 DEF Ordinary, Planning, At
<1>4. proc'.pc = "loop" /\ proc'.done = {}
  BY <1>1, <1>3 DEF FlushLedger, Moves, Process
<1>5. AtDownloads'
  BY <1>4 DEF AtDownloads, Looping, At
<1> QED BY <1>1, <1>3, <1>5, InForce, PutTruthful
-----------------------------------------------------------------------------
(* What the loop sends, and what it charges for it.                        *)

(* At the top of the loop.                                                 *)
LEMMA AtTheTop ==
  ASSUME lock' = lock, proc'.pc = "loop", proc'.done \ proc'.won \subseteq Downloads(lock.plan)
  PROVE  AtDownloads'
<1>1. Downloads(lock.plan)' = Downloads(lock.plan)
  BY DEF Downloads
<1> QED BY <1>1 DEF AtDownloads, Looping, At

(* At an object.                                                           *)
LEMMA AtADownload ==
  ASSUME lock' = lock, proc'.pc \in {"sidecar", "fetch", "record", "settle"},
         proc'.done \ proc'.won \subseteq Downloads(lock.plan),
         proc'.at \in Downloads(lock.plan),
         proc'.pc \in {"record", "settle"} /\ proc'.reused => proc'.at \in Found(Book)'
  PROVE  AtDownloads'
<1>1. Downloads(lock.plan)' = Downloads(lock.plan)
  BY DEF Downloads
<1> QED BY <1>1 DEF AtDownloads, Looping, At

(* The steps at the top of the loop that write nothing.                    *)
LEMMA TopTrue == ASSUME QualInv, WireInv, Reuse \/ Block \/ Alias PROVE WireInv'
<1>1. At("loop") /\ Looping /\ UNCHANGED <<lock, legacy, amend, wire>>
  BY DEF Reuse, Block, Alias, Looping, At, files
<1>2. proc \in Process /\ proc.done \ proc.won \subseteq Downloads(lock.plan)
  BY <1>1, LoopState DEF WireInv, AtDownloads
<1>3. CASE Reuse
  <2>1. PICK k \in (Entries \ proc.done) \cap rows :
          proc' = [proc EXCEPT !.done = @ \cup {k}, !.won = @ \cup {k}]
    BY <1>3 DEF Reuse
  <2>2. proc'.pc = "loop" /\ proc'.done = proc.done \cup {k} /\ proc'.won = proc.won \cup {k}
    BY <1>1, <1>2, <2>1 DEF Process, At
  <2>3. proc'.done \ proc'.won \subseteq Downloads(lock.plan)
    BY <1>2, <2>2
  <2> QED BY <1>1, <2>2, <2>3, AtTheTop, StoreStays
<1>4. CASE Block
  <2>1. PICK k \in Entries \ proc.done : /\ New(k)
                                         /\ proc' = [proc EXCEPT !.done = @ \cup {k}]
    BY <1>4 DEF Block
  <2>2. proc'.pc = "loop" /\ proc'.done = proc.done \cup {k} /\ proc'.won = proc.won
    BY <1>1, <1>2, <2>1 DEF Process, At
  <2>3. k \in Downloads(lock.plan)
    BY <2>1 DEF New, Entries, Downloads
  <2>4. proc'.done \ proc'.won \subseteq Downloads(lock.plan)
    BY <1>2, <2>2, <2>3
  <2> QED BY <1>1, <2>2, <2>4, AtTheTop, StoreStays
<1>5. CASE Alias
  <2>1. PICK k \in (Doubled \cap Entries \cap proc.done) \ proc.again :
          proc' = IF k \in proc.won THEN [proc EXCEPT !.again = @ \cup {k}]
                  ELSE [proc EXCEPT !.at = k, !.alias = TRUE, !.pc = "sidecar"]
    BY <1>5 DEF Alias
  <2>2. proc'.done = proc.done /\ proc'.won = proc.won
    BY <1>2, <2>1 DEF Process
  <2>3. CASE k \in proc.won
    <3>1. proc'.pc = "loop"
      BY <1>1, <1>2, <2>1, <2>3 DEF Process, At
    <3> QED BY <1>1, <1>2, <2>2, <3>1, AtTheTop, StoreStays
  <2>4. CASE k \notin proc.won
    <3>1. proc'.pc = "sidecar" /\ proc'.at = k
      BY <1>2, <2>1, <2>4 DEF Process
    <3>2. k \in Downloads(lock.plan)
      BY <1>2, <2>1, <2>4
    <3> QED BY <1>1, <1>2, <2>2, <3>1, <3>2, AtADownload, StoreStays
  <2> QED BY <2>3, <2>4
<1> QED BY <1>3, <1>4, <1>5

(* What holds of the object a step of the loop is at.                      *)
LEMMA ObjectIs ==
  ASSUME QualInv, WireInv, Looping, ~At("loop")
  PROVE  /\ proc \in Process /\ lock # Absent /\ proc.at \in Key
         /\ proc.at \in Downloads(lock.plan)
         /\ proc.done \ proc.won \subseteq Downloads(lock.plan)
BY LoopState, AtObject DEF WireInv, AtDownloads

(* A reservation charges nothing yet.                                      *)
LEMMA ReserveEntryTrue == ASSUME QualInv, WireInv, ReserveEntry PROVE WireInv'
<1>1. At("loop") /\ Looping /\ UNCHANGED <<lock, wire>>
  BY DEF ReserveEntry, Looping, At
<1>2. PICK k \in Entries \ proc.done :
        /\ New(k) /\ Put(Reserve(CurrentLedger, k))
        /\ proc' = [proc EXCEPT !.at = k, !.alias = FALSE, !.pc = "sidecar"]
  BY DEF ReserveEntry
<1>3. proc \in Process /\ lock # Absent /\ CurrentLedger \in Ledger
      /\ proc.done \ proc.won \subseteq Downloads(lock.plan)
  BY <1>1, LoopState DEF WireInv, AtDownloads
<1>4. k \in Key /\ k \in Downloads(lock.plan)
  BY <1>2 DEF New, Entries, Downloads
<1>5. /\ Settled(Reserve(CurrentLedger, k)) = Settled(CurrentLedger)
      /\ Reserve(CurrentLedger, k).charge = CurrentLedger.charge
  BY <1>3, <1>4, Reserving
<1>6. Truthful(Reserve(CurrentLedger, k), Found(Book))
  BY <1>3, <1>5, InForce DEF Truthful
<1>7. proc'.pc = "sidecar" /\ proc'.at = k /\ proc'.done = proc.done /\ proc'.won = proc.won
  BY <1>2, <1>3 DEF Process
<1>8. AtDownloads'
  BY <1>1, <1>3, <1>4, <1>7, AtADownload
<1> QED BY <1>1, <1>2, <1>3, <1>6, <1>8, PutTruthful

(* A failure, a checksum or a row of a download: no ledger is written.     *)
LEMMA AcquisitionTrue == ASSUME QualInv, WireInv, Fail \/ PersistSidecar \/ RecordRow PROVE WireInv'
<1>1. Looping /\ ~At("loop") /\ UNCHANGED <<lock, legacy, amend, wire>>
  BY DEF Fail, PersistSidecar, RecordRow, Looping, At, files
<1>2. /\ proc \in Process /\ proc.at \in Key /\ proc.at \in Downloads(lock.plan)
      /\ proc.done \ proc.won \subseteq Downloads(lock.plan)
  BY <1>1, ObjectIs
<1>3. ASSUME NEW won \in SUBSET Key, proc' = Behind(won) PROVE WireInv'
  <2>1. proc'.pc = "loop" /\ proc'.done = proc.done \cup {proc.at} /\ proc'.won = proc.won \cup won
    BY <1>2, <1>3, BehindIs
  <2>2. proc'.done \ proc'.won \subseteq Downloads(lock.plan)
    BY <1>2, <2>1
  <2> QED BY <1>1, <2>1, <2>2, AtTheTop, StoreStays
<1>4. CASE Fail
  BY <1>3, <1>4 DEF Fail
<1>5. CASE PersistSidecar
  <2>1. proc'.pc = "fetch" /\ proc'.at = proc.at /\ proc'.done = proc.done /\ proc'.won = proc.won
    BY <1>2, <1>5 DEF PersistSidecar, Moves, Process
  <2> QED BY <1>1, <1>2, <2>1, AtADownload, StoreStays
<1>6. CASE RecordRow /\ proc.alias
  BY <1>2, <1>3, <1>6 DEF RecordRow
<1>7. CASE RecordRow /\ ~proc.alias
  <2>1. At("record") /\ proc' = [proc EXCEPT !.pc = "settle"]
    BY <1>7 DEF RecordRow, Moves
  <2>2. /\ proc'.pc = "settle" /\ proc'.at = proc.at /\ proc'.reused = proc.reused
        /\ proc'.done = proc.done /\ proc'.won = proc.won
    BY <1>2, <2>1 DEF Process
  <2>3. proc.reused => proc.at \in Found(Book)
    BY <2>1 DEF WireInv, AtDownloads, At
  <2>4. Found(Book)' = Found(Book)
    BY <1>1 DEF Found, Book, Version
  <2> QED BY <1>1, <1>2, <2>2, <2>3, <2>4, AtADownload, StoreStays
<1> QED BY <1>4, <1>5, <1>6, <1>7

(* More has crossed: of a download of the plan, or found published.        *)
LEMMA WireGrows ==
  ASSUME QualInv, WireInv, Looping, UNCHANGED <<lock, legacy, amend>>, wire \subseteq wire',
         proc.at \in Downloads(lock.plan),
         wire' \ wire \subseteq {<<Book, proc.at, "bytes">>, <<Book, proc.at, "found">>},
         AtDownloads'
  PROVE  WireInv'
<1>1. Version' = Version /\ Book' = Book /\ lock # Absent /\ Book \in {"legacy", "amend"}
  BY LoopState DEF Version, Book
<1>2. /\ \A book : Found(book) \subseteq Found(book)'
      /\ \A book : Crossed(book)' \subseteq Crossed(book) \cup {proc.at}
      /\ \A book : book # Book => Crossed(book)' = Crossed(book)
  BY DEF Found, Crossed
<1>3. LedgersTrue'
  <2>1. Found("legacy") \subseteq Found("legacy")' /\ Found("amend") \subseteq Found("amend")'
    BY <1>2
  <2> QED BY <2>1 DEF WireInv, LedgersTrue, LedgerOf, Truthful, Settled
<1>4. Crossed(Book)' \subseteq Crossed(Book) \cup {proc.at}
  BY <1>1 DEF Crossed
<1>5. Downloads(lock.plan)' = Downloads(lock.plan)
  BY DEF Downloads
<1>6. Version # 4 => Book = "legacy"
  BY DEF Book
<1>7. Version = 4 => Book = "amend" /\ WithinBudget("legacy")'
  BY <1>1, <1>2 DEF Book, WireInv, WithinPlan, WithinBudget, LedgerOf, LimitOf
<1>8. WithinPlan'
  BY <1>1, <1>2, <1>4, <1>5, <1>6, <1>7 DEF WireInv, WithinPlan
<1> QED BY <1>3, <1>8 DEF WireInv

(* Bytes arrive.                                                           *)
LEMMA ReceiveTrue == ASSUME QualInv, WireInv, Receive PROVE WireInv'
<1>1. /\ Looping /\ ~At("loop") /\ UNCHANGED <<lock, legacy, amend, proc>> /\ At("fetch")
      /\ wire' = wire \cup {<<Book, proc.at, "bytes">>}
  BY DEF Receive, Looping, At, files
<1>2. /\ proc.at \in Downloads(lock.plan) /\ proc.done \ proc.won \subseteq Downloads(lock.plan)
  BY <1>1, ObjectIs
<1>3. AtDownloads'
  BY <1>1, <1>2, AtADownload DEF At
<1> QED BY <1>1, <1>2, <1>3, WireGrows

(* The object is published, or found published.                            *)
LEMMA PublishObjectTrue == ASSUME QualInv, WireInv, PublishObject PROVE WireInv'
<1>1. /\ Looping /\ ~At("loop") /\ UNCHANGED <<lock, legacy, amend>>
      /\ wire' = wire \cup (IF proc.at \in objects THEN {<<Book, proc.at, "found">>} ELSE {})
  BY DEF PublishObject, Looping, At
<1>2. /\ proc \in Process /\ proc.at \in Key /\ proc.at \in Downloads(lock.plan)
      /\ proc.done \ proc.won \subseteq Downloads(lock.plan)
  BY <1>1, ObjectIs
<1>3. /\ proc'.pc = "record" /\ proc'.at = proc.at
      /\ proc'.done = proc.done /\ proc'.won = proc.won
      /\ proc'.reused = (proc.at \in objects)
  BY <1>2 DEF PublishObject, Process
<1>4. proc'.reused => proc.at \in Found(Book)'
  <2>1. proc.at \in objects => <<Book, proc.at, "found">> \in wire'
    BY <1>1
  <2>2. Book' = Book
    BY <1>1 DEF Book, Version
  <2> QED BY <1>2, <1>3, <2>1, <2>2 DEF Found
<1>5. AtDownloads'
  BY <1>1, <1>2, <1>3, <1>4, AtADownload
<1> QED BY <1>1, <1>2, <1>5, WireGrows

(* A download is charged the whole body, or nothing when it was found.     *)
LEMMA SettleEntryTrue == ASSUME QualInv, WireInv, SettleEntry PROVE WireInv'
<1>1. Looping /\ ~At("loop") /\ At("settle") /\ UNCHANGED <<lock, wire>>
  BY DEF SettleEntry, Looping, At
<1>2. /\ proc \in Process /\ proc.at \in Key /\ lock # Absent /\ CurrentLedger \in Ledger
      /\ proc.at \in Downloads(lock.plan) /\ proc.done \ proc.won \subseteq Downloads(lock.plan)
  BY <1>1, ObjectIs, LoopState
<1>3. PICK bytes \in {IF proc.reused THEN 0 ELSE Actual[proc.at]} : TRUE
  OBVIOUS
<1>4. /\ bytes \in Nat /\ Actual[proc.at] \in Nat
      /\ bytes = Actual[proc.at] \/ (bytes = 0 /\ proc.at \in Found(Book))
  BY <1>1, <1>2, <1>3, SizeAssumption DEF WireInv, AtDownloads, At
<1>5. Put(Settle(CurrentLedger, proc.at, bytes))
  BY <1>3 DEF SettleEntry
<1>6. Truthful(Settle(CurrentLedger, proc.at, bytes), Found(Book))
  BY <1>2, <1>4, InForce, SettlesTruthfully
<1>7. proc' = Behind({proc.at}) /\ {proc.at} \in SUBSET Key
  BY <1>2 DEF SettleEntry
<1>8. /\ proc'.pc = "loop" /\ proc'.done = proc.done \cup {proc.at}
      /\ proc'.won = proc.won \cup {proc.at}
  BY <1>2, <1>7, BehindIs
<1>9. AtDownloads'
  BY <1>1, <1>2, <1>8, AtTheTop
<1> QED BY <1>1, <1>2, <1>5, <1>6, <1>9, PutTruthful
-----------------------------------------------------------------------------
(* What a migration and a correction make of it.                           *)

(* The amendment ledger is prepared before anything crosses under it.      *)
LEMMA PrepareLedgerTrue == ASSUME QualInv, WireInv, PrepareLedger PROVE WireInv'
<1>1. At("prepare") /\ UNCHANGED <<lock, legacy, wire>>
  BY DEF PrepareLedger
<1>2. proc \in Process /\ Migrating /\ Version = 2 /\ lock # Absent
  BY <1>1, KindOf, BeforeTheLock DEF At
<1>3. amend # Absent => Settled(amend) = {} /\ amend \in Ledger
  BY <1>2 DEF QualInv, QualTypeOK, MigrationExact, Known
<1>4. Settled(amend') = {}
  <2>1. CASE amend = Absent
    BY <2>1 DEF PrepareLedger, NewLedger, Settled
  <2>2. CASE amend # Absent
    <3>1. amend'.charge = amend.charge
      BY <1>3, <2>2 DEF PrepareLedger, Ledger
    <3> QED BY <1>3, <2>2, <3>1 DEF Settled
  <2> QED BY <2>1, <2>2
<1>5. Truthful(amend', Found("amend")')
  BY <1>4 DEF Truthful
<1>6. LedgersTrue'
  <2>1. Truthful(amend, Found("amend"))'
    BY <1>5 DEF Truthful, Settled
  <2>2. legacy # Absent => Truthful(legacy, Found("legacy"))
    BY DEF WireInv, LedgersTrue, LedgerOf
  <2>3. legacy' # Absent => Truthful(legacy, Found("legacy"))'
    BY <1>1, <2>2 DEF Truthful, Settled, Found
  <2> QED BY <2>1, <2>3 DEF LedgersTrue, LedgerOf
<1>7. Version' = Version
  BY <1>1 DEF Version
<1>8. proc'.pc = "install"
  BY <1>2 DEF PrepareLedger, Moves, Process
<1>9. AtDownloads'
  BY <1>8, Outside
<1> QED BY <1>1, <1>2, <1>6, <1>7, <1>9, WireStays

(* What has crossed under the ledger that is left behind was in budget.    *)
LEMMA InstallLockTrue == ASSUME QualInv, WireInv, InstallLock PROVE WireInv'
<1>1. /\ At("install") /\ UNCHANGED <<legacy, amend, wire>> /\ proc' = NoRun
      /\ lock' = Lock(4, source, approved.plan, approved.retained, amend.receipts)
  BY DEF InstallLock, Ends
<1>2. /\ Version = 2 /\ lock # Absent /\ Migrating /\ approved \in Approvals /\ amend # Absent
  BY <1>1, KindOf, BeforeTheLock DEF At, Migrating
<1>3. Version' = 4 /\ lock' # Absent
  <2>1. amend \in Ledger /\ amend.receipts \in Seq(Nat) /\ source \in Nat
    BY <1>2 DEF QualInv, QualTypeOK, Ledger
  <2>2. lock' \in Locks /\ lock'.version = 4
    BY <1>1, <1>2, <2>1 DEF Lock, Locks, Approvals
  <2>3. lock' # Absent
    BY <2>2, QualificationAssumption
  <2> QED BY <2>2, <2>3 DEF Version
<1>4. Book = "legacy" /\ Book' = "amend"
  BY <1>2, <1>3 DEF Book
<1>5. WithinBudget("legacy")
  <2>1. CASE Crossed("legacy") = {}
    BY <2>1 DEF WithinBudget
  <2>2. CASE Crossed("legacy") # {}
    <3>1. Crossed(Book) # {}
      BY <1>4, <2>2
    <3>2. WithinBudget(Book)
      BY <1>2, <3>1, PlanBounds
    <3> QED BY <1>4, <3>2
  <2> QED BY <2>1, <2>2
<1>6. WithinBudget("legacy")'
  BY <1>1, <1>5 DEF WithinBudget, Crossed, LedgerOf, LimitOf
<1>7. Crossed(Book)' = {}
  <2>1. Crossed("amend") = {}
    BY <1>2 DEF WireInv, WithinPlan
  <2> QED BY <1>1, <1>4, <2>1 DEF Crossed
<1>8. WithinPlan'
  BY <1>3, <1>6, <1>7 DEF WithinPlan
<1>9. LedgersTrue'
  BY <1>1 DEF WireInv, LedgersTrue, LedgerOf, Truthful, Settled, Found
<1>10. AtDownloads'
  BY <1>1, NoRunRuns, Outside
<1> QED BY <1>8, <1>9, <1>10 DEF WireInv

(* A correction changes receipts and the source only.                      *)
LEMMA CorrectionTrue ==
  ASSUME QualInv, WireInv, AdvanceReceipt \/ PublishLock
  PROVE  WireInv'
<1>1. proc \in Process /\ Correcting /\ UNCHANGED <<legacy, wire>>
  BY KindOf DEF AdvanceReceipt, PublishLock, At
<1>2. /\ Version = 4 /\ lock \in Locks /\ lock # Absent /\ amend \in Ledger /\ amend # Absent
      /\ amend.receipts \in Seq(Nat) /\ source \in Nat
  BY <1>1, BeforeThePublication
<1>3. CASE AdvanceReceipt
  <2>1. amend' = Advanced(amend) /\ lock' = lock /\ proc'.pc = "publish"
    BY <1>1, <1>3 DEF AdvanceReceipt, Moves, Process
  <2>2. amend'.charge = amend.charge
    BY <1>2, <2>1 DEF Advanced, Ledger
  <2>3. Truthful(amend, Found("amend"))
    BY <1>2 DEF WireInv, LedgersTrue, LedgerOf
  <2>4. Truthful(amend, Found("amend"))'
    BY <1>1, <2>2, <2>3 DEF Truthful, Settled, Found
  <2>5. LedgersTrue'
    BY <1>1, <2>4 DEF WireInv, LedgersTrue, LedgerOf, Truthful, Settled, Found
  <2>6. Version' = Version
    BY <2>1 DEF Version
  <2> QED BY <1>1, <1>2, <2>1, <2>5, <2>6, Outside, WireStays
<1>4. CASE PublishLock
  <2>1. /\ lock' = [lock EXCEPT !.source = source, !.receipts = amend.receipts]
        /\ amend' = amend /\ proc' = NoRun
    BY <1>4 DEF PublishLock, Ends
  <2>2. lock' \in Locks /\ lock'.plan = lock.plan /\ lock'.version = lock.version
    BY <1>2, <2>1 DEF Locks
  <2>3. lock' # Absent /\ Version' = Version
    BY <1>2, <2>2, QualificationAssumption DEF Version
  <2>4. LedgersTrue'
    BY <1>1, <2>1 DEF WireInv, LedgersTrue, LedgerOf, Truthful, Settled, Found
  <2> QED BY <1>1, <1>2, <2>1, <2>2, <2>3, <2>4, NoRunRuns, Outside, WireStays
<1> QED BY <1>3, <1>4

(* Every step keeps it.                                                    *)
LEMMA WireSteps == ASSUME QualInv, WireInv, [QualNext]_qualVars PROVE WireInv'
<1>1. CASE UNCHANGED qualVars
  <2>1. UNCHANGED <<lock, legacy, amend, wire, proc>>
    BY <1>1 DEF qualVars, files
  <2>2. AtDownloads'
    BY <2>1 DEF WireInv, AtDownloads, Looping, At, Found, Book, Version, Downloads
  <2> QED BY <2>1, <2>2, StoreStays
<1>2. ASSUME \/ StartOrdinary \/ StartMigration \/ StartCorrection
             \/ ReviewMigration \/ ReviewCorrection \/ Deploy \/ Dies
      PROVE  WireInv'
  BY <1>2, ProcessTrue
<1>3. ASSUME \/ RecoveryRaises \/ RecoverRow \/ Recovered \/ SettleProved \/ Reconciled
             \/ Compare \/ AdoptRow \/ LockPlan \/ FlushLedger
      PROVE  WireInv'
  BY <1>3, ProcessTrue, SettleProvedTrue, CompareTrue, LockPlanTrue, FlushLedgerTrue
<1>4. ASSUME \/ Reuse \/ Block \/ ReserveEntry \/ Alias \/ CompleteRun \/ Fail \/ FetchRaises
             \/ PersistSidecar \/ Receive \/ PublishObject \/ RecordRow \/ SettleEntry
      PROVE  WireInv'
  BY <1>4, ProcessTrue, TopTrue, ReserveEntryTrue, AcquisitionTrue, ReceiveTrue,
     PublishObjectTrue, SettleEntryTrue
<1>5. ASSUME \/ PreservePriorLock \/ PrepareLedger \/ InstallLock
             \/ KeepLock \/ KeepLedger \/ AdvanceReceipt \/ PublishLock
      PROVE  WireInv'
  BY <1>5, ProcessTrue, PrepareLedgerTrue, InstallLockTrue, CorrectionTrue
<1> QED BY <1>1, <1>2, <1>3, <1>4, <1>5 DEF QualNext, ProcessStep

(* Both hold of every behaviour.                                           *)
LEMMA WireIsTrue == QualSpec => [](QualInv /\ WireInv)
<1>1. QualInit => QualInv /\ WireInv
  BY QualBegins, WireBegins
<1>2. QualInv /\ WireInv /\ [QualNext]_qualVars => QualInv' /\ WireInv'
  BY QualSteps, WireSteps
<1> QED BY <1>1, <1>2, PTL DEF QualSpec

(* The ledger is written ahead of every byte: an object of which bytes     *)
(* have crossed is reserved, or charged its whole body, or charged nothing *)
(* because a download found it published, or is an alias behind an overrun; *)
(* and the objects that have crossed, as listed, fit the budget.           *)
THEOREM BytesAlwaysCovered == QualSpec => []BytesAreCovered
<1>1. ASSUME QualInv, WireInv, NEW book \in {"legacy", "amend"}, Crossed(book) # {}
      PROVE  LedgerOf(book) # Absent
             /\ \A k \in Crossed(book) : CoveredBy(LedgerOf(book), k, Found(book))
  <2>1. ASSUME NEW k \in Crossed(book)
        PROVE  Accounted(LedgerOf(book), k) /\ k \in Key
    <3>1. PICK c \in {<<book, k, "bytes">>} : TRUE
      OBVIOUS
    <3>2. c \in wire /\ c[1] = book /\ c[2] = k /\ k \in Key
      BY <2>1, <3>1 DEF Crossed
    <3> QED BY <1>1, <3>2 DEF QualInv, EveryByteIsAccounted, LedgerOf
  <2>2. LedgerOf(book) # Absent
    BY <1>1, <2>1 DEF Accounted
  <2>3. Truthful(LedgerOf(book), Found(book))
    BY <1>1, <2>2 DEF WireInv, LedgersTrue
  <2>4. ASSUME NEW k \in Crossed(book) PROVE CoveredBy(LedgerOf(book), k, Found(book))
    BY <2>1, <2>3 DEF Accounted, Known, Truthful, CoveredBy
  <2> QED BY <2>2, <2>4
<1>2. ASSUME QualInv, WireInv, NEW book \in {"legacy", "amend"}, Crossed(book) # {}
      PROVE  WithinBudget(book)
  <2>1. lock # Absent
    BY <1>2 DEF WireInv, WithinPlan, Version
  <2>2. CASE book = Book
    BY <1>2, <2>1, <2>2, PlanBounds
  <2>3. CASE book # Book
    BY <1>2, <2>3 DEF Book, WireInv, WithinPlan
  <2> QED BY <2>2, <2>3
<1>3. QualInv /\ WireInv => BytesAreCovered
  BY <1>1, <1>2 DEF BytesAreCovered, WithinBudget
<1> QED BY <1>3, WireIsTrue, PTL

(* A migrated store has the approved plan and ledger, and a corrected one  *)
(* differs from the accepted one in its source and receipt alone.          *)
THEOREM LineageAlwaysExact == QualSpec => []LineageIsExact
<1>1. ASSUME QualInv PROVE LineageIsExact
  <2>1. Version = 4 => amend # Absent
    BY <1>1 DEF QualInv, Kept
  <2> QED BY <1>1, <2>1 DEF QualInv, MigrationExact, CorrectionExact, LineageIsExact
<1> QED BY <1>1, StoreIsSound, PTL

(* What a run that ended or died leaves, something can carry on with.      *)
THEOREM NeverLeftStranded == QualSpec => []NeverStranded
<1>1. ASSUME QualInv, proc = NoRun, amend # Absent, Version # 4
      PROVE  MigrationAccepts /\ rows \cup Recoverable = approved.retained /\ ~Poisoned
  BY <1>1 DEF QualInv, MigrationExact, MigrationAccepts
<1>2. ASSUME QualInv, proc = NoRun, Version # 4, amend = Absent
      PROVE  Transition = "legacy" /\ (lock # Absent => lock.retained \subseteq rows \cup Recoverable)
  <2>1. Version \in {0, 1, 2}
    BY <1>2, VersionOf DEF QualInv
  <2>2. Transition = "legacy"
    BY <1>2, <2>1 DEF Transition
  <2>3. lock # Absent => Version \in {1, 2}
    BY <1>2, VersionOf DEF QualInv
  <2> QED BY <1>2, <2>2, <2>3 DEF QualInv, Kept
<1>3. ASSUME QualInv, proc = NoRun, Version = 4, Last(amend.receipts) = source, ~Overrun(amend)
      PROVE  \/ Migrated /\ lock.retained \subseteq rows \cup Recoverable
             \/ CorrectionAccepts /\ LedgerAdvanced
  <2>1. amend # Absent /\ amend \in Ledger /\ Keeps(amend, lock.plan, Allowance) /\ amend.max = 0
    BY <1>3, LegacyOfMigrated DEF QualInv, Kept
  <2>2. /\ approved # Absent /\ approved.lock \in kept /\ lock.plan = approved.plan
        /\ legacy = approved.legacy /\ lock.source = Last(lock.receipts)
        /\ lock.retained \subseteq rows \cup Recoverable
    BY <1>3, <2>1 DEF QualInv, MigrationExact
  <2>3. CASE lock.receipts = amend.receipts
    <3>1. ChargesLockedPlan(amend, lock.plan, Allowance)
      <4>1. /\ Known(amend) \in SUBSET Key /\ Known(amend) \subseteq Downloads(lock.plan)
            /\ \A k \in Settled(amend) : amend.charge[k] \in Nat
        BY <2>1, SettledIn DEF Keeps
      <4>2. \A k \in Known(amend) : lock.plan[k] = "download"
        BY <4>1 DEF Downloads
      <4>3. \A k \in Known(amend) : Planned(amend, k) = Listed[k]
        BY <1>3 DEF Planned, Overrun
      <4>4. Bytes(Listed, Known(amend)) <= Allowance
        <5>1. CASE Known(amend) = {}
          BY <5>1, SumEmpty, BytesAreSums, QualificationAssumption
        <5>2. CASE Known(amend) # {}
          <6>1. Downloads(lock.plan) # {} /\ Downloads(lock.plan) \in SUBSET Key
            BY <4>1, <5>2 DEF Downloads
          <6>2. /\ IsFiniteSet(Downloads(lock.plan)) /\ Weighs(Listed, Downloads(lock.plan))
                /\ Bytes(Listed, Downloads(lock.plan)) \in Nat
            BY <6>1, ListedBytes
          <6>3. Bytes(Listed, Known(amend)) <= Bytes(Listed, Downloads(lock.plan))
            BY <4>1, <6>2, SumPart, BytesAreSums
          <6>4. Bytes(Listed, Downloads(lock.plan)) <= Allowance
            BY <2>1, <6>1, <6>2 DEF Keeps
          <6> QED BY <4>1, <6>2, <6>3, <6>4, ListedBytes, QualificationAssumption
        <5> QED BY <5>1, <5>2
      <4> QED BY <4>2, <4>3, <4>4 DEF ChargesLockedPlan
    <3> QED BY <1>3, <2>1, <2>2, <2>3, <3>1 DEF Migrated
  <2>4. CASE lock.receipts # amend.receipts
    <3>1. /\ accepted # Absent /\ lock = accepted.lock /\ rows = accepted.rows /\ OneMore
          /\ lock.retained \subseteq rows
      BY <1>3, <2>4 DEF QualInv, CorrectionExact
    <3>2. LedgerAdvanced
      BY <1>3, <3>1 DEF OneMore, LedgerAdvanced, Advanced
    <3> QED BY <2>2, <3>1, <3>2 DEF CorrectionAccepts
  <2> QED BY <2>3, <2>4
<1>4. QualInv => NeverStranded
  BY <1>1, <1>2, <1>3 DEF NeverStranded
<1> QED BY <1>4, StoreIsSound, PTL
=============================================================================
