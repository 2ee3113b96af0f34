---------------------------- MODULE ContentLedger ----------------------------
(***************************************************************************)
(* What the raw-object store promises its callers, without files, leases   *)
(* or transactions: a set of published contents that only grows, and a     *)
(* ledger with at most one immutable verdict per acquisition id.  A verdict *)
(* SUCCEEDED names a content that is already published; a verdict FAILED    *)
(* names none.                                                             *)
(***************************************************************************)
CONSTANTS AcqId,    \* acquisition identifiers
          Content,  \* object contents, one per SHA-256 digest
          Meta,     \* provenance of an attempt: source, request, checksums
          None      \* absence of a content, a row, a temp file or a holder

VARIABLES objects,  \* the contents published under their canonical path
          ledger    \* the verdict recorded for each acquisition id, or None

vars == <<objects, ledger>>

Succeeded(c, m) == [status |-> "SUCCEEDED", content |-> c, meta |-> m]
Failed(m) == [status |-> "FAILED", content |-> None, meta |-> m]

Verdict ==
  [status : {"SUCCEEDED"}, content : Content, meta : Meta]
    \cup [status : {"FAILED"}, content : {None}, meta : Meta]

Init ==
  /\ objects = {}
  /\ ledger = [a \in AcqId |-> None]

Publish(c) ==
  /\ objects' = objects \cup {c}
  /\ UNCHANGED ledger

Succeed(a, c, m) ==
  /\ ledger[a] = None
  /\ c \in objects
  /\ ledger' = [ledger EXCEPT ![a] = Succeeded(c, m)]
  /\ UNCHANGED objects

Fail(a, m) ==
  /\ ledger[a] = None
  /\ ledger' = [ledger EXCEPT ![a] = Failed(m)]
  /\ UNCHANGED objects

Next ==
  \/ \E c \in Content : Publish(c)
  \/ \E a \in AcqId, c \in Content, m \in Meta : Succeed(a, c, m)
  \/ \E a \in AcqId, m \in Meta : Fail(a, m)

Spec == Init /\ [][Next]_vars
=============================================================================
