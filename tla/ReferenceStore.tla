---- MODULE ReferenceStore ----
(* The point-in-time reference master (reference/store.py): instrument versions,  *)
(* fee schedules, aliases and the queue of ambiguous aliases.  A write checks and  *)
(* inserts under one BEGIN IMMEDIATE; resolve_alias reads outside a transaction    *)
(* and may queue a case on what it read.  Every window is the caller's.            *)
EXTENDS Bitemporal, FiniteSets

CONSTANTS Instrument,  \* instruments; a fee schedule's (instrument, tier) is one too
          Rate,        \* fee rates
          Name,        \* normalized alias texts
          Venue,       \* venues of aliases and of questions
          Global,      \* the absent venue
          Target,      \* what an alias may name
          VenueOf,     \* [Target -> Venue, or Global for a target without venue]
          Asker,       \* processes that call resolve_alias
          Nothing,
          AliasTime,   \* bound: the timestamps aliases and questions use
          MaxRows      \* bound on the rows of each table

Case == [status : {"QUEUED", "RESOLVED", "REJECTED", "DEFERRED"}, target : Target \cup {Nothing},
         candidates : SUBSET Target]
Ambiguous == [question : [name : Name, venue : Venue \cup {Global}, d : AliasTime, k : AliasTime],
              candidates : SUBSET Target]

ASSUME AliasAssumption ==
    AliasTime \subseteq Time /\ Nothing \notin Case /\ Nothing \notin Ambiguous

VARIABLES versions,  \* set of [instrument, seq, vf, vt, kf, kt]
          fees,      \* set of [instrument, rate, vf, vt, kf, kt]
          aliases,   \* set of [name, venue, target, vf, vt, kf, kt]
          cases,     \* [Question -> ambiguity case or Nothing]
          asking     \* [Asker -> question it found ambiguous, or Nothing]

refVars == <<versions, fees, aliases, cases, asking>>

AliasWindow == {w \in Window : {w.vf, w.kf} \subseteq AliasTime /\ {w.vt, w.kt} \subseteq AliasTime \cup {Open}}
Question == [name : Name, venue : Venue \cup {Global}, d : AliasTime, k : AliasTime]

VersionRow(i, n, w) == [instrument |-> i, seq |-> n, vf |-> w.vf, vt |-> w.vt, kf |-> w.kf, kt |-> w.kt]
FeeRow(i, x, w) == [instrument |-> i, rate |-> x, vf |-> w.vf, vt |-> w.vt, kf |-> w.kf, kt |-> w.kt]
AliasRow(n, v, x, w) ==
    [name |-> n, venue |-> v, target |-> x, vf |-> w.vf, vt |-> w.vt, kf |-> w.kf, kt |-> w.kt]

RefInit ==
    /\ versions = {}
    /\ fees = {}
    /\ aliases = {}
    /\ cases = [q \in Question |-> Nothing]
    /\ asking = [a \in Asker |-> Nothing]

-----------------------------------------------------------------------------
(* Instrument versions: unique by (instrument, version_seq), and no two of one     *)
(* instrument overlap in both times.                                               *)
VersionFits(table, r) ==
    \A x \in table : x.instrument = r.instrument => x.seq # r.seq /\ ~Overlaps(x, r)

AddVersion(i, n, w) ==
    LET r == VersionRow(i, n, w) IN
    /\ VersionFits(versions, r)
    /\ versions' = versions \cup {r}
    /\ UNCHANGED <<fees, aliases, cases, asking>>

(* The prior row is closed first, so the checks see it closed; a refusal rolls     *)
(* both back.  The sequence number is the prior's successor unless given.          *)
SupersedeVersion(prior, at, n, w) ==
    LET rest == (versions \ {prior}) \cup {Closed(prior, at)}
        r == VersionRow(prior.instrument, n, w)
    IN /\ Corrects(w, prior, at)
       /\ VersionFits(rest, r)
       /\ versions' = rest \cup {r}
       /\ UNCHANGED <<fees, aliases, cases, asking>>

-----------------------------------------------------------------------------
(* Fee schedules: the id is the digest of instrument, tier, rates, valid_from and  *)
(* known_from; two rows with one id would overlap.                                 *)
FeeFits(table, r) == \A x \in table : x.instrument = r.instrument => ~Overlaps(x, r)

AddFee(i, x, w) ==
    /\ FeeFits(fees, FeeRow(i, x, w))
    /\ fees' = fees \cup {FeeRow(i, x, w)}
    /\ UNCHANGED <<versions, aliases, cases, asking>>

SupersedeFee(prior, at, x, w) ==
    LET rest == (fees \ {prior}) \cup {Closed(prior, at)}
        r == FeeRow(prior.instrument, x, w)
    IN /\ Corrects(w, prior, at)
       /\ FeeFits(rest, r)
       /\ fees' = rest \cup {r}
       /\ UNCHANGED <<versions, aliases, cases, asking>>

-----------------------------------------------------------------------------
(* Aliases: overlapping rows of one name in one scope must name one target, and    *)
(* the id is the digest of name, scope, target, valid_from and known_from.         *)
SameScope(a, b) == a.name = b.name /\ a.venue = b.venue
SameAlias(a, b) ==
    SameScope(a, b) /\ a.target = b.target /\ a.vf = b.vf /\ a.kf = b.kf
AliasFits(table, r) ==
    \A x \in table : /\ SameScope(x, r) /\ Overlaps(x, r) => x.target = r.target
                     /\ ~SameAlias(x, r)

AddAlias(n, v, x, w) ==
    /\ AliasFits(aliases, AliasRow(n, v, x, w))
    /\ aliases' = aliases \cup {AliasRow(n, v, x, w)}
    /\ UNCHANGED <<versions, fees, cases, asking>>

SupersedeAlias(prior, at, n, x, w) ==
    LET rest == (aliases \ {prior}) \cup {Closed(prior, at)}
        r == AliasRow(n, prior.venue, x, w)
    IN /\ Corrects(w, prior, at)
       /\ AliasFits(rest, r)
       /\ aliases' = rest \cup {r}
       /\ UNCHANGED <<versions, fees, cases, asking>>

-----------------------------------------------------------------------------
(* Mutation: what is known later is used for the question too.                      *)
Matches_Hindsight(table, q) ==
    {r \in table : r.name = q.name /\ r.venue \in {q.venue, Global} /\ Active(r, q.d, r.kf)}

(* resolve_alias: rows of the asked venue and the global ones; several targets are  *)
(* never merged, they go to a person.                                               *)
Matches(table, q) ==
    {r \in table : r.name = q.name /\ r.venue \in {q.venue, Global} /\ Active(r, q.d, q.k)}
Targets(table, q) == {r.target : r \in Matches(table, q)}

Decided(q) == cases[q] # Nothing /\ cases[q].status # "QUEUED"

AskAmbiguous(a, q) ==
    /\ asking[a] = Nothing
    /\ cases[q] = Nothing
    /\ Cardinality(Targets(aliases, q)) > 1
    /\ asking' = [asking EXCEPT ![a] = [question |-> q, candidates |-> Targets(aliases, q)]]
    /\ UNCHANGED <<versions, fees, aliases, cases>>

(* The case is created unless another process has created it, decided or not.       *)
QueueAmbiguity(a) ==
    /\ asking[a] # Nothing
    /\ LET q == asking[a].question IN
       cases' = IF cases[q] = Nothing
                THEN [cases EXCEPT ![q] = [status |-> "QUEUED", target |-> Nothing,
                                           candidates |-> asking[a].candidates]]
                ELSE cases
    /\ asking' = [asking EXCEPT ![a] = Nothing]
    /\ UNCHANGED <<versions, fees, aliases>>

(* resolve_ambiguity_case: a queued case is resolved to a stored candidate whose     *)
(* venue is the question's, or rejected, or deferred.                               *)
ResolveCase(q, x) ==
    /\ cases[q] # Nothing /\ cases[q].status = "QUEUED"
    /\ x \in cases[q].candidates
    /\ q.venue = Global \/ VenueOf[x] \in {q.venue, Global}
    /\ cases' = [cases EXCEPT ![q].status = "RESOLVED", ![q].target = x]
    /\ UNCHANGED <<versions, fees, aliases, asking>>

DismissCase(q) ==
    /\ cases[q] # Nothing /\ cases[q].status = "QUEUED"
    /\ \E s \in {"REJECTED", "DEFERRED"} : cases' = [cases EXCEPT ![q].status = s]
    /\ UNCHANGED <<versions, fees, aliases, asking>>

Room(table) == Cardinality(table) < MaxRows

VersionNext ==
    /\ Room(versions)
    /\ \/ \E i \in Instrument, n \in 1..MaxRows, w \in Window : AddVersion(i, n, w)
       \/ \E r \in versions, at \in Time, n \in 1..MaxRows, w \in Window :
             SupersedeVersion(r, at, n, w)

FeeNext ==
    /\ Room(fees)
    /\ \/ \E i \in Instrument, x \in Rate, w \in Window : AddFee(i, x, w)
       \/ \E r \in fees, at \in Time, x \in Rate, w \in Window : SupersedeFee(r, at, x, w)

AliasNext ==
    \/ /\ Room(aliases)
       /\ \E n \in Name, v \in Venue \cup {Global}, x \in Target, w \in AliasWindow :
             AddAlias(n, v, x, w)
    \/ /\ Room(aliases)
       /\ \E r \in aliases, at \in AliasTime, n \in Name, x \in Target, w \in AliasWindow :
             SupersedeAlias(r, at, n, x, w)
    \/ \E a \in Asker, q \in Question : AskAmbiguous(a, q)
    \/ \E a \in Asker : QueueAmbiguity(a)
    \/ \E q \in Question, x \in Target : ResolveCase(q, x)
    \/ \E q \in Question : DismissCase(q)

-----------------------------------------------------------------------------
(* instrument_version_as_of takes the highest sequence number among the active      *)
(* rows; fee_schedule_as_of the row of the smallest digest, so any active row.      *)
VersionAsOf(table, i, d, k) ==
    {r \in table : /\ r.instrument = i /\ Active(r, d, k)
                   /\ \A x \in table : x.instrument = i /\ Active(x, d, k) => x.seq <= r.seq}
FeeAsOf(table, i, d, k) == {r \in table : r.instrument = i /\ Active(r, d, k)}

(* latest_available of the as-of reader: eligible rows at knowledge time d, ranked   *)
(* by version_seq (versions) or by valid_from and known_from (fees).                *)
LatestVersion(table, i, d) ==
    LET rows == {r \in table : r.instrument = i /\ ReferenceEligible(r, d, d)}
    IN {r \in rows : \A x \in rows : x.seq <= r.seq}
LatestFee(table, i, d) ==
    LET rows == {r \in table : r.instrument = i /\ ReferenceEligible(r, d, d)}
    IN {r \in rows : \A x \in rows : x.vf < r.vf \/ (x.vf = r.vf /\ x.kf <= r.kf)}

(* Whatever was added and corrected, in any order and with any windows, a question   *)
(* has at most one answer, and the two readers of the tables give the same one;       *)
(* an alias names one target per scope (store.py:1170, 1399, 1477, 1594; as_of.py).   *)
OneAnswer ==
    /\ \A i \in Instrument, d \in Time, k \in Time :
         /\ Cardinality(VersionAsOf(versions, i, d, k)) <= 1
         /\ Cardinality(FeeAsOf(fees, i, d, k)) <= 1
    /\ \A i \in Instrument, d \in Time :
         /\ LatestVersion(versions, i, d) = VersionAsOf(versions, i, d, d)
         /\ LatestFee(fees, i, d) = FeeAsOf(fees, i, d, d)
    /\ \A a \in aliases, b \in aliases :
         SameScope(a, b) /\ a.target # b.target => ~Overlaps(a, b)

(* A person's resolution names a target that an alias of the question's name and      *)
(* scope gave at the question's decision time, and that was known by its knowledge    *)
(* time: the alias may have been corrected away between the question, the queue and   *)
(* the resolution, it was never invented (store.py:818, 902, 1022).                   *)
PinnedWasNamed ==
    \A q \in Question : cases[q] # Nothing /\ cases[q].status = "RESOLVED" =>
        \E r \in aliases : /\ r.name = q.name /\ r.venue \in {q.venue, Global}
                            /\ r.target = cases[q].target
                            /\ r.vf <= q.d /\ q.d < r.vt /\ r.kf <= q.k

(* History is stable: what the store answers for a knowledge time changes only when   *)
(* a row known by that time is added.  A correction leaves no gap before its           *)
(* replacement and rewrites nothing known earlier (store.py:371-376, 914-920).         *)
Facts(rows) == {Closed(r, Open) : r \in rows}
Rewritten(old, new, k) == \E r \in new : r.kf <= k /\ Closed(r, Open) \notin Facts(old)

HistoryIsStable ==
    [][ /\ \A i \in Instrument, d \in Time, k \in Time :
             /\ Facts(VersionAsOf(versions, i, d, k)) # Facts(VersionAsOf(versions', i, d, k))
                  => Rewritten(versions, versions', k)
             /\ Facts(FeeAsOf(fees, i, d, k)) # Facts(FeeAsOf(fees', i, d, k))
                  => Rewritten(fees, fees', k)
        /\ \A q \in Question :
             Targets(aliases, q) # Targets(aliases', q) => Rewritten(aliases, aliases', q.k)
      ]_refVars
====
