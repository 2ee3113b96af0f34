---- MODULE EvidenceRegistry ----
(* The evidence registry (evidence/repository.py): hypothesis versions,         *)
(* evidence, links, snapshots and decisions, every table append-only and every   *)
(* timestamp supplied by the caller.  Each operation inserts in one transaction. *)
(* What it has read before the insert are rows that never change, and absences   *)
(* that a primary key guards, except for build_snapshot: its links are read       *)
(* before its transaction begins, so it is two steps.                           *)
EXTENDS Naturals, FiniteSets

CONSTANTS Version,      \* hypothesis versions
          HypothesisOf, \* [Version -> hypothesis]
          Evidence,     \* evidence items
          Literature,   \* those of a literature or legacy kind
          Decision,     \* decision ids, numbers: their order breaks ties of event_at
          SeedOf,       \* [Version -> Decision], the id seed_import gives
          Clock,         \* timestamps, a set of numbers
          Writer,       \* processes that build snapshots
          None,
          MaxEntries    \* bound on links, snapshots and decisions together

(* The rows of the tables.                                                      *)
Grade == {"PASS", "FAIL"}
Verdict == {"PROMOTE", "OTHER"}
LinkRow == [grade : Grade, at : Clock]
LinkEntry == [evidence : Evidence, grade : Grade, at : Clock]
SnapshotBody == [version : Version, asOf : Clock, links : SUBSET LinkEntry]
SnapshotRow == [version : Version, asOf : Clock, links : SUBSET LinkEntry, generatedAt : Clock]
DecisionRow == [version : Version, verdict : Verdict, snapshot : SnapshotBody, at : Clock,
                supersedes : Decision \cup {None}]

(* Timestamps and decision ids are ordered as numbers are; None is no row.       *)
ASSUME EvidenceAssumption ==
    /\ Clock \subseteq Nat /\ Decision \subseteq Nat /\ IsFiniteSet(Decision)
    /\ SeedOf \in [Version -> Decision]
    /\ None \notin Clock /\ None \notin Decision
    /\ None \notin LinkRow /\ None \notin SnapshotRow /\ None \notin DecisionRow

VARIABLES created,     \* [Version -> created_at or None]
          registered,  \* [Evidence -> registered_at or None]
          links,       \* [Version \X Evidence -> [grade, at] or None]
          snapshots,   \* set of [version, asOf, links, generatedAt]
          decisions,   \* [Decision -> decision or None]
          reading      \* [Writer -> snapshot read and not yet stored, or None]

evidenceVars == <<created, registered, links, snapshots, decisions, reading>>

EvidenceInit ==
    /\ created = [v \in Version |-> None]
    /\ registered = [e \in Evidence |-> None]
    /\ links = [l \in Version \X Evidence |-> None]
    /\ snapshots = {}
    /\ decisions = [d \in Decision |-> None]
    /\ reading = [w \in Writer |-> None]

RegisterHypothesis(v, t) ==
    /\ created[v] = None
    /\ created' = [created EXCEPT ![v] = t]
    /\ UNCHANGED <<registered, links, snapshots, decisions, reading>>

AddEvidence(e, t) ==
    /\ registered[e] = None
    /\ registered' = [registered EXCEPT ![e] = t]
    /\ UNCHANGED <<created, links, snapshots, decisions, reading>>

(* A link is stored once, with the integrity grade the caller gives it, and      *)
(* predates neither of its ends.                                                 *)
LinkEvidence(v, e, grade, t) ==
    /\ created[v] # None /\ created[v] <= t
    /\ registered[e] # None /\ registered[e] <= t
    /\ links[<<v, e>>] = None
    /\ links' = [links EXCEPT ![<<v, e>>] = [grade |-> grade, at |-> t]]
    /\ UNCHANGED <<created, registered, snapshots, decisions, reading>>

LinksAsOf(v, t) ==
    {[evidence |-> e, grade |-> links[<<v, e>>].grade, at |-> links[<<v, e>>].at] :
        e \in {x \in Evidence : links[<<v, x>>] # None /\ links[<<v, x>>].at <= t /\ registered[x] <= t}}

(* A snapshot's id is the digest of its body, which leaves generated_at out:      *)
(* an equal body already stored is returned with the generation time it has.     *)
Body(s) == [version |-> s.version, asOf |-> s.asOf, links |-> s.links]
Store(known, s) == IF \E x \in known : Body(x) = Body(s) THEN known ELSE known \cup {s}

ReadForSnapshot(w, v, asOf, generatedAt) ==
    /\ reading[w] = None
    /\ created[v] # None /\ created[v] <= asOf /\ asOf <= generatedAt
    /\ reading' = [reading EXCEPT ![w] = [version |-> v, asOf |-> asOf,
                       links |-> LinksAsOf(v, asOf), generatedAt |-> generatedAt]]
    /\ UNCHANGED <<created, registered, links, snapshots, decisions>>

StoreSnapshot(w) ==
    /\ reading[w] # None
    /\ snapshots' = Store(snapshots, reading[w])
    /\ reading' = [reading EXCEPT ![w] = None]
    /\ UNCHANGED <<created, registered, links, decisions>>

(* The process dies, or the insert fails, between the read and the commit.       *)
LoseSnapshot(w) ==
    /\ reading[w] # None
    /\ reading' = [reading EXCEPT ![w] = None]
    /\ UNCHANGED <<created, registered, links, snapshots, decisions>>

PromotionAllowed(s) ==
    /\ \E l \in s.links : l.evidence \notin Literature
    /\ \A l \in s.links : l.grade = "PASS"

(* Mutation: the snapshot of another version of the hypothesis is accepted.      *)
Admissible_AnyVersion(d, s) ==
    /\ d.at >= s.asOf /\ d.at >= s.generatedAt
    /\ d.verdict = "PROMOTE" => PromotionAllowed(s)
    /\ d.supersedes # None =>
         /\ decisions[d.supersedes] # None
         /\ decisions[d.supersedes].version = d.version
         /\ decisions[d.supersedes].at < d.at

(* The conditions append_decision puts on a decision d that cites snapshot s:     *)
(* ownership, time, a promotion verdict's evidence, and the superseded decision.  *)
Admissible(d, s) ==
    /\ s.version = d.version
    /\ d.at >= s.asOf /\ d.at >= s.generatedAt
    /\ d.verdict = "PROMOTE" => PromotionAllowed(s)
    /\ d.supersedes # None =>
         /\ decisions[d.supersedes] # None
         /\ decisions[d.supersedes].version = d.version
         /\ decisions[d.supersedes].at < d.at

(* CORRECT and REOPEN name the decision they supersede, the other actions none.  *)
AppendDecision(id, v, verdict, s, t, supersedes) ==
    LET d == [version |-> v, verdict |-> verdict, snapshot |-> Body(s),
              at |-> t, supersedes |-> supersedes]
    IN /\ s \in snapshots
       /\ decisions[id] = None
       /\ Admissible(d, s)
       /\ decisions' = [decisions EXCEPT ![id] = d]
       /\ UNCHANGED <<created, registered, links, snapshots, reading>>

-----------------------------------------------------------------------------
(* seed_import: every version of the seed is registered and gets its initial     *)
(* decision on an empty snapshot at the seed's clock, or nothing is changed.     *)
EmptyAt(v, t) == [version |-> v, asOf |-> t, links |-> {}, generatedAt |-> t]
Stored(v, t) ==
    IF \E x \in snapshots : Body(x) = Body(EmptyAt(v, t))
    THEN CHOOSE x \in snapshots : Body(x) = Body(EmptyAt(v, t)) ELSE EmptyAt(v, t)

SeedDecision(v, verdict, t) ==
    [version |-> v, verdict |-> verdict, snapshot |-> Body(EmptyAt(v, t)),
     at |-> t, supersedes |-> None]

(* A seed imported before is left alone if its decision and its snapshot are     *)
(* the ones it would make; otherwise no evidence may be linked by the seed's     *)
(* clock, and the decision must pass the checks of append_decision.              *)
SeedAccepted(v, verdict, t) ==
    IF decisions[SeedOf[v]] # None
    THEN /\ decisions[SeedOf[v]] = SeedDecision(v, verdict, t)
         /\ EmptyAt(v, t) \in snapshots
    ELSE /\ created[v] # None => created[v] <= t
         /\ LinksAsOf(v, t) = {}
         /\ Admissible(SeedDecision(v, verdict, t), Stored(v, t))

SeedImport(seed, verdict, t) ==
    LET new == {v \in seed : decisions[SeedOf[v]] = None}
    IN /\ \A v \in seed : SeedAccepted(v, verdict, t)
       /\ new # {}
       /\ created' = [v \in Version |->
                        IF v \in seed /\ created[v] = None THEN t ELSE created[v]]
       /\ decisions' = [d \in Decision |->
                        IF \E v \in new : SeedOf[v] = d
                        THEN SeedDecision(CHOOSE v \in new : SeedOf[v] = d, verdict, t)
                        ELSE decisions[d]]
       /\ snapshots' = snapshots \cup {Stored(v, t) : v \in new}
       /\ UNCHANGED <<registered, links, reading>>

Entries ==
    Cardinality({l \in DOMAIN links : links[l] # None}) + Cardinality(snapshots)
      + Cardinality({d \in Decision : decisions[d] # None})
      + Cardinality({w \in Writer : reading[w] # None})

EvidenceNext ==
    /\ \/ \E v \in Version, t \in Clock : RegisterHypothesis(v, t)
       \/ \E e \in Evidence, t \in Clock : AddEvidence(e, t)
       \/ \E v \in Version, e \in Evidence, g \in Grade, t \in Clock :
             LinkEvidence(v, e, g, t)
       \/ \E w \in Writer, v \in Version, t \in Clock, g \in Clock : ReadForSnapshot(w, v, t, g)
       \/ \E w \in Writer : StoreSnapshot(w) \/ LoseSnapshot(w)
       \/ \E id \in Decision, v \in Version, o \in Verdict, s \in snapshots,
             t \in Clock, d \in Decision \cup {None} : AppendDecision(id, v, o, s, t, d)
       \/ \E seed \in SUBSET Version, t \in Clock, o \in Verdict :
             SeedImport(seed, o, t)
    /\ Entries' <= MaxEntries

-----------------------------------------------------------------------------
Made == {d \in Decision : decisions[d] # None}

(* The current state show_hypothesis derives: the last decision by event_at, ties *)
(* by id, over all versions of the hypothesis.                                    *)
Before(c, d) == decisions[c].at < decisions[d].at \/ (decisions[c].at = decisions[d].at /\ c < d)
Current(h) ==
    LET own == {d \in Made : HypothesisOf[decisions[d].version] = h}
    IN IF own = {} THEN None ELSE CHOOSE d \in own : \A c \in own \ {d} : Before(c, d)

(* A promotion rests on evidence of its own hypothesis version that is on record, *)
(* was linked and registered before the decision's time, is not literature alone  *)
(* and carries no failed integrity grade - whatever was linked, snapshot or        *)
(* decided in between, and with whatever clocks (repository.py:586-737).           *)
PromotionsRestOnEvidence ==
    \A d \in Made : decisions[d].verdict = "PROMOTE" =>
        LET s == decisions[d].snapshot IN
        /\ \E l \in s.links : l.evidence \notin Literature
        /\ \A l \in s.links :
             /\ links[<<decisions[d].version, l.evidence>>] = [grade |-> "PASS", at |-> l.at]
             /\ created[decisions[d].version] <= l.at
             /\ registered[l.evidence] <= l.at /\ l.at <= s.asOf
        /\ s.asOf <= decisions[d].at

(* A decision that was corrected or reopened is never the current state, though   *)
(* decisions may be appended with any earlier time (repository.py:653-658, 830).  *)
SupersededIsNotCurrent ==
    \A d \in Made : decisions[d].supersedes # None =>
        Current(HypothesisOf[decisions[d].version]) # decisions[d].supersedes

(* Decisions stand on what was on record before them and fall only by their own   *)
(* corrections: both of the above, in one history of appends.                     *)
DecisionsStand == PromotionsRestOnEvidence /\ SupersededIsNotCurrent
====
