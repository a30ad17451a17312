-------------------------- MODULE EntityResolution --------------------------
(***************************************************************************)
(* civic_entity_resolution.resolve, the ladder of lookups that turns a     *)
(* name into a canonical id, and LiveEntityResolver, which runs it for the *)
(* slots of a claim and falls back to a CONTAINS query.                    *)
(*                                                                         *)
(* Names[m] is what the stores answer about the mention m, for the kind of *)
(* the slot it stands in:                                                  *)
(*   hebrew    the mention has a Hebrew letter                             *)
(*   exact     ids of the nodes with that normalized hebrew_name           *)
(*   alias     rows [id, score] of entity_aliases, in its own locale       *)
(*   translit  the same for its transliteration                            *)
(*   fuzzy     [id, score] of the nodes that score at least 60             *)
(*   contains  ids of the nodes with a name that contains the mention      *)
(* The fuzzy step looks at the first ScanLimit nodes of the label, in an   *)
(* order that Neo4j does not promise: a scan is the set of nodes it saw.   *)
(***************************************************************************)
EXTENDS Claims

CONSTANTS
  Nodes,       \* the canonical ids
  Names,       \* Names[m]: what the stores know of the mention m
  ScanLimit    \* LIMIT 500 of _lookup_fuzzy

Scores == 0..100

Hit == [id : Nodes, score : Scores]

Name == [hebrew : BOOLEAN, exact : SUBSET Nodes, alias : SUBSET Hit,
         translit : SUBSET Hit, fuzzy : SUBSET Hit, contains : SUBSET Nodes]

ASSUME NamesAssumption == \A m \in DOMAIN Names : Names[m] \in Name
ASSUME MentionAssumption == DOMAIN Names \cap (Nodes \cup {None}) = {}
ASSUME NodesAssumption == None \notin Nodes /\ IsFiniteSet(Nodes)
\* The name of a node that the exact lookup finds is the normalized mention, and
\* normalizing it again changes nothing: its ratio is 100.
ASSUME FuzzyAssumption ==
  \A m \in DOMAIN Names : Names[m].hebrew =>
    \A x \in Names[m].exact : [id |-> x, score |-> 100] \in Names[m].fuzzy
ASSUME ScanAssumption == ScanLimit \in Nat \ {0}

FuzzyResolveThreshold == 88
FuzzyMargin           == 7

\* What a fuzzy scan can have seen.
Scans == {S \in SUBSET Nodes : \/ S = Nodes
                               \/ Cardinality(S) = ScanLimit}

\* Faulty: two nodes with the name, and the first one is taken.
ExactHits_First(n) ==
  IF n.exact = {} THEN {} ELSE {[id |-> CHOOSE x \in n.exact : TRUE, score |-> 95]}

\* Step 2: LIMIT 2, and two rows are as good as none.
ExactHits(n) ==
  {[id |-> x, score |-> 95] : x \in {y \in n.exact : n.exact = {y} /\ n.hebrew}}

\* Step 4 is for Hebrew mentions; it costs ten points.
TranslitHits(n) ==
  {[id |-> h.id, score |-> IF h.score > 10 THEN h.score - 10 ELSE 0] :
     h \in {g \in n.translit : n.hebrew}}

FuzzyHits(n, scan) == {h \in n.fuzzy : h.id \in scan}

\* Whether the ladder gets as far as the aliases, which are in Postgres.
NeedsAliases(n) == ExactHits(n) = {}

\* The hits of the first step that has any, and that step.
Ladder(n, scan) ==
  IF ExactHits(n) # {} THEN [step |-> 2, hits |-> ExactHits(n)]
  ELSE IF n.alias # {} THEN [step |-> 3, hits |-> n.alias]
  ELSE IF TranslitHits(n) # {} THEN [step |-> 4, hits |-> TranslitHits(n)]
  ELSE [step |-> 5, hits |-> FuzzyHits(n, scan)]

\* The fuzzy hit that clears the threshold and leads by the margin, if any.
ClearWinner(hits) ==
  {h \in hits : /\ h.score >= FuzzyResolveThreshold
                /\ \A g \in hits \ {h} : h.score - g.score >= FuzzyMargin}

Resolution(status, id) == [status |-> status, id |-> id]

\* resolve, without the tiebreaker that no caller passes.
Resolve(n, scan) ==
  LET found == Ladder(n, scan)
      ids   == {h.id : h \in found.hits}
      clear == IF found.step = 5 THEN ClearWinner(found.hits) ELSE {}
  IN IF ids = {} THEN Resolution("unresolved", None)
     ELSE IF Cardinality(ids) = 1
          THEN Resolution("resolved", CHOOSE x \in ids : TRUE)
     ELSE IF clear # {} THEN Resolution("resolved", (CHOOSE h \in clear : TRUE).id)
     ELSE Resolution("ambiguous", None)

\* _fallback_resolve: exactly one node whose name contains the mention.
WithFallback(n, scan) ==
  LET found == Resolve(n, scan)
  IN IF found.status = "resolved" THEN found
     ELSE IF Cardinality(n.contains) = 1
          THEN Resolution("resolved", CHOOSE x \in n.contains : TRUE)
     ELSE found

\* _SLOT_TO_KIND, the slots that hold the name of an entity.
EntitySlots == {"speaker_person_id", "target_person_id", "bill_id",
                "committee_id", "office_id", "party_id",
                "government_decision_id"}

Mentioned(slots) == {s \in EntitySlots : slots[s] # None}

\* LiveEntityResolver.resolve raises as a whole when one lookup does: Neo4j
\* is asked for every slot, Postgres when the ladder reaches the aliases, and
\* resolve knows no kind "government_decision".
ResolverRaises(slots, neo4j, postgres) ==
  \/ slots["government_decision_id"] # None
  \/ Mentioned(slots) # {} /\ ~neo4j
  \/ ~postgres /\ \E s \in Mentioned(slots) : NeedsAliases(Names[slots[s]])

\* Resolved slots and their statuses.
Resolved(status, ids) == [status |-> status, ids |-> ids]

LiveResolve(slots, scan) ==
  Resolved([s \in SlotNames |->
              IF s \in Mentioned(slots)
              THEN WithFallback(Names[slots[s]], scan).status
              ELSE "not_applicable"],
           [s \in SlotNames |->
              IF s \in Mentioned(slots)
                 /\ WithFallback(Names[slots[s]], scan).status = "resolved"
              THEN WithFallback(Names[slots[s]], scan).id
              ELSE slots[s]])

\* _resolve when the resolver raised: no statuses, and the names as they are.
Unresolved(slots) == Resolved([s \in SlotNames |-> "not_applicable"], slots)

\* _resolve without a resolver: every slot that is there passes for resolved.
OfflineResolve(slots) ==
  Resolved([s \in SlotNames |->
              IF slots[s] # None THEN "resolved" ELSE "not_applicable"], slots)
=============================================================================
