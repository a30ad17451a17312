------------------------------- MODULE Verdict ------------------------------
(***************************************************************************)
(* civic_retrieval and civic_verification without their stores: what the   *)
(* graph templates select, the scores of a piece of evidence, the          *)
(* confidence of a claim, its verdict, and the relation of a declaration   *)
(* to the record.                                                          *)
(*                                                                         *)
(* Evidence is a set of records of one shape, graph rows and text spans:   *)
(*   kind    "graph" or "lexical"                                          *)
(*   key     its place in the stable order of the reranker                 *)
(*   type    claim_type of the template that returned the row              *)
(*   nodes   node_ids of a row, by slot name; None for a slot it lacks     *)
(*   from, to  the days a fact holds between; at: occurred_at/captured_at  *)
(*   docs    the source documents cited                                    *)
(*   tier    source_tier                                                   *)
(*   text    a span's text: "empty", "short" (< 160) or "long"             *)
(*   about   the statements a search finds the span for                    *)
(*   value   vote_value or presence; seats, passed: of an election result  *)
(* Scores are in hundredths, so a weighted sum is in ten-thousandths: every*)
(* product is a whole number, and round(x, 4) changes none of them.        *)
(***************************************************************************)
EXTENDS Claims

-----------------------------------------------------------------------------
(* Graph retrieval. *)

\* The slots whose nodes a template matches.
Anchors(type) ==
  CASE type \in {"vote_cast", "bill_sponsorship"} ->
         {"speaker_person_id", "bill_id"}
    [] type = "office_held" -> {"speaker_person_id", "office_id"}
    [] type \in {"committee_membership", "committee_attendance"} ->
         {"speaker_person_id", "committee_id"}
    [] type = "statement_about_formal_action" -> {"speaker_person_id"}
    [] type = "election_result" -> {"party_id"}
    [] type = "government_decision" -> {"government_decision_id"}

\* The templates whose text names $time_start and $time_end.
Timed == ClaimTypes \ {"bill_sponsorship", "statement_about_formal_action"}

\* Neo4j refuses a query one of whose parameters was not sent.  _retrieve
\* sends every slot, but a bound of the time scope only when there is one,
\* and nobody sends $decision_number.
Refused(type, scope) ==
  \/ type \in Timed /\ (scope.start = None \/ scope.end = None)
  \/ type = "government_decision"

\* The rows of infra/neo4j/retrieval/<type>.cypher; their LIMITs are left out.
GraphRows(facts, type, ids, scope) ==
  {f \in facts :
     /\ f.type = type
     /\ \A s \in Anchors(type) : f.nodes[s] = ids[s]
     /\ type \in Timed =>
          /\ f.to = None \/ scope.start <= f.to
          /\ f.from <= scope.end}

-----------------------------------------------------------------------------
(* The reranker and the confidence rubric. *)

Weight == [source |-> 30, directness |-> 25, temporal |-> 20, entity |-> 15,
           cross |-> 10]

SourceScore(e) ==
  CASE e.tier = 1 -> 100 [] e.tier = 2 -> 60 [] e.tier = 3 -> 30 [] OTHER -> 10

DirectnessScore(e, type) ==
  CASE e.kind = "graph" -> IF e.type = type THEN 100 ELSE 60
    [] e.text = "empty" -> 0
    [] e.text = "short" -> 75
    [] OTHER -> 50

Outside(day, scope) == \/ scope.start # None /\ day < scope.start
                       \/ scope.end # None /\ day > scope.end

TemporalScore(e, scope) ==
  IF e.kind = "graph"
  THEN IF e.at = None THEN 60 ELSE IF Outside(e.at, scope) THEN 20 ELSE 100
  ELSE IF e.at = None THEN 50 ELSE IF Outside(e.at, scope) THEN 40 ELSE 80

\* resolved_ids leaves the empty slots out.
EntityScore(e, ids) ==
  LET given == {s \in SlotNames : ids[s] # None}
      hits  == Cardinality({s \in given : e.nodes[s] = ids[s]})
  IN IF given = {} THEN 50
     ELSE IF e.kind = "lexical" THEN 60
     ELSE IF hits = 0 THEN 20
     ELSE IF hits = 1 THEN 75 ELSE 100

CrossScore(E) ==
  LET n == Cardinality(UNION {e.docs : e \in E})
  IN IF n <= 1 THEN 30 ELSE IF n = 2 THEN 70 ELSE 100

\* A query is what decide_verdict and rerank are told of a claim.
OverallOf(e, q, E) ==
  Weight.source * SourceScore(e) + Weight.directness * DirectnessScore(e, q.type)
  + Weight.temporal * TemporalScore(e, q.scope)
  + Weight.entity * EntityScore(e, q.ids) + Weight.cross * CrossScore(E)

\* rerank sorts by falling score, then by the stable key; top_k of them go
\* into the provenance bundle.
TopEvidence(q, E, k) ==
  LET ahead(f, e) == \/ OverallOf(f, q, E) > OverallOf(e, q, E)
                     \/ OverallOf(f, q, E) = OverallOf(e, q, E) /\ f.key < e.key
  IN {e \in E : Cardinality({f \in E : ahead(f, e)}) < k}

\* The best of a set of scores; 0 of none.
Best(S) == IF S = {} THEN 0 ELSE CHOOSE x \in S : \A y \in S : y <= x

\* compute_confidence: the best of each axis, over all the evidence.
Confidence(q, E) ==
  Weight.source * Best({SourceScore(e) : e \in E})
  + Weight.directness * Best({DirectnessScore(e, q.type) : e \in E})
  + Weight.temporal * Best({TemporalScore(e, q.scope) : e \in E})
  + Weight.entity * Best({EntityScore(e, q.ids) : e \in E})
  + Weight.cross * Best({CrossScore(E) : e \in E})

-----------------------------------------------------------------------------
(* The verdict engine. *)

AbstainOverall     == 4500
HumanReviewOverall == 6200

GraphHits(q, E)   == {e \in E : e.kind = "graph" /\ e.type = q.type}
LexicalHits(E)    == {e \in E : e.kind = "lexical"}

\* Faulty: no vote on record is read as "did not vote so".
VoteCast_NoAbstain(q, hits) ==
  LET recorded == {e.value : e \in hits}
  IN IF recorded = {q.vote} THEN "supported"
     ELSE IF q.vote \in recorded THEN "mixed"
     ELSE "contradicted"

VoteCast(q, hits) ==
  LET recorded == {e.value : e \in hits}
  IN IF hits = {} THEN "insufficient_evidence"
     ELSE IF q.vote = None \/ recorded = {q.vote} THEN "supported"
     ELSE IF q.vote \in recorded THEN "mixed"
     ELSE "contradicted"

\* One row that agrees on everything the claim says is enough.
ElectionResult(q, hits) ==
  LET agrees(e) == /\ q.seats # None => e.seats = q.seats
                   /\ q.passed # None => e.passed = q.passed
  IN IF hits = {} THEN "insufficient_evidence"
     ELSE IF \E e \in hits : agrees(e) THEN "supported" ELSE "contradicted"

GovernmentDecision(q, hits) ==
  LET agrees(e) == \/ q.decision = None
                   \/ e.nodes["government_decision_id"] = q.decision
  IN IF hits = {} THEN "insufficient_evidence"
     ELSE IF \E e \in hits : agrees(e) THEN "supported" ELSE "contradicted"

CommitteeAttendance(hits) ==
  IF hits = {} THEN "insufficient_evidence"
  ELSE IF \E e \in hits : e.value = "present" THEN "supported"
  ELSE "contradicted"

\* bill_sponsorship, office_held, committee_membership: a span will do.
Corroborated(hits, spans) ==
  IF hits # {} \/ spans # {} THEN "supported" ELSE "insufficient_evidence"

\* statement_about_formal_action: spans alone are counted.
SpanCount(spans) ==
  IF Cardinality(spans) >= 2 THEN "supported"
  ELSE IF Cardinality(spans) = 1 THEN "mixed"
  ELSE "insufficient_evidence"

Compare(q, E) ==
  LET hits == GraphHits(q, E)
  IN CASE q.type = "vote_cast" -> VoteCast(q, hits)
       [] q.type = "election_result" -> ElectionResult(q, hits)
       [] q.type = "government_decision" -> GovernmentDecision(q, hits)
       [] q.type = "committee_attendance" -> CommitteeAttendance(hits)
       [] q.type \in {"bill_sponsorship", "office_held", "committee_membership"}
            -> Corroborated(hits, LexicalHits(E))
       [] OTHER -> SpanCount(LexicalHits(E))

\* decide_verdict: the status.
VerdictStatus(q, checkability, E) ==
  IF checkability # "checkable" THEN "non_checkable"
  ELSE IF E = {} \/ Confidence(q, E) < AbstainOverall
       THEN "insufficient_evidence"
  ELSE Compare(q, E)

\* decide_verdict: needs_human_review.
NeedsReview(q, checkability, E) ==
  LET status == VerdictStatus(q, checkability, E)
      hits   == GraphHits(q, E)
  IN IF checkability # "checkable"
     THEN checkability = "insufficient_entity_resolution"
     ELSE \/ E = {}
          \/ Confidence(q, E) < HumanReviewOverall
          \/ status = "mixed"
          \/ /\ status = "contradicted"
             /\ hits # {} /\ \A e \in hits : e.tier # 1

Statuses == {"supported", "contradicted", "mixed", "insufficient_evidence",
             "non_checkable"}

\* maybe_open_conflict_task: any Tier-1 evidence counts, a span's too.
IsConflict(status, E) == status = "mixed" /\ \E e \in E : e.tier = 1

-----------------------------------------------------------------------------
(* The relation of a declaration to the record. *)

\* RELATION_PRIORITY, the worst first.
RelationPriority ==
  <<"contradicted_by", "entity_ambiguous", "time_scope_mismatch",
    "not_checkable_against_record", "overstates", "underspecifies",
    "supported_by">>

Relations == {RelationPriority[i] : i \in DOMAIN RelationPriority}

\* determine_relation.  No reason of a contradicted verdict names a time
\* scope, so the test for one never succeeds and is left out.
RelationOf(status, checkability, lexicalHits) ==
  CASE status = "supported" -> "supported_by"
    [] status = "contradicted" -> "contradicted_by"
    [] status = "mixed" ->
         IF lexicalHits = 1 THEN "underspecifies" ELSE "overstates"
    [] /\ status = "non_checkable"
       /\ checkability = "insufficient_entity_resolution" -> "entity_ambiguous"
    [] /\ status = "non_checkable"
       /\ checkability = "insufficient_time_scope" -> "time_scope_mismatch"
    [] OTHER -> "not_checkable_against_record"

\* Faulty: the priorities are read the wrong way round.
WorstRelation_Mildest(relations) ==
  IF relations = {} THEN "not_checkable_against_record"
  ELSE RelationPriority[CHOOSE i \in DOMAIN RelationPriority :
         /\ RelationPriority[i] \in relations
         /\ \A j \in DOMAIN RelationPriority :
              RelationPriority[j] \in relations => j <= i]

WorstRelation(relations) ==
  IF relations = {} THEN "not_checkable_against_record"
  ELSE RelationPriority[CHOOSE i \in DOMAIN RelationPriority :
         /\ RelationPriority[i] \in relations
         /\ \A j \in DOMAIN RelationPriority :
              RelationPriority[j] \in relations => i <= j]

\* The relations that ask for a review task.
ReviewTriggers == {"overstates", "underspecifies", "time_scope_mismatch",
                   "entity_ambiguous", "contradicted_by"}
=============================================================================
