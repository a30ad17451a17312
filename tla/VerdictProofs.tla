---------------------------- MODULE VerdictProofs ----------------------------
(***************************************************************************)
(* What a verdict can and cannot come from, for any statements, names,     *)
(* rows and spans: the claims of a statement are those of its matches, a   *)
(* contradiction rests on a row about resolved nodes, and a verdict that   *)
(* part of the stores had a say in is one that all of them come to, an     *)
(* abstention, or support by text under a name that is not resolved.       *)
(* Nothing here speaks of a step: ClaimPipelineProofs carries these facts  *)
(* through the requests.                                                   *)
(***************************************************************************)
EXTENDS ClaimPipeline, TLAPS, FiniteSetTheorems, SequenceTheorems, WellFoundedInduction

-----------------------------------------------------------------------------
(* The best of a set of scores. *)

ScoreSet == {0, 10, 20, 30, 40, 50, 60, 70, 75, 80, 100}

\* A set of scores has a greatest.
LEMMA BestExists ==
  ASSUME NEW S \in SUBSET ScoreSet, S # {}
  PROVE  \E x \in S : \A y \in S : y <= x
<1>1. CASE 100 \in S
  BY <1>1 DEF ScoreSet
<1>2. CASE 100 \notin S /\ 80 \in S
  BY <1>2 DEF ScoreSet
<1>3. CASE S \cap {80, 100} = {} /\ 75 \in S
  BY <1>3 DEF ScoreSet
<1>4. CASE S \cap {75, 80, 100} = {} /\ 70 \in S
  BY <1>4 DEF ScoreSet
<1>5. CASE S \cap {70, 75, 80, 100} = {} /\ 60 \in S
  BY <1>5 DEF ScoreSet
<1>6. CASE S \cap {60, 70, 75, 80, 100} = {}
  <2>1. S \subseteq {0, 10, 20, 30, 40, 50}
    BY <1>6 DEF ScoreSet
  <2>2. CASE S \cap {40, 50} # {}
    BY <2>1, <2>2
  <2>3. CASE S \cap {40, 50} = {}
    <3>1. S \subseteq {0, 10, 20, 30}
      BY <2>1, <2>3
    <3>2. CASE 30 \in S
      BY <3>1, <3>2
    <3>3. CASE 30 \notin S /\ 20 \in S
      BY <3>1, <3>3
    <3>4. CASE 30 \notin S /\ 20 \notin S
      <4>1. S \subseteq {0, 10}
        BY <3>1, <3>4
      <4>2. CASE 10 \in S
        BY <4>1, <4>2
      <4>3. CASE 10 \notin S
        <5>1. S = {0}
          BY <4>1, <4>3
        <5> QED BY <5>1
      <4> QED BY <4>2, <4>3
    <3> QED BY <3>2, <3>3, <3>4
  <2> QED BY <2>2, <2>3
<1> QED BY <1>1, <1>2, <1>3, <1>4, <1>5, <1>6

LEMMA BestIsGreatest ==
  ASSUME NEW S \in SUBSET ScoreSet, S # {}
  PROVE  Best(S) \in S /\ \A y \in S : y <= Best(S)
BY BestExists DEF Best

\* More scores have no lesser best.
LEMMA BestGrows ==
  ASSUME NEW S \in SUBSET ScoreSet, NEW T \in SUBSET S
  PROVE  Best(T) <= Best(S) /\ Best(T) \in ScoreSet /\ Best(S) \in ScoreSet
<1>1. CASE T = {}
  <2>1. Best(T) = 0
    BY <1>1 DEF Best
  <2>2. CASE S = {}
    BY <1>1, <2>1, <2>2 DEF ScoreSet
  <2>3. CASE S # {}
    <3>1. Best(S) \in ScoreSet
      BY <2>3, BestIsGreatest
    <3> QED BY <2>1, <3>1 DEF ScoreSet
  <2> QED BY <2>2, <2>3
<1>2. CASE T # {}
  <2>1. Best(T) \in T
    BY <1>2, BestIsGreatest
  <2>2. Best(S) \in S /\ \A y \in S : y <= Best(S)
    <3>1. S # {}
      BY <1>2
    <3> QED BY <3>1, BestIsGreatest
  <2> QED BY <2>1, <2>2
<1> QED BY <1>1, <1>2

-----------------------------------------------------------------------------
(* The confidence of part of the evidence. *)

LEMMA ScoresAreScores ==
  ASSUME NEW e, NEW q, NEW E
  PROVE  /\ SourceScore(e) \in ScoreSet
         /\ DirectnessScore(e, q.type) \in ScoreSet
         /\ TemporalScore(e, q.scope) \in ScoreSet
         /\ EntityScore(e, q.ids) \in ScoreSet
         /\ CrossScore(E) \in ScoreSet
<1>1. SourceScore(e) \in ScoreSet
  BY DEF SourceScore, ScoreSet
<1>2. DirectnessScore(e, q.type) \in ScoreSet
  BY DEF DirectnessScore, ScoreSet
<1>3. TemporalScore(e, q.scope) \in ScoreSet
  BY DEF TemporalScore, ScoreSet
<1>4. EntityScore(e, q.ids) \in ScoreSet
  BY DEF EntityScore, ScoreSet
<1>5. CrossScore(E) \in ScoreSet
  BY DEF CrossScore, ScoreSet
<1> QED BY <1>1, <1>2, <1>3, <1>4, <1>5

\* What a request can have found: finitely many rows and spans, each of which
\* cites finitely many documents.
Found(E) == IsFiniteSet(E) /\ \A e \in E : IsFiniteSet(e.docs)

LEMMA DocsFinite ==
  ASSUME NEW E, Found(E)
  PROVE  IsFiniteSet(UNION {e.docs : e \in E})
<1> DEFINE f == [e \in E |-> e.docs]
<1>1. f \in Surjection(E, {e.docs : e \in E})
  BY DEF Surjection
<1>2. IsFiniteSet({e.docs : e \in E})
  BY <1>1, FS_Surjection DEF Found
<1>3. \A T \in {e.docs : e \in E} : IsFiniteSet(T)
  BY DEF Found
<1> QED BY <1>2, <1>3, FS_UNION

\* Less evidence is corroborated no better.
LEMMA CrossGrows ==
  ASSUME NEW E, Found(E), NEW F \in SUBSET E
  PROVE  CrossScore(F) <= CrossScore(E)
<1>1. IsFiniteSet(UNION {e.docs : e \in E})
  BY DocsFinite
<1>2. UNION {e.docs : e \in F} \in SUBSET UNION {e.docs : e \in E}
  OBVIOUS
<1>3. Cardinality(UNION {e.docs : e \in F}) <= Cardinality(UNION {e.docs : e \in E})
  BY <1>1, <1>2, FS_Subset
<1>4. /\ Cardinality(UNION {e.docs : e \in F}) \in Nat
      /\ Cardinality(UNION {e.docs : e \in E}) \in Nat
  BY <1>1, <1>2, FS_Subset, FS_CardinalityType
<1> QED BY <1>3, <1>4 DEF CrossScore

\* Each axis counts its best score, so less evidence is trusted no better.
LEMMA ConfidenceGrows ==
  ASSUME NEW q, NEW E, Found(E), NEW F \in SUBSET E
  PROVE  /\ Confidence(q, F) \in Int /\ Confidence(q, E) \in Int
         /\ Confidence(q, F) <= Confidence(q, E)
<1>1. ASSUME NEW G
      PROVE  /\ {SourceScore(e) : e \in G} \in SUBSET ScoreSet
             /\ {DirectnessScore(e, q.type) : e \in G} \in SUBSET ScoreSet
             /\ {TemporalScore(e, q.scope) : e \in G} \in SUBSET ScoreSet
             /\ {EntityScore(e, q.ids) : e \in G} \in SUBSET ScoreSet
             /\ {CrossScore(G) : e \in G} \in SUBSET ScoreSet
  BY ScoresAreScores
<1>2. /\ {SourceScore(e) : e \in F} \in SUBSET {SourceScore(e) : e \in E}
      /\ {DirectnessScore(e, q.type) : e \in F}
           \in SUBSET {DirectnessScore(e, q.type) : e \in E}
      /\ {TemporalScore(e, q.scope) : e \in F}
           \in SUBSET {TemporalScore(e, q.scope) : e \in E}
      /\ {EntityScore(e, q.ids) : e \in F} \in SUBSET {EntityScore(e, q.ids) : e \in E}
  OBVIOUS
<1>3. ASSUME NEW S \in SUBSET ScoreSet, NEW T \in SUBSET S
      PROVE  Best(T) \in Int /\ Best(S) \in Int /\ Best(T) <= Best(S)
  BY BestGrows DEF ScoreSet
<1>4. /\ Best({CrossScore(F) : e \in F}) \in Int
      /\ Best({CrossScore(E) : e \in E}) \in Int
      /\ Best({CrossScore(F) : e \in F}) <= Best({CrossScore(E) : e \in E})
  <2>1. CASE F = {}
    <3>1. {CrossScore(F) : e \in F} \in SUBSET {CrossScore(E) : e \in E}
      BY <2>1
    <3> QED BY <1>1, <1>3, <3>1
  <2>2. CASE F # {}
    <3>1. {CrossScore(F) : e \in F} = {CrossScore(F)} /\ {CrossScore(E) : e \in E} = {CrossScore(E)}
      BY <2>2
    <3>2. Best({CrossScore(F)}) = CrossScore(F) /\ Best({CrossScore(E)}) = CrossScore(E)
      BY <1>1, <3>1, BestIsGreatest
    <3> QED BY <1>1, <1>3, <3>1, <3>2, CrossGrows
  <2> QED BY <2>1, <2>2
<1>5. /\ Best({SourceScore(e) : e \in F}) \in Int /\ Best({SourceScore(e) : e \in E}) \in Int
      /\ Best({SourceScore(e) : e \in F}) <= Best({SourceScore(e) : e \in E})
  BY <1>1, <1>2, <1>3
<1>6. /\ Best({DirectnessScore(e, q.type) : e \in F}) \in Int
      /\ Best({DirectnessScore(e, q.type) : e \in E}) \in Int
      /\ Best({DirectnessScore(e, q.type) : e \in F})
           <= Best({DirectnessScore(e, q.type) : e \in E})
  BY <1>1, <1>2, <1>3
<1>7. /\ Best({TemporalScore(e, q.scope) : e \in F}) \in Int
      /\ Best({TemporalScore(e, q.scope) : e \in E}) \in Int
      /\ Best({TemporalScore(e, q.scope) : e \in F})
           <= Best({TemporalScore(e, q.scope) : e \in E})
  BY <1>1, <1>2, <1>3
<1>8. /\ Best({EntityScore(e, q.ids) : e \in F}) \in Int
      /\ Best({EntityScore(e, q.ids) : e \in E}) \in Int
      /\ Best({EntityScore(e, q.ids) : e \in F}) <= Best({EntityScore(e, q.ids) : e \in E})
  BY <1>1, <1>2, <1>3
<1> QED BY <1>4, <1>5, <1>6, <1>7, <1>8 DEF Confidence, Weight

-----------------------------------------------------------------------------
(* The verdict on part of the evidence. *)

\* What either store can leave behind of its answer: all of it or nothing.
Parts(R, S) == {P \cup Q : P \in {R, {}}, Q \in {S, {}}}

LEMMA RetrievedIsFound ==
  ASSUME NEW c, NEW rs, NEW s
  PROVE  /\ Found(RowsFor(c, rs) \cup SpansFor(s))
         /\ \A e \in RowsFor(c, rs) : e \in Facts /\ e.kind = "graph"
         /\ \A e \in SpansFor(s) : e \in Spans /\ e.kind = "lexical"
<1>1. RowsFor(c, rs) \in SUBSET Facts
  BY DEF RowsFor, GraphRows
<1>2. SpansFor(s) \in SUBSET Spans
  BY DEF SpansFor
<1>3. IsFiniteSet(RowsFor(c, rs) \cup SpansFor(s))
  BY <1>1, <1>2, FactsAssumption, SpansAssumption, FS_Subset, FS_Union
<1> QED BY <1>1, <1>2, <1>3, FactsAssumption, SpansAssumption DEF Found

\* The comparison of a claim with part of the evidence comes to that with all
\* of it, or to an abstention.
LEMMA PartCompare ==
  ASSUME NEW q, NEW R, NEW S, NEW E \in Parts(R, S),
         \A e \in R : e.kind = "graph", \A e \in S : e.kind = "lexical"
  PROVE  Compare(q, E) \in {Compare(q, R \cup S), "insufficient_evidence"}
<1>1. \/ E = R \cup S \/ E = R \/ E = S \/ E = {}
  BY DEF Parts
<1>2. LexicalHits(R \cup S) = S /\ LexicalHits(S) = S /\ LexicalHits(R) = {}
  BY DEF LexicalHits
<1>3. GraphHits(q, R \cup S) = GraphHits(q, R) /\ GraphHits(q, S) = {}
  BY DEF GraphHits
<1>4. GraphHits(q, {}) = {} /\ LexicalHits({}) = {}
  BY DEF GraphHits, LexicalHits
<1>5. Cardinality({}) = 0
  BY FS_EmptySet
<1> DEFINE H == GraphHits(q, E)   L == LexicalHits(E)
<1>6. H \in {GraphHits(q, R), {}} /\ L \in {S, {}}
  BY <1>1, <1>2, <1>3, <1>4
<1> HIDE DEF H, L
<1>7. VoteCast(q, H) \in {VoteCast(q, GraphHits(q, R)), "insufficient_evidence"}
  BY <1>6 DEF VoteCast
<1>8. ElectionResult(q, H) \in {ElectionResult(q, GraphHits(q, R)), "insufficient_evidence"}
  BY <1>6 DEF ElectionResult
<1>9. GovernmentDecision(q, H)
        \in {GovernmentDecision(q, GraphHits(q, R)), "insufficient_evidence"}
  BY <1>6 DEF GovernmentDecision
<1>10. CommitteeAttendance(H)
        \in {CommitteeAttendance(GraphHits(q, R)), "insufficient_evidence"}
  BY <1>6 DEF CommitteeAttendance
<1>11. Corroborated(H, L) \in {Corroborated(GraphHits(q, R), S), "insufficient_evidence"}
  BY <1>6 DEF Corroborated
<1>12. SpanCount(L) \in {SpanCount(S), "insufficient_evidence"}
  BY <1>5, <1>6 DEF SpanCount
<1>13. Compare(q, E) =
         CASE q.type = "vote_cast" -> VoteCast(q, H)
           [] q.type = "election_result" -> ElectionResult(q, H)
           [] q.type = "government_decision" -> GovernmentDecision(q, H)
           [] q.type = "committee_attendance" -> CommitteeAttendance(H)
           [] q.type \in {"bill_sponsorship", "office_held", "committee_membership"}
                -> Corroborated(H, L)
           [] OTHER -> SpanCount(L)
  BY Zenon DEF Compare, H, L
<1>14. Compare(q, R \cup S) =
         CASE q.type = "vote_cast" -> VoteCast(q, GraphHits(q, R))
           [] q.type = "election_result" -> ElectionResult(q, GraphHits(q, R))
           [] q.type = "government_decision" -> GovernmentDecision(q, GraphHits(q, R))
           [] q.type = "committee_attendance" -> CommitteeAttendance(GraphHits(q, R))
           [] q.type \in {"bill_sponsorship", "office_held", "committee_membership"}
                -> Corroborated(GraphHits(q, R), S)
           [] OTHER -> SpanCount(S)
  BY <1>2, <1>3 DEF Compare
<1> QED BY <1>7, <1>8, <1>9, <1>10, <1>11, <1>12, <1>13, <1>14

\* Whichever store failed, the verdict is that of all the evidence, or an
\* abstention.
LEMMA PartVerdict ==
  ASSUME NEW c, NEW rs, NEW s, NEW E \in Parts(RowsFor(c, rs), SpansFor(s))
  PROVE  VerdictOn(c, rs, E)
           \in {VerdictOn(c, rs, RowsFor(c, rs) \cup SpansFor(s)), "insufficient_evidence"}
<1> DEFINE q == Query(c, rs)   W == RowsFor(c, rs) \cup SpansFor(s)
<1>1. E \in SUBSET W
  BY DEF Parts
<1>2. /\ Confidence(q, E) \in Int /\ Confidence(q, W) \in Int
      /\ Confidence(q, E) <= Confidence(q, W)
  BY <1>1, ConfidenceGrows, RetrievedIsFound
<1>3. Compare(q, E) \in {Compare(q, W), "insufficient_evidence"}
  BY PartCompare, RetrievedIsFound
<1> QED BY <1>1, <1>2, <1>3 DEF VerdictOn, VerdictStatus, AbstainOverall

-----------------------------------------------------------------------------
(* The claims of a statement. *)

\* No rule template makes a statement_about_formal_action, the type that is
\* judged by counting spans.
RuleTypes == ClaimTypes \ {"statement_about_formal_action"}

Rules == [type : RuleTypes, language : Languages, needs : SUBSET Groups,
          may : SUBSET Groups, anchored : BOOLEAN, below : BOOLEAN]

LEMMA RulesAreRules ==
  ASSUME NEW k \in DOMAIN RuleTemplates
  PROVE  RuleTemplates[k].type \in RuleTypes
<1>1. ASSUME NEW type \in RuleTypes, NEW language \in Languages,
             NEW needs \in SUBSET Groups, NEW may \in SUBSET Groups
      PROVE  Rule(type, language, needs, may) \in Rules
  BY DEF Rule, Rules
<1>2. /\ {"vote_cast", "bill_sponsorship", "office_held", "committee_membership",
          "committee_attendance", "election_result", "government_decision"}
            \subseteq RuleTypes
      /\ {"he", "en"} \subseteq Languages
  BY DEF RuleTypes, ClaimTypes, Required, Languages
<1>3. /\ {"subject", "bill"} \in SUBSET Groups /\ {"vote_value", "time"} \in SUBSET Groups
      /\ {"time"} \in SUBSET Groups /\ {"subject", "office"} \in SUBSET Groups
      /\ {"subject", "committee"} \in SUBSET Groups
      /\ {"subject", "vote_value", "bill"} \in SUBSET Groups
      /\ {"party", "seats"} \in SUBSET Groups /\ {"party"} \in SUBSET Groups
      /\ {"decision_number"} \in SUBSET Groups /\ {} \in SUBSET Groups
  BY DEF Groups
<1>4. HebrewRules \in Seq(Rules)
  BY <1>1, <1>2, <1>3 DEF HebrewRules
<1>5. EnglishRules \in Seq(Rules)
  BY <1>1, <1>2, <1>3 DEF EnglishRules
<1>6. \A language \in Languages : BelowThreshold(language) \in Rules
  <2>1. TAKE language \in Languages
  <2>2. Rule("election_result", language, {"party"}, {"time"}) \in Rules
    BY <1>1, <1>2, <1>3
  <2> QED BY <2>2 DEF BelowThreshold, Rules
<1>7. ElectionRules \in Seq(Rules)
  BY <1>1, <1>2, <1>3, <1>6 DEF ElectionRules
<1>8. DecisionRules \in Seq(Rules)
  BY <1>1, <1>2, <1>3 DEF DecisionRules
<1>9. RuleTemplates \in Seq(Rules)
  BY <1>4, <1>5, <1>7, <1>8, ConcatProperties DEF RuleTemplates
<1>10. k \in 1 .. Len(RuleTemplates)
  BY <1>9, LenProperties
<1>11. RuleTemplates[k] \in Rules
  BY <1>9, <1>10, ElementOfSeq
<1> QED BY <1>11 DEF Rules

\* The matches of a statement.
MatchesOf(s) == Statements[s].matches

LEMMA MatchesAreLegal ==
  ASSUME NEW s \in DOMAIN Statements
  PROVE  /\ DOMAIN MatchesOf(s) = 1 .. Len(MatchesOf(s)) /\ Len(MatchesOf(s)) \in Nat
         /\ \A i \in DOMAIN MatchesOf(s) :
              /\ MatchesOf(s)[i].lo \in Nat /\ MatchesOf(s)[i].hi \in Nat
              /\ MatchesOf(s)[i].rule \in DOMAIN RuleTemplates
BY StatementsAssumption DEF LegalMatch, MatchesOf

\* The order of the matches is total, and strict.
LEMMA PrefersOrders ==
  ASSUME NEW s \in DOMAIN Statements, NEW i \in DOMAIN MatchesOf(s), NEW j \in DOMAIN MatchesOf(s)
  PROVE  /\ ~Prefers(MatchesOf(s), i, i)
         /\ i # j => Prefers(MatchesOf(s), i, j) \/ Prefers(MatchesOf(s), j, i)
         /\ \A k \in DOMAIN MatchesOf(s) :
              Prefers(MatchesOf(s), k, i) /\ Prefers(MatchesOf(s), i, j) => Prefers(MatchesOf(s), k, j)
<1>1. /\ i \in Int /\ j \in Int
      /\ \A k \in DOMAIN MatchesOf(s) : k \in Int /\ MatchesOf(s)[k].lo \in Int /\ MatchesOf(s)[k].hi \in Int
  BY MatchesAreLegal
<1> QED BY <1>1 DEF Prefers

\* The better of two matches has the lesser place.
LEMMA PlacesGrow ==
  ASSUME NEW s \in DOMAIN Statements, NEW V \in SUBSET DOMAIN MatchesOf(s)
  PROVE  /\ IsFiniteSet(V) /\ Cardinality(V) \in Nat
         /\ \A i \in V : Place(MatchesOf(s), V, i) \in 1 .. Cardinality(V)
         /\ \A i, j \in V : Prefers(MatchesOf(s), i, j) =>
              Place(MatchesOf(s), V, i) < Place(MatchesOf(s), V, j)
<1> DEFINE Ahead(i) == {j \in V : Prefers(MatchesOf(s), j, i)}
           N == Cardinality(V)
<1>1. IsFiniteSet(V) /\ N \in Nat
  <2>1. IsFiniteSet(DOMAIN MatchesOf(s))
    BY MatchesAreLegal, FS_Interval
  <2> QED BY <2>1, FS_Subset, FS_CardinalityType
<1>2. ASSUME NEW i \in V
      PROVE  /\ IsFiniteSet(Ahead(i)) /\ Cardinality(Ahead(i)) \in Nat
             /\ Cardinality(Ahead(i)) < N
  <2>1. Ahead(i) \in SUBSET V /\ i \notin Ahead(i)
    BY PrefersOrders
  <2>2. Ahead(i) # V
    BY <2>1
  <2> HIDE DEF Ahead
  <2> QED BY <1>1, <2>1, <2>2, FS_Subset, FS_CardinalityType
<1>3. ASSUME NEW i \in V, NEW j \in V, Prefers(MatchesOf(s), i, j)
      PROVE  Cardinality(Ahead(i)) < Cardinality(Ahead(j))
  <2>1. Ahead(i) \in SUBSET Ahead(j)
    BY <1>3, PrefersOrders
  <2>2. i \in Ahead(j) /\ i \notin Ahead(i)
    BY <1>3, PrefersOrders
  <2>3. IsFiniteSet(Ahead(j)) /\ Cardinality(Ahead(i)) \in Nat /\ Cardinality(Ahead(j)) \in Nat
    BY <1>2
  <2>4. Ahead(i) # Ahead(j)
    BY <2>2
  <2> HIDE DEF Ahead
  <2> QED BY <2>1, <2>3, <2>4, FS_Subset
<1>4. \A i \in V : Place(MatchesOf(s), V, i) = 1 + Cardinality(Ahead(i))
  BY DEF Place
<1> HIDE DEF Ahead, N
<1>5. ASSUME NEW i \in V PROVE Place(MatchesOf(s), V, i) \in 1 .. N
  BY <1>1, <1>2, <1>4
<1>6. ASSUME NEW i \in V, NEW j \in V, Prefers(MatchesOf(s), i, j)
      PROVE  Place(MatchesOf(s), V, i) < Place(MatchesOf(s), V, j)
  BY <1>2, <1>3, <1>4, <1>6
<1> QED BY <1>1, <1>5, <1>6 DEF N

\* Every place from 1 to the number of the valid matches is taken by one.
LEMMA EveryPlaceIsTaken ==
  ASSUME NEW s \in DOMAIN Statements, NEW V \in SUBSET DOMAIN MatchesOf(s),
         NEW n \in 1 .. Cardinality(V)
  PROVE  \E i \in V : Place(MatchesOf(s), V, i) = n
<1> DEFINE N == Cardinality(V)
           f == [i \in V |-> Place(MatchesOf(s), V, i)]
<1>1. IsFiniteSet(V) /\ N \in Nat
  BY PlacesGrow
<1>2. f \in [V -> 1 .. N]
  BY PlacesGrow
<1>3. ASSUME NEW i \in V, NEW j \in V, f[i] = f[j] PROVE i = j
  <2>1. /\ Place(MatchesOf(s), V, i) \in Nat /\ Place(MatchesOf(s), V, j) \in Nat
        /\ Place(MatchesOf(s), V, i) = Place(MatchesOf(s), V, j)
    BY <1>1, <1>3, PlacesGrow
  <2>2. ~Prefers(MatchesOf(s), i, j) /\ ~Prefers(MatchesOf(s), j, i)
    BY <2>1, PlacesGrow
  <2> QED BY <2>2, PrefersOrders
<1>4. f \in Injection(V, 1 .. N)
  BY <1>2, <1>3 DEF Injection, IsInjective
<1>5. IsFiniteSet(1 .. N) /\ Cardinality(1 .. N) = N
  BY <1>1, FS_Interval
<1>6. f \in Surjection(V, 1 .. N)
  <2> HIDE DEF f
  <2> QED BY <1>1, <1>4, <1>5, FS_Injection
<1>7. PICK i \in V : f[i] = n
  <2> HIDE DEF f
  <2> QED BY <1>6 DEF Surjection
<1> QED BY <1>7

-----------------------------------------------------------------------------
(* The choice among the matches. *)

Less == {ss \in Nat \X Nat : ss[1] < ss[2]}

\* A set of naturals that is not empty has a least: what the induction over
\* places rests on.
LEMMA Least ==
  ASSUME NEW T \in SUBSET Nat, T # {}
  PROVE  \E n \in T : \A k \in T : n <= k
<1>1. IsWellFoundedOn(Less, Nat)
  BY NatLessThanWellFounded, Zenon DEF OpToRel, Less
<1>2. PICK n \in T : \A k \in T : <<k, n>> \notin Less
  BY <1>1, WFMin
<1>3. ASSUME NEW k \in T PROVE n <= k
  <2>1. n \in Nat /\ k \in Nat /\ <<k, n>> \notin Less
    BY <1>2
  <2>2. ~(k < n)
    BY <2>1 DEF Less
  <2> QED BY <2>1, <2>2
<1> QED BY <1>3

\* The matches of a statement in a language.
Mine(s, language) ==
  {i \in DOMAIN MatchesOf(s) : RuleTemplates[MatchesOf(s)[i].rule].language = language}

\* Match i has no better one in K that overlaps it.
Free(s, K, i) ==
  \A j \in K : Prefers(MatchesOf(s), j, i) => ~Overlaps(MatchesOf(s)[j], MatchesOf(s)[i])

\* K is the greedy choice among the matches in M.
Greedy(s, M, K) == K \in SUBSET M /\ \A i \in M : i \in K <=> Free(s, K, i)

\* There is a greedy choice: place by place, a match is taken when none that was
\* taken before it overlaps it.
LEMMA GreedyExists ==
  ASSUME NEW s \in DOMAIN Statements, NEW M \in SUBSET DOMAIN MatchesOf(s)
  PROVE  \E K : Greedy(s, M, K)
<1> DEFINE place(i) == Place(MatchesOf(s), M, i)
           Upto(n) == {i \in M : place(i) <= n}
           Stuck == {n \in Nat : ~\E K : Greedy(s, Upto(n), K)}
<1>1. /\ Cardinality(M) \in Nat
      /\ \A i \in M : place(i) \in 1 .. Cardinality(M)
      /\ \A i, j \in M : Prefers(MatchesOf(s), i, j) => place(i) < place(j)
  BY PlacesGrow
<1>2. \A i \in M : place(i) \in Nat /\ place(i) > 0
  <2> HIDE DEF place
  <2> QED BY <1>1
<1> HIDE DEF place
<1>3. 0 \notin Stuck
  <2>1. Upto(0) = {}
    BY <1>2
  <2>2. Greedy(s, {}, {})
    BY DEF Greedy
  <2> QED BY <2>1, <2>2
<1>4. ASSUME NEW n \in Nat, n \notin Stuck PROVE n + 1 \notin Stuck
  <2>1. PICK K : Greedy(s, Upto(n), K)
    BY <1>4
  <2> DEFINE L == K \cup {i \in Upto(n + 1) : place(i) = n + 1 /\ Free(s, K, i)}
  <2>2. Upto(n) \subseteq Upto(n + 1) /\ K \subseteq Upto(n) /\ L \in SUBSET Upto(n + 1)
    BY <1>2, <2>1 DEF Greedy
  <2>3. ASSUME NEW i \in Upto(n + 1), NEW j \in L, Prefers(MatchesOf(s), j, i) PROVE j \in K
    <3>1. i \in M /\ j \in M /\ place(i) <= n + 1
      BY <2>2
    <3>2. place(j) < place(i) /\ place(i) \in Nat /\ place(j) \in Nat
      BY <1>1, <1>2, <2>3, <3>1
    <3>3. place(j) # n + 1
      BY <3>1, <3>2
    <3> QED BY <3>3
  <2>4. ASSUME NEW i \in Upto(n + 1) PROVE Free(s, L, i) <=> Free(s, K, i)
    <3> HIDE DEF L
    <3>1. K \subseteq L
      BY DEF L
    <3> QED BY <2>3, <2>4, <3>1 DEF Free
  <2>5. ASSUME NEW i \in Upto(n + 1) PROVE i \in L <=> Free(s, L, i)
    <3>1. CASE i \in Upto(n)
      <4>1. place(i) # n + 1
        BY <1>2, <3>1
      <4>2. i \in L <=> i \in K
        BY <4>1
      <4>3. i \in K <=> Free(s, K, i)
        BY <2>1, <3>1 DEF Greedy
      <4> QED BY <2>4, <2>5, <4>2, <4>3
    <3>2. CASE i \notin Upto(n)
      <4>1. i \notin K /\ place(i) = n + 1
        BY <1>2, <2>2, <2>5, <3>2
      <4>2. i \in L <=> Free(s, K, i)
        BY <2>5, <4>1
      <4> QED BY <2>4, <2>5, <4>2
    <3> QED BY <3>1, <3>2
  <2>6. Greedy(s, Upto(n + 1), L)
    <3> HIDE DEF L, Upto
    <3> QED BY <2>2, <2>5 DEF Greedy
  <2> HIDE DEF L
  <2> QED BY <2>6
<1> DEFINE N == Cardinality(M)
<1>5. N \notin Stuck
  <2> SUFFICES ASSUME Stuck # {} PROVE FALSE
    BY <1>1
  <2>1. Stuck \in SUBSET Nat
    OBVIOUS
  <2> HIDE DEF Stuck
  <2>2. PICK n \in Stuck : \A k \in Stuck : n <= k
    BY <2>1, Least
  <2>3. n \in Nat /\ n # 0
    BY <1>3, <2>1, <2>2
  <2>4. n - 1 \in Nat /\ (n - 1) + 1 = n /\ n - 1 \notin Stuck
    BY <2>2, <2>3
  <2> QED BY <1>4, <2>2, <2>4
<1>6. Upto(N) = M
  BY <1>1, <1>2
<1> HIDE DEF Upto, N
<1>7. \E K : Greedy(s, Upto(N), K)
  BY <1>1, <1>5 DEF N
<1> QED BY <1>6, <1>7

\* ... and only one: two of them differ first at a match, and up to it agree.
LEMMA GreedyIsOne ==
  ASSUME NEW s \in DOMAIN Statements, NEW M \in SUBSET DOMAIN MatchesOf(s),
         NEW K, Greedy(s, M, K), NEW L, Greedy(s, M, L)
  PROVE  K = L
<1> DEFINE place(i) == Place(MatchesOf(s), M, i)
           Differ == {i \in M : ~(i \in K <=> i \in L)}
           Places == {place(i) : i \in Differ}
<1>1. /\ \A i \in M : place(i) \in Nat
      /\ \A i, j \in M : Prefers(MatchesOf(s), i, j) => place(i) < place(j)
  <2>1. \A i \in M : place(i) \in 1 .. Cardinality(M) /\ Cardinality(M) \in Nat
    BY PlacesGrow
  <2>2. \A i \in M : place(i) \in Nat
    <3> HIDE DEF place
    <3> QED BY <2>1
  <2> QED BY <2>2, PlacesGrow
<1> HIDE DEF place
<1>2. Differ = {}
  <2> SUFFICES ASSUME Differ # {} PROVE FALSE
    OBVIOUS
  <2>1. Places \in SUBSET Nat /\ Places # {}
    BY <1>1
  <2>2. \E n \in Places : \A k \in Places : n <= k
    <3> HIDE DEF Places
    <3> QED BY <2>1, Least
  <2>3. PICK i \in Differ : \A j \in Differ : place(i) <= place(j)
    BY <2>2
  <2>4. ASSUME NEW j \in M, Prefers(MatchesOf(s), j, i) PROVE j \in K <=> j \in L
    <3>1. place(j) < place(i) /\ place(i) \in Nat /\ place(j) \in Nat
      BY <1>1, <2>3, <2>4
    <3>2. j \notin Differ
      BY <2>3, <3>1
    <3> QED BY <2>4, <3>2
  <2>5. K \in SUBSET M /\ L \in SUBSET M
    BY DEF Greedy
  <2>6. Free(s, K, i) <=> Free(s, L, i)
    <3> HIDE DEF Differ
    <3> QED BY <2>4, <2>5 DEF Free
  <2>7. i \in M /\ ~(i \in K <=> i \in L)
    BY <2>3
  <2> QED BY <2>6, <2>7 DEF Greedy
<1> QED BY <1>2 DEF Greedy

\* decompose's loop has one outcome, and Selected is it: of the matches of a
\* language those are kept that no better one overlaps which is kept.
THEOREM SelectionIsDetermined ==
  ASSUME NEW s \in DOMAIN Statements, NEW language \in Languages
  PROVE  /\ Greedy(s, Mine(s, language), Selected(MatchesOf(s), language))
         /\ \A K : Greedy(s, Mine(s, language), K) => K = Selected(MatchesOf(s), language)
<1> DEFINE ms == MatchesOf(s)
           M == Mine(s, language)
           IsKept(K) == \A i \in M : i \in K <=>
                          \A j \in K : Prefers(ms, j, i) => ~Overlaps(ms[j], ms[i])
<1>1. M \in SUBSET DOMAIN ms
  BY DEF Mine
<1>2. \A K : Greedy(s, M, K) <=> K \in SUBSET M /\ IsKept(K)
  BY Zenon DEF Greedy, Free
<1>3. Selected(ms, language) = CHOOSE K \in SUBSET M : IsKept(K)
  BY Zenon DEF Selected, Mine
<1>4. \E K \in SUBSET M : IsKept(K)
  <2> HIDE DEF IsKept, M
  <2> QED BY <1>1, <1>2, GreedyExists
<1> HIDE DEF IsKept, M
<1>5. Greedy(s, M, Selected(ms, language))
  <2>1. Selected(ms, language) \in SUBSET M /\ IsKept(Selected(ms, language))
    BY Zenon, <1>3, <1>4
  <2> QED BY <1>2, <2>1
<1>6. \A K : Greedy(s, M, K) => K = Selected(ms, language)
  BY <1>1, <1>5, GreedyIsOne
<1> QED BY <1>5, <1>6 DEF M

\* A claim that a statement can make.
IsClaim(c) ==
  \E s \in DOMAIN Statements : \E k \in DOMAIN MatchesOf(s) : c = ClaimOf(MatchesOf(s)[k])

\* Each claim is that of a valid match, the one of its place.
LEMMA ClaimsComeFrom ==
  ASSUME NEW s \in DOMAIN Statements, NEW language \in Languages
  PROVE  LET V == Valid(MatchesOf(s), language)
             C == ClaimsOf(s, language) IN
         /\ Cardinality(V) \in Nat /\ C = [n \in 1 .. Cardinality(V) |-> C[n]]
         /\ \A n \in 1 .. Cardinality(V) :
              \E k \in V : Place(MatchesOf(s), V, k) = n /\ C[n] = ClaimOf(MatchesOf(s)[k])
<1> DEFINE V == Valid(MatchesOf(s), language)
           N == Cardinality(V)
           C == ClaimsOf(s, language)
<1>1. V \in SUBSET DOMAIN MatchesOf(s)
  BY DEF Valid
<1>2. N \in Nat
  <2> HIDE DEF V
  <2> QED BY <1>1, PlacesGrow
<1>3. C = [n \in 1 .. N |-> ClaimOf(MatchesOf(s)[CHOOSE i \in V : Place(MatchesOf(s), V, i) = n])]
  <2>1. C = Decompose(MatchesOf(s), language)
    BY DEF ClaimsOf, Decomposed, MatchesOf
  <2>2. Decompose(MatchesOf(s), language)
          = [n \in 1 .. N |-> ClaimOf(MatchesOf(s)[CHOOSE i \in V : Place(MatchesOf(s), V, i) = n])]
    BY Zenon DEF Decompose
  <2> HIDE DEF C, N, V
  <2> QED BY Zenon, <2>1, <2>2
<1>4. ASSUME NEW n \in 1 .. N
      PROVE  \E k \in V : Place(MatchesOf(s), V, k) = n /\ C[n] = ClaimOf(MatchesOf(s)[k])
  <2>1. \E i \in V : Place(MatchesOf(s), V, i) = n
    BY <1>1, EveryPlaceIsTaken
  <2> DEFINE k == CHOOSE i \in V : Place(MatchesOf(s), V, i) = n
  <2> HIDE DEF V, N, C
  <2>2. k \in V /\ Place(MatchesOf(s), V, k) = n
    BY Zenon, <2>1
  <2>3. C[n] = ClaimOf(MatchesOf(s)[k])
    BY <1>3
  <2> HIDE DEF k
  <2> QED BY <2>2, <2>3
<1>5. C = [n \in 1 .. N |-> C[n]]
  <2> HIDE DEF V, N
  <2> QED BY <1>3
<1> QED BY <1>2, <1>4, <1>5

LEMMA ClaimsAreClaims ==
  ASSUME NEW s \in DOMAIN Statements, NEW language \in Languages
  PROVE  /\ Len(ClaimsOf(s, language)) \in Nat
         /\ DOMAIN ClaimsOf(s, language) = 1 .. Len(ClaimsOf(s, language))
         /\ \A i \in DOMAIN ClaimsOf(s, language) : IsClaim(ClaimsOf(s, language)[i])
<1> DEFINE V == Valid(MatchesOf(s), language)
           N == Cardinality(V)
           C == ClaimsOf(s, language)
<1>1. V \in SUBSET DOMAIN MatchesOf(s)
  BY DEF Valid
<1>2. /\ N \in Nat /\ C = [n \in 1 .. N |-> C[n]]
      /\ \A n \in 1 .. N : \E k \in V : C[n] = ClaimOf(MatchesOf(s)[k])
  BY ClaimsComeFrom
<1> HIDE DEF C, N, V
<1>3. ASSUME NEW n \in 1 .. N PROVE IsClaim(C[n])
  BY <1>1, <1>2 DEF IsClaim
<1>4. C \in Seq({C[n] : n \in 1 .. N})
  <2>1. C \in [1 .. N -> {C[n] : n \in 1 .. N}]
    BY <1>2
  <2> QED BY <1>2, <2>1
<1>5. Len(C) \in Nat /\ DOMAIN C = 1 .. Len(C)
  BY <1>4, LenProperties
<1>6. DOMAIN C = 1 .. N
  BY <1>2
<1>7. /\ Len(C) \in Nat /\ DOMAIN C = 1 .. Len(C)
      /\ \A i \in DOMAIN C : IsClaim(C[i])
  BY <1>3, <1>5, <1>6
<1> QED BY <1>7 DEF C

\* Two claims of a statement rest on separate stretches of it.
Apart(c, d) == c.span[2] <= d.span[1] \/ d.span[2] <= c.span[1]

LEMMA ClaimsAreApart ==
  ASSUME NEW s \in DOMAIN Statements, NEW language \in Languages,
         NEW i \in DOMAIN ClaimsOf(s, language), NEW j \in DOMAIN ClaimsOf(s, language), i # j
  PROVE  Apart(ClaimsOf(s, language)[i], ClaimsOf(s, language)[j])
<1> DEFINE ms == MatchesOf(s)
           V == Valid(ms, language)
           N == Cardinality(V)
           C == ClaimsOf(s, language)
           S == Selected(ms, language)
<1>1. /\ i \in 1 .. N /\ j \in 1 .. N
      /\ \A n \in 1 .. N : \E k \in V : Place(ms, V, k) = n /\ C[n] = ClaimOf(ms[k])
  <2>1. /\ C = [n \in 1 .. N |-> C[n]]
        /\ \A n \in 1 .. N : \E k \in V : Place(ms, V, k) = n /\ C[n] = ClaimOf(ms[k])
    BY ClaimsComeFrom
  <2> HIDE DEF C, N, V
  <2>2. DOMAIN C = 1 .. N
    BY <2>1
  <2> QED BY <2>1, <2>2 DEF C
<1>2. V \subseteq S /\ S \subseteq Mine(s, language) /\ V \subseteq DOMAIN ms
  BY SelectionIsDetermined DEF Valid, Greedy
<1> HIDE DEF C, N, V
<1>3. PICK k \in V : Place(ms, V, k) = i /\ C[i] = ClaimOf(ms[k])
  BY <1>1
<1>4. PICK l \in V : Place(ms, V, l) = j /\ C[j] = ClaimOf(ms[l])
  BY <1>1
<1>5. k # l /\ k \in DOMAIN ms /\ l \in DOMAIN ms
  BY <1>2, <1>3, <1>4
<1>6. ASSUME NEW a \in S, NEW b \in S, Prefers(ms, a, b) PROVE ~Overlaps(ms[a], ms[b])
  BY <1>2, <1>6, SelectionIsDetermined DEF Greedy, Free
<1>7. ~Overlaps(ms[k], ms[l]) \/ ~Overlaps(ms[l], ms[k])
  <2>1. Prefers(ms, k, l) \/ Prefers(ms, l, k)
    BY <1>5, PrefersOrders
  <2> QED BY <1>2, <1>6, <2>1
<1>8. C[i].span = <<ms[k].lo, ms[k].hi>> /\ C[j].span = <<ms[l].lo, ms[l].hi>>
  BY <1>3, <1>4 DEF ClaimOf
<1>9. Apart(C[i], C[j])
  BY <1>7, <1>8 DEF Apart, Overlaps
<1> QED BY <1>9 DEF C

\* The types a claim can have, and its names: what stands in a slot that is
\* resolved is a mention.
LEMMA ClaimShape ==
  ASSUME NEW c, IsClaim(c)
  PROVE  /\ c.type \in RuleTypes
         /\ \A s \in EntitySlots : c.slots[s] \in DOMAIN Names \cup {None}
<1>0. PICK s \in DOMAIN Statements : \E k \in DOMAIN MatchesOf(s) : c = ClaimOf(MatchesOf(s)[k])
  BY DEF IsClaim
<1>1. PICK k \in DOMAIN MatchesOf(s) : c = ClaimOf(MatchesOf(s)[k])
  BY <1>0
<1>2. c.type \in RuleTypes
  BY <1>1, MatchesAreLegal, RulesAreRules DEF ClaimOf
<1>3. c.slots = SlotsOf(MatchesOf(s)[k])
  BY <1>1 DEF ClaimOf
<1>4. ASSUME NEW x \in EntitySlots
      PROVE  c.slots[x] \in DOMAIN Names \cup {None}
  <2>1. \A g \in {"subject", "bill", "committee", "office", "party", "decision_number"} :
          MatchesOf(s)[k].groups[g] \in DOMAIN Names \cup {None}
    BY MentionsAssumption DEF MatchesOf
  <2> QED BY <1>3, <2>1 DEF SlotsOf, EntitySlots
<1> QED BY <1>2, <1>4

-----------------------------------------------------------------------------
(* What the resolver says. *)

\* What comes of asking a resolver: an answer, where it has one, or none.
Answered(c, rs) ==
  \/ /\ ~ResolverRaises(c.slots, TRUE, TRUE)
     /\ \E scan \in Scans : rs = LiveResolve(c.slots, scan)
  \/ rs = Unresolved(c.slots)

\* What a request can have been told of the names of a claim.
Told(c, rs) == Answered(c, rs) \/ rs = OfflineResolve(c.slots)

LEMMA AnchorsAreNamed ==
  ASSUME NEW type \in RuleTypes
  PROVE  Anchors(type) \subseteq Required[type] /\ Anchors(type) \subseteq EntitySlots
         /\ EntitySlots \subseteq SlotNames
<1>1. EntitySlots \subseteq SlotNames
  BY DEF EntitySlots, SlotNames
<1>2. Anchors(type) \subseteq Required[type] /\ Anchors(type) \subseteq EntitySlots
  BY DEF RuleTypes, ClaimTypes, Required, Anchors, EntitySlots
<1> QED BY <1>1, <1>2

\* A row that a checkable claim retrieved is about nodes that its names were
\* resolved to: a name that was not resolved is no node.
LEMMA RowsAreResolved ==
  ASSUME NEW c, IsClaim(c), NEW rs, Told(c, rs),
         CheckabilityOf(c, rs) = "checkable", NEW e \in RowsFor(c, rs)
  PROVE  /\ e \in Facts /\ e.type = c.type
         /\ \A s \in Anchors(e.type) : rs.status[s] = "resolved" /\ e.nodes[s] = rs.ids[s]
<1>1. e \in Facts /\ e.type = c.type /\ \A s \in Anchors(c.type) : e.nodes[s] = rs.ids[s]
  BY DEF RowsFor, GraphRows
<1>2. c.type \in RuleTypes
  BY ClaimShape
<1>3. ASSUME NEW s \in Anchors(c.type) PROVE rs.status[s] = "resolved"
  <2>1. s \in Required[c.type] /\ s \in EntitySlots /\ s \in SlotNames
    BY <1>2, AnchorsAreNamed
  <2>2. c.slots[s] # None
    BY <2>1 DEF CheckabilityOf, Classify, Violations
  <2>3. rs.status[s] \in {"resolved", "not_applicable"}
    BY <2>1 DEF CheckabilityOf, Classify
  <2>4. c.slots[s] \in DOMAIN Names
    BY <2>1, <2>2, ClaimShape
  <2>5. CASE rs.status[s] # "resolved"
    <3>1. CASE \E scan \in Scans : rs = LiveResolve(c.slots, scan)
      <4>1. PICK scan \in Scans : rs = LiveResolve(c.slots, scan)
        BY <3>1
      <4>2. rs.status[s] = WithFallback(Names[c.slots[s]], scan).status
        BY <2>1, <2>2, <4>1 DEF LiveResolve, Resolved, Mentioned
      <4>3. WithFallback(Names[c.slots[s]], scan).status # "not_applicable"
        BY DEF WithFallback, Resolve, Resolution
      <4> QED BY <2>3, <2>5, <4>2, <4>3
    <3>2. CASE rs = Unresolved(c.slots)
      <4>1. rs.ids[s] = c.slots[s]
        BY <3>2 DEF Unresolved, Resolved
      <4>2. e.nodes[s] \in Nodes \cup {None}
        BY <1>1, <2>1, FactsAssumption
      <4> QED BY <1>1, <2>4, <4>1, <4>2, MentionAssumption
    <3>3. CASE rs = OfflineResolve(c.slots)
      BY <2>1, <2>2, <2>5, <3>3 DEF OfflineResolve, Resolved
    <3> QED BY <3>1, <3>2, <3>3 DEF Told, Answered
  <2> QED BY <2>5
<1> QED BY <1>1, <1>3

\* A verdict against a person, or a mixed one, compares rows: spans alone
\* come at most to support, and that for three types.
LEMMA VerdictNeedsRows ==
  ASSUME NEW q, q.type \in RuleTypes, NEW E
  PROVE  /\ Compare(q, E) \in {"contradicted", "mixed"} => GraphHits(q, E) # {}
         /\ Compare(q, E) = "supported" =>
              \/ GraphHits(q, E) # {}
              \/ q.type \in TextWillDo /\ LexicalHits(E) # {}
<1>1. CASE q.type = "vote_cast"
  BY <1>1 DEF Compare, VoteCast
<1>2. CASE q.type = "election_result"
  BY <1>2 DEF Compare, ElectionResult
<1>3. CASE q.type = "government_decision"
  BY <1>3 DEF Compare, GovernmentDecision
<1>4. CASE q.type = "committee_attendance"
  BY <1>4 DEF Compare, CommitteeAttendance
<1>5. CASE q.type \in TextWillDo
  BY <1>5 DEF Compare, Corroborated, TextWillDo
<1>6. q.type \in TextWillDo \cup {"vote_cast", "election_result", "government_decision",
                                  "committee_attendance"}
  BY DEF RuleTypes, ClaimTypes, Required, TextWillDo
<1> QED BY <1>1, <1>2, <1>3, <1>4, <1>5, <1>6

\* VerdictRestsOnRecord, of one payload.
LEMMA BundleRestsOnRecord ==
  ASSUME NEW c, IsClaim(c), NEW rs, Told(c, rs), NEW s,
         NEW E \in Parts(RowsFor(c, rs), SpansFor(s)), NEW b, b = Bundle(c, rs, E)
  PROVE  /\ b.status \in {"contradicted", "mixed"} => RestsOnRow(b)
         /\ b.status = "supported" =>
              \/ RestsOnRow(b)
              \/ b.claim.type \in TextWillDo /\ LexicalHits(b.evidence) # {}
<1> DEFINE q == Query(c, rs)
<1>1. /\ b.claim = c /\ b.res = rs /\ b.evidence = E
      /\ b.status = VerdictStatus(q, CheckabilityOf(c, rs), E)
  BY DEF Bundle, VerdictOn
<1>2. q.type = c.type /\ c.type \in RuleTypes
  BY ClaimShape DEF Query
<1>3. SUFFICES ASSUME b.status \in {"contradicted", "mixed", "supported"}
               PROVE  /\ b.status \in {"contradicted", "mixed"} => RestsOnRow(b)
                      /\ b.status = "supported" =>
                           \/ RestsOnRow(b)
                           \/ b.claim.type \in TextWillDo /\ LexicalHits(b.evidence) # {}
  OBVIOUS
<1>4. CheckabilityOf(c, rs) = "checkable" /\ b.status = Compare(q, E)
  BY <1>1, <1>3 DEF VerdictStatus
<1>5. ASSUME GraphHits(q, E) # {} PROVE RestsOnRow(b)
  <2>1. PICK e \in E : e.kind = "graph"
    BY <1>5 DEF GraphHits
  <2>2. e \in RowsFor(c, rs)
    <3>1. e \in RowsFor(c, rs) \cup SpansFor(s)
      BY DEF Parts
    <3>2. e \in SpansFor(s) => e.kind = "lexical"
      BY RetrievedIsFound
    <3> QED BY <2>1, <3>1, <3>2
  <2>3. /\ e \in Facts /\ e.type = c.type
        /\ \A x \in Anchors(e.type) : rs.status[x] = "resolved" /\ e.nodes[x] = rs.ids[x]
    BY <1>4, <2>2, RowsAreResolved
  <2> QED BY <1>1, <2>1, <2>3 DEF RestsOnRow
<1>6. /\ Compare(q, E) \in {"contradicted", "mixed"} => GraphHits(q, E) # {}
      /\ Compare(q, E) = "supported" =>
           GraphHits(q, E) # {} \/ (q.type \in TextWillDo /\ LexicalHits(E) # {})
  <2> HIDE DEF q
  <2> QED BY <1>2, VerdictNeedsRows
<1> QED BY <1>1, <1>2, <1>4, <1>5, <1>6

-----------------------------------------------------------------------------
(* What an outage can make of a verdict. *)

\* Hits are of nodes, and so is what the resolver makes of them.
LEMMA ResolvedIsNode ==
  ASSUME NEW m \in DOMAIN Names, NEW scan \in Scans,
         WithFallback(Names[m], scan).status = "resolved"
  PROVE  WithFallback(Names[m], scan).id \in Nodes
<1> DEFINE n == Names[m]
           found == Ladder(n, scan)
           ids == {h.id : h \in found.hits}
           clear == IF found.step = 5 THEN ClearWinner(found.hits) ELSE {}
<1>1. /\ n.exact \in SUBSET Nodes /\ n.contains \in SUBSET Nodes
      /\ n.alias \in SUBSET Hit /\ n.translit \in SUBSET Hit /\ n.fuzzy \in SUBSET Hit
  BY NamesAssumption DEF Name
<1> HIDE DEF n
<1>2. \A h \in ExactHits(n) \cup n.alias \cup TranslitHits(n) \cup FuzzyHits(n, scan) :
        h.id \in Nodes
  BY <1>1 DEF ExactHits, TranslitHits, FuzzyHits, Hit
<1>3. \A h \in found.hits : h.id \in Nodes
  BY <1>2 DEF Ladder
<1>4. ids \in SUBSET Nodes /\ clear \subseteq found.hits
  BY <1>3 DEF ClearWinner
<1>5. \A s, i : Resolution(s, i).status = s /\ Resolution(s, i).id = i
  BY DEF Resolution
<1>6. Resolve(n, scan) =
        IF ids = {} THEN Resolution("unresolved", None)
        ELSE IF Cardinality(ids) = 1 THEN Resolution("resolved", CHOOSE x \in ids : TRUE)
        ELSE IF clear # {} THEN Resolution("resolved", (CHOOSE h \in clear : TRUE).id)
        ELSE Resolution("ambiguous", None)
  BY DEF Resolve
<1> HIDE DEF found, ids, clear
<1>7. Resolve(n, scan).status = "resolved" => Resolve(n, scan).id \in Nodes
  BY <1>3, <1>4, <1>5, <1>6
<1>8. Cardinality(n.contains) = 1 => (CHOOSE x \in n.contains : TRUE) \in Nodes
  <2>1. Cardinality({}) = 0
    BY FS_EmptySet
  <2> QED BY <1>1, <2>1
<1>9. WithFallback(n, scan).status = "resolved"
  BY DEF n
<1> QED BY <1>5, <1>7, <1>8, <1>9 DEF WithFallback, n

\* A slot that has a name has an id or the name, so a resolver fills no slot
\* and empties none.
LEMMA SlotsStayGiven ==
  ASSUME NEW c, IsClaim(c), NEW scan \in Scans, NEW s \in SlotNames
  PROVE  LiveResolve(c.slots, scan).ids[s] = None <=> c.slots[s] = None
<1> DEFINE sl == c.slots
           live == LiveResolve(sl, scan).ids
<1>1. live[s] = IF s \in Mentioned(sl) /\ WithFallback(Names[sl[s]], scan).status = "resolved"
                THEN WithFallback(Names[sl[s]], scan).id ELSE sl[s]
  BY DEF LiveResolve, Resolved
<1>2. ASSUME s \in Mentioned(sl), WithFallback(Names[sl[s]], scan).status = "resolved"
      PROVE  WithFallback(Names[sl[s]], scan).id # None /\ sl[s] # None
  <2>1. s \in EntitySlots /\ sl[s] # None
    BY <1>2 DEF Mentioned
  <2>2. sl[s] \in DOMAIN Names
    BY <2>1, ClaimShape
  <2>3. WithFallback(Names[sl[s]], scan).id \in Nodes
    BY <1>2, <2>2, ResolvedIsNode
  <2> QED BY <2>1, <2>3, NodesAssumption
<1> HIDE DEF live
<1> QED BY <1>1, <1>2 DEF live, sl

\* Text is as good a witness under the names as under the ids.
LEMMA TextScoresAlike ==
  ASSUME NEW c, IsClaim(c), NEW scan \in Scans, NEW S, \A e \in S : e.kind = "lexical"
  PROVE  Confidence(Query(c, LiveResolve(c.slots, scan)), S)
           = Confidence(Query(c, Unresolved(c.slots)), S)
<1> DEFINE q == Query(c, LiveResolve(c.slots, scan))
           q0 == Query(c, Unresolved(c.slots))
<1>1. /\ q.type = q0.type /\ q.scope = q0.scope
      /\ q.ids = LiveResolve(c.slots, scan).ids /\ q0.ids = c.slots
  BY DEF Query, Unresolved, Resolved
<1> HIDE DEF q, q0
<1>2. {s \in SlotNames : q.ids[s] # None} = {s \in SlotNames : q0.ids[s] # None}
  BY <1>1, SlotsStayGiven
<1>3. \A e \in S : EntityScore(e, q.ids) = EntityScore(e, q0.ids)
  BY <1>2 DEF EntityScore
<1>4. {EntityScore(e, q.ids) : e \in S} = {EntityScore(e, q0.ids) : e \in S}
  BY <1>3
<1>5. Confidence(q, S) = Confidence(q0, S)
  BY <1>1, <1>4 DEF Confidence
<1> QED BY <1>5 DEF q, q0

\* A resolver that leaves no name ambiguous or unknown is the mildest.
LEMMA MildestResolution ==
  ASSUME NEW c, c.type \in ClaimTypes, NEW rs,
         \A s \in SlotNames : rs.status[s] \in {"resolved", "not_applicable"},
         CheckabilityOf(c, rs) # "checkable", NEW other
  PROVE  CheckabilityOf(c, other) # "checkable"
<1>1. Required[c.type] \subseteq SlotNames
  BY DEF ClaimTypes, Required, SlotNames
<1> QED BY <1>1 DEF CheckabilityOf, Classify

\* There is a scan, and the resolver can be told what it finds.
LEMMA SomeResolution == ASSUME NEW c PROVE ResolutionsOf(c) # {}
<1>1. Nodes \in Scans
  BY DEF Scans
<1> QED BY <1>1 DEF ResolutionsOf

\* A claim that is not checkable under the mildest resolution is so whatever
\* the stores say.
LEMMA WholeAbstains ==
  ASSUME NEW c, NEW s, \A rs : CheckabilityOf(c, rs) # "checkable"
  PROVE  WholeVerdicts(c, s) = {"non_checkable"}
<1>1. \A rs, E : VerdictOn(c, rs, E) = "non_checkable"
  BY DEF VerdictOn, VerdictStatus
<1> QED BY <1>1, SomeResolution DEF WholeVerdicts

\* A resolver that raised leaves names, which are in no row.
LEMMA NoRowsUnresolved ==
  ASSUME NEW c, IsClaim(c), CheckabilityOf(c, Unresolved(c.slots)) = "checkable"
  PROVE  RowsFor(c, Unresolved(c.slots)) = {}
<1> DEFINE rs == Unresolved(c.slots)
<1>1. \A s \in SlotNames : rs.status[s] = "not_applicable"
  BY DEF Unresolved, Resolved
<1>2. Told(c, rs)
  BY DEF Told, Answered
<1>3. c.type \in RuleTypes
  BY ClaimShape
<1>4. Anchors(c.type) # {} /\ Anchors(c.type) \subseteq SlotNames
  <2>1. Anchors(c.type) # {}
    BY <1>3 DEF RuleTypes, ClaimTypes, Required, Anchors
  <2> QED BY <1>3, <2>1, AnchorsAreNamed
<1>5. ASSUME NEW e \in RowsFor(c, rs) PROVE FALSE
  <2>1. e.type = c.type /\ \A s \in Anchors(e.type) : rs.status[s] = "resolved"
    BY <1>2, <1>5, RowsAreResolved
  <2> HIDE DEF rs
  <2> QED BY <1>1, <1>4, <2>1
<1> QED BY <1>5

\* Text that supports a claim whose resolver raised supports it as well when
\* the names of the claim are resolved.
LEMMA TextSupportsWhole ==
  ASSUME NEW c, IsClaim(c), NEW s, NEW scan \in Scans, SpansFor(s) # {}, c.type \in TextWillDo,
         Confidence(Query(c, Unresolved(c.slots)), SpansFor(s)) >= AbstainOverall,
         CheckabilityOf(c, LiveResolve(c.slots, scan)) = "checkable"
  PROVE  VerdictOn(c, LiveResolve(c.slots, scan),
                   RowsFor(c, LiveResolve(c.slots, scan)) \cup SpansFor(s)) = "supported"
<1> DEFINE rs == LiveResolve(c.slots, scan)
           q == Query(c, rs)
           S == SpansFor(s)
           W == RowsFor(c, rs) \cup S
<1>1. Found(W) /\ \A e \in S : e.kind = "lexical"
  BY RetrievedIsFound
<1>2. Confidence(q, S) = Confidence(Query(c, Unresolved(c.slots)), S)
  BY <1>1, TextScoresAlike
<1>3. /\ Confidence(q, W) \in Int /\ Confidence(q, S) \in Int
      /\ Confidence(q, S) <= Confidence(q, W)
  BY <1>1, ConfidenceGrows
<1>4. ~(Confidence(q, W) < AbstainOverall)
  BY <1>2, <1>3 DEF AbstainOverall
<1>5. LexicalHits(W) # {} /\ W # {}
  BY <1>1 DEF LexicalHits
<1>6. q.type = c.type
  BY DEF Query
<1> HIDE DEF q, W
<1>7. Compare(q, W) = "supported"
  BY <1>5, <1>6 DEF Compare, Corroborated, TextWillDo
<1>8. VerdictStatus(q, CheckabilityOf(c, rs), W) = "supported"
  BY <1>4, <1>5, <1>7 DEF VerdictStatus
<1> QED BY <1>8 DEF VerdictOn, q, W

\* FailureAbstainsOrTrustsText, of one payload of a resolver that raised.
LEMMA VerdictUnderNames ==
  ASSUME NEW c, IsClaim(c), NEW s, ~ResolverRaises(c.slots, TRUE, TRUE),
         NEW rs, rs = Unresolved(c.slots),
         NEW E \in Parts(RowsFor(c, rs), SpansFor(s)), NEW b, b = Bundle(c, rs, E)
  PROVE  b.status \in WholeVerdicts(c, s) \cup {"insufficient_evidence"} \/ TextOfNobody(b, s)
<1> DEFINE q == Query(c, rs)
<1>1. /\ b.claim = c /\ b.res = rs /\ b.evidence = E
      /\ b.status = VerdictStatus(q, CheckabilityOf(c, rs), E)
  BY DEF Bundle, VerdictOn
<1>2. c.type \in RuleTypes /\ c.type \in ClaimTypes /\ q.type = c.type
  BY ClaimShape DEF Query, RuleTypes
<1>3. CASE CheckabilityOf(c, rs) # "checkable"
  <2>1. \A t \in SlotNames : rs.status[t] \in {"resolved", "not_applicable"}
    BY DEF Unresolved, Resolved
  <2>2. \A other : CheckabilityOf(c, other) # "checkable"
    BY <1>2, <1>3, <2>1, MildestResolution
  <2>3. WholeVerdicts(c, s) = {"non_checkable"}
    BY <2>2, WholeAbstains
  <2> QED BY <1>1, <1>3, <2>3 DEF VerdictStatus
<1>4. CASE CheckabilityOf(c, rs) = "checkable" /\ b.status # "insufficient_evidence"
  <2>1. E # {} /\ ~(Confidence(q, E) < AbstainOverall) /\ b.status = Compare(q, E)
    BY <1>1, <1>4 DEF VerdictStatus
  <2>2. E = SpansFor(s)
    <3>1. RowsFor(c, rs) = {}
      BY <1>4, NoRowsUnresolved
    <3> QED BY <2>1, <3>1 DEF Parts
  <2>3. \A e \in E : e.kind = "lexical"
    BY <2>2, RetrievedIsFound
  <2>4. GraphHits(q, E) = {} /\ LexicalHits(E) = E
    BY <2>3 DEF GraphHits, LexicalHits
  <2>5. b.status = "supported" /\ c.type \in TextWillDo
    <3> HIDE DEF q
    <3>1. Compare(q, E) \notin {"contradicted", "mixed"}
      BY <1>2, <2>4, VerdictNeedsRows
    <3>2. Compare(q, E) \in {"supported", "contradicted", "mixed", "insufficient_evidence"}
      BY <1>2 DEF Compare, VoteCast, ElectionResult, GovernmentDecision, CommitteeAttendance,
                  Corroborated, SpanCount
    <3>3. Compare(q, E) = "supported"
      BY <1>4, <2>1, <3>1, <3>2
    <3> QED BY <1>2, <2>1, <2>4, <3>3, VerdictNeedsRows
  <2>6. Confidence(q, E) >= AbstainOverall
    <3>1. Found(RowsFor(c, rs) \cup SpansFor(s)) /\ E \in SUBSET (RowsFor(c, rs) \cup SpansFor(s))
      BY <2>2, RetrievedIsFound
    <3>2. Confidence(q, E) \in Int
      BY <3>1, ConfidenceGrows
    <3> QED BY <2>1, <3>2 DEF AbstainOverall
  <2>7. ResolutionsOf(c) = {LiveResolve(c.slots, scan) : scan \in Scans}
    BY DEF ResolutionsOf
  <2>8. CASE \E scan \in Scans : CheckabilityOf(c, LiveResolve(c.slots, scan)) = "checkable"
    <3>1. PICK scan \in Scans : CheckabilityOf(c, LiveResolve(c.slots, scan)) = "checkable"
      BY <2>8
    <3> DEFINE live == LiveResolve(c.slots, scan)
    <3>2. VerdictOn(c, live, RowsFor(c, live) \cup SpansFor(s)) = "supported"
      BY <2>1, <2>2, <2>5, <2>6, <3>1, TextSupportsWhole
    <3>3. live \in ResolutionsOf(c)
      BY <2>7
    <3> HIDE DEF live
    <3>4. "supported" \in WholeVerdicts(c, s)
      BY <3>2, <3>3 DEF WholeVerdicts
    <3> QED BY <2>5, <3>4
  <2>9. CASE \A scan \in Scans : CheckabilityOf(c, LiveResolve(c.slots, scan)) # "checkable"
    <3>1. \A live \in ResolutionsOf(c) : \A F : VerdictOn(c, live, F) = "non_checkable"
      BY <2>7, <2>9 DEF VerdictOn, VerdictStatus
    <3>2. WholeVerdicts(c, s) = {"non_checkable"}
      BY <3>1, SomeResolution DEF WholeVerdicts
    <3> QED BY <1>1, <2>1, <2>4, <2>5, <3>2 DEF TextOfNobody
  <2> QED BY <2>8, <2>9
<1> QED BY <1>3, <1>4

\* FailureAbstainsOrTrustsText, of one payload.
LEMMA BundleSurvivesOutages ==
  ASSUME NEW c, IsClaim(c), NEW rs, Told(c, rs), NEW s,
         NEW E \in Parts(RowsFor(c, rs), SpansFor(s)), E = {} \/ Answered(c, rs),
         NEW b, b = Bundle(c, rs, E)
  PROVE  b.status \in WholeVerdicts(c, s) \cup {"insufficient_evidence"} \/ TextOfNobody(b, s)
<1>1. b.status = VerdictOn(c, rs, E)
  BY DEF Bundle
<1>2. ASSUME rs \in ResolutionsOf(c)
      PROVE  b.status \in WholeVerdicts(c, s) \cup {"insufficient_evidence"}
  <2>1. b.status \in {VerdictOn(c, rs, RowsFor(c, rs) \cup SpansFor(s)), "insufficient_evidence"}
    BY <1>1, PartVerdict
  <2> QED BY <1>2, <2>1 DEF WholeVerdicts
<1>3. CASE Answered(c, rs)
  <2>1. CASE rs \in ResolutionsOf(c)
    BY <1>2, <2>1
  <2>2. CASE rs \notin ResolutionsOf(c)
    <3>1. rs = Unresolved(c.slots) /\ ~ResolverRaises(c.slots, TRUE, TRUE)
      BY <1>3, <2>2 DEF Answered, ResolutionsOf
    <3> QED BY <3>1, VerdictUnderNames
  <2> QED BY <2>1, <2>2
<1>4. CASE ~Answered(c, rs)
  <2>1. E = {} /\ rs = OfflineResolve(c.slots)
    BY <1>4 DEF Told
  <2>2. CASE CheckabilityOf(c, rs) = "checkable"
    BY <1>1, <2>1, <2>2 DEF VerdictOn, VerdictStatus
  <2>3. CASE CheckabilityOf(c, rs) # "checkable"
    <3>1. \A t \in SlotNames : rs.status[t] \in {"resolved", "not_applicable"}
      BY <2>1 DEF OfflineResolve, Resolved
    <3>2. c.type \in ClaimTypes
      BY ClaimShape DEF RuleTypes
    <3>3. WholeVerdicts(c, s) = {"non_checkable"}
      BY <2>3, <3>1, <3>2, MildestResolution, WholeAbstains
    <3> QED BY <1>1, <2>3, <3>3 DEF VerdictOn, VerdictStatus
  <2> QED BY <2>2, <2>3
<1> QED BY <1>3, <1>4

-----------------------------------------------------------------------------
(* Declarations. *)

\* A claim that was not checkable, or had no time, when no resolver had been
\* asked, is not checkable whatever a resolver says.
LEMMA UncheckableStaysSo ==
  ASSUME NEW c, NEW rs, NEW t, NEW g,
         Classify(c, t, g) \in {"non_checkable", "insufficient_time_scope"}
  PROVE  Classify(c, rs, g) # "checkable"
BY DEF Classify

\* What a declaration must be made of to be ingested as one of these two.
LEMMA DeclarationOf ==
  ASSUME NEW values,
         DeclarationCheckability(values) \in {"not_checkable", "insufficient_time_scope"}
  PROVE  values \subseteq {"non_checkable", "insufficient_time_scope"}
BY DEF DeclarationCheckability

LEMMA RelationsOfStatus ==
  ASSUME NEW status, NEW checkability, NEW n
  PROVE  /\ RelationOf(status, checkability, n) \in Relations
         /\ RelationOf(status, checkability, n) = "contradicted_by"
              <=> status = "contradicted"
         /\ RelationOf(status, checkability, n) = "supported_by" <=> status = "supported"
<1>1. Relations = {"contradicted_by", "entity_ambiguous", "time_scope_mismatch",
                   "not_checkable_against_record", "overstates", "underspecifies",
                   "supported_by"}
  <2>1. DOMAIN RelationPriority = 1 .. 7
    BY DEF RelationPriority
  <2>2. /\ RelationPriority[1] = "contradicted_by"
        /\ RelationPriority[2] = "entity_ambiguous"
        /\ RelationPriority[3] = "time_scope_mismatch"
        /\ RelationPriority[4] = "not_checkable_against_record"
        /\ RelationPriority[5] = "overstates"
        /\ RelationPriority[6] = "underspecifies"
        /\ RelationPriority[7] = "supported_by"
    BY DEF RelationPriority
  <2>3. 1 .. 7 = {1, 2, 3, 4, 5, 6, 7}
    OBVIOUS
  <2>4. Relations = {RelationPriority[i] : i \in {1, 2, 3, 4, 5, 6, 7}}
    BY <2>1, <2>3 DEF Relations
  <2> QED BY <2>2, <2>4
<1> QED BY <1>1 DEF RelationOf

\* The worst of some relations is the first of RELATION_PRIORITY among them.
LEMMA WorstIsFirst ==
  ASSUME NEW S \in SUBSET Relations
  PROVE  /\ "contradicted_by" \in S <=> WorstRelation(S) = "contradicted_by"
         /\ WorstRelation(S) = "supported_by" => S = {"supported_by"}
<1> DEFINE P == RelationPriority
           first(i) == P[i] \in S /\ \A j \in DOMAIN P : P[j] \in S => i <= j
<1>1. DOMAIN P = {1, 2, 3, 4, 5, 6, 7}
  BY DEF RelationPriority
<1>2. P[1] = "contradicted_by" /\ P[7] = "supported_by"
  BY DEF RelationPriority
<1>3. \A i, j \in DOMAIN P : P[i] = P[j] => i = j
  BY DEF RelationPriority
<1>4. \A x \in S : \E i \in DOMAIN P : x = P[i]
  BY DEF Relations
<1>5. CASE S = {}
  BY <1>5 DEF WorstRelation
<1>6. CASE S # {}
  <2>1. \E i \in DOMAIN P : first(i)
    <3> HIDE DEF P
    <3>1. PICK k \in DOMAIN P : P[k] \in S
      BY <1>4, <1>6
    <3>2. CASE P[1] \in S
      BY <1>1, <3>2
    <3>3. CASE P[1] \notin S /\ P[2] \in S
      BY <1>1, <3>3
    <3>4. CASE P[1] \notin S /\ P[2] \notin S /\ P[3] \in S
      BY <1>1, <3>4
    <3>5. CASE (\A i \in {1, 2, 3} : P[i] \notin S) /\ P[4] \in S
      BY <1>1, <3>5
    <3>6. CASE (\A i \in {1, 2, 3, 4} : P[i] \notin S) /\ P[5] \in S
      BY <1>1, <3>6
    <3>7. CASE (\A i \in {1, 2, 3, 4, 5} : P[i] \notin S) /\ P[6] \in S
      BY <1>1, <3>7
    <3>8. CASE \A i \in {1, 2, 3, 4, 5, 6} : P[i] \notin S
      BY <1>1, <3>1, <3>8
    <3> QED BY <3>2, <3>3, <3>4, <3>5, <3>6, <3>7, <3>8
  <2> DEFINE w == CHOOSE i \in DOMAIN P : first(i)
  <2>2. w \in DOMAIN P /\ first(w)
    BY <2>1
  <2>3. WorstRelation(S) = P[w]
    BY <1>6, Zenon DEF WorstRelation
  <2> HIDE DEF w, P
  <2>4. "contradicted_by" \in S <=> P[w] = "contradicted_by"
    BY <1>1, <1>2, <1>3, <2>2
  <2>5. ASSUME P[w] = "supported_by" PROVE S = {"supported_by"}
    <3>1. w = 7
      BY <1>1, <1>2, <1>3, <2>2, <2>5
    <3>2. \A j \in DOMAIN P : P[j] \in S => j = 7
      BY <1>1, <2>2, <3>1
    <3> QED BY <1>2, <1>4, <1>6, <3>2
  <2> QED BY <2>3, <2>4, <2>5
<1> QED BY <1>5, <1>6

-----------------------------------------------------------------------------
(* Time scopes. *)

Terms == 1 .. 25

\* KNESSET_TERMS: every term but the current one has a last day, on which the
\* next term begins.
LEMMA TermsTouch ==
  /\ DOMAIN KnessetTerms = Terms
  /\ \A n \in Terms : KnessetTerms[n][1] \in Int
  /\ \A n \in Terms \ {25} : /\ KnessetTerms[n][2] \in Int
                            /\ KnessetTerms[n][1] < KnessetTerms[n][2]
                            /\ KnessetTerms[n + 1][1] = KnessetTerms[n][2]
  /\ KnessetTerms[25][2] = None
BY DEF KnessetTerms, Terms

\* What the expressions of the normalizer can find in a text.
IsPhrase(p) ==
  /\ p.iso \in Nat \cup {None}
  /\ p.month # None => p.month[1] \in Nat /\ p.month[2] \in 1 .. 12
  /\ p.year \in Nat \cup {None}

\* A scope is an interval: it has a start unless it is unknown, it begins no
\* later than it ends, and only the current term has no end.
IsInterval(s) ==
  \/ s = Unknown
  \/ /\ s.granularity \in {"day", "month", "year", "term"}
     /\ s.start \in Int /\ s.end \in Int /\ s.start <= s.end
  \/ s = TermScope(25)

LEMMA TermsAreIntervals ==
  ASSUME NEW n \in Terms
  PROVE  IsInterval(TermScope(n))
<1>1. CASE n = 25
  BY <1>1 DEF IsInterval
<1>2. CASE n # 25
  <2>1. /\ KnessetTerms[n][1] \in Int /\ KnessetTerms[n][2] \in Int
        /\ KnessetTerms[n][1] < KnessetTerms[n][2]
    BY <1>2, TermsTouch
  <2> QED BY <2>1 DEF IsInterval, TermScope, Scope
<1> QED BY <1>1, <1>2

\* The term that a day falls in is one of the table, and the day is in it; it
\* is the earlier of two on the day they meet.
LEMMA TermHolds ==
  ASSUME NEW today \in Nat, TermOn(today) # None
  PROVE  LET n == TermOn(today) IN
         /\ n \in Terms /\ KnessetTerms[n][1] <= today
         /\ KnessetTerms[n][2] = None \/ today <= KnessetTerms[n][2]
<1> DEFINE holds(n) == /\ KnessetTerms[n][1] <= today
                       /\ KnessetTerms[n][2] = None \/ today <= KnessetTerms[n][2]
           found == {n \in DOMAIN KnessetTerms : holds(n)}
<1>1. TermOn(today) = IF found = {} THEN None ELSE CHOOSE n \in found : \A k \in found : n <= k
  BY Zenon DEF TermOn
<1>2. found # {} /\ found \in SUBSET Terms /\ Terms \in SUBSET Nat
  <2>1. found # {}
    <3> HIDE DEF found
    <3> QED BY <1>1
  <2> QED BY <2>1, TermsTouch DEF Terms
<1>3. \E n \in found : \A k \in found : n <= k
  <2> HIDE DEF found
  <2> QED BY <1>2, Least
<1>4. TermOn(today) \in found
  <2> HIDE DEF found
  <2> QED BY <1>1, <1>2, <1>3
<1> HIDE DEF holds
<1>5. TermOn(today) \in Terms /\ holds(TermOn(today))
  BY <1>2, <1>4
<1> QED BY <1>5 DEF holds

\* "Last term" is over: it ended on the day the current one began, today or
\* before, and there is a term to answer with.
THEOREM LastTermIsOver ==
  ASSUME NEW today \in Nat, TermOn(today) # None, TermOn(today) # 1
  PROVE  LET last == TermScope(TermOn(today) - 1) IN
         /\ IsInterval(last) /\ last.granularity = "term"
         /\ last.end = TermScope(TermOn(today)).start
         /\ last.end \in Int /\ last.end <= today
<1> DEFINE n == TermOn(today)
<1>1. n \in Terms /\ KnessetTerms[n][1] <= today
  BY TermHolds
<1> HIDE DEF n
<1>2. n # 1
  BY DEF n
<1>3. n - 1 \in Terms \ {25} /\ (n - 1) + 1 = n
  BY <1>1, <1>2 DEF Terms
<1>4. KnessetTerms[n - 1][2] \in Int /\ KnessetTerms[n][1] = KnessetTerms[n - 1][2]
  BY <1>3, TermsTouch
<1>5. /\ TermScope(n - 1).end = KnessetTerms[n - 1][2] /\ TermScope(n - 1).granularity = "term"
      /\ TermScope(n).start = KnessetTerms[n][1]
  BY DEF TermScope, Scope
<1>6. IsInterval(TermScope(n - 1))
  BY <1>3, TermsAreIntervals
<1> QED BY <1>1, <1>4, <1>5, <1>6 DEF n

\* Whatever a phrase says, the scope it is given is an interval: no retrieval
\* window and no comparison is ever asked of one that ends before it begins.
THEOREM ScopesAreIntervals ==
  ASSUME NEW p, p = None \/ IsPhrase(p), NEW today \in Nat
  PROVE  IsInterval(NormalizeTimeScope(p, today))
<1>1. IsInterval(Unknown)
  BY DEF IsInterval
<1>2. ASSUME NEW y \in Int PROVE IsInterval(YearBounds(y))
  BY DEF IsInterval, YearBounds, Scope, Date
<1>3. ASSUME NEW y \in Nat, NEW m \in 1 .. 12 PROVE IsInterval(MonthBounds(y, m))
  <2>1. LastDay(y, m) \in {28, 29, 30, 31}
    <3>1. CASE m \in {4, 6, 9, 11}
      BY <3>1 DEF LastDay
    <3>2. CASE m = 2
      BY <3>2 DEF LastDay
    <3>3. CASE m \notin {2, 4, 6, 9, 11}
      BY <3>3 DEF LastDay
    <3> QED BY <3>1, <3>2, <3>3
  <2>2. Date(y, m, LastDay(y, m)) \in Int /\ Date(y, m, 1) \in Int
        /\ Date(y, m, 1) <= Date(y, m, LastDay(y, m))
    BY <2>1 DEF Date
  <2> QED BY <2>2 DEF IsInterval, MonthBounds, Scope
<1>4. ASSUME NEW d \in Nat PROVE IsInterval(Scope(d, d, "day"))
  BY DEF IsInterval, Scope
<1>5. today \div 10000 - 1 \in Int
  OBVIOUS
<1>6. ASSUME TermOn(today) # None, TermOn(today) # 1
      PROVE  IsInterval(TermScope(TermOn(today) - 1))
  BY <1>6, LastTermIsOver
<1>7. \A n \in DOMAIN KnessetTerms : IsInterval(TermScope(n))
  BY TermsTouch, TermsAreIntervals
<1> HIDE DEF IsInterval
<1> QED BY <1>1, <1>2, <1>3, <1>4, <1>5, <1>6, <1>7 DEF NormalizeTimeScope, IsPhrase
=============================================================================
