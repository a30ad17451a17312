---------------------------- MODULE ClaimPipeline ----------------------------
(***************************************************************************)
(* The requests of the API that judge statements: POST /claims/verify,     *)
(* POST /declarations/ingest and POST /declarations/{id}/verify.           *)
(*                                                                         *)
(* _lifespan wires the process once: live when the three stores answer,    *)
(* offline otherwise, and so it stays until the process ends.  Requests    *)
(* run in threads of their own over what was wired.  A request takes the   *)
(* claims of its statement one after the other; each call to a store is a  *)
(* step, in which the store may be down.  Every failure but that of the    *)
(* conflict task is swallowed on the spot.                                 *)
(***************************************************************************)
EXTENDS Verdict, EntityResolution

CONSTANTS
  Requests,      \* POST requests; a client's retry is a request of its own
  Statements,    \* Statements[s]: the rule matches and the length of a text
  Declarations,  \* ids of declarations
  Facts,         \* the rows Neo4j can return
  Spans,         \* the evidence spans in OpenSearch
  Today,         \* the day, as in Date
  TopK,          \* top_k of bundle_provenance
  MaxFaults      \* bound on outages and crashes

ASSUME StatementsAssumption ==
  \A s \in DOMAIN Statements :
    LET ms == Statements[s].matches
    IN /\ Len(ms) \in Nat /\ DOMAIN ms = 1 .. Len(ms)
       /\ \A i \in DOMAIN ms : LegalMatch(ms[i], Statements[s].length)
\* What stands where a rule expects a name is a mention.
ASSUME MentionsAssumption ==
  \A s \in DOMAIN Statements : \A i \in DOMAIN Statements[s].matches :
    \A g \in {"subject", "bill", "committee", "office", "party", "decision_number"} :
      Statements[s].matches[i].groups[g] \in DOMAIN Names \cup {None}
\* The stores are finite.
ASSUME FactsAssumption ==
  /\ IsFiniteSet(Facts)
  /\ \A e \in Facts : /\ e.kind = "graph" /\ IsFiniteSet(e.docs)
                      /\ \A s \in SlotNames : e.nodes[s] \in Nodes \cup {None}
ASSUME SpansAssumption ==
  /\ IsFiniteSet(Spans)
  /\ \A e \in Spans : e.kind = "lexical" /\ IsFiniteSet(e.docs)
ASSUME MaxFaultsAssumption == MaxFaults \in Nat

Stores    == {"postgres", "neo4j", "opensearch"}
Languages == {"he", "en"}

VARIABLES
  up,        \* the stores that answer
  app,       \* the process: down, or wired offline or live
  conn,      \* the one Postgres connection of a live process
  cache,     \* _declaration_cache: what was made of a declaration
  pc, req,   \* where each request is and what it asks for
  res,       \* its ResolutionResult for the claim at hand
  rows,      \* graph_hits of that claim
  spans,     \* lex_hits of that claim
  bundles,   \* its payloads, one for each claim that is done
  edges,     \* its attribution edges
  tasks,     \* review_tasks it filed
  faults     \* how much of MaxFaults was used

world   == <<up, app, conn, faults>>
vars    == <<up, app, conn, cache, pc, req, res, rows, spans, bundles, edges,
             tasks, faults>>

-----------------------------------------------------------------------------
(* What a request computes. *)

\* The claims of a statement; decompose gives them fresh ids every time.
Decomposed == [s \in DOMAIN Statements |->
                 [language \in Languages |->
                    Decompose(Statements[s].matches, language)]]

ClaimsOf(s, language) == Decomposed[s][language]

\* result.claims of the request.
ClaimsFor(r) == ClaimsOf(req[r].stmt, req[r].language)

\* The claim of the loop's turn.
Claim(r) == ClaimsFor(r)[Len(bundles[r]) + 1]

ScopeOf(c) == NormalizeTimeScope(c.time, Today)

\* Faulty: the time is taken for known.
CheckabilityOf_Timeless(c, rs) == Classify(c, rs.status, "year")

\* classify, of the claim's own slots and the statuses of the resolver.
CheckabilityOf(c, rs) == Classify(c, rs.status, ScopeOf(c).granularity)

\* expect_passed_threshold: only "false" is ever in the slot.
Threshold(slot) == IF slot = "false" THEN FALSE ELSE None

\* VerdictInputs.
Query(c, rs) ==
  [type |-> c.type, scope |-> ScopeOf(c), ids |-> rs.ids,
   vote |-> c.slots["vote_value"], seats |-> c.slots["expected_seats"],
   passed |-> Threshold(c.slots["expect_passed_threshold"]),
   decision |-> rs.ids["government_decision_id"]]

\* The verdict on a claim, given what was resolved and what was found.
VerdictOn(c, rs, E) == VerdictStatus(Query(c, rs), CheckabilityOf(c, rs), E)

\* The payload of a claim: what it was resolved to, what was found, and the
\* outcome: its status and needs_human_review.
Bundle(c, rs, E) ==
  [claim |-> c, res |-> rs, evidence |-> E, status |-> VerdictOn(c, rs, E),
   review |-> NeedsReview(Query(c, rs), CheckabilityOf(c, rs), E)]

\* The rows and the spans that answering stores return for a claim.
RowsFor(c, rs) ==
  IF Refused(c.type, ScopeOf(c)) THEN {}
  ELSE GraphRows(Facts, c.type, rs.ids, ScopeOf(c))

SpansFor(s) == {e \in Spans : s \in e.about}

\* lexical_hits counts the spans among the top evidence of a bundle.
TopSpans(b) ==
  Cardinality(LexicalHits(TopEvidence(Query(b.claim, b.res), b.evidence, TopK)))

\* build_attribution_edge: the relation of a cached claim, from a bundle.
Edge(c, b) ==
  [claim |-> c, judged |-> b.claim,
   review |-> IF b.review THEN "needs_human_review" ELSE "pending",
   relation |-> RelationOf(b.status, CheckabilityOf(b.claim, b.res), TopSpans(b))]

Shorter(m, n) == IF m <= n THEN m ELSE n

\* No resolver has said anything: slot_resolver_status is empty.
Unasked == Unresolved([s \in SlotNames |-> None])

\* DeclarationDecomposer.decompose: what a declaration is cached with.
Declaration(s, language) ==
  LET claims == ClaimsOf(s, language)
      of(i) == Classify(claims[i], Unasked.status, ScopeOf(claims[i]).granularity)
  IN [stmt |-> s, language |-> language,
      checkability |-> DeclarationCheckability({of(i) : i \in DOMAIN claims}),
      family |-> ClaimFamily({claims[i].type : i \in DOMAIN claims})]

\* Faulty: claims nobody can check are dropped before the pairing.
EdgesOf_Checkable(cs, bs) ==
  LET checked(b) == b.status # "non_checkable"
      kept == SelectSeq(bs, checked)
  IN [i \in 1 .. Shorter(Len(cs), Len(kept)) |-> Edge(cs[i], kept[i])]

\* zip(claims, bundles, strict=False).
EdgesOf(cs, bs) ==
  [i \in 1 .. Shorter(Len(cs), Len(bs)) |-> Edge(cs[i], bs[i])]

\* overall_relation.
Overall(es) == WorstRelation({es[i].relation : i \in DOMAIN es})

-----------------------------------------------------------------------------
(* The process and the stores. *)

NoResult == Unasked

NoRequest == [op |-> "none", stmt |-> None, language |-> "he", ingested |-> None]

Init ==
  /\ up = Stores
  /\ app = "down"
  /\ conn = "none"
  /\ cache = [d \in Declarations |-> None]
  /\ pc = [r \in Requests |-> "idle"]
  /\ req = [r \in Requests |-> NoRequest]
  /\ res = [r \in Requests |-> NoResult]
  /\ rows = [r \in Requests |-> {}]
  /\ spans = [r \in Requests |-> {}]
  /\ bundles = [r \in Requests |-> <<>>]
  /\ edges = [r \in Requests |-> <<>>]
  /\ tasks = {}
  /\ faults = 0

\* Faulty: the connection is opened before the other stores are asked.
Boot_Early ==
  /\ app = "down"
  /\ conn' = IF "postgres" \in up THEN "open" ELSE "none"
  /\ app' = IF up = Stores THEN "live" ELSE "offline"
  /\ UNCHANGED <<up, cache, pc, req, res, rows, spans, bundles, edges, tasks, faults>>

\* _lifespan: live wiring needs all three pings.
Boot ==
  /\ app = "down"
  /\ IF up = Stores THEN app' = "live" /\ conn' = "open"
                    ELSE app' = "offline" /\ conn' = "none"
  /\ UNCHANGED <<up, cache, pc, req, res, rows, spans, bundles, edges, tasks, faults>>

Busy == {"resolve", "graph", "lexical", "conclude", "attribute"}

\* Nothing opens the connection again when Postgres comes back.
StoreFails(s) ==
  /\ s \in up /\ faults < MaxFaults
  /\ up' = up \ {s}
  /\ conn' = IF s = "postgres" /\ conn = "open" THEN "broken" ELSE conn
  /\ faults' = faults + 1
  /\ UNCHANGED <<app, cache, pc, req, res, rows, spans, bundles, edges, tasks>>

StoreReturns(s) ==
  /\ s \notin up
  /\ up' = up \cup {s}
  /\ UNCHANGED <<app, conn, cache, pc, req, res, rows, spans, bundles, edges,
                 tasks, faults>>

-----------------------------------------------------------------------------
(* The requests. *)

\* Where a request goes when n of its claims are done.
Turn(q, n) ==
  IF n < Len(ClaimsOf(q.stmt, q.language)) THEN "resolve"
  ELSE IF q.op = "verify" THEN "answered" ELSE "attribute"

Accept(r, q) ==
  /\ req' = [req EXCEPT ![r] = q]
  /\ pc' = [pc EXCEPT ![r] = Turn(q, 0)]
  /\ UNCHANGED <<world, cache, res, rows, spans, bundles, edges, tasks>>

\* POST /claims/verify.
VerifyClaim(r, s, language) ==
  /\ pc[r] = "idle" /\ app # "down"
  /\ Accept(r, [op |-> "verify", stmt |-> s, language |-> language, ingested |-> None])

\* POST /declarations/ingest: no store is asked.
IngestDeclaration(d, s, language) ==
  /\ app # "down" /\ cache[d] = None
  /\ cache' = [cache EXCEPT ![d] = Declaration(s, language)]
  /\ UNCHANGED <<world, pc, req, res, rows, spans, bundles, edges, tasks>>

\* POST /declarations/{id}/verify of a declaration in the cache.
VerifyDeclaration(r, d, language) ==
  /\ pc[r] = "idle" /\ app # "down" /\ cache[d] # None
  /\ Accept(r, [op |-> "declaration", stmt |-> cache[d].stmt,
                language |-> language, ingested |-> cache[d].language])

\* ... and of one that is not: 404.
DeclarationNotFound(r, d) ==
  /\ pc[r] = "idle" /\ app # "down" /\ cache[d] = None
  /\ pc' = [pc EXCEPT ![r] = "not_found"]
  /\ UNCHANGED <<world, cache, req, res, rows, spans, bundles, edges, tasks>>

Goes(r, from, to) == pc[r] = from /\ pc' = [pc EXCEPT ![r] = to]

Resolves(r, result) ==
  /\ Goes(r, "resolve", "graph")
  /\ res' = [res EXCEPT ![r] = result]
  /\ UNCHANGED <<world, cache, req, rows, spans, bundles, edges, tasks>>

Raises(r) == ResolverRaises(Claim(r).slots, "neo4j" \in up, conn = "open")

\* _resolve: the resolver answers, or raises, or there is none.
ResolverAnswers(r) ==
  /\ pc[r] = "resolve" /\ app = "live" /\ ~Raises(r)
  /\ \E scan \in Scans : Resolves(r, LiveResolve(Claim(r).slots, scan))

ResolverFails(r) ==
  /\ pc[r] = "resolve" /\ app = "live" /\ Raises(r)
  /\ Resolves(r, Unresolved(Claim(r).slots))

NoResolver(r) ==
  /\ pc[r] = "resolve" /\ app = "offline"
  /\ Resolves(r, OfflineResolve(Claim(r).slots))

\* _retrieve, from the graph; a query that fails is an empty answer.
RetrieveGraph(r) ==
  /\ Goes(r, "graph", "lexical")
  /\ rows' = [rows EXCEPT ![r] =
       IF app = "live" /\ "neo4j" \in up THEN RowsFor(Claim(r), res[r]) ELSE {}]
  /\ UNCHANGED <<world, cache, req, res, spans, bundles, edges, tasks>>

\* _retrieve, from the index.
RetrieveLexical(r) ==
  /\ Goes(r, "lexical", "conclude")
  /\ spans' = [spans EXCEPT ![r] =
       IF app = "live" /\ "opensearch" \in up THEN SpansFor(req[r].stmt) ELSE {}]
  /\ UNCHANGED <<world, cache, req, res, rows, bundles, edges, tasks>>

\* The bundle of the claim at hand.
Outcome(r) == Bundle(Claim(r), res[r], rows[r] \cup spans[r])

\* maybe_open_conflict_task asks for a task, when there is a connection.
AsksForTask(r) == conn # "none" /\ IsConflict(Outcome(r).status, Outcome(r).evidence)

\* open_review_task: kinds the table's CHECK lets in.
TableKinds == {"entity_resolution", "verdict", "conflict"}

Filed(kind, r, i) ==
  IF conn = "open" /\ kind \in TableKinds
  THEN {[kind |-> kind, request |-> r, claim |-> i]} ELSE {}

\* The loop's variables have no use after its turn.
EndOfTurn(r) ==
  /\ res' = [res EXCEPT ![r] = NoResult]
  /\ rows' = [rows EXCEPT ![r] = {}]
  /\ spans' = [spans EXCEPT ![r] = {}]

\* The task of the claim at hand, as the INSERT leaves it.
ConflictFiled(r) == Filed("conflict", r, Len(bundles[r]) + 1)

\* open_review_task raises: 500, whatever the earlier claims came to.  The
\* loop is left as it was, in the middle of a turn.
GivesUp(r) ==
  /\ Goes(r, "conclude", "failed")
  /\ AsksForTask(r)
  /\ UNCHANGED <<up, app, cache, req, res, rows, spans, bundles, edges>>

\* Faulty: a conflict task that cannot be filed is let go.
ConcludeFails_Swallowed(r) ==
  /\ Goes(r, "conclude", Turn(req[r], Len(bundles[r]) + 1))
  /\ AsksForTask(r) /\ conn = "broken"
  /\ bundles' = [bundles EXCEPT ![r] = Append(@, Outcome(r))]
  /\ EndOfTurn(r)
  /\ UNCHANGED <<world, cache, req, edges, tasks>>

\* The connection was broken before.
ConcludeFails(r) ==
  /\ GivesUp(r)
  /\ conn = "broken"
  /\ UNCHANGED <<conn, faults, tasks>>

\* Postgres refuses the INSERT, and the connection stands.
ConcludeRefused(r) ==
  /\ GivesUp(r)
  /\ conn = "open" /\ faults < MaxFaults
  /\ faults' = faults + 1
  /\ UNCHANGED <<conn, tasks>>

\* Postgres commits the INSERT, and the connection breaks before it answers.
ConcludeUnanswered(r) ==
  /\ GivesUp(r)
  /\ conn = "open" /\ faults < MaxFaults
  /\ faults' = faults + 1
  /\ conn' = "broken"
  /\ tasks' = tasks \cup ConflictFiled(r)

\* decide_verdict, the conflict task, bundle_provenance.
Conclude(r) ==
  /\ Goes(r, "conclude", Turn(req[r], Len(bundles[r]) + 1))
  /\ IF AsksForTask(r)
     THEN conn = "open" /\ tasks' = tasks \cup ConflictFiled(r)
     ELSE tasks' = tasks
  /\ bundles' = [bundles EXCEPT ![r] = Append(@, Outcome(r))]
  /\ EndOfTurn(r)
  /\ UNCHANGED <<world, cache, req, edges>>

\* The edges a declaration's request is about to answer with: the claims are
\* those of the cached decomposition, the bundles those of a second one.
EdgesNow(r) == EdgesOf(ClaimsOf(req[r].stmt, req[r].ingested), bundles[r])

\* DeclarationVerifier.verify: the edges, and a task for an alarming relation;
\* its failure is logged and nothing more.
Attribute(r) ==
  /\ Goes(r, "attribute", "answered")
  /\ edges' = [edges EXCEPT ![r] = EdgesNow(r)]
  /\ tasks' = IF conn # "none" /\ Overall(EdgesNow(r)) \in ReviewTriggers
              THEN tasks \cup Filed("declaration", r, 0) ELSE tasks
  /\ UNCHANGED <<world, cache, req, res, rows, spans, bundles>>

RequestStep(r) ==
  \/ ResolverAnswers(r)
  \/ ResolverFails(r)
  \/ NoResolver(r)
  \/ RetrieveGraph(r)
  \/ RetrieveLexical(r)
  \/ Conclude(r)
  \/ ConcludeFails(r)
  \/ ConcludeRefused(r)
  \/ ConcludeUnanswered(r)
  \/ Attribute(r)

\* The process ends: its requests get no answer, its cache is gone.  Of the
\* requests that were filing a task, any may have had it committed.
Crash ==
  /\ app # "down" /\ faults < MaxFaults
  /\ app' = "down" /\ conn' = "none"
  /\ cache' = [d \in Declarations |-> None]
  /\ pc' = [r \in Requests |-> IF pc[r] \in Busy THEN "lost" ELSE pc[r]]
  /\ \E filing \in SUBSET {r \in Requests : pc[r] = "conclude" /\ AsksForTask(r)} :
       tasks' = tasks \cup UNION {ConflictFiled(r) : r \in filing}
  /\ faults' = faults + 1
  /\ UNCHANGED <<up, req, res, rows, spans, bundles, edges>>

Arrival ==
  \E s \in DOMAIN Statements, language \in Languages :
    \/ \E r \in Requests : VerifyClaim(r, s, language)
    \/ \E d \in Declarations : IngestDeclaration(d, s, language)

DeclarationArrival ==
  \E r \in Requests, d \in Declarations :
    \/ \E language \in Languages : VerifyDeclaration(r, d, language)
    \/ DeclarationNotFound(r, d)

Environment ==
  \/ Boot
  \/ Crash
  \/ \E s \in Stores : StoreFails(s) \/ StoreReturns(s)

Next ==
  \/ Arrival
  \/ DeclarationArrival
  \/ \E r \in Requests : RequestStep(r)
  \/ Environment

Spec == Init /\ [][Next]_vars

-----------------------------------------------------------------------------
(* Properties.                                                             *)

Ends == {"answered", "not_found", "failed", "lost"}

Task == [kind : TableKinds \cup {"declaration"}, request : Requests, claim : Nat]

\* The type of the stores, the process and the tasks; a request never has
\* more bundles than claims, and evidence is what the stores hold.
TypeOK ==
  /\ up \subseteq Stores
  /\ app \in {"down", "offline", "live"}
  /\ conn \in {"none", "open", "broken"}
  /\ conn # "none" <=> app = "live"
  /\ pc \in [Requests -> {"idle"} \cup Busy \cup Ends]
  /\ \A r \in Requests :
       /\ rows[r] \subseteq Facts /\ spans[r] \subseteq Spans
       /\ Len(bundles[r]) <= (IF req[r].op = "none" THEN 0 ELSE Len(ClaimsFor(r)))
  /\ tasks \subseteq Task
  /\ faults \in 0 .. MaxFaults

\* A row of the graph about the very nodes that the names in the claim were
\* resolved to.
RestsOnRow(b) ==
  \E e \in b.evidence :
    /\ e \in Facts /\ e.type = b.claim.type
    /\ \A s \in Anchors(e.type) : /\ b.res.status[s] = "resolved"
                                  /\ e.nodes[s] = b.res.ids[s]

\* _verdict_from_lexical_corroboration: these types are supported by a span.
TextWillDo == {"bill_sponsorship", "office_held", "committee_membership"}

\* Whatever fails and whenever: a person is contradicted, or said to be in
\* conflict, only over a row of the graph about the nodes that the names were
\* resolved to; support may rest on a span, for three types of claim.  A
\* resolver that raises leaves names where ids should be, and those match
\* nothing.
VerdictRestsOnRecord ==
  \A r \in Requests : \A i \in DOMAIN bundles[r] :
    LET b == bundles[r][i] IN
    /\ b.status \in {"contradicted", "mixed"} => RestsOnRow(b)
    /\ b.status = "supported" =>
         \/ RestsOnRow(b)
         \/ b.claim.type \in TextWillDo /\ LexicalHits(b.evidence) # {}

\* What _resolve makes of a claim while the three stores answer.
ResolutionsOf(c) ==
  IF ResolverRaises(c.slots, TRUE, TRUE) THEN {Unresolved(c.slots)}
  ELSE {LiveResolve(c.slots, scan) : scan \in Scans}

\* The verdicts on a claim of statement s while the three stores answer.
WholeVerdicts(c, s) ==
  {VerdictOn(c, rs, RowsFor(c, rs) \cup SpansFor(s)) : rs \in ResolutionsOf(c)}

\* Nothing but text under names that nobody could have resolved.
TextOfNobody(b, s) ==
  /\ b.res = Unresolved(b.claim.slots)
  /\ b.claim.type \in TextWillDo /\ b.status = "supported"
  /\ b.evidence # {} /\ b.evidence = LexicalHits(b.evidence)
  /\ WholeVerdicts(b.claim, s) = {"non_checkable"}

\* Whichever stores are down at whichever calls, the resolver's included: a
\* claim gets a verdict that it can get while all of them answer, or
\* insufficient_evidence.  The one way out is a resolver that raises where it
\* would have found a name ambiguous or unknown: the name then counts as
\* checkable, and for three types of claim text alone makes it "supported".
\* No outage brings about a contradiction or a conflict.
FailureAbstainsOrTrustsText ==
  \A r \in Requests : \A i \in DOMAIN bundles[r] :
    LET b == bundles[r][i]
        s == req[r].stmt
    IN \/ b.status \in WholeVerdicts(b.claim, s) \cup {"insufficient_evidence"}
       \/ TextOfNobody(b, s)

\* The names that the stores know, but not whose they are.
Ambiguous(c) ==
  {x \in Required[c.type] \cap Mentioned(c.slots) :
     \A scan \in Scans : WithFallback(Names[c.slots[x]], scan).status = "ambiguous"}

\* docs/political_verifier_v_1_plan.md: the system can "abstain on ambiguous
\* cases"; checkability.py: a required slot "that resolves to anything other
\* than "resolved" counts against checkability".
AmbiguityAbstains ==
  \A r \in Requests : \A i \in DOMAIN bundles[r] :
    LET b == bundles[r][i]
    IN Ambiguous(b.claim) # {} => b.status \in {"non_checkable", "insufficient_evidence"}

\* The conflicts among the claims of a request that were done.
Conflicts(r) ==
  {i \in DOMAIN bundles[r] : IsConflict(bundles[r][i].status, bundles[r][i].evidence)}

\* The task of the claim over which its request got no answer: a conflict,
\* found before a fault cut the request off.
CutOff(t) ==
  LET r == t.request IN
  /\ faults > 0 /\ pc[r] \in {"failed", "lost"}
  /\ t.claim = Len(bundles[r]) + 1
  /\ IsConflict(Outcome(r).status, Outcome(r).evidence)

\* conflict.py: a mixed verdict over Tier-1 evidence is triaged by a human.
\* No request goes past one whose task was not filed, on a connection that
\* breaks under it too; and no task is filed for anything but a conflict that
\* was concluded, or the one over which a fault cut its request off, when the
\* INSERT was committed and its answer lost.
ConflictsAreFiled ==
  /\ \A r \in Requests : \A i \in Conflicts(r) :
       [kind |-> "conflict", request |-> r, claim |-> i] \in tasks
  /\ \A t \in tasks : t.kind = "conflict" =>
       t.claim \in Conflicts(t.request) \/ CutOff(t)

\* A declaration's request that was answered.
Attributed(r) == pc[r] = "answered" /\ req[r].op = "declaration"

\* declaration_verifier.py pairs two decompositions by their positions: in
\* one language every claim gets an edge, and one judged from itself.
EdgesJudgeTheirOwnClaim ==
  \A r \in Requests :
    Attributed(r) /\ req[r].language = req[r].ingested =>
      /\ Len(edges[r]) = Len(ClaimsFor(r))
      /\ \A i \in DOMAIN edges[r] : edges[r][i].claim = edges[r][i].judged

\* Whatever else a declaration says: contradicted claims make it contradicted,
\* and it counts as supported only when everything in it is.
OverallIsTheWorst ==
  \A r \in Requests :
    Attributed(r) /\ req[r].language = req[r].ingested =>
      LET statuses == {bundles[r][i].status : i \in DOMAIN bundles[r]} IN
      /\ "contradicted" \in statuses <=> Overall(edges[r]) = "contradicted_by"
      /\ Overall(edges[r]) = "supported_by" => statuses = {"supported"}

\* What a declaration was ingested as holds when it is verified, hours later
\* and with a resolver: of one that was not checkable, or lacked a time, no
\* claim gets a verdict.
IngestForetellsAbstention ==
  \A r \in Requests :
    Attributed(r) /\ req[r].language = req[r].ingested
    /\ Declaration(req[r].stmt, req[r].ingested).checkability
         \in {"not_checkable", "insufficient_time_scope"}
    => \A i \in DOMAIN bundles[r] : bundles[r][i].status = "non_checkable"

\* Two nodes with the very name of a Hebrew mention, when the fuzzy scan sees
\* all nodes, are never one to the resolver, unless an alias says so or the
\* mention as it is spelled is in the names of one node only: the CONTAINS
\* fallback of pipeline.py runs after "ambiguous" too, though
\* services/entity_resolution/README.md has it follow "unresolved" alone.
HomonymNeverResolved ==
  \A r \in Requests : \A i \in DOMAIN bundles[r] : \A s \in EntitySlots :
    LET b == bundles[r][i]
        n == Names[b.claim.slots[s]]
    IN /\ Cardinality(Nodes) <= ScanLimit
       /\ b.claim.slots[s] # None /\ b.res.ids[s] # b.claim.slots[s]
       /\ n.hebrew /\ Cardinality(n.exact) > 1
       => \/ b.res.ids[s] \in {h.id : h \in n.alias \cup n.translit}
          \/ n.contains = {b.res.ids[s]}

\* No words of a statement are judged twice: the claims of a request rest on
\* separate stretches of its text, however the templates' matches overlap and
\* whichever of them the choice goes by first.
ClaimsDisjoint ==
  \A r \in Requests : \A i, j \in DOMAIN bundles[r] :
    LET a == bundles[r][i].claim.span
        b == bundles[r][j].claim.span
    IN i # j => a[2] <= b[1] \/ b[2] <= a[1]

\* docs/PROJECT_STATUS.md: the verifier auto-opens kind="declaration" review
\* tasks for ambiguous and contradicted results.
AlarmOpensTask ==
  \A r \in Requests :
    Attributed(r) /\ faults = 0 /\ app = "live"
    /\ Overall(edges[r]) \in ReviewTriggers
    => [kind |-> "declaration", request |-> r, claim |-> 0] \in tasks
=============================================================================
