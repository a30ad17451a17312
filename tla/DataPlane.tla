----------------------------- MODULE DataPlane -----------------------------
(***************************************************************************)
(* The scripts that fill the graph (scripts/ingest_all.sh, seed_demo.py,   *)
(* enrich_vote_bills.py and the adapters' own command lines): each process *)
(* runs the adapters of its script in order, an adapter its pages, a page  *)
(* its statements, and several processes write at once. A process may fail *)
(* anywhere and is started again from the beginning. Archiving and the row *)
(* of ingest_runs are IngestArchive's.                                     *)
(***************************************************************************)
EXTENDS Adapters, FiniteSets, Integers

CONSTANTS Processes,
          Script,          \* process -> the adapters it runs, in order
          Feed,            \* adapter -> the rows its source publishes at first
          PageSize,        \* rows of a page
          Today,           \* the day on which running terms may end
          MaxStarts,       \* bounds how often the processes are started
          MaxFaults        \* bounds the failures

ASSUME BoundsAssumption == MaxStarts \in Nat /\ MaxFaults \in Nat
ASSUME PageSizeAssumption == PageSize \in Nat \ {0}
ASSUME ScriptAssumption ==
  \A p \in Processes : Script[p] \in Seq(AdapterNames \cup {"enrich_vote_bills"})
\* A source publishes a list of rows, and a session's row one of members.
ASSUME FeedAssumption ==
  /\ DOMAIN Feed = AdapterNames
  /\ \A a \in AdapterNames : Feed[a] \in Seq(ToSet(Feed[a]))
  /\ \A row \in ToSet(Feed["attendance"]) : row.attended \in Seq(ToSet(row.attended))
\* PersonToPositionID is the key of KNS_PersonToPosition.
ASSUME PositionsAssumption ==
  \A r1, r2 \in ToSet(Feed["positions"]) :
    /\ {"PersonToPositionID", "PersonID", "FactionID", "FactionName", "PositionID",
        "GovMinistryID", "GovMinistryName", "DutyDesc", "StartDate", "FinishDate"} \subseteq DOMAIN r1
    /\ r1.PersonToPositionID = r2.PersonToPositionID =>
         /\ r1.PersonID = r2.PersonID /\ Office(r1) = Office(r2)
         /\ r1.StartDate = r2.StartDate
ASSUME DaysAssumption ==
  /\ Today \in Int
  /\ \A row \in ToSet(Feed["committee_memberships"]) : row.start_date \in Int \cup {None}

VARIABLES graph,
          feed,            \* what the sources publish now
          state,           \* process -> idle, running, done or failed
          at, page,        \* process -> the adapter and page it reads next
          plan,            \* process -> statements of the page read last, still to run
          starts, faults

vars == <<graph, feed, state, at, page, plan, starts, faults>>

Init ==
  /\ graph = EmptyGraph
  /\ feed = Feed
  /\ state = [p \in Processes |-> "idle"]
  /\ at = [p \in Processes |-> 1]
  /\ page = [p \in Processes |-> 1]
  /\ plan = [p \in Processes |-> << >>]
  /\ starts = 0
  /\ faults = 0

\* A CSV file or an election page is one page.
Paged == {"people", "positions", "gov_decisions", "committees", "sponsorships",
          "bill_initiators"}

\* Page n of what adapter a's source publishes.
PageRows(rows, a, n) ==
  LET last == IF n * PageSize < Len(rows) THEN n * PageSize ELSE Len(rows)
  IN IF a \in Paged THEN SubSeq(rows, (n - 1) * PageSize + 1, last) ELSE rows

\* OData pages carry a next link. The decisions' crawl goes on while a page
\* yields PageSize rows, counted after parse_response has filtered them.
Kept(rows) == {i \in DOMAIN rows : ParseResponse(rows[i])}
HasNext_OffByOne(rows, a, n) ==
  IF a = "gov_decisions" THEN Cardinality(Kept(PageRows(rows, a, n))) > PageSize
  ELSE a \in Paged /\ n * PageSize < Len(rows)
\* Faulty: the crawl goes on behind a short page.
HasNext_ShortGoesOn(rows, a, n) ==
  IF a = "gov_decisions" THEN Cardinality(Kept(PageRows(rows, a, n))) <= PageSize
  ELSE a \in Paged /\ n * PageSize < Len(rows)
HasNext(rows, a, n) ==
  IF a = "gov_decisions" THEN Cardinality(Kept(PageRows(rows, a, n))) >= PageSize
  ELSE a \in Paged /\ n * PageSize < Len(rows)

------------------------------------------------------------------------------
Start(p) ==
  /\ state[p] # "running" /\ starts < MaxStarts
  /\ state' = [state EXCEPT ![p] = "running"]
  /\ at' = [at EXCEPT ![p] = 1]
  /\ page' = [page EXCEPT ![p] = 1]
  /\ starts' = starts + 1
  /\ UNCHANGED <<graph, feed, plan, faults>>

\* Where the process goes on when the page is written: the next page, or the
\* next adapter.
Advance_SamePage(p, more) ==
  /\ at' = [at EXCEPT ![p] = IF more THEN @ ELSE @ + 1]
  /\ page' = [page EXCEPT ![p] = IF more THEN @ ELSE 1]
Advance(p, more) ==
  /\ at' = [at EXCEPT ![p] = IF more THEN @ ELSE @ + 1]
  /\ page' = [page EXCEPT ![p] = IF more THEN @ + 1 ELSE 1]

\* fetch, parse and normalise one page of the source as it is now.
FetchPage(p) ==
  /\ state[p] = "running" /\ plan[p] = << >> /\ at[p] \in DOMAIN Script[p]
  /\ Script[p][at[p]] # "enrich_vote_bills"
  /\ LET a == Script[p][at[p]]
     IN /\ plan' = [plan EXCEPT ![p] = PageStatements(a, PageRows(feed[a], a, page[p]))]
        /\ Advance(p, HasNext(feed[a], a, page[p]))
  /\ UNCHANGED <<graph, feed, state, starts, faults>>

Abandon_ToZero(p) ==
  /\ state' = [state EXCEPT ![p] = "failed"]
  /\ plan' = [plan EXCEPT ![p] = << >>]
  /\ at' = [at EXCEPT ![p] = 0]
  /\ page' = [page EXCEPT ![p] = 1]
Abandon(p) ==
  /\ state' = [state EXCEPT ![p] = "failed"]
  /\ plan' = [plan EXCEPT ![p] = << >>]
  /\ at' = [at EXCEPT ![p] = 1]
  /\ page' = [page EXCEPT ![p] = 1]

\* enrich_vote_bills.py hands fetch to iter_odata_pages by position, which takes
\* it by keyword only: a TypeError, before the first page is read.
EnrichmentRaises(p) ==
  /\ state[p] = "running" /\ plan[p] = << >> /\ at[p] \in DOMAIN Script[p]
  /\ Script[p][at[p]] = "enrich_vote_bills"
  /\ Abandon(p)
  /\ UNCHANGED <<graph, feed, starts, faults>>

\* One run_upsert.
RunUpsert(p) ==
  /\ state[p] = "running" /\ plan[p] # << >>
  /\ graph' = Apply(graph, Head(plan[p]))
  /\ plan' = [plan EXCEPT ![p] = Tail(@)]
  /\ UNCHANGED <<feed, state, at, page, starts, faults>>

Finish(p) ==
  /\ state[p] = "running" /\ plan[p] = << >> /\ at[p] \notin DOMAIN Script[p]
  /\ state' = [state EXCEPT ![p] = "done"]
  /\ UNCHANGED <<graph, feed, at, page, plan, starts, faults>>

\* A source or the graph fails, or the process dies: the exception (set -e in
\* the shell) ends the whole script; what was written stays.
Fail(p) ==
  /\ state[p] = "running" /\ faults < MaxFaults
  /\ Abandon(p)
  /\ faults' = faults + 1
  /\ UNCHANGED <<graph, feed, starts>>

\* The Knesset enters the end of a running term.
PositionEnds(i) ==
  /\ feed["positions"][i].StartDate # None /\ feed["positions"][i].FinishDate = None
  /\ feed' = [feed EXCEPT !["positions"][i].FinishDate = Today]
  /\ UNCHANGED <<graph, state, at, page, plan, starts, faults>>

Step(p) == FetchPage(p) \/ EnrichmentRaises(p) \/ RunUpsert(p) \/ Finish(p)

Next ==
  \/ \E p \in Processes : Start(p) \/ Step(p) \/ Fail(p)
  \/ \E i \in DOMAIN feed["positions"] : PositionEnds(i)

Spec == Init /\ [][Next]_vars

\* A started process is scheduled.
FairSpec == Spec /\ \A p \in Processes : WF_vars(Step(p))

------------------------------------------------------------------------------
(* Properties.                                                             *)

\* The type of every variable.
TypeOK ==
  /\ DOMAIN feed = DOMAIN Feed
  /\ state \in [Processes -> {"idle", "running", "done", "failed"}]
  /\ at \in [Processes -> Nat \ {0}]
  /\ page \in [Processes -> Nat \ {0}]
  /\ starts \in 0 .. MaxStarts
  /\ faults \in 0 .. MaxFaults

\* The adapters p has been through since its last start, and the rows they saw.
Written(p, i) ==
  /\ i < at[p]
  /\ (i = at[p] - 1 /\ page[p] = 1) => plan[p] = << >>
Completed(p, a) == \E i \in DOMAIN Script[p] : Written(p, i) /\ Script[p][i] = a

Seen(a) ==
  IF a \in Paged
  THEN {i \in DOMAIN feed[a] :
          \A n \in 1 .. (i - 1) \div PageSize : HasNext(feed[a], a, n)}
  ELSE DOMAIN feed[a]

\* Once an adapter has run to its end, every node and every edge its rows stand
\* for is in the graph: no template has silently matched nothing, whatever ran
\* before it (positions upsert: "the stub MERGEs above ensure the MATCHes
\* succeed on first run").
LoadedRowsStand ==
  \A p \in Processes : \A a \in DOMAIN feed :
    Completed(p, a) =>
      \A i \in Seen(a) : \A s \in ToSet(RowStatements(a, feed[a][i])) :
        s.key \in DOMAIN graph.nodes \cup DOMAIN graph.edges

\* The dates a row states, now or before its end was entered.
TermDates(start, finish) ==
  {[valid_from |-> start, valid_to |-> None], [valid_from |-> start, valid_to |-> finish]}

\* Whatever office_held answers is one term of the record, with its own start
\* and end: the HELD_OFFICE edge, in which two terms of one office run
\* together, never shows through the position terms.
OfficeAnswersTrue ==
  \A i \in DOMAIN feed["positions"] :
    LET row == feed["positions"][i]
        same == {r \in ToSet(feed["positions"]) :
                   r.PersonID = row.PersonID /\ Office(r) = Office(row)}
    IN OfficeAnswers(graph, Person(row.PersonID), Office(row), None, None)
         \subseteq UNION {TermDates(r.StartDate, r.FinishDate) : r \in same}

\* member_of_committee.cypher: "$valid_to (ISO-8601, nullable = open-ended)".
\* Once the memberships are loaded, a member whose term is open is found today,
\* unless the same person has another term on the same committee that is over
\* or yet to begin: the edge of a pair carries one term, and coalesce mixes the
\* dates of several.
SittingLostOnlyByRejoining ==
  \A p \in Processes : Completed(p, "committee_memberships") =>
    \A row \in ToSet(feed["committee_memberships"]) :
      LET person == Member(row.mk_individual_id) IN
      (/\ ParseMemberships(row) /\ person # << >>
       /\ row.start_date # None /\ row.start_date <= Today /\ row.finish_date = None)
      => \/ MembershipAnswers(graph, person[1], Committee(row.committee_id), Today, Today) # {}
         \/ \E other \in ToSet(feed["committee_memberships"]) :
              /\ Member(other.mk_individual_id) = person
              /\ other.committee_id = row.committee_id /\ other.start_date # None
              /\ other.finish_date # None \/ other.start_date > Today

\* The crawl of the government decisions may miss a decision only behind a page
\* that held a record parse_response drops.
DecisionsLostOnlyBehindADrop ==
  \A p \in Processes : Completed(p, "gov_decisions") =>
    \A i \in DOMAIN feed["gov_decisions"] :
      LET row == feed["gov_decisions"][i]
      IN ParseResponse(row) /\ <<"budgetkey_gov_decision", row.id>> \notin DOMAIN graph.nodes =>
           \E j \in 1 .. ((i - 1) \div PageSize) * PageSize :
             ~ParseResponse(feed["gov_decisions"][j])

\* No step erases a node, an edge, a known attribute or a known end: the stubs
\* an adapter MERGEs for its neighbours' nodes never blank what those loaded.
NothingForgotten ==
  [][\A t \in {"nodes", "edges"} :
       /\ DOMAIN graph[t] \subseteq DOMAIN graph'[t]
       /\ \A k \in DOMAIN graph[t] : \A x \in DOMAIN graph[t][k] :
            graph[t][k][x] # None => graph'[t][k][x] # None]_vars

\* Every step of a running script brings it nearer its end: a statement of its
\* plan is run, a page is read that begins no later than its list ends, or an
\* adapter is through. No crawl goes round in circles or past its list, though
\* that of the decisions has no other bound than the rows parse_response left.
CrawlsAdvance ==
  [][\A p \in Processes : state[p] = "running" /\ state'[p] = "running" =>
       \/ UNCHANGED <<at[p], page[p], plan[p]>>
       \/ UNCHANGED <<at[p], page[p]>> /\ Len(plan'[p]) < Len(plan[p])
       \/ /\ at'[p] = at[p] /\ page'[p] > page[p]
          /\ (page'[p] - 1) * PageSize <= Len(feed[Script[p][at[p]]])
       \/ at'[p] > at[p] /\ at[p] \in DOMAIN Script[p]]_vars

\* A started script ends, if it is scheduled.
StartedScriptsEnd ==
  \A p \in Processes : state[p] = "running" ~> state[p] \in {"done", "failed"}

------------------------------------------------------------------------------
(* The graph implements FactBase.                                          *)

Statements == UNION {ToSet(PageStatements(a, Feed[a])) : a \in DOMAIN Feed}

Facts == {s.key : s \in Statements}
Ends(f) == IF Len(f) = 3 THEN {From(f), To(f)} ELSE {}

F == INSTANCE FactBase
       WITH Record <- Facts, Ends <- Ends, known <- DOMAIN graph.nodes \cup DOMAIN graph.edges

\* What the graph says grows, states only what a source states, and no edge
\* hangs in the air.
ImplementsFactBase == F!Spec
=============================================================================
