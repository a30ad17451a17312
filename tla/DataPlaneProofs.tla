--------------------------- MODULE DataPlaneProofs ---------------------------
(***************************************************************************)
(* Theorems about DataPlane for any scripts, feeds, page size and number   *)
(* of starts and failures. They rest on what one run_upsert does to any    *)
(* graph (ApplyKeeps, ApplyGrounds), and on what the adapters make of any  *)
(* row (AdaptersProofs). The invariant IInv follows a row from the feed    *)
(* through the plan of a script into the graph: it is there, or still to   *)
(* be run by the script that read it last, and its dates stay those of a   *)
(* row through every MERGE.                                                *)
(***************************************************************************)
EXTENDS DataPlane, AdaptersProofs, FiniteSetTheorems

\* No edge hangs in the air: both its ends are nodes of the graph.
Grounded(g) ==
  \A k \in DOMAIN g.edges : From(k) \in DOMAIN g.nodes /\ To(k) \in DOMAIN g.nodes

\* g says at least what f says, table by table.
Keeps(f, g) ==
  /\ DOMAIN f \subseteq DOMAIN g
  /\ \A k \in DOMAIN f : \A x \in DOMAIN f[k] : f[k][x] # None => g[k][x] # None

IsGraph(g) == g = [nodes |-> g.nodes, edges |-> g.edges]

\* The bounds of the typed counters.
LEMMA Bounds == MaxStarts \in Nat /\ MaxFaults \in Nat
BY BoundsAssumption

-----------------------------------------------------------------------------
(* What the templates do to a graph. *)

\* MERGE adds the key and loses none.
LEMMA MergeDomain ==
  ASSUME NEW table, NEW key, NEW props
  PROVE  DOMAIN Merge(table, key, props) = DOMAIN table \cup {key}
BY DEF Merge

\* ON MATCH keeps every known attribute: a null parameter does not erase.
LEMMA CoalesceKeeps ==
  ASSUME NEW old, NEW new, NEW x \in DOMAIN old, old[x] # None
  PROVE  Coalesce(old, new)[x] # None
BY DEF Coalesce

\* MERGE keeps every entry and every known attribute of it.
LEMMA MergeKeeps ==
  ASSUME NEW table, NEW key, NEW props
  PROVE  Keeps(table, Merge(table, key, props))
<1>1. DOMAIN table \subseteq DOMAIN Merge(table, key, props)
  <2>1. DOMAIN Merge(table, key, props) = DOMAIN table \cup {key}
    BY MergeDomain
  <2> QED BY <2>1
<1>2. ASSUME NEW k \in DOMAIN table, NEW x \in DOMAIN table[k], table[k][x] # None
      PROVE  Merge(table, key, props)[k][x] # None
  <2>1. CASE k # key
    BY <1>2, <2>1 DEF Merge
  <2>2. CASE k = key
    <3>1. Merge(table, key, props)[k] = Coalesce(table[k], props)
      BY <2>2 DEF Merge
    <3> QED BY <1>2, <3>1, CoalesceKeeps
  <2> QED BY <2>1, <2>2
<1> QED BY <1>1, <1>2 DEF Keeps

\* A table that is left alone keeps what it says.
LEMMA KeepsSelf == ASSUME NEW table PROVE Keeps(table, table)
BY DEF Keeps

\* A statement changes one table, by one MERGE, or nothing.
LEMMA ApplyCases ==
  ASSUME NEW g, NEW s, IsGraph(g)
  PROVE  \/ Apply(g, s) = [nodes |-> Merge(g.nodes, s.key, s.props), edges |-> g.edges]
         \/ /\ Apply(g, s) = [nodes |-> g.nodes, edges |-> Merge(g.edges, s.key, s.props)]
            /\ From(s.key) \in DOMAIN g.nodes /\ To(s.key) \in DOMAIN g.nodes
         \/ Apply(g, s) = g
<1>1. g = [nodes |-> g.nodes, edges |-> g.edges]
  BY DEF IsGraph
<1>2. UpsertNode(g, s) = [nodes |-> Merge(g.nodes, s.key, s.props), edges |-> g.edges]
  BY <1>1 DEF UpsertNode
<1>3. [g EXCEPT !.edges = Merge(@, s.key, s.props)]
        = [nodes |-> g.nodes, edges |-> Merge(g.edges, s.key, s.props)]
  BY <1>1
<1>4. \/ UpsertEdge(g, s) = g
      \/ /\ UpsertEdge(g, s) = [g EXCEPT !.edges = Merge(@, s.key, s.props)]
         /\ From(s.key) \in DOMAIN g.nodes /\ To(s.key) \in DOMAIN g.nodes
  BY DEF UpsertEdge
<1> QED BY <1>2, <1>3, <1>4 DEF Apply

\* run_upsert keeps both tables.
LEMMA ApplyKeeps ==
  ASSUME NEW g, NEW s, IsGraph(g)
  PROVE  /\ IsGraph(Apply(g, s))
         /\ Keeps(g.nodes, Apply(g, s).nodes)
         /\ Keeps(g.edges, Apply(g, s).edges)
BY ApplyCases, MergeKeeps, KeepsSelf DEF IsGraph

\* run_upsert draws an edge between nodes only.
LEMMA ApplyGrounds ==
  ASSUME NEW g, NEW s, IsGraph(g), Grounded(g)
  PROVE  Grounded(Apply(g, s))
<1>1. CASE Apply(g, s) = [nodes |-> Merge(g.nodes, s.key, s.props), edges |-> g.edges]
  <2>1. DOMAIN Merge(g.nodes, s.key, s.props) = DOMAIN g.nodes \cup {s.key}
    BY MergeDomain
  <2>2. Apply(g, s).edges = g.edges /\ DOMAIN g.nodes \subseteq DOMAIN Apply(g, s).nodes
    BY <1>1, <2>1
  <2> QED BY <2>2 DEF Grounded
<1>2. CASE /\ Apply(g, s) = [nodes |-> g.nodes, edges |-> Merge(g.edges, s.key, s.props)]
           /\ From(s.key) \in DOMAIN g.nodes /\ To(s.key) \in DOMAIN g.nodes
  <2>1. DOMAIN Merge(g.edges, s.key, s.props) = DOMAIN g.edges \cup {s.key}
    BY MergeDomain
  <2>2. /\ Apply(g, s).nodes = g.nodes
        /\ DOMAIN Apply(g, s).edges = DOMAIN g.edges \cup {s.key}
    BY <1>2, <2>1
  <2> QED BY <1>2, <2>2 DEF Grounded
<1>3. CASE Apply(g, s) = g
  BY <1>3
<1> QED BY <1>1, <1>2, <1>3, ApplyCases

-----------------------------------------------------------------------------
(* The inductive invariant, in terms of the feeds as they are at first:    *)
(* their rows never change but for the end of a term, and so never what    *)
(* they name.                                                              *)

Rows(a) == DOMAIN Feed[a]
RowKeys(a, row) == {s.key : s \in ToSet(RowStatements(a, row))}
RowFacts(a, i) == RowKeys(a, Feed[a][i])
GraphKeys == DOMAIN graph.nodes \cup DOMAIN graph.edges
Position(i) == Feed["positions"][i]
Membership(i) == Feed["committee_memberships"][i]

\* The feeds: nothing changes but the end of a running term, once.
FeedInv ==
  /\ DOMAIN feed = AdapterNames
  /\ \A a \in AdapterNames : IsSeq(feed[a]) /\ Len(feed[a]) = Len(Feed[a])
  /\ \A a \in AdapterNames \ {"positions"} : feed[a] = Feed[a]
  /\ \A i \in Rows("positions") :
       \/ feed["positions"][i] = Position(i)
       \/ /\ Position(i).FinishDate = None
          /\ feed["positions"][i] = [Position(i) EXCEPT !.FinishDate = Today]

\* A statement of some row, as it is or as it was.
Sourced(s) ==
  \E a \in AdapterNames : \E i \in Rows(a) :
    s \in ToSet(RowStatements(a, Feed[a][i])) \cup ToSet(RowStatements(a, feed[a][i]))

\* What is still to run was read from a source, by a script that runs, and can
\* be run in its turn whatever else is written meanwhile.
PlanInv ==
  /\ DOMAIN plan = Processes
  /\ \A p \in Processes :
       /\ state[p] # "running" => plan[p] = << >>
       /\ \A s \in ToSet(plan[p]) : Sourced(s)
       /\ Ordered(DOMAIN graph.nodes, plan[p])

\* The graph holds nodes and edges that a source states.
KeyInv ==
  /\ \A k \in DOMAIN graph.nodes : Len(k) = 2 /\ k \in Facts
  /\ \A k \in DOMAIN graph.edges : Len(k) = 3 /\ k \in Facts

\* The rows an adapter reads before its crawl ends, and those that the k-th
\* adapter of p's script has read.
Reads(a) ==
  IF a \in Paged THEN {i \in Rows(a) : \A n \in 1 .. (i - 1) \div PageSize : HasNext(Feed[a], a, n)}
                 ELSE Rows(a)
HasRead(p, k, i) ==
  \/ k < at[p] /\ i \in Reads(Script[p][k])
  \/ k = at[p] /\ i <= (page[p] - 1) * PageSize
Pending(p, k) ==
  \/ k = at[p] - 1 /\ page[p] = 1
  \/ k = at[p] /\ page[p] > 1
PlanKeys(p, k) == IF Pending(p, k) THEN {s.key : s \in ToSet(plan[p])} ELSE {}

\* What was read is in the graph, or is still to run if it was read last.
OwedInv ==
  \A p \in Processes : \A k \in DOMAIN Script[p] :
    Script[p][k] \in AdapterNames =>
      \A i \in Rows(Script[p][k]) :
        HasRead(p, k, i) => RowFacts(Script[p][k], i) \subseteq GraphKeys \cup PlanKeys(p, k)

\* The dates of a position term are those of a row of that id.
PositionDated(d, i) ==
  /\ {"valid_from", "valid_to"} \subseteq DOMAIN d
  /\ d.valid_from = Position(i).StartDate
  /\ d.valid_to \in {None, feed["positions"][i].FinishDate}
TermInv ==
  \A k \in DOMAIN graph.nodes : k[1] = "knesset_position_term" =>
    \E i \in Rows("positions") : Term(Position(i)) = k /\ PositionDated(graph.nodes[k], i)

\* The start and the end of a seat are those of a row each.
SeatOf(i) == <<"MEMBER_OF_COMMITTEE", Person(MkLookup[Membership(i).mk_individual_id]),
               Committee(Membership(i).committee_id)>>
Seats(k) == {i \in Rows("committee_memberships") : Sits(Membership(i)) /\ SeatOf(i) = k}
SeatInv ==
  \A k \in DOMAIN graph.edges : k[1] = "MEMBER_OF_COMMITTEE" =>
    /\ {"valid_from", "valid_to"} \subseteq DOMAIN graph.edges[k]
    /\ \E i \in Seats(k) : graph.edges[k].valid_from = Membership(i).start_date
    /\ \E i \in Seats(k) : graph.edges[k].valid_to \in {None, Membership(i).finish_date}

\* The edge of a person and an office states the term of its first row, unless a
\* position term is there to answer instead; so does one still to be drawn.
Holds(i) == Listed(Position(i)) /\ Position(i).PositionID # None
HeldOf(i) == <<"HELD_OFFICE", Person(Position(i).PersonID), Office(Position(i))>>
FirstHeld(k) ==
  {i \in Rows("positions") : /\ Holds(i) /\ HeldOf(i) = k
                             /\ \A h \in 1 .. i - 1 : ~(Holds(h) /\ HeldOf(h) = k)}
FirstTerm(k, d) == \E i \in FirstHeld(k) : PositionDated(d, i)
TermIn(E, k) ==
  \E t : <<"HAS_POSITION_TERM", k[2], t>> \in E /\ <<"ABOUT_OFFICE", t, k[3]>> \in E
HeldInv ==
  /\ \A k \in DOMAIN graph.edges : k[1] = "HELD_OFFICE" =>
       TermIn(GraphKeys, k) \/ FirstTerm(k, graph.edges[k])
  /\ \A p \in Processes : \A j \in DOMAIN plan[p] :
       plan[p][j].key[1] = "HELD_OFFICE" =>
         \/ TermIn(GraphKeys \cup {s.key : s \in Before(plan[p], j)}, plan[p][j].key)
         \/ FirstTerm(plan[p][j].key, plan[p][j].props)

IInv ==
  /\ TypeOK /\ IsGraph(graph) /\ Grounded(graph)
  /\ FeedInv /\ PlanInv /\ KeyInv /\ OwedInv
  /\ TermInv /\ SeatInv /\ HeldInv

-----------------------------------------------------------------------------
(* The rows, and what they state. *)

\* The feeds are lists, of rows whose statements can all be run.
LEMMA FeedIsList ==
  ASSUME NEW a \in AdapterNames
  PROVE  IsSeq(Feed[a]) /\ Len(Feed[a]) \in Nat /\ Rows(a) = 1 .. Len(Feed[a])
BY FeedAssumption, SeqDomain DEF IsSeq, Rows

\* A session's row lists its members.
LEMMA AttendedIsList ==
  ASSUME NEW i \in Rows("attendance")
  PROVE  IsSeq(Feed["attendance"][i].attended)
<1>1. Feed["attendance"][i] \in ToSet(Feed["attendance"])
  BY DEF ToSet, Rows
<1> QED BY <1>1, FeedAssumption DEF IsSeq

\* The statements of a row can be run in their order on any graph.
LEMMA FeedOrdered ==
  ASSUME NEW a \in AdapterNames, NEW i \in Rows(a)
  PROVE  Ordered({}, RowStatements(a, Feed[a][i]))
BY AttendedIsList, RowOrdered

\* So can those of a row as it is published now.
LEMMA NowOrdered ==
  ASSUME FeedInv, NEW a \in AdapterNames, NEW i \in Rows(a)
  PROVE  Ordered({}, RowStatements(a, feed[a][i]))
<1>1. CASE a = "positions"
  BY <1>1, RowOrdered
<1>2. CASE a # "positions"
  <2>1. feed[a] = Feed[a]
    BY <1>2 DEF FeedInv
  <2> QED BY <2>1, FeedOrdered
<1> QED BY <1>1, <1>2

\* The feeds as they are now are lists too.
LEMMA NowIsList ==
  ASSUME FeedInv, NEW a \in AdapterNames
  PROVE  IsSeq(feed[a]) /\ Len(feed[a]) = Len(Feed[a]) /\ DOMAIN feed[a] = Rows(a)
BY FeedIsList, SeqDomain DEF FeedInv

\* The columns of a row of positions.
LEMMA PositionColumns ==
  ASSUME NEW i \in Rows("positions")
  PROVE  {"PersonToPositionID", "PersonID", "FactionID", "FactionName", "PositionID",
          "GovMinistryID", "GovMinistryName", "DutyDesc", "StartDate", "FinishDate"}
           \subseteq DOMAIN Position(i)
<1>1. Position(i) \in ToSet(Feed["positions"])
  BY DEF ToSet, Rows, Position
<1> QED BY <1>1, PositionsAssumption

\* PersonToPositionID is a key.
LEMMA TermIsKey ==
  ASSUME NEW i \in Rows("positions"), NEW j \in Rows("positions"),
         Term(Position(i)) = Term(Position(j))
  PROVE  /\ Position(i).PersonID = Position(j).PersonID
         /\ Office(Position(i)) = Office(Position(j))
         /\ Position(i).StartDate = Position(j).StartDate
<1>1. Position(i) \in ToSet(Feed["positions"]) /\ Position(j) \in ToSet(Feed["positions"])
  BY DEF ToSet, Rows, Position
<1>2. Position(i).PersonToPositionID = Position(j).PersonToPositionID
  BY DEF Term
<1> QED BY <1>1, <1>2, PositionsAssumption

\* The end of a term changes nothing else of its row.
LEMMA Version ==
  ASSUME FeedInv, NEW i \in Rows("positions")
  PROVE  LET now == feed["positions"][i] row == Position(i) IN
         /\ Office(now) = Office(row) /\ Term(now) = Term(row)
         /\ OfficeName(now) = OfficeName(row) /\ OfficeType(now) = OfficeType(row)
         /\ now.PersonID = row.PersonID /\ now.StartDate = row.StartDate
         /\ now.FactionID = row.FactionID /\ now.FactionName = row.FactionName
         /\ now.PositionID = row.PositionID
         /\ Listed(now) = Listed(row)
         /\ row.FinishDate \in {None, now.FinishDate}
<1> DEFINE now == feed["positions"][i]
           row == Position(i)
<1>1. CASE now = row
  BY <1>1
<1>2. CASE row.FinishDate = None /\ now = [row EXCEPT !.FinishDate = Today]
  <2>1. /\ now.PersonToPositionID = row.PersonToPositionID
        /\ now.PersonID = row.PersonID /\ now.StartDate = row.StartDate
        /\ now.FactionID = row.FactionID /\ now.FactionName = row.FactionName
        /\ now.PositionID = row.PositionID /\ now.GovMinistryID = row.GovMinistryID
        /\ now.GovMinistryName = row.GovMinistryName /\ now.DutyDesc = row.DutyDesc
    <3>1. \A x \in DOMAIN row : x # "FinishDate" => now[x] = row[x]
      <4> HIDE DEF row, now
      <4> QED BY <1>2
    <3> HIDE DEF row, now
    <3> QED BY <3>1, PositionColumns DEF row
  <2> HIDE DEF row, now
  <2>2. OfficeType(now) = OfficeType(row)
    BY <2>1 DEF OfficeType
  <2>3. OfficeName(now) = OfficeName(row)
    BY <2>1, <2>2 DEF OfficeName
  <2>4. Office(now) = Office(row) /\ Term(now) = Term(row)
    BY <2>1 DEF Office, Term
  <2>5. Listed(now) = Listed(row)
    BY <2>1 DEF Listed, ParsePositions
  <2> QED BY <1>2, <2>1, <2>2, <2>3, <2>4, <2>5 DEF now, row
<1>3. now = row \/ (row.FinishDate = None /\ now = [row EXCEPT !.FinishDate = Today])
  BY DEF FeedInv
<1> QED BY <1>1, <1>2, <1>3

\* Nor does it change what the row is about.
LEMMA NowFacts ==
  ASSUME FeedInv, NEW a \in AdapterNames, NEW i \in Rows(a)
  PROVE  RowKeys(a, feed[a][i]) = RowFacts(a, i)
<1>1. CASE a # "positions"
  BY <1>1 DEF FeedInv, RowFacts
<1>2. CASE a = "positions"
  <2> DEFINE now == feed["positions"][i]
             row == Position(i)
             Keys(S) == {s.key : s \in S}
  <2>1. i \in Rows("positions")
    BY <1>2
  <2>2. /\ Office(now) = Office(row) /\ Term(now) = Term(row)
        /\ now.PersonID = row.PersonID /\ now.FactionID = row.FactionID
        /\ now.PositionID = row.PositionID /\ Listed(now) = Listed(row)
    BY <2>1, Version
  <2> HIDE DEF now, row
  <2>3. Keys(PartyFacts(now)) = Keys(PartyFacts(row))
    <3>1. \A r : Keys(PartyFacts(r)) =
            {Party(r.FactionID), <<"MEMBER_OF", Person(r.PersonID), Party(r.FactionID)>>}
      BY DEF PartyFacts, Node, Edge
    <3> HIDE DEF Keys
    <3> QED BY <2>2, <3>1
  <2>4. Keys(OfficeFacts(now)) = Keys(OfficeFacts(row))
    <3>1. \A r : Keys(OfficeFacts(r)) =
            {Office(r), <<"HELD_OFFICE", Person(r.PersonID), Office(r)>>, Term(r),
             <<"HAS_POSITION_TERM", Person(r.PersonID), Term(r)>>,
             <<"ABOUT_OFFICE", Term(r), Office(r)>>}
      BY DEF OfficeFacts, Node, Edge
    <3> HIDE DEF Keys
    <3> QED BY <2>2, <3>1
  <2>5. Keys(PositionFacts(now)) = Keys(PositionFacts(row))
    <3> DEFINE A(r) == IF r.FactionID # None THEN PartyFacts(r) ELSE {}
               B(r) == IF r.PositionID # None THEN OfficeFacts(r) ELSE {}
               C(r) == {PersonStub(Person(r.PersonID))}
    <3>1. Keys(A(now)) = Keys(A(row)) /\ Keys(B(now)) = Keys(B(row)) /\ C(now) = C(row)
      <4>1. Keys(A(now)) = Keys(A(row))
        <5>1. \/ A(now) = {} /\ A(row) = {}
              \/ A(now) = PartyFacts(now) /\ A(row) = PartyFacts(row)
          BY <2>2
        <5> HIDE DEF Keys, A
        <5> QED BY <2>3, <5>1
      <4>2. Keys(B(now)) = Keys(B(row))
        <5>1. \/ B(now) = {} /\ B(row) = {}
              \/ B(now) = OfficeFacts(now) /\ B(row) = OfficeFacts(row)
          BY <2>2
        <5> HIDE DEF Keys, B
        <5> QED BY <2>4, <5>1
      <4>3. C(now) = C(row)
        BY <2>2
      <4> HIDE DEF Keys, A, B, C
      <4> QED BY <4>1, <4>2, <4>3
    <3>2. \A r : Keys(C(r) \cup A(r) \cup B(r)) = Keys(C(r)) \cup Keys(A(r)) \cup Keys(B(r))
      <4> HIDE DEF A, B, C
      <4> QED OBVIOUS
    <3>3. \A r : PositionFacts(r) = IF Listed(r) THEN C(r) \cup A(r) \cup B(r) ELSE {}
      BY DEF PositionFacts
    <3> HIDE DEF Keys, A, B, C
    <3>4. Keys(C(now) \cup A(now) \cup B(now)) = Keys(C(row) \cup A(row) \cup B(row))
      <4>1. Keys(C(now) \cup A(now) \cup B(now)) = Keys(C(now)) \cup Keys(A(now)) \cup Keys(B(now))
        BY <3>2
      <4>2. Keys(C(row) \cup A(row) \cup B(row)) = Keys(C(row)) \cup Keys(A(row)) \cup Keys(B(row))
        BY <3>2
      <4> QED BY <3>1, <4>1, <4>2
    <3> QED BY <2>2, <3>3, <3>4
  <2>6. RowKeys("positions", now) = RowKeys("positions", row)
    BY <2>5, PositionsRow DEF RowKeys, States
  <2> QED BY <1>2, <2>6 DEF RowFacts, Position, now, row
<1> QED BY <1>1, <1>2

\* The record is what the rows state.
LEMMA FactsAre == Facts = UNION {UNION {RowFacts(a, i) : i \in Rows(a)} : a \in AdapterNames}
<1>1. ASSUME NEW a \in AdapterNames
      PROVE  ToSet(PageStatements(a, Feed[a])) = UNION {ToSet(RowStatements(a, Feed[a][i])) : i \in Rows(a)}
  BY FeedIsList, FeedOrdered, PageStates DEF Rows
<1>2. DOMAIN Feed = AdapterNames
  BY FeedAssumption
<1>3. ASSUME NEW k \in Facts
      PROVE  k \in UNION {UNION {RowFacts(a, i) : i \in Rows(a)} : a \in AdapterNames}
  <2>1. PICK s \in Statements : k = s.key
    BY DEF Facts
  <2>2. PICK a \in AdapterNames : s \in ToSet(PageStatements(a, Feed[a]))
    BY <1>2 DEF Statements
  <2>3. PICK i \in Rows(a) : s \in ToSet(RowStatements(a, Feed[a][i]))
    BY <1>1, <2>2
  <2> QED BY <2>1, <2>3 DEF RowFacts, RowKeys
<1>4. ASSUME NEW a \in AdapterNames, NEW i \in Rows(a), NEW k \in RowFacts(a, i)
      PROVE  k \in Facts
  <2>1. PICK s \in ToSet(RowStatements(a, Feed[a][i])) : k = s.key
    BY DEF RowFacts, RowKeys
  <2>2. s \in Statements
    BY <1>1, <1>2 DEF Statements
  <2> QED BY <2>1, <2>2 DEF Facts
<1> QED BY <1>3, <1>4

\* What a sourced statement states is in the record.
LEMMA SourcedFact ==
  ASSUME FeedInv, NEW s, Sourced(s)
  PROVE  s.key \in Facts
<1>a. PICK a \in AdapterNames : \E i \in Rows(a) :
        s \in ToSet(RowStatements(a, Feed[a][i])) \cup ToSet(RowStatements(a, feed[a][i]))
  BY DEF Sourced
<1>1. PICK i \in Rows(a) :
        s \in ToSet(RowStatements(a, Feed[a][i])) \cup ToSet(RowStatements(a, feed[a][i]))
  BY <1>a
<1>2. s.key \in RowFacts(a, i)
  BY <1>1, NowFacts DEF RowFacts, RowKeys
<1> QED BY <1>2, FactsAre

\* Which rows speak of terms and offices, and what they say.
OfPosition(s, i) ==
  \/ s.op = "node" /\ s.key = Term(Position(i)) /\ PositionDated(s.props, i)
  \/ s.op = "edge" /\ s.key = HeldOf(i) /\ PositionDated(s.props, i)
  \/ s.op = "edge" /\ s.key = <<"HAS_POSITION_TERM", Person(Position(i).PersonID), Term(Position(i))>>
  \/ s.op = "edge" /\ s.key = <<"ABOUT_OFFICE", Term(Position(i)), Office(Position(i))>>
OfMembership(s, i) ==
  /\ s.op = "edge" /\ Sits(Membership(i)) /\ s.key = SeatOf(i)
  /\ s.props = MembershipDates(Membership(i))

\* A statement about a term or an office held says what a row of positions says.
LEMMA PositionSays ==
  ASSUME FeedInv, NEW i \in Rows("positions"),
         NEW row \in {Position(i), feed["positions"][i]},
         NEW s \in ToSet(RowStatements("positions", row)), ~Plain(s)
  PROVE  Holds(i) /\ OfPosition(s, i)
<1>1. /\ Office(row) = Office(Position(i)) /\ Term(row) = Term(Position(i))
      /\ row.PersonID = Position(i).PersonID /\ row.StartDate = Position(i).StartDate
      /\ row.PositionID = Position(i).PositionID
      /\ Listed(row) = Listed(Position(i))
      /\ row.FinishDate \in {None, feed["positions"][i].FinishDate}
  BY Version
<1>2. s \in PositionFacts(row)
  BY PositionsRow DEF States
<1>3. Plain(PersonStub(Person(row.PersonID)))
  BY NodePlain DEF PersonStub, Person, NodeKinds
<1>4. \A props : Plain(Node(Party(row.FactionID), props))
  BY NodePlain DEF Party, NodeKinds
<1>5. Plain(Edge("MEMBER_OF", Person(row.PersonID), Party(row.FactionID), PositionDates(row)))
  BY DEF Plain, Edge
<1>6. Plain(Node(Office(row), [name |-> OfficeName(row)]))
  BY NodePlain DEF Office, NodeKinds
<1>7. Listed(row) /\ row.PositionID # None /\ s \in OfficeFacts(row)
  BY <1>2, <1>3, <1>4, <1>5 DEF PositionFacts, PartyFacts
<1>8. Holds(i)
  BY <1>1, <1>7 DEF Holds
<1>9. PositionDated(PositionDates(row), i)
  BY <1>1 DEF PositionDated, PositionDates
<1>10. \A body : PositionDated([valid_from |-> row.StartDate, valid_to |-> row.FinishDate,
                                appointing_body |-> body], i)
  BY <1>1 DEF PositionDated
<1>11. CASE s = Edge("HELD_OFFICE", Person(row.PersonID), Office(row), PositionDates(row))
  BY <1>1, <1>8, <1>9, <1>11 DEF OfPosition, HeldOf, Edge
<1>12. CASE s.op = "node" /\ s.key = Term(row) /\ PositionDated(s.props, i)
  BY <1>1, <1>8, <1>12 DEF OfPosition
<1>13. CASE s = Edge("HAS_POSITION_TERM", Person(row.PersonID), Term(row), << >>)
  BY <1>1, <1>8, <1>13 DEF OfPosition, Edge
<1>14. CASE s = Edge("ABOUT_OFFICE", Term(row), Office(row), << >>)
  BY <1>1, <1>8, <1>14 DEF OfPosition, Edge
<1>15. \A body : LET n == Node(Term(row), [valid_from |-> row.StartDate, valid_to |-> row.FinishDate,
                                           appointing_body |-> body])
                 IN  n.op = "node" /\ n.key = Term(row) /\ PositionDated(n.props, i)
  BY <1>10 DEF Node
<1> QED BY <1>6, <1>7, <1>8, <1>11, <1>12, <1>13, <1>14, <1>15 DEF OfficeFacts

\* A statement about a seat says what a membership that sits says.
LEMMA MembershipSays ==
  ASSUME NEW i \in Rows("committee_memberships"),
         NEW s \in ToSet(RowStatements("committee_memberships", Membership(i))), ~Plain(s)
  PROVE  OfMembership(s, i)
<1> DEFINE row == Membership(i)
           person == Person(MkLookup[row.mk_individual_id])
<1>1. Sits(row) /\ s \in {PersonStub(person),
                          Node(Committee(row.committee_id),
                               [canonical_name |-> None, hebrew_name |-> row.committee_name]),
                          Edge("MEMBER_OF_COMMITTEE", person, Committee(row.committee_id),
                               MembershipDates(row))}
  BY MembershipsRow DEF States
<1>2. Plain(PersonStub(person))
  BY NodePlain DEF PersonStub, Person, NodeKinds
<1>3. \A props : Plain(Node(Committee(row.committee_id), props))
  BY NodePlain DEF Committee, NodeKinds
<1>4. s = Edge("MEMBER_OF_COMMITTEE", person, Committee(row.committee_id), MembershipDates(row))
  <2> HIDE DEF row, person
  <2> QED BY <1>1, <1>2, <1>3
<1> QED BY <1>1, <1>4 DEF OfMembership, SeatOf, Edge

\* A statement that is not plain is a membership's, or one of a position's.
LEMMA Origin ==
  ASSUME FeedInv, NEW s, Sourced(s), ~Plain(s)
  PROVE  \/ \E i \in Rows("positions") : Holds(i) /\ OfPosition(s, i)
         \/ \E i \in Rows("committee_memberships") : OfMembership(s, i)
<1>a. PICK a \in AdapterNames : \E i \in Rows(a) :
        s \in ToSet(RowStatements(a, Feed[a][i])) \cup ToSet(RowStatements(a, feed[a][i]))
  BY DEF Sourced
<1>1. PICK i \in Rows(a) :
        s \in ToSet(RowStatements(a, Feed[a][i])) \cup ToSet(RowStatements(a, feed[a][i]))
  BY <1>a
<1>2. CASE a = "positions"
  BY <1>1, <1>2, PositionSays DEF Position
<1>3. CASE a = "committee_memberships"
  <2>1. s \in ToSet(RowStatements("committee_memberships", Membership(i)))
    BY <1>1, <1>3 DEF FeedInv, Membership
  <2> QED BY <1>3, <2>1, MembershipSays
<1>4. CASE a \notin {"positions", "committee_memberships"}
  <2>1. s \in ToSet(RowStatements(a, Feed[a][i]))
    BY <1>1, <1>4 DEF FeedInv
  <2>2. AllPlain(RowStatements(a, Feed[a][i]))
    BY <1>4, OthersPlain, AttendedIsList
  <2> QED BY <2>1, <2>2 DEF AllPlain
<1> QED BY <1>2, <1>3, <1>4

-----------------------------------------------------------------------------
(* What a step does to the feeds. *)

\* The row of a term that ends is as it was at first.
LEMMA FeedMoves ==
  ASSUME FeedInv, [Next]_vars
  PROVE  /\ FeedInv'
         /\ \A a \in AdapterNames : \A i \in Rows(a) :
              \/ feed'[a][i] = feed[a][i]
              \/ a = "positions" /\ feed[a][i] = Position(i) /\ Position(i).FinishDate = None
<1>1. CASE feed' = feed
  BY <1>1 DEF FeedInv
<1>2. CASE \E i \in DOMAIN feed["positions"] : PositionEnds(i)
  <2>1. PICK i \in Rows("positions") : PositionEnds(i)
    BY <1>2, NowIsList DEF AdapterNames
  <2> DEFINE rows == feed["positions"]
             next == [rows EXCEPT ![i].FinishDate = Today]
  <2>2. "positions" \in AdapterNames /\ DOMAIN feed = AdapterNames
    BY DEF FeedInv, AdapterNames
  <2>3. feed' = [feed EXCEPT !["positions"] = next]
    BY <2>1 DEF PositionEnds
  <2>4. IsSeq(rows) /\ Len(rows) = Len(Feed["positions"]) /\ DOMAIN rows = Rows("positions")
    BY <2>2, NowIsList
  <2>5. \A j \in Rows("positions") :
          next[j] = IF j = i THEN [rows[i] EXCEPT !.FinishDate = Today] ELSE rows[j]
    BY <2>4
  <2>6. next[i] = [Position(i) EXCEPT !.FinishDate = Today] /\ Position(i).FinishDate = None
    <3>1. rows[i] = Position(i) \/
          (Position(i).FinishDate = None /\ rows[i] = [Position(i) EXCEPT !.FinishDate = Today])
      BY DEF FeedInv
    <3>2. rows[i].FinishDate = None
      BY <2>1 DEF PositionEnds
    <3> HIDE DEF rows, next
    <3> QED BY <2>5, <3>1, <3>2
  <2>7. next[i] = rows[i] \/ rows[i] = Position(i)
    <3>1. rows[i] = Position(i) \/ rows[i] = [Position(i) EXCEPT !.FinishDate = Today]
      BY DEF FeedInv
    <3> HIDE DEF rows, next
    <3> QED BY <2>6, <3>1
  <2>8. IsSeq(next) /\ Len(next) = Len(rows)
    <3> DEFINE T == ToSet(rows) \cup {next[i]}
    <3>1. Len(rows) \in Nat /\ DOMAIN rows = 1 .. Len(rows)
      BY <2>4, SeqDomain
    <3>2. next \in [1 .. Len(rows) -> T]
      BY <2>4, <2>5, <3>1 DEF ToSet
    <3> HIDE DEF next, T, rows
    <3>3. next \in Seq(T) /\ Len(next) = Len(rows)
      BY <3>1, <3>2
    <3> QED BY <3>3, SeqNarrow
  <2>9. \A a \in AdapterNames \ {"positions"} : feed'[a] = feed[a]
    BY <2>2, <2>3
  <2>10. feed'["positions"] = next /\ DOMAIN feed' = AdapterNames
    BY <2>2, <2>3
  <2>11. FeedInv'
    <3>1. \A a \in AdapterNames : IsSeq(feed'[a]) /\ Len(feed'[a]) = Len(Feed[a])
      <4> HIDE DEF next, rows
      <4> QED BY <2>4, <2>8, <2>9, <2>10 DEF FeedInv
    <3>2. \A j \in Rows("positions") :
            \/ next[j] = Position(j)
            \/ /\ Position(j).FinishDate = None
               /\ next[j] = [Position(j) EXCEPT !.FinishDate = Today]
      <4> SUFFICES ASSUME NEW j \in Rows("positions")
                   PROVE  \/ next[j] = Position(j)
                          \/ /\ Position(j).FinishDate = None
                             /\ next[j] = [Position(j) EXCEPT !.FinishDate = Today]
        OBVIOUS
      <4>1. CASE j = i
        <5> HIDE DEF next
        <5> QED BY <2>6, <4>1
      <4>2. CASE j # i
        BY <2>5, <4>2 DEF FeedInv
      <4> QED BY <4>1, <4>2
    <3>3. \A a \in AdapterNames \ {"positions"} : feed'[a] = Feed[a]
      BY <2>9 DEF FeedInv
    <3> HIDE DEF next
    <3> QED BY <2>10, <3>1, <3>2, <3>3 DEF FeedInv, Rows, Position
  <2> HIDE DEF next
  <2> QED BY <2>5, <2>6, <2>7, <2>9, <2>10, <2>11
<1> QED BY <1>1, <1>2 DEF Next, Step, vars, Start, FetchPage, EnrichmentRaises, RunUpsert, Finish, Fail

\* What a row stated once stays stated.
LEMMA SourcedStays ==
  ASSUME FeedInv, [Next]_vars, NEW s, Sourced(s)
  PROVE  Sourced(s)'
<1>1. PICK a \in AdapterNames : \E i \in Rows(a) :
        s \in ToSet(RowStatements(a, Feed[a][i])) \cup ToSet(RowStatements(a, feed[a][i]))
  BY DEF Sourced
<1>2. PICK i \in Rows(a) :
        s \in ToSet(RowStatements(a, Feed[a][i])) \cup ToSet(RowStatements(a, feed[a][i]))
  BY <1>1
<1>3. s \in ToSet(RowStatements(a, Feed[a][i])) \cup ToSet(RowStatements(a, feed'[a][i]))
  <2>1. feed'[a][i] = feed[a][i] \/ feed[a][i] = Feed[a][i]
    BY FeedMoves DEF Position
  <2> QED BY <1>2, <2>1
<1> QED BY <1>3 DEF Sourced, Rows

\* Dates of a term that a row once stated stay dates of that row.
LEMMA DatedStays ==
  ASSUME FeedInv, [Next]_vars, NEW d, NEW i \in Rows("positions"), PositionDated(d, i)
  PROVE  PositionDated(d, i)'
<1>1. \/ feed'["positions"][i] = feed["positions"][i]
      \/ feed["positions"][i].FinishDate = None
  BY FeedMoves DEF AdapterNames
<1> QED BY <1>1 DEF PositionDated, Position

-----------------------------------------------------------------------------
(* Pages. *)

Above(a, m) == IF a \in Paged THEN (m - 1) * PageSize ELSE 0

\* The rows above a page are a number of rows.
LEMMA AboveNat ==
  ASSUME NEW a, NEW m \in Nat \ {0}
  PROVE  /\ Above(a, m) \in Nat /\ (m - 1) * PageSize \in Nat
         /\ m * PageSize = (m - 1) * PageSize + PageSize
<1>1. PageSize \in Nat /\ PageSize > 0
  BY PageSizeAssumption
<1>2. m - 1 \in Nat
  OBVIOUS
<1>3. (m - 1) * PageSize \in Nat
  BY <1>1, <1>2
<1>4. m * PageSize = (m - 1) * PageSize + PageSize
  BY <1>1
<1> QED BY <1>3, <1>4 DEF Above

\* Row i is on a page up to the m-th just when that page's last row is at or below it.
LEMMA PageOf ==
  ASSUME NEW i \in Nat \ {0}, NEW m \in Nat \ {0}, (i - 1) \div PageSize < m
  PROVE  i <= m * PageSize
<1>1. PageSize \in Nat /\ PageSize > 0
  BY PageSizeAssumption
<1> DEFINE q == (i - 1) \div PageSize
<1>2. q \in Nat /\ i - 1 < (q + 1) * PageSize
  BY <1>1
<1>3. (q + 1) * PageSize <= m * PageSize
  <2>1. q + 1 <= m /\ q + 1 \in Nat
    BY <1>2
  <2> HIDE DEF q
  <2> QED BY <1>1, <2>1
<1>4. (q + 1) * PageSize \in Nat /\ m * PageSize \in Nat
  BY <1>1, <1>2
<1> HIDE DEF q
<1> QED BY <1>2, <1>3, <1>4

\* The rows of a page, and where they stand.
LEMMA PageIs ==
  ASSUME NEW a, NEW m \in Nat \ {0}, NEW rows, IsSeq(rows)
  PROVE  LET here == PageRows(rows, a, m) IN
         /\ IsSeq(here)
         /\ \A j \in DOMAIN here : /\ Above(a, m) + j \in DOMAIN rows
                                   /\ here[j] = rows[Above(a, m) + j]
         /\ \A i \in DOMAIN rows :
              i > Above(a, m) /\ (a \in Paged => i <= m * PageSize) =>
                i - Above(a, m) \in DOMAIN here
<1> DEFINE here == PageRows(rows, a, m)
           last == IF m * PageSize < Len(rows) THEN m * PageSize ELSE Len(rows)
           off == (m - 1) * PageSize
<1>1. Len(rows) \in Nat /\ DOMAIN rows = 1 .. Len(rows)
  BY SeqDomain
<1>2. CASE a \notin Paged
  <2>1. here = rows /\ Above(a, m) = 0
    BY <1>2 DEF PageRows, Above
  <2> HIDE DEF here
  <2>2. \A j \in DOMAIN rows : 0 + j = j /\ j - 0 = j
    BY <1>1
  <2> QED BY <1>1, <1>2, <2>1, <2>2 DEF here
<1>3. CASE a \in Paged
  <2>1. off \in Nat /\ Above(a, m) = off /\ m * PageSize = off + PageSize /\ PageSize \in Nat
    BY <1>3, AboveNat, PageSizeAssumption DEF Above
  <2>2. last \in Nat /\ last <= Len(rows) /\ last <= m * PageSize
    BY <1>1, <2>1
  <2>3. here = SubSeq(rows, off + 1, last)
    BY <1>3 DEF PageRows
  <2> DEFINE n == IF off + 1 <= last THEN last - (off + 1) + 1 ELSE 0
  <2>4. n \in Nat /\ Len(here) = n /\ here \in Seq(ToSet(rows))
        /\ \A j \in 1 .. n : here[j] = rows[off + j]
    <3> DEFINE T == ToSet(rows)
    <3>1. rows \in Seq(T)
      BY DEF IsSeq
    <3> HIDE DEF T, last, off, here
    <3>2. (off + 1 \in 1 .. Len(rows) + 1 /\ last \in 0 .. Len(rows)) \/ off + 1 > last
      BY <1>1, <2>1, <2>2
    <3> QED BY <1>1, <2>1, <2>2, <2>3, <3>1, <3>2, SubSeqProperties DEF T
  <2>5. IsSeq(here) /\ DOMAIN here = 1 .. n
    <3> HIDE DEF here, n
    <3> QED BY <2>4, SeqNarrow, SeqDomain
  <2>a. last = m * PageSize \/ last = Len(rows)
    OBVIOUS
  <2>b. m * PageSize \in Nat /\ off + 1 \in Nat
    BY <2>1
  <2> HIDE DEF here, off, last
  <2>6. ASSUME NEW j \in DOMAIN here
        PROVE  off + j \in DOMAIN rows /\ here[j] = rows[off + j]
    <3>1. j \in 1 .. n /\ n \in Nat
      BY <2>4, <2>5
    <3>2. off + j \in 1 .. Len(rows)
      BY <1>1, <2>1, <2>2, <3>1
    <3> QED BY <1>1, <2>4, <3>1, <3>2
  <2>7. ASSUME NEW i \in DOMAIN rows, i > off, i <= m * PageSize
        PROVE  i - off \in DOMAIN here
    <3>1. i \in 1 .. Len(rows)
      BY <1>1
    <3>2. i <= last
      BY <2>7, <2>a, <3>1
    <3>3. i - off \in 1 .. n
      BY <2>1, <2>2, <2>7, <3>1, <3>2
    <3> QED BY <2>5, <3>3
  <2> QED BY <1>3, <2>1, <2>5, <2>6, <2>7 DEF here
<1> QED BY <1>2, <1>3

-----------------------------------------------------------------------------
(* The steps. *)

\* The empty graph satisfies the invariant.
LEMMA InitInv == Init => IInv
<1> SUFFICES ASSUME Init PROVE IInv
  OBVIOUS
<1>1. TypeOK
  BY Bounds DEF Init, TypeOK
<1>2. IsGraph(graph) /\ Grounded(graph)
  BY DEF Init, IsGraph, Grounded, EmptyGraph
<1>3. DOMAIN graph.nodes = {} /\ DOMAIN graph.edges = {}
  BY DEF Init, EmptyGraph
<1>4. FeedInv
  <2>1. \A a \in AdapterNames : IsSeq(feed[a]) /\ Len(feed[a]) = Len(Feed[a])
    BY FeedIsList DEF Init
  <2>2. DOMAIN Feed = AdapterNames
    BY FeedAssumption
  <2> QED BY <2>1, <2>2 DEF Init, FeedInv, Position
<1>5. PlanInv
  <2>1. \A p \in Processes : plan[p] = << >>
    BY DEF Init
  <2>2. \A s \in ToSet(<< >>) : Sourced(s)
    BY EmptyIsSeq
  <2>3. DOMAIN plan = Processes
    BY DEF Init
  <2> QED BY <2>1, <2>2, <2>3, OrderedNone DEF PlanInv
<1>6. KeyInv
  BY <1>3 DEF KeyInv
<1>7. OwedInv
  <2> SUFFICES ASSUME NEW p \in Processes, NEW k \in DOMAIN Script[p],
                      Script[p][k] \in AdapterNames, NEW i \in Rows(Script[p][k]),
                      HasRead(p, k, i)
               PROVE  FALSE
    BY DEF OwedInv
  <2>1. k \in Nat /\ k >= 1 /\ i \in Nat /\ i >= 1
    <3>1. Script[p] \in Seq(AdapterNames \cup {"enrich_vote_bills"})
      BY ScriptAssumption
    <3> QED BY <3>1, FeedIsList
  <2>2. at[p] = 1 /\ page[p] = 1 /\ (page[p] - 1) * PageSize = 0
    BY PageSizeAssumption DEF Init
  <2> QED BY <2>1, <2>2 DEF HasRead
<1>8. TermInv /\ SeatInv
  BY <1>3 DEF TermInv, SeatInv
<1>9. HeldInv
  <2>1. \A p \in Processes : DOMAIN plan[p] = {}
    BY EmptyIsSeq DEF Init
  <2> QED BY <1>3, <2>1 DEF HeldInv
<1> QED BY <1>1, <1>2, <1>4, <1>5, <1>6, <1>7, <1>8, <1>9 DEF IInv

\* A script that gives up leaves the control variables typed.
LEMMA AbandonTyped ==
  ASSUME TypeOK, NEW p \in Processes, Abandon(p)
  PROVE  /\ state' \in [Processes -> {"idle", "running", "done", "failed"}]
         /\ at' \in [Processes -> Nat \ {0}]
         /\ page' \in [Processes -> Nat \ {0}]
BY DEF TypeOK, Abandon

\* Every step keeps the control variables typed.
LEMMA TypeStep == TypeOK /\ [Next]_vars => TypeOK'
<1> SUFFICES ASSUME TypeOK, [Next]_vars PROVE TypeOK'
  OBVIOUS
<1> USE Bounds
<1>1. ASSUME NEW p \in Processes, Start(p) PROVE TypeOK'
  BY <1>1 DEF TypeOK, Start
<1>2. ASSUME NEW p \in Processes, FetchPage(p) PROVE TypeOK'
  <2>1. at' \in [Processes -> Nat \ {0}] /\ page' \in [Processes -> Nat \ {0}]
    BY <1>2 DEF TypeOK, FetchPage, Advance
  <2> QED BY <1>2, <2>1 DEF TypeOK, FetchPage
<1>3. ASSUME NEW p \in Processes, EnrichmentRaises(p) PROVE TypeOK'
  BY <1>3, AbandonTyped DEF TypeOK, EnrichmentRaises
<1>4. ASSUME NEW p \in Processes, RunUpsert(p) PROVE TypeOK'
  BY <1>4 DEF TypeOK, RunUpsert
<1>5. ASSUME NEW p \in Processes, Finish(p) PROVE TypeOK'
  BY <1>5 DEF TypeOK, Finish
<1>6. ASSUME NEW p \in Processes, Fail(p) PROVE TypeOK'
  BY <1>6, AbandonTyped DEF TypeOK, Fail
<1>7. ASSUME NEW i \in DOMAIN feed["positions"], PositionEnds(i) PROVE TypeOK'
  BY <1>7 DEF TypeOK, PositionEnds
<1>8. CASE UNCHANGED vars
  BY <1>8 DEF TypeOK, vars
<1> QED BY <1>1, <1>2, <1>3, <1>4, <1>5, <1>6, <1>7, <1>8 DEF Next, Step

\* The graph is left alone, or one statement is run.
LEMMA GraphStep ==
  ASSUME [Next]_vars
  PROVE  \/ graph' = graph
         \/ \E p \in Processes : graph' = Apply(graph, Head(plan[p]))
BY DEF Next, vars, Start, Step, FetchPage, EnrichmentRaises, RunUpsert, Finish, Fail,
       PositionEnds

\* A statement that can be run writes what it states.
LEMMA RunsIn ==
  ASSUME NEW g, NEW s, IsGraph(g), Runnable(s, DOMAIN g.nodes)
  PROVE  \/ /\ IsNode(s)
            /\ Apply(g, s) = [nodes |-> Merge(g.nodes, s.key, s.props), edges |-> g.edges]
         \/ /\ IsEdge(s)
            /\ Apply(g, s) = [nodes |-> g.nodes, edges |-> Merge(g.edges, s.key, s.props)]
<1>1. g = [nodes |-> g.nodes, edges |-> g.edges]
  BY DEF IsGraph
<1>2. CASE IsNode(s)
  <2>1. UpsertNode(g, s) = [nodes |-> Merge(g.nodes, s.key, s.props), edges |-> g.edges]
    BY <1>1 DEF UpsertNode
  <2> QED BY <1>2, <2>1 DEF Apply, IsNode
<1>3. CASE IsEdge(s) /\ {From(s.key), To(s.key)} \subseteq DOMAIN g.nodes
  <2>1. [g EXCEPT !.edges = Merge(@, s.key, s.props)]
          = [nodes |-> g.nodes, edges |-> Merge(g.edges, s.key, s.props)]
    BY <1>1
  <2>2. UpsertEdge(g, s) = [g EXCEPT !.edges = Merge(@, s.key, s.props)]
    BY <1>3 DEF UpsertEdge, IsEdge
  <2>3. s.op # "node"
    BY <1>3 DEF IsEdge
  <2> QED BY <1>3, <2>1, <2>2, <2>3 DEF Apply
<1> QED BY <1>2, <1>3 DEF Runnable

\* run_upsert of the next statement of a plan.
Runs(p, s) ==
  /\ plan[p] # << >> /\ s = Head(plan[p]) /\ IsSeq(plan[p])
  /\ Sourced(s) /\ Runnable(s, DOMAIN graph.nodes)
  /\ \/ IsNode(s) /\ graph'.nodes = Merge(graph.nodes, s.key, s.props) /\ graph'.edges = graph.edges
     \/ IsEdge(s) /\ graph'.edges = Merge(graph.edges, s.key, s.props) /\ graph'.nodes = graph.nodes
  /\ DOMAIN plan' = Processes
  /\ plan'[p] = Tail(plan[p])
  /\ \A q \in Processes \ {p} : plan'[q] = plan[q]
  /\ GraphKeys' = GraphKeys \cup {s.key}
  /\ DOMAIN graph.nodes \cup NodeKeys({s}) \subseteq DOMAIN graph'.nodes
  /\ state[p] = "running"
  /\ UNCHANGED <<feed, state, at, page>>

\* RunUpsert runs the head of a plan and leaves its tail.
LEMMA RunsWhat ==
  ASSUME IInv, NEW p \in Processes, RunUpsert(p)
  PROVE  Runs(p, Head(plan[p]))
<1> DEFINE s == Head(plan[p])
<1>1. /\ plan[p] # << >> /\ Ordered(DOMAIN graph.nodes, plan[p]) /\ DOMAIN plan = Processes
      /\ \A x \in ToSet(plan[p]) : Sourced(x)
  BY DEF RunUpsert, IInv, PlanInv
<1>2. IsSeq(plan[p]) /\ s \in ToSet(plan[p]) /\ Runnable(s, DOMAIN graph.nodes)
  BY <1>1, HeadTail, OrderedTail DEF Ordered
<1>3. Sourced(s)
  BY <1>1, <1>2
<1>4. graph' = Apply(graph, s) /\ plan' = [plan EXCEPT ![p] = Tail(plan[p])]
  BY DEF RunUpsert
<1>5. /\ DOMAIN plan' = Processes /\ plan'[p] = Tail(plan[p])
      /\ \A q \in Processes \ {p} : plan'[q] = plan[q]
  BY <1>1, <1>4
<1> HIDE DEF s
<1>6. \/ /\ IsNode(s) /\ graph'.nodes = Merge(graph.nodes, s.key, s.props)
         /\ graph'.edges = graph.edges
      \/ /\ IsEdge(s) /\ graph'.edges = Merge(graph.edges, s.key, s.props)
         /\ graph'.nodes = graph.nodes
  BY <1>2, <1>4, RunsIn DEF IInv
<1>7. \A table : DOMAIN Merge(table, s.key, s.props) = DOMAIN table \cup {s.key}
  BY MergeDomain
<1>8. GraphKeys' = GraphKeys \cup {s.key}
  BY <1>6, <1>7 DEF GraphKeys
<1>9. DOMAIN graph.nodes \cup NodeKeys({s}) \subseteq DOMAIN graph'.nodes
  BY <1>6, <1>7 DEF NodeKeys, IsNode, IsEdge
<1>10. state[p] = "running" /\ UNCHANGED <<feed, state, at, page>>
  BY DEF RunUpsert
<1> QED BY <1>1, <1>2, <1>3, <1>5, <1>6, <1>8, <1>9, <1>10 DEF Runs, s

\* A page is fetched.
Fetches(p, a, rows) ==
  /\ Script[p][at[p]] = a /\ a \in AdapterNames /\ at[p] \in DOMAIN Script[p]
  /\ state[p] = "running" /\ plan[p] = << >>
  /\ rows = PageRows(feed[a], a, page[p])
  /\ DOMAIN plan' = Processes
  /\ plan'[p] = PageStatements(a, rows)
  /\ \A q \in Processes \ {p} : plan'[q] = plan[q] /\ at'[q] = at[q] /\ page'[q] = page[q]
  /\ IF HasNext(feed[a], a, page[p]) THEN at'[p] = at[p] /\ page'[p] = page[p] + 1
                                     ELSE at'[p] = at[p] + 1 /\ page'[p] = 1
  /\ UNCHANGED <<graph, feed, state>>

\* FetchPage replaces an empty plan by the statements of a page.
LEMMA FetchesWhat ==
  ASSUME IInv, NEW p \in Processes, FetchPage(p)
  PROVE  LET a == Script[p][at[p]] IN Fetches(p, a, PageRows(feed[a], a, page[p]))
<1> DEFINE a == Script[p][at[p]]
<1>1. a \in AdapterNames
  <2>1. at[p] \in DOMAIN Script[p] /\ a # "enrich_vote_bills"
    BY DEF FetchPage
  <2>2. Script[p] \in Seq(AdapterNames \cup {"enrich_vote_bills"})
    BY ScriptAssumption
  <2> QED BY <2>1, <2>2
<1>2. /\ at[p] \in DOMAIN Script[p] /\ state[p] = "running" /\ plan[p] = << >>
      /\ plan' = [plan EXCEPT ![p] = PageStatements(a, PageRows(feed[a], a, page[p]))]
      /\ UNCHANGED <<graph, feed, state>>
      /\ Advance(p, HasNext(feed[a], a, page[p]))
  BY DEF FetchPage
<1> HIDE DEF a
<1>3. DOMAIN plan = Processes /\ DOMAIN at = Processes /\ DOMAIN page = Processes
  BY DEF IInv, PlanInv, TypeOK
<1>4. /\ \A q \in Processes \ {p} : at'[q] = at[q] /\ page'[q] = page[q]
      /\ IF HasNext(feed[a], a, page[p]) THEN at'[p] = at[p] /\ page'[p] = page[p] + 1
                                         ELSE at'[p] = at[p] + 1 /\ page'[p] = 1
  BY <1>2, <1>3 DEF Advance
<1> QED BY <1>1, <1>2, <1>3, <1>4 DEF Fetches, a

\* A script is started, stops or ends: its plan is empty, the graph is left alone.
Stops(p) ==
  /\ DOMAIN plan' = Processes
  /\ plan'[p] = << >>
  /\ \A q \in Processes \ {p} : /\ plan'[q] = plan[q] /\ at'[q] = at[q] /\ page'[q] = page[q]
                                /\ state'[q] = state[q]
  /\ \/ at'[p] = 1 /\ page'[p] = 1
     \/ at'[p] = at[p] /\ page'[p] = page[p] /\ plan[p] = << >>
  /\ UNCHANGED <<graph, feed>>

\* The steps that start, stop or end a script leave no plan.
LEMMA StopsWhat ==
  ASSUME IInv, NEW p \in Processes, Start(p) \/ EnrichmentRaises(p) \/ Finish(p) \/ Fail(p)
  PROVE  Stops(p)
<1>1. /\ DOMAIN plan = Processes /\ DOMAIN at = Processes /\ DOMAIN page = Processes
      /\ DOMAIN state = Processes
      /\ state[p] # "running" => plan[p] = << >>
  BY DEF IInv, PlanInv, TypeOK
<1>2. CASE Start(p)
  BY <1>1, <1>2 DEF Start, Stops
<1>3. CASE EnrichmentRaises(p) \/ Fail(p)
  BY <1>1, <1>3 DEF EnrichmentRaises, Fail, Abandon, Stops
<1>4. CASE Finish(p)
  BY <1>1, <1>4 DEF Finish, Stops
<1> QED BY <1>2, <1>3, <1>4

\* What a step can be.
Idles == UNCHANGED <<graph, state, at, page, plan>>

\* Every step runs a statement, fetches a page, stops a script or touches no script.
LEMMA StepIs ==
  ASSUME IInv, [Next]_vars
  PROVE  \/ \E p \in Processes : Runs(p, Head(plan[p]))
         \/ \E p \in Processes : \E a \in AdapterNames : Fetches(p, a, PageRows(feed[a], a, page[p]))
         \/ \E p \in Processes : Stops(p)
         \/ Idles
<1>1. ASSUME NEW p \in Processes, RunUpsert(p) PROVE Runs(p, Head(plan[p]))
  BY <1>1, RunsWhat
<1>2. ASSUME NEW p \in Processes, FetchPage(p)
      PROVE  \E a \in AdapterNames : Fetches(p, a, PageRows(feed[a], a, page[p]))
  BY <1>2, FetchesWhat DEF Fetches
<1>3. ASSUME NEW p \in Processes, Start(p) \/ EnrichmentRaises(p) \/ Finish(p) \/ Fail(p)
      PROVE  Stops(p)
  BY <1>3, StopsWhat
<1>4. ASSUME NEW i \in DOMAIN feed["positions"], PositionEnds(i) PROVE Idles
  BY <1>4 DEF PositionEnds, Idles
<1>5. CASE UNCHANGED vars
  BY <1>5 DEF vars, Idles
<1> QED BY <1>1, <1>2, <1>3, <1>4, <1>5 DEF Next, Step

\* What a page holds: rows of the feed, whose statements can be run in turn.
LEMMA PageRead ==
  ASSUME IInv, NEW p \in Processes, NEW a \in AdapterNames,
         NEW rows, Fetches(p, a, rows)
  PROVE  /\ Ordered({}, plan'[p])
         /\ \A s \in ToSet(plan'[p]) : Sourced(s)
         /\ \A i \in Rows(a) :
              i > Above(a, page[p]) /\ (a \in Paged => i <= page[p] * PageSize) =>
                RowFacts(a, i) \subseteq {s.key : s \in ToSet(plan'[p])}
         /\ \A j \in DOMAIN plan'[p] : \E i \in Rows(a) :
              /\ plan'[p][j] \in ToSet(RowStatements(a, feed[a][i]))
              /\ \A h \in Rows(a) : h > Above(a, page[p]) /\ h < i =>
                   RowFacts(a, h) \subseteq {s.key : s \in Before(plan'[p], j)}
<1> DEFINE m == page[p]
           off == Above(a, m)
           ps == PageStatements(a, rows)
<1>1. m \in Nat \ {0}
  BY DEF IInv, TypeOK
<1>2. /\ IsSeq(feed[a]) /\ DOMAIN feed[a] = Rows(a) /\ Rows(a) = 1 .. Len(Feed[a])
      /\ Len(Feed[a]) \in Nat
  BY NowIsList, FeedIsList DEF IInv
<1>3. /\ IsSeq(rows)
      /\ \A j \in DOMAIN rows : off + j \in Rows(a) /\ rows[j] = feed[a][off + j]
      /\ \A i \in Rows(a) : i > off /\ (a \in Paged => i <= m * PageSize) => i - off \in DOMAIN rows
  <2> DEFINE here == PageRows(feed[a], a, m)
  <2>1. rows = here
    BY DEF Fetches
  <2> HIDE DEF m
  <2>2. /\ IsSeq(here)
        /\ \A j \in DOMAIN here : off + j \in DOMAIN feed[a] /\ here[j] = feed[a][off + j]
        /\ \A i \in DOMAIN feed[a] :
             i > off /\ (a \in Paged => i <= m * PageSize) => i - off \in DOMAIN here
    BY <1>1, <1>2, PageIs
  <2> HIDE DEF here, off
  <2> QED BY <1>2, <2>1, <2>2
<1>4. off \in Nat
  BY <1>1, AboveNat
<1>5. DOMAIN rows = 1 .. Len(rows) /\ Len(rows) \in Nat
  BY <1>3, SeqDomain
<1> HIDE DEF off, m
<1>6. \A j \in DOMAIN rows : Ordered({}, RowStatements(a, rows[j]))
  BY <1>3, NowOrdered DEF IInv
<1>7. /\ Ordered({}, ps)
      /\ ToSet(ps) = UNION {ToSet(RowStatements(a, rows[i])) : i \in DOMAIN rows}
      /\ \A j \in DOMAIN ps : \E i \in DOMAIN rows :
           /\ ps[j] \in ToSet(RowStatements(a, rows[i]))
           /\ \A h \in 1 .. i - 1 : ToSet(RowStatements(a, rows[h])) \subseteq Before(ps, j)
  BY <1>3, <1>6, PageStates
<1>8. plan'[p] = ps
  BY DEF Fetches
<1> HIDE DEF ps
<1>9. ASSUME NEW s \in ToSet(ps) PROVE Sourced(s)
  <2>1. PICK j \in DOMAIN rows : s \in ToSet(RowStatements(a, rows[j]))
    BY <1>7
  <2>2. off + j \in Rows(a) /\ rows[j] = feed[a][off + j]
    BY <1>3
  <2> QED BY <2>1, <2>2 DEF Sourced
<1>10. ASSUME NEW i \in Rows(a), i > off, a \in Paged => i <= m * PageSize
       PROVE  RowFacts(a, i) \subseteq {s.key : s \in ToSet(ps)}
  <2>1. i - off \in DOMAIN rows /\ off + (i - off) = i
    BY <1>2, <1>3, <1>4, <1>10
  <2>2. rows[i - off] = feed[a][i]
    BY <1>3, <2>1
  <2>3. ToSet(RowStatements(a, feed[a][i])) \subseteq ToSet(ps)
    BY <1>7, <2>1, <2>2
  <2>4. RowFacts(a, i) = RowKeys(a, feed[a][i])
    BY NowFacts DEF IInv
  <2> QED BY <2>3, <2>4 DEF RowKeys
<1>11. ASSUME NEW j \in DOMAIN ps
       PROVE  \E i \in Rows(a) :
                /\ ps[j] \in ToSet(RowStatements(a, feed[a][i]))
                /\ \A h \in Rows(a) : h > off /\ h < i =>
                     RowFacts(a, h) \subseteq {s.key : s \in Before(ps, j)}
  <2>1. PICK r \in DOMAIN rows :
          /\ ps[j] \in ToSet(RowStatements(a, rows[r]))
          /\ \A h \in 1 .. r - 1 : ToSet(RowStatements(a, rows[h])) \subseteq Before(ps, j)
    BY <1>7
  <2>2. off + r \in Rows(a) /\ rows[r] = feed[a][off + r]
    BY <1>3
  <2>3. ASSUME NEW h \in Rows(a), h > off, h < off + r
        PROVE  RowFacts(a, h) \subseteq {s.key : s \in Before(ps, j)}
    <3>1. h - off \in 1 .. r - 1 /\ h - off \in DOMAIN rows /\ off + (h - off) = h
      BY <1>2, <1>4, <1>5, <2>3
    <3>2. rows[h - off] = feed[a][h]
      BY <1>3, <3>1
    <3>3. ToSet(RowStatements(a, feed[a][h])) \subseteq Before(ps, j)
      BY <2>1, <3>1, <3>2
    <3>4. RowFacts(a, h) = RowKeys(a, feed[a][h])
      BY NowFacts DEF IInv
    <3> QED BY <3>3, <3>4 DEF RowKeys
  <2> QED BY <2>1, <2>2, <2>3
<1> QED BY <1>7, <1>8, <1>9, <1>10, <1>11 DEF off, m

\* Every step leaves plans that can be run.
LEMMA PlanStep == ASSUME IInv, [Next]_vars PROVE PlanInv'
<1>1. ASSUME NEW s, Sourced(s) PROVE Sourced(s)'
  BY <1>1, SourcedStays DEF IInv
<1>2. ASSUME NEW q \in Processes
      PROVE  /\ \A s \in ToSet(plan[q]) : Sourced(s)
             /\ Ordered(DOMAIN graph.nodes, plan[q])
             /\ state[q] # "running" => plan[q] = << >>
  BY DEF IInv, PlanInv
<1>3. DOMAIN plan = Processes
  BY DEF IInv, PlanInv
<1>4. \A s \in ToSet(<< >>) : Sourced(s)'
  BY EmptyIsSeq
<1>5. ASSUME NEW p \in Processes, Runs(p, Head(plan[p])) PROVE PlanInv'
  <2> DEFINE s == Head(plan[p])
  <2>1. DOMAIN graph.nodes \subseteq DOMAIN graph'.nodes
    BY <1>5 DEF Runs
  <2>2. Ordered(DOMAIN graph'.nodes, Tail(plan[p]))
    <3>1. Ordered(DOMAIN graph.nodes \cup NodeKeys({s}), Tail(plan[p]))
      BY <1>2, <1>5, OrderedTail DEF Runs
    <3>2. DOMAIN graph.nodes \cup NodeKeys({s}) \subseteq DOMAIN graph'.nodes
      BY <1>5 DEF Runs
    <3> HIDE DEF s
    <3> QED BY <3>1, <3>2, OrderedMore
  <2>3. \A x \in ToSet(Tail(plan[p])) : Sourced(x)'
    <3>1. ToSet(Tail(plan[p])) \subseteq ToSet(plan[p])
      BY <1>5, HeadTail DEF Runs
    <3> QED BY <1>1, <1>2, <3>1
  <2>4. ASSUME NEW q \in Processes \ {p}
        PROVE  /\ plan'[q] = plan[q] /\ Ordered(DOMAIN graph'.nodes, plan[q])
               /\ \A x \in ToSet(plan[q]) : Sourced(x)'
    <3>1. Ordered(DOMAIN graph'.nodes, plan[q])
      BY <1>2, <2>1, OrderedMore
    <3>2. \A x \in ToSet(plan[q]) : Sourced(x)'
      BY <1>1, <1>2
    <3> QED BY <1>5, <3>1, <3>2 DEF Runs
  <2>5. /\ plan'[p] = Tail(plan[p]) /\ DOMAIN plan' = Processes /\ state' = state
        /\ state[p] = "running"
    BY <1>5 DEF Runs
  <2> QED BY <1>2, <2>2, <2>3, <2>4, <2>5 DEF PlanInv
<1>6. ASSUME NEW p \in Processes, NEW a \in AdapterNames,
             Fetches(p, a, PageRows(feed[a], a, page[p]))
      PROVE  PlanInv'
  <2>1. Ordered({}, plan'[p]) /\ \A s \in ToSet(plan'[p]) : Sourced(s)
    BY <1>6, PageRead
  <2>2. Ordered(DOMAIN graph.nodes, plan'[p])
    BY <2>1, OrderedMore
  <2>3. \A s \in ToSet(plan'[p]) : Sourced(s)'
    BY <1>1, <2>1
  <2>4. \A q \in Processes : \A x \in ToSet(plan[q]) : Sourced(x)'
    BY <1>1, <1>2
  <2>5. /\ DOMAIN plan' = Processes /\ UNCHANGED <<graph, state>> /\ state[p] = "running"
        /\ \A q \in Processes \ {p} : plan'[q] = plan[q]
    BY <1>6 DEF Fetches
  <2> QED BY <1>2, <2>2, <2>3, <2>4, <2>5 DEF PlanInv
<1>7. ASSUME NEW p \in Processes, Stops(p) PROVE PlanInv'
  <2>1. \A q \in Processes : \A x \in ToSet(plan[q]) : Sourced(x)'
    BY <1>1, <1>2
  <2>2. Ordered(DOMAIN graph.nodes, << >>)
    BY OrderedNone
  <2>3. /\ DOMAIN plan' = Processes /\ UNCHANGED graph /\ plan'[p] = << >>
        /\ \A q \in Processes \ {p} : plan'[q] = plan[q] /\ state'[q] = state[q]
    BY <1>7 DEF Stops
  <2> QED BY <1>2, <1>4, <2>1, <2>2, <2>3 DEF PlanInv
<1>8. CASE Idles
  <2>1. \A q \in Processes : \A x \in ToSet(plan[q]) : Sourced(x)'
    BY <1>1, <1>2
  <2>2. UNCHANGED <<graph, plan, state>>
    BY <1>8 DEF Idles
  <2> QED BY <1>2, <1>3, <2>1, <2>2 DEF PlanInv
<1> QED BY <1>5, <1>6, <1>7, <1>8, StepIs

\* Whether a page has a next one depends on nothing that changes.
LEMMA FeedSize ==
  ASSUME FeedInv, NEW a \in AdapterNames, NEW n
  PROVE  HasNext(feed[a], a, n) = HasNext(Feed[a], a, n)
<1>1. Len(feed[a]) = Len(Feed[a]) /\ (a = "gov_decisions" => feed[a] = Feed[a])
  BY DEF FeedInv
<1> QED BY <1>1 DEF HasNext

\* Every step writes what a source states, nodes as nodes and edges as edges.
LEMMA KeyStep == ASSUME IInv, [Next]_vars PROVE KeyInv'
<1>1. KeyInv /\ FeedInv
  BY DEF IInv
<1>2. ASSUME NEW p \in Processes, Runs(p, Head(plan[p])) PROVE KeyInv'
  <2> DEFINE s == Head(plan[p])
  <2>1. /\ Sourced(s)
        /\ \/ IsNode(s) /\ graph'.nodes = Merge(graph.nodes, s.key, s.props) /\ graph'.edges = graph.edges
           \/ IsEdge(s) /\ graph'.edges = Merge(graph.edges, s.key, s.props) /\ graph'.nodes = graph.nodes
    BY <1>2 DEF Runs
  <2> HIDE DEF s
  <2>2. s.key \in Facts
    BY <1>1, <2>1, SourcedFact
  <2>3. \A table : DOMAIN Merge(table, s.key, s.props) = DOMAIN table \cup {s.key}
    BY MergeDomain
  <2>4. CASE IsNode(s) /\ graph'.nodes = Merge(graph.nodes, s.key, s.props) /\ graph'.edges = graph.edges
    <3>1. DOMAIN graph'.nodes = DOMAIN graph.nodes \cup {s.key} /\ Len(s.key) = 2
      BY <2>3, <2>4 DEF IsNode
    <3> QED BY <1>1, <2>2, <2>4, <3>1 DEF KeyInv
  <2>5. CASE IsEdge(s) /\ graph'.edges = Merge(graph.edges, s.key, s.props) /\ graph'.nodes = graph.nodes
    <3>1. DOMAIN graph'.edges = DOMAIN graph.edges \cup {s.key} /\ Len(s.key) = 3
      BY <2>3, <2>5 DEF IsEdge
    <3> QED BY <1>1, <2>2, <2>5, <3>1 DEF KeyInv
  <2> QED BY <2>1, <2>4, <2>5
<1>3. CASE UNCHANGED graph
  BY <1>1, <1>3 DEF KeyInv
<1> QED BY <1>2, <1>3, StepIs DEF Fetches, Stops, Idles

\* Every step keeps what was read in the graph, or in the plan if it was read last.
LEMMA OwedStep == ASSUME IInv, [Next]_vars PROVE OwedInv'
<1>1. OwedInv /\ at \in [Processes -> Nat \ {0}] /\ page \in [Processes -> Nat \ {0}]
  BY DEF IInv, TypeOK
<1>2. SUFFICES ASSUME NEW q \in Processes, NEW k \in DOMAIN Script[q],
                      Script[q][k] \in AdapterNames,
                      NEW i \in Rows(Script[q][k]), HasRead(q, k, i)'
               PROVE  RowFacts(Script[q][k], i) \subseteq GraphKeys' \cup PlanKeys(q, k)'
  BY DEF OwedInv, Rows, RowFacts, RowKeys
<1> DEFINE b == Script[q][k]
           facts == RowFacts(b, i)
<1>3. HasRead(q, k, i) => facts \subseteq GraphKeys \cup PlanKeys(q, k)
  BY <1>1, <1>2 DEF OwedInv
<1> HIDE DEF facts
<1>4. ASSUME GraphKeys' = GraphKeys, plan'[q] = plan[q], at'[q] = at[q], page'[q] = page[q]
      PROVE  facts \subseteq GraphKeys' \cup PlanKeys(q, k)'
  <2>1. HasRead(q, k, i) /\ PlanKeys(q, k)' = PlanKeys(q, k)
    BY <1>2, <1>4 DEF HasRead, PlanKeys, Pending, Reads, Rows
  <2> QED BY <1>3, <1>4, <2>1
<1>5. ASSUME NEW p \in Processes, Runs(p, Head(plan[p]))
      PROVE  facts \subseteq GraphKeys' \cup PlanKeys(q, k)'
  <2> DEFINE s == Head(plan[p])
  <2>1. /\ GraphKeys' = GraphKeys \cup {s.key} /\ UNCHANGED <<at, page>>
        /\ plan'[p] = Tail(plan[p]) /\ \A r \in Processes \ {p} : plan'[r] = plan[r]
        /\ ToSet(plan[p]) = {s} \cup ToSet(Tail(plan[p]))
    BY <1>5, HeadTail DEF Runs
  <2> HIDE DEF s
  <2>2. HasRead(q, k, i) /\ Pending(q, k)' = Pending(q, k)
    BY <1>2, <2>1 DEF HasRead, Pending, Reads, Rows
  <2>3. PlanKeys(q, k) \subseteq PlanKeys(q, k)' \cup {s.key}
    BY <2>1, <2>2 DEF PlanKeys
  <2> QED BY <1>3, <2>1, <2>2, <2>3
<1>6. ASSUME NEW p \in Processes, NEW a \in AdapterNames,
             Fetches(p, a, PageRows(feed[a], a, page[p]))
      PROVE  facts \subseteq GraphKeys' \cup PlanKeys(q, k)'
  <2>1. /\ UNCHANGED <<graph, feed>> /\ plan[p] = << >> /\ a = Script[p][at[p]]
        /\ at[p] \in DOMAIN Script[p]
        /\ \A r \in Processes \ {p} : plan'[r] = plan[r] /\ at'[r] = at[r] /\ page'[r] = page[r]
        /\ IF HasNext(feed[a], a, page[p]) THEN at'[p] = at[p] /\ page'[p] = page[p] + 1
                                           ELSE at'[p] = at[p] + 1 /\ page'[p] = 1
    BY <1>6 DEF Fetches
  <2>2. GraphKeys' = GraphKeys
    BY <2>1 DEF GraphKeys
  <2>3. CASE q # p
    BY <1>4, <2>1, <2>2, <2>3
  <2>4. CASE q = p
    <3> DEFINE m == page[p]
    <3>1. m \in Nat \ {0} /\ at[p] \in Nat \ {0}
      BY <1>1
    <3>2. PlanKeys(q, k) = {}
      BY <2>1, <2>4, EmptyIsSeq DEF PlanKeys
    <3>3. HasRead(q, k, i) => facts \subseteq GraphKeys
      BY <1>3, <3>2
    <3>4. CASE HasRead(q, k, i)
      BY <2>2, <3>3, <3>4
    <3>5. CASE ~HasRead(q, k, i)
      <4>1. k = at[p] /\ b = a
        <5>1. k \in Nat /\ k >= 1
          <6>1. Script[q] \in Seq(AdapterNames \cup {"enrich_vote_bills"})
            BY ScriptAssumption
          <6> QED BY <6>1
        <5>2. k <= at[p]
          <6>1. CASE k = at'[p] /\ i <= (page'[p] - 1) * PageSize
            <7>1. i \in Nat /\ i >= 1
              BY <1>2, FeedIsList
            <7>2. CASE page'[p] = 1
              <8>1. (page'[p] - 1) * PageSize = 0
                BY <7>2, PageSizeAssumption
              <8> QED BY <6>1, <7>1, <8>1
            <7>3. CASE page'[p] # 1
              <8>1. at'[p] = at[p]
                BY <2>1, <7>3
              <8> QED BY <3>1, <6>1, <8>1
            <7> QED BY <7>2, <7>3
          <6>2. CASE k < at'[p]
            BY <2>1, <3>1, <5>1, <6>2
          <6> QED BY <1>2, <2>4, <6>1, <6>2 DEF HasRead
        <5>3. ~(k < at[p])
          <6>1. CASE k < at[p]
            <7>1. k < at'[p] /\ ~(k = at'[p])
              BY <2>1, <3>1, <5>1, <6>1
            <7>2. i \in Reads(b)
              BY <1>2, <2>4, <7>1 DEF HasRead, Reads, Rows
            <7> QED BY <2>4, <3>5, <6>1, <7>2 DEF HasRead
          <6> QED BY <6>1
        <5> QED BY <2>1, <2>4, <3>1, <5>1, <5>2, <5>3
      <4>2. i > Above(a, m) /\ (a \in Paged => i <= m * PageSize)
        <5>1. i \in Nat \ {0}
          BY <1>2, FeedIsList
        <5>2. i > (m - 1) * PageSize
          <6>1. ~(i <= (m - 1) * PageSize)
            BY <2>4, <3>5, <4>1 DEF HasRead
          <6>2. (m - 1) * PageSize \in Nat
            BY <3>1, AboveNat
          <6> HIDE DEF m
          <6> QED BY <5>1, <6>1, <6>2
        <5>3. i > Above(a, m)
          BY <3>1, <5>1, <5>2, AboveNat DEF Above
        <5>4. ASSUME a \in Paged PROVE i <= m * PageSize
          <6>1. CASE HasNext(feed[a], a, m)
            <7>1. at'[p] = at[p] /\ page'[p] = m + 1
              BY <2>1, <6>1
            <7>2. i <= ((m + 1) - 1) * PageSize
              BY <1>2, <2>4, <3>1, <4>1, <7>1 DEF HasRead
            <7>3. (m + 1) - 1 = m
              BY <3>1
            <7> QED BY <7>2, <7>3
          <6>2. CASE ~HasNext(feed[a], a, m)
            <7>1. at'[p] = at[p] + 1 /\ k < at'[p] /\ k # at'[p]
              BY <2>1, <3>1, <4>1, <6>2
            <7>2. i \in Reads(a)
              BY <1>2, <2>4, <4>1, <7>1 DEF HasRead, Reads, Rows
            <7>3. HasNext(Feed[a], a, m) = HasNext(feed[a], a, m)
              BY FeedSize DEF IInv
            <7>4. m \notin 1 .. (i - 1) \div PageSize
              BY <5>4, <6>2, <7>2, <7>3 DEF Reads
            <7>5. (i - 1) \div PageSize < m
              <8>1. (i - 1) \div PageSize \in Int
                BY <5>1, PageSizeAssumption
              <8> QED BY <3>1, <7>4, <8>1
            <7> QED BY <3>1, <5>1, <7>5, PageOf
          <6> QED BY <6>1, <6>2
        <5> QED BY <5>3, <5>4
      <4>3. facts \subseteq {s.key : s \in ToSet(plan'[p])}
        <5>1. RowFacts(a, i) \subseteq {s.key : s \in ToSet(plan'[p])}
          BY <1>2, <1>6, <4>1, <4>2, PageRead
        <5> QED BY <4>1, <5>1 DEF facts
      <4>4. Pending(q, k)'
        BY <2>1, <2>4, <3>1, <4>1 DEF Pending
      <4> QED BY <2>4, <4>3, <4>4 DEF PlanKeys
    <3> QED BY <3>4, <3>5
  <2> QED BY <2>3, <2>4
<1>7. ASSUME NEW p \in Processes, Stops(p)
      PROVE  facts \subseteq GraphKeys' \cup PlanKeys(q, k)'
  <2>1. /\ UNCHANGED graph /\ plan'[p] = << >>
        /\ \A r \in Processes \ {p} : plan'[r] = plan[r] /\ at'[r] = at[r] /\ page'[r] = page[r]
        /\ \/ at'[p] = 1 /\ page'[p] = 1
           \/ at'[p] = at[p] /\ page'[p] = page[p] /\ plan[p] = << >>
    BY <1>7 DEF Stops
  <2>2. GraphKeys' = GraphKeys
    BY <2>1 DEF GraphKeys
  <2>3. CASE q = p /\ at'[p] = 1 /\ page'[p] = 1
    <3>1. k \in Nat /\ k >= 1 /\ i \in Nat /\ i >= 1
      <4>1. Script[q] \in Seq(AdapterNames \cup {"enrich_vote_bills"})
        BY ScriptAssumption
      <4> QED BY <1>2, <4>1, FeedIsList
    <3>2. (page'[p] - 1) * PageSize = 0
      BY <2>3, PageSizeAssumption
    <3> QED BY <1>2, <2>3, <3>1, <3>2 DEF HasRead
  <2>4. CASE q # p
    BY <1>4, <2>1, <2>2, <2>4
  <2>5. CASE q = p /\ at'[p] = at[p] /\ page'[p] = page[p] /\ plan[p] = << >>
    <3>1. plan'[q] = plan[q] /\ at'[q] = at[q] /\ page'[q] = page[q]
      BY <2>1, <2>5
    <3> QED BY <1>4, <2>2, <3>1
  <2> QED BY <2>1, <2>3, <2>4, <2>5
<1>8. ASSUME Idles PROVE facts \subseteq GraphKeys' \cup PlanKeys(q, k)'
  <2>1. GraphKeys' = GraphKeys
    BY <1>8 DEF Idles, GraphKeys
  <2>2. plan'[q] = plan[q] /\ at'[q] = at[q] /\ page'[q] = page[q]
    BY <1>8 DEF Idles
  <2> QED BY <1>4, <2>1, <2>2
<1>9. facts \subseteq GraphKeys' \cup PlanKeys(q, k)'
  BY <1>5, <1>6, <1>7, <1>8, StepIs
<1> QED BY <1>9 DEF facts

\* What the statements of each kind that is not plain say.
LEMMA KindsSaid ==
  /\ \A i : Term(Position(i))[1] = "knesset_position_term"
  /\ \A i : HeldOf(i)[1] = "HELD_OFFICE" /\ SeatOf(i)[1] = "MEMBER_OF_COMMITTEE"
BY DEF Term, HeldOf, SeatOf

\* The statement that a term is run with says what a row of its id says.
LEMMA TermSaid ==
  ASSUME FeedInv, NEW s, Sourced(s), s.key[1] = "knesset_position_term"
  PROVE  \E i \in Rows("positions") : s.key = Term(Position(i)) /\ PositionDated(s.props, i)
<1>1. ~Plain(s)
  BY DEF Plain
<1>2. ASSUME NEW i \in Rows("positions"), OfPosition(s, i)
      PROVE  s.key = Term(Position(i)) /\ PositionDated(s.props, i)
  BY <1>2, KindsSaid DEF OfPosition
<1>3. ASSUME NEW i \in Rows("committee_memberships"), OfMembership(s, i) PROVE FALSE
  BY <1>3, KindsSaid DEF OfMembership
<1> QED BY <1>1, <1>2, <1>3, Origin

\* The statement that a seat is run with says what a row of its pair says.
LEMMA SeatSaid ==
  ASSUME FeedInv, NEW s, Sourced(s), s.key[1] = "MEMBER_OF_COMMITTEE"
  PROVE  \E i \in Seats(s.key) : s.props = MembershipDates(Membership(i))
<1>1. ~Plain(s)
  BY DEF Plain
<1>2. ASSUME NEW i \in Rows("positions"), OfPosition(s, i) PROVE FALSE
  BY <1>2, KindsSaid DEF OfPosition
<1>3. ASSUME NEW i \in Rows("committee_memberships"), OfMembership(s, i)
      PROVE  i \in Seats(s.key) /\ s.props = MembershipDates(Membership(i))
  BY <1>3 DEF OfMembership, Seats
<1> QED BY <1>1, <1>2, <1>3, Origin

\* The statement that an office held is run with names its person and office.
LEMMA HeldSaid ==
  ASSUME FeedInv, NEW s, Sourced(s), s.key[1] = "HELD_OFFICE"
  PROVE  \E i \in Rows("positions") : Holds(i) /\ s.key = HeldOf(i) /\ PositionDated(s.props, i)
<1>1. ~Plain(s)
  BY DEF Plain
<1>2. ASSUME NEW i \in Rows("positions"), OfPosition(s, i)
      PROVE  s.key = HeldOf(i) /\ PositionDated(s.props, i)
  BY <1>2, KindsSaid DEF OfPosition
<1>3. ASSUME NEW i \in Rows("committee_memberships"), OfMembership(s, i) PROVE FALSE
  BY <1>3, KindsSaid DEF OfMembership
<1> QED BY <1>1, <1>2, <1>3, Origin

\* ON MATCH of a term's or a seat's dates: each is the new one, or the old one
\* where the new one is null.
LEMMA CoalesceDates ==
  ASSUME NEW old, NEW new, {"valid_from", "valid_to"} \subseteq DOMAIN old,
         {"valid_from", "valid_to"} \subseteq DOMAIN new
  PROVE  LET both == Coalesce(old, new) IN
         /\ {"valid_from", "valid_to"} \subseteq DOMAIN both
         /\ both.valid_from = IF new.valid_from # None THEN new.valid_from ELSE old.valid_from
         /\ both.valid_to = IF new.valid_to # None THEN new.valid_to ELSE old.valid_to
BY DEF Coalesce

\* MERGE leaves an entry alone, creates it, or coalesces it.
LEMMA MergeIs ==
  ASSUME NEW table, NEW key, NEW props, NEW k \in DOMAIN Merge(table, key, props)
  PROVE  LET d == Merge(table, key, props)[k] IN
         \/ k \in DOMAIN table /\ d = table[k]
         \/ k = key /\ d = props
         \/ k = key /\ k \in DOMAIN table /\ d = Coalesce(table[k], props)
BY DEF Merge

\* Two rows of a term agree on its start, so that their dates coalesce to those
\* of one of them.
LEMMA DatesCoalesce ==
  ASSUME NEW i \in Rows("positions"), NEW j \in Rows("positions"),
         Position(i).StartDate = Position(j).StartDate,
         NEW old, PositionDated(old, i), NEW new, PositionDated(new, j)
  PROVE  PositionDated(Coalesce(old, new), i) \/ PositionDated(Coalesce(old, new), j)
<1> DEFINE both == Coalesce(old, new)
<1>1. /\ {"valid_from", "valid_to"} \subseteq DOMAIN both
      /\ both.valid_from = IF new.valid_from # None THEN new.valid_from ELSE old.valid_from
      /\ both.valid_to = IF new.valid_to # None THEN new.valid_to ELSE old.valid_to
  BY CoalesceDates DEF PositionDated
<1> HIDE DEF both
<1>2. PositionDated(both, i) \/ PositionDated(both, j)
  BY <1>1 DEF PositionDated
<1> QED BY <1>2 DEF both

\* Every step leaves the terms with the dates of a row of their id.
LEMMA TermStep == ASSUME IInv, [Next]_vars PROVE TermInv'
<1>0. FeedInv /\ TermInv
  BY DEF IInv
<1>1. SUFFICES ASSUME NEW k \in DOMAIN graph'.nodes, k[1] = "knesset_position_term",
                      NEW d, d = graph'.nodes[k]
               PROVE  \E i \in Rows("positions") : Term(Position(i)) = k /\ PositionDated(d, i)'
  BY DEF TermInv, Rows, Position
<1>2. \A i \in Rows("positions") : PositionDated(d, i) => PositionDated(d, i)'
  BY <1>0, DatedStays
<1>3. ASSUME k \in DOMAIN graph.nodes, d = graph.nodes[k]
      PROVE  \E i \in Rows("positions") : Term(Position(i)) = k /\ PositionDated(d, i)
  BY <1>0, <1>1, <1>3 DEF TermInv
<1>4. ASSUME NEW p \in Processes, Runs(p, Head(plan[p]))
      PROVE  \E i \in Rows("positions") : Term(Position(i)) = k /\ PositionDated(d, i)
  <2> DEFINE s == Head(plan[p])
  <2>1. /\ Sourced(s)
        /\ \/ graph'.nodes = Merge(graph.nodes, s.key, s.props)
           \/ graph'.nodes = graph.nodes
    BY <1>4 DEF Runs
  <2> HIDE DEF s
  <2>2. \/ k \in DOMAIN graph.nodes /\ d = graph.nodes[k]
        \/ k = s.key /\ d = s.props
        \/ k = s.key /\ k \in DOMAIN graph.nodes /\ d = Coalesce(graph.nodes[k], s.props)
    BY <1>1, <2>1, MergeIs
  <2>3. CASE k = s.key
    <3>1. PICK j \in Rows("positions") : k = Term(Position(j)) /\ PositionDated(s.props, j)
      BY <1>0, <1>1, <2>1, <2>3, TermSaid
    <3>2. ASSUME k \in DOMAIN graph.nodes, d = Coalesce(graph.nodes[k], s.props)
          PROVE  \E i \in Rows("positions") : Term(Position(i)) = k /\ PositionDated(d, i)
      <4>1. PICK i \in Rows("positions") :
              Term(Position(i)) = k /\ PositionDated(graph.nodes[k], i)
        BY <1>0, <1>1, <3>2 DEF TermInv
      <4>2. Position(i).StartDate = Position(j).StartDate
        BY <3>1, <4>1, TermIsKey
      <4>3. PositionDated(d, i) \/ PositionDated(d, j)
        BY <3>1, <3>2, <4>1, <4>2, DatesCoalesce
      <4> QED BY <3>1, <4>1, <4>3
    <3> QED BY <1>3, <2>2, <3>1, <3>2
  <2> QED BY <1>3, <2>2, <2>3
<1>5. graph' = graph => k \in DOMAIN graph.nodes /\ d = graph.nodes[k]
  BY <1>1
<1>6. \E i \in Rows("positions") : Term(Position(i)) = k /\ PositionDated(d, i)
  BY <1>3, <1>4, <1>5, StepIs DEF Fetches, Stops, Idles
<1> QED BY <1>2, <1>6

\* Every step leaves a seat with the start of a row and the end of a row.
LEMMA SeatStep == ASSUME IInv, [Next]_vars PROVE SeatInv'
<1>0. FeedInv /\ SeatInv
  BY DEF IInv
<1> DEFINE Dated(d, k) ==
             /\ {"valid_from", "valid_to"} \subseteq DOMAIN d
             /\ \E i \in Seats(k) : d.valid_from = Membership(i).start_date
             /\ \E i \in Seats(k) : d.valid_to \in {None, Membership(i).finish_date}
<1>1. SUFFICES ASSUME NEW k \in DOMAIN graph'.edges, k[1] = "MEMBER_OF_COMMITTEE",
                      NEW d, d = graph'.edges[k]
               PROVE  Dated(d, k)
  BY DEF SeatInv, Seats, Rows, Membership, SeatOf
<1>2. ASSUME NEW x \in DOMAIN graph.edges, x[1] = "MEMBER_OF_COMMITTEE"
      PROVE  Dated(graph.edges[x], x)
  BY <1>0, <1>2 DEF SeatInv
<1>3. ASSUME NEW j \in Seats(k) PROVE Dated(MembershipDates(Membership(j)), k)
  BY DEF MembershipDates
<1>4. ASSUME NEW j \in Seats(k), NEW old, Dated(old, k)
      PROVE  Dated(Coalesce(old, MembershipDates(Membership(j))), k)
  <2> DEFINE new == MembershipDates(Membership(j))
             both == Coalesce(old, new)
  <2>1. /\ {"valid_from", "valid_to"} \subseteq DOMAIN new
        /\ new.valid_from = Membership(j).start_date /\ new.valid_to = Membership(j).finish_date
    BY DEF MembershipDates
  <2> HIDE DEF new
  <2>2. /\ {"valid_from", "valid_to"} \subseteq DOMAIN both
        /\ both.valid_from = IF new.valid_from # None THEN new.valid_from ELSE old.valid_from
        /\ both.valid_to = IF new.valid_to # None THEN new.valid_to ELSE old.valid_to
    BY <1>4, <2>1, CoalesceDates
  <2> HIDE DEF both
  <2>3. Dated(both, k)
    BY <1>4, <2>1, <2>2
  <2> QED BY <2>3 DEF both, new
<1> HIDE DEF Dated
<1>5. ASSUME NEW p \in Processes, Runs(p, Head(plan[p])) PROVE Dated(d, k)
  <2> DEFINE s == Head(plan[p])
  <2>1. /\ Sourced(s)
        /\ \/ graph'.edges = Merge(graph.edges, s.key, s.props)
           \/ graph'.edges = graph.edges
    BY <1>5 DEF Runs
  <2> HIDE DEF s
  <2>2. \/ k \in DOMAIN graph.edges /\ d = graph.edges[k]
        \/ k = s.key /\ d = s.props
        \/ k = s.key /\ k \in DOMAIN graph.edges /\ d = Coalesce(graph.edges[k], s.props)
    BY <1>1, <2>1, MergeIs
  <2>3. CASE k = s.key
    <3>1. PICK j \in Seats(k) : s.props = MembershipDates(Membership(j))
      BY <1>0, <1>1, <2>1, <2>3, SeatSaid
    <3> QED BY <1>1, <1>2, <1>3, <1>4, <2>2, <3>1
  <2> QED BY <1>1, <1>2, <2>2, <2>3
<1>6. graph' = graph => Dated(d, k)
  BY <1>1, <1>2
<1> QED BY <1>5, <1>6, StepIs DEF Fetches, Stops, Idles

\* A row that states an office held states a term of it, linked on both sides.
LEMMA HoldsLinked ==
  ASSUME NEW h \in Rows("positions"), Holds(h), NEW E, RowFacts("positions", h) \subseteq E
  PROVE  TermIn(E, HeldOf(h))
<1> DEFINE row == Position(h)
           has == <<"HAS_POSITION_TERM", Person(row.PersonID), Term(row)>>
           about == <<"ABOUT_OFFICE", Term(row), Office(row)>>
<1>1. OfficeFacts(row) \subseteq PositionFacts(row)
  BY DEF Holds, PositionFacts
<1>2. /\ Edge("HAS_POSITION_TERM", Person(row.PersonID), Term(row), << >>) \in PositionFacts(row)
      /\ Edge("ABOUT_OFFICE", Term(row), Office(row), << >>) \in PositionFacts(row)
  BY <1>1 DEF OfficeFacts
<1>3. ToSet(RowStatements("positions", row)) = PositionFacts(row)
  BY PositionsRow DEF States
<1>4. has \in RowFacts("positions", h) /\ about \in RowFacts("positions", h)
  <2>1. /\ Edge("HAS_POSITION_TERM", Person(row.PersonID), Term(row), << >>).key = has
        /\ Edge("ABOUT_OFFICE", Term(row), Office(row), << >>).key = about
    BY DEF Edge
  <2> QED BY <1>2, <1>3, <2>1 DEF RowFacts, RowKeys, Position
<1>5. HeldOf(h)[2] = Person(row.PersonID) /\ HeldOf(h)[3] = Office(row)
  BY DEF HeldOf
<1> QED BY <1>4, <1>5 DEF TermIn

\* Only rows of positions state one.
LEMMA HeldRow ==
  ASSUME FeedInv, NEW a \in AdapterNames, NEW i \in Rows(a),
         NEW s \in ToSet(RowStatements(a, feed[a][i])), s.key[1] = "HELD_OFFICE"
  PROVE  a = "positions" /\ Holds(i) /\ s.key = HeldOf(i) /\ PositionDated(s.props, i)
<1>1. ~Plain(s)
  BY DEF Plain
<1>2. CASE a = "positions"
  <2>1. Holds(i) /\ OfPosition(s, i)
    BY <1>1, <1>2, PositionSays
  <2> QED BY <1>2, <2>1, KindsSaid DEF OfPosition
<1>3. CASE a = "committee_memberships"
  <2>1. s \in ToSet(RowStatements("committee_memberships", Membership(i)))
    BY <1>3 DEF FeedInv, Membership
  <2>2. OfMembership(s, i)
    BY <1>1, <1>3, <2>1, MembershipSays
  <2> QED BY <2>2, KindsSaid DEF OfMembership
<1>4. CASE a \notin {"positions", "committee_memberships"}
  <2>1. s \in ToSet(RowStatements(a, Feed[a][i]))
    BY <1>4 DEF FeedInv
  <2>2. AllPlain(RowStatements(a, Feed[a][i]))
    BY <1>4, OthersPlain, AttendedIsList
  <2> QED BY <1>1, <2>1, <2>2 DEF AllPlain
<1> QED BY <1>2, <1>3, <1>4

\* The first row of an office and person is one.
LEMMA OneFirst ==
  ASSUME NEW k, NEW i \in FirstHeld(k), NEW j \in FirstHeld(k)
  PROVE  i = j
<1>1. i \in Nat /\ j \in Nat /\ i >= 1 /\ j >= 1
  <2>1. "positions" \in AdapterNames
    BY DEF AdapterNames
  <2>2. Rows("positions") = 1 .. Len(Feed["positions"]) /\ Len(Feed["positions"]) \in Nat
    BY <2>1, FeedIsList
  <2>3. i \in Rows("positions") /\ j \in Rows("positions")
    BY DEF FirstHeld
  <2> QED BY <2>2, <2>3
<1>2. /\ Holds(i) /\ HeldOf(i) = k /\ \A h \in 1 .. i - 1 : ~(Holds(h) /\ HeldOf(h) = k)
      /\ Holds(j) /\ HeldOf(j) = k /\ \A h \in 1 .. j - 1 : ~(Holds(h) /\ HeldOf(h) = k)
  BY DEF FirstHeld
<1>3. CASE i < j
  <2>1. i \in 1 .. j - 1
    BY <1>1, <1>3
  <2> QED BY <1>2, <2>1
<1>4. CASE j < i
  <2>1. j \in 1 .. i - 1
    BY <1>1, <1>4
  <2> QED BY <1>2, <2>1
<1> QED BY <1>1, <1>3, <1>4

\* Two versions of the dates of the first row coalesce to its dates.
LEMMA FirstCoalesce ==
  ASSUME NEW k, NEW old, NEW new, FirstTerm(k, old), FirstTerm(k, new)
  PROVE  FirstTerm(k, Coalesce(old, new))
<1>1. PICK i \in FirstHeld(k) : PositionDated(old, i)
  BY DEF FirstTerm
<1>2. PICK j \in FirstHeld(k) : PositionDated(new, j)
  BY DEF FirstTerm
<1>3. i = j /\ i \in Rows("positions")
  BY OneFirst DEF FirstHeld
<1>4. PositionDated(Coalesce(old, new), i)
  BY <1>1, <1>2, <1>3, DatesCoalesce
<1> QED BY <1>4 DEF FirstTerm

\* A term linked on both sides stays linked in a larger graph.
LEMMA TermInMore ==
  ASSUME NEW D, NEW E, D \subseteq E, NEW k, TermIn(D, k)
  PROVE  TermIn(E, k)
BY DEF TermIn

\* What a fetched page says of an office held is what its first row says, unless
\* a term of it stands in the graph already or is stated before.
LEMMA HeldRead ==
  ASSUME IInv, NEW p \in Processes, NEW a \in AdapterNames,
         Fetches(p, a, PageRows(feed[a], a, page[p])),
         NEW j \in DOMAIN plan'[p], plan'[p][j].key[1] = "HELD_OFFICE"
  PROVE  \/ TermIn(GraphKeys \cup {x.key : x \in Before(plan'[p], j)}, plan'[p][j].key)
         \/ FirstTerm(plan'[p][j].key, plan'[p][j].props)
<1> DEFINE s == plan'[p][j]
           earlier == {x.key : x \in Before(plan'[p], j)}
<1>0. FeedInv /\ OwedInv
  BY DEF IInv
<1>1. PICK i \in Rows(a) :
        /\ s \in ToSet(RowStatements(a, feed[a][i]))
        /\ \A h \in Rows(a) : h > Above(a, page[p]) /\ h < i => RowFacts(a, h) \subseteq earlier
  BY PageRead
<1>2. s.key[1] = "HELD_OFFICE"
  OBVIOUS
<1> HIDE DEF s, earlier
<1>3. a = "positions" /\ Holds(i) /\ s.key = HeldOf(i) /\ PositionDated(s.props, i)
  BY <1>0, <1>1, <1>2, HeldRow
<1>4. CASE i \in FirstHeld(s.key)
  BY <1>3, <1>4 DEF FirstTerm, s
<1>5. CASE i \notin FirstHeld(s.key)
  <2>1. PICK h \in 1 .. i - 1 : Holds(h) /\ HeldOf(h) = s.key
    BY <1>1, <1>3, <1>5 DEF FirstHeld
  <2>2. h \in Rows("positions") /\ h < i /\ h \in Nat
    <3>1. Rows(a) = 1 .. Len(Feed[a]) /\ Len(Feed[a]) \in Nat
      BY FeedIsList
    <3> QED BY <1>1, <1>3, <2>1, <3>1
  <2>3. RowFacts("positions", h) \subseteq GraphKeys \cup earlier
    <3>1. CASE h > Above(a, page[p])
      BY <1>1, <1>3, <2>2, <3>1
    <3>2. CASE ~(h > Above(a, page[p]))
      <4>1. page[p] \in Nat \ {0}
        BY DEF IInv, TypeOK
      <4>2. Above(a, page[p]) = (page[p] - 1) * PageSize /\ Above(a, page[p]) \in Nat
        BY <1>3, <4>1, AboveNat DEF Above, Paged
      <4>3. h <= (page[p] - 1) * PageSize
        <5>1. h <= Above(a, page[p])
          BY <2>2, <3>2, <4>2
        <5> QED BY <4>2, <5>1
      <4>4. /\ at[p] \in DOMAIN Script[p] /\ Script[p][at[p]] = a /\ plan[p] = << >>
        BY DEF Fetches
      <4>5. HasRead(p, at[p], h)
        BY <4>3 DEF HasRead
      <4>6. RowFacts(a, h) \subseteq GraphKeys \cup PlanKeys(p, at[p])
        BY <1>0, <1>3, <2>2, <4>4, <4>5 DEF OwedInv
      <4>7. PlanKeys(p, at[p]) = {}
        BY <4>4, EmptyIsSeq DEF PlanKeys
      <4> QED BY <1>3, <4>6, <4>7
    <3> QED BY <3>1, <3>2
  <2>4. TermIn(GraphKeys \cup earlier, HeldOf(h))
    BY <2>1, <2>2, <2>3, HoldsLinked
  <2> QED BY <2>1, <2>4 DEF s, earlier
<1> QED BY <1>4, <1>5

\* Every step leaves the HELD_OFFICE edges with the dates of their first term,
\* or behind a position term.
LEMMA OfficeStep == ASSUME IInv, [Next]_vars PROVE HeldInv'
<1>0. FeedInv /\ HeldInv
  BY DEF IInv
<1>1. GraphKeys \subseteq GraphKeys'
  <2>1. ASSUME UNCHANGED graph PROVE GraphKeys' = GraphKeys
    BY <2>1 DEF GraphKeys
  <2> QED BY <2>1, StepIs DEF Runs, Fetches, Stops, Idles
<1>2. ASSUME NEW k, NEW d, FirstTerm(k, d) PROVE FirstTerm(k, d)'
  <2>1. PICK i \in FirstHeld(k) : PositionDated(d, i)
    BY <1>2 DEF FirstTerm
  <2>2. PositionDated(d, i)'
    BY <1>0, <2>1, DatedStays DEF FirstHeld
  <2> QED BY <2>2 DEF FirstTerm, FirstHeld, Rows, Holds, HeldOf, Position
<1> DEFINE Shown(E, k, d) == TermIn(E, k) \/ FirstTerm(k, d)
<1>3. ASSUME NEW D, NEW E, D \subseteq E, NEW k, NEW d, Shown(D, k, d) PROVE Shown(E, k, d)
  BY <1>3, TermInMore
<1>4. ASSUME NEW k \in DOMAIN graph.edges, k[1] = "HELD_OFFICE"
      PROVE  Shown(GraphKeys, k, graph.edges[k])
  BY <1>0, <1>4 DEF HeldInv
<1>5. ASSUME NEW q \in Processes, NEW j \in DOMAIN plan[q], plan[q][j].key[1] = "HELD_OFFICE"
      PROVE  Shown(GraphKeys \cup {s.key : s \in Before(plan[q], j)}, plan[q][j].key, plan[q][j].props)
  BY <1>0, <1>5 DEF HeldInv
<1>6. ASSUME NEW k, NEW d, NEW old, NEW E, Shown(E, k, old), Shown(E, k, d)
      PROVE  Shown(E, k, Coalesce(old, d))
  BY <1>6, FirstCoalesce
<1> HIDE DEF Shown
<1>7. ASSUME NEW k \in DOMAIN graph'.edges, k[1] = "HELD_OFFICE", NEW d, d = graph'.edges[k]
      PROVE  Shown(GraphKeys', k, d)
  <2>1. ASSUME k \in DOMAIN graph.edges PROVE Shown(GraphKeys', k, graph.edges[k])
    BY <1>1, <1>3, <1>4, <1>7, <2>1
  <2>2. ASSUME NEW p \in Processes, Runs(p, Head(plan[p])) PROVE Shown(GraphKeys', k, d)
    <3> DEFINE s == Head(plan[p])
    <3>1. /\ plan[p] # << >> /\ IsSeq(plan[p])
          /\ \/ graph'.edges = Merge(graph.edges, s.key, s.props)
             \/ graph'.edges = graph.edges
      BY <2>2 DEF Runs
    <3>2. /\ 1 \in DOMAIN plan[p] /\ plan[p][1] = s
          /\ Before(plan[p], 1) = {}
      <4>1. Head(plan[p]) = plan[p][1] /\ Len(plan[p]) \in Nat /\ Len(plan[p]) > 0
        BY <3>1, HeadTail
      <4>2. DOMAIN plan[p] = 1 .. Len(plan[p])
        BY <3>1, SeqDomain
      <4> QED BY <4>1, <4>2 DEF Before
    <3> HIDE DEF s
    <3>3. s.key[1] = "HELD_OFFICE" => Shown(GraphKeys', s.key, s.props)
      <4>1. {x.key : x \in Before(plan[p], 1)} = {}
        BY <3>2
      <4>2. GraphKeys \cup {x.key : x \in Before(plan[p], 1)} \subseteq GraphKeys'
        BY <1>1, <4>1
      <4> QED BY <1>3, <1>5, <3>2, <4>2
    <3>4. \/ k \in DOMAIN graph.edges /\ d = graph.edges[k]
          \/ k = s.key /\ d = s.props
          \/ k = s.key /\ k \in DOMAIN graph.edges /\ d = Coalesce(graph.edges[k], s.props)
      BY <1>7, <3>1, MergeIs
    <3> QED BY <1>6, <1>7, <2>1, <3>3, <3>4
  <2>3. graph' = graph => Shown(GraphKeys', k, d)
    BY <1>7, <2>1
  <2> QED BY <2>2, <2>3, StepIs DEF Fetches, Stops, Idles
<1>8. ASSUME NEW q \in Processes, NEW j \in DOMAIN plan'[q], NEW s, s = plan'[q][j],
             s.key[1] = "HELD_OFFICE", NEW E, E = {x.key : x \in Before(plan'[q], j)}
      PROVE  Shown(GraphKeys' \cup E, s.key, s.props)
  <2>1. ASSUME plan'[q] = plan[q] PROVE Shown(GraphKeys' \cup E, s.key, s.props)
    <3>1. j \in DOMAIN plan[q] /\ s = plan[q][j] /\ E = {x.key : x \in Before(plan[q], j)}
      BY <1>8, <2>1
    <3>2. Shown(GraphKeys \cup E, s.key, s.props)
      BY <1>5, <1>8, <3>1
    <3> QED BY <1>1, <1>3, <3>2
  <2>2. ASSUME NEW p \in Processes, Runs(p, Head(plan[p]))
        PROVE  Shown(GraphKeys' \cup E, s.key, s.props)
    <3>1. CASE q # p
      BY <2>1, <2>2, <3>1 DEF Runs
    <3>2. CASE q = p
      <4> DEFINE head == Head(plan[p])
      <4>1. /\ plan[p] # << >> /\ IsSeq(plan[p]) /\ plan'[p] = Tail(plan[p])
            /\ GraphKeys' = GraphKeys \cup {head.key}
        BY <2>2 DEF Runs
      <4>2. /\ j + 1 \in DOMAIN plan[p] /\ s = plan[p][j + 1]
            /\ Before(plan[p], j + 1) = {head} \cup Before(plan'[p], j)
        BY <1>8, <3>2, <4>1, HeadTail
      <4> HIDE DEF head
      <4>3. Shown(GraphKeys \cup {x.key : x \in Before(plan[p], j + 1)}, s.key, s.props)
        BY <1>5, <1>8, <4>2
      <4>4. GraphKeys \cup {x.key : x \in Before(plan[p], j + 1)} \subseteq GraphKeys' \cup E
        BY <1>8, <3>2, <4>1, <4>2
      <4> QED BY <1>3, <4>3, <4>4
    <3> QED BY <3>1, <3>2
  <2>3. ASSUME NEW p \in Processes, NEW a \in AdapterNames,
               Fetches(p, a, PageRows(feed[a], a, page[p]))
        PROVE  Shown(GraphKeys' \cup E, s.key, s.props)
    <3>1. CASE q # p
      BY <2>1, <2>3, <3>1 DEF Fetches
    <3>2. CASE q = p
      <4>1. Shown(GraphKeys \cup E, s.key, s.props)
        BY <1>8, <2>3, <3>2, HeldRead DEF Shown
      <4> QED BY <1>1, <1>3, <4>1
    <3> QED BY <3>1, <3>2
  <2>4. ASSUME NEW p \in Processes, Stops(p) PROVE Shown(GraphKeys' \cup E, s.key, s.props)
    <3>1. CASE q # p
      BY <2>1, <2>4, <3>1 DEF Stops
    <3>2. CASE q = p
      <4>1. DOMAIN plan'[q] = {}
        BY <2>4, <3>2, EmptyIsSeq DEF Stops
      <4> QED BY <1>8, <4>1
    <3> QED BY <3>1, <3>2
  <2>5. ASSUME Idles PROVE Shown(GraphKeys' \cup E, s.key, s.props)
    BY <2>1, <2>5 DEF Idles
  <2> QED BY <2>2, <2>3, <2>4, <2>5, StepIs
<1>9. ASSUME NEW E, NEW k, NEW d, Shown(E, k, d) PROVE TermIn(E, k) \/ FirstTerm(k, d)'
  BY <1>2, <1>9 DEF Shown
<1>10. ASSUME NEW k \in DOMAIN graph'.edges, k[1] = "HELD_OFFICE"
       PROVE  TermIn(GraphKeys', k) \/ FirstTerm(k, graph.edges[k])'
  <2>1. PICK d : d = graph'.edges[k]
    OBVIOUS
  <2>2. TermIn(GraphKeys', k) \/ FirstTerm(k, d)'
    BY <1>7, <1>9, <1>10, <2>1
  <2> QED BY <2>1, <2>2
<1>11. ASSUME NEW q \in Processes, NEW j \in DOMAIN plan'[q], plan'[q][j].key[1] = "HELD_OFFICE"
       PROVE  \/ TermIn(GraphKeys' \cup {x.key : x \in Before(plan'[q], j)}, plan'[q][j].key)
              \/ FirstTerm(plan[q][j].key, plan[q][j].props)'
  <2>1. PICK s : s = plan'[q][j]
    OBVIOUS
  <2>2. PICK E : E = {x.key : x \in Before(plan'[q], j)}
    OBVIOUS
  <2>3. TermIn(GraphKeys' \cup E, s.key) \/ FirstTerm(s.key, s.props)'
    BY <1>8, <1>9, <1>11, <2>1, <2>2
  <2> QED BY <2>1, <2>2, <2>3
<1> QED BY <1>10, <1>11 DEF HeldInv

\* Every step keeps the invariant.
LEMMA StepInv == IInv /\ [Next]_vars => IInv'
<1> SUFFICES ASSUME IInv, [Next]_vars PROVE IInv'
  OBVIOUS
<1>1. TypeOK' /\ FeedInv'
  BY TypeStep, FeedMoves DEF IInv
<1>2. IsGraph(graph)' /\ Grounded(graph)'
  <2>1. IsGraph(graph) /\ Grounded(graph)
    BY DEF IInv
  <2>2. CASE graph' = graph
    BY <2>1, <2>2 DEF IsGraph, Grounded
  <2>3. CASE \E p \in Processes : graph' = Apply(graph, Head(plan[p]))
    <3>1. IsGraph(graph') /\ Grounded(graph')
      BY <2>1, <2>3, ApplyKeeps, ApplyGrounds
    <3> QED BY <3>1 DEF IsGraph, Grounded
  <2> QED BY <2>2, <2>3, GraphStep
<1>3. PlanInv' /\ KeyInv' /\ OwedInv'
  BY PlanStep, KeyStep, OwedStep
<1>4. TermInv' /\ SeatInv' /\ HeldInv'
  BY TermStep, SeatStep, OfficeStep
<1> QED BY <1>1, <1>2, <1>3, <1>4 DEF IInv

-----------------------------------------------------------------------------
(* What the invariant says of the graph. *)

\* What an adapter that has run to its end has read is in the graph.
LEMMA Stands ==
  ASSUME IInv, NEW p \in Processes, NEW a \in AdapterNames, Completed(p, a), NEW i \in Reads(a)
  PROVE  RowFacts(a, i) \subseteq GraphKeys
<1>1. PICK k \in DOMAIN Script[p] : Written(p, k) /\ Script[p][k] = a
  BY DEF Completed
<1>2. at[p] \in Nat \ {0} /\ OwedInv
  BY DEF IInv, TypeOK
<1>3. k \in Nat
  <2>1. Script[p] \in Seq(AdapterNames \cup {"enrich_vote_bills"})
    BY ScriptAssumption
  <2> QED BY <2>1
<1>4. i \in Rows(a) /\ HasRead(p, k, i)
  BY <1>1 DEF Reads, HasRead, Written
<1>5. RowFacts(a, i) \subseteq GraphKeys \cup PlanKeys(p, k)
  BY <1>1, <1>2, <1>4 DEF OwedInv
<1>6. PlanKeys(p, k) = {}
  <2>1. CASE ~Pending(p, k)
    BY <2>1 DEF PlanKeys
  <2>2. CASE Pending(p, k)
    <3>1. plan[p] = << >>
      BY <1>1, <1>2, <1>3, <2>2 DEF Written, Pending
    <3> QED BY <3>1, EmptyIsSeq DEF PlanKeys
  <2> QED BY <2>1, <2>2
<1> QED BY <1>5, <1>6

\* A row that the run has seen is one that the invariant counts as read.
LEMMA SeenIsRead ==
  ASSUME FeedInv, NEW a \in AdapterNames
  PROVE  Seen(a) = Reads(a)
<1>1. DOMAIN feed[a] = Rows(a)
  BY NowIsList
<1>2. \A n : HasNext(feed[a], a, n) = HasNext(Feed[a], a, n)
  BY FeedSize
<1> QED BY <1>1, <1>2 DEF Seen, Reads

\* An edge key is in the edges, a node key in the nodes.
LEMMA KeyPlace ==
  ASSUME KeyInv, NEW k \in GraphKeys
  PROVE  /\ Len(k) = 3 => k \in DOMAIN graph.edges
         /\ Len(k) = 2 => k \in DOMAIN graph.nodes
BY DEF KeyInv, GraphKeys

\* A page of the decisions whose rows all parse has a next one, unless it is short.
LEMMA FullPage ==
  ASSUME NEW rows, IsSeq(rows), NEW n \in Nat \ {0}, n * PageSize <= Len(rows),
         \A j \in 1 .. n * PageSize : ParseResponse(rows[j])
  PROVE  HasNext(rows, "gov_decisions", n)
<1> DEFINE here == PageRows(rows, "gov_decisions", n)
           off == (n - 1) * PageSize
<1>1. /\ PageSize \in Nat /\ off \in Nat /\ n * PageSize = off + PageSize
      /\ Above("gov_decisions", n) = off
  BY PageSizeAssumption, AboveNat DEF Above, Paged
<1>2. DOMAIN rows = 1 .. Len(rows) /\ Len(rows) \in Nat
  BY SeqDomain
<1>3. /\ IsSeq(here)
      /\ \A j \in DOMAIN here : off + j \in DOMAIN rows /\ here[j] = rows[off + j]
      /\ \A i \in DOMAIN rows : i > off /\ i <= n * PageSize => i - off \in DOMAIN here
  BY <1>1, PageIs
<1>4. DOMAIN here = 1 .. Len(here) /\ Len(here) \in Nat
  BY <1>3, SeqDomain
<1> HIDE DEF here, off
<1>5. ASSUME NEW j \in 1 .. PageSize PROVE j \in Kept(here)
  <2>1. /\ off + j \in DOMAIN rows /\ off + j > off /\ off + j <= n * PageSize
        /\ (off + j) - off = j /\ off + j \in 1 .. n * PageSize
    BY <1>1, <1>2
  <2>2. j \in DOMAIN here /\ here[j] = rows[off + j]
    BY <1>3, <2>1
  <2> QED BY <2>1, <2>2 DEF Kept
<1>6. IsFiniteSet(Kept(here))
  <2>1. IsFiniteSet(1 .. Len(here))
    BY <1>4, FS_Interval
  <2>2. Kept(here) \in SUBSET (1 .. Len(here))
    BY <1>4 DEF Kept
  <2> QED BY <2>1, <2>2, FS_Subset
<1>7. Cardinality(1 .. PageSize) = PageSize
  BY PageSizeAssumption, FS_Interval
<1>8. Cardinality(1 .. PageSize) <= Cardinality(Kept(here))
  BY <1>5, <1>6, FS_Subset
<1>9. Cardinality(Kept(here)) >= PageSize
  <2>1. Cardinality(Kept(here)) \in Nat
    BY <1>6, FS_CardinalityType
  <2> QED BY <1>1, <1>7, <1>8, <2>1
<1> QED BY <1>9 DEF HasNext, here

\* A crawl goes on only to a page that begins no later than its list ends: a
\* page of the decisions that goes on is full, and its last row is in the list.
LEMMA NextWithin ==
  ASSUME NEW rows, IsSeq(rows), NEW a, NEW n \in Nat \ {0}, HasNext(rows, a, n)
  PROVE  n * PageSize <= Len(rows)
<1> DEFINE here == PageRows(rows, a, n)
           off == (n - 1) * PageSize
<1>1. PageSize \in Nat /\ PageSize > 0 /\ off \in Nat /\ n * PageSize = off + PageSize
  BY PageSizeAssumption, AboveNat
<1>2. DOMAIN rows = 1 .. Len(rows) /\ Len(rows) \in Nat
  BY SeqDomain
<1>3. CASE a = "gov_decisions"
  <2>1. a \in Paged /\ Above(a, n) = off
    BY <1>3 DEF Paged, Above
  <2>2. IsSeq(here) /\ \A j \in DOMAIN here : off + j \in DOMAIN rows
    BY <2>1, PageIs
  <2>3. DOMAIN here = 1 .. Len(here) /\ Len(here) \in Nat
    BY <2>2, SeqDomain
  <2>4. Cardinality(Kept(here)) >= PageSize
    BY <1>3 DEF HasNext
  <2> HIDE DEF here, off
  <2>5. IsFiniteSet(1 .. Len(here)) /\ Cardinality(1 .. Len(here)) = Len(here)
    <3> DEFINE k == Len(here)
    <3>1. 1 \in Int /\ k \in Nat
      BY <2>3
    <3> HIDE DEF k
    <3>2. /\ IsFiniteSet(1 .. k)
          /\ Cardinality(1 .. k) = IF 1 > k THEN 0 ELSE k - 1 + 1
      BY <3>1, FS_Interval
    <3>3. Cardinality(1 .. k) = k
      BY <3>1, <3>2
    <3> QED BY <3>2, <3>3 DEF k
  <2>6. Kept(here) \in SUBSET (1 .. Len(here))
    BY <2>3 DEF Kept
  <2>7. /\ Cardinality(Kept(here)) \in Nat
        /\ Cardinality(Kept(here)) <= Cardinality(1 .. Len(here))
    BY <2>5, <2>6, FS_Subset, FS_CardinalityType
  <2>8. PageSize <= Len(here)
    BY <1>1, <2>3, <2>4, <2>5, <2>7
  <2>9. PageSize \in DOMAIN here
    BY <1>1, <2>3, <2>8
  <2>10. off + PageSize \in DOMAIN rows
    BY <2>2, <2>9
  <2>11. off + PageSize <= Len(rows)
    BY <1>2, <2>10
  <2> QED BY <1>1, <2>11
<1>4. CASE a # "gov_decisions"
  <2>1. n * PageSize < Len(rows)
    BY <1>4 DEF HasNext
  <2> HIDE DEF off
  <2> QED BY <1>1, <1>2, <2>1
<1> QED BY <1>3, <1>4

\* Once the crawl of the decisions is over, one that is not in the graph stands
\* behind a page with a record parse_response drops.
LEMMA DecisionStands ==
  ASSUME IInv, NEW p \in Processes, Completed(p, "gov_decisions"),
         NEW i \in Rows("gov_decisions"), ParseResponse(Feed["gov_decisions"][i]),
         \A j \in 1 .. ((i - 1) \div PageSize) * PageSize : ParseResponse(Feed["gov_decisions"][j])
  PROVE  <<"budgetkey_gov_decision", Feed["gov_decisions"][i].id>> \in DOMAIN graph.nodes
<1> DEFINE a == "gov_decisions"
           q == (i - 1) \div PageSize
           row == Feed["gov_decisions"][i]
<1>1. a \in AdapterNames /\ a \in Paged
  BY DEF AdapterNames, Paged
<1>2. IsSeq(Feed[a]) /\ Len(Feed[a]) \in Nat /\ Rows(a) = 1 .. Len(Feed[a])
  BY <1>1, FeedIsList
<1>3. PageSize \in Nat /\ PageSize > 0 /\ i \in Nat /\ i >= 1 /\ i <= Len(Feed[a])
  BY <1>2, PageSizeAssumption
<1>4. q \in Nat /\ q * PageSize <= i - 1
  BY <1>3
<1>5. ASSUME NEW n \in 1 .. q PROVE HasNext(Feed[a], a, n)
  <2> HIDE DEF q
  <2>1. n \in Nat \ {0} /\ n <= q
    BY <1>4
  <2>2. n * PageSize <= q * PageSize /\ n * PageSize \in Nat /\ q * PageSize \in Nat
    BY <1>3, <1>4, <2>1
  <2>3. n * PageSize <= Len(Feed[a])
    BY <1>2, <1>3, <1>4, <2>2
  <2>4. \A j \in 1 .. n * PageSize : ParseResponse(Feed[a][j])
    <3>1. \A j \in 1 .. n * PageSize : j \in 1 .. q * PageSize
      BY <2>2
    <3> QED BY <3>1 DEF q
  <2> QED BY <1>2, <2>1, <2>3, <2>4, FullPage
<1>6. i \in Reads(a)
  BY <1>1, <1>5 DEF Reads
<1>7. RowFacts(a, i) \subseteq GraphKeys
  BY <1>1, <1>6, Stands
<1>8. <<"budgetkey_gov_decision", row.id>> \in RowFacts(a, i)
  <2> DEFINE node == Node(<<"budgetkey_gov_decision", row.id>>,
                          [decision_number |-> row.number, title |-> row.title])
  <2>1. node \in ToSet(RowStatements("gov_decisions", row))
    BY DecisionsRow DEF States
  <2>2. node.key = <<"budgetkey_gov_decision", row.id>>
    BY DEF Node
  <2> QED BY <2>1, <2>2 DEF RowFacts, RowKeys
<1>9. KeyInv
  BY DEF IInv
<1> HIDE DEF row
<1>10. <<"budgetkey_gov_decision", row.id>> \in DOMAIN graph.nodes
  BY <1>7, <1>8, <1>9, KeyPlace
<1> QED BY <1>10 DEF row

\* A membership that sits, once loaded, is found on its first day and after,
\* unless a row of the same pair says otherwise.
LEMMA SeatStands ==
  ASSUME IInv, NEW p \in Processes, Completed(p, "committee_memberships"),
         NEW i \in Rows("committee_memberships"), Sits(Membership(i))
  PROVE  SeatOf(i) \in DOMAIN graph.edges
<1> DEFINE a == "committee_memberships"
           row == Membership(i)
           edge == Edge("MEMBER_OF_COMMITTEE", Person(MkLookup[row.mk_individual_id]),
                        Committee(row.committee_id), MembershipDates(row))
<1>1. a \in AdapterNames /\ a \notin Paged
  BY DEF AdapterNames, Paged
<1>2. RowFacts(a, i) \subseteq GraphKeys
  BY <1>1, Stands DEF Reads
<1>3. edge \in ToSet(RowStatements("committee_memberships", row))
  BY MembershipsRow DEF States
<1>4. edge.key = SeatOf(i)
  BY DEF Edge, SeatOf
<1>5. SeatOf(i) \in RowFacts(a, i)
  <2> HIDE DEF edge
  <2> QED BY <1>3, <1>4 DEF RowFacts, RowKeys, Membership
<1>6. Len(SeatOf(i)) = 3
  BY DEF SeatOf
<1> QED BY <1>2, <1>5, <1>6, KeyPlace DEF IInv

\* The two links of a term to a person and an office are of one row, the term's.
LEMMA LinkedTerm ==
  ASSUME IInv, NEW person, NEW office, NEW t \in Linked(graph, person, office)
  PROVE  \E i \in Rows("positions") :
           /\ Person(Position(i).PersonID) = person /\ Office(Position(i)) = office
           /\ PositionDated(graph.nodes[t], i)
<1> DEFINE has == <<"HAS_POSITION_TERM", person, t>>
           about == <<"ABOUT_OFFICE", t, office>>
<1>1. t \in DOMAIN graph.nodes /\ has \in DOMAIN graph.edges /\ about \in DOMAIN graph.edges
  BY DEF Linked
<1>2. FeedInv /\ KeyInv /\ TermInv
  BY DEF IInv
<1>3. ASSUME NEW k \in Facts, k[1] \in {"HAS_POSITION_TERM", "ABOUT_OFFICE"}
      PROVE  \E j \in Rows("positions") :
               \/ k = <<"HAS_POSITION_TERM", Person(Position(j).PersonID), Term(Position(j))>>
               \/ k = <<"ABOUT_OFFICE", Term(Position(j)), Office(Position(j))>>
  <2>1. PICK b \in AdapterNames : \E j \in Rows(b) : k \in RowFacts(b, j)
    BY FactsAre
  <2>2. PICK j \in Rows(b) : k \in RowFacts(b, j)
    BY <2>1
  <2>3. PICK s \in ToSet(RowStatements(b, Feed[b][j])) : k = s.key
    BY <2>2 DEF RowFacts, RowKeys
  <2>4. Sourced(s)
    BY <2>2, <2>3 DEF Sourced
  <2>5. ~Plain(s)
    BY <1>3, <2>3 DEF Plain
  <2>6. CASE \E l \in Rows("positions") : OfPosition(s, l)
    <3>1. PICK l \in Rows("positions") : OfPosition(s, l)
      BY <2>6
    <3> QED BY <1>3, <2>3, <3>1, KindsSaid DEF OfPosition
  <2>7. CASE \E l \in Rows("committee_memberships") : OfMembership(s, l)
    BY <1>3, <2>3, <2>7, KindsSaid DEF OfMembership
  <2> QED BY <1>2, <2>4, <2>5, <2>6, <2>7, Origin
<1>4. PICK j \in Rows("positions") :
        has = <<"HAS_POSITION_TERM", Person(Position(j).PersonID), Term(Position(j))>>
  <2>1. has \in Facts /\ has[1] = "HAS_POSITION_TERM"
    BY <1>1, <1>2 DEF KeyInv
  <2>2. \A l : has # <<"ABOUT_OFFICE", Term(Position(l)), Office(Position(l))>>
    OBVIOUS
  <2> HIDE DEF has
  <2> QED BY <1>3, <2>1, <2>2
<1>5. PICK h \in Rows("positions") :
        about = <<"ABOUT_OFFICE", Term(Position(h)), Office(Position(h))>>
  <2>1. about \in Facts /\ about[1] = "ABOUT_OFFICE"
    BY <1>1, <1>2 DEF KeyInv
  <2>2. \A l : about # <<"HAS_POSITION_TERM", Person(Position(l).PersonID), Term(Position(l))>>
    OBVIOUS
  <2> HIDE DEF about
  <2> QED BY <1>3, <2>1, <2>2
<1>6. /\ t = Term(Position(j)) /\ t = Term(Position(h))
      /\ person = Person(Position(j).PersonID) /\ office = Office(Position(h))
  BY <1>4, <1>5
<1>7. PICK i \in Rows("positions") : Term(Position(i)) = t /\ PositionDated(graph.nodes[t], i)
  BY <1>1, <1>2, <1>6, KindsSaid DEF TermInv
<1>8. /\ Position(i).PersonID = Position(j).PersonID
      /\ Office(Position(i)) = Office(Position(h))
  BY <1>6, <1>7, TermIsKey
<1> QED BY <1>6, <1>7, <1>8

\* The HELD_OFFICE edge states one term too, where it is asked.
LEMMA HeldTerm ==
  ASSUME IInv, NEW person, NEW office, Linked(graph, person, office) = {},
         <<"HELD_OFFICE", person, office>> \in DOMAIN graph.edges
  PROVE  \E i \in Rows("positions") :
           /\ Person(Position(i).PersonID) = person /\ Office(Position(i)) = office
           /\ PositionDated(graph.edges[<<"HELD_OFFICE", person, office>>], i)
<1> DEFINE k == <<"HELD_OFFICE", person, office>>
<1>1. HeldInv /\ KeyInv /\ Grounded(graph)
  BY DEF IInv
<1>2. k[1] = "HELD_OFFICE" /\ k[2] = person /\ k[3] = office /\ k \in DOMAIN graph.edges
  OBVIOUS
<1> HIDE DEF k
<1>3. CASE TermIn(GraphKeys, k)
  <2>1. PICK t : /\ <<"HAS_POSITION_TERM", person, t>> \in GraphKeys
                 /\ <<"ABOUT_OFFICE", t, office>> \in GraphKeys
    BY <1>2, <1>3 DEF TermIn
  <2>2. /\ <<"HAS_POSITION_TERM", person, t>> \in DOMAIN graph.edges
        /\ <<"ABOUT_OFFICE", t, office>> \in DOMAIN graph.edges
    <3>1. Len(<<"HAS_POSITION_TERM", person, t>>) = 3 /\ Len(<<"ABOUT_OFFICE", t, office>>) = 3
      OBVIOUS
    <3> QED BY <1>1, <2>1, <3>1, KeyPlace
  <2>3. t \in DOMAIN graph.nodes
    <3>1. To(<<"HAS_POSITION_TERM", person, t>>) = t
      BY DEF To
    <3> QED BY <1>1, <2>2, <3>1 DEF Grounded
  <2> QED BY <2>2, <2>3 DEF Linked
<1>4. CASE FirstTerm(k, graph.edges[k])
  <2>1. PICK i \in Rows("positions") : HeldOf(i) = k /\ PositionDated(graph.edges[k], i)
    BY <1>4 DEF FirstTerm, FirstHeld
  <2>2. Person(Position(i).PersonID) = person /\ Office(Position(i)) = office
    BY <2>1 DEF HeldOf, k
  <2> QED BY <2>1, <2>2 DEF k
<1>5. TermIn(GraphKeys, k) \/ FirstTerm(k, graph.edges[k])
  BY <1>1, <1>2 DEF HeldInv
<1> QED BY <1>3, <1>4, <1>5

\* The invariant holds in every reachable state.
THEOREM Invariance == Spec => []IInv
BY InitInv, StepInv, PTL DEF Spec

\* The type invariant, for any scripts and feeds.
THEOREM TypeCorrect == Spec => []TypeOK
<1>1. IInv => TypeOK
  BY DEF IInv
<1> QED BY <1>1, Invariance, PTL

\* Whatever runs at once and wherever it stops, no edge of the graph hangs in
\* the air: relationship templates MATCH both ends.
THEOREM EdgesGrounded == Spec => []Grounded(graph)
<1>1. IInv => Grounded(graph)
  BY DEF IInv
<1> QED BY <1>1, Invariance, PTL

\* Nothing an adapter has written is ever erased, by any interleaving of any
\* scripts: the stubs of one adapter never blank the nodes of another.
THEOREM NothingIsForgotten == Spec => NothingForgotten
<1> DEFINE Standing == \A t \in {"nodes", "edges"} :
                         /\ DOMAIN graph[t] \subseteq DOMAIN graph'[t]
                         /\ \A k \in DOMAIN graph[t] : \A x \in DOMAIN graph[t][k] :
                              graph[t][k][x] # None => graph'[t][k][x] # None
<1>1. IInv /\ [Next]_vars => Standing
  <2> SUFFICES ASSUME IInv, [Next]_vars PROVE Standing
    OBVIOUS
  <2>1. CASE graph' = graph
    BY <2>1
  <2>2. CASE \E p \in Processes : graph' = Apply(graph, Head(plan[p]))
    <3>1. Keeps(graph.nodes, graph'.nodes) /\ Keeps(graph.edges, graph'.edges)
      BY <2>2, ApplyKeeps DEF IInv
    <3> QED BY <3>1 DEF Keeps
  <2> QED BY <2>1, <2>2, GraphStep
<1>2. IInv /\ [Next]_vars => [Standing]_vars
  BY <1>1
<1> QED BY <1>2, Invariance, PTL DEF Spec, NothingForgotten
\* Every step of a running script brings it nearer its end, for any scripts, lists
\* and page sizes: the part of the crawls' ending that needs no scheduling.
THEOREM CrawlsGoForward == Spec => CrawlsAdvance
<1> DEFINE Forward(p) ==
             \/ UNCHANGED <<at[p], page[p], plan[p]>>
             \/ UNCHANGED <<at[p], page[p]>> /\ Len(plan'[p]) < Len(plan[p])
             \/ /\ at'[p] = at[p] /\ page'[p] > page[p]
                /\ (page'[p] - 1) * PageSize <= Len(feed[Script[p][at[p]]])
             \/ at'[p] > at[p] /\ at[p] \in DOMAIN Script[p]
           Onward == \A p \in Processes :
                       state[p] = "running" /\ state'[p] = "running" => Forward(p)
<1>1. ASSUME IInv, [Next]_vars PROVE Onward
  <2> SUFFICES ASSUME NEW p \in Processes, state[p] = "running", state'[p] = "running"
               PROVE  Forward(p)
    OBVIOUS
  <2>1. /\ at[p] \in Nat \ {0} /\ page[p] \in Nat \ {0} /\ TypeOK /\ FeedInv
        /\ at \in [Processes -> Nat \ {0}] /\ page \in [Processes -> Nat \ {0}]
    BY <1>1 DEF IInv, TypeOK
  <2>2. ASSUME NEW q \in Processes, RunUpsert(q) PROVE Forward(p)
    <3>1. Runs(q, Head(plan[q]))
      BY <1>1, <2>2, RunsWhat
    <3>2. CASE q = p
      <4>1. plan[p] # << >> /\ IsSeq(plan[p]) /\ plan'[p] = Tail(plan[p])
            /\ UNCHANGED <<at, page>>
        BY <3>1, <3>2 DEF Runs
      <4>2. Len(plan'[p]) < Len(plan[p])
        BY <4>1, HeadTail
      <4> QED BY <4>1, <4>2
    <3>3. CASE q # p
      BY <3>1, <3>3 DEF Runs
    <3> QED BY <3>2, <3>3
  <2>3. ASSUME NEW q \in Processes, FetchPage(q) PROVE Forward(p)
    <3> DEFINE a == Script[q][at[q]]
    <3>1. Fetches(q, a, PageRows(feed[a], a, page[q])) /\ a \in AdapterNames
      BY <1>1, <2>3, FetchesWhat DEF Fetches
    <3> HIDE DEF a
    <3>2. CASE q = p /\ HasNext(feed[a], a, page[p])
      <4>1. Script[p][at[p]] = a /\ at'[p] = at[p] /\ page'[p] = page[p] + 1
        BY <3>1, <3>2 DEF Fetches
      <4>2. IsSeq(feed[a])
        BY <2>1, <3>1, NowIsList
      <4>3. page[p] * PageSize <= Len(feed[a])
        BY <2>1, <3>2, <4>2, NextWithin
      <4>4. page'[p] > page[p] /\ page'[p] - 1 = page[p]
        BY <2>1, <4>1
      <4> QED BY <4>1, <4>3, <4>4
    <3>3. CASE q = p /\ ~HasNext(feed[a], a, page[p])
      <4>1. at[p] \in DOMAIN Script[p] /\ at'[p] = at[p] + 1
        BY <3>1, <3>3 DEF Fetches
      <4>2. at'[p] > at[p]
        BY <2>1, <4>1
      <4> QED BY <4>1, <4>2
    <3>4. CASE q # p
      BY <3>1, <3>4 DEF Fetches
    <3> QED BY <3>2, <3>3, <3>4
  <2>4. ASSUME NEW q \in Processes, Start(q) \/ EnrichmentRaises(q) \/ Finish(q) \/ Fail(q)
        PROVE  Forward(p)
    <3>1. q # p
      BY <1>1, <2>4 DEF IInv, TypeOK, Start, EnrichmentRaises, Finish, Fail, Abandon
    <3>2. Stops(q)
      BY <1>1, <2>4, StopsWhat
    <3> QED BY <3>1, <3>2 DEF Stops
  <2>5. ASSUME NEW i \in DOMAIN feed["positions"], PositionEnds(i) PROVE Forward(p)
    BY <2>5 DEF PositionEnds
  <2>6. CASE UNCHANGED vars
    BY <2>6 DEF vars
  <2> HIDE DEF Forward
  <2> QED BY <1>1, <2>2, <2>3, <2>4, <2>5, <2>6 DEF Next, Step
<1> HIDE DEF Onward
<1>2. IInv /\ [Next]_vars => [Onward]_vars
  BY <1>1
<1>3. Spec => [][Onward]_vars
  BY <1>2, Invariance, PTL DEF Spec
<1> QED BY <1>3 DEF Onward, CrawlsAdvance

\* Once an adapter has run to its end, every node and edge its rows stand for is
\* in the graph, whatever ran before it, beside it or failed: no template has
\* silently matched nothing.
THEOREM LoadedRowsAllStand == Spec => []LoadedRowsStand
<1>1. IInv => LoadedRowsStand
  <2> SUFFICES ASSUME IInv, NEW p \in Processes, NEW a \in DOMAIN feed, Completed(p, a),
                      NEW i \in Seen(a), NEW s \in ToSet(RowStatements(a, feed[a][i]))
               PROVE  s.key \in DOMAIN graph.nodes \cup DOMAIN graph.edges
    BY DEF LoadedRowsStand
  <2>1. FeedInv /\ a \in AdapterNames
    BY DEF IInv, FeedInv
  <2>2. i \in Reads(a) /\ i \in Rows(a)
    BY <2>1, SeenIsRead DEF Reads
  <2>3. RowFacts(a, i) \subseteq GraphKeys
    BY <2>1, <2>2, Stands
  <2>4. s.key \in RowKeys(a, feed[a][i])
    BY DEF RowKeys
  <2>5. s.key \in RowFacts(a, i)
    BY <2>1, <2>2, <2>4, NowFacts
  <2> QED BY <2>3, <2>5 DEF GraphKeys
<1> QED BY <1>1, Invariance, PTL

\* The crawl of the government decisions misses a decision only behind a page
\* that held a record parse_response drops.
THEOREM LostDecisionsBehindDrops == Spec => []DecisionsLostOnlyBehindADrop
<1>1. IInv => DecisionsLostOnlyBehindADrop
  <2> SUFFICES ASSUME IInv, NEW p \in Processes, Completed(p, "gov_decisions"),
                      NEW i \in DOMAIN feed["gov_decisions"],
                      ParseResponse(feed["gov_decisions"][i]),
                      <<"budgetkey_gov_decision", feed["gov_decisions"][i].id>>
                        \notin DOMAIN graph.nodes
               PROVE  \E j \in 1 .. ((i - 1) \div PageSize) * PageSize :
                        ~ParseResponse(feed["gov_decisions"][j])
    BY Zenon DEF DecisionsLostOnlyBehindADrop
  <2>1. "gov_decisions" \in AdapterNames
    BY DEF AdapterNames
  <2>2. feed["gov_decisions"] = Feed["gov_decisions"] /\ i \in Rows("gov_decisions")
    BY <2>1, NowIsList DEF IInv, FeedInv
  <2> QED BY <2>2, DecisionStands
<1> QED BY <1>1, Invariance, PTL

\* Once the memberships are loaded, a member whose term is open is found today,
\* unless the same person has another term on the same committee that is over
\* or yet to begin.
THEOREM SittingMembersFound == Spec => []SittingLostOnlyByRejoining
<1>1. IInv => SittingLostOnlyByRejoining
  <2> SUFFICES ASSUME IInv, NEW p \in Processes, Completed(p, "committee_memberships"),
                      NEW row \in ToSet(feed["committee_memberships"]),
                      ParseMemberships(row), Member(row.mk_individual_id) # << >>,
                      row.start_date # None, row.start_date <= Today, row.finish_date = None,
                      MembershipAnswers(graph, Member(row.mk_individual_id)[1],
                                        Committee(row.committee_id), Today, Today) = {}
               PROVE  \E other \in ToSet(feed["committee_memberships"]) :
                        /\ Member(other.mk_individual_id) = Member(row.mk_individual_id)
                        /\ other.committee_id = row.committee_id /\ other.start_date # None
                        /\ other.finish_date # None \/ other.start_date > Today
    BY Zenon DEF SittingLostOnlyByRejoining
  <2> DEFINE rows == feed["committee_memberships"]
  <2>1. "committee_memberships" \in AdapterNames
    BY DEF AdapterNames
  <2>2. rows = Feed["committee_memberships"] /\ DOMAIN rows = Rows("committee_memberships")
    BY <2>1, NowIsList DEF IInv, FeedInv
  <2>3. PICK i \in Rows("committee_memberships") : row = Membership(i)
    BY <2>2 DEF ToSet, Membership
  <2>4. /\ row.mk_individual_id \in DOMAIN MkLookup
        /\ Member(row.mk_individual_id)[1] = Person(MkLookup[row.mk_individual_id])
    BY DEF Member, When
  <2>5. Sits(Membership(i))
    BY <2>3, <2>4 DEF Sits
  <2>6. SeatOf(i) \in DOMAIN graph.edges
    BY <2>5, SeatStands
  <2> DEFINE d == graph.edges[SeatOf(i)]
  <2>7. SeatOf(i) = <<"MEMBER_OF_COMMITTEE", Member(row.mk_individual_id)[1],
                      Committee(row.committee_id)>>
    BY <2>3, <2>4 DEF SeatOf
  <2>8. ~InWindow(d, Today, Today)
    BY <2>6, <2>7 DEF MembershipAnswers
  <2>9. /\ \E j \in Seats(SeatOf(i)) : d.valid_from = Membership(j).start_date
        /\ \E j \in Seats(SeatOf(i)) : d.valid_to \in {None, Membership(j).finish_date}
    BY <2>6, KindsSaid DEF IInv, SeatInv
  <2> HIDE DEF d, rows
  <2>10. ASSUME NEW j \in Seats(SeatOf(i))
         PROVE  /\ Membership(j) \in ToSet(rows)
                /\ Member(Membership(j).mk_individual_id) = Member(row.mk_individual_id)
                /\ Membership(j).committee_id = row.committee_id
                /\ Membership(j).start_date \in Int \ {None}
    <3>1. j \in Rows("committee_memberships") /\ Sits(Membership(j)) /\ SeatOf(j) = SeatOf(i)
      BY DEF Seats
    <3>2. Membership(j) \in ToSet(rows)
      BY <2>2, <3>1 DEF ToSet, Membership
    <3>3. /\ Person(MkLookup[Membership(j).mk_individual_id])
               = Person(MkLookup[row.mk_individual_id])
          /\ Committee(Membership(j).committee_id) = Committee(row.committee_id)
      BY <2>3, <3>1 DEF SeatOf
    <3>4. Membership(j).committee_id = row.committee_id
      BY <3>3 DEF Committee
    <3>5. Membership(j).mk_individual_id \in DOMAIN MkLookup
      BY <3>1 DEF Sits
    <3>6. Member(Membership(j).mk_individual_id) = Member(row.mk_individual_id)
      BY <2>4, <3>3, <3>5 DEF Member, When
    <3>7. Membership(j).start_date \in Int \cup {None} /\ Membership(j).start_date # None
      BY <2>2, <3>1, <3>2, DaysAssumption DEF Sits
    <3> QED BY <3>2, <3>4, <3>6, <3>7
  <2>11. CASE d.valid_to # None
    <3>1. PICK j \in Seats(SeatOf(i)) : Membership(j).finish_date # None
      BY <2>9, <2>11
    <3> QED BY <2>10, <3>1 DEF rows
  <2>12. CASE d.valid_to = None
    <3>1. PICK j \in Seats(SeatOf(i)) : d.valid_from = Membership(j).start_date
      BY <2>9
    <3>2. ~(d.valid_from <= Today)
      BY <2>8, <2>12 DEF InWindow
    <3>3. Membership(j).start_date > Today
      BY <2>10, <3>1, <3>2, DaysAssumption
    <3> QED BY <2>10, <3>1, <3>3 DEF rows
  <2> QED BY <2>11, <2>12
<1> QED BY <1>1, Invariance, PTL

\* Whatever office_held answers is one term of the record, with its own start
\* and end.
THEOREM OfficeAnswersAreTrue == Spec => []OfficeAnswersTrue
<1>1. IInv => OfficeAnswersTrue
  <2> SUFFICES ASSUME IInv, NEW i \in DOMAIN feed["positions"]
               PROVE  LET row == feed["positions"][i]
                          same == {r \in ToSet(feed["positions"]) :
                                     r.PersonID = row.PersonID /\ Office(r) = Office(row)}
                      IN OfficeAnswers(graph, Person(row.PersonID), Office(row), None, None)
                           \subseteq UNION {TermDates(r.StartDate, r.FinishDate) : r \in same}
    BY Zenon DEF OfficeAnswersTrue
  <2> DEFINE rows == feed["positions"]
             row == rows[i]
             person == Person(row.PersonID)
             office == Office(row)
             same == {r \in ToSet(rows) : r.PersonID = row.PersonID /\ Office(r) = office}
             held == <<"HELD_OFFICE", person, office>>
             Dates(x) == [valid_from |-> x.valid_from, valid_to |-> x.valid_to]
  <2>1. FeedInv /\ DOMAIN rows = Rows("positions")
    <3>1. "positions" \in AdapterNames
      BY DEF AdapterNames
    <3> QED BY <3>1, NowIsList DEF IInv
  <2>2. ASSUME NEW j \in Rows("positions"), NEW x, Person(Position(j).PersonID) = person,
               Office(Position(j)) = office, PositionDated(x, j)
        PROVE  Dates(x) \in UNION {TermDates(r.StartDate, r.FinishDate) : r \in same}
    <3> DEFINE r == rows[j]
    <3>1. /\ r.PersonID = Position(j).PersonID /\ Office(r) = Office(Position(j))
          /\ r.StartDate = Position(j).StartDate
      BY <2>1, Version
    <3>2. Position(j).PersonID = row.PersonID
      BY <2>2 DEF Person
    <3>3. r \in ToSet(rows)
      BY <2>1 DEF ToSet
    <3>4. x.valid_from = r.StartDate /\ x.valid_to \in {None, r.FinishDate}
      BY <2>2, <3>1 DEF PositionDated
    <3> HIDE DEF r, rows, row, office
    <3>5. r \in same
      BY <2>2, <3>1, <3>2, <3>3
    <3>6. Dates(x) \in TermDates(r.StartDate, r.FinishDate)
      BY <3>4 DEF TermDates
    <3> HIDE DEF same, Dates
    <3> QED BY <3>5, <3>6
  <2> HIDE DEF rows, row, person, office, same, Dates
  <2>3. ASSUME NEW d \in OfficeAnswers(graph, person, office, None, None)
        PROVE  d \in UNION {TermDates(r.StartDate, r.FinishDate) : r \in same}
    <3>1. \/ \E t \in Linked(graph, person, office) : d = Dates(graph.nodes[t])
          \/ /\ Linked(graph, person, office) = {} /\ held \in DOMAIN graph.edges
             /\ d = Dates(graph.edges[held])
      BY <2>3 DEF OfficeAnswers, Dates
    <3>2. ASSUME NEW t \in Linked(graph, person, office), d = Dates(graph.nodes[t])
          PROVE  d \in UNION {TermDates(r.StartDate, r.FinishDate) : r \in same}
      BY <2>2, <3>2, LinkedTerm
    <3>3. ASSUME Linked(graph, person, office) = {}, held \in DOMAIN graph.edges,
                 d = Dates(graph.edges[held])
          PROVE  d \in UNION {TermDates(r.StartDate, r.FinishDate) : r \in same}
      BY <2>2, <3>3, HeldTerm
    <3> QED BY <3>1, <3>2, <3>3
  <2> QED BY <2>3 DEF rows, row, person, office, same
<1> QED BY <1>1, Invariance, PTL

\* The graph implements the base of facts: it starts empty, grows, states only
\* what a source states, and each edge with its two ends.
THEOREM GraphIsFactBase == Spec => ImplementsFactBase
<1> DEFINE known == DOMAIN graph.nodes \cup DOMAIN graph.edges
<1>1. Init => F!Init
  BY DEF Init, F!Init, EmptyGraph
<1>2. IInv /\ IInv' /\ [Next]_vars => F!Learn
  <2> SUFFICES ASSUME IInv, IInv', [Next]_vars PROVE F!Learn
    OBVIOUS
  <2>1. known \subseteq known'
    <3>1. CASE graph' = graph
      BY <3>1
    <3>2. CASE \E p \in Processes : graph' = Apply(graph, Head(plan[p]))
      <4>1. Keeps(graph.nodes, graph'.nodes) /\ Keeps(graph.edges, graph'.edges)
        BY <3>2, ApplyKeeps DEF IInv
      <4> QED BY <4>1 DEF Keeps
    <3> QED BY <3>1, <3>2, GraphStep
  <2>2. /\ \A k \in DOMAIN graph'.nodes : Len(k) = 2 /\ k \in Facts
        /\ \A k \in DOMAIN graph'.edges : Len(k) = 3 /\ k \in Facts
        /\ \A k \in DOMAIN graph'.edges : {From(k), To(k)} \subseteq DOMAIN graph'.nodes
    BY DEF IInv, KeyInv, Grounded
  <2>3. F!Grounded(known')
    BY <2>2 DEF F!Grounded, Ends
  <2> QED BY <2>1, <2>2, <2>3 DEF F!Learn
<1>3. IInv /\ IInv' /\ [Next]_vars => [F!Learn]_known
  BY <1>2
<1>4. Spec => F!Spec
  BY <1>1, <1>3, Invariance, PTL DEF Spec, F!Spec
<1> QED BY <1>4 DEF ImplementsFactBase
=============================================================================
