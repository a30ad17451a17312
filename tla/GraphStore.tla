----------------------------- MODULE GraphStore -----------------------------
(***************************************************************************)
(* The Neo4j graph and the Cypher templates that write and read it         *)
(* (infra/neo4j, packages/clients neo4j.py). A node is keyed by the id the *)
(* normalisers derive, <<kind, external id>>, which stands for             *)
(* uuid5(NAMESPACE, "kind:external id"); an edge by its type and ends, as  *)
(* MERGE matches it. Timestamps, english names, external ids and source    *)
(* tiers are left out. Each statement is one transaction of run_upsert.    *)
(***************************************************************************)
EXTENDS Naturals

CONSTANT None                    \* null

EmptyGraph == [nodes |-> << >>, edges |-> << >>]

(* The statements, as the adapters build their parameters. *)
Node(id, props) == [op |-> "node", key |-> id, props |-> props]
Edge(type, from, to, props) ==
  [op |-> "edge", key |-> <<type, from, to>>, props |-> props]

From(key) == key[2]
To(key) == key[3]

\* ON MATCH SET x = coalesce($x, x): a null parameter keeps what is there.
Coalesce_Overwrite(old, new) ==
  [a \in DOMAIN old \cup DOMAIN new |-> IF a \in DOMAIN new THEN new[a] ELSE old[a]]
Coalesce(old, new) ==
  [a \in DOMAIN old \cup DOMAIN new |->
     IF a \in DOMAIN new /\ (new[a] # None \/ a \notin DOMAIN old) THEN new[a] ELSE old[a]]

\* MERGE ... ON CREATE SET ... ON MATCH SET ...
Merge(table, key, props) ==
  [k \in DOMAIN table \cup {key} |->
     IF k # key THEN table[k]
     ELSE IF key \in DOMAIN table THEN Coalesce(table[key], props) ELSE props]

UpsertNode(g, s) == [g EXCEPT !.nodes = Merge(@, s.key, s.props)]

\* The WHERE of the relationship templates: a term needs its start, a vote one
\* of the three values, an attendance one of the presences.
Acceptable(s) ==
  CASE s.key[1] \in {"MEMBER_OF", "HELD_OFFICE", "MEMBER_OF_COMMITTEE"} ->
         s.props.valid_from # None
    [] s.key[1] = "CAST_VOTE" -> s.props.value \in {"for", "against", "abstain"}
    [] s.key[1] = "ATTENDED"  -> s.props.presence \in {"present", "absent", "partial"}
    [] OTHER -> TRUE

\* Both ends are MATCHed: when one is missing the template returns no row and
\* nothing is written, without an error.
UpsertEdge_Backwards(g, s) ==
  IF {From(s.key), To(s.key)} \subseteq DOMAIN g.nodes /\ Acceptable(s)
  THEN [g EXCEPT !.edges = Merge(@, <<s.key[1], To(s.key), From(s.key)>>, s.props)]
  ELSE g
UpsertEdge(g, s) ==
  IF {From(s.key), To(s.key)} \subseteq DOMAIN g.nodes /\ Acceptable(s)
  THEN [g EXCEPT !.edges = Merge(@, s.key, s.props)]
  ELSE g

\* run_upsert: one statement, one transaction.
Apply(g, s) ==
  IF s.op = "node" THEN UpsertNode(g, s) ELSE UpsertEdge(g, s)

------------------------------------------------------------------------------
(* What the retriever's queries answer. *)

\* A term overlaps the window [start, end]; a null bound is open.
InWindow(term, start, end) ==
  /\ start = None \/ term.valid_to = None \/ term.valid_to >= start
  /\ end = None \/ term.valid_from <= end

Linked(g, person, office) ==
  {t \in DOMAIN g.nodes :
     /\ <<"HAS_POSITION_TERM", person, t>> \in DOMAIN g.edges
     /\ <<"ABOUT_OFFICE", t, office>> \in DOMAIN g.edges}

\* office_held.cypher: the position terms, or else the HELD_OFFICE edge.
OfficeAnswers_AlwaysBoth(g, person, office, start, end) ==
  LET held == <<"HELD_OFFICE", person, office>>
      Dates(x) == [valid_from |-> x.valid_from, valid_to |-> x.valid_to]
      terms == {Dates(g.nodes[t]) : t \in Linked(g, person, office)}
      edge  == {Dates(g.edges[k]) : k \in {held} \cap DOMAIN g.edges}
  IN {d \in terms \cup edge : InWindow(d, start, end)}
OfficeAnswers(g, person, office, start, end) ==
  LET held == <<"HELD_OFFICE", person, office>>
      Dates(x) == [valid_from |-> x.valid_from, valid_to |-> x.valid_to]
      terms == {Dates(g.nodes[t]) : t \in Linked(g, person, office)}
      edge  == IF Linked(g, person, office) = {}
               THEN {Dates(g.edges[k]) : k \in {held} \cap DOMAIN g.edges} ELSE {}
  IN {d \in terms \cup edge : InWindow(d, start, end)}

\* committee_membership.cypher.
MembershipAnswers(g, person, committee, start, end) ==
  {d \in {g.edges[k] : k \in {<<"MEMBER_OF_COMMITTEE", person, committee>>}
                             \cap DOMAIN g.edges} : InWindow(d, start, end)}
=============================================================================
