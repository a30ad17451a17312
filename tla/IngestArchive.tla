---------------------------- MODULE IngestArchive ----------------------------
(***************************************************************************)
(* Ingestion runs: IngestRun around run_adapter, with archive_payload for  *)
(* every page.                                                             *)
(*                                                                         *)
(* A run writes to three stores that know nothing of each other.  Its rows *)
(* in Postgres (raw_fetch_objects, and the final status in ingest_runs)    *)
(* belong to one transaction that __exit__ commits; objects in MinIO and   *)
(* nodes in Neo4j are there as soon as they are written.  Several runs go  *)
(* on at the same time, and a run can raise, lose its connection or be     *)
(* killed between any two calls.                                           *)
(***************************************************************************)
EXTENDS Naturals, Sequences, FiniteSets

CONSTANTS
  Runs,          \* ingestion runs, each a process of its own
  Contents,      \* page bodies, by their content_sha256
  Feed,          \* Feed[r]: the page bodies run r gets, in the order of the
                 \* next links (already cut to max_pages)
  Records,       \* Records[c]: normalized records the page expands to
  DryRuns,       \* runs started with --dry-run: no archive, no upserts
  LastDay        \* bound of the calendar

ASSUME RunsAssumption == IsFiniteSet(Runs)
ASSUME FeedAssumption == \A r \in Runs : Feed[r] \in Seq(Contents) /\ Len(Feed[r]) > 0
ASSUME RecordsAssumption == Records \in [Contents -> Nat]
ASSUME DaysAssumption == LastDay \in Nat

VARIABLES
  status,     \* ingest_runs.status, "absent" before __enter__
  raw,        \* committed rows of raw_fetch_objects
  pending,    \* rows of raw_fetch_objects in the open transaction of a run
  db,         \* the run's connection: "ok", or "dead" when it or its
              \* transaction is lost
  objects,    \* MinIO: the <<content, day>> an archive URI is made of
  graph,      \* Neo4j: the <<content, n>> whose record was upserted
  pc,         \* control point of each run
  page, done, \* the page the run is on, and how many of its records are upserted
  captured,   \* fetched_at of that page
  today,      \* the calendar
  puts,       \* history: put_object calls for a content
  faulted     \* history: runs that were killed or lost their connection

stores == <<status, raw, pending, db, objects, graph>>
locals == <<pc, page, done, captured>>
vars   == <<stores, locals, today, puts, faulted>>

-----------------------------------------------------------------------------
Days == 0 .. LastDay

Entry == [content: Contents, run: Runs, day: Days]

\* The content of the page that run r is on.
Current(r) == Feed[r][page[r]]

Object(c, d) == <<c, d>>

GoTo(r, label) == pc' = [pc EXCEPT ![r] = label]

\* An exception is on its way out of the with block; or none is.
Failing(r) == pc[r] = "failing"
Leaving(r) == pc[r] \in {"failing", "finished"}

-----------------------------------------------------------------------------
\* IngestRun.__enter__: INSERT and COMMIT.
Enter(r) ==
  /\ pc[r] = "idle"
  /\ GoTo(r, "fetch")
  /\ status' = [status EXCEPT ![r] = "running"]
  /\ UNCHANGED <<raw, pending, db, objects, graph, page, done, captured, today, puts, faulted>>

\* fetch and page_parser.
Fetch(r) ==
  /\ pc[r] = "fetch"
  /\ captured' = [captured EXCEPT ![r] = today]
  /\ GoTo(r, IF r \in DryRuns THEN "upsert" ELSE "find")
  /\ UNCHANGED <<stores, page, done, today, puts, faulted>>

\* Faulty: the rows of other open transactions are taken for archived.
Existing_Dirty(r) == \E e \in raw \cup UNION {pending[s] : s \in Runs} : e.content = Current(r)

\* _find_existing sees what is committed and what the run itself inserted.
Existing(r) == \E e \in raw \cup pending[r] : e.content = Current(r)

\* Faulty: the row is inserted before the object is put.
AfterFind_RowFirst(r) == IF Existing(r) THEN "upsert" ELSE "insert"

AfterFind(r) == IF Existing(r) THEN "upsert" ELSE "put"

Find(r) ==
  /\ pc[r] = "find" /\ db[r] = "ok"
  /\ GoTo(r, AfterFind(r))
  /\ UNCHANGED <<stores, page, done, captured, today, puts, faulted>>

Put(r) ==
  /\ pc[r] = "put"
  /\ objects' = objects \cup {Object(Current(r), captured[r])}
  /\ puts' = [puts EXCEPT ![Current(r)] = @ + 1]
  /\ GoTo(r, "insert")
  /\ UNCHANGED <<status, raw, pending, db, graph, page, done, captured, today, faulted>>

\* The INSERT of r meets an uncommitted row of s with the same content_sha256
\* and waits for the transaction of s to end.
Waits(r, s) ==
  /\ pc[r] = "insert" /\ s # r
  /\ \E e \in pending[s] : e.content = Current(r)

Blocked(r) == \E s \in Runs : Waits(r, s)

\* Faulty: the row is committed at once, outside the transaction of the run.
InsertRow_Commits(r) ==
  /\ pc[r] = "insert" /\ db[r] = "ok"
  /\ ~Blocked(r) /\ ~Existing(r)
  /\ raw' = raw \cup {[content |-> Current(r), run |-> r, day |-> captured[r]]}
  /\ GoTo(r, "upsert")
  /\ UNCHANGED <<status, pending, db, objects, graph, page, done, captured, today, puts, faulted>>

InsertRow(r) ==
  /\ pc[r] = "insert" /\ db[r] = "ok"
  /\ ~Blocked(r) /\ ~Existing(r)
  /\ pending' = [pending EXCEPT ![r] = @ \cup
                   {[content |-> Current(r), run |-> r, day |-> captured[r]]}]
  /\ GoTo(r, "upsert")
  /\ UNCHANGED <<status, raw, db, objects, graph, page, done, captured, today, puts, faulted>>

\* The transaction is rolled back by an error; its locks are free.
Abort(r) == /\ db' = [db EXCEPT ![r] = "dead"]
            /\ pending' = [pending EXCEPT ![r] = {}]

\* Another run committed the same content since _find_existing: the UNIQUE
\* constraint raises, and the transaction of this run is aborted.
UniqueViolation(r) ==
  /\ pc[r] = "insert" /\ db[r] = "ok"
  /\ ~Blocked(r) /\ Existing(r)
  /\ Abort(r)
  /\ GoTo(r, "failing")
  /\ UNCHANGED <<status, raw, objects, graph, page, done, captured, today, puts, faulted>>

\* r is one of some runs that wait for each other.
Deadlocked(r) ==
  \E cycle \in SUBSET Runs :
    /\ r \in cycle
    /\ \A s \in cycle : /\ \E u \in cycle : Waits(s, u)
                        /\ \E u \in cycle : Waits(u, s)

\* Runs that insert common contents in different orders wait for each other;
\* Postgres aborts one of them.
DeadlockDetected(r) ==
  /\ pc[r] = "insert" /\ db[r] = "ok"
  /\ Deadlocked(r)
  /\ Abort(r)
  /\ GoTo(r, "failing")
  /\ UNCHANGED <<status, raw, objects, graph, page, done, captured, today, puts, faulted>>

\* One normalized record; its cypher templates MERGE, so again is the same.
Upsert(r) ==
  /\ pc[r] = "upsert" /\ done[r] < Records[Current(r)]
  /\ done' = [done EXCEPT ![r] = @ + 1]
  /\ graph' = IF r \in DryRuns THEN graph ELSE graph \cup {<<Current(r), done[r] + 1>>}
  /\ UNCHANGED <<status, raw, pending, db, objects, pc, page, captured, today, puts, faulted>>

\* Faulty: the next link is resolved to the page just read.
NextOf_Same(r) == page[r]

\* @odata.nextLink of the page.
NextOf(r) == page[r] + 1

NextPage(r) ==
  /\ pc[r] = "upsert" /\ done[r] = Records[Current(r)]
  /\ IF NextOf(r) <= Len(Feed[r])
     THEN /\ GoTo(r, "fetch")
          /\ page' = [page EXCEPT ![r] = NextOf(r)]
          /\ done' = [done EXCEPT ![r] = 0]
     ELSE GoTo(r, "finished") /\ UNCHANGED <<page, done>>
  /\ UNCHANGED <<stores, captured, today, puts, faulted>>

\* Faulty: an error of MinIO is swallowed.
Raise_Swallowed(r) ==
  /\ pc[r] = "put"
  /\ GoTo(r, "insert")
  /\ UNCHANGED <<stores, page, done, captured, today, puts, faulted>>

\* The source, the page parser, MinIO or Neo4j raises.
Raise(r) ==
  /\ \/ pc[r] \in {"fetch", "put"}
     \/ pc[r] = "upsert" /\ done[r] < Records[Current(r)]
  /\ GoTo(r, "failing")
  /\ UNCHANGED <<stores, page, done, captured, today, puts, faulted>>

\* A statement on the lost connection raises.
RaiseOnDead(r) ==
  /\ pc[r] \in {"find", "insert"} /\ db[r] = "dead"
  /\ GoTo(r, "failing")
  /\ UNCHANGED <<stores, page, done, captured, today, puts, faulted>>

\* Faulty: a status that the CHECK of ingest_runs does not know.
Outcome_Error(r) == IF Failing(r) THEN "error" ELSE "succeeded"

\* exc_type decides.
Outcome(r) == IF Failing(r) THEN "failed" ELSE "succeeded"

\* Faulty: the run is over and its transaction is left open.
Exit_Open(r) ==
  /\ Leaving(r) /\ db[r] = "ok"
  /\ GoTo(r, "ended")
  /\ UNCHANGED <<stores, page, done, captured, today, puts, faulted>>

\* IngestRun.__exit__: UPDATE and COMMIT, on the connection of the archive rows.
Exit(r) ==
  /\ Leaving(r) /\ db[r] = "ok"
  /\ status' = [status EXCEPT ![r] = Outcome(r)]
  /\ raw' = raw \cup pending[r]
  /\ pending' = [pending EXCEPT ![r] = {}]
  /\ GoTo(r, "ended")
  /\ UNCHANGED <<db, objects, graph, page, done, captured, today, puts, faulted>>

\* The UPDATE itself raises: the transaction is aborted or the connection
\* gone.  finally closes the connection.
ExitFails(r) ==
  /\ Leaving(r) /\ db[r] = "dead"
  /\ GoTo(r, "ended")
  /\ UNCHANGED <<stores, page, done, captured, today, puts, faulted>>

-----------------------------------------------------------------------------
(* Failures and the calendar.                                              *)

LoseConnection(r) ==
  /\ pc[r] \notin {"idle", "ended"} /\ db[r] = "ok"
  /\ Abort(r)
  /\ faulted' = faulted \cup {r}
  /\ UNCHANGED <<status, raw, objects, graph, locals, today, puts>>

Crash(r) ==
  /\ pc[r] \notin {"idle", "ended"}
  /\ Abort(r)
  /\ GoTo(r, "ended")
  /\ faulted' = faulted \cup {r}
  /\ UNCHANGED <<status, raw, objects, graph, page, done, captured, today, puts>>

Midnight ==
  /\ today < LastDay
  /\ today' = today + 1
  /\ UNCHANGED <<stores, locals, puts, faulted>>

-----------------------------------------------------------------------------
Init ==
  /\ status = [r \in Runs |-> "absent"]
  /\ raw = {} /\ objects = {} /\ graph = {}
  /\ pending = [r \in Runs |-> {}]
  /\ db = [r \in Runs |-> "ok"]
  /\ pc = [r \in Runs |-> "idle"]
  /\ page = [r \in Runs |-> 1]
  /\ done = [r \in Runs |-> 0]
  /\ captured = [r \in Runs |-> 0]
  /\ today = 0
  /\ puts = [c \in Contents |-> 0]
  /\ faulted = {}

\* The steps of a run once it has started.
RunStep(r) ==
  \/ Fetch(r) \/ Find(r) \/ Put(r) \/ InsertRow(r) \/ UniqueViolation(r)
  \/ DeadlockDetected(r) \/ Upsert(r) \/ NextPage(r) \/ Raise(r) \/ RaiseOnDead(r)
  \/ Exit(r) \/ ExitFails(r)

Next ==
  \/ Midnight
  \/ \E r \in Runs : Enter(r) \/ RunStep(r) \/ LoseConnection(r) \/ Crash(r)

Spec == Init /\ [][Next]_vars

\* A started run goes on: each call returns or raises (the HTTP client has a
\* timeout of 30 seconds), and Postgres looks for deadlocks.
FairSpec == Spec /\ \A r \in Runs : WF_vars(RunStep(r))

-----------------------------------------------------------------------------
(* Properties.                                                             *)

Labels == {"idle", "fetch", "find", "put", "insert", "upsert", "failing", "finished", "ended"}

\* The type of every variable.
TypeOK ==
  /\ status \in [Runs -> {"absent", "running", "succeeded", "failed"}]
  /\ raw \subseteq Entry
  /\ pending \in [Runs -> SUBSET Entry]
  /\ db \in [Runs -> {"ok", "dead"}]
  /\ objects \subseteq Contents \X Days
  /\ graph \subseteq Contents \X (Nat \ {0})
  /\ pc \in [Runs -> Labels]
  /\ page \in [Runs -> Nat \ {0}]
  /\ \A r \in Runs : page[r] <= Len(Feed[r])
  /\ done \in [Runs -> Nat]
  /\ captured \in [Runs -> Days]
  /\ today \in Days
  /\ puts \in [Contents -> Nat]
  /\ faulted \subseteq Runs

\* No archive row, committed or not, points at an object that is not there:
\* archive_payload puts first and inserts later, and nothing takes an object
\* away, whatever is rolled back or killed.
RowsHaveObjects ==
  \A e \in raw \cup UNION {pending[r] : r \in Runs} : Object(e.content, e.day) \in objects

\* "No verdict without archived provenance": the page behind every record in
\* the graph is in MinIO, though Neo4j is written before Postgres commits and
\* the run may end in any way.
GraphTraceable ==
  \A node \in graph : \E d \in Days : Object(node[1], d) \in objects

\* A run that is "succeeded" left nothing out: every page of its feed has a
\* committed row, its own or that of another run, and every record of every
\* page is in the graph.
SucceededIsComplete ==
  \A r \in Runs \ DryRuns :
    status[r] = "succeeded" =>
      \A i \in DOMAIN Feed[r] :
        /\ \E e \in raw : e.content = Feed[r][i]
        /\ \A n \in 1 .. Records[Feed[r][i]] : <<Feed[r][i], n>> \in graph

\* Runs never all stand still: when one waits for the row of another, some run
\* that is under way does not wait, or has lost its connection and will raise,
\* or stands in a cycle that Postgres breaks.  However they end, runs leave no
\* row behind that others would wait for for ever.
WaitsCanEnd ==
  \A r \in Runs : Blocked(r) =>
    \E s \in Runs : /\ pc[s] \notin {"idle", "ended"}
                    /\ ~Blocked(s) \/ db[s] = "dead" \/ Deadlocked(s)

\* Every run that was started ends, also when runs wait for each other's rows.
EveryRunEnds == \A r \in Runs : pc[r] = "fetch" ~> pc[r] = "ended"

\* orchestrator.py: the context manager "closes it on exit (succeeded or
\* failed depending on whether an exception propagated)".
ClosedOnExit ==
  \A r \in Runs : pc[r] = "ended" /\ r \notin faulted => status[r] # "running"

\* archiver.py: "the MinIO object is written at most once".
WrittenOnce == \A c \in Contents : puts[c] <= 1

-----------------------------------------------------------------------------
(* The tables implement ArchiveLedger.                                     *)

Ledger == INSTANCE ArchiveLedger WITH ledger <- raw, outcome <- status

\* The rows of a run become visible with its outcome, once per content, and
\* never change: a crash, an abort or a concurrent run shows no part of it.
ImplementsLedger == Ledger!LSpec
=============================================================================
