----------------------------- MODULE ReviewQueue -----------------------------
(***************************************************************************)
(* The review queue of civic_review behind the /review routes of the API.  *)
(*                                                                         *)
(* The routes are synchronous functions: every request runs in a thread of *)
(* its own.  All of them share the one connection that _lifespan opened,   *)
(* and _lifespan sets autocommit on it, so each statement is a transaction *)
(* of its own: the row lock of SELECT ... FOR UPDATE is gone when the      *)
(* statement ends, and statements of other requests come in between the    *)
(* statements of one.  Each action of a request below is one statement.    *)
(***************************************************************************)
EXTENDS Naturals

CONSTANTS
  Tasks,         \* the task_ids that can be opened
  Candidates,    \* the candidate_ids that tasks and requests name
  Stored,        \* those that have a row in entity_candidates
  Requests,      \* POST requests; a request also stands for its reviewer_id
                 \* and for the canonical entity it names
  None,          \* no request, no candidate
  Kind,          \* Kind[t]: review_tasks.kind
  Payload,       \* Payload[t]: payload["candidate_id"], None when absent
  Decisions,     \* the decisions reviewers post to /resolve
  MaxFaults      \* bound on failing statements, lost connections and crashes

\* Faulty: a relink leaves the task open.
NextStatus_RelinkOpen(decision) ==
  CASE decision \in {"approve", "reject"} -> "resolved"
    [] decision \in {"annotate", "relink"} -> "open"
    [] decision = "escalate" -> "escalated"

\* Decision to status; annotate is the one that leaves the task open.
NextStatus(decision) ==
  CASE decision \in {"approve", "reject", "relink"} -> "resolved"
    [] decision = "annotate" -> "open"
    [] decision = "escalate" -> "escalated"

Actions == {"approve", "reject", "relink", "annotate", "escalate"}

\* The kinds that open_review_task and the table's CHECK both accept.
OpenKinds == {"entity_resolution", "verdict", "conflict"}

ASSUME NoneAssumption == None \notin Requests \cup Candidates
ASSUME StoredAssumption == Stored \subseteq Candidates
ASSUME KindAssumption == Kind \in [Tasks -> OpenKinds]
ASSUME PayloadAssumption == Payload \in [Tasks -> Candidates \cup {None}]
ASSUME DecisionsAssumption == Decisions \subseteq Actions
ASSUME FaultsAssumption == MaxFaults \in Nat

VARIABLES
  tasks,      \* review_tasks: status and assigned_to
  link,       \* entity_candidates.canonical_entity_id, None before any relink
  audited,    \* review_actions, as the set of requests that have their row
  conn,       \* app.state.pg_connection
  pc, req,    \* where each request is and what it asks for
  faults,     \* how much of MaxFaults was used
  applied,    \* history: requests whose UPDATE of review_tasks took effect
  relinked,   \* history: requests whose UPDATE of entity_candidates took effect
  overlapped  \* history: tasks that two decisions read before either wrote

tables  == <<tasks, link, audited>>
history == <<applied, relinked, overlapped>>
vars    == <<tables, conn, pc, req, faults, history>>

-----------------------------------------------------------------------------
Terminal == {"resolved", "escalated"}

Task == [status: {"absent", "open"} \cup Terminal, assigned: Requests \cup {None}]

TaskRow(status, assigned) == [status |-> status, assigned |-> assigned]

\* What the bodies of the three POST routes can say.
Request == [op: {"resolve", "relink", "confirm"}, task: Tasks, decision: Actions,
            candidate: Candidates \cup {None}]

Ask(op, t, decision, c) ==
  [op |-> op, task |-> t, decision |-> decision, candidate |-> c]

Bodies ==
  {Ask("resolve", t, d, None) : t \in Tasks, d \in Decisions}
    \cup {Ask("relink", t, "relink", c) : t \in Tasks, c \in Candidates}
    \cup {Ask("confirm", t, "annotate", None) : t \in Tasks}

Row(r) == tasks[req[r].task]

\* The request is about to run a statement.
Busy == {"lookup", "relink", "select", "update", "get", "insert"}

-----------------------------------------------------------------------------
(* A statement ends in one of two ways: its answer arrives, or the server  *)
(* has committed it and the connection is lost before the answer.          *)

Fault == faults < MaxFaults /\ faults' = faults + 1

Proceed(r, label) ==
  \/ /\ pc' = [pc EXCEPT ![r] = label]
     /\ UNCHANGED <<conn, faults>>
  \/ /\ Fault
     /\ conn' = "broken"
     /\ pc' = [pc EXCEPT ![r] = "failed"]

Statement(r, label) == pc[r] = label /\ conn = "open"

-----------------------------------------------------------------------------
\* open_review_task, as the pipeline calls it.
OpenTask(t) ==
  /\ conn = "open"
  /\ tasks[t].status = "absent"
  /\ tasks' = [tasks EXCEPT ![t] = TaskRow("open", None)]
  /\ UNCHANGED <<link, audited, conn, pc, req, faults, history>>

FirstLabel(op) ==
  CASE op = "resolve" -> "select" [] op = "relink" -> "lookup" [] op = "confirm" -> "get"

Submit(r) ==
  /\ pc[r] = "idle"
  /\ \E body \in Bodies :
       /\ req' = [req EXCEPT ![r] = body]
       /\ pc' = [pc EXCEPT ![r] = FirstLabel(body.op)]
  /\ UNCHANGED <<tables, conn, faults, history>>

(* relink_by_task_id: SELECT, three checks (none of them of the status),   *)
(* then the UPDATE of apply_entity_relink.                                 *)

\* Faulty: the candidate is not compared with the task's payload.
MayRelink_AnyCandidate(r) == Row(r).status # "absent" /\ Kind[req[r].task] = "entity_resolution"

MayRelink(r) ==
  /\ Row(r).status # "absent"
  /\ Kind[req[r].task] = "entity_resolution"
  /\ Payload[req[r].task] = req[r].candidate

Lookup(r) ==
  /\ Statement(r, "lookup")
  /\ Proceed(r, IF MayRelink(r) THEN "relink" ELSE "rejected")
  /\ UNCHANGED <<tables, req, history>>

\* The UPDATE of apply_entity_relink.
Relink(r) ==
  /\ Statement(r, "relink")
  /\ req[r].candidate \in Stored
  /\ link' = [link EXCEPT ![req[r].candidate] = r]
  /\ relinked' = relinked \cup {r}
  /\ Proceed(r, "select")
  /\ UNCHANGED <<tasks, audited, req, applied, overlapped>>

\* ... which finds no row: 400, and the task is left as it is.
RelinkMisses(r) ==
  /\ Statement(r, "relink")
  /\ req[r].candidate \notin Stored
  /\ Proceed(r, "rejected")
  /\ UNCHANGED <<tables, req, history>>

(* resolve_task: SELECT ... FOR UPDATE, UPDATE, INSERT.                    *)

\* Faulty: a terminal task answers at once and leaves no audit row.
AfterSelect_Silent(r) == CASE Row(r).status = "absent" -> "rejected"
                           [] Row(r).status = "open" -> "update"
                           [] Row(r).status \in Terminal -> "answered"

\* Faulty: the terminal statuses are not looked at.
AfterSelect_NoTerminal(r) == IF Row(r).status = "absent" THEN "rejected" ELSE "update"

AfterSelect(r) == CASE Row(r).status = "absent" -> "rejected"
                    [] Row(r).status = "open" -> "update"
                    [] Row(r).status \in Terminal -> "insert"

Select(r) ==
  /\ Statement(r, "select")
  /\ Proceed(r, AfterSelect(r))
  /\ overlapped' =
       IF \E s \in Requests \ {r} : pc[s] = "update" /\ req[s].task = req[r].task
       THEN overlapped \cup {req[r].task} ELSE overlapped
  /\ UNCHANGED <<tables, req, applied, relinked>>

\* Faulty: an escalation is written as a resolution.
Decided_Resolved(r) == TaskRow(IF req[r].decision = "annotate" THEN "open" ELSE "resolved", r)

\* Faulty: the decision itself is stored as the status.
Decided_Raw(r) == TaskRow(req[r].decision, r)

\* The UPDATE has no condition on the status that was read.
Decided(r) == TaskRow(NextStatus(req[r].decision), r)

Update(r) ==
  /\ Statement(r, "update")
  /\ tasks' = [tasks EXCEPT ![req[r].task] = Decided(r)]
  /\ applied' = applied \cup {r}
  /\ Proceed(r, "insert")
  /\ UNCHANGED <<link, audited, req, relinked, overlapped>>

\* _insert_action, and the INSERT of append_span_confirmation.
Insert(r) ==
  /\ Statement(r, "insert")
  /\ audited' = audited \cup {r}
  /\ Proceed(r, "answered")
  /\ UNCHANGED <<tasks, link, req, history>>

\* get_task of the confirm-evidence route.
GetTask(r) ==
  /\ Statement(r, "get")
  /\ Proceed(r, IF Row(r).status = "absent" THEN "rejected" ELSE "insert")
  /\ UNCHANGED <<tables, req, history>>

-----------------------------------------------------------------------------
(* Failures.                                                               *)

\* A statement of a request fails on the server (timeout, disk, cancel).
StatementFails(r) ==
  /\ Fault
  /\ pc[r] \in Busy /\ conn = "open"
  /\ pc' = [pc EXCEPT ![r] = "failed"]
  /\ UNCHANGED <<tables, conn, req, history>>

\* Nothing reopens the connection: every later statement raises, status 500.
RaiseOnBroken(r) ==
  /\ pc[r] \in Busy /\ conn = "broken"
  /\ pc' = [pc EXCEPT ![r] = "failed"]
  /\ UNCHANGED <<tables, conn, req, faults, history>>

\* The API process is stopped or dies, and starts with a new connection.
Restart ==
  /\ Fault
  /\ conn' = "open"
  /\ pc' = [r \in Requests |-> IF pc[r] \in Busy THEN "failed" ELSE pc[r]]
  /\ UNCHANGED <<tables, req, history>>

-----------------------------------------------------------------------------
Init ==
  /\ tasks = [t \in Tasks |-> TaskRow("absent", None)]
  /\ link = [c \in Candidates |-> None]
  /\ audited = {}
  /\ conn = "open"
  /\ pc = [r \in Requests |-> "idle"]
  /\ req \in [Requests -> {Ask("resolve", t, "annotate", None) : t \in Tasks}]
  /\ faults = 0
  /\ applied = {} /\ relinked = {} /\ overlapped = {}

RequestStep(r) ==
  \/ Lookup(r) \/ Relink(r) \/ RelinkMisses(r)
  \/ Select(r) \/ Update(r) \/ Insert(r) \/ GetTask(r)
  \/ RaiseOnBroken(r)

Next ==
  \/ \E t \in Tasks : OpenTask(t)
  \/ \E r \in Requests : Submit(r) \/ RequestStep(r) \/ StatementFails(r)
  \/ Restart

Spec == Init /\ [][Next]_vars

-----------------------------------------------------------------------------
(* Properties.                                                             *)

\* The type of every variable.
TypeOK ==
  /\ tasks \in [Tasks -> Task]
  /\ link \in [Candidates -> Requests \cup {None}]
  /\ audited \subseteq Requests
  /\ conn \in {"open", "broken"}
  /\ pc \in [Requests -> {"idle", "answered", "rejected", "failed"} \cup Busy]
  /\ req \in [Requests -> Request]
  /\ faults \in 0 .. MaxFaults
  /\ applied \subseteq Requests
  /\ relinked \subseteq Requests
  /\ overlapped \subseteq Tasks

\* The row of a task can always be traced to one decision: the reviewer it
\* names posted a decision for this task that leads to this status, and the
\* decision is in the audit log unless its INSERT is still to come or failed.
StatusTraceable ==
  \A t \in Tasks :
    LET r == tasks[t].assigned IN
    /\ tasks[t].status \in Terminal => r # None
    /\ r # None =>
         /\ r \in applied
         /\ req[r].task = t
         /\ tasks[t].status = NextStatus(req[r].decision)
         /\ r \in audited \/ pc[r] = "insert" \/ (pc[r] = "failed" /\ faults > 0)

\* services/review/README.md: no silent no-ops.  Whatever a reviewer was told
\* has succeeded, on an open or on a terminal task, is in the audit log, and
\* nothing a rejected request asked for was done.
AuditComplete ==
  \A r \in Requests :
    /\ pc[r] = "answered" => r \in audited
    /\ pc[r] = "rejected" => r \notin audited \cup applied \cup relinked
    /\ faults = 0 /\ pc[r] \notin Busy => (r \in applied \cup relinked => r \in audited)

\* relink_by_task_id: reviewers cannot re-point an unrelated row.  Every link
\* was set by a request on an entity_resolution task that names this candidate.
LinkAuthorised ==
  \A c \in Candidates :
    link[c] # None =>
      LET r == link[c] IN
      /\ r \in relinked
      /\ Kind[req[r].task] = "entity_resolution"
      /\ Payload[req[r].task] = c
      /\ tasks[req[r].task].status # "absent"

\* relink-entity closes the task: after an answered relink, or after any other
\* answered terminal decision, the task is terminal, unless two decisions on
\* it were in flight at once.
DecisionsClose ==
  \A r \in Requests :
    /\ pc[r] = "answered" /\ req[r].decision # "annotate"
    /\ req[r].task \notin overlapped
    => Row(r).status \in Terminal

\* A closed task keeps its status and its reviewer for good, unless two
\* decisions on it were in flight at once.
FinalUnlessOverlapped ==
  [][\A t \in Tasks :
       tasks[t].status \in Terminal /\ t \notin overlapped => tasks'[t] = tasks[t]]_vars

\* queue.py: "All writes are atomic: the task update and the review_actions
\* insert happen inside the same transaction.  If either step fails the
\* caller sees a rollback."
FailureLeavesNothing ==
  \A r \in Requests : pc[r] = "failed" /\ r \in applied => r \in audited

\* services/review/README.md: resolved and escalated are terminal.
TerminalIsFinal ==
  [][\A t \in Tasks :
       tasks[t].status \in Terminal => tasks'[t].status \in Terminal]_vars
=============================================================================
