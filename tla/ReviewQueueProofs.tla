-------------------------- MODULE ReviewQueueProofs --------------------------
(***************************************************************************)
(* Theorems about ReviewQueue for any tasks, candidates, requests and      *)
(* number of faults.  The inductive invariant IInv says what a request at  *)
(* each control point has done and read (RequestInv), where the content of *)
(* a row comes from (TaskInv, LinkInv), and that the decision in flight on *)
(* a task without overlap still finds it open (OpenInv).                   *)
(***************************************************************************)
EXTENDS ReviewQueue, TLAPS

\* What the control point of r says about r.
RequestInv(r) ==
  /\ pc[r] \in {"lookup", "relink"} => req[r].op = "relink"
  /\ req[r].op = "relink" => req[r].candidate \in Candidates
  /\ req[r].op = "confirm" => req[r].decision = "annotate"
  /\ pc[r] = "relink" => MayRelink(r)
  /\ pc[r] = "get" => req[r].op = "confirm"
  /\ pc[r] \in {"select", "update"} => req[r].op # "confirm"
  /\ r \in applied => pc[r] \in {"insert", "answered", "failed"}
  /\ r \in audited => pc[r] \in {"answered", "failed"}
  /\ r \in relinked =>
       /\ pc[r] \in {"select", "update", "insert", "answered", "failed"}
       /\ MayRelink(r)
  /\ pc[r] = "answered" => r \in audited
  /\ pc[r] = "failed" => faults > 0

\* Where the content of the rows comes from.
TaskInv(t) ==
  /\ tasks[t].status \in Terminal => tasks[t].assigned # None
  /\ tasks[t].assigned # None =>
       /\ tasks[t].assigned \in applied
       /\ req[tasks[t].assigned].task = t
       /\ tasks[t].status = NextStatus(req[tasks[t].assigned].decision)

LinkInv(c) ==
  link[c] # None => link[c] \in relinked /\ req[link[c]].candidate = c

\* A decision that is about to write a task without overlap is alone with it
\* and read it as it is; one that is past its write has closed the task.
OpenInv(r) ==
  req[r].task \notin overlapped =>
    /\ pc[r] = "update" =>
         /\ Row(r).status = "open"
         /\ \A s \in Requests : pc[s] = "update" /\ req[s].task = req[r].task => s = r
    /\ /\ pc[r] \in {"insert", "answered"}
       /\ req[r].op # "confirm"
       /\ NextStatus(req[r].decision) \in Terminal
       => Row(r).status \in Terminal

IInv ==
  /\ TypeOK
  /\ conn = "broken" => faults > 0
  /\ \A r \in Requests : RequestInv(r)
  /\ \A t \in Tasks : TaskInv(t)
  /\ \A c \in Candidates : LinkInv(c)
  /\ \A r \in Requests : OpenInv(r)

-----------------------------------------------------------------------------
\* Every decision leads to a status of the table (_DECISION_TO_STATUS).
LEMMA StatusTyped == \A d \in Actions : NextStatus(d) \in {"open"} \cup Terminal
BY DEF Actions, NextStatus, Terminal

\* The bodies the routes accept are requests, and RelinkEntityRequest names
\* a candidate; confirm-evidence annotates.
LEMMA BodiesTyped ==
  ASSUME NEW body \in Bodies
  PROVE  /\ body \in Request
         /\ body.op = "relink" => body.candidate \in Candidates
         /\ body.op = "confirm" => body.decision = "annotate"
BY DecisionsAssumption DEF Bodies, Ask, Request, Actions

\* The UPDATE of resolve_task writes a row of the table.
LEMMA DecidedTyped ==
  ASSUME TypeOK, NEW r \in Requests
  PROVE  Decided(r) \in Task /\ Decided(r).status # "absent" /\ req[r].task \in Tasks
<1>1. req[r].decision \in Actions /\ req[r].task \in Tasks
  BY DEF TypeOK, Request
<1>2. NextStatus(req[r].decision) \in {"open"} \cup Terminal
  BY <1>1, StatusTyped
<1> QED BY <1>1, <1>2 DEF Decided, TaskRow, Task, Terminal

\* Every variable has its type in the initial state.
LEMMA TypeInit == Init => TypeOK
BY FaultsAssumption DEF Init, TypeOK, Task, TaskRow, Ask, Request, Actions

\* Every statement, failure and restart keeps the types.
LEMMA TypeNext ==
  ASSUME IInv, [Next]_vars
  PROVE  TypeOK'
<1> USE FaultsAssumption DEF IInv, TypeOK, Busy, Terminal, history, tables
<1>1. ASSUME NEW t \in Tasks, OpenTask(t) PROVE TypeOK'
  BY <1>1 DEF OpenTask, TaskRow, Task
<1>2. ASSUME NEW r \in Requests, Submit(r) PROVE TypeOK'
  BY <1>2, BodiesTyped DEF Submit, FirstLabel, Request
<1>3. ASSUME NEW r \in Requests, Lookup(r) PROVE TypeOK'
  BY <1>3 DEF Lookup, Statement, Proceed, Fault
<1>4. ASSUME NEW r \in Requests, Relink(r) PROVE TypeOK'
  <2>1. req[r].candidate \in Candidates
    BY <1>4 DEF Relink, Statement, RequestInv
  <2> QED BY <1>4, <2>1 DEF Relink, Statement, Proceed, Fault
<1>5. ASSUME NEW r \in Requests, Select(r) PROVE TypeOK'
  BY <1>5 DEF Select, Statement, Proceed, Fault, AfterSelect, Row, Task, Request
<1>6. ASSUME NEW r \in Requests, Update(r) PROVE TypeOK'
  <2>1. tasks' \in [Tasks -> Task]
    BY <1>6, DecidedTyped DEF Update
  <2> QED BY <1>6, <2>1 DEF Update, Statement, Proceed, Fault
<1>7. ASSUME NEW r \in Requests, Insert(r) PROVE TypeOK'
  BY <1>7 DEF Insert, Statement, Proceed, Fault
<1>8. ASSUME NEW r \in Requests, GetTask(r) PROVE TypeOK'
  BY <1>8 DEF GetTask, Statement, Proceed, Fault
<1>9. ASSUME NEW r \in Requests, RaiseOnBroken(r) \/ StatementFails(r) PROVE TypeOK'
  BY <1>9 DEF RaiseOnBroken, StatementFails, Fault
<1>10. CASE Restart
  BY <1>10 DEF Restart, Fault
<1>11. CASE UNCHANGED vars
  BY <1>11 DEF vars
<1>12. ASSUME NEW r \in Requests, RelinkMisses(r) PROVE TypeOK'
  BY <1>12 DEF RelinkMisses, Statement, Proceed, Fault
<1> QED
  BY <1>1, <1>2, <1>3, <1>4, <1>5, <1>6, <1>7, <1>8, <1>9, <1>10, <1>11, <1>12
  DEF Next, RequestStep

\* What remains to be shown of a step once the types are.
Safe ==
  /\ conn = "broken" => faults > 0
  /\ \A r \in Requests : RequestInv(r)
  /\ \A t \in Tasks : TaskInv(t)
  /\ \A c \in Candidates : LinkInv(c)
  /\ \A r \in Requests : OpenInv(r)

\* A new open row changes no other row, and no request has read it.
LEMMA OpenTaskSafe ==
  ASSUME IInv, TypeOK', NEW t \in Tasks, OpenTask(t)
  PROVE  Safe'
<1>1. conn' = "broken" => faults' > 0
  BY DEF OpenTask
<1>2. \A s \in Requests : RequestInv(s)'
  BY DEF IInv, history, Row, MayRelink, RequestInv, OpenTask
<1>3. \A u \in Tasks : TaskInv(u)'
  BY DEF IInv, Terminal, history, TaskInv, OpenTask, TaskRow
<1>4. \A c \in Candidates : LinkInv(c)'
  BY DEF IInv, history, LinkInv, OpenTask
<1>5. \A s \in Requests : OpenInv(s)'
  BY DEF IInv, Terminal, history, Row, OpenInv, OpenTask
<1> QED BY <1>1, <1>2, <1>3, <1>4, <1>5 DEF Safe

\* A new request has done nothing yet.
LEMMA SubmitSafe ==
  ASSUME IInv, TypeOK', NEW r \in Requests, Submit(r)
  PROVE  Safe'
<1>1. conn' = "broken" => faults' > 0
  BY DEF IInv, Submit
<1>2. \A s \in Requests : RequestInv(s)'
  <2>1. PICK body \in Bodies : /\ req' = [req EXCEPT ![r] = body]
                              /\ pc' = [pc EXCEPT ![r] = FirstLabel(body.op)]
    BY DEF Submit
  <2>2. /\ body \in Request
        /\ body.op = "relink" => body.candidate \in Candidates
        /\ body.op = "confirm" => body.decision = "annotate"
    BY BodiesTyped
  <2>3. pc[r] = "idle" /\ UNCHANGED <<tables, conn, faults, history>>
    BY DEF Submit
  <2>4. RequestInv(r)'
    BY <2>1, <2>2, <2>3 DEF IInv, TypeOK, RequestInv, FirstLabel, Request, history,
       tables
  <2>5. ASSUME NEW s \in Requests \ {r} PROVE RequestInv(s)'
    BY <2>1, <2>3 DEF IInv, RequestInv, MayRelink, Row, history, tables
  <2> QED BY <2>4, <2>5
<1>3. \A u \in Tasks : TaskInv(u)'
  BY DEF IInv, history, tables, RequestInv, TaskInv, Submit
<1>4. \A c \in Candidates : LinkInv(c)'
  BY DEF IInv, history, tables, RequestInv, LinkInv, Submit
<1>5. \A s \in Requests : OpenInv(s)'
  BY DEF IInv, TypeOK, history, tables, Row, Request, OpenInv, Submit, FirstLabel
<1> QED BY <1>1, <1>2, <1>3, <1>4, <1>5 DEF Safe

\* Relink_by_task_id goes on only after its checks.
LEMMA LookupSafe ==
  ASSUME IInv, TypeOK', NEW r \in Requests, Lookup(r)
  PROVE  Safe'
<1>1. conn' = "broken" => faults' > 0
  BY DEF IInv, TypeOK, Lookup, Proceed, Fault
<1>2. \A s \in Requests : RequestInv(s)'
  BY DEF IInv, TypeOK, history, tables, Row, MayRelink, RequestInv, Lookup,
     Statement, Proceed, Fault
<1>3. \A u \in Tasks : TaskInv(u)'
  BY DEF IInv, history, tables, TaskInv, Lookup
<1>4. \A c \in Candidates : LinkInv(c)'
  BY DEF IInv, history, tables, LinkInv, Lookup
<1>5. \A s \in Requests : OpenInv(s)'
  BY DEF IInv, TypeOK, history, tables, Row, OpenInv, Lookup, Proceed
<1> QED BY <1>1, <1>2, <1>3, <1>4, <1>5 DEF Safe

\* Apply_entity_relink writes the candidate the task names.
LEMMA RelinkSafe ==
  ASSUME IInv, TypeOK', NEW r \in Requests, Relink(r)
  PROVE  Safe'
<1>1. conn' = "broken" => faults' > 0
  BY DEF IInv, TypeOK, Relink, Proceed, Fault
<1>2. \A s \in Requests : RequestInv(s)'
  BY DEF IInv, TypeOK, Row, MayRelink, RequestInv, Relink, Statement, Proceed, Fault
<1>3. \A u \in Tasks : TaskInv(u)'
  BY DEF IInv, TaskInv, Relink
<1>4. \A c \in Candidates : LinkInv(c)'
  BY DEF IInv, LinkInv, Relink
<1>5. \A s \in Requests : OpenInv(s)'
  BY DEF IInv, TypeOK, Row, OpenInv, Relink, Proceed
<1> QED BY <1>1, <1>2, <1>3, <1>4, <1>5 DEF Safe

\* An UPDATE that finds no candidate changes no table.
LEMMA RelinkMissesSafe ==
  ASSUME IInv, TypeOK', NEW r \in Requests, RelinkMisses(r)
  PROVE  Safe'
<1>1. conn' = "broken" => faults' > 0
  BY DEF IInv, TypeOK, RelinkMisses, Proceed, Fault
<1>2. \A s \in Requests : RequestInv(s)'
  BY DEF IInv, TypeOK, history, tables, Row, MayRelink, RequestInv, RelinkMisses,
     Statement, Proceed, Fault
<1>3. \A u \in Tasks : TaskInv(u)'
  BY DEF IInv, history, tables, TaskInv, RelinkMisses
<1>4. \A c \in Candidates : LinkInv(c)'
  BY DEF IInv, history, tables, LinkInv, RelinkMisses
<1>5. \A s \in Requests : OpenInv(s)'
  BY DEF IInv, TypeOK, history, tables, Row, OpenInv, RelinkMisses, Proceed
<1> QED BY <1>1, <1>2, <1>3, <1>4, <1>5 DEF Safe

\* Resolve_task reads the row and goes on to UPDATE only when it is open.
LEMMA SelectSafe ==
  ASSUME IInv, TypeOK', NEW r \in Requests, Select(r)
  PROVE  Safe'
<1>1. conn' = "broken" => faults' > 0
  BY DEF IInv, TypeOK, Select, Proceed, Fault
<1>2. \A s \in Requests : RequestInv(s)'
  BY DEF IInv, TypeOK, tables, Row, MayRelink, Task, Request, RequestInv, Select,
     Statement, Proceed, Fault, AfterSelect
<1>3. \A u \in Tasks : TaskInv(u)'
  BY DEF IInv, tables, TaskInv, Select
<1>4. \A c \in Candidates : LinkInv(c)'
  BY DEF IInv, tables, LinkInv, Select
<1>5. \A s \in Requests : OpenInv(s)'
  BY FaultsAssumption DEF IInv, TypeOK, tables, Row, Task, Request, OpenInv, Select,
     Proceed, AfterSelect
<1> QED BY <1>1, <1>2, <1>3, <1>4, <1>5 DEF Safe

\* The UPDATE of resolve_task names its reviewer and status.
LEMMA UpdateSafe ==
  ASSUME IInv, TypeOK', NEW r \in Requests, Update(r)
  PROVE  Safe'
<1>0. PICK t \in Tasks : /\ t = req[r].task
                         /\ tasks' = [tasks EXCEPT ![t] = Decided(r)]
  BY DecidedTyped DEF IInv, Update
<1>1. conn' = "broken" => faults' > 0
  BY DEF IInv, TypeOK, Update, Proceed, Fault
<1>2. \A s \in Requests : RequestInv(s)'
  <2>1. ASSUME NEW s \in Requests, MayRelink(s) PROVE MayRelink(s)'
    BY <1>0, <2>1, DecidedTyped DEF IInv, MayRelink, Row, Update
  <2>2. RequestInv(r)'
    BY <2>1 DEF IInv, TypeOK, RequestInv, Update, Statement, Proceed, Fault
  <2>3. ASSUME NEW s \in Requests \ {r} PROVE RequestInv(s)'
    BY <2>1 DEF IInv, TypeOK, RequestInv, Update, Proceed, Fault
  <2> QED BY <2>2, <2>3
<1>3. \A u \in Tasks : TaskInv(u)'
  <2>1. applied' = applied \cup {r} /\ UNCHANGED req
    BY DEF Update
  <2>2. TaskInv(t)'
    BY <1>0, <2>1, NoneAssumption DEF TypeOK, TaskInv, Decided, TaskRow
  <2>3. ASSUME NEW u \in Tasks \ {t} PROVE TaskInv(u)'
    BY <1>0, <2>1 DEF IInv, TaskInv
  <2> QED BY <2>2, <2>3
<1>4. \A c \in Candidates : LinkInv(c)'
  BY DEF IInv, LinkInv, Update
<1>5. \A s \in Requests : OpenInv(s)'
  BY DEF IInv, TypeOK, Terminal, Row, OpenInv, Update, Statement, Proceed, Decided,
     TaskRow
<1> QED BY <1>1, <1>2, <1>3, <1>4, <1>5 DEF Safe

\* The audit row is the last statement of a request.
LEMMA InsertSafe ==
  ASSUME IInv, TypeOK', NEW r \in Requests, Insert(r)
  PROVE  Safe'
<1>1. conn' = "broken" => faults' > 0
  BY DEF IInv, TypeOK, Insert, Proceed, Fault
<1>2. \A s \in Requests : RequestInv(s)'
  BY DEF IInv, TypeOK, history, Row, MayRelink, RequestInv, Insert, Proceed, Fault
<1>3. \A u \in Tasks : TaskInv(u)'
  BY DEF IInv, history, TaskInv, Insert
<1>4. \A c \in Candidates : LinkInv(c)'
  BY DEF IInv, history, LinkInv, Insert
<1>5. \A s \in Requests : OpenInv(s)'
  BY DEF IInv, TypeOK, history, Row, OpenInv, Insert, Statement, Proceed
<1> QED BY <1>1, <1>2, <1>3, <1>4, <1>5 DEF Safe

\* Confirm-evidence only reads the task.
LEMMA GetTaskSafe ==
  ASSUME IInv, TypeOK', NEW r \in Requests, GetTask(r)
  PROVE  Safe'
<1>1. conn' = "broken" => faults' > 0
  BY DEF IInv, TypeOK, GetTask, Proceed, Fault
<1>2. \A s \in Requests : RequestInv(s)'
  BY DEF IInv, TypeOK, history, tables, Row, MayRelink, RequestInv, GetTask,
     Statement, Proceed, Fault
<1>3. \A u \in Tasks : TaskInv(u)'
  BY DEF IInv, history, tables, TaskInv, GetTask
<1>4. \A c \in Candidates : LinkInv(c)'
  BY DEF IInv, history, tables, LinkInv, GetTask
<1>5. \A s \in Requests : OpenInv(s)'
  BY DEF IInv, TypeOK, history, tables, Row, RequestInv, OpenInv, GetTask,
     Statement, Proceed
<1> QED BY <1>1, <1>2, <1>3, <1>4, <1>5 DEF Safe

\* A failing statement leaves every row as it is.
LEMMA FailureSafe ==
  ASSUME IInv, TypeOK', NEW r \in Requests, RaiseOnBroken(r) \/ StatementFails(r)
  PROVE  Safe'
<1>1. conn' = "broken" => faults' > 0
  BY DEF IInv, RaiseOnBroken, StatementFails
<1>2. \A s \in Requests : RequestInv(s)'
  BY DEF IInv, TypeOK, history, tables, Row, MayRelink, RequestInv, RaiseOnBroken,
     StatementFails, Fault
<1>3. \A u \in Tasks : TaskInv(u)'
  BY DEF IInv, history, tables, TaskInv, RaiseOnBroken, StatementFails
<1>4. \A c \in Candidates : LinkInv(c)'
  BY DEF IInv, history, tables, LinkInv, RaiseOnBroken, StatementFails
<1>5. \A s \in Requests : OpenInv(s)'
  BY NoneAssumption, PayloadAssumption, FaultsAssumption DEF IInv, TypeOK, Busy,
     Terminal, history, tables, Row, MayRelink, Task, Request, OpenInv,
     RaiseOnBroken, StatementFails, Fault
<1> QED BY <1>1, <1>2, <1>3, <1>4, <1>5 DEF Safe

\* A restart of the API only ends the requests in flight.
LEMMA RestartSafe ==
  ASSUME IInv, TypeOK', Restart
  PROVE  Safe'
<1>1. conn' = "broken" => faults' > 0
  BY DEF Restart
<1>2. \A s \in Requests : RequestInv(s)'
  BY DEF IInv, TypeOK, history, tables, Row, MayRelink, RequestInv, Restart, Fault
<1>3. \A u \in Tasks : TaskInv(u)'
  BY DEF IInv, history, tables, TaskInv, Restart
<1>4. \A c \in Candidates : LinkInv(c)'
  BY DEF IInv, history, tables, LinkInv, Restart
<1>5. \A s \in Requests : OpenInv(s)'
  BY DEF IInv, history, tables, Row, OpenInv, Restart
<1> QED BY <1>1, <1>2, <1>3, <1>4, <1>5 DEF Safe

\* A stuttering step changes nothing.
LEMMA StutterSafe ==
  ASSUME IInv, TypeOK', UNCHANGED vars
  PROVE  Safe'
<1>1. conn' = "broken" => faults' > 0
  BY DEF IInv, vars
<1>2. \A s \in Requests : RequestInv(s)'
  BY DEF IInv, history, tables, Row, MayRelink, RequestInv, vars
<1>3. \A u \in Tasks : TaskInv(u)'
  BY DEF IInv, history, tables, TaskInv, vars
<1>4. \A c \in Candidates : LinkInv(c)'
  BY DEF IInv, history, tables, LinkInv, vars
<1>5. \A s \in Requests : OpenInv(s)'
  BY DEF IInv, history, tables, Row, OpenInv, vars
<1> QED BY <1>1, <1>2, <1>3, <1>4, <1>5 DEF Safe

-----------------------------------------------------------------------------
\* No request has done anything in the initial state.
LEMMA IInvInit == Init => IInv
BY TypeInit, NoneAssumption
DEF Init, IInv, TypeOK, RequestInv, TaskInv, LinkInv, OpenInv, TaskRow, Terminal, Ask

\* Every step of the API keeps the inductive invariant.
LEMMA IInvNext == IInv /\ [Next]_vars => IInv'
<1> SUFFICES ASSUME IInv, [Next]_vars PROVE IInv'
  OBVIOUS
<1>1. TypeOK'
  BY TypeNext
<1>2. Safe'
  BY <1>1, OpenTaskSafe, SubmitSafe, LookupSafe, RelinkSafe, RelinkMissesSafe, SelectSafe,
     UpdateSafe, InsertSafe, GetTaskSafe, FailureSafe, RestartSafe, StutterSafe DEF Next,
     RequestStep
<1> QED
  BY <1>1, <1>2 DEF IInv, Safe

\* The inductive invariant holds in every reachable state.
THEOREM Invariance == Spec => []IInv
BY IInvInit, IInvNext, PTL DEF Spec

\* Every variable keeps its type.
THEOREM TypeCorrect == Spec => []TypeOK
<1>1. IInv => TypeOK
  BY DEF IInv
<1> QED BY <1>1, Invariance, PTL

\* The status and the reviewer of a task come from one recorded decision
\* (the UPDATE and the INSERT of resolve_task).
THEOREM Traceability == Spec => []StatusTraceable
<1>1. IInv => StatusTraceable
  BY DEF IInv, TypeOK, TaskInv, RequestInv, Task, StatusTraceable
<1> QED BY <1>1, Invariance, PTL

\* What succeeded is audited, and what was rejected did nothing (_insert_action,
\* append_span_confirmation).
THEOREM CompleteAudit == Spec => []AuditComplete
<1>1. IInv => AuditComplete
  BY DEF IInv, TypeOK, RequestInv, Busy, AuditComplete
<1> QED BY <1>1, Invariance, PTL

\* No candidate is re-pointed through a task that does not name it
\* (relink_by_task_id).
THEOREM AuthorisedLinks == Spec => []LinkAuthorised
<1>1. IInv => LinkAuthorised
  BY DEF IInv, TypeOK, LinkInv, RequestInv, MayRelink, Row, LinkAuthorised
<1> QED BY <1>1, Invariance, PTL

\* An answered terminal decision has closed its task, unless another one
\* overlapped with it (resolve_task).
THEOREM DecisionsStick == Spec => []DecisionsClose
<1>1. IInv => DecisionsClose
  BY DEF IInv, TypeOK, RequestInv, OpenInv, NextStatus, Terminal, Actions, Request,
     DecisionsClose
<1> QED BY <1>1, Invariance, PTL

\* Only the UPDATE of resolve_task writes a task that is already terminal, and
\* then it overlapped with the decision that closed it.
LEMMA FinalStep ==
  ASSUME IInv, [Next]_vars, NEW t \in Tasks,
         tasks[t].status \in Terminal, t \notin overlapped
  PROVE  tasks'[t] = tasks[t]
<1>1. CASE \E u \in Tasks : OpenTask(u)
  BY <1>1 DEF OpenTask, IInv, TypeOK, Terminal
<1>2. ASSUME NEW r \in Requests, Update(r) PROVE tasks'[t] = tasks[t]
  <2>1. req[r].task # t
    BY <1>2 DEF IInv, OpenInv, Update, Statement, Row, Terminal
  <2> QED BY <1>2, <2>1 DEF IInv, TypeOK, Update
<1>3. ASSUME NEW r \in Requests,
             \/ Submit(r) \/ Lookup(r) \/ Relink(r) \/ RelinkMisses(r) \/ Select(r)
             \/ Insert(r) \/ GetTask(r) \/ RaiseOnBroken(r) \/ StatementFails(r)
      PROVE  UNCHANGED tasks
  BY <1>3 DEF Submit, Lookup, Relink, RelinkMisses, Select, Insert, GetTask, RaiseOnBroken,
     StatementFails, tables
<1>4. CASE Restart \/ UNCHANGED vars
  BY <1>4 DEF Restart, vars, tables
<1> QED
  BY <1>1, <1>2, <1>3, <1>4 DEF Next, RequestStep

\* Without overlap a closed task stays as it is (resolve_task).
THEOREM Finality == Spec => FinalUnlessOverlapped
<1>1. IInv /\ [Next]_vars =>
        [\A t \in Tasks :
           tasks[t].status \in Terminal /\ t \notin overlapped => tasks'[t] = tasks[t]]_vars
  BY FinalStep
<1> QED BY <1>1, Invariance, PTL DEF Spec, FinalUnlessOverlapped
=============================================================================
