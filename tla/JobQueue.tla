------------------------------ MODULE JobQueue ------------------------------
(***************************************************************************)
(* The Postgres job queue of civic_ingest.queue, driven by the processes   *)
(* of apps/worker and by the handler registry of civic_ingest.handlers.    *)
(*                                                                         *)
(* A worker tick (run_once) is several database transactions with a        *)
(* handler call in between, so every statement and every COMMIT is a step  *)
(* of its own here: other workers, the clock, SIGTERM, a lost connection   *)
(* or a killed process can come between any two of them.                   *)
(*                                                                         *)
(* "jobs" is the committed content of the table.  The one row a            *)
(* transaction has written but not committed is in "pending"; while that   *)
(* transaction is open its row is locked.                                  *)
(***************************************************************************)
EXTENDS Naturals

CONSTANTS
  Jobs,          \* the job_ids that can be enqueued
  Workers,       \* worker processes, each running run_forever
  None,          \* "no job": a worker between two ticks
  Kind,          \* Kind[j]: jobs.kind
  Adapter,       \* Adapter[j]: payload["adapter"], None when absent
  Priority,      \* Priority[j]: jobs.priority, a smaller number is claimed first
  Registry,      \* the <<kind, adapter>> pairs register() was called with
  MaxAttempts,   \* max_attempts of mark_failed (5 in the code)
  StartTimes,    \* explicit run_after arguments of enqueue
  Horizon,       \* bound of the clock; a later run_after is cut to it
  MaxFaults,     \* bound on crashes, lost connections and failing statements
  MaxStops       \* bound on SIGTERM / SIGINT

DispatchableKinds == {"fetch", "parse", "normalize", "upsert"}

ASSUME NoneAssumption == None \notin Jobs
ASSUME AttributeAssumption ==
  /\ Kind \in [Jobs -> DispatchableKinds]
  /\ Priority \in [Jobs -> Nat]
ASSUME AttemptsAssumption == MaxAttempts \in Nat \ {0}
ASSUME BoundsAssumption ==
  /\ Horizon \in Nat
  /\ StartTimes \subseteq 0 .. Horizon
  /\ MaxFaults \in Nat
  /\ MaxStops \in Nat

VARIABLES
  jobs,      \* committed rows of the jobs table
  pc,        \* control point of each worker process
  conn,      \* the connection of the worker's current tick
  held,      \* the local variable "job" of run_once
  pending,   \* the uncommitted row version written by the open transaction
  stopping,  \* _should_exit
  now,       \* the database clock, in seconds
  faults, stops,    \* how much of MaxFaults and MaxStops was used
  runs,      \* history: calls of dispatch for a job
  effects,   \* history: handler calls of a job that returned
  failedAt   \* history: when mark_failed last ran for a job

tableVars == <<jobs, pending>>
procVars  == <<pc, conn, held, stopping>>
envVars   == <<now, faults, stops>>
history   == <<runs, effects, failedAt>>
vars      == <<tableVars, procVars, envVars, history>>

-----------------------------------------------------------------------------
(* The table.  "absent" stands for a job_id that has no row yet.           *)

Statuses == {"absent", "queued", "running", "done", "dead_letter"}
Settled  == {"done", "dead_letter"}

Row == [status: Statuses, attempts: Nat, run_after: 0 .. Horizon, last_error: BOOLEAN]

NoRow == [status |-> "absent", attempts |-> 0, run_after |-> 0, last_error |-> FALSE]

\* now() + seconds, cut to the horizon of the model.
Later(t, seconds) == IF t + seconds <= Horizon THEN t + seconds ELSE Horizon

\* The row versions the four statements write.
NewRow(status, attempts, run_after, last_error) ==
  [status |-> status, attempts |-> attempts,
   run_after |-> run_after, last_error |-> last_error]

QueuedRow(t) == NewRow("queued", 0, t, FALSE)

ClaimedRow(row) == NewRow("running", row.attempts + 1, row.run_after, row.last_error)

\* Faulty: the error of an earlier attempt stays on the row.
DoneRow_KeepsError(row) == NewRow("done", row.attempts, row.run_after, row.last_error)

DoneRow(row) == NewRow("done", row.attempts, row.run_after, FALSE)

\* Faulty: the unused "failed" status of the schema is written.
FailedRow_Failed(row) == NewRow("failed", row.attempts, row.run_after, TRUE)

\* Faulty: run_after is left as it was on every branch.
FailedRow_NoBackoff(row) ==
  NewRow(IF row.attempts >= MaxAttempts THEN "dead_letter" ELSE "queued",
         row.attempts, row.run_after, TRUE)

\* When a job that failed its n-th attempt at time t may run again.
BackoffEnd(t, n) == Later(t, n * n)

\* Faulty: one attempt too many before dead_letter.
FailedRow_OffByOne(row) ==
  IF row.attempts > MaxAttempts
  THEN NewRow("dead_letter", row.attempts, row.run_after, TRUE)
  ELSE NewRow("queued", row.attempts, BackoffEnd(now, row.attempts), TRUE)

FailedRow(row) ==
  IF row.attempts >= MaxAttempts
  THEN NewRow("dead_letter", row.attempts, row.run_after, TRUE)
  ELSE NewRow("queued", row.attempts, BackoffEnd(now, row.attempts), TRUE)

-----------------------------------------------------------------------------
(* Transactions and row locks.                                             *)

\* Worker w has written a row and not yet committed.
InTx(w) == pc[w] \in {"claimed", "marked", "failed"} /\ conn[w] = "open"

Locked(j) == \E w \in Workers : InTx(w) /\ held[w] = j

Commit(w) == /\ jobs' = [jobs EXCEPT ![held[w]] = pending[w]]
             /\ pending' = [pending EXCEPT ![w] = NoRow]

Discard(w) == /\ pending' = [pending EXCEPT ![w] = NoRow]
              /\ UNCHANGED jobs

Write(w, row) == /\ ~Locked(held[w])
                 /\ pending' = [pending EXCEPT ![w] = row]
                 /\ UNCHANGED jobs

GoTo(w, label) == pc' = [pc EXCEPT ![w] = label]

\* The tick is over: conn.close(), and the local "job" goes out of scope.
EndTick(w, label) ==
  /\ GoTo(w, label)
  /\ conn' = [conn EXCEPT ![w] = "closed"]
  /\ held' = [held EXCEPT ![w] = None]

\* An exception (or SIGKILL) leaves run_forever; Postgres rolls back.
Die(w) == /\ EndTick(w, "stopped")
          /\ Discard(w)

-----------------------------------------------------------------------------
(* Producers.                                                              *)

Enqueue(j) ==
  /\ jobs[j].status = "absent"
  /\ \E t \in {now} \cup StartTimes : jobs' = [jobs EXCEPT ![j] = QueuedRow(t)]
  /\ UNCHANGED <<pending, procVars, envVars, history>>

(* The worker process.                                                     *)

Start(w) ==
  /\ pc[w] = "stopped"
  /\ GoTo(w, "loop")
  /\ stopping' = [stopping EXCEPT ![w] = FALSE]
  /\ UNCHANGED <<tableVars, conn, held, envVars, history>>

RequestExit(w) ==
  /\ pc[w] # "stopped" /\ ~stopping[w]
  /\ stops < MaxStops
  /\ stops' = stops + 1
  /\ stopping' = [stopping EXCEPT ![w] = TRUE]
  /\ UNCHANGED <<tableVars, pc, conn, held, now, faults, history>>

\* Faulty: the signal handler raises, whatever the tick was doing.
Exit_AtOnce(w) ==
  /\ pc[w] # "stopped" /\ stopping[w]
  /\ Die(w)
  /\ UNCHANGED <<stopping, envVars, history>>

\* _should_exit is read between two ticks only.
Exit(w) ==
  /\ pc[w] = "loop" /\ stopping[w]
  /\ GoTo(w, "stopped")
  /\ UNCHANGED <<tableVars, conn, held, stopping, envVars, history>>

\* Faulty: SELECT without FOR UPDATE SKIP LOCKED.
Claimable_NoLock(j) == /\ jobs[j].status = "queued"
                       /\ jobs[j].run_after <= now
                       /\ Kind[j] \in DispatchableKinds

\* Faulty: a "running" row is claimed again, though nothing says its owner is dead.
Claimable_Running(j) == /\ jobs[j].status \in {"queued", "running"}
                        /\ jobs[j].run_after <= now
                        /\ Kind[j] \in DispatchableKinds
                        /\ ~Locked(j)

\* Faulty: a kind of the schema is missing from the worker's list.
Claimable_NoParse(j) == /\ jobs[j].status = "queued"
                        /\ jobs[j].run_after <= now
                        /\ Kind[j] \in DispatchableKinds \ {"parse"}
                        /\ ~Locked(j)

Claimable(j) == /\ jobs[j].status = "queued"
                /\ jobs[j].run_after <= now
                /\ Kind[j] \in DispatchableKinds
                /\ ~Locked(j)

\* ORDER BY priority ASC, run_after ASC
NotAfter(j, k) == \/ Priority[j] < Priority[k]
                  \/ Priority[j] = Priority[k] /\ jobs[j].run_after <= jobs[k].run_after

\* A tick that finds nothing to claim changes nothing.
ClaimOne(w) ==
  /\ pc[w] = "loop" /\ ~stopping[w]
  /\ \E j \in Jobs :
       /\ Claimable(j)
       /\ \A k \in Jobs : Claimable(k) => NotAfter(j, k)
       /\ held' = [held EXCEPT ![w] = j]
       /\ pending' = [pending EXCEPT ![w] = ClaimedRow(jobs[j])]
  /\ conn' = [conn EXCEPT ![w] = "open"]
  /\ GoTo(w, "claimed")
  /\ UNCHANGED <<jobs, stopping, envVars, history>>

CommitClaim(w) ==
  /\ pc[w] = "claimed" /\ conn[w] = "open"
  /\ Commit(w)
  /\ GoTo(w, "dispatch")
  /\ UNCHANGED <<conn, held, stopping, envVars, history>>

\* The adapter's own handler, or else the default handler of the kind.
HandlerFor(j) ==
  {<<Kind[j], Adapter[j]>>, <<Kind[j], None>>} \cap Registry

Dispatch(w) ==
  /\ pc[w] = "dispatch"
  /\ runs' = [runs EXCEPT ![held[w]] = @ + 1]
  /\ GoTo(w, IF HandlerFor(held[w]) = {} THEN "raised" ELSE "running")
  /\ UNCHANGED <<tableVars, conn, held, stopping, envVars, effects, failedAt>>

HandlerReturns(w) ==
  /\ pc[w] = "running"
  /\ effects' = [effects EXCEPT ![held[w]] = @ + 1]
  /\ GoTo(w, "handled")
  /\ UNCHANGED <<tableVars, conn, held, stopping, envVars, runs, failedAt>>

HandlerRaises(w) ==
  /\ pc[w] = "running"
  /\ GoTo(w, "raised")
  /\ UNCHANGED <<tableVars, conn, held, stopping, envVars, history>>

MarkDone(w) ==
  /\ pc[w] = "handled" /\ conn[w] = "open"
  /\ Write(w, DoneRow(jobs[held[w]]))
  /\ GoTo(w, "marked")
  /\ UNCHANGED <<conn, held, stopping, envVars, history>>

\* conn.rollback() and mark_failed: the except branch of run_once.
MarkFailed(w) ==
  /\ pc[w] = "raised" /\ conn[w] = "open"
  /\ Write(w, FailedRow(jobs[held[w]]))
  /\ failedAt' = [failedAt EXCEPT ![held[w]] = now]
  /\ GoTo(w, "failed")
  /\ UNCHANGED <<conn, held, stopping, envVars, runs, effects>>

CommitMark(w) ==
  /\ pc[w] \in {"marked", "failed"} /\ conn[w] = "open"
  /\ Commit(w)
  /\ EndTick(w, "loop")
  /\ UNCHANGED <<stopping, envVars, history>>

-----------------------------------------------------------------------------
(* Failures.  A statement on a broken connection raises: inside the try    *)
(* that surrounds _dispatch it reaches the except branch, whose            *)
(* conn.rollback() raises again; everywhere else it leaves run_forever.    *)

\* Faulty: the except branch opens a new connection for mark_failed.
RaiseOnBroken_Reconnects(w) ==
  /\ conn[w] = "broken"
  /\ pc[w] \in {"handled", "marked"}
  /\ GoTo(w, "raised")
  /\ conn' = [conn EXCEPT ![w] = "open"]
  /\ UNCHANGED <<tableVars, held, stopping, envVars, history>>

RaiseOnBroken(w) ==
  /\ conn[w] = "broken"
  /\ pc[w] \in {"handled", "marked"}
  /\ GoTo(w, "raised")
  /\ UNCHANGED <<tableVars, conn, held, stopping, envVars, history>>

DieOnBroken(w) ==
  /\ conn[w] = "broken"
  /\ pc[w] \in {"claimed", "raised", "failed"}
  /\ Die(w)
  /\ UNCHANGED <<stopping, envVars, history>>

Fault == faults < MaxFaults /\ faults' = faults + 1

\* The connection drops; the server rolls the open transaction back.
LoseConnection(w) ==
  /\ Fault
  /\ conn[w] = "open"
  /\ conn' = [conn EXCEPT ![w] = "broken"]
  /\ Discard(w)
  /\ UNCHANGED <<pc, held, stopping, now, stops, history>>

\* The server commits and the connection drops before the answer arrives.
LoseCommitAnswer(w) ==
  /\ Fault
  /\ InTx(w)
  /\ Commit(w)
  /\ conn' = [conn EXCEPT ![w] = "broken"]
  /\ UNCHANGED <<pc, held, stopping, now, stops, history>>

\* mark_done or its COMMIT fails on a healthy connection.
MarkDoneFails(w) ==
  /\ Fault
  /\ pc[w] \in {"handled", "marked"} /\ conn[w] = "open"
  /\ Discard(w)
  /\ GoTo(w, "raised")
  /\ UNCHANGED <<conn, held, stopping, now, stops, history>>

\* SIGKILL, out of memory, or a claim / mark_failed statement that fails.
Crash(w) ==
  /\ Fault
  /\ pc[w] # "stopped"
  /\ Die(w)
  /\ UNCHANGED <<stopping, now, stops, history>>

Tick ==
  /\ now < Horizon
  /\ now' = now + 1
  /\ UNCHANGED <<tableVars, procVars, faults, stops, history>>

-----------------------------------------------------------------------------
Init ==
  /\ jobs = [j \in Jobs |-> NoRow]
  /\ pending = [w \in Workers |-> NoRow]
  /\ pc = [w \in Workers |-> "stopped"]
  /\ conn = [w \in Workers |-> "closed"]
  /\ held = [w \in Workers |-> None]
  /\ stopping = [w \in Workers |-> FALSE]
  /\ now = 0 /\ faults = 0 /\ stops = 0
  /\ runs = [j \in Jobs |-> 0]
  /\ effects = [j \in Jobs |-> 0]
  /\ failedAt = [j \in Jobs |-> 0]

\* The steps of run_forever, run_once included.
WorkerStep(w) ==
  \/ Exit(w) \/ ClaimOne(w) \/ CommitClaim(w) \/ Dispatch(w)
  \/ HandlerReturns(w) \/ HandlerRaises(w)
  \/ MarkDone(w) \/ MarkFailed(w) \/ CommitMark(w)
  \/ RaiseOnBroken(w) \/ DieOnBroken(w)

FaultStep(w) ==
  LoseConnection(w) \/ LoseCommitAnswer(w) \/ MarkDoneFails(w) \/ Crash(w)

Next ==
  \/ Tick
  \/ \E j \in Jobs : Enqueue(j)
  \/ \E w \in Workers : Start(w) \/ RequestExit(w) \/ WorkerStep(w) \/ FaultStep(w)

Spec == Init /\ [][Next]_vars

\* The loop of a live worker goes on, its handlers return and time passes.
\* Producers, signals and faults owe nothing, and nobody has to start a
\* worker again: docker-compose.yml gives the worker no restart policy.
FairSpec == Spec /\ WF_vars(Tick) /\ \A w \in Workers : WF_vars(WorkerStep(w))

-----------------------------------------------------------------------------
(* Properties.                                                             *)

\* The type of every variable.
TypeOK ==
  /\ jobs \in [Jobs -> Row]
  /\ pending \in [Workers -> Row]
  /\ pc \in [Workers -> {"stopped", "loop", "claimed", "dispatch", "running",
                         "handled", "marked", "raised", "failed"}]
  /\ conn \in [Workers -> {"closed", "open", "broken"}]
  /\ held \in [Workers -> Jobs \cup {None}]
  /\ stopping \in [Workers -> BOOLEAN]
  /\ now \in 0 .. Horizon
  /\ faults \in 0 .. MaxFaults
  /\ stops \in 0 .. MaxStops
  /\ runs \in [Jobs -> Nat]
  /\ effects \in [Jobs -> Nat]
  /\ failedAt \in [Jobs -> 0 .. Horizon]

\* Worker w can still run the handler of j or write the outcome of j: from
\* the committed claim on, unless only a broken connection is left to it.
Owns(w, j) ==
  /\ held[w] = j
  /\ \/ pc[w] \in {"dispatch", "running"}
     \/ pc[w] \in {"handled", "marked", "raised", "failed"} /\ conn[w] = "open"

\* claim_one never gives a job to a worker while another one still works on
\* it or can still write its outcome, whatever crashes: mark_done and
\* mark_failed check neither status nor owner and rely on exactly this.
OneOwner ==
  \A v, w \in Workers, j \in Jobs : Owns(v, j) /\ Owns(w, j) => v = w

\* The retry budget is spent on handler calls and on nothing else: a job in
\* the queue had as many dispatches as claims, and a dead-lettered one had
\* all MaxAttempts of them.  A running job is at most the latest one short.
AttemptLedger ==
  \A j \in Jobs :
    /\ jobs[j].attempts <= MaxAttempts
    /\ jobs[j].status \in {"absent", "queued"} =>
         runs[j] = jobs[j].attempts /\ runs[j] < MaxAttempts
    /\ jobs[j].status = "running" =>
         runs[j] \in {jobs[j].attempts - 1, jobs[j].attempts}
    /\ jobs[j].status = "dead_letter" => runs[j] = MaxAttempts

\* A row says "done" only of a job whose handler returned, and it carries a
\* last_error exactly when its latest attempt to finish failed.
OutcomeIsTrue ==
  \A j \in Jobs :
    /\ jobs[j].status = "done" => effects[j] > 0 /\ ~jobs[j].last_error
    /\ jobs[j].status = "dead_letter" => jobs[j].last_error
    /\ jobs[j].status = "queued" => (jobs[j].last_error <=> jobs[j].attempts > 0)

\* Nobody works on j and nobody will: its row says "running" for good.
Orphaned(j) == /\ jobs[j].status = "running"
               /\ \A w \in Workers : ~Owns(w, j)

\* SIGTERM, exits and failing handlers never strand a job in "running": the
\* exit flag is read only after the tick has committed the outcome.
OrphansOnlyByFault == faults = 0 => \A j \in Jobs : ~Orphaned(j)

\* No late or repeated write changes the row of a settled job: neither
\* UPDATE of queue.py has a guard on status.
SettledIsFinal ==
  [][\A j \in Jobs : jobs[j].status \in Settled => jobs'[j] = jobs[j]]_vars

\* A failed job is claimed again only attempts^2 seconds after its failure.
BackoffRespected ==
  [][\A j \in Jobs :
       /\ jobs[j].attempts > 0
       /\ jobs[j].status = "queued" /\ jobs'[j].status = "running"
       => now >= BackoffEnd(failedAt[j], jobs[j].attempts)]_vars

\* From some point on a worker runs that was not told to exit.
WorkersStay == <>[](\E w \in Workers : pc[w] # "stopped" /\ ~stopping[w])

\* While workers run, every queued job is settled or orphaned by a fault in
\* the end: no lock, backoff, priority or lost answer keeps it waiting.
EveryJobSettles ==
  WorkersStay =>
    \A j \in Jobs :
      jobs[j].status = "queued" ~> (jobs[j].status \in Settled \/ Orphaned(j))

\* ADR-0003: "Delivers jobs at least once, with visibility timeout / claim
\* semantics so a crashed worker doesn't lose the job."
NoJobLost ==
  WorkersStay =>
    \A j \in Jobs : jobs[j].status = "queued" ~> jobs[j].status \in Settled

-----------------------------------------------------------------------------
(* The queue implements WorkItems.                                         *)

ItemState(status) ==
  CASE status = "absent"      -> "absent"
    [] status = "queued"      -> "ready"
    [] status = "running"     -> "taken"
    [] status = "done"        -> "finished"
    [] status = "dead_letter" -> "buried"

Items == INSTANCE WorkItems WITH
  Items     <- Jobs,
  Processes <- Workers,
  MaxTries  <- MaxAttempts,
  state     <- [j \in Jobs |-> ItemState(jobs[j].status)],
  tries     <- [j \in Jobs |-> jobs[j].attempts],
  holders   <- [j \in Jobs |-> {w \in Workers : Owns(w, j)}]

\* Every behaviour of the queue, faults included, is one of WorkItems.
ImplementsWorkItems == Items!WSpec
=============================================================================
