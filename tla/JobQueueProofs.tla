--------------------------- MODULE JobQueueProofs ---------------------------
(***************************************************************************)
(* Theorems about JobQueue for any jobs, workers, registry, retry limit    *)
(* and number of faults.                                                   *)
(*                                                                         *)
(* None of the safety properties is inductive by itself.  The inductive    *)
(* invariant IInv adds what each control point of a worker knows about the *)
(* committed row of its job and about the row version it is going to       *)
(* commit (RowInv), and that an uncommitted claim excludes other workers   *)
(* just as ownership does (OneUser).                                       *)
(***************************************************************************)
EXTENDS JobQueue, TLAPS

Idle == {"stopped", "loop"}

\* A worker between two ticks holds no job and no connection; in a tick it
\* holds one, on a connection that was opened.
TickInv ==
  \A w \in Workers :
    /\ pc[w] \in Idle => held[w] = None /\ conn[w] = "closed"
    /\ pc[w] \notin Idle => held[w] \in Jobs /\ conn[w] \in {"open", "broken"}

\* Worker w owns j, or has claimed it without committing yet.
Uses(w, j) ==
  \/ Owns(w, j)
  \/ held[w] = j /\ pc[w] = "claimed" /\ conn[w] = "open"

OneUser == \A v, w \in Workers, j \in Jobs : Uses(v, j) /\ Uses(w, j) => v = w

\* What worker w knows of the committed row of its job j and of its own write.
RowInv(w, j) ==
  /\ Owns(w, j) =>
       /\ jobs[j].status = "running"
       /\ runs[j] = IF pc[w] = "dispatch" THEN jobs[j].attempts - 1 ELSE jobs[j].attempts
  /\ Uses(w, j) /\ pc[w] = "claimed" =>
       /\ jobs[j].status = "queued"
       /\ jobs[j].run_after <= now
       /\ pending[w] = ClaimedRow(jobs[j])
  /\ Owns(w, j) /\ pc[w] \in {"handled", "marked"} => effects[j] > 0
  /\ Owns(w, j) /\ pc[w] = "marked" => pending[w] = DoneRow(jobs[j])
  /\ Owns(w, j) /\ pc[w] = "failed" =>
       /\ pending[w].attempts = jobs[j].attempts
       /\ pending[w].last_error
       /\ pending[w].status =
            IF jobs[j].attempts >= MaxAttempts THEN "dead_letter" ELSE "queued"
       /\ pending[w].status = "queued" =>
            pending[w].run_after = BackoffEnd(failedAt[j], jobs[j].attempts)

\* What the row of j alone tells, whoever works on it.
JobInv(j) ==
  /\ jobs[j].attempts <= MaxAttempts
  /\ jobs[j].status = "absent" => jobs[j] = NoRow /\ runs[j] = 0
  /\ jobs[j].status = "queued" =>
       /\ runs[j] = jobs[j].attempts /\ runs[j] < MaxAttempts
       /\ jobs[j].last_error <=> jobs[j].attempts > 0
       /\ jobs[j].attempts > 0 =>
            jobs[j].run_after = BackoffEnd(failedAt[j], jobs[j].attempts)
  /\ jobs[j].status = "running" =>
       /\ jobs[j].attempts > 0
       /\ runs[j] \in {jobs[j].attempts - 1, jobs[j].attempts}
  /\ jobs[j].status = "done" => effects[j] > 0 /\ ~jobs[j].last_error
  /\ jobs[j].status = "dead_letter" =>
       runs[j] = MaxAttempts /\ jobs[j].attempts = MaxAttempts /\ jobs[j].last_error

\* Without a fault no connection breaks and every running job has its owner.
NoFaultInv ==
  faults = 0 => /\ \A w \in Workers : conn[w] # "broken"
                /\ \A j \in Jobs : ~Orphaned(j)

IInv == /\ TypeOK
        /\ TickInv
        /\ OneUser
        /\ \A w \in Workers, j \in Jobs : RowInv(w, j)
        /\ \A j \in Jobs : JobInv(j)
        /\ NoFaultInv

-----------------------------------------------------------------------------
\* A job_id that was never enqueued has a row value of its own.
LEMMA NoRowTyped == NoRow \in Row
BY BoundsAssumption DEF NoRow, Row, Statuses

\* The row versions the statements write are rows.
LEMMA RowsTyped ==
  ASSUME NEW row \in Row, TypeOK
  PROVE  /\ ClaimedRow(row) \in Row
         /\ DoneRow(row) \in Row
         /\ FailedRow(row) \in Row
<1>1. row.attempts * row.attempts \in Nat
  BY DEF Row
<1>2. \A n \in Nat : Later(now, n) \in 0 .. Horizon
  BY BoundsAssumption DEF TypeOK, Later
<1>3. BackoffEnd(now, row.attempts) \in 0 .. Horizon
  BY <1>1, <1>2 DEF BackoffEnd
<1> QED
  BY <1>3, BoundsAssumption DEF TypeOK, Row, NoRow, NewRow, ClaimedRow, DoneRow,
     FailedRow, Statuses

\* The row that enqueue inserts is a row of the table.
LEMMA QueuedRowTyped == ASSUME NEW t \in 0 .. Horizon PROVE QueuedRow(t) \in Row
BY BoundsAssumption DEF QueuedRow, NewRow, Row, Statuses

\* Types and the shape of a tick, kept together: a worker in a tick holds a
\* job, so every row it writes is a row of the table.
LEMMA TypeTickInit == Init => TypeOK /\ TickInv
BY BoundsAssumption DEF Init, TypeOK, TickInv, Idle, Row, NoRow, Statuses

\* Every step of every process, fault and clock keeps the types and the tick.
LEMMA TypeTickNext == TypeOK /\ TickInv /\ [Next]_vars => TypeOK' /\ TickInv'
<1> SUFFICES ASSUME TypeOK, TickInv, [Next]_vars
             PROVE  TypeOK' /\ TickInv'
  OBVIOUS
<1> USE NoneAssumption, BoundsAssumption DEF TypeOK, TickInv, Idle
<1>1. CASE Tick
  BY <1>1 DEF Tick, tableVars, procVars, history
<1>2. ASSUME NEW j \in Jobs, Enqueue(j) PROVE TypeOK' /\ TickInv'
  BY <1>2, QueuedRowTyped DEF Enqueue, procVars, envVars, history
<1>3. ASSUME NEW w \in Workers, Start(w) PROVE TypeOK' /\ TickInv'
  BY <1>3 DEF Start, GoTo, tableVars, envVars, history
<1>4. ASSUME NEW w \in Workers, RequestExit(w) PROVE TypeOK' /\ TickInv'
  BY <1>4 DEF RequestExit, GoTo, tableVars, envVars, history
<1>5. ASSUME NEW w \in Workers, Exit(w) PROVE TypeOK' /\ TickInv'
  BY <1>5 DEF Exit, GoTo, tableVars, envVars, history
<1>6. ASSUME NEW w \in Workers, ClaimOne(w) PROVE TypeOK' /\ TickInv'
  BY <1>6, RowsTyped DEF ClaimOne, GoTo, envVars, history
<1>7. ASSUME NEW w \in Workers, CommitClaim(w) PROVE TypeOK' /\ TickInv'
  BY <1>7, NoRowTyped DEF CommitClaim, Commit, GoTo, envVars, history
<1>8. ASSUME NEW w \in Workers, Dispatch(w) \/ HandlerReturns(w) \/ HandlerRaises(w)
      PROVE  TypeOK' /\ TickInv'
  BY <1>8 DEF Dispatch, HandlerReturns, HandlerRaises, GoTo, tableVars, envVars,
     history
<1>9. ASSUME NEW w \in Workers, MarkDone(w) \/ MarkFailed(w)
      PROVE  TypeOK' /\ TickInv'
  BY <1>9, RowsTyped DEF MarkDone, MarkFailed, Write, GoTo, envVars, history
<1>10. ASSUME NEW w \in Workers, CommitMark(w) PROVE TypeOK' /\ TickInv'
  BY <1>10, NoRowTyped DEF CommitMark, Commit, EndTick, GoTo, envVars, history
<1>11. ASSUME NEW w \in Workers, RaiseOnBroken(w) PROVE TypeOK' /\ TickInv'
  BY <1>11 DEF RaiseOnBroken, GoTo, tableVars, envVars, history
<1>12. ASSUME NEW w \in Workers, DieOnBroken(w) PROVE TypeOK' /\ TickInv'
  BY <1>12, NoRowTyped DEF DieOnBroken, Die, EndTick, Discard, GoTo, envVars,
     history
<1>13. ASSUME NEW w \in Workers, LoseConnection(w) PROVE TypeOK' /\ TickInv'
  BY <1>13, NoRowTyped DEF LoseConnection, Fault, Discard, history
<1>14. ASSUME NEW w \in Workers, LoseCommitAnswer(w) PROVE TypeOK' /\ TickInv'
  BY <1>14, NoRowTyped DEF LoseCommitAnswer, Fault, InTx, Commit, history
<1>15. ASSUME NEW w \in Workers, MarkDoneFails(w) PROVE TypeOK' /\ TickInv'
  BY <1>15, NoRowTyped DEF MarkDoneFails, Fault, Discard, GoTo, history
<1>16. ASSUME NEW w \in Workers, Crash(w) PROVE TypeOK' /\ TickInv'
  BY <1>16, NoRowTyped DEF Crash, Fault, Die, EndTick, Discard, GoTo, history
<1>17. CASE UNCHANGED vars
  BY <1>17 DEF vars, tableVars, procVars, envVars, history
<1> QED
  BY <1>1, <1>2, <1>3, <1>4, <1>5, <1>6, <1>7, <1>8, <1>9, <1>10, <1>11, <1>12,
     <1>13, <1>14, <1>15, <1>16, <1>17 DEF Next, WorkerStep, FaultStep

\* What every step after the type lemma may use.
Safe == /\ OneUser
        /\ \A w \in Workers, j \in Jobs : RowInv(w, j)
        /\ \A j \in Jobs : JobInv(j)
        /\ NoFaultInv

\* enqueue inserts a fresh row and touches no worker.
LEMMA EnqueueSafe ==
  ASSUME IInv, TypeOK', TickInv', NEW j \in Jobs, Enqueue(j)
  PROVE  Safe'
<1>1. OneUser'
  BY DEF IInv, OneUser, Uses, Owns, Enqueue, procVars
<1>2. \A v \in Workers, k \in Jobs : RowInv(v, k)'
  BY DEF IInv, RowInv, Uses, Owns, Enqueue, procVars, envVars, history
<1>3. \A k \in Jobs : JobInv(k)'
  BY AttemptsAssumption DEF IInv, JobInv, Enqueue, QueuedRow, NewRow, history
<1>4. NoFaultInv'
  BY DEF IInv, NoFaultInv, Orphaned, Owns, Enqueue, QueuedRow, NewRow, procVars,
     envVars
<1> QED BY <1>1, <1>2, <1>3, <1>4 DEF Safe

\* A starting worker holds nothing.
LEMMA StartSafe ==
  ASSUME IInv, TypeOK', TickInv', NEW w \in Workers, Start(w)
  PROVE  Safe'
<1>1. OneUser'
  BY DEF IInv, OneUser, Uses, Owns, Start, GoTo
<1>2. \A v \in Workers, k \in Jobs : RowInv(v, k)'
  BY DEF IInv, RowInv, Uses, Owns, Start, GoTo, tableVars, envVars, history
<1>3. \A k \in Jobs : JobInv(k)'
  BY DEF IInv, JobInv, Start, tableVars, history
<1>4. NoFaultInv'
  BY DEF IInv, NoFaultInv, Orphaned, Owns, Start, GoTo, tableVars, envVars
<1> QED BY <1>1, <1>2, <1>3, <1>4 DEF Safe

\* The signal handler sets a flag and nothing else.
LEMMA RequestExitSafe ==
  ASSUME IInv, TypeOK', TickInv', NEW w \in Workers, RequestExit(w)
  PROVE  Safe'
<1>1. OneUser'
  BY DEF IInv, OneUser, Uses, Owns, RequestExit
<1>2. \A v \in Workers, k \in Jobs : RowInv(v, k)'
  BY DEF IInv, RowInv, Uses, Owns, RequestExit, tableVars, history
<1>3. \A k \in Jobs : JobInv(k)'
  BY DEF IInv, JobInv, RequestExit, tableVars, history
<1>4. NoFaultInv'
  BY DEF IInv, NoFaultInv, Orphaned, Owns, RequestExit, tableVars
<1> QED BY <1>1, <1>2, <1>3, <1>4 DEF Safe

\* run_forever leaves between two ticks, where it holds no job.
LEMMA ExitSafe ==
  ASSUME IInv, TypeOK', TickInv', NEW w \in Workers, Exit(w)
  PROVE  Safe'
<1>1. OneUser'
  BY DEF IInv, OneUser, Uses, Owns, Exit, GoTo
<1>2. \A v \in Workers, k \in Jobs : RowInv(v, k)'
  BY DEF IInv, RowInv, Uses, Owns, Exit, GoTo, tableVars, envVars, history
<1>3. \A k \in Jobs : JobInv(k)'
  BY DEF IInv, JobInv, Exit, tableVars, history
<1>4. NoFaultInv'
  BY DEF IInv, NoFaultInv, Orphaned, Owns, Exit, GoTo, tableVars, envVars
<1> QED BY <1>1, <1>2, <1>3, <1>4 DEF Safe

\* claim_one takes a row that nobody uses: a used row is running or locked,
\* and SKIP LOCKED passes over it.
LEMMA ClaimOneSafe ==
  ASSUME IInv, TypeOK', TickInv', NEW w \in Workers, ClaimOne(w)
  PROVE  Safe'
<1>1. OneUser'
  <2>1. \A v \in Workers, j \in Jobs : Uses(v, j) => ~Claimable(j)
    BY DEF IInv, RowInv, Uses, Claimable, Locked, InTx
  <2>2. \A v \in Workers, j \in Jobs : v # w => (Uses(v, j)' <=> Uses(v, j))
    BY DEF ClaimOne, GoTo, Uses, Owns
  <2>3. \A j \in Jobs : Uses(w, j)' => Claimable(j)
    BY DEF TypeOK, ClaimOne, Uses, Owns
  <2> QED BY <2>1, <2>2, <2>3 DEF IInv, OneUser
<1>2. \A v \in Workers, k \in Jobs : RowInv(v, k)'
  BY DEF IInv, TypeOK, RowInv, Uses, Owns, ClaimOne, Claimable, GoTo, envVars,
     history
<1>3. \A k \in Jobs : JobInv(k)'
  BY DEF IInv, JobInv, ClaimOne, history
<1>4. NoFaultInv'
  BY DEF IInv, NoFaultInv, Orphaned, Owns, ClaimOne, GoTo, envVars
<1> QED BY <1>1, <1>2, <1>3, <1>4 DEF Safe

\* The committed claim makes its worker the owner of the row.
LEMMA CommitClaimSafe ==
  ASSUME IInv, TypeOK', TickInv', NEW w \in Workers, CommitClaim(w)
  PROVE  Safe'
<1>1. OneUser'
  BY DEF IInv, OneUser, Uses, Owns, CommitClaim, GoTo
<1>2. \A v \in Workers, k \in Jobs : RowInv(v, k)'
  BY DEF IInv, TypeOK, OneUser, RowInv, Uses, Owns, JobInv, CommitClaim, Commit,
     GoTo, ClaimedRow, NewRow, envVars, history
<1>3. \A k \in Jobs : JobInv(k)'
  BY AttemptsAssumption DEF IInv, TypeOK, RowInv, JobInv, Uses, CommitClaim, Commit,
     ClaimedRow, NewRow, history
<1>4. NoFaultInv'
  BY DEF IInv, TypeOK, NoFaultInv, Orphaned, Owns, CommitClaim, Commit, GoTo,
     envVars
<1> QED BY <1>1, <1>2, <1>3, <1>4 DEF Safe

\* The dispatch catches up with the claim that claim_one counted.
LEMMA DispatchSafe ==
  ASSUME IInv, TypeOK', TickInv', NEW w \in Workers, Dispatch(w)
  PROVE  Safe'
<1>1. OneUser'
  BY DEF IInv, OneUser, Uses, Owns, Dispatch, GoTo
<1>2. \A v \in Workers, k \in Jobs : RowInv(v, k)'
  BY DEF IInv, TypeOK, OneUser, RowInv, Uses, Owns, Row, Dispatch, GoTo, tableVars,
     envVars
<1>3. \A k \in Jobs : JobInv(k)'
  BY DEF IInv, TypeOK, RowInv, JobInv, Owns, Row, Dispatch, tableVars
<1>4. NoFaultInv'
  BY DEF IInv, TickInv, Idle, NoFaultInv, Orphaned, Owns, Dispatch, GoTo, tableVars,
     envVars
<1> QED BY <1>1, <1>2, <1>3, <1>4 DEF Safe

\* A handler that returns leaves the table alone; its job now has an effect.
LEMMA HandlerReturnsSafe ==
  ASSUME IInv, TypeOK', TickInv', NEW w \in Workers, HandlerReturns(w)
  PROVE  Safe'
<1>1. OneUser'
  BY DEF IInv, OneUser, Uses, Owns, HandlerReturns, GoTo
<1>2. \A v \in Workers, k \in Jobs : RowInv(v, k)'
  BY DEF IInv, TypeOK, RowInv, Uses, Owns, HandlerReturns, GoTo, tableVars, envVars
<1>3. \A k \in Jobs : JobInv(k)'
  BY DEF IInv, RowInv, JobInv, Owns, HandlerReturns, tableVars
<1>4. NoFaultInv'
  BY DEF IInv, TickInv, Idle, NoFaultInv, Orphaned, Owns, HandlerReturns, GoTo,
     tableVars, envVars
<1> QED BY <1>1, <1>2, <1>3, <1>4 DEF Safe

\* A handler that raises leaves everything but the control point alone.
LEMMA HandlerRaisesSafe ==
  ASSUME IInv, TypeOK', TickInv', NEW w \in Workers, HandlerRaises(w)
  PROVE  Safe'
<1>1. OneUser'
  BY DEF IInv, OneUser, Uses, Owns, HandlerRaises, GoTo
<1>2. \A v \in Workers, k \in Jobs : RowInv(v, k)'
  BY DEF IInv, RowInv, Uses, Owns, HandlerRaises, GoTo, tableVars, envVars, history
<1>3. \A k \in Jobs : JobInv(k)'
  BY DEF IInv, JobInv, HandlerRaises, tableVars, history
<1>4. NoFaultInv'
  BY DEF IInv, TickInv, Idle, NoFaultInv, Orphaned, Owns, HandlerRaises, GoTo,
     tableVars, envVars
<1> QED BY <1>1, <1>2, <1>3, <1>4 DEF Safe

\* mark_done prepares the DoneRow of a job whose handler returned.
LEMMA MarkDoneSafe ==
  ASSUME IInv, TypeOK', TickInv', NEW w \in Workers, MarkDone(w)
  PROVE  Safe'
<1>1. OneUser'
  BY DEF IInv, OneUser, Uses, Owns, MarkDone, GoTo
<1>2. \A v \in Workers, k \in Jobs : RowInv(v, k)'
  BY DEF IInv, TypeOK, RowInv, Uses, Owns, MarkDone, Write, GoTo, envVars, history
<1>3. \A k \in Jobs : JobInv(k)'
  BY DEF IInv, JobInv, MarkDone, Write, history
<1>4. NoFaultInv'
  BY DEF IInv, NoFaultInv, Orphaned, Owns, MarkDone, Write, GoTo, envVars
<1> QED BY <1>1, <1>2, <1>3, <1>4 DEF Safe

\* mark_failed prepares the retry, or the dead_letter, of the job it owns.
LEMMA MarkFailedSafe ==
  ASSUME IInv, TypeOK', TickInv', NEW w \in Workers, MarkFailed(w)
  PROVE  Safe'
<1>1. OneUser'
  BY DEF IInv, OneUser, Uses, Owns, MarkFailed, GoTo
<1>2. \A v \in Workers, k \in Jobs : RowInv(v, k)'
  BY DEF IInv, TypeOK, OneUser, RowInv, Uses, Owns, MarkFailed, Write, GoTo,
     FailedRow, NewRow, envVars
<1>3. \A k \in Jobs : JobInv(k)'
  BY DEF IInv, RowInv, JobInv, Owns, MarkFailed, Write
<1>4. NoFaultInv'
  <2>1. \A v \in Workers, k \in Jobs : Owns(v, k)' <=> Owns(v, k)
    BY DEF MarkFailed, GoTo, Owns
  <2> QED BY <2>1 DEF IInv, NoFaultInv, Orphaned, MarkFailed, Write, envVars
<1> QED BY <1>1, <1>2, <1>3, <1>4 DEF Safe

\* The committed outcome is true of the job, and its worker lets go of it.
LEMMA CommitMarkSafe ==
  ASSUME IInv, TypeOK', TickInv', NEW w \in Workers, CommitMark(w)
  PROVE  Safe'
<1>1. OneUser'
  BY DEF IInv, TypeOK, OneUser, Uses, Owns, CommitMark, EndTick, GoTo
<1>2. \A v \in Workers, k \in Jobs : RowInv(v, k)'
  BY DEF IInv, TypeOK, OneUser, RowInv, Uses, Owns, CommitMark, Commit, EndTick,
     GoTo, envVars, history
<1>3. \A k \in Jobs : JobInv(k)'
  <2>1. PICK j \in Jobs : j = held[w] /\ Owns(w, j)
    BY DEF IInv, TickInv, CommitMark, Owns
  <2>2. /\ jobs[j] \in Row /\ pending[w] \in Row
        /\ runs[j] \in Nat /\ effects[j] \in Nat
        /\ failedAt' = failedAt
    BY <2>1 DEF IInv, TypeOK, CommitMark, history
  <2>3. /\ jobs' = [jobs EXCEPT ![j] = pending[w]]
        /\ runs' = runs /\ effects' = effects
    BY <2>1 DEF CommitMark, Commit, history
  <2>4. JobInv(j)'
    <3>1. jobs'[j] = pending[w]
      BY <2>1, <2>3 DEF TypeOK
    <3>2. /\ runs[j] = jobs[j].attempts
          /\ jobs[j].attempts > 0 /\ jobs[j].attempts <= MaxAttempts
      BY <2>1 DEF IInv, RowInv, JobInv, CommitMark
    <3>3. CASE pc[w] = "marked"
      <4>1. pending[w] = DoneRow(jobs[j]) /\ effects[j] > 0
        BY <2>1, <3>3 DEF IInv, RowInv
      <4> QED BY <2>2, <2>3, <3>1, <3>2, <4>1 DEF JobInv, DoneRow, NewRow
    <3>4. CASE pc[w] = "failed"
      <4>1. /\ pending[w].attempts = jobs[j].attempts
            /\ pending[w].last_error
            /\ pending[w].status =
                 IF jobs[j].attempts >= MaxAttempts THEN "dead_letter" ELSE "queued"
            /\ pending[w].status = "queued" =>
                 pending[w].run_after = BackoffEnd(failedAt[j], jobs[j].attempts)
        BY <2>1, <3>4 DEF IInv, RowInv
      <4> QED
        BY <2>2, <2>3, <3>1, <3>2, <4>1, AttemptsAssumption DEF JobInv
    <3> QED BY <3>3, <3>4 DEF CommitMark
  <2>5. ASSUME NEW k \in Jobs, k # j PROVE JobInv(k)'
    BY <2>2, <2>3, <2>5 DEF IInv, JobInv
  <2> QED BY <2>4, <2>5
<1>4. NoFaultInv'
  BY DEF IInv, TypeOK, NoFaultInv, Orphaned, Owns, RowInv, CommitMark, Commit,
     EndTick, GoTo, DoneRow, NewRow, envVars
<1> QED BY <1>1, <1>2, <1>3, <1>4 DEF Safe

\* A worker on a broken connection has lost its job already.
LEMMA RaiseOnBrokenSafe ==
  ASSUME IInv, TypeOK', TickInv', NEW w \in Workers, RaiseOnBroken(w)
  PROVE  Safe'
<1>1. OneUser'
  BY DEF IInv, OneUser, Uses, Owns, RaiseOnBroken, GoTo
<1>2. \A v \in Workers, k \in Jobs : RowInv(v, k)'
  BY DEF IInv, RowInv, Uses, Owns, RaiseOnBroken, GoTo, tableVars, envVars, history
<1>3. \A k \in Jobs : JobInv(k)'
  BY DEF IInv, JobInv, RaiseOnBroken, tableVars, history
<1>4. NoFaultInv'
  BY DEF IInv, NoFaultInv, RaiseOnBroken, envVars
<1> QED BY <1>1, <1>2, <1>3, <1>4 DEF Safe

\* A worker that dies on a broken connection writes nothing.
LEMMA DieOnBrokenSafe ==
  ASSUME IInv, TypeOK', TickInv', NEW w \in Workers, DieOnBroken(w)
  PROVE  Safe'
<1>1. OneUser'
  BY DEF IInv, OneUser, Uses, Owns, DieOnBroken, Die, EndTick, GoTo
<1>2. \A v \in Workers, k \in Jobs : RowInv(v, k)'
  BY DEF IInv, RowInv, Uses, Owns, DieOnBroken, Die, EndTick, Discard, GoTo,
     envVars, history
<1>3. \A k \in Jobs : JobInv(k)'
  BY DEF IInv, JobInv, DieOnBroken, Die, Discard, history
<1>4. NoFaultInv'
  BY DEF IInv, NoFaultInv, DieOnBroken, envVars
<1> QED BY <1>1, <1>2, <1>3, <1>4 DEF Safe

\* The rollback after a lost connection throws the uncommitted row away.
LEMMA LoseConnectionSafe ==
  ASSUME IInv, TypeOK', TickInv', NEW w \in Workers, LoseConnection(w)
  PROVE  Safe'
<1>1. OneUser'
  BY DEF IInv, OneUser, Uses, Owns, LoseConnection
<1>2. \A v \in Workers, k \in Jobs : RowInv(v, k)'
  BY DEF IInv, TypeOK, RowInv, Uses, Owns, LoseConnection, Discard, history
<1>3. \A k \in Jobs : JobInv(k)'
  BY DEF IInv, JobInv, LoseConnection, Discard, history
<1>4. NoFaultInv'
  BY DEF IInv, TypeOK, NoFaultInv, LoseConnection, Fault
<1> QED BY <1>1, <1>2, <1>3, <1>4 DEF Safe

\* A commit whose answer is lost is a commit, and its worker can do no more.
LEMMA LoseCommitAnswerSafe ==
  ASSUME IInv, TypeOK', TickInv', NEW w \in Workers, LoseCommitAnswer(w)
  PROVE  Safe'
<1>1. OneUser'
  BY DEF IInv, OneUser, Uses, Owns, LoseCommitAnswer
<1>2. \A v \in Workers, k \in Jobs : RowInv(v, k)'
  <2> DEFINE j == held[w]
  <2>1. j \in Jobs /\ Uses(w, j)
    BY DEF TickInv, LoseCommitAnswer, InTx, Uses, Owns
  <2>2. /\ jobs' = [jobs EXCEPT ![j] = pending[w]]
        /\ pending' = [pending EXCEPT ![w] = NoRow]
        /\ conn' = [conn EXCEPT ![w] = "broken"]
        /\ UNCHANGED <<pc, held, runs, effects, now, failedAt>>
    BY DEF LoseCommitAnswer, Commit, history
  <2>3. \A k \in Jobs : ~Uses(w, k)'
    BY <2>1, <2>2 DEF TypeOK, LoseCommitAnswer, InTx, Uses, Owns
  <2>4. ASSUME NEW v \in Workers, v # w, NEW k \in Jobs PROVE RowInv(v, k)'
    <3>1. /\ Uses(v, k)' <=> Uses(v, k)
          /\ Owns(v, k)' <=> Owns(v, k)
          /\ pc'[v] = pc[v] /\ pending'[v] = pending[v]
      BY <2>2, <2>4 DEF Uses, Owns
    <3>2. Uses(v, k) => k # j
      BY <2>1, <2>4 DEF IInv, OneUser
    <3>3. k # j => jobs'[k] = jobs[k]
      BY <2>2
    <3>4. RowInv(v, k)
      BY DEF IInv
    <3> QED BY <2>2, <3>1, <3>2, <3>3, <3>4 DEF RowInv, Uses
  <2> QED BY <2>3, <2>4 DEF RowInv, Uses
<1>3. \A k \in Jobs : JobInv(k)'
  BY AttemptsAssumption DEF IInv, TypeOK, RowInv, JobInv, Uses, Owns, Row,
     LoseCommitAnswer, InTx, Commit, ClaimedRow, DoneRow, NewRow, history
<1>4. NoFaultInv'
  BY DEF IInv, TypeOK, NoFaultInv, LoseCommitAnswer, Fault
<1> QED BY <1>1, <1>2, <1>3, <1>4 DEF Safe

\* When mark_done fails its row is rolled back and the worker keeps the job.
LEMMA MarkDoneFailsSafe ==
  ASSUME IInv, TypeOK', TickInv', NEW w \in Workers, MarkDoneFails(w)
  PROVE  Safe'
<1>1. OneUser'
  BY DEF IInv, OneUser, Uses, Owns, MarkDoneFails, GoTo
<1>2. \A v \in Workers, k \in Jobs : RowInv(v, k)'
  BY DEF IInv, TypeOK, RowInv, Uses, Owns, MarkDoneFails, Discard, GoTo, history
<1>3. \A k \in Jobs : JobInv(k)'
  BY DEF IInv, JobInv, MarkDoneFails, Discard, history
<1>4. NoFaultInv'
  BY DEF IInv, TypeOK, NoFaultInv, MarkDoneFails, Fault
<1> QED BY <1>1, <1>2, <1>3, <1>4 DEF Safe

\* A killed worker commits nothing and owns nothing.
LEMMA CrashSafe ==
  ASSUME IInv, TypeOK', TickInv', NEW w \in Workers, Crash(w)
  PROVE  Safe'
<1>1. OneUser'
  BY DEF IInv, TypeOK, OneUser, Uses, Owns, Crash, Die, EndTick, GoTo
<1>2. \A v \in Workers, k \in Jobs : RowInv(v, k)'
  BY DEF IInv, TypeOK, RowInv, Uses, Owns, Crash, Die, EndTick, Discard, GoTo,
     history
<1>3. \A k \in Jobs : JobInv(k)'
  BY DEF IInv, JobInv, Crash, Die, Discard, history
<1>4. NoFaultInv'
  BY DEF IInv, TypeOK, NoFaultInv, Crash, Fault
<1> QED BY <1>1, <1>2, <1>3, <1>4 DEF Safe

\* The clock only moves on.
LEMMA TickSafe ==
  ASSUME IInv, TypeOK', TickInv', Tick
  PROVE  Safe'
<1> USE DEF IInv, TypeOK, Tick, tableVars, procVars, history
<1>1. OneUser'
  BY DEF OneUser, Uses, Owns
<1>2. \A v \in Workers, k \in Jobs : RowInv(v, k)'
  BY DEF RowInv, Uses, Owns, Row
<1>3. \A k \in Jobs : JobInv(k)'
  BY DEF JobInv
<1>4. NoFaultInv'
  BY DEF NoFaultInv, Orphaned, Owns
<1> QED BY <1>1, <1>2, <1>3, <1>4 DEF Safe

\* Stuttering keeps the invariant.
LEMMA StutterSafe ==
  ASSUME IInv, UNCHANGED vars
  PROVE  Safe'
<1> USE DEF IInv, vars, tableVars, procVars, envVars, history
<1>1. OneUser'
  BY DEF OneUser, Uses, Owns
<1>2. \A v \in Workers, k \in Jobs : RowInv(v, k)'
  BY DEF RowInv, Uses, Owns
<1>3. \A k \in Jobs : JobInv(k)'
  BY DEF JobInv
<1>4. NoFaultInv'
  BY DEF NoFaultInv, Orphaned, Owns
<1> QED BY <1>1, <1>2, <1>3, <1>4 DEF Safe

-----------------------------------------------------------------------------
\* The invariant holds of an empty table and stopped workers.
LEMMA IInvInit == Init => IInv
<1> SUFFICES ASSUME Init PROVE IInv
  OBVIOUS
<1>1. TypeOK /\ TickInv
  BY TypeTickInit
<1>2. OneUser
  BY DEF Init, OneUser, Uses, Owns
<1>3. \A w \in Workers, j \in Jobs : RowInv(w, j)
  BY DEF Init, RowInv, Uses, Owns
<1>4. \A j \in Jobs : JobInv(j)
  <2>1. ASSUME NEW j \in Jobs PROVE JobInv(j)
    <3>1. jobs[j] = NoRow /\ runs[j] = 0
      BY DEF Init
    <3>2. NoRow.attempts = 0 /\ NoRow.status = "absent"
      BY DEF NoRow
    <3> QED BY <3>1, <3>2, AttemptsAssumption DEF JobInv
  <2> QED BY <2>1
<1>5. NoFaultInv
  BY DEF Init, NoFaultInv, Orphaned, NoRow
<1> QED
  BY <1>1, <1>2, <1>3, <1>4, <1>5 DEF IInv

\* Every step keeps the invariant.
LEMMA IInvNext == IInv /\ [Next]_vars => IInv'
<1> SUFFICES ASSUME IInv, [Next]_vars PROVE IInv'
  OBVIOUS
<1>1. TypeOK' /\ TickInv'
  BY TypeTickNext DEF IInv
<1>2. Safe'
  <2>1. CASE Tick
    BY <1>1, <2>1, TickSafe
  <2>2. ASSUME NEW j \in Jobs, Enqueue(j) PROVE Safe'
    BY <1>1, <2>2, EnqueueSafe
  <2>3. ASSUME NEW w \in Workers, Start(w) \/ RequestExit(w) PROVE Safe'
    BY <1>1, <2>3, StartSafe, RequestExitSafe
  <2>4. ASSUME NEW w \in Workers, WorkerStep(w) PROVE Safe'
    BY <1>1, <2>4, ExitSafe, ClaimOneSafe, CommitClaimSafe, DispatchSafe,
       HandlerReturnsSafe, HandlerRaisesSafe, MarkDoneSafe, MarkFailedSafe,
       CommitMarkSafe, RaiseOnBrokenSafe, DieOnBrokenSafe DEF WorkerStep
  <2>5. ASSUME NEW w \in Workers, FaultStep(w) PROVE Safe'
    BY <1>1, <2>5, LoseConnectionSafe, LoseCommitAnswerSafe, MarkDoneFailsSafe,
       CrashSafe DEF FaultStep
  <2>6. CASE UNCHANGED vars
    BY <2>6, StutterSafe
  <2> QED
    BY <2>1, <2>2, <2>3, <2>4, <2>5, <2>6 DEF Next
<1> QED
  BY <1>1, <1>2 DEF IInv, Safe

\* The inductive invariant holds in every reachable state.
THEOREM Invariance == Spec => []IInv
BY IInvInit, IInvNext, PTL DEF Spec

\* Every variable keeps its type.
THEOREM TypeCorrect == Spec => []TypeOK
<1>1. IInv => TypeOK
  BY DEF IInv
<1> QED BY <1>1, Invariance, PTL

\* No two workers ever work on one job or can write its outcome (claim_one).
THEOREM Exclusion == Spec => []OneOwner
<1>1. IInv => OneOwner
  BY DEF IInv, OneUser, OneOwner, Uses
<1> QED BY <1>1, Invariance, PTL

\* Claims, dispatches and the retry limit agree (claim_one, mark_failed).
THEOREM RetryAccounting == Spec => []AttemptLedger
<1>1. IInv => AttemptLedger
  <2>1. ASSUME IInv, NEW j \in Jobs, jobs[j].status = "absent"
        PROVE  runs[j] = jobs[j].attempts /\ runs[j] < MaxAttempts
    <3>1. jobs[j] = NoRow /\ runs[j] = 0
      BY <2>1 DEF IInv, JobInv
    <3>2. NoRow.attempts = 0
      BY DEF NoRow
    <3> QED BY <3>1, <3>2, AttemptsAssumption
  <2> QED
    BY <2>1 DEF IInv, JobInv, AttemptLedger
<1> QED BY <1>1, Invariance, PTL

\* The status and last_error of a row say what happened (mark_done, mark_failed).
THEOREM TruthfulOutcome == Spec => []OutcomeIsTrue
<1>1. IInv => OutcomeIsTrue
  BY DEF IInv, JobInv, OutcomeIsTrue
<1> QED BY <1>1, Invariance, PTL

\* Without crash, lost connection or failing statement no job is stranded.
THEOREM GracefulExit == Spec => []OrphansOnlyByFault
<1>1. IInv => OrphansOnlyByFault
  BY DEF IInv, NoFaultInv, OrphansOnlyByFault
<1> QED BY <1>1, Invariance, PTL

-----------------------------------------------------------------------------
(* What a step can do to the table: commit a new job, or commit the        *)
(* pending row of a worker that uses the job.                              *)

CommitsPending(w, j) ==
  /\ Uses(w, j)
  /\ pc[w] \in {"claimed", "marked", "failed"}
  /\ jobs' = [jobs EXCEPT ![j] = pending[w]]

\* The table changes by an enqueue, or by the commit of a row that its worker
\* claimed or owns, and by nothing else.
LEMMA TableSteps ==
  ASSUME IInv, [Next]_vars
  PROVE  \/ UNCHANGED jobs
         \/ \E j \in Jobs : Enqueue(j)
         \/ \E w \in Workers, j \in Jobs : CommitsPending(w, j)
<1>1. CASE Tick \/ UNCHANGED vars
  BY <1>1 DEF Tick, vars, tableVars
<1>2. ASSUME NEW w \in Workers,
             \/ Start(w) \/ RequestExit(w) \/ Exit(w) \/ ClaimOne(w) \/ Dispatch(w)
             \/ HandlerReturns(w) \/ HandlerRaises(w) \/ MarkDone(w) \/ MarkFailed(w)
             \/ RaiseOnBroken(w) \/ DieOnBroken(w)
             \/ LoseConnection(w) \/ MarkDoneFails(w) \/ Crash(w)
      PROVE  UNCHANGED jobs
  BY <1>2 DEF Start, RequestExit, Exit, ClaimOne, Dispatch, HandlerReturns,
     HandlerRaises, MarkDone, MarkFailed, Write, RaiseOnBroken, DieOnBroken, Die,
     LoseConnection, MarkDoneFails, Crash, Discard, tableVars
<1>3. ASSUME NEW w \in Workers, CommitClaim(w) \/ CommitMark(w) \/ LoseCommitAnswer(w)
      PROVE  \E j \in Jobs : CommitsPending(w, j)
  <2>1. pc[w] \in {"claimed", "marked", "failed"} /\ conn[w] = "open"
    BY <1>3 DEF CommitClaim, CommitMark, LoseCommitAnswer, InTx
  <2>2. held[w] \in Jobs /\ Uses(w, held[w])
    BY <2>1 DEF IInv, TickInv, Idle, Uses, Owns
  <2>3. jobs' = [jobs EXCEPT ![held[w]] = pending[w]]
    BY <1>3 DEF CommitClaim, CommitMark, LoseCommitAnswer, Commit
  <2> QED BY <2>1, <2>2, <2>3 DEF CommitsPending
<1> QED
  BY <1>1, <1>2, <1>3 DEF Next, WorkerStep, FaultStep

\* No step changes a settled row: whoever uses a job finds it queued or running.
LEMMA SettledStep ==
  ASSUME IInv, [Next]_vars, NEW j \in Jobs, jobs[j].status \in Settled
  PROVE  jobs'[j] = jobs[j]
<1>1. CASE \E k \in Jobs : Enqueue(k)
  BY <1>1 DEF Enqueue, IInv, TypeOK, Settled
<1>2. CASE \E w \in Workers, k \in Jobs : CommitsPending(w, k)
  BY <1>2 DEF CommitsPending, IInv, TypeOK, RowInv, Uses, Settled
<1> QED
  BY <1>1, <1>2, TableSteps

\* Once done or dead-lettered, a row is never written again.
THEOREM Finality == Spec => SettledIsFinal
<1>1. IInv /\ [Next]_vars =>
        [\A j \in Jobs : jobs[j].status \in Settled => jobs'[j] = jobs[j]]_vars
  BY SettledStep
<1> QED BY <1>1, Invariance, PTL DEF Spec, SettledIsFinal

\* A failed job turns from queued to running after its backoff only, since
\* claim_one compared run_after with the clock while it held the row lock.
LEMMA BackoffStep ==
  ASSUME IInv, [Next]_vars, NEW j \in Jobs,
         jobs[j].attempts > 0,
         jobs[j].status = "queued", jobs'[j].status = "running"
  PROVE  now >= BackoffEnd(failedAt[j], jobs[j].attempts)
<1>1. ~ \E k \in Jobs : Enqueue(k)
  BY DEF Enqueue, QueuedRow, NewRow, IInv, TypeOK
<1>2. PICK w \in Workers, k \in Jobs : CommitsPending(w, k)
  BY <1>1, TableSteps
<1>3. k = j
  BY <1>2 DEF CommitsPending, IInv, TypeOK
<1>4. pc[w] = "claimed" /\ Uses(w, j)
  BY <1>2, <1>3 DEF CommitsPending, IInv, RowInv, Uses
<1>5. jobs[j].run_after <= now /\ jobs[j].run_after = BackoffEnd(failedAt[j], jobs[j].attempts)
  BY <1>4 DEF IInv, RowInv, JobInv
<1>6. jobs[j].run_after \in Nat /\ now \in Nat
  BY BoundsAssumption DEF IInv, TypeOK, Row
<1> QED
  BY <1>5, <1>6

\* A failed job waits attempts^2 seconds before it runs again.
THEOREM BackoffHolds == Spec => BackoffRespected
<1>1. IInv /\ [Next]_vars =>
        [\A j \in Jobs :
           /\ jobs[j].attempts > 0
           /\ jobs[j].status = "queued" /\ jobs'[j].status = "running"
           => now >= BackoffEnd(failedAt[j], jobs[j].attempts)]_vars
  BY BackoffStep
<1> QED BY <1>1, Invariance, PTL DEF Spec, BackoffRespected
=============================================================================
