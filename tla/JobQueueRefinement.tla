------------------------- MODULE JobQueueRefinement -------------------------
(***************************************************************************)
(* JobQueue implements WorkItems: every step of a worker, of a producer,   *)
(* of the clock or of a fault is one abstract step of one item, or none.   *)
(***************************************************************************)
EXTENDS JobQueueProofs

Holders(j) == {w \in Workers : Owns(w, j)}

\* Only worker w changes what it owns, and it takes on no further job.
OnlyLoses(w) ==
  \A v \in Workers, j \in Jobs :
    /\ Owns(v, j)' => Owns(v, j)
    /\ v # w => (Owns(v, j)' <=> Owns(v, j))

\* The owner of a job is its only holder, holds no other job, and finds the row
\* running.
LEMMA HolderFacts ==
  ASSUME IInv, NEW w \in Workers, NEW j \in Jobs, Owns(w, j)
  PROVE  /\ Holders(j) = {w}
         /\ held[w] = j
         /\ \A k \in Jobs : Owns(w, k) => k = j
         /\ jobs[j].status = "running"
BY DEF IInv, OneUser, Uses, RowInv, Owns, Holders

\* The abstract state that stands for each status of the table.
LEMMA ItemStates ==
  /\ ItemState("absent") = "absent" /\ ItemState("queued") = "ready"
  /\ ItemState("running") = "taken" /\ ItemState("done") = "finished"
  /\ ItemState("dead_letter") = "buried"
BY DEF ItemState

\* Writing one row moves one item.
LEMMA RowMoves ==
  ASSUME NEW j \in Jobs, NEW row, NEW from, NEW to,
         \A k \in Jobs : jobs'[k] = IF k = j THEN row ELSE jobs[k],
         from = ItemState(jobs[j].status), to = ItemState(row.status)
  PROVE  Items!Move(j, from, to)
<1>1. [k \in Jobs |-> ItemState(jobs[k].status)]' =
        [[k \in Jobs |-> ItemState(jobs[k].status)] EXCEPT ![j] = to]
  OBVIOUS
<1> QED BY <1>1 DEF Items!Move

\* A step that leaves the table alone and takes no job on drops an item or stutters.
LEMMA DropOrStutter ==
  ASSUME IInv, UNCHANGED jobs, NEW w \in Workers, OnlyLoses(w)
  PROVE  Items!WNext \/ UNCHANGED Items!itemVars
<1>1. CASE \E j \in Jobs : Owns(w, j) /\ ~Owns(w, j)'
  <2>1. PICK j \in Jobs : Owns(w, j) /\ ~Owns(w, j)'
    BY <1>1
  <2>2. Holders(j) = {w} /\ \A k \in Jobs : k # j => ~Owns(w, k)
    BY <2>1, HolderFacts
  <2>3. {v \in Workers : Owns(v, j)}' = {}
    BY <2>1, <2>2 DEF OnlyLoses, Holders
  <2>4. \A k \in Jobs : k # j => {v \in Workers : Owns(v, k)}' = {v \in Workers : Owns(v, k)}
    BY <2>2 DEF OnlyLoses
  <2>5. Items!Drop(j)
    BY <2>2, <2>3, <2>4 DEF Items!Drop, Holders
  <2> QED BY <2>5 DEF Items!WNext, Items!ItemStep
<1>2. CASE ~ \E j \in Jobs : Owns(w, j) /\ ~Owns(w, j)'
  <2>1. \A j \in Jobs : {v \in Workers : Owns(v, j)}' = {v \in Workers : Owns(v, j)}
    BY <1>2 DEF OnlyLoses
  <2> QED BY <2>1 DEF Items!itemVars
<1> QED BY <1>1, <1>2

\* The empty table is the initial state of WorkItems.
LEMMA InitRefines == Init => Items!WInit
<1> SUFFICES ASSUME Init PROVE Items!WInit
  OBVIOUS
<1>1. \A j \in Jobs : jobs[j] = NoRow /\ {w \in Workers : Owns(w, j)} = {}
  BY DEF Init, Owns
<1>2. NoRow.status = "absent" /\ NoRow.attempts = 0
  BY DEF NoRow
<1> QED BY <1>1, <1>2 DEF Items!WInit, ItemState

\* enqueue submits the item.
LEMMA EnqueueRefines ==
  ASSUME IInv, NEW j \in Jobs, Enqueue(j)
  PROVE  Items!Submit(j)
<1>1. PICK t \in {now} \cup StartTimes : jobs' = [jobs EXCEPT ![j] = QueuedRow(t)]
  BY DEF Enqueue
<1>2. QueuedRow(t).status = "queued" /\ QueuedRow(t).attempts = 0
  BY DEF QueuedRow, NewRow
<1>3. jobs[j].status = "absent" /\ jobs[j].attempts = 0
  <2>1. jobs[j] = NoRow
    BY DEF IInv, JobInv, Enqueue
  <2> QED BY <2>1 DEF NoRow
<1>4. \A k \in Jobs : {w \in Workers : Owns(w, k)}' = {w \in Workers : Owns(w, k)}
  BY DEF Enqueue, procVars, Owns
<1>5. \A k \in Jobs : jobs'[k] = IF k = j THEN QueuedRow(t) ELSE jobs[k]
  BY <1>1 DEF IInv, TypeOK
<1>6. Items!Move(j, "absent", "ready")
  BY <1>2, <1>3, <1>5, RowMoves, ItemStates
<1>7. [k \in Jobs |-> jobs[k].attempts]' = [k \in Jobs |-> jobs[k].attempts]
  BY <1>2, <1>3, <1>5
<1> QED
  BY <1>4, <1>6, <1>7 DEF Items!Submit

\* The committed claim is the taking of the item.
LEMMA ClaimRefines ==
  ASSUME IInv, NEW w \in Workers, pc[w] = "claimed",
         CommitClaim(w) \/ LoseCommitAnswer(w)
  PROVE  \E i \in Jobs : Items!Take(i)
<1>1. PICK j \in Jobs : j = held[w]
  BY DEF IInv, TickInv, Idle
<1>2. Uses(w, j) /\ conn[w] = "open"
  BY <1>1 DEF CommitClaim, LoseCommitAnswer, InTx, Uses
<1>3. /\ jobs[j].status = "queued" /\ jobs[j].attempts < MaxAttempts
      /\ pending[w] = ClaimedRow(jobs[j])
  BY <1>2, AttemptsAssumption DEF IInv, RowInv, JobInv
<1>4. \A k \in Jobs : jobs'[k] = IF k = j THEN ClaimedRow(jobs[j]) ELSE jobs[k]
  BY <1>1, <1>3 DEF CommitClaim, LoseCommitAnswer, Commit, IInv, TypeOK
<1>5. /\ ClaimedRow(jobs[j]).status = "running"
      /\ ClaimedRow(jobs[j]).attempts = jobs[j].attempts + 1
  BY DEF ClaimedRow, NewRow
<1>6. Holders(j) = {}
  BY <1>3 DEF IInv, RowInv, Holders
<1>7. \A v \in Workers, k \in Jobs :
        /\ k # j => (Owns(v, k)' <=> Owns(v, k))
        /\ v # w => (Owns(v, k)' <=> Owns(v, k))
  BY <1>1 DEF CommitClaim, LoseCommitAnswer, GoTo, IInv, TypeOK, Owns
<1>8. {v \in Workers : Owns(v, j)}' \in {{}} \cup {{p} : p \in Workers}
  <2>1. CASE Owns(w, j)'
    <3>1. {v \in Workers : Owns(v, j)}' = {w}
      BY <1>6, <1>7, <2>1 DEF Holders
    <3> QED BY <3>1
  <2>2. CASE ~Owns(w, j)'
    <3>1. {v \in Workers : Owns(v, j)}' = {}
      BY <1>6, <1>7, <2>2 DEF Holders
    <3> QED BY <3>1
  <2> QED BY <2>1, <2>2
<1>9. \A k \in Jobs : k # j => {v \in Workers : Owns(v, k)}' = {v \in Workers : Owns(v, k)}
  BY <1>7
<1>10. Items!Move(j, "ready", "taken")
  BY <1>3, <1>4, <1>5, RowMoves, ItemStates
<1>11. [k \in Jobs |-> jobs[k].attempts]' =
         [[k \in Jobs |-> jobs[k].attempts] EXCEPT ![j] = @ + 1]
  BY <1>4, <1>5
<1>12. [k \in Jobs |-> {v \in Workers : Owns(v, k)}]' =
         [[k \in Jobs |-> {v \in Workers : Owns(v, k)}]
            EXCEPT ![j] = {v \in Workers : Owns(v, j)}']
  BY <1>9
<1>13. Items!Take(j)
  BY <1>3, <1>6, <1>8, <1>10, <1>11, <1>12 DEF Items!Take, Holders
<1> QED BY <1>13

\* The committed outcome is the item leaving its holder.
LEMMA MarkRefines ==
  ASSUME IInv, NEW w \in Workers, pc[w] \in {"marked", "failed"},
         CommitMark(w) \/ LoseCommitAnswer(w)
  PROVE  \E i \in Jobs : Items!ItemStep(i)
<1>1. PICK j \in Jobs : j = held[w]
  BY DEF IInv, TickInv, Idle
<1>2. Owns(w, j)
  BY <1>1 DEF CommitMark, LoseCommitAnswer, InTx, Owns
<1>3. Holders(j) = {w} /\ jobs[j].status = "running"
  BY <1>2, HolderFacts
<1>4. \A k \in Jobs : jobs'[k] = IF k = j THEN pending[w] ELSE jobs[k]
  BY <1>1 DEF CommitMark, LoseCommitAnswer, Commit, IInv, TypeOK
<1>5. \A v \in Workers, k \in Jobs : Owns(v, k)' <=> (Owns(v, k) /\ k # j)
  <2>1. \A k \in Jobs : ~Owns(w, k)'
    BY DEF CommitMark, LoseCommitAnswer, EndTick, GoTo, IInv, TypeOK, Owns
  <2>2. \A v \in Workers, k \in Jobs : v # w => (Owns(v, k)' <=> Owns(v, k))
    BY DEF CommitMark, LoseCommitAnswer, EndTick, GoTo, IInv, TypeOK, Owns
  <2>3. \A k \in Jobs : Owns(w, k) => k = j
    BY <1>1 DEF Owns
  <2>4. \A v \in Workers : Owns(v, j) => v = w
    BY <1>3 DEF Holders
  <2> QED BY <2>1, <2>2, <2>3, <2>4
<1>6. [k \in Jobs |-> {v \in Workers : Owns(v, k)}]' =
        [[k \in Jobs |-> {v \in Workers : Owns(v, k)}] EXCEPT ![j] = {}]
  BY <1>5
<1>7. /\ pending[w].attempts = jobs[j].attempts
      /\ \/ pending[w].status = "done"
         \/ pending[w].status = "dead_letter" /\ jobs[j].attempts >= MaxAttempts
         \/ pending[w].status = "queued" /\ ~(jobs[j].attempts >= MaxAttempts)
  <2>1. CASE pc[w] = "marked"
    <3>1. pending[w] = DoneRow(jobs[j])
      BY <1>2, <2>1 DEF IInv, RowInv
    <3> QED BY <3>1 DEF DoneRow, NewRow
  <2>2. CASE pc[w] = "failed"
    BY <1>2, <2>2 DEF IInv, RowInv
  <2> QED BY <2>1, <2>2
<1>8. [k \in Jobs |-> jobs[k].attempts]' = [k \in Jobs |-> jobs[k].attempts]
  BY <1>4, <1>7
<1>9. PICK to : to = ItemState(pending[w].status)
  OBVIOUS
<1>10. Items!Leave(j, to)
  <2>1. Items!Move(j, "taken", to)
    BY <1>3, <1>4, <1>9, RowMoves, ItemStates
  <2> QED BY <1>3, <1>6, <1>8, <2>1 DEF Items!Leave, Holders
<1>11. /\ jobs[j].attempts >= MaxAttempts => jobs[j].attempts = MaxAttempts
       /\ ~(jobs[j].attempts >= MaxAttempts) => jobs[j].attempts < MaxAttempts
  <2>1. jobs[j].attempts \in Nat /\ jobs[j].attempts <= MaxAttempts
    BY DEF IInv, TypeOK, JobInv, Row
  <2> QED BY <2>1, AttemptsAssumption
<1>12. Items!Finish(j) \/ Items!GiveBack(j) \/ Items!Bury(j)
  BY <1>7, <1>9, <1>10, <1>11, ItemStates DEF Items!Finish, Items!GiveBack, Items!Bury
<1>13. Items!ItemStep(j)
  BY <1>12 DEF Items!ItemStep
<1> QED BY <1>13

\* Every step of the queue is a step of WorkItems or leaves all items alone.
LEMMA StepRefines ==
  ASSUME IInv, [Next]_vars
  PROVE  Items!WNext \/ UNCHANGED Items!itemVars
<1> USE DEF IInv, TypeOK
<1>1. CASE Tick \/ UNCHANGED vars
  <2>1. UNCHANGED <<jobs, pc, conn, held>>
    BY <1>1 DEF Tick, vars, tableVars, procVars
  <2>2. \A j \in Jobs : {w \in Workers : Owns(w, j)}' = {w \in Workers : Owns(w, j)}
    BY <2>1 DEF Owns
  <2> QED BY <2>1, <2>2 DEF Items!itemVars
<1>2. ASSUME NEW j \in Jobs, Enqueue(j) PROVE Items!WNext
  BY <1>2, EnqueueRefines DEF Items!WNext, Items!ItemStep
<1>3. ASSUME NEW w \in Workers,
             CommitClaim(w) \/ CommitMark(w) \/ LoseCommitAnswer(w)
      PROVE  Items!WNext
  <2>1. CASE pc[w] = "claimed"
    <3>1. PICK i \in Jobs : Items!Take(i)
      BY <1>3, <2>1, ClaimRefines DEF CommitMark
    <3> QED BY <3>1 DEF Items!WNext, Items!ItemStep
  <2>2. CASE pc[w] \in {"marked", "failed"}
    <3>1. PICK i \in Jobs : Items!ItemStep(i)
      BY <1>3, <2>2, MarkRefines DEF CommitClaim
    <3> QED BY <3>1 DEF Items!WNext
  <2> QED
    BY <1>3, <2>1, <2>2 DEF CommitClaim, CommitMark, LoseCommitAnswer, InTx
<1>4. ASSUME NEW w \in Workers,
             \/ Start(w) \/ RequestExit(w) \/ Exit(w) \/ ClaimOne(w) \/ Dispatch(w)
             \/ HandlerReturns(w) \/ HandlerRaises(w) \/ MarkDone(w) \/ MarkFailed(w)
      PROVE  UNCHANGED jobs /\ OnlyLoses(w)
  BY <1>4 DEF Start, RequestExit, Exit, ClaimOne, Dispatch, HandlerReturns,
     HandlerRaises, MarkDone, MarkFailed, Write, GoTo, tableVars, OnlyLoses, Owns
<1>5. ASSUME NEW w \in Workers,
             \/ RaiseOnBroken(w) \/ DieOnBroken(w)
             \/ LoseConnection(w) \/ MarkDoneFails(w) \/ Crash(w)
      PROVE  UNCHANGED jobs /\ OnlyLoses(w)
  BY <1>5 DEF RaiseOnBroken, DieOnBroken, Die, EndTick, LoseConnection, MarkDoneFails,
     Crash, Discard, GoTo, tableVars, OnlyLoses, Owns
<1> QED
  BY <1>1, <1>2, <1>3, <1>4, <1>5, DropOrStutter DEF Next, WorkerStep, FaultStep

\* The queue, its workers and their faults implement WorkItems.
THEOREM Refinement == Spec => ImplementsWorkItems
<1>1. IInv /\ [Next]_vars => [Items!WNext]_(Items!itemVars)
  BY StepRefines
<1> QED
  BY <1>1, InitRefines, Invariance, PTL DEF Spec, ImplementsWorkItems, Items!WSpec
=============================================================================
