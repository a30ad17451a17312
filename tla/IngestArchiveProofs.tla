------------------------- MODULE IngestArchiveProofs -------------------------
(***************************************************************************)
(* Theorems about IngestArchive for any runs, feeds and contents.  The     *)
(* inductive invariant IInv says where a run stands with the stores at     *)
(* each control point (RunInv), that no content has two rows (OneRow), and *)
(* which pages a run has dealt with (Progress).                            *)
(***************************************************************************)
EXTENDS IngestArchive, TLAPS, FiniteSetTheorems, WellFoundedInduction

\* Where run r stands with the three stores.
RunInv(r) ==
  /\ \A e \in pending[r] : e.run = r
  /\ pc[r] = "idle" => status[r] = "absent"
  /\ pc[r] \notin {"idle", "ended"} => status[r] = "running"
  /\ pc[r] = "insert" => Object(Current(r), captured[r]) \in objects
  /\ r \notin DryRuns /\ pc[r] = "upsert" =>
       \E d \in Days : Object(Current(r), d) \in objects

Rows == raw \cup UNION {pending[r] : r \in Runs}

\* One row for a content, the rows of open transactions included.
OneRow == \A e, f \in Rows : e.content = f.content => e = f

\* Page i of run r is archived, as far as r can see, and in the graph.
Dealt(r, i) ==
  /\ db[r] = "ok" => \E e \in raw \cup pending[r] : e.content = Feed[r][i]
  /\ \A n \in 1 .. Records[Feed[r][i]] : <<Feed[r][i], n>> \in graph

\* The pages before the current one, and the part of the current one, that
\* run r has dealt with.
Progress(r) ==
  r \notin DryRuns =>
    /\ pc[r] \in {"idle", "fetch", "find", "put", "insert", "upsert"} =>
         \A i \in 1 .. (page[r] - 1) : Dealt(r, i)
    /\ pc[r] \in {"idle", "fetch", "find", "put", "insert"} => done[r] = 0
    /\ pc[r] = "upsert" =>
         /\ db[r] = "ok" => Existing(r)
         /\ \A n \in 1 .. done[r] : <<Current(r), n>> \in graph
    /\ pc[r] = "finished" => \A i \in 1 .. Len(Feed[r]) : Dealt(r, i)

IInv ==
  /\ TypeOK
  /\ \A r \in Runs : RunInv(r)
  /\ OneRow
  /\ RowsHaveObjects
  /\ GraphTraceable
  /\ \A r \in Runs : Progress(r)
  /\ SucceededIsComplete

\* Everything run r can do and everything that can happen to it.
Step(r) == Enter(r) \/ RunStep(r) \/ LoseConnection(r) \/ Crash(r)

-----------------------------------------------------------------------------
\* The page a run is on is a page of its feed (run_adapter).
LEMMA CurrentTyped ==
  ASSUME TypeOK, NEW r \in Runs
  PROVE  /\ Current(r) \in Contents
         /\ Records[Current(r)] \in Nat
         /\ Len(Feed[r]) \in Nat
         /\ \A i \in 1 .. Len(Feed[r]) : Feed[r][i] \in Contents
<1>1. Feed[r] \in Seq(Contents)
  BY FeedAssumption
<1>2. /\ Len(Feed[r]) \in Nat
      /\ \A i \in 1 .. Len(Feed[r]) : Feed[r][i] \in Contents
  BY <1>1
<1>3. page[r] \in 1 .. Len(Feed[r])
  BY <1>2 DEF TypeOK
<1>4. Current(r) \in Contents
  BY <1>2, <1>3 DEF Current
<1> QED BY <1>2, <1>4, RecordsAssumption

\* Every variable has its type in the initial state.
LEMMA TypeInit == Init => TypeOK
<1>1. \A r \in Runs : 1 <= Len(Feed[r])
  <2> SUFFICES ASSUME NEW r \in Runs PROVE 1 <= Len(Feed[r])
    OBVIOUS
  <2>1. Len(Feed[r]) > 0 /\ Len(Feed[r]) \in Nat
    BY FeedAssumption
  <2> QED BY <2>1
<1> QED BY <1>1, DaysAssumption DEF Init, TypeOK, Labels, Days

\* Every call of a run, every failure and the calendar keep the types.
LEMMA TypeNext == TypeOK /\ [Next]_vars => TypeOK'
<1> SUFFICES ASSUME TypeOK, [Next]_vars PROVE TypeOK'
  OBVIOUS
<1> USE DaysAssumption DEF TypeOK, Labels, GoTo, stores, locals
<1>1. CASE Midnight
  BY <1>1 DEF Midnight, Days
<1>2. ASSUME NEW r \in Runs, Enter(r) \/ Fetch(r) \/ Find(r) PROVE TypeOK'
  <2>1. CASE Enter(r)
    BY <2>1 DEF Enter
  <2>2. CASE Fetch(r)
    BY <2>2 DEF Fetch
  <2>3. CASE Find(r)
    BY <2>3 DEF Find, AfterFind
  <2> QED BY <1>2, <2>1, <2>2, <2>3
<1>3. ASSUME NEW r \in Runs, Put(r) PROVE TypeOK'
  <2>1. Current(r) \in Contents /\ captured[r] \in Days
    BY CurrentTyped
  <2>2. Object(Current(r), captured[r]) \in Contents \X Days
    BY <2>1 DEF Object
  <2>3. puts' \in [Contents -> Nat]
    BY <1>3, <2>1 DEF Put
  <2> QED BY <1>3, <2>2, <2>3 DEF Put
<1>4. ASSUME NEW r \in Runs, InsertRow(r) PROVE TypeOK'
  <2>1. PICK e : e = [content |-> Current(r), run |-> r, day |-> captured[r]]
    OBVIOUS
  <2>2. e \in Entry
    BY <2>1, CurrentTyped DEF Entry
  <2>3. pending' = [pending EXCEPT ![r] = @ \cup {e}]
    BY <1>4, <2>1 DEF InsertRow
  <2>4. pending' \in [Runs -> SUBSET Entry]
    BY <2>2, <2>3
  <2>5. pc' \in [Runs -> Labels]
    BY <1>4 DEF InsertRow, GoTo, Labels
  <2> QED BY <1>4, <2>4, <2>5 DEF InsertRow
<1>5. ASSUME NEW r \in Runs, UniqueViolation(r) \/ DeadlockDetected(r) PROVE TypeOK'
  BY <1>5 DEF UniqueViolation, DeadlockDetected, Abort
<1>6. ASSUME NEW r \in Runs, Upsert(r) PROVE TypeOK'
  BY <1>6, CurrentTyped DEF Upsert
<1>7. ASSUME NEW r \in Runs, NextPage(r) PROVE TypeOK'
  <2>1. CASE NextOf(r) <= Len(Feed[r])
    <3>1. page' = [page EXCEPT ![r] = page[r] + 1] /\ page[r] + 1 <= Len(Feed[r])
      BY <1>7, <2>1 DEF NextPage, NextOf
    <3>2. page' \in [Runs -> Nat \ {0}]
      BY <3>1
    <3>3. \A s \in Runs : page'[s] <= Len(Feed[s])
      BY <3>1
    <3>4. \A s \in Runs : (page[s] <= Len(Feed[s]))'
      BY <3>3
    <3>5. pc' = [pc EXCEPT ![r] = "fetch"] /\ done' = [done EXCEPT ![r] = 0]
      BY <1>7, <2>1 DEF NextPage
    <3>6. pc' \in [Runs -> Labels] /\ done' \in [Runs -> Nat]
      BY <3>5
    <3>7. UNCHANGED <<stores, captured, today, puts, faulted>>
      BY <1>7 DEF NextPage
    <3> QED BY <3>2, <3>4, <3>6, <3>7
  <2>2. CASE ~(NextOf(r) <= Len(Feed[r]))
    <3>1. pc' \in [Runs -> Labels] /\ UNCHANGED <<page, done>>
      BY <1>7, <2>2 DEF NextPage
    <3> QED BY <1>7, <3>1 DEF NextPage
  <2> QED BY <2>1, <2>2
<1>8. ASSUME NEW r \in Runs, Raise(r) \/ RaiseOnDead(r) \/ ExitFails(r) PROVE TypeOK'
  BY <1>8 DEF Raise, RaiseOnDead, ExitFails
<1>9. ASSUME NEW r \in Runs, Exit(r) PROVE TypeOK'
  BY <1>9 DEF Exit, Outcome
<1>10. ASSUME NEW r \in Runs, LoseConnection(r) \/ Crash(r) PROVE TypeOK'
  BY <1>10 DEF LoseConnection, Crash, Abort
<1>11. CASE UNCHANGED vars
  BY <1>11 DEF vars
<1> QED
  BY <1>1, <1>2, <1>3, <1>4, <1>5, <1>6, <1>7, <1>8, <1>9, <1>10, <1>11 DEF Next,
     RunStep

\* Nothing that was committed, put or upserted is ever taken away.
LEMMA Growth ==
  ASSUME [Next]_vars
  PROVE  raw \subseteq raw' /\ objects \subseteq objects' /\ graph \subseteq graph'
BY DEF Next, RunStep, vars, stores, Midnight, Enter, Fetch, Find, Put, InsertRow,
   UniqueViolation, DeadlockDetected, Upsert, NextPage, Raise, RaiseOnDead, Exit,
   ExitFails, LoseConnection, Crash

\* A step of run r leaves the control state, the transaction and the status of
\* every other run alone.
LEMMA Others ==
  ASSUME TypeOK, NEW r \in Runs, Step(r), NEW s \in Runs, s # r
  PROVE  /\ pc'[s] = pc[s] /\ page'[s] = page[s] /\ done'[s] = done[s]
         /\ captured'[s] = captured[s] /\ status'[s] = status[s]
         /\ pending'[s] = pending[s] /\ db'[s] = db[s]
BY DEF Step, RunStep, TypeOK, stores, locals, GoTo, Abort, Enter, Fetch, Find, Put,
   InsertRow, UniqueViolation, DeadlockDetected, Upsert, NextPage, Raise,
   RaiseOnDead, Exit, ExitFails, LoseConnection, Crash

-----------------------------------------------------------------------------
\* The invariant holds before any run starts.
LEMMA IInvInit == Init => IInv
<1> SUFFICES ASSUME Init PROVE IInv
  OBVIOUS
<1>1. TypeOK
  BY TypeInit
<1>2. \A r \in Runs : RunInv(r) /\ Progress(r)
  <2> SUFFICES ASSUME NEW r \in Runs PROVE RunInv(r) /\ Progress(r)
    OBVIOUS
  <2>1. pc[r] = "idle" /\ page[r] = 1 /\ done[r] = 0 /\ status[r] = "absent" /\ pending[r] = {}
    BY DEF Init
  <2>2. \A i \in 1 .. (page[r] - 1) : Dealt(r, i)
    BY <2>1
  <2> QED BY <2>1, <2>2 DEF RunInv, Progress
<1>3. OneRow /\ RowsHaveObjects /\ GraphTraceable
  BY DEF Init, OneRow, Rows, RowsHaveObjects, GraphTraceable
<1>4. SucceededIsComplete
  BY DEF Init, SucceededIsComplete
<1> QED BY <1>1, <1>2, <1>3, <1>4 DEF IInv

\* A step of run r keeps its own standing: what it fetched is put before its
\* row is inserted and before its records are upserted.
LEMMA RunSafe ==
  ASSUME IInv, NEW r \in Runs, Step(r)
  PROVE  RunInv(r)'
<1> USE DEF IInv
<1>1. TypeOK /\ RunInv(r)
  OBVIOUS
<1>2. CASE Enter(r)
  BY <1>1, <1>2 DEF Enter, GoTo, RunInv, TypeOK
<1>3. CASE Fetch(r)
  BY <1>1, <1>3 DEF Fetch, GoTo, RunInv, stores
<1>4. CASE Find(r)
  <2>1. ASSUME Existing(r) PROVE \E d \in Days : Object(Current(r), d) \in objects
    <3>1. PICK e \in raw \cup pending[r] : e.content = Current(r)
      BY <2>1 DEF Existing
    <3>2. e \in Entry
      BY <1>1, <3>1 DEF TypeOK
    <3>3. Object(e.content, e.day) \in objects
      BY <3>1 DEF RowsHaveObjects
    <3> QED BY <3>1, <3>2, <3>3 DEF Entry
  <2> QED BY <1>1, <1>4, <2>1 DEF Find, AfterFind, GoTo, RunInv, stores, Current
<1>5. CASE Put(r)
  BY <1>1, <1>5 DEF Put, GoTo, RunInv, Current
<1>6. CASE InsertRow(r)
  <2>1. PICK e : e = [content |-> Current(r), run |-> r, day |-> captured[r]]
    OBVIOUS
  <2>2. e.run = r /\ pending'[r] = pending[r] \cup {e}
    BY <1>1, <1>6, <2>1 DEF InsertRow, TypeOK
  <2>3. \A f \in pending'[r] : f.run = r
    BY <1>1, <2>2 DEF RunInv
  <2>4. /\ pc[r] = "insert" /\ pc'[r] = "upsert"
        /\ UNCHANGED <<status, objects, page, captured>>
    BY <1>1, <1>6 DEF InsertRow, GoTo, TypeOK
  <2>5. Object(Current(r), captured[r]) \in objects /\ captured[r] \in Days
    BY <1>1, <2>4 DEF RunInv, TypeOK
  <2>6. status[r] = "running" /\ Current(r)' = Current(r)
    BY <1>1, <2>4 DEF RunInv, Current
  <2> QED BY <2>3, <2>4, <2>5, <2>6 DEF RunInv
<1>7. CASE UniqueViolation(r) \/ DeadlockDetected(r)
  BY <1>1, <1>7 DEF UniqueViolation, DeadlockDetected, Abort, GoTo, RunInv, TypeOK, Current, locals
<1>8. CASE LoseConnection(r) \/ Crash(r)
  BY <1>1, <1>8 DEF LoseConnection, Crash, Abort, GoTo, RunInv, TypeOK, Current, locals
<1>9. CASE Upsert(r)
  BY <1>1, <1>9 DEF Upsert, RunInv, Current
<1>10. CASE NextPage(r)
  BY <1>1, <1>10 DEF NextPage, GoTo, RunInv, TypeOK, stores
<1>11. CASE Raise(r) \/ RaiseOnDead(r) \/ ExitFails(r)
  BY <1>1, <1>11 DEF Raise, RaiseOnDead, ExitFails, GoTo, RunInv, TypeOK, stores
<1>12. CASE Exit(r)
  BY <1>1, <1>12 DEF Exit, GoTo, RunInv, TypeOK
<1> QED
  BY <1>2, <1>3, <1>4, <1>5, <1>6, <1>7, <1>8, <1>9, <1>10, <1>11, <1>12 DEF Step, RunStep

\* No step of run r touches the standing of another run.
LEMMA OthersRunSafe ==
  ASSUME IInv, NEW r \in Runs, Step(r), [Next]_vars, NEW s \in Runs, s # r
  PROVE  RunInv(s)'
<1>1. objects \subseteq objects'
  BY Growth
<1> QED BY <1>1, Others DEF IInv, RunInv, Current

\* The rows after a step are rows from before it, but for the one that run r
\* inserts when it finds no row for its content, of any run.
LEMMA NewRow ==
  ASSUME IInv, NEW r \in Runs, Step(r)
  PROVE  \/ Rows' \subseteq Rows
         \/ \E e \in Entry : /\ Rows' \subseteq Rows \cup {e}
                             /\ Object(e.content, e.day) \in objects
                             /\ \A f \in Rows : f.content # e.content
<1> USE DEF IInv
<1>1. CASE InsertRow(r)
  <2> DEFINE e == [content |-> Current(r), run |-> r, day |-> captured[r]]
  <2>1. e \in Entry /\ Object(e.content, e.day) \in objects
    BY <1>1, CurrentTyped DEF Entry, TypeOK, RunInv, InsertRow
  <2>2. Rows' \subseteq Rows \cup {e}
    BY <1>1 DEF InsertRow, Rows
  <2>3. \A f \in Rows : f.content # e.content
    BY <1>1 DEF InsertRow, Rows, Blocked, Waits, Existing
  <2> QED BY <2>1, <2>2, <2>3
<1>2. CASE Exit(r)
  BY <1>2 DEF Exit, Rows
<1>3. CASE raw' = raw /\ pending' = [pending EXCEPT ![r] = {}]
  BY <1>3 DEF Rows
<1>4. CASE UNCHANGED <<raw, pending>>
  BY <1>4 DEF Rows
<1> QED
  BY <1>1, <1>2, <1>3, <1>4 DEF Step, RunStep, stores, Enter, Fetch, Find, Put,
     Upsert, UniqueViolation, DeadlockDetected, LoseConnection, Crash, Abort,
     NextPage, Raise, RaiseOnDead, ExitFails

\* Two runs never hold or commit rows for one content (UNIQUE content_sha256).
LEMMA OneRowSafe ==
  ASSUME IInv, NEW r \in Runs, Step(r)
  PROVE  OneRow'
BY NewRow DEF IInv, OneRow

\* A row is inserted when its object is there, and objects stay.
LEMMA ObjectsSafe ==
  ASSUME IInv, NEW r \in Runs, Step(r), [Next]_vars
  PROVE  RowsHaveObjects'
<1>1. \A e \in Rows : Object(e.content, e.day) \in objects
  BY DEF IInv, RowsHaveObjects, Rows
<1>2. \A e \in Rows' : Object(e.content, e.day) \in objects'
  BY <1>1, NewRow, Growth
<1> QED BY <1>2 DEF RowsHaveObjects, Rows

\* A record is upserted when the object of its page is there.
LEMMA GraphSafe ==
  ASSUME IInv, NEW r \in Runs, Step(r), [Next]_vars
  PROVE  GraphTraceable'
<1>1. objects \subseteq objects'
  BY Growth
<1>2. CASE Upsert(r) /\ r \notin DryRuns
  <2>1. \E d \in Days : Object(Current(r), d) \in objects
    BY <1>2 DEF IInv, RunInv, Upsert
  <2>2. graph' = graph \cup {<<Current(r), done[r] + 1>>}
    BY <1>2 DEF Upsert
  <2> QED BY <1>1, <2>1, <2>2 DEF IInv, GraphTraceable
<1>3. CASE graph' = graph
  BY <1>1, <1>3 DEF IInv, GraphTraceable
<1> QED
  BY <1>2, <1>3 DEF Step, RunStep, stores, Enter, Fetch, Find, Put, InsertRow,
     UniqueViolation, DeadlockDetected, Upsert, NextPage, Raise, RaiseOnDead, Exit,
     ExitFails, LoseConnection, Crash


\* While its connection lives, a run goes on seeing every row it saw.
LEMMA SeenStays ==
  ASSUME IInv, NEW r \in Runs, Step(r), [Next]_vars, NEW s \in Runs
  PROVE  db'[s] = "ok" =>
           db[s] = "ok" /\ raw \cup pending[s] \subseteq raw' \cup pending'[s]
<1>1. TypeOK /\ raw \subseteq raw'
  BY Growth DEF IInv
<1>2. CASE s # r
  BY <1>1, <1>2, Others
<1>3. CASE s = r /\ InsertRow(r)
  BY <1>1, <1>3 DEF InsertRow
<1>4. CASE s = r /\ Exit(r)
  BY <1>1, <1>4 DEF Exit
<1>5. CASE s = r /\ UNCHANGED <<raw, pending, db>>
  BY <1>5
<1>6. CASE s = r /\ Abort(r)
  BY <1>1, <1>6 DEF Abort, TypeOK
<1> QED
  BY <1>2, <1>3, <1>4, <1>5, <1>6 DEF Step, RunStep, stores, Enter, Fetch, Find,
     Put, Upsert, UniqueViolation, DeadlockDetected, LoseConnection, Crash,
     NextPage, Raise, RaiseOnDead, ExitFails

\* A page once dealt with stays so, whatever other runs do.
LEMMA DealtStays ==
  ASSUME IInv, NEW r \in Runs, Step(r), [Next]_vars, NEW s \in Runs, NEW i, Dealt(s, i)
  PROVE  Dealt(s, i)'
BY SeenStays, Growth DEF Dealt

\* No step of run r takes progress from another run.
LEMMA OthersProgressSafe ==
  ASSUME IInv, NEW r \in Runs, Step(r), [Next]_vars, NEW s \in Runs, s # r
  PROVE  Progress(s)'
<1>1. /\ pc'[s] = pc[s] /\ page'[s] = page[s] /\ done'[s] = done[s]
      /\ db'[s] = db[s] /\ pending'[s] = pending[s]
  BY Others DEF IInv
<1>2. raw \subseteq raw' /\ graph \subseteq graph'
  BY Growth
<1>3. Existing(s) => Existing(s)'
  BY <1>1, <1>2 DEF Existing, Current
<1>4. \A i : Dealt(s, i) => Dealt(s, i)'
  BY DealtStays
<1> QED BY <1>1, <1>2, <1>3, <1>4 DEF IInv, Progress, Current

\* A run goes to the next page, or ends, when the page is archived and all its
\* records are upserted (run_adapter).
LEMMA ProgressSafe ==
  ASSUME IInv, NEW r \in Runs, Step(r), [Next]_vars
  PROVE  Progress(r)'
<1>1. TypeOK /\ Progress(r)
  BY DEF IInv
<1>2. \A i : Dealt(r, i) => Dealt(r, i)'
  BY DealtStays
<1> SUFFICES ASSUME r \notin DryRuns PROVE Progress(r)'
  BY DEF Progress
<1>3. CASE Enter(r)
  BY <1>1, <1>2, <1>3 DEF Enter, GoTo, Progress
<1>4. CASE Fetch(r)
  BY <1>1, <1>2, <1>4 DEF Fetch, GoTo, Progress
<1>5. CASE Find(r)
  BY <1>1, <1>2, <1>5 DEF Find, AfterFind, GoTo, Progress, Existing, Current, stores
<1>6. CASE Put(r)
  BY <1>1, <1>2, <1>6 DEF Put, GoTo, Progress
<1>7. CASE InsertRow(r)
  <2> DEFINE e == [content |-> Current(r), run |-> r, day |-> captured[r]]
  <2>1. e \in pending'[r] /\ e.content = Current(r) /\ page' = page
    BY <1>1, <1>7 DEF InsertRow, TypeOK
  <2>2. Existing(r)'
    BY <2>1 DEF Existing, Current
  <2> QED BY <1>1, <1>2, <1>7, <2>2 DEF InsertRow, GoTo, Progress
<1>8. CASE Upsert(r)
  <2>1. Existing(r) => Existing(r)'
    BY <1>8 DEF Upsert, Existing, Current
  <2>2. graph' = graph \cup {<<Current(r), done[r] + 1>>} /\ done'[r] = done[r] + 1 /\ done[r] \in Nat
    BY <1>1, <1>8 DEF Upsert, TypeOK
  <2>3. pc[r] = "upsert" /\ UNCHANGED <<pc, page, db>>
    BY <1>8 DEF Upsert
  <2>4. \A n \in 1 .. done[r] : <<Current(r), n>> \in graph
    BY <1>1, <2>3 DEF Progress
  <2>5. \A n \in 1 .. (done[r] + 1) : <<Current(r), n>> \in graph'
    BY <2>2, <2>4
  <2> QED BY <1>1, <1>2, <2>1, <2>2, <2>3, <2>5 DEF Progress, Current
<1>9. CASE NextPage(r)
  <2>1. pc[r] = "upsert" /\ done[r] = Records[Feed[r][page[r]]]
    BY <1>9 DEF NextPage, Current
  <2>2. Dealt(r, page[r])
    BY <1>1, <2>1 DEF Progress, Dealt, Existing, Current
  <2>3. \A i \in 1 .. (page[r] - 1) : Dealt(r, i)
    BY <1>1, <2>1 DEF Progress
  <2>4. page[r] \in Nat \ {0} /\ page[r] <= Len(Feed[r]) /\ Len(Feed[r]) \in Nat
    BY <1>1 DEF TypeOK
  <2>5. \A i \in 1 .. page[r] : Dealt(r, i)'
    BY <1>2, <2>2, <2>3, <2>4
  <2>6. CASE NextOf(r) <= Len(Feed[r])
    <3>1. pc'[r] = "fetch" /\ page'[r] = page[r] + 1 /\ done'[r] = 0
      BY <1>1, <1>9, <2>6 DEF NextPage, NextOf, GoTo, TypeOK
    <3> QED BY <2>4, <2>5, <3>1 DEF Progress
  <2>7. CASE ~(NextOf(r) <= Len(Feed[r]))
    <3>1. pc'[r] = "finished" /\ page' = page
      BY <1>1, <1>9, <2>7 DEF NextPage, GoTo, TypeOK
    <3>2. page[r] = Len(Feed[r])
      BY <2>4, <2>7 DEF NextOf
    <3> QED BY <2>5, <3>1, <3>2 DEF Progress
  <2> QED BY <2>6, <2>7
<1>10. CASE pc'[r] \in {"failing", "ended"}
  BY <1>10 DEF Progress
<1>11. CASE LoseConnection(r)
  <2>1. db'[r] = "dead" /\ UNCHANGED <<pc, page, done, graph>>
    BY <1>1, <1>11 DEF LoseConnection, Abort, TypeOK, locals
  <2> QED BY <1>1, <1>2, <2>1 DEF Progress, Current
<1>12. UniqueViolation(r) \/ DeadlockDetected(r) \/ Raise(r) \/ RaiseOnDead(r) \/ Exit(r)
         \/ ExitFails(r) \/ Crash(r) => pc'[r] \in {"failing", "ended"}
  BY <1>1 DEF UniqueViolation, DeadlockDetected, Raise, RaiseOnDead, Exit,
     ExitFails, Crash, GoTo, TypeOK
<1> QED
  BY <1>3, <1>4, <1>5, <1>6, <1>7, <1>8, <1>9, <1>10, <1>11, <1>12 DEF Step, RunStep

\* A run reports success from "finished", with its transaction alive: its rows
\* are committed in the same step.
LEMMA CompleteSafe ==
  ASSUME IInv, NEW r \in Runs, Step(r), [Next]_vars
  PROVE  SucceededIsComplete'
<1>1. raw \subseteq raw' /\ graph \subseteq graph' /\ TypeOK
  BY Growth DEF IInv
<1>2. SUFFICES ASSUME NEW s \in Runs \ DryRuns, status'[s] = "succeeded", NEW i \in DOMAIN Feed[s]
               PROVE  /\ \E e \in raw' : e.content = Feed[s][i]
                      /\ \A n \in 1 .. Records[Feed[s][i]] : <<Feed[s][i], n>> \in graph'
  BY DEF SucceededIsComplete
<1>3. CASE status[s] = "succeeded"
  BY <1>1, <1>2, <1>3 DEF IInv, SucceededIsComplete
<1>4. CASE s = r /\ Exit(r)
  <2>1. pc[r] = "finished" /\ db[r] = "ok" /\ raw' = raw \cup pending[r] /\ graph' = graph
    BY <1>1, <1>2, <1>4 DEF Exit, Outcome, Leaving, Failing, TypeOK
  <2>2. i \in 1 .. Len(Feed[r])
    BY <1>2, <1>4, FeedAssumption
  <2>3. Dealt(r, i)
    BY <1>2, <1>4, <2>1, <2>2 DEF IInv, Progress
  <2> QED BY <1>4, <2>1, <2>3 DEF Dealt
<1>5. status'[s] = "succeeded" /\ status[s] # "succeeded" => s = r /\ Exit(r)
  BY <1>1, Others DEF Step, RunStep, TypeOK, stores, Enter, Fetch, Find, Put,
     InsertRow, UniqueViolation, DeadlockDetected, Upsert, NextPage, Raise,
     RaiseOnDead, ExitFails, LoseConnection, Crash
<1> QED BY <1>2, <1>3, <1>4, <1>5

\* Every step of every run, the calendar and stuttering keep the invariant.
LEMMA IInvNext == IInv /\ [Next]_vars => IInv'
<1> SUFFICES ASSUME IInv, [Next]_vars PROVE IInv'
  OBVIOUS
<1>1. TypeOK'
  BY TypeNext DEF IInv
<1>2. ASSUME NEW r \in Runs, Step(r) PROVE IInv'
  <2>1. \A s \in Runs : RunInv(s)'
    BY <1>2, RunSafe, OthersRunSafe
  <2>2. \A s \in Runs : Progress(s)'
    BY <1>2, ProgressSafe, OthersProgressSafe
  <2> QED
    BY <1>1, <1>2, <2>1, <2>2, OneRowSafe, ObjectsSafe, GraphSafe, CompleteSafe DEF
       IInv
<1>3. CASE UNCHANGED <<stores, locals>>
  BY <1>1, <1>3 DEF IInv, stores, locals, RunInv, Progress, Dealt, OneRow, Rows,
     Existing, Current, RowsHaveObjects, GraphTraceable, SucceededIsComplete
<1> QED BY <1>2, <1>3 DEF Next, Step, Midnight, vars

\* IInv holds in every reachable state, and with it the invariants it contains.
THEOREM Invariance == Spec => []IInv
BY IInvInit, IInvNext, PTL DEF Spec


-----------------------------------------------------------------------------
\* Every variable keeps its type.
THEOREM TypeCorrect == Spec => []TypeOK
BY Invariance, PTL DEF IInv

\* No archive row, committed or not, points at an object that is not there.
THEOREM ArchivedBytes == Spec => []RowsHaveObjects
BY Invariance, PTL DEF IInv

\* The page behind every record of the graph is in MinIO, however the runs that
\* read it ended.
THEOREM Provenance == Spec => []GraphTraceable
BY Invariance, PTL DEF IInv

\* A run that calls itself succeeded left no page and no record out.
THEOREM Completeness == Spec => []SucceededIsComplete
BY Invariance, PTL DEF IInv

-----------------------------------------------------------------------------
\* Enter is a Begin of the ledger; the exit of a run is a Close, with the rows
\* of its transaction; every other step is invisible in the tables.
LEMMA StepRefines == IInv /\ [Next]_vars => [Ledger!LNext]_<<raw, status>>
<1> SUFFICES ASSUME IInv, [Next]_vars PROVE [Ledger!LNext]_<<raw, status>>
  OBVIOUS
<1>1. TypeOK
  BY DEF IInv
<1>2. ASSUME NEW r \in Runs, Enter(r) PROVE Ledger!LNext
  <2>1. status[r] = "absent"
    BY <1>2 DEF IInv, RunInv, Enter
  <2> QED BY <1>2, <2>1 DEF Enter, Ledger!LNext, Ledger!Begin
<1>3. ASSUME NEW r \in Runs, Exit(r) PROVE Ledger!LNext
  <2>1. status[r] = "running" /\ status' = [status EXCEPT ![r] = Outcome(r)]
    BY <1>3 DEF IInv, RunInv, Exit, Leaving
  <2>2. Outcome(r) \in {"succeeded", "failed"}
    BY DEF Outcome
  <2>3. raw' = raw \cup pending[r] /\ pending[r] \subseteq Rows /\ raw \subseteq Rows
    BY <1>3 DEF Exit, Rows
  <2>4. raw \subseteq raw' /\ raw' \subseteq Ledger!Entry
    BY <1>1, <2>3 DEF TypeOK, Entry, Ledger!Entry
  <2>5. ASSUME NEW e \in raw' \ raw
        PROVE  /\ e.run = r /\ ~Ledger!Recorded(e.content)
               /\ \A f \in raw' \ raw : f.content = e.content => f = e
    <3>1. e \in pending[r] /\ e.run = r
      BY <2>3, <2>5 DEF IInv, RunInv
    <3>2. \A f \in Rows : f.content = e.content => f = e
      BY <2>3, <3>1 DEF IInv, OneRow
    <3> QED BY <2>3, <2>5, <3>1, <3>2 DEF Ledger!Recorded
  <2> QED BY <2>1, <2>2, <2>4, <2>5 DEF Ledger!LNext, Ledger!Close
<1>4. CASE UNCHANGED <<raw, status>>
  BY <1>4
<1> QED
  BY <1>2, <1>3, <1>4 DEF Next, RunStep, Midnight, vars, stores, Fetch, Find, Put,
     InsertRow, UniqueViolation, DeadlockDetected, Upsert, NextPage, Raise,
     RaiseOnDead, ExitFails, LoseConnection, Crash

\* The tables of the archive implement ArchiveLedger, for any runs and feeds.
THEOREM Refinement == Spec => ImplementsLedger
<1>1. Init => Ledger!LInit
  BY DEF Init, Ledger!LInit
<1> QED
  BY <1>1, StepRefines, Invariance, PTL DEF ImplementsLedger, Ledger!LSpec,
     Ledger!lvars, Spec


-----------------------------------------------------------------------------
(* Waiting. *)

\* Rows that others may wait for belong to a run that is under way, on a
\* connection that works.
Held == \A r \in Runs : pending[r] # {} => pc[r] \notin {"idle", "ended"} /\ db[r] = "ok"

\* Whatever ends a run or its connection takes its rows with it: __exit__ commits
\* them, and an error or a kill rolls them back.
LEMMA HeldNext == TypeOK /\ Held /\ [Next]_vars => Held'
<1> SUFFICES ASSUME TypeOK, Held, [Next]_vars, NEW r \in Runs, (pending[r] # {})'
             PROVE  (pc[r] \notin {"idle", "ended"} /\ db[r] = "ok")'
  BY DEF Held
<1>1. /\ pc \in [Runs -> Labels] /\ db \in [Runs -> {"ok", "dead"}]
      /\ pending \in [Runs -> SUBSET Entry]
      /\ pending[r] # {} => pc[r] \notin {"idle", "ended"} /\ db[r] = "ok"
  BY DEF TypeOK, Held
<1>2. ASSUME NEW s \in Runs, s # r, Step(s) PROVE UNCHANGED <<pending[r], pc[r], db[r]>>
  BY <1>1, <1>2 DEF Step, RunStep, GoTo, stores, locals, Enter, Fetch, Find, Put, InsertRow,
     UniqueViolation, DeadlockDetected, Abort, Upsert, NextPage, Raise, RaiseOnDead, Exit,
     ExitFails, LoseConnection, Crash
<1>3. CASE InsertRow(r)
  BY <1>1, <1>3 DEF InsertRow, GoTo
<1>4. CASE Exit(r) \/ UniqueViolation(r) \/ DeadlockDetected(r) \/ LoseConnection(r) \/ Crash(r)
  BY <1>1, <1>4 DEF Exit, UniqueViolation, DeadlockDetected, LoseConnection, Crash, Abort
<1>5. CASE ExitFails(r)
  BY <1>1, <1>5 DEF ExitFails, stores
<1>6. CASE Enter(r) \/ Fetch(r) \/ Find(r) \/ Put(r)
  BY <1>1, <1>6 DEF Enter, Fetch, Find, AfterFind, Put, GoTo, stores
<1>7. CASE Upsert(r) \/ NextPage(r) \/ Raise(r) \/ RaiseOnDead(r)
  BY <1>1, <1>7 DEF Upsert, NextPage, Raise, RaiseOnDead, GoTo, stores
<1>8. CASE Midnight \/ UNCHANGED vars
  BY <1>1, <1>8 DEF Midnight, vars, stores, locals
<1>9. ASSUME Step(r) PROVE (pc[r] \notin {"idle", "ended"} /\ db[r] = "ok")'
  BY <1>3, <1>4, <1>5, <1>6, <1>7, <1>9 DEF Step, RunStep
<1>10. ASSUME NEW s \in Runs, Step(s) PROVE (pc[r] \notin {"idle", "ended"} /\ db[r] = "ok")'
  BY <1>1, <1>2, <1>9, <1>10
<1> QED BY <1>8, <1>10 DEF Next, Step

Less == {ss \in Nat \X Nat : ss[1] < ss[2]}

\* Among sets of runs there is one of least size.
LEMMA Smallest ==
  ASSUME NEW F \in SUBSET SUBSET Runs, F # {}
  PROVE  \E T \in F : \A U \in F : ~(Cardinality(U) < Cardinality(T))
<1> DEFINE sizes == {Cardinality(T) : T \in F}
<1>1. \A T \in F : Cardinality(T) \in Nat
  BY RunsAssumption, FS_Subset, FS_CardinalityType
<1>2. IsWellFoundedOn(Less, Nat)
  BY NatLessThanWellFounded, Zenon DEF OpToRel, Less
<1>3. sizes \subseteq Nat /\ sizes # {}
  BY <1>1
<1>4. \E n \in sizes : \A k \in sizes : <<k, n>> \notin Less
  <2> HIDE DEF sizes
  <2> QED BY <1>2, <1>3, WFMin
<1>5. PICK T \in F : \A U \in F : <<Cardinality(U), Cardinality(T)>> \notin Less
  BY <1>4
<1>6. ASSUME NEW U \in F PROVE ~(Cardinality(U) < Cardinality(T))
  BY <1>1, <1>5 DEF Less
<1> QED BY <1>6

\* Runs of which each waits for another of them stand in a cycle, some of them
\* at least: in a smallest such set each is also waited for, or it could go.
LEMMA CycleAmong ==
  ASSUME NEW S \in SUBSET Runs, S # {}, \A r \in S : \E u \in S : Waits(r, u)
  PROVE  \E r \in S : Deadlocked(r)
<1> DEFINE Knot(T) == T # {} /\ \A r \in T : \E u \in T : Waits(r, u)
           F == {T \in SUBSET S : Knot(T)}
<1>1. S \in F /\ F \in SUBSET SUBSET Runs
  OBVIOUS
<1>2. PICK T \in F : \A U \in F : ~(Cardinality(U) < Cardinality(T))
  <2> HIDE DEF F
  <2> QED BY <1>1, Smallest
<1>3. T \in SUBSET S /\ Knot(T) /\ IsFiniteSet(T)
  <2>1. T \in SUBSET S /\ Knot(T)
    BY <1>2
  <2> QED BY <2>1, RunsAssumption, FS_Subset
<1>4. ASSUME NEW r \in T, \A u \in T : ~Waits(u, r) PROVE FALSE
  <2> DEFINE U == T \ {r}
  <2>1. PICK v \in T : Waits(r, v)
    BY <1>3
  <2>2. v # r
    BY <2>1 DEF Waits
  <2>3. Knot(U)
    BY <1>3, <1>4, <2>1, <2>2
  <2>4. U \in F
    BY <1>3, <2>3
  <2>5. Cardinality(U) = Cardinality(T) - 1 /\ Cardinality(T) \in Nat
    BY <1>3, FS_RemoveElement, FS_CardinalityType
  <2>6. Cardinality(U) < Cardinality(T)
    <3> HIDE DEF U
    <3> QED BY <2>5
  <2> QED BY <1>2, <2>4, <2>6
<1>5. PICK r \in T : TRUE
  BY <1>3
<1>6. T \in SUBSET Runs /\ \A s \in T : /\ \E u \in T : Waits(s, u)
                                     /\ \E u \in T : Waits(u, s)
  BY <1>3, <1>4
<1>7. Deadlocked(r)
  BY <1>5, <1>6 DEF Deadlocked
<1> QED BY <1>3, <1>5, <1>7

\* However many runs wait for one another's rows and in whatever order they meet
\* their contents, not all stand still: the safety part of EveryRunEnds.
THEOREM NobodyWaitsForEver == Spec => []WaitsCanEnd
<1>1. Init => Held
  BY DEF Init, Held
<1>2. Spec => []Held
  BY <1>1, HeldNext, TypeCorrect, PTL DEF Spec
<1>3. TypeOK /\ Held => WaitsCanEnd
  <2> SUFFICES ASSUME TypeOK, Held, NEW r \in Runs, Blocked(r),
                      \A s \in Runs : pc[s] \notin {"idle", "ended"} => Blocked(s) /\ db[s] # "dead"
               PROVE  \E s \in Runs : pc[s] \notin {"idle", "ended"} /\ Deadlocked(s)
    BY DEF WaitsCanEnd
  <2> DEFINE S == {s \in Runs : Blocked(s)}
  <2>1. ASSUME NEW s \in S PROVE \E u \in S : Waits(s, u)
    <3>1. PICK u \in Runs : Waits(s, u)
      BY DEF Blocked
    <3>2. pending[u] # {}
      BY <3>1 DEF Waits
    <3>3. Blocked(u)
      BY <3>2 DEF Held
    <3> QED BY <3>1, <3>3
  <2>2. S \in SUBSET Runs /\ S # {}
    OBVIOUS
  <2>3. PICK s \in S : Deadlocked(s)
    <3> HIDE DEF S
    <3> QED BY <2>1, <2>2, CycleAmong
  <2>4. pc[s] = "insert"
    BY <2>3 DEF Blocked, Waits
  <2> QED BY <2>3, <2>4
<1> QED BY <1>2, <1>3, TypeCorrect, PTL
=============================================================================
