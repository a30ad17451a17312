------------------------- MODULE ClaimPipelineProofs -------------------------
(***************************************************************************)
(* Theorems about ClaimPipeline for any number of requests, statements,    *)
(* declarations, names, rows, spans and faults.                            *)
(*                                                                         *)
(* Requests touch only their own entries of the variables, so the          *)
(* inductive invariant is one predicate, Local, of the entries of one      *)
(* request, and a lemma for each step of a request says what it does to    *)
(* them; the tasks and the process are the rest.                           *)
(***************************************************************************)
EXTENDS VerdictProofs

\* A sequence, of whatever it holds.
IsSeq(s) == s \in Seq({s[i] : i \in DOMAIN s})

Asked == [op : {"verify", "declaration"}, stmt : DOMAIN Statements,
          language : Languages, ingested : Languages \cup {None}]

ClaimsAsked(q) == ClaimsOf(q.stmt, q.language)

\* A request that was not let in asks nothing.
Asks(q, p) == IF p \in {"idle", "not_found"} THEN q = NoRequest ELSE q \in Asked

InLoop == {"resolve", "graph", "lexical", "conclude"}

\* How many claims are done at each control point.
Counts(q, p, B) ==
  /\ IsSeq(B)
  /\ p \in {"idle", "not_found"} => Len(B) = 0
  /\ p \notin {"idle", "not_found"} => Len(B) <= Len(ClaimsAsked(q))
  /\ p \in InLoop => Len(B) < Len(ClaimsAsked(q))
  /\ p \in {"attribute", "answered"} => Len(B) = Len(ClaimsAsked(q))
  /\ p = "attribute" => q.op = "declaration"

\* What a process can say of the names of a claim.
Says(a, c, rs) == IF a = "live" THEN Answered(c, rs) ELSE rs = OfflineResolve(c.slots)

\* The evidence in hand is all a store has on the claim in hand, or nothing;
\* without stores it is nothing.
InHand(q, p, rs, R, S, B, a) ==
  LET c == ClaimsAsked(q)[Len(B) + 1] IN
  /\ R # {} => p \in {"lexical", "conclude", "failed", "lost"} /\ R = RowsFor(c, rs)
  /\ S # {} => p \in {"conclude", "failed", "lost"} /\ S = SpansFor(q.stmt)
  /\ p \in {"graph", "lexical", "conclude"} => Says(a, c, rs)
  /\ p \in Busy => a # "down" /\ (a # "live" => R = {} /\ S = {})

\* A payload is the verdict on its own claim from such evidence; there is none
\* where no resolver was asked.
Judged(q, i, b) ==
  /\ b.claim = ClaimsAsked(q)[i]
  /\ Told(b.claim, b.res)
  /\ b.evidence = {} \/ Answered(b.claim, b.res)
  /\ b.evidence \in Parts(RowsFor(b.claim, b.res), SpansFor(q.stmt))
  /\ b = Bundle(b.claim, b.res, b.evidence)

\* The edges of a declaration that was answered.
Paired(q, p, B, es) ==
  p = "answered" /\ q.op = "declaration" => es = EdgesOf(ClaimsOf(q.stmt, q.ingested), B)

Local(q, p, rs, R, S, B, es, a) ==
  /\ Asks(q, p)
  /\ Counts(q, p, B)
  /\ InHand(q, p, rs, R, S, B, a)
  /\ \A i \in DOMAIN B : Judged(q, i, B[i])
  /\ Paired(q, p, B, es)

LocalOf(r) ==
  Local(req[r], pc[r], res[r], rows[r], spans[r], bundles[r], edges[r], app)

Points == {"idle"} \cup Busy \cup Ends

World ==
  /\ up \subseteq Stores
  /\ app \in {"down", "offline", "live"}
  /\ conn \in {"none", "open", "broken"}
  /\ conn # "none" <=> app = "live"
  /\ faults \in 0 .. MaxFaults

Shapes ==
  /\ pc \in [Requests -> Points]
  /\ DOMAIN req = Requests /\ DOMAIN res = Requests /\ DOMAIN rows = Requests
  /\ DOMAIN spans = Requests /\ DOMAIN bundles = Requests /\ DOMAIN edges = Requests
  /\ DOMAIN cache = Declarations

Cached ==
  \A d \in Declarations : cache[d] # None =>
    cache[d].stmt \in DOMAIN Statements /\ cache[d].language \in Languages

ConflictTask(r, i) == [kind |-> "conflict", request |-> r, claim |-> i]

ConflictsIn(B) == {i \in DOMAIN B : IsConflict(B[i].status, B[i].evidence)}

\* A task is that of a conflict, concluded or cut off.
TaskFits(t) ==
  /\ t.request \in Requests /\ t = ConflictTask(t.request, t.claim)
  /\ t.claim \in ConflictsIn(bundles[t.request]) \/ CutOff(t)

\* The tasks are those of conflicts, and of all that were concluded.
TasksFit ==
  /\ \A t \in tasks : TaskFits(t)
  /\ \A r \in Requests : \A i \in ConflictsIn(bundles[r]) : ConflictTask(r, i) \in tasks

Locals == \A r \in Requests : LocalOf(r)

IInv == World /\ Shapes /\ Cached /\ Locals /\ TasksFit

-----------------------------------------------------------------------------
(* Sequences of payloads. *)

LEMMA EmptyIsSeq == IsSeq(<<>>) /\ Len(<<>>) = 0 /\ DOMAIN <<>> = {}
BY EmptySeq DEF IsSeq

LEMMA SeqDomain ==
  ASSUME NEW B, IsSeq(B)
  PROVE  Len(B) \in Nat /\ DOMAIN B = 1 .. Len(B)
BY LenProperties DEF IsSeq

\* One more payload at the end, and the others as they were.
LEMMA AppendAny ==
  ASSUME NEW B, IsSeq(B), NEW b
  PROVE  /\ IsSeq(Append(B, b))
         /\ Len(Append(B, b)) = Len(B) + 1
         /\ DOMAIN Append(B, b) = 1 .. Len(B) + 1
         /\ Append(B, b)[Len(B) + 1] = b
         /\ \A i \in DOMAIN B : Append(B, b)[i] = B[i]
<1> DEFINE T == {B[i] : i \in DOMAIN B} \cup {b}
           C == Append(B, b)
<1>1. B \in Seq(T) /\ b \in T
  <2>1. B \in Seq({B[i] : i \in DOMAIN B})
    BY DEF IsSeq
  <2>2. B \in [1 .. Len(B) -> {B[i] : i \in DOMAIN B}] /\ Len(B) \in Nat
    BY <2>1, LenProperties
  <2>3. B \in [1 .. Len(B) -> T]
    BY <2>2
  <2> QED BY <2>2, <2>3
<1>2. DOMAIN B = 1 .. Len(B) /\ Len(B) \in Nat
  BY SeqDomain
<1>3. /\ C \in Seq(T) /\ Len(C) = Len(B) + 1 /\ C[Len(B) + 1] = b
      /\ \A i \in 1 .. Len(B) : C[i] = B[i]
  <2> HIDE DEF T
  <2> QED BY <1>1, AppendProperties
<1>4. DOMAIN C = 1 .. Len(C) /\ C \in [1 .. Len(C) -> T] /\ Len(C) \in Nat
  <2> HIDE DEF T, C
  <2> QED BY <1>3, LenProperties
<1>5. C \in Seq({C[i] : i \in DOMAIN C})
  <2>1. C \in [1 .. Len(C) -> {C[i] : i \in DOMAIN C}]
    <3> HIDE DEF C
    <3> QED BY <1>4
  <2> HIDE DEF C
  <2> QED BY <1>4, <2>1
<1> QED BY <1>2, <1>3, <1>4, <1>5 DEF IsSeq

-----------------------------------------------------------------------------
(* What a step does to the entries of its request. *)

\* There are as many claims as the answer of decompose is long.
LEMMA CountOfClaims ==
  ASSUME NEW q \in Asked
  PROVE  Len(ClaimsAsked(q)) \in Nat
BY ClaimsAreClaims DEF Asked, ClaimsAsked

LEMMA LocalAccept ==
  ASSUME NEW q0, NEW rs, NEW R, NEW S, NEW B, NEW es, NEW a, NEW q \in Asked,
         Local(q0, "idle", rs, R, S, B, es, a), a # "down"
  PROVE  Local(q, Turn(q, 0), rs, R, S, B, es, a) /\ Turn(q, 0) \in Points
<1>1. Len(ClaimsAsked(q)) \in Nat
  BY CountOfClaims
<1>2. R = {} /\ S = {}
  BY DEF Local, InHand
<1>3. IsSeq(B) /\ Len(B) = 0
  BY DEF Local, Counts
<1>4. DOMAIN B = {}
  BY <1>3, SeqDomain
<1>5. q.op \in {"verify", "declaration"}
  BY DEF Asked
<1>6. Turn(q, 0) = IF 0 < Len(ClaimsAsked(q)) THEN "resolve"
                   ELSE IF q.op = "verify" THEN "answered" ELSE "attribute"
  BY DEF Turn, ClaimsAsked
<1>7. Asks(q, Turn(q, 0)) /\ Turn(q, 0) \in Points
  BY <1>6 DEF Asks, Points, Busy, Ends
<1>8. Counts(q, Turn(q, 0), B)
  BY <1>1, <1>3, <1>5, <1>6 DEF Counts, InLoop
<1>9. InHand(q, Turn(q, 0), rs, R, S, B, a)
  BY <1>2, <1>6 DEF InHand
<1>10. Paired(q, Turn(q, 0), B, es)
  BY <1>6 DEF Paired
<1> QED BY <1>4, <1>7, <1>8, <1>9, <1>10 DEF Local

\* A request that is refused, or ends with no answer, is left as it is.
LEMMA LocalEnds ==
  ASSUME NEW q, NEW p, NEW rs, NEW R, NEW S, NEW B, NEW es, NEW a, NEW a1,
         Local(q, p, rs, R, S, B, es, a), p \in Busy
  PROVE  Local(q, "lost", rs, R, S, B, es, a1)
<1>1. Asks(q, "lost") /\ q \in Asked
  BY DEF Local, Asks, Busy
<1>2. Counts(q, "lost", B)
  BY DEF Local, Counts, InLoop, Busy
<1>3. InHand(q, "lost", rs, R, S, B, a1)
  BY DEF Local, InHand, Busy
<1> QED BY <1>1, <1>2, <1>3 DEF Local, Paired

LEMMA LocalNotFound ==
  ASSUME NEW q, NEW rs, NEW R, NEW S, NEW B, NEW es, NEW a,
         Local(q, "idle", rs, R, S, B, es, a)
  PROVE  Local(q, "not_found", rs, R, S, B, es, a)
BY DEF Local, Asks, Counts, InHand, Paired, InLoop, Busy

\* The process is another, and the request is not running.
LEMMA LocalRest ==
  ASSUME NEW q, NEW p, NEW rs, NEW R, NEW S, NEW B, NEW es, NEW a, NEW a1,
         Local(q, p, rs, R, S, B, es, a), p \notin Busy
  PROVE  Local(q, p, rs, R, S, B, es, a1)
BY DEF Local, InHand, Busy

LEMMA LocalResolve ==
  ASSUME NEW q, NEW rs, NEW R, NEW S, NEW B, NEW es, NEW a, NEW told,
         Local(q, "resolve", rs, R, S, B, es, a),
         Says(a, ClaimsAsked(q)[Len(B) + 1], told)
  PROVE  Local(q, "graph", told, R, S, B, es, a)
<1>1. Asks(q, "graph") /\ Counts(q, "graph", B)
  BY DEF Local, Asks, Counts, InLoop
<1>2. InHand(q, "graph", told, R, S, B, a)
  BY DEF Local, InHand, Busy
<1> QED BY <1>1, <1>2 DEF Local, Paired

LEMMA LocalGraph ==
  ASSUME NEW q, NEW rs, NEW R, NEW S, NEW B, NEW es, NEW a, NEW found,
         Local(q, "graph", rs, R, S, B, es, a),
         found \in {{}, RowsFor(ClaimsAsked(q)[Len(B) + 1], rs)},
         a # "live" => found = {}
  PROVE  Local(q, "lexical", rs, found, S, B, es, a)
<1>1. Asks(q, "lexical") /\ Counts(q, "lexical", B)
  BY DEF Local, Asks, Counts, InLoop
<1>2. InHand(q, "lexical", rs, found, S, B, a)
  BY DEF Local, InHand, Busy
<1> QED BY <1>1, <1>2 DEF Local, Paired

LEMMA LocalLexical ==
  ASSUME NEW q, NEW rs, NEW R, NEW S, NEW B, NEW es, NEW a, NEW found,
         Local(q, "lexical", rs, R, S, B, es, a),
         found \in {{}, SpansFor(q.stmt)},
         a # "live" => found = {}
  PROVE  Local(q, "conclude", rs, R, found, B, es, a)
<1>1. Asks(q, "conclude") /\ Counts(q, "conclude", B)
  BY DEF Local, Asks, Counts, InLoop
<1>2. InHand(q, "conclude", rs, R, found, B, a)
  BY DEF Local, InHand, Busy
<1> QED BY <1>1, <1>2 DEF Local, Paired

LEMMA LocalFails ==
  ASSUME NEW q, NEW rs, NEW R, NEW S, NEW B, NEW es, NEW a,
         Local(q, "conclude", rs, R, S, B, es, a)
  PROVE  Local(q, "failed", rs, R, S, B, es, a)
<1>1. Asks(q, "failed") /\ Counts(q, "failed", B)
  BY DEF Local, Asks, Counts, InLoop
<1>2. InHand(q, "failed", rs, R, S, B, a)
  BY DEF Local, InHand, Busy
<1> QED BY <1>1, <1>2 DEF Local, Paired

LEMMA LocalAttribute ==
  ASSUME NEW q, NEW rs, NEW R, NEW S, NEW B, NEW es, NEW a,
         Local(q, "attribute", rs, R, S, B, es, a)
  PROVE  Local(q, "answered", rs, R, S, B, EdgesOf(ClaimsOf(q.stmt, q.ingested), B), a)
<1>1. Asks(q, "answered") /\ Counts(q, "answered", B)
  BY DEF Local, Asks, Counts, InLoop
<1>2. InHand(q, "answered", rs, R, S, B, a)
  BY DEF Local, InHand, Busy
<1> QED BY <1>1, <1>2 DEF Local, Paired

\* The payload that the turn of a claim ends with.
Payload(q, rs, R, S, B) == Bundle(ClaimsAsked(q)[Len(B) + 1], rs, R \cup S)

LEMMA LocalConclude ==
  ASSUME NEW q, NEW rs, NEW R, NEW S, NEW B, NEW es, NEW a, NEW rs1,
         Local(q, "conclude", rs, R, S, B, es, a)
  PROVE  /\ Local(q, Turn(q, Len(B) + 1), rs1, {}, {},
                  Append(B, Payload(q, rs, R, S, B)), es, a)
         /\ Turn(q, Len(B) + 1) \in Points
<1> DEFINE c == ClaimsAsked(q)[Len(B) + 1]
           b == Payload(q, rs, R, S, B)
           p == Turn(q, Len(B) + 1)
<1>1. q \in Asked
  BY DEF Local, Asks
<1>2. IsSeq(B) /\ Len(B) < Len(ClaimsAsked(q)) /\ Len(B) \in Nat
  BY SeqDomain DEF Local, Counts, InLoop
<1>3. Len(ClaimsAsked(q)) \in Nat /\ q.op \in {"verify", "declaration"}
  BY <1>1, CountOfClaims DEF Asked
<1>4. p = IF Len(B) + 1 < Len(ClaimsAsked(q)) THEN "resolve"
          ELSE IF q.op = "verify" THEN "answered" ELSE "attribute"
  BY DEF Turn, ClaimsAsked
<1>5. /\ IsSeq(Append(B, b)) /\ Len(Append(B, b)) = Len(B) + 1
      /\ DOMAIN Append(B, b) = 1 .. Len(B) + 1 /\ Append(B, b)[Len(B) + 1] = b
      /\ \A i \in DOMAIN B : Append(B, b)[i] = B[i]
  BY <1>2, AppendAny
<1>6. Asks(q, p) /\ p \in Points
  BY <1>1, <1>4 DEF Asks, Points, Busy, Ends
<1>7. Counts(q, p, Append(B, b))
  <2> HIDE DEF b, p
  <2> QED BY <1>2, <1>3, <1>4, <1>5 DEF Counts, InLoop
<1>8. InHand(q, p, rs1, {}, {}, Append(B, b), a)
  <2>1. a # "down"
    BY DEF Local, InHand, Busy
  <2> QED BY <1>4, <2>1 DEF InHand
<1>9. Judged(q, Len(B) + 1, b)
  <2>1. b.claim = c /\ b.res = rs /\ b.evidence = R \cup S
    BY DEF Payload, Bundle
  <2>2. Says(a, c, rs) /\ (a # "live" => R \cup S = {})
    BY DEF Local, InHand, Busy
  <2>a. Told(c, rs) /\ (R \cup S = {} \/ Answered(c, rs))
    BY <2>2 DEF Says, Told
  <2>3. R \in {RowsFor(c, rs), {}} /\ S \in {SpansFor(q.stmt), {}}
    BY DEF Local, InHand
  <2>4. R \cup S \in Parts(RowsFor(c, rs), SpansFor(q.stmt))
    BY <2>3 DEF Parts
  <2>5. b = Bundle(c, rs, R \cup S)
    BY DEF Payload
  <2> HIDE DEF b
  <2> QED BY <2>1, <2>a, <2>4, <2>5 DEF Judged
<1>10. \A i \in DOMAIN Append(B, b) : Judged(q, i, Append(B, b)[i])
  <2>1. DOMAIN B = 1 .. Len(B)
    BY <1>2, SeqDomain
  <2>2. \A i \in DOMAIN B : Judged(q, i, B[i])
    BY DEF Local
  <2> HIDE DEF b
  <2> QED BY <1>2, <1>5, <1>9, <2>1, <2>2
<1>11. Paired(q, p, Append(B, b), es)
  BY <1>3, <1>4 DEF Paired
<1> HIDE DEF b, p
<1>12. Local(q, p, rs1, {}, {}, Append(B, b), es, a)
  BY <1>6, <1>7, <1>8, <1>10, <1>11 DEF Local
<1> QED BY <1>6, <1>12 DEF b, p

-----------------------------------------------------------------------------
(* The steps. *)

LEMMA InitIInv == Init => IInv
<1> SUFFICES ASSUME Init PROVE IInv
  OBVIOUS
<1>1. World
  BY MaxFaultsAssumption DEF Init, World, Stores
<1>2. Shapes
  BY DEF Init, Shapes, Points
<1>3. Cached
  BY DEF Init, Cached
<1>4. Locals
  <2>1. SUFFICES ASSUME NEW r \in Requests PROVE LocalOf(r)
    BY DEF Locals
  <2>2. /\ req[r] = NoRequest /\ pc[r] = "idle" /\ rows[r] = {} /\ spans[r] = {}
        /\ bundles[r] = <<>>
    BY DEF Init
  <2>3. /\ Asks(req[r], pc[r]) /\ Counts(req[r], pc[r], bundles[r])
        /\ InHand(req[r], pc[r], res[r], rows[r], spans[r], bundles[r], app)
        /\ Paired(req[r], pc[r], bundles[r], edges[r])
    BY <2>2, EmptyIsSeq DEF Asks, Counts, InHand, Paired, InLoop, Busy
  <2>4. DOMAIN bundles[r] = {}
    BY <2>2, EmptyIsSeq
  <2> QED BY <2>3, <2>4 DEF LocalOf, Local
<1>5. TasksFit
  <2>1. ASSUME NEW r \in Requests PROVE ConflictsIn(bundles[r]) = {}
    <3>1. bundles[r] = <<>>
      BY <2>1 DEF Init
    <3> QED BY <3>1, EmptyIsSeq DEF ConflictsIn
  <2>2. tasks = {}
    BY DEF Init
  <2> QED BY <2>1, <2>2 DEF TasksFit
<1> QED BY <1>1, <1>2, <1>3, <1>4, <1>5 DEF IInv

\* Only the entries of r change.
OnlyOf(r) ==
  \A x \in Requests \ {r} :
    /\ req'[x] = req[x] /\ pc'[x] = pc[x] /\ res'[x] = res[x] /\ rows'[x] = rows[x]
    /\ spans'[x] = spans[x] /\ bundles'[x] = bundles[x] /\ edges'[x] = edges[x]

LEMMA Framed ==
  ASSUME Locals, NEW r \in Requests, OnlyOf(r), app' = app, LocalOf(r)'
  PROVE  Locals'
<1>1. SUFFICES ASSUME NEW x \in Requests PROVE LocalOf(x)'
  BY DEF Locals
<1>2. CASE x = r
  BY <1>2
<1>3. CASE x # r
  <2>1. /\ req'[x] = req[x] /\ pc'[x] = pc[x] /\ res'[x] = res[x] /\ rows'[x] = rows[x]
        /\ spans'[x] = spans[x] /\ bundles'[x] = bundles[x] /\ edges'[x] = edges[x]
    BY <1>3 DEF OnlyOf
  <2>2. LocalOf(x)
    BY DEF Locals
  <2> QED BY <2>1, <2>2 DEF LocalOf
<1> QED BY <1>2, <1>3

\* Nobody touches what a request was cut off with.
CutOffRests ==
  \A x \in Requests : pc[x] \in {"failed", "lost"} =>
    /\ req'[x] = req[x] /\ pc'[x] = pc[x] /\ res'[x] = res[x] /\ rows'[x] = rows[x]
    /\ spans'[x] = spans[x] /\ bundles'[x] = bundles[x]

\* A task that was rightly there stays so while payloads are only added.
LEMMA TaskStillFits ==
  ASSUME CutOffRests, faults > 0 => faults' > 0, NEW t, TaskFits(t),
         \A x \in Requests : ConflictsIn(bundles[x]) \subseteq ConflictsIn(bundles'[x])
  PROVE  TaskFits(t)'
<1> DEFINE r == t.request
<1>1. r \in Requests /\ t = ConflictTask(r, t.claim)
  BY DEF TaskFits
<1>2. CASE CutOff(t)
  <2>1. /\ faults > 0 /\ pc[r] \in {"failed", "lost"} /\ t.claim = Len(bundles[r]) + 1
        /\ IsConflict(Outcome(r).status, Outcome(r).evidence)
    BY <1>2 DEF CutOff
  <2>2. /\ req'[r] = req[r] /\ pc'[r] = pc[r] /\ res'[r] = res[r] /\ rows'[r] = rows[r]
        /\ spans'[r] = spans[r] /\ bundles'[r] = bundles[r]
    BY <1>1, <2>1 DEF CutOffRests
  <2>3. Outcome(r)' = Outcome(r)
    BY <2>2 DEF Outcome, Claim, ClaimsFor
  <2>4. CutOff(t)'
    BY <2>1, <2>2, <2>3 DEF CutOff
  <2> QED BY <1>1, <2>4 DEF TaskFits, ConflictTask
<1>3. CASE ~CutOff(t)
  <2>1. t.claim \in ConflictsIn(bundles'[r])
    BY <1>1, <1>3 DEF TaskFits
  <2> QED BY <1>1, <2>1 DEF TaskFits, ConflictTask
<1> QED BY <1>2, <1>3

\* No payload and no task comes or goes.
LEMMA TasksFramed ==
  ASSUME TasksFit, CutOffRests, faults > 0 => faults' > 0, UNCHANGED tasks,
         \A x \in Requests : bundles'[x] = bundles[x]
  PROVE  TasksFit'
<1>1. ASSUME NEW t \in tasks PROVE TaskFits(t)'
  BY <1>1, TaskStillFits DEF TasksFit
<1> QED BY <1>1 DEF TasksFit

\* The step of a request that goes on cuts off no other.
LEMMA OthersRest ==
  ASSUME NEW r \in Requests, OnlyOf(r), pc[r] \notin {"failed", "lost"}
  PROVE  CutOffRests
BY DEF OnlyOf, CutOffRests

LEMMA AcceptKeeps ==
  ASSUME IInv, NEW r \in Requests, NEW q \in Asked, pc[r] = "idle", app # "down",
         Accept(r, q)
  PROVE  IInv'
<1>1. /\ req' = [req EXCEPT ![r] = q] /\ pc' = [pc EXCEPT ![r] = Turn(q, 0)]
      /\ UNCHANGED <<up, app, conn, faults, cache, res, rows, spans, bundles, edges, tasks>>
  BY DEF Accept, world
<1>2. World' /\ Cached'
  BY <1>1 DEF IInv, World, Cached
<1>3. Local(req[r], "idle", res[r], rows[r], spans[r], bundles[r], edges[r], app)
  BY DEF IInv, Locals, LocalOf
<1>4. /\ Local(q, Turn(q, 0), res[r], rows[r], spans[r], bundles[r], edges[r], app)
      /\ Turn(q, 0) \in Points
  BY <1>3, LocalAccept
<1>5. Shapes'
  BY <1>1, <1>4 DEF IInv, Shapes
<1>6. req'[r] = q /\ pc'[r] = Turn(q, 0)
  BY <1>1 DEF IInv, Shapes
<1>7. LocalOf(r)'
  BY <1>1, <1>4, <1>6 DEF LocalOf
<1>8. OnlyOf(r)
  BY <1>1 DEF OnlyOf, IInv, Shapes
<1>9. Locals'
  BY <1>1, <1>7, <1>8, Framed DEF IInv
<1>10. TasksFit'
  BY <1>1, <1>8, OthersRest, TasksFramed DEF IInv
<1> QED BY <1>2, <1>5, <1>9, <1>10 DEF IInv

LEMMA ResolvesKeeps ==
  ASSUME IInv, NEW r \in Requests, NEW told, Says(app, Claim(r), told),
         Resolves(r, told)
  PROVE  IInv'
<1>1. /\ pc[r] = "resolve" /\ pc' = [pc EXCEPT ![r] = "graph"]
      /\ res' = [res EXCEPT ![r] = told]
      /\ UNCHANGED <<up, app, conn, faults, cache, req, rows, spans, bundles, edges, tasks>>
  BY DEF Resolves, Goes, world
<1>2. World' /\ Cached'
  BY <1>1 DEF IInv, World, Cached
<1>3. Local(req[r], "resolve", res[r], rows[r], spans[r], bundles[r], edges[r], app)
  BY <1>1 DEF IInv, Locals, LocalOf
<1>4. Says(app, ClaimsAsked(req[r])[Len(bundles[r]) + 1], told)
  BY DEF Claim, ClaimsFor, ClaimsAsked
<1>5. Local(req[r], "graph", told, rows[r], spans[r], bundles[r], edges[r], app)
  BY <1>3, <1>4, LocalResolve
<1>6. Shapes'
  BY <1>1 DEF IInv, Shapes, Points, Busy
<1>7. pc'[r] = "graph" /\ res'[r] = told
  BY <1>1 DEF IInv, Shapes
<1>8. LocalOf(r)'
  BY <1>1, <1>5, <1>7 DEF LocalOf
<1>9. OnlyOf(r)
  BY <1>1 DEF OnlyOf, IInv, Shapes
<1>10. Locals'
  BY <1>1, <1>8, <1>9, Framed DEF IInv
<1>11. TasksFit'
  BY <1>1, <1>9, OthersRest, TasksFramed DEF IInv
<1> QED BY <1>2, <1>6, <1>10, <1>11 DEF IInv

LEMMA RetrieveGraphKeeps ==
  ASSUME IInv, NEW r \in Requests, RetrieveGraph(r)
  PROVE  IInv'
<1> DEFINE found == IF app = "live" /\ "neo4j" \in up THEN RowsFor(Claim(r), res[r]) ELSE {}
<1>1. /\ pc[r] = "graph" /\ pc' = [pc EXCEPT ![r] = "lexical"]
      /\ rows' = [rows EXCEPT ![r] = found]
      /\ UNCHANGED <<up, app, conn, faults, cache, req, res, spans, bundles, edges, tasks>>
  BY DEF RetrieveGraph, Goes, world
<1>2. World' /\ Cached'
  BY <1>1 DEF IInv, World, Cached
<1>3. Local(req[r], "graph", res[r], rows[r], spans[r], bundles[r], edges[r], app)
  BY <1>1 DEF IInv, Locals, LocalOf
<1>4. /\ found \in {{}, RowsFor(ClaimsAsked(req[r])[Len(bundles[r]) + 1], res[r])}
      /\ app # "live" => found = {}
  BY DEF Claim, ClaimsFor, ClaimsAsked
<1> HIDE DEF found
<1>5. Local(req[r], "lexical", res[r], found, spans[r], bundles[r], edges[r], app)
  BY <1>3, <1>4, LocalGraph
<1>6. Shapes'
  BY <1>1 DEF IInv, Shapes, Points, Busy
<1>7. pc'[r] = "lexical" /\ rows'[r] = found
  BY <1>1 DEF IInv, Shapes
<1>8. LocalOf(r)'
  BY <1>1, <1>5, <1>7 DEF LocalOf
<1>9. OnlyOf(r)
  BY <1>1 DEF OnlyOf, IInv, Shapes
<1>10. Locals'
  BY <1>1, <1>8, <1>9, Framed DEF IInv
<1>11. TasksFit'
  BY <1>1, <1>9, OthersRest, TasksFramed DEF IInv
<1> QED BY <1>2, <1>6, <1>10, <1>11 DEF IInv

LEMMA RetrieveLexicalKeeps ==
  ASSUME IInv, NEW r \in Requests, RetrieveLexical(r)
  PROVE  IInv'
<1> DEFINE found == IF app = "live" /\ "opensearch" \in up THEN SpansFor(req[r].stmt) ELSE {}
<1>1. /\ pc[r] = "lexical" /\ pc' = [pc EXCEPT ![r] = "conclude"]
      /\ spans' = [spans EXCEPT ![r] = found]
      /\ UNCHANGED <<up, app, conn, faults, cache, req, res, rows, bundles, edges, tasks>>
  BY DEF RetrieveLexical, Goes, world
<1>2. World' /\ Cached'
  BY <1>1 DEF IInv, World, Cached
<1>3. Local(req[r], "lexical", res[r], rows[r], spans[r], bundles[r], edges[r], app)
  BY <1>1 DEF IInv, Locals, LocalOf
<1>4. found \in {{}, SpansFor(req[r].stmt)} /\ (app # "live" => found = {})
  OBVIOUS
<1> HIDE DEF found
<1>5. Local(req[r], "conclude", res[r], rows[r], found, bundles[r], edges[r], app)
  BY <1>3, <1>4, LocalLexical
<1>6. Shapes'
  BY <1>1 DEF IInv, Shapes, Points, Busy
<1>7. pc'[r] = "conclude" /\ spans'[r] = found
  BY <1>1 DEF IInv, Shapes
<1>8. LocalOf(r)'
  BY <1>1, <1>5, <1>7 DEF LocalOf
<1>9. OnlyOf(r)
  BY <1>1 DEF OnlyOf, IInv, Shapes
<1>10. Locals'
  BY <1>1, <1>8, <1>9, Framed DEF IInv
<1>11. TasksFit'
  BY <1>1, <1>9, OthersRest, TasksFramed DEF IInv
<1> QED BY <1>2, <1>6, <1>10, <1>11 DEF IInv

\* A request that gives up keeps what it had in hand.
LEMMA GivesUpKeeps ==
  ASSUME IInv, NEW r \in Requests, GivesUp(r)
  PROVE  /\ Shapes' /\ Cached' /\ Locals' /\ CutOffRests
         /\ pc'[r] = "failed" /\ Outcome(r)' = Outcome(r) /\ bundles' = bundles
<1>1. /\ pc[r] = "conclude" /\ pc' = [pc EXCEPT ![r] = "failed"]
      /\ UNCHANGED <<up, app, cache, req, res, rows, spans, bundles, edges>>
  BY DEF GivesUp, Goes
<1>2. Cached'
  BY <1>1 DEF IInv, Cached
<1>3. Local(req[r], "conclude", res[r], rows[r], spans[r], bundles[r], edges[r], app)
  BY <1>1 DEF IInv, Locals, LocalOf
<1>4. Local(req[r], "failed", res[r], rows[r], spans[r], bundles[r], edges[r], app)
  BY <1>3, LocalFails
<1>5. Shapes'
  BY <1>1 DEF IInv, Shapes, Points, Ends
<1>6. pc'[r] = "failed"
  BY <1>1 DEF IInv, Shapes
<1>7. LocalOf(r)'
  BY <1>1, <1>4, <1>6 DEF LocalOf
<1>8. OnlyOf(r)
  BY <1>1 DEF OnlyOf, IInv, Shapes
<1>9. Locals'
  BY <1>1, <1>7, <1>8, Framed DEF IInv
<1>10. CutOffRests
  BY <1>1, <1>8, OthersRest
<1>11. Outcome(r)' = Outcome(r)
  BY <1>1 DEF Outcome, Claim, ClaimsFor
<1> QED BY <1>1, <1>2, <1>5, <1>6, <1>9, <1>10, <1>11

LEMMA ConcludeFailsKeeps ==
  ASSUME IInv, NEW r \in Requests, ConcludeFails(r)
  PROVE  IInv'
<1>1. GivesUp(r) /\ UNCHANGED <<up, app, conn, faults, tasks>>
  BY DEF ConcludeFails, GivesUp
<1>2. /\ Shapes' /\ Cached' /\ Locals' /\ CutOffRests /\ bundles' = bundles
  BY <1>1, GivesUpKeeps
<1>3. World'
  BY <1>1 DEF IInv, World
<1>4. TasksFit'
  BY <1>1, <1>2, TasksFramed DEF IInv
<1> QED BY <1>2, <1>3, <1>4 DEF IInv

LEMMA ConcludeRefusedKeeps ==
  ASSUME IInv, NEW r \in Requests, ConcludeRefused(r)
  PROVE  IInv'
<1>1. /\ GivesUp(r) /\ UNCHANGED <<up, app, conn, tasks>>
      /\ faults < MaxFaults /\ faults' = faults + 1
  BY DEF ConcludeRefused, GivesUp
<1>2. /\ Shapes' /\ Cached' /\ Locals' /\ CutOffRests /\ bundles' = bundles
  BY <1>1, GivesUpKeeps
<1>3. World' /\ faults' > 0
  BY <1>1, MaxFaultsAssumption DEF IInv, World
<1>4. TasksFit'
  BY <1>1, <1>2, <1>3, TasksFramed DEF IInv
<1> QED BY <1>2, <1>3, <1>4 DEF IInv

\* The task whose INSERT was committed, of a request that was cut off over it.
LEMMA FiledCutOff ==
  ASSUME NEW r \in Requests, conn = "open", AsksForTask(r), Outcome(r)' = Outcome(r),
         pc'[r] \in {"failed", "lost"}, bundles'[r] = bundles[r], faults' > 0,
         NEW t \in ConflictFiled(r)
  PROVE  TaskFits(t)'
<1>1. t = ConflictTask(r, Len(bundles[r]) + 1)
  BY DEF ConflictFiled, Filed, TableKinds, ConflictTask
<1>2. t.request = r /\ t.claim = Len(bundles[r]) + 1
  BY <1>1 DEF ConflictTask
<1>3. IsConflict(Outcome(r).status, Outcome(r).evidence)'
  BY DEF AsksForTask
<1>4. CutOff(t)'
  BY <1>2, <1>3 DEF CutOff
<1> QED BY <1>1, <1>2, <1>4 DEF TaskFits

LEMMA ConcludeUnansweredKeeps ==
  ASSUME IInv, NEW r \in Requests, ConcludeUnanswered(r)
  PROVE  IInv'
<1>1. /\ GivesUp(r) /\ AsksForTask(r) /\ conn = "open" /\ conn' = "broken"
      /\ faults < MaxFaults /\ faults' = faults + 1
      /\ tasks' = tasks \cup ConflictFiled(r) /\ UNCHANGED <<up, app>>
  BY DEF ConcludeUnanswered, GivesUp
<1>2. /\ Shapes' /\ Cached' /\ Locals' /\ CutOffRests /\ bundles' = bundles
      /\ pc'[r] = "failed" /\ Outcome(r)' = Outcome(r)
  BY <1>1, GivesUpKeeps
<1>3. World' /\ faults' > 0
  BY <1>1, MaxFaultsAssumption DEF IInv, World
<1>4. ASSUME NEW t \in tasks PROVE TaskFits(t)'
  BY <1>2, <1>3, <1>4, TaskStillFits DEF IInv, TasksFit
<1>5. ASSUME NEW t \in ConflictFiled(r) PROVE TaskFits(t)'
  BY <1>1, <1>2, <1>3, <1>5, FiledCutOff
<1>6. TasksFit'
  BY <1>1, <1>2, <1>4, <1>5 DEF IInv, TasksFit
<1> QED BY <1>2, <1>3, <1>6 DEF IInv

\* A request without a connection has no evidence in hand, so no conflict.
LEMMA NoConflictUnconnected ==
  ASSUME IInv, NEW r \in Requests, pc[r] = "conclude", conn = "none"
  PROVE  rows[r] \cup spans[r] = {}
<1>1. app # "live"
  BY DEF IInv, World
<1>2. Local(req[r], "conclude", res[r], rows[r], spans[r], bundles[r], edges[r], app)
  BY DEF IInv, Locals, LocalOf
<1> QED BY <1>1, <1>2 DEF Local, InHand, Busy

\* The payload that a turn adds has its task filed, if it is a conflict, in
\* the same step.
LEMMA ConcludeFiles ==
  ASSUME IInv, NEW r \in Requests, Conclude(r)
  PROVE  tasks' = tasks \cup
           (IF IsConflict(Outcome(r).status, Outcome(r).evidence)
            THEN {ConflictTask(r, Len(bundles[r]) + 1)} ELSE {})
<1> DEFINE conflict == IsConflict(Outcome(r).status, Outcome(r).evidence)
<1>1. CASE ~conflict
  BY <1>1 DEF Conclude, AsksForTask
<1>2. CASE conflict
  <2>1. Outcome(r).evidence = rows[r] \cup spans[r]
    BY DEF Outcome, Bundle
  <2>2. conn # "none"
    <3>1. Outcome(r).evidence # {}
      BY <1>2 DEF IsConflict
    <3> QED BY <2>1, <3>1, NoConflictUnconnected DEF Conclude, Goes
  <2>3. AsksForTask(r)
    BY <1>2, <2>2 DEF AsksForTask
  <2>4. conn = "open" /\ tasks' = tasks \cup ConflictFiled(r)
    BY <2>3 DEF Conclude
  <2>5. ConflictFiled(r) = {ConflictTask(r, Len(bundles[r]) + 1)}
    BY <2>4 DEF ConflictFiled, Filed, TableKinds, ConflictTask
  <2> HIDE DEF conflict
  <2> QED BY <1>2, <2>4, <2>5 DEF conflict
<1> QED BY <1>1, <1>2

LEMMA ConcludeKeeps ==
  ASSUME IInv, NEW r \in Requests, Conclude(r)
  PROVE  IInv'
<1> DEFINE p == Turn(req[r], Len(bundles[r]) + 1)
           b == Outcome(r)
           B == Append(bundles[r], b)
<1>1. /\ pc[r] = "conclude" /\ pc' = [pc EXCEPT ![r] = p]
      /\ bundles' = [bundles EXCEPT ![r] = B]
      /\ res' = [res EXCEPT ![r] = NoResult] /\ rows' = [rows EXCEPT ![r] = {}]
      /\ spans' = [spans EXCEPT ![r] = {}]
      /\ UNCHANGED <<up, app, conn, faults, cache, req, edges>>
  BY DEF Conclude, Goes, EndOfTurn, world
<1>2. World' /\ Cached'
  BY <1>1 DEF IInv, World, Cached
<1>3. Local(req[r], "conclude", res[r], rows[r], spans[r], bundles[r], edges[r], app)
  BY <1>1 DEF IInv, Locals, LocalOf
<1>4. b = Payload(req[r], res[r], rows[r], spans[r], bundles[r])
  BY DEF Outcome, Payload, Claim, ClaimsFor, ClaimsAsked
<1>5. Local(req[r], p, NoResult, {}, {}, B, edges[r], app) /\ p \in Points
  BY <1>3, <1>4, LocalConclude
<1>6. IsSeq(bundles[r])
  BY <1>3 DEF Local, Counts
<1>7. /\ DOMAIN B = 1 .. Len(bundles[r]) + 1 /\ B[Len(bundles[r]) + 1] = b
      /\ \A i \in DOMAIN bundles[r] : B[i] = bundles[r][i]
      /\ DOMAIN bundles[r] = 1 .. Len(bundles[r]) /\ Len(bundles[r]) \in Nat
  BY <1>6, AppendAny, SeqDomain
<1>8. tasks' = tasks \cup (IF IsConflict(b.status, b.evidence)
                           THEN {ConflictTask(r, Len(bundles[r]) + 1)} ELSE {})
  BY ConcludeFiles
<1> HIDE DEF p, b, B
<1>9. Shapes'
  BY <1>1, <1>5 DEF IInv, Shapes
<1>10. /\ pc'[r] = p /\ res'[r] = NoResult /\ rows'[r] = {} /\ spans'[r] = {}
       /\ bundles'[r] = B
  BY <1>1 DEF IInv, Shapes
<1>11. LocalOf(r)'
  BY <1>1, <1>5, <1>10 DEF LocalOf
<1>12. OnlyOf(r)
  BY <1>1 DEF OnlyOf, IInv, Shapes
<1>13. Locals'
  BY <1>1, <1>11, <1>12, Framed DEF IInv
<1>14. ConflictsIn(B) = ConflictsIn(bundles[r]) \cup
         (IF IsConflict(b.status, b.evidence) THEN {Len(bundles[r]) + 1} ELSE {})
  BY <1>7 DEF ConflictsIn
<1>15. \A x \in Requests \ {r} : bundles'[x] = bundles[x]
  BY <1>12 DEF OnlyOf
<1>16. TasksFit'
  <2>1. ASSUME NEW t \in tasks' PROVE TaskFits(t)'
    <3>1. CASE t \in tasks
      <4>1. CutOffRests
        BY <1>1, <1>12, OthersRest
      <4>2. \A x \in Requests : ConflictsIn(bundles[x]) \subseteq ConflictsIn(bundles'[x])
        BY <1>10, <1>14, <1>15
      <4> QED BY <1>1, <3>1, <4>1, <4>2, TaskStillFits DEF IInv, TasksFit
    <3>2. CASE t \notin tasks
      <4>1. IsConflict(b.status, b.evidence) /\ t = ConflictTask(r, Len(bundles[r]) + 1)
        BY <1>8, <2>1, <3>2
      <4>2. Len(bundles[r]) + 1 \in ConflictsIn(bundles'[r])
        BY <1>10, <1>14, <4>1
      <4> QED BY <4>1, <4>2 DEF TaskFits, ConflictTask
    <3> QED BY <3>1, <3>2
  <2>2. ASSUME NEW x \in Requests, NEW i \in ConflictsIn(bundles'[x])
        PROVE  ConflictTask(x, i) \in tasks'
    <3>1. CASE i \in ConflictsIn(bundles[x])
      BY <1>8, <3>1 DEF IInv, TasksFit
    <3>2. CASE i \notin ConflictsIn(bundles[x])
      <4>1. x = r /\ IsConflict(b.status, b.evidence) /\ i = Len(bundles[r]) + 1
        BY <1>10, <1>14, <1>15, <2>2, <3>2
      <4> QED BY <1>8, <4>1
    <3> QED BY <3>1, <3>2
  <2> QED BY <2>1, <2>2 DEF TasksFit
<1> QED BY <1>2, <1>9, <1>13, <1>16 DEF IInv

\* The table takes no task of a declaration, so its step files none.
LEMMA AttributeKeeps ==
  ASSUME IInv, NEW r \in Requests, Attribute(r)
  PROVE  IInv'
<1>1. Filed("declaration", r, 0) = {}
  BY DEF Filed, TableKinds
<1>2. /\ pc[r] = "attribute" /\ pc' = [pc EXCEPT ![r] = "answered"]
      /\ edges' = [edges EXCEPT ![r] = EdgesNow(r)] /\ tasks' = tasks
      /\ UNCHANGED <<up, app, conn, faults, cache, req, res, rows, spans, bundles>>
  BY <1>1 DEF Attribute, Goes, world
<1>3. World' /\ Cached'
  BY <1>2 DEF IInv, World, Cached
<1>4. Local(req[r], "attribute", res[r], rows[r], spans[r], bundles[r], edges[r], app)
  BY <1>2 DEF IInv, Locals, LocalOf
<1>5. Local(req[r], "answered", res[r], rows[r], spans[r], bundles[r], EdgesNow(r), app)
  BY <1>4, LocalAttribute DEF EdgesNow
<1>6. Shapes'
  BY <1>2 DEF IInv, Shapes, Points, Ends
<1>7. pc'[r] = "answered" /\ edges'[r] = EdgesNow(r)
  BY <1>2 DEF IInv, Shapes
<1>8. LocalOf(r)'
  BY <1>2, <1>5, <1>7 DEF LocalOf
<1>9. OnlyOf(r)
  BY <1>2 DEF OnlyOf, IInv, Shapes
<1>10. Locals'
  BY <1>2, <1>8, <1>9, Framed DEF IInv
<1>11. TasksFit'
  BY <1>2, <1>9, OthersRest, TasksFramed DEF IInv
<1> QED BY <1>3, <1>6, <1>10, <1>11 DEF IInv

LEMMA ArrivalKeeps == ASSUME IInv, Arrival PROVE IInv'
<1>1. PICK s \in DOMAIN Statements, language \in Languages :
        \/ \E r \in Requests : VerifyClaim(r, s, language)
        \/ \E d \in Declarations : IngestDeclaration(d, s, language)
  BY DEF Arrival
<1>2. ASSUME NEW r \in Requests, VerifyClaim(r, s, language) PROVE IInv'
  <2>1. [op |-> "verify", stmt |-> s, language |-> language, ingested |-> None] \in Asked
    BY DEF Asked
  <2> QED BY <1>2, <2>1, AcceptKeeps DEF VerifyClaim
<1>3. ASSUME NEW d \in Declarations, IngestDeclaration(d, s, language) PROVE IInv'
  <2>1. /\ cache' = [cache EXCEPT ![d] = Declaration(s, language)]
        /\ UNCHANGED <<up, app, conn, faults, pc, req, res, rows, spans, bundles, edges, tasks>>
    BY <1>3 DEF IngestDeclaration, world
  <2>2. /\ Declaration(s, language).stmt = s
        /\ Declaration(s, language).language = language
    BY DEF Declaration
  <2>3. World' /\ Shapes'
    BY <2>1 DEF IInv, World, Shapes
  <2>4. Cached'
    BY <2>1, <2>2 DEF IInv, Cached, Shapes
  <2>5. Locals'
    BY <2>1 DEF IInv, Locals, LocalOf
  <2>6. TasksFit'
    BY <2>1, TasksFramed DEF IInv, CutOffRests
  <2> QED BY <2>3, <2>4, <2>5, <2>6 DEF IInv
<1> QED BY <1>1, <1>2, <1>3

LEMMA DeclarationArrivalKeeps == ASSUME IInv, DeclarationArrival PROVE IInv'
<1>1. PICK r \in Requests, d \in Declarations :
        \/ \E language \in Languages : VerifyDeclaration(r, d, language)
        \/ DeclarationNotFound(r, d)
  BY DEF DeclarationArrival
<1>2. ASSUME NEW language \in Languages, VerifyDeclaration(r, d, language) PROVE IInv'
  <2>1. cache[d].stmt \in DOMAIN Statements /\ cache[d].language \in Languages
    BY <1>2 DEF VerifyDeclaration, IInv, Cached
  <2>2. [op |-> "declaration", stmt |-> cache[d].stmt, language |-> language,
         ingested |-> cache[d].language] \in Asked
    BY <2>1 DEF Asked
  <2> QED BY <1>2, <2>2, AcceptKeeps DEF VerifyDeclaration
<1>3. ASSUME DeclarationNotFound(r, d) PROVE IInv'
  <2>1. /\ pc[r] = "idle" /\ pc' = [pc EXCEPT ![r] = "not_found"]
        /\ UNCHANGED <<up, app, conn, faults, cache, req, res, rows, spans, bundles, edges,
                       tasks>>
    BY <1>3 DEF DeclarationNotFound, world
  <2>2. World' /\ Cached'
    BY <2>1 DEF IInv, World, Cached
  <2>3. Shapes'
    BY <2>1 DEF IInv, Shapes, Points, Ends
  <2>4. Local(req[r], "idle", res[r], rows[r], spans[r], bundles[r], edges[r], app)
    BY <2>1 DEF IInv, Locals, LocalOf
  <2>5. Local(req[r], "not_found", res[r], rows[r], spans[r], bundles[r], edges[r], app)
    BY <2>4, LocalNotFound
  <2>6. pc'[r] = "not_found"
    BY <2>1 DEF IInv, Shapes
  <2>7. LocalOf(r)'
    BY <2>1, <2>5, <2>6 DEF LocalOf
  <2>8. OnlyOf(r)
    BY <2>1 DEF OnlyOf, IInv, Shapes
  <2>9. Locals'
    BY <2>1, <2>7, <2>8, Framed DEF IInv
  <2>10. TasksFit'
    BY <2>1, <2>8, OthersRest, TasksFramed DEF IInv
  <2> QED BY <2>2, <2>3, <2>9, <2>10 DEF IInv
<1> QED BY <1>1, <1>2, <1>3

LEMMA RequestKeeps ==
  ASSUME IInv, NEW r \in Requests, RequestStep(r)
  PROVE  IInv'
<1>1. CASE ResolverAnswers(r)
  <2>1. PICK scan \in Scans : Resolves(r, LiveResolve(Claim(r).slots, scan))
    BY <1>1 DEF ResolverAnswers
  <2>2. ~ResolverRaises(Claim(r).slots, TRUE, TRUE) /\ app = "live"
    BY <1>1 DEF ResolverAnswers, Raises, ResolverRaises
  <2>3. Says(app, Claim(r), LiveResolve(Claim(r).slots, scan))
    BY <2>2 DEF Says, Answered
  <2> QED BY <2>1, <2>3, ResolvesKeeps
<1>2. CASE ResolverFails(r)
  <2>1. Says(app, Claim(r), Unresolved(Claim(r).slots))
    BY <1>2 DEF ResolverFails, Says, Answered
  <2> QED BY <1>2, <2>1, ResolvesKeeps DEF ResolverFails
<1>3. CASE NoResolver(r)
  <2>1. Says(app, Claim(r), OfflineResolve(Claim(r).slots))
    BY <1>3 DEF NoResolver, Says
  <2> QED BY <1>3, <2>1, ResolvesKeeps DEF NoResolver
<1>4. CASE RetrieveGraph(r)
  BY <1>4, RetrieveGraphKeeps
<1>5. CASE RetrieveLexical(r)
  BY <1>5, RetrieveLexicalKeeps
<1>6. CASE Conclude(r)
  BY <1>6, ConcludeKeeps
<1>7. CASE ConcludeFails(r)
  BY <1>7, ConcludeFailsKeeps
<1>8. CASE ConcludeRefused(r)
  BY <1>8, ConcludeRefusedKeeps
<1>9. CASE ConcludeUnanswered(r)
  BY <1>9, ConcludeUnansweredKeeps
<1>10. CASE Attribute(r)
  BY <1>10, AttributeKeeps
<1> QED BY <1>1, <1>2, <1>3, <1>4, <1>5, <1>6, <1>7, <1>8, <1>9, <1>10 DEF RequestStep

LEMMA EnvironmentKeeps == ASSUME IInv, Environment PROVE IInv'
<1>1. CASE Boot
  <2>1. /\ app = "down" /\ app' \in {"live", "offline"} /\ conn' \in {"none", "open"}
        /\ conn' # "none" <=> app' = "live"
        /\ UNCHANGED <<up, cache, pc, req, res, rows, spans, bundles, edges, tasks, faults>>
    BY <1>1 DEF Boot
  <2>2. World' /\ Shapes' /\ Cached'
    BY <2>1 DEF IInv, World, Shapes, Cached
  <2>a. TasksFit'
    BY <2>1, TasksFramed DEF IInv, CutOffRests
  <2>3. ASSUME NEW r \in Requests PROVE LocalOf(r)'
    <3>1. Local(req[r], pc[r], res[r], rows[r], spans[r], bundles[r], edges[r], app)
      BY DEF IInv, Locals, LocalOf
    <3>2. pc[r] \notin Busy
      BY <2>1, <3>1 DEF Local, InHand
    <3>3. Local(req[r], pc[r], res[r], rows[r], spans[r], bundles[r], edges[r], app')
      BY <3>1, <3>2, LocalRest
    <3> QED BY <2>1, <3>3 DEF LocalOf
  <2> QED BY <2>2, <2>a, <2>3 DEF IInv, Locals
<1>2. CASE Crash
  <2>1. /\ app' = "down" /\ conn' = "none" /\ faults < MaxFaults /\ faults' = faults + 1
        /\ cache' = [d \in Declarations |-> None]
        /\ pc' = [r \in Requests |-> IF pc[r] \in Busy THEN "lost" ELSE pc[r]]
        /\ UNCHANGED <<up, req, res, rows, spans, bundles, edges>>
    BY <1>2 DEF Crash
  <2>2. World' /\ faults' > 0
    BY <2>1, MaxFaultsAssumption DEF IInv, World
  <2>3. Shapes' /\ Cached'
    BY <2>1 DEF IInv, Shapes, Cached, Points, Ends
  <2>4. ASSUME NEW r \in Requests PROVE LocalOf(r)'
    <3>1. Local(req[r], pc[r], res[r], rows[r], spans[r], bundles[r], edges[r], app)
      BY DEF IInv, Locals, LocalOf
    <3>2. Local(req[r], IF pc[r] \in Busy THEN "lost" ELSE pc[r],
                res[r], rows[r], spans[r], bundles[r], edges[r], app')
      BY <3>1, LocalEnds, LocalRest
    <3>3. pc'[r] = IF pc[r] \in Busy THEN "lost" ELSE pc[r]
      BY <2>1
    <3> QED BY <2>1, <3>2, <3>3 DEF LocalOf
  <2>5. PICK filing \in SUBSET {r \in Requests : pc[r] = "conclude" /\ AsksForTask(r)} :
          tasks' = tasks \cup UNION {ConflictFiled(r) : r \in filing}
    BY <1>2 DEF Crash
  <2>6. CutOffRests
    BY <2>1 DEF CutOffRests, Busy
  <2>7. ASSUME NEW t \in tasks PROVE TaskFits(t)'
    BY <2>1, <2>2, <2>6, <2>7, TaskStillFits DEF IInv, TasksFit
  <2>8. ASSUME NEW r \in filing, NEW t \in ConflictFiled(r) PROVE TaskFits(t)'
    <3>1. r \in Requests /\ AsksForTask(r) /\ pc'[r] = "lost"
      BY <2>1, <2>5 DEF Busy
    <3>2. conn = "open"
      BY <2>8 DEF ConflictFiled, Filed
    <3>3. Outcome(r)' = Outcome(r)
      BY <2>1 DEF Outcome, Claim, ClaimsFor
    <3> QED BY <2>1, <2>2, <2>8, <3>1, <3>2, <3>3, FiledCutOff
  <2>9. TasksFit'
    BY <2>1, <2>5, <2>7, <2>8 DEF IInv, TasksFit
  <2> QED BY <2>2, <2>3, <2>4, <2>9 DEF IInv, Locals
<1>3. ASSUME NEW s \in Stores, StoreFails(s) \/ StoreReturns(s) PROVE IInv'
  <2>1. /\ up' \in {up \ {s}, up \cup {s}}
        /\ conn' = conn \/ (conn = "open" /\ conn' = "broken")
        /\ faults' = faults \/ (faults < MaxFaults /\ faults' = faults + 1)
        /\ UNCHANGED <<app, cache, pc, req, res, rows, spans, bundles, edges, tasks>>
    BY <1>3 DEF StoreFails, StoreReturns
  <2>2. World'
    BY <2>1, MaxFaultsAssumption DEF IInv, World
  <2>3. Shapes' /\ Cached'
    BY <2>1 DEF IInv, Shapes, Cached
  <2>a. TasksFit'
    <3>1. faults > 0 => faults' > 0
      BY <2>1 DEF IInv, World
    <3> QED BY <2>1, <3>1, TasksFramed DEF IInv, CutOffRests
  <2>4. Locals'
    BY <2>1 DEF IInv, Locals, LocalOf
  <2> QED BY <2>2, <2>3, <2>a, <2>4 DEF IInv
<1> QED BY <1>1, <1>2, <1>3 DEF Environment

LEMMA StepKeeps == IInv /\ [Next]_vars => IInv'
<1> SUFFICES ASSUME IInv, [Next]_vars PROVE IInv'
  OBVIOUS
<1>1. CASE Next
  BY <1>1, ArrivalKeeps, DeclarationArrivalKeeps, RequestKeeps, EnvironmentKeeps DEF Next
<1>2. CASE UNCHANGED vars
  <2>1. World' /\ Shapes' /\ Cached'
    BY <1>2 DEF IInv, World, Shapes, Cached, vars
  <2>2. Locals'
    BY <1>2 DEF IInv, Locals, LocalOf, vars
  <2>3. TasksFit'
    BY <1>2, TasksFramed DEF IInv, vars, CutOffRests
  <2> QED BY <2>1, <2>2, <2>3 DEF IInv
<1> QED BY <1>1, <1>2

\* The requests keep IInv through every outage and crash.
THEOREM Invariance == Spec => []IInv
BY InitIInv, StepKeeps, PTL DEF Spec

-----------------------------------------------------------------------------
(* The properties. *)

\* What is known of a payload of a request, in any state of IInv.
LEMMA Payloads ==
  ASSUME IInv, NEW r \in Requests, NEW i \in DOMAIN bundles[r], NEW b, b = bundles[r][i]
  PROVE  /\ req[r] \in Asked
         /\ i \in DOMAIN ClaimsFor(r)
         /\ b.claim = ClaimsFor(r)[i] /\ IsClaim(b.claim)
         /\ Told(b.claim, b.res)
         /\ b.evidence = {} \/ Answered(b.claim, b.res)
         /\ b.evidence \in Parts(RowsFor(b.claim, b.res), SpansFor(req[r].stmt))
         /\ b = Bundle(b.claim, b.res, b.evidence)
<1>1. Local(req[r], pc[r], res[r], rows[r], spans[r], bundles[r], edges[r], app)
  BY DEF IInv, Locals, LocalOf
<1>2. /\ IsSeq(bundles[r])
      /\ pc[r] \in {"idle", "not_found"} => Len(bundles[r]) = 0
      /\ pc[r] \notin {"idle", "not_found"} => Len(bundles[r]) <= Len(ClaimsAsked(req[r]))
  BY <1>1 DEF Local, Counts
<1>3. Len(bundles[r]) \in Nat /\ i \in 1 .. Len(bundles[r])
  BY <1>2, SeqDomain
<1>4. pc[r] \notin {"idle", "not_found"}
  BY <1>2, <1>3
<1>5. req[r] \in Asked
  BY <1>1, <1>4 DEF Local, Asks
<1>6. /\ Len(ClaimsAsked(req[r])) \in Nat
      /\ DOMAIN ClaimsAsked(req[r]) = 1 .. Len(ClaimsAsked(req[r]))
      /\ \A k \in DOMAIN ClaimsAsked(req[r]) : IsClaim(ClaimsAsked(req[r])[k])
  BY <1>5, ClaimsAreClaims DEF Asked, ClaimsAsked
<1>7. i \in DOMAIN ClaimsAsked(req[r])
  BY <1>2, <1>3, <1>4, <1>6
<1>8. Judged(req[r], i, b)
  BY <1>1 DEF Local
<1>9. ClaimsFor(r) = ClaimsAsked(req[r])
  BY DEF ClaimsFor, ClaimsAsked
<1> QED BY <1>5, <1>6, <1>7, <1>8, <1>9 DEF Judged

\* The variables keep their types: no request has more payloads than claims,
\* and evidence is what the stores hold.
THEOREM TypeCorrect == Spec => []TypeOK
<1>1. IInv => TypeOK
  <2> SUFFICES ASSUME IInv PROVE TypeOK
    OBVIOUS
  <2>1. /\ up \subseteq Stores /\ app \in {"down", "offline", "live"}
        /\ conn \in {"none", "open", "broken"} /\ (conn # "none" <=> app = "live")
        /\ faults \in 0 .. MaxFaults
    BY DEF IInv, World
  <2>2. pc \in [Requests -> {"idle"} \cup Busy \cup Ends]
    BY DEF IInv, Shapes, Points
  <2>3. ASSUME NEW r \in Requests
        PROVE  /\ rows[r] \subseteq Facts /\ spans[r] \subseteq Spans
               /\ Len(bundles[r]) <= (IF req[r].op = "none" THEN 0 ELSE Len(ClaimsFor(r)))
    <3>1. Local(req[r], pc[r], res[r], rows[r], spans[r], bundles[r], edges[r], app)
      BY DEF IInv, Locals, LocalOf
    <3>2. rows[r] \subseteq Facts
      BY <3>1 DEF Local, InHand, RowsFor, GraphRows
    <3>3. spans[r] \subseteq Spans
      BY <3>1 DEF Local, InHand, SpansFor
    <3>4. CASE pc[r] \in {"idle", "not_found"}
      <4>1. req[r] = NoRequest /\ Len(bundles[r]) = 0
        BY <3>1, <3>4 DEF Local, Asks, Counts
      <4> QED BY <3>2, <3>3, <4>1 DEF NoRequest
    <3>5. CASE pc[r] \notin {"idle", "not_found"}
      <4>1. req[r].op # "none" /\ Len(bundles[r]) <= Len(ClaimsAsked(req[r]))
        BY <3>1, <3>5 DEF Local, Asks, Counts, Asked
      <4> QED BY <3>2, <3>3, <4>1 DEF ClaimsFor, ClaimsAsked
    <3> QED BY <3>4, <3>5
  <2>4. tasks \subseteq Task
    <3>1. ASSUME NEW t \in tasks PROVE t \in Task
      <4> DEFINE r == t.request
      <4>1. /\ r \in Requests /\ t = ConflictTask(r, t.claim)
            /\ t.claim \in ConflictsIn(bundles[r]) \/ t.claim = Len(bundles[r]) + 1
        BY <3>1 DEF IInv, TasksFit, TaskFits, CutOff
      <4>2. IsSeq(bundles[r])
        BY <4>1 DEF IInv, Locals, LocalOf, Local, Counts
      <4>3. Len(bundles[r]) \in Nat /\ DOMAIN bundles[r] = 1 .. Len(bundles[r])
        BY <4>2, SeqDomain
      <4>4. t.claim \in Nat
        BY <4>1, <4>3 DEF ConflictsIn
      <4> QED BY <4>1, <4>4 DEF Task, TableKinds, ConflictTask
    <3> QED BY <3>1
  <2> QED BY <2>1, <2>2, <2>3, <2>4 DEF TypeOK
<1> QED BY <1>1, Invariance, PTL

\* A person is contradicted only over a row about the nodes that the names
\* were resolved to, whatever fails and whatever the stores hold.
THEOREM RestsOnRecord == Spec => []VerdictRestsOnRecord
<1>1. IInv => VerdictRestsOnRecord
  BY Payloads, BundleRestsOnRecord DEF VerdictRestsOnRecord
<1> QED BY <1>1, Invariance, PTL

\* Whatever is down and whenever, a claim gets a verdict that it can get while
\* all stores answer, or insufficient_evidence, or the support of text alone
\* under a name that no resolver would have resolved.
THEOREM OutagesAbstainOrTrustText == Spec => []FailureAbstainsOrTrustsText
<1>1. ASSUME IInv, NEW r \in Requests, NEW i \in DOMAIN bundles[r], NEW b,
             b = bundles[r][i]
      PROVE  \/ b.status \in WholeVerdicts(b.claim, req[r].stmt) \cup {"insufficient_evidence"}
             \/ TextOfNobody(b, req[r].stmt)
  BY <1>1, Payloads, BundleSurvivesOutages
<1>2. IInv => FailureAbstainsOrTrustsText
  BY <1>1 DEF FailureAbstainsOrTrustsText
<1> QED BY <1>2, Invariance, PTL

\* Every conflict that was concluded has its task, and a task is that of such
\* a conflict or of one over which a fault cut its request off.
THEOREM ConflictsFiled == Spec => []ConflictsAreFiled
<1>1. ASSUME IInv, NEW r \in Requests, NEW i \in Conflicts(r)
      PROVE  [kind |-> "conflict", request |-> r, claim |-> i] \in tasks
  BY <1>1 DEF IInv, TasksFit, Conflicts, ConflictsIn, ConflictTask
<1>2. ASSUME IInv, NEW t \in tasks
      PROVE  t.claim \in Conflicts(t.request) \/ CutOff(t)
  BY <1>2 DEF IInv, TasksFit, TaskFits, Conflicts, ConflictsIn
<1>3. IInv => ConflictsAreFiled
  BY <1>1, <1>2 DEF ConflictsAreFiled
<1> QED BY <1>3, Invariance, PTL

-----------------------------------------------------------------------------
(* Declarations. *)

\* In one language the edges of an answered declaration pair every claim with
\* its own payload.
LEMMA EdgesOfAnswer ==
  ASSUME IInv, NEW r \in Requests, Attributed(r), req[r].language = req[r].ingested
  PROVE  /\ req[r] \in Asked
         /\ Len(bundles[r]) = Len(ClaimsFor(r)) /\ Len(ClaimsFor(r)) \in Nat
         /\ DOMAIN bundles[r] = 1 .. Len(ClaimsFor(r))
         /\ edges[r] = [i \in 1 .. Len(ClaimsFor(r)) |->
                          Edge(ClaimsFor(r)[i], bundles[r][i])]
<1>1. Local(req[r], pc[r], res[r], rows[r], spans[r], bundles[r], edges[r], app)
  BY DEF IInv, Locals, LocalOf
<1>2. pc[r] = "answered" /\ req[r].op = "declaration"
  BY DEF Attributed
<1>3. req[r] \in Asked
  BY <1>1, <1>2 DEF Local, Asks
<1>4. /\ ClaimsOf(req[r].stmt, req[r].ingested) = ClaimsFor(r)
      /\ ClaimsAsked(req[r]) = ClaimsFor(r)
  BY DEF ClaimsFor, ClaimsAsked
<1>5. IsSeq(bundles[r]) /\ Len(bundles[r]) = Len(ClaimsFor(r))
  BY <1>1, <1>2, <1>4 DEF Local, Counts
<1>6. Len(ClaimsFor(r)) \in Nat
  BY <1>3, <1>4, CountOfClaims
<1>7. DOMAIN bundles[r] = 1 .. Len(ClaimsFor(r))
  BY <1>5, SeqDomain
<1>8. edges[r] = EdgesOf(ClaimsFor(r), bundles[r])
  BY <1>1, <1>2, <1>4 DEF Local, Paired
<1>9. Shorter(Len(ClaimsFor(r)), Len(bundles[r])) = Len(ClaimsFor(r))
  BY <1>5, <1>6 DEF Shorter
<1> QED BY <1>3, <1>5, <1>6, <1>7, <1>8, <1>9 DEF EdgesOf

\* Each claim of a declaration gets an edge, judged from itself.
THEOREM EdgesPaired == Spec => []EdgesJudgeTheirOwnClaim
<1>1. ASSUME IInv, NEW r \in Requests, Attributed(r), req[r].language = req[r].ingested
      PROVE  /\ Len(edges[r]) = Len(ClaimsFor(r))
             /\ \A i \in DOMAIN edges[r] : edges[r][i].claim = edges[r][i].judged
  <2> DEFINE n == Len(ClaimsFor(r))
             es == [i \in 1 .. n |-> Edge(ClaimsFor(r)[i], bundles[r][i])]
  <2>1. /\ n \in Nat /\ DOMAIN bundles[r] = 1 .. n /\ edges[r] = es
    BY <1>1, EdgesOfAnswer
  <2>2. \A i \in 1 .. n : bundles[r][i].claim = ClaimsFor(r)[i]
    BY <1>1, <2>1, Payloads
  <2>3. \A i \in 1 .. n : es[i].claim = es[i].judged
    BY <2>2 DEF Edge
  <2>4. es \in Seq({es[i] : i \in 1 .. n}) /\ Len(es) = n
    <3>1. es \in [1 .. n -> {es[i] : i \in 1 .. n}]
      OBVIOUS
    <3> HIDE DEF es
    <3>2. es \in Seq({es[i] : i \in 1 .. n})
      BY <2>1, <3>1
    <3>3. DOMAIN es = 1 .. Len(es) /\ DOMAIN es = 1 .. n /\ Len(es) \in Nat
      BY <3>1, <3>2, LenProperties
    <3> QED BY <2>1, <3>2, <3>3
  <2>5. DOMAIN es = 1 .. n
    OBVIOUS
  <2> HIDE DEF es
  <2> QED BY <2>1, <2>3, <2>4, <2>5
<1>2. IInv => EdgesJudgeTheirOwnClaim
  BY <1>1 DEF EdgesJudgeTheirOwnClaim
<1> QED BY <1>2, Invariance, PTL

\* The overall relation is the worst of those of its claims.
THEOREM WorstCounts == Spec => []OverallIsTheWorst
<1>1. ASSUME IInv, NEW r \in Requests, Attributed(r), req[r].language = req[r].ingested,
             NEW T, T = {bundles[r][i].status : i \in DOMAIN bundles[r]}
      PROVE  /\ "contradicted" \in T <=> Overall(edges[r]) = "contradicted_by"
             /\ Overall(edges[r]) = "supported_by" => T = {"supported"}
  <2> DEFINE n == Len(ClaimsFor(r))
             es == [i \in 1 .. n |-> Edge(ClaimsFor(r)[i], bundles[r][i])]
             S == {edges[r][i].relation : i \in DOMAIN edges[r]}
  <2>1. edges[r] = es /\ DOMAIN bundles[r] = 1 .. n
    BY <1>1, EdgesOfAnswer
  <2>2. DOMAIN edges[r] = 1 .. n
    BY <2>1
  <2>3. ASSUME NEW i \in 1 .. n
        PROVE  /\ edges[r][i].relation \in Relations
               /\ edges[r][i].relation = "contradicted_by"
                    <=> bundles[r][i].status = "contradicted"
               /\ edges[r][i].relation = "supported_by"
                    <=> bundles[r][i].status = "supported"
    <3>1. edges[r][i].relation =
            RelationOf(bundles[r][i].status,
                       CheckabilityOf(bundles[r][i].claim, bundles[r][i].res),
                       TopSpans(bundles[r][i]))
      BY <2>1 DEF Edge
    <3> QED BY <3>1, RelationsOfStatus
  <2> HIDE DEF es, n
  <2>4. S \in SUBSET Relations
    BY <2>2, <2>3
  <2>5. Overall(edges[r]) = WorstRelation(S)
    BY DEF Overall
  <2>6. /\ "contradicted_by" \in S <=> WorstRelation(S) = "contradicted_by"
        /\ WorstRelation(S) = "supported_by" => S = {"supported_by"}
    BY <2>4, WorstIsFirst
  <2>a. /\ S = {edges[r][i].relation : i \in 1 .. n}
        /\ T = {bundles[r][i].status : i \in 1 .. n}
    BY <1>1, <2>1, <2>2
  <2> HIDE DEF S
  <2>7. "contradicted" \in T <=> "contradicted_by" \in S
    BY <2>3, <2>a
  <2>8. S = {"supported_by"} => T = {"supported"}
    <3>1. CASE S = {"supported_by"}
      <4>1. \A i \in 1 .. n : edges[r][i].relation = "supported_by"
        BY <2>a, <3>1
      <4>2. \A i \in 1 .. n : bundles[r][i].status = "supported"
        BY <2>3, <4>1
      <4>3. \E i \in 1 .. n : TRUE
        BY <2>a, <3>1
      <4> QED BY <2>a, <4>2, <4>3
    <3> QED BY <3>1
  <2> QED BY <2>5, <2>6, <2>7, <2>8
<1>2. IInv => OverallIsTheWorst
  BY <1>1 DEF OverallIsTheWorst
<1> QED BY <1>2, Invariance, PTL

\* A declaration that was not checkable, or lacked a time, when it came gets
\* no verdict on any claim when it is verified.
THEOREM AbstentionForetold == Spec => []IngestForetellsAbstention
<1>1. ASSUME IInv, NEW r \in Requests, Attributed(r), req[r].language = req[r].ingested,
             Declaration(req[r].stmt, req[r].ingested).checkability
               \in {"not_checkable", "insufficient_time_scope"},
             NEW i \in DOMAIN bundles[r]
      PROVE  bundles[r][i].status = "non_checkable"
  <2> DEFINE C == ClaimsOf(req[r].stmt, req[r].ingested)
             of(k) == Classify(C[k], Unasked.status, ScopeOf(C[k]).granularity)
             b == bundles[r][i]
  <2>1. C = ClaimsFor(r)
    BY <1>1 DEF ClaimsFor
  <2>2. /\ i \in DOMAIN C /\ b.claim = C[i]
        /\ b = Bundle(b.claim, b.res, b.evidence)
    BY <1>1, <2>1, Payloads
  <2>3. DeclarationCheckability({of(k) : k \in DOMAIN C})
          \in {"not_checkable", "insufficient_time_scope"}
    BY <1>1 DEF Declaration
  <2>4. of(i) \in {"non_checkable", "insufficient_time_scope"}
    <3>1. {of(k) : k \in DOMAIN C} \subseteq {"non_checkable", "insufficient_time_scope"}
      BY <2>3, DeclarationOf
    <3> QED BY <2>2, <3>1
  <2>5. CheckabilityOf(b.claim, b.res) # "checkable"
    BY <2>2, <2>4, UncheckableStaysSo DEF CheckabilityOf
  <2>6. b.status = VerdictOn(b.claim, b.res, b.evidence)
    BY <2>2 DEF Bundle
  <2> QED BY <2>5, <2>6 DEF VerdictOn, VerdictStatus
<1>2. IInv => IngestForetellsAbstention
  BY <1>1 DEF IngestForetellsAbstention
<1> QED BY <1>2, Invariance, PTL
-----------------------------------------------------------------------------
(* Homonyms. *)

\* When there are no more nodes than the fuzzy scan reads, it reads them all.
LEMMA ScanIsAll ==
  ASSUME Cardinality(Nodes) <= ScanLimit, NEW scan \in Scans
  PROVE  scan = Nodes
<1>1. scan \subseteq Nodes /\ IsFiniteSet(Nodes) /\ ScanLimit \in Nat
  BY NodesAssumption, ScanAssumption DEF Scans
<1>2. CASE Cardinality(scan) = ScanLimit
  <2>1. /\ Cardinality(scan) <= Cardinality(Nodes)
        /\ Cardinality(Nodes) = Cardinality(scan) => Nodes = scan
    BY <1>1, FS_Subset
  <2>2. Cardinality(Nodes) \in Nat
    BY <1>1, FS_CardinalityType
  <2> QED BY <1>1, <1>2, <2>1, <2>2
<1> QED BY <1>2 DEF Scans

\* One of the hits of two nodes that score alike is no winner.
LEMMA TieHasNoWinner ==
  ASSUME NEW hits \in SUBSET Hit, NEW x, NEW y, x # y,
         [id |-> x, score |-> 100] \in hits, [id |-> y, score |-> 100] \in hits
  PROVE  ClearWinner(hits) = {} /\ Cardinality({h.id : h \in hits}) # 1
<1> DEFINE hx == [id |-> x, score |-> 100]
           hy == [id |-> y, score |-> 100]
<1>1. hx # hy /\ hx.score = 100 /\ hy.score = 100 /\ hx.id = x /\ hy.id = y
  OBVIOUS
<1> HIDE DEF hx, hy
<1>2. ASSUME NEW h \in ClearWinner(hits) PROVE FALSE
  <2>1. h \in hits /\ h.score \in 0 .. 100
    BY <1>2 DEF ClearWinner, Hit, Scores
  <2>2. PICK g \in hits \ {h} : g.score = 100
    BY <1>1 DEF hx, hy
  <2>3. h.score - g.score >= 7
    BY <1>2, <2>2 DEF ClearWinner, FuzzyMargin
  <2> QED BY <2>1, <2>2, <2>3
<1>3. x \in {h.id : h \in hits} /\ y \in {h.id : h \in hits}
  BY <1>1 DEF hx, hy
<1>4. \A S : IsFiniteSet(S) /\ Cardinality(S) = 1 => \E z : S = {z}
  BY FS_Singleton
<1>5. IsFiniteSet({h.id : h \in hits})
  <2>1. {h.id : h \in hits} \in SUBSET Nodes
    BY DEF Hit
  <2> QED BY <2>1, NodesAssumption, FS_Subset
<1> QED BY <1>2, <1>3, <1>4, <1>5

\* A node that stands for a set of one.
LEMMA OnlyOne ==
  ASSUME NEW S \in SUBSET Nodes, Cardinality(S) = 1
  PROVE  S = {CHOOSE z \in S : TRUE}
<1>1. IsFiniteSet(S)
  BY NodesAssumption, FS_Subset
<1>2. \E z : S = {z}
  BY <1>1, FS_Singleton
<1> QED BY <1>2

\* Before the fuzzy step, only hits of one node resolve.
LEMMA LoneHit ==
  ASSUME NEW n, NEW scan, NEW hits, Ladder(n, scan).hits = hits, Ladder(n, scan).step # 5,
         Resolve(n, scan).status = "resolved"
  PROVE  /\ Cardinality({h.id : h \in hits}) = 1
         /\ Resolve(n, scan).id = CHOOSE z \in {h.id : h \in hits} : TRUE
<1> DEFINE ids == {h.id : h \in hits}
<1>1. \A s, i : Resolution(s, i).status = s /\ Resolution(s, i).id = i
  BY DEF Resolution
<1>2. Resolve(n, scan) =
        IF ids = {} THEN Resolution("unresolved", None)
        ELSE IF Cardinality(ids) = 1 THEN Resolution("resolved", CHOOSE z \in ids : TRUE)
        ELSE Resolution("ambiguous", None)
  BY DEF Resolve
<1> HIDE DEF ids
<1>3. Cardinality(ids) = 1 /\ Resolve(n, scan).id = CHOOSE z \in ids : TRUE
  BY <1>1, <1>2
<1> QED BY <1>3 DEF ids

\* The resolver does not tell two nodes of one name apart.
LEMMA HomonymsStay ==
  ASSUME Cardinality(Nodes) <= ScanLimit, NEW scan \in Scans, NEW m \in DOMAIN Names,
         Names[m].hebrew, Cardinality(Names[m].exact) > 1,
         WithFallback(Names[m], scan).status = "resolved"
  PROVE  \/ WithFallback(Names[m], scan).id \in {h.id : h \in Names[m].alias \cup Names[m].translit}
         \/ Names[m].contains = {WithFallback(Names[m], scan).id}
<1> DEFINE n == Names[m]
<1>1. /\ n.exact \in SUBSET Nodes /\ n.contains \in SUBSET Nodes
      /\ n.alias \in SUBSET Hit /\ n.translit \in SUBSET Hit /\ n.fuzzy \in SUBSET Hit
      /\ n.hebrew
  BY NamesAssumption DEF Name
<1>2. \A x \in n.exact : [id |-> x, score |-> 100] \in n.fuzzy
  BY FuzzyAssumption
<1>3. Cardinality(n.exact) > 1 /\ WithFallback(n, scan).status = "resolved"
  OBVIOUS
<1> HIDE DEF n
<1>4. ASSUME NEW y, n.exact = {y} PROVE FALSE
  <2>1. Cardinality(n.exact) = 1
    BY <1>4, FS_Singleton
  <2> QED BY <1>3, <2>1
<1>5. PICK x \in n.exact, y \in n.exact : x # y
  <2>1. n.exact # {}
    BY <1>3, FS_EmptySet
  <2> QED BY <1>4, <2>1
<1>6. ExactHits(n) = {}
  BY <1>4 DEF ExactHits
<1>7. FuzzyHits(n, scan) = n.fuzzy
  <2>1. scan = Nodes
    BY ScanIsAll
  <2> QED BY <1>1, <2>1 DEF FuzzyHits, Hit
<1>8. Resolution("resolved", 0).status = "resolved" /\ \A s, i : Resolution(s, i).status = s /\ Resolution(s, i).id = i
  BY DEF Resolution
<1>9. ASSUME Resolve(n, scan).status = "resolved"
      PROVE  Resolve(n, scan).id \in {h.id : h \in n.alias \cup n.translit}
  <2> DEFINE found == Ladder(n, scan)
             ids == {h.id : h \in found.hits}
  <2>1. CASE n.alias # {}
    <3>1. found.step = 3 /\ found.hits = n.alias
      BY <1>6, <2>1 DEF Ladder
    <3>2. ids \in SUBSET Nodes
      BY <1>1, <3>1 DEF Hit
    <3>3. Cardinality(ids) = 1 /\ Resolve(n, scan).id = CHOOSE z \in ids : TRUE
      BY <1>9, <3>1, LoneHit
    <3>4. Resolve(n, scan).id \in ids
      BY <3>2, <3>3, OnlyOne
    <3>5. ids \subseteq {h.id : h \in n.alias \cup n.translit}
      BY <3>1
    <3> HIDE DEF ids
    <3> QED BY <3>4, <3>5
  <2>2. CASE n.alias = {} /\ TranslitHits(n) # {}
    <3>1. found.step = 4 /\ found.hits = TranslitHits(n)
      BY <1>6, <2>2 DEF Ladder
    <3>2. ids \subseteq {h.id : h \in n.alias \cup n.translit} /\ ids \in SUBSET Nodes
      BY <1>1, <3>1 DEF TranslitHits, Hit
    <3>3. Cardinality(ids) = 1 /\ Resolve(n, scan).id = CHOOSE z \in ids : TRUE
      BY <1>9, <3>1, LoneHit
    <3>4. Resolve(n, scan).id \in ids
      BY <3>2, <3>3, OnlyOne
    <3> HIDE DEF ids
    <3> QED BY <3>2, <3>4
  <2>3. CASE n.alias = {} /\ TranslitHits(n) = {}
    <3>1. found.step = 5 /\ found.hits = n.fuzzy
      BY <1>6, <1>7, <2>3 DEF Ladder
    <3>2. [id |-> x, score |-> 100] \in n.fuzzy /\ [id |-> y, score |-> 100] \in n.fuzzy
      BY <1>2, <1>5
    <3>3. ClearWinner(n.fuzzy) = {} /\ Cardinality({h.id : h \in n.fuzzy}) # 1
      BY <1>1, <1>5, <3>2, TieHasNoWinner
    <3>4. Resolve(n, scan) = Resolution("unresolved", None)
          \/ Resolve(n, scan) = Resolution("ambiguous", None)
      BY <3>1, <3>3 DEF Resolve
    <3> QED BY <1>8, <1>9, <3>4
  <2> QED BY <2>1, <2>2, <2>3
<1>10. CASE Resolve(n, scan).status = "resolved"
  BY <1>9, <1>10 DEF WithFallback, n
<1>11. CASE Resolve(n, scan).status # "resolved"
  <2>1. /\ Cardinality(n.contains) = 1
        /\ WithFallback(n, scan).id = CHOOSE z \in n.contains : TRUE
    BY <1>3, <1>8, <1>11 DEF WithFallback
  <2>2. n.contains = {WithFallback(n, scan).id}
    BY <1>1, <2>1, OnlyOne
  <2> QED BY <2>2 DEF n
<1> QED BY <1>10, <1>11

\* Two people, bills or parties of one name are never one to a verdict: the
\* resolver leaves them ambiguous, unless an alias says so or the mention as it
\* is spelled is in the names of one node only.
THEOREM HomonymsNeverResolved == Spec => []HomonymNeverResolved
<1>1. IInv => HomonymNeverResolved
  <2> SUFFICES ASSUME IInv, NEW r \in Requests, NEW i \in DOMAIN bundles[r], NEW s \in EntitySlots
               PROVE  LET b == bundles[r][i]
                          n == Names[b.claim.slots[s]]
                      IN /\ Cardinality(Nodes) <= ScanLimit
                         /\ b.claim.slots[s] # None /\ b.res.ids[s] # b.claim.slots[s]
                         /\ n.hebrew /\ Cardinality(n.exact) > 1
                         => \/ b.res.ids[s] \in {h.id : h \in n.alias \cup n.translit}
                            \/ n.contains = {b.res.ids[s]}
    BY Zenon DEF HomonymNeverResolved
  <2> DEFINE b == bundles[r][i]
             n == Names[b.claim.slots[s]]
             Said == {h.id : h \in n.alias \cup n.translit}
  <2>1. b = bundles[r][i]
    OBVIOUS
  <2>2. n = Names[b.claim.slots[s]]
    OBVIOUS
  <2>s. Said = {h.id : h \in n.alias \cup n.translit}
    OBVIOUS
  <2> HIDE DEF b, n, Said
  <2>3. ASSUME Cardinality(Nodes) <= ScanLimit,
               b.claim.slots[s] # None, b.res.ids[s] # b.claim.slots[s],
               n.hebrew, Cardinality(n.exact) > 1
        PROVE  b.res.ids[s] \in Said \/ n.contains = {b.res.ids[s]}
    <3>1. IsClaim(b.claim) /\ Told(b.claim, b.res)
      BY <2>1, Payloads
    <3>2. s \in SlotNames /\ b.claim.slots[s] \in DOMAIN Names
      BY <2>3, <3>1, ClaimShape DEF EntitySlots, SlotNames
    <3>3. \A ids, status : Resolved(status, ids).ids = ids
      BY DEF Resolved
    <3>4. b.res # Unresolved(b.claim.slots) /\ b.res # OfflineResolve(b.claim.slots)
      BY <2>3, <3>3 DEF Unresolved, OfflineResolve
    <3>5. PICK scan \in Scans : b.res = LiveResolve(b.claim.slots, scan)
      BY <3>1, <3>4 DEF Told, Answered
    <3>6. b.res.ids[s] = IF WithFallback(n, scan).status = "resolved"
                         THEN WithFallback(n, scan).id ELSE b.claim.slots[s]
      <4> DEFINE sl == b.claim.slots
      <4>1. b.res.ids = [x \in SlotNames |->
                           IF x \in Mentioned(sl)
                              /\ WithFallback(Names[sl[x]], scan).status = "resolved"
                           THEN WithFallback(Names[sl[x]], scan).id ELSE sl[x]]
        BY <3>3, <3>5 DEF LiveResolve
      <4>2. s \in Mentioned(sl)
        BY <2>3 DEF Mentioned
      <4> HIDE DEF sl
      <4>3. b.res.ids[s] = IF WithFallback(Names[sl[s]], scan).status = "resolved"
                           THEN WithFallback(Names[sl[s]], scan).id ELSE sl[s]
        BY <3>2, <4>1, <4>2
      <4> QED BY <2>2, <2>3, <4>3 DEF sl
    <3>7. /\ WithFallback(n, scan).status = "resolved"
          /\ b.res.ids[s] = WithFallback(n, scan).id
      BY <2>3, <3>6
    <3> QED BY <2>2, <2>3, <2>s, <3>2, <3>7, HomonymsStay
  <2> QED BY <2>3 DEF b, n, Said
<1> QED BY <1>1, Invariance, PTL

\* No words are judged twice, for any statements and any matches in them: each
\* payload is that of the claim of its place, and claims rest on matches the
\* greedy choice kept.
THEOREM NothingJudgedTwice == Spec => []ClaimsDisjoint
<1>1. ASSUME IInv, NEW r \in Requests, NEW i \in DOMAIN bundles[r], NEW j \in DOMAIN bundles[r],
             i # j
      PROVE  Apart(bundles[r][i].claim, bundles[r][j].claim)
  <2>1. /\ req[r] \in Asked
        /\ i \in DOMAIN ClaimsFor(r) /\ bundles[r][i].claim = ClaimsFor(r)[i]
        /\ j \in DOMAIN ClaimsFor(r) /\ bundles[r][j].claim = ClaimsFor(r)[j]
    BY <1>1, Payloads
  <2>2. req[r].stmt \in DOMAIN Statements /\ req[r].language \in Languages
    BY <2>1 DEF Asked
  <2>3. ClaimsFor(r) = ClaimsOf(req[r].stmt, req[r].language)
    BY DEF ClaimsFor
  <2> QED BY <1>1, <2>1, <2>2, <2>3, ClaimsAreApart
<1>2. IInv => ClaimsDisjoint
  BY <1>1 DEF ClaimsDisjoint, Apart
<1> QED BY <1>2, Invariance, PTL
=============================================================================
