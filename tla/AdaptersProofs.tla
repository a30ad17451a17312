--------------------------- MODULE AdaptersProofs ---------------------------
(***************************************************************************)
(* What the adapters make of a row, for any row: the statements state one  *)
(* node or one edge each, and an edge comes after the nodes it joins, so   *)
(* that no relationship template of the row can match nothing.             *)
(*                                                                         *)
(* The recursion of Concat is unfolded by induction over the naturals,     *)
(* stated of a set of them (NatSets) and drawn from the well-foundedness   *)
(* of their order.                                                         *)
(***************************************************************************)
EXTENDS Adapters, TLAPS, SequenceTheorems, WellFoundedInduction

-----------------------------------------------------------------------------
(* Induction. *)

Less == {ss \in Nat \X Nat : ss[1] < ss[2]}

\* The order of the naturals has no infinite descent.
LEMMA LessWellFounded == IsWellFoundedOn(Less, Nat)
BY NatLessThanWellFounded, Zenon DEF OpToRel, Less

\* A set of naturals with zero and every successor has them all.
LEMMA NatSets ==
  ASSUME NEW S, 0 \in S, \A n \in Nat : n \in S => n + 1 \in S
  PROVE  Nat \subseteq S
<1> SUFFICES ASSUME Nat \ S # {} PROVE FALSE
  OBVIOUS
<1> DEFINE T == Nat \ S
<1>1. \E x \in T : \A y \in T : <<y, x>> \notin Less
  <2>1. T \subseteq Nat /\ T # {}
    OBVIOUS
  <2> HIDE DEF T
  <2> QED BY <2>1, LessWellFounded, WFMin
<1>2. PICK x \in T : \A y \in T : <<y, x>> \notin Less
  BY <1>1
<1>3. x # 0 /\ x - 1 \in Nat /\ x = (x - 1) + 1
  OBVIOUS
<1>4. x - 1 \in T /\ <<x - 1, x>> \in Less
  BY <1>3 DEF Less
<1> QED BY <1>2, <1>4

-----------------------------------------------------------------------------
(* Sequences. *)

\* A sequence, of whatever it holds, and what stands before its j-th element.
IsSeq(s) == s \in Seq(ToSet(s))
Before(s, j) == {s[k] : k \in 1 .. j - 1}

\* The places of a list.
LEMMA SeqDomain ==
  ASSUME NEW s, IsSeq(s)
  PROVE  Len(s) \in Nat /\ DOMAIN s = 1 .. Len(s) /\ s \in [1 .. Len(s) -> ToSet(s)]
BY LenProperties DEF IsSeq

\* A list of members of S is a list.
LEMMA SeqWiden ==
  ASSUME NEW s, IsSeq(s), NEW T, ToSet(s) \subseteq T
  PROVE  s \in Seq(T)
BY SeqMonotonic DEF IsSeq

\* A list over any set is a list.
LEMMA SeqNarrow ==
  ASSUME NEW T, NEW s \in Seq(T)
  PROVE  IsSeq(s)
<1>1. Len(s) \in Nat /\ DOMAIN s = 1 .. Len(s) /\ s \in [1 .. Len(s) -> T]
  BY LenProperties
<1>2. s \in [1 .. Len(s) -> ToSet(s)]
  BY <1>1 DEF ToSet
<1> QED BY <1>1, <1>2 DEF IsSeq

\* The empty list lists nothing.
LEMMA EmptyIsSeq == IsSeq(<< >>) /\ ToSet(<< >>) = {} /\ Len(<< >>) = 0 /\ DOMAIN << >> = {}
BY EmptySeq DEF IsSeq, ToSet

\* A list of one.
LEMMA OneIsSeq ==
  ASSUME NEW x
  PROVE  IsSeq(<<x>>) /\ ToSet(<<x>>) = {x} /\ Len(<<x>>) = 1 /\ DOMAIN <<x>> = {1}
<1>1. <<x>> \in Seq({x})
  OBVIOUS
<1>2. Len(<<x>>) = 1 /\ DOMAIN <<x>> = {1} /\ <<x>>[1] = x
  OBVIOUS
<1>3. ToSet(<<x>>) = {x}
  BY <1>2 DEF ToSet
<1> QED BY <1>1, <1>2, <1>3, SeqNarrow

\* u is s and then t.
Joins(u, s, t) ==
  /\ IsSeq(u)
  /\ Len(u) = Len(s) + Len(t)
  /\ ToSet(u) = ToSet(s) \cup ToSet(t)
  /\ \A j \in DOMAIN s : u[j] = s[j] /\ Before(u, j) = Before(s, j)
  /\ \A j \in DOMAIN t : /\ u[Len(s) + j] = t[j]
                          /\ Before(u, Len(s) + j) = ToSet(s) \cup Before(t, j)

\* What stands where in two lists joined, and what they list.
LEMMA Joined ==
  ASSUME NEW s, IsSeq(s), NEW t, IsSeq(t)
  PROVE  Joins(s \o t, s, t)
<1> DEFINE T == ToSet(s) \cup ToSet(t)
           u == s \o t
<1>1. s \in Seq(T) /\ t \in Seq(T)
  BY SeqWiden
<1>2. /\ u \in Seq(T) /\ Len(u) = Len(s) + Len(t)
      /\ \A i \in 1 .. Len(s) + Len(t) : u[i] = IF i <= Len(s) THEN s[i] ELSE t[i - Len(s)]
  <2> HIDE DEF T
  <2> QED BY <1>1, ConcatProperties
<1>3. /\ Len(s) \in Nat /\ DOMAIN s = 1 .. Len(s)
      /\ Len(t) \in Nat /\ DOMAIN t = 1 .. Len(t)
  BY SeqDomain
<1>4. DOMAIN u = 1 .. Len(s) + Len(t)
  <2> HIDE DEF T, u
  <2> QED BY <1>2, LenProperties
<1>5. \A j \in DOMAIN s : u[j] = s[j]
  BY <1>2, <1>3
<1>6. \A j \in DOMAIN t : u[Len(s) + j] = t[j]
  BY <1>2, <1>3
<1> HIDE DEF u, T
<1>7. IsSeq(u)
  BY <1>2, SeqNarrow
<1>8. ToSet(u) = ToSet(s) \cup ToSet(t)
  <2>1. ASSUME NEW i \in DOMAIN u PROVE u[i] \in ToSet(s) \cup ToSet(t)
    BY <1>2, <1>3, <1>4 DEF ToSet
  <2>2. ToSet(s) \subseteq ToSet(u)
    BY <1>3, <1>4, <1>5 DEF ToSet
  <2>3. ASSUME NEW j \in DOMAIN t PROVE t[j] \in ToSet(u)
    BY <1>3, <1>4, <1>6 DEF ToSet
  <2> QED BY <2>1, <2>2, <2>3 DEF ToSet
<1>9. ASSUME NEW j \in DOMAIN s PROVE Before(u, j) = Before(s, j)
  BY <1>3, <1>5 DEF Before
<1>10. ASSUME NEW j \in DOMAIN t PROVE Before(u, Len(s) + j) = ToSet(s) \cup Before(t, j)
  <2>1. ASSUME NEW k \in 1 .. Len(s) + j - 1 PROVE u[k] \in ToSet(s) \cup Before(t, j)
    <3>1. CASE k <= Len(s)
      BY <1>3, <1>5, <3>1 DEF ToSet
    <3>2. CASE k > Len(s)
      <4>1. k - Len(s) \in 1 .. j - 1 /\ k - Len(s) \in DOMAIN t /\ Len(s) + (k - Len(s)) = k
        BY <1>3, <3>2
      <4> QED BY <1>6, <4>1 DEF Before
    <3>3. k \in Int /\ Len(s) \in Int
      BY <1>3
    <3> QED BY <3>1, <3>2, <3>3
  <2>2. ASSUME NEW k \in DOMAIN s PROVE s[k] \in Before(u, Len(s) + j)
    BY <1>3, <1>5 DEF Before
  <2>3. ASSUME NEW k \in 1 .. j - 1 PROVE t[k] \in Before(u, Len(s) + j)
    <3>1. Len(s) + k \in 1 .. Len(s) + j - 1 /\ k \in DOMAIN t
      BY <1>3
    <3> QED BY <1>6, <3>1 DEF Before
  <2>4. Before(u, Len(s) + j) \subseteq ToSet(s) \cup Before(t, j)
    BY <1>3, <2>1 DEF Before
  <2>5. ToSet(s) \subseteq Before(u, Len(s) + j)
    BY <2>2 DEF ToSet
  <2>6. Before(t, j) \subseteq Before(u, Len(s) + j)
    BY <2>3 DEF Before
  <2> QED BY <2>4, <2>5, <2>6
<1>11. Joins(u, s, t)
  BY <1>2, <1>5, <1>6, <1>7, <1>8, <1>9, <1>10 DEF Joins
<1> QED BY <1>11 DEF u

\* A list that is not empty is its head before its tail.
LEMMA HeadTail ==
  ASSUME NEW s, IsSeq(s), s # << >>
  PROVE  /\ IsSeq(Tail(s)) /\ Len(s) \in Nat /\ Len(s) > 0 /\ Len(Tail(s)) = Len(s) - 1
         /\ DOMAIN Tail(s) = 1 .. Len(s) - 1 /\ Head(s) = s[1]
         /\ ToSet(s) = {Head(s)} \cup ToSet(Tail(s))
         /\ \A j \in DOMAIN Tail(s) : /\ j + 1 \in DOMAIN s /\ Tail(s)[j] = s[j + 1]
                                      /\ Before(s, j + 1) = {Head(s)} \cup Before(Tail(s), j)
<1> DEFINE T == ToSet(s)
           u == Tail(s)
<1>1. s \in Seq(T)
  BY DEF IsSeq
<1>2. Len(s) \in Nat /\ DOMAIN s = 1 .. Len(s)
  BY SeqDomain
<1>3. /\ Head(s) = s[1] /\ u \in Seq(T) /\ Len(u) = Len(s) - 1
      /\ \A i \in 1 .. Len(u) : u[i] = s[i + 1]
  <2> HIDE DEF T
  <2> QED BY <1>1, HeadTailProperties
<1>4. Len(s) > 0
  <2> HIDE DEF T
  <2> QED BY <1>1, <1>2, EmptySeq
<1>5. DOMAIN u = 1 .. Len(s) - 1 /\ IsSeq(u)
  <2> HIDE DEF T, u
  <2> QED BY <1>3, SeqNarrow, LenProperties
<1> HIDE DEF u
<1>6. ToSet(s) = {Head(s)} \cup ToSet(u)
  <2>1. ASSUME NEW i \in DOMAIN s PROVE s[i] \in {Head(s)} \cup ToSet(u)
    <3>1. CASE i = 1
      BY <1>3, <3>1
    <3>2. CASE i # 1
      <4>1. i - 1 \in DOMAIN u /\ (i - 1) + 1 = i /\ i - 1 \in 1 .. Len(u)
        BY <1>2, <1>3, <1>5, <3>2
      <4> QED BY <1>3, <4>1 DEF ToSet
    <3> QED BY <3>1, <3>2
  <2>2. ASSUME NEW i \in DOMAIN u PROVE u[i] \in ToSet(s)
    <3>1. i + 1 \in DOMAIN s /\ i \in 1 .. Len(u)
      BY <1>2, <1>3, <1>5
    <3> QED BY <1>3, <3>1 DEF ToSet
  <2>3. Head(s) \in ToSet(s)
    BY <1>2, <1>3, <1>4 DEF ToSet
  <2> QED BY <2>1, <2>2, <2>3 DEF ToSet
<1>7. ASSUME NEW j \in DOMAIN u
      PROVE  j + 1 \in DOMAIN s /\ u[j] = s[j + 1] /\ Before(s, j + 1) = {Head(s)} \cup Before(u, j)
  <2>1. j + 1 \in DOMAIN s /\ u[j] = s[j + 1]
    BY <1>2, <1>3, <1>5
  <2>2. ASSUME NEW k \in 1 .. (j + 1) - 1 PROVE s[k] \in {Head(s)} \cup Before(u, j)
    <3>1. CASE k = 1
      BY <1>3, <3>1
    <3>2. CASE k # 1
      <4>1. k - 1 \in 1 .. j - 1 /\ k - 1 \in 1 .. Len(u) /\ (k - 1) + 1 = k
        BY <1>3, <1>5, <3>2
      <4> QED BY <1>3, <4>1 DEF Before
    <3> QED BY <3>1, <3>2
  <2>3. ASSUME NEW k \in 1 .. j - 1 PROVE u[k] \in Before(s, j + 1)
    <3>1. k + 1 \in 1 .. (j + 1) - 1 /\ k \in 1 .. Len(u)
      BY <1>3, <1>5
    <3> QED BY <1>3, <3>1 DEF Before
  <2>4. Head(s) \in Before(s, j + 1)
    BY <1>3, <1>5 DEF Before
  <2>5. Before(s, j + 1) \subseteq {Head(s)} \cup Before(u, j)
    BY <2>2 DEF Before
  <2>6. Before(u, j) \subseteq Before(s, j + 1)
    BY <2>3 DEF Before
  <2> QED BY <2>1, <2>4, <2>5, <2>6
<1> QED BY <1>2, <1>3, <1>4, <1>5, <1>6, <1>7 DEF u

-----------------------------------------------------------------------------
(* Concat. *)

\* What the first n of xss hold.
Held(xss, n) == UNION {ToSet(xss[i]) : i \in 1 .. n}

\* c is the first n of xss, one after the other: it holds what they hold, and
\* before an element stand those of the earlier ones and the earlier ones of
\* its own.
Flat(c, xss, n) ==
  /\ IsSeq(c)
  /\ ToSet(c) = Held(xss, n)
  /\ \A j \in DOMAIN c : \E i \in 1 .. n : \E k \in DOMAIN xss[i] :
       c[j] = xss[i][k] /\ Before(c, j) = Held(xss, i - 1) \cup Before(xss[i], k)

\* What one more list adds.
LEMMA HeldStep ==
  ASSUME NEW n \in Nat, NEW xss
  PROVE  Held(xss, n + 1) = Held(xss, n) \cup ToSet(xss[n + 1])
<1>1. 1 .. n + 1 = (1 .. n) \cup {n + 1}
  OBVIOUS
<1> QED BY <1>1 DEF Held

\* A join that lists everything in order, and one more list.
LEMMA FlatStep ==
  ASSUME NEW n \in Nat, NEW xss, NEW c, Flat(c, xss, n),
         NEW x, x = xss[n + 1], IsSeq(x), NEW d, d = c \o x
  PROVE  Flat(d, xss, n + 1)
<1>1. IsSeq(c) /\ ToSet(c) = Held(xss, n)
  BY DEF Flat
<1>2. /\ IsSeq(d)
      /\ Len(d) = Len(c) + Len(x)
      /\ ToSet(d) = ToSet(c) \cup ToSet(x)
      /\ \A j \in DOMAIN c : d[j] = c[j] /\ Before(d, j) = Before(c, j)
      /\ \A j \in DOMAIN x : /\ d[Len(c) + j] = x[j]
                             /\ Before(d, Len(c) + j) = ToSet(c) \cup Before(x, j)
  <2>1. Joins(c \o x, c, x)
    BY <1>1, Joined
  <2> QED BY <2>1 DEF Joins
<1>3. /\ Len(c) \in Nat /\ DOMAIN c = 1 .. Len(c)
      /\ Len(x) \in Nat /\ DOMAIN x = 1 .. Len(x)
      /\ DOMAIN d = 1 .. Len(d)
  BY <1>1, <1>2, SeqDomain
<1>4. ToSet(d) = Held(xss, n + 1)
  BY <1>1, <1>2, HeldStep
<1>5. ASSUME NEW j \in DOMAIN d
      PROVE  \E i \in 1 .. n + 1 : \E k \in DOMAIN xss[i] :
               d[j] = xss[i][k] /\ Before(d, j) = Held(xss, i - 1) \cup Before(xss[i], k)
  <2>1. CASE j \in DOMAIN c
    <3>1. PICK i \in 1 .. n : \E k \in DOMAIN xss[i] :
            c[j] = xss[i][k] /\ Before(c, j) = Held(xss, i - 1) \cup Before(xss[i], k)
      BY <2>1 DEF Flat
    <3>2. i \in 1 .. n + 1
      OBVIOUS
    <3>3. d[j] = c[j] /\ Before(d, j) = Before(c, j)
      BY <1>2, <2>1
    <3> QED BY <3>1, <3>2, <3>3
  <2>2. CASE j \notin DOMAIN c
    <3>1. j - Len(c) \in DOMAIN x /\ Len(c) + (j - Len(c)) = j
      BY <1>2, <1>3, <2>2
    <3>2. /\ d[j] = x[j - Len(c)]
          /\ Before(d, j) = Held(xss, n) \cup Before(x, j - Len(c))
      BY <1>1, <1>2, <3>1
    <3>3. n + 1 \in 1 .. n + 1 /\ (n + 1) - 1 = n
      OBVIOUS
    <3> QED BY <3>1, <3>2, <3>3
  <2> QED BY <2>1, <2>2
<1> QED BY <1>2, <1>4, <1>5 DEF Flat

\* f is the function Concat recurs on.
Sums(f, xss, n) == f = [i \in 0 .. n |-> IF i = 0 THEN << >> ELSE f[i - 1] \o xss[i]]

\* The partial joins of Concat exist, however many lists there are.
LEMMA SumsExist ==
  ASSUME NEW xss, NEW n \in Nat
  PROVE  \E f : Sums(f, xss, n)
<1> DEFINE S == {m \in Nat : \E f : Sums(f, xss, m)}
<1>1. 0 \in S
  <2>1. Sums([i \in 0 .. 0 |-> << >>], xss, 0)
    BY DEF Sums
  <2> QED BY <2>1
<1>2. ASSUME NEW m \in Nat, m \in S PROVE m + 1 \in S
  <2>1. PICK f : Sums(f, xss, m)
    BY <1>2
  <2> DEFINE g == [i \in 0 .. m + 1 |-> IF i = m + 1 THEN f[m] \o xss[m + 1] ELSE f[i]]
  <2>2. \A i \in 0 .. m : g[i] = f[i]
    OBVIOUS
  <2>3. \A i \in 0 .. m : f[i] = IF i = 0 THEN << >> ELSE f[i - 1] \o xss[i]
    BY <2>1 DEF Sums
  <2>4. \A i \in 0 .. m + 1 : g[i] = IF i = 0 THEN << >> ELSE g[i - 1] \o xss[i]
    <3> SUFFICES ASSUME NEW i \in 0 .. m + 1
                 PROVE  g[i] = IF i = 0 THEN << >> ELSE g[i - 1] \o xss[i]
      OBVIOUS
    <3>1. CASE i = m + 1
      <4>1. i # 0 /\ i - 1 = m /\ m \in 0 .. m
        BY <3>1
      <4>2. g[i] = f[m] \o xss[m + 1]
        BY <3>1
      <4> HIDE DEF g
      <4> QED BY <2>2, <3>1, <4>1, <4>2
    <3>2. CASE i # m + 1
      <4>1. i \in 0 .. m /\ (i # 0 => i - 1 \in 0 .. m)
        BY <3>2
      <4> HIDE DEF g
      <4> QED BY <2>2, <2>3, <4>1
    <3> QED BY <3>1, <3>2
  <2>5. g = [i \in 0 .. m + 1 |-> IF i = 0 THEN << >> ELSE g[i - 1] \o xss[i]]
    BY <2>4
  <2>6. Sums(g, xss, m + 1)
    <3> HIDE DEF g
    <3> QED BY <2>5 DEF Sums
  <2> QED BY <2>6
<1>3. Nat \subseteq S
  <2> HIDE DEF S
  <2> QED BY <1>1, <1>2, NatSets
<1> QED BY <1>3

\* Concat is what it says.
LEMMA ConcatFlat ==
  ASSUME NEW xss, NEW n \in Nat, \A i \in 1 .. n : IsSeq(xss[i])
  PROVE  Flat(Concat(xss, n), xss, n)
<1> DEFINE f == CHOOSE f : Sums(f, xss, n)
<1>1. Sums(f, xss, n)
  BY SumsExist
<1>2. Concat(xss, n) = f[n]
  BY DEF Concat, Sums
<1> HIDE DEF f
<1>3. \A i \in 0 .. n : f[i] = IF i = 0 THEN << >> ELSE f[i - 1] \o xss[i]
  BY <1>1 DEF Sums
<1> DEFINE S == {m \in Nat : m <= n => Flat(f[m], xss, m)}
<1>4. 0 \in S
  <2>1. f[0] = << >>
    BY <1>3
  <2>2. Flat(<< >>, xss, 0)
    BY EmptyIsSeq DEF Flat, Held
  <2> QED BY <2>1, <2>2
<1>5. ASSUME NEW m \in Nat, m \in S PROVE m + 1 \in S
  <2>1. CASE m + 1 <= n
    <3>1. f[m + 1] = f[m] \o xss[m + 1]
      <4>1. m + 1 \in 0 .. n /\ m + 1 # 0 /\ (m + 1) - 1 = m
        BY <2>1
      <4> QED BY <1>3, <4>1
    <3>2. Flat(f[m], xss, m) /\ IsSeq(xss[m + 1])
      BY <1>5, <2>1
    <3>3. Flat(f[m + 1], xss, m + 1)
      BY <3>1, <3>2, FlatStep
    <3> QED BY <3>3
  <2> QED BY <2>1
<1>6. n \in S
  <2> HIDE DEF S
  <2> QED BY <1>4, <1>5, NatSets
<1> QED BY <1>2, <1>6

\* No lists joined.
LEMMA ConcatNone == ASSUME NEW xss PROVE Concat(xss, 0) = << >>
<1> DEFINE f == CHOOSE f : Sums(f, xss, 0)
<1>1. Sums(f, xss, 0) /\ Concat(xss, 0) = f[0]
  BY SumsExist DEF Concat, Sums
<1> HIDE DEF f
<1> QED BY <1>1 DEF Sums

\* One list joined.
LEMMA ConcatOne == ASSUME NEW xss, IsSeq(xss[1]) PROVE Concat(xss, 1) = xss[1]
<1> DEFINE f == CHOOSE f : Sums(f, xss, 1)
<1>1. Sums(f, xss, 1) /\ Concat(xss, 1) = f[1]
  BY SumsExist DEF Concat, Sums
<1> HIDE DEF f
<1>2. f[0] = << >> /\ f[1] = f[0] \o xss[1]
  BY <1>1 DEF Sums
<1>3. << >> \o xss[1] = xss[1]
  BY ConcatEmptySeq DEF IsSeq
<1> QED BY <1>1, <1>2, <1>3

-----------------------------------------------------------------------------
(* Statements in an order in which each can be run. *)

NodeKinds ==
  {"knesset_person", "knesset_party", "knesset_office", "knesset_position_term",
   "cec_list", "cec_election", "budgetkey_gov_decision", "knesset_committee",
   "knesset_bill", "knesset_vote", "knesset_attendance_event"}
EdgeTypes ==
  {"MEMBER_OF", "HELD_OFFICE", "HAS_POSITION_TERM", "ABOUT_OFFICE", "FOR_PARTY",
   "MEMBER_OF_COMMITTEE", "SPONSORED", "CAST_VOTE", "ATTENDED"}

IsNode(s) == s.op = "node" /\ Len(s.key) = 2 /\ s.key[1] \in NodeKinds
IsEdge(s) == s.op = "edge" /\ Len(s.key) = 3 /\ s.key[1] \in EdgeTypes /\ Acceptable(s)

NodeKeys(B) == {s.key : s \in {t \in B : t.op = "node"}}

\* s can be run when the nodes K are there.
Runnable(s, K) ==
  \/ IsNode(s)
  \/ IsEdge(s) /\ {From(s.key), To(s.key)} \subseteq K

\* So can every statement of rs in its turn.
Ordered(K, rs) ==
  IsSeq(rs) /\ \A j \in DOMAIN rs : Runnable(rs[j], K \cup NodeKeys(Before(rs, j)))

\* More nodes to start from do no harm.
LEMMA OrderedMore ==
  ASSUME NEW K, NEW M, K \subseteq M, NEW rs, Ordered(K, rs)
  PROVE  Ordered(M, rs)
BY DEF Ordered, Runnable

\* Nothing to run can be run.
LEMMA OrderedNone == ASSUME NEW K PROVE Ordered(K, << >>)
BY EmptyIsSeq DEF Ordered

\* One statement that can be run.
LEMMA OrderedOne ==
  ASSUME NEW K, NEW s, Runnable(s, K)
  PROVE  Ordered(K, <<s>>)
<1>1. IsSeq(<<s>>) /\ DOMAIN <<s>> = {1} /\ <<s>>[1] = s
  BY OneIsSeq
<1>2. K \subseteq K \cup NodeKeys(Before(<<s>>, 1))
  OBVIOUS
<1> QED BY <1>1, <1>2 DEF Ordered, Runnable

\* Two lists that can be run one after the other.
LEMMA OrderedThen ==
  ASSUME NEW K, NEW s, Ordered(K, s), NEW t, Ordered(K \cup NodeKeys(ToSet(s)), t)
  PROVE  Ordered(K, s \o t)
<1> DEFINE u == s \o t
<1>1. Joins(u, s, t)
  BY Joined DEF Ordered
<1> HIDE DEF u
<1>2. /\ IsSeq(u) /\ Len(u) = Len(s) + Len(t)
      /\ Len(s) \in Nat /\ DOMAIN s = 1 .. Len(s)
      /\ Len(t) \in Nat /\ DOMAIN t = 1 .. Len(t)
      /\ DOMAIN u = 1 .. Len(u)
  BY <1>1, SeqDomain DEF Joins, Ordered
<1>3. ASSUME NEW j \in DOMAIN u PROVE Runnable(u[j], K \cup NodeKeys(Before(u, j)))
  <2>1. CASE j \in DOMAIN s
    BY <1>1, <2>1 DEF Joins, Ordered
  <2>2. CASE j \notin DOMAIN s
    <3> DEFINE k == j - Len(s)
    <3>1. k \in DOMAIN t /\ j = Len(s) + k
      BY <1>2, <2>2
    <3> HIDE DEF k
    <3>2. u[j] = t[k] /\ Before(u, j) = ToSet(s) \cup Before(t, k)
      BY <1>1, <3>1 DEF Joins
    <3>3. NodeKeys(Before(u, j)) = NodeKeys(ToSet(s)) \cup NodeKeys(Before(t, k))
      BY <3>2 DEF NodeKeys
    <3>4. Runnable(t[k], (K \cup NodeKeys(ToSet(s))) \cup NodeKeys(Before(t, k)))
      BY <3>1 DEF Ordered
    <3>5. (K \cup NodeKeys(ToSet(s))) \cup NodeKeys(Before(t, k)) = K \cup NodeKeys(Before(u, j))
      BY <3>3
    <3> QED BY <3>2, <3>4, <3>5
  <2> QED BY <2>1, <2>2
<1> QED BY <1>2, <1>3 DEF Ordered, u

\* What is left after the head was run can be run.
LEMMA OrderedTail ==
  ASSUME NEW K, NEW rs, Ordered(K, rs), rs # << >>
  PROVE  /\ Runnable(Head(rs), K)
         /\ Ordered(K \cup NodeKeys({Head(rs)}), Tail(rs))
<1>1. /\ IsSeq(rs) /\ IsSeq(Tail(rs)) /\ Len(rs) \in Nat /\ Len(rs) > 0 /\ Head(rs) = rs[1]
      /\ DOMAIN Tail(rs) = 1 .. Len(rs) - 1
      /\ \A j \in DOMAIN Tail(rs) : /\ j + 1 \in DOMAIN rs /\ Tail(rs)[j] = rs[j + 1]
                                    /\ Before(rs, j + 1) = {Head(rs)} \cup Before(Tail(rs), j)
  BY HeadTail DEF Ordered
<1>2. Runnable(Head(rs), K)
  <2>1. 1 \in DOMAIN rs
    BY <1>1, SeqDomain
  <2>2. Before(rs, 1) = {}
    BY DEF Before
  <2>3. NodeKeys({}) = {}
    BY DEF NodeKeys
  <2>4. Runnable(rs[1], K \cup NodeKeys(Before(rs, 1)))
    BY <2>1 DEF Ordered
  <2>5. K \cup NodeKeys(Before(rs, 1)) = K
    BY <2>2, <2>3
  <2> QED BY <1>1, <2>4, <2>5
<1>3. ASSUME NEW j \in DOMAIN Tail(rs)
      PROVE  Runnable(Tail(rs)[j], (K \cup NodeKeys({Head(rs)})) \cup NodeKeys(Before(Tail(rs), j)))
  <2>1. Runnable(rs[j + 1], K \cup NodeKeys(Before(rs, j + 1)))
    BY <1>1 DEF Ordered
  <2>2. NodeKeys({Head(rs)} \cup Before(Tail(rs), j)) = NodeKeys({Head(rs)}) \cup NodeKeys(Before(Tail(rs), j))
    BY DEF NodeKeys
  <2>3. K \cup NodeKeys(Before(rs, j + 1)) = (K \cup NodeKeys({Head(rs)})) \cup NodeKeys(Before(Tail(rs), j))
    BY <1>1, <2>2
  <2> QED BY <1>1, <2>1, <2>3
<1> QED BY <1>1, <1>2, <1>3 DEF Ordered

\* Lists that can each be run can be run joined.
LEMMA OrderedConcat ==
  ASSUME NEW K, NEW xss, NEW n \in Nat, \A i \in 1 .. n : Ordered(K, xss[i])
  PROVE  /\ Ordered(K, Concat(xss, n))
         /\ ToSet(Concat(xss, n)) = UNION {ToSet(xss[i]) : i \in 1 .. n}
<1> DEFINE c == Concat(xss, n)
<1>1. Flat(c, xss, n)
  BY ConcatFlat DEF Ordered
<1> HIDE DEF c
<1>2. ASSUME NEW j \in DOMAIN c PROVE Runnable(c[j], K \cup NodeKeys(Before(c, j)))
  <2>1. PICK i \in 1 .. n : \E k \in DOMAIN xss[i] :
          c[j] = xss[i][k] /\ Before(c, j) = Held(xss, i - 1) \cup Before(xss[i], k)
    BY <1>1 DEF Flat
  <2>2. PICK k \in DOMAIN xss[i] :
          c[j] = xss[i][k] /\ Before(c, j) = Held(xss, i - 1) \cup Before(xss[i], k)
    BY <2>1
  <2>3. Runnable(xss[i][k], K \cup NodeKeys(Before(xss[i], k)))
    BY DEF Ordered
  <2>4. K \cup NodeKeys(Before(xss[i], k)) \subseteq K \cup NodeKeys(Before(c, j))
    BY <2>2 DEF NodeKeys
  <2> QED BY <2>2, <2>3, <2>4 DEF Runnable
<1>3. Ordered(K, c) /\ ToSet(c) = UNION {ToSet(xss[i]) : i \in 1 .. n}
  BY <1>1, <1>2 DEF Ordered, Flat, Held
<1> QED BY <1>3 DEF c

\* Lists written out, as lists joined.
LEMMA TwoJoined == ASSUME NEW s, NEW t PROVE <<s, t>> = <<s>> \o <<t>>
<1> DEFINE T == {s, t}
           u == <<s>> \o <<t>>
           v == <<s, t>>
<1>1. <<s>> \in Seq(T) /\ <<t>> \in Seq(T) /\ v \in Seq(T)
  OBVIOUS
<1>2. Len(<<s>>) = 1 /\ Len(<<t>>) = 1 /\ Len(v) = 2 /\ v[1] = s /\ v[2] = t
  OBVIOUS
<1>3. /\ u \in Seq(T) /\ Len(u) = Len(<<s>>) + Len(<<t>>)
      /\ \A i \in 1 .. Len(<<s>>) + Len(<<t>>) :
           u[i] = IF i <= Len(<<s>>) THEN <<s>>[i] ELSE <<t>>[i - Len(<<s>>)]
  <2> HIDE DEF T
  <2> QED BY <1>1, ConcatProperties
<1>4. u[1] = s /\ u[2] = t
  BY <1>2, <1>3
<1>5. Len(u) = Len(v) /\ \A i \in 1 .. Len(u) : u[i] = v[i]
  <2> HIDE DEF u, v
  <2> QED BY <1>2, <1>3, <1>4
<1>6. u = v
  <2> HIDE DEF u, v, T
  <2> QED BY <1>1, <1>3, <1>5, SeqEqual
<1> QED BY <1>6

\* The same for three.
LEMMA ThreeJoined == ASSUME NEW s, NEW t, NEW w PROVE <<s, t, w>> = <<s, t>> \o <<w>>
<1> DEFINE T == {s, t, w}
           p == <<s, t>>
           u == p \o <<w>>
           v == <<s, t, w>>
<1>1. p \in Seq(T) /\ <<w>> \in Seq(T) /\ v \in Seq(T)
  OBVIOUS
<1>2. /\ Len(p) = 2 /\ Len(<<w>>) = 1 /\ Len(v) = 3
      /\ v[1] = s /\ v[2] = t /\ v[3] = w /\ p[1] = s /\ p[2] = t
  OBVIOUS
<1>3. /\ u \in Seq(T) /\ Len(u) = Len(p) + Len(<<w>>)
      /\ \A i \in 1 .. Len(p) + Len(<<w>>) : u[i] = IF i <= Len(p) THEN p[i] ELSE <<w>>[i - Len(p)]
  <2> HIDE DEF T, p
  <2> QED BY <1>1, ConcatProperties
<1>4. u[1] = s /\ u[2] = t /\ u[3] = w
  <2> HIDE DEF u, p
  <2> QED BY <1>2, <1>3
<1>5. Len(u) = Len(v) /\ \A i \in 1 .. Len(u) : u[i] = v[i]
  <2> HIDE DEF u, v, p
  <2> QED BY <1>2, <1>3, <1>4
<1>6. u = v
  <2> HIDE DEF u, v, T
  <2> QED BY <1>1, <1>3, <1>5, SeqEqual
<1> QED BY <1>6

\* What a list of two lists.
LEMMA TwoSet == ASSUME NEW s, NEW t PROVE IsSeq(<<s, t>>) /\ ToSet(<<s, t>>) = {s, t}
<1>1. Joins(<<s>> \o <<t>>, <<s>>, <<t>>)
  BY Joined, OneIsSeq
<1>2. Joins(<<s, t>>, <<s>>, <<t>>)
  BY <1>1, TwoJoined
<1> QED BY <1>2, OneIsSeq DEF Joins

\* What a list of three lists.
LEMMA ThreeSet ==
  ASSUME NEW s, NEW t, NEW w PROVE IsSeq(<<s, t, w>>) /\ ToSet(<<s, t, w>>) = {s, t, w}
<1>1. Joins(<<s, t>> \o <<w>>, <<s, t>>, <<w>>)
  BY Joined, OneIsSeq, TwoSet
<1>2. Joins(<<s, t, w>>, <<s, t>>, <<w>>)
  BY <1>1, ThreeJoined
<1> QED BY <1>2, OneIsSeq, TwoSet DEF Joins

\* Five written out, as two and three.
LEMMA FiveJoined ==
  ASSUME NEW a, NEW b, NEW c, NEW d, NEW e PROVE <<a, b, c, d, e>> = <<a, b>> \o <<c, d, e>>
<1> DEFINE T == {a, b, c, d, e}
           p == <<a, b>>
           q == <<c, d, e>>
           u == p \o q
           v == <<a, b, c, d, e>>
<1>1. p \in Seq(T) /\ q \in Seq(T) /\ v \in Seq(T)
  <2>1. a \in T /\ b \in T /\ c \in T /\ d \in T /\ e \in T
    OBVIOUS
  <2> HIDE DEF T
  <2>2. p \in Seq(T)
    BY <2>1
  <2>3. q \in Seq(T)
    BY <2>1
  <2>4. v \in Seq(T)
    BY <2>1, SMTT(60)
  <2> QED BY <2>2, <2>3, <2>4
<1>2. /\ Len(p) = 2 /\ Len(q) = 3 /\ Len(v) = 5
      /\ v[1] = a /\ v[2] = b /\ v[3] = c /\ v[4] = d /\ v[5] = e
      /\ p[1] = a /\ p[2] = b /\ q[1] = c /\ q[2] = d /\ q[3] = e
  OBVIOUS
<1>3. /\ u \in Seq(T) /\ Len(u) = Len(p) + Len(q)
      /\ \A i \in 1 .. Len(p) + Len(q) : u[i] = IF i <= Len(p) THEN p[i] ELSE q[i - Len(p)]
  <2> HIDE DEF T, p, q
  <2> QED BY <1>1, ConcatProperties
<1>4. u[1] = a /\ u[2] = b /\ u[3] = c /\ u[4] = d /\ u[5] = e
  <2> HIDE DEF u, p, q
  <2> QED BY <1>2, <1>3
<1>5. Len(u) = Len(v) /\ \A i \in 1 .. Len(u) : u[i] = v[i]
  <2> HIDE DEF u, v, p, q
  <2> QED BY <1>2, <1>3, <1>4
<1>6. u = v
  <2> HIDE DEF u, v, T
  <2> QED BY <1>1, <1>3, <1>5, SeqEqual
<1> QED BY <1>6

\* What a list of five lists.
LEMMA FiveSet ==
  ASSUME NEW a, NEW b, NEW c, NEW d, NEW e
  PROVE  ToSet(<<a, b, c, d, e>>) = {a, b, c, d, e}
<1>1. Joins(<<a, b>> \o <<c, d, e>>, <<a, b>>, <<c, d, e>>)
  BY Joined, TwoSet, ThreeSet
<1>2. Joins(<<a, b, c, d, e>>, <<a, b>>, <<c, d, e>>)
  <2>1. <<a, b, c, d, e>> = <<a, b>> \o <<c, d, e>>
    BY FiveJoined
  <2> QED BY <1>1, <2>1, Zenon
<1>3. ToSet(<<a, b, c, d, e>>) = ToSet(<<a, b>>) \cup ToSet(<<c, d, e>>)
  BY <1>2 DEF Joins
<1> QED BY <1>3, TwoSet, ThreeSet

\* Two statements, the second on what the first left.
LEMMA OrderedTwo ==
  ASSUME NEW K, NEW s, NEW t, Runnable(s, K), Runnable(t, K \cup NodeKeys({s}))
  PROVE  Ordered(K, <<s, t>>)
<1>1. <<s, t>> = <<s>> \o <<t>>
  BY TwoJoined
<1>2. Ordered(K, <<s>>) /\ Ordered(K \cup NodeKeys({s}), <<t>>)
  BY OrderedOne
<1>3. ToSet(<<s>>) = {s}
  BY OneIsSeq
<1> QED BY <1>1, <1>2, <1>3, OrderedThen

\* Three, each on what is before it.
LEMMA OrderedThree ==
  ASSUME NEW K, NEW s, NEW t, NEW u,
         Runnable(s, K), Runnable(t, K \cup NodeKeys({s})),
         Runnable(u, K \cup NodeKeys({s, t}))
  PROVE  Ordered(K, <<s, t, u>>)
<1>1. <<s, t, u>> = <<s, t>> \o <<u>>
  BY ThreeJoined
<1>2. Ordered(K, <<s, t>>) /\ Ordered(K \cup NodeKeys({s, t}), <<u>>)
  BY OrderedOne, OrderedTwo
<1>3. ToSet(<<s, t>>) = {s, t}
  BY TwoSet
<1> QED BY <1>1, <1>2, <1>3, OrderedThen

\* What is known of a statement by how it is built.
LEMMA NodeRunnable ==
  ASSUME NEW K, NEW kind \in NodeKinds, NEW ext, NEW props
  PROVE  /\ Runnable(Node(<<kind, ext>>, props), K)
         /\ NodeKeys({Node(<<kind, ext>>, props)}) = {<<kind, ext>>}
BY DEF Runnable, IsNode, Node, NodeKeys

\* Five, the last three on what the first two left.
LEMMA OrderedFive ==
  ASSUME NEW K, NEW a, NEW b, NEW c, NEW d, NEW e,
         Ordered(K, <<a, b>>), Ordered(K \cup NodeKeys({a, b}), <<c, d, e>>)
  PROVE  Ordered(K, <<a, b, c, d, e>>)
<1>1. ToSet(<<a, b>>) = {a, b}
  BY TwoSet
<1>2. Ordered(K, <<a, b>> \o <<c, d, e>>)
  BY <1>1, OrderedThen
<1>3. <<a, b, c, d, e>> = <<a, b>> \o <<c, d, e>>
  BY FiveJoined
<1> QED BY <1>2, <1>3, Zenon

\* An edge between known nodes is drawn.
LEMMA EdgeRunnable ==
  ASSUME NEW K, NEW type \in EdgeTypes, NEW from \in K, NEW to \in K, NEW props,
         Acceptable(Edge(type, from, to, props))
  PROVE  Runnable(Edge(type, from, to, props), K)
BY DEF Runnable, IsEdge, Edge, From, To

\* Two nodes, and an edge between them.
LEMMA LinkOrdered ==
  ASSUME NEW K, NEW kind1 \in NodeKinds, NEW ext1, NEW props1,
         NEW kind2 \in NodeKinds, NEW ext2, NEW props2,
         NEW from \in {<<kind1, ext1>>, <<kind2, ext2>>},
         NEW to \in {<<kind1, ext1>>, <<kind2, ext2>>},
         NEW type \in EdgeTypes, NEW props, Acceptable(Edge(type, from, to, props))
  PROVE  Ordered(K, <<Node(<<kind1, ext1>>, props1), Node(<<kind2, ext2>>, props2),
                      Edge(type, from, to, props)>>)
<1> DEFINE n1 == Node(<<kind1, ext1>>, props1)
           n2 == Node(<<kind2, ext2>>, props2)
           e  == Edge(type, from, to, props)
<1>1. Runnable(n1, K) /\ NodeKeys({n1}) = {<<kind1, ext1>>}
  BY NodeRunnable
<1>2. Runnable(n2, K \cup NodeKeys({n1})) /\ NodeKeys({n2}) = {<<kind2, ext2>>}
  BY NodeRunnable
<1> HIDE DEF n1, n2
<1>3. NodeKeys({n1, n2}) = {<<kind1, ext1>>, <<kind2, ext2>>}
  <2>1. NodeKeys({n1, n2}) = NodeKeys({n1}) \cup NodeKeys({n2})
    BY DEF NodeKeys
  <2> QED BY <1>1, <1>2, <2>1
<1>4. Runnable(e, K \cup NodeKeys({n1, n2}))
  <2>1. from \in K \cup NodeKeys({n1, n2}) /\ to \in K \cup NodeKeys({n1, n2})
    BY <1>3
  <2> QED BY <2>1, EdgeRunnable
<1> HIDE DEF e
<1>5. Ordered(K, <<n1, n2, e>>)
  BY <1>1, <1>2, <1>4, OrderedThree
<1> QED BY <1>5 DEF n1, n2, e

\* A node, and an edge from it to one that is there, or the other way.
LEMMA HookOrdered ==
  ASSUME NEW K, NEW kind \in NodeKinds, NEW ext, NEW props1,
         NEW from \in K \cup {<<kind, ext>>}, NEW to \in K \cup {<<kind, ext>>},
         NEW type \in EdgeTypes, NEW props, Acceptable(Edge(type, from, to, props))
  PROVE  Ordered(K, <<Node(<<kind, ext>>, props1), Edge(type, from, to, props)>>)
<1> DEFINE n == Node(<<kind, ext>>, props1)
           e == Edge(type, from, to, props)
<1>1. Runnable(n, K) /\ NodeKeys({n}) = {<<kind, ext>>}
  BY NodeRunnable
<1> HIDE DEF n
<1>2. Runnable(e, K \cup NodeKeys({n}))
  <2>1. from \in K \cup NodeKeys({n}) /\ to \in K \cup NodeKeys({n})
    BY <1>1
  <2> QED BY <2>1, EdgeRunnable
<1> HIDE DEF e
<1>3. Ordered(K, <<n, e>>)
  BY <1>1, <1>2, OrderedTwo
<1> QED BY <1>3 DEF n, e

\* A row of one node.
LEMMA OneNodeOrdered ==
  ASSUME NEW K, NEW kind \in NodeKinds, NEW ext, NEW props
  PROVE  Ordered(K, <<Node(<<kind, ext>>, props)>>)
BY NodeRunnable, OrderedOne

-----------------------------------------------------------------------------
(* What the rows state. *)

\* rs states S, each statement in its turn.
States(rs, S) == Ordered({}, rs) /\ ToSet(rs) = S

\* What a conditional list states.
LEMMA WhenStates ==
  ASSUME NEW c \in BOOLEAN, NEW rs, NEW S, c => States(rs, S)
  PROVE  States(When(c, rs), IF c THEN S ELSE {})
<1>1. States(<< >>, {})
  BY EmptyIsSeq, OrderedNone DEF States
<1> QED BY <1>1 DEF When

\* What a list of one states.
LEMMA OnlyStates ==
  ASSUME NEW xss, NEW S, States(xss[1], S)
  PROVE  States(Concat(xss, 1), S)
BY ConcatOne, Zenon DEF States, Ordered

\* What a row of one node states.
LEMMA OneNodeStates ==
  ASSUME NEW kind \in NodeKinds, NEW ext, NEW props
  PROVE  States(<<Node(<<kind, ext>>, props)>>, {Node(<<kind, ext>>, props)})
BY OneNodeOrdered, OneIsSeq DEF States

\* What two stubs and an edge state.
LEMMA LinkStates ==
  ASSUME NEW kind1 \in NodeKinds, NEW ext1, NEW props1,
         NEW kind2 \in NodeKinds, NEW ext2, NEW props2,
         NEW from \in {<<kind1, ext1>>, <<kind2, ext2>>},
         NEW to \in {<<kind1, ext1>>, <<kind2, ext2>>},
         NEW type \in EdgeTypes, NEW props, Acceptable(Edge(type, from, to, props))
  PROVE  States(<<Node(<<kind1, ext1>>, props1), Node(<<kind2, ext2>>, props2),
                  Edge(type, from, to, props)>>,
                {Node(<<kind1, ext1>>, props1), Node(<<kind2, ext2>>, props2),
                 Edge(type, from, to, props)})
BY LinkOrdered, ThreeSet DEF States

\* Person rows.
LEMMA PeopleRow ==
  ASSUME NEW row
  PROVE  States(RowStatements("people", row),
                IF ParsePersons(row)
                THEN {Node(Person(row.PersonID), [name |-> NonNull(row.Name, <<"person", row.PersonID>>)])}
                ELSE {})
<1> DEFINE b == [person_id |-> Person(row.PersonID),
                 canonical_name |-> NonNull(row.Name, <<"person", row.PersonID>>)]
           xss == [i \in DOMAIN <<b>> |-> UpsertPerson(<<b>>[i])]
           S == {Node(Person(row.PersonID), [name |-> NonNull(row.Name, <<"person", row.PersonID>>)])}
<1>1. EachOf(NormalizePerson(row), UpsertPerson) = Concat(xss, 1)
  BY OneIsSeq DEF EachOf, NormalizePerson
<1>2. xss[1] = UpsertPerson(b)
  BY OneIsSeq
<1>3. States(UpsertPerson(b), S)
  <2>1. "knesset_person" \in NodeKinds
    BY DEF NodeKinds
  <2> QED BY <2>1, OneNodeStates DEF UpsertPerson, Person
<1> HIDE DEF b, xss, S
<1>4. States(EachOf(NormalizePerson(row), UpsertPerson), S)
  BY <1>1, <1>2, <1>3, OnlyStates
<1>5. RowStatements("people", row) = When(ParsePersons(row), EachOf(NormalizePerson(row), UpsertPerson))
  BY DEF RowStatements
<1>6. ParsePersons(row) \in BOOLEAN
  BY DEF ParsePersons
<1> QED BY <1>4, <1>5, <1>6, WhenStates DEF S

\* Government decision rows.
LEMMA DecisionsRow ==
  ASSUME NEW row
  PROVE  States(RowStatements("gov_decisions", row),
                IF ParseResponse(row)
                THEN {Node(<<"budgetkey_gov_decision", row.id>>,
                           [decision_number |-> row.number, title |-> row.title])}
                ELSE {})
<1> DEFINE b == [government_decision_id |-> <<"budgetkey_gov_decision", row.id>>,
                 decision_number |-> row.number, title |-> row.title]
           xss == [i \in DOMAIN <<b>> |-> UpsertGovernmentDecision(<<b>>[i])]
           S == {Node(<<"budgetkey_gov_decision", row.id>>,
                           [decision_number |-> row.number, title |-> row.title])}
<1>1. EachOf(NormalizeDecision(row), UpsertGovernmentDecision) = Concat(xss, 1)
  BY OneIsSeq DEF EachOf, NormalizeDecision
<1>2. xss[1] = UpsertGovernmentDecision(b)
  BY OneIsSeq
<1>3. States(UpsertGovernmentDecision(b), S)
  <2>1. "budgetkey_gov_decision" \in NodeKinds
    BY DEF NodeKinds
  <2> QED BY <2>1, OneNodeStates DEF UpsertGovernmentDecision
<1> HIDE DEF b, xss, S
<1>4. States(EachOf(NormalizeDecision(row), UpsertGovernmentDecision), S)
  BY <1>1, <1>2, <1>3, OnlyStates
<1>5. RowStatements("gov_decisions", row) = When(ParseResponse(row), EachOf(NormalizeDecision(row), UpsertGovernmentDecision))
  BY DEF RowStatements
<1>6. ParseResponse(row) \in BOOLEAN
  BY DEF ParseResponse
<1> QED BY <1>4, <1>5, <1>6, WhenStates DEF S

\* Committee rows.
LEMMA CommitteesRow ==
  ASSUME NEW row
  PROVE  States(RowStatements("committees", row),
                IF ParseCommittees(row)
                THEN {Node(Committee(row.CommitteeID),
                           [canonical_name |-> NonNull(row.Name, <<"committee", row.CommitteeID>>),
                            hebrew_name |-> row.Name])}
                ELSE {})
<1> DEFINE b == [committee_id |-> Committee(row.CommitteeID), hebrew_name |-> row.Name,
                 canonical_name |-> NonNull(row.Name, <<"committee", row.CommitteeID>>)]
           xss == [i \in DOMAIN <<b>> |-> UpsertCommittee(<<b>>[i])]
           S == {Node(Committee(row.CommitteeID),
                           [canonical_name |-> NonNull(row.Name, <<"committee", row.CommitteeID>>),
                            hebrew_name |-> row.Name])}
<1>1. EachOf(NormalizeCommittee(row), UpsertCommittee) = Concat(xss, 1)
  BY OneIsSeq DEF EachOf, NormalizeCommittee
<1>2. xss[1] = UpsertCommittee(b)
  BY OneIsSeq
<1>3. States(UpsertCommittee(b), S)
  <2>1. "knesset_committee" \in NodeKinds
    BY DEF NodeKinds
  <2> QED BY <2>1, OneNodeStates DEF UpsertCommittee, Committee
<1> HIDE DEF b, xss, S
<1>4. States(EachOf(NormalizeCommittee(row), UpsertCommittee), S)
  BY <1>1, <1>2, <1>3, OnlyStates
<1>5. RowStatements("committees", row) = When(ParseCommittees(row), EachOf(NormalizeCommittee(row), UpsertCommittee))
  BY DEF RowStatements
<1>6. ParseCommittees(row) \in BOOLEAN
  BY DEF ParseCommittees
<1> QED BY <1>4, <1>5, <1>6, WhenStates DEF S

\* Bill rows.
LEMMA BillsRow ==
  ASSUME NEW row
  PROVE  States(RowStatements("sponsorships", row),
                IF ParseBills(row)
                THEN {Node(Bill(row.BillID), [title |-> NonNull(row.Name, <<"bill", row.BillID>>),
                                            status |-> row.StatusID])}
                ELSE {})
<1> DEFINE b == [bill_id |-> Bill(row.BillID), title |-> NonNull(row.Name, <<"bill", row.BillID>>),
                 status |-> row.StatusID]
           xss == [i \in DOMAIN <<b>> |-> UpsertBill(<<b>>[i])]
           S == {Node(Bill(row.BillID), [title |-> NonNull(row.Name, <<"bill", row.BillID>>),
                                            status |-> row.StatusID])}
<1>1. EachOf(NormalizeBill(row), UpsertBill) = Concat(xss, 1)
  BY OneIsSeq DEF EachOf, NormalizeBill
<1>2. xss[1] = UpsertBill(b)
  BY OneIsSeq
<1>3. States(UpsertBill(b), S)
  <2>1. "knesset_bill" \in NodeKinds
    BY DEF NodeKinds
  <2> QED BY <2>1, OneNodeStates DEF UpsertBill, Bill
<1> HIDE DEF b, xss, S
<1>4. States(EachOf(NormalizeBill(row), UpsertBill), S)
  BY <1>1, <1>2, <1>3, OnlyStates
<1>5. RowStatements("sponsorships", row) = When(ParseBills(row), EachOf(NormalizeBill(row), UpsertBill))
  BY DEF RowStatements
<1>6. ParseBills(row) \in BOOLEAN
  BY DEF ParseBills
<1> QED BY <1>4, <1>5, <1>6, WhenStates DEF S

\* Election result rows.
LEMMA ElectionsRow ==
  ASSUME NEW row
  PROVE  States(RowStatements("elections", row),
                IF ParseTbody(row) /\ row.ballot_letters # None
                THEN {Node(ResolvePartyId(row.ballot_letters),
                           [name |-> row.list_name, abbreviation |-> row.ballot_letters]),
                      Node(<<"cec_election", <<Knesset, row.ballot_letters>>>>,
                           [list_party_id |-> ResolvePartyId(row.ballot_letters),
                            votes |-> NonNull(row.votes, 0), seats_won |-> row.seats_won,
                            passed_threshold |-> PassedThreshold(row)]),
                      Edge("FOR_PARTY", <<"cec_election", <<Knesset, row.ballot_letters>>>>,
                           ResolvePartyId(row.ballot_letters), << >>)}
                ELSE {})
<1> DEFINE b == [election_result_id |-> <<"cec_election", <<Knesset, row.ballot_letters>>>>,
                 list_party_id |-> ResolvePartyId(row.ballot_letters),
                 list_name |-> row.list_name, ballot_letters |-> row.ballot_letters,
                 votes |-> NonNull(row.votes, 0), seats_won |-> row.seats_won,
                 passed_threshold |-> PassedThreshold(row)]
           xss == [i \in DOMAIN <<b>> |-> UpsertElectionResult(<<b>>[i])]
           S == {Node(ResolvePartyId(row.ballot_letters),
                           [name |-> row.list_name, abbreviation |-> row.ballot_letters]),
                 Node(<<"cec_election", <<Knesset, row.ballot_letters>>>>,
                           [list_party_id |-> ResolvePartyId(row.ballot_letters),
                            votes |-> NonNull(row.votes, 0), seats_won |-> row.seats_won,
                            passed_threshold |-> PassedThreshold(row)]),
                 Edge("FOR_PARTY", <<"cec_election", <<Knesset, row.ballot_letters>>>>,
                           ResolvePartyId(row.ballot_letters), << >>)}
<1>1. CASE row.ballot_letters # None
  <2>1. EachOf(NormalizeElectionResult(row), UpsertElectionResult) = Concat(xss, 1)
    BY <1>1, OneIsSeq DEF EachOf, NormalizeElectionResult, When
  <2>2. xss[1] = UpsertElectionResult(b)
    BY OneIsSeq
  <2>3. States(UpsertElectionResult(b), S)
    <3>a. PICK kind \in {"knesset_party", "cec_list"} :
            \E ext : ResolvePartyId(row.ballot_letters) = <<kind, ext>>
      BY DEF ResolvePartyId, Party
    <3>1. PICK ext : ResolvePartyId(row.ballot_letters) = <<kind, ext>>
      BY <3>a
    <3>2. kind \in NodeKinds /\ "cec_election" \in NodeKinds /\ "FOR_PARTY" \in EdgeTypes
      BY DEF NodeKinds, EdgeTypes
    <3>3. Acceptable(Edge("FOR_PARTY", b.election_result_id, b.list_party_id, << >>))
      BY DEF Acceptable, Edge
    <3> QED BY <3>1, <3>2, <3>3, LinkStates DEF UpsertElectionResult
  <2> HIDE DEF b, xss, S
  <2>4. States(EachOf(NormalizeElectionResult(row), UpsertElectionResult), S)
    BY <2>1, <2>2, <2>3, OnlyStates
  <2>5. ParseTbody(row) \in BOOLEAN
    BY DEF ParseTbody
  <2>6. States(RowStatements("elections", row), IF ParseTbody(row) THEN S ELSE {})
    <3>1. RowStatements("elections", row)
            = When(ParseTbody(row), EachOf(NormalizeElectionResult(row), UpsertElectionResult))
      BY DEF RowStatements
    <3> QED BY <2>4, <2>5, <3>1, WhenStates
  <2> QED BY <1>1, <2>6 DEF S
<1>2. CASE row.ballot_letters = None
  <2>1. RowStatements("elections", row)
          = When(ParseTbody(row), EachOf(NormalizeElectionResult(row), UpsertElectionResult))
    BY DEF RowStatements
  <2>2. EachOf(NormalizeElectionResult(row), UpsertElectionResult) = << >>
    BY <1>2, EmptyIsSeq, ConcatNone DEF EachOf, NormalizeElectionResult, When
  <2>3. States(<< >>, {})
    BY EmptyIsSeq, OrderedNone DEF States
  <2> QED BY <1>2, <2>1, <2>2, <2>3 DEF When
<1> QED BY <1>1, <1>2

\* Bill initiator rows: the stubs come before the edge.
LEMMA InitiatorsRow ==
  ASSUME NEW row
  PROVE  States(RowStatements("bill_initiators", row),
                IF ParseInitiators(row)
                THEN {PersonStub(Person(row.PersonID)), BillStub(Bill(row.BillID)),
                      Edge("SPONSORED", Person(row.PersonID), Bill(row.BillID), << >>)}
                ELSE {})
<1> DEFINE b == [person_id |-> Person(row.PersonID), bill_id |-> Bill(row.BillID)]
           xss == [i \in DOMAIN <<b>> |-> UpsertSponsorship(<<b>>[i])]
           S == {PersonStub(Person(row.PersonID)), BillStub(Bill(row.BillID)),
                      Edge("SPONSORED", Person(row.PersonID), Bill(row.BillID), << >>)}
<1>1. EachOf(NormalizeInitiator(row), UpsertSponsorship) = Concat(xss, 1)
  BY OneIsSeq DEF EachOf, NormalizeInitiator
<1>2. xss[1] = UpsertSponsorship(b)
  BY OneIsSeq
<1>3. States(UpsertSponsorship(b), S)
  <2>1. "knesset_person" \in NodeKinds /\ "knesset_bill" \in NodeKinds /\ "SPONSORED" \in EdgeTypes
    BY DEF NodeKinds, EdgeTypes
  <2>2. Acceptable(Edge("SPONSORED", b.person_id, b.bill_id, << >>))
    BY DEF Acceptable, Edge
  <2> QED BY <2>1, <2>2, LinkStates DEF UpsertSponsorship, PersonStub, BillStub, Person, Bill
<1> HIDE DEF b, xss, S
<1>4. States(EachOf(NormalizeInitiator(row), UpsertSponsorship), S)
  BY <1>1, <1>2, <1>3, OnlyStates
<1>5. RowStatements("bill_initiators", row)
        = When(ParseInitiators(row), EachOf(NormalizeInitiator(row), UpsertSponsorship))
  BY DEF RowStatements
<1>6. ParseInitiators(row) \in BOOLEAN
  BY DEF ParseInitiators
<1> QED BY <1>4, <1>5, <1>6, WhenStates DEF S

\* The dates a membership's row states.
MembershipDates(row) == [valid_from |-> row.start_date, valid_to |-> row.finish_date]

\* The edges of a row of memberships: one when it has a start and its member is known.
Sits(row) ==
  ParseMemberships(row) /\ row.start_date # None /\ row.mk_individual_id \in DOMAIN MkLookup

\* Committee membership rows.
LEMMA MembershipsRow ==
  ASSUME NEW row
  PROVE  States(RowStatements("committee_memberships", row),
                IF Sits(row)
                THEN {PersonStub(Person(MkLookup[row.mk_individual_id])),
                      Node(Committee(row.committee_id),
                           [canonical_name |-> None, hebrew_name |-> row.committee_name]),
                      Edge("MEMBER_OF_COMMITTEE", Person(MkLookup[row.mk_individual_id]),
                           Committee(row.committee_id), MembershipDates(row))}
                ELSE {})
<1> DEFINE person == Person(MkLookup[row.mk_individual_id])
           b == [person_id |-> person,
                 committee_id |-> Committee(row.committee_id),
                 committee_name |-> row.committee_name,
                 dates |-> [valid_from |-> row.start_date, valid_to |-> row.finish_date]]
           bss == [i \in DOMAIN <<person>> |->
                     <<[person_id |-> <<person>>[i],
                        committee_id |-> Committee(row.committee_id),
                        committee_name |-> row.committee_name,
                        dates |-> [valid_from |-> row.start_date,
                                   valid_to |-> row.finish_date]]>>]
           xss == [i \in DOMAIN <<b>> |-> UpsertMembership(<<b>>[i])]
           S == {PersonStub(person),
                 Node(Committee(row.committee_id),
                      [canonical_name |-> None, hebrew_name |-> row.committee_name]),
                 Edge("MEMBER_OF_COMMITTEE", person, Committee(row.committee_id),
                      MembershipDates(row))}
           rs == EachOf(NormalizeMembership(row), UpsertMembership)
<1>1. RowStatements("committee_memberships", row) = When(ParseMemberships(row), rs)
  BY DEF RowStatements
<1>2. ParseMemberships(row) \in BOOLEAN
  BY DEF ParseMemberships
<1>3. CASE row.start_date # None /\ row.mk_individual_id \in DOMAIN MkLookup
  <2>1. Member(row.mk_individual_id) = <<person>>
    BY <1>3 DEF Member, When
  <2>2. NormalizeMembership(row) = Concat(bss, 1)
    BY <1>3, <2>1, OneIsSeq DEF EachOf, NormalizeMembership, When
  <2>3. bss[1] = <<b>>
    BY OneIsSeq
  <2>4. NormalizeMembership(row) = <<b>>
    <3> HIDE DEF bss, b
    <3> QED BY <2>2, <2>3, ConcatOne, OneIsSeq
  <2>5. rs = Concat(xss, 1)
    BY <2>4, OneIsSeq DEF EachOf
  <2>6. xss[1] = UpsertMembership(b)
    BY OneIsSeq
  <2>7. States(UpsertMembership(b), S)
    <3>1. /\ "knesset_person" \in NodeKinds /\ "knesset_committee" \in NodeKinds
          /\ "MEMBER_OF_COMMITTEE" \in EdgeTypes
      BY DEF NodeKinds, EdgeTypes
    <3>2. Acceptable(Edge("MEMBER_OF_COMMITTEE", b.person_id, b.committee_id, b.dates))
      BY <1>3 DEF Acceptable, Edge
    <3> QED BY <3>1, <3>2, LinkStates
            DEF UpsertMembership, PersonStub, Person, Committee, MembershipDates
  <2> HIDE DEF b, xss, S, rs
  <2>8. States(rs, S)
    BY <2>5, <2>6, <2>7, OnlyStates
  <2>9. States(RowStatements("committee_memberships", row), IF ParseMemberships(row) THEN S ELSE {})
    BY <1>1, <1>2, <2>8, WhenStates
  <2> QED BY <1>3, <2>9 DEF S, Sits
<1>4. CASE ~(row.start_date # None /\ row.mk_individual_id \in DOMAIN MkLookup)
  <2>1. NormalizeMembership(row) = << >>
    <3>1. CASE row.start_date = None
      BY <3>1 DEF NormalizeMembership, When
    <3>2. CASE row.start_date # None /\ row.mk_individual_id \notin DOMAIN MkLookup
      BY <3>2, EmptyIsSeq, ConcatNone DEF NormalizeMembership, When, EachOf, Member
    <3> QED BY <1>4, <3>1, <3>2
  <2>2. rs = << >>
    BY <2>1, EmptyIsSeq, ConcatNone DEF EachOf
  <2>3. States(<< >>, {})
    BY EmptyIsSeq, OrderedNone DEF States
  <2> QED BY <1>1, <1>4, <2>2, <2>3 DEF When, Sits
<1> QED BY <1>3, <1>4

\* A statement that says nothing of an office held or a seat on a committee.
Plain(s) ==
  s.key[1] \notin {"knesset_position_term", "HELD_OFFICE", "HAS_POSITION_TERM", "ABOUT_OFFICE",
                   "MEMBER_OF_COMMITTEE"}
AllPlain(rs) == \A s \in ToSet(rs) : Plain(s)

\* A node, and then for each of a list of persons its stub and an edge to the node.
LEMMA GuestsOrdered ==
  ASSUME NEW kind \in NodeKinds \ {"knesset_position_term"}, NEW ext, NEW props,
         NEW n \in Nat, NEW xss,
         NEW type \in EdgeTypes, Plain([key |-> <<type>>]),
         \A i \in 1 .. n : \E guest, about :
           /\ xss[i] = <<PersonStub(Person(guest)),
                         Edge(type, Person(guest), <<kind, ext>>, about)>>
           /\ Acceptable(Edge(type, Person(guest), <<kind, ext>>, about))
  PROVE  /\ Ordered({}, <<Node(<<kind, ext>>, props)>> \o Concat(xss, n))
         /\ AllPlain(<<Node(<<kind, ext>>, props)>> \o Concat(xss, n))
<1> DEFINE node == Node(<<kind, ext>>, props)
           c == Concat(xss, n)
           K == {<<kind, ext>>}
<1>1. ASSUME NEW i \in 1 .. n PROVE Ordered(K, xss[i]) /\ AllPlain(xss[i])
  <2>1. PICK guest, about :
          /\ xss[i] = <<PersonStub(Person(guest)),
                         Edge(type, Person(guest), <<kind, ext>>, about)>>
          /\ Acceptable(Edge(type, Person(guest), <<kind, ext>>, about))
    OBVIOUS
  <2>2. "knesset_person" \in NodeKinds
    BY DEF NodeKinds
  <2>3. Ordered(K, xss[i])
    <3>1. <<kind, ext>> \in K \cup {<<"knesset_person", guest>>}
      OBVIOUS
    <3>2. <<"knesset_person", guest>> \in K \cup {<<"knesset_person", guest>>}
      OBVIOUS
    <3> HIDE DEF K
    <3> QED BY <2>1, <2>2, <3>1, <3>2, HookOrdered DEF PersonStub, Person
  <2>4. ToSet(xss[i]) = {PersonStub(Person(guest)), Edge(type, Person(guest), <<kind, ext>>, about)}
    BY <2>1, TwoSet
  <2>5. Plain(PersonStub(Person(guest)))
    BY DEF Plain, PersonStub, Person, Node
  <2>6. Plain(Edge(type, Person(guest), <<kind, ext>>, about))
    BY DEF Plain, Edge
  <2> QED BY <2>3, <2>4, <2>5, <2>6 DEF AllPlain
<1>2. Ordered({}, <<node>>) /\ ToSet(<<node>>) = {node} /\ NodeKeys({node}) = K
  BY OneIsSeq, OneNodeOrdered, NodeRunnable
<1>3. Plain(node)
  <2>1. node.key[1] = kind
    BY DEF Node
  <2>2. kind \in NodeKinds /\ kind # "knesset_position_term"
    OBVIOUS
  <2> HIDE DEF node
  <2> QED BY <2>1, <2>2 DEF Plain, NodeKinds
<1> HIDE DEF node, K, c
<1>4. Ordered(K, c) /\ ToSet(c) = UNION {ToSet(xss[i]) : i \in 1 .. n}
  BY <1>1, OrderedConcat DEF c
<1>5. Ordered({}, <<node>> \o c)
  <2>1. Ordered({} \cup NodeKeys(ToSet(<<node>>)), c)
    BY <1>2, <1>4
  <2> QED BY <1>2, <2>1, OrderedThen
<1>6. ToSet(<<node>> \o c) = {node} \cup ToSet(c)
  <2>1. IsSeq(<<node>>) /\ IsSeq(c)
    BY <1>2, <1>4 DEF Ordered
  <2>2. Joins(<<node>> \o c, <<node>>, c)
    BY <2>1, Joined
  <2> QED BY <1>2, <2>2 DEF Joins
<1>7. AllPlain(<<node>> \o c)
  BY <1>1, <1>3, <1>4, <1>6 DEF AllPlain
<1> QED BY <1>5, <1>7 DEF node, c

\* Vote rows.
LEMMA VotesRow ==
  ASSUME NEW row
  PROVE  Ordered({}, RowStatements("votes", row)) /\ AllPlain(RowStatements("votes", row))
<1> DEFINE b == [vote_event_id |-> Vote(row.vote_id),
                 cast_votes |-> When(row.vote_result \in DOMAIN VoteResult,
                                     <<[person_id |-> Person(row.kmmbr_id),
                                        value |-> VoteResult[row.vote_result]]>>)]
           xss == [i \in DOMAIN <<b>> |-> UpsertVote(<<b>>[i])]
           cast == [i \in DOMAIN b.cast_votes |->
                      <<PersonStub(b.cast_votes[i].person_id),
                        Edge("CAST_VOTE", b.cast_votes[i].person_id, b.vote_event_id,
                             [value |-> b.cast_votes[i].value])>>]
           n == Len(b.cast_votes)
           node == Node(b.vote_event_id, [bill_id |-> None, occurred_at |-> None])
           rs == EachOf(NormalizeVote(row), UpsertVote)
<1>1. rs = Concat(xss, 1)
  BY OneIsSeq DEF EachOf, NormalizeVote
<1>2. xss[1] = UpsertVote(b)
  BY OneIsSeq
<1>3. UpsertVote(b) = <<node>> \o Concat(cast, n)
  BY Zenon DEF UpsertVote, EachOf
<1>4. /\ n \in Nat
      /\ \A i \in 1 .. n : \E guest, about :
           /\ cast[i] = <<PersonStub(Person(guest)),
                          Edge("CAST_VOTE", Person(guest), b.vote_event_id, about)>>
           /\ Acceptable(Edge("CAST_VOTE", Person(guest), b.vote_event_id, about))
  <2>1. CASE row.vote_result \in DOMAIN VoteResult
    <3>1. b.cast_votes = <<[person_id |-> Person(row.kmmbr_id),
                            value |-> VoteResult[row.vote_result]]>>
      BY <2>1 DEF When
    <3>2. n = 1 /\ DOMAIN b.cast_votes = {1}
      BY <3>1, OneIsSeq
    <3>3. cast[1] = <<PersonStub(Person(row.kmmbr_id)),
                      Edge("CAST_VOTE", Person(row.kmmbr_id), b.vote_event_id,
                           [value |-> VoteResult[row.vote_result]])>>
      <4> DEFINE casts == b.cast_votes
      <4>1. cast = [i \in DOMAIN casts |->
                      <<PersonStub(casts[i].person_id),
                        Edge("CAST_VOTE", casts[i].person_id, b.vote_event_id,
                             [value |-> casts[i].value])>>]
        OBVIOUS
      <4>2. 1 \in DOMAIN casts
        BY <3>2
      <4>3. /\ casts[1].person_id = Person(row.kmmbr_id)
            /\ casts[1].value = VoteResult[row.vote_result]
        BY <3>1
      <4> HIDE DEF b, casts, cast
      <4> QED BY <4>1, <4>2, <4>3
    <3>4. VoteResult[row.vote_result] \in {"for", "against", "abstain"}
      BY <2>1 DEF VoteResult
    <3>5. Acceptable(Edge("CAST_VOTE", Person(row.kmmbr_id), b.vote_event_id,
                          [value |-> VoteResult[row.vote_result]]))
      BY <3>4 DEF Acceptable, Edge
    <3> HIDE DEF b, cast, n
    <3> QED BY <3>2, <3>3, <3>5
  <2>2. CASE row.vote_result \notin DOMAIN VoteResult
    BY <2>2, EmptyIsSeq DEF When
  <2> QED BY <2>1, <2>2
<1>5. "knesset_vote" \in NodeKinds \ {"knesset_position_term"} /\ "CAST_VOTE" \in EdgeTypes
  BY DEF NodeKinds, EdgeTypes
<1>6. Plain([key |-> <<"CAST_VOTE">>])
  BY DEF Plain
<1>7. b.vote_event_id = <<"knesset_vote", row.vote_id>>
  BY DEF Vote
<1>8. Ordered({}, UpsertVote(b)) /\ AllPlain(UpsertVote(b))
  <2> HIDE DEF b, cast, n
  <2> QED BY <1>3, <1>4, <1>5, <1>6, <1>7, GuestsOrdered
<1>9. rs = UpsertVote(b)
  <2> HIDE DEF b, xss, rs
  <2> QED BY <1>1, <1>2, <1>8, ConcatOne DEF Ordered
<1>10. RowStatements("votes", row) = When(ParseVotes(row), rs)
  BY DEF RowStatements
<1> HIDE DEF b, rs
<1>11. Ordered({}, << >>) /\ AllPlain(<< >>)
  BY OrderedNone, EmptyIsSeq DEF AllPlain
<1> QED BY <1>8, <1>9, <1>10, <1>11 DEF When

\* Attendance rows.
LEMMA AttendanceRow ==
  ASSUME NEW row, IsSeq(row.attended)
  PROVE  /\ Ordered({}, RowStatements("attendance", row))
         /\ AllPlain(RowStatements("attendance", row))
<1> DEFINE found == [i \in DOMAIN row.attended |-> Member(row.attended[i])]
           b == [attendance_event_id |-> <<"knesset_attendance_event", row.CommitteeSessionID>>,
                 committee_id |-> Committee(row.CommitteeID), occurred_at |-> row.StartDate,
                 attendees |-> EachOf(row.attended, Member)]
           xss == [i \in DOMAIN <<b>> |-> UpsertAttendance(<<b>>[i])]
           came == [i \in DOMAIN b.attendees |->
                      <<PersonStub(b.attendees[i]),
                        Edge("ATTENDED", b.attendees[i], b.attendance_event_id,
                             [presence |-> "present"])>>]
           n == Len(b.attendees)
           node == Node(b.attendance_event_id, [committee_id |-> b.committee_id,
                                                occurred_at |-> b.occurred_at])
           rs == EachOf(NormalizeAttendance(row), UpsertAttendance)
<1>1. rs = Concat(xss, 1)
  BY OneIsSeq DEF EachOf, NormalizeAttendance
<1>2. xss[1] = UpsertAttendance(b)
  BY OneIsSeq
<1>3. UpsertAttendance(b) = <<node>> \o Concat(came, n)
  BY Zenon DEF UpsertAttendance, EachOf
<1>4. IsSeq(b.attendees) /\ \A x \in ToSet(b.attendees) : \E guest : x = Person(guest)
  <2>1. b.attendees = Concat(found, Len(row.attended))
    BY DEF EachOf
  <2>2. Len(row.attended) \in Nat /\ DOMAIN row.attended = 1 .. Len(row.attended)
    BY SeqDomain
  <2>3. ASSUME NEW i \in 1 .. Len(row.attended)
        PROVE  IsSeq(found[i]) /\ \A x \in ToSet(found[i]) : \E guest : x = Person(guest)
    <3>1. found[i] = Member(row.attended[i])
      BY <2>2
    <3>2. \/ Member(row.attended[i]) = << >>
          \/ Member(row.attended[i]) = <<Person(MkLookup[row.attended[i]])>>
      BY DEF Member, When
    <3> HIDE DEF found
    <3>3. CASE found[i] = << >>
      BY <3>3, EmptyIsSeq
    <3>4. CASE found[i] = <<Person(MkLookup[row.attended[i]])>>
      <4>1. IsSeq(found[i]) /\ ToSet(found[i]) = {Person(MkLookup[row.attended[i]])}
        BY <3>4, OneIsSeq
      <4> QED BY <4>1
    <3> QED BY <3>1, <3>2, <3>3, <3>4
  <2> HIDE DEF found
  <2>4. Flat(Concat(found, Len(row.attended)), found, Len(row.attended))
    BY <2>2, <2>3, ConcatFlat
  <2> HIDE DEF b
  <2> QED BY <2>1, <2>3, <2>4 DEF Flat, Held
<1>5. n \in Nat /\ DOMAIN b.attendees = 1 .. n
  <2> HIDE DEF b
  <2> QED BY <1>4, SeqDomain
<1>6. ASSUME NEW i \in 1 .. n
      PROVE  \E guest, about :
               /\ came[i] = <<PersonStub(Person(guest)),
                              Edge("ATTENDED", Person(guest), b.attendance_event_id, about)>>
               /\ Acceptable(Edge("ATTENDED", Person(guest), b.attendance_event_id, about))
  <2>1. PICK guest : b.attendees[i] = Person(guest)
    <3> HIDE DEF b
    <3> QED BY <1>4, <1>5 DEF ToSet
  <2>2. came[i] = <<PersonStub(Person(guest)),
                    Edge("ATTENDED", Person(guest), b.attendance_event_id,
                         [presence |-> "present"])>>
    <3> HIDE DEF b, n
    <3>1. i \in DOMAIN b.attendees
      BY <1>5
    <3>2. came[i] = <<PersonStub(b.attendees[i]),
                      Edge("ATTENDED", b.attendees[i], b.attendance_event_id,
                           [presence |-> "present"])>>
      BY <3>1, Zenon
    <3> QED BY <2>1, <3>2, Zenon
  <2>3. Acceptable(Edge("ATTENDED", Person(guest), b.attendance_event_id,
                        [presence |-> "present"]))
    BY DEF Acceptable, Edge
  <2> HIDE DEF b, came
  <2> QED BY <2>2, <2>3
<1>7. /\ "knesset_attendance_event" \in NodeKinds \ {"knesset_position_term"}
      /\ "ATTENDED" \in EdgeTypes
  BY DEF NodeKinds, EdgeTypes
<1>8. Plain([key |-> <<"ATTENDED">>])
  BY DEF Plain
<1>9. b.attendance_event_id = <<"knesset_attendance_event", row.CommitteeSessionID>>
  OBVIOUS
<1>10. Ordered({}, UpsertAttendance(b)) /\ AllPlain(UpsertAttendance(b))
  <2> DEFINE about == [committee_id |-> b.committee_id, occurred_at |-> b.occurred_at]
             id == <<"knesset_attendance_event", row.CommitteeSessionID>>
  <2>1. \A i \in 1 .. n : \E guest, a :
          /\ came[i] = <<PersonStub(Person(guest)), Edge("ATTENDED", Person(guest), id, a)>>
          /\ Acceptable(Edge("ATTENDED", Person(guest), id, a))
    <3> HIDE DEF b, came, n
    <3> QED BY <1>6, <1>9
  <2>2. UpsertAttendance(b) = <<Node(id, about)>> \o Concat(came, n)
    BY <1>3, <1>9, Zenon
  <2> HIDE DEF b, came, n, about
  <2>3. /\ Ordered({}, <<Node(id, about)>> \o Concat(came, n))
        /\ AllPlain(<<Node(id, about)>> \o Concat(came, n))
    BY <1>5, <1>7, <1>8, <2>1, GuestsOrdered
  <2> QED BY <2>2, <2>3, Zenon
<1>11. rs = UpsertAttendance(b)
  <2> HIDE DEF b, xss, rs
  <2> QED BY <1>1, <1>2, <1>10, ConcatOne DEF Ordered
<1>12. RowStatements("attendance", row) = When(ParseAttendance(row), rs)
  BY DEF RowStatements
<1> HIDE DEF b, rs
<1>13. Ordered({}, << >>) /\ AllPlain(<< >>)
  BY OrderedNone, EmptyIsSeq DEF AllPlain
<1> QED BY <1>10, <1>11, <1>12, <1>13 DEF When

\* What UpsertPosition sends for the faction and for the office of a row.
PartyLane(b, p) ==
  <<Node(p.party_id, [name |-> p.party_name, abbreviation |-> None]),
    Edge("MEMBER_OF", b.person_id, p.party_id, b.dates)>>
OfficeLane(b, o) ==
  <<Node(o.office_id, [name |-> o.name]),
    Edge("HELD_OFFICE", b.person_id, o.office_id, b.dates),
    Node(o.position_term_id, [valid_from |-> b.dates.valid_from,
                              valid_to |-> b.dates.valid_to,
                              appointing_body |-> o.appointing_body]),
    Edge("HAS_POSITION_TERM", b.person_id, o.position_term_id, << >>),
    Edge("ABOUT_OFFICE", o.position_term_id, o.office_id, << >>)>>

\* The stub, then the party's statements, then the office's.
LEMMA UpsertPositionLanes ==
  ASSUME NEW b
  PROVE  UpsertPosition(b) =
           <<PersonStub(b.person_id)>>
             \o Concat([i \in DOMAIN b.party |-> PartyLane(b, b.party[i])], Len(b.party))
             \o Concat([i \in DOMAIN b.office |-> OfficeLane(b, b.office[i])], Len(b.office))
BY Zenon DEF UpsertPosition, EachOf, PartyLane, OfficeLane

\* The party's statements can be run once the person is there.
LEMMA PartyLaneOrdered ==
  ASSUME NEW K, NEW b, b.person_id \in K, b.dates.valid_from # None,
         NEW p, NEW ext, p.party_id = <<"knesset_party", ext>>
  PROVE  Ordered(K, PartyLane(b, p))
<1>1. "knesset_party" \in NodeKinds /\ "MEMBER_OF" \in EdgeTypes
  BY DEF NodeKinds, EdgeTypes
<1>2. Acceptable(Edge("MEMBER_OF", b.person_id, p.party_id, b.dates))
  BY DEF Acceptable, Edge
<1> QED BY <1>1, <1>2, HookOrdered DEF PartyLane

\* So can the office's, with the office and the term before their edges.
LEMMA OfficeLaneOrdered ==
  ASSUME NEW K, NEW b, b.person_id \in K, b.dates.valid_from # None,
         NEW o, NEW ext1, o.office_id = <<"knesset_office", ext1>>,
         NEW ext2, o.position_term_id = <<"knesset_position_term", ext2>>
  PROVE  Ordered(K, OfficeLane(b, o))
<1> DEFINE n1 == Node(o.office_id, [name |-> o.name])
           e1 == Edge("HELD_OFFICE", b.person_id, o.office_id, b.dates)
           n2 == Node(o.position_term_id, [valid_from |-> b.dates.valid_from,
                                           valid_to |-> b.dates.valid_to,
                                           appointing_body |-> o.appointing_body])
           e2 == Edge("HAS_POSITION_TERM", b.person_id, o.position_term_id, << >>)
           e3 == Edge("ABOUT_OFFICE", o.position_term_id, o.office_id, << >>)
           M == K \cup NodeKeys({n1, e1})
<1>1. /\ "knesset_office" \in NodeKinds /\ "knesset_position_term" \in NodeKinds
      /\ "HELD_OFFICE" \in EdgeTypes /\ "HAS_POSITION_TERM" \in EdgeTypes
      /\ "ABOUT_OFFICE" \in EdgeTypes
  BY DEF NodeKinds, EdgeTypes
<1>2. Acceptable(e1) /\ Acceptable(e2) /\ Acceptable(e3)
  BY DEF Acceptable, Edge
<1>3. Ordered(K, <<n1, e1>>)
  <2>1. /\ o.office_id \in K \cup {<<"knesset_office", ext1>>}
        /\ b.person_id \in K \cup {<<"knesset_office", ext1>>}
    OBVIOUS
  <2> QED BY <1>1, <1>2, <2>1, HookOrdered
<1>4. o.office_id \in M /\ b.person_id \in M
  <2>1. n1.op = "node" /\ n1.key = o.office_id
    BY DEF Node
  <2> HIDE DEF n1, e1
  <2> QED BY <2>1 DEF NodeKeys
<1> HIDE DEF M
<1>5. Runnable(n2, M) /\ NodeKeys({n2}) = {o.position_term_id}
  BY <1>1, NodeRunnable
<1>6. Runnable(e2, M \cup NodeKeys({n2}))
  <2>1. b.person_id \in M \cup NodeKeys({n2}) /\ o.position_term_id \in M \cup NodeKeys({n2})
    BY <1>4, <1>5
  <2> HIDE DEF n2
  <2> QED BY <1>1, <1>2, <2>1, EdgeRunnable
<1>7. Runnable(e3, M \cup NodeKeys({n2, e2}))
  <2>1. NodeKeys({n2}) \subseteq NodeKeys({n2, e2})
    BY DEF NodeKeys
  <2>2. /\ o.position_term_id \in M \cup NodeKeys({n2, e2})
        /\ o.office_id \in M \cup NodeKeys({n2, e2})
    BY <1>4, <1>5, <2>1
  <2> HIDE DEF n2, e2
  <2> QED BY <1>1, <1>2, <2>2, EdgeRunnable
<1> HIDE DEF n1, e1, n2, e2, e3
<1>8. Ordered(M, <<n2, e2, e3>>)
  BY <1>5, <1>6, <1>7, OrderedThree
<1>9. Ordered(K, <<n1, e1, n2, e2, e3>>)
  BY <1>3, <1>8, OrderedFive DEF M
<1> QED BY <1>9 DEF OfficeLane, n1, e1, n2, e2, e3

\* What a row of positions states: the person, the faction it names, and the
\* office it names with one term of it.
Listed(row) ==
  /\ ParsePositions(row)
  /\ row.StartDate # None /\ (row.FactionID # None \/ row.PositionID # None)
PositionDates(row) == [valid_from |-> row.StartDate, valid_to |-> row.FinishDate]
PartyFacts(row) ==
  {Node(Party(row.FactionID),
        [name |-> NonNull(row.FactionName, <<"party", row.FactionID>>), abbreviation |-> None]),
   Edge("MEMBER_OF", Person(row.PersonID), Party(row.FactionID), PositionDates(row))}
OfficeFacts(row) ==
  {Node(Office(row), [name |-> OfficeName(row)]),
   Edge("HELD_OFFICE", Person(row.PersonID), Office(row), PositionDates(row)),
   Node(Term(row), [valid_from |-> row.StartDate, valid_to |-> row.FinishDate,
                    appointing_body |-> IF OfficeType(row) \in GovernmentOfficeTypes
                                        THEN "government" ELSE "knesset"]),
   Edge("HAS_POSITION_TERM", Person(row.PersonID), Term(row), << >>),
   Edge("ABOUT_OFFICE", Term(row), Office(row), << >>)}
PositionFacts(row) ==
  IF Listed(row)
  THEN {PersonStub(Person(row.PersonID))}
         \cup (IF row.FactionID # None THEN PartyFacts(row) ELSE {})
         \cup (IF row.PositionID # None THEN OfficeFacts(row) ELSE {})
  ELSE {}

\* A lane of UpsertPosition, over a list that has one element or none.
LEMMA LaneStates ==
  ASSUME NEW K, NEW c \in BOOLEAN, NEW xs, NEW x, xs = When(c, <<x>>),
         NEW xss, NEW rs, c => xss[1] = rs, c => Ordered(K, rs)
  PROVE  /\ Ordered(K, Concat(xss, Len(xs)))
         /\ ToSet(Concat(xss, Len(xs))) = IF c THEN ToSet(rs) ELSE {}
<1>1. CASE c
  <2>1. Len(xs) = 1
    BY <1>1, OneIsSeq DEF When
  <2>2. Concat(xss, 1) = rs
    BY <1>1, ConcatOne DEF Ordered
  <2> QED BY <1>1, <2>1, <2>2
<1>2. CASE ~c
  <2>1. Len(xs) = 0
    BY <1>2, EmptyIsSeq DEF When
  <2>2. Concat(xss, 0) = << >>
    BY ConcatNone
  <2> QED BY <1>2, <2>1, <2>2, OrderedNone, EmptyIsSeq
<1> QED BY <1>1, <1>2

\* Position rows: the stub of the person, then both lanes.
LEMMA PositionsRow ==
  ASSUME NEW row
  PROVE  States(RowStatements("positions", row), PositionFacts(row))
<1> DEFINE p == [party_id |-> Party(row.FactionID),
                 party_name |-> NonNull(row.FactionName, <<"party", row.FactionID>>)]
           o == [office_id |-> Office(row), name |-> OfficeName(row),
                 position_term_id |-> Term(row),
                 appointing_body |-> IF OfficeType(row) \in GovernmentOfficeTypes
                                     THEN "government" ELSE "knesset"]
           parties == When(row.FactionID # None, <<p>>)
           offices == When(row.PositionID # None, <<o>>)
           b == [person_id |-> Person(row.PersonID), party |-> parties, office |-> offices,
                 dates |-> [valid_from |-> row.StartDate, valid_to |-> row.FinishDate]]
           c == row.StartDate # None /\ (row.FactionID # None \/ row.PositionID # None)
           xss == [i \in DOMAIN <<b>> |-> UpsertPosition(<<b>>[i])]
           rs == EachOf(NormalizePosition(row), UpsertPosition)
           stub == PersonStub(Person(row.PersonID))
           K == {Person(row.PersonID)}
           pss == [i \in DOMAIN b.party |-> PartyLane(b, b.party[i])]
           oss == [i \in DOMAIN b.office |-> OfficeLane(b, b.office[i])]
<1>1. RowStatements("positions", row) = When(ParsePositions(row), rs)
  BY DEF RowStatements
<1>2. ParsePositions(row) \in BOOLEAN /\ c \in BOOLEAN
  BY DEF ParsePositions
<1>3. NormalizePosition(row) = When(c, <<b>>)
  BY DEF NormalizePosition
<1>4. rs = Concat([i \in DOMAIN NormalizePosition(row) |-> UpsertPosition(NormalizePosition(row)[i])],
                  Len(NormalizePosition(row)))
  BY DEF EachOf
<1>5. CASE ~c
  <2>1. NormalizePosition(row) = << >>
    BY <1>3, <1>5 DEF When
  <2>2. rs = << >>
    BY <1>4, <2>1, EmptyIsSeq, ConcatNone
  <2>3. RowStatements("positions", row) = << >>
    BY <1>1, <2>2 DEF When
  <2>4. States(<< >>, {})
    BY EmptyIsSeq, OrderedNone DEF States
  <2> QED BY <1>5, <2>3, <2>4 DEF PositionFacts, Listed
<1>6. CASE c
  <2>1. rs = Concat(xss, 1) /\ xss[1] = UpsertPosition(b)
    <3>1. NormalizePosition(row) = <<b>>
      BY <1>3, <1>6 DEF When
    <3> HIDE DEF b, rs
    <3> QED BY <1>4, <3>1, OneIsSeq
  <2>2. UpsertPosition(b) =
          <<stub>> \o Concat(pss, Len(parties)) \o Concat(oss, Len(offices))
    <3>1. b.person_id = Person(row.PersonID) /\ b.party = parties /\ b.office = offices
      OBVIOUS
    <3> HIDE DEF b
    <3> QED BY <3>1, UpsertPositionLanes, Zenon
  <2>3. /\ Ordered(K, Concat(pss, Len(parties)))
        /\ ToSet(Concat(pss, Len(parties))) = IF row.FactionID # None THEN PartyFacts(row) ELSE {}
    <3>1. row.FactionID # None => pss[1] = PartyLane(b, p)
      BY OneIsSeq DEF When
    <3>2. Ordered(K, PartyLane(b, p))
      BY <1>6, PartyLaneOrdered DEF Party
    <3>3. ToSet(PartyLane(b, p)) = PartyFacts(row)
      BY TwoSet, Zenon DEF PartyLane, PartyFacts, PositionDates
    <3>4. parties = When(row.FactionID # None, <<p>>)
      OBVIOUS
    <3> DEFINE given == row.FactionID # None
    <3>5. given \in BOOLEAN
      OBVIOUS
    <3> HIDE DEF K, b, p, pss, parties
    <3>6. /\ parties = When(given, <<p>>)
          /\ given => pss[1] = PartyLane(b, p)
          /\ given => Ordered(K, PartyLane(b, p))
      BY <3>1, <3>2, <3>4
    <3> HIDE DEF given
    <3>7. /\ Ordered(K, Concat(pss, Len(parties)))
          /\ ToSet(Concat(pss, Len(parties))) = IF given THEN ToSet(PartyLane(b, p)) ELSE {}
      BY <3>5, <3>6, LaneStates
    <3> QED BY <3>3, <3>7 DEF given
  <2>4. /\ Ordered(K, Concat(oss, Len(offices)))
        /\ ToSet(Concat(oss, Len(offices))) = IF row.PositionID # None THEN OfficeFacts(row) ELSE {}
    <3>1. row.PositionID # None => oss[1] = OfficeLane(b, o)
      BY OneIsSeq DEF When
    <3>2. Ordered(K, OfficeLane(b, o))
      BY <1>6, OfficeLaneOrdered DEF Office, Term
    <3>3. ToSet(OfficeLane(b, o)) = OfficeFacts(row)
      BY FiveSet DEF OfficeLane, OfficeFacts, PositionDates
    <3>4. offices = When(row.PositionID # None, <<o>>)
      OBVIOUS
    <3> DEFINE given == row.PositionID # None
    <3>5. given \in BOOLEAN
      OBVIOUS
    <3> HIDE DEF K, b, o, oss, offices
    <3>6. /\ offices = When(given, <<o>>)
          /\ given => oss[1] = OfficeLane(b, o)
          /\ given => Ordered(K, OfficeLane(b, o))
      BY <3>1, <3>2, <3>4
    <3> HIDE DEF given
    <3>7. /\ Ordered(K, Concat(oss, Len(offices)))
          /\ ToSet(Concat(oss, Len(offices))) = IF given THEN ToSet(OfficeLane(b, o)) ELSE {}
      BY <3>5, <3>6, LaneStates
    <3> QED BY <3>3, <3>7 DEF given
  <2>5. Ordered({}, <<stub>>) /\ ToSet(<<stub>>) = {stub} /\ NodeKeys({stub}) = K
    <3>1. "knesset_person" \in NodeKinds
      BY DEF NodeKinds
    <3> QED BY <3>1, OneIsSeq, OneNodeOrdered, NodeRunnable DEF PersonStub, Person
  <2> DEFINE ps == Concat(pss, Len(parties))
             os == Concat(oss, Len(offices))
  <2> HIDE DEF ps, os, stub, K, b
  <2>6. Ordered({}, <<stub>> \o ps) /\ ToSet(<<stub>> \o ps) = {stub} \cup ToSet(ps)
    <3>1. Ordered({} \cup NodeKeys(ToSet(<<stub>>)), ps)
      BY <2>3, <2>5 DEF ps
    <3>2. Joins(<<stub>> \o ps, <<stub>>, ps)
      BY <2>5, <3>1, Joined DEF Ordered
    <3> QED BY <2>5, <3>1, <3>2, OrderedThen DEF Joins
  <2> DEFINE start == <<stub>> \o ps
  <2> HIDE DEF start
  <2>7. Ordered({}, start \o os) /\ ToSet(start \o os) = ToSet(start) \cup ToSet(os)
    <3>1. K \subseteq {} \cup NodeKeys(ToSet(start))
      BY <2>5, <2>6 DEF NodeKeys, start
    <3>2. Ordered({} \cup NodeKeys(ToSet(start)), os)
      BY <2>4, <3>1, OrderedMore DEF os
    <3>3. Ordered({}, start)
      BY <2>6 DEF start
    <3>4. Joins(start \o os, start, os)
      BY <3>2, <3>3, Joined DEF Ordered
    <3> QED BY <3>2, <3>3, <3>4, OrderedThen DEF Joins
  <2> DEFINE S == {stub} \cup (IF row.FactionID # None THEN PartyFacts(row) ELSE {})
                         \cup (IF row.PositionID # None THEN OfficeFacts(row) ELSE {})
  <2>8. States(UpsertPosition(b), S)
    <3>1. UpsertPosition(b) = start \o os
      BY <2>2 DEF start, ps, os
    <3>2. ToSet(start \o os) = S
      BY <2>3, <2>4, <2>6, <2>7 DEF start, ps, os
    <3> QED BY <2>7, <3>1, <3>2 DEF States
  <2> HIDE DEF S, xss, rs
  <2>9. States(rs, S)
    BY <2>1, <2>8, OnlyStates
  <2>10. States(RowStatements("positions", row), IF ParsePositions(row) THEN S ELSE {})
    BY <1>1, <1>2, <2>9, WhenStates
  <2>11. PositionFacts(row) = IF ParsePositions(row) THEN S ELSE {}
    BY <1>6 DEF PositionFacts, Listed, S, stub
  <2> QED BY <2>10, <2>11
<1> QED BY <1>5, <1>6

-----------------------------------------------------------------------------
(* Any row, and any page. *)

\* Whatever the row, each of its statements can be run in its turn, on any graph.
LEMMA RowOrdered ==
  ASSUME NEW a \in AdapterNames, NEW row, a = "attendance" => IsSeq(row.attended)
  PROVE  Ordered({}, RowStatements(a, row))
<1>1. CASE a = "people"
  BY <1>1, PeopleRow DEF States
<1>2. CASE a = "positions"
  BY <1>2, PositionsRow DEF States
<1>3. CASE a = "elections"
  BY <1>3, ElectionsRow DEF States
<1>4. CASE a = "gov_decisions"
  BY <1>4, DecisionsRow DEF States
<1>5. CASE a = "committees"
  BY <1>5, CommitteesRow DEF States
<1>6. CASE a = "committee_memberships"
  BY <1>6, MembershipsRow DEF States
<1>7. CASE a = "sponsorships"
  BY <1>7, BillsRow DEF States
<1>8. CASE a = "bill_initiators"
  BY <1>8, InitiatorsRow DEF States
<1>9. CASE a = "votes"
  BY <1>9, VotesRow DEF States
<1>10. CASE a = "attendance"
  BY <1>10, AttendanceRow DEF States
<1> QED BY <1>1, <1>2, <1>3, <1>4, <1>5, <1>6, <1>7, <1>8, <1>9, <1>10 DEF AdapterNames

\* A node is plain unless it is a term.
LEMMA NodePlain ==
  ASSUME NEW kind \in NodeKinds, kind # "knesset_position_term", NEW ext, NEW props
  PROVE  Plain(Node(<<kind, ext>>, props))
<1>1. Node(<<kind, ext>>, props).key[1] = kind
  BY DEF Node
<1> QED BY <1>1 DEF Plain, NodeKinds

\* These edges are plain.
LEMMA EdgePlain ==
  ASSUME NEW type \in {"FOR_PARTY", "SPONSORED"}, NEW from, NEW to, NEW props
  PROVE  Plain(Edge(type, from, to, props))
<1>1. Edge(type, from, to, props).key[1] = type
  BY DEF Edge
<1> QED BY <1>1 DEF Plain

\* Only the positions speak of offices held, and only the memberships of seats.
LEMMA OthersPlain ==
  ASSUME NEW a \in AdapterNames \ {"positions", "committee_memberships"},
         NEW row, a = "attendance" => IsSeq(row.attended)
  PROVE  AllPlain(RowStatements(a, row))
<1>1. CASE a = "people"
  <2>1. AllPlain(RowStatements("people", row))
    BY PeopleRow, NodePlain DEF States, AllPlain, Person, NodeKinds
  <2> QED BY <1>1, <2>1
<1>2. CASE a = "elections"
  <2>a. PICK kind \in {"knesset_party", "cec_list"} :
          \E ext : ResolvePartyId(row.ballot_letters) = <<kind, ext>>
    BY DEF ResolvePartyId, Party
  <2>1. PICK ext : ResolvePartyId(row.ballot_letters) = <<kind, ext>>
    BY <2>a
  <2>2. \A props : Plain(Node(ResolvePartyId(row.ballot_letters), props))
    BY <2>1, NodePlain DEF NodeKinds
  <2>3. \A id, props : Plain(Node(<<"cec_election", id>>, props))
    BY NodePlain DEF NodeKinds
  <2>4. \A from, to, props : Plain(Edge("FOR_PARTY", from, to, props))
    BY EdgePlain
  <2>5. AllPlain(RowStatements("elections", row))
    BY <2>2, <2>3, <2>4, ElectionsRow DEF States, AllPlain
  <2> QED BY <1>2, <2>5
<1>3. CASE a = "gov_decisions"
  <2>1. AllPlain(RowStatements("gov_decisions", row))
    BY DecisionsRow, NodePlain DEF States, AllPlain, NodeKinds
  <2> QED BY <1>3, <2>1
<1>4. CASE a = "committees"
  <2>1. AllPlain(RowStatements("committees", row))
    BY CommitteesRow, NodePlain DEF States, AllPlain, Committee, NodeKinds
  <2> QED BY <1>4, <2>1
<1>5. CASE a = "sponsorships"
  <2>1. AllPlain(RowStatements("sponsorships", row))
    BY BillsRow, NodePlain DEF States, AllPlain, Bill, NodeKinds
  <2> QED BY <1>5, <2>1
<1>6. CASE a = "bill_initiators"
  <2>1. Plain(PersonStub(Person(row.PersonID))) /\ Plain(BillStub(Bill(row.BillID)))
    BY NodePlain DEF PersonStub, BillStub, Person, Bill, NodeKinds
  <2>2. Plain(Edge("SPONSORED", Person(row.PersonID), Bill(row.BillID), << >>))
    BY EdgePlain
  <2>3. AllPlain(RowStatements("bill_initiators", row))
    BY <2>1, <2>2, InitiatorsRow DEF States, AllPlain
  <2> QED BY <1>6, <2>3
<1>7. CASE a = "votes"
  BY <1>7, VotesRow
<1>8. CASE a = "attendance"
  BY <1>8, AttendanceRow
<1> QED BY <1>1, <1>2, <1>3, <1>4, <1>5, <1>6, <1>7, <1>8 DEF AdapterNames

\* So can those of a page, and the statements of a row come after those of the
\* rows above it.
LEMMA PageStates ==
  ASSUME NEW a, NEW rows, IsSeq(rows),
         \A i \in DOMAIN rows : Ordered({}, RowStatements(a, rows[i]))
  PROVE  /\ Ordered({}, PageStatements(a, rows))
         /\ ToSet(PageStatements(a, rows))
              = UNION {ToSet(RowStatements(a, rows[i])) : i \in DOMAIN rows}
         /\ \A j \in DOMAIN PageStatements(a, rows) : \E i \in DOMAIN rows :
              /\ PageStatements(a, rows)[j] \in ToSet(RowStatements(a, rows[i]))
              /\ \A h \in 1 .. i - 1 :
                   ToSet(RowStatements(a, rows[h])) \subseteq Before(PageStatements(a, rows), j)
<1> DEFINE xss == [i \in DOMAIN rows |-> RowStatements(a, rows[i])]
           n == Len(rows)
           c == PageStatements(a, rows)
<1>1. c = Concat(xss, n)
  BY DEF PageStatements, EachOf
<1>2. n \in Nat /\ DOMAIN rows = 1 .. n
  BY SeqDomain
<1>3. \A i \in 1 .. n : xss[i] = RowStatements(a, rows[i])
  BY <1>2
<1> HIDE DEF xss, n, c
<1>4. \A i \in 1 .. n : Ordered({}, xss[i])
  BY <1>2, <1>3
<1>5. Ordered({}, c) /\ ToSet(c) = UNION {ToSet(xss[i]) : i \in 1 .. n}
  BY <1>1, <1>2, <1>4, OrderedConcat
<1>6. UNION {ToSet(xss[i]) : i \in 1 .. n} = UNION {ToSet(RowStatements(a, rows[i])) : i \in DOMAIN rows}
  BY <1>2, <1>3
<1>7. Flat(c, xss, n)
  BY <1>1, <1>2, <1>4, ConcatFlat DEF Ordered
<1>8. ASSUME NEW j \in DOMAIN c
      PROVE  \E i \in DOMAIN rows :
               /\ c[j] \in ToSet(RowStatements(a, rows[i]))
               /\ \A h \in 1 .. i - 1 : ToSet(RowStatements(a, rows[h])) \subseteq Before(c, j)
  <2>1. PICK i \in 1 .. n : \E k \in DOMAIN xss[i] :
          c[j] = xss[i][k] /\ Before(c, j) = Held(xss, i - 1) \cup Before(xss[i], k)
    BY <1>7 DEF Flat
  <2>2. c[j] \in ToSet(xss[i]) /\ Held(xss, i - 1) \subseteq Before(c, j)
    BY <2>1 DEF ToSet
  <2>3. ASSUME NEW h \in 1 .. i - 1
        PROVE  ToSet(RowStatements(a, rows[h])) \subseteq Held(xss, i - 1)
    <3>1. h \in 1 .. n
      BY <1>2
    <3>2. ToSet(xss[h]) \subseteq Held(xss, i - 1)
      BY DEF Held
    <3> QED BY <1>3, <3>1, <3>2
  <2> QED BY <1>2, <1>3, <2>2, <2>3
<1> QED BY <1>5, <1>6, <1>8 DEF c
=============================================================================
