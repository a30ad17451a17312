------------------------------- MODULE Claims -------------------------------
(***************************************************************************)
(* civic_claim_decomp: a statement becomes claims, by the rule templates,  *)
(* the choice among overlapping matches, the slot templates of the         *)
(* ontology, and the checkability of a claim and of a declaration.         *)
(*                                                                         *)
(* The regular expressions are not run: a statement carries the matches    *)
(* they have in it.  What each expression can bind, and whether it is      *)
(* anchored at the end of the statement (\Z), is in RuleTemplates.         *)
(***************************************************************************)
EXTENDS Temporal, FiniteSets

SlotNames ==
  {"speaker_person_id", "target_person_id", "bill_id", "committee_id",
   "office_id", "vote_value", "party_id", "expected_seats",
   "expect_passed_threshold", "government_decision_id"}

\* SLOT_TEMPLATES.
Required ==
  [vote_cast            |-> {"speaker_person_id", "bill_id", "vote_value"},
   bill_sponsorship     |-> {"speaker_person_id", "bill_id"},
   office_held          |-> {"speaker_person_id", "office_id"},
   committee_membership |-> {"speaker_person_id", "committee_id"},
   committee_attendance |-> {"speaker_person_id", "committee_id"},
   statement_about_formal_action |-> {"speaker_person_id"},
   election_result      |-> {"party_id"},
   government_decision  |-> {"government_decision_id"}]

ClaimTypes == DOMAIN Required

Optional(type) ==
  {"target_person_id"} \cup
  CASE type = "statement_about_formal_action" ->
         {"bill_id", "committee_id", "office_id", "vote_value"}
    [] type = "election_result" ->
         {"speaker_person_id", "expected_seats", "expect_passed_threshold"}
    [] type = "government_decision" -> {"speaker_person_id", "office_id"}
    [] OTHER -> {}

\* The slots validate_slots complains of.
Violations(type, slots) ==
  {s \in Required[type] : slots[s] = None} \cup
  {s \in SlotNames \ (Required[type] \cup Optional(type)) : slots[s] # None}

-----------------------------------------------------------------------------
(* The rule templates. *)

Groups == {"subject", "bill", "committee", "office", "vote_value", "party",
           "seats", "decision_number", "time"}

Rule(type, language, needs, may) ==
  [type |-> type, language |-> language, needs |-> needs, may |-> may,
   anchored |-> type # "government_decision", below |-> FALSE]

BelowThreshold(language) ==
  [Rule("election_result", language, {"party"}, {"time"}) EXCEPT !.below = TRUE]

HebrewRules ==
  <<Rule("vote_cast", "he", {"subject", "bill"}, {"vote_value", "time"}),
    Rule("bill_sponsorship", "he", {"subject", "bill"}, {"time"}),
    Rule("office_held", "he", {"subject", "office"}, {"time"}),
    Rule("committee_membership", "he", {"subject", "committee"}, {"time"}),
    Rule("committee_attendance", "he", {"subject", "committee"}, {"time"})>>

EnglishRules ==
  <<Rule("vote_cast", "en", {"subject", "vote_value", "bill"}, {"time"}),
    Rule("bill_sponsorship", "en", {"subject", "bill"}, {"time"}),
    Rule("office_held", "en", {"subject", "office"}, {"time"}),
    Rule("committee_membership", "en", {"subject", "committee"}, {"time"}),
    Rule("committee_attendance", "en", {"subject", "committee"}, {"time"})>>

ElectionRules ==
  <<Rule("election_result", "he", {"party", "seats"}, {"time"}),
    BelowThreshold("he"),
    Rule("election_result", "en", {"party", "seats"}, {"time"}),
    BelowThreshold("en")>>

DecisionRules ==
  <<Rule("government_decision", "he", {"decision_number"}, {}),
    Rule("government_decision", "he", {"decision_number"}, {}),
    Rule("government_decision", "en", {"decision_number"}, {})>>

\* RULE_TEMPLATES, in the order that breaks ties.
RuleTemplates == HebrewRules \o EnglishRules \o ElectionRules \o DecisionRules

\* What a regular expression can have matched in a statement of that length.
LegalMatch(m, length) ==
  LET rule == RuleTemplates[m.rule]
      bound == {g \in Groups : m.groups[g] # None}
  IN /\ m.rule \in DOMAIN RuleTemplates
     /\ m.lo \in Nat /\ m.hi \in Nat /\ m.lo < m.hi /\ m.hi <= length
     /\ rule.needs \subseteq bound /\ bound \subseteq rule.needs \cup rule.may
     /\ rule.anchored => m.hi = length

-----------------------------------------------------------------------------
(* decompose. *)

\* A phrase with other white space than one blank is none of the words.
VoteValue(raw) ==
  CASE raw \in {"for", "in favor of"} -> "for"
    [] raw \in {"against", "opposed"} -> "against"
    [] raw \in {"abstained", "to abstain"} -> "abstain"
    [] OTHER -> None

SlotsOf(m) ==
  [speaker_person_id |-> m.groups["subject"],
   target_person_id  |-> None,
   bill_id           |-> m.groups["bill"],
   committee_id      |-> m.groups["committee"],
   office_id         |-> m.groups["office"],
   vote_value        |-> VoteValue(m.groups["vote_value"]),
   party_id          |-> m.groups["party"],
   expected_seats    |-> m.groups["seats"],
   expect_passed_threshold |->
     IF RuleTemplates[m.rule].below THEN "false" ELSE None,
   government_decision_id  |-> m.groups["decision_number"]]

\* The claim of a match; its claim_id is fresh, so it is left to the caller.
ClaimOf(m) == [type |-> RuleTemplates[m.rule].type, slots |-> SlotsOf(m),
               time |-> m.groups["time"], span |-> <<m.lo, m.hi>>]

\* Faulty: only matches that begin together are taken for the same words.
Overlaps_SameStart(m, n) == m.lo = n.lo
Overlaps(m, n) == ~(m.hi <= n.lo \/ n.hi <= m.lo)

\* iter_matches yields by template, then by place; the sort is stable.
Prefers(ms, i, j) ==
  LET m == ms[i]  n == ms[j]
      longer == (m.hi - m.lo) - (n.hi - n.lo)
  IN \/ longer > 0
     \/ longer = 0 /\ m.lo < n.lo
     \/ longer = 0 /\ m.lo = n.lo /\ i < j

\* The matches of the language that no better one overlaps which is kept.
Selected(ms, language) ==
  LET mine == {i \in DOMAIN ms : RuleTemplates[ms[i].rule].language = language}
  IN CHOOSE kept \in SUBSET mine :
       \A i \in mine :
         i \in kept <=> \A j \in kept : Prefers(ms, j, i) => ~Overlaps(ms[j], ms[i])

\* Those of them that make a claim with no violation.
Valid(ms, language) ==
  {i \in DOMAIN ms :
     /\ i \in Selected(ms, language)
     /\ Violations(ClaimOf(ms[i]).type, ClaimOf(ms[i]).slots) = {}}

Place(ms, V, i) == 1 + Cardinality({j \in V : Prefers(ms, j, i)})

\* decompose without an LLM provider, the only way the program calls it: the
\* claims, best match first.
Decompose(ms, language) ==
  LET V == Valid(ms, language)
  IN [n \in 1 .. Cardinality(V) |-> ClaimOf(ms[CHOOSE i \in V : Place(ms, V, i) = n])]

-----------------------------------------------------------------------------
(* Checkability. *)

SlotStatuses == {"resolved", "ambiguous", "unresolved", "not_applicable"}

TimeRequired == {"vote_cast", "committee_attendance"}

\* A slot the resolver said nothing of does not count against the claim.
Classify(claim, status, granularity) ==
  IF claim.type \notin ClaimTypes THEN "non_checkable"
  ELSE IF \/ Violations(claim.type, claim.slots) # {}
          \/ \E s \in Required[claim.type] :
               status[s] \notin {"resolved", "not_applicable"}
       THEN "insufficient_entity_resolution"
  ELSE IF claim.type \in TimeRequired /\ granularity = "unknown"
       THEN "insufficient_time_scope"
  ELSE "checkable"

\* classify_declaration_checkability of the set of its claims' values.
DeclarationCheckability(values) ==
  IF values \subseteq {"non_checkable"} THEN "not_checkable"
  ELSE IF "checkable" \in values THEN "checkable_formal_action"
  ELSE IF values = {"insufficient_time_scope"} THEN "insufficient_time_scope"
  ELSE IF values = {"insufficient_entity_resolution"}
       THEN "insufficient_entity_resolution"
  ELSE "partially_checkable"

\* classify_family of the set of its claims' types.
ClaimFamily(types) ==
  IF types \cap {"vote_cast", "bill_sponsorship", "committee_attendance"} # {}
  THEN "formal_action"
  ELSE IF types \cap {"office_held", "committee_membership"} # {}
       THEN "position_claim"
  ELSE IF "election_result" \in types THEN "electoral_claim"
  ELSE "unknown"
=============================================================================
