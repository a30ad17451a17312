-------------------------- MODULE MCClaimPipeline --------------------------
(***************************************************************************)
(* An instance of ClaimPipeline for TLC.  Four statements: in Hebrew, a    *)
(* vote with two records that disagree, and a government decision; in      *)
(* Hebrew, a bill of a person who shares the name with another; in         *)
(* English, a vote that the record contradicts, and a decision; in Hebrew, *)
(* a vote at no time.                                                      *)
(***************************************************************************)
EXTENDS ClaimPipeline, TLC

CONSTANTS
  conflicting, homonymous, wrong, undated,      \* statements
  cohen, danaEn, levi, budget, budgetEn, d550,  \* mentions
  Cohen, Dana, LeviA, LeviB, Budget, Housing    \* nodes

MCNodes == {Cohen, Dana, LeviA, LeviB, Budget, Housing}

Unknown_ == [hebrew |-> TRUE, exact |-> {}, alias |-> {}, translit |-> {},
             fuzzy |-> {}, contains |-> {}]

At(id, score) == [id |-> id, score |-> score]

MCNames ==
  (cohen :> [Unknown_ EXCEPT !.exact = {Cohen}, !.contains = {Cohen},
                            !.fuzzy = {At(Cohen, 100)}]) @@
  (danaEn :> [Unknown_ EXCEPT !.hebrew = FALSE, !.alias = {At(Dana, 90)}]) @@
  (levi :> [Unknown_ EXCEPT !.exact = {LeviA, LeviB}, !.contains = {LeviA, LeviB},
                            !.fuzzy = {At(LeviA, 100), At(LeviB, 100)}]) @@
  (budget :> [Unknown_ EXCEPT !.fuzzy = {At(Budget, 92), At(Housing, 70)}]) @@
  (budgetEn :> [Unknown_ EXCEPT !.hebrew = FALSE, !.contains = {Budget}]) @@
  (d550 :> [Unknown_ EXCEPT !.hebrew = FALSE])

NoGroups == [g \in Groups |-> None]
In2023 == [NoCue EXCEPT !.year = 2023]

Vote(rule, who, how, bill, time, lo) ==
  [rule |-> rule, lo |-> lo, hi |-> 60,
   groups |-> [NoGroups EXCEPT !["subject"] = who, !["vote_value"] = how,
                               !["bill"] = bill, !["time"] = time]]

Decision(rule, lo) ==
  [rule |-> rule, lo |-> lo, hi |-> 20,
   groups |-> [NoGroups EXCEPT !["decision_number"] = d550]]

Sponsorship(who, bill) ==
  [rule |-> 2, lo |-> 0, hi |-> 60,
   groups |-> [NoGroups EXCEPT !["subject"] = who, !["bill"] = bill]]

Text(matches) == [matches |-> matches, length |-> 60]

MCStatements ==
  (conflicting :> Text(<<Vote(1, cohen, "for", budget, In2023, 25), Decision(15, 0),
                         Decision(16, 5)>>)) @@
  (homonymous :> Text(<<Sponsorship(levi, budget)>>)) @@
  (wrong :> Text(<<Vote(6, danaEn, "against", budgetEn, In2023, 25), Decision(17, 0)>>)) @@
  (undated :> Text(<<Vote(1, cohen, "for", budget, None, 0)>>))

NoNodes == [s \in SlotNames |-> None]

Row(key, type, who, value) ==
  [kind |-> "graph", key |-> key, type |-> type,
   nodes |-> [NoNodes EXCEPT !["speaker_person_id"] = who, !["bill_id"] = Budget],
   from |-> 20230301, to |-> 20230301, at |-> 20230301, docs |-> {key},
   tier |-> 1, text |-> "empty", about |-> {}, value |-> value,
   seats |-> None, passed |-> None]

MCFacts == {Row(1, "vote_cast", Cohen, "for"), Row(2, "vote_cast", Cohen, "against"),
            Row(3, "vote_cast", Dana, "for"), Row(4, "bill_sponsorship", LeviA, None)}

MCSpans ==
  {[kind |-> "lexical", key |-> 9, type |-> None, nodes |-> NoNodes,
    from |-> None, to |-> None, at |-> None, docs |-> {9}, tier |-> 2,
    text |-> "long", about |-> {conflicting, homonymous, wrong, undated}, value |-> None,
    seats |-> None, passed |-> None]}

RequestSymmetry == Permutations(Requests)
=============================================================================
