---------------------------- MODULE MCDataPlane ----------------------------
(* Instances of DataPlane for TLC.                                         *)
EXTENDS DataPlane, TLC

CONSTANTS ingest, other

MCProcesses == {ingest, other}

Positions(id, person, faction, position, ministry, start, finish) ==
  [PersonToPositionID |-> id, PersonID |-> person, FactionID |-> faction,
   FactionName |-> "Likud", PositionID |-> position, GovMinistryID |-> ministry,
   GovMinistryName |-> IF ministry = None THEN None ELSE "Treasury",
   DutyDesc |-> "duty", StartDate |-> start, FinishDate |-> finish]
Decisions(id, formal) ==
  [id |-> id, number |-> id, title |-> "title", formal |-> formal]
Memberships(mk, start, finish) ==
  [mk_individual_id |-> mk, committee_id |-> 4, committee_name |-> "Finance",
   start_date |-> start, finish_date |-> finish]
Votes(vote, member, code) ==
  [vote_id |-> vote, kmmbr_id |-> member, vote_result |-> code]

\* Person 1 was minister twice. Member 101 is person 1, who
\* sat on committee 4 twice; 102 is person 2; 103 is unknown.
MCFeed ==
  [people |-> <<[PersonID |-> 1, Name |-> "Katz"], [PersonID |-> None, Name |-> "x"]>>,
   positions |-> <<Positions(11, 1, 71, 49, 5, 1, 2), Positions(12, 1, None, 49, 5, 4, None)>>,
   elections |-> <<[list_name |-> "The Likud", ballot_letters |-> "mhl", seats_won |-> 32,
                    votes |-> 4, valid_votes |-> 100]>>,
   gov_decisions |-> <<Decisions(21, TRUE), Decisions(22, TRUE), Decisions(23, FALSE),
                       Decisions(24, TRUE)>>,
   committees |-> <<[CommitteeID |-> 4, Name |-> "Finance committee"]>>,
   committee_memberships |-> <<Memberships(101, 1, 2), Memberships(101, 4, None),
                               Memberships(102, 3, None), Memberships(103, 1, 2)>>,
   sponsorships |-> <<[BillID |-> 6, Name |-> "Bill", StatusID |-> None]>>,
   bill_initiators |-> <<[BillInitiatorID |-> 61, BillID |-> 6, PersonID |-> 1,
                          IsInitiator |-> TRUE],
                         [BillInitiatorID |-> 62, BillID |-> 6, PersonID |-> 2,
                          IsInitiator |-> FALSE]>>,
   votes |-> <<Votes(8, 3, 1), Votes(8, 1, 4)>>,
   attendance |-> <<[CommitteeSessionID |-> 9, CommitteeID |-> 4, StartDate |-> 3,
                     attended |-> <<102, 103>>]>>]

\* scripts/ingest_all.sh.
IngestAll == <<"people", "positions", "elections", "gov_decisions", "committees",
               "committee_memberships", "sponsorships", "bill_initiators", "votes",
               "attendance">>

MCScript == (ingest :> IngestAll) @@ (other :> <<"positions", "enrich_vote_bills">>)

MCMkLookup == (101 :> 1) @@ (102 :> 2)
MCFactionOf == (<<25, "mhl">> :> 71)
=============================================================================
