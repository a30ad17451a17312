------------------------------ MODULE Adapters ------------------------------
(***************************************************************************)
(* The ten source adapters. For each: which rows its parser keeps, what    *)
(* its normaliser makes of a row (a sequence, as it may yield nothing),    *)
(* and the statements its upsert sends to the graph, in order. A row is a  *)
(* record of the upstream columns that matter; null, empty and unparsable  *)
(* columns are None; ids are numbers, so padding is gone; a day is a       *)
(* number, and stands for its midnight.                                    *)
(***************************************************************************)
EXTENDS GraphStore, Sequences, SequencesExt

CONSTANTS MkLookup,        \* mk_individual_id -> PersonID, of the members' CSV
          FactionOf,       \* <<knesset, ballot letters>> -> faction id, the curated YAML
          Knesset          \* the knesset whose election is loaded

NonNull(x, default) == IF x = None THEN default ELSE x
When(present, xs) == IF present THEN xs ELSE << >>
\* The first n sequences of xss, one after the other.
Concat(xss, n) ==
  LET upTo[i \in 0 .. n] == IF i = 0 THEN << >> ELSE upTo[i - 1] \o xss[i]
  IN upTo[n]
EachOf(xs, Statements(_)) == Concat([i \in DOMAIN xs |-> Statements(xs[i])], Len(xs))

\* The ids several adapters derive alike, so that their MERGEs meet.
Person(ext)    == <<"knesset_person", ext>>
Party(faction) == <<"knesset_party", faction>>
Committee(ext) == <<"knesset_committee", ext>>
Bill(ext)      == <<"knesset_bill", ext>>
Vote(ext)      == <<"knesset_vote", ext>>

\* The safety MERGEs: a node with nothing but its key.
PersonStub(person) == Node(person, [name |-> None])
BillStub(bill)     == Node(bill, [title |-> None, status |-> None])

------------------------------------------------------------------------------
(* People (KNS_Person). *)

ParsePersons(row) == row.PersonID # None

NormalizePerson(row) ==
  <<[person_id |-> Person(row.PersonID),
     canonical_name |-> NonNull(row.Name, <<"person", row.PersonID>>)]>>

\* The party and office lanes are dead: normalize_person leaves both null.
UpsertPerson(person) == <<Node(person.person_id, [name |-> person.canonical_name])>>

------------------------------------------------------------------------------
(* Positions (KNS_PersonToPosition). *)

ParsePositions(row) == row.PersonToPositionID # None /\ row.PersonID # None

PositionType ==
  [i \in {30, 39, 42, 43, 48, 49, 50, 51, 54, 61, 65, 67} |->
     CASE i = 30 -> "prime_minister"         [] i \in {39, 65} -> "committee_chair"
       [] i \in {42, 67} -> "committee_member" [] i \in {43, 54, 61} -> "mk"
       [] i = 48 -> "deputy_speaker"         [] i = 49 -> "minister"
       [] i = 50 -> "deputy_prime_minister"  [] i = 51 -> "deputy_minister"]
GovernmentOfficeTypes ==
  {"prime_minister", "minister", "deputy_prime_minister", "deputy_minister"}

OfficeType(row) ==
  IF row.PositionID \in DOMAIN PositionType THEN PositionType[row.PositionID]
                                            ELSE NonNull(row.DutyDesc, "unknown")
OfficeName(row) ==
  IF OfficeType(row) \in GovernmentOfficeTypes /\ row.GovMinistryName # None
  THEN row.GovMinistryName ELSE row.DutyDesc

Office(row) == <<"knesset_office", <<row.PositionID, row.GovMinistryID>>>>
Term(row)   == <<"knesset_position_term", row.PersonToPositionID>>

\* A row without a start, or with neither a faction nor a position, is dropped.
NormalizePosition(row) ==
  When(row.StartDate # None /\ (row.FactionID # None \/ row.PositionID # None),
       <<[person_id |-> Person(row.PersonID),
          party |-> When(row.FactionID # None,
                         <<[party_id |-> Party(row.FactionID),
                            party_name |-> NonNull(row.FactionName,
                                                   <<"party", row.FactionID>>)]>>),
          office |-> When(row.PositionID # None,
                          <<[office_id |-> Office(row), name |-> OfficeName(row),
                             position_term_id |-> Term(row),
                             appointing_body |->
                               IF OfficeType(row) \in GovernmentOfficeTypes
                               THEN "government" ELSE "knesset"]>>),
          dates |-> [valid_from |-> row.StartDate, valid_to |-> row.FinishDate]]>>)

UpsertPosition(b) ==
  LET PartyLane(p) ==
        <<Node(p.party_id, [name |-> p.party_name, abbreviation |-> None]),
          Edge("MEMBER_OF", b.person_id, p.party_id, b.dates)>>
      OfficeLane(o) ==
        <<Node(o.office_id, [name |-> o.name]),
          Edge("HELD_OFFICE", b.person_id, o.office_id, b.dates),
          Node(o.position_term_id, [valid_from |-> b.dates.valid_from,
                                    valid_to |-> b.dates.valid_to,
                                    appointing_body |-> o.appointing_body]),
          Edge("HAS_POSITION_TERM", b.person_id, o.position_term_id, << >>),
          Edge("ABOUT_OFFICE", o.position_term_id, o.office_id, << >>)>>
  IN <<PersonStub(b.person_id)>> \o EachOf(b.party, PartyLane)
                                 \o EachOf(b.office, OfficeLane)

------------------------------------------------------------------------------
(* Elections (the committee's results page). *)

ParseTbody(row) == row.list_name # None /\ row.seats_won # None

\* The list of a faction of the Knesset shares the faction's Party node.
ResolvePartyId(letters) ==
  IF <<Knesset, letters>> \in DOMAIN FactionOf
  THEN Party(FactionOf[<<Knesset, letters>>])
  ELSE <<"cec_list", <<Knesset, letters>>>>

\* 3.25 percent of the page's valid votes, rounded up; without a summary table
\* the page counts no valid votes and every list passes.
PassedThreshold(row) ==
  NonNull(row.votes, 0) * 10000 >= NonNull(row.valid_votes, 0) * 325

NormalizeElectionResult(row) ==
  When(row.ballot_letters # None,
       <<[election_result_id |-> <<"cec_election", <<Knesset, row.ballot_letters>>>>,
          list_party_id |-> ResolvePartyId(row.ballot_letters),
          list_name |-> row.list_name, ballot_letters |-> row.ballot_letters,
          votes |-> NonNull(row.votes, 0), seats_won |-> row.seats_won,
          passed_threshold |-> PassedThreshold(row)]>>)

UpsertElectionResult(r) ==
  <<Node(r.list_party_id, [name |-> r.list_name, abbreviation |-> r.ballot_letters]),
    Node(r.election_result_id,
         [list_party_id |-> r.list_party_id, votes |-> r.votes, seats_won |-> r.seats_won,
          passed_threshold |-> r.passed_threshold]),
    Edge("FOR_PARTY", r.election_result_id, r.list_party_id, << >>)>>

------------------------------------------------------------------------------
(* Government decisions (the BudgetKey API). *)

\* Only formal cabinet decisions with an id and a title are kept.
ParseResponse(row) == row.formal /\ row.id # None /\ row.title # None

NormalizeDecision(row) ==
  <<[government_decision_id |-> <<"budgetkey_gov_decision", row.id>>,
     decision_number |-> row.number, title |-> row.title]>>

UpsertGovernmentDecision(d) ==
  <<Node(d.government_decision_id,
         [decision_number |-> d.decision_number, title |-> d.title])>>

------------------------------------------------------------------------------
(* Committees (KNS_Committee) and their members (the oknesset CSV). *)

ParseCommittees(row) == row.CommitteeID # None

NormalizeCommittee(row) ==
  <<[committee_id |-> Committee(row.CommitteeID), hebrew_name |-> row.Name,
     canonical_name |-> NonNull(row.Name, <<"committee", row.CommitteeID>>)]>>

\* The loop over memberships is dead: normalize_committee leaves them empty.
UpsertCommittee(c) ==
  <<Node(c.committee_id, [canonical_name |-> c.canonical_name,
                          hebrew_name |-> c.hebrew_name])>>

ParseMemberships(row) == row.mk_individual_id # None /\ row.committee_id # None

\* MkIndividualLookup.get: the member of an individual's id, if there is one.
Member(mk) == When(mk \in DOMAIN MkLookup, <<Person(MkLookup[mk])>>)

\* Dropped when the member is not in the lookup or the row has no start.
NormalizeMembership(row) ==
  When(row.start_date # None,
       EachOf(Member(row.mk_individual_id), LAMBDA person :
         <<[person_id |-> person,
            committee_id |-> Committee(row.committee_id),
            committee_name |-> row.committee_name,
            dates |-> [valid_from |-> row.start_date, valid_to |-> row.finish_date]]>>))

UpsertMembership_Closed(m) ==
  <<PersonStub(m.person_id),
    Node(m.committee_id, [canonical_name |-> None, hebrew_name |-> m.committee_name]),
    Edge("MEMBER_OF_COMMITTEE", m.person_id, m.committee_id,
         [m.dates EXCEPT !.valid_to = NonNull(@, m.dates.valid_from)])>>
UpsertMembership(m) ==
  <<PersonStub(m.person_id),
    Node(m.committee_id, [canonical_name |-> None, hebrew_name |-> m.committee_name]),
    Edge("MEMBER_OF_COMMITTEE", m.person_id, m.committee_id, m.dates)>>

------------------------------------------------------------------------------
(* Bills (KNS_Bill) and their initiators (KNS_BillInitiator). *)

ParseBills(row) == row.BillID # None

NormalizeBill(row) ==
  <<[bill_id |-> Bill(row.BillID), title |-> NonNull(row.Name, <<"bill", row.BillID>>),
     status |-> row.StatusID]>>

\* The loop over sponsorships is dead: normalize_bill leaves them empty.
UpsertBill(b) == <<Node(b.bill_id, [title |-> b.title, status |-> b.status])>>

\* Co-signatories are dropped.
ParseInitiators(row) ==
  /\ row.BillInitiatorID # None /\ row.BillID # None /\ row.PersonID # None
  /\ row.IsInitiator

NormalizeInitiator(row) ==
  <<[person_id |-> Person(row.PersonID), bill_id |-> Bill(row.BillID)]>>

UpsertSponsorship(s) ==
  <<PersonStub(s.person_id), BillStub(s.bill_id),
    Edge("SPONSORED", s.person_id, s.bill_id, << >>)>>

------------------------------------------------------------------------------
(* Votes (the oknesset CSV, one row per member and vote). *)

ParseVotes(row) == row.vote_id # None /\ row.kmmbr_id # None

VoteResult == <<"for", "against", "abstain">>

\* An absence (any other code) leaves the bare event.
NormalizeVote(row) ==
  <<[vote_event_id |-> Vote(row.vote_id),
     cast_votes |-> When(row.vote_result \in DOMAIN VoteResult,
                         <<[person_id |-> Person(row.kmmbr_id),
                            value |-> VoteResult[row.vote_result]]>>)]>>

UpsertVote_NoStub(event) ==
  <<Node(event.vote_event_id, [bill_id |-> None, occurred_at |-> None])>>
    \o EachOf(event.cast_votes,
              LAMBDA cv : <<Edge("CAST_VOTE", cv.person_id, event.vote_event_id,
                                 [value |-> cv.value])>>)
UpsertVote(event) ==
  LET CastVote(cv) == <<PersonStub(cv.person_id),
                        Edge("CAST_VOTE", cv.person_id, event.vote_event_id,
                             [value |-> cv.value])>>
  IN <<Node(event.vote_event_id, [bill_id |-> None, occurred_at |-> None])>>
       \o EachOf(event.cast_votes, CastVote)

------------------------------------------------------------------------------
(* Attendance (the oknesset CSV, one row per committee session). *)

ParseAttendance(row) == row.CommitteeSessionID # None /\ row.CommitteeID # None

\* Members the lookup does not know are skipped.
NormalizeAttendance(row) ==
  <<[attendance_event_id |-> <<"knesset_attendance_event", row.CommitteeSessionID>>,
     committee_id |-> Committee(row.CommitteeID), occurred_at |-> row.StartDate,
     attendees |-> EachOf(row.attended, Member)]>>

UpsertAttendance(event) ==
  LET Attended(person) == <<PersonStub(person),
                            Edge("ATTENDED", person, event.attendance_event_id,
                                 [presence |-> "present"])>>
  IN <<Node(event.attendance_event_id, [committee_id |-> event.committee_id,
                                        occurred_at |-> event.occurred_at])>>
       \o EachOf(event.attendees, Attended)

------------------------------------------------------------------------------
AdapterNames ==
  {"people", "positions", "elections", "gov_decisions", "committees",
   "committee_memberships", "sponsorships", "bill_initiators", "votes", "attendance"}

\* parse, normalize and upsert of one row.
RowStatements(adapter, row) ==
  CASE adapter = "people" ->
         When(ParsePersons(row), EachOf(NormalizePerson(row), UpsertPerson))
    [] adapter = "positions" ->
         When(ParsePositions(row), EachOf(NormalizePosition(row), UpsertPosition))
    [] adapter = "elections" ->
         When(ParseTbody(row), EachOf(NormalizeElectionResult(row), UpsertElectionResult))
    [] adapter = "gov_decisions" ->
         When(ParseResponse(row), EachOf(NormalizeDecision(row), UpsertGovernmentDecision))
    [] adapter = "committees" ->
         When(ParseCommittees(row), EachOf(NormalizeCommittee(row), UpsertCommittee))
    [] adapter = "committee_memberships" ->
         When(ParseMemberships(row), EachOf(NormalizeMembership(row), UpsertMembership))
    [] adapter = "sponsorships" ->
         When(ParseBills(row), EachOf(NormalizeBill(row), UpsertBill))
    [] adapter = "bill_initiators" ->
         When(ParseInitiators(row), EachOf(NormalizeInitiator(row), UpsertSponsorship))
    [] adapter = "votes" ->
         When(ParseVotes(row), EachOf(NormalizeVote(row), UpsertVote))
    [] adapter = "attendance" ->
         When(ParseAttendance(row), EachOf(NormalizeAttendance(row), UpsertAttendance))

\* One page: its rows one after the other, each row's statements in order.
PageStatements(adapter, rows) ==
  EachOf(rows, LAMBDA row : RowStatements(adapter, row))
=============================================================================
