---------------------------- MODULE MCReviewQueue ----------------------------
(* An instance of ReviewQueue for TLC: an entity_resolution task that      *)
(* names a candidate with a row, one that names a candidate without, and a *)
(* verdict task that names none.                                           *)
EXTENDS ReviewQueue, TLC

CONSTANTS linking, stray, ruling, c1, c2

MCTasks == {linking, stray, ruling}
MCCandidates == {c1, c2}
MCStored == {c1}
MCKind == (linking :> "entity_resolution") @@ (stray :> "entity_resolution")
            @@ (ruling :> "verdict")
MCPayload == (linking :> c1) @@ (stray :> c2) @@ (ruling :> None)

RequestSymmetry == Permutations(Requests)
=============================================================================
