------------------------------ MODULE FactBase ------------------------------
(***************************************************************************)
(* What the ingestion promises of the graph: a growing set of statements   *)
(* about the public record, each of which the record makes, and each about *)
(* things that are themselves in the graph.                                *)
(***************************************************************************)
CONSTANTS Record,                \* every fact the sources state
          Ends(_)                \* the facts a fact is about
VARIABLE known                   \* the facts loaded so far

Grounded(facts) == \A f \in facts : Ends(f) \subseteq facts

Init == known = {}
Learn == known \subseteq known' /\ known' \subseteq Record /\ Grounded(known')
Spec == Init /\ [][Learn]_known
=============================================================================
