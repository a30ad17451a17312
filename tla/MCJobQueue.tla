----------------------------- MODULE MCJobQueue -----------------------------
(* Instances of JobQueue for TLC: one job with a handler, one without.     *)
EXTENDS JobQueue, TLC

CONSTANTS jobA, jobB

MCJobs == {jobA, jobB}
MCKind == (jobA :> "fetch") @@ (jobB :> "parse")
MCAdapter == (jobA :> "people") @@ (jobB :> None)
MCPriority == (jobA :> 5) @@ (jobB :> 1)

\* jobA has no handler of its own and takes the default of its kind; jobB's
\* kind has none.
MCRegistry == {<<"fetch", None>>, <<"fetch", "votes">>, <<"normalize", None>>}

\* Both kinds have a default handler.
MCRegistryDefault == {<<"parse", None>>, <<"fetch", None>>, <<"fetch", "votes">>}
=============================================================================
