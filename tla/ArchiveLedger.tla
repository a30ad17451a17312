---------------------------- MODULE ArchiveLedger ----------------------------
(***************************************************************************)
(* What the archive tables promise to a reader of Postgres: a content is   *)
(* recorded once, by one run; the records of a run appear all at once, in  *)
(* the same instant as its outcome; and nothing recorded ever changes.     *)
(***************************************************************************)
CONSTANTS Contents, Runs, Days

VARIABLES
  ledger,    \* the recorded contents
  outcome    \* outcome[r]: what ingest_runs says of run r

lvars == <<ledger, outcome>>

Entry == [content: Contents, run: Runs, day: Days]

Recorded(c) == \E e \in ledger : e.content = c

LInit == /\ ledger = {}
         /\ outcome = [r \in Runs |-> "absent"]

Begin(r) == /\ outcome[r] = "absent"
            /\ outcome' = [outcome EXCEPT ![r] = "running"]
            /\ UNCHANGED ledger

\* The run closes, with new entries of its own, each for a content of its own.
Close(r) ==
  /\ outcome[r] = "running"
  /\ \E o \in {"succeeded", "failed"} : outcome' = [outcome EXCEPT ![r] = o]
  /\ ledger \subseteq ledger' /\ ledger' \subseteq Entry
  /\ \A e \in ledger' \ ledger :
       /\ e.run = r /\ ~Recorded(e.content)
       /\ \A f \in ledger' \ ledger : f.content = e.content => f = e

LNext == \E r \in Runs : Begin(r) \/ Close(r)

LSpec == LInit /\ [][LNext]_lvars
=============================================================================
