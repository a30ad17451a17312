----------------------------- MODULE WorkItems -----------------------------
(***************************************************************************)
(* What the job queue promises, without tables, transactions or clocks:    *)
(* each item is taken by at most one process at a time, each taking counts *)
(* one try, and an item leaves a process either finished, or back for      *)
(* another try, or buried after MaxTries tries.  A process that vanishes   *)
(* drops its item, which then stays taken for good: the queue gives no     *)
(* promise beyond that.                                                    *)
(***************************************************************************)
EXTENDS Naturals

CONSTANTS Items, Processes, MaxTries

VARIABLES
  state,     \* state[i] of an item
  tries,     \* how often an item was taken
  holders    \* the processes that work on an item

itemVars == <<state, tries, holders>>

States == {"absent", "ready", "taken", "finished", "buried"}

WTypeOK == /\ state \in [Items -> States]
           /\ tries \in [Items -> 0 .. MaxTries]
           /\ holders \in [Items -> SUBSET Processes]

WInit == /\ state = [i \in Items |-> "absent"]
         /\ tries = [i \in Items |-> 0]
         /\ holders = [i \in Items |-> {}]

Move(i, from, to) == /\ state[i] = from
                     /\ state' = [state EXCEPT ![i] = to]

Submit(i) == /\ Move(i, "absent", "ready")
             /\ UNCHANGED <<tries, holders>>

\* A taking whose process never learns of it leaves the item without a holder.
Take(i) == /\ Move(i, "ready", "taken")
           /\ tries[i] < MaxTries
           /\ holders[i] = {}
           /\ tries' = [tries EXCEPT ![i] = @ + 1]
           /\ \E P \in {{}} \cup {{p} : p \in Processes} :
                holders' = [holders EXCEPT ![i] = P]

\* Only a holder moves an item on, and it holds it no more.
Leave(i, to) == /\ holders[i] # {}
                /\ Move(i, "taken", to)
                /\ holders' = [holders EXCEPT ![i] = {}]
                /\ UNCHANGED tries

Finish(i) == Leave(i, "finished")
GiveBack(i) == tries[i] < MaxTries /\ Leave(i, "ready")
Bury(i) == tries[i] = MaxTries /\ Leave(i, "buried")

Drop(i) == /\ holders[i] # {}
           /\ holders' = [holders EXCEPT ![i] = {}]
           /\ UNCHANGED <<state, tries>>

ItemStep(i) ==
  Submit(i) \/ Take(i) \/ Finish(i) \/ GiveBack(i) \/ Bury(i) \/ Drop(i)

WNext == \E i \in Items : ItemStep(i)

WSpec == WInit /\ [][WNext]_itemVars
=============================================================================
