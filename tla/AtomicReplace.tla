--------------------------- MODULE AtomicReplace ---------------------------
(***************************************************************************)
(* What a command line promises about the files it is pointed at: a run    *)
(* ends once, and putting its whole output in the place of one directory   *)
(* entry is the same instant as succeeding.  A run that fails or is killed *)
(* changes nothing anyone can read.                                        *)
(***************************************************************************)
EXTENDS Naturals

CONSTANTS
  Procs,      \* runs
  Paths,      \* directory entries
  Output(_)   \* what the whole output of a run looks like

VARIABLES
  shown,      \* what each directory entry holds
  outcome     \* "pending" until a run has ended

vars == <<shown, outcome>>

Init ==
  /\ \A n \in Paths : \A p \in Procs : shown[n] # Output(p)
  /\ outcome = [p \in Procs |-> "pending"]

Replace(p, n) ==
  /\ outcome[p] = "pending"
  /\ shown' = [shown EXCEPT ![n] = Output(p)]
  /\ outcome' = [outcome EXCEPT ![p] = "ok"]

Fail(p) ==
  /\ outcome[p] = "pending"
  /\ outcome' \in {[outcome EXCEPT ![p] = e] : e \in {"err", "dead"}}
  /\ UNCHANGED shown

Next == \E p \in Procs : Fail(p) \/ \E n \in Paths : Replace(p, n)

Spec == Init /\ [][Next]_vars
=============================================================================
