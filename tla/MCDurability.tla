---------------------------- MODULE MCDurability ----------------------------
(* Instances of Durability. *)
EXTENDS Durability, TLC
Symmetry == Permutations(Procs)

AllSteps == {"step1", "step2", "step3", "step4", "check2", "check3", "check4", "cover",
             "recoverSync", "gateSync"}

\* One process, six transactions, two power losses.
Deep == [procs : {{p} : p \in Procs}, modes : {{"SyncNone", "SyncBoth"}}, size : {5}, txns : {6},
         kills : {0}, fails : {0}, crashes : {2}, reads : {FALSE}]

\* One process, every sync mode.
Mixed == [procs : {{p} : p \in Procs}, modes : {SyncModes}, size : {5}, txns : {5},
          kills : {0}, fails : {0}, crashes : {1}, reads : {FALSE}]

\* One process whose pwrites and fdatasyncs fail.
Faulty == [procs : {{p} : p \in Procs}, modes : {SyncModes}, size : {5}, txns : {4},
           kills : {0}, fails : {2}, crashes : {1}, reads : {FALSE}]

\* Two processes and a reader in a file with little room; one process dies,
\* power is lost once.
Pair == [procs : {Procs}, modes : {{"SyncNone", "SyncBoth"}}, size : {4}, txns : {4},
         kills : {1}, fails : {0}, crashes : {1}, reads : {TRUE}]

\* Two processes and a reader; one process dies.
Read == [procs : {Procs}, modes : {{"SyncNone", "SyncBoth"}}, size : {5}, txns : {4},
         kills : {1}, fails : {0}, crashes : {0}, reads : {TRUE}]

\* One process that dies.
Dying == [procs : {{p} : p \in Procs}, modes : {{"SyncNone", "SyncBoth"}}, size : {7}, txns : {5},
          kills : {1}, fails : {0}, crashes : {0}, reads : {FALSE}]

MCPlans == Deep \cup Mixed \cup Faulty \cup Pair \cup Read
=============================================================================
