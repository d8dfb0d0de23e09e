-------------------------------- MODULE Peers --------------------------------
(***************************************************************************)
(* Processes that share a database: writers, readers, Compact and leak     *)
(* reclamation (DataFile) together with change notification (Notify).  The *)
(* two meet where a commit is published, a handle opens or closes, and a   *)
(* process dies.                                                           *)
(***************************************************************************)
EXTENDS Notify

vars == <<dataVars, notifyVars>>

Init == InitData /\ InitNotify

\* The lock file is mapped before the data file is attached.
Open(p) ==
    /\ OpenFile(p) /\ ~Waiting(p) /\ refs[p] = 0
    /\ refs' = [refs EXCEPT ![p] = 1]
    /\ UNCHANGED <<wordVars, waitVars>>

Seed(p) == Seeded(p) /\ SeedNotifyVersion(adopted[p].txn, adopted[p].has)

Close(p) ==
    /\ CloseEnd(p)
    /\ refs' = [refs EXCEPT ![p] = @ - 1]
    /\ UNCHANGED <<wordVars, waitVars>>

Die(p) ==
    /\ Kill(p)
    /\ pub' = IF grant = p THEN Idle ELSE pub
    /\ wpc' = [wpc EXCEPT ![p] = "idle"]
    /\ ctx' = [ctx EXCEPT ![p] = "live"]
    /\ refs' = [refs EXCEPT ![p] = 0]
    /\ WaitForgotten(p)
    /\ UNCHANGED <<word, by>>

(* mutant: a commit that has not become visible is announced too *)
AnnounceAnyway(p, ss) ==
    /\ op[p] \in {"write", "visible"}
    /\ goal[p] = "reclaim" => ss = {}
    /\ PublishBump(IF op[p] = "visible" THEN commits ELSE commits + 1, ss)
    /\ Publishing(p, op[p], "wake")

\* publishCommitNotify: the commit's number and the keyspaces it touched.
Announce(p, ss) ==
    /\ goal[p] = "reclaim" => ss = {}
    /\ PublishBump(commits, ss)
    /\ Publishing(p, "visible", "wake")

AnnounceWake(p) ==
    /\ op[p] = "wake" /\ PublishWake
    /\ IF pub.todo = {} THEN Published(p) ELSE Publishing(p, "wake", "stamp")

AnnounceStamp(p, s) == PublishStamp(s) /\ Publishing(p, "stamp", "wake")

Wait(p, s, v) ==
    /\ state[p] = "open" /\ ~bad[p] /\ WaitStart(p, s, v)
    /\ UNCHANGED dataVars

Check(p) == WaitCheck(p, state[p] # "open") /\ UNCHANGED dataVars

DataStep(p) ==
    /\ \/ Attach(p) \/ CacheGeneration(p) \/ VerifyInode(p) \/ CloseStart(p)
       \/ \E g \in {"tx", "compact", "reclaim"} : AcquireWriter(p, g)
       \/ GrantRefused(p) \/ Begin(p) \/ Rollback(p)
       \/ \E failed \in BOOLEAN : CommitVisible(p, failed) \/ CommitNotVisible(p, failed)
       \/ CommitUnverified(p)
       \/ BeginRead(p) \/ FileClosed(p) \/ PinSnapshot(p) \/ ReadGeneration(p)
       \/ NewReader(p) \/ EndRead(p)
       \/ CompactStart(p) \/ CopyCompact(p) \/ CompactGivesUp(p) \/ Teardown(p)
       \/ Rename(p) \/ (\E failed \in BOOLEAN : RenameRefused(p, failed))
       \/ BumpDataGeneration(p) \/ StoreGeneration(p) \/ ReopenFails(p)
       \/ InstallCompactPager(p)
       \/ MaintStart(p) \/ MaintSnapshot(p) \/ MaintWalk(p) \/ MaintSkips(p)
       \/ ReclaimLeaks(p) \/ DiscardLeaks(p)
    /\ UNCHANGED notifyVars

WaitStep(p) ==
    /\ \/ WaitLoad(p) \/ WaitSleep(p) \/ WaitSlice(p) \/ Cancel(p)
       \/ CancelWake(p) \/ WaitLeave(p)
    /\ UNCHANGED dataVars

Next ==
    \E p \in Procs :
        \/ Open(p) \/ Seed(p) \/ Close(p) \/ Die(p)
        \/ DataStep(p)
        \/ \E ss \in SUBSET Slots : Announce(p, ss)
        \/ AnnounceWake(p) \/ (\E s \in Slots : AnnounceStamp(p, s))
        \/ \E s \in Words, v \in 0 .. word[Global] : Wait(p, s, v)
        \/ Check(p) \/ WaitStep(p)

\* The waiting goroutine runs, the kernel ends its slice of sleep, and the
\* callback of a done context runs.
WaitGoes(p) ==
    /\ WaitLoad(p) \/ WaitCheck(p, state[p] # "open") \/ WaitSleep(p) \/ WaitSlice(p)
       \/ WaitLeave(p)
    /\ UNCHANGED dataVars

Spec ==
    /\ Init /\ [][Next]_vars
    /\ \A p \in Procs : WF_vars(WaitGoes(p)) /\ WF_vars(CancelWake(p) /\ UNCHANGED dataVars)

-----------------------------------------------------------------------------
(* Properties *)

OpPcs == {"idle", "granted", "write", "visible", "wake", "stamp", "drain", "copied", "torn",
          "renamed", "bumped", "stored"}

\* The variables have their types, and whoever is under way with the grant
\* is its holder.
TypeOK ==
    /\ path \in Inodes /\ gen \in 0 .. path /\ commits \in 0 .. MaxCommits
    /\ grant \in Procs \cup {None}
    /\ \A p \in Procs :
           /\ op[p] \in OpPcs
           /\ op[p] # "idle" => grant = p
           /\ ino[p] \in 0 .. path /\ cached[p] \in 0 .. gen
           /\ refs[p] \in 0 .. 2

\* Every commit that became visible is in the file the path names, whoever
\* replaced that file and whoever was writing meanwhile (Compact's rename,
\* DataGeneration, and the checks of Begin, BeginRead and Open).
OneHistory == 1 .. commits \subseteq has[path]

\* A read transaction sees every commit that was visible when BeginRead was
\* called, though a Compact of any process may run beside it.
SnapshotFresh == \A p \in Procs : rpc[p] = "live" => 1 .. need[p] \subseteq rhas[p]

\* When leak reclamation passes its guard, the pages it has found leaked
\* are those of the file it is about to change, as that file now is.
LeaksExact ==
    \A p \in Procs :
        goal[p] = "reclaim" /\ op[p] = "granted" /\ GrantPassed(p) /\ SetCurrent(p)
            => mino[p] = ino[p] /\ mhas[p] = has[ino[p]]

\* What a wait returns for is visible in the file the path names: a read
\* transaction that begins after WaitVersion sees that commit.
WaitTruthful == \A p \in Procs : due[p] \subseteq has[path]

\* The waiter, and the callback of its context, find the lock file mapped.
NotifyMapped == \A p \in Procs : Waiting(p) \/ ctx[p] = "done" => refs[p] > 0

\* No version word ever falls, so that no later commit hides from a waiter
\* (SeedNotifyVersion against PublishCommit, TxnIDs that Compact restarts).
VersionsRise == [][\A s \in Words : word'[s] >= word[s]]_vars

\* A wait ends once its word has passed from, its context is done or the
\* handle closes, whatever wake-ups were missed.
WaitEnds ==
    \A p \in Procs :
        (Waiting(p) /\ (word[slot[p]] > from[p] \/ ctx[p] # "live" \/ state[p] # "open"))
            ~> ~Waiting(p)
=============================================================================
