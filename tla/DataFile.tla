------------------------------ MODULE DataFile ------------------------------
(***************************************************************************)
(* The data file as several handles share it while Compact replaces it     *)
(* under them (compact.go, db.go, read_tx.go, maintenance.go).             *)
(*                                                                         *)
(* A file is an inode; path is the one the directory names, each rename    *)
(* makes the next one.  A commit is a number: has[i] is the set of commits *)
(* in inode i, txn[i] the TxnID of its meta, which Compact restarts at 0.  *)
(* Every handle keeps its file descriptor, a cached copy of the lock       *)
(* header's DataGeneration, and a pager; grant is the cross-process write  *)
(* grant.  What a commit does to the pages of one file is the subject of   *)
(* Durability, what Close does inside one process that of Handle.          *)
(***************************************************************************)
EXTENDS Naturals, FiniteSets

CONSTANTS
    Procs,         \* processes, one handle each
    Programs,      \* what the processes may be doing, see uses
    MaxCommits,    \* bound on commits
    MaxCompacts,   \* bound on calls of Compact
    MaxKills,      \* bound on process deaths
    RenameMortal,  \* whether a process may die between the rename and the bump
    None           \* nobody

\* What may happen in a process beside Open.
Uses == {"write", "read", "compact", "maintain", "wait", "close", "die"}

ASSUME DataFileAssumption ==
    /\ Programs \subseteq [Procs -> SUBSET Uses] /\ None \notin Procs
    /\ MaxCommits \in Nat /\ MaxCompacts \in Nat /\ MaxKills \in Nat
    /\ RenameMortal \in BOOLEAN

VARIABLES
    uses,                           \* uses[p]: what p does, fixed from the start
    path, txn, has, gen, commits, grant,
    state, ino, adopted, cached, bad, pgr,  \* the handles
    op, goal,                       \* what a handle does with the grant
    rpc, rino, need, rhas,          \* its read transaction
    mpc, mpgr, mino, mtxn, mhas,    \* its maintenance pass
    calls, kills

fileVars == <<path, txn, has, gen, commits, grant>>
handleVars == <<state, ino, adopted, cached, bad, pgr>>
opVars == <<op, goal>>
readVars == <<rpc, rino, need, rhas>>
maintVars == <<mpc, mpgr, mino, mtxn, mhas>>
dataVars == <<uses, fileVars, handleVars, opVars, readVars, maintVars, calls, kills>>

Inodes == 0 .. MaxCompacts
CommitIds == 1 .. MaxCommits

\* No meta adopted.
Nothing == [txn |-> 0, has |-> {}]

InitData ==
    /\ uses \in Programs
    /\ path = 0 /\ gen = 0 /\ commits = 0 /\ grant = None
    /\ txn = [i \in Inodes |-> 0] /\ has = [i \in Inodes |-> {}]
    /\ state = [p \in Procs |-> "closed"] /\ ino = [p \in Procs |-> 0]
    /\ adopted = [p \in Procs |-> Nothing]
    /\ cached = [p \in Procs |-> 0] /\ bad = [p \in Procs |-> FALSE]
    /\ pgr = [p \in Procs |-> 0]
    /\ op = [p \in Procs |-> "idle"] /\ goal = [p \in Procs |-> "tx"]
    /\ rpc = [p \in Procs |-> "idle"] /\ rino = [p \in Procs |-> 0]
    /\ need = [p \in Procs |-> 0] /\ rhas = [p \in Procs |-> {}]
    /\ mpc = [p \in Procs |-> "idle"] /\ mpgr = [p \in Procs |-> 0]
    /\ mino = [p \in Procs |-> 0] /\ mtxn = [p \in Procs |-> 0]
    /\ mhas = [p \in Procs |-> {}]
    /\ calls = 0 /\ kills = 0

-----------------------------------------------------------------------------
(* Open *)

OpenFile(p) ==
    /\ state[p] = "closed" /\ rpc[p] = "idle"
    /\ state' = [state EXCEPT ![p] = "file"]
    /\ ino' = [ino EXCEPT ![p] = path]
    /\ UNCHANGED <<fileVars, adopted, cached, bad, pgr, opVars, readVars, maintVars, uses,
                   calls, kills>>

\* The attach holds the grant from start to end.
Attach(p) ==
    /\ state[p] = "file" /\ grant = None
    /\ state' = [state EXCEPT ![p] = "attached"]
    /\ adopted' = [adopted EXCEPT ![p] = [txn |-> txn[ino[p]], has |-> has[ino[p]]]]
    /\ UNCHANGED <<fileVars, ino, cached, bad, pgr, opVars, readVars, maintVars, uses,
                   calls, kills>>

Seeded(p) ==
    /\ state[p] = "attached"
    /\ state' = [state EXCEPT ![p] = "seeded"]
    /\ adopted' = [adopted EXCEPT ![p] = Nothing]
    /\ UNCHANGED <<fileVars, ino, cached, bad, pgr, opVars, readVars, maintVars, uses,
                   calls, kills>>

CacheGeneration(p) ==
    /\ state[p] = "seeded"
    /\ state' = [state EXCEPT ![p] = "cached"]
    /\ cached' = [cached EXCEPT ![p] = gen]
    /\ UNCHANGED <<fileVars, adopted, ino, bad, pgr, opVars, readVars, maintVars, uses,
                   calls, kills>>

\* errStaleInodeAtOpen closes the handle; Open retries, or its caller does.
VerifyInode(p) ==
    /\ state[p] = "cached"
    /\ state' = [state EXCEPT ![p] = IF ino[p] = path THEN "open" ELSE "stale"]
    /\ bad' = [bad EXCEPT ![p] = FALSE]
    /\ pgr' = [pgr EXCEPT ![p] = IF ino[p] = path THEN 1 ELSE 0]
    /\ UNCHANGED <<fileVars, adopted, ino, cached, opVars, readVars, maintVars, uses,
                   calls, kills>>

-----------------------------------------------------------------------------
(* The write grant *)

\* The gates a call passes before it asks for the grant.
Admitted(p) == state[p] = "open" /\ ~bad[p] /\ op[p] = "idle"

\* Nobody has the flock.
FlockFree == grant = None

AcquireWriter(p, g) ==
    /\ Admitted(p) /\ FlockFree
    /\ \/ g = "tx" /\ "write" \in uses[p]
       \/ g = "compact" /\ "compact" \in uses[p] /\ calls < MaxCompacts
       \/ g = "reclaim" /\ mpc[p] = "walked"
    /\ grant' = p
    /\ op' = [op EXCEPT ![p] = "granted"]
    /\ goal' = [goal EXCEPT ![p] = g]
    /\ UNCHANGED <<path, txn, has, gen, commits, handleVars, readVars, maintVars, uses,
                   calls, kills>>

Release(p) ==
    /\ grant' = None
    /\ op' = [op EXCEPT ![p] = "idle"]
    /\ goal' = [goal EXCEPT ![p] = "tx"]

Poison(p) == bad' = [bad EXCEPT ![p] = TRUE]

(* mutant: the handle trusts the file it has open *)
GenerationMovedNever(p) == FALSE

GenerationMoved(p) == cached[p] # gen

\* acquireWriteGrant's re-checks: poison, close, then generation.
GrantPassed(p) == ~bad[p] /\ state[p] = "open" /\ ~GenerationMoved(p)

GrantRefused(p) ==
    /\ op[p] = "granted" /\ ~GrantPassed(p) /\ Release(p)
    /\ bad' = [bad EXCEPT ![p] = @ \/ state[p] = "open"]
    /\ UNCHANGED <<path, txn, has, gen, commits, adopted, state, ino, cached, pgr, readVars,
                   maintVars, uses, calls, kills>>

Step(p, from, to) ==
    /\ op[p] = from
    /\ op' = [op EXCEPT ![p] = to]
    /\ UNCHANGED goal

Begin(p) ==
    /\ goal[p] = "tx" /\ GrantPassed(p) /\ Step(p, "granted", "write")
    /\ UNCHANGED <<fileVars, handleVars, readVars, maintVars, uses, calls, kills>>

Rollback(p) ==
    /\ op[p] = "write" /\ Release(p)
    /\ UNCHANGED <<path, txn, has, gen, commits, handleVars, readVars, maintVars, uses,
                   calls, kills>>

\* A commit in the file this handle has open; its meta is visible.
CommitIn(p) ==
    /\ commits < MaxCommits
    /\ commits' = commits + 1
    /\ txn' = [txn EXCEPT ![ino[p]] = @ + 1]
    /\ has' = [has EXCEPT ![ino[p]] = @ \cup {commits + 1}]

\* Published, or published although the barrier after it failed.
CommitVisible(p, failed) ==
    /\ CommitIn(p)
    /\ Step(p, "write", "visible")
    /\ bad' = [bad EXCEPT ![p] = @ \/ failed]
    /\ UNCHANGED <<path, gen, grant, adopted, state, ino, cached, pgr, readVars, maintVars,
                   uses, calls, kills>>

\* Publication failed and so did the readback: nobody is told anything.
CommitUnverified(p) ==
    /\ CommitIn(p)
    /\ op[p] = "write" /\ Release(p) /\ Poison(p)
    /\ UNCHANGED <<path, gen, adopted, state, ino, cached, pgr, readVars, maintVars, uses,
                   calls, kills>>

\* A publication failure before the meta poisons; one in assembly does not.
CommitNotVisible(p, failed) ==
    /\ op[p] = "write" /\ Release(p)
    /\ bad' = [bad EXCEPT ![p] = @ \/ failed]
    /\ UNCHANGED <<path, txn, has, gen, commits, adopted, state, ino, cached, pgr, readVars,
                   maintVars, uses, calls, kills>>

\* publishCommitNotify is over.
Published(p) ==
    /\ op[p] = "wake" /\ Release(p)
    /\ UNCHANGED <<path, txn, has, gen, commits, handleVars, readVars, maintVars, uses,
                   calls, kills>>

\* One of its steps.
Publishing(p, at, to) ==
    /\ Step(p, at, to)
    /\ UNCHANGED <<fileVars, handleVars, readVars, maintVars, uses, calls, kills>>

-----------------------------------------------------------------------------
(* Read transactions *)

\* A slot of this process in the reader table.
SlotHeld(p) == rpc[p] \in {"pinned", "checked", "live"} \/ mpc[p] = "snapshot"

\* need: the commits visible when the call is made.
BeginRead(p) ==
    /\ state[p] = "open" /\ ~bad[p] /\ rpc[p] = "idle" /\ "read" \in uses[p]
    /\ rpc' = [rpc EXCEPT ![p] = "called"]
    /\ rino' = [rino EXCEPT ![p] = ino[p]]
    /\ need' = [need EXCEPT ![p] = commits]
    /\ UNCHANGED <<fileVars, handleVars, opVars, rhas, maintVars, uses, calls, kills>>

ReadEnds(p) ==
    /\ rpc' = [rpc EXCEPT ![p] = "idle"]
    /\ rino' = [rino EXCEPT ![p] = 0]
    /\ need' = [need EXCEPT ![p] = 0]
    /\ rhas' = [rhas EXCEPT ![p] = {}]

\* installCompactPager closed the descriptor the call had captured.
FileClosed(p) ==
    /\ rpc[p] \in {"called", "checked"} /\ rino[p] # ino[p]
    /\ ReadEnds(p)
    /\ UNCHANGED <<fileVars, handleVars, opVars, maintVars, uses, calls, kills>>

\* The meta, read again after the slot is published until it is stable.
PinSnapshot(p) ==
    /\ rpc[p] = "called" /\ rino[p] = ino[p]
    /\ rpc' = [rpc EXCEPT ![p] = "pinned"]
    /\ rhas' = [rhas EXCEPT ![p] = has[rino[p]]]
    /\ UNCHANGED <<fileVars, handleVars, opVars, rino, need, maintVars, uses, calls, kills>>

(* mutant: BeginRead does not look at the generation *)
ReadGenerationNot(p) ==
    /\ rpc[p] = "pinned"
    /\ rpc' = [rpc EXCEPT ![p] = "checked"]
    /\ UNCHANGED <<fileVars, handleVars, opVars, rino, need, rhas, maintVars, uses, calls,
                   kills>>

ReadGeneration(p) ==
    /\ rpc[p] = "pinned"
    /\ IF GenerationMoved(p) THEN Poison(p) /\ ReadEnds(p)
       ELSE /\ rpc' = [rpc EXCEPT ![p] = "checked"]
            /\ UNCHANGED <<bad, rino, need, rhas>>
    /\ UNCHANGED <<fileVars, adopted, state, ino, cached, pgr, opVars, maintVars, uses,
                   calls, kills>>

NewReader(p) ==
    /\ rpc[p] = "checked" /\ rino[p] = ino[p]
    /\ rpc' = [rpc EXCEPT ![p] = "live"]
    /\ UNCHANGED <<fileVars, handleVars, opVars, rino, need, rhas, maintVars, uses, calls,
                   kills>>

EndRead(p) ==
    /\ rpc[p] = "live" /\ ReadEnds(p)
    /\ UNCHANGED <<fileVars, handleVars, opVars, maintVars, uses, calls, kills>>

-----------------------------------------------------------------------------
(* Compact *)

CompactStart(p) ==
    /\ goal[p] = "compact" /\ GrantPassed(p) /\ Step(p, "granted", "drain")
    /\ UNCHANGED <<fileVars, handleVars, readVars, maintVars, uses, calls, kills>>

\* The readers of this process are gone; the copy reads a snapshot of its own.
CopyCompact(p) ==
    /\ ~SlotHeld(p) /\ ~bad[p] /\ Step(p, "drain", "copied")
    /\ UNCHANGED <<fileVars, handleVars, readVars, maintVars, uses, calls, kills>>

\* ErrCompactReadersActive, a poisoned handle, or a copy that failed.
CompactGivesUp(p) ==
    /\ op[p] = "drain" /\ Release(p)
    /\ UNCHANGED <<path, txn, has, gen, commits, handleVars, readVars, maintVars, uses,
                   calls, kills>>

Teardown(p) ==
    /\ Step(p, "copied", "torn")
    /\ pgr' = [pgr EXCEPT ![p] = 0]
    /\ UNCHANGED <<fileVars, adopted, state, ino, cached, bad, readVars, maintVars, uses,
                   calls, kills>>

\* calls also names the pager the call will install.
Rename(p) ==
    /\ Step(p, "torn", "renamed")
    /\ path' = path + 1
    /\ txn' = [txn EXCEPT ![path + 1] = 0]
    /\ has' = [has EXCEPT ![path + 1] = has[ino[p]]]
    /\ calls' = calls + 1
    /\ UNCHANGED <<gen, commits, grant, handleVars, readVars, maintVars, uses, kills>>

\* The original file is attached again, by a new pager.
RenameRefused(p, failed) ==
    /\ op[p] = "torn" /\ Release(p)
    /\ calls' = calls + 1
    /\ pgr' = [pgr EXCEPT ![p] = IF failed THEN 0 ELSE calls + 2]
    /\ bad' = [bad EXCEPT ![p] = @ \/ failed]
    /\ UNCHANGED <<path, txn, has, gen, commits, adopted, state, ino, cached, readVars,
                   maintVars, uses, kills>>

BumpDataGeneration(p) ==
    /\ Step(p, "renamed", "bumped")
    /\ gen' = gen + 1
    /\ UNCHANGED <<path, txn, has, commits, grant, handleVars, readVars, maintVars, uses,
                   calls, kills>>

StoreGeneration(p) ==
    /\ Step(p, "bumped", "stored")
    /\ cached' = [cached EXCEPT ![p] = gen]
    /\ UNCHANGED <<fileVars, adopted, state, ino, bad, pgr, readVars, maintVars, uses,
                   calls, kills>>

\* The directory sync, the open or the attach failed.
ReopenFails(p) ==
    /\ op[p] = "stored" /\ Poison(p) /\ Release(p)
    /\ UNCHANGED <<path, txn, has, gen, commits, adopted, state, ino, cached, pgr, readVars,
                   maintVars, uses, calls, kills>>

InstallCompactPager(p) ==
    /\ op[p] = "stored" /\ Release(p)
    /\ ino' = [ino EXCEPT ![p] = path]
    /\ pgr' = [pgr EXCEPT ![p] = calls + 1]
    /\ UNCHANGED <<path, txn, has, gen, commits, adopted, state, cached, bad, readVars,
                   maintVars,
                   uses, calls, kills>>

-----------------------------------------------------------------------------
(* Leak reclamation of the maintenance goroutine *)

MaintStart(p) ==
    /\ "maintain" \in uses[p] /\ state[p] = "open" /\ ~bad[p] /\ mpc[p] = "idle"
    /\ goal[p] # "reclaim"
    /\ mpc' = [mpc EXCEPT ![p] = "started"]
    /\ mpgr' = [mpgr EXCEPT ![p] = pgr[p]]
    /\ UNCHANGED <<fileVars, handleVars, opVars, readVars, mino, mtxn, mhas, uses, calls,
                   kills>>

\* Its BeginRead, whole.
MaintSnapshot(p) ==
    /\ mpc[p] = "started" /\ state[p] = "open" /\ ~bad[p] /\ ~GenerationMoved(p)
    /\ mpc' = [mpc EXCEPT ![p] = "snapshot"]
    /\ mino' = [mino EXCEPT ![p] = ino[p]]
    /\ mtxn' = [mtxn EXCEPT ![p] = txn[ino[p]]]
    /\ UNCHANGED <<fileVars, handleVars, opVars, readVars, mpgr, mhas, uses, calls, kills>>

\* The walk compares the snapshot with the bitmap as it is now: mhas, the
\* commits whose allocations it takes into account.
MaintWalk(p) ==
    /\ mpc[p] = "snapshot"
    /\ mpc' = [mpc EXCEPT ![p] = "walked"]
    /\ mhas' = [mhas EXCEPT ![p] = has[mino[p]]]
    /\ UNCHANGED <<fileVars, handleVars, opVars, readVars, mpgr, mino, mtxn, uses, calls,
                   kills>>

MaintEnds(p) ==
    /\ mpc' = [mpc EXCEPT ![p] = "idle"]
    /\ mpgr' = [mpgr EXCEPT ![p] = 0]
    /\ mino' = [mino EXCEPT ![p] = 0]
    /\ mtxn' = [mtxn EXCEPT ![p] = 0]
    /\ mhas' = [mhas EXCEPT ![p] = {}]

\* Nothing leaked, an unclean walk, or a refused BeginRead or Begin.
MaintSkips(p) ==
    /\ mpc[p] \in {"started", "walked"} /\ ~(goal[p] = "reclaim" /\ op[p] # "idle")
    /\ MaintEnds(p)
    /\ UNCHANGED <<fileVars, handleVars, opVars, readVars, uses, calls, kills>>

(* mutant: the TxnID alone says that nothing was committed *)
SetCurrentTxn(p) == txn[ino[p]] = mtxn[p]

\* The snapshot-currency guard.
SetCurrent(p) == txn[ino[p]] = mtxn[p] /\ pgr[p] = mpgr[p]

\* The leaked pages are freed; the commit that follows is like any other.
ReclaimLeaks(p) ==
    /\ goal[p] = "reclaim" /\ GrantPassed(p) /\ SetCurrent(p)
    /\ Step(p, "granted", "write")
    /\ MaintEnds(p)
    /\ UNCHANGED <<fileVars, handleVars, readVars, uses, calls, kills>>

DiscardLeaks(p) ==
    /\ goal[p] = "reclaim" /\ op[p] = "granted" /\ GrantPassed(p) /\ ~SetCurrent(p)
    /\ Release(p) /\ MaintEnds(p)
    /\ UNCHANGED <<path, txn, has, gen, commits, handleVars, readVars, uses, calls, kills>>

-----------------------------------------------------------------------------
(* The end of a handle *)

\* The caller's own transactions are over, a maintenance pass may not be.
CloseStart(p) ==
    /\ state[p] = "open" /\ "close" \in uses[p]
    /\ op[p] = "idle" \/ goal[p] = "reclaim"
    /\ state' = [state EXCEPT ![p] = "closing"]
    /\ UNCHANGED <<fileVars, adopted, ino, cached, bad, pgr, opVars, readVars, maintVars,
                   uses, calls, kills>>

HandleGone(p) ==
    /\ state' = [state EXCEPT ![p] = "closed"]
    /\ ino' = [ino EXCEPT ![p] = 0]
    /\ adopted' = [adopted EXCEPT ![p] = Nothing]
    /\ cached' = [cached EXCEPT ![p] = 0]
    /\ bad' = [bad EXCEPT ![p] = FALSE]
    /\ pgr' = [pgr EXCEPT ![p] = 0]

\* Maintenance has stopped, no BeginRead is under way, and the shutdown
\* checkpoint, which a poisoned handle skips, had its turn with the grant.
CloseEnd(p) ==
    /\ \/ state[p] = "closing" /\ mpc[p] = "idle" /\ op[p] = "idle"
          /\ rpc[p] \in {"idle", "live"} /\ (bad[p] \/ grant = None)
       \/ state[p] = "stale"
    /\ HandleGone(p)
    /\ UNCHANGED <<fileVars, opVars, readVars, maintVars, uses, calls, kills>>

\* A process dies; the kernel drops its locks.
Kill(p) ==
    /\ state[p] # "closed" /\ "die" \in uses[p] /\ kills < MaxKills
    /\ RenameMortal \/ op[p] # "renamed"
    /\ kills' = kills + 1
    /\ grant' = IF grant = p THEN None ELSE grant
    /\ op' = [op EXCEPT ![p] = "idle"]
    /\ goal' = [goal EXCEPT ![p] = "tx"]
    /\ HandleGone(p) /\ ReadEnds(p) /\ MaintEnds(p)
    /\ UNCHANGED <<path, txn, has, gen, commits, uses, calls>>
=============================================================================
