----------------------------- MODULE LeakProofs -----------------------------
(***************************************************************************)
(* The proof that leak reclamation frees what is leaked in the file it     *)
(* changes (LeaksExact of Peers), for any number of processes, commits,    *)
(* compactions and deaths, and wherever a process may die.                 *)
(*                                                                         *)
(* A TxnID alone identifies nothing, since Compact restarts it: the guard  *)
(* works because a handle never installs the same pager twice, and keeps   *)
(* one pager on one file.                                                  *)
(***************************************************************************)
EXTENDS Peers, TLAPS

USE ZenonT(30)

\* Compact has torn the pager down and has not installed the next one.
Replacing == {"torn", "renamed", "bumped", "stored"}

\* A maintenance pass has its snapshot.
Marked == {"snapshot", "walked"}

States == {"closed", "file", "attached", "seeded", "cached", "stale", "open", "closing"}
Goals == {"tx", "compact", "reclaim"}
PassPcs == {"idle", "started", "snapshot", "walked"}

LeakType ==
    /\ path \in Nat /\ calls \in Nat /\ path <= calls /\ calls <= MaxCompacts
    /\ txn \in [Inodes -> Nat] /\ has \in [Inodes -> SUBSET Nat] /\ commits \in Nat
    /\ grant \in Procs \cup {None}
    /\ state \in [Procs -> States] /\ op \in [Procs -> OpPcs] /\ goal \in [Procs -> Goals]
    /\ bad \in [Procs -> BOOLEAN] /\ ino \in [Procs -> Nat] /\ pgr \in [Procs -> Nat]
    /\ mpc \in [Procs -> PassPcs] /\ mpgr \in [Procs -> Nat]
    /\ mino \in [Procs -> Nat] /\ mtxn \in [Procs -> Nat] /\ mhas \in [Procs -> SUBSET Nat]

\* Who is under way has the grant, and who will rename has an inode for it.
Granted(p) ==
    /\ op[p] # "idle" => grant = p /\ state[p] \in {"open", "closing"}
    /\ op[p] \in {"drain", "copied", "torn"} \/ (op[p] = "granted" /\ goal[p] = "compact")
           => calls < MaxCompacts

\* Files and pagers are numbered in the order they come.
Numbered(p) ==
    /\ ino[p] <= path /\ mino[p] <= path
    /\ pgr[p] <= calls + 1 /\ mpgr[p] <= calls + 1

\* A handle in use has a pager, but for the stretch in which Compact
\* replaces it by one that no pass of maintenance has seen.
PagerOf(p) ==
    /\ op[p] \in Replacing => pgr[p] = 0
    /\ op[p] \in Replacing \ {"torn"} => mpgr[p] <= calls
    /\ state[p] = "open" /\ ~bad[p] /\ op[p] \notin Replacing => pgr[p] # 0

\* What a pass knows: while the pager is the one it started with, so is the
\* file, and while the TxnID is the snapshot's, so are the commits.
PassOf(p) ==
    /\ mpc[p] # "idle" => state[p] \in {"open", "closing"}
    /\ mpc[p] \in Marked /\ pgr[p] = mpgr[p] /\ pgr[p] # 0 => mino[p] = ino[p]
    /\ mpc[p] \in Marked => mtxn[p] <= txn[mino[p]]
    /\ mpc[p] = "walked" /\ txn[mino[p]] = mtxn[p] => mhas[p] = has[mino[p]]
    /\ goal[p] = "reclaim" /\ op[p] = "granted" => mpc[p] = "walked"

Mine(p) == Granted(p) /\ Numbered(p) /\ PagerOf(p) /\ PassOf(p)

LeakInv == LeakType /\ \A p \in Procs : Mine(p)

leakVars == <<path, txn, has, commits, calls, grant, state, ino, bad, pgr, op, goal, maintVars>>

\* A step of p changes what is p's.
Only(p) ==
    \A x \in Procs \ {p} :
        /\ state'[x] = state[x] /\ ino'[x] = ino[x] /\ bad'[x] = bad[x] /\ pgr'[x] = pgr[x]
        /\ op'[x] = op[x] /\ goal'[x] = goal[x]
        /\ mpc'[x] = mpc[x] /\ mpgr'[x] = mpgr[x] /\ mino'[x] = mino[x]
        /\ mtxn'[x] = mtxn[x] /\ mhas'[x] = mhas[x]

-----------------------------------------------------------------------------

\* Initially there is no handle, no grant and no pass (InitData).
LEMMA LeakInit == Init => LeakInv
<1> SUFFICES ASSUME Init PROVE LeakInv
    OBVIOUS
<1> USE DataFileAssumption DEF Init, InitData
<1>1. LeakType
      BY SMTT(30) DEF LeakType, Inodes, States, OpPcs, Goals, PassPcs
<1>2. \A p \in Procs : Mine(p)
      BY SMTT(30) DEF Mine, Granted, Numbered, PagerOf, PassOf, Replacing, Marked
<1> QED BY <1>1, <1>2 DEF LeakInv

\* The holder of the write grant is alone under way (acquireWriteGrant).
LEMMA Alone ==
    ASSUME LeakInv, NEW p \in Procs, grant \in {p, None}
    PROVE  \A x \in Procs \ {p} : op[x] = "idle"
BY DataFileAssumption DEF LeakInv, Mine, Granted

\* A step that leaves the files alone disturbs nobody else.
LEMMA Local ==
    ASSUME LeakInv, NEW p \in Procs, LeakType', Only(p), Mine(p)',
           UNCHANGED <<path, txn, has, calls>>, grant' = grant \/ grant \in {p, None}
    PROVE  LeakInv'
<1>1. ASSUME NEW x \in Procs \ {p} PROVE Mine(x)'
  <2>1. Mine(x) /\ (op[x] # "idle" => grant' = grant)
        BY Alone DEF LeakInv
  <2>2. Granted(x)'
        BY <2>1 DEF Mine, Granted, Only
  <2>3. Numbered(x)'
        BY <2>1 DEF Mine, Numbered, Only
  <2>4. PagerOf(x)'
        BY SMTT(30), <2>1 DEF Mine, PagerOf, Only
  <2>5. PassOf(x)'
        BY <2>1 DEF Mine, PassOf, Only
  <2> QED BY <2>2, <2>3, <2>4, <2>5 DEF Mine
<1> QED BY <1>1 DEF LeakInv

\* What is not about files, pagers and passes does not matter here: read
\* transactions, notification.
LEMMA LeakStutter == LeakInv /\ UNCHANGED leakVars => LeakInv'
<1> SUFFICES ASSUME LeakInv, UNCHANGED leakVars PROVE LeakInv'
    OBVIOUS
<1>1. LeakType'
      BY DEF LeakInv, LeakType, leakVars, maintVars
<1>2. ASSUME NEW p \in Procs PROVE Mine(p)'
  <2>1. Mine(p)
        BY DEF LeakInv
  <2>2. Granted(p)' /\ Numbered(p)' /\ PagerOf(p)'
        BY <2>1 DEF Mine, Granted, Numbered, PagerOf, leakVars, maintVars
  <2>3. PassOf(p)'
        BY <2>1 DEF Mine, PassOf, leakVars, maintVars
  <2> QED BY <2>2, <2>3 DEF Mine
<1> QED BY <1>1, <1>2 DEF LeakInv

\* What the step from one stage of a call to the next has to respect, for
\* the stages of every call that holds the grant.
Follows(p) ==
    /\ op'[p] # "idle" => grant' = p /\ state'[p] \in {"open", "closing"}
    /\ op'[p] \in {"drain", "copied", "torn"} \/ (op'[p] = "granted" /\ goal'[p] = "compact")
           => calls < MaxCompacts
    /\ op'[p] \in Replacing => op[p] \in Replacing
    /\ op'[p] \in Replacing \ {"torn"} => op[p] \in Replacing \ {"torn"}
    /\ state'[p] = "open" /\ ~bad'[p] =>
           state[p] = "open" /\ ~bad[p] /\ (op[p] \in Replacing => op'[p] \in Replacing)
    /\ mpc[p] # "idle" => state'[p] \in {"open", "closing"}
    /\ goal'[p] = "reclaim" /\ op'[p] = "granted" => mpc[p] = "walked"

\* A step that leaves the files, the pagers and the passes alone.
LEMMA Moves ==
    ASSUME LeakInv, NEW p \in Procs, LeakType', Only(p), Follows(p),
           UNCHANGED <<path, txn, has, calls, ino, pgr, maintVars>>,
           grant' = grant \/ grant \in {p, None}
    PROVE  LeakInv'
<1>1. Mine(p)
      BY DEF LeakInv
<1>2. Granted(p)'
      BY DEF Granted, Follows
<1>3. Numbered(p)'
      BY <1>1 DEF Mine, Numbered, maintVars
<1>4. PagerOf(p)'
      BY <1>1 DEF Mine, PagerOf, Follows, maintVars
<1>5. PassOf(p)'
      BY <1>1 DEF Mine, PassOf, Follows, maintVars
<1> QED BY <1>2, <1>3, <1>4, <1>5, Local DEF Mine, maintVars

\* The grant is given back: Rollback, a commit that is over, a Compact that
\* gives up, or one that poisons the handle because the new file does not
\* open.
LEMMA Releases ==
    ASSUME LeakInv, NEW p \in Procs, op[p] # "idle", Release(p), NEW b \in BOOLEAN,
           bad' = [bad EXCEPT ![p] = b], bad[p] => b, op[p] \in Replacing => b,
           UNCHANGED <<path, txn, has, commits, calls, state, ino, pgr, maintVars>>
    PROVE  LeakInv'
<1>1. Mine(p) /\ grant = p
      BY DEF LeakInv, Mine, Granted
<1>2. LeakType'
      BY DEF LeakInv, LeakType, Release, OpPcs, Goals, maintVars
<1>3. Only(p) /\ op'[p] = "idle" /\ bad'[p] = b
      BY DEF LeakInv, LeakType, Release, Only, maintVars
<1>4. Follows(p)
      BY <1>1, <1>3 DEF Mine, PassOf, Follows, Replacing
<1> QED BY <1>1, <1>2, <1>3, <1>4, Moves

\* The stages of a call that touch no file and no pager, in their order.
Stages ==
    {<<"granted", "write">>, <<"visible", "wake">>, <<"wake", "stamp">>, <<"stamp", "wake">>,
     <<"granted", "drain">>, <<"drain", "copied">>, <<"renamed", "bumped">>,
     <<"bumped", "stored">>}

\* Such a stage (Begin, publishCommitNotify, Compact up to the copy, and from
\* the rename to the new file).
LEMMA Goes ==
    ASSUME LeakInv, NEW p \in Procs, NEW at, NEW to, <<at, to>> \in Stages, Step(p, at, to),
           to = "drain" => goal[p] = "compact",
           UNCHANGED <<path, txn, has, commits, calls, grant, state, ino, bad, pgr, maintVars>>
    PROVE  LeakInv'
<1>1. Mine(p) /\ op[p] = at /\ at # "idle"
      BY DEF LeakInv, Step, Stages
<1>2. /\ to \in OpPcs \ {"idle", "granted", "torn", "renamed"}
      /\ to \in Replacing <=> at \in Replacing \ {"torn"}
      /\ at \in Replacing => at # "torn"
      /\ to \in {"drain", "copied"} => at = "drain" \/ (at = "granted" /\ to = "drain")
      BY SMTT(30) DEF Stages, OpPcs, Replacing
<1>3. LeakType'
      BY <1>2 DEF LeakInv, LeakType, Step, maintVars
<1>4. Only(p) /\ op'[p] = to
      BY DEF LeakInv, LeakType, Step, Only, maintVars
<1>5. Follows(p)
  <2>1. grant' = p /\ state'[p] \in {"open", "closing"}
        BY <1>1 DEF Mine, Granted
  <2>2. to \in {"drain", "copied"} => calls < MaxCompacts
        BY <1>1, <1>2 DEF Mine, Granted
  <2> QED BY <1>1, <1>2, <1>4, <2>1, <2>2 DEF Mine, PassOf, Follows
<1> QED BY <1>3, <1>4, <1>5, Moves

\* The grant is taken by a call that has passed the gates; leak reclamation
\* asks for it when its walk is done.
LEMMA Acquires ==
    ASSUME LeakInv, NEW p \in Procs, NEW g \in Goals, AcquireWriter(p, g)
    PROVE  LeakInv'
<1>1. Mine(p) /\ op[p] = "idle" /\ grant = None /\ state[p] = "open"
      BY DEF LeakInv, AcquireWriter, Admitted, FlockFree
<1>2. LeakType'
      BY DEF LeakInv, LeakType, AcquireWriter, OpPcs, handleVars, maintVars
<1>3. Only(p) /\ op'[p] = "granted" /\ goal'[p] = g /\ grant' = p
      BY DEF LeakInv, LeakType, AcquireWriter, Only, handleVars, maintVars
<1>4. UNCHANGED <<path, txn, has, calls, state, ino, bad, pgr, maintVars>>
      BY DEF AcquireWriter, handleVars
<1>5. (g = "compact" => calls < MaxCompacts) /\ (g = "reclaim" => mpc[p] = "walked")
      BY DEF AcquireWriter
<1>6. Follows(p)
      BY <1>1, <1>3, <1>4, <1>5 DEF Mine, PassOf, Follows, Replacing
<1> QED BY <1>1, <1>2, <1>3, <1>4, <1>6, Moves

\* A handle that is opened or closed, or poisoned, with nothing under way.
LEMMA HandleMoves ==
    ASSUME LeakInv, NEW p \in Procs, NEW s \in States, NEW b \in BOOLEAN,
           state' = [state EXCEPT ![p] = s], bad' = [bad EXCEPT ![p] = b], bad[p] => b,
           s # state[p] => s # "open",
           state[p] \in {"open", "closing"} => s \in {"open", "closing"},
           UNCHANGED <<path, txn, has, commits, calls, grant, ino, pgr, op, goal, maintVars>>
    PROVE  LeakInv'
<1>1. Mine(p)
      BY DEF LeakInv
<1>2. LeakType'
      BY DEF LeakInv, LeakType, maintVars
<1>3. Only(p) /\ state'[p] = s /\ bad'[p] = b
      BY DEF LeakInv, LeakType, Only, maintVars
<1>4. Follows(p)
      BY <1>1, <1>3 DEF Mine, Granted, PassOf, Follows
<1> QED BY <1>2, <1>3, <1>4, Moves

\* Every inode a handle or a pass has is one of the files.
LEMMA Files ==
    ASSUME LeakInv, NEW x \in Procs
    PROVE  ino[x] \in Inodes /\ mino[x] \in Inodes /\ ino[x] <= path /\ mino[x] <= path
<1>1. LeakType /\ Numbered(x)
      BY DEF LeakInv, Mine
<1>2. /\ path \in Nat /\ calls \in Nat /\ path <= calls /\ calls <= MaxCompacts
      /\ ino[x] \in Nat /\ mino[x] \in Nat /\ ino[x] <= path /\ mino[x] <= path
      BY <1>1 DEF LeakType, Numbered
<1>3. ASSUME NEW n \in Nat, n <= path PROVE n \in Inodes
      BY SMTT(30), <1>2, <1>3, DataFileAssumption DEF Inodes
<1> QED BY <1>2, <1>3

\* A commit raises the TxnID of the file it is in, so that whatever a pass
\* learnt about that file before is seen to be out of date (writeMeta).
LEMMA Commits ==
    ASSUME LeakInv, NEW p \in Procs, CommitIn(p), op[p] = "write", NEW b \in BOOLEAN,
           bad' = [bad EXCEPT ![p] = b], bad[p] => b,
           \/ Step(p, "write", "visible") /\ UNCHANGED grant
           \/ Release(p),
           UNCHANGED <<path, calls, state, ino, pgr, maintVars>>
    PROVE  LeakInv'
<1>1. /\ Mine(p) /\ grant = p /\ LeakType /\ ino[p] \in Inodes
      /\ \A x \in Procs \ {p} : op[x] = "idle"
      BY Files, Alone DEF LeakInv, Mine, Granted
<1>2. commits' \in Nat /\ commits + 1 \in Nat
      BY SMTT(30), <1>1 DEF LeakType, CommitIn
<1>3. /\ txn[ino[p]] \in Nat /\ has[ino[p]] \in SUBSET Nat
      /\ txn[ino[p]] + 1 \in Nat /\ txn[ino[p]] + 1 # txn[ino[p]]
      /\ txn[ino[p]] <= txn[ino[p]] + 1
      BY SMTT(30), <1>1 DEF LeakType
<1>4. txn' \in [Inodes -> Nat] /\ has' \in [Inodes -> SUBSET Nat]
      BY <1>1, <1>2, <1>3 DEF LeakType, CommitIn
<1>5. LeakType'
      BY <1>1, <1>2, <1>4 DEF LeakType, Step, Release, OpPcs, Goals, maintVars
<1>6. \A i \in Inodes : /\ txn[i] <= txn'[i]
                        /\ txn'[i] = txn[i] => has'[i] = has[i]
      BY SMTT(30), <1>1 DEF LeakType, CommitIn
<1>7. Only(p) /\ bad'[p] = b
      BY <1>1 DEF LeakType, Step, Release, Only, maintVars
<1>8. op'[p] = "idle" \/ (op'[p] = "visible" /\ grant' = p)
      BY <1>1 DEF LeakType, Step, Release
<1>9. ASSUME NEW x \in Procs PROVE Mine(x)'
  <2>1. /\ Mine(x) /\ mino[x] \in Inodes /\ op'[x] \in {op[x], "idle", "visible"}
        /\ op'[x] # "idle" => x = p /\ op'[x] = "visible"
        /\ state'[x] = state[x] /\ (bad[x] => bad'[x])
        BY <1>1, <1>7, <1>8, Files DEF LeakInv, Only
  <2>2. Granted(x)'
        BY <1>1, <1>8, <2>1 DEF Mine, Granted
  <2>3. Numbered(x)'
        BY <2>1 DEF Mine, Numbered, maintVars
  <2>4. PagerOf(x)'
    <3>1. op[x] \notin Replacing /\ op'[x] \notin Replacing
          BY <1>1, <2>1 DEF Replacing
    <3> QED BY <2>1, <3>1 DEF Mine, PagerOf
  <2>5. PassOf(x)'
    <3>1. mpc[x] \in Marked => mtxn[x] <= txn[mino[x]]
          BY <2>1 DEF Mine, PassOf
    <3>2. txn[mino[x]] \in Nat /\ txn'[mino[x]] \in Nat /\ mtxn[x] \in Nat
          BY <1>1, <1>4, <2>1 DEF LeakType
    <3>3. mpc[x] \in Marked => mtxn[x] <= txn'[mino[x]]
          BY SMTT(30), <1>6, <2>1, <3>1, <3>2
    <3>4. mpc[x] = "walked" /\ txn'[mino[x]] = mtxn[x] => mhas[x] = has'[mino[x]]
      <4>1. mpc[x] \in Marked /\ txn'[mino[x]] = mtxn[x] => txn'[mino[x]] = txn[mino[x]]
            BY SMTT(30), <1>6, <2>1, <3>1, <3>2
      <4> QED BY <1>6, <2>1, <4>1 DEF Mine, PassOf, Marked
    <3> QED BY <2>1, <3>3, <3>4 DEF Mine, PassOf, maintVars
  <2> QED BY <2>2, <2>3, <2>4, <2>5 DEF Mine
<1> QED BY <1>5, <1>9 DEF LeakInv

\* Compact closes the pager before it renames.
LEMMA Tears ==
    ASSUME LeakInv, NEW p \in Procs, Teardown(p)
    PROVE  LeakInv'
<1>1. Mine(p) /\ op[p] = "copied" /\ 0 \in Nat /\ 0 <= calls + 1
      BY SMTT(30) DEF LeakInv, LeakType, Teardown, Step
<1>2. LeakType'
      BY <1>1 DEF LeakInv, LeakType, Teardown, Step, OpPcs, fileVars, maintVars
<1>3. Only(p) /\ op'[p] = "torn" /\ pgr'[p] = 0
      BY DEF LeakInv, LeakType, Teardown, Step, Only, maintVars
<1>4. UNCHANGED <<path, txn, has, calls, grant, state, ino, bad, goal, maintVars>>
      BY DEF Teardown, Step, fileVars
<1>5. Mine(p)'
  <2>1. Granted(p)'
        BY <1>1, <1>3, <1>4 DEF Mine, Granted
  <2>2. Numbered(p)'
        BY <1>1, <1>3, <1>4 DEF Mine, Numbered, maintVars
  <2>3. PagerOf(p)' /\ PassOf(p)'
        BY <1>1, <1>3, <1>4 DEF Mine, PagerOf, PassOf, Replacing, maintVars
  <2> QED BY <2>1, <2>2, <2>3 DEF Mine
<1> QED BY <1>2, <1>3, <1>4, <1>5, Local

\* The rename makes a file of a new number, which nobody has open, and uses
\* up the number of the pager to come.
LEMMA Renames ==
    ASSUME LeakInv, NEW p \in Procs, Rename(p)
    PROVE  LeakInv'
<1>1. /\ Mine(p) /\ op[p] = "torn" /\ grant = p /\ LeakType /\ ino[p] \in Inodes
      /\ \A x \in Procs \ {p} : op[x] = "idle"
      BY Files, Alone DEF LeakInv, Mine, Granted, Rename, Step
<1>2. UNCHANGED <<commits, grant, state, ino, bad, pgr, goal, maintVars>>
      BY DEF Rename, Step, handleVars
<1>3. /\ path + 1 \in Inodes /\ path' = path + 1 /\ path' \in Nat /\ calls' = calls + 1
      /\ calls' \in Nat /\ path' <= calls' /\ calls' <= MaxCompacts /\ 0 \in Nat
      /\ \A n \in Nat : (n <= path => n <= path' /\ n # path + 1)
                        /\ (n <= calls + 1 => n <= calls' /\ n <= calls' + 1)
  <2>1. calls < MaxCompacts /\ path \in Nat /\ calls \in Nat /\ path <= calls
        BY <1>1 DEF Mine, Granted, LeakType
  <2>2. path' = path + 1 /\ calls' = calls + 1
        BY DEF Rename
  <2> QED BY SMTT(30), <2>1, <2>2, DataFileAssumption DEF Inodes
<1>4. /\ txn' \in [Inodes -> Nat] /\ has' \in [Inodes -> SUBSET Nat]
      /\ \A i \in Inodes \ {path + 1} : txn'[i] = txn[i] /\ has'[i] = has[i]
      BY <1>1, <1>3 DEF LeakType, Rename
<1>5. LeakType'
      BY <1>1, <1>2, <1>3, <1>4 DEF LeakType, Rename, Step, OpPcs, maintVars
<1>6. op'[p] = "renamed" /\ \A x \in Procs \ {p} : op'[x] = "idle"
      BY <1>1 DEF LeakType, Rename, Step
<1>7. ASSUME NEW x \in Procs PROVE Mine(x)'
  <2>1. /\ Mine(x) /\ mino[x] \in Inodes \ {path + 1} /\ op'[x] \in {"idle", "renamed"}
        /\ ino[x] \in Nat /\ mino[x] \in Nat /\ pgr[x] \in Nat /\ mpgr[x] \in Nat
        /\ op'[x] = "renamed" => x = p
        /\ x # p => op[x] = "idle"
        BY <1>1, <1>3, <1>6, Files DEF LeakInv, LeakType
  <2>2. Granted(x)'
        BY <1>1, <1>2, <2>1 DEF Mine, Granted
  <2>3. Numbered(x)'
        BY <1>2, <1>3, <2>1 DEF Mine, Numbered, maintVars
  <2>4. PagerOf(x)'
    <3>1. CASE x = p
      <4>1. pgr'[x] = 0 /\ mpgr'[x] <= calls'
            BY <1>1, <1>2, <1>3, <2>1, <3>1 DEF Mine, Numbered, PagerOf, Replacing, maintVars
      <4> QED BY <1>6, <3>1, <4>1 DEF PagerOf, Replacing
    <3>2. CASE x # p
          BY <1>2, <1>6, <2>1, <3>2 DEF Mine, PagerOf, Replacing
    <3> QED BY <3>1, <3>2
  <2>5. PassOf(x)'
        BY <1>2, <1>4, <2>1 DEF Mine, PassOf, maintVars
  <2> QED BY <2>2, <2>3, <2>4, <2>5 DEF Mine
<1> QED BY <1>5, <1>7 DEF LeakInv

\* The numbers of files and pagers only grow.
LEMMA Counts ==
    ASSUME NEW a \in Nat, NEW c \in Nat, NEW d \in Nat, a <= c, c <= d
    PROVE  a <= d /\ \A k \in Nat : k <= c + 1 => k <= d + 1
BY SMTT(30)

\* Compact is over and the handle has the pager of number n, on the file of
\* the path or, when the rename was refused, on the one it had.  No pass has
\* started with that pager.
LEMMA Installs ==
    ASSUME LeakInv, NEW p \in Procs, op[p] \in Replacing, Release(p),
           calls' \in Nat, calls <= calls', calls' <= MaxCompacts,
           NEW n \in Nat, n <= calls' + 1, n > mpgr[p] \/ n = 0,
           NEW b \in BOOLEAN, n = 0 => b, bad[p] => b,
           NEW i \in Nat, i <= path,
           pgr' = [pgr EXCEPT ![p] = n], bad' = [bad EXCEPT ![p] = b],
           ino' = [ino EXCEPT ![p] = i],
           UNCHANGED <<path, txn, has, commits, state, maintVars>>
    PROVE  LeakInv'
<1>1. /\ Mine(p) /\ grant = p /\ LeakType
      /\ \A x \in Procs \ {p} : op[x] = "idle"
      BY Alone DEF LeakInv, Mine, Granted, Replacing
<1>2. /\ path <= calls'
      /\ \A k \in Nat : k <= calls + 1 => k <= calls' + 1
  <2>1. path \in Nat /\ calls \in Nat /\ path <= calls
        BY <1>1 DEF LeakType
  <2> QED BY <2>1, Counts
<1>3. LeakType'
      BY <1>1, <1>2 DEF LeakType, Release, OpPcs, Goals, maintVars
<1>4. /\ Only(p) /\ pgr'[p] = n /\ bad'[p] = b /\ ino'[p] = i
      /\ \A x \in Procs : op'[x] = "idle"
      BY <1>1 DEF LeakType, Release, Only, maintVars
<1>5. ASSUME NEW x \in Procs PROVE Mine(x)'
  <2>1. Mine(x) /\ pgr[x] \in Nat /\ mpgr[x] \in Nat /\ op'[x] = "idle"
        BY <1>1, <1>4 DEF LeakInv, LeakType
  <2>2. Granted(x)'
        BY <2>1 DEF Granted
  <2>3. Numbered(x)'
    <3>1. mino'[x] <= path' /\ mpgr'[x] <= calls' + 1
          BY <1>2, <2>1 DEF Mine, Numbered, maintVars
    <3>2. ino'[x] <= path' /\ pgr'[x] <= calls' + 1
      <4>1. CASE x = p
            BY <1>4, <4>1
      <4>2. CASE x # p
        <5>1. ino'[x] = ino[x] /\ pgr'[x] = pgr[x]
              BY <1>4, <4>2 DEF Only
        <5> QED BY <1>2, <2>1, <5>1 DEF Mine, Numbered
      <4> QED BY <4>1, <4>2
    <3> QED BY <3>1, <3>2 DEF Numbered
  <2>4. PagerOf(x)'
    <3>1. CASE x = p
          BY <1>4, <2>1, <3>1 DEF PagerOf, Replacing
    <3>2. CASE x # p
          BY SMTT(30), <1>1, <1>4, <2>1, <3>2 DEF Mine, PagerOf, Only, Replacing
    <3> QED BY <3>1, <3>2
  <2>5. PassOf(x)'
    <3>1. CASE x = p
      <4>1. n = 0 \/ n # mpgr[x]
            BY SMTT(30), <2>1, <3>1
      <4> QED BY <1>4, <2>1, <3>1, <4>1 DEF Mine, PassOf, maintVars
    <3>2. CASE x # p
          BY <1>4, <2>1, <3>2 DEF Mine, PassOf, Only
    <3> QED BY <3>1, <3>2
  <2> QED BY <2>2, <2>3, <2>4, <2>5 DEF Mine
<1> QED BY <1>3, <1>5 DEF LeakInv

\* A handle with nothing under way, after Open, Close or the death of its
\* process.
LEMMA Anew ==
    ASSUME LeakInv, NEW p \in Procs, LeakType', Only(p), Numbered(p)',
           UNCHANGED <<path, txn, has, calls>>, grant' = grant \/ grant \in {p, None},
           op'[p] = "idle", mpc'[p] = "idle", state'[p] = "open" => pgr'[p] # 0
    PROVE  LeakInv'
<1>1. Mine(p)'
      BY DEF Mine, Granted, PagerOf, PassOf, Replacing, Marked
<1> QED BY <1>1, Local

\* A handle that is closed has nothing under way.
LEMMA Quiet ==
    ASSUME LeakInv, NEW p \in Procs, state[p] \notin {"open", "closing"}
    PROVE  op[p] = "idle" /\ mpc[p] = "idle"
BY DEF LeakInv, Mine, Granted, PassOf

\* Open opens the file the path names, and gets a pager once it has found
\* that the path still names it.
LEMMA Opens ==
    ASSUME LeakInv, NEW p \in Procs, OpenFile(p) \/ VerifyInode(p)
    PROVE  LeakInv'
<1>1. /\ Mine(p) /\ LeakType /\ state[p] \in {"closed", "cached"}
      /\ op[p] = "idle" /\ mpc[p] = "idle"
      BY Quiet DEF LeakInv, OpenFile, VerifyInode
<1>2. UNCHANGED <<path, txn, has, commits, calls, grant, op, goal, maintVars>>
      BY DEF OpenFile, VerifyInode, fileVars, opVars
<1>3. path \in Nat /\ path <= path /\ 0 \in Nat /\ 1 \in Nat /\ 0 <= calls + 1 /\ 1 <= calls + 1
  <2>1. path \in Nat /\ calls \in Nat
        BY <1>1 DEF LeakType
  <2> QED BY SMTT(30), <2>1
<1>4. CASE OpenFile(p)
  <2>1. LeakType' /\ Only(p) /\ state'[p] = "file" /\ ino'[p] = path /\ pgr' = pgr
        BY <1>1, <1>2, <1>3, <1>4 DEF LeakType, OpenFile, Only, States, maintVars
  <2>2. Numbered(p)'
        BY <1>1, <1>2, <1>3, <2>1 DEF Mine, Numbered, maintVars
  <2> QED BY <1>1, <1>2, <2>1, <2>2, Anew DEF maintVars
<1>5. CASE VerifyInode(p)
  <2>1. LeakType'
        BY <1>1, <1>2, <1>3, <1>5 DEF LeakType, VerifyInode, States, maintVars
  <2>2. /\ Only(p) /\ ino' = ino /\ pgr'[p] \in {0, 1}
        /\ state'[p] = "open" => pgr'[p] = 1
        BY <1>1, <1>2, <1>5 DEF LeakType, VerifyInode, Only, maintVars
  <2>3. Numbered(p)'
        BY <1>1, <1>2, <1>3, <2>2 DEF Mine, Numbered, maintVars
  <2>4. 1 # 0
        BY SMTT(30)
  <2> QED BY <1>1, <1>2, <2>1, <2>2, <2>3, <2>4, Anew DEF maintVars
<1> QED BY <1>4, <1>5

\* Close, when maintenance has stopped and the grant is given back.
LEMMA Closes ==
    ASSUME LeakInv, NEW p \in Procs, CloseEnd(p)
    PROVE  LeakInv'
<1>1. Mine(p) /\ LeakType /\ op[p] = "idle" /\ mpc[p] = "idle"
      BY Quiet DEF LeakInv, CloseEnd
<1>2. UNCHANGED <<path, txn, has, commits, calls, grant, op, goal, maintVars>>
      BY DEF CloseEnd, fileVars, opVars
<1>3. 0 \in Nat /\ 0 <= path /\ 0 <= calls + 1
      BY SMTT(30), <1>1 DEF LeakType
<1>4. LeakType'
      BY <1>1, <1>2, <1>3 DEF LeakType, CloseEnd, HandleGone, States, maintVars
<1>5. Only(p) /\ state'[p] = "closed" /\ ino'[p] = 0 /\ pgr'[p] = 0
      BY <1>1, <1>2 DEF LeakType, CloseEnd, HandleGone, Only, maintVars
<1>6. Numbered(p)'
      BY <1>1, <1>2, <1>3, <1>5 DEF Mine, Numbered, maintVars
<1> QED BY <1>1, <1>2, <1>4, <1>5, <1>6, Anew DEF maintVars

\* A process dies, wherever its calls and its pass are.
LEMMA Dies ==
    ASSUME LeakInv, NEW p \in Procs, Kill(p)
    PROVE  LeakInv'
<1>1. Mine(p) /\ LeakType
      BY DEF LeakInv
<1>2. UNCHANGED <<path, txn, has, commits, calls>> /\ (grant' = grant \/ grant = p)
      BY DEF Kill
<1>3. 0 \in Nat /\ 0 <= path /\ 0 <= calls + 1
      BY SMTT(30), <1>1 DEF LeakType
<1>4. LeakType'
      BY <1>1, <1>2, <1>3 DEF LeakType, Kill, HandleGone, MaintEnds, States, OpPcs,
                                  Goals, PassPcs
<1>5. /\ Only(p) /\ state'[p] = "closed" /\ ino'[p] = 0 /\ pgr'[p] = 0
      /\ op'[p] = "idle" /\ mpc'[p] = "idle" /\ mpgr'[p] = 0 /\ mino'[p] = 0
      BY <1>1 DEF LeakType, Kill, HandleGone, MaintEnds, Only
<1>6. Numbered(p)'
      BY <1>2, <1>3, <1>5 DEF Numbered
<1> QED BY <1>2, <1>4, <1>5, <1>6, Anew

\* A pass starts, takes its snapshot and walks it, all without the grant.
LEMMA Passes ==
    ASSUME LeakInv, NEW p \in Procs, MaintStart(p) \/ MaintSnapshot(p) \/ MaintWalk(p)
    PROVE  LeakInv'
<1>1. Mine(p) /\ LeakType /\ ino[p] \in Inodes /\ mino[p] \in Inodes
      BY Files DEF LeakInv
<1>2. UNCHANGED <<path, txn, has, commits, calls, grant, state, ino, bad, pgr, op, goal>>
      BY DEF MaintStart, MaintSnapshot, MaintWalk, fileVars, handleVars, opVars
<1>3. /\ txn[ino[p]] \in Nat /\ has[mino[p]] \in SUBSET Nat /\ pgr[p] \in Nat /\ ino[p] \in Nat
      /\ txn[ino[p]] <= txn[ino[p]] /\ 0 <= calls
      BY SMTT(30), <1>1 DEF LeakType
<1>4. LeakType' /\ Only(p)
  <2>1. CASE MaintStart(p)
        BY <1>1, <1>2, <1>3, <2>1 DEF LeakType, MaintStart, Only, PassPcs
  <2>2. CASE MaintSnapshot(p)
        BY <1>1, <1>2, <1>3, <2>2 DEF LeakType, MaintSnapshot, Only, PassPcs
  <2>3. CASE MaintWalk(p)
        BY <1>1, <1>2, <1>3, <2>3 DEF LeakType, MaintWalk, Only, PassPcs
  <2> QED BY <2>1, <2>2, <2>3
<1>5. Granted(p)'
      BY <1>1, <1>2 DEF Mine, Granted
<1>6. CASE MaintStart(p)
  <2>1. /\ mpc'[p] = "started" /\ mpgr'[p] = pgr[p] /\ mino' = mino /\ state[p] = "open"
        /\ goal[p] # "reclaim"
        BY <1>1, <1>6 DEF LeakType, MaintStart
  <2>2. Numbered(p)'
        BY <1>1, <1>2, <2>1 DEF Mine, Numbered
  <2>3. PagerOf(p)'
        BY <1>1, <1>2, <1>3, <2>1 DEF Mine, PagerOf
  <2>4. PassOf(p)'
        BY <1>2, <2>1 DEF PassOf, Marked
  <2> QED BY <1>2, <1>4, <1>5, <2>2, <2>3, <2>4, Local DEF Mine
<1>7. CASE MaintSnapshot(p)
  <2>1. /\ mpc'[p] = "snapshot" /\ mpgr' = mpgr /\ mino'[p] = ino[p] /\ mtxn'[p] = txn[ino[p]]
        /\ state[p] = "open" /\ mpc[p] = "started"
        BY <1>1, <1>7 DEF LeakType, MaintSnapshot
  <2>2. Numbered(p)' /\ PagerOf(p)'
        BY <1>1, <1>2, <2>1 DEF Mine, Numbered, PagerOf
  <2>3. PassOf(p)'
        BY <1>1, <1>2, <1>3, <2>1 DEF Mine, PassOf
  <2> QED BY <1>2, <1>4, <1>5, <2>2, <2>3, Local DEF Mine
<1>8. CASE MaintWalk(p)
  <2>1. /\ mpc'[p] = "walked" /\ mpc[p] = "snapshot" /\ mhas'[p] = has[mino[p]]
        /\ mpgr' = mpgr /\ mino' = mino /\ mtxn' = mtxn
        BY <1>1, <1>8 DEF LeakType, MaintWalk
  <2>2. Numbered(p)' /\ PagerOf(p)'
        BY <1>1, <1>2, <2>1 DEF Mine, Numbered, PagerOf
  <2>3. PassOf(p)'
        BY <1>1, <1>2, <2>1 DEF Mine, PassOf, Marked
  <2> QED BY <1>2, <1>4, <1>5, <2>2, <2>3, Local DEF Mine
<1> QED BY <1>6, <1>7, <1>8

\* A pass ends: it found nothing, its leaks went into the transaction, or
\* the guard found them out of date.
LEMMA PassEnds ==
    ASSUME LeakInv, NEW p \in Procs, MaintSkips(p) \/ ReclaimLeaks(p) \/ DiscardLeaks(p)
    PROVE  LeakInv'
<1>1. Mine(p) /\ LeakType
      BY DEF LeakInv
<1>2. UNCHANGED <<path, txn, has, commits, calls, state, ino, bad, pgr>>
      BY DEF MaintSkips, ReclaimLeaks, DiscardLeaks, fileVars, handleVars
<1>3. 0 \in Nat /\ 0 <= path /\ 0 <= calls /\ 0 <= calls + 1
      BY SMTT(30), <1>1 DEF LeakType
<1>4. \/ /\ op' = op /\ goal' = goal /\ grant' = grant
         /\ ~(goal[p] = "reclaim" /\ op[p] # "idle")
      \/ op[p] = "granted" /\ op' = [op EXCEPT ![p] = "write"] /\ goal' = goal /\ grant' = grant
      \/ op[p] = "granted" /\ Release(p)
      BY DEF MaintSkips, ReclaimLeaks, DiscardLeaks, Step, fileVars, opVars
<1>5. MaintEnds(p)
      BY DEF MaintSkips, ReclaimLeaks, DiscardLeaks
<1>6. LeakType'
      BY <1>1, <1>2, <1>3, <1>4, <1>5 DEF LeakType, MaintEnds, Release, OpPcs, Goals, PassPcs
<1>7. /\ Only(p) /\ mpc'[p] = "idle" /\ mpgr'[p] = 0 /\ mino'[p] = 0
      /\ \/ op'[p] \in {"idle", "write"}
         \/ op'[p] = op[p] /\ goal'[p] # "reclaim"
  <2>1. /\ mpc'[p] = "idle" /\ mpgr'[p] = 0 /\ mino'[p] = 0
        /\ \A x \in Procs \ {p} : /\ mpc'[x] = mpc[x] /\ mpgr'[x] = mpgr[x]
                                 /\ mino'[x] = mino[x] /\ mtxn'[x] = mtxn[x]
                                 /\ mhas'[x] = mhas[x]
        BY <1>1, <1>5 DEF LeakType, MaintEnds
  <2>2. \A x \in Procs \ {p} : op'[x] = op[x] /\ goal'[x] = goal[x]
        BY <1>1, <1>4 DEF LeakType, Release
  <2>3. \/ op'[p] \in {"idle", "write"}
        \/ op'[p] = op[p] /\ goal'[p] # "reclaim"
        BY <1>1, <1>4 DEF LeakType, Release
  <2> QED BY <1>2, <2>1, <2>2, <2>3 DEF Only
<1>8. grant' = grant \/ grant = p
      BY <1>1, <1>4 DEF Mine, Granted
<1>9. Mine(p)'
  <2>1. Granted(p)'
        BY <1>1, <1>2, <1>4, <1>7 DEF LeakType, Mine, Granted, Release
  <2>2. Numbered(p)'
        BY <1>1, <1>2, <1>3, <1>7 DEF Mine, Numbered
  <2>3. PagerOf(p)'
        BY <1>1, <1>2, <1>3, <1>4, <1>7 DEF Mine, PagerOf, Replacing
  <2>4. PassOf(p)'
        BY <1>7 DEF PassOf, Marked
  <2> QED BY <2>1, <2>2, <2>3, <2>4 DEF Mine
<1> QED BY <1>2, <1>6, <1>7, <1>8, <1>9, Local

\* What a handle keeps, in the form the lemmas about handles have it.
LEMMA Kept ==
    ASSUME LeakInv, NEW p \in Procs
    PROVE  /\ bad[p] \in BOOLEAN /\ bad = [bad EXCEPT ![p] = bad[p]]
           /\ state[p] \in States /\ state = [state EXCEPT ![p] = state[p]]
           /\ ino[p] \in Nat /\ ino = [ino EXCEPT ![p] = ino[p]]
BY DEF LeakInv, LeakType

\* The steps of a call that leave the grant in its hands or give it back.
LEMMA CallStep ==
    ASSUME LeakInv, NEW p \in Procs,
           \/ GrantRefused(p) \/ Begin(p) \/ Rollback(p)
           \/ \E failed \in BOOLEAN : CommitVisible(p, failed) \/ CommitNotVisible(p, failed)
           \/ CommitUnverified(p) \/ Published(p)
           \/ \E e \in {<<"visible", "wake">>, <<"wake", "stamp">>, <<"stamp", "wake">>} :
                  Publishing(p, e[1], e[2])
    PROVE  LeakInv'
<1>1. CASE GrantRefused(p)
  <2>1. bad' = [bad EXCEPT ![p] = bad[p] \/ state[p] = "open"] /\ op[p] = "granted"
        BY <1>1 DEF GrantRefused
  <2>2. (bad[p] \/ state[p] = "open") \in BOOLEAN
        OBVIOUS
  <2>3. Release(p) /\ UNCHANGED <<path, txn, has, commits, calls, state, ino, pgr, maintVars>>
        BY <1>1 DEF GrantRefused
  <2> QED BY <2>1, <2>2, <2>3, Releases DEF Replacing
<1>2. CASE Begin(p)
  <2>1. <<"granted", "write">> \in Stages
        BY DEF Stages
  <2>2. Step(p, "granted", "write")
        /\ UNCHANGED <<path, txn, has, commits, calls, grant, state, ino, bad, pgr, maintVars>>
        BY <1>2 DEF Begin, fileVars, handleVars
  <2> QED BY <2>1, <2>2, Goes
<1>3. CASE Rollback(p) \/ Published(p)
  <2>1. /\ op[p] \in {"write", "wake"} /\ Release(p) /\ bad' = bad
        /\ UNCHANGED <<path, txn, has, commits, calls, state, ino, pgr, maintVars>>
        BY <1>3 DEF Rollback, Published, handleVars
  <2> QED BY <2>1, Kept, Releases DEF Replacing
<1>4. ASSUME NEW failed \in BOOLEAN, CommitVisible(p, failed) PROVE LeakInv'
  <2>1. /\ CommitIn(p) /\ Step(p, "write", "visible")
        /\ bad' = [bad EXCEPT ![p] = bad[p] \/ failed]
        /\ UNCHANGED <<path, calls, grant, state, ino, pgr, maintVars>>
        BY <1>4 DEF CommitVisible
  <2>2. op[p] = "write" /\ (bad[p] \/ failed) \in BOOLEAN
        BY <2>1 DEF Step
  <2> QED BY <2>1, <2>2, Commits
<1>5. ASSUME NEW failed \in BOOLEAN, CommitNotVisible(p, failed) PROVE LeakInv'
  <2>1. /\ op[p] = "write" /\ Release(p) /\ bad' = [bad EXCEPT ![p] = bad[p] \/ failed]
        /\ UNCHANGED <<path, txn, has, commits, calls, state, ino, pgr, maintVars>>
        BY <1>5 DEF CommitNotVisible
  <2>2. (bad[p] \/ failed) \in BOOLEAN
        OBVIOUS
  <2> QED BY <2>1, <2>2, Releases DEF Replacing
<1>6. CASE CommitUnverified(p)
  <2>1. /\ CommitIn(p) /\ op[p] = "write" /\ Release(p) /\ bad' = [bad EXCEPT ![p] = TRUE]
        /\ UNCHANGED <<path, calls, state, ino, pgr, maintVars>>
        BY <1>6 DEF CommitUnverified, Poison
  <2> QED BY <2>1, Commits
<1>7. ASSUME NEW at, NEW to, Publishing(p, at, to),
             <<at, to>> \in {<<"visible", "wake">>, <<"wake", "stamp">>, <<"stamp", "wake">>}
      PROVE  LeakInv'
  <2>1. <<at, to>> \in Stages /\ to # "drain"
        BY <1>7 DEF Stages
  <2>2. Step(p, at, to)
        /\ UNCHANGED <<path, txn, has, commits, calls, grant, state, ino, bad, pgr, maintVars>>
        BY <1>7 DEF Publishing, fileVars, handleVars
  <2> QED BY <2>1, <2>2, Goes
<1> QED BY SMTT(30), <1>1, <1>2, <1>3, <1>4, <1>5, <1>6, <1>7

\* Compact, from the drain of the readers to the new pager.
LEMMA CompactStep ==
    ASSUME LeakInv, NEW p \in Procs,
           \/ CompactStart(p) \/ CopyCompact(p) \/ CompactGivesUp(p) \/ Teardown(p) \/ Rename(p)
           \/ \E failed \in BOOLEAN : RenameRefused(p, failed)
           \/ BumpDataGeneration(p) \/ StoreGeneration(p) \/ ReopenFails(p)
           \/ InstallCompactPager(p)
    PROVE  LeakInv'
<1>0. Mine(p) /\ LeakType
      BY DEF LeakInv
<1>1. CASE CompactStart(p) \/ CopyCompact(p) \/ BumpDataGeneration(p) \/ StoreGeneration(p)
  <2>1. /\ UNCHANGED <<path, txn, has, commits, calls, grant, state, ino, bad, pgr, maintVars>>
        /\ \/ Step(p, "granted", "drain") /\ goal[p] = "compact"
           \/ Step(p, "drain", "copied")
           \/ Step(p, "renamed", "bumped") \/ Step(p, "bumped", "stored")
        BY <1>1 DEF CompactStart, CopyCompact, BumpDataGeneration, StoreGeneration, fileVars,
                    handleVars
  <2>2. /\ <<"granted", "drain">> \in Stages /\ <<"drain", "copied">> \in Stages
        /\ <<"renamed", "bumped">> \in Stages /\ <<"bumped", "stored">> \in Stages
        BY DEF Stages
  <2> QED BY <2>1, <2>2, Goes
<1>2. CASE CompactGivesUp(p)
  <2>1. /\ op[p] = "drain" /\ Release(p) /\ bad' = bad
        /\ UNCHANGED <<path, txn, has, commits, calls, state, ino, pgr, maintVars>>
        BY <1>2 DEF CompactGivesUp, handleVars
  <2> QED BY <2>1, Kept, Releases DEF Replacing
<1>3. CASE ReopenFails(p)
  <2>1. /\ op[p] = "stored" /\ Release(p) /\ bad' = [bad EXCEPT ![p] = TRUE]
        /\ UNCHANGED <<path, txn, has, commits, calls, state, ino, pgr, maintVars>>
        BY <1>3 DEF ReopenFails, Poison
  <2> QED BY <2>1, Releases
<1>4. ASSUME NEW failed \in BOOLEAN, RenameRefused(p, failed) PROVE LeakInv'
  <2>1. /\ op[p] = "torn" /\ Release(p) /\ calls' = calls + 1 /\ ino' = ino
        /\ pgr' = [pgr EXCEPT ![p] = IF failed THEN 0 ELSE calls + 2]
        /\ bad' = [bad EXCEPT ![p] = bad[p] \/ failed]
        /\ UNCHANGED <<path, txn, has, commits, state, maintVars>>
        BY <1>4 DEF RenameRefused
  <2>2. /\ calls < MaxCompacts /\ calls \in Nat /\ mpgr[p] \in Nat /\ mpgr[p] <= calls + 1
        /\ ino[p] <= path
        BY <1>0, <2>1 DEF LeakType, Mine, Granted, Numbered
  <2>3. /\ calls' \in Nat /\ calls <= calls' /\ calls' <= MaxCompacts
        /\ calls + 2 \in Nat /\ calls + 2 <= calls' + 1 /\ calls + 2 > mpgr[p] /\ calls + 2 # 0
        /\ 0 \in Nat /\ 0 <= calls' + 1
        BY SMTT(30), <2>1, <2>2, DataFileAssumption
  <2>4. CASE failed
    <3>1. pgr' = [pgr EXCEPT ![p] = 0] /\ bad' = [bad EXCEPT ![p] = TRUE]
          BY <2>1, <2>4
    <3> QED BY <2>1, <2>2, <2>3, <3>1, Kept, Installs DEF Replacing
  <2>5. CASE ~failed
    <3>1. pgr' = [pgr EXCEPT ![p] = calls + 2] /\ bad' = [bad EXCEPT ![p] = bad[p]]
          BY <2>1, <2>5, Kept
    <3> QED BY <2>1, <2>2, <2>3, <3>1, Kept, Installs DEF Replacing
  <2> QED BY <2>4, <2>5
<1>5. CASE InstallCompactPager(p)
  <2>1. /\ op[p] = "stored" /\ Release(p) /\ calls' = calls /\ bad' = bad
        /\ ino' = [ino EXCEPT ![p] = path] /\ pgr' = [pgr EXCEPT ![p] = calls + 1]
        /\ UNCHANGED <<path, txn, has, commits, state, maintVars>>
        BY <1>5 DEF InstallCompactPager
  <2>2. /\ mpgr[p] <= calls /\ mpgr[p] \in Nat /\ path \in Nat
        /\ calls \in Nat /\ calls <= MaxCompacts
        BY <1>0, <2>1 DEF LeakType, Mine, PagerOf, Replacing
  <2>3. /\ calls' \in Nat /\ calls <= calls' /\ calls' <= MaxCompacts /\ path <= path
        /\ calls + 1 \in Nat /\ calls + 1 <= calls' + 1 /\ calls + 1 > mpgr[p] /\ calls + 1 # 0
        BY SMTT(30), <2>1, <2>2
  <2> QED BY <2>1, <2>2, <2>3, Kept, Installs DEF Replacing
<1> QED BY <1>1, <1>2, <1>3, <1>4, <1>5, Tears, Renames

\* Every step of every process keeps the invariant.
LEMMA LeakNext == LeakInv /\ [Next]_vars => LeakInv'
<1> SUFFICES ASSUME LeakInv, [Next]_vars PROVE LeakInv'
    OBVIOUS
<1>1. ASSUME UNCHANGED dataVars PROVE LeakInv'
      BY <1>1, LeakStutter DEF dataVars, leakVars, fileVars, handleVars, opVars
<1>2. CASE UNCHANGED vars
      BY <1>1, <1>2 DEF vars
<1>3. ASSUME NEW p \in Procs, DataStep(p) PROVE LeakInv'
  <2>1. CASE Attach(p) \/ CacheGeneration(p) \/ CloseStart(p)
    <3>1. \E s \in {"attached", "cached", "closing"} :
              /\ state' = [state EXCEPT ![p] = s]
              /\ s = "closing" \/ state[p] \in {"file", "seeded"}
          BY <2>1 DEF Attach, CacheGeneration, CloseStart
    <3>2. PICK s \in {"attached", "cached", "closing"} :
              /\ state' = [state EXCEPT ![p] = s]
              /\ s = "closing" \/ state[p] \in {"file", "seeded"}
          BY <3>1
    <3>3. /\ s \in States /\ s # "open"
          /\ state[p] \in {"open", "closing"} => s \in {"open", "closing"}
          BY <3>2 DEF States
    <3>4. /\ UNCHANGED <<path, txn, has, commits, calls, grant, ino, pgr, op, goal, maintVars>>
          /\ bad' = bad
          BY <2>1 DEF Attach, CacheGeneration, CloseStart, fileVars, opVars
    <3> QED BY <3>2, <3>3, <3>4, Kept, HandleMoves
  <2>2. CASE \E g \in {"tx", "compact", "reclaim"} : AcquireWriter(p, g)
        BY <2>2, Acquires DEF Goals
  <2>3. CASE BeginRead(p) \/ FileClosed(p) \/ PinSnapshot(p) \/ NewReader(p) \/ EndRead(p)
    <3>1. UNCHANGED leakVars
          BY <2>3 DEF BeginRead, FileClosed, PinSnapshot, NewReader, EndRead, leakVars,
                      fileVars, handleVars, opVars
    <3> QED BY <3>1, LeakStutter
  <2>4. CASE ReadGeneration(p)
    <3>1. /\ UNCHANGED <<path, txn, has, commits, calls, grant, ino, pgr, op, goal, maintVars>>
          /\ state' = state /\ (bad' = bad \/ bad' = [bad EXCEPT ![p] = TRUE])
          BY <2>4 DEF ReadGeneration, Poison, fileVars, opVars
    <3> QED BY <3>1, Kept, HandleMoves
  <2> QED BY <1>3, <2>1, <2>2, <2>3, <2>4, Opens, CallStep, CompactStep, Passes, PassEnds
             DEF DataStep
<1>4. ASSUME NEW p \in Procs, Open(p) \/ Close(p) \/ Die(p) PROVE LeakInv'
      BY <1>4, Opens, Closes, Dies DEF Open, Close, Die
<1>5. ASSUME NEW p \in Procs, Seed(p) PROVE LeakInv'
  <2>1. /\ UNCHANGED <<path, txn, has, commits, calls, grant, ino, pgr, op, goal, maintVars>>
        /\ bad' = bad /\ state' = [state EXCEPT ![p] = "seeded"] /\ state[p] = "attached"
        BY <1>5 DEF Seed, Seeded, fileVars, opVars
  <2>2. "seeded" \in States
        BY DEF States
  <2> QED BY <2>1, <2>2, Kept, HandleMoves
<1>6. ASSUME NEW p \in Procs, NEW ss \in SUBSET Slots, Announce(p, ss) PROVE LeakInv'
  <2>1. Publishing(p, "visible", "wake")
        BY <1>6 DEF Announce
  <2> QED BY <2>1, CallStep
<1>7. ASSUME NEW p \in Procs, AnnounceWake(p) PROVE LeakInv'
  <2>1. Published(p) \/ Publishing(p, "wake", "stamp")
        BY <1>7 DEF AnnounceWake
  <2> QED BY <2>1, CallStep
<1>8. ASSUME NEW p \in Procs, NEW s \in Slots, AnnounceStamp(p, s) PROVE LeakInv'
  <2>1. Publishing(p, "stamp", "wake")
        BY <1>8 DEF AnnounceStamp
  <2> QED BY <2>1, CallStep
<1>9. ASSUME NEW p \in Procs,
             WaitStep(p) \/ Check(p) \/ \E s \in Words, v \in 0 .. word[Global] : Wait(p, s, v)
      PROVE  LeakInv'
      BY <1>1, <1>9 DEF WaitStep, Check, Wait
<1> QED BY <1>2, <1>3, <1>4, <1>5, <1>6, <1>7, <1>8, <1>9 DEF Next

\* The invariant gives the property: a granted reclamation whose guard
\* passes has a pager, the one its pass started with.
LEMMA LeaksKnown == LeakInv => LeaksExact
<1> SUFFICES ASSUME LeakInv, NEW p \in Procs, goal[p] = "reclaim", op[p] = "granted",
                    GrantPassed(p), SetCurrent(p)
             PROVE  mino[p] = ino[p] /\ mhas[p] = has[ino[p]]
    BY DEF LeaksExact
<1>1. Mine(p) /\ mpc[p] = "walked" /\ state[p] = "open" /\ ~bad[p]
      BY DEF LeakInv, Mine, PassOf, GrantPassed
<1>2. pgr[p] # 0 /\ pgr[p] = mpgr[p] /\ txn[ino[p]] = mtxn[p]
      BY <1>1 DEF Mine, PagerOf, Replacing, SetCurrent
<1>3. mino[p] = ino[p]
      BY <1>1, <1>2 DEF Mine, PassOf, Marked
<1> QED BY <1>1, <1>2, <1>3 DEF Mine, PassOf

\* When reclaimLeaks passes its guard under the write grant, the pages its
\* walk found leaked are those of the file it is about to change, as that
\* file now is: whatever committed, compacted or died since the walk.
THEOREM LeaksExactAlways == Spec => []LeaksExact
<1>1. LeakInv /\ [Next]_vars => LeakInv'
      BY LeakNext
<1>2. Init => LeakInv
      BY LeakInit
<1>3. LeakInv => LeaksExact
      BY LeaksKnown
<1> QED BY <1>1, <1>2, <1>3, PTL DEF Spec
=============================================================================
