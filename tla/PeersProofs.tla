----------------------------- MODULE PeersProofs -----------------------------
(***************************************************************************)
(* Proofs about Peers, for any number of processes, commits, compactions,  *)
(* deaths and keyspace words.  What depends on DataGeneration assumes that *)
(* no process dies between Compact's rename and the bump.                  *)
(***************************************************************************)
EXTENDS Peers, TLAPS

States == {"closed", "file", "attached", "seeded", "cached", "stale", "open", "closing"}
Goals == {"tx", "compact", "reclaim"}
ReadPcs == {"idle", "called", "pinned", "checked", "live"}

CoreType ==
    /\ path \in Inodes /\ gen \in Nat /\ commits \in Nat /\ calls \in Nat
    /\ grant \in Procs \cup {None}
    /\ has \in [Inodes -> SUBSET Nat]
    /\ state \in [Procs -> States] /\ ino \in [Procs -> Inodes]
    /\ cached \in [Procs -> Nat] /\ bad \in [Procs -> BOOLEAN]
    /\ op \in [Procs -> OpPcs] /\ goal \in [Procs -> Goals]
    /\ rpc \in [Procs -> ReadPcs] /\ rino \in [Procs -> Inodes]
    /\ need \in [Procs -> Nat] /\ rhas \in [Procs -> SUBSET Nat]

\* Who is under way has the grant, on a handle that is not torn down; who
\* will rename has an inode for it.
Held(p) ==
    /\ op[p] # "idle" => grant = p /\ state[p] \in {"open", "closing"}
    /\ op[p] \in {"drain", "copied", "torn"} \/ (op[p] = "granted" /\ goal[p] = "compact")
           => calls < MaxCompacts

\* Files and generations are numbered in the order they come.
Behind(p) == cached[p] <= gen /\ ino[p] <= path

Working == {"write", "visible", "wake", "stamp", "drain", "copied", "torn"}

\* Whoever passed the checks has the file of the path, until its own rename.
Owns(p) ==
    /\ op[p] \in Working => ino[p] = path /\ cached[p] = gen
    /\ op[p] = "renamed" => /\ path = gen + 1
                            /\ cached[p] = gen /\ has[ino[p]] = 1 .. commits
    /\ op[p] = "bumped" => has[ino[p]] = 1 .. commits

\* A generation that agrees tells the truth about the file.
Current(p) ==
    state[p] = "open" /\ ~bad[p] /\ cached[p] = gen
        => /\ has[ino[p]] = 1 .. commits
           /\ gen = path /\ op[p] # "stored" => ino[p] = path

\* A generation that disagrees will do so for as long as the handle is open.
Outdated(p) == cached[p] < gen /\ op[p] # "bumped"

Reads(p) ==
    /\ rpc[p] \in {"called", "pinned", "checked"} => state[p] \in {"open", "closing"}
    /\ rpc[p] = "called" => 1 .. need[p] \subseteq has[rino[p]] \/ Outdated(p)
    /\ rpc[p] = "pinned" => 1 .. need[p] \subseteq rhas[p] \/ Outdated(p)
    /\ rpc[p] \in {"checked", "live"} => 1 .. need[p] \subseteq rhas[p]

Mine(p) == Held(p) /\ Behind(p) /\ Owns(p) /\ Current(p) /\ Reads(p)

\* The generation counts the renames, late by the one whose bump is due.
Counted == path <= calls /\ ((\A p \in Procs : op[p] # "renamed") => path = gen)

Whole == has[path] = 1 .. commits /\ \A i \in Inodes : has[i] \subseteq 1 .. commits

Core == CoreType /\ Counted /\ Whole /\ \A p \in Procs : Mine(p)

coreVars == <<path, has, gen, commits, grant, state, ino, cached, bad, op, goal, rpc, rino,
              need, rhas, calls>>

\* The program counters publishCommitNotify goes through.
Announcing == {"visible", "wake", "stamp"}

-----------------------------------------------------------------------------
\* Zenon proves most leaves; one that needs arithmetic names SMT.
USE ZenonT(30)

\* A commit adds its number to a history that has all before it.
LEMMA RangeGrows ==
    ASSUME NEW n \in Nat
    PROVE  (1 .. n) \cup {n + 1} = 1 .. (n + 1) /\ 1 .. n \subseteq 1 .. (n + 1)
BY SMTT(30)

\* Nobody has the database open.
LEMMA CoreInit == Init => Core
<1> SUFFICES ASSUME Init PROVE Core
    OBVIOUS
<1> USE DataFileAssumption DEF Init, InitData
<1>1. CoreType
      BY SMTT(30) DEF CoreType, Inodes, States, OpPcs, Goals, ReadPcs
<1>2. Counted /\ Whole
      BY SMTT(30) DEF Counted, Whole, Inodes
<1>3. \A p \in Procs : Mine(p)
      BY SMTT(30) DEF Mine, Held, Behind, Owns, Working, Current, Reads
<1> QED BY <1>1, <1>2, <1>3 DEF Core

\* While one process is under way, no other is.
LEMMA Alone ==
    ASSUME Core, NEW p \in Procs, grant \in {p, None}
    PROVE  \A x \in Procs \ {p} : op[x] = "idle"
BY DataFileAssumption DEF Core, Mine, Held

\* A step of p changes the entries of p alone.
Only(p) ==
    \A x \in Procs \ {p} :
        /\ state'[x] = state[x] /\ ino'[x] = ino[x] /\ cached'[x] = cached[x]
        /\ bad'[x] = bad[x] /\ op'[x] = op[x] /\ goal'[x] = goal[x] /\ rpc'[x] = rpc[x]
        /\ rino'[x] = rino[x] /\ need'[x] = need[x] /\ rhas'[x] = rhas[x]

\* A step of p that leaves the files alone has to answer for p alone.
LEMMA Local ==
    ASSUME Core, NEW p \in Procs, CoreType', Only(p), Mine(p)',
           UNCHANGED <<path, has, gen, commits, calls>>,
           grant' = grant \/ grant \in {p, None},
           op'[p] = "renamed" <=> op[p] = "renamed"
    PROVE  Core'
<1>1. ASSUME NEW x \in Procs \ {p} PROVE Mine(x)'
  <2>1. Mine(x) /\ (op[x] # "idle" => grant' = grant)
        BY Alone DEF Core
  <2>2. Held(x)'
        BY <2>1 DEF Mine, Held, Only
  <2>3. Behind(x)'
        BY <2>1 DEF Mine, Behind, Only
  <2>4. Owns(x)' /\ Current(x)' /\ Reads(x)'
        BY <2>1 DEF Mine, Owns, Current, Reads, Outdated, Only
  <2> QED BY <2>2, <2>3, <2>4 DEF Mine
<1>2. Counted'
  <2>1. \A x \in Procs : op'[x] = "renamed" <=> op[x] = "renamed"
        BY DEF Only
  <2> QED BY <2>1 DEF Core, Counted
<1>3. Whole'
      BY DEF Core, Whole
<1> QED BY <1>1, <1>2, <1>3 DEF Core

\* A commit is made in the file of the path, where every handle that is not
\* outdated will find it.
LEMMA CommitStep ==
    ASSUME Core, NEW p \in Procs, CoreType', op[p] = "write",
           commits' = commits + 1, has' = [has EXCEPT ![ino[p]] = @ \cup {commits + 1}],
           \/ op' = [op EXCEPT ![p] = "visible"] /\ UNCHANGED <<grant, goal>>
           \/ op' = [op EXCEPT ![p] = "idle"],
           \E failed \in BOOLEAN : bad' = [bad EXCEPT ![p] = @ \/ failed],
           UNCHANGED <<path, gen, state, ino, cached, rpc, rino, need, rhas, calls>>
    PROVE  Core'
<1>1. /\ grant = p /\ state[p] \in {"open", "closing"} /\ ino[p] = path /\ cached[p] = gen
      /\ \A x \in Procs \ {p} : op[x] = "idle"
  <2>1. grant = p /\ state[p] \in {"open", "closing"} /\ ino[p] = path /\ cached[p] = gen
        BY DEF Core, Mine, Held, Owns, Working
  <2> QED BY <2>1, Alone
<1>2. has[path] = 1 .. commits /\ path = gen /\ commits \in Nat /\ path \in Inodes
  <2>1. commits \in Nat /\ path \in Inodes
        BY DEF Core, CoreType
  <2>2. \A x \in Procs : op[x] # "renamed"
        BY <1>1
  <2> QED BY <2>1, <2>2 DEF Core, Counted, Whole
<1>3. /\ has'[path] = 1 .. commits' /\ 1 .. commits \subseteq 1 .. commits'
      /\ \A i \in Inodes : has[i] \subseteq has'[i]
      /\ \A i \in Inodes \ {path} : has'[i] = has[i]
  <2>1. has'[path] = (1 .. commits) \cup {commits + 1}
        BY <1>1, <1>2 DEF Core, CoreType
  <2>2. \A i \in Inodes \ {path} : has'[i] = has[i]
        BY <1>1 DEF Core, CoreType
  <2>3. has'[path] = 1 .. commits' /\ 1 .. commits \subseteq 1 .. commits'
        BY <1>2, <2>1, RangeGrows
  <2> QED BY <1>2, <2>2, <2>3
<1>4. Whole'
      BY <1>3 DEF Core, Whole
<1>5. \A x \in Procs : op'[x] \in {"idle", "visible"} /\ (x # p => op'[x] = "idle")
      BY SMTT(30), <1>1 DEF Core, CoreType
<1>6. Counted'
      BY <1>2 DEF Core, Counted
<1>7. ASSUME NEW x \in Procs PROVE Mine(x)'
  <2>1. /\ Mine(x) /\ rino[x] \in Inodes /\ op[x] \in {"idle", "write"} /\ (bad[x] => bad'[x])
        BY <1>1 DEF Core, CoreType
  <2>2. Held(x)' /\ Behind(x)' /\ Owns(x)'
    <3>1. Behind(x)'
          BY <2>1 DEF Mine, Behind
    <3>2. CASE op'[x] = "idle"
          BY <3>1, <3>2 DEF Held, Owns, Working
    <3>3. CASE op'[x] = "visible"
      <4>1. x = p /\ grant' = p
            BY <1>1, <1>5, <3>3 DEF Core, CoreType
      <4>2. Held(x)'
            BY <1>1, <3>3, <4>1 DEF Held
      <4>3. Owns(x)'
            BY <1>1, <3>3, <4>1 DEF Owns
      <4> QED BY <3>1, <4>2, <4>3
    <3> QED BY <1>5, <3>2, <3>3
  <2>3. Current(x)'
        BY <1>2, <1>3, <2>1 DEF Mine, Current
  <2>4. Reads(x)'
        BY <1>3, <1>5, <2>1 DEF Mine, Reads, Outdated
  <2> QED BY <2>2, <2>3, <2>4 DEF Mine
<1> QED BY <1>4, <1>6, <1>7 DEF Core


\* Steps that leave the files and the handles alone.
LEMMA CoreStutter == Core /\ UNCHANGED coreVars => Core'
<1> SUFFICES ASSUME Core, UNCHANGED coreVars PROVE Core'
    OBVIOUS
<1>1. CoreType' /\ Counted' /\ Whole'
      BY DEF Core, CoreType, Counted, Whole, coreVars
<1>2. ASSUME NEW p \in Procs PROVE Mine(p)'
  <2>1. Mine(p)
        BY DEF Core
  <2>2. Held(p)' /\ Behind(p)' /\ Owns(p)'
        BY <2>1 DEF Mine, Held, Behind, Owns, coreVars
  <2>3. Current(p)' /\ Reads(p)'
        BY <2>1 DEF Mine, Current, Reads, Outdated, coreVars
  <2> QED BY <2>2, <2>3 DEF Mine
<1> QED BY <1>1, <1>2 DEF Core

\* A writer, or a Compact that has renamed nothing, gives the grant back; one
\* that has and cannot reopen the file poisons the handle.
LEMMA Releases ==
    ASSUME Core, NEW p \in Procs, op[p] \in {"granted", "write", "wake", "drain", "stored"},
           grant' = None, op' = [op EXCEPT ![p] = "idle"], goal' = [goal EXCEPT ![p] = "tx"],
           bad' = bad \/ \E b \in BOOLEAN : bad' = [bad EXCEPT ![p] = b] /\ (bad[p] => b),
           op[p] = "stored" => bad'[p],
           UNCHANGED <<path, has, gen, commits, state, ino, cached, rpc, rino, need, rhas,
                       calls>>
    PROVE  Core'
<1>0. Mine(p) /\ grant = p
      BY DEF Core, Mine, Held
<1>1. CoreType'
      BY DEF Core, CoreType, OpPcs, Goals
<1>2. Only(p) /\ op'[p] = "idle" /\ (bad[p] => bad'[p])
      BY DEF Core, CoreType, Only
<1>3. Behind(p)'
      BY <1>0 DEF Mine, Behind
<1>4. Held(p)' /\ Owns(p)' /\ Current(p)' /\ Reads(p)'
      BY <1>0, <1>2 DEF Mine, Held, Owns, Working, Current, Reads, Outdated
<1> QED BY <1>0, <1>1, <1>2, <1>3, <1>4, Local DEF Mine

\* publishCommitNotify, and Compact before its rename, go on.
LEMMA Moves ==
    ASSUME Core, NEW p \in Procs, NEW to \in Working,
           (op[p] \in Announcing /\ to \in Announcing)
               \/ (op[p] \in {"drain", "copied"} /\ to \in {"copied", "torn"}),
           op' = [op EXCEPT ![p] = to],
           UNCHANGED <<path, has, gen, commits, grant, state, ino, cached, bad, goal, rpc, rino,
                       need, rhas, calls>>
    PROVE  Core'
<1>0. Mine(p)
      BY DEF Core
<1>1. CoreType'
      BY DEF Core, CoreType, OpPcs, Working
<1>2. Only(p) /\ op'[p] = to
      BY DEF Core, CoreType, Only
<1>3. Behind(p)'
      BY <1>0 DEF Mine, Behind
<1>4. Held(p)' /\ Owns(p)'
      BY <1>0, <1>2 DEF Mine, Held, Owns, Working, Announcing
<1>5. Current(p)' /\ Reads(p)'
      BY <1>0, <1>2 DEF Mine, Current, Reads, Outdated, Working, Announcing
<1>6. op'[p] # "renamed" /\ op[p] # "renamed"
      BY <1>2 DEF Working, Announcing
<1> QED BY <1>1, <1>2, <1>3, <1>4, <1>5, <1>6, Local DEF Mine

\* Whoever finds the generation it cached is in the file of the path.
LEMMA Passes ==
    ASSUME Core, NEW p \in Procs, NEW to \in {"write", "drain"}, op[p] = "granted",
           state[p] = "open", ~bad[p], cached[p] = gen, to = "drain" => goal[p] = "compact",
           op' = [op EXCEPT ![p] = to],
           UNCHANGED <<path, has, gen, commits, grant, state, ino, cached, bad, goal, rpc, rino,
                       need, rhas, calls>>
    PROVE  Core'
<1>0. Mine(p) /\ grant = p
      BY DEF Core, Mine, Held
<1>1. CoreType'
      BY DEF Core, CoreType, OpPcs
<1>2. Only(p) /\ op'[p] = to
      BY DEF Core, CoreType, Only
<1>3. path = gen
  <2>1. \A x \in Procs : op[x] # "renamed"
        BY <1>0, Alone
  <2> QED BY <2>1 DEF Core, Counted
<1>4. ino[p] = path
      BY <1>0, <1>3 DEF Mine, Current
<1>5. Behind(p)'
      BY <1>0 DEF Mine, Behind
<1>6. Held(p)' /\ Owns(p)'
      BY <1>0, <1>2, <1>4 DEF Mine, Held, Owns, Working
<1>7. Current(p)' /\ Reads(p)'
      BY <1>0, <1>2 DEF Mine, Current, Reads, Outdated
<1> QED BY <1>1, <1>2, <1>5, <1>6, <1>7, Local DEF Mine

\* A read transaction ends, or is refused.
LEMMA Stops ==
    ASSUME Core, NEW p \in Procs, ReadEnds(p),
           bad' = bad \/ bad' = [bad EXCEPT ![p] = TRUE],
           UNCHANGED <<path, has, gen, commits, grant, state, ino, cached, op, goal, calls>>
    PROVE  Core'
<1>0. Mine(p)
      BY DEF Core
<1>1. CoreType'
  <2>1. 0 \in Inodes
        BY SMTT(30), DataFileAssumption DEF Inodes
  <2> QED BY <2>1 DEF Core, CoreType, ReadEnds, ReadPcs
<1>2. Only(p) /\ rpc'[p] = "idle" /\ (bad[p] => bad'[p])
      BY DEF Core, CoreType, Only, ReadEnds
<1>3. Behind(p)'
      BY <1>0 DEF Mine, Behind
<1>4. Held(p)' /\ Owns(p)' /\ Current(p)' /\ Reads(p)'
      BY <1>0, <1>2 DEF Mine, Held, Owns, Current, Reads
<1> QED BY <1>1, <1>2, <1>3, <1>4, Local DEF Mine

\* Opening a handle.
LEMMA CoreOpens ==
    ASSUME Core, ~RenameMortal, NEW p \in Procs,
           \/ OpenFile(p) \/ Attach(p) \/ Seeded(p) \/ CacheGeneration(p)
           \/ VerifyInode(p)
    PROVE  Core'
<1>0. /\ Mine(p) /\ path \in Nat /\ gen \in Nat /\ cached[p] \in Nat /\ ino[p] \in Nat
      /\ bad[p] \in BOOLEAN /\ 0 \in Inodes
      BY SMTT(30), DataFileAssumption DEF Core, CoreType, Inodes
<1>1. ASSUME OpenFile(p) PROVE Core'
  <2>1. /\ state[p] = "closed" /\ rpc[p] = "idle"
        /\ state' = [state EXCEPT ![p] = "file"] /\ ino' = [ino EXCEPT ![p] = path]
        /\ UNCHANGED <<path, has, gen, commits, grant, cached, bad, op, goal, rpc, rino,
                       need, rhas, calls>>
        BY <1>1 DEF OpenFile, fileVars, opVars, readVars
  <2>2. CoreType'
        BY <1>0, <2>1 DEF Core, CoreType, States
  <2>3. Only(p) /\ state'[p] = "file" /\ ino'[p] = path
        BY <2>1 DEF Core, CoreType, Only
  <2>4. Mine(p)'
    <3>1. Behind(p)'
          BY SMTT(30), <1>0, <2>1, <2>3 DEF Mine, Behind
    <3>2. Held(p)' /\ Owns(p)'
          BY <1>0, <2>1, <2>3 DEF Mine, Held, Owns, Working
    <3>3. Current(p)'
          BY <1>0, <2>1, <2>3 DEF Current
    <3>4. Reads(p)'
          BY <1>0, <2>1, <2>3 DEF Mine, Held, Reads, Outdated
    <3> QED BY <3>1, <3>2, <3>3, <3>4 DEF Mine
  <2> QED
        BY <1>0, <2>1, <2>2, <2>3, <2>4, Local DEF Mine, Held
<1>2. ASSUME Attach(p) PROVE Core'
  <2>1. /\ state[p] = "file" /\ state' = [state EXCEPT ![p] = "attached"]
        /\ UNCHANGED <<path, has, gen, commits, grant, ino, cached, bad, op, goal, rpc,
                       rino, need, rhas, calls>>
        BY <1>2 DEF Attach, fileVars, opVars, readVars
  <2>2. CoreType'
        BY <2>1 DEF Core, CoreType, States
  <2>3. Only(p) /\ state'[p] = "attached"
        BY <2>1 DEF Core, CoreType, Only
  <2>4. Mine(p)'
    <3>1. Behind(p)'
          BY <1>0, <2>1 DEF Mine, Behind
    <3>2. Held(p)' /\ Owns(p)' /\ Current(p)' /\ Reads(p)'
          BY <1>0, <2>1, <2>3 DEF Mine, Held, Owns, Working, Current, Reads, Outdated
    <3> QED BY <3>1, <3>2 DEF Mine
  <2> QED
        BY <1>0, <2>1, <2>2, <2>3, <2>4, Local DEF Mine, Held
<1>3. ASSUME Seeded(p) PROVE Core'
  <2>1. /\ state[p] = "attached" /\ state' = [state EXCEPT ![p] = "seeded"]
        /\ UNCHANGED <<path, has, gen, commits, grant, ino, cached, bad, op, goal, rpc,
                       rino, need, rhas, calls>>
        BY <1>3 DEF Seeded, fileVars, opVars, readVars
  <2>2. CoreType'
        BY <2>1 DEF Core, CoreType, States
  <2>3. Only(p) /\ state'[p] = "seeded"
        BY <2>1 DEF Core, CoreType, Only
  <2>4. Mine(p)'
    <3>1. Behind(p)'
          BY <1>0, <2>1 DEF Mine, Behind
    <3>2. Held(p)' /\ Owns(p)' /\ Current(p)' /\ Reads(p)'
          BY <1>0, <2>1, <2>3 DEF Mine, Held, Owns, Working, Current, Reads, Outdated
    <3> QED BY <3>1, <3>2 DEF Mine
  <2> QED
        BY <1>0, <2>1, <2>2, <2>3, <2>4, Local DEF Mine, Held
<1>4. ASSUME CacheGeneration(p) PROVE Core'
  <2>1. /\ state[p] = "seeded" /\ state' = [state EXCEPT ![p] = "cached"]
        /\ cached' = [cached EXCEPT ![p] = gen]
        /\ UNCHANGED <<path, has, gen, commits, grant, ino, bad, op, goal, rpc, rino,
                       need, rhas, calls>>
        BY <1>4 DEF CacheGeneration, fileVars, opVars, readVars
  <2>2. CoreType'
        BY <2>1 DEF Core, CoreType, States
  <2>3. Only(p) /\ state'[p] = "cached" /\ cached'[p] = gen
        BY <2>1 DEF Core, CoreType, Only
  <2>4. Mine(p)'
    <3>1. Behind(p)'
          BY SMTT(30), <1>0, <2>1, <2>3 DEF Mine, Behind
    <3>2. Held(p)' /\ Owns(p)'
          BY <1>0, <2>1, <2>3 DEF Mine, Held, Owns, Working
    <3>3. Current(p)'
          BY <1>0, <2>1, <2>3 DEF Current
    <3>4. Reads(p)'
          BY <1>0, <2>1, <2>3 DEF Mine, Held, Reads, Outdated
    <3> QED BY <3>1, <3>2, <3>3, <3>4 DEF Mine
  <2> QED
        BY <1>0, <2>1, <2>2, <2>3, <2>4, Local DEF Mine, Held
<1>5. ASSUME VerifyInode(p) PROVE Core'
  <2>1. /\ state[p] = "cached"
        /\ state' = [state EXCEPT ![p] = IF ino[p] = path THEN "open" ELSE "stale"]
        /\ bad' = [bad EXCEPT ![p] = FALSE]
        /\ UNCHANGED <<path, has, gen, commits, grant, ino, cached, op, goal, rpc, rino,
                       need, rhas, calls>>
        BY <1>5 DEF VerifyInode, fileVars, opVars, readVars
  <2>2. CoreType'
        BY <2>1 DEF Core, CoreType, States
  <2>3. /\ Only(p) /\ state'[p] = (IF ino[p] = path THEN "open" ELSE "stale")
        /\ bad'[p] = FALSE
        BY <2>1 DEF Core, CoreType, Only
  <2>4. Mine(p)'
    <3>1. Behind(p)'
          BY <1>0, <2>1 DEF Mine, Behind
    <3>2. Held(p)' /\ Owns(p)'
          BY <1>0, <2>1, <2>3 DEF Mine, Held, Owns, Working
    <3>3. Current(p)'
          BY SMTT(30), <1>0, <2>1, <2>3 DEF Core, Whole, Current
    <3>4. Reads(p)'
          BY <1>0, <2>1, <2>3 DEF Mine, Held, Reads, Outdated
    <3> QED BY <3>1, <3>2, <3>3, <3>4 DEF Mine
  <2> QED
        BY <1>0, <2>1, <2>2, <2>3, <2>4, Local DEF Mine, Held
<1> QED
    BY <1>1, <1>2, <1>3, <1>4, <1>5

\* Taking the grant, committing, giving it back.
LEMMA CoreWrites ==
    ASSUME Core, ~RenameMortal, NEW p \in Procs,
           \/ (\E g \in Goals : AcquireWriter(p, g)) \/ GrantRefused(p) \/ Begin(p)
           \/ ReclaimLeaks(p) \/ DiscardLeaks(p) \/ Rollback(p)
           \/ (\E failed \in BOOLEAN : CommitVisible(p, failed))
           \/ (\E failed \in BOOLEAN : CommitNotVisible(p, failed))
           \/ CommitUnverified(p)
           \/ (\E at \in Announcing, to \in Announcing : Publishing(p, at, to))
           \/ Published(p)
    PROVE  Core'
<1>0. /\ Mine(p) /\ path \in Nat /\ gen \in Nat /\ cached[p] \in Nat /\ ino[p] \in Nat
      /\ bad[p] \in BOOLEAN /\ 0 \in Inodes
      BY SMTT(30), DataFileAssumption DEF Core, CoreType, Inodes
<1>1. ASSUME NEW g \in Goals, AcquireWriter(p, g) PROVE Core'
  <2>1. /\ grant = None /\ state[p] = "open" /\ op[p] = "idle"
        /\ (g = "compact" => calls < MaxCompacts) /\ grant' = p
        /\ op' = [op EXCEPT ![p] = "granted"] /\ goal' = [goal EXCEPT ![p] = g]
        /\ UNCHANGED <<path, has, gen, commits, state, ino, cached, bad, rpc, rino, need,
                       rhas, calls>>
        BY <1>1 DEF AcquireWriter, Admitted, FlockFree, handleVars, readVars
  <2>2. CoreType'
        BY <2>1 DEF Core, CoreType, OpPcs, Goals
  <2>3. Only(p) /\ op'[p] = "granted" /\ goal'[p] = g
        BY <2>1 DEF Core, CoreType, Only
  <2>4. Mine(p)'
    <3>1. Behind(p)'
          BY <1>0, <2>1 DEF Mine, Behind
    <3>2. Held(p)' /\ Owns(p)' /\ Current(p)' /\ Reads(p)'
          BY <1>0, <2>1, <2>3 DEF Mine, Held, Owns, Working, Current, Reads, Outdated
    <3> QED BY <3>1, <3>2 DEF Mine
  <2> QED
        BY <1>0, <2>1, <2>2, <2>3, <2>4, Local DEF Mine, Held
<1>2. CASE GrantRefused(p)
      BY <1>2, Releases DEF GrantRefused, Release, readVars
<1>3. CASE Begin(p)
      BY <1>3, Passes DEF Begin, GrantPassed, GenerationMoved, Step, fileVars, handleVars,
         readVars
<1>4. CASE ReclaimLeaks(p)
      BY <1>4, Passes DEF ReclaimLeaks, GrantPassed, GenerationMoved, Step, fileVars,
         handleVars, readVars
<1>5. CASE DiscardLeaks(p)
      BY <1>5, Releases DEF DiscardLeaks, Release, handleVars, readVars
<1>6. CASE Rollback(p)
      BY <1>6, Releases DEF Rollback, Release, handleVars, readVars
<1>7. ASSUME NEW failed \in BOOLEAN, CommitVisible(p, failed) PROVE Core'
  <2>1. /\ commits' = commits + 1
        /\ has' = [has EXCEPT ![ino[p]] = @ \cup {commits + 1}] /\ op[p] = "write"
        /\ op' = [op EXCEPT ![p] = "visible"] /\ bad' = [bad EXCEPT ![p] = @ \/ failed]
        /\ UNCHANGED <<path, gen, grant, state, ino, cached, goal, rpc, rino, need, rhas,
                       calls>>
        BY <1>7 DEF CommitVisible, CommitIn, Step, readVars
  <2>2. CoreType'
        BY SMTT(30), <2>1 DEF Core, CoreType, OpPcs
  <2> QED BY <2>1, <2>2, CommitStep
<1>8. ASSUME NEW failed \in BOOLEAN, CommitNotVisible(p, failed) PROVE Core'
      BY <1>8, Releases DEF CommitNotVisible, Release, readVars
<1>9. ASSUME CommitUnverified(p) PROVE Core'
  <2>1. /\ commits' = commits + 1
        /\ has' = [has EXCEPT ![ino[p]] = @ \cup {commits + 1}] /\ op[p] = "write"
        /\ grant' = None /\ op' = [op EXCEPT ![p] = "idle"]
        /\ goal' = [goal EXCEPT ![p] = "tx"] /\ bad' = [bad EXCEPT ![p] = TRUE]
        /\ UNCHANGED <<path, gen, state, ino, cached, rpc, rino, need, rhas, calls>>
        BY <1>9 DEF CommitUnverified, CommitIn, Release, Poison, readVars
  <2>2. CoreType'
        BY SMTT(30), <2>1 DEF Core, CoreType, OpPcs, Goals
  <2> QED BY <2>1, <2>2, CommitStep
<1>10. ASSUME NEW at \in Announcing, NEW to \in Announcing, Publishing(p, at, to) PROVE Core'
      BY <1>10, Moves DEF Publishing, Step, fileVars, handleVars, readVars, Announcing,
         Working
<1>11. CASE Published(p)
      BY <1>11, Releases DEF Published, Release, handleVars, readVars
<1> QED
    BY <1>1, <1>2, <1>3, <1>4, <1>5, <1>6, <1>7, <1>8, <1>9, <1>10, <1>11

\* Read transactions.
LEMMA CoreReads ==
    ASSUME Core, ~RenameMortal, NEW p \in Procs,
           \/ BeginRead(p) \/ FileClosed(p) \/ PinSnapshot(p) \/ ReadGeneration(p)
           \/ NewReader(p) \/ EndRead(p)
    PROVE  Core'
<1>0. /\ Mine(p) /\ path \in Nat /\ gen \in Nat /\ cached[p] \in Nat /\ ino[p] \in Nat
      /\ bad[p] \in BOOLEAN /\ 0 \in Inodes
      BY SMTT(30), DataFileAssumption DEF Core, CoreType, Inodes
<1>1. ASSUME BeginRead(p) PROVE Core'
  <2>1. /\ state[p] = "open" /\ ~bad[p] /\ rpc' = [rpc EXCEPT ![p] = "called"]
        /\ rino' = [rino EXCEPT ![p] = ino[p]] /\ need' = [need EXCEPT ![p] = commits]
        /\ UNCHANGED <<path, has, gen, commits, grant, state, ino, cached, bad, op, goal,
                       rhas, calls>>
        BY <1>1 DEF BeginRead, fileVars, handleVars, opVars
  <2>2. CoreType'
        BY <1>0, <2>1 DEF Core, CoreType, ReadPcs
  <2>3. Only(p) /\ rpc'[p] = "called" /\ rino'[p] = ino[p] /\ need'[p] = commits
        BY <2>1 DEF Core, CoreType, Only
  <2>4. Mine(p)'
    <3>1. Held(p)' /\ Behind(p)' /\ Owns(p)' /\ Current(p)'
          BY <1>0, <2>1 DEF Mine, Held, Behind, Owns, Current
    <3>2. Outdated(p)' <=> Outdated(p)
          BY <2>1 DEF Outdated
    <3>3. has[ino[p]] = 1 .. commits \/ Outdated(p)
      <4>1. CASE cached[p] = gen
            BY <1>0, <2>1, <4>1 DEF Mine, Current
      <4>2. CASE cached[p] < gen
            BY <1>0, <4>2 DEF Mine, Owns, Outdated
      <4> QED BY SMTT(30), <1>0, <4>1, <4>2 DEF Mine, Behind
    <3>4. Reads(p)'
          BY <2>1, <2>3, <3>2, <3>3 DEF Reads
    <3> QED BY <3>1, <3>4 DEF Mine
  <2> QED
        BY <1>0, <2>1, <2>2, <2>3, <2>4, Local DEF Mine, Held
<1>2. CASE FileClosed(p)
      BY <1>2, Stops DEF FileClosed, fileVars, handleVars, opVars
<1>3. ASSUME PinSnapshot(p) PROVE Core'
  <2>1. /\ rpc[p] = "called" /\ rpc' = [rpc EXCEPT ![p] = "pinned"]
        /\ rhas' = [rhas EXCEPT ![p] = has[rino[p]]]
        /\ UNCHANGED <<path, has, gen, commits, grant, state, ino, cached, bad, op, goal,
                       rino, need, calls>>
        BY <1>3 DEF PinSnapshot, fileVars, handleVars, opVars
  <2>2. CoreType'
        BY <2>1 DEF Core, CoreType, ReadPcs
  <2>3. Only(p) /\ rpc'[p] = "pinned" /\ rhas'[p] = has[rino[p]]
        BY <2>1 DEF Core, CoreType, Only
  <2>4. Mine(p)'
    <3>1. Behind(p)'
          BY <1>0, <2>1 DEF Mine, Behind
    <3>2. Held(p)' /\ Owns(p)' /\ Current(p)' /\ Reads(p)'
          BY <1>0, <2>1, <2>3 DEF Mine, Held, Owns, Working, Current, Reads, Outdated
    <3> QED BY <3>1, <3>2 DEF Mine
  <2> QED
        BY <1>0, <2>1, <2>2, <2>3, <2>4, Local DEF Mine, Held
<1>4. ASSUME ReadGeneration(p) PROVE Core'
  <2>1. /\ rpc[p] = "pinned"
        /\ UNCHANGED <<path, has, gen, commits, grant, state, ino, cached, op, goal, calls>>
        BY <1>4 DEF ReadGeneration, fileVars, opVars
  <2>2. CASE GenerationMoved(p)
    <3>1. bad' = [bad EXCEPT ![p] = TRUE] /\ ReadEnds(p)
          BY <1>4, <2>2 DEF ReadGeneration, Poison
    <3> QED BY <2>1, <3>1, Stops
  <2>3. CASE ~GenerationMoved(p)
    <3>1. rpc' = [rpc EXCEPT ![p] = "checked"] /\ UNCHANGED <<bad, rino, need, rhas>>
          BY <1>4, <2>3 DEF ReadGeneration
    <3>2. CoreType'
          BY <2>1, <3>1 DEF Core, CoreType, ReadPcs
    <3>3. Only(p)
          BY <2>1, <3>1 DEF Core, CoreType, Only
    <3>4. ~Outdated(p)
          BY SMTT(30), <1>0, <2>3 DEF GenerationMoved, Outdated
    <3>5. Mine(p)'
      <4>1. rpc'[p] = "checked"
            BY <3>1 DEF Core, CoreType
      <4> QED BY <1>0, <2>1, <3>1, <3>4, <4>1 DEF Mine, Held, Behind, Owns, Current, Reads
    <3> QED BY <2>1, <3>2, <3>3, <3>5, Local
  <2> QED BY <2>2, <2>3
<1>5. ASSUME NewReader(p) PROVE Core'
  <2>1. /\ rpc[p] = "checked" /\ rpc' = [rpc EXCEPT ![p] = "live"]
        /\ UNCHANGED <<path, has, gen, commits, grant, state, ino, cached, bad, op, goal,
                       rino, need, rhas, calls>>
        BY <1>5 DEF NewReader, fileVars, handleVars, opVars
  <2>2. CoreType'
        BY <2>1 DEF Core, CoreType, ReadPcs
  <2>3. Only(p) /\ rpc'[p] = "live"
        BY <2>1 DEF Core, CoreType, Only
  <2>4. Mine(p)'
    <3>1. Behind(p)'
          BY <1>0, <2>1 DEF Mine, Behind
    <3>2. Held(p)' /\ Owns(p)' /\ Current(p)' /\ Reads(p)'
          BY <1>0, <2>1, <2>3 DEF Mine, Held, Owns, Working, Current, Reads, Outdated
    <3> QED BY <3>1, <3>2 DEF Mine
  <2> QED
        BY <1>0, <2>1, <2>2, <2>3, <2>4, Local DEF Mine, Held
<1>6. CASE EndRead(p)
      BY <1>6, Stops DEF EndRead, fileVars, handleVars, opVars
<1> QED
    BY <1>1, <1>2, <1>3, <1>4, <1>5, <1>6

\* Compact.
LEMMA CoreCompacts ==
    ASSUME Core, ~RenameMortal, NEW p \in Procs,
           \/ CompactStart(p) \/ CopyCompact(p) \/ CompactGivesUp(p) \/ Teardown(p)
           \/ Rename(p) \/ (\E failed \in BOOLEAN : RenameRefused(p, failed))
           \/ BumpDataGeneration(p) \/ StoreGeneration(p) \/ ReopenFails(p)
           \/ InstallCompactPager(p)
    PROVE  Core'
<1>0. /\ Mine(p) /\ path \in Nat /\ gen \in Nat /\ cached[p] \in Nat /\ ino[p] \in Nat
      /\ bad[p] \in BOOLEAN /\ 0 \in Inodes
      BY SMTT(30), DataFileAssumption DEF Core, CoreType, Inodes
<1>1. CASE CompactStart(p)
      BY <1>1, Passes DEF CompactStart, GrantPassed, GenerationMoved, Step, fileVars,
         handleVars, readVars
<1>2. CASE CopyCompact(p)
      BY <1>2, Moves DEF CopyCompact, Step, fileVars, handleVars, readVars, Working
<1>3. CASE CompactGivesUp(p)
      BY <1>3, Releases DEF CompactGivesUp, Release, handleVars, readVars
<1>4. CASE Teardown(p)
      BY <1>4, Moves DEF Teardown, Step, fileVars, readVars, Working
<1>5. ASSUME Rename(p) PROVE Core'
  <2>1. /\ op[p] = "torn" /\ op' = [op EXCEPT ![p] = "renamed"] /\ path' = path + 1
        /\ has' = [has EXCEPT ![path + 1] = has[ino[p]]] /\ calls' = calls + 1
        /\ UNCHANGED <<gen, commits, grant, state, ino, cached, bad, goal, rpc, rino,
                       need, rhas>>
        BY <1>5 DEF Rename, Step, handleVars, readVars
  <2>2. grant = p /\ calls < MaxCompacts /\ ino[p] = path /\ cached[p] = gen
        BY <1>0, <2>1 DEF Mine, Held, Owns, Working
  <2>3. \A x \in Procs \ {p} : op[x] = "idle"
        BY <2>2, Alone
  <2>4. path = gen /\ path <= calls /\ has[path] = 1 .. commits
    <3>1. \A x \in Procs : op[x] # "renamed"
          BY <2>1, <2>3
    <3> QED BY <3>1 DEF Core, Counted, Whole
  <2>5. path + 1 \in Inodes /\ path + 1 <= calls + 1 /\ path # path + 1 /\ path \in Inodes
    <3>1. calls \in Nat /\ path \in Inodes
          BY DEF Core, CoreType
    <3> QED BY SMTT(30), <1>0, <2>2, <2>4, <3>1, DataFileAssumption DEF Inodes
  <2>6. CoreType'
        BY SMTT(30), <2>1, <2>5 DEF Core, CoreType, OpPcs
  <2>7. /\ has'[path + 1] = has[path]
        /\ \A i \in Inodes \ {path + 1} : has'[i] = has[i]
        BY <2>1, <2>2, <2>5 DEF Core, CoreType
  <2>8. Whole'
        BY <2>1, <2>4, <2>7 DEF Core, Whole
  <2>9. Counted'
    <3>1. op'[p] = "renamed"
          BY <2>1 DEF Core, CoreType
    <3> QED BY <2>1, <2>5, <3>1 DEF Counted
  <2>10. ASSUME NEW x \in Procs PROVE Mine(x)'
    <3>1. Mine(x) /\ ino[x] \in Inodes /\ rino[x] \in Inodes
          BY DEF Core, CoreType
    <3>2. ino[x] <= path
          BY <3>1 DEF Mine, Behind
    <3>3. ino[x] # path + 1
          BY SMTT(30), <1>0, <3>1, <3>2 DEF Inodes
    <3>4. has'[ino[x]] = has[ino[x]]
          BY <2>7, <3>1, <3>3
    <3>5. Behind(x)'
      <4>1. ino[x] <= path + 1
            BY SMTT(30), <1>0, <3>1, <3>2 DEF Inodes
      <4> QED BY <2>1, <3>1, <4>1 DEF Mine, Behind
    <3>6. Reads(x)'
      <4>1. CASE rpc[x] = "called"
        <5>1. has[rino[x]] \subseteq has'[rino[x]]
              BY <2>4, <2>7, <3>1 DEF Core, Whole
        <5>2. Outdated(x)' <=> Outdated(x)
              BY <2>1 DEF Core, CoreType, Outdated
        <5> QED BY <2>1, <3>1, <4>1, <5>1, <5>2 DEF Mine, Reads
      <4>2. CASE rpc[x] # "called"
        <5>1. Outdated(x)' <=> Outdated(x)
              BY <2>1 DEF Core, CoreType, Outdated
        <5> QED BY <2>1, <3>1, <4>2, <5>1 DEF Mine, Reads
      <4> QED BY <4>1, <4>2
    <3>7. CASE x = p
      <4>1. op'[x] = "renamed"
            BY <2>1, <3>7 DEF Core, CoreType
      <4>2. Held(x)'
            BY <2>1, <3>1, <3>7, <4>1 DEF Mine, Held
      <4>3. Owns(x)'
            BY <2>1, <2>2, <2>4, <3>4, <3>7, <4>1 DEF Owns, Working
      <4>4. Current(x)'
            BY <1>0, <2>1, <2>2, <2>4, <2>5, <3>4, <3>7 DEF Current
      <4> QED BY <3>5, <3>6, <4>2, <4>3, <4>4 DEF Mine
    <3>8. CASE x # p
      <4>1. op'[x] = "idle" /\ op[x] = "idle"
            BY <2>1, <2>3, <3>8 DEF Core, CoreType
      <4>2. Held(x)' /\ Owns(x)'
            BY <4>1 DEF Held, Owns, Working
      <4>3. Current(x)'
            BY <2>1, <2>4, <2>5, <3>1, <3>4 DEF Mine, Current
      <4> QED BY <3>5, <3>6, <4>2, <4>3 DEF Mine
    <3> QED BY <3>7, <3>8
  <2> QED BY <2>6, <2>8, <2>9, <2>10 DEF Core
<1>6. ASSUME NEW failed \in BOOLEAN, RenameRefused(p, failed) PROVE Core'
  <2>1. /\ op[p] = "torn" /\ grant' = None /\ op' = [op EXCEPT ![p] = "idle"]
        /\ goal' = [goal EXCEPT ![p] = "tx"] /\ calls' = calls + 1
        /\ bad' = [bad EXCEPT ![p] = @ \/ failed]
        /\ UNCHANGED <<path, has, gen, commits, state, ino, cached, rpc, rino, need,
                       rhas>>
        BY <1>6 DEF RenameRefused, Release, readVars
  <2>2. CoreType'
        BY SMTT(30), <2>1 DEF Core, CoreType, OpPcs, Goals
  <2>3. grant = p
        BY <1>0, <2>1 DEF Mine, Held
  <2>4. \A x \in Procs : op'[x] = "idle" /\ op[x] \in {"idle", "torn"}
        BY <2>1, <2>3, Alone DEF Core, CoreType
  <2>5. Counted' /\ Whole'
    <3>1. \A x \in Procs : op[x] # "renamed"
          BY <2>4
    <3>2. path <= calls /\ path = gen
          BY <3>1 DEF Core, Counted
    <3>3. path <= calls + 1
          BY SMTT(30), <1>0, <3>2 DEF Core, CoreType
    <3> QED BY <2>1, <3>2, <3>3 DEF Core, Counted, Whole
  <2>6. ASSUME NEW x \in Procs PROVE Mine(x)'
    <3>1. Mine(x) /\ op'[x] = "idle" /\ op[x] \in {"idle", "torn"} /\ (bad[x] => bad'[x])
          BY <2>1, <2>4 DEF Core, CoreType
    <3>2. Held(x)' /\ Owns(x)'
          BY <3>1 DEF Held, Owns, Working
    <3>3. Behind(x)'
          BY <2>1, <3>1 DEF Mine, Behind
    <3>4. Current(x)' /\ Reads(x)'
          BY <2>1, <3>1 DEF Mine, Current, Reads, Outdated
    <3> QED BY <3>2, <3>3, <3>4 DEF Mine
  <2> QED BY <2>2, <2>5, <2>6 DEF Core
<1>7. ASSUME BumpDataGeneration(p) PROVE Core'
  <2>1. /\ op[p] = "renamed" /\ op' = [op EXCEPT ![p] = "bumped"] /\ gen' = gen + 1
        /\ UNCHANGED <<path, has, commits, grant, state, ino, cached, bad, goal, rpc,
                       rino, need, rhas, calls>>
        BY <1>7 DEF BumpDataGeneration, Step, handleVars, readVars
  <2>2. CoreType'
        BY SMTT(30), <2>1 DEF Core, CoreType, OpPcs
  <2>3. grant = p /\ path = gen + 1 /\ cached[p] = gen
        BY <1>0, <2>1 DEF Mine, Held, Owns
  <2>4. \A x \in Procs \ {p} : op[x] = "idle" /\ op'[x] = "idle"
        BY <2>1, <2>3, Alone DEF Core, CoreType
  <2>5. Counted' /\ Whole'
        BY <2>1, <2>3 DEF Core, Counted, Whole
  <2>6. ASSUME NEW x \in Procs PROVE Mine(x)'
    <3>1. Mine(x) /\ cached[x] \in Nat
          BY DEF Core, CoreType
    <3>2. cached[x] <= gen /\ ino[x] <= path
          BY <3>1 DEF Mine, Behind
    <3>3. cached[x] < gen + 1 /\ cached[x] <= gen + 1 /\ cached[x] # gen + 1
          BY SMTT(30), <1>0, <3>1, <3>2
    <3>4. Behind(x)' /\ Current(x)'
          BY <2>1, <3>2, <3>3 DEF Behind, Current
    <3>5. CASE x = p
      <4>1. op'[x] = "bumped" /\ op[x] = "renamed"
            BY <2>1, <3>5 DEF Core, CoreType
      <4>2. Held(x)' /\ Owns(x)'
            BY <2>1, <3>1, <4>1 DEF Mine, Held, Owns, Working
      <4>3. ~Outdated(x)
            BY SMTT(30), <1>0, <2>3, <3>5 DEF Outdated
      <4>4. Reads(x)'
            BY <2>1, <3>1, <4>3 DEF Mine, Reads
      <4> QED BY <3>4, <4>2, <4>4 DEF Mine
    <3>6. CASE x # p
      <4>1. op'[x] = "idle"
            BY <2>4, <3>6
      <4>2. Held(x)' /\ Owns(x)'
            BY <4>1 DEF Held, Owns, Working
      <4>3. Outdated(x)'
            BY <2>1, <3>3, <4>1 DEF Outdated
      <4>4. Reads(x)'
            BY <2>1, <3>1, <4>3 DEF Mine, Reads
      <4> QED BY <3>4, <4>2, <4>4 DEF Mine
    <3> QED BY <3>5, <3>6
  <2> QED BY <2>2, <2>5, <2>6 DEF Core
<1>8. ASSUME StoreGeneration(p) PROVE Core'
  <2>1. /\ op[p] = "bumped" /\ op' = [op EXCEPT ![p] = "stored"]
        /\ cached' = [cached EXCEPT ![p] = gen]
        /\ UNCHANGED <<path, has, gen, commits, grant, state, ino, bad, goal, rpc, rino,
                       need, rhas, calls>>
        BY <1>8 DEF StoreGeneration, Step, fileVars, readVars
  <2>2. CoreType'
        BY <2>1 DEF Core, CoreType, OpPcs
  <2>3. Only(p) /\ op'[p] = "stored" /\ cached'[p] = gen
        BY <2>1 DEF Core, CoreType, Only
  <2>4. Mine(p)'
    <3>1. Behind(p)'
          BY SMTT(30), <1>0, <2>1, <2>3 DEF Mine, Behind
    <3>2. Held(p)' /\ Owns(p)'
          BY <1>0, <2>1, <2>3 DEF Mine, Held, Owns, Working
    <3>3. Current(p)'
          BY <1>0, <2>1, <2>3 DEF Mine, Owns, Current
    <3>4. Reads(p)'
          BY <1>0, <2>1, <2>3 DEF Mine, Held, Reads, Outdated, Owns
    <3> QED BY <3>1, <3>2, <3>3, <3>4 DEF Mine
  <2> QED
        BY <1>0, <2>1, <2>2, <2>3, <2>4, Local DEF Mine, Held
<1>9. CASE ReopenFails(p)
  <2>1. bad' = [bad EXCEPT ![p] = TRUE] /\ bad'[p]
        BY <1>9 DEF Core, CoreType, ReopenFails, Poison
  <2> QED BY <1>9, <2>1, Releases DEF ReopenFails, Release, readVars
<1>10. ASSUME InstallCompactPager(p) PROVE Core'
  <2>1. /\ op[p] = "stored" /\ grant' = None /\ op' = [op EXCEPT ![p] = "idle"]
        /\ goal' = [goal EXCEPT ![p] = "tx"] /\ ino' = [ino EXCEPT ![p] = path]
        /\ UNCHANGED <<path, has, gen, commits, state, cached, bad, rpc, rino, need, rhas,
                       calls>>
        BY <1>10 DEF InstallCompactPager, Release, readVars
  <2>2. CoreType'
        BY <1>0, <2>1 DEF Core, CoreType, OpPcs, Goals
  <2>3. Only(p) /\ op'[p] = "idle" /\ goal'[p] = "tx" /\ ino'[p] = path
        BY <2>1 DEF Core, CoreType, Only
  <2>4. Mine(p)'
    <3>1. Behind(p)'
          BY SMTT(30), <1>0, <2>1, <2>3 DEF Mine, Behind
    <3>2. Held(p)' /\ Owns(p)'
          BY <1>0, <2>1, <2>3 DEF Mine, Held, Owns, Working
    <3>3. Current(p)'
          BY <1>0, <2>1, <2>3 DEF Core, Whole, Current
    <3>4. Reads(p)'
          BY <1>0, <2>1, <2>3 DEF Mine, Held, Reads, Outdated
    <3> QED BY <3>1, <3>2, <3>3, <3>4 DEF Mine
  <2> QED
        BY <1>0, <2>1, <2>2, <2>3, <2>4, Local DEF Mine, Held
<1> QED
    BY <1>1, <1>2, <1>3, <1>4, <1>5, <1>6, <1>7, <1>8, <1>9, <1>10

\* Closing a handle, and death.
LEMMA CoreEnds ==
    ASSUME Core, ~RenameMortal, NEW p \in Procs,
           \/ CloseStart(p) \/ CloseEnd(p) \/ Kill(p)
    PROVE  Core'
<1>0. /\ Mine(p) /\ path \in Nat /\ gen \in Nat /\ cached[p] \in Nat /\ ino[p] \in Nat
      /\ bad[p] \in BOOLEAN /\ 0 \in Inodes
      BY SMTT(30), DataFileAssumption DEF Core, CoreType, Inodes
<1>1. ASSUME CloseStart(p) PROVE Core'
  <2>1. /\ state[p] = "open" /\ state' = [state EXCEPT ![p] = "closing"]
        /\ UNCHANGED <<path, has, gen, commits, grant, ino, cached, bad, op, goal, rpc,
                       rino, need, rhas, calls>>
        BY <1>1 DEF CloseStart, fileVars, opVars, readVars
  <2>2. CoreType'
        BY <2>1 DEF Core, CoreType, States
  <2>3. Only(p) /\ state'[p] = "closing"
        BY <2>1 DEF Core, CoreType, Only
  <2>4. Mine(p)'
    <3>1. Behind(p)'
          BY <1>0, <2>1 DEF Mine, Behind
    <3>2. Held(p)' /\ Owns(p)' /\ Current(p)' /\ Reads(p)'
          BY <1>0, <2>1, <2>3 DEF Mine, Held, Owns, Working, Current, Reads, Outdated
    <3> QED BY <3>1, <3>2 DEF Mine
  <2> QED
        BY <1>0, <2>1, <2>2, <2>3, <2>4, Local DEF Mine, Held
<1>2. ASSUME CloseEnd(p) PROVE Core'
  <2>1. /\ (op[p] = "idle" \/ state[p] = "stale")
        /\ (rpc[p] \in {"idle", "live"} \/ state[p] = "stale")
        /\ state' = [state EXCEPT ![p] = "closed"] /\ ino' = [ino EXCEPT ![p] = 0]
        /\ cached' = [cached EXCEPT ![p] = 0] /\ bad' = [bad EXCEPT ![p] = FALSE]
        /\ UNCHANGED <<path, has, gen, commits, grant, op, goal, rpc, rino, need, rhas,
                       calls>>
        BY <1>2 DEF CloseEnd, HandleGone, fileVars, opVars, readVars
  <2>2. CoreType'
        BY <1>0, <2>1 DEF Core, CoreType, States
  <2>3. /\ Only(p) /\ state'[p] = "closed" /\ ino'[p] = 0 /\ cached'[p] = 0
        /\ bad'[p] = FALSE
        BY <2>1 DEF Core, CoreType, Only
  <2>4. Mine(p)'
    <3>1. Behind(p)'
          BY SMTT(30), <1>0, <2>1, <2>3 DEF Behind
    <3>2. Held(p)' /\ Owns(p)'
          BY <1>0, <2>1, <2>3 DEF Mine, Held, Owns, Working
    <3>3. Current(p)'
          BY <1>0, <2>1, <2>3 DEF Current
    <3>4. Reads(p)'
          BY <1>0, <2>1, <2>3 DEF Mine, Held, Reads, Outdated
    <3> QED BY <3>1, <3>2, <3>3, <3>4 DEF Mine
  <2> QED
        BY <1>0, <2>1, <2>2, <2>3, <2>4, Local DEF Mine, Held
<1>3. ASSUME Kill(p) PROVE Core'
  <2>1. /\ grant' = (IF grant = p THEN None ELSE grant) /\ op[p] # "renamed"
        /\ op' = [op EXCEPT ![p] = "idle"] /\ goal' = [goal EXCEPT ![p] = "tx"]
        /\ state' = [state EXCEPT ![p] = "closed"] /\ ino' = [ino EXCEPT ![p] = 0]
        /\ cached' = [cached EXCEPT ![p] = 0] /\ bad' = [bad EXCEPT ![p] = FALSE]
        /\ rpc' = [rpc EXCEPT ![p] = "idle"] /\ rino' = [rino EXCEPT ![p] = 0]
        /\ need' = [need EXCEPT ![p] = 0] /\ rhas' = [rhas EXCEPT ![p] = {}]
        /\ UNCHANGED <<path, has, gen, commits, calls>>
        BY <1>3 DEF Kill, HandleGone, ReadEnds
  <2>2. CoreType'
        BY <1>0, <2>1 DEF Core, CoreType, States, OpPcs, Goals, ReadPcs
  <2>3. /\ Only(p) /\ op'[p] = "idle" /\ goal'[p] = "tx" /\ state'[p] = "closed"
        /\ ino'[p] = 0 /\ cached'[p] = 0 /\ bad'[p] = FALSE /\ rpc'[p] = "idle"
        /\ rino'[p] = 0 /\ need'[p] = 0 /\ rhas'[p] = {}
        BY <2>1 DEF Core, CoreType, Only
  <2>4. Mine(p)'
    <3>1. Behind(p)'
          BY SMTT(30), <1>0, <2>1, <2>3 DEF Behind
    <3>2. Held(p)' /\ Owns(p)'
          BY <1>0, <2>1, <2>3 DEF Mine, Held, Owns, Working
    <3>3. Current(p)'
          BY <1>0, <2>1, <2>3 DEF Current
    <3>4. Reads(p)'
          BY <1>0, <2>1, <2>3 DEF Mine, Held, Reads, Outdated
    <3> QED BY <3>1, <3>2, <3>3, <3>4 DEF Mine
  <2> QED
        BY <1>0, <2>1, <2>2, <2>3, <2>4, Local DEF Mine, Held
<1> QED
    BY <1>1, <1>2, <1>3

\* The maintenance pass before it asks for the grant, and every step of a wait.
LEMMA CoreQuiet ==
    ASSUME Core, NEW p \in Procs,
           \/ MaintStart(p) \/ MaintSnapshot(p) \/ MaintWalk(p) \/ MaintSkips(p)
           \/ UNCHANGED dataVars
    PROVE  Core'
<1> USE DEF fileVars, handleVars, opVars, readVars
<1>1. CASE MaintStart(p)
      BY <1>1, CoreStutter DEF MaintStart, coreVars
<1>2. CASE MaintSnapshot(p)
      BY <1>2, CoreStutter DEF MaintSnapshot, coreVars
<1>3. CASE MaintWalk(p)
      BY <1>3, CoreStutter DEF MaintWalk, coreVars
<1>4. CASE MaintSkips(p)
      BY <1>4, CoreStutter DEF MaintSkips, coreVars
<1>5. CASE UNCHANGED dataVars
      BY <1>5, CoreStutter DEF dataVars, coreVars
<1> QED BY <1>1, <1>2, <1>3, <1>4, <1>5

\* The grouping of DataStep's disjuncts the lemmas above follow.
LEMMA DataSteps ==
    ASSUME Core, ~RenameMortal, NEW p \in Procs, DataStep(p)
    PROVE  Core'
<1>1. CASE Attach(p) \/ CacheGeneration(p) \/ VerifyInode(p)
      BY <1>1, CoreOpens
<1>2. CASE \E g \in Goals : AcquireWriter(p, g)
      BY <1>2, CoreWrites
<1>3. CASE GrantRefused(p) \/ Begin(p) \/ Rollback(p) \/ CommitUnverified(p)
           \/ ReclaimLeaks(p) \/ DiscardLeaks(p)
      BY <1>3, CoreWrites
<1>4. CASE \E failed \in BOOLEAN : CommitVisible(p, failed) \/ CommitNotVisible(p, failed)
      BY <1>4, CoreWrites
<1>5. CASE BeginRead(p) \/ FileClosed(p) \/ PinSnapshot(p) \/ ReadGeneration(p)
           \/ NewReader(p) \/ EndRead(p)
      BY <1>5, CoreReads
<1>6. CASE CompactStart(p) \/ CopyCompact(p) \/ CompactGivesUp(p) \/ Teardown(p) \/ Rename(p)
           \/ BumpDataGeneration(p) \/ StoreGeneration(p) \/ ReopenFails(p)
           \/ InstallCompactPager(p)
      BY <1>6, CoreCompacts
<1>7. CASE \E failed \in BOOLEAN : RenameRefused(p, failed)
      BY <1>7, CoreCompacts
<1>8. CASE MaintStart(p) \/ MaintSnapshot(p) \/ MaintWalk(p) \/ MaintSkips(p)
      BY <1>8, CoreQuiet
<1>9. CASE CloseStart(p)
      BY <1>9, CoreEnds
<1> QED BY <1>1, <1>2, <1>3, <1>4, <1>5, <1>6, <1>7, <1>8, <1>9 DEF DataStep, Goals

\* Every step of Peers is one of those, or leaves their variables alone.
LEMMA CoreNext ==
    ASSUME Core, ~RenameMortal, [Next]_vars
    PROVE  Core'
<1>1. CASE UNCHANGED vars
      BY <1>1, CoreStutter DEF vars, dataVars, coreVars, fileVars, handleVars, opVars, readVars
<1>2. CASE Next
  <2> PICK p \in Procs :
          \/ Open(p) \/ Seed(p) \/ Close(p) \/ Die(p)
          \/ DataStep(p)
          \/ \E ss \in SUBSET Slots : Announce(p, ss)
          \/ AnnounceWake(p) \/ (\E s \in Slots : AnnounceStamp(p, s))
          \/ \E s \in Words, v \in 0 .. word[Global] : Wait(p, s, v)
          \/ Check(p) \/ WaitStep(p)
        BY <1>2 DEF Next
  <2>1. CASE Open(p) \/ Seed(p)
        BY <2>1, CoreOpens DEF Open, Seed
  <2>2. CASE Close(p) \/ Die(p)
        BY <2>2, CoreEnds DEF Close, Die
  <2>3. CASE DataStep(p)
        BY <2>3, DataSteps
  <2>4. CASE \E ss \in SUBSET Slots : Announce(p, ss)
        BY <2>4, CoreWrites DEF Announce, Announcing
  <2>5. CASE AnnounceWake(p)
        BY <2>5, CoreWrites DEF AnnounceWake, Announcing
  <2>6. CASE \E s \in Slots : AnnounceStamp(p, s)
        BY <2>6, CoreWrites DEF AnnounceStamp, Announcing
  <2>7. CASE \E s \in Words, v \in 0 .. word[Global] : Wait(p, s, v)
        BY <2>7, CoreQuiet DEF Wait
  <2>8. CASE Check(p) \/ WaitStep(p)
        BY <2>8, CoreQuiet DEF Check, WaitStep
  <2> QED BY <2>1, <2>2, <2>3, <2>4, <2>5, <2>6, <2>7, <2>8
<1> QED BY <1>1, <1>2

\* Core is an invariant as long as nobody dies between rename and bump.
LEMMA CoreHolds ==
    ASSUME ~RenameMortal
    PROVE  Spec => []Core
BY CoreInit, CoreNext, PTL DEF Spec

-----------------------------------------------------------------------------
\* No commit is ever made in a file Compact has replaced, and none is lost
\* with one: the file the path names has the whole history.
THEOREM HistorySafety ==
    ASSUME ~RenameMortal
    PROVE  Spec => []OneHistory
<1>1. Core => OneHistory
      BY DEF Core, Whole, OneHistory
<1> QED BY <1>1, CoreHolds, PTL

\* A reader that passed BeginRead's generation check has every commit that
\* was visible when it asked.
THEOREM SnapshotSafety ==
    ASSUME ~RenameMortal
    PROVE  Spec => []SnapshotFresh
<1>1. Core => SnapshotFresh
      BY DEF Core, Mine, Reads, SnapshotFresh
<1> QED BY <1>1, CoreHolds, PTL

-----------------------------------------------------------------------------
(* The version words *)

Metas == [txn : Nat, has : SUBSET Nat]

\* The words count up to the global one, and stand for commits that were made.
Telling ==
    /\ word \in [Words -> Nat] /\ by \in [Words -> SUBSET Nat]
    /\ txn \in [Inodes -> Nat] /\ adopted \in [Procs -> Metas]
    /\ slot \in [Procs -> Words] /\ due \in [Procs -> SUBSET Nat]
    /\ \A s \in Words : word[s] <= word[Global] /\ by[s] \subseteq 1 .. commits
    /\ \A p \in Procs : /\ due[p] \subseteq 1 .. commits
                        /\ adopted[p].has \subseteq 1 .. commits
                        /\ op[p] = "visible" => commits > 0

tellingVars == <<word, by, txn, adopted, slot, due, commits, op>>

\* No word has been raised.
LEMMA TellingInit == Init => Telling
BY SMTT(30) DEF Init, InitData, InitNotify, Telling, Words, Metas, Nothing, Inodes

\* Steps that touch none of this.
LEMMA TellingStutter == Telling /\ UNCHANGED tellingVars => Telling'
BY DEF Telling, tellingVars

\* A step that says nothing to anybody: what it may do to the files.
LEMMA TellingKept ==
    ASSUME Core, Telling, UNCHANGED <<word, by, slot, due>>,
           commits' \in Nat, commits <= commits', txn' \in [Inodes -> Nat],
           \/ UNCHANGED adopted
           \/ adopted' \in [Procs -> Metas]
              /\ \A x \in Procs : adopted'[x].has \subseteq 1 .. commits',
           \A x \in Procs : op'[x] = "visible" => op[x] = "visible" \/ commits' > 0
    PROVE  Telling'
<1>1. 1 .. commits \subseteq 1 .. commits'
      BY SMTT(30) DEF Core, CoreType
<1>2. \A x \in Procs : op'[x] = "visible" => commits' > 0
      BY SMTT(30) DEF Core, CoreType, Telling
<1> QED BY <1>1, <1>2 DEF Telling

\* What most steps leave alone.
LEMMA TellingQuiet ==
    ASSUME Core, Telling, UNCHANGED <<word, by, slot, due, txn, adopted, commits>>,
           \A x \in Procs : op'[x] = "visible" => op[x] = "visible"
    PROVE  Telling'
BY DEF Telling

\* Steps of the data file: an attach takes over a meta, a commit is counted.
LEMMA TellingData ==
    ASSUME Core, Telling, NEW p \in Procs, DataStep(p)
    PROVE  Telling'
<1> UNCHANGED <<word, by, slot, due>>
    BY DEF DataStep, notifyVars, wordVars, waitVars
<1> USE DEF fileVars, handleVars, opVars
<1>1. CASE Attach(p)
  <2>1. /\ adopted' = [adopted EXCEPT ![p] = [txn |-> txn[ino[p]], has |-> has[ino[p]]]]
        /\ UNCHANGED <<txn, commits, op>>
        BY <1>1 DEF Attach
  <2>2. /\ txn[ino[p]] \in Nat
        /\ has[ino[p]] \in SUBSET Nat /\ has[ino[p]] \subseteq 1 .. commits
        BY DEF Core, CoreType, Whole, Telling
  <2>3. /\ adopted' \in [Procs -> Metas]
        /\ \A x \in Procs : adopted'[x].has \subseteq 1 .. commits'
        BY <2>1, <2>2 DEF Telling, Metas
  <2> QED BY <2>1, <2>3, TellingKept DEF Core, CoreType, Telling
<1>2. CASE \E failed \in BOOLEAN : CommitVisible(p, failed)
  <2>1. /\ commits' = commits + 1 /\ txn' = [txn EXCEPT ![ino[p]] = @ + 1]
        /\ UNCHANGED adopted
        BY <1>2 DEF CommitVisible, CommitIn
  <2> QED BY SMTT(30), <2>1, TellingKept DEF Core, CoreType, Telling
<1>3. CASE CommitUnverified(p)
  <2>1. /\ commits' = commits + 1 /\ txn' = [txn EXCEPT ![ino[p]] = @ + 1]
        /\ UNCHANGED adopted
        BY <1>3 DEF CommitUnverified, CommitIn
  <2> QED BY SMTT(30), <2>1, TellingKept DEF Core, CoreType, Telling
<1>4. CASE Rename(p)
  <2>1. /\ txn' = [txn EXCEPT ![path + 1] = 0] /\ UNCHANGED <<adopted, commits>>
        /\ op' = [op EXCEPT ![p] = "renamed"]
        BY <1>4 DEF Rename, Step
  <2> QED BY <2>1, TellingKept DEF Core, CoreType, Telling
<1>5. CASE CacheGeneration(p) \/ VerifyInode(p) \/ CloseStart(p)
      BY <1>5, TellingQuiet DEF CacheGeneration, VerifyInode, CloseStart
<1>6. CASE \E g \in Goals : AcquireWriter(p, g)
      BY <1>6, TellingQuiet DEF AcquireWriter, Core, CoreType
<1>7. CASE GrantRefused(p) \/ Rollback(p) \/ DiscardLeaks(p) \/ CompactGivesUp(p)
           \/ ReopenFails(p) \/ InstallCompactPager(p)
  <2>1. op' = [op EXCEPT ![p] = "idle"] /\ UNCHANGED <<txn, adopted, commits>>
        BY <1>7 DEF GrantRefused, Rollback, DiscardLeaks, CompactGivesUp, ReopenFails,
                    InstallCompactPager, Release
  <2> QED BY <2>1, TellingQuiet DEF Core, CoreType
<1>8. CASE \E failed \in BOOLEAN : CommitNotVisible(p, failed) \/ RenameRefused(p, failed)
  <2>1. op' = [op EXCEPT ![p] = "idle"] /\ UNCHANGED <<txn, adopted, commits>>
        BY <1>8 DEF CommitNotVisible, RenameRefused, Release
  <2> QED BY <2>1, TellingQuiet DEF Core, CoreType
<1>9. CASE BeginRead(p) \/ FileClosed(p) \/ PinSnapshot(p) \/ ReadGeneration(p)
           \/ NewReader(p) \/ EndRead(p)
      BY <1>9, TellingQuiet DEF BeginRead, FileClosed, PinSnapshot, ReadGeneration, NewReader,
                                EndRead
<1>10. CASE Begin(p) \/ ReclaimLeaks(p) \/ CompactStart(p) \/ CopyCompact(p) \/ Teardown(p)
            \/ BumpDataGeneration(p) \/ StoreGeneration(p)
  <2>1. /\ \E to \in OpPcs \ {"visible"} : op' = [op EXCEPT ![p] = to]
        /\ UNCHANGED <<txn, adopted, commits>>
        BY <1>10 DEF Begin, ReclaimLeaks, CompactStart, CopyCompact, Teardown,
                     BumpDataGeneration, StoreGeneration, Step, OpPcs
  <2> QED BY <2>1, TellingQuiet DEF Core, CoreType
<1>11. CASE MaintStart(p) \/ MaintSnapshot(p) \/ MaintWalk(p) \/ MaintSkips(p)
      BY <1>11, TellingQuiet DEF MaintStart, MaintSnapshot, MaintWalk, MaintSkips
<1> QED
    BY <1>1, <1>2, <1>3, <1>4, <1>5, <1>6, <1>7, <1>8, <1>9, <1>10, <1>11 DEF DataStep, Goals

\* The words of a step that is not about them.
LEMMA WordsStay ==
    ASSUME Telling, UNCHANGED word
    PROVE  \A s \in Words : word'[s] >= word[s]
<1>1. \A s \in Words : word[s] \in Nat
      BY DEF Telling
<1> QED BY SMTT(30), <1>1

\* A seed, or the publisher's add.
LEMMA WordRaised ==
    ASSUME Telling, NEW v \in Nat, v >= word[Global], word' = [word EXCEPT ![Global] = v]
    PROVE  /\ word' \in [Words -> Nat]
           /\ \A s \in Words : word'[s] >= word[s] /\ word'[s] <= word'[Global]
<1>1. word \in [Words -> Nat] /\ Global \in Words /\ \A s \in Words : word[s] <= word[Global]
      BY DEF Telling, Words
<1>2. word' \in [Words -> Nat] /\ word'[Global] = v
      BY <1>1
<1>3. \A s \in Words : s # Global => word'[s] = word[s]
      BY <1>1
<1>4. ASSUME NEW s \in Words
      PROVE  word'[s] >= word[s] /\ word'[s] <= word'[Global]
  <2>1. word[s] \in Nat /\ word[Global] \in Nat /\ word[s] <= word[Global]
        BY <1>1
  <2>2. CASE s = Global
        BY SMTT(30), <1>2, <2>1, <2>2
  <2>3. CASE s # Global
        BY SMTT(30), <1>2, <1>3, <2>1, <2>3
  <2> QED BY <2>2, <2>3
<1> QED BY <1>2, <1>4

\* A keyspace word takes the value of the global one.
LEMMA WordStamped ==
    ASSUME Telling, NEW t \in Slots, word' = [word EXCEPT ![t] = word[Global]]
    PROVE  /\ word' \in [Words -> Nat]
           /\ \A s \in Words : word'[s] >= word[s] /\ word'[s] <= word'[Global]
<1>1. /\ word \in [Words -> Nat] /\ Global \in Words /\ t \in Words /\ t # Global
      /\ \A s \in Words : word[s] <= word[Global]
      BY NotifyAssumption DEF Telling, Words
<1>2. word' \in [Words -> Nat] /\ word'[t] = word[Global] /\ word'[Global] = word[Global]
      BY <1>1
<1>3. \A s \in Words : s # t => word'[s] = word[s]
      BY <1>1
<1>4. ASSUME NEW s \in Words
      PROVE  word'[s] >= word[s] /\ word'[s] <= word'[Global]
  <2>1. word[s] \in Nat /\ word[Global] \in Nat /\ word[s] <= word[Global]
        BY <1>1
  <2>2. CASE s = t
        BY SMTT(30), <1>2, <2>1, <2>2
  <2>3. CASE s # t
        BY SMTT(30), <1>2, <1>3, <2>1, <2>3
  <2> QED BY <2>2, <2>3
<1> QED BY <1>2, <1>4

\* Who raises a word: Seed, Announce and AnnounceStamp; the rest reads them.
LEMMA TellingNext ==
    ASSUME Core, Core', Telling, [Next]_vars
    PROVE  Telling' /\ \A s \in Words : word'[s] >= word[s]
<1> USE DEF wordVars, waitVars, notifyVars, fileVars, handleVars, opVars
<1>1. CASE UNCHANGED vars
      BY <1>1, TellingStutter, WordsStay DEF vars, dataVars, tellingVars
<1>2. CASE Next
  <2> PICK p \in Procs :
          \/ Open(p) \/ Seed(p) \/ Close(p) \/ Die(p)
          \/ DataStep(p)
          \/ \E ss \in SUBSET Slots : Announce(p, ss)
          \/ AnnounceWake(p) \/ (\E s \in Slots : AnnounceStamp(p, s))
          \/ \E s \in Words, v \in 0 .. word[Global] : Wait(p, s, v)
          \/ Check(p) \/ WaitStep(p)
        BY <1>2 DEF Next
  <2>1. CASE Open(p)
        BY <2>1, TellingQuiet, WordsStay DEF Open, OpenFile
  <2>2. CASE Seed(p)
    <3>1. /\ word' = [word EXCEPT ![Global] = IF adopted[p].txn > @ THEN adopted[p].txn ELSE @]
          /\ by' = [by EXCEPT ![Global] =
                        IF adopted[p].txn > word[Global] THEN adopted[p].has ELSE @]
          /\ adopted' = [adopted EXCEPT ![p] = Nothing]
          /\ UNCHANGED <<slot, due, txn, commits, op>>
          BY <2>2 DEF Seed, Seeded, SeedNotifyVersion
    <3>2. adopted[p].txn \in Nat /\ adopted[p].has \in SUBSET Nat
          BY DEF Telling, Metas
    <3>3. /\ adopted' \in [Procs -> Metas]
          /\ \A x \in Procs : adopted'[x].has \subseteq 1 .. commits
          BY <3>1 DEF Telling, Metas, Nothing
    <3>4. /\ word' \in [Words -> Nat]
          /\ \A s \in Words : word'[s] >= word[s] /\ word'[s] <= word'[Global]
      <4> DEFINE v == IF adopted[p].txn > word[Global] THEN adopted[p].txn ELSE word[Global]
      <4>1. word[Global] \in Nat
            BY DEF Telling, Words
      <4>2. v \in Nat /\ v >= word[Global]
            BY SMTT(30), <3>2, <4>1
      <4>3. word' = [word EXCEPT ![Global] = v]
            BY <3>1
      <4> HIDE DEF v
      <4> QED BY <4>2, <4>3, WordRaised
    <3>5. by' \in [Words -> SUBSET Nat] /\ \A s \in Words : by'[s] \subseteq 1 .. commits
          BY <3>1, <3>2 DEF Telling, Words
    <3> QED BY <3>1, <3>3, <3>4, <3>5 DEF Telling
  <2>3. CASE Close(p)
    <3>1. /\ adopted' = [adopted EXCEPT ![p] = Nothing]
          /\ UNCHANGED <<word, by, slot, due, txn, commits, op>>
          BY <2>3 DEF Close, CloseEnd, HandleGone
    <3>2. /\ adopted' \in [Procs -> Metas]
          /\ \A x \in Procs : adopted'[x].has \subseteq 1 .. commits
          BY <3>1 DEF Telling, Metas, Nothing
    <3> QED BY <3>1, <3>2, WordsStay DEF Telling
  <2>4. CASE Die(p)
    <3>1. /\ adopted' = [adopted EXCEPT ![p] = Nothing] /\ op' = [op EXCEPT ![p] = "idle"]
          /\ slot' = [slot EXCEPT ![p] = Global] /\ due' = [due EXCEPT ![p] = {}]
          /\ UNCHANGED <<word, by, txn, commits>>
          BY <2>4 DEF Die, Kill, HandleGone, WaitForgotten
    <3>2. /\ adopted' \in [Procs -> Metas]
          /\ \A x \in Procs : adopted'[x].has \subseteq 1 .. commits
          BY <3>1 DEF Telling, Metas, Nothing
    <3>3. slot' \in [Procs -> Words] /\ due' \in [Procs -> SUBSET Nat]
          BY <3>1 DEF Telling, Words
    <3>4. \A x \in Procs : /\ due'[x] \subseteq 1 .. commits
                           /\ op'[x] = "visible" => op[x] = "visible"
          BY <3>1 DEF Telling, Core, CoreType
    <3> QED BY <3>1, <3>2, <3>3, <3>4, WordsStay DEF Telling
  <2>5. CASE DataStep(p)
        BY <2>5, TellingData, WordsStay DEF DataStep
  <2>6. CASE \E ss \in SUBSET Slots : Announce(p, ss)
    <3>1. /\ word' = [word EXCEPT ![Global] = @ + 1] /\ by' = [by EXCEPT ![Global] = {commits}]
          /\ op[p] = "visible" /\ op' = [op EXCEPT ![p] = "wake"]
          /\ UNCHANGED <<slot, due, txn, adopted, commits>>
          BY <2>6 DEF Announce, PublishBump, Publishing, Step
    <3>2. {commits} \subseteq 1 .. commits /\ commits \in Nat
      <4>1. commits \in Nat /\ commits > 0
            BY <3>1 DEF Telling, Core, CoreType
      <4> QED BY SMTT(30), <4>1
    <3>3. /\ word' \in [Words -> Nat]
          /\ \A s \in Words : word'[s] >= word[s] /\ word'[s] <= word'[Global]
      <4>1. word[Global] \in Nat
            BY DEF Telling, Words
      <4>2. word[Global] + 1 \in Nat /\ word[Global] + 1 >= word[Global]
            BY SMTT(30), <4>1
      <4> QED BY <3>1, <4>2, WordRaised
    <3>4. by' \in [Words -> SUBSET Nat] /\ \A s \in Words : by'[s] \subseteq 1 .. commits
          BY <3>1, <3>2 DEF Telling, Words
    <3>5. \A x \in Procs : op'[x] = "visible" => op[x] = "visible"
          BY <3>1 DEF Core, CoreType
    <3> QED BY <3>1, <3>3, <3>4, <3>5 DEF Telling
  <2>7. CASE AnnounceWake(p)
    <3>1. UNCHANGED <<word, by, slot, due, txn, adopted, commits>>
          BY <2>7 DEF AnnounceWake, PublishWake, Published, Publishing
    <3>2. op' = [op EXCEPT ![p] = "idle"] \/ op' = [op EXCEPT ![p] = "stamp"]
          BY <2>7 DEF AnnounceWake, Published, Publishing, Release, Step
    <3>3. \A x \in Procs : op'[x] = "visible" => op[x] = "visible"
          BY <3>2 DEF Core, CoreType
    <3> QED BY <3>1, <3>3, TellingQuiet, WordsStay
  <2>8. CASE \E s \in Slots : AnnounceStamp(p, s)
    <3> PICK s \in Slots : AnnounceStamp(p, s)
        BY <2>8
    <3>1. /\ word' = [word EXCEPT ![s] = word[Global]] /\ by' = [by EXCEPT ![s] = by[Global]]
          /\ op' = [op EXCEPT ![p] = "wake"] /\ UNCHANGED <<slot, due, txn, adopted, commits>>
          BY DEF AnnounceStamp, PublishStamp, Publishing, Step
    <3>2. s \in Words /\ Global \in Words /\ s # Global
          BY NotifyAssumption DEF Words
    <3>3. /\ word' \in [Words -> Nat]
          /\ \A t \in Words : word'[t] >= word[t] /\ word'[t] <= word'[Global]
          BY <3>1, WordStamped
    <3>4. by' \in [Words -> SUBSET Nat] /\ \A t \in Words : by'[t] \subseteq 1 .. commits
          BY <3>1, <3>2 DEF Telling
    <3>5. \A x \in Procs : op'[x] = "visible" => op[x] = "visible"
          BY <3>1 DEF Core, CoreType
    <3> QED BY <3>1, <3>3, <3>4, <3>5 DEF Telling
  <2>9. CASE \E s \in Words, v \in 0 .. word[Global] : Wait(p, s, v)
    <3>1. /\ \E s \in Words : slot' = [slot EXCEPT ![p] = s]
          /\ UNCHANGED <<word, by, due, txn, adopted, commits, op>>
          BY <2>9 DEF Wait, WaitStart, dataVars
    <3> QED BY <3>1, WordsStay DEF Telling
  <2>10. CASE WaitLoad(p) /\ UNCHANGED dataVars
    <3>1. /\ UNCHANGED due \/ due' = [due EXCEPT ![p] = by[slot[p]]]
          /\ UNCHANGED <<word, by, slot, txn, adopted, commits, op>>
          BY <2>10 DEF WaitLoad, dataVars
    <3> QED BY <3>1, WordsStay DEF Telling
  <2>11. CASE WaitLeave(p) /\ UNCHANGED dataVars
    <3>1. /\ due' = [due EXCEPT ![p] = {}] /\ slot' = [slot EXCEPT ![p] = Global]
          /\ UNCHANGED <<word, by, txn, adopted, commits, op>>
          BY <2>11 DEF WaitLeave, WaitForgotten, dataVars
    <3> QED BY <3>1, WordsStay DEF Telling, Words
  <2>12. CASE Check(p)
        BY <2>12, TellingStutter, WordsStay DEF Check, WaitCheck, dataVars, tellingVars
  <2>13. CASE (WaitSleep(p) \/ WaitSlice(p) \/ Cancel(p) \/ CancelWake(p)) /\ UNCHANGED dataVars
        BY <2>13, TellingStutter, WordsStay
           DEF WaitSleep, WaitSlice, Cancel, CancelWake, dataVars, tellingVars
  <2> QED
      BY <2>1, <2>2, <2>3, <2>4, <2>5, <2>6, <2>7, <2>8, <2>9, <2>10, <2>11, <2>12, <2>13
         DEF WaitStep
<1> QED BY <1>1, <1>2

\* Both invariants, together.
LEMMA TellingHolds ==
    ASSUME ~RenameMortal
    PROVE  Spec => [](Core /\ Telling)
<1>1. Core /\ Telling /\ [Next]_vars => (Core /\ Telling)'
      BY CoreNext, TellingNext
<1> QED BY <1>1, CoreInit, TellingInit, PTL DEF Spec

\* WaitVersion never returns for a commit a later reader cannot see.
THEOREM WaitSafety ==
    ASSUME ~RenameMortal
    PROVE  Spec => []WaitTruthful
<1>1. Core /\ Telling => WaitTruthful
      BY DEF Core, Whole, Telling, WaitTruthful
<1> QED BY <1>1, TellingHolds, PTL

\* The words never fall, although Open seeds the global one from a meta and
\* Compact restarts the TxnIDs.
THEOREM WordsMonotone ==
    ASSUME ~RenameMortal
    PROVE  Spec => VersionsRise
<1>1. Core /\ Core' /\ Telling /\ [Next]_vars => [\A s \in Words : word'[s] >= word[s]]_vars
      BY TellingNext
<1> QED BY <1>1, TellingHolds, PTL DEF Spec, VersionsRise

-----------------------------------------------------------------------------
(* The mapping of the lock file *)

\* One reference for the handle, one for its waiter.
Mapped ==
    /\ state \in [Procs -> States] /\ refs \in [Procs -> Nat]
    /\ wpc \in [Procs -> {"idle", "load", "check", "sleep", "asleep", "leave"}]
    /\ ctx \in [Procs -> {"live", "done", "told"}]
    /\ \A p \in Procs :
           /\ refs[p] = (IF state[p] = "closed" THEN 0 ELSE 1)
                            + (IF wpc[p] = "idle" THEN 0 ELSE 1)
           /\ ctx[p] = "done" => wpc[p] # "idle"

\* No handle, no waiter, no reference.
LEMMA MappedInit == Init => Mapped
BY SMTT(30) DEF Init, InitData, InitNotify, Mapped, States

\* A step of the data file neither opens a handle nor closes one.
LEMMA MappedData ==
    ASSUME Mapped, NEW p \in Procs, DataStep(p)
    PROVE  Mapped'
<1>1. UNCHANGED state \/ \E to \in States \ {"closed"} : state[p] # "closed"
                             /\ state' = [state EXCEPT ![p] = to]
  <2> USE DEF handleVars
  <2>1. CASE Attach(p) \/ CacheGeneration(p) \/ VerifyInode(p) \/ CloseStart(p)
        BY <2>1 DEF Attach, CacheGeneration, VerifyInode, CloseStart, States
  <2>2. CASE \E g \in {"tx", "compact", "reclaim"} : AcquireWriter(p, g)
        BY <2>2 DEF AcquireWriter
  <2>3. CASE \E failed \in BOOLEAN :
                 CommitVisible(p, failed) \/ CommitNotVisible(p, failed)
                     \/ RenameRefused(p, failed)
        BY <2>3 DEF CommitVisible, CommitNotVisible, RenameRefused
  <2>4. CASE GrantRefused(p) \/ Begin(p) \/ Rollback(p) \/ CommitUnverified(p)
        BY <2>4 DEF GrantRefused, Begin, Rollback, CommitUnverified
  <2>5. CASE BeginRead(p) \/ FileClosed(p) \/ PinSnapshot(p) \/ ReadGeneration(p)
             \/ NewReader(p) \/ EndRead(p)
        BY <2>5 DEF BeginRead, FileClosed, PinSnapshot, ReadGeneration, NewReader, EndRead
  <2>6. CASE CompactStart(p) \/ CopyCompact(p) \/ CompactGivesUp(p) \/ Teardown(p) \/ Rename(p)
             \/ BumpDataGeneration(p) \/ StoreGeneration(p) \/ ReopenFails(p)
             \/ InstallCompactPager(p)
        BY <2>6 DEF CompactStart, CopyCompact, CompactGivesUp, Teardown, Rename,
                    BumpDataGeneration, StoreGeneration, ReopenFails, InstallCompactPager
  <2>7. CASE MaintStart(p) \/ MaintSnapshot(p) \/ MaintWalk(p) \/ MaintSkips(p)
             \/ ReclaimLeaks(p) \/ DiscardLeaks(p)
        BY <2>7 DEF MaintStart, MaintSnapshot, MaintWalk, MaintSkips, ReclaimLeaks, DiscardLeaks
  <2> QED BY <2>1, <2>2, <2>3, <2>4, <2>5, <2>6, <2>7 DEF DataStep
<1>2. UNCHANGED <<refs, wpc, ctx>>
      BY DEF DataStep, notifyVars, waitVars
<1> QED BY <1>1, <1>2 DEF Mapped, States

\* Open, Wait, Close and WaitLeave count; a death takes all of it.
LEMMA MappedNext ==
    ASSUME Mapped, [Next]_vars
    PROVE  Mapped'
<1> USE DEF wordVars, waitVars, notifyVars, handleVars
<1>1. CASE UNCHANGED vars
      BY <1>1 DEF vars, dataVars, Mapped
<1>2. CASE Next
  <2> PICK p \in Procs :
          \/ Open(p) \/ Seed(p) \/ Close(p) \/ Die(p)
          \/ DataStep(p)
          \/ \E ss \in SUBSET Slots : Announce(p, ss)
          \/ AnnounceWake(p) \/ (\E s \in Slots : AnnounceStamp(p, s))
          \/ \E s \in Words, v \in 0 .. word[Global] : Wait(p, s, v)
          \/ Check(p) \/ WaitStep(p)
        BY <1>2 DEF Next
  <2>1. CASE Open(p)
        BY SMTT(30), <2>1 DEF Open, OpenFile, Mapped, States
  <2>2. CASE Seed(p)
        BY <2>2 DEF Seed, Seeded, SeedNotifyVersion, Mapped, States
  <2>3. CASE Close(p)
    <3>1. /\ state[p] # "closed" /\ state' = [state EXCEPT ![p] = "closed"]
          /\ refs' = [refs EXCEPT ![p] = @ - 1] /\ UNCHANGED <<wpc, ctx>>
          BY <2>3 DEF Close, CloseEnd, HandleGone
    <3> QED BY SMTT(30), <3>1 DEF Mapped, States
  <2>4. CASE Die(p)
    <3>1. /\ state' = [state EXCEPT ![p] = "closed"] /\ refs' = [refs EXCEPT ![p] = 0]
          /\ wpc' = [wpc EXCEPT ![p] = "idle"] /\ ctx' = [ctx EXCEPT ![p] = "live"]
          BY <2>4 DEF Die, Kill, HandleGone
    <3> QED BY SMTT(30), <3>1 DEF Mapped, States
  <2>5. CASE DataStep(p)
        BY <2>5, MappedData
  <2>6. CASE \E ss \in SUBSET Slots : Announce(p, ss)
        BY <2>6 DEF Announce, PublishBump, Publishing, Mapped
  <2>7. CASE AnnounceWake(p)
    <3>1. Woken(pub.at) /\ UNCHANGED <<state, refs, ctx>>
          BY <2>7 DEF AnnounceWake, PublishWake, Published, Publishing
    <3> QED BY <3>1 DEF Woken, Mapped
  <2>8. CASE \E s \in Slots : AnnounceStamp(p, s)
        BY <2>8 DEF AnnounceStamp, PublishStamp, Publishing, Mapped
  <2>9. CASE \E s \in Words, v \in 0 .. word[Global] : Wait(p, s, v)
    <3>1. /\ wpc[p] = "idle" /\ refs' = [refs EXCEPT ![p] = @ + 1]
          /\ wpc' = [wpc EXCEPT ![p] = "load"] /\ ctx' = [ctx EXCEPT ![p] = "live"]
          /\ UNCHANGED state
          BY <2>9 DEF Wait, WaitStart, dataVars
    <3> QED BY SMTT(30), <3>1 DEF Mapped
  <2>10. CASE WaitLeave(p) /\ UNCHANGED dataVars
    <3>1. /\ wpc[p] = "leave" /\ ctx[p] # "done" /\ refs' = [refs EXCEPT ![p] = @ - 1]
          /\ wpc' = [wpc EXCEPT ![p] = "idle"] /\ UNCHANGED <<state, ctx>>
          BY <2>10 DEF WaitLeave, CallbackOver, dataVars
    <3> QED BY SMTT(30), <3>1 DEF Mapped
  <2>11. CASE (WaitLoad(p) \/ WaitSleep(p) \/ WaitSlice(p)) /\ UNCHANGED dataVars
    <3>1. /\ wpc[p] # "idle" /\ UNCHANGED <<state, refs, ctx>>
          /\ \E to \in {"load", "check", "asleep", "leave"} : wpc' = [wpc EXCEPT ![p] = to]
          BY <2>11 DEF WaitLoad, WaitSleep, WaitSlice, dataVars
    <3> QED BY <3>1 DEF Mapped
  <2>12. CASE Check(p)
    <3>1. /\ wpc[p] # "idle" /\ UNCHANGED <<state, refs, ctx>>
          /\ \E to \in {"leave", "sleep"} : wpc' = [wpc EXCEPT ![p] = to]
          BY <2>12 DEF Check, WaitCheck, dataVars
    <3> QED BY <3>1 DEF Mapped
  <2>13. CASE Cancel(p) /\ UNCHANGED dataVars
        BY <2>13 DEF Cancel, Waiting, dataVars, Mapped
  <2>14. CASE CancelWake(p) /\ UNCHANGED dataVars
    <3>1. Woken(slot[p]) /\ ctx' = [ctx EXCEPT ![p] = "told"] /\ UNCHANGED <<state, refs>>
          BY <2>14 DEF CancelWake, dataVars
    <3> QED BY <3>1 DEF Woken, Mapped
  <2> QED
      BY <2>1, <2>2, <2>3, <2>4, <2>5, <2>6, <2>7, <2>8, <2>9, <2>10, <2>11, <2>12, <2>13, <2>14
         DEF WaitStep
<1> QED BY <1>1, <1>2

\* Neither a Close nor the end of a wait unmaps the lock file under a waiter
\* or under the callback of its context.
THEOREM MappingSafety == Spec => []NotifyMapped
<1>1. Mapped => NotifyMapped
      BY SMTT(30) DEF Mapped, NotifyMapped, Waiting
<1> QED BY <1>1, MappedInit, MappedNext, PTL DEF Spec

==============================================================================
