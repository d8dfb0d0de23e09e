------------------------------ MODULE TxPager ------------------------------
(***************************************************************************)
(* The write transaction's view of the pager (internal/pager): the tiers   *)
(* of the page allocator, the slab of dirty page buffers with its budget   *)
(* and its spill to the file, pages written past the slab, the two kinds   *)
(* of savepoint with their undo log, rollback, and the assembly of a       *)
(* commit.                                                                 *)
(*                                                                         *)
(* One transaction runs at a time and one goroutine runs it, so nothing is *)
(* interleaved here: what can go wrong is a long sequence of legal calls.  *)
(* The tree is the set of pages a caller has linked, each with the content *)
(* it expects to read there.  Contents, and the buffers that hold them,    *)
(* are numbers; 0 is a page nobody wrote.  The B+tree never changes a page *)
(* it has linked: it allocates a page, fills it, links it and frees the    *)
(* page it replaces.                                                       *)
(***************************************************************************)
EXTENDS SequencesExt

CONSTANTS
    MaxSize,    \* pages the file may have (Options.MaxSize)
    MaxBuf,     \* pages of MaxTxBufferBytes
    SegCap,     \* entries of an RPL segment
    FirstPages, \* pages of the tree the database starts with
    MaxRun,     \* pages of the longest contiguous run asked for
    MaxDepth,   \* savepoints open at a time (bound)
    MaxOps,     \* page operations of a transaction (bound)
    MaxTxns,    \* transactions (bound)
    SpillFails  \* whether a spill's pwrite may fail

ASSUME TxPagerAssumption ==
    /\ MaxSize \in Nat \ {0} /\ MaxBuf \in Nat \ {0} /\ SegCap \in Nat \ {0}
    /\ FirstPages \in 1..(MaxSize - 2)
    /\ MaxRun \in Nat \ {0}
    /\ {MaxDepth, MaxOps, MaxTxns} \subseteq Nat
    /\ SpillFails \in BOOLEAN

VARIABLES
    free,             \* pages whose bitmap bit is set
    highWaterMark,    \* pages the file tracks
    rplSegments,      \* the RPL chain in memory, oldest first
    lost,             \* pages of quarantined segments: allocated, unreachable
    bound,            \* contents of the segments below reclamationBound
    pendingAllocs, loosePages, retiredPages, deferredFrees,
    dirty,            \* page -> buffer in the slab
    detachedBufs, dirtyBytes, spillErr,
    savepointUndoLog, activeSavepoints,
    disk,             \* page -> content of the file
    tree,             \* page -> content the caller linked
    held,             \* pages allocated and neither linked nor freed yet
    base,             \* the tree of the committed meta
    txSnapshot,       \* what AbortTx restores
    segPageIDs,       \* segment pages the commit has reserved
    pc,               \* idle, tx, assemble (step 0 starts), append (its RPL part)
    putWrong,         \* a buffer went to the pool twice, or while referenced
    ops, txns         \* bounded counters

core == <<free, highWaterMark, rplSegments, lost>>
sets == <<pendingAllocs, loosePages, retiredPages, deferredFrees>>
slab == <<dirty, detachedBufs, dirtyBytes, spillErr>>
sp_vars == <<savepointUndoLog, activeSavepoints>>
app == <<tree, held>>
rest == <<base, txSnapshot, segPageIDs, pc, txns>>
vars == <<core, bound, sets, slab, sp_vars, disk, app, rest, putWrong, ops>>

Pages == 0..(MaxSize - 1)

Without(f, S) == Restrict(f, DOMAIN f \ S)

(***************************************************************************)
(* A content nobody refers to: buffers are compared by it, so it is new    *)
(* among everything a step can still reach.                                *)
(***************************************************************************)
Contents(f) == {f[p] : p \in DOMAIN f}

InUse ==
    LET Segs(c) == {c[i].content : i \in DOMAIN c}
        Saved(sp) == Contents(sp.tree) \cup Segs(sp.rplSegments)
                     \cup {sp.loosePopLog[i].buf : i \in DOMAIN sp.loosePopLog}
    IN  Contents(disk) \cup Contents(dirty) \cup Contents(tree) \cup Contents(base)
        \cup ToSet(detachedBufs) \cup Segs(rplSegments) \cup Segs(txSnapshot.rplSegments)
        \cup UNION {Saved(activeSavepoints[i]) : i \in DOMAIN activeSavepoints}

Fresh == CHOOSE c \in 1..(Cardinality(InUse) + 1) :
            c \notin InUse /\ \A b \in 1..(c - 1) : b \in InUse

(***************************************************************************)
(* pageRaw: the slab first, then the mapping.                              *)
(***************************************************************************)
pageRaw(p) == IF p \in DOMAIN dirty THEN dirty[p] ELSE disk[p]

(***************************************************************************)
(* recordSavepointUndo: nothing is logged while no savepoint is open.      *)
(***************************************************************************)
Log(entries) ==
    IF activeSavepoints = <<>> THEN savepointUndoLog ELSE savepointUndoLog \o entries

Entry(field, id, was) == <<[field |-> field, id |-> id, was |-> was]>>

savepointDepth ==
    Cardinality({i \in DOMAIN activeSavepoints : activeSavepoints[i].kind = "nested"})

IsShallow(stack) == \E i \in DOMAIN stack : stack[i].kind = "shallow"

-----------------------------------------------------------------------------
(***************************************************************************)
(* Reclamation: every leading segment below the bound leaves the chain; a  *)
(* segment whose page still holds it frees its entries and itself, any     *)
(* other is quarantined and its pages are lost until a leak pass.          *)
(***************************************************************************)
Now == [free |-> free, rplSegments |-> rplSegments, lost |-> lost, bound |-> bound]

SegPages(seg) == seg.ids \cup {seg.page}

reclaimRPL(s) ==
    LET c == s.rplSegments
        n == CHOOSE n \in 0..Len(c) :
                /\ \A i \in 1..n : c[i].content \in s.bound
                /\ n = Len(c) \/ c[n + 1].content \notin s.bound
        readable == {i \in 1..n : pageRaw(c[i].page) = c[i].content}
        Of(I) == UNION {SegPages(c[i]) : i \in I}
    IN  [s EXCEPT !.free = @ \cup Of(readable),
                  !.lost = @ \cup Of(1..n \ readable),
                  !.rplSegments = SubSeq(c, n + 1, Len(c))]

Runs(F, n) == {r \in {i..(i + n - 1) : i \in 0..(MaxSize - n)} : r \subseteq F}

(***************************************************************************)
(* The pools the tiers of AllocPage and AllocContiguous can leave: the     *)
(* bitmap as it is, or after a reclamation, or after a second one under a  *)
(* bound the lagging-reader callback waited for.                           *)
(***************************************************************************)
Pools(n) ==
    LET once == reclaimRPL(Now)
        c == once.rplSegments
        waited == {reclaimRPL([once EXCEPT !.bound = @ \cup {c[i].content : i \in 1..k}]) :
                      k \in 1..Len(c)}
    IN  IF Runs(free, n) # {} THEN {Now}
        ELSE IF Runs(once.free, n) # {} THEN {once}
        ELSE {once} \cup waited

Install(pool, F) ==
    /\ free' = F
    /\ rplSegments' = pool.rplSegments
    /\ lost' = pool.lost
    /\ bound' = pool.bound

(***************************************************************************)
(* A claim of ids from the bitmap or past the high-water mark.             *)
(***************************************************************************)
Claim(ids) ==
    LET fresh == SetToSeq(ids \ pendingAllocs) IN
    /\ pendingAllocs' = pendingAllocs \cup ids
    /\ savepointUndoLog' =
          Log([i \in DOMAIN fresh |-> Entry("alloc", fresh[i], FALSE)[1]])
    /\ UNCHANGED <<activeSavepoints, loosePages, retiredPages, deferredFrees, slab>>

RoomPastEnd(n) == highWaterMark <= MaxSize

Room(n) == highWaterMark + n <= MaxSize

AllocContiguous(n, ids) ==
    \E pool \in Pools(n) :
        IF Runs(pool.free, n) # {}
        THEN /\ ids \in Runs(pool.free, n)
             /\ Install(pool, pool.free \ ids)
             /\ UNCHANGED highWaterMark
             /\ Claim(ids)
        ELSE /\ Room(n)
             /\ ids = highWaterMark..(highWaterMark + n - 1)
             /\ Install(pool, pool.free)
             /\ highWaterMark' = highWaterMark + n
             /\ Claim(ids)

(***************************************************************************)
(* The allocation fails: the database is full, the lagging-reader callback *)
(* aborts, or the file does not grow.  What was reclaimed stays reclaimed. *)
(***************************************************************************)
AllocError(n) ==
    \E pool \in Pools(n) :
        /\ Runs(pool.free, n) = {}
        /\ Install(pool, pool.free)
        /\ UNCHANGED <<highWaterMark, sets, slab, sp_vars>>

(***************************************************************************)
(* A loose page is handed out again: its buffer is detached, and an open   *)
(* shallow savepoint remembers it, with whether the buffer was there when  *)
(* the savepoint began.                                                    *)
(***************************************************************************)
Popped(sp, id) ==
    LET inWindow == \E i \in (sp.undoLogPos + 1)..Len(savepointUndoLog) :
                        /\ savepointUndoLog[i].field = "dirty"
                        /\ savepointUndoLog[i].id = id
    IN  [sp EXCEPT !.loosePopLog =
            Append(@, [id |-> id, buf |-> dirty[id], pre |-> ~inWindow])]

LoosePop(id) ==
    /\ savepointDepth = 0
    /\ id \in loosePages
    /\ loosePages' = loosePages \ {id}
    /\ pendingAllocs' = pendingAllocs \cup {id}
    /\ savepointUndoLog' = Log(Entry("loose", id, TRUE) \o
          IF id \in pendingAllocs THEN <<>> ELSE Entry("alloc", id, FALSE))
    /\ dirty' = Without(dirty, {id})
    /\ IF id \in DOMAIN dirty
       THEN /\ detachedBufs' = Append(detachedBufs, dirty[id])
            /\ activeSavepoints' = [i \in DOMAIN activeSavepoints |->
                  IF activeSavepoints[i].kind = "shallow"
                  THEN Popped(activeSavepoints[i], id) ELSE activeSavepoints[i]]
       ELSE UNCHANGED <<detachedBufs, activeSavepoints>>
    /\ UNCHANGED <<core, bound, retiredPages, deferredFrees, dirtyBytes, spillErr>>

AllocPage(id) ==
    \/ LoosePop(id)
    \/ /\ loosePages = {} \/ savepointDepth > 0
       /\ AllocContiguous(1, {id})

-----------------------------------------------------------------------------
(***************************************************************************)
(* The page operations of the transaction's body.                          *)
(***************************************************************************)
Op == pc = "tx" /\ ops < MaxOps /\ ops' = ops + 1

Alloc ==
    /\ Op
    /\ \E id \in Pages : AllocPage(id) /\ held' = held \cup {id}
    /\ UNCHANGED <<tree, disk, rest, putWrong>>

AllocRun ==
    /\ Op
    /\ \E n \in 2..MaxRun, i \in Pages :
          LET ids == i..(i + n - 1) IN AllocContiguous(n, ids) /\ held' = held \cup ids
    /\ UNCHANGED <<tree, disk, rest, putWrong>>

(***************************************************************************)
(* AllocPageBelow: a free page below a floor, without the other tiers.     *)
(***************************************************************************)
AllocPageBelow ==
    /\ Op
    /\ \E id \in free :
          /\ held' = held \cup {id}
          /\ free' = free \ {id}
          /\ Claim({id})
    /\ UNCHANGED <<highWaterMark, rplSegments, lost, bound, tree, disk, rest, putWrong>>

AllocFails ==
    /\ pc = "tx"
    /\ \E n \in 1..MaxRun :
          /\ n = 1 => loosePages = {} \/ savepointDepth > 0
          /\ AllocError(n)
    /\ UNCHANGED <<app, disk, rest, putWrong, ops>>

(***************************************************************************)
(* ReclaimFreeSpace: incremental compaction reclaims before it allocates,  *)
(* under a bound it has refreshed.                                         *)
(***************************************************************************)
ReclaimFreeSpace ==
    /\ pc = "tx"
    /\ activeSavepoints = <<>>
    /\ \E k \in 0..Len(rplSegments) :
          LET pool == reclaimRPL([Now EXCEPT !.bound =
                          @ \cup {rplSegments[i].content : i \in 1..k}])
          IN  Install(pool, pool.free)
    /\ UNCHANGED <<highWaterMark, sets, slab, sp_vars, app, disk, rest, putWrong, ops>>

rplReserveWhole(n) == n \div SegCap

rplReserve(n) == (n + SegCap - 1) \div SegCap

admissionLimit == MaxBuf - rplReserve(Len(retiredPages))

(***************************************************************************)
(* CoW and AllocSlab: a fresh buffer enters the slab.  After a failed      *)
(* spill the budget is a hard limit again.                                 *)
(***************************************************************************)
CoW ==
    /\ Op
    /\ spillErr => dirtyBytes + 1 <= admissionLimit
    /\ \E id \in held :
          /\ id \notin DOMAIN dirty
          /\ dirty' = (id :> Fresh) @@ dirty
          /\ tree' = (id :> Fresh) @@ tree
          /\ held' = held \ {id}
          /\ savepointUndoLog' = Log(Entry("dirty", id, FALSE))
    /\ dirtyBytes' = dirtyBytes + 1
    /\ UNCHANGED <<core, bound, sets, detachedBufs, spillErr, activeSavepoints, disk, rest, putWrong>>

(***************************************************************************)
(* writeDirect: the page goes to the file past the slab.                   *)
(***************************************************************************)
WriteDirect ==
    /\ Op
    /\ \E id \in held :
          /\ id \in pendingAllocs
          /\ id \notin DOMAIN dirty
          /\ disk' = [disk EXCEPT ![id] = Fresh]
          /\ tree' = (id :> Fresh) @@ tree
          /\ held' = held \ {id}
    /\ UNCHANGED <<core, bound, sets, slab, sp_vars, rest, putWrong>>

(***************************************************************************)
(* FreePage: a page in the slab becomes loose; a page of this transaction  *)
(* that is not in the slab goes back to the bitmap, at once or when the    *)
(* last open savepoint is released; a page of an earlier transaction is    *)
(* retired, if the commit's RPL segments still fit the budget.             *)
(***************************************************************************)
FreeDirty(id) ==
    /\ loosePages' = loosePages \cup {id}
    /\ pendingAllocs' = pendingAllocs \ {id}
    /\ savepointUndoLog' = Log(
          (IF id \in loosePages THEN <<>> ELSE Entry("loose", id, FALSE)) \o
          (IF id \in pendingAllocs THEN Entry("alloc", id, TRUE) ELSE <<>>))
    /\ UNCHANGED <<free, retiredPages, deferredFrees>>

FreeAllocatedAtOnce(id) ==
    /\ free' = free \cup {id}
    /\ pendingAllocs' = pendingAllocs \ {id}
    /\ savepointUndoLog' = Log(Entry("alloc", id, TRUE))
    /\ UNCHANGED <<loosePages, retiredPages, deferredFrees>>

FreeAllocated(id) ==
    /\ IF activeSavepoints = <<>>
       THEN free' = free \cup {id} /\ UNCHANGED deferredFrees
       ELSE deferredFrees' = Append(deferredFrees, id) /\ UNCHANGED free
    /\ pendingAllocs' = pendingAllocs \ {id}
    /\ savepointUndoLog' = Log(Entry("alloc", id, TRUE))
    /\ UNCHANGED <<loosePages, retiredPages>>

RetireToBitmap(id) ==
    /\ free' = free \cup {id}
    /\ UNCHANGED <<pendingAllocs, loosePages, retiredPages, deferredFrees, savepointUndoLog>>

Retire(id) ==
    /\ rplReserve(Len(retiredPages) + 1) <= MaxBuf
    /\ retiredPages' = Append(retiredPages, id)
    /\ UNCHANGED <<free, pendingAllocs, loosePages, deferredFrees, savepointUndoLog>>

FreePage ==
    /\ Op
    /\ \E id \in DOMAIN tree \cup held :
          /\ IF id \in DOMAIN dirty THEN FreeDirty(id)
             ELSE IF id \in pendingAllocs THEN FreeAllocated(id)
             ELSE Retire(id)
          /\ tree' = Without(tree, {id})
          /\ held' = held \ {id}
    /\ UNCHANGED <<highWaterMark, rplSegments, lost, bound, slab, activeSavepoints, disk, rest, putWrong>>

(***************************************************************************)
(* FreeLeakedPage: the leak pass gives an unreachable page back.           *)
(***************************************************************************)
FreeLeakedPage ==
    /\ pc = "tx"
    /\ activeSavepoints = <<>>
    /\ \E id \in lost : free' = free \cup {id} /\ lost' = lost \ {id}
    /\ UNCHANGED <<highWaterMark, rplSegments, bound, sets, slab, sp_vars, disk, app, rest, putWrong, ops>>

-----------------------------------------------------------------------------
(***************************************************************************)
(* Savepoints.  "tree" is the caller's, who goes back to it on a restore.  *)
(***************************************************************************)
Capture(kind) ==
    [kind |-> kind, free |-> free, highWaterMark |-> highWaterMark,
     rplSegments |-> rplSegments, lost |-> lost,
     undoLogPos |-> Len(savepointUndoLog), retiredLen |-> Len(retiredPages),
     detachedLen |-> Len(detachedBufs), deferredLen |-> Len(deferredFrees),
     loosePopLog |-> <<>>, tree |-> tree]

BeginSavepoint(kind) ==
    /\ pc = "tx"
    /\ held = {}
    /\ Len(activeSavepoints) < MaxDepth
    /\ kind = "shallow" => ~IsShallow(activeSavepoints)
    /\ activeSavepoints' = Append(activeSavepoints, Capture(kind))
    /\ UNCHANGED <<core, bound, sets, slab, savepointUndoLog, disk, app, rest, putWrong, ops>>

(***************************************************************************)
(* Undoing the log from its end back to pos leaves each page with the      *)
(* membership its first entry recorded.                                    *)
(***************************************************************************)
Replay(S, field, pos) ==
    LET W == {i \in (pos + 1)..Len(savepointUndoLog) : savepointUndoLog[i].field = field}
        ids == {savepointUndoLog[i].id : i \in W}
        First(id) == Min({i \in W : savepointUndoLog[i].id = id})
    IN  (S \ ids) \cup {id \in ids : savepointUndoLog[First(id)].was}

(***************************************************************************)
(* The loose pops of a shallow window, undone from the last: a buffer the  *)
(* window found is attached again, one it made itself goes to the pool.    *)
(***************************************************************************)
Unpop(e, s) ==
    IF e.pre
    THEN [dirty |-> (e.id :> e.buf) @@ s.dirty,
          put |-> IF e.id \in DOMAIN s.dirty THEN Append(s.put, s.dirty[e.id]) ELSE s.put]
    ELSE [s EXCEPT !.put = Append(@, e.buf)]

Unslab(sp) ==
    LET added == {savepointUndoLog[i].id : i \in {j \in (sp.undoLogPos + 1)..Len(savepointUndoLog) :
                                                      savepointUndoLog[j].field = "dirty"}}
                 \cap DOMAIN dirty
    IN  FoldRight(Unpop, sp.loosePopLog,
                  [dirty |-> Without(dirty, added),
                   put |-> SetToSeq({dirty[id] : id \in added})])

Truncate(s, n) == SubSeq(s, 1, IF n < Len(s) THEN n ELSE Len(s))

Beyond(s, n) == SubSeq(s, n + 1, Len(s))

PutsAll(sp, r) == r.put \o Beyond(detachedBufs, sp.detachedLen)

Puts(sp, r) ==
    IF sp.kind = "shallow" THEN r.put ELSE r.put \o Beyond(detachedBufs, sp.detachedLen)

DeferredKept(sp) == deferredFrees

Deferred(sp) == Truncate(deferredFrees, sp.deferredLen)

RestoreSavepoint ==
    /\ pc = "tx"
    /\ activeSavepoints # <<>>
    /\ LET sp == Last(activeSavepoints)
           r == Unslab(sp)
           puts == Puts(sp, r)
       IN  /\ activeSavepoints' = Front(activeSavepoints)
           /\ pendingAllocs' = Replay(pendingAllocs, "alloc", sp.undoLogPos)
           /\ loosePages' = Replay(loosePages, "loose", sp.undoLogPos)
           /\ savepointUndoLog' = Truncate(savepointUndoLog, sp.undoLogPos)
           /\ dirty' = r.dirty
           /\ free' = sp.free
           /\ highWaterMark' = sp.highWaterMark
           /\ rplSegments' = sp.rplSegments
           /\ lost' = sp.lost
           /\ retiredPages' = Truncate(retiredPages, sp.retiredLen)
           /\ detachedBufs' = Truncate(detachedBufs, sp.detachedLen)
           /\ deferredFrees' = Deferred(sp)
           /\ dirtyBytes' = Cardinality(DOMAIN dirty') + Len(detachedBufs')
           /\ tree' = sp.tree
           /\ held' = {}
           /\ putWrong' = (\/ putWrong
                           \/ ~IsInjective(puts)
                           \/ ToSet(puts) \cap (Contents(dirty') \cup ToSet(detachedBufs')) # {})
    /\ UNCHANGED <<bound, spillErr, disk, rest, ops>>

(***************************************************************************)
(* SpillExcess, at the end of an operation that leaves "stack" open: over  *)
(* the budget, and with no shallow window whose caller may still be        *)
(* writing, every page of the transaction goes to the file and leaves the  *)
(* slab.  With no savepoint at all the buffers kept for a restore are      *)
(* dropped first, which may be enough.  A failed pwrite stops the pass.    *)
(***************************************************************************)
SpillExcess(stack) ==
    LET droppable == IF stack = <<>> THEN loosePages \cap DOMAIN dirty ELSE {}
        kept == Without(dirty, droppable)
        bufs == IF stack = <<>> THEN <<>> ELSE detachedBufs
        bytes == dirtyBytes - Cardinality(droppable) - (Len(detachedBufs) - Len(bufs))
        owned == DOMAIN kept \cap (pendingAllocs \cup loosePages)
        enough == spillErr \/ (stack = <<>> /\ bytes <= admissionLimit)
        passes == IF enough THEN {{}} ELSE IF SpillFails THEN SUBSET owned ELSE {owned}
    IN  IF dirtyBytes <= admissionLimit \/ IsShallow(stack)
        THEN UNCHANGED <<slab, disk>>
        ELSE \E S \in passes :
                /\ dirty' = Without(kept, S)
                /\ dirtyBytes' = bytes - Cardinality(S)
                /\ disk' = [p \in Pages |-> IF p \in S THEN kept[p] ELSE disk[p]]
                /\ detachedBufs' = bufs
                /\ spillErr' = (spillErr \/ (~enough /\ S # owned))

(***************************************************************************)
(* ReleaseSavepoint: the window's work stays; the last release gives the   *)
(* deferred pages to the bitmap.                                           *)
(***************************************************************************)
ReleaseSavepoint ==
    /\ pc = "tx"
    /\ activeSavepoints # <<>>
    /\ held = {}
    /\ activeSavepoints' = Front(activeSavepoints)
    /\ IF activeSavepoints' = <<>>
       THEN /\ savepointUndoLog' = <<>>
            /\ free' = free \cup ToSet(deferredFrees)
            /\ deferredFrees' = <<>>
       ELSE UNCHANGED <<savepointUndoLog, free, deferredFrees>>
    /\ SpillExcess(activeSavepoints')
    /\ UNCHANGED <<highWaterMark, rplSegments, lost, bound, pendingAllocs, loosePages,
                   retiredPages, app, rest, putWrong, ops>>

-----------------------------------------------------------------------------
(***************************************************************************)
(* BeginTx: the bound puts some of the oldest segments below it.           *)
(***************************************************************************)
CaptureCore == [free |-> free, highWaterMark |-> highWaterMark,
                rplSegments |-> rplSegments, lost |-> lost]

BeginTx ==
    /\ pc = "idle"
    /\ txns < MaxTxns
    /\ txns' = txns + 1
    /\ pc' = "tx"
    /\ \E k \in 0..Len(rplSegments) : bound' = {rplSegments[i].content : i \in 1..k}
    /\ txSnapshot' = CaptureCore
    /\ spillErr' = FALSE
    /\ ops' = 0
    /\ UNCHANGED <<core, sets, dirty, detachedBufs, dirtyBytes, sp_vars, disk, app, base,
                   segPageIDs, putWrong>>

(***************************************************************************)
(* ReleaseAll and ResetFreespace: nothing of the transaction is left.      *)
(***************************************************************************)
EndTx ==
    /\ dirty' = <<>>
    /\ detachedBufs' = <<>>
    /\ dirtyBytes' = 0
    /\ pendingAllocs' = {}
    /\ loosePages' = {}
    /\ retiredPages' = <<>>
    /\ deferredFrees' = <<>>
    /\ segPageIDs' = <<>>
    /\ held' = {}
    /\ bound' = {}
    /\ txSnapshot' = [free |-> {}, highWaterMark |-> 0, rplSegments |-> <<>>, lost |-> {}]
    /\ pc' = "idle"
    /\ spillErr' = FALSE
    /\ ops' = 0
    /\ UNCHANGED <<txns, putWrong>>

(***************************************************************************)
(* AbortTx: Rollback, whose cascade has restored every open savepoint, or  *)
(* a commit that failed before it wrote anything.                          *)
(***************************************************************************)
AbortTx ==
    /\ pc # "idle"
    /\ activeSavepoints = <<>>
    /\ free' = txSnapshot.free
    /\ highWaterMark' = txSnapshot.highWaterMark
    /\ rplSegments' = txSnapshot.rplSegments
    /\ lost' = txSnapshot.lost
    /\ tree' = base
    /\ EndTx
    /\ UNCHANGED <<base, sp_vars, disk>>

(***************************************************************************)
(* Commit: the last spill, then step 0.                                    *)
(***************************************************************************)
CommitSpill ==
    /\ pc = "tx"
    /\ activeSavepoints = <<>>
    /\ held = {}
    /\ SpillExcess(<<>>)
    /\ pc' = "assemble"
    /\ UNCHANGED <<core, bound, sets, sp_vars, app, base, txSnapshot, segPageIDs, txns, putWrong, ops>>

(***************************************************************************)
(* The high-water mark drops below the free and loose pages of the tail.   *)
(***************************************************************************)
TailRefund ==
    LET used == 0..(highWaterMark - 1) \ (free \cup loosePages)
    IN  IF used = {} THEN 0 ELSE Max(used) + 1

commitStep0 ==
    /\ pc = "assemble"
    /\ LET hwm == TailRefund
           gone == DOMAIN dirty \cap (loosePages \cup {p \in Pages : p >= hwm})
       IN  /\ highWaterMark' = hwm
           /\ free' = {p \in free \cup loosePages : p < hwm}
           /\ dirty' = Without(dirty, gone)
           /\ dirtyBytes' = dirtyBytes - Cardinality(gone)
    /\ loosePages' = {}
    /\ pc' = "append"
    /\ UNCHANGED <<rplSegments, lost, bound, pendingAllocs, retiredPages, deferredFrees,
                   detachedBufs, spillErr, sp_vars, disk, app, base, txSnapshot, segPageIDs,
                   txns, putWrong, ops>>

(***************************************************************************)
(* appendRPL, phase 1: one page per segment (no page is loose any more).   *)
(***************************************************************************)
NumSegs == (Len(retiredPages) + SegCap - 1) \div SegCap

ReserveSegment ==
    /\ pc = "append"
    /\ Len(segPageIDs) < NumSegs
    /\ \E id \in Pages : AllocContiguous(1, {id}) /\ segPageIDs' = Append(segPageIDs, id)
    /\ UNCHANGED <<disk, app, base, txSnapshot, pc, txns, putWrong, ops>>

(***************************************************************************)
(* appendRPL, phase 2, and step 1 with the rest of a commit that succeeds: *)
(* the segments enter the slab and the chain, and the slab the file.       *)
(***************************************************************************)
NewSegs ==
    LET ids == SetToSortSeq(ToSet(retiredPages), <)
        Chunk(i) == {ids[j] : j \in ((i - 1) * SegCap + 1)..Len(ids) \cap 1..(i * SegCap)}
        contents == SetToSortSeq({c \in 1..(Cardinality(InUse) + NumSegs) : c \notin InUse}, <)
    IN  [i \in 1..NumSegs |->
            [page |-> segPageIDs[i], ids |-> Chunk(i), content |-> contents[i]]]

Publish ==
    /\ pc = "append"
    /\ Len(segPageIDs) = NumSegs
    /\ dirtyBytes + NumSegs <= MaxBuf
    /\ LET segs == NewSegs
           SegAt(p) == CHOOSE s \in ToSet(segs) : s.page = p
       IN  /\ rplSegments' = rplSegments \o segs
           /\ disk' = [p \in Pages |->
                 IF p \in ToSet(segPageIDs) THEN SegAt(p).content ELSE pageRaw(p)]
    /\ base' = tree
    /\ EndTx
    /\ UNCHANGED <<free, highWaterMark, lost, tree, sp_vars>>

-----------------------------------------------------------------------------
(***************************************************************************)
(* What a first update of a new database leaves: its tree, and the page it *)
(* replaced pending in the RPL.                                            *)
(***************************************************************************)
Init ==
    /\ free = {}
    /\ highWaterMark = FirstPages + 2
    /\ rplSegments = <<[page |-> FirstPages + 1, ids |-> {0}, content |-> FirstPages + 1]>>
    /\ lost = {}
    /\ bound = {}
    /\ pendingAllocs = {} /\ loosePages = {} /\ retiredPages = <<>> /\ deferredFrees = <<>>
    /\ dirty = <<>> /\ detachedBufs = <<>> /\ dirtyBytes = 0 /\ spillErr = FALSE
    /\ savepointUndoLog = <<>> /\ activeSavepoints = <<>>
    /\ disk = [p \in Pages |-> IF p <= FirstPages + 1 THEN p ELSE 0]
    /\ tree = [p \in 1..FirstPages |-> p]
    /\ base = tree
    /\ held = {}
    /\ txSnapshot = [free |-> {}, highWaterMark |-> 0, rplSegments |-> <<>>, lost |-> {}]
    /\ segPageIDs = <<>>
    /\ pc = "idle"
    /\ putWrong = FALSE
    /\ ops = 0 /\ txns = 0

Next ==
    \/ BeginTx
    \/ Alloc \/ AllocRun \/ AllocPageBelow \/ AllocFails \/ ReclaimFreeSpace
    \/ WriteDirect \/ CoW
    \/ FreePage \/ FreeLeakedPage
    \/ \E kind \in {"nested", "shallow"} : BeginSavepoint(kind)
    \/ RestoreSavepoint \/ ReleaseSavepoint
    \/ AbortTx
    \/ CommitSpill \/ commitStep0 \/ ReserveSegment \/ Publish

Spec == Init /\ [][Next]_vars

-----------------------------------------------------------------------------
(***************************************************************************)
(* Types of the pager's transaction state; the file never outgrows         *)
(* MaxSize (the cap of AllocPage's and AllocContiguous's last tier).       *)
(***************************************************************************)
TypeOK ==
    /\ free \subseteq Pages /\ lost \subseteq Pages /\ held \subseteq Pages
    /\ highWaterMark \in 0..MaxSize
    /\ \A i \in DOMAIN rplSegments :
          rplSegments[i].page \in Pages /\ rplSegments[i].ids \subseteq Pages
    /\ pendingAllocs \subseteq Pages /\ loosePages \subseteq Pages
    /\ ToSet(retiredPages) \cup ToSet(deferredFrees) \cup ToSet(segPageIDs) \subseteq Pages
    /\ DOMAIN dirty \cup DOMAIN tree \cup DOMAIN base \subseteq Pages
    /\ DOMAIN disk = Pages
    /\ dirtyBytes \in Nat
    /\ spillErr \in BOOLEAN /\ putWrong \in BOOLEAN
    /\ Len(activeSavepoints) <= MaxDepth
    /\ pc \in {"idle", "tx", "assemble", "append"}
    /\ ops \in 0..MaxOps /\ txns \in 0..MaxTxns

(***************************************************************************)
(* Every page below the high-water mark is in exactly one place: free in   *)
(* the bitmap, linked in the tree, held by the caller, loose, deferred,    *)
(* retired, pending in the RPL, reserved for a segment, or lost with a     *)
(* quarantined segment.  A page in two places is handed out while it is    *)
(* still needed; a page in none is leaked.  This has to survive every mix  *)
(* of AllocPage, FreePage, SpillExcess, RestoreSavepoint and the commit.   *)
(***************************************************************************)
Partition ==
    LET pending == [i \in DOMAIN rplSegments |-> SegPages(rplSegments[i])]
        places == <<free, DOMAIN tree, held, loosePages, ToSet(deferredFrees),
                    ToSet(retiredPages), ToSet(segPageIDs), lost>> \o pending
    IN  /\ UNION ToSet(places) = 0..(highWaterMark - 1)
        /\ \A i, j \in DOMAIN places : i # j => places[i] \cap places[j] = {}
        /\ IsInjective(deferredFrees) /\ IsInjective(retiredPages)

(***************************************************************************)
(* Whatever the tree links reads as it was written, from the slab or from  *)
(* the file: after a spill, after a page was loose and handed out again,   *)
(* and after RestoreSavepoint or AbortTx brought an earlier tree back.     *)
(***************************************************************************)
TreeIntact == \A p \in DOMAIN tree : pageRaw(p) = tree[p]

(***************************************************************************)
(* The pages of the committed meta's tree keep their bytes in the file     *)
(* until the next commit, so readers and a crash find them whole: spills   *)
(* and direct writes of the running transaction only touch pages of its    *)
(* own.                                                                    *)
(***************************************************************************)
CommittedIntact == \A p \in DOMAIN base : disk[p] = base[p]

(***************************************************************************)
(* The slab: dirtyBytes counts the buffers in the slab and the detached    *)
(* ones; every page in the slab belongs to the transaction, so that a      *)
(* spill can write it; pendingAllocs is exactly what the transaction       *)
(* allocated and still uses; no buffer is referenced twice and none goes   *)
(* to the pool twice or while it is referenced (savepoint.go's double Put).*)
(***************************************************************************)
SlabSound ==
    /\ dirtyBytes = Cardinality(DOMAIN dirty) + Len(detachedBufs)
    /\ DOMAIN dirty \subseteq pendingAllocs \cup loosePages
    /\ pendingAllocs = (DOMAIN tree \ DOMAIN base) \cup held \cup ToSet(segPageIDs)
    /\ IsInjective(dirty) /\ IsInjective(detachedBufs)
    /\ Contents(dirty) \cap ToSet(detachedBufs) = {}
    /\ ~putWrong

(***************************************************************************)
(* A commit always finds room in the budget for its RPL segments, unless a *)
(* spill has failed: the reserve FreePage checks and the spill threshold   *)
(* leave it (pager-slab.md, Slab Budget).                                  *)
(***************************************************************************)
CommitFits == pc = "append" => spillErr \/ dirtyBytes + NumSegs <= MaxBuf

(***************************************************************************)
(* No page is ever lost: a rollback gives every page back with no leak     *)
(* (AbortTx's comment).                                                    *)
(***************************************************************************)
NoLeak == lost = {}
=============================================================================
