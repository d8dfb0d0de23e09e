----------------------------- MODULE Keyspaces -----------------------------
(***************************************************************************)
(* The operations of the keyspace layer on a write transaction             *)
(* (keyspace.go, keyspace_core.go, set_keyspace.go, index_open.go,         *)
(* index_rebuild.go, index_codec.go, tx.go), as functions of a context:    *)
(*   w     the work record (Forest)                                        *)
(*   t     the transaction: [ks, num, open, dirty, pend, dead] for the     *)
(*         catalogue root, the keyspace count, the open handles, the       *)
(*         staged descriptors of unopened keyspaces, the names deleted     *)
(*         from the committed catalogue, and the names of dead handles     *)
(*   ext   the pager's external commit reserve, in pages                   *)
(*   curs  the cursors                                                     *)
(*   lvl   0 for the transaction, 1 for its child: whose cursors move      *)
(* openKeyspaces and openSetKeyspaces are one map here: no operation lets  *)
(* a name enter both, and each refuses the other's kind the same way.      *)
(***************************************************************************)
EXTENDS IndexReads

CONSTANTS
    SegCap,       \* retired pages per RPL segment
    Slots,        \* cursors
    NoCursor      \* an unused cursor slot

ASSUME KeyspacesAssumption == SegCap \in Nat \ {0}

NewDescriptor(kind, gen) ==
    [kind |-> kind, root |-> 0, count |-> 0, reg |-> 0, cfg |-> 0, seq |-> 0, gen |-> gen]

\* beginTx: nothing is open, nothing staged.
NewTx(b) == [ks |-> b.ks, num |-> b.num, open |-> EmptyTree, dirty |-> EmptyTree,
             pend |-> {}, dead |-> {}]

Work(h, keep, left) == [heap |-> h, keep |-> keep, left |-> left, err |-> "", ret |-> 0]

Refuse(c, e) == [c EXCEPT !.w = Fail(@, e)]
Restored(c, now) == [c EXCEPT !.w = RestoreSavepoint(now, c.w)]

-----------------------------------------------------------------------------
(* The commit-flush reserve *)

Segments(n) == (n + SegCap - 1) \div SegCap

PathLen(root) == IF root = 0 THEN 0 ELSE 1

(* mutant: the registry writes of the flush are not charged *)
FlushChargeDescriptor(h) == IF h.state = "clean" /\ ~h.charged THEN 0 ELSE 1

FlushCharge(h) ==
    IF h.state = "clean" /\ ~h.charged THEN 0
    ELSE 1 + (IF h.ro THEN 0 ELSE Cardinality(DOMAIN h.idx) * h.regLen)

FlushPages(t) ==
    MapThenSumSet(LAMBDA n : FlushCharge(t.open[n]), DOMAIN t.open)
        + Cardinality(DOMAIN t.dirty)

recalcFlushReserve(t) == FlushPages(t) + Segments(FlushPages(t))

Recalc(c) == [c EXCEPT !.ext = recalcFlushReserve(c.t)]

\* A reserve that rose above prev may exceed the slab budget.  One that did
\* not rise was admitted before.
checkReserveAffordable(c, prev) ==
    IF c.ext > prev THEN [c EXCEPT !.w = Fallible(@)] ELSE c

Admit(c, charged) ==
    IF charged.w.err = "" THEN charged
    ELSE [c EXCEPT !.w = charged.w, !.ext = recalcFlushReserve(c.t)]

admitDirtyingCharge(c, n) ==
    IF c.t.open[n].state # "clean" \/ c.t.open[n].charged THEN c
    ELSE Admit(c, checkReserveAffordable(
                      Recalc([c EXCEPT !.t.open[n].charged = TRUE]), c.ext))

requireWritable(c, n) ==
    IF c.t.open[n].ro THEN Refuse(c, "ErrReadOnly") ELSE admitDirtyingCharge(c, n)

-----------------------------------------------------------------------------
(* Cursors: [lvl, n, i, root, at, stale].  i is the index iterated, Plain  *)
(* for the rows; root the tree a re-position descends from; at the tree    *)
(* the current position lies in.                                           *)

TreeRoot(h, i) == IF i = Plain THEN h.desc.root ELSE h.idx[i].root

On(c, lvl, n) == c # NoCursor /\ c.lvl = lvl /\ c.n = n

MarkStale(c, h) == [c EXCEPT !.stale = TRUE, !.root = TreeRoot(h, c.i)]

(* mutant: stale, but still to re-position from the old root *)
markCursorsStaleOnly(cs, lvl, n, h) ==
    [s \in Slots |-> IF On(cs[s], lvl, n) /\ cs[s].i = Plain
                     THEN [cs[s] EXCEPT !.stale = TRUE] ELSE cs[s]]

markCursorsStale(cs, lvl, n, h) ==
    [s \in Slots |-> IF On(cs[s], lvl, n) /\ cs[s].i = Plain
                     THEN MarkStale(cs[s], h) ELSE cs[s]]

markIndexHandlesStale(cs, lvl, n, h) ==
    [s \in Slots |-> IF On(cs[s], lvl, n) /\ cs[s].i # Plain
                     THEN MarkStale(cs[s], h) ELSE cs[s]]

markIndexHandleStaleByName(cs, lvl, n, h, i) ==
    [s \in Slots |-> IF On(cs[s], lvl, n) /\ cs[s].i = i
                     THEN MarkStale(cs[s], h) ELSE cs[s]]

\* A dead handle's cursors refuse every call: they are out of the picture.
markIndexHandleDead(cs, lvl, n, i) ==
    [s \in Slots |-> IF On(cs[s], lvl, n) /\ cs[s].i = i THEN NoCursor ELSE cs[s]]

KillCursors(cs, lvl, n) ==
    [s \in Slots |-> IF On(cs[s], lvl, n) THEN NoCursor ELSE cs[s]]

-----------------------------------------------------------------------------
(* Row operations *)

\* A handle's new state; leaving clean recomputes the reserve.
SetHandle(c, n, h) ==
    LET a == [c EXCEPT !.t.open[n] = h]
    IN IF h.state = c.t.open[n].state THEN a ELSE Recalc(a)

\* What a row operation did to handle n.
Applied(c, n, r) ==
    [SetHandle(c, n, r.h) EXCEPT
        !.w = r.w,
        !.curs = IF ~r.done THEN @
                 ELSE markIndexHandlesStale(markCursorsStale(@, c.lvl, n, r.h),
                                            c.lvl, n, r.h)]

\* A mutator: the guard they share, then what it does to its handle.
RowOp(c, n, Op(_, _)) ==
    LET a == requireWritable(c, n)
    IN IF a.w.err # "" THEN a ELSE Applied(a, n, Op(a.w, a.t.open[n]))

\* The deleting cursor has re-positioned itself in the new tree.  After a
\* failed delete it is stale, on the root the savepoint put back.
SelfRecovered(c, s, n, done) ==
    [c EXCEPT !.curs[s] =
        [@ EXCEPT !.root = c.t.open[n].desc.root,
                  !.at = IF done THEN c.t.open[n].desc.root ELSE @,
                  !.stale = ~done]]

\* A cursor over rows whose index maintenance failed has not moved.
RowCursorDelete(a, s, n, k, maintained) ==
    LET r == keyspaceDelete(a.w, a.t.open[n], k)
    IN IF maintained THEN SelfRecovered(Applied(a, n, r), s, n, r.done)
       ELSE Applied(a, n, r)

SetCursorDelete(a, s, n, r) ==
    IF r.done THEN SelfRecovered(Applied(a, n, r), s, n, TRUE) ELSE Applied(a, n, r)

CursorDelete(c, s, n, k, v) ==
    LET a == requireWritable(c, n)
        h == a.t.open[n]
    IN IF a.w.err # "" THEN a
       ELSE IF h.desc.kind = 0
       THEN RowCursorDelete(a, s, n, k,
                onDelete(a.w, h.idx, PairsAt(a.w.heap, h.desc, {k})).w.err = "")
       ELSE SetCursorDelete(a, s, n, setDeleteValue(a.w, h, k, v))

(* mutant: the handle stays clean *)
nextSeqClean(w, h) == Unchanged(w, [h EXCEPT !.desc.seq = @ + 1])

nextSeq(w, h) == Unchanged(w, markDirty([h EXCEPT !.desc.seq = @ + 1]))

NextSequence(c, n) == RowOp(c, n, nextSeq)

-----------------------------------------------------------------------------
(* Opening *)

lookupDescriptor(heap, t, n) ==
    IF n \in DOMAIN t.open THEN t.open[n].desc
    ELSE IF n \in DOMAIN t.dirty THEN t.dirty[n]
    ELSE Tree(heap, t.ks)[n]

Exists(heap, t, n) ==
    n \in DOMAIN t.open \cup DOMAIN t.dirty \cup DOMAIN Tree(heap, t.ks)

registryOf(heap, desc) == Tree(heap, desc.reg)

DeclsOf(pinned) == [i \in DOMAIN pinned |-> pinned[i].decl]

\* Every stored index is declared, every declared one stored, and the
\* schema hashes and versions agree.
validatePinnedAgainstRegistry(reg, decls) == DeclsOf(reg) = decls

indexesEqualByHashableInputs(pinned, decls) == DeclsOf(pinned) = decls

cacheOpenKeyspace(c, n, desc, ro) ==
    [desc |-> desc, ro |-> ro, charged |-> FALSE, gen |-> desc.gen,
     state |-> IF n \in DOMAIN c.t.dirty THEN "dirty" ELSE "clean",
     regLen |-> IF ro THEN 0 ELSE PathLen(desc.reg),
     idx |-> registryOf(c.w.heap, desc)]

\* The staged entry is consumed once the handle is admitted.
ConsumeStaged(c, n) == Recalc([c EXCEPT !.t.dirty = Without(@, {n})])

InstallHandle(c, n, h) ==
    LET a == checkReserveAffordable(Recalc([c EXCEPT !.t.open = With(@, n, h)]), c.ext)
    IN IF a.w.err = "" THEN ConsumeStaged(a, n) ELSE Admit(c, a)

OpenUncached(c, n, kind, decls, ro) ==
    LET desc == lookupDescriptor(c.w.heap, c.t, n)
    IN IF desc.kind # kind THEN Refuse(c, "ErrKeyspaceKindMismatch")
       ELSE IF ~ro /\ ~validatePinnedAgainstRegistry(registryOf(c.w.heap, desc), decls)
       THEN Refuse(c, "ErrIndexMismatch")
       ELSE InstallHandle(c, n, cacheOpenKeyspace(c, n, desc, ro))

OpenCached(c, n, kind, decls, ro) ==
    IF c.t.open[n].desc.kind # kind THEN Refuse(c, "ErrKeyspaceKindMismatch")
    ELSE IF \/ c.t.open[n].ro # ro
            \/ ~ro /\ ~indexesEqualByHashableInputs(c.t.open[n].idx, decls)
    THEN Refuse(c, "ErrKeyspaceAlreadyOpen")
    ELSE c

OpenKeyspace(c, n, kind, decls, ro) ==
    IF n \in DOMAIN c.t.open THEN OpenCached(c, n, kind, decls, ro)
    ELSE IF n \in c.t.pend \/ ~Exists(c.w.heap, c.t, n) THEN Refuse(c, "ErrNotFound")
    ELSE OpenUncached(c, n, kind, decls, ro)

\* The stored declarations, whatever they are; no extractor, so no writes.
OpenKeyspaceReadOnly(c, n, kind) == OpenKeyspace(c, n, kind, EmptyTree, TRUE)

-----------------------------------------------------------------------------
(* Creating *)

\* acc is [w, reg]: the registry grows entry by entry.
registryPut(acc, i, entry) ==
    LET w == PutKey(acc.w, acc.reg, i, entry)
    IN [w |-> w, reg |-> IF w.err = "" THEN w.ret ELSE acc.reg]

NewIndexes(decls) == [i \in DOMAIN decls |-> [decl |-> decls[i], root |-> 0, count |-> 0]]

writeNewIndexRegistry(w, decls) ==
    FoldSet(LAMBDA i, acc : registryPut(acc, i, NewIndexes(decls)[i]),
            [w |-> w, reg |-> 0], DOMAIN decls)

CreatedHandle(desc, decls, reg) ==
    [desc |-> [desc EXCEPT !.reg = reg], ro |-> FALSE, charged |-> FALSE,
     gen |-> desc.gen, state |-> "created", regLen |-> PathLen(reg),
     idx |-> NewIndexes(decls)]

\* The handle is cached with num raised before the writes; w holds them.
Finalized(c, n, h, w) ==
    IF w.err # "" THEN [c EXCEPT !.w = w]
    ELSE checkReserveAffordable(
             Recalc([c EXCEPT !.w = w, !.t.ks = w.ret, !.t.num = @ + 1,
                              !.t.pend = @ \ {n}, !.t.open = With(@, n, h)]), c.ext)

StoreCreated(c, n, h, acc) ==
    Finalized(c, n, h, PutKey(acc.w, c.t.ks, n, h.desc))

finalizeCreatedKeyspace(c, n, desc, decls, acc) ==
    StoreCreated(c, n, CreatedHandle(desc, decls, acc.reg), acc)

\* A refused creation puts everything back but the reserve, which the next
\* recomputation lowers.
CreateSettled(c, a) ==
    IF a.w.err = "" THEN a ELSE [Restored(c, a.w) EXCEPT !.ext = a.ext]

CreateKeyspace(c, n, kind, decls, gen) ==
    IF n \in DOMAIN c.t.open \/ (n \notin c.t.pend /\ Exists(c.w.heap, c.t, n))
    THEN Refuse(c, "ErrKeyExists")
    ELSE CreateSettled(c, finalizeCreatedKeyspace(c, n, NewDescriptor(kind, gen), decls,
                              writeNewIndexRegistry(c.w, decls)))

CreateKeyspaceIfNotExists(c, n, kind, decls, gen) ==
    IF n \in DOMAIN c.t.open \/ (n \notin c.t.pend /\ Exists(c.w.heap, c.t, n))
    THEN OpenKeyspace(c, n, kind, decls, FALSE)
    ELSE CreateKeyspace(c, n, kind, decls, gen)

-----------------------------------------------------------------------------
(* Deleting *)

\* The pinned root is ahead of the registry's while the handle is open.
liveIndexRoot(t, n, i, registryRoot) ==
    IF n \in DOMAIN t.open /\ i \in DOMAIN t.open[n].idx THEN t.open[n].idx[i].root
    ELSE registryRoot

IndexRoots(heap, t, n, desc) ==
    {liveIndexRoot(t, n, i, registryOf(heap, desc)[i].root) :
         i \in DOMAIN registryOf(heap, desc)}

(* mutant: the index trees are forgotten with their registry *)
retireIndexRegistryOnly(w, t, n, desc) ==
    IF desc.reg = 0 THEN w ELSE FreeSubtrees(w, {desc.reg})

retireIndexRegistry(w, t, n, desc) ==
    IF desc.reg = 0 THEN w
    ELSE FreeSubtrees(FreeSubtrees(w, IndexRoots(w.heap, t, n, desc)), {desc.reg})

DataRoots(heap, desc) ==
    {desc.root} \cup NestedRoots(heap, desc, DOMAIN Tree(heap, desc.root))

Retired(c, n, desc) ==
    DeleteKey(retireIndexRegistry(FreeSubtrees(c.w, DataRoots(c.w.heap, desc)), c.t, n, desc),
              c.t.ks, n)

\* Out of the open map, dead; a name the committed catalogue has is pending.
Forgotten(t, n, ks) ==
    [t EXCEPT !.ks = ks, !.num = @ - 1,
              !.open = Without(@, {n}), !.dirty = Without(@, {n}),
              !.dead = IF n \in DOMAIN t.open THEN @ \cup {n} ELSE @,
              !.pend = IF n \in DOMAIN t.open /\ t.open[n].state = "created" THEN @
                       ELSE @ \cup {n}]

DeleteSettled(c, n, w) ==
    IF w.err # "" THEN Restored(c, w)
    ELSE Recalc([c EXCEPT !.w = w, !.t = Forgotten(c.t, n, w.ret),
                          !.curs = KillCursors(@, c.lvl, n)])

DeleteKeyspace(c, n) ==
    IF n \in c.t.pend \/ ~Exists(c.w.heap, c.t, n) THEN Refuse(c, "ErrNotFound")
    ELSE DeleteSettled(c, n, Retired(c, n, lookupDescriptor(c.w.heap, c.t, n)))

-----------------------------------------------------------------------------
(* Settings *)

ApplyConfig(c, n, v) ==
    IF n \in DOMAIN c.t.open
    THEN SetHandle(c, n, markDirty([c.t.open[n] EXCEPT !.desc.cfg = v]))
    ELSE Recalc([c EXCEPT !.t.dirty =
                     With(@, n, [lookupDescriptor(c.w.heap, c.t, n) EXCEPT !.cfg = v])])

SetKeyspaceConfig(c, n, v) ==
    IF n \in c.t.pend \/ ~Exists(c.w.heap, c.t, n) THEN Refuse(c, "ErrNotFound")
    ELSE IF lookupDescriptor(c.w.heap, c.t, n).cfg = v THEN c
    ELSE Admit(c, checkReserveAffordable(ApplyConfig(c, n, v), c.ext))

-----------------------------------------------------------------------------
(* Rebuilding and dropping an index.  With the keyspace open the registry  *)
(* root moves in the handle; otherwise a changed descriptor is staged.     *)

PublishRegistry(c, n, reg) ==
    IF n \in DOMAIN c.t.open
    THEN Recalc([c EXCEPT !.t.open[n] =
                     markDirty([@ EXCEPT !.desc.reg = reg, !.regLen = PathLen(reg)])])
    ELSE Recalc([c EXCEPT !.t.dirty =
                     With(@, n, [lookupDescriptor(c.w.heap, c.t, n) EXCEPT !.reg = reg])])

\* The handle's flush state goes back with the savepoint.  The measured
\* registry depth stays (remeasured says the measurement was reached).
UnwindIndexOp(c, n, w, remeasured, reg) ==
    IF n \in DOMAIN c.t.open
    THEN Recalc([Restored(c, w) EXCEPT !.t.open[n].regLen =
                     IF remeasured THEN PathLen(reg) ELSE @])
    ELSE IF remeasured THEN Recalc(Restored(c, w))
    ELSE Restored(c, w)

syncRebuildToCachedPinned(c, n, i, entry) ==
    IF n \in DOMAIN c.t.open /\ i \in DOMAIN c.t.open[n].idx
    THEN [c EXCEPT !.t.open[n].idx[i] = entry] ELSE c

StaleIndex(c, n, i) ==
    IF n \in DOMAIN c.t.open
    THEN [c EXCEPT !.curs = markIndexHandleStaleByName(@, c.lvl, n, c.t.open[n], i)]
    ELSE c

RebuildSettled(c, n, i, entry, reg, a) ==
    IF a.w.err # "" THEN UnwindIndexOp(c, n, a.w, TRUE, reg)
    ELSE StaleIndex(syncRebuildToCachedPinned(a, n, i, entry), n, i)

RebuildFreed(c, n, i, entry, reg, w) ==
    IF w.err # "" THEN UnwindIndexOp(c, n, w, FALSE, reg)
    ELSE RebuildSettled(c, n, i, entry, reg,
             checkReserveAffordable(PublishRegistry([c EXCEPT !.w = w], n, reg), c.ext))

\* The new entry is published in the registry before the old tree is freed.
RebuildPublished(c, n, i, entry, w) ==
    RebuildFreed(c, n, i, entry, w.ret,
        FreeSubtrees(w, {liveIndexRoot(c.t, n, i,
            registryOf(c.w.heap, lookupDescriptor(c.w.heap, c.t, n))[i].root)}))

RebuildBuilt(c, n, i, decl, desc, w) ==
    LET entry == [decl |-> decl, root |-> w.ret,
                  count |-> Cardinality(DOMAIN Tree(w.heap, w.ret))]
    IN RebuildPublished(c, n, i, entry, PutKey(w, desc.reg, i, entry))

HasIndex(c, n, i) ==
    /\ n \notin c.t.pend /\ Exists(c.w.heap, c.t, n)
    /\ i \in DOMAIN registryOf(c.w.heap, lookupDescriptor(c.w.heap, c.t, n))

rebuildIndex(c, n, i, decl) ==
    IF ~HasIndex(c, n, i) THEN Refuse(c, "ErrNotFound")
    ELSE LET desc == lookupDescriptor(c.w.heap, c.t, n)
         IN RebuildBuilt(c, n, i, decl, desc,
                         processPairs(c.w, decl, Pairs(c.w.heap, desc)))

DropPinned(c, n, i) ==
    IF n \in DOMAIN c.t.open
    THEN [c EXCEPT !.t.open[n].idx = Without(@, {i}),
                   !.curs = markIndexHandleDead(@, c.lvl, n, i)]
    ELSE c

DropSettled(c, n, i, reg, a) ==
    IF a.w.err # "" THEN UnwindIndexOp(c, n, a.w, TRUE, reg) ELSE DropPinned(a, n, i)

DropFreed(c, n, i, reg, w) ==
    IF w.err # "" THEN UnwindIndexOp(c, n, w, FALSE, reg)
    ELSE DropSettled(c, n, i, reg,
             checkReserveAffordable(PublishRegistry([c EXCEPT !.w = w], n, reg), c.ext))

DropPublished(c, n, i, w) ==
    DropFreed(c, n, i, w.ret,
        FreeSubtrees(w, {liveIndexRoot(c.t, n, i,
            registryOf(c.w.heap, lookupDescriptor(c.w.heap, c.t, n))[i].root)}))

dropIndex(c, n, i) ==
    IF ~HasIndex(c, n, i) THEN Refuse(c, "ErrNotFound")
    ELSE DropPublished(c, n, i,
             DeleteKey(c.w, lookupDescriptor(c.w.heap, c.t, n).reg, i))

-----------------------------------------------------------------------------
(* The commit flush: the open handles that are not clean, registry first,  *)
(* then the staged descriptors.  acc is [w, ks].                           *)

flushIndexRegistry(w, h) ==
    IF h.ro THEN [w |-> w, reg |-> h.desc.reg]
    ELSE FoldSet(LAMBDA i, acc : registryPut(acc, i, h.idx[i]),
                 [w |-> w, reg |-> h.desc.reg], DOMAIN h.idx)

storeDescriptor(acc, n, desc) ==
    LET w == PutKey(acc.w, acc.ks, n, desc)
    IN [w |-> w, ks |-> IF w.err = "" THEN w.ret ELSE acc.ks]

FlushStore(acc, n, h, r) ==
    storeDescriptor([acc EXCEPT !.w = r.w], n, [h.desc EXCEPT !.reg = r.reg])

FlushHandle(acc, n, h) ==
    IF h.state = "clean" THEN acc ELSE FlushStore(acc, n, h, flushIndexRegistry(acc.w, h))

flushKeyspaces(w, t) ==
    FoldSet(LAMBDA n, acc : storeDescriptor(acc, n, t.dirty[n]),
            FoldSet(LAMBDA n, acc : FlushHandle(acc, n, t.open[n]),
                    [w |-> w, ks |-> t.ks], DOMAIN t.open),
            DOMAIN t.dirty)

(* mutant: only what is still open or staged *)
touchedNotifySlotsLive(t) ==
    {n \in DOMAIN t.open : t.open[n].state # "clean"} \cup DOMAIN t.dirty

\* Taken before the flush makes the handles clean.
touchedNotifySlots(t) ==
    {n \in DOMAIN t.open : t.open[n].state # "clean"}
        \cup DOMAIN t.dirty \cup t.pend \cup t.dead

-----------------------------------------------------------------------------
(* Child transactions *)

\* The child has copies of the handles and the staged state, and no dead.
BeginChildTx(t) == [t EXCEPT !.dead = {}]

\* A handle the child kept: the parent's takes over its state in place,
\* but for what identifies it.
MergedHandle(p, h) == [h EXCEPT !.gen = p.gen, !.ro = p.ro]

Recreated(c, n) == n \in c.dead

mergeOpen(p, c) ==
    [n \in DOMAIN c.open |->
        IF n \in DOMAIN p.open /\ ~Recreated(c, n)
        THEN MergedHandle(p.open[n], c.open[n]) ELSE c.open[n]]

Killed(p, c) == {n \in DOMAIN p.open : n \notin DOMAIN c.open \/ Recreated(c, n)}

mergeKeyspaceHandles(p, c) ==
    [c EXCEPT !.open = mergeOpen(p, c), !.dead = p.dead \cup @ \cup Killed(p, c)]

\* The parent's cursors: dead with their handle or with a dropped index,
\* index iterators stale in any case, row cursors when the root moved.
MergeCursor(s, p, m, killed) ==
    IF s = NoCursor THEN s
    ELSE IF s.lvl = 1 THEN NoCursor
    ELSE IF s.n \in killed THEN NoCursor
    ELSE IF s.i # Plain /\ s.i \notin DOMAIN m.open[s.n].idx THEN NoCursor
    ELSE IF s.i # Plain \/ p.open[s.n].desc.root # m.open[s.n].desc.root
    THEN MarkStale(s, m.open[s.n])
    ELSE s

reconcileHandles(cs, p, c) ==
    [s \in Slots |-> MergeCursor(cs[s], p, mergeKeyspaceHandles(p, c), Killed(p, c))]

DropChildCursors(cs) ==
    [s \in Slots |-> IF cs[s] # NoCursor /\ cs[s].lvl = 1 THEN NoCursor ELSE cs[s]]
=============================================================================
