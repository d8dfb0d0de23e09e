------------------------------ MODULE Durability ------------------------------
(***************************************************************************)
(* What a commit, a checkpoint, a recovery and a crash do to the data file *)
(* (internal/pager/{commit,init,freespace,rplwalk}.go, checkpoint.go and   *)
(* the grant-side parts of db.go and tx.go).                               *)
(*                                                                         *)
(* The file has two meta slots, one bitmap bit per data page (TRUE = free, *)
(* each bit a block of its own: the bitmap spans many pages) and the data  *)
(* pages.  A data page holds a tree node, labelled with the transaction    *)
(* that wrote it, or a segment of the retired-page list (RPL).  A tree is  *)
(* the set of its pages with the label each must carry.  The length of the *)
(* file is one more block.                                                 *)
(*                                                                         *)
(* Processes open the file, hold the write grant one at a time, commit in  *)
(* any sync mode, checkpoint, close, are killed, have their pwrites and    *)
(* fdatasyncs fail; the machine loses power.                               *)
(***************************************************************************)
EXTENDS PageCache, Naturals, Sequences, FiniteSets

CONSTANTS
    Procs,       \* processes with a writable handle
    MaxSize,     \* data pages the file may grow to
    ShrinkThreshold,  \* free pages at the end that make a commit truncate; 0 = never
    TreeSize,    \* pages of a tree
    MaxTxn,      \* bound on TxnID
    Failing,     \* the steps whose pwrite or fdatasync may fail
    Plans,       \* the bounds a behaviour may have: who opens the file, how far it
                 \* and the TxnID grow, how many deaths, failures and power losses
    None         \* no page, process or snapshot

SyncModes == {"SyncNone", "SyncDataOnly", "SyncBoth"}

ASSUME BoundsAssumption ==
    /\ MaxTxn \in Nat \ {0} /\ ShrinkThreshold \in Nat
    /\ TreeSize \in Nat \ {0} /\ MaxSize \in Nat /\ MaxSize >= TreeSize
    /\ Plans \subseteq [procs : SUBSET Procs, modes : SUBSET SyncModes, size : TreeSize .. MaxSize,
                        txns : 1 .. MaxTxn, kills : Nat, fails : Nat, crashes : Nat, reads : BOOLEAN]
    /\ None \notin Procs

Pages == 1 .. MaxSize
Slot(i) == <<"meta", i>>
Bit(x) == <<"bit", x>>
Page(x) == <<"page", x>>
Length == <<"length", 0>>
BitBlocks == {Bit(x) : x \in Pages}
PageBlocks == {Page(x) : x \in Pages}
LengthBlock == {Length}
FileBlocks == {Slot(0), Slot(1)} \cup LengthBlock \cup BitBlocks \cup PageBlocks

ASSUME LayoutAssumption == Blocks = FileBlocks /\ InodeBlocks = LengthBlock

VARIABLES
    pc,          \* [Procs -> where the handle is]
    job,         \* what the grant is held for
    holder,      \* holder of the write grant
    deadHolder,  \* WriterPID still names a process that died with the grant
    lastWriter,  \* LastWriter record, None once that process is dead
    covered,     \* RedirtyCoveredSeq = TakeoverSeq
    fresh,       \* handles whose takeoverSeqSeen = TakeoverSeq
    view,        \* [Procs -> TxnID, bitmap and RPL chain in memory]
    anchored,    \* [Procs -> anchoredEpoch]
    tx,          \* the holder's write transaction
    pin,         \* the snapshot a reader has pinned
    recovered,   \* whether a writable Open has recovered the file since the last
                 \* power loss, or joined it live without a recovery (sticky)
    acked,       \* newest version acknowledged as durable
    barrier,     \* whether the last fdatasync that succeeded left the meta on the platter
    plan,        \* the bounds of this behaviour
    kills, fails, crashes

locks == <<job, holder, deadHolder, lastWriter>>
seqs == <<covered, fresh>>
faults == <<plan, kills, fails, crashes>>
rest == <<pin, recovered, acked>>
vars == <<disk, pc, locks, seqs, view, anchored, tx, rest, barrier, faults>>
-----------------------------------------------------------------------------
(* Metas.  A sub-record names a tree, its extent and its RPL. *)

TreePage(t) == [kind |-> "tree", txn |-> t]
Blank == [kind |-> "blank"]
IsSeg(c) == c.kind = "seg"
Version(tree) == CHOOSE t \in {tree[x] : x \in DOMAIN tree} :
                    \A x \in DOMAIN tree : tree[x] <= t

SelfDurable(m) == m.dur.txn = m.live.txn

\* pickHighestTxnID; two slots with one TxnID only exist at genesis.
ActiveOf(m0, m1) == IF m1.live.txn > m0.live.txn THEN 1 ELSE 0
Active == ActiveOf(cache[Slot(0)], cache[Slot(1)])
Meta == cache[Slot(Active)]

\* An fdatasync that succeeds.  It is hollow when an earlier failed one has taken
\* the meta out of writeback: the platter may still have the slot's old content.
Barrier ==
    /\ FdatasyncOK
    /\ barrier' = IF barrier = "lost" THEN "lost"
                  ELSE IF Slot(Active) \in queued \/ platter[Slot(Active)] = {Meta} THEN "whole"
                  ELSE "hollow"

Max2(a, b) == IF a > b THEN a ELSE b
Min2(a, b) == IF a < b THEN a ELSE b
-----------------------------------------------------------------------------
(* Attaching to the file. *)

\* The head cannot have been reclaimed: reclamation stays below the epoch.
Exempt(s, epoch, x) == x = s.head /\ s.headTxn >= epoch

\* Mutant of Impostor: the walk trusts every segment it can decode.
ImpostorIgnored(c, prev) == FALSE

\* A segment newer than its predecessor is a later commit's, in a reused page.
Impostor(c, prev) == c.txn > prev

\* RPLChainWalk.Walk from the head of sub-record s: the chain, tail first, cut
\* at the first segment that was reclaimed since.
Walk(s, epoch, free) ==
    LET error == [ok |-> FALSE, chain |-> <<>>]
        cut == [ok |-> TRUE, chain |-> <<>>]
        from[x \in Pages, prev \in 0 .. MaxTxn, fuel \in 0 .. MaxSize] ==
            LET c == cache[Page(x)]
                exempt == Exempt(s, epoch, x)
            IN IF x > cache[Length] THEN error
               ELSE IF ~exempt /\ x \in free THEN cut
               ELSE IF ~IsSeg(c) THEN IF exempt THEN error ELSE cut
               ELSE IF Impostor(c, prev) THEN cut
               ELSE IF x = s.tail THEN [ok |-> TRUE, chain |-> <<[page |-> x, txn |-> c.txn]>>]
               ELSE IF c.older = None \/ fuel = 0 THEN error
               ELSE LET tailward == from[c.older, c.txn, fuel - 1]
                    IN [tailward EXCEPT !.chain = Append(@, [page |-> x, txn |-> c.txn])]
    IN IF s.head = None THEN cut ELSE from[s.head, s.headTxn, MaxSize]

SegIds(x) == IF IsSeg(cache[Page(x)]) THEN cache[Page(x)].ids ELSE {}
Entries(chain) == UNION {SegIds(chain[i].page) : i \in DOMAIN chain}

\* Mutant of Rearm: the bitmap in the file is believed as it is.
RearmNothing(free, chain) == {}

\* rearmCrashedReclamation: an entry still in the chain is not free.
Rearm(free, chain) == free \cap Entries(chain)

\* attachState: bitmap from the file, chain walk, re-arm; the bits that re-arm
\* cleared are written back.
Attach(s, epoch) ==
    LET free == {x \in Pages : cache[Bit(x)]}
        walk == Walk(s, epoch, free)
        rearmed == Rearm(free, walk.chain)
    IN [ok |-> walk.ok,
        view |-> [txn |-> s.txn, free |-> free \ rearmed, chain |-> walk.chain],
        writes |-> [b \in {Bit(x) : x \in rearmed} |-> FALSE]]
-----------------------------------------------------------------------------
NoView == [txn |-> 0, free |-> {}, chain |-> <<>>]

Init ==
    LET live == [txn |-> 1, tree |-> [x \in 1 .. TreeSize |-> 1], hwm |-> TreeSize,
                 head |-> None, headTxn |-> 0, tail |-> None]
        genesis == [live EXCEPT !.txn = 0, !.tree = <<>>, !.hwm = 0]
    IN /\ cache = [b \in FileBlocks |->
             CASE b = Slot(0) -> [live |-> genesis, dur |-> genesis, anch |-> 0]
               [] b = Slot(1) -> [live |-> live, dur |-> live, anch |-> 0]
               [] b = Length -> TreeSize
               [] b \in BitBlocks -> FALSE
               [] OTHER -> IF b[2] <= TreeSize THEN TreePage(1) ELSE Blank]
       /\ platter = [b \in FileBlocks |-> {cache[b]}]
       /\ queued = {}
       /\ pc = [p \in Procs |-> "closed"]
       /\ job = "none"
       /\ holder = None
       /\ deadHolder = FALSE
       /\ lastWriter = None
       /\ covered = TRUE
       /\ fresh = {}
       /\ view = [p \in Procs |-> NoView]
       /\ anchored = [p \in Procs |-> 0]
       /\ tx = None
       /\ pin = None
       /\ recovered = "yes"
       /\ acked = 1
       /\ barrier = "whole"
       /\ plan \in Plans
       /\ kills = 0 /\ fails = 0 /\ crashes = 0
-----------------------------------------------------------------------------
(* The write grant.  An acquisition that finds a dead holder's record bumps *)
(* TakeoverSeq; whoever acquires becomes the last writer.                   *)

Acquire(p, for) ==
    /\ holder = None
    /\ holder' = p
    /\ job' = for
    /\ deadHolder' = FALSE
    /\ lastWriter' = p

Release ==
    /\ holder' = None
    /\ job' = "none"
    /\ tx' = None
    /\ UNCHANGED <<deadHolder, lastWriter>>

\* RedirtyAttachedExtent: the bitmap and the pages below the high-water mark,
\* not the meta slots.
AttachedExtent ==
    BitBlocks \cup {Page(x) : x \in 1 .. Min2(Meta.live.hwm, cache[Length])}

Covered == covered /\ ~deadHolder
Fresh(p) == p \in fresh /\ ~deadHolder

\* Mutant of Stale: a takeover that published nothing goes unnoticed.
StaleOnCommit(p) == view[p].txn # Meta.live.txn

\* Resync attaches anew when a commit or a takeover happened since.
Stale(p) == ~Fresh(p) \/ view[p].txn # Meta.live.txn

\* Open's gate: nobody alive can own unsynced commits, nobody reads.
GatePasses == lastWriter = None /\ pin = None
-----------------------------------------------------------------------------
(* Open. *)

\* The gated arm of Open, RecoverToDurable: attach the durable projection and
\* redirty the bitmap ...
OpenGated(p) ==
    /\ pc[p] = "closed" /\ p \in plan.procs
    /\ GatePasses
    /\ Acquire(p, "open")
    /\ LET a == Attach(Meta.dur, Meta.dur.txn)
       IN /\ a.ok
          /\ Pwrite(Over(a.writes, Redirty(BitBlocks)))
          /\ view' = [view EXCEPT ![p] = a.view]
    /\ anchored' = [anchored EXCEPT ![p] = Meta.anch]
    /\ covered' = Covered
    /\ fresh' = IF deadHolder THEN {} ELSE fresh
    /\ pc' = [pc EXCEPT ![p] = "recoverMeta"]
    /\ UNCHANGED <<tx, rest, barrier, faults>>

\* ... rewrite the meta if it is self-durable, else publish the recovery commit
\* in the other slot ...
RecoverMeta(p) ==
    /\ pc[p] = "recoverMeta"
    /\ LET txn == Meta.live.txn + 1
           live == [Meta.dur EXCEPT !.txn = txn]
       IN \/ /\ SelfDurable(Meta)
             /\ Pwrite(Redirty({Slot(Active)}))
             /\ UNCHANGED view
          \/ /\ ~SelfDurable(Meta)
             /\ txn <= plan.txns
             /\ Pwrite(Block(Slot(1 - Active),
                          [live |-> live, dur |-> live, anch |-> Meta.dur.txn]))
             /\ view' = [view EXCEPT ![p].txn = txn]
    /\ pc' = [pc EXCEPT ![p] = "recoverSync"]
    /\ UNCHANGED <<locks, seqs, anchored, tx, rest, barrier, faults>>

\* ... and fdatasync.  A failure fails the Open.
RecoverSync(p) ==
    /\ pc[p] = "recoverSync"
    /\ Barrier
    /\ anchored' = [anchored EXCEPT ![p] = Meta.dur.txn]
    /\ covered' = TRUE
    /\ fresh' = fresh \cup {p}
    /\ recovered' = IF recovered = "skipped" THEN "skipped" ELSE "yes"
    /\ pc' = [pc EXCEPT ![p] = "idle"]
    /\ Release
    /\ UNCHANGED <<view, pin, acked, faults>>

\* A live author or a live reader: AttachLatest, the live projection.
OpenLive(p) ==
    /\ pc[p] = "closed" /\ p \in plan.procs
    /\ ~GatePasses
    /\ Acquire(p, "open")
    /\ LET a == Attach(Meta.live, Meta.dur.txn)
       IN /\ a.ok
          /\ Pwrite(IF Covered THEN a.writes ELSE Over(a.writes, Redirty(AttachedExtent)))
          /\ view' = [view EXCEPT ![p] = a.view]
    /\ anchored' = [anchored EXCEPT ![p] = Meta.anch]
    /\ covered' = Covered
    /\ fresh' = IF deadHolder THEN {} ELSE fresh
    /\ pc' = [pc EXCEPT ![p] = IF Covered THEN "opened" ELSE "cover"]
    /\ UNCHANGED <<tx, rest, barrier, faults>>

Opened(p) ==
    /\ pc[p] = "opened"
    /\ fresh' = fresh \cup {p}
    /\ recovered' = IF recovered = "no" THEN "skipped" ELSE recovered
    /\ pc' = [pc EXCEPT ![p] = "idle"]
    /\ Release
    /\ UNCHANGED <<disk, covered, view, anchored, pin, acked, barrier, faults>>
-----------------------------------------------------------------------------
(* A grant for a write transaction or a checkpoint: resyncPagerLocked. *)

Begin(p, for) ==
    /\ pc[p] = "idle"
    /\ Acquire(p, for)
    /\ LET a == Attach(Meta.live, Meta.dur.txn)
           rebuild == Stale(p)
           redirty == ~Fresh(p) /\ ~Covered
       IN /\ rebuild => a.ok
          /\ Pwrite(IF redirty THEN Over(a.writes, Redirty(AttachedExtent))
                    ELSE IF rebuild THEN a.writes ELSE <<>>)
          /\ view' = IF rebuild THEN [view EXCEPT ![p] = a.view] ELSE view
          /\ fresh' = LET known == IF deadHolder THEN {} ELSE fresh
                      IN IF redirty THEN known ELSE known \cup {p}
          /\ pc' = [pc EXCEPT ![p] = IF redirty THEN "cover"
                                     ELSE IF for = "tx" THEN "tx" ELSE "check2"]
    /\ anchored' = [anchored EXCEPT ![p] = Max2(@, Meta.anch)]
    /\ covered' = Covered
    /\ UNCHANGED <<tx, rest, barrier, faults>>

\* coverDroppedWritebackLineage: the barrier over the redirtied extent.
CoverSync(p) ==
    /\ pc[p] = "cover"
    /\ Barrier
    /\ covered' = TRUE
    /\ fresh' = IF job = "open" THEN fresh ELSE fresh \cup {p}
    /\ pc' = [pc EXCEPT ![p] = CASE job = "open" -> "opened"
                                 [] job = "tx" -> "tx"
                                 [] OTHER -> "check2"]
    /\ UNCHANGED <<locks, view, anchored, tx, rest, faults>>
-----------------------------------------------------------------------------
(* The write transaction. *)

\* Mutant of ReclamationBound: the durable epoch in memory, synced or not.
BoundDurable(p) ==
    IF pin = None THEN Meta.dur.txn ELSE Min2(pin.txn, Meta.dur.txn)

\* Mutant of ReclamationBound: the reader table is left out.
BoundUnpinned(p) == anchored[p]

\* min(oldest reader, anchored epoch)
ReclamationBound(p) ==
    IF pin = None THEN anchored[p] ELSE Min2(pin.txn, anchored[p])

\* The allocator's memory: free bits, chain, high-water mark, the pages handed
\* out and the bits changed.
Space(p) == [free |-> view[p].free, chain |-> view[p].chain, hwm |-> Meta.live.hwm,
             new |-> {}, bits |-> {}]

\* reclaimRPL: whole segments from the tail while below the bound; a segment
\* that no longer decodes is quarantined, its pages leak.
ReclaimRPL(s, bound) ==
    LET eligible == {i \in DOMAIN s.chain : \A j \in 1 .. i : s.chain[j].txn < bound}
        freed == UNION {LET c == cache[Page(s.chain[i].page)]
                        IN IF IsSeg(c) THEN c.ids \cup {s.chain[i].page} ELSE {} : i \in eligible}
    IN [s EXCEPT !.free = @ \cup freed, !.bits = @ \cup freed,
                 !.chain = SubSeq(@, Cardinality(eligible) + 1, Len(@))]

\* AllocPage: a free bit, else reclaim and a free bit, else extend the file;
\* no outcome is ErrDBFull.
AllocPage(s, bound) ==
    LET r == IF s.free = {} THEN ReclaimRPL(s, bound) ELSE s
    IN IF r.free # {}
       THEN {[r EXCEPT !.free = @ \ {x}, !.bits = @ \cup {x}, !.new = @ \cup {x},
                       !.hwm = Max2(@, x)] : x \in r.free}
       ELSE {[r EXCEPT !.hwm = x, !.new = @ \cup {x}] : x \in {r.hwm + 1} \cap 1 .. plan.size}

AllocPages(n, s, bound) ==
    FoldSet(LAMBDA i, spaces : UNION {AllocPage(t, bound) : t \in spaces}, {s}, 1 .. n)

TailRefund(s) ==
    LET hwm == CHOOSE h \in 0 .. s.hwm : /\ \A x \in h + 1 .. s.hwm : x \in s.free
                                         /\ h \notin s.free
    IN [s EXCEPT !.hwm = hwm, !.free = @ \cap 1 .. hwm,
                 !.bits = @ \cup (hwm + 1 .. s.hwm)]

\* The body of a transaction and commit step 0: some pages of the tree, the
\* newest among them, are rewritten elsewhere; free pages at the end of the
\* file are refunded; the retired pages form the new head segment.
Body(p, mode, retired, early) ==
    /\ LET txn == Meta.live.txn + 1
           tree == Meta.live.tree
           bound == ReclamationBound(p)
           start == IF early THEN ReclaimRPL(Space(p), bound) ELSE Space(p)
       IN /\ Version(tree) \in {tree[x] : x \in retired}
          /\ \E s \in AllocPages(Cardinality(retired), start, bound) :
             /\ s.new # {}
             /\ \E t \in AllocPage([TailRefund(s) EXCEPT !.new = {}], bound) :
                LET seg == CHOOSE x \in t.new : TRUE
                    older == IF t.chain = <<>> THEN None ELSE t.chain[Len(t.chain)].page
                    content(b) ==
                        CASE b[1] = "bit" -> b[2] \in t.free
                          [] b[2] = seg -> [kind |-> "seg", txn |-> txn, older |-> older, ids |-> retired]
                          [] OTHER -> TreePage(txn)
                IN /\ tx' = [mode |-> mode, hwm |-> t.hwm,
                             view |-> [txn |-> txn, free |-> t.free,
                                       chain |-> Append(t.chain, [page |-> seg, txn |-> txn])],
                             tree |-> [x \in (DOMAIN tree \ retired) \cup s.new |->
                                          IF x \in s.new THEN txn ELSE tree[x]],
                             writes |-> [b \in {Page(x) : x \in s.new \cup {seg}} \cup {Bit(x) : x \in t.bits} |-> content(b)]]
                   /\ Pwrite(IF t.hwm > cache[Length] THEN Block(Length, t.hwm) ELSE <<>>)
    /\ pc' = [pc EXCEPT ![p] = "step1"]
    /\ UNCHANGED <<locks, seqs, view, anchored, rest, barrier, faults>>

WriteTx(p) ==
    /\ pc[p] = "tx"
    /\ Meta.live.txn < plan.txns
    /\ \E mode \in plan.modes, retired \in SUBSET DOMAIN Meta.live.tree, early \in BOOLEAN :
          Body(p, mode, retired, early)

\* ReclaimFreeSpace's gateAnchorAdvance: rewrite the self-durable meta with the
\* same bytes and fdatasync, so that its own epoch is anchored.
GateGains(p) ==
    /\ SelfDurable(Meta)
    /\ anchored[p] < Meta.dur.txn
    /\ ReclamationBound(p) >= anchored[p]
    /\ view[p].chain # <<>>
    /\ view[p].chain[1].txn \in anchored[p] .. Meta.dur.txn - 1

GateAnchorAdvance(p) ==
    /\ pc[p] = "tx"
    /\ GateGains(p)
    /\ Pwrite(Redirty({Slot(Active)}))
    /\ pc' = [pc EXCEPT ![p] = "gateSync"]
    /\ UNCHANGED <<locks, seqs, view, anchored, tx, rest, barrier, faults>>

GateSync(p) ==
    /\ pc[p] = "gateSync"
    /\ Barrier
    /\ anchored' = [anchored EXCEPT ![p] = Max2(@, Meta.dur.txn)]
    /\ pc' = [pc EXCEPT ![p] = "tx"]
    /\ UNCHANGED <<locks, seqs, view, tx, rest, faults>>

Rollback(p) ==
    /\ pc[p] = "tx"
    /\ pc' = [pc EXCEPT ![p] = "idle"]
    /\ Release
    /\ UNCHANGED <<disk, seqs, view, anchored, rest, barrier, faults>>

\* Step 1: pwrite the dirty pages, then the dirty bitmap pages.
Step1(p) ==
    /\ pc[p] = "step1"
    /\ Pwrite(tx.writes)
    /\ pc' = [pc EXCEPT ![p] = IF tx.mode = "SyncNone" THEN "step3" ELSE "step2"]
    /\ UNCHANGED <<locks, seqs, view, anchored, tx, rest, barrier, faults>>

\* Step 2: fdatasync; it also covers the previous meta's pwrite.
Step2(p) ==
    /\ pc[p] = "step2"
    /\ Barrier
    /\ anchored' = [anchored EXCEPT ![p] = Max2(@, Meta.dur.txn)]
    /\ pc' = [pc EXCEPT ![p] = "step3"]
    /\ UNCHANGED <<locks, seqs, view, tx, rest, faults>>

\* Mutant of NewMeta: a synced commit anchors itself before its meta is synced.
NewMetaOwnAnchor(p) ==
    LET chain == tx.view.chain
        live == [txn |-> tx.view.txn, tree |-> tx.tree, hwm |-> tx.hwm,
                 head |-> chain[Len(chain)].page, headTxn |-> chain[Len(chain)].txn,
                 tail |-> chain[1].page]
    IN [live |-> live,
        dur |-> IF tx.mode = "SyncNone" THEN Meta.dur ELSE live,
        anch |-> IF tx.mode = "SyncNone" THEN anchored[p] ELSE tx.view.txn]

\* buildNewMeta: the anchor is what this handle has already synced.
NewMeta(p) ==
    LET chain == tx.view.chain
        live == [txn |-> tx.view.txn, tree |-> tx.tree, hwm |-> tx.hwm,
                 head |-> chain[Len(chain)].page, headTxn |-> chain[Len(chain)].txn,
                 tail |-> chain[1].page]
    IN [live |-> live,
        dur |-> IF tx.mode = "SyncNone" THEN Meta.dur ELSE live,
        anch |-> anchored[p]]

\* Step 3: the meta goes to the other slot.
Step3(p) ==
    /\ pc[p] = "step3"
    /\ Pwrite(Block(Slot(1 - Active), NewMeta(p)))
    /\ pc' = [pc EXCEPT ![p] = IF tx.mode = "SyncBoth" THEN "step4" ELSE "finish"]
    /\ UNCHANGED <<locks, seqs, view, anchored, tx, rest, barrier, faults>>

\* Step 4: fdatasync of the meta.
Step4(p) ==
    /\ pc[p] = "step4"
    /\ Barrier
    /\ anchored' = [anchored EXCEPT ![p] = Max2(@, Meta.dur.txn)]
    /\ pc' = [pc EXCEPT ![p] = "finish"]
    /\ UNCHANGED <<locks, seqs, view, tx, rest, faults>>

\* maybeShrink, then the commit returns: durable if its mode is SyncBoth.
Finish(p) ==
    /\ pc[p] = "finish"
    /\ LET slack == cache[Length] - tx.hwm
           shrink == ShrinkThreshold # 0 /\ slack >= ShrinkThreshold /\ pin = None
       IN Pwrite(IF shrink
                 THEN Over(Block(Length, tx.hwm),
                           [b \in {Page(x) : x \in tx.hwm + 1 .. cache[Length]} |-> Blank])
                 ELSE <<>>)
    /\ view' = [view EXCEPT ![p] = tx.view]
    /\ acked' = IF tx.mode = "SyncBoth" THEN Version(tx.tree) ELSE acked
    /\ pc' = [pc EXCEPT ![p] = "idle"]
    /\ Release
    /\ UNCHANGED <<seqs, anchored, pin, recovered, barrier, faults>>
-----------------------------------------------------------------------------
(* Checkpoint, and the checkpoint of a clean Close. *)

\* Step 2: fdatasync of everything written so far.
Checkpoint2(p) ==
    /\ pc[p] = "check2"
    /\ Barrier
    /\ anchored' = [anchored EXCEPT ![p] = Max2(@, Meta.dur.txn)]
    /\ pc' = [pc EXCEPT ![p] = "check3"]
    /\ UNCHANGED <<locks, seqs, view, tx, rest, faults>>

\* Step 3: bump the durable sub-record in place, unless it is its own already.
Checkpoint3(p) ==
    /\ pc[p] = "check3"
    /\ Pwrite(IF SelfDurable(Meta) THEN <<>>
              ELSE Block(Slot(Active), [Meta EXCEPT !.dur = Meta.live, !.anch = anchored[p]]))
    /\ pc' = [pc EXCEPT ![p] = "check4"]
    /\ UNCHANGED <<locks, seqs, view, anchored, tx, rest, barrier, faults>>

\* Step 4: fdatasync of the meta; the checkpoint is acknowledged.
Checkpoint4(p) ==
    /\ pc[p] = "check4"
    /\ Barrier
    /\ anchored' = [anchored EXCEPT ![p] = Max2(@, Meta.live.txn)]
    /\ acked' = Version(Meta.live.tree)
    /\ pc' = [pc EXCEPT ![p] = IF job = "close" THEN "closed" ELSE "idle"]
    /\ view' = IF job = "close" THEN [view EXCEPT ![p] = NoView] ELSE view
    /\ Release
    /\ UNCHANGED <<seqs, pin, recovered, faults>>

\* A poisoned handle skips the checkpoint.
ClosePoisoned(p) ==
    /\ pc[p] = "poisoned"
    /\ pc' = [pc EXCEPT ![p] = "closed"]
    /\ UNCHANGED <<disk, locks, seqs, view, anchored, tx, rest, barrier, faults>>
-----------------------------------------------------------------------------
(* Failures. *)

CountFailure == fails < plan.fails /\ fails' = fails + 1 /\ UNCHANGED <<plan, kills, crashes>>

\* In the publication phase a failure poisons the handle and bumps TakeoverSeq.
Poison(p) ==
    /\ pc' = [pc EXCEPT ![p] = IF job = "close" THEN "closed" ELSE "poisoned"]
    /\ covered' = FALSE
    /\ fresh' = {}
    /\ view' = [view EXCEPT ![p] = NoView]
    /\ Release
    /\ CountFailure
    /\ UNCHANGED <<anchored, rest, barrier>>

\* Elsewhere the operation returns the error and the handle stays as it was.
Refuse(p) ==
    /\ pc' = [pc EXCEPT ![p] = IF job = "tx" \/ job = "checkpoint" THEN "idle" ELSE "closed"]
    /\ view' = IF job = "tx" \/ job = "checkpoint" THEN view ELSE [view EXCEPT ![p] = NoView]
    /\ Release
    /\ CountFailure
    /\ UNCHANGED <<seqs, anchored, rest, barrier>>

\* Step 1 stopped on the way: pages go first, then bitmap pages.
Step1Partly ==
    \E done \in SUBSET DOMAIN tx.writes :
        /\ (\E b \in done : b[1] = "bit") => (\A b \in DOMAIN tx.writes : b[1] = "page" => b \in done)
        /\ Pwrite([b \in done |-> tx.writes[b]])

WriteFails(p) ==
    /\ pc[p] \in Failing
    /\ \/ pc[p] = "step1" /\ Step1Partly
       \/ pc[p] = "step3" /\ UNCHANGED disk
       \/ pc[p] = "check3" /\ ~SelfDurable(Meta) /\ UNCHANGED disk
    /\ Poison(p)

SyncFails(p) ==
    /\ pc[p] \in Failing
    /\ FdatasyncFails
    /\ \/ pc[p] \in {"step2", "step4", "check2", "check4"} /\ Poison(p)
       \/ pc[p] \in {"cover", "recoverSync"} /\ Refuse(p)
       \/ /\ pc[p] = "gateSync"
          /\ pc' = [pc EXCEPT ![p] = "tx"]
          /\ CountFailure
          /\ UNCHANGED <<locks, seqs, view, anchored, tx, rest, barrier>>

\* The process dies; a commit step may have written part of its blocks.
Kill(p) ==
    /\ pc[p] # "closed" \/ lastWriter = p
    /\ kills < plan.kills
    /\ kills' = kills + 1
    /\ IF pc[p] = "step1" THEN Step1Partly ELSE UNCHANGED disk
    /\ pc' = [pc EXCEPT ![p] = "closed"]
    /\ view' = [view EXCEPT ![p] = NoView]
    /\ anchored' = [anchored EXCEPT ![p] = 0]
    /\ lastWriter' = IF lastWriter = p THEN None ELSE lastWriter
    /\ IF holder = p
       THEN holder' = None /\ job' = "none" /\ tx' = None /\ deadHolder' = TRUE
       ELSE UNCHANGED <<holder, job, tx, deadHolder>>
    /\ fresh' = fresh \ {p}
    /\ UNCHANGED <<covered, rest, barrier, plan, fails, crashes>>

\* Power is lost: every process is gone, and the lock file starts afresh.
Crash ==
    /\ crashes < plan.crashes
    /\ crashes' = crashes + 1
    /\ \E image \in Images : PowerLoss(image)
    /\ pc' = [p \in Procs |-> "closed"]
    /\ job' = "none" /\ holder' = None /\ deadHolder' = FALSE /\ lastWriter' = None
    /\ covered' = TRUE /\ fresh' = {}
    /\ view' = [p \in Procs |-> NoView]
    /\ anchored' = [p \in Procs |-> 0]
    /\ tx' = None /\ pin' = None
    /\ recovered' = IF recovered = "skipped" THEN "skipped" ELSE "no"
    /\ barrier' = IF barrier = "lost" \/ (barrier = "hollow" /\ Meta' # Meta) THEN "lost" ELSE "whole"
    /\ UNCHANGED <<acked, plan, kills, fails>>
-----------------------------------------------------------------------------
(* A read transaction of another process (module ReaderTable has the        *)
(* details).                                                                *)

\* No recovery has counted a reader that begins now: there has been none since
\* the power loss (a read-only handle; durability.md, "The unrecovered window"),
\* or one has counted the readers and not published its meta yet.
Uncounted ==
    \/ recovered # "yes"
    \/ (\E p \in Procs : pc[p] = "recoverMeta") /\ ~SelfDurable(Meta)

BeginRead ==
    /\ plan.reads
    /\ pin = None
    /\ pin' = [txn |-> Meta.live.txn, tree |-> Meta.live.tree, counted |-> ~Uncounted]
    /\ UNCHANGED <<disk, pc, locks, seqs, view, anchored, tx, recovered, acked, barrier, faults>>

EndRead ==
    /\ pin # None
    /\ pin' = None
    /\ UNCHANGED <<disk, pc, locks, seqs, view, anchored, tx, recovered, acked, barrier, faults>>

Step(p) ==
    \/ OpenGated(p) \/ RecoverMeta(p) \/ RecoverSync(p) \/ OpenLive(p) \/ Opened(p)
    \/ \E for \in {"tx", "checkpoint", "close"} : Begin(p, for)
    \/ CoverSync(p)
    \/ WriteTx(p) \/ GateAnchorAdvance(p) \/ GateSync(p) \/ Rollback(p)
    \/ Step1(p) \/ Step2(p) \/ Step3(p) \/ Step4(p) \/ Finish(p)
    \/ Checkpoint2(p) \/ Checkpoint3(p) \/ Checkpoint4(p) \/ ClosePoisoned(p)
    \/ WriteFails(p) \/ SyncFails(p) \/ Kill(p)

Next == (\E p \in Procs : Step(p)) \/ Crash \/ BeginRead \/ EndRead

Spec == Init /\ [][Next]_vars
-----------------------------------------------------------------------------
\* Every handle outside an operation is without the grant, and the grant's
\* holder is inside one (db.go, tx.go: releaseGrant on every return path).
TypeOK ==
    /\ queued \subseteq FileBlocks
    /\ \A b \in FileBlocks : platter[b] # {}
    /\ holder \in Procs \cup {None}
    /\ \A p \in Procs : pc[p] \in {"closed", "idle", "poisoned"} <=> holder # p
    /\ job \in {"none", "open", "tx", "checkpoint", "close"}
    /\ fresh \subseteq Procs
    /\ \A p \in Procs : anchored[p] \in 0 .. MaxTxn /\ view[p].free \subseteq Pages

Holds(tree) == \A x \in DOMAIN tree : cache[Page(x)] = TreePage(tree[x])

\* What the properties below take for granted.  (1) No writable Open has joined
\* the file live before a recovery: a reader of a read-only handle keeps Open's
\* gate shut (db.go:440); durability.md asks the deployment to open "one writable
\* handle first".  (2) No power loss has taken back a meta over which a hollow
\* barrier had passed (CrashConsistent).
Sound == recovered # "skipped" /\ barrier # "lost"

\* Once a writable Open has succeeded (db.go, openAttempt), the tree that Begin
\* and BeginRead hand out is intact: no page of it is missing, stale or
\* overwritten, whatever died or was rolled back before.
LiveIntact == Sound /\ recovered = "yes" => Holds(Meta.live.tree)

\* The tree a read transaction has pinned stays intact until it ends: neither
\* reclaimRPL nor a recovery (db.go, openAttempt) hands its pages out.  The one
\* exception is a reader no recovery has counted: one that begins between the
\* count (db.go:440) and the meta of a recovery is not seen, and the recovery
\* rolls back the tree it has pinned.
PinIntact == Sound /\ pin # None => (pin.counted => Holds(pin.tree))

\* Whatever crash happened or happens, the tree that RecoverToDurable (init.go)
\* adopts is intact.
DurableIntact == Holds(Meta.dur.tree)

\* RPLChainWalk.Walk (rplwalk.go) never meets, in a file this code wrote, the
\* corruption that makes Open fail with ErrCorrupted.
Openable ==
    Sound =>
        /\ Attach(Meta.dur, Meta.dur.txn).ok
        /\ recovered = "yes" => Attach(Meta.live, Meta.dur.txn).ok

\* A page AllocPage may hand out belongs to no live, durable or pinned tree and
\* is neither a segment nor an entry of the retired-page list, also after an
\* attach that found a half-done reclamation (freespace.go, init.go).  A reader
\* that no recovery has counted (PinIntact) has no such claim.
NoDoubleUse ==
    \A p \in Procs :
        Sound /\ (pc[p] = "tx" \/ (pc[p] = "idle" /\ holder = None /\ Fresh(p) /\ view[p].txn = Meta.live.txn)) =>
            view[p].free \cap
                (DOMAIN Meta.live.tree \cup DOMAIN Meta.dur.tree
                 \cup (IF pin # None /\ pin.counted THEN DOMAIN pin.tree ELSE {})
                 \cup {view[p].chain[i].page : i \in DOMAIN view[p].chain}
                 \cup Entries(view[p].chain)) = {}

\* What a SyncBoth Commit or a Checkpoint acknowledged survives every crash
\* (commit.go step 4; checkpoint.go).
AckedKept == Version(Meta.dur.tree) >= acked

\* What a power loss leaves is an intact tree with every acknowledged commit,
\* whatever mix of page writes reached the disk.  RedirtyAttachedExtent
\* (init.go:632) leaves out the meta slots: "a clean-stale meta slot is
\* superseded by the next commit's alternate-slot pwrite, or a crash falls back
\* to the platter's older valid meta - both consistent".
CrashConsistent == DurableIntact /\ AckedKept

\* The same while the file is Sound.
CrashSafe == Sound => CrashConsistent

\* Open and the cover of a take-over rely on nothing before their barrier.
Attached(p) == pc[p] \notin {"closed", "recoverMeta", "recoverSync", "cover"}

\* The anchored epoch of an attached handle, hence its reclamation bound, never
\* exceeds an epoch some crash could make recovery adopt (commit.go,
\* advanceAnchoredEpoch).
AnchorSurvives ==
    \A p \in Procs, m0 \in platter[Slot(0)], m1 \in platter[Slot(1)] :
        Attached(p) => anchored[p] <= IF ActiveOf(m0, m1) = 1 THEN m1.dur.txn ELSE m0.dur.txn

\* The same, unless the last barrier was hollow: then advanceAnchoredEpoch may
\* have followed a meta that only the page cache has (init.go, the meta slots
\* that RedirtyAttachedExtent leaves out).
AnchorSound == barrier = "whole" => AnchorSurvives

\* Short of a power loss the meta that ActiveMeta selects, its durable epoch and
\* its persisted anchor never move backwards (meta.go, commit.go, checkpoint.go).
EpochsMonotone ==
    [][crashes' = crashes =>
          /\ Meta'.live.txn >= Meta.live.txn
          /\ Meta'.dur.txn >= Meta.dur.txn
          /\ Meta'.anch >= Meta.anch]_vars
=============================================================================
