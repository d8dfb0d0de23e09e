# gmdb: a verification project

gmdb is a memory-mapped, multi-process, embedded key-value store: one file, copy-on-write B+trees, any number of
readers in any number of processes, one writer at a time. This directory models the parts of it whose correctness
depends on interleavings, crashes, lost writes, failed system calls and structural case analysis, checks the models
with TLC on small instances, and proves the central invariants with TLAPS for every instance.

Paths below are relative to `src/`.

## The system

| part | state | operations | what makes it hard | what must hold |
|---|---|---|---|---|
| reader table (`internal/lock/reader.go`, `coord_reader.go`, `read_tx.go`) | slot words in shared memory, a kernel lock per slot, the process's hold set | acquire (two passes), publish, raise, release, oldest-reader scan, reap | no lock covers the table; readers, reapers and the writer's scan interleave at single loads and stores; processes die with slots published | pages of a running snapshot are not reclaimed; a live reader keeps its slot; dead slots do not stay for ever |
| write grant (`internal/lock/coord.go`, `recovery.go`) | file lock, writer record, last-writer record, TakeoverSeq | acquire, hold, release, take over from a dead holder, cancel, close | queue inside the process, file lock between processes, holder death, context cancellation racing a grant | one holder; every request is answered; a dead holder is noticed by everyone |
| commit pipeline (`internal/pager/commit.go`, `meta.go`) | two meta slots, bitmap, retired-page list (RPL), dirty pages | steps 0 to 4 in three sync modes, tail refund, shrink | power loss or death between any two writes; writes reach the disk in any order | a crash recovers an intact, recent enough tree |
| open and recovery (`db.go`, `internal/pager/init.go`, `rplwalk.go`) | the handle's view of meta, bitmap and chain | gate, recovery commit, live join, re-sync at each grant | the bitmap on disk is of no single commit; chain segments were reclaimed, reused, truncated | every file the code can leave behind opens; nothing is handed out twice |
| checkpoint (`checkpoint.go`) | durable sub-record, anchored epoch | bump in place, shutdown checkpoint | races with peers are excluded by the grant; failed fdatasyncs are not | success means durable |
| allocator (`internal/pager/freespace.go`, `internal/bitmap`) | bitmap, loose pages, RPL, high-water mark | allocate, free, reclaim, runs, refund | reclamation is bounded by readers and by what the disk has | free, used and retired pages partition the file |
| savepoints and nested transactions (`internal/pager/savepoint.go`, `nested.go`) | undo records per level | begin child, commit child, roll back | undo is recorded lazily, once per page and level | rollback restores exactly the state at begin |
| handle life cycle (`db.go`, `internal/closegate`, `batch.go`) | closed flag, in-flight count, batch queue | begin, close, leak cleanup, batch | close races with begins, cleanups and the batch goroutine | nothing uses a resource after it is unmapped; close terminates; every batch call is answered once |
| Compact and leak reclamation (`compact.go`, `maintenance.go`, `read_tx.go`, `db.go`) | the inode the path names, DataGeneration, each handle's descriptor and cached generation | copy, rename, bump, re-open; walk a snapshot, reclaim what it did not reach | other processes keep the old file open; every check is a cached value compared with a shared one | no commit goes to a replaced file; nothing is reclaimed by a stale walk |
| notifications (`notify.go`, `internal/lock/notify.go`, `futex_linux.go`) | version words in the lock file, futex sleepers | publish, seed at Open, wait, cancel | lost wake-ups, publishers that die, TxnIDs that Compact restarts, a mapping that Close unmaps | no waiter sleeps through a commit or wakes for one it cannot see |
| B+tree (`internal/btree`, `internal/page`) | pages | put, delete, split, merge, range delete, relocate, cursor moves, overflow and key extents | pages fill by bytes, so merges, redistributions and cascades have many cases | order, balance, content, no page lost or freed twice |
| keyspaces and indexes (`keyspace*.go`, `set_keyspace.go`, `index*.go`) | catalogue, descriptors in memory, index registries and trees, cursors | create, open, delete, row operations, index maintenance, rebuild, drop, child merge, flush | staged until commit, nested in savepoints, every step may fail | indexes agree with rows; an operation happens whole or not at all; the commit flush fits its reserve |
| lock-file life cycle, bulk load, query and typed layers, verification | | | | not modelled, see the end |

## Modules

A write transaction takes the write grant (`Coord`), changes keyspaces and indexes (`Keyspaces`) made of trees
(`BTree`), copies and frees pages in memory (`TxPager`), and publishes them in the steps of the commit (`Durability`,
over the page cache of `PageCache`). What it may reuse is bounded by the reader table (`ReaderTable`) and by the epoch
the disk is known to hold (`Durability`). A handle ties the grant, the transactions, the batch goroutine and Close
together (`Handle`, which extends `Coord`). Several processes meet at the data file that Compact replaces (`DataFile`)
and at the version words a commit raises (`Notify`); `Peers` composes the two where a commit is published, a handle
opens or closes, and a process dies.

| module | code | state | granularity |
|---|---|---|---|
| `ReaderTable` | `internal/lock/reader.go`, `coord_reader.go`, begin and end of `read_tx.go`, the bound of `db.go` | slot words, slot locks, hold sets, `acquireMu`, the program counter of every reader and reaper, the writer's scan | one load, store, try-lock or unlock per action |
| `PageCache` | external: `pwrite`, `fdatasync`, power loss as `internal/pager/fileops.go` relies on them | cached and platter value of each block, which blocks are dirty | one system call |
| `Durability` | `commit.go`, `init.go`, `rplwalk.go`, `freespace.go`, `checkpoint.go`, the grant-side parts of `db.go` and `tx.go` | two meta slots, a bit per page, the pages, the file length; per process its view of bitmap and chain, the anchored epoch; lock-file words | one step of the commit, checkpoint or recovery |
| `Coord` | `internal/lock/coord.go` | flock, writer header, TakeoverSeq, the flock goroutine, the channels of each request, a competing process | one channel operation, store or system call |
| `Handle` | `db.go`, `tx.go`, `read_tx.go`, `checkpoint.go`, `batch.go`, `internal/closegate` | close gate, reference count of the lock-file mapping, callers, readers, batch coordinator, Close | one shared access or blocking call |
| `TxPager` | `internal/pager/freespace.go`, `savepoint.go`, `pager.go`, steps 0 and 1 of `commit.go` | bitmap, high-water mark, chain, the four pending sets, slab, undo log, savepoint stack, file contents | one pager operation (the pager belongs to one goroutine) |
| `DataFile` | `compact.go`, the generation and inode checks of `db.go`, `read_tx.go`, `tx.go`, leak reclamation of `maintenance.go` | the inode the path names, the commits in each inode, DataGeneration, per process its handle, its operation under the grant, its read transaction, its maintenance pass | one shared access, rename or system call |
| `Notify` | `notify.go`, `internal/lock/notify.go`, `futex_linux.go` | version words, the publisher's work list, each waiter, its context, the references on the mapping | one load, store or futex call |
| `Peers` | the places where the two meet | both | |
| `TreePages`, `TreeDelete`, `TreeWalk`, `BTree` | `internal/btree`, the sizes of `internal/page` | the pages of one tree, a cursor | one operation of the tree |
| `OrderedMap` | abstract | a map, a cursor, the last reply | |
| `Forest`, `Indexing`, `Rows`, `IndexReads`, `Keyspaces`, `Catalog` | `keyspace.go`, `keyspace_core.go`, `set_keyspace.go`, `index*.go`, `nested.go`, the flush of `tx.go` | trees by root, the transaction and its child, descriptors and pinned indexes in memory, cursors, the flush reserve | one call of the API, failing at any of its fallible steps or not |
| `KeyspaceStore` | abstract | the committed database, what a transaction and its parent see, the last reply | |

`ReaderTableProofs`, `DurabilityProofs`, `CoordProofs`, `HandleProofs`, `MappingProofs`, `BatchProofs`, `PeersProofs` and
`LeakProofs` hold the proofs.
`MCReaderTable`, `MCDurability`, `MCHandle`, `MCTxPager`,
`MCBTree`, `MCCatalog` and `MCPeers` give the constants their values.

### Abstractions

* **ReaderTable.** The pages a commit retires are one token, named by its TxnID; `reclaimed` is the newest token handed
  out again. Kernel locks belong to file descriptions; `HoldDesc` says through which description a thread locks, which
  is where the byte-range backend (one per process) and the slot-file backend (one per acquisition) differ. Stores
  and loads are sequentially consistent, as Go's `atomic` makes them.
* **PageCache.** A `pwrite` reaches the platter at the next successful `fdatasync`, or at a power loss in any subset of
  dirty blocks. A failed `fdatasync` marks the blocks clean, and whether each was written stays open; the file length,
  which the journal keeps, stays queued.
* **Durability.** A page holds a tree label (the transaction that wrote it) or an RPL segment; a tree is a function
  from pages to labels, so "intact" means that every page still has its label. Each bitmap bit is a block of its own,
  the worst case for torn bitmaps. `pin` is a read transaction of some other process; it may begin in any state.
  Some of the state is history, there for the properties alone: `acked`, the newest version acknowledged as durable;
  `recovered`, whether a writable Open has recovered the file since the last power loss ("yes", "no"), or has joined it
  live without a recovery ("skipped"); `pin.counted`, whether the reader began where a recovery would count it; and
  `barrier`, whether the last successful fdatasync left the active meta on the platter ("whole"), or passed over a meta
  that an earlier failed one had dropped from writeback ("hollow"), and whether a power loss then took that meta back
  ("lost"). `plan` holds the bounds of a behaviour, chosen at the start from `Plans`.
* **Coord, Handle.** A Go `select` is a choice among the actions whose channel is ready. The application keeps the
  contract Close documents ("not safe to call concurrently with active write or batch transactions"): it does not call
  Close while its own Commit is running. Checkpoint, Begin, BeginRead, Batch, open and leaked transactions may overlap
  Close. `missed` is a history variable: a checkpoint that Close overtook has failed with no coordinator left to record
  it. A caller starts no second AcquireWriter while the goroutine still has the request it abandoned. Steps that touch no shared state are merged with a neighbour. The death of a process is modelled for
  the competing one.
* **TxPager.** The bitmap is a set and an allocation may take any free page, which includes the one the hint picks.
  Contents and buffers are numbers chosen fresh, so two places with one number share a buffer. `tree` is what the
  caller has linked, `held` what it has allocated and not yet linked; a savepoint's `tree` is the root its caller goes
  back to. A caller links or frees what it holds before it releases a savepoint or commits (so the documented leak of a
  commit after a failed BulkLoad is left out). `bound` is the set of segments below the reclamation bound.
* **BTree.** Keys are numbers in key order with a length in bytes; a value is its length. Leaves are uncompressed and
  branches plain, the layouts in which the size of a page is the sum of its entries' sizes. Separators are shortened as
  the code shortens them (`ShortestSeparator` over the prefix-closed key set), long keys keep their tail in an extent,
  long values in an overflow run. After an operation the pages are renumbered in preorder, which is sound because the
  code compares page ids only for equality.
* **Catalog.** What a tree's pages hold is the subject of `BTree`; here a tree is one page, so a root id names a tree
  version, as descriptors and registry entries name it. An extractor is a table from value to columns. A failure is
  injected at the n-th fallible step of an operation, for every n it has. `openKeyspaces` and
  `openSetKeyspaces` are one map.
* **Peers.** A commit is a number; `has[i]` are the commits in inode i. `need[p]` and `due[p]` are history variables:
  the commits visible when BeginRead was called, and those a wait promised.

## Refinement

* `BTree` implements `OrderedMap` (`ImplementsMap`): the map is read off the leaves, the cursor is mapped to the key it
  is on. Every put, delete, relocation, lookup and cursor move has the effect and the reply of the map, and so has
  a range delete that succeeds. The one step the map allows beside its own operations is `RefusedRange`: a range delete
  that is refused and changes nothing, only for a range whose two paths part above the leaves' parents (`Parted`); see
  the deviations. A deletion whose rebalanced layout the code fails to write ("lost", `BTreeLost`) has its effect and
  reply compared too, and is the last operation of its behaviour: a later one would work on freed pages.
* `Catalog` implements `KeyspaceStore` (`ImplementsStore`): an operation takes effect whole or not at all, and Commit
  installs what the transaction saw. The refinement variables are computed from the trees, descriptors and indexes.

## Runs

| run | instance | what it shows | distinct states |
|---|---|---|---|
| `ReaderTable` | two threads of a process that may die, each acquisition with a lock description of its own, and another process that writes and reaps; one slot, three commits | `SnapshotIntact`, `PinHeld`; `ResidueReaped` under fairness | 216,678 |
| `Durability` | five plans: one process, six transactions, two power losses; one process, all sync modes; one process, two failures at any pwrite or fdatasync of commit, checkpoint, gate, cover and recovery, a power loss; two processes and a reader, a kill, with a power loss in a file of four pages and without one in a file of five | `LiveIntact`, `CrashSafe` (what a power loss leaves is an intact tree with every acknowledged commit), `Openable`, `AnchorSound`, `NoDoubleUse`, `PinIntact` | 641,984, symmetric |
| `Handle` | one caller, one reader, two batch calls, a competing process, two operations begun in all, Close or collection at any moment | `WriteExclusive`, `TearsSeen`, `MappedInUse`, `CloseDurable`, `BatchTruthful`, `SkipJustified`; `CloseReturns`, `CallsAnswered` under fairness | 339,487 |
| `TxPager` | one transaction, five pages, five page operations, two savepoints of either kind, a slab of one page, failing spills | `Partition`, `TreeIntact`, `CommittedIntact`, `SlabSound`, `CommitFits` | 262,979 |
| `BTree` | nine keys of one and two bytes, three value sizes, pages of six bytes, two operations on trees of three levels built by rising and by falling puts | `WellFormed`, `PagesAccounted`, `FloorReached`, `ImplementsMap` | 31,787 |
| `Catalog` | two names, two keys, three values, a unique and a covering index, three operations of a transaction with a child (two with a cursor or a second keyspace), a failure at each fallible step | `LookupExact`, `Accounted`, `ReserveCovers`, `CursorsTrack`, `NotifyCovers`, `ImplementsStore` | 69,183 |
| `Peers` | two processes in four mixes of writing, reading, compacting, maintenance, waiting, closing, dying; two commits, one Compact, one death | `OneHistory`, `SnapshotFresh`, `LeaksExact`, `WaitTruthful`, `NotifyMapped`, `VersionsRise`; `WaitEnds` under fairness | 341,943 |
| `ReaderShared`, `DurabilityFail`, `DurabilityShrink`, `BTreeLost`, `PeersSplit` | smallest instance that shows the case | the disagreements listed below | until the violation |

Deadlock is not checked: a system whose bounds on transactions, kills or operations are used up has nothing left to
do, and applications may stop. That nobody waits for ever is what the liveness properties say.

`Catalog` runs with `VIEW Observed`, which leaves out the last reply: no action reads it, so two states that differ
in it alone have the same future. The properties about the reply (`ImplementsStore`, `NotifyCovers`) are action
properties, which TLC evaluates on every step it generates and not only on the states it keeps.

### Why the bounds are enough

* **ReaderTable.** One slot forces every conflict between two readers, a reaper and the writer onto it; a second slot
  only lets readers avoid each other. Three commits let a snapshot be chosen, overtaken and restabilized while the
  bound moves past it. The cases of several slots, and of readers in several processes, are
  covered by the theorems.
* **Durability.** A page is retired, pending, reclaimed, reused and needed again after recovery within five commits;
  a file of five pages is the smallest that lets this happen together with segments. Two power losses let recovery meet
  the residue of a recovery. Two failures let the dropped meta of one meet the failed cover or recovery of the next.
  Every bound is a field of a plan, and `Plans` is closed under permutations of the processes, so that the symmetry is
  sound.
* **Handle.** Two operations let a grant be waited for, cancelled, granted and leaked while another is under way. The
  theorems lift the bounds for all but the two liveness properties.
* **TxPager.** Five operations allocate, write, free, allocate again and write again, with both savepoints placed
  anywhere in between. Instances with seven operations and a slab of two pages (3.7 million states), and with four
  operations in each of two transactions (3.6 million), were also run and passed.
* **BTree.** A page of six bytes holds two to five entries, so that every merge, redistribution and split occurs with
  two operations from trees of three levels; two operations let the second meet what the first left below the floor.
* **Catalog.** Two operations and a commit make a staged state and read it back; a third undoes or overwrites it. With a cursor open,
  or with two keyspaces, two operations are allowed. A keyspace with a single index lets a refused drop leave the
  registry empty, which is where its depth is measured too low.
* **Peers.** One Compact and one death meet each other and everything else; two commits tell an old file from a new
  one. The theorems lift the bounds for all but `WaitEnds`.

### Fairness

* `ReaderTable`: weak fairness of each step of a reap and strong fairness of looking at each slot, only for the
  processes with a maintenance goroutine that do not die. The goroutine runs on a ticker for as long as the handle is
  open, and each pass looks at every slot.
* `Handle`: weak fairness of the flock goroutine, the batch goroutine, Close and the steps of calls already made (the
  Go scheduler runs a goroutine that can run); of the application finishing the transactions it has begun, and of the
  competing process giving back its grant (a documented duty of callers). Nobody is required to begin anything.
* `Peers`: weak fairness of the waiting goroutine's own steps and of the end of a futex slice (`WaitGoes`), and of the
  callback of a context that is done (`CancelWake`). Publishers and closers owe nothing: that a lost wake-up ends is due
  to the slice.

## Proofs

The theorems hold for every value of the constants: any number of processes, threads, slots, commits, keyspaces.

### The reader table

`ReaderTableProofs` proves, with processes dying and restarting:

* `TypeCorrect`: `Spec => []TypeOK`, with no assumption on the lock backend.
* `SnapshotSafety`: assuming `DistinctDescriptions`, `Spec => []SnapshotIntact`: no page a running read transaction
  can reach is reclaimed.
* `SlotSafety`: the same for `PinHeld`: a live reader keeps its slot.

`DistinctDescriptions` says that no two threads lock through one description; it holds on the slot-file backend, and
on the byte-range backend when a process runs one read transaction at a time. Without it the property is false
(`ReaderShared`). The other assumptions, named in `ReaderTable`, are facts about the instance: there is a slot, a
description belongs to one process, probes never go through a hold description.

`SnapshotIntact` is not inductive. A reader is safe because the writer's scan either met its pin or the reader began
during the scan, at the latest meta. `IInv` says this (`Scanned`) and what makes the pin reliable: an owner holds
the slot's lock through its own description (`Locked`), so does a reaper about to clear (`Probed`), and the word
carries the pin from the publishing store to the release (`Pinned`). Each action then preserves `IInv`; the cases that
need thought are `ScanSlot` and `Reclaim` (the minimum covers every reader it passed), `Stable` (a reader becomes active
only at the latest meta) and `ReapClear` (it holds the lock, so nobody owns the slot).

### Compact, notifications and several processes

`PeersProofs` proves, with any process compacting, waiting, closing or dying at any moment:

* `HistorySafety`: `OneHistory`, no commit goes to a file Compact has replaced.
* `SnapshotSafety`: `SnapshotFresh`, a read transaction sees every commit that was visible when it was called.
* `WaitSafety`: `WaitTruthful`, a wait that returns a version has a reason to.
* `WordsMonotone`: `VersionsRise`, the version words never fall, although Compact restarts the TxnIDs.
* `MappingSafety`: `NotifyMapped`, no step of a waiter touches the lock file after the last reference is gone.

The first four assume `~RenameMortal`, that no process dies between Compact's rename and the bump of DataGeneration;
with such a death they are false (`PeersSplit`). `MappingSafety` assumes nothing.

The argument is about what a cached generation proves. `Core` says that DataGeneration counts the renames, late by at
most the one whose bump is due (`Counted`); that the file of the path has every commit (`Whole`); that whoever passed
the checks under the grant has the file of the path until its own rename (`Owns`); that a handle whose generation
agrees has all commits (`Current`), and one whose generation disagrees will do so for as long as it is open
(`Outdated`), which is why a read transaction may check after it has pinned (`Reads`). `Telling` adds the words: a word
is at most what the commits justify, whoever is announcing has the grant. `Mapped` counts the references. The actions
that only pass a gate, only release, or only move a local counter share one lemma each (`Passes`, `Releases`, `Moves`,
`Local`), so what remains per action is its effect.

`LeakProofs` proves `LeaksExactAlways` (`LeaksExact`) with no assumption, deaths in the middle of Compact included: a
leak-reclaim pass that its guard lets through frees pages of the file it computed them from, as that file is now. The
guard compares the pager and the TxnID, and Compact restarts the TxnIDs. The invariant `LeakInv` says why the two
identify a file and its commits: while a handle's pager is the one a pass started with, its file is the pass's file
(Compact replaces the pager by one no pass has seen, `PagerOf`), and while that file's TxnID is the one of the pass's
snapshot its commits are the snapshot's (`PassOf`). TLC checked `LeakInv` on an instance with three compactions (18.5
million states).

### Commit, checkpoint and power loss

`DurabilityProofs` is about the two meta pages, for any number of processes, pages and commits, every mix of sync modes,
kills, failing pwrites and power losses:

* `AnchorSoundAlways`: `AnchorSound` and `AnchorSurvives`, the anchored epoch of an attached handle never exceeds an
  epoch that some power loss could make recovery adopt. Reclamation never goes past the anchor, so this is what protects
  the durable tree.
* `AckedAlwaysKept`: `AckedKept`, the conjunct of `CrashSafe` that says that no acknowledged commit is lost.
* `EpochsNeverRegress`: `EpochsMonotone`, short of a power loss the active meta, its durable epoch and its anchor never
  move backwards, whichever process writes next.

They assume `SyncsSucceed`, that no fdatasync fails. Without it `AnchorSurvives` and `AckedKept` are false
(`DurabilityFail`); the run `Durability`, in which fdatasyncs fail, checks `AnchorSound`, which makes an exception for
the anchor that follows a hollow barrier, and `CrashSafe`, which makes one for the power loss after it.

What makes them hard is that a meta page is written in place and may or may not be on the platter, so every statement
is about all pairs of contents the two slots may be left with. `MetaInv` says that whatever a slot may hold is no newer
than the active meta, that the two slots never hold one TxnID, and that a slot with several possible contents is queued
for the next fdatasync (`SlotsOK`). Whichever pair a crash leaves, the winner's durable version is no older than the
last acknowledged one (`VersionKept`), its epoch no older than what an attached handle has anchored (`EpochKept`,
`AnchorOK`) and, once the barrier of a recovery or take-over has passed (`Settled`), no older than the anchor in the
active meta. `HolderOK` and `TxOK` say what the place of the process with the grant implies about the meta it builds
on. A write adds a possible content to one slot, an fdatasync leaves one content per slot, a power loss picks one; a
lemma for each (`Adds`, `Settles`, `Picks`) says what becomes of `EpochKept` and `VersionKept`, and every action is one of
them or leaves the slots alone. TLC checked `MetaInv` on instances with two processes, two kills, write failures and
power losses.

### The handle, the grant and Close

The proofs about `Handle` are for any number of callers, readers, batch calls, clients of the grant, batch sizes,
operations and locks of the other process. Their assumptions (`CoordAssumption`, `HandleAssumption`) say only that the
callers, the batch coordinator and Close are different clients of the grant, that callers and readers are finitely many,
and that a batch holds at least one call.

* `HandleProofs`: `TearsSeenAlways` (`TearsSeen`), `CloseDurableAlways` (`CloseDurable`) and the action property
  `SkipIsJustified` (`SkipJustified`).
* `MappingProofs`: `MappedInUseAlways` (`MappedInUse`) and `WriteExclusiveAlways` (`WriteExclusive`).
* `BatchProofs`: `BatchTruthfulAlways` (`BatchTruthful`).

None of the properties is inductive; the invariants are layered, each proved on top of the one before.

* `GrantInv` (`CoordProofs`) is about the coordinator alone. The flock, the header and the goroutine's place agree
  (`Locked`). As long as the stop channel is open, whoever has the grant, or has it waiting in its result channel, or has
  just released it, is the client the goroutine holds the lock for (`Granted`), and a request being served has a caller
  that still waits (`Served`). `Served` also says what the writer flag means: a call that has, is about to have, or is
  handing back the grant. This is all that Close relies on when it skips its checkpoint. Once the stop channel is closed
  nothing is promised, so Close must not close it while anyone uses the grant.
* `PhaseInv` (`HandleProofs`) ties the places of the callers, the batch coordinator and Close to the grant: a caller with
  a transaction has it; nobody commits behind the closed gate; the batch coordinator has left when Close goes on to
  its checkpoint; the stop channel closes only after that. A lemma for each kind of actor (`CallerMoves`,
  `BatchMoves`, `CloseMoves`, `CoordMoves`) says which part of it a step has to answer for.
* `CheckInv` (`HandleProofs`) is about a Checkpoint that Close overtakes: there is at most one, Close never reports its own
  checkpoint done while it runs, and its failure goes unrecorded only after Close has cleared the handle's pointers.
  This is what the exception in `WriteExclusive`, and the `missed` in `CloseDurable`, rest on.
* `MapInv` (`MappingProofs`) counts: the in-flight count of the close gate is the number of cleanups and readers inside
  it, and the references on the lock-file mapping are those of the read transactions plus the handle's own. A
  reader that passed the gate is inside the window, so Close, which waits for the count to reach zero, cannot have
  gone past it.
* `BatchInv` (`BatchProofs`) says that the closures whose writes are in the parent transaction are the ones in the
  coordinator's list of successes, that their callers still wait, that a call not yet run waits too and has written
  nothing, and that no call is in the batch twice.

`GrantInv`, `PhaseInv`, `MapInv` and `BatchInv` were checked by TLC on the instance of `Handle.cfg` before they were
proved.

### What is only model-checked

* The liveness properties (`ResidueReaped`, `CloseReturns`, `CallsAnswered`, `WaitEnds`): the prover does not handle
  fairness and `ENABLED`.
* Everything about `BTree` and `Catalog`, the two refinements included: trees and their operations are recursive
  definitions, and what a recursive definition computes for every input is proved by induction over data, which is out
  of the prover's reach.
* `Durability`: `Openable`, `NoDoubleUse`, `LiveIntact`, `PinIntact` and the `DurableIntact` half of `CrashSafe` depend
  on which pages recovery finds in the retired-page chain and which pages a body allocates. The walk of the chain is
  recursive and the allocation is a fold over the pages, so both need induction over data.
* `TxPager`: no theorem states its properties yet.

## Disagreements between code and documentation

Five runs end in a violation, each of a statement of the repository; `PROJECT.json` quotes the lines.

1. `ReaderShared`: two threads of a process share a hold description (the byte-range backend). Once a release has
   taken its hold record, another thread of the process can lock the same byte and pin the slot; the release then
   erases that pin and unlocks the byte (`internal/lock/reader.go:251`); violates `PinHeld`.
2. `DurabilityFail`: after a failed fdatasync of a queued meta, the next successful one, of a checkpoint, a cover or a
   recovery, says nothing about that meta, yet the commit is acknowledged and the anchor follows it; a power loss
   takes the meta back (`internal/pager/init.go:633`, `checkpoint.go:159`); violates `CrashConsistent`.
3. `DurabilityShrink`: a lazy commit truncates away a segment that the durable sub-record's chain still names; the
   recovering Open refuses the file (`internal/pager/rplwalk.go:214`).
4. `BTreeLost`: `cousinRebalanceBranch` takes a branch to be unchanged when its cell count and leftmost child are; a
   redistribution between two other children keeps both, and the branch goes on naming two freed pages
   (`internal/btree/delete.go:1170`).
5. `PeersSplit`: a process that dies between Compact's rename and the bump leaves other handles committing to the
   unlinked file (`compact.go:153`).

Deviations the models also reproduce, with the change that shows them:

* **Durability**: a reader that begins between the count of readers (`db.go:440`) and the meta of a recovery is not seen
  by it, and the recovery rolls back the tree it has pinned; `PinIntact` without `counted` fails. A reader of a read-only
  handle in that window keeps the gate shut, so that a writable Open joins a file nobody has recovered (`db.go:463`;
  `durability.md` asks for "one writable handle first"); this is `recovered = "skipped"`, and `LiveIntact` fails
  without it in `Sound`.
* **Handle**: a cancelled Begin leaves `writerHeld` set for a moment, and a Close after it skips its checkpoint
  (`internal/lock/coord.go:423`). `SkipJustified` therefore allows the cancelled request as a reason. A
  Close that finds a Checkpoint of its own handle running gives up its own, stops the coordinator and drops LOCK_EX
  under it (`db.go:925`), although Checkpoint "serialises against any concurrent write tx"; `WriteExclusive` names this
  exception and fails without it.
* **TxPager**: a rolled-back transaction has overwritten the page of an RPL segment that the rollback puts back; the
  segment is later quarantined and its pages leak (`internal/pager/freespace.go:556`). `NoLeak` states the opposite.
* **BTree**: a range delete whose two paths part deep in the tree can return ErrCorrupted on a valid tree
  (`delete.go:1154`; `range-delete.md` calls infeasibility "an accepted-below-floor outcome, never an error"), which
  `OrderedMap` allows as `RefusedRange`; a range delete also leaves branches with one
  child (`range-delete.md:71`, `delete.go:567`) and pages below the floor on the right-hand side, since
  `rebalanceSurvivors` heals only the left one (`range_delete.go:797`).
* **Catalog**: after a refused drop of an index the depth of the registry is measured too low, which
  `index_rebuild.go:175` calls "a safe overcharge"; `ReserveCovers` names this exception (`low`) and bounds
  the pages missing by it (`Shortfall`); it fails without it in five states.
* **Peers**: a BeginRead of the compacting process between `BumpDataGeneration` and the store of its own generation
  poisons its own handle; a BeginRead that races the re-open may fail on a closed file; a crash between the publication
  of the meta and `PublishCommit` loses the notification until the next commit (`notify.go:16`); a commit that fails
  with no classification tells nobody.

Seen while modelling, with no run of their own:

* The recovery gate's comments (`db.go:408`) and `durability.md` say that the reader count reaps stale slots; it only
  scans.
* `AllocContiguous` ignores the error of `reserveBitmapRun` on two paths (`internal/pager/freespace.go:792`, `:810`).
* `failStep` reads `db.coord` twice with no lock (`checkpoint.go:115`, `:121`), while a Close may set it to nil in between.
* A request "observed as denied via stopCh" may still be granted and released again (`internal/lock/coord.go:380`).
* `AbortTx`'s comment says that slab pages are written by the commit only; `SpillExcess` writes them earlier.

## Not modelled

* **Durability**: `relocateRPLPrefix`, loose pages and frees within a transaction (see `TxPager`), commits that retire
  nothing, failing pwrites of the redirty and re-arm passes and of the recovery meta, pages torn in the middle,
  GrowStep and MinSize, the divergent self-durable carrier of recovery.
* **TxPager**: `relocateRPLPrefix`, GrowStep, failing pwrites of WriteDirect and step 1 (the commit's failures are in
  `Durability`), `gateAnchorAdvance` (a refreshed bound stands for it).
* **Handle**: the heartbeat, the maintenance goroutine, the outcome classes of a failed commit.
* **BTree**: compressed leaves and encoded branches, whose sizes are not sums; the byte layout of a page.
* **Catalog**: typed keys and values, the query layer, bulk load; a second nested level.
* **Peers**: Close racing the caller's own transaction or Compact (see `Handle`), `waitNotifyPoll`, read-only handles,
  what the copy of Compact writes.
* The components with status `not_modelled` in `PROJECT.json`: see there for the reasons.
