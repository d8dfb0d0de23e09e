----------------------------- MODULE ReaderTable -----------------------------
(***************************************************************************)
(* The reader table of the lock file (internal/lock/reader.go), the begin  *)
(* and end of a read transaction (read_tx.go) and the writer that reclaims *)
(* retired pages by the table's minimum (db.go, reclamationBound).         *)
(*                                                                         *)
(* A slot is a word of shared memory, slotTxn[i] (0 = free), plus a kernel *)
(* lock, slotLock[i].  Locks belong to open file descriptions: a try-lock  *)
(* through description d succeeds when the lock is free or already held    *)
(* through d.  On the byte-range backend (rangeLocks) all acquisitions of  *)
(* one process go through one hold description; on the slot-file backend   *)
(* (fileLocks) each acquisition opens its own.  HoldDesc says which.       *)
(*                                                                         *)
(* Pages are abstracted to the transaction that retired them: the pages    *)
(* retired by commit t belong to the trees of the snapshots before t, and  *)
(* reclaimed is the newest t whose pages were handed back for reuse.       *)
(***************************************************************************)
EXTENDS Naturals

CONSTANTS
    Procs,      \* processes that open the database
    Mortal,     \* those that may die
    Reapers,    \* those with a maintenance goroutine (Options.Maintenance)
    Threads,    \* goroutines that run read transactions
    ProcOf,     \* the process of each thread
    NumSlots,   \* MaxReaders
    MaxTxn,     \* bound on committed transactions
    HoldDesc,   \* the description a thread's tryHold goes through
    ProbeDesc,  \* the description a process's tryProbe goes through
    NoOne       \* no thread, no description

ASSUME SlotsAssumption == NumSlots \in Nat \ {0}
ASSUME TxnAssumption == MaxTxn \in Nat
ASSUME ProcAssumption ==
    ProcOf \in [Threads -> Procs] /\ Mortal \subseteq Procs /\ Reapers \subseteq Procs
ASSUME NoOneAssumption ==
    /\ NoOne \notin Threads
    /\ \A th \in Threads : HoldDesc[th] # NoOne
    /\ \A p \in Procs : ProbeDesc[p] # NoOne
\* A description belongs to one process, and no probe goes through a hold
\* description (reader.go, slotLocks).
ASSUME DescAssumption ==
    /\ \A a, b \in Threads : HoldDesc[a] = HoldDesc[b] => ProcOf[a] = ProcOf[b]
    /\ \A p, q \in Procs : ProbeDesc[p] = ProbeDesc[q] => p = q
    /\ \A th \in Threads, p \in Procs : HoldDesc[th] # ProbeDesc[p]

Slots == 0 .. NumSlots - 1
Descs == {HoldDesc[th] : th \in Threads} \cup {ProbeDesc[p] : p \in Procs}
\* OldestReaderTxnID's empty-table sentinel: above every TxnID.
NoReaderTxnID == MaxTxn + 1

VARIABLES
    slotTxn,    \* [Slots -> TxnID], shared memory
    slotLock,   \* [Slots -> description or NoOne], kernel
    alive,      \* processes running
    holds,      \* [Procs -> SUBSET Slots], File.holds
    acquireMu,  \* [Procs -> thread or NoOne], File.acquireMu
    pc,         \* [Threads -> where its read transaction is]
    snap,       \* [Threads -> TxnID of the meta it last read]
    slot,       \* [Threads -> candidate, then owned slot]
    left,       \* [Threads -> slots left in this acquisition pass]
    reapPc,     \* [Procs -> where its ReapStaleReaderSlots is]
    reapSlot,   \* [Procs -> the slot it looks at]
    metaTxn,    \* TxnID of the latest meta in the data file
    wpc,        \* the write transaction, if any
    wi,         \* next slot of the writer's bound scan
    wmin,       \* minimum it has seen
    anchored,   \* the writer's anchored epoch
    reclaimed   \* newest TxnID whose retired pages were reclaimed

kernel == <<slotLock, alive>>
readers == <<holds, acquireMu, pc, snap, slot, left>>
reaper == <<reapPc, reapSlot>>
writer == <<metaTxn, wpc, wi, wmin, anchored, reclaimed>>
vars == <<slotTxn, kernel, readers, reaper, writer>>

\* Where a thread owns its slot: from the successful try-lock to the unlock.
Owning ==
    {"publish", "put", "restabilize", "raise", "active", "take", "zero", "unlock"}
Steps == {"idle", "acquire", "pass1", "pass2", "full", "dead"} \cup Owning

Init ==
    /\ slotTxn = [i \in Slots |-> 0]
    /\ slotLock = [i \in Slots |-> NoOne]
    /\ alive = Procs
    /\ holds = [p \in Procs |-> {}]
    /\ acquireMu = [p \in Procs |-> NoOne]
    /\ pc = [th \in Threads |-> "idle"]
    /\ snap = [th \in Threads |-> 0]
    /\ slot = [th \in Threads |-> 0]
    /\ left = [th \in Threads |-> 0]
    /\ reapPc = [p \in Procs |-> "idle"]
    /\ reapSlot = [p \in Procs |-> 0]
    /\ metaTxn = 0
    /\ wpc = "idle"
    /\ wi = 0
    /\ wmin = NoReaderTxnID
    /\ anchored = 0
    /\ reclaimed = 0
-----------------------------------------------------------------------------
(* The read transaction. *)

Go(th, from, to) == pc[th] = from /\ pc' = [pc EXCEPT ![th] = to]

\* A slot holds 0 when free, so the genesis snapshot is pinned as 1.
PinValue(txn) == IF txn = 0 THEN 1 ELSE txn

NextSlot(i) == IF i = NumSlots - 1 THEN 0 ELSE i + 1

\* The meta is read before the slot is visible.
ReadMeta(th) ==
    /\ Go(th, "idle", "acquire")
    /\ snap' = [snap EXCEPT ![th] = metaTxn]
    /\ UNCHANGED <<slotTxn, kernel, holds, acquireMu, slot, left, reaper, writer>>

\* The hint may name any slot: it is the last one this process acquired.
EnterAcquire(th) ==
    /\ acquireMu[ProcOf[th]] = NoOne
    /\ Go(th, "acquire", "pass1")
    /\ acquireMu' = [acquireMu EXCEPT ![ProcOf[th]] = th]
    /\ \E hint \in Slots : slot' = [slot EXCEPT ![th] = hint]
    /\ left' = [left EXCEPT ![th] = NumSlots]
    /\ UNCHANGED <<slotTxn, kernel, holds, snap, reaper, writer>>

TryHold(th, i) == slotLock[i] \in {NoOne, HoldDesc[th]}

\* Pass one tries only slots that read free, pass two every slot.
Candidate(th) ==
    /\ left[th] > 0
    /\ slot[th] \notin holds[ProcOf[th]]
    /\ pc[th] = "pass1" => slotTxn[slot[th]] = 0

TakeSlot(th) ==
    /\ pc[th] \in {"pass1", "pass2"}
    /\ Candidate(th)
    /\ TryHold(th, slot[th])
    /\ slotLock' = [slotLock EXCEPT ![slot[th]] = HoldDesc[th]]
    /\ pc' = [pc EXCEPT ![th] = "publish"]
    /\ left' = [left EXCEPT ![th] = 0]
    /\ UNCHANGED <<slotTxn, alive, holds, acquireMu, snap, slot, reaper, writer>>

\* Occupied, own, busy or undecided: never stolen, on to the next slot.
SkipSlot(th) ==
    /\ pc[th] \in {"pass1", "pass2"}
    /\ left[th] > 0
    /\ ~(Candidate(th) /\ TryHold(th, slot[th]))
    /\ slot' = [slot EXCEPT ![th] = NextSlot(slot[th])]
    /\ left' = [left EXCEPT ![th] = @ - 1]
    /\ UNCHANGED <<slotTxn, kernel, holds, acquireMu, pc, snap, reaper, writer>>

SecondPass(th) ==
    /\ left[th] = 0
    /\ Go(th, "pass1", "pass2")
    /\ left' = [left EXCEPT ![th] = NumSlots]
    /\ UNCHANGED <<slotTxn, kernel, holds, acquireMu, snap, slot, reaper, writer>>

ReadersFull(th) ==
    /\ left[th] = 0
    /\ Go(th, "pass2", "full")
    /\ acquireMu' = [acquireMu EXCEPT ![ProcOf[th]] = NoOne]
    /\ slot' = [slot EXCEPT ![th] = 0]
    /\ UNCHANGED <<slotTxn, kernel, holds, snap, left, reaper, writer>>

\* With a deadline the acquisition is retried for the meta already read;
\* without one BeginRead fails.
AfterFull(th) ==
    /\ \/ Go(th, "full", "acquire") /\ UNCHANGED snap
       \/ Go(th, "full", "idle") /\ snap' = [snap EXCEPT ![th] = 0]
    /\ UNCHANGED <<slotTxn, kernel, holds, acquireMu, slot, left, reaper, writer>>

Publish(th) ==
    /\ Go(th, "publish", "put")
    /\ slotTxn' = [slotTxn EXCEPT ![slot[th]] = PinValue(snap[th])]
    /\ UNCHANGED <<kernel, holds, acquireMu, snap, slot, left, reaper, writer>>

PutHold(th) ==
    /\ Go(th, "put", "restabilize")
    /\ holds' = [holds EXCEPT ![ProcOf[th]] = @ \cup {slot[th]}]
    /\ acquireMu' = [acquireMu EXCEPT ![ProcOf[th]] = NoOne]
    /\ UNCHANGED <<slotTxn, kernel, snap, slot, left, reaper, writer>>

\* Mutant of Stable: the meta is not read again after the slot is visible.
StableUnread(th) ==
    /\ Go(th, "restabilize", "active")
    /\ UNCHANGED <<slotTxn, kernel, holds, acquireMu, snap, slot, left, reaper, writer>>

\* The re-read returns the snapshot's own TxnID: the snapshot stands.
Stable(th) ==
    /\ metaTxn = snap[th]
    /\ Go(th, "restabilize", "active")
    /\ UNCHANGED <<slotTxn, kernel, holds, acquireMu, snap, slot, left, reaper, writer>>

\* A newer meta: adopt it, raise the pin and look again.
Newer(th) ==
    /\ metaTxn # snap[th]
    /\ Go(th, "restabilize", "raise")
    /\ snap' = [snap EXCEPT ![th] = metaTxn]
    /\ UNCHANGED <<slotTxn, kernel, holds, acquireMu, slot, left, reaper, writer>>

\* After the raise a cancelled context or a closing handle gives up.
Raise(th) ==
    /\ pc[th] = "raise"
    /\ slotTxn' = [slotTxn EXCEPT ![slot[th]] = PinValue(snap[th])]
    /\ \E next \in {"restabilize", "take"} : pc' = [pc EXCEPT ![th] = next]
    /\ UNCHANGED <<kernel, holds, acquireMu, snap, slot, left, reaper, writer>>

EndRead(th) ==
    /\ Go(th, "active", "take")
    /\ UNCHANGED <<slotTxn, kernel, holds, acquireMu, snap, slot, left, reaper, writer>>

\* ReleaseReaderSlot: forget the hold, zero the slot, drop the lock; with no
\* hold on record it does nothing.  It does not take acquireMu.
TakeHold(th) ==
    /\ Go(th, "take", IF slot[th] \in holds[ProcOf[th]] THEN "zero" ELSE "idle")
    /\ holds' = [holds EXCEPT ![ProcOf[th]] = @ \ {slot[th]}]
    /\ snap' = [snap EXCEPT ![th] = 0]
    /\ UNCHANGED <<slotTxn, kernel, acquireMu, slot, left, reaper, writer>>

ZeroSlot(th) ==
    /\ Go(th, "zero", "unlock")
    /\ slotTxn' = [slotTxn EXCEPT ![slot[th]] = 0]
    /\ UNCHANGED <<kernel, holds, acquireMu, snap, slot, left, reaper, writer>>

\* The unlock releases the range for the whole description.
Unlock(th) ==
    /\ Go(th, "unlock", "idle")
    /\ slotLock' = [slotLock EXCEPT ![slot[th]] = IF @ = HoldDesc[th] THEN NoOne ELSE @]
    /\ slot' = [slot EXCEPT ![th] = 0]
    /\ UNCHANGED <<slotTxn, alive, holds, acquireMu, snap, left, reaper, writer>>

AcquireReaderSlot(th) ==
    EnterAcquire(th) \/ TakeSlot(th) \/ SkipSlot(th) \/ SecondPass(th)
        \/ ReadersFull(th) \/ AfterFull(th) \/ Publish(th) \/ PutHold(th)
Restabilize(th) == Stable(th) \/ Newer(th) \/ Raise(th)
ReleaseReaderSlot(th) == TakeHold(th) \/ ZeroSlot(th) \/ Unlock(th)
-----------------------------------------------------------------------------
(* ReapStaleReaderSlots, one slot at a time under reapMu. *)

\* Mutant of ReapCheck: the loop stops one slot short.
ReapCheckShort(p, i) ==
    /\ p \in alive \cap Reapers
    /\ reapPc[p] = "idle"
    /\ i + 1 < NumSlots
    /\ slotTxn[i] # 0
    /\ i \notin holds[p]
    /\ reapSlot' = [reapSlot EXCEPT ![p] = i]
    /\ reapPc' = [reapPc EXCEPT ![p] = "probe"]
    /\ UNCHANGED <<slotTxn, kernel, readers, writer>>

ReapCheck(p, i) ==
    /\ p \in alive \cap Reapers
    /\ reapPc[p] = "idle"
    /\ slotTxn[i] # 0
    /\ i \notin holds[p]
    /\ reapSlot' = [reapSlot EXCEPT ![p] = i]
    /\ reapPc' = [reapPc EXCEPT ![p] = "probe"]
    /\ UNCHANGED <<slotTxn, kernel, readers, writer>>

\* Mutant of ReapProbe: a busy probe counts as a stale verdict.
ReapProbeBusy(p) ==
    /\ reapPc[p] = "probe"
    /\ reapPc' = [reapPc EXCEPT ![p] = "clear"]
    /\ UNCHANGED <<slotTxn, kernel, readers, reapSlot, writer>>

ReapProbe(p) ==
    /\ reapPc[p] = "probe"
    /\ IF slotLock[reapSlot[p]] \in {NoOne, ProbeDesc[p]}
       THEN /\ slotLock' = [slotLock EXCEPT ![reapSlot[p]] = ProbeDesc[p]]
            /\ reapPc' = [reapPc EXCEPT ![p] = "clear"]
            /\ UNCHANGED reapSlot
       ELSE /\ reapPc' = [reapPc EXCEPT ![p] = "idle"]
            /\ reapSlot' = [reapSlot EXCEPT ![p] = 0]
            /\ UNCHANGED slotLock
    /\ UNCHANGED <<slotTxn, alive, readers, writer>>

ReapClear(p) ==
    /\ reapPc[p] = "clear"
    /\ slotTxn' = [slotTxn EXCEPT ![reapSlot[p]] = 0]
    /\ reapPc' = [reapPc EXCEPT ![p] = "release"]
    /\ UNCHANGED <<kernel, readers, reapSlot, writer>>

ReapRelease(p) ==
    /\ reapPc[p] = "release"
    /\ slotLock' = [slotLock EXCEPT ![reapSlot[p]] = NoOne]
    /\ reapPc' = [reapPc EXCEPT ![p] = "idle"]
    /\ reapSlot' = [reapSlot EXCEPT ![p] = 0]
    /\ UNCHANGED <<slotTxn, alive, readers, writer>>

ReapOne(p) == ReapProbe(p) \/ ReapClear(p) \/ ReapRelease(p)
Reap(p) == (\E i \in Slots : ReapCheck(p, i)) \/ ReapOne(p)
-----------------------------------------------------------------------------
(* The write transaction, under the write grant: one at a time. *)

BeginWrite ==
    /\ wpc = "idle"
    /\ wpc' = "tx"
    /\ UNCHANGED <<slotTxn, kernel, readers, reaper, metaTxn, wi, wmin, anchored, reclaimed>>

\* OldestReaderTxnID: one atomic load per slot, in order, no lock.
ScanStart ==
    /\ wpc = "tx"
    /\ wpc' = "scan"
    /\ UNCHANGED <<slotTxn, kernel, readers, reaper, metaTxn, wi, wmin, anchored, reclaimed>>

ScanSlot ==
    /\ wpc = "scan"
    /\ wi < NumSlots
    /\ wmin' = IF slotTxn[wi] # 0 /\ slotTxn[wi] < wmin THEN slotTxn[wi] ELSE wmin
    /\ wi' = wi + 1
    /\ UNCHANGED <<slotTxn, kernel, readers, reaper, metaTxn, wpc, anchored, reclaimed>>

\* min(oldestActiveReaderTxnID, anchoredEpoch)
ReclamationBound == IF wmin < anchored THEN wmin ELSE anchored

\* reclaimRPL frees every segment whose TxnID is below the bound.
Reclaim ==
    /\ wpc = "scan"
    /\ wi = NumSlots
    /\ wpc' = "tx"
    /\ reclaimed' = IF ReclamationBound > reclaimed + 1
                    THEN ReclamationBound - 1 ELSE reclaimed
    /\ wi' = 0
    /\ wmin' = NoReaderTxnID
    /\ UNCHANGED <<slotTxn, kernel, readers, reaper, metaTxn, anchored>>

\* The meta is published; how far the commit moves the anchored epoch depends
\* on its sync mode.
Commit ==
    /\ wpc = "tx"
    /\ metaTxn < MaxTxn
    /\ metaTxn' = metaTxn + 1
    /\ \E a \in anchored .. metaTxn + 1 : anchored' = a
    /\ wpc' = "idle"
    /\ UNCHANGED <<slotTxn, kernel, readers, reaper, wi, wmin, reclaimed>>

AbortWrite ==
    /\ wpc = "tx"
    /\ wpc' = "idle"
    /\ UNCHANGED <<slotTxn, kernel, readers, reaper, metaTxn, wi, wmin, anchored, reclaimed>>

Write == BeginWrite \/ ScanStart \/ ScanSlot \/ Reclaim \/ Commit \/ AbortWrite
-----------------------------------------------------------------------------
(* A process dies: the kernel drops its locks, the slot words stay. *)

Mine(p) == {th \in Threads : ProcOf[th] = p}

Kill(p) ==
    /\ p \in alive \cap Mortal
    /\ alive' = alive \ {p}
    /\ slotLock' = [i \in Slots |->
          IF slotLock[i] \in {HoldDesc[th] : th \in Mine(p)} \cup {ProbeDesc[p]}
          THEN NoOne ELSE slotLock[i]]
    /\ pc' = [th \in Threads |-> IF ProcOf[th] = p THEN "dead" ELSE pc[th]]
    /\ holds' = [holds EXCEPT ![p] = {}]
    /\ acquireMu' = [acquireMu EXCEPT ![p] = NoOne]
    /\ reapPc' = [reapPc EXCEPT ![p] = "idle"]
    /\ reapSlot' = [reapSlot EXCEPT ![p] = 0]
    /\ snap' = [th \in Threads |-> IF ProcOf[th] = p THEN 0 ELSE snap[th]]
    /\ slot' = [th \in Threads |-> IF ProcOf[th] = p THEN 0 ELSE slot[th]]
    /\ left' = [th \in Threads |-> IF ProcOf[th] = p THEN 0 ELSE left[th]]
    /\ UNCHANGED <<slotTxn, writer>>

Restart(p) ==
    /\ p \notin alive
    /\ alive' = alive \cup {p}
    /\ pc' = [th \in Threads |-> IF ProcOf[th] = p THEN "idle" ELSE pc[th]]
    /\ UNCHANGED <<slotTxn, slotLock, holds, acquireMu, snap, slot, left, reaper, writer>>

ReadStep(th) ==
    ReadMeta(th) \/ AcquireReaderSlot(th) \/ Restabilize(th) \/ EndRead(th)
        \/ ReleaseReaderSlot(th)

Next ==
    \/ \E th \in Threads : ReadStep(th)
    \/ \E p \in Procs : Reap(p) \/ Kill(p) \/ Restart(p)
    \/ Write

Spec == Init /\ [][Next]_vars

\* The maintenance goroutine of a process that stays up runs a reap every
\* interval and a reap visits every slot; no reader, writer or death is fair.
FairSpec ==
    /\ Spec
    /\ \A p \in Reapers \ Mortal :
          /\ WF_vars(ReapOne(p))
          /\ \A i \in Slots : SF_vars(ReapCheck(p, i))
-----------------------------------------------------------------------------
TypeOK ==
    /\ slotTxn \in [Slots -> 0 .. MaxTxn + 1]
    /\ slotLock \in [Slots -> Descs \cup {NoOne}]
    /\ alive \subseteq Procs
    /\ holds \in [Procs -> SUBSET Slots]
    /\ acquireMu \in [Procs -> Threads \cup {NoOne}]
    /\ pc \in [Threads -> Steps]
    /\ snap \in [Threads -> 0 .. MaxTxn]
    /\ slot \in [Threads -> Slots]
    /\ left \in [Threads -> 0 .. NumSlots]
    /\ reapPc \in [Procs -> {"idle", "probe", "clear", "release"}]
    /\ reapSlot \in [Procs -> Slots]
    /\ metaTxn \in 0 .. MaxTxn
    /\ wpc \in {"idle", "tx", "scan"}
    /\ wi \in 0 .. NumSlots
    /\ wmin \in 1 .. MaxTxn + 1
    /\ anchored \in 0 .. metaTxn
    /\ reclaimed \in 0 .. metaTxn

\* A reader that has begun reads a tree none of whose pages were reclaimed:
\* pages retired by a commit newer than its snapshot stay retired
\* (read_tx.go, snapshot restabilization; db.go, reclamationBound).
SnapshotIntact ==
    \A th \in Threads : pc[th] = "active" => reclaimed <= snap[th]

\* A live reader's slot is its own: it holds the lock and the slot carries its
\* pin, so neither a reap nor a second acquisition, of another process or of
\* another goroutine, can take it away.  That is what ReleaseReaderSlot says of
\* its order, "the slot is observably free before it is claimable", and what
\* RaiseReaderSlotTxnID relies on, "trivially exclusive by the held slot lock".
\* It holds where every acquisition has a description of its own (fileLocks);
\* where a process shares one (rangeLocks) a release that has given up its hold
\* and not yet cleared the slot meets an acquisition of the same process.
PinHeld ==
    \A th \in Threads : pc[th] \in {"restabilize", "raise", "active"} =>
        /\ slotLock[slot[th]] = HoldDesc[th]
        /\ slotTxn[slot[th]] # 0
        /\ pc[th] = "active" => slotTxn[slot[th]] = PinValue(snap[th])
        /\ \A o \in Threads \ {th} : pc[o] \in Owning => slot[o] # slot[th]

\* A slot left behind by a dead process does not hold back reclamation for
\* ever: it is cleared, or taken by a new reader, as long as the process with
\* the maintenance goroutine stays up (maintenance.go, task 2).
ResidueReaped ==
    \A i \in Slots :
        (slotTxn[i] # 0 /\ slotLock[i] = NoOne)
            ~> (slotTxn[i] = 0 \/ \E th \in Threads : slotLock[i] = HoldDesc[th])
=============================================================================
