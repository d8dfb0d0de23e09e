--------------------------- MODULE ReaderTableProofs ---------------------------
(***************************************************************************)
(* Proofs about ReaderTable, for every number of processes, threads, slots *)
(* and transactions.  The hypothesis DistinctDescriptions says that no two *)
(* threads acquire slots through one description: it holds for the         *)
(* slot-file backend, and for the byte-range backend when a process runs   *)
(* one read transaction at a time.                                         *)
(***************************************************************************)
EXTENDS ReaderTable, TLAPS

DistinctDescriptions ==
    \A a, b \in Threads : a # b => HoldDesc[a] # HoldDesc[b]

\* An owner holds its slot's kernel lock through its own description.
Locked ==
    \A th \in Threads : pc[th] \in Owning => slotLock[slot[th]] = HoldDesc[th]

\* A reap that is about to clear or release holds the lock through the probe.
Probed ==
    \A p \in Procs :
        reapPc[p] \in {"clear", "release"} => slotLock[reapSlot[p]] = ProbeDesc[p]

\* The slot carries the pin from the publishing store to the release.
Pinned ==
    \A th \in Threads :
        /\ pc[th] \in {"put", "restabilize", "active"} =>
              slotTxn[slot[th]] = PinValue(snap[th])
        /\ pc[th] \in {"put", "restabilize", "raise", "active"} =>
              slotTxn[slot[th]] # 0

\* A scan starts at slot 0; once it has passed an active reader's slot it has
\* either seen the pin, or the reader began during the scan, at the latest meta.
Scanned ==
    /\ wpc # "scan" => wi = 0
    /\ wpc = "scan" =>
        \A th \in Threads : pc[th] = "active" =>
            \/ slot[th] >= wi
            \/ wmin <= PinValue(snap[th])
            \/ snap[th] = metaTxn

IInv == TypeOK /\ Locked /\ Probed /\ Pinned /\ Scanned /\ SnapshotIntact

USE ZenonT(30), SlotsAssumption, TxnAssumption, ProcAssumption

\* Slot 0 exists, and the scan order stays inside the table.
LEMMA SlotFacts ==
    0 \in Slots /\ \A i \in Slots : NextSlot(i) \in Slots /\ i \in Nat /\ i < NumSlots
BY SMTT(30) DEF Slots, NextSlot

\* The initial state satisfies the inductive invariant.
LEMMA InitIInv == Init => IInv
<1> SUFFICES ASSUME Init PROVE IInv
  OBVIOUS
<1>1. TypeOK
  BY SMTT(30), SlotFacts DEF Init, TypeOK, Steps, NoReaderTxnID
<1>2. QED
  BY <1>1 DEF Init, IInv, Locked, Probed, Pinned, Scanned, SnapshotIntact, Owning

\* Every step preserves the type invariant.
LEMMA NextTypeOK ==
    ASSUME TypeOK, [Next]_vars
    PROVE  TypeOK'
<1> USE SlotFacts DEF TypeOK, Steps, Owning, Descs, NoReaderTxnID, PinValue, vars, kernel, readers, reaper, writer
<1>1. ASSUME NEW th \in Threads, ReadMeta(th) PROVE TypeOK'
  BY <1>1 DEF ReadMeta, Go
<1>2. ASSUME NEW th \in Threads, EnterAcquire(th) PROVE TypeOK'
  BY SMTT(30), <1>2 DEF EnterAcquire, Go
<1>3. ASSUME NEW th \in Threads, TakeSlot(th) PROVE TypeOK'
  BY SMTT(30), <1>3 DEF TakeSlot, Go
<1>4. ASSUME NEW th \in Threads, SkipSlot(th) PROVE TypeOK'
  BY SMTT(30), <1>4 DEF SkipSlot, Go
<1>5. ASSUME NEW th \in Threads, SecondPass(th) PROVE TypeOK'
  BY SMTT(30), <1>5 DEF SecondPass, Go
<1>6. ASSUME NEW th \in Threads, ReadersFull(th) PROVE TypeOK'
  BY <1>6 DEF ReadersFull, Go
<1>7. ASSUME NEW th \in Threads, AfterFull(th) PROVE TypeOK'
  <2>1. UNCHANGED <<slotTxn, kernel, holds, acquireMu, slot, left, reaper, writer>>
    BY <1>7 DEF AfterFull
  <2>2. CASE pc' = [pc EXCEPT ![th] = "acquire"] /\ UNCHANGED snap
    BY <2>1, <2>2
  <2>3. CASE pc' = [pc EXCEPT ![th] = "idle"] /\ snap' = [snap EXCEPT ![th] = 0]
    <3>1. snap' \in [Threads -> 0 .. MaxTxn]
      BY SMTT(30), <2>3
    <3>2. pc' \in [Threads -> Steps]
      BY <2>3
    <3>3. QED
      BY <2>1, <3>1, <3>2
  <2>4. QED
    BY <1>7, <2>2, <2>3 DEF AfterFull, Go
<1>8. ASSUME NEW th \in Threads, Publish(th) PROVE TypeOK'
  BY SMTT(30), <1>8 DEF Publish, Go
<1>9. ASSUME NEW th \in Threads, PutHold(th) PROVE TypeOK'
  BY SMTT(30), <1>9 DEF PutHold, Go
<1>10. ASSUME NEW th \in Threads, Stable(th) PROVE TypeOK'
  BY <1>10 DEF Stable, Go
<1>11. ASSUME NEW th \in Threads, Newer(th) PROVE TypeOK'
  BY <1>11 DEF Newer, Go
<1>12. ASSUME NEW th \in Threads, Raise(th) PROVE TypeOK'
  BY SMTT(30), <1>12 DEF Raise, Go
<1>13. ASSUME NEW th \in Threads, EndRead(th) PROVE TypeOK'
  BY <1>13 DEF EndRead, Go
<1>14. ASSUME NEW th \in Threads, TakeHold(th) PROVE TypeOK'
  BY SMTT(30), <1>14 DEF TakeHold, Go
<1>15. ASSUME NEW th \in Threads, ZeroSlot(th) PROVE TypeOK'
  BY SMTT(30), <1>15 DEF ZeroSlot, Go
<1>16. ASSUME NEW th \in Threads, Unlock(th) PROVE TypeOK'
  BY <1>16 DEF Unlock, Go
<1>17. ASSUME NEW p \in Procs, NEW i \in Slots, ReapCheck(p, i) PROVE TypeOK'
  BY <1>17 DEF ReapCheck
<1>18. ASSUME NEW p \in Procs, ReapProbe(p) PROVE TypeOK'
  BY SMTT(30), <1>18 DEF ReapProbe
<1>19. ASSUME NEW p \in Procs, ReapClear(p) PROVE TypeOK'
  BY SMTT(30), <1>19 DEF ReapClear
<1>20. ASSUME NEW p \in Procs, ReapRelease(p) PROVE TypeOK'
  BY <1>20 DEF ReapRelease
<1>21. ASSUME NEW p \in Procs, Kill(p) PROVE TypeOK'
  BY SMTT(30), <1>21 DEF Kill, Mine
<1>22. ASSUME NEW p \in Procs, Restart(p) PROVE TypeOK'
  BY <1>22 DEF Restart
<1>23. CASE BeginWrite
  BY <1>23 DEF BeginWrite
<1>24. CASE ScanStart
  BY <1>24 DEF ScanStart
<1>25. CASE ScanSlot
  <2>1. wi \in Slots /\ slotTxn[wi] \in 0 .. MaxTxn + 1
    <3>1. wi \in 0 .. NumSlots /\ wi < NumSlots /\ wi' = wi + 1
      BY <1>25 DEF ScanSlot
    <3>2. wi \in Slots
      BY SMTT(30), <3>1 DEF Slots
    <3>3. QED
      BY <3>2
  <2>2. wmin' \in 1 .. MaxTxn + 1 /\ wi' \in 0 .. NumSlots
    BY SMTT(30), <1>25, <2>1 DEF ScanSlot
  <2>3. QED
    BY <1>25, <2>2 DEF ScanSlot
<1>26. CASE Reclaim
  BY SMTT(30), <1>26 DEF Reclaim, ReclamationBound
<1>27. CASE Commit
  BY SMTT(30), <1>27 DEF Commit
<1>28. CASE AbortWrite
  BY <1>28 DEF AbortWrite
<1>29. CASE UNCHANGED vars
  BY <1>29
<1>30. QED
  BY <1>1, <1>2, <1>3, <1>4, <1>5, <1>6, <1>7, <1>8, <1>9, <1>10,
     <1>11, <1>12, <1>13, <1>14, <1>15, <1>16, <1>17, <1>18, <1>19,
     <1>20, <1>21, <1>22, <1>23, <1>24, <1>25, <1>26, <1>27, <1>28,
     <1>29
  DEF Next, ReadStep, AcquireReaderSlot, Restabilize, ReleaseReaderSlot, Reap, ReapOne, Write

\* Every step preserves lock ownership: a try-lock succeeds only on a free lock.
LEMMA NextLocked ==
    ASSUME TypeOK, Locked, Probed, DistinctDescriptions, [Next]_vars
    PROVE  Locked'
<1> USE NoOneAssumption, DescAssumption DEF TypeOK, Locked, Probed, DistinctDescriptions, Owning, TryHold, Candidate, vars, kernel, readers, reaper, writer
<1>1. ASSUME NEW th \in Threads, ReadMeta(th) PROVE Locked'
  BY <1>1 DEF ReadMeta, Go
<1>2. ASSUME NEW th \in Threads, EnterAcquire(th) PROVE Locked'
  BY <1>2 DEF EnterAcquire, Go
<1>3. ASSUME NEW th \in Threads, TakeSlot(th) PROVE Locked'
  BY SMTT(30), <1>3 DEF TakeSlot, Go
<1>4. ASSUME NEW th \in Threads, SkipSlot(th) PROVE Locked'
  BY <1>4 DEF SkipSlot, Go
<1>5. ASSUME NEW th \in Threads, SecondPass(th) PROVE Locked'
  BY <1>5 DEF SecondPass, Go
<1>6. ASSUME NEW th \in Threads, ReadersFull(th) PROVE Locked'
  BY <1>6 DEF ReadersFull, Go
<1>7. ASSUME NEW th \in Threads, AfterFull(th) PROVE Locked'
  BY SMTT(30), <1>7 DEF AfterFull, Go
<1>8. ASSUME NEW th \in Threads, Publish(th) PROVE Locked'
  BY <1>8 DEF Publish, Go
<1>9. ASSUME NEW th \in Threads, PutHold(th) PROVE Locked'
  BY <1>9 DEF PutHold, Go
<1>10. ASSUME NEW th \in Threads, Stable(th) PROVE Locked'
  BY <1>10 DEF Stable, Go
<1>11. ASSUME NEW th \in Threads, Newer(th) PROVE Locked'
  BY <1>11 DEF Newer, Go
<1>12. ASSUME NEW th \in Threads, Raise(th) PROVE Locked'
  BY <1>12 DEF Raise, Go
<1>13. ASSUME NEW th \in Threads, EndRead(th) PROVE Locked'
  BY <1>13 DEF EndRead, Go
<1>14. ASSUME NEW th \in Threads, TakeHold(th) PROVE Locked'
  BY <1>14 DEF TakeHold, Go
<1>15. ASSUME NEW th \in Threads, ZeroSlot(th) PROVE Locked'
  BY <1>15 DEF ZeroSlot, Go
<1>16. ASSUME NEW th \in Threads, Unlock(th) PROVE Locked'
  BY SMTT(30), <1>16 DEF Unlock, Go
<1>17. ASSUME NEW p \in Procs, NEW i \in Slots, ReapCheck(p, i) PROVE Locked'
  BY <1>17 DEF ReapCheck
<1>18. ASSUME NEW p \in Procs, ReapProbe(p) PROVE Locked'
  BY SMTT(30), <1>18 DEF ReapProbe
<1>19. ASSUME NEW p \in Procs, ReapClear(p) PROVE Locked'
  BY <1>19 DEF ReapClear
<1>20. ASSUME NEW p \in Procs, ReapRelease(p) PROVE Locked'
  BY SMTT(30), <1>20 DEF ReapRelease
<1>21. ASSUME NEW p \in Procs, Kill(p) PROVE Locked'
  BY SMTT(30), <1>21 DEF Kill, Mine
<1>22. ASSUME NEW p \in Procs, Restart(p) PROVE Locked'
  BY <1>22 DEF Restart
<1>23. CASE BeginWrite
  BY <1>23 DEF BeginWrite
<1>24. CASE ScanStart
  BY <1>24 DEF ScanStart
<1>25. CASE ScanSlot
  BY <1>25 DEF ScanSlot
<1>26. CASE Reclaim
  BY <1>26 DEF Reclaim, ReclamationBound
<1>27. CASE Commit
  BY <1>27 DEF Commit
<1>28. CASE AbortWrite
  BY <1>28 DEF AbortWrite
<1>29. CASE UNCHANGED vars
  BY <1>29
<1>30. QED
  BY <1>1, <1>2, <1>3, <1>4, <1>5, <1>6, <1>7, <1>8, <1>9, <1>10,
     <1>11, <1>12, <1>13, <1>14, <1>15, <1>16, <1>17, <1>18, <1>19,
     <1>20, <1>21, <1>22, <1>23, <1>24, <1>25, <1>26, <1>27, <1>28,
     <1>29
  DEF Next, ReadStep, AcquireReaderSlot, Restabilize, ReleaseReaderSlot, Reap, ReapOne, Write

\* Every step preserves the reaper's hold on the slot it clears.
LEMMA NextProbed ==
    ASSUME TypeOK, Locked, Probed, DistinctDescriptions, [Next]_vars
    PROVE  Probed'
<1> USE NoOneAssumption, DescAssumption DEF TypeOK, Locked, Probed, DistinctDescriptions, Owning, TryHold, Candidate, vars, kernel, readers, reaper, writer
<1>1. ASSUME NEW th \in Threads, ReadMeta(th) PROVE Probed'
  BY <1>1 DEF ReadMeta, Go
<1>2. ASSUME NEW th \in Threads, EnterAcquire(th) PROVE Probed'
  BY <1>2 DEF EnterAcquire, Go
<1>3. ASSUME NEW th \in Threads, TakeSlot(th) PROVE Probed'
  BY SMTT(30), <1>3 DEF TakeSlot, Go
<1>4. ASSUME NEW th \in Threads, SkipSlot(th) PROVE Probed'
  BY <1>4 DEF SkipSlot, Go
<1>5. ASSUME NEW th \in Threads, SecondPass(th) PROVE Probed'
  BY <1>5 DEF SecondPass, Go
<1>6. ASSUME NEW th \in Threads, ReadersFull(th) PROVE Probed'
  BY <1>6 DEF ReadersFull, Go
<1>7. ASSUME NEW th \in Threads, AfterFull(th) PROVE Probed'
  BY <1>7 DEF AfterFull, Go
<1>8. ASSUME NEW th \in Threads, Publish(th) PROVE Probed'
  BY <1>8 DEF Publish, Go
<1>9. ASSUME NEW th \in Threads, PutHold(th) PROVE Probed'
  BY <1>9 DEF PutHold, Go
<1>10. ASSUME NEW th \in Threads, Stable(th) PROVE Probed'
  BY <1>10 DEF Stable, Go
<1>11. ASSUME NEW th \in Threads, Newer(th) PROVE Probed'
  BY <1>11 DEF Newer, Go
<1>12. ASSUME NEW th \in Threads, Raise(th) PROVE Probed'
  BY <1>12 DEF Raise, Go
<1>13. ASSUME NEW th \in Threads, EndRead(th) PROVE Probed'
  BY <1>13 DEF EndRead, Go
<1>14. ASSUME NEW th \in Threads, TakeHold(th) PROVE Probed'
  BY <1>14 DEF TakeHold, Go
<1>15. ASSUME NEW th \in Threads, ZeroSlot(th) PROVE Probed'
  BY <1>15 DEF ZeroSlot, Go
<1>16. ASSUME NEW th \in Threads, Unlock(th) PROVE Probed'
  BY SMTT(30), <1>16 DEF Unlock, Go
<1>17. ASSUME NEW p \in Procs, NEW i \in Slots, ReapCheck(p, i) PROVE Probed'
  BY <1>17 DEF ReapCheck
<1>18. ASSUME NEW p \in Procs, ReapProbe(p) PROVE Probed'
  BY SMTT(30), <1>18 DEF ReapProbe
<1>19. ASSUME NEW p \in Procs, ReapClear(p) PROVE Probed'
  BY <1>19 DEF ReapClear
<1>20. ASSUME NEW p \in Procs, ReapRelease(p) PROVE Probed'
  BY SMTT(30), <1>20 DEF ReapRelease
<1>21. ASSUME NEW p \in Procs, Kill(p) PROVE Probed'
  BY SMTT(30), <1>21 DEF Kill, Mine
<1>22. ASSUME NEW p \in Procs, Restart(p) PROVE Probed'
  BY <1>22 DEF Restart
<1>23. CASE BeginWrite
  BY <1>23 DEF BeginWrite
<1>24. CASE ScanStart
  BY <1>24 DEF ScanStart
<1>25. CASE ScanSlot
  BY <1>25 DEF ScanSlot
<1>26. CASE Reclaim
  BY <1>26 DEF Reclaim, ReclamationBound
<1>27. CASE Commit
  BY <1>27 DEF Commit
<1>28. CASE AbortWrite
  BY <1>28 DEF AbortWrite
<1>29. CASE UNCHANGED vars
  BY <1>29
<1>30. QED
  BY <1>1, <1>2, <1>3, <1>4, <1>5, <1>6, <1>7, <1>8, <1>9, <1>10,
     <1>11, <1>12, <1>13, <1>14, <1>15, <1>16, <1>17, <1>18, <1>19,
     <1>20, <1>21, <1>22, <1>23, <1>24, <1>25, <1>26, <1>27, <1>28,
     <1>29
  DEF Next, ReadStep, AcquireReaderSlot, Restabilize, ReleaseReaderSlot, Reap, ReapOne, Write

\* Every step preserves the pins: only an owner or a reaper that holds the lock stores to a slot.
LEMMA NextPinned ==
    ASSUME TypeOK, Locked, Probed, Pinned, DistinctDescriptions, [Next]_vars
    PROVE  Pinned'
<1> USE NoOneAssumption, DescAssumption DEF TypeOK, Locked, Probed, Pinned, DistinctDescriptions, Owning, PinValue, vars, kernel, readers, reaper, writer
<1>1. ASSUME NEW th \in Threads, ReadMeta(th) PROVE Pinned'
  BY <1>1 DEF ReadMeta, Go
<1>2. ASSUME NEW th \in Threads, EnterAcquire(th) PROVE Pinned'
  BY SMTT(30), <1>2 DEF EnterAcquire, Go
<1>3. ASSUME NEW th \in Threads, TakeSlot(th) PROVE Pinned'
  BY <1>3 DEF TakeSlot, Go
<1>4. ASSUME NEW th \in Threads, SkipSlot(th) PROVE Pinned'
  BY <1>4 DEF SkipSlot, Go
<1>5. ASSUME NEW th \in Threads, SecondPass(th) PROVE Pinned'
  BY <1>5 DEF SecondPass, Go
<1>6. ASSUME NEW th \in Threads, ReadersFull(th) PROVE Pinned'
  BY <1>6 DEF ReadersFull, Go
<1>7. ASSUME NEW th \in Threads, AfterFull(th) PROVE Pinned'
  BY SMTT(30), <1>7 DEF AfterFull, Go
<1>8. ASSUME NEW th \in Threads, Publish(th) PROVE Pinned'
  BY SMTT(30), <1>8 DEF Publish, Go
<1>9. ASSUME NEW th \in Threads, PutHold(th) PROVE Pinned'
  BY <1>9 DEF PutHold, Go
<1>10. ASSUME NEW th \in Threads, Stable(th) PROVE Pinned'
  BY <1>10 DEF Stable, Go
<1>11. ASSUME NEW th \in Threads, Newer(th) PROVE Pinned'
  BY <1>11 DEF Newer, Go
<1>12. ASSUME NEW th \in Threads, Raise(th) PROVE Pinned'
  BY SMTT(30), <1>12 DEF Raise, Go
<1>13. ASSUME NEW th \in Threads, EndRead(th) PROVE Pinned'
  BY <1>13 DEF EndRead, Go
<1>14. ASSUME NEW th \in Threads, TakeHold(th) PROVE Pinned'
  BY <1>14 DEF TakeHold, Go
<1>15. ASSUME NEW th \in Threads, ZeroSlot(th) PROVE Pinned'
  BY SMTT(30), <1>15 DEF ZeroSlot, Go
<1>16. ASSUME NEW th \in Threads, Unlock(th) PROVE Pinned'
  BY <1>16 DEF Unlock, Go
<1>17. ASSUME NEW p \in Procs, NEW i \in Slots, ReapCheck(p, i) PROVE Pinned'
  BY <1>17 DEF ReapCheck
<1>18. ASSUME NEW p \in Procs, ReapProbe(p) PROVE Pinned'
  BY <1>18 DEF ReapProbe
<1>19. ASSUME NEW p \in Procs, ReapClear(p) PROVE Pinned'
  BY SMTT(30), <1>19 DEF ReapClear
<1>20. ASSUME NEW p \in Procs, ReapRelease(p) PROVE Pinned'
  BY <1>20 DEF ReapRelease
<1>21. ASSUME NEW p \in Procs, Kill(p) PROVE Pinned'
  BY <1>21 DEF Kill, Mine
<1>22. ASSUME NEW p \in Procs, Restart(p) PROVE Pinned'
  BY <1>22 DEF Restart
<1>23. CASE BeginWrite
  BY <1>23 DEF BeginWrite
<1>24. CASE ScanStart
  BY <1>24 DEF ScanStart
<1>25. CASE ScanSlot
  BY <1>25 DEF ScanSlot
<1>26. CASE Reclaim
  BY <1>26 DEF Reclaim, ReclamationBound
<1>27. CASE Commit
  BY <1>27 DEF Commit
<1>28. CASE AbortWrite
  BY <1>28 DEF AbortWrite
<1>29. CASE UNCHANGED vars
  BY <1>29
<1>30. QED
  BY <1>1, <1>2, <1>3, <1>4, <1>5, <1>6, <1>7, <1>8, <1>9, <1>10,
     <1>11, <1>12, <1>13, <1>14, <1>15, <1>16, <1>17, <1>18, <1>19,
     <1>20, <1>21, <1>22, <1>23, <1>24, <1>25, <1>26, <1>27, <1>28,
     <1>29
  DEF Next, ReadStep, AcquireReaderSlot, Restabilize, ReleaseReaderSlot, Reap, ReapOne, Write

\* Every step preserves what a scan knows of the readers it has passed.
LEMMA NextScanned ==
    ASSUME TypeOK, Pinned, Scanned, [Next]_vars
    PROVE  Scanned'
<1> USE DEF TypeOK, Pinned, Scanned, PinValue, Slots, vars, kernel, readers, reaper, writer
<1>1. ASSUME NEW th \in Threads, ReadMeta(th) PROVE Scanned'
  BY <1>1 DEF ReadMeta, Go
<1>2. ASSUME NEW th \in Threads, EnterAcquire(th) PROVE Scanned'
  BY <1>2 DEF EnterAcquire, Go
<1>3. ASSUME NEW th \in Threads, TakeSlot(th) PROVE Scanned'
  BY <1>3 DEF TakeSlot, Go
<1>4. ASSUME NEW th \in Threads, SkipSlot(th) PROVE Scanned'
  BY <1>4 DEF SkipSlot, Go
<1>5. ASSUME NEW th \in Threads, SecondPass(th) PROVE Scanned'
  BY <1>5 DEF SecondPass, Go
<1>6. ASSUME NEW th \in Threads, ReadersFull(th) PROVE Scanned'
  BY <1>6 DEF ReadersFull, Go
<1>7. ASSUME NEW th \in Threads, AfterFull(th) PROVE Scanned'
  BY <1>7 DEF AfterFull, Go
<1>8. ASSUME NEW th \in Threads, Publish(th) PROVE Scanned'
  BY <1>8 DEF Publish, Go
<1>9. ASSUME NEW th \in Threads, PutHold(th) PROVE Scanned'
  BY <1>9 DEF PutHold, Go
<1>10. ASSUME NEW th \in Threads, Stable(th) PROVE Scanned'
  BY <1>10 DEF Stable, Go
<1>11. ASSUME NEW th \in Threads, Newer(th) PROVE Scanned'
  BY <1>11 DEF Newer, Go
<1>12. ASSUME NEW th \in Threads, Raise(th) PROVE Scanned'
  BY <1>12 DEF Raise, Go
<1>13. ASSUME NEW th \in Threads, EndRead(th) PROVE Scanned'
  BY <1>13 DEF EndRead, Go
<1>14. ASSUME NEW th \in Threads, TakeHold(th) PROVE Scanned'
  BY <1>14 DEF TakeHold, Go
<1>15. ASSUME NEW th \in Threads, ZeroSlot(th) PROVE Scanned'
  BY <1>15 DEF ZeroSlot, Go
<1>16. ASSUME NEW th \in Threads, Unlock(th) PROVE Scanned'
  BY <1>16 DEF Unlock, Go
<1>17. ASSUME NEW p \in Procs, NEW i \in Slots, ReapCheck(p, i) PROVE Scanned'
  BY <1>17 DEF ReapCheck
<1>18. ASSUME NEW p \in Procs, ReapProbe(p) PROVE Scanned'
  BY <1>18 DEF ReapProbe
<1>19. ASSUME NEW p \in Procs, ReapClear(p) PROVE Scanned'
  BY <1>19 DEF ReapClear
<1>20. ASSUME NEW p \in Procs, ReapRelease(p) PROVE Scanned'
  BY <1>20 DEF ReapRelease
<1>21. ASSUME NEW p \in Procs, Kill(p) PROVE Scanned'
  BY <1>21 DEF Kill, Mine
<1>22. ASSUME NEW p \in Procs, Restart(p) PROVE Scanned'
  BY <1>22 DEF Restart
<1>23. CASE BeginWrite
  BY <1>23 DEF BeginWrite
<1>24. CASE ScanStart
  BY SMTT(30), <1>24 DEF ScanStart
<1>25. CASE ScanSlot
  <2>1. wi \in Nat /\ wi' = wi + 1 /\ wmin \in Nat /\ wi \in Slots
    BY SMTT(30), <1>25 DEF ScanSlot
  <2>2. slotTxn[wi] \in Nat
    BY SMTT(30), <2>1
  <2>3. wmin' <= wmin /\ (slotTxn[wi] # 0 => wmin' <= slotTxn[wi]) /\ wmin' \in Nat
    BY SMTT(30), <1>25, <2>1, <2>2 DEF ScanSlot
  <2>4. wpc' = wpc /\ pc' = pc /\ slot' = slot /\ snap' = snap /\ metaTxn' = metaTxn /\ wpc = "scan"
    BY <1>25 DEF ScanSlot
  <2>5. ASSUME NEW th \in Threads, pc[th] = "active"
        PROVE  slot[th] >= wi + 1 \/ wmin' <= PinValue(snap[th]) \/ snap[th] = metaTxn
    <3>1. slot[th] \in Nat /\ PinValue(snap[th]) \in Nat
      BY SMTT(30)
    <3>2. CASE slot[th] = wi
      BY <2>3, <2>5, <3>1, <3>2
    <3>3. CASE slot[th] # wi
      <4>1. slot[th] >= wi \/ wmin <= PinValue(snap[th]) \/ snap[th] = metaTxn
        BY <2>4, <2>5 DEF Scanned
      <4>2. slot[th] >= wi => slot[th] >= wi + 1
        BY SMTT(30), <2>1, <3>1, <3>3
      <4>3. wmin <= PinValue(snap[th]) => wmin' <= PinValue(snap[th])
        BY SMTT(30), <2>1, <2>3, <3>1
      <4>4. QED
        BY <4>1, <4>2, <4>3
    <3>4. QED
      BY <3>2, <3>3
  <2>6. QED
    BY <2>1, <2>4, <2>5
<1>26. CASE Reclaim
  BY <1>26 DEF Reclaim, ReclamationBound
<1>27. CASE Commit
  BY <1>27 DEF Commit
<1>28. CASE AbortWrite
  BY <1>28 DEF AbortWrite
<1>29. CASE UNCHANGED vars
  BY <1>29
<1>30. QED
  BY <1>1, <1>2, <1>3, <1>4, <1>5, <1>6, <1>7, <1>8, <1>9, <1>10,
     <1>11, <1>12, <1>13, <1>14, <1>15, <1>16, <1>17, <1>18, <1>19,
     <1>20, <1>21, <1>22, <1>23, <1>24, <1>25, <1>26, <1>27, <1>28,
     <1>29
  DEF Next, ReadStep, AcquireReaderSlot, Restabilize, ReleaseReaderSlot, Reap, ReapOne, Write

\* Every step preserves the active snapshots.
LEMMA NextIntact ==
    ASSUME TypeOK, Pinned, Scanned, SnapshotIntact, [Next]_vars
    PROVE  SnapshotIntact'
<1> USE DEF TypeOK, Pinned, Scanned, SnapshotIntact, PinValue, Slots, vars, kernel, readers, reaper, writer
<1>1. ASSUME NEW th \in Threads, ReadMeta(th) PROVE SnapshotIntact'
  BY <1>1 DEF ReadMeta, Go
<1>2. ASSUME NEW th \in Threads, EnterAcquire(th) PROVE SnapshotIntact'
  BY <1>2 DEF EnterAcquire, Go
<1>3. ASSUME NEW th \in Threads, TakeSlot(th) PROVE SnapshotIntact'
  BY <1>3 DEF TakeSlot, Go
<1>4. ASSUME NEW th \in Threads, SkipSlot(th) PROVE SnapshotIntact'
  BY <1>4 DEF SkipSlot, Go
<1>5. ASSUME NEW th \in Threads, SecondPass(th) PROVE SnapshotIntact'
  BY <1>5 DEF SecondPass, Go
<1>6. ASSUME NEW th \in Threads, ReadersFull(th) PROVE SnapshotIntact'
  BY <1>6 DEF ReadersFull, Go
<1>7. ASSUME NEW th \in Threads, AfterFull(th) PROVE SnapshotIntact'
  BY <1>7 DEF AfterFull, Go
<1>8. ASSUME NEW th \in Threads, Publish(th) PROVE SnapshotIntact'
  BY <1>8 DEF Publish, Go
<1>9. ASSUME NEW th \in Threads, PutHold(th) PROVE SnapshotIntact'
  BY <1>9 DEF PutHold, Go
<1>10. ASSUME NEW th \in Threads, Stable(th) PROVE SnapshotIntact'
  BY SMTT(30), <1>10 DEF Stable, Go
<1>11. ASSUME NEW th \in Threads, Newer(th) PROVE SnapshotIntact'
  BY <1>11 DEF Newer, Go
<1>12. ASSUME NEW th \in Threads, Raise(th) PROVE SnapshotIntact'
  BY <1>12 DEF Raise, Go
<1>13. ASSUME NEW th \in Threads, EndRead(th) PROVE SnapshotIntact'
  BY <1>13 DEF EndRead, Go
<1>14. ASSUME NEW th \in Threads, TakeHold(th) PROVE SnapshotIntact'
  BY <1>14 DEF TakeHold, Go
<1>15. ASSUME NEW th \in Threads, ZeroSlot(th) PROVE SnapshotIntact'
  BY <1>15 DEF ZeroSlot, Go
<1>16. ASSUME NEW th \in Threads, Unlock(th) PROVE SnapshotIntact'
  BY <1>16 DEF Unlock, Go
<1>17. ASSUME NEW p \in Procs, NEW i \in Slots, ReapCheck(p, i) PROVE SnapshotIntact'
  BY <1>17 DEF ReapCheck
<1>18. ASSUME NEW p \in Procs, ReapProbe(p) PROVE SnapshotIntact'
  BY <1>18 DEF ReapProbe
<1>19. ASSUME NEW p \in Procs, ReapClear(p) PROVE SnapshotIntact'
  BY <1>19 DEF ReapClear
<1>20. ASSUME NEW p \in Procs, ReapRelease(p) PROVE SnapshotIntact'
  BY <1>20 DEF ReapRelease
<1>21. ASSUME NEW p \in Procs, Kill(p) PROVE SnapshotIntact'
  BY <1>21 DEF Kill, Mine
<1>22. ASSUME NEW p \in Procs, Restart(p) PROVE SnapshotIntact'
  BY <1>22 DEF Restart
<1>23. CASE BeginWrite
  BY <1>23 DEF BeginWrite
<1>24. CASE ScanStart
  BY <1>24 DEF ScanStart
<1>25. CASE ScanSlot
  BY <1>25 DEF ScanSlot
<1>26. CASE Reclaim
  <2>1. pc' = pc /\ snap' = snap /\ wpc = "scan" /\ wi = NumSlots
    BY <1>26 DEF Reclaim
  <2>2. /\ wmin \in Nat /\ anchored \in Nat /\ reclaimed \in Nat /\ metaTxn \in Nat
        /\ anchored <= metaTxn
    BY SMTT(30)
  <2>3. reclaimed' = reclaimed \/ (reclaimed' < wmin /\ reclaimed' < anchored)
    BY SMTT(30), <1>26, <2>2 DEF Reclaim, ReclamationBound
  <2>4. ASSUME NEW th \in Threads, pc[th] = "active" PROVE reclaimed' <= snap[th]
    <3>1. snap[th] \in Nat /\ slot[th] < NumSlots /\ reclaimed <= snap[th]
      BY SMTT(30), <2>4
    <3>2. wmin <= PinValue(snap[th]) \/ snap[th] = metaTxn
      BY SMTT(30), <2>1, <2>4, <3>1
    <3>3. CASE reclaimed' = reclaimed
      BY <3>1, <3>3
    <3>4. CASE reclaimed' < wmin /\ reclaimed' < anchored /\ reclaimed' # reclaimed
      <4>1. reclaimed' \in Nat
        BY SMTT(30), <1>26, <2>2, <3>4 DEF Reclaim, ReclamationBound
      <4>2. QED
        BY SMTT(30), <2>2, <3>1, <3>2, <3>4, <4>1
    <3>5. QED
      BY <2>3, <3>3, <3>4
  <2>5. QED
    BY <2>1, <2>4
<1>27. CASE Commit
  BY <1>27 DEF Commit
<1>28. CASE AbortWrite
  BY <1>28 DEF AbortWrite
<1>29. CASE UNCHANGED vars
  BY <1>29
<1>30. QED
  BY <1>1, <1>2, <1>3, <1>4, <1>5, <1>6, <1>7, <1>8, <1>9, <1>10,
     <1>11, <1>12, <1>13, <1>14, <1>15, <1>16, <1>17, <1>18, <1>19,
     <1>20, <1>21, <1>22, <1>23, <1>24, <1>25, <1>26, <1>27, <1>28,
     <1>29
  DEF Next, ReadStep, AcquireReaderSlot, Restabilize, ReleaseReaderSlot, Reap, ReapOne, Write

\* The inductive invariant is inductive: each step preserves each part.
LEMMA NextIInv == DistinctDescriptions /\ IInv /\ [Next]_vars => IInv'
BY NextTypeOK, NextLocked, NextProbed, NextPinned, NextScanned, NextIntact DEF IInv

\* It holds throughout every behaviour whose threads have distinct descriptions.
LEMMA Invariance ==
    ASSUME DistinctDescriptions
    PROVE  Spec => []IInv
<1>1. IInv /\ [Next]_vars => IInv'
  BY NextIInv
<1>2. QED
  BY <1>1, InitIInv, PTL DEF Spec

\* The type invariant needs no hypothesis on the descriptions: whatever the
\* backend, slots, pins, pass counters and bounds stay in their ranges.
THEOREM TypeCorrect == Spec => []TypeOK
<1>1. Init => TypeOK
  BY InitIInv DEF IInv
<1>2. TypeOK /\ [Next]_vars => TypeOK'
  BY NextTypeOK
<1>3. QED
  BY <1>1, <1>2, PTL DEF Spec

\* No page of an active reader's snapshot is ever reclaimed, whatever the
\* interleaving of readers, reapers, writers and deaths (BeginRead's
\* restabilization against reclamationBound's lock-free scan).
THEOREM SnapshotSafety ==
    ASSUME DistinctDescriptions
    PROVE  Spec => []SnapshotIntact
<1>1. IInv => SnapshotIntact
  BY DEF IInv
<1>2. QED
  BY <1>1, Invariance, PTL

\* A live reader keeps its slot: its lock, its pin and its exclusive use of it
\* (AcquireReaderSlot's lock-then-store, ReapStaleReaderSlots' probe).
THEOREM SlotSafety ==
    ASSUME DistinctDescriptions
    PROVE  Spec => []PinHeld
<1>1. IInv => PinHeld
  BY SMTT(30) DEF IInv, TypeOK, Locked, Pinned, PinHeld, Owning, DistinctDescriptions
<1>2. QED
  BY <1>1, Invariance, PTL
=============================================================================
