---------------------------- MODULE HandleProofs ----------------------------
(***************************************************************************)
(* Proofs about Handle, for any number of callers, readers, batch calls    *)
(* and clients of the grant, with any number of operations and of locks of *)
(* the other process.                                                      *)
(***************************************************************************)
EXTENDS Handle, CoordProofs, FiniteSetTheorems, SequenceTheorems

CallerPcs == {"idle", "begin", "beginCheckpoint", "acquire", "acquireCheckpoint", "tx", "commit",
              "checkpoint", "refused", "leaked", "leakEntered", "leakWork"}
BatchPcs == {"off", "recv", "collect", "run", "acquire", "closures", "commit", "exit"}
BatchStates == [pc : BatchPcs, calls : Seq(BatchCalls), next : Nat \ {0}, ok : SUBSET BatchCalls]
ClosePcs == {"open", "stopBatch", "waitBatch", "drain", "shutdown", "acquire", "checkpoint",
             "nil", "gcDrain", "stop", "waitSrv", "done"}

PhaseType ==
    /\ pc \in [Callers -> CallerPcs] /\ batch \in BatchStates /\ cl \in ClosePcs
    /\ bpc \in [BatchCalls -> {"idle", "send", "wait"} \cup Replies]
    /\ closed \in BOOLEAN /\ nilled \in BOOLEAN /\ batchClosed \in BOOLEAN /\ lazy \in BOOLEAN

\* A caller with a transaction has the grant, and commits only while the
\* handle is open; one that has nothing asks for nothing.
Holding == {"tx", "commit", "checkpoint", "refused", "leaked", "leakEntered", "leakWork"}
CallerPhase(t) ==
    /\ pc[t] \in Holding => call[t] = "grant"
    /\ pc[t] \in {"begin", "beginCheckpoint"} \/ (pc[t] = "idle" /\ ~closed) => call[t] = "none"
    /\ pc[t] = "commit" => ~closed

\* The batch coordinator has the grant from its closures to its commit, and
\* is out of the way once Close has waited for it, or the handle was dropped.
Before == {"open", "stopBatch", "waitBatch"}
BatchPhase ==
    /\ batch.pc \in {"closures", "commit"} => call["batch"] = "grant"
    /\ batch.pc \notin {"acquire", "closures", "commit"} => call["batch"] \in {"none"} \cup Denied
    /\ outcome = "leaked" => /\ batch.pc \in {"off", "recv", "exit"}
                             /\ \A b \in BatchCalls : bpc[b] # "send"
    /\ outcome # "leaked" /\ cl \notin {"open", "stopBatch"} => batchClosed
    /\ outcome # "leaked" /\ cl \notin Before => batch.pc \in {"off", "exit"}

\* Close goes through its steps in order.
ClosePhase ==
    /\ closed <=> cl # "open"
    /\ stopCh <=> cl \in {"waitSrv", "done"}
    /\ nilled => cl \in {"stop", "waitSrv", "done"}
    /\ cl \in Before \cup {"drain", "shutdown", "gcDrain"} => call["close"] = "none"
    /\ cl = "checkpoint" => call["close"] = "grant"
    /\ cl = "done" => srv.pc = "exit"
    /\ outcome = "leaked" => cl \in {"gcDrain", "stop", "waitSrv", "done"}
    /\ outcome = "ok" => ~lazy /\ cl \in {"nil", "stop", "waitSrv", "done"}

PhaseInv ==
    GrantInv /\ PhaseType /\ (\A t \in Callers : CallerPhase(t)) /\ BatchPhase /\ ClosePhase

-----------------------------------------------------------------------------
USE ZenonT(30)

\* The handle has just been opened.
LEMMA PhaseInit == Init => PhaseInv
<1> SUFFICES ASSUME Init PROVE PhaseInv
    OBVIOUS
<1>1. GrantInv
      BY GrantInit DEF Init
<1>2. PhaseType
  <2>1. << >> \in Seq(BatchCalls) /\ 1 \in Nat \ {0}
        BY SMTT(30)
  <2>2. NoBatch \in BatchStates
        BY <2>1 DEF NoBatch, BatchStates, BatchPcs
  <2>3. batch \in BatchStates
        BY <2>2 DEF Init, BatchStates, BatchPcs
  <2> QED BY <2>3 DEF Init, PhaseType, CallerPcs, ClosePcs
<1>3. \A t \in Callers : CallerPhase(t)
      BY HandleAssumption DEF Init, CoordInit, CallerPhase, Holding
<1>4. BatchPhase
  <2>1. batch.pc = "off"
        BY SMTT(30) DEF Init, NoBatch
  <2> QED BY <2>1, HandleAssumption DEF Init, CoordInit, BatchPhase
<1>5. ClosePhase
      BY HandleAssumption DEF Init, CoordInit, ClosePhase, Before
<1> QED BY <1>1, <1>2, <1>3, <1>4, <1>5 DEF PhaseInv

\* Steps that leave the phases alone.
LEMMA PhaseStutter ==
    ASSUME PhaseInv, UNCHANGED <<coordVars, closed, nilled, lazy, pc, batch, batchClosed, bpc,
                                 cl, outcome>>
    PROVE  PhaseInv'
<1>1. GrantInv'
      BY GrantStutter DEF PhaseInv
<1>2. UNCHANGED <<call, stopCh, srv>>
      BY DEF coordVars
<1>3. PhaseType' /\ (\A t \in Callers : CallerPhase(t)')
      BY <1>2 DEF PhaseInv, PhaseType, CallerPhase
<1>4. BatchPhase' /\ ClosePhase'
      BY <1>2 DEF PhaseInv, BatchPhase, ClosePhase
<1> QED BY <1>1, <1>3, <1>4 DEF PhaseInv

\* A step of one caller has to answer for that caller alone.
LEMMA CallerMoves ==
    ASSUME PhaseInv, GrantInv', NEW t \in Callers, NEW l \in CallerPcs,
           pc' = [pc EXCEPT ![t] = l], CallerPhase(t)',
           \A d \in Clients \ {t} : call'[d] = call[d],
           stopCh' = stopCh, srv.pc = "exit" => srv'.pc = "exit",
           lazy' \in BOOLEAN, lazy' \in {FALSE, lazy} \/ ~closed,
           UNCHANGED <<closed, nilled, batch, batchClosed, bpc, cl, outcome>>
    PROVE  PhaseInv'
<1>0. PhaseType /\ BatchPhase /\ ClosePhase
      BY DEF PhaseInv
<1>1. PhaseType'
      BY <1>0 DEF PhaseType
<1>2. ASSUME NEW s \in Callers PROVE CallerPhase(s)'
  <2>1. CASE s = t
        BY <2>1
  <2>2. CASE s # t
    <3>1. CallerPhase(s) /\ call'[s] = call[s] /\ pc'[s] = pc[s]
          BY <1>0, <2>2, HandleAssumption DEF PhaseInv, PhaseType
    <3> QED BY <3>1 DEF CallerPhase
  <2> QED BY <2>1, <2>2
<1>3. call'["batch"] = call["batch"] /\ call'["close"] = call["close"]
      BY HandleAssumption
<1>4. BatchPhase'
      BY <1>0, <1>3 DEF BatchPhase
<1>5. ClosePhase'
      BY <1>0, <1>3 DEF ClosePhase
<1> QED BY <1>1, <1>2, <1>4, <1>5 DEF PhaseInv

\* A step of the batch coordinator has to answer for the batch alone.
LEMMA BatchMoves ==
    ASSUME PhaseInv, GrantInv', \A d \in Clients \ {"batch"} : call'[d] = call[d],
           stopCh' = stopCh, srv.pc = "exit" => srv'.pc = "exit",
           batch' \in BatchStates, bpc' \in [BatchCalls -> {"idle", "send", "wait"} \cup Replies],
           lazy' \in BOOLEAN, lazy' = lazy \/ cl \in Before, BatchPhase',
           UNCHANGED <<closed, nilled, pc, batchClosed, cl, outcome>>
    PROVE  PhaseInv'
<1>0. PhaseType /\ ClosePhase
      BY DEF PhaseInv
<1>1. PhaseType'
      BY <1>0 DEF PhaseType
<1>2. ASSUME NEW s \in Callers PROVE CallerPhase(s)'
  <2>1. CallerPhase(s) /\ call'[s] = call[s]
        BY HandleAssumption DEF PhaseInv
  <2> QED BY <2>1 DEF CallerPhase
<1>3. ClosePhase'
  <2>1. call'["close"] = call["close"]
        BY HandleAssumption
  <2> QED BY <1>0, <2>1 DEF ClosePhase, Before
<1> QED BY <1>1, <1>2, <1>3 DEF PhaseInv

\* A batch that is under way is so before Close has waited for it.
LEMMA BatchWorks ==
    ASSUME PhaseInv, GrantInv', \A d \in Clients \ {"batch"} : call'[d] = call[d],
           stopCh' = stopCh, srv.pc = "exit" => srv'.pc = "exit",
           batch' \in BatchStates, bpc' \in [BatchCalls -> {"idle", "send", "wait"} \cup Replies],
           lazy' \in BOOLEAN, batch.pc \notin {"off", "recv", "exit"},
           batch'.pc \in {"closures", "commit"} => call'["batch"] = "grant",
           batch'.pc \notin {"acquire", "closures", "commit"} => call'["batch"] \in {"none"} \cup Denied,
           UNCHANGED <<closed, nilled, pc, batchClosed, cl, outcome>>
    PROVE  PhaseInv'
<1>1. outcome # "leaked" /\ cl \in Before /\ (cl \notin {"open", "stopBatch"} => batchClosed)
      BY DEF PhaseInv, BatchPhase
<1>2. BatchPhase'
      BY <1>1 DEF BatchPhase
<1> QED BY <1>1, <1>2, BatchMoves

\* A step of Close keeps the callers in their phases.
LEMMA CloseMoves ==
    ASSUME PhaseInv, GrantInv', \A d \in Callers : call'[d] = call[d],
           cl' \in ClosePcs, closed' \in BOOLEAN, nilled' \in BOOLEAN, batchClosed' \in BOOLEAN,
           lazy' \in BOOLEAN, closed' = closed \/ (closed' /\ ~Committing),
           BatchPhase', ClosePhase', UNCHANGED <<pc, batch, bpc>>
    PROVE  PhaseInv'
<1>1. PhaseType'
      BY DEF PhaseInv, PhaseType
<1>2. ASSUME NEW s \in Callers PROVE CallerPhase(s)'
  <2>1. CallerPhase(s) /\ call'[s] = call[s]
        BY DEF PhaseInv
  <2> QED BY <2>1 DEF CallerPhase, Committing
<1> QED BY <1>1, <1>2 DEF PhaseInv

\* A step of the coordinator or of the other process.
LEMMA CoordMoves ==
    ASSUME PhaseInv, CoordSteps, UNCHANGED handleVars
    PROVE  PhaseInv'
<1>0. GrantInv
      BY DEF PhaseInv
<1>1. /\ GrantInv' /\ stopCh' = stopCh /\ (srv.pc = "exit" => srv'.pc = "exit")
      /\ \A d \in Clients : call[d] \notin {"send", "wait", "drain"} => call'[d] = call[d]
  <2>1. CASE \E c \in Clients : CallSteps(c)
        BY <1>0, <2>1, CallsStep DEF CallSteps
  <2>2. CASE Peer
        BY <1>0, <2>2, PeerSteps
  <2>3. CASE Srv \/ SrvFail
        BY <1>0, <2>3, SrvIdles, SrvGrants, SrvLets DEF Srv
  <2> QED BY <2>1, <2>2, <2>3 DEF CoordSteps
<1>2. UNCHANGED <<closed, nilled, lazy, pc, batch, batchClosed, bpc, cl, outcome>>
      BY DEF handleVars, gateVars, batchVars, closeVars
<1>3. PhaseType'
      BY <1>2 DEF PhaseInv, PhaseType
<1>4. \A t \in Callers : CallerPhase(t)'
      BY <1>1, <1>2, HandleAssumption DEF PhaseInv, CallerPhase
<1>5. BatchPhase'
      BY <1>1, <1>2, HandleAssumption DEF PhaseInv, BatchPhase, Denied
<1>6. ClosePhase'
      BY <1>1, <1>2, HandleAssumption DEF PhaseInv, ClosePhase
<1> QED BY <1>1, <1>3, <1>4, <1>5, <1>6 DEF PhaseInv

\* What no step of a caller touches.
Beside == UNCHANGED <<closed, nilled, batch, batchClosed, bpc, cl, outcome>>

\* A caller that leaves the grant alone.
LEMMA CallerWalks ==
    ASSUME PhaseInv, NEW t \in Callers, NEW l \in CallerPcs, UNCHANGED coordVars, lazy' = lazy,
           pc' = [pc EXCEPT ![t] = l], Beside,
           l \in Holding => pc[t] \in Holding \/ call[t] = "grant",
           l \in {"begin", "beginCheckpoint"} => call[t] = "none",
           l = "idle" => closed,
           l = "commit" => ~closed
    PROVE  PhaseInv'
<1>1. GrantInv' /\ UNCHANGED <<call, stopCh, srv>>
      BY GrantStutter DEF PhaseInv, coordVars
<1>2. pc'[t] = l /\ CallerPhase(t) /\ lazy \in BOOLEAN
      BY DEF PhaseInv, PhaseType
<1>3. CallerPhase(t)'
      BY <1>1, <1>2 DEF CallerPhase, Beside, Holding
<1> QED BY <1>1, <1>2, <1>3, CallerMoves DEF Beside

\* A caller that is done gives the grant back.
LEMMA CallerEnds ==
    ASSUME PhaseInv, NEW t \in Callers, call[t] = "grant", pc' = [pc EXCEPT ![t] = "idle"], Beside,
           Release(t) \/ (Tear /\ ReleaseTorn(t)), lazy' \in BOOLEAN,
           lazy' \in {FALSE, lazy} \/ ~closed
    PROVE  PhaseInv'
<1>0. t \in Clients /\ GrantInv
      BY HandleAssumption DEF PhaseInv
<1>1. /\ release' = release \cup {t} /\ writerHeld' = FALSE /\ call' = [call EXCEPT ![t] = "none"]
      /\ UNCHANGED <<undone, lockVars, peerLocks, dataGeneration, srv, stopCh, result, ctxDone>>
      /\ UNCHANGED <<tears, takeovers>> \/ (tears' = tears + 1 /\ takeovers' = takeovers + 1)
      BY DEF Release, ReleaseTorn, Tear, peerVars
<1>2. GrantInv'
      BY <1>0, <1>1, GivesBack
<1>3. call'[t] = "none" /\ (\A d \in Clients \ {t} : call'[d] = call[d]) /\ pc'[t] = "idle"
      BY <1>0, <1>1 DEF PhaseInv, PhaseType, GrantInv, CoordTypeOK
<1>4. CallerPhase(t)'
      BY <1>3 DEF CallerPhase, Holding
<1>5. "idle" \in CallerPcs
      BY DEF CallerPcs
<1> QED BY <1>1, <1>2, <1>3, <1>4, <1>5, CallerMoves DEF Beside

\* Begin, Checkpoint, Commit, Rollback and the cleanup of a leaked
\* transaction.
LEMMA PhaseCaller ==
    ASSUME PhaseInv, NEW t \in Callers, Caller(t)
    PROVE  PhaseInv'
<1>0. t \in Clients /\ CallerPhase(t) /\ GrantInv /\ closed \in BOOLEAN /\ lazy \in BOOLEAN
      BY HandleAssumption DEF PhaseInv, PhaseType
<1> USE DEF Goto, others, batchVars, closeVars, gateVars
<1>1. CASE BeginAcquire(t)
  <2>1. /\ Beside /\ lazy' = lazy /\ AcquireWriter(t) /\ pc[t] \in {"begin", "beginCheckpoint"}
        /\ \E l \in {"acquire", "acquireCheckpoint"} : pc' = [pc EXCEPT ![t] = l]
        BY <1>1 DEF BeginAcquire, Beside
  <2>2. PICK l \in {"acquire", "acquireCheckpoint"} : pc' = [pc EXCEPT ![t] = l]
        BY <2>1
  <2>3. GrantInv'
        BY <1>0, <2>1, Acquires DEF CallerPhase
  <2>4. /\ \A d \in Clients \ {t} : call'[d] = call[d]
        /\ UNCHANGED <<stopCh, srv>> /\ pc'[t] = l
        BY <1>0, <2>1, <2>2 DEF AcquireWriter, PhaseInv, PhaseType, GrantInv, CoordTypeOK
  <2>5. CallerPhase(t)' /\ l \in CallerPcs
        BY <2>4 DEF CallerPhase, Holding, CallerPcs
  <2> QED BY <1>0, <2>1, <2>2, <2>3, <2>4, <2>5, CallerMoves DEF Beside
<1>2. CASE BeginRefused(t)
  <2>1. Beside /\ lazy' = lazy /\ Return(t) /\ pc' = [pc EXCEPT ![t] = "idle"]
        BY <1>2 DEF BeginRefused, Beside
  <2>2. GrantInv'
        BY <1>0, <2>1, Returns
  <2>3. /\ call'[t] = "none" /\ \A d \in Clients \ {t} : call'[d] = call[d]
        /\ UNCHANGED <<stopCh, srv>> /\ pc'[t] = "idle"
        BY <1>0, <2>1 DEF Return, PhaseInv, PhaseType, GrantInv, CoordTypeOK
  <2>4. CallerPhase(t)' /\ "idle" \in CallerPcs
        BY <2>3 DEF CallerPhase, Holding, CallerPcs
  <2> QED BY <1>0, <2>1, <2>2, <2>3, <2>4, CallerMoves DEF Beside
<1>3. CASE BeginGranted(t)
  <2>1. /\ Beside /\ lazy' = lazy /\ call[t] = "grant"
        /\ \/ /\ UNCHANGED coordVars /\ ~closed
              /\ \E l \in {"tx", "checkpoint"} : pc' = [pc EXCEPT ![t] = l]
           \/ Release(t) /\ pc' = [pc EXCEPT ![t] = "idle"]
        BY <1>3 DEF BeginGranted, GrantChecks, Usable, Beside
  <2>2. CASE Release(t) /\ pc' = [pc EXCEPT ![t] = "idle"]
        BY <1>0, <2>1, <2>2, CallerEnds
  <2>3. CASE /\ UNCHANGED coordVars /\ ~closed
             /\ \E l \in {"tx", "checkpoint"} : pc' = [pc EXCEPT ![t] = l]
    <3>1. PICK l \in {"tx", "checkpoint"} : pc' = [pc EXCEPT ![t] = l]
          BY <2>3
    <3>2. l \in CallerPcs /\ l \notin {"begin", "beginCheckpoint", "idle"}
          BY DEF CallerPcs
    <3> QED BY <2>1, <2>3, <3>1, <3>2, CallerWalks
  <2> QED BY <2>1, <2>2, <2>3
<1>4. CASE Commit(t)
  <2>1. /\ Beside /\ lazy' = lazy /\ UNCHANGED coordVars /\ pc[t] = "tx"
        /\ pc' = [pc EXCEPT ![t] = IF closed THEN "refused" ELSE "commit"]
        BY <1>4 DEF Commit, Beside
  <2>2. pc[t] \in Holding
        BY <2>1 DEF Holding
  <2>3. CASE closed
    <3>1. pc' = [pc EXCEPT ![t] = "refused"] /\ "refused" \in CallerPcs
          BY <2>1, <2>3 DEF CallerPcs
    <3> QED BY <2>1, <2>2, <3>1, CallerWalks
  <2>4. CASE ~closed
    <3>1. pc' = [pc EXCEPT ![t] = "commit"] /\ "commit" \in CallerPcs
          BY <2>1, <2>4 DEF CallerPcs
    <3> QED BY <2>1, <2>2, <2>4, <3>1, CallerWalks
  <2> QED BY <2>3, <2>4
<1>5. CASE CommitEnd(t) \/ CheckpointEnd(t)
  <2>1. /\ Beside /\ pc[t] \in {"commit", "checkpoint"} /\ pc' = [pc EXCEPT ![t] = "idle"]
        /\ Release(t) \/ (Tear /\ ReleaseTorn(t))
        /\ lazy' \in {FALSE, lazy} \/ (lazy' = TRUE /\ pc[t] = "commit")
        BY <1>5 DEF CommitEnd, CheckpointEnd, Publish, PublishTorn, Beside
  <2>2. call[t] = "grant" /\ (pc[t] = "commit" => ~closed) /\ lazy' \in BOOLEAN
        BY <1>0, <2>1 DEF CallerPhase, Holding
  <2> QED BY <2>1, <2>2, CallerEnds
<1>6. CASE Rollback(t)
  <2>1. Beside /\ lazy' = lazy /\ Release(t) /\ pc' = [pc EXCEPT ![t] = "idle"] /\ call[t] = "grant"
        BY <1>0, <1>6 DEF Rollback, Beside, CallerPhase, Holding
  <2> QED BY <1>0, <2>1, CallerEnds
<1>7. CASE Leak(t)
  <2>1. /\ Beside /\ lazy' = lazy /\ UNCHANGED coordVars /\ pc[t] \in Holding
        /\ pc' = [pc EXCEPT ![t] = "leaked"] /\ "leaked" \in CallerPcs
        BY <1>7 DEF Leak, Beside, Holding, CallerPcs
  <2> QED BY <2>1, CallerWalks
<1>8. CASE CleanupEnter(t)
  <2>1. /\ Beside /\ lazy' = lazy /\ UNCHANGED coordVars /\ pc[t] \in Holding
        /\ pc' = [pc EXCEPT ![t] = "leakEntered"] /\ "leakEntered" \in CallerPcs
        BY <1>8 DEF CleanupEnter, Beside, Holding, CallerPcs
  <2> QED BY <2>1, CallerWalks
<1>9. CASE CleanupCheck(t)
  <2>1. /\ Beside /\ lazy' = lazy /\ UNCHANGED coordVars /\ pc[t] \in Holding
        /\ \/ closed /\ pc' = [pc EXCEPT ![t] = "idle"]
           \/ pc' = [pc EXCEPT ![t] = "leakWork"]
        /\ "idle" \in CallerPcs /\ "leakWork" \in CallerPcs
        BY <1>9 DEF CleanupCheck, Beside, Holding, CallerPcs
  <2>2. CASE closed /\ pc' = [pc EXCEPT ![t] = "idle"]
        BY <2>1, <2>2, CallerWalks
  <2>3. CASE pc' = [pc EXCEPT ![t] = "leakWork"]
        BY <2>1, <2>3, CallerWalks
  <2> QED BY <2>1, <2>2, <2>3
<1>10. CASE CleanupRelease(t)
  <2>1. Beside /\ lazy' = lazy /\ Release(t) /\ pc' = [pc EXCEPT ![t] = "idle"] /\ call[t] = "grant"
        BY <1>0, <1>10 DEF CleanupRelease, Beside, CallerPhase, Holding
  <2> QED BY <1>0, <2>1, CallerEnds
<1> QED BY <1>1, <1>2, <1>3, <1>4, <1>5, <1>6, <1>7, <1>8, <1>9, <1>10 DEF Caller

\* The batch's record, part by part.
LEMMA BatchGoes ==
    ASSUME batch \in BatchStates, NEW x \in BatchPcs, batch' = [batch EXCEPT !.pc = x]
    PROVE  /\ batch' \in BatchStates /\ batch'.pc = x /\ batch'.calls = batch.calls
           /\ batch'.next = batch.next /\ batch'.ok = batch.ok
<1>1. batch' \in BatchStates
      BY DEF BatchStates
<1>2. batch'.pc = x /\ batch'.calls = batch.calls /\ batch'.next = batch.next /\ batch'.ok = batch.ok
      BY SMTT(30) DEF BatchStates
<1> QED BY <1>1, <1>2

\* The coordinator is ready for the next batch.
LEMMA NoBatchParts ==
    /\ NoBatch \in BatchStates /\ NoBatch.pc = "recv" /\ NoBatch.calls = << >>
    /\ NoBatch.next = 1 /\ NoBatch.ok = {}
<1>1. << >> \in Seq(BatchCalls) /\ 1 \in Nat \ {0}
      BY SMTT(30)
<1>2. NoBatch \in BatchStates
      BY <1>1 DEF NoBatch, BatchStates, BatchPcs
<1> QED BY <1>2 DEF NoBatch

\* A call joins the batch.
LEMMA BatchJoins ==
    ASSUME batch \in BatchStates, NEW x \in BatchPcs, NEW b \in BatchCalls,
           batch' = [batch EXCEPT !.calls = Append(batch.calls, b), !.pc = x]
    PROVE  /\ batch' \in BatchStates /\ batch'.pc = x /\ batch'.calls = Append(batch.calls, b)
           /\ batch'.next = batch.next /\ batch'.ok = batch.ok
<1>1. Append(batch.calls, b) \in Seq(BatchCalls)
      BY SMTT(30) DEF BatchStates
<1>2. batch' \in BatchStates
      BY <1>1 DEF BatchStates
<1>3. /\ batch'.pc = x /\ batch'.calls = Append(batch.calls, b)
      /\ batch'.next = batch.next /\ batch'.ok = batch.ok
      BY SMTT(30) DEF BatchStates
<1> QED BY <1>2, <1>3

\* A closure has run, in vain or not.
LEMMA BatchAdvances ==
    ASSUME batch \in BatchStates, NEW s \in SUBSET BatchCalls,
           \/ batch' = [batch EXCEPT !.next = @ + 1] /\ s = {}
           \/ batch' = [batch EXCEPT !.next = @ + 1, !.ok = @ \cup s]
    PROVE  /\ batch' \in BatchStates /\ batch'.pc = batch.pc /\ batch'.calls = batch.calls
           /\ batch'.next = batch.next + 1 /\ batch'.ok = batch.ok \cup s
<1>1. batch.next + 1 \in Nat \ {0} /\ batch.ok \cup s \in SUBSET BatchCalls
      BY SMTT(30) DEF BatchStates
<1>2. CASE batch' = [batch EXCEPT !.next = @ + 1] /\ s = {}
  <2>1. batch' \in BatchStates
        BY <1>1, <1>2 DEF BatchStates
  <2>2. /\ batch'.pc = batch.pc /\ batch'.calls = batch.calls
        /\ batch'.next = batch.next + 1 /\ batch'.ok = batch.ok \cup s
        BY SMTT(30), <1>2 DEF BatchStates
  <2> QED BY <2>1, <2>2
<1>3. CASE batch' = [batch EXCEPT !.next = @ + 1, !.ok = @ \cup s]
  <2>1. batch' \in BatchStates
        BY <1>1, <1>3 DEF BatchStates
  <2>2. /\ batch'.pc = batch.pc /\ batch'.calls = batch.calls
        /\ batch'.next = batch.next + 1 /\ batch'.ok = batch.ok \cup s
        BY SMTT(30), <1>3 DEF BatchStates
  <2> QED BY <2>1, <2>2
<1> QED BY <1>2, <1>3

\* Answers are replies.
LEMMA ReplyType ==
    ASSUME PhaseType, NEW bs, NEW x \in Replies, Reply(bs, x)
    PROVE  bpc' \in [BatchCalls -> {"idle", "send", "wait"} \cup Replies]
BY DEF PhaseType, Reply

\* What no step of the batch coordinator touches.
Apart == UNCHANGED <<closed, nilled, pc, batchClosed, cl, outcome>>

\* A batch that leaves the grant alone.
LEMMA BatchWalks ==
    ASSUME PhaseInv, UNCHANGED coordVars, lazy' = lazy, Apart,
           batch' \in BatchStates, bpc' \in [BatchCalls -> {"idle", "send", "wait"} \cup Replies],
           batch.pc \notin {"off", "recv", "exit"},
           batch'.pc \in {"closures", "commit"} => call["batch"] = "grant",
           batch'.pc \notin {"acquire", "closures", "commit"} => call["batch"] \in {"none"} \cup Denied
    PROVE  PhaseInv'
<1>1. GrantInv' /\ UNCHANGED <<call, stopCh, srv>> /\ lazy \in BOOLEAN
      BY GrantStutter DEF PhaseInv, PhaseType, coordVars
<1> QED BY <1>1, BatchWorks DEF Apart

\* A batch that is over gives the grant back.
LEMMA BatchEnds ==
    ASSUME PhaseInv, call["batch"] = "grant", batch' = NoBatch, Apart,
           batch.pc \notin {"off", "recv", "exit"},
           bpc' \in [BatchCalls -> {"idle", "send", "wait"} \cup Replies],
           Release("batch") \/ (Tear /\ ReleaseTorn("batch")), lazy' \in BOOLEAN
    PROVE  PhaseInv'
<1>0. "batch" \in Clients /\ GrantInv
      BY HandleAssumption DEF PhaseInv
<1>1. /\ release' = release \cup {"batch"} /\ writerHeld' = FALSE
      /\ call' = [call EXCEPT !["batch"] = "none"]
      /\ UNCHANGED <<undone, lockVars, peerLocks, dataGeneration, srv, stopCh, result, ctxDone>>
      /\ UNCHANGED <<tears, takeovers>> \/ (tears' = tears + 1 /\ takeovers' = takeovers + 1)
      BY DEF Release, ReleaseTorn, Tear, peerVars
<1>2. GrantInv'
      BY <1>0, <1>1, GivesBack
<1>3. call'["batch"] = "none" /\ (\A d \in Clients \ {"batch"} : call'[d] = call[d])
      BY <1>0, <1>1 DEF GrantInv, CoordTypeOK
<1>4. batch' \in BatchStates /\ batch'.pc = "recv"
      BY NoBatchParts
<1> QED BY <1>1, <1>2, <1>3, <1>4, BatchWorks DEF Apart

\* The calls of DB.Batch and the steps of the batch coordinator.
LEMMA PhaseBatch ==
    ASSUME PhaseInv,
           \/ \E b \in BatchCalls : Batch(b) \/ BatchAbandon(b) \/ BatchCancel(b) \/ BatchReceive(b)
           \/ BatchSteps
    PROVE  PhaseInv'
<1>0. PhaseType /\ BatchPhase /\ GrantInv /\ "batch" \in Clients /\ batch \in BatchStates
      BY HandleAssumption DEF PhaseInv, PhaseType
<1> USE DEF bothers, closeVars, gateVars
<1>1. ASSUME NEW b \in BatchCalls, Batch(b) PROVE PhaseInv'
  <2>1. /\ Apart /\ UNCHANGED coordVars /\ lazy' = lazy /\ bpc' = [bpc EXCEPT ![b] = "send"]
        /\ ~batchClosed /\ outcome # "leaked"
        /\ batch' = batch \/ (batch' = NoBatch /\ batch.pc = "off")
        BY <1>1 DEF Batch, Apart
  <2>2. batch' \in BatchStates /\ bpc' \in [BatchCalls -> {"idle", "send", "wait"} \cup Replies]
        BY <1>0, <2>1, NoBatchParts DEF PhaseType
  <2>3. GrantInv' /\ UNCHANGED <<call, stopCh, srv>> /\ lazy' \in BOOLEAN
        BY <1>0, <2>1, GrantStutter DEF coordVars, PhaseType
  <2>4. BatchPhase'
        BY <1>0, <2>1, <2>3, NoBatchParts DEF BatchPhase, Apart, Before
  <2> QED BY <2>1, <2>2, <2>3, <2>4, BatchMoves DEF Apart
<1>2. ASSUME NEW b \in BatchCalls, BatchAbandon(b) PROVE PhaseInv'
  <2>1. /\ Apart /\ UNCHANGED coordVars /\ lazy' = lazy /\ UNCHANGED batch
        /\ Reply({b}, "cause") \/ Reply({b}, "refused")
        BY <1>2 DEF BatchAbandon, Apart
  <2>2. /\ bpc' \in [BatchCalls -> {"idle", "send", "wait"} \cup Replies]
        /\ \A x \in BatchCalls : bpc'[x] = bpc[x] \/ bpc'[x] # "send"
        BY <1>0, <2>1, ReplyType DEF Reply, Replies
  <2>3. GrantInv' /\ UNCHANGED <<call, stopCh, srv>> /\ lazy' \in BOOLEAN
        BY <1>0, <2>1, GrantStutter DEF coordVars, PhaseType
  <2>4. BatchPhase'
        BY <1>0, <2>1, <2>2, <2>3 DEF BatchPhase, Apart
  <2> QED BY <1>0, <2>1, <2>2, <2>3, <2>4, BatchMoves DEF Apart
<1>3. ASSUME NEW b \in BatchCalls, BatchCancel(b) PROVE PhaseInv'
      BY <1>3, PhaseStutter DEF BatchCancel
<1>4. ASSUME NEW b \in BatchCalls, BatchReceive(b) PROVE PhaseInv'
  <2>1. /\ Apart /\ UNCHANGED coordVars /\ lazy' = lazy /\ bpc[b] = "send"
        /\ batch.pc \in {"recv", "collect"} /\ bpc' = [bpc EXCEPT ![b] = "wait"]
        /\ \E x \in {"run", "collect"} :
               batch' = [batch EXCEPT !.calls = Append(batch.calls, b), !.pc = x]
        BY <1>4 DEF BatchReceive, Apart
  <2>2. batch' \in BatchStates /\ batch'.pc \in {"run", "collect"}
        BY <1>0, <2>1, BatchJoins DEF BatchPcs
  <2>3. bpc' \in [BatchCalls -> {"idle", "send", "wait"} \cup Replies]
        BY <1>0, <2>1 DEF PhaseType
  <2>4. GrantInv' /\ UNCHANGED <<call, stopCh, srv>> /\ lazy' \in BOOLEAN
        BY <1>0, <2>1, GrantStutter DEF coordVars, PhaseType
  <2>5. outcome # "leaked" /\ cl \in Before
        BY <1>0, <2>1 DEF BatchPhase
  <2>6. BatchPhase'
        BY <1>0, <2>1, <2>2, <2>4, <2>5 DEF BatchPhase, Apart
  <2> QED BY <2>1, <2>2, <2>3, <2>4, <2>6, BatchMoves DEF Apart
<1>5. CASE CollectEnd
  <2>1. /\ Apart /\ UNCHANGED coordVars /\ lazy' = lazy /\ UNCHANGED bpc /\ batch.pc = "collect"
        /\ batch' = [batch EXCEPT !.pc = "run"]
        BY <1>5 DEF CollectEnd, Apart
  <2>2. batch' \in BatchStates /\ batch'.pc = "run"
        BY <1>0, <2>1, BatchGoes DEF BatchPcs
  <2>3. call["batch"] \in {"none"} \cup Denied
        BY <1>0, <2>1 DEF BatchPhase
  <2> QED BY <1>0, <2>1, <2>2, <2>3, BatchWalks DEF PhaseType
<1>6. CASE RunBatch
  <2>1. Apart /\ lazy' = lazy /\ batch.pc = "run" /\ call["batch"] \in {"none"} \cup Denied
        BY <1>0, <1>6 DEF RunBatch, Apart, BatchPhase
  <2>2. CASE Reply(Called, "refused") /\ batch' = NoBatch /\ UNCHANGED coordVars
        BY <1>0, <2>1, <2>2, ReplyType, NoBatchParts, BatchWalks DEF Replies
  <2>3. CASE AcquireWriter("batch") /\ batch' = [batch EXCEPT !.pc = "acquire"] /\ UNCHANGED bpc
    <3>1. batch' \in BatchStates /\ batch'.pc = "acquire"
          BY <1>0, <2>3, BatchGoes DEF BatchPcs
    <3>2. call["batch"] \notin {"wait", "drain", "grant"}
          BY <2>1 DEF Denied
    <3>3. GrantInv'
          BY <1>0, <2>3, <3>2, Acquires
    <3>4. (\A d \in Clients \ {"batch"} : call'[d] = call[d]) /\ UNCHANGED <<stopCh, srv>>
          BY <1>0, <2>3 DEF AcquireWriter, GrantInv, CoordTypeOK
    <3>5. bpc' \in [BatchCalls -> {"idle", "send", "wait"} \cup Replies] /\ lazy' \in BOOLEAN
          BY <1>0, <2>1, <2>3 DEF PhaseType
    <3> QED BY <2>1, <3>1, <3>3, <3>4, <3>5, BatchWorks DEF Apart
  <2> QED BY <1>6, <2>2, <2>3 DEF RunBatch
<1>7. CASE BatchRefused
  <2>1. /\ Apart /\ UNCHANGED coordVars /\ lazy' = lazy /\ batch.pc = "acquire"
        /\ call["batch"] \in Denied /\ Reply(Called, "refused") /\ batch' = NoBatch
        BY <1>7 DEF BatchRefused, Apart
  <2> QED BY <1>0, <2>1, ReplyType, NoBatchParts, BatchWalks DEF Replies
<1>8. CASE BatchGranted
  <2>1. /\ Apart /\ lazy' = lazy /\ batch.pc = "acquire" /\ call["batch"] = "grant"
        /\ \/ batch' = [batch EXCEPT !.pc = "closures"] /\ UNCHANGED bpc /\ UNCHANGED coordVars
           \/ batch' = NoBatch /\ Reply(Called, "refused") /\ Release("batch")
        BY <1>8 DEF BatchGranted, GrantChecks, Apart
  <2>2. CASE batch' = [batch EXCEPT !.pc = "closures"] /\ UNCHANGED bpc /\ UNCHANGED coordVars
    <3>1. batch' \in BatchStates /\ batch'.pc = "closures"
          BY <1>0, <2>2, BatchGoes DEF BatchPcs
    <3> QED BY <1>0, <2>1, <2>2, <3>1, BatchWalks DEF PhaseType
  <2>3. CASE batch' = NoBatch /\ Reply(Called, "refused") /\ Release("batch")
        BY <1>0, <2>1, <2>3, ReplyType, BatchEnds DEF Replies, PhaseType
  <2> QED BY <2>1, <2>2, <2>3
<1>9. CASE RunClosure
  <2>1. /\ Apart /\ lazy' = lazy /\ batch.pc = "closures" /\ UNCHANGED coordVars
        /\ batch.next <= Len(batch.calls)
        BY <1>9 DEF RunClosure, Apart
  <2>2. /\ \E s \in SUBSET BatchCalls :
               \/ batch' = [batch EXCEPT !.next = @ + 1] /\ s = {}
               \/ batch' = [batch EXCEPT !.next = @ + 1, !.ok = @ \cup s]
        /\ bpc' = bpc \/ \E x \in Replies : \E bs : Reply(bs, x)
    <3>1. batch.calls[batch.next] \in BatchCalls
          BY SMTT(30), <1>0, <2>1 DEF BatchStates
    <3> QED BY <1>9, <3>1 DEF RunClosure, Replies
  <2>3. batch' \in BatchStates /\ batch'.pc = "closures"
        BY <1>0, <2>1, <2>2, BatchAdvances
  <2>4. bpc' \in [BatchCalls -> {"idle", "send", "wait"} \cup Replies]
        BY <1>0, <2>2, ReplyType DEF PhaseType
  <2>5. call["batch"] = "grant"
        BY <1>0, <2>1 DEF BatchPhase
  <2> QED BY <2>1, <2>3, <2>4, <2>5, BatchWalks
<1>10. CASE BatchCommit
  <2>1. /\ Apart /\ lazy' = lazy /\ batch.pc = "closures" /\ call["batch"] = "grant"
        /\ \/ Release("batch") /\ Reply(batch.ok, "refused") /\ batch' = NoBatch
           \/ batch' = [batch EXCEPT !.pc = "commit"] /\ UNCHANGED <<coordVars, bpc>>
        BY <1>0, <1>10 DEF BatchCommit, Apart, BatchPhase
  <2>2. CASE Release("batch") /\ Reply(batch.ok, "refused") /\ batch' = NoBatch
        BY <1>0, <2>1, <2>2, ReplyType, BatchEnds DEF Replies, PhaseType
  <2>3. CASE batch' = [batch EXCEPT !.pc = "commit"] /\ UNCHANGED <<coordVars, bpc>>
    <3>1. batch' \in BatchStates /\ batch'.pc = "commit"
          BY <1>0, <2>3, BatchGoes DEF BatchPcs
    <3> QED BY <1>0, <2>1, <2>3, <3>1, BatchWalks DEF PhaseType
  <2> QED BY <2>1, <2>2, <2>3
<1>11. CASE BatchCommitEnd
  <2>1. /\ Apart /\ batch.pc = "commit" /\ call["batch"] = "grant" /\ batch' = NoBatch
        /\ Release("batch") \/ (Tear /\ ReleaseTorn("batch"))
        /\ lazy' \in {TRUE, lazy}
        /\ Reply(batch.ok, "ok") \/ Reply(batch.ok, "commitErr")
        BY <1>0, <1>11 DEF BatchCommitEnd, Apart, BatchPhase, Publish, PublishTorn
  <2>2. bpc' \in [BatchCalls -> {"idle", "send", "wait"} \cup Replies] /\ lazy' \in BOOLEAN
        BY <1>0, <2>1, ReplyType DEF Replies, PhaseType
  <2> QED BY <2>1, <2>2, BatchEnds
<1>12. CASE BatchExit
  <2>1. /\ Apart /\ UNCHANGED coordVars /\ lazy' = lazy /\ UNCHANGED bpc /\ batch.pc = "recv"
        /\ batch' = [batch EXCEPT !.pc = "exit"]
        BY <1>12 DEF BatchExit, Apart
  <2>2. batch' \in BatchStates /\ batch'.pc = "exit"
        BY <1>0, <2>1, BatchGoes DEF BatchPcs
  <2>3. GrantInv' /\ UNCHANGED <<call, stopCh, srv>> /\ lazy' \in BOOLEAN
        BY <1>0, <2>1, GrantStutter DEF coordVars, PhaseType
  <2>4. BatchPhase'
        BY <1>0, <2>1, <2>2, <2>3 DEF BatchPhase, Apart
  <2> QED BY <1>0, <2>1, <2>2, <2>3, <2>4, BatchMoves DEF Apart, PhaseType
<1> QED BY <1>1, <1>2, <1>3, <1>4, <1>5, <1>6, <1>7, <1>8, <1>9, <1>10, <1>11, <1>12 DEF BatchSteps

\* Close, or the cleanup of a dropped handle, starts and goes on without
\* touching the grant.
LEMMA CloseWalks ==
    ASSUME PhaseInv, Close \/ Collected \/ WaitBatch \/ BeginClose \/ NilPointers \/ DropMappings
    PROVE  PhaseInv'
<1>0. PhaseType /\ BatchPhase /\ ClosePhase /\ closed \in BOOLEAN /\ lazy \in BOOLEAN
      BY DEF PhaseInv, PhaseType
<1> USE DEF cothers, gateVars, CGoto
<1>1. /\ UNCHANGED <<coordVars, lazy, batchClosed, pc, batch, bpc>>
      BY DEF Close, Collected, WaitBatch, BeginClose, NilPointers, DropMappings
<1>2. GrantInv' /\ UNCHANGED <<call, stopCh, srv>>
      BY <1>1, GrantStutter DEF PhaseInv, coordVars
<1>3. CASE Close
  <2>1. cl = "open" /\ cl' = "stopBatch" /\ closed' = TRUE /\ ~Committing /\ UNCHANGED <<nilled, outcome>>
        BY <1>3 DEF Close
  <2>2. BatchPhase'
        BY <1>0, <1>1, <1>2, <2>1 DEF BatchPhase, Before
  <2>3. ClosePhase'
        BY <1>0, <1>1, <1>2, <2>1 DEF ClosePhase, Before
  <2> QED BY <1>0, <1>1, <1>2, <2>1, <2>2, <2>3, CloseMoves DEF ClosePcs, PhaseType
<1>4. CASE Collected
  <2>1. /\ cl = "open" /\ cl' = "gcDrain" /\ closed' = TRUE /\ outcome' = "leaked" /\ UNCHANGED nilled
        /\ (\A b \in BatchCalls : bpc[b] # "send") /\ batch.pc \in {"off", "recv"}
        BY <1>4 DEF Collected
  <2>2. ~Committing
        BY <1>4 DEF Collected, Committing
  <2>3. BatchPhase'
        BY <1>0, <1>1, <1>2, <2>1 DEF BatchPhase, Before
  <2>4. ClosePhase'
        BY <1>0, <1>1, <1>2, <2>1 DEF ClosePhase, Before
  <2> QED BY <1>0, <1>1, <1>2, <2>1, <2>2, <2>3, <2>4, CloseMoves DEF ClosePcs, PhaseType
<1>5. CASE WaitBatch
  <2>1. /\ cl = "waitBatch" /\ cl' = "drain" /\ batch.pc \in {"off", "exit"}
        /\ UNCHANGED <<closed, nilled, outcome>>
        BY <1>5 DEF WaitBatch
  <2>2. BatchPhase'
        BY <1>0, <1>1, <1>2, <2>1 DEF BatchPhase, Before
  <2>3. ClosePhase'
        BY <1>0, <1>1, <1>2, <2>1 DEF ClosePhase, Before
  <2> QED BY <1>0, <1>1, <1>2, <2>1, <2>2, <2>3, CloseMoves DEF ClosePcs, PhaseType
<1>6. CASE BeginClose
  <2>1. /\ (cl = "drain" /\ cl' = "shutdown") \/ (cl = "gcDrain" /\ cl' = "stop")
        /\ UNCHANGED <<closed, nilled, outcome>>
        BY <1>6 DEF BeginClose
  <2>2. BatchPhase'
        BY <1>0, <1>1, <1>2, <2>1 DEF BatchPhase, Before
  <2>3. ClosePhase'
        BY <1>0, <1>1, <1>2, <2>1 DEF ClosePhase, Before
  <2> QED BY <1>0, <1>1, <1>2, <2>1, <2>2, <2>3, CloseMoves DEF ClosePcs, PhaseType
<1>7. CASE NilPointers
  <2>1. cl = "nil" /\ cl' = "stop" /\ nilled' = TRUE /\ UNCHANGED <<closed, outcome>>
        BY <1>7 DEF NilPointers
  <2>2. BatchPhase'
        BY <1>0, <1>1, <1>2, <2>1 DEF BatchPhase, Before
  <2>3. ClosePhase'
        BY <1>0, <1>1, <1>2, <2>1 DEF ClosePhase, Before
  <2> QED BY <1>0, <1>1, <1>2, <2>1, <2>2, <2>3, CloseMoves DEF ClosePcs, PhaseType
<1>8. CASE DropMappings
  <2>1. cl = "waitSrv" /\ cl' = "done" /\ srv.pc = "exit" /\ UNCHANGED <<closed, nilled, outcome>>
        BY <1>8 DEF DropMappings
  <2>2. BatchPhase'
        BY <1>0, <1>1, <1>2, <2>1 DEF BatchPhase, Before
  <2>3. ClosePhase'
        BY <1>0, <1>1, <1>2, <2>1 DEF ClosePhase, Before
  <2> QED BY <1>0, <1>1, <1>2, <2>1, <2>2, <2>3, CloseMoves DEF ClosePcs, PhaseType
<1> QED BY <1>3, <1>4, <1>5, <1>6, <1>7, <1>8

\* Close stops the batch coordinator, and in the end the flock goroutine.
LEMMA CloseStops ==
    ASSUME PhaseInv, StopBatch \/ CoordClose
    PROVE  PhaseInv'
<1>0. /\ PhaseType /\ BatchPhase /\ ClosePhase /\ GrantInv /\ closed \in BOOLEAN /\ lazy \in BOOLEAN
      /\ ctxDone \subseteq Clients /\ "batch" \in Clients
      BY HandleAssumption DEF PhaseInv, PhaseType, GrantInv, CoordTypeOK
<1> USE DEF cothers, gateVars, CGoto
<1>1. UNCHANGED <<closed, nilled, outcome, lazy, pc, batch, bpc, call, srv>>
      BY DEF StopBatch, CoordClose, CancelCtx, coordVars
<1>2. CASE StopBatch
  <2>1. /\ cl = "stopBatch" /\ cl' = "waitBatch" /\ batchClosed' = TRUE
        /\ UNCHANGED coordVars \/ CancelCtx("batch")
        BY <1>2 DEF StopBatch
  <2>2. GrantInv' /\ UNCHANGED stopCh
    <3>1. CASE UNCHANGED coordVars
          BY <1>0, <3>1, GrantStutter DEF coordVars
    <3>2. CASE CancelCtx("batch")
          BY <1>0, <3>2, Contexts DEF CancelCtx
    <3> QED BY <2>1, <3>1, <3>2
  <2>3. BatchPhase'
        BY <1>0, <1>1, <2>1, <2>2 DEF BatchPhase, Before
  <2>4. ClosePhase'
        BY <1>0, <1>1, <2>1, <2>2 DEF ClosePhase, Before
  <2> QED BY <1>0, <1>1, <2>1, <2>2, <2>3, <2>4, CloseMoves DEF ClosePcs, PhaseType
<1>3. CASE CoordClose
  <2>1. cl = "stop" /\ cl' = "waitSrv" /\ stopCh' = TRUE /\ UNCHANGED batchClosed
        BY <1>3 DEF CoordClose
  <2>2. GrantInv'
        BY <1>0, <1>3, StopCloses DEF CoordClose
  <2>3. BatchPhase'
        BY <1>0, <1>1, <2>1 DEF BatchPhase, Before
  <2>4. ClosePhase'
        BY <1>0, <1>1, <2>1 DEF ClosePhase, Before
  <2> QED BY <1>0, <1>1, <2>1, <2>2, <2>3, <2>4, CloseMoves DEF ClosePcs, PhaseType
<1> QED BY <1>2, <1>3

\* Close ends its shutdown checkpoint, or what it had of one, one way or
\* another: a report of success leaves nothing to be made durable.
LEMMA ShutdownOver ==
    ASSUME PhaseInv, GrantInv', cl \in {"shutdown", "acquire", "checkpoint"}, cl' = "nil",
           outcome' \in {"ok", "skipped", "poisoned", "replaced", "failed"},
           lazy' \in {FALSE, lazy}, outcome' = "ok" => lazy' = FALSE,
           \A d \in Clients \ {"close"} : call'[d] = call[d], UNCHANGED <<stopCh, srv>>,
           UNCHANGED <<closed, nilled, batchClosed, pc, batch, bpc>>
    PROVE  PhaseInv'
<1>0. PhaseType /\ BatchPhase /\ ClosePhase /\ closed \in BOOLEAN /\ lazy' \in BOOLEAN
      BY DEF PhaseInv, PhaseType
<1>1. call'["batch"] = call["batch"] /\ \A t \in Callers : call'[t] = call[t]
      BY HandleAssumption
<1>2. BatchPhase'
      BY <1>0, <1>1 DEF BatchPhase, ClosePhase, Before
<1>3. ClosePhase'
      BY <1>0 DEF ClosePhase, Before
<1> QED BY <1>0, <1>1, <1>2, <1>3, CloseMoves DEF ClosePcs, PhaseType

\* The shutdown checkpoint.
LEMMA PhaseShutdown ==
    ASSUME PhaseInv, Shutdown \/ ShutdownGranted \/ ShutdownEnd
    PROVE  PhaseInv'
<1>0. /\ PhaseType /\ BatchPhase /\ ClosePhase /\ GrantInv /\ closed \in BOOLEAN /\ lazy \in BOOLEAN
      /\ "close" \in Clients
      BY HandleAssumption DEF PhaseInv, PhaseType
<1> USE DEF cothers, gateVars, CGoto, End, Publish, PublishTorn
<1>1. /\ UNCHANGED <<closed, nilled, batchClosed, pc, batch, bpc>>
      /\ cl \in {"shutdown", "acquire", "checkpoint"}
      BY DEF Shutdown, ShutdownGranted, ShutdownEnd
<1>2. ASSUME UNCHANGED coordVars PROVE GrantInv' /\ UNCHANGED <<call, stopCh, srv>>
      BY <1>0, <1>2, GrantStutter DEF coordVars
<1>3. ASSUME call["close"] = "grant", Release("close") \/ (Tear /\ ReleaseTorn("close"))
      PROVE  /\ GrantInv' /\ UNCHANGED <<stopCh, srv>>
             /\ \A d \in Clients \ {"close"} : call'[d] = call[d]
  <2>1. /\ release' = release \cup {"close"} /\ writerHeld' = FALSE
        /\ call' = [call EXCEPT !["close"] = "none"]
        /\ UNCHANGED <<undone, lockVars, peerLocks, dataGeneration, srv, stopCh, result, ctxDone>>
        /\ UNCHANGED <<tears, takeovers>> \/ (tears' = tears + 1 /\ takeovers' = takeovers + 1)
        BY <1>3 DEF Release, ReleaseTorn, Tear, peerVars
  <2>2. GrantInv'
        BY <1>0, <1>3, <2>1, GivesBack
  <2> QED BY <1>0, <2>1, <2>2 DEF GrantInv, CoordTypeOK
<1>4. CASE Shutdown
  <2>1. CASE outcome' \in {"poisoned", "skipped"} /\ cl' = "nil" /\ UNCHANGED coordVars /\ lazy' = lazy
        BY <1>0, <1>1, <1>2, <2>1, ShutdownOver
  <2>2. CASE AcquireWriter("close") /\ cl' = "acquire" /\ UNCHANGED <<outcome, lazy>>
    <3>1. cl = "shutdown" /\ call["close"] = "none" /\ outcome \notin {"leaked", "ok"}
          BY <1>0, <1>4 DEF Shutdown, ClosePhase
    <3>2. GrantInv'
          BY <1>0, <2>2, <3>1, Acquires
    <3>3. (\A d \in Clients \ {"close"} : call'[d] = call[d]) /\ UNCHANGED <<stopCh, srv>>
          BY <1>0, <2>2 DEF AcquireWriter, GrantInv, CoordTypeOK
    <3>4. call'["batch"] = call["batch"] /\ \A t \in Callers : call'[t] = call[t]
          BY <3>3, HandleAssumption
    <3>5. BatchPhase'
          BY <1>0, <1>1, <2>2, <3>1, <3>4 DEF BatchPhase, Before
    <3>6. ClosePhase'
          BY <1>0, <1>1, <2>2, <3>1, <3>3 DEF ClosePhase, Before
    <3> QED BY <1>0, <1>1, <2>2, <3>2, <3>4, <3>5, <3>6, CloseMoves DEF ClosePcs, PhaseType
  <2> QED BY <1>4, <2>1, <2>2 DEF Shutdown
<1>5. CASE ShutdownGranted
  <2>1. CASE outcome' = "failed" /\ cl' = "nil" /\ UNCHANGED coordVars /\ lazy' = lazy
        BY <1>0, <1>1, <1>2, <2>1, ShutdownOver
  <2>2. CASE /\ call["close"] = "grant" /\ Release("close") /\ outcome' \in {"poisoned", "replaced"}
             /\ cl' = "nil" /\ lazy' = lazy
        BY <1>0, <1>1, <1>3, <2>2, ShutdownOver
  <2>3. CASE call["close"] = "grant" /\ cl' = "checkpoint" /\ UNCHANGED <<coordVars, outcome, lazy>>
    <3>1. cl = "acquire" /\ outcome \notin {"leaked", "ok"}
          BY <1>0, <1>5 DEF ShutdownGranted, ClosePhase
    <3>2. BatchPhase'
          BY <1>0, <1>1, <1>2, <2>3, <3>1 DEF BatchPhase, Before
    <3>3. ClosePhase'
          BY SMTT(30), <1>0, <1>1, <1>2, <2>3, <3>1 DEF ClosePhase, Before
    <3> QED BY <1>0, <1>1, <1>2, <2>3, <3>2, <3>3, CloseMoves DEF ClosePcs, PhaseType
  <2> QED BY <1>5, <2>1, <2>2, <2>3 DEF ShutdownGranted
<1>6. CASE ShutdownEnd
  <2>1. /\ cl = "checkpoint" /\ cl' = "nil"
        /\ Release("close") \/ (Tear /\ ReleaseTorn("close"))
        /\ (outcome' = "ok" /\ lazy' = FALSE) \/ (outcome' = "failed" /\ lazy' = lazy)
        BY <1>6 DEF ShutdownEnd
  <2>2. call["close"] = "grant"
        BY <1>0, <2>1 DEF ClosePhase
  <2> QED BY <1>1, <1>3, <2>1, <2>2, ShutdownOver
<1> QED BY <1>4, <1>5, <1>6

\* A transaction or a checkpoint is begun.
LEMMA PhaseBegin ==
    ASSUME PhaseInv, NEW t \in Callers, NEW j \in {"begin", "beginCheckpoint"}, Begin(t, j)
    PROVE  PhaseInv'
<1>0. /\ t \in Clients /\ CallerPhase(t) /\ GrantInv /\ lazy \in BOOLEAN /\ pc \in [Callers -> CallerPcs]
      /\ ctxDone \subseteq Clients
      BY HandleAssumption DEF PhaseInv, PhaseType, GrantInv, CoordTypeOK
<1>1. /\ pc[t] = "idle" /\ ~closed /\ pc' = [pc EXCEPT ![t] = j] /\ lazy' = lazy /\ Beside
      /\ ctxDone' = ctxDone \ {t}
      /\ UNCHANGED <<lockVars, peerVars, srv, writerHeld, stopCh, call, result, relVars>>
      BY DEF Begin, Goto, others, batchVars, closeVars, gateVars, Beside
<1>2. GrantInv'
      BY <1>0, <1>1, Contexts
<1>3. CallerPhase(t)' /\ j \in CallerPcs
      BY <1>0, <1>1 DEF CallerPhase, CallerPcs, Holding, Beside
<1> QED BY <1>0, <1>1, <1>2, <1>3, CallerMoves DEF Beside

\* Every step keeps the phases.
LEMMA PhaseNext == PhaseInv /\ [Next]_vars => PhaseInv'
<1> SUFFICES ASSUME PhaseInv, [Next]_vars PROVE PhaseInv'
    OBVIOUS
<1>1. CASE CoordSteps /\ UNCHANGED handleVars
      BY <1>1, CoordMoves
<1>2. ASSUME NEW t \in Callers, CallerCancel(t), UNCHANGED handleVars PROVE PhaseInv'
  <2>1. /\ t \in Clients /\ ctxDone' = ctxDone \cup {t} /\ GrantInv /\ ctxDone \subseteq Clients
        /\ UNCHANGED <<lockVars, peerVars, srv, writerHeld, stopCh, call, result, relVars>>
        BY <1>2, HandleAssumption DEF CallerCancel, CancelCtx, PhaseInv, GrantInv, CoordTypeOK
  <2>2. GrantInv'
        BY <2>1, Contexts
  <2>3. UNCHANGED <<closed, nilled, lazy, pc, batch, batchClosed, bpc, cl, outcome>>
        BY <1>2 DEF handleVars, gateVars, batchVars, closeVars
  <2>4. PhaseType' /\ (\A u \in Callers : CallerPhase(u)')
        BY <2>1, <2>3 DEF PhaseInv, PhaseType, CallerPhase
  <2>5. BatchPhase' /\ ClosePhase'
        BY <2>1, <2>3 DEF PhaseInv, BatchPhase, ClosePhase
  <2> QED BY <2>2, <2>4, <2>5 DEF PhaseInv
<1>3. ASSUME NEW r \in Readers, Reader(r) \/ BeginRead(r) PROVE PhaseInv'
  <2>1. UNCHANGED <<coordVars, closed, nilled, lazy, pc, batch, batchClosed, bpc, cl, outcome>>
        BY <1>3 DEF Reader, BeginRead, ReadEnter, ReadCheck, ReadAcquire, ReadClose, ReadLeak,
           ReadCleanupEnter, ReadCleanup, rothers, gateVars, batchVars, closeVars
  <2> QED BY <2>1, PhaseStutter
<1>4. CASE NewOp
      BY <1>3, <1>4, PhaseBegin, PhaseBatch DEF NewOp
<1>5. CASE Step
  <2>1. CASE Close \/ CloseSteps \/ Collected
        BY <2>1, CloseWalks, CloseStops, PhaseShutdown DEF CloseSteps
  <2>2. CASE BatchSteps \/ \E b \in BatchCalls : BatchAbandon(b) \/ BatchCancel(b) \/ BatchReceive(b)
        BY <2>2, PhaseBatch
  <2> QED BY <1>3, <1>5, <2>1, <2>2, PhaseCaller DEF Step
<1>6. CASE UNCHANGED vars
  <2>1. UNCHANGED <<coordVars, closed, nilled, lazy, pc, batch, batchClosed, bpc, cl, outcome>>
        BY <1>6 DEF vars, gateVars, batchVars, closeVars
  <2> QED BY <2>1, PhaseStutter
<1> QED BY <1>1, <1>2, <1>4, <1>5, <1>6 DEF Next

-----------------------------------------------------------------------------
\* A checkpoint that Close overtakes: there is one at most, Close has not
\* reported its own done, and a failure goes unrecorded only after Close has
\* cleared the pointers.
CheckInv ==
    /\ \A t \in Callers : pc[t] = "checkpoint" => outcome \notin {"ok", "leaked"}
    /\ \A t, u \in Callers : pc[t] = "checkpoint" /\ pc[u] = "checkpoint" => t = u
    /\ cl = "gcDrain" => outcome = "leaked"
    /\ cl \in {"stop", "waitSrv", "done"} => nilled \/ outcome = "leaked"
    /\ missed => nilled /\ outcome # "ok"

\* No checkpoint is under way when the handle is opened.
LEMMA CheckInit == Init => CheckInv
BY DEF Init, CheckInv

\* Steps that leave the checkpoints alone.
LEMMA CheckStutter ==
    ASSUME CheckInv, UNCHANGED <<pc, cl, outcome, nilled, missed>>
    PROVE  CheckInv'
BY DEF CheckInv

\* While the coordinator serves, whoever has the grant has it alone.
LEMMA OneGrant ==
    ASSUME PhaseInv, ~stopCh, NEW c \in Clients, NEW d \in Clients, call[c] = "grant", call[d] = "grant"
    PROVE  c = d
<1>1. Granted(c) /\ Granted(d)
      BY DEF PhaseInv, GrantInv
<1> QED BY <1>1 DEF Granted

\* A caller begins a checkpoint only with the grant and the gate open, and a
\* failure of it is missed only when Close has overtaken it.
LEMMA CheckCaller ==
    ASSUME PhaseInv, CheckInv, NEW t \in Callers,
           Caller(t) \/ \E j \in {"begin", "beginCheckpoint"} : Begin(t, j)
    PROVE  CheckInv'
<1> USE DEF Goto, others, closeVars, gateVars
<1>0. pc \in [Callers -> CallerPcs] /\ ClosePhase
      BY DEF PhaseInv, PhaseType
<1>1. /\ UNCHANGED <<cl, outcome, nilled>>
      /\ missed' = missed \/ (missed' = TRUE /\ nilled /\ pc[t] = "checkpoint")
      /\ \E l \in CallerPcs : /\ pc' = [pc EXCEPT ![t] = l]
                              /\ l = "checkpoint" => ~closed /\ call[t] = "grant"
  <2> USE DEF CallerPcs
  <2>1. CASE \E j \in {"begin", "beginCheckpoint"} : Begin(t, j)
        BY <2>1 DEF Begin
  <2>2. CASE BeginAcquire(t) \/ BeginRefused(t)
        BY <2>2 DEF BeginAcquire, BeginRefused
  <2>3. CASE BeginGranted(t)
        BY <2>3 DEF BeginGranted, GrantChecks, Usable
  <2>4. CASE Commit(t) \/ Rollback(t) \/ Leak(t)
        BY <2>4 DEF Commit, Rollback, Leak
  <2>5. CASE CommitEnd(t)
        BY <2>5 DEF CommitEnd
  <2>6. CASE CheckpointEnd(t)
        BY <2>6 DEF CheckpointEnd
  <2>7. CASE CleanupEnter(t) \/ CleanupCheck(t) \/ CleanupRelease(t)
        BY <2>7 DEF CleanupEnter, CleanupCheck, CleanupRelease
  <2> QED BY <2>1, <2>2, <2>3, <2>4, <2>5, <2>6, <2>7 DEF Caller
<1>2. PICK l \in CallerPcs : /\ pc' = [pc EXCEPT ![t] = l]
                             /\ l = "checkpoint" => ~closed /\ call[t] = "grant"
      BY <1>1
<1>3. pc'[t] = l /\ \A u \in Callers : u # t => pc'[u] = pc[u]
      BY <1>0, <1>2
<1>4. missed' => nilled /\ outcome # "ok"
      BY <1>1 DEF CheckInv
<1>5. CASE l # "checkpoint"
      BY <1>1, <1>3, <1>4, <1>5 DEF CheckInv
<1>6. CASE l = "checkpoint"
  <2>1. ~closed /\ call[t] = "grant" /\ cl = "open" /\ ~stopCh
        BY <1>0, <1>2, <1>6 DEF ClosePhase
  <2>2. outcome \notin {"ok", "leaked"}
        BY <1>0, <2>1 DEF ClosePhase
  <2>3. ASSUME NEW u \in Callers, pc[u] = "checkpoint" PROVE u = t
    <3>1. call[u] = "grant" /\ u \in Clients /\ t \in Clients
          BY <2>3, HandleAssumption DEF PhaseInv, CallerPhase, Holding
    <3> QED BY <2>1, <3>1, OneGrant
  <2> QED BY <1>1, <1>3, <1>4, <2>2, <2>3 DEF CheckInv
<1> QED BY <1>5, <1>6

\* Close reports its checkpoint done only when it had the grant, so that no
\* caller was in a checkpoint of its own.
LEMMA CheckClose ==
    ASSUME PhaseInv, CheckInv, Close \/ CloseSteps \/ Collected
    PROVE  CheckInv'
<1> USE DEF cothers, gateVars, CGoto, End
<1>0. ClosePhase
      BY DEF PhaseInv
<1>1. UNCHANGED <<pc, missed>>
      BY DEF Close, Collected, CloseSteps, StopBatch, WaitBatch, BeginClose, Shutdown,
         ShutdownGranted, ShutdownEnd, NilPointers, CoordClose, DropMappings
<1>2. CASE Close \/ StopBatch \/ WaitBatch
  <2>1. cl' \in {"stopBatch", "waitBatch", "drain"} /\ UNCHANGED <<outcome, nilled>>
        BY <1>2 DEF Close, StopBatch, WaitBatch
  <2> QED BY <1>1, <2>1 DEF CheckInv
<1>3. CASE Collected
  <2>1. cl = "open" /\ cl' = "gcDrain" /\ outcome' = "leaked" /\ UNCHANGED nilled
        BY <1>3 DEF Collected
  <2>2. \A t \in Callers : pc[t] # "checkpoint"
        BY <1>3 DEF Collected
  <2> QED BY <1>1, <2>1, <2>2 DEF CheckInv
<1>4. CASE BeginClose
  <2>1. /\ (cl = "drain" /\ cl' = "shutdown") \/ (cl = "gcDrain" /\ cl' = "stop")
        /\ UNCHANGED <<outcome, nilled>>
        BY <1>4 DEF BeginClose
  <2> QED BY <1>1, <2>1 DEF CheckInv
<1>5. CASE Shutdown \/ ShutdownGranted
  <2>1. /\ cl' \in {"nil", "acquire", "checkpoint"} /\ cl \in {"shutdown", "acquire"}
        /\ outcome' = outcome \/ outcome' \in {"poisoned", "skipped", "failed", "replaced"}
        /\ UNCHANGED nilled
        BY <1>5 DEF Shutdown, ShutdownGranted
  <2> QED BY <1>1, <2>1 DEF CheckInv
<1>6. CASE ShutdownEnd
  <2>1. cl = "checkpoint" /\ cl' = "nil" /\ outcome' \in {"ok", "failed"} /\ UNCHANGED nilled
        BY <1>6 DEF ShutdownEnd
  <2>2. ~missed /\ ~stopCh /\ call["close"] = "grant"
        BY <1>0, <2>1 DEF ClosePhase, CheckInv
  <2>3. ASSUME NEW t \in Callers, pc[t] = "checkpoint" PROVE FALSE
    <3>1. call[t] = "grant" /\ t \in Clients /\ "close" \in Clients /\ t # "close"
          BY <2>3, HandleAssumption DEF PhaseInv, CallerPhase, Holding
    <3> QED BY <2>2, <3>1, OneGrant
  <2> QED BY <1>1, <2>1, <2>2, <2>3 DEF CheckInv
<1>7. CASE NilPointers
  <2>1. cl' = "stop" /\ nilled' = TRUE /\ UNCHANGED outcome
        BY <1>7 DEF NilPointers
  <2> QED BY <1>1, <2>1 DEF CheckInv
<1>8. CASE CoordClose \/ DropMappings
  <2>1. cl \in {"stop", "waitSrv"} /\ cl' \in {"waitSrv", "done"} /\ UNCHANGED <<outcome, nilled>>
        BY <1>8 DEF CoordClose, DropMappings
  <2> QED BY <1>1, <2>1 DEF CheckInv
<1> QED BY <1>2, <1>3, <1>4, <1>5, <1>6, <1>7, <1>8 DEF CloseSteps

\* Every step keeps it.
LEMMA CheckNext == PhaseInv /\ CheckInv /\ [Next]_vars => CheckInv'
<1> SUFFICES ASSUME PhaseInv, CheckInv, [Next]_vars PROVE CheckInv'
    OBVIOUS
<1>1. CASE UNCHANGED handleVars
      BY <1>1, CheckStutter DEF handleVars, closeVars
<1>2. CASE UNCHANGED vars
      BY <1>2, CheckStutter DEF vars, closeVars
<1>3. ASSUME NEW r \in Readers, Reader(r) \/ BeginRead(r) PROVE CheckInv'
  <2>1. UNCHANGED <<pc, cl, outcome, nilled, missed>>
        BY <1>3 DEF Reader, BeginRead, ReadEnter, ReadCheck, ReadAcquire, ReadClose, ReadLeak,
           ReadCleanupEnter, ReadCleanup, rothers, closeVars
  <2> QED BY <2>1, CheckStutter
<1>4. ASSUME NEW b \in BatchCalls, Batch(b) \/ BatchAbandon(b) \/ BatchCancel(b) \/ BatchReceive(b)
      PROVE  CheckInv'
      BY <1>4, CheckStutter DEF Batch, BatchAbandon, BatchCancel, BatchReceive, bothers, closeVars
<1>5. CASE BatchSteps
  <2>1. UNCHANGED <<pc, cl, outcome, nilled, missed>>
        BY <1>5 DEF BatchSteps, CollectEnd, RunBatch, BatchRefused, BatchGranted, RunClosure,
           BatchCommit, BatchCommitEnd, BatchExit, bothers, closeVars
  <2> QED BY <2>1, CheckStutter
<1>6. CASE NewOp
      BY <1>3, <1>4, <1>6, CheckCaller DEF NewOp
<1>7. CASE Step
      BY <1>3, <1>4, <1>5, <1>7, CheckCaller, CheckClose DEF Step
<1> QED BY <1>1, <1>2, <1>6, <1>7 DEF Next

-----------------------------------------------------------------------------
\* The phases hold throughout.
LEMMA PhaseAlways == Spec => []PhaseInv
BY PhaseInit, PhaseNext, PTL DEF Spec

\* So does what is known of a checkpoint that Close overtakes.
LEMMA CheckAlways == Spec => []CheckInv
BY PhaseAlways, CheckInit, CheckNext, PTL DEF Spec

\* Every tear of the data file is counted in TakeoverSeq once and only once,
\* whatever this handle, its goroutines and the other process do: a header
\* that still names a writer under a free flock is a death not yet recorded,
\* and a clean release (SrvClear before SrvUnlock) never looks like one.
THEOREM TearsSeenAlways == Spec => []TearsSeen
<1>1. PhaseInv => TearsSeen
      BY DEF PhaseInv, GrantInv
<1> QED BY <1>1, PhaseAlways, PTL

\* A Close that reports its shutdown checkpoint done loses no acknowledged
\* commit: after the gate is closed no caller commits, the batch coordinator
\* has been waited for, and the checkpoint, made under the grant, is the last
\* to write; so it has overtaken no other whose failure went unrecorded.
THEOREM CloseDurableAlways == Spec => []CloseDurable
<1>1. PhaseInv /\ CheckInv => CloseDurable
      BY DEF PhaseInv, ClosePhase, CheckInv, CloseDurable
<1> QED BY <1>1, PhaseAlways, CheckAlways, PTL

\* Only the shutdown checkpoint of Close can be skipped, and only because the
\* writer flag is up.
LEMMA SkipsWhileHeld ==
    ASSUME Next, outcome' = "skipped", outcome # "skipped"
    PROVE  cl = "shutdown" /\ writerHeld
<1>1. \/ outcome' = outcome \/ CloseSteps \/ Collected
  <2>1. CASE UNCHANGED handleVars
        BY <2>1 DEF handleVars, closeVars
  <2>2. CASE NewOp
        BY <2>2 DEF NewOp, Begin, BeginRead, Batch, others, rothers, bothers, closeVars
  <2>3. ASSUME NEW t \in Callers, Caller(t) PROVE outcome' = outcome
        BY <2>3 DEF Caller, BeginAcquire, BeginRefused, BeginGranted, Commit, CommitEnd, Rollback,
           CheckpointEnd, Leak, CleanupEnter, CleanupCheck, CleanupRelease, others, closeVars
  <2>4. ASSUME NEW r \in Readers, Reader(r) PROVE outcome' = outcome
        BY <2>4 DEF Reader, ReadEnter, ReadCheck, ReadAcquire, ReadClose, ReadLeak,
           ReadCleanupEnter, ReadCleanup, rothers, closeVars
  <2>5. ASSUME NEW b \in BatchCalls, BatchAbandon(b) \/ BatchCancel(b) \/ BatchReceive(b)
        PROVE  outcome' = outcome
        BY <2>5 DEF BatchAbandon, BatchCancel, BatchReceive, bothers, closeVars
  <2>6. CASE BatchSteps
        BY <2>6 DEF BatchSteps, CollectEnd, RunBatch, BatchRefused, BatchGranted, RunClosure,
           BatchCommit, BatchCommitEnd, BatchExit, bothers, closeVars
  <2>7. CASE Close
        BY <2>7 DEF Close
  <2> QED BY <2>1, <2>2, <2>3, <2>4, <2>5, <2>6, <2>7 DEF Next, Step
<1>2. CASE Collected
      BY <1>2 DEF Collected
<1>3. CASE CloseSteps
      BY <1>3 DEF CloseSteps, StopBatch, WaitBatch, BeginClose, Shutdown, ShutdownGranted,
         ShutdownEnd, NilPointers, CoordClose, DropMappings, End
<1> QED BY <1>1, <1>2, <1>3

\* Close never skips the shutdown checkpoint for a transaction that has
\* ended: while the flag is up the flock goroutine holds the lock for a call
\* that has the grant, is about to see it, or was cancelled and is handing
\* it back.
THEOREM SkipIsJustified == Spec => SkipJustified
<1>1. ASSUME PhaseInv, Next, outcome' = "skipped", outcome # "skipped"
      PROVE  \E c \in Clients : \/ call[c] \in {"wait", "drain", "grant"}
                                \/ srv.who = c /\ c \in undone
  <2>1. cl = "shutdown" /\ writerHeld
        BY <1>1, SkipsWhileHeld
  <2>2. ~stopCh /\ GrantInv
        BY <1>1, <2>1 DEF PhaseInv, ClosePhase
  <2>3. /\ srv.pc = "hold"
        /\ call[srv.who] \in {"wait", "drain", "grant"} \/ srv.who \in undone
        BY <2>1, <2>2 DEF GrantInv, Served
  <2>4. srv.who \in Clients
        BY <2>2, <2>3 DEF GrantInv, Locked
  <2> QED BY <2>3, <2>4
<1>2. PhaseInv /\ [Next]_vars
        => [outcome' = "skipped" /\ outcome # "skipped" =>
              \E c \in Clients : \/ call[c] \in {"wait", "drain", "grant"}
                                 \/ srv.who = c /\ c \in undone]_vars
      BY <1>1
<1> QED BY <1>2, PhaseAlways, PTL DEF Spec, SkipJustified
=============================================================================
