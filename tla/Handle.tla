------------------------------- MODULE Handle -------------------------------
(***************************************************************************)
(* One database handle and the goroutines that share it: db.go (Begin,     *)
(* Close, the leak cleanup), tx.go, read_tx.go, checkpoint.go, batch.go and *)
(* internal/closegate, over the write grant of module Coord.                *)
(*                                                                          *)
(* Callers run write transactions and checkpoints, readers open and close   *)
(* read transactions, batch calls are grouped by the batch coordinator, and *)
(* at any moment the handle is closed (or dropped, and torn down by the     *)
(* garbage collector's cleanup).  Transactions may be leaked.               *)
(*                                                                          *)
(* The application keeps the part of Close's contract that matters here ("not *)
(* safe to call concurrently with active write or batch transactions"): it   *)
(* does not call Close while a Commit of its own is under way.  Everything   *)
(* else may overlap Close: Checkpoint, Begin, BeginRead, Batch, open         *)
(* transactions and cleanups.                                                *)
(***************************************************************************)
EXTENDS Coord, Sequences

CONSTANTS
    Callers,        \* goroutines that run write transactions and checkpoints
    Readers,        \* goroutines that run read transactions
    BatchCalls,     \* the calls of DB.Batch
    MaxBatchSize,   \* Options.MaxBatchSize
    MaxOps          \* bound: transactions, checkpoints, reads and batch calls begun

ASSUME HandleAssumption ==
    /\ Callers \subseteq Clients /\ {"batch", "close"} \subseteq Clients \ Callers
    /\ IsFiniteSet(Callers) /\ IsFiniteSet(Readers)
    /\ MaxBatchSize \in Nat \ {0}

VARIABLES
    closed,         \* closeGate.closed
    txInflight,     \* closeGate.txInflight
    poisoned,       \* db.poisoned
    nilled,         \* Close has cleared db.coord, db.pgr and the others
    refs,           \* references on the lock-file mapping; 0 = unmapped
    lazy,           \* history: a commit is acknowledged and not checkpointed
    missed,         \* history: a checkpoint's failure was not recorded as a tear
    pc,             \* per caller: where it is
    rpc,            \* per reader: where it is
    batch,          \* the batch coordinator: [pc, calls, next, ok]
    batchClosed,    \* db.batch.closed
    gaveUp,         \* the batch calls whose context has fired
    bpc,            \* per batch call: "idle", "send", "wait" or its reply
    effect,         \* history, per batch call: what its closure's writes became
    cl,             \* Close: where it is
    outcome,        \* history: what became of the shutdown checkpoint
    ops             \* history: operations begun

gateVars == <<closed, txInflight>>
batchVars == <<batch, batchClosed, gaveUp, bpc, effect>>
closeVars == <<nilled, cl, outcome>>
vars == <<coordVars, gateVars, poisoned, refs, lazy, missed, pc, rpc, batchVars, closeVars, ops>>

Replies == {"ok", "cause", "refused", "err", "commitErr"}

TypeOK ==
    /\ CoordTypeOK
    /\ closed \in BOOLEAN /\ txInflight \in 0..Cardinality(Callers \cup Readers)
    /\ poisoned \in BOOLEAN /\ nilled \in BOOLEAN /\ lazy \in BOOLEAN /\ missed \in BOOLEAN
    /\ refs \in 0..(Cardinality(Readers) + 1)
    /\ pc \in [Callers -> {"idle", "begin", "beginCheckpoint", "acquire", "acquireCheckpoint",
                           "tx", "commit", "checkpoint",
                           "refused", "leaked", "leakEntered", "leakWork"}]
    /\ rpc \in [Readers -> {"idle", "begin", "entered", "acquire", "open", "leaked", "leakEntered"}]
    /\ batch \in [pc : {"off", "recv", "collect", "run", "acquire", "closures", "commit", "exit"},
                  calls : UNION {[1..n -> BatchCalls] : n \in 0..MaxBatchSize},
                  next : 1..(MaxBatchSize + 1), ok : SUBSET BatchCalls]
    /\ batchClosed \in BOOLEAN /\ gaveUp \subseteq BatchCalls
    /\ bpc \in [BatchCalls -> {"idle", "send", "wait"} \cup Replies]
    /\ effect \in [BatchCalls -> {"none", "child", "committed"}]
    /\ cl \in {"open", "stopBatch", "waitBatch", "drain", "shutdown", "acquire",
               "checkpoint", "nil", "gcDrain", "stop", "waitSrv", "done"}
    /\ outcome \in {"none", "ok", "skipped", "poisoned", "replaced", "failed", "leaked"}
    /\ ops \in 0..MaxOps

NoBatch == [pc |-> "recv", calls |-> <<>>, next |-> 1, ok |-> {}]

Init ==
    /\ CoordInit
    /\ closed = FALSE /\ txInflight = 0 /\ poisoned = FALSE /\ nilled = FALSE
    /\ refs = 1 /\ lazy = FALSE /\ missed = FALSE
    /\ pc = [t \in Callers |-> "idle"]
    /\ rpc = [r \in Readers |-> "idle"]
    /\ batch = [NoBatch EXCEPT !.pc = "off"]
    /\ batchClosed = FALSE /\ gaveUp = {}
    /\ bpc = [b \in BatchCalls |-> "idle"]
    /\ effect = [b \in BatchCalls |-> "none"]
    /\ cl = "open" /\ outcome = "none" /\ ops = 0

-----------------------------------------------------------------------------
(* What Begin, Checkpoint, the batch coordinator and Close share.           *)
Goto(t, l) == pc' = [pc EXCEPT ![t] = l]

(* A publication failure poisons the handle and records the tear itself.    *)
Tear ==
    /\ poisoned' = TRUE
    /\ tears' = tears + 1 /\ takeovers' = takeovers + 1

ReleaseTorn(c) ==
    /\ release' = release \cup {c} /\ writerHeld' = FALSE
    /\ call' = [call EXCEPT ![c] = "none"]
    /\ UNCHANGED <<undone, lockVars, peerLocks, dataGeneration, srv, stopCh, result, ctxDone>>

(* acquireWriteGrant after the grant, and Begin's check under db.mu: the    *)
(* handle must still be open, unpoisoned and on the current data file.      *)
Replaced == dataGeneration # 0
Usable == ~poisoned /\ ~closed /\ ~Replaced

GrantChecks(c, proceed, refuse) ==
    /\ call[c] = "grant"
    /\ IF Usable
       THEN proceed /\ UNCHANGED <<coordVars, poisoned>>
       ELSE /\ refuse /\ Release(c)
            /\ poisoned' = (poisoned \/ (~closed /\ Replaced))

(* How a commit or a checkpoint under the grant ends: it succeeds, it fails *)
(* with nothing written, or it fails half-way through publication.          *)
Publish(c, done) ==
    /\ Release(c) /\ done /\ UNCHANGED poisoned
PublishTorn(c) ==
    /\ Tear /\ ReleaseTorn(c)

-----------------------------------------------------------------------------
(* The callers.  A transaction is begun, and a checkpoint run, in the same   *)
(* way: the fast gates and the coordinator snapshot, the acquisition, the   *)
(* checks under the grant.                                                  *)
others == <<refs, rpc, batchVars, closeVars>>

Begin(t, j) ==    \* j: "begin" a transaction or "beginCheckpoint"
    /\ pc[t] = "idle"
    /\ ~closed /\ ~poisoned /\ ~nilled
    /\ Goto(t, j)
    /\ ctxDone' = ctxDone \ {t}
    /\ UNCHANGED <<lockVars, peerVars, srv, writerHeld, stopCh, call, result, relVars,
                   gateVars, poisoned, lazy, missed, others>>

BeginAcquire(t) ==
    /\ \/ pc[t] = "begin" /\ Goto(t, "acquire")
       \/ pc[t] = "beginCheckpoint" /\ Goto(t, "acquireCheckpoint")
    /\ AcquireWriter(t)
    /\ UNCHANGED <<gateVars, poisoned, lazy, missed, others>>

BeginRefused(t) ==
    /\ pc[t] \in {"acquire", "acquireCheckpoint"} /\ Return(t) /\ Goto(t, "idle")
    /\ UNCHANGED <<gateVars, poisoned, lazy, missed, others>>

BeginGranted(t) ==
    /\ pc[t] \in {"acquire", "acquireCheckpoint"}
    /\ GrantChecks(t, Goto(t, IF pc[t] = "acquire" THEN "tx" ELSE "checkpoint"), Goto(t, "idle"))
    /\ UNCHANGED <<gateVars, lazy, missed, others>>

(* Tx.Commit looks at the gate once, then publishes; a refused transaction  *)
(* is still open and is rolled back by its owner.                           *)
Commit(t) ==
    /\ pc[t] = "tx" /\ Goto(t, IF closed THEN "refused" ELSE "commit")
    /\ UNCHANGED <<coordVars, gateVars, poisoned, lazy, missed, others>>

CommitEnd(t) ==
    /\ pc[t] = "commit" /\ Goto(t, "idle")
    /\ \/ Publish(t, lazy' = TRUE)
       \/ Publish(t, UNCHANGED lazy)
       \/ PublishTorn(t) /\ UNCHANGED lazy
    /\ UNCHANGED <<missed, gateVars, others>>

Rollback(t) ==
    /\ pc[t] \in {"tx", "refused"} /\ Goto(t, "idle") /\ Release(t)
    /\ UNCHANGED <<gateVars, poisoned, lazy, missed, others>>

(* A checkpoint that Close has overtaken goes on with the pager it captured. *)
(* It may still succeed, or find the pager or the file gone; a barrier that  *)
(* fails once Close has cleared db.coord is not recorded (failStep).         *)
CheckpointEnd(t) ==
    /\ pc[t] = "checkpoint" /\ Goto(t, "idle")
    /\ \/ Publish(t, lazy' = FALSE) /\ UNCHANGED missed
       \/ Publish(t, UNCHANGED lazy) /\ UNCHANGED missed
       \/ ~nilled /\ PublishTorn(t) /\ UNCHANGED <<lazy, missed>>
       \/ nilled /\ poisoned' = TRUE /\ missed' = TRUE /\ Release(t) /\ UNCHANGED lazy
    /\ UNCHANGED <<gateVars, others>>

(* A transaction dropped without Commit or Rollback is found by the garbage *)
(* collector; its cleanup enters the close gate in two atomic operations.   *)
Leak(t) ==
    /\ pc[t] = "tx" /\ Goto(t, "leaked")
    /\ UNCHANGED <<coordVars, gateVars, poisoned, lazy, missed, others>>

CleanupEnter(t) ==
    /\ pc[t] = "leaked" /\ Goto(t, "leakEntered")
    /\ txInflight' = txInflight + 1
    /\ UNCHANGED <<coordVars, closed, poisoned, lazy, missed, others>>

CleanupCheck(t) ==
    /\ pc[t] = "leakEntered"
    /\ IF closed
       THEN Goto(t, "idle") /\ txInflight' = txInflight - 1
       ELSE Goto(t, "leakWork") /\ UNCHANGED txInflight
    /\ UNCHANGED <<coordVars, closed, poisoned, lazy, missed, others>>

CleanupRelease(t) ==
    /\ pc[t] = "leakWork" /\ Goto(t, "idle") /\ Release(t)
    /\ txInflight' = txInflight - 1
    /\ UNCHANGED <<closed, poisoned, lazy, missed, others>>

Caller(t) ==
    \/ BeginAcquire(t) \/ BeginRefused(t) \/ BeginGranted(t)
    \/ Commit(t) \/ CommitEnd(t) \/ Rollback(t) \/ CheckpointEnd(t)
    \/ Leak(t) \/ CleanupEnter(t) \/ CleanupCheck(t) \/ CleanupRelease(t)

-----------------------------------------------------------------------------
(* The readers.  BeginRead stays inside the close gate's window while it     *)
(* works on the reader table, and takes its own reference on the lock-file  *)
(* mapping before it leaves.                                                *)
rothers == <<coordVars, lazy, missed, pc, batchVars, closeVars>>
RGoto(r, l) == rpc' = [rpc EXCEPT ![r] = l]

BeginRead(r) ==
    /\ rpc[r] = "idle" /\ ~closed /\ RGoto(r, "begin")
    /\ UNCHANGED <<gateVars, poisoned, refs, rothers>>

ReadEnter(r) ==
    /\ rpc[r] = "begin" /\ RGoto(r, "entered")
    /\ txInflight' = txInflight + 1
    /\ UNCHANGED <<closed, poisoned, refs, rothers>>

ReadCheck(r) ==
    /\ rpc[r] = "entered"
    /\ IF closed \/ poisoned \/ nilled
       THEN RGoto(r, "idle") /\ txInflight' = txInflight - 1
       ELSE RGoto(r, "acquire") /\ UNCHANGED txInflight
    /\ UNCHANGED <<closed, poisoned, refs, rothers>>

(* The slot is taken and the snapshot settled, or some step of that fails,   *)
(* or the data file turns out to have been replaced.                        *)
ReadAcquire(r) ==
    /\ rpc[r] = "acquire" /\ txInflight' = txInflight - 1
    /\ \/ ~Replaced /\ RGoto(r, "open") /\ refs' = refs + 1 /\ UNCHANGED poisoned
       \/ RGoto(r, "idle") /\ UNCHANGED <<refs, poisoned>>
       \/ Replaced /\ RGoto(r, "idle") /\ poisoned' = TRUE /\ UNCHANGED refs
    /\ UNCHANGED <<closed, rothers>>

ReadClose(r) ==
    /\ rpc[r] = "open" /\ RGoto(r, "idle") /\ refs' = refs - 1
    /\ UNCHANGED <<gateVars, poisoned, rothers>>

ReadLeak(r) ==
    /\ rpc[r] = "open" /\ RGoto(r, "leaked")
    /\ UNCHANGED <<gateVars, poisoned, refs, rothers>>

ReadCleanupEnter(r) ==
    /\ rpc[r] = "leaked" /\ RGoto(r, "leakEntered") /\ txInflight' = txInflight + 1
    /\ UNCHANGED <<closed, poisoned, refs, rothers>>

ReadCleanup(r) ==
    /\ rpc[r] = "leakEntered" /\ RGoto(r, "idle")
    /\ refs' = refs - 1 /\ txInflight' = txInflight - 1
    /\ UNCHANGED <<closed, poisoned, rothers>>

Reader(r) ==
    \/ ReadEnter(r) \/ ReadCheck(r) \/ ReadAcquire(r)
    \/ ReadClose(r) \/ ReadLeak(r) \/ ReadCleanupEnter(r) \/ ReadCleanup(r)

-----------------------------------------------------------------------------
(* Batching.  A call is handed over, or its context fires, or the handle     *)
(* closes first; a call handed over waits for its reply whatever happens.    *)
bothers == <<gateVars, refs, pc, rpc, batchClosed, closeVars>>
BatchCancelled == "batch" \in ctxDone
Called == {batch.calls[i] : i \in 1..Len(batch.calls)}

(* replyAll *)
Reply(bs, x) == bpc' = [b \in BatchCalls |-> IF b \in bs THEN x ELSE bpc[b]]

Batch(b) ==
    /\ bpc[b] = "idle" /\ b \notin gaveUp /\ ~batchClosed /\ outcome # "leaked"
    /\ bpc' = [bpc EXCEPT ![b] = "send"]
    /\ batch' = IF batch.pc = "off" THEN NoBatch ELSE batch
    /\ UNCHANGED <<coordVars, poisoned, lazy, missed, gaveUp, effect, bothers>>

BatchAbandon(b) ==
    /\ bpc[b] = "send"
    /\ \/ b \in gaveUp /\ Reply({b}, "cause")
       \/ BatchCancelled /\ Reply({b}, "refused")
    /\ UNCHANGED <<coordVars, poisoned, lazy, missed, batch, gaveUp, effect, bothers>>

BatchCancel(b) ==
    /\ bpc[b] \in {"send", "wait"} /\ b \notin gaveUp
    /\ gaveUp' = gaveUp \cup {b}
    /\ UNCHANGED <<coordVars, poisoned, lazy, missed, batch, bpc, effect, bothers>>

BatchReceive(b) ==
    /\ bpc[b] = "send" /\ batch.pc \in {"recv", "collect"}
    /\ bpc' = [bpc EXCEPT ![b] = "wait"]
    /\ LET calls == Append(batch.calls, b)
       IN batch' = [batch EXCEPT !.calls = calls,
                    !.pc = IF Len(calls) >= MaxBatchSize THEN "run" ELSE "collect"]
    /\ UNCHANGED <<coordVars, poisoned, lazy, missed, gaveUp, effect, bothers>>

CollectEnd ==
    /\ batch.pc = "collect" /\ batch' = [batch EXCEPT !.pc = "run"]
    /\ UNCHANGED <<coordVars, poisoned, lazy, missed, gaveUp, bpc, effect, bothers>>

\* Mutant of RunBatch: a batch collected while the handle closes is dropped.
RunBatchDrops ==
    /\ batch.pc = "run"
    /\ IF BatchCancelled \/ closed \/ poisoned
       THEN batch' = NoBatch /\ UNCHANGED <<coordVars, bpc>>
       ELSE AcquireWriter("batch") /\ batch' = [batch EXCEPT !.pc = "acquire"] /\ UNCHANGED bpc
    /\ UNCHANGED <<poisoned, lazy, missed, gaveUp, effect, bothers>>

RunBatch ==
    /\ batch.pc = "run"
    /\ IF BatchCancelled \/ closed \/ poisoned
       THEN Reply(Called, "refused") /\ batch' = NoBatch /\ UNCHANGED coordVars
       ELSE AcquireWriter("batch") /\ batch' = [batch EXCEPT !.pc = "acquire"] /\ UNCHANGED bpc
    /\ UNCHANGED <<poisoned, lazy, missed, gaveUp, effect, bothers>>

BatchRefused ==
    /\ batch.pc = "acquire" /\ call["batch"] \in Denied
    /\ Reply(Called, "refused") /\ batch' = NoBatch
    /\ UNCHANGED <<coordVars, poisoned, lazy, missed, gaveUp, effect, bothers>>

BatchGranted ==
    /\ batch.pc = "acquire"
    /\ GrantChecks("batch",
           batch' = [batch EXCEPT !.pc = "closures"] /\ UNCHANGED bpc,
           batch' = NoBatch /\ Reply(Called, "refused"))
    /\ UNCHANGED <<lazy, missed, gaveUp, effect, bothers>>

\* Mutant of RunClosure: a closure that succeeds is answered at once.
RunClosureEager ==
    /\ batch.pc = "closures" /\ batch.next <= Len(batch.calls)
    /\ LET b == batch.calls[batch.next]
       IN /\ effect' = [effect EXCEPT ![b] = "child"] /\ Reply({b}, "ok")
          /\ batch' = [batch EXCEPT !.next = @ + 1]
    /\ UNCHANGED <<coordVars, poisoned, lazy, missed, gaveUp, bothers>>

(* One closure in a child transaction of its own.  Its failure (an error, a  *)
(* panic, Goexit, an unresolved grandchild) is its caller's alone; once the  *)
(* gate is closed neither BeginChild nor the child's Commit succeeds.       *)
RunClosure ==
    /\ batch.pc = "closures" /\ batch.next <= Len(batch.calls)
    /\ LET b == batch.calls[batch.next]
           answered(x) == Reply({b}, x) /\ UNCHANGED effect
                          /\ batch' = [batch EXCEPT !.next = @ + 1]
       IN \/ b \in gaveUp /\ answered("cause")
          \/ b \notin gaveUp /\ answered("err")
          \/ b \notin gaveUp /\ closed /\ answered("refused")
          \/ /\ b \notin gaveUp /\ ~closed
             /\ effect' = [effect EXCEPT ![b] = "child"]
             /\ batch' = [batch EXCEPT !.next = @ + 1, !.ok = @ \cup {b}]
             /\ UNCHANGED bpc
    /\ UNCHANGED <<coordVars, poisoned, lazy, missed, gaveUp, bothers>>

Become(x) == effect' = [b \in BatchCalls |-> IF effect[b] = "child" THEN x ELSE effect[b]]

(* The parent's Commit: refused by the closed gate it is rolled back.        *)
BatchCommit ==
    /\ batch.pc = "closures" /\ batch.next > Len(batch.calls)
    /\ IF closed
       THEN /\ Release("batch") /\ Become("none")
            /\ Reply(batch.ok, "refused") /\ batch' = NoBatch
       ELSE batch' = [batch EXCEPT !.pc = "commit"] /\ UNCHANGED <<coordVars, effect, bpc>>
    /\ UNCHANGED <<poisoned, lazy, missed, gaveUp, bothers>>

(* A commit that fails in publication may or may not have become visible.    *)
BatchCommitEnd ==
    /\ batch.pc = "commit" /\ batch' = NoBatch
    /\ \/ Publish("batch", lazy' = TRUE) /\ Become("committed") /\ Reply(batch.ok, "ok")
       \/ Publish("batch", UNCHANGED lazy) /\ Become("none") /\ Reply(batch.ok, "commitErr")
       \/ /\ PublishTorn("batch") /\ UNCHANGED lazy /\ Reply(batch.ok, "commitErr")
          /\ \E x \in {"none", "committed"} : Become(x)
    /\ UNCHANGED <<missed, gaveUp, bothers>>

(* The coordinator leaves when its context is cancelled, or when the ticker  *)
(* finds the handle collected.                                              *)
BatchExit ==
    /\ batch.pc = "recv" /\ (BatchCancelled \/ outcome = "leaked")
    /\ batch' = [batch EXCEPT !.pc = "exit"]
    /\ UNCHANGED <<coordVars, poisoned, lazy, missed, gaveUp, bpc, effect, bothers>>

BatchSteps ==
    \/ CollectEnd \/ RunBatch \/ BatchRefused \/ BatchGranted
    \/ RunClosure \/ BatchCommit \/ BatchCommitEnd \/ BatchExit

-----------------------------------------------------------------------------
(* Close.                                                                   *)
cothers == <<pc, rpc, batch, gaveUp, bpc, effect>>
CGoto(l) == cl' = l
Committing == \E t \in Callers : pc[t] = "commit"

Close ==
    /\ cl = "open" /\ ~Committing
    /\ closed' = TRUE /\ CGoto("stopBatch")
    /\ UNCHANGED <<coordVars, txInflight, poisoned, refs, lazy, missed, batchClosed, nilled, outcome, cothers>>

StopBatch ==
    /\ cl = "stopBatch" /\ batchClosed' = TRUE
    /\ IF batch.pc = "off" THEN UNCHANGED coordVars ELSE CancelCtx("batch")
    /\ CGoto("waitBatch")
    /\ UNCHANGED <<gateVars, poisoned, refs, lazy, missed, nilled, outcome, cothers>>

WaitBatch ==
    /\ cl = "waitBatch" /\ batch.pc \in {"off", "exit"} /\ CGoto("drain")
    /\ UNCHANGED <<coordVars, gateVars, poisoned, refs, lazy, missed, batchClosed, nilled, outcome, cothers>>

\* Mutant of BeginClose: the windows still open are not waited for.
BeginCloseNoDrain ==
    /\ cl \in {"drain", "gcDrain"}
    /\ CGoto(IF cl = "drain" THEN "shutdown" ELSE "stop")
    /\ UNCHANGED <<coordVars, gateVars, poisoned, refs, lazy, missed, batchClosed, nilled, outcome, cothers>>

BeginClose ==
    /\ cl \in {"drain", "gcDrain"} /\ txInflight = 0
    /\ CGoto(IF cl = "drain" THEN "shutdown" ELSE "stop")
    /\ UNCHANGED <<coordVars, gateVars, poisoned, refs, lazy, missed, batchClosed, nilled, outcome, cothers>>

End(x) == outcome' = x /\ CGoto("nil")

\* Mutant of Shutdown: the writer flag is not consulted.
ShutdownBlind ==
    /\ cl = "shutdown"
    /\ IF poisoned THEN End("poisoned") /\ UNCHANGED coordVars
       ELSE AcquireWriter("close") /\ CGoto("acquire") /\ UNCHANGED outcome
    /\ UNCHANGED <<gateVars, poisoned, refs, lazy, missed, batchClosed, nilled, cothers>>

(* The shutdown checkpoint: skipped on a poisoned handle and while a         *)
(* goroutine of this process has the grant, otherwise under the grant.      *)
Shutdown ==
    /\ cl = "shutdown"
    /\ IF poisoned THEN End("poisoned") /\ UNCHANGED coordVars
       ELSE IF writerHeld THEN End("skipped") /\ UNCHANGED coordVars
       ELSE AcquireWriter("close") /\ CGoto("acquire") /\ UNCHANGED outcome
    /\ UNCHANGED <<gateVars, poisoned, refs, lazy, missed, batchClosed, nilled, cothers>>

\* Mutant of ShutdownGranted: a failed acquisition is not reported.
ShutdownGrantedSilent ==
    /\ cl = "acquire"
    /\ \/ /\ call["close"] \in Denied /\ End("ok") /\ UNCHANGED coordVars
       \/ /\ call["close"] = "grant" /\ poisoned /\ Release("close") /\ End("poisoned")
       \/ /\ call["close"] = "grant" /\ ~poisoned /\ Replaced /\ Release("close") /\ End("replaced")
       \/ /\ call["close"] = "grant" /\ ~poisoned /\ ~Replaced
          /\ CGoto("checkpoint") /\ UNCHANGED <<coordVars, outcome>>
    /\ UNCHANGED <<gateVars, poisoned, refs, lazy, missed, batchClosed, nilled, cothers>>

ShutdownGranted ==
    /\ cl = "acquire"
    /\ \/ /\ call["close"] \in Denied /\ End("failed") /\ UNCHANGED coordVars
       \/ /\ call["close"] = "grant" /\ poisoned /\ Release("close") /\ End("poisoned")
       \/ /\ call["close"] = "grant" /\ ~poisoned /\ Replaced /\ Release("close") /\ End("replaced")
       \/ /\ call["close"] = "grant" /\ ~poisoned /\ ~Replaced
          /\ CGoto("checkpoint") /\ UNCHANGED <<coordVars, outcome>>
    /\ UNCHANGED <<gateVars, poisoned, refs, lazy, missed, batchClosed, nilled, cothers>>

ShutdownEnd ==
    /\ cl = "checkpoint"
    /\ \/ Publish("close", lazy' = FALSE) /\ End("ok")
       \/ Publish("close", UNCHANGED lazy) /\ End("failed")
       \/ PublishTorn("close") /\ UNCHANGED lazy /\ End("failed")
    /\ UNCHANGED <<missed, gateVars, refs, batchClosed, nilled, cothers>>

NilPointers ==
    /\ cl = "nil" /\ nilled' = TRUE /\ CGoto("stop")
    /\ UNCHANGED <<coordVars, gateVars, poisoned, refs, lazy, missed, batchClosed, outcome, cothers>>

(* Coord.Close: close the stop channel, wait for the goroutine.              *)
CoordClose ==
    /\ cl = "stop" /\ stopCh' = TRUE /\ CGoto("waitSrv")
    /\ UNCHANGED <<lockVars, peerVars, srv, writerHeld, call, result, relVars, ctxDone,
                   gateVars, poisoned, refs, lazy, missed, batchClosed, nilled, outcome, cothers>>

DropMappings ==
    /\ cl = "waitSrv" /\ srv.pc = "exit"
    /\ refs' = refs - 1 /\ CGoto("done")
    /\ UNCHANGED <<coordVars, gateVars, poisoned, lazy, missed, batchClosed, nilled, outcome, cothers>>

(* dbCleanupFn: the handle became unreachable, so only cleanups still run.  *)
Collected ==
    /\ cl = "open"
    /\ \A t \in Callers : pc[t] \in {"idle", "leaked", "leakEntered", "leakWork"}
    /\ \A r \in Readers : rpc[r] \in {"idle", "leaked", "leakEntered"}
    /\ \A b \in BatchCalls : bpc[b] \notin {"send", "wait"}
    /\ batch.pc \in {"off", "recv"}
    /\ closed' = TRUE /\ outcome' = "leaked" /\ CGoto("gcDrain")
    /\ UNCHANGED <<coordVars, txInflight, poisoned, refs, lazy, missed, batchClosed, nilled, cothers>>

CloseSteps ==
    \/ StopBatch \/ WaitBatch \/ BeginClose \/ Shutdown \/ ShutdownGranted
    \/ ShutdownEnd \/ NilPointers \/ CoordClose \/ DropMappings

-----------------------------------------------------------------------------
handleVars == <<gateVars, poisoned, refs, lazy, missed, pc, rpc, batchVars, closeVars, ops>>

CallSteps(c) == Send(c) \/ GiveUp(c) \/ Receive(c) \/ Drain(c)
CoordSteps == Srv \/ SrvFail \/ Peer \/ \E c \in Clients : CallSteps(c)

(* A caller's context may fire until it has the grant; it may then be seen   *)
(* or not.                                                                  *)
CallerCancel(t) == pc[t] \in {"begin", "beginCheckpoint", "acquire", "acquireCheckpoint"} /\ CancelCtx(t)

(* Every operation begun counts against the bound, the other process's       *)
(* grants included.                                                         *)
NewOp ==
    /\ ops + peerLocks < MaxOps /\ ops' = ops + 1
    /\ \/ \E t \in Callers, j \in {"begin", "beginCheckpoint"} : Begin(t, j)
       \/ \E r \in Readers : BeginRead(r)
       \/ \E b \in BatchCalls : Batch(b)

Step ==
    \/ \E t \in Callers : Caller(t)
    \/ \E r \in Readers : Reader(r)
    \/ \E b \in BatchCalls : BatchAbandon(b) \/ BatchCancel(b) \/ BatchReceive(b)
    \/ BatchSteps
    \/ Close \/ CloseSteps \/ Collected

Next ==
    \/ CoordSteps /\ (ops + peerLocks' <= MaxOps) /\ UNCHANGED handleVars
    \/ \E t \in Callers : CallerCancel(t) /\ UNCHANGED handleVars
    \/ NewOp
    \/ Step /\ UNCHANGED ops

Spec == Init /\ [][Next]_vars

(* Goroutines that can run do run.  The application finishes its             *)
(* transactions and the other process its grants; nothing makes either       *)
(* begin, cancel, leak, fail or close.                                       *)
Fairness ==
    /\ WF_vars(Srv /\ UNCHANGED handleVars)
    /\ WF_vars((PeerClear \/ PeerUnlock) /\ UNCHANGED handleVars)
    /\ \A c \in Clients : WF_vars(CallSteps(c) /\ UNCHANGED handleVars)
    /\ \A t \in Callers : WF_vars(Caller(t) /\ UNCHANGED ops)
    /\ \A r \in Readers : WF_vars(Reader(r) /\ UNCHANGED ops)
    /\ \A b \in BatchCalls : WF_vars((BatchAbandon(b) \/ BatchReceive(b)) /\ UNCHANGED ops)
    /\ WF_vars(BatchSteps /\ UNCHANGED ops)
    /\ WF_vars(CloseSteps /\ UNCHANGED ops)

FairSpec == Spec /\ Fairness

-----------------------------------------------------------------------------
(* The goroutines that are writing to the data file.                        *)
Writers ==
    {t \in Callers : pc[t] \in {"commit", "checkpoint"}}
        \cup {w \in {"batch"} : batch.pc = "commit"}
        \cup {w \in {"close"} : cl = "checkpoint"}

(* Whoever publishes a commit or a checkpoint is alone in this process and   *)
(* has the cross-process lock: it is the client the flock goroutine holds    *)
(* LOCK_EX for, and no fired context takes the grant away between            *)
(* acquireWriteGrant and Release.  The one exception is a Checkpoint that a  *)
(* Close of the same handle overtakes: Close finds the writer flag up, gives *)
(* its own checkpoint up (it never reports it done), clears the pointers and *)
(* stops the goroutine, which drops LOCK_EX under the checkpoint, although   *)
(* Checkpoint "serialises against any concurrent write tx and against        *)
(* Compact".  Until the goroutine is told to stop the lock is held even then.*)
WriteExclusive ==
    \A w \in Writers :
        /\ Writers = {w}
        /\ nilled => w \in Callers /\ pc[w] = "checkpoint" /\ outcome # "ok"
        /\ stopCh => nilled
        /\ ~stopCh => /\ flock = "us" /\ writerPID = "us"
                      /\ srv.pc = "hold" /\ srv.who = w /\ w \notin release
                      /\ refs > 0

(* Nothing touches the lock-file mapping after its last reference is         *)
(* dropped: not a BeginRead that passed the gate, not an open or leaked      *)
(* ReadTx that outlives Close, not the flock goroutine.                      *)
MappedInUse ==
    /\ \A r \in Readers : rpc[r] \in {"acquire", "open", "leaked", "leakEntered"} => refs > 0
    /\ srv.pc # "exit" => refs > 0

(* A Close that reports its shutdown checkpoint done loses no acknowledged   *)
(* commit: none that was acknowledged before it, and no commit or batch is   *)
(* acknowledged after the checkpoint of Close.  Nor has a checkpoint it      *)
(* overtook failed without a tear being recorded for the next writer.       *)
CloseDurable == outcome = "ok" => ~lazy /\ ~missed

(* A batch call is answered truthfully: nil only when the parent commit      *)
(* landed, and any error but the commit's own only when nothing of the       *)
(* closure can ever become visible.                                         *)
BatchTruthful ==
    \A b \in BatchCalls :
        /\ bpc[b] = "ok" => effect[b] = "committed"
        /\ bpc[b] \in {"cause", "refused", "err"} => effect[b] = "none"

(* Close skips the shutdown checkpoint only while some call has the grant or *)
(* is just being handed it, or a cancelled call's grant is being undone; a   *)
(* transaction that has ended never makes it skip.                          *)
SkipJustified ==
    [][outcome' = "skipped" /\ outcome # "skipped" =>
         \E c \in Clients : \/ call[c] \in {"wait", "drain", "grant"}
                            \/ srv.who = c /\ c \in undone]_vars

(* Close returns, whatever the callers, readers, batches, cleanups and the   *)
(* other process were doing when it began.                                  *)
CloseReturns == closed ~> cl = "done"

(* Every call returns: only finitely many operations are begun, and in the   *)
(* end no call to AcquireWriter or Batch is still waiting for its answer.   *)
CallsAnswered ==
    <>[](/\ \A b \in BatchCalls : bpc[b] \notin {"send", "wait"}
         /\ \A c \in Clients : call[c] \notin {"send", "wait", "drain"})
=============================================================================
