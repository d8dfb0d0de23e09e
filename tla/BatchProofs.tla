----------------------------- MODULE BatchProofs -----------------------------
(***************************************************************************)
(* What DB.Batch answers: for any number of calls, of any batch size, with  *)
(* contexts that fire and a Close that comes at any moment.                *)
(***************************************************************************)
EXTENDS HandleProofs

Effects == {"none", "child", "committed"}

\* What an answer says of the closure's writes.  The batch keeps in ok the
\* closures that succeeded, whose callers wait for the parent's commit.
CallTruth(b) ==
    /\ effect[b] = "child" <=> b \in batch.ok
    /\ b \in batch.ok => bpc[b] = "wait"
    /\ bpc[b] = "ok" => effect[b] = "committed"
    /\ bpc[b] \in {"idle", "send", "cause", "refused", "err"} => effect[b] = "none"
    /\ bpc[b] = "wait" => effect[b] # "committed"

\* The calls of the batch that have not had their turn are waiting, and no
\* call is in the batch twice.
Listing ==
    \A i \in 1 .. Len(batch.calls) :
        /\ i >= batch.next => bpc[batch.calls[i]] = "wait" /\ batch.calls[i] \notin batch.ok
        /\ \A j \in 1 .. Len(batch.calls) : i # j => batch.calls[i] # batch.calls[j]

\* No closure has run before the grant, and no call is left over afterwards.
Stages ==
    /\ batch.pc \notin {"closures", "commit"} => batch.next = 1 /\ batch.ok = {}
    /\ batch.pc \in {"off", "recv", "exit"} => batch.calls = << >>

BatchInv ==
    effect \in [BatchCalls -> Effects] /\ (\A b \in BatchCalls : CallTruth(b)) /\ Listing /\ Stages

-----------------------------------------------------------------------------
USE ZenonT(30)

\* There are no calls yet.
LEMMA BatchInit == Init => BatchInv
<1> SUFFICES ASSUME Init PROVE BatchInv
    OBVIOUS
<1>1. batch.pc = "off" /\ batch.calls = << >> /\ batch.next = 1 /\ batch.ok = {}
      BY SMTT(30) DEF Init, NoBatch
<1>2. Stages
      BY <1>1 DEF Stages
<1>3. Listing
      BY SMTT(30), <1>1 DEF Listing
<1>4. effect \in [BatchCalls -> Effects] /\ \A b \in BatchCalls : CallTruth(b)
      BY <1>1 DEF Init, Effects, CallTruth
<1> QED BY <1>2, <1>3, <1>4 DEF BatchInv

\* Nothing of the batch changes.
LEMMA BatchStutter ==
    ASSUME BatchInv, UNCHANGED <<batch, bpc, effect>>
    PROVE  BatchInv'
<1>1. effect' \in [BatchCalls -> Effects] /\ \A b \in BatchCalls : CallTruth(b)'
      BY DEF BatchInv, CallTruth
<1>2. Listing' /\ Stages'
      BY SMTT(30) DEF BatchInv, Listing, Stages
<1> QED BY <1>1, <1>2 DEF BatchInv

\* The coordinator goes on to its next stage.
LEMMA BatchProceeds ==
    ASSUME PhaseType, BatchInv, NEW x \in BatchPcs, batch' = [batch EXCEPT !.pc = x],
           UNCHANGED <<bpc, effect>>,
           x \in {"closures", "commit"} \/ batch.pc \notin {"closures", "commit"},
           x \in {"off", "recv", "exit"} => batch.pc \in {"off", "recv", "exit"}
    PROVE  BatchInv'
<1>1. /\ batch'.pc = x /\ batch'.calls = batch.calls
      /\ batch'.next = batch.next /\ batch'.ok = batch.ok
      BY BatchGoes DEF PhaseType
<1>2. effect' \in [BatchCalls -> Effects] /\ \A b \in BatchCalls : CallTruth(b)'
      BY <1>1 DEF BatchInv, CallTruth
<1>3. Listing'
      BY SMTT(30), <1>1 DEF BatchInv, Listing
<1>4. Stages'
      BY <1>1 DEF BatchInv, Stages
<1> QED BY <1>2, <1>3, <1>4 DEF BatchInv

\* A batch is over when every call of it has its answer.
LEMMA BatchOver ==
    ASSUME batch' = NoBatch, effect' \in [BatchCalls -> Effects],
           \A b \in BatchCalls : /\ effect'[b] # "child"
                                 /\ bpc'[b] = "ok" => effect'[b] = "committed"
                                 /\ bpc'[b] \in {"idle", "send", "cause", "refused", "err"}
                                        => effect'[b] = "none"
                                 /\ bpc'[b] = "wait" => effect'[b] # "committed"
    PROVE  BatchInv'
<1>1. batch'.pc = "recv" /\ batch'.calls = << >> /\ batch'.next = 1 /\ batch'.ok = {}
      BY NoBatchParts
<1>2. Stages'
      BY <1>1 DEF Stages
<1>3. Listing'
      BY SMTT(30), <1>1 DEF Listing
<1>4. \A b \in BatchCalls : CallTruth(b)'
      BY <1>1 DEF CallTruth
<1> QED BY <1>2, <1>3, <1>4 DEF BatchInv

\* A batch that is refused before its closures ran: no call in it has written
\* anything.
LEMMA BatchTurnedDown ==
    ASSUME PhaseType, BatchInv, batch.pc \in {"run", "acquire"}, batch' = NoBatch,
           Reply(Called, "refused"), UNCHANGED effect
    PROVE  BatchInv'
<1>1. batch.next = 1 /\ batch.ok = {}
      BY DEF BatchInv, Stages
<1>2. \A b \in Called : b \in BatchCalls /\ bpc[b] = "wait"
  <2>1. \A i \in 1 .. Len(batch.calls) : batch.calls[i] \in BatchCalls /\ i >= 1
        BY SMTT(30) DEF PhaseType, BatchStates
  <2> QED BY <1>1, <2>1 DEF Called, BatchInv, Listing
<1>3. effect \in [BatchCalls -> Effects] /\ \A b \in BatchCalls : CallTruth(b)
      BY DEF BatchInv
<1>4. \A b \in BatchCalls : effect[b] # "child"
      BY <1>1, <1>3 DEF CallTruth
<1>5. \A b \in BatchCalls : bpc[b] = "wait" => effect[b] = "none"
      BY <1>3, <1>4 DEF CallTruth, Effects
<1>6. \A b \in BatchCalls : bpc'[b] = IF b \in Called THEN "refused" ELSE bpc[b]
      BY DEF Reply
<1>7. \A b \in BatchCalls : /\ bpc'[b] = "ok" => effect[b] = "committed"
                            /\ bpc'[b] \in {"idle", "send", "cause", "refused", "err"}
                                   => effect[b] = "none"
                            /\ bpc'[b] = "wait" => effect[b] # "committed"
      BY <1>2, <1>3, <1>5, <1>6 DEF CallTruth
<1> QED BY <1>3, <1>4, <1>7, BatchOver

\* The end of the parent transaction: the closures that succeeded share its
\* fate, and their callers are told.
LEMMA BatchSettles ==
    ASSUME PhaseType, BatchInv, batch' = NoBatch, NEW a \in Replies, NEW x \in {"none", "committed"},
           Reply(batch.ok, a), Become(x), a = "ok" => x = "committed",
           a # "ok" => a = "commitErr" \/ x = "none"
    PROVE  BatchInv'
<1>1. effect \in [BatchCalls -> Effects] /\ \A b \in BatchCalls : CallTruth(b)
      BY DEF BatchInv
<1>2. /\ effect' \in [BatchCalls -> Effects]
      /\ \A b \in BatchCalls : effect'[b] = IF b \in batch.ok THEN x ELSE effect[b]
      BY <1>1 DEF Become, Effects, CallTruth
<1>3. \A b \in BatchCalls : bpc'[b] = IF b \in batch.ok THEN a ELSE bpc[b]
      BY DEF Reply
<1>4. ASSUME NEW b \in BatchCalls
      PROVE  /\ effect'[b] # "child"
             /\ bpc'[b] = "ok" => effect'[b] = "committed"
             /\ bpc'[b] \in {"idle", "send", "cause", "refused", "err"} => effect'[b] = "none"
             /\ bpc'[b] = "wait" => effect'[b] # "committed"
  <2>1. CASE b \in batch.ok
        BY <1>2, <1>3, <2>1 DEF Replies
  <2>2. CASE b \notin batch.ok
        BY <1>1, <1>2, <1>3, <2>2 DEF CallTruth
  <2> QED BY <2>1, <2>2
<1> QED BY <1>2, <1>4, BatchOver

\* A call that is not in the batch changes: it is made, or it leaves before
\* it is handed over.
LEMMA OutsideBatch ==
    ASSUME PhaseType, BatchInv, NEW c \in BatchCalls, bpc[c] \in {"idle", "send"},
           NEW x \in {"send", "cause", "refused"},
           bpc'[c] = x, \A b \in BatchCalls \ {c} : bpc'[b] = bpc[b], UNCHANGED effect,
           batch' = batch \/ (batch' = NoBatch /\ batch.pc = "off")
    PROVE  BatchInv'
<1>1. effect \in [BatchCalls -> Effects] /\ (\A b \in BatchCalls : CallTruth(b)) /\ Listing /\ Stages
      BY DEF BatchInv
<1>2. /\ batch'.calls = batch.calls /\ batch'.next = batch.next /\ batch'.ok = batch.ok
      /\ batch'.pc = batch.pc \/ (batch'.pc = "recv" /\ batch.pc = "off")
      BY <1>1, NoBatchParts DEF Stages
<1>3. \A b \in BatchCalls : CallTruth(b)'
  <2> SUFFICES ASSUME NEW b \in BatchCalls PROVE CallTruth(b)'
      OBVIOUS
  <2>1. CASE b = c
        BY <1>1, <1>2, <2>1 DEF CallTruth
  <2>2. CASE b # c
        BY <1>1, <1>2, <2>2 DEF CallTruth
  <2> QED BY <2>1, <2>2
<1>4. Listing'
  <2>1. \A i \in 1 .. Len(batch.calls) : batch.calls[i] \in BatchCalls
        BY SMTT(30) DEF PhaseType, BatchStates
  <2>2. \A i \in 1 .. Len(batch.calls) : i >= batch.next => bpc'[batch.calls[i]] = "wait"
        BY <1>1, <2>1 DEF Listing
  <2> QED BY SMTT(30), <1>1, <1>2, <2>2 DEF Listing
<1>5. Stages'
      BY <1>1, <1>2 DEF Stages
<1> QED BY <1>1, <1>3, <1>4, <1>5 DEF BatchInv

\* A call is handed over to the coordinator and waits.
LEMMA BatchTakesIn ==
    ASSUME PhaseType, BatchInv, NEW c \in BatchCalls, BatchReceive(c)
    PROVE  BatchInv'
<1>0. /\ effect \in [BatchCalls -> Effects] /\ (\A b \in BatchCalls : CallTruth(b))
      /\ Listing /\ Stages /\ batch \in BatchStates
      BY DEF BatchInv, PhaseType
<1>1. /\ bpc[c] = "send" /\ batch.pc \in {"recv", "collect"} /\ bpc' = [bpc EXCEPT ![c] = "wait"]
      /\ UNCHANGED effect
      /\ \E x \in {"run", "collect"} :
             batch' = [batch EXCEPT !.calls = Append(batch.calls, c), !.pc = x]
      BY DEF BatchReceive
<1>2. /\ batch'.pc \in {"run", "collect"} /\ batch'.calls = Append(batch.calls, c)
      /\ batch'.next = batch.next /\ batch'.ok = batch.ok
      BY <1>0, <1>1, BatchJoins DEF BatchPcs
<1>3. batch.next = 1 /\ batch.ok = {}
      BY <1>0, <1>1 DEF Stages
<1>4. bpc'[c] = "wait" /\ \A b \in BatchCalls : b # c => bpc'[b] = bpc[b]
      BY <1>1 DEF PhaseType
<1>5. \A b \in BatchCalls : CallTruth(b)'
  <2> SUFFICES ASSUME NEW b \in BatchCalls PROVE CallTruth(b)'
      OBVIOUS
  <2>1. CASE b = c
        BY <1>0, <1>1, <1>2, <1>3, <1>4, <2>1 DEF CallTruth
  <2>2. CASE b # c
        BY <1>0, <1>1, <1>2, <1>3, <1>4, <2>2 DEF CallTruth
  <2> QED BY <2>1, <2>2
<1>6. Listing'
  <2>1. /\ Len(batch'.calls) = Len(batch.calls) + 1 /\ Len(batch.calls) \in Nat
        /\ batch'.calls[Len(batch.calls) + 1] = c
        /\ \A i \in 1 .. Len(batch.calls) : batch'.calls[i] = batch.calls[i]
        BY SMTT(30), <1>0, <1>2 DEF BatchStates
  <2>2. \A i \in 1 .. Len(batch.calls) :
            batch.calls[i] \in BatchCalls /\ batch.calls[i] # c /\ bpc[batch.calls[i]] = "wait"
    <3>1. \A i \in 1 .. Len(batch.calls) : batch.calls[i] \in BatchCalls /\ i >= 1
          BY SMTT(30), <1>0 DEF BatchStates
    <3> QED BY <1>0, <1>1, <1>3, <3>1 DEF Listing
  <2>3. \A i \in 1 .. Len(batch'.calls) : bpc'[batch'.calls[i]] = "wait"
    <3>1. \A i \in 1 .. Len(batch'.calls) : i \in 1 .. Len(batch.calls) \/ i = Len(batch.calls) + 1
          BY SMTT(30), <2>1
    <3> QED BY <1>4, <2>1, <2>2, <3>1
  <2>4. ASSUME NEW i \in 1 .. Len(batch'.calls), NEW j \in 1 .. Len(batch'.calls), i # j
        PROVE  batch'.calls[i] # batch'.calls[j]
    <3>1. i \in 1 .. Len(batch.calls) \/ i = Len(batch.calls) + 1
          BY SMTT(30), <2>1
    <3>2. j \in 1 .. Len(batch.calls) \/ j = Len(batch.calls) + 1
          BY SMTT(30), <2>1
    <3> QED BY <1>0, <2>1, <2>2, <2>4, <3>1, <3>2 DEF Listing
  <2> QED BY <1>2, <1>3, <2>3, <2>4 DEF Listing
<1>7. Stages'
      BY <1>2, <1>3 DEF Stages
<1> QED BY <1>0, <1>1, <1>5, <1>6, <1>7 DEF BatchInv

\* One closure: its failure is answered at once, its success waits for the
\* commit.
LEMMA BatchRuns ==
    ASSUME PhaseType, BatchInv, RunClosure
    PROVE  BatchInv'
<1>0. /\ effect \in [BatchCalls -> Effects] /\ (\A b \in BatchCalls : CallTruth(b))
      /\ Listing /\ Stages /\ batch \in BatchStates
      BY DEF BatchInv, PhaseType
<1> DEFINE c == batch.calls[batch.next]
<1>1. batch.pc = "closures" /\ batch.next <= Len(batch.calls)
      BY DEF RunClosure
<1>2. batch.next \in 1 .. Len(batch.calls) /\ c \in BatchCalls /\ batch.next >= batch.next
      BY SMTT(30), <1>0, <1>1 DEF BatchStates
<1>3. bpc[c] = "wait" /\ c \notin batch.ok
      BY <1>0, <1>2 DEF Listing
<1>4. effect[c] = "none"
      BY <1>0, <1>2, <1>3 DEF CallTruth, Effects
<1>5. \/ /\ \E x \in {"cause", "err", "refused"} : Reply({c}, x)
         /\ UNCHANGED effect /\ batch' = [batch EXCEPT !.next = @ + 1]
      \/ /\ effect' = [effect EXCEPT ![c] = "child"] /\ UNCHANGED bpc
         /\ batch' = [batch EXCEPT !.next = @ + 1, !.ok = @ \cup {c}]
      BY DEF RunClosure
<1> HIDE DEF c
<1>6. /\ effect' \in [BatchCalls -> Effects]
      /\ \A b \in BatchCalls : b # c => bpc'[b] = bpc[b] /\ effect'[b] = effect[b]
      /\ batch'.pc = batch.pc /\ batch'.calls = batch.calls /\ batch'.next = batch.next + 1
      /\ \/ bpc'[c] \in {"cause", "err", "refused"} /\ effect'[c] = "none" /\ batch'.ok = batch.ok
         \/ bpc'[c] = "wait" /\ effect'[c] = "child" /\ batch'.ok = batch.ok \cup {c}
  <2>1. CASE /\ \E x \in {"cause", "err", "refused"} : Reply({c}, x)
             /\ UNCHANGED effect /\ batch' = [batch EXCEPT !.next = @ + 1]
    <3>0. batch' = [batch EXCEPT !.next = @ + 1] /\ {} \in SUBSET BatchCalls
          BY <2>1
    <3>1. /\ batch'.pc = batch.pc /\ batch'.calls = batch.calls /\ batch'.next = batch.next + 1
          /\ batch'.ok = batch.ok \cup {}
          BY <1>0, <3>0, BatchAdvances
    <3>2. bpc'[c] \in {"cause", "err", "refused"} /\ \A b \in BatchCalls : b # c => bpc'[b] = bpc[b]
          BY <1>2, <2>1 DEF Reply
    <3> QED BY <1>0, <1>4, <2>1, <3>1, <3>2
  <2>2. CASE /\ effect' = [effect EXCEPT ![c] = "child"] /\ UNCHANGED bpc
             /\ batch' = [batch EXCEPT !.next = @ + 1, !.ok = @ \cup {c}]
    <3>1. /\ batch'.pc = batch.pc /\ batch'.calls = batch.calls /\ batch'.next = batch.next + 1
          /\ batch'.ok = batch.ok \cup {c}
          BY <1>0, <1>2, <2>2, BatchAdvances
    <3> QED BY <1>0, <1>2, <1>3, <2>2, <3>1 DEF Effects
  <2> QED BY <1>5, <2>1, <2>2 DEF c
<1>7. \A b \in BatchCalls : CallTruth(b)'
  <2> SUFFICES ASSUME NEW b \in BatchCalls PROVE CallTruth(b)'
      OBVIOUS
  <2>1. CASE b = c
        BY <1>3, <1>6, <2>1 DEF CallTruth
  <2>2. CASE b # c
        BY <1>0, <1>6, <2>2 DEF CallTruth
  <2> QED BY <2>1, <2>2
<1>8. Listing'
  <2>1. ASSUME NEW i \in 1 .. Len(batch.calls), i >= batch.next + 1
        PROVE  bpc'[batch.calls[i]] = "wait" /\ batch.calls[i] \notin batch'.ok
    <3>1. i >= batch.next /\ i # batch.next /\ batch.calls[i] \in BatchCalls
          BY SMTT(30), <1>0, <2>1 DEF BatchStates
    <3>2. batch.calls[i] # c
          BY <1>0, <1>2, <3>1 DEF Listing, c
    <3> QED BY <1>0, <1>6, <3>1, <3>2 DEF Listing
  <2> QED BY SMTT(30), <1>0, <1>6, <2>1 DEF Listing
<1>9. Stages'
      BY <1>1, <1>6 DEF Stages
<1> QED BY <1>6, <1>7, <1>8, <1>9 DEF BatchInv

\* Every step keeps the batch's books.
LEMMA BatchNext == PhaseInv /\ BatchInv /\ [Next]_vars => BatchInv'
<1> SUFFICES ASSUME PhaseInv, BatchInv, [Next]_vars PROVE BatchInv'
    OBVIOUS
<1>0. PhaseType
      BY DEF PhaseInv
<1>1. CASE UNCHANGED handleVars
      BY <1>1, BatchStutter DEF handleVars, batchVars
<1>2. CASE UNCHANGED vars
      BY <1>2, BatchStutter DEF vars, batchVars
<1>3. ASSUME NEW t \in Callers, Caller(t) \/ \E j \in {"begin", "beginCheckpoint"} : Begin(t, j)
      PROVE  BatchInv'
      BY <1>3, BatchStutter DEF Begin, Caller, BeginAcquire, BeginRefused, BeginGranted, Commit, CommitEnd,
         Rollback, CheckpointEnd, Leak, CleanupEnter, CleanupCheck, CleanupRelease, others, batchVars
<1>4. ASSUME NEW r \in Readers, Reader(r) \/ BeginRead(r) PROVE BatchInv'
      BY <1>4, BatchStutter DEF Reader, BeginRead, ReadEnter, ReadCheck, ReadAcquire, ReadClose, ReadLeak,
         ReadCleanupEnter, ReadCleanup, rothers, batchVars
<1>5. CASE Close \/ CloseSteps \/ Collected
      BY <1>5, BatchStutter DEF Close, Collected, CloseSteps, StopBatch, WaitBatch, BeginClose, Shutdown,
         ShutdownGranted, ShutdownEnd, NilPointers, CoordClose, DropMappings, cothers
<1>6. ASSUME NEW b \in BatchCalls, Batch(b) \/ BatchAbandon(b) \/ BatchCancel(b) \/ BatchReceive(b)
      PROVE  BatchInv'
  <2>1. CASE Batch(b)
    <3>1. /\ bpc[b] = "idle" /\ bpc' = [bpc EXCEPT ![b] = "send"] /\ UNCHANGED effect
          /\ batch' = batch \/ (batch' = NoBatch /\ batch.pc = "off")
          BY <2>1 DEF Batch
    <3>2. bpc'[b] = "send" /\ \A c \in BatchCalls \ {b} : bpc'[c] = bpc[c]
          BY <1>0, <3>1 DEF PhaseType
    <3> QED BY <1>0, <3>1, <3>2, OutsideBatch
  <2>2. CASE BatchAbandon(b)
    <3>1. /\ bpc[b] = "send" /\ UNCHANGED <<batch, effect>>
          /\ \E x \in {"cause", "refused"} : Reply({b}, x)
          BY <2>2 DEF BatchAbandon
    <3>2. bpc'[b] \in {"cause", "refused"} /\ \A c \in BatchCalls \ {b} : bpc'[c] = bpc[c]
          BY <3>1 DEF Reply
    <3> QED BY <1>0, <3>1, <3>2, OutsideBatch
  <2>3. CASE BatchCancel(b)
        BY <2>3, BatchStutter DEF BatchCancel
  <2>4. CASE BatchReceive(b)
        BY <1>0, <2>4, BatchTakesIn
  <2> QED BY <1>6, <2>1, <2>2, <2>3, <2>4
<1>7. CASE BatchSteps
  <2>1. CASE CollectEnd
    <3>1. /\ batch.pc = "collect" /\ batch' = [batch EXCEPT !.pc = "run"] /\ UNCHANGED <<bpc, effect>>
          /\ "run" \in BatchPcs
          BY <2>1 DEF CollectEnd, BatchPcs
    <3> QED BY <1>0, <3>1, BatchProceeds
  <2>2. CASE RunBatch
    <3>1. /\ batch.pc = "run" /\ UNCHANGED effect /\ "acquire" \in BatchPcs
          /\ \/ Reply(Called, "refused") /\ batch' = NoBatch
             \/ batch' = [batch EXCEPT !.pc = "acquire"] /\ UNCHANGED bpc
          BY <2>2 DEF RunBatch, BatchPcs
    <3> QED BY <1>0, <3>1, BatchProceeds, BatchTurnedDown
  <2>3. CASE BatchRefused
        BY <1>0, <2>3, BatchTurnedDown DEF BatchRefused
  <2>4. CASE BatchGranted
    <3>1. /\ batch.pc = "acquire" /\ UNCHANGED effect /\ "closures" \in BatchPcs
          /\ \/ Reply(Called, "refused") /\ batch' = NoBatch
             \/ batch' = [batch EXCEPT !.pc = "closures"] /\ UNCHANGED bpc
          BY <2>4 DEF BatchGranted, GrantChecks, BatchPcs
    <3> QED BY <1>0, <3>1, BatchProceeds, BatchTurnedDown
  <2>5. CASE RunClosure
        BY <1>0, <2>5, BatchRuns
  <2>6. CASE BatchCommit
    <3>1. /\ batch.pc = "closures" /\ "commit" \in BatchPcs /\ "refused" \in Replies
          /\ \/ Become("none") /\ Reply(batch.ok, "refused") /\ batch' = NoBatch
             \/ batch' = [batch EXCEPT !.pc = "commit"] /\ UNCHANGED <<effect, bpc>>
          BY <2>6 DEF BatchCommit, BatchPcs, Replies
    <3> QED BY <1>0, <3>1, BatchProceeds, BatchSettles
  <2>7. CASE BatchCommitEnd
    <3>1. batch' = NoBatch /\ "ok" \in Replies /\ "commitErr" \in Replies
          BY <2>7 DEF BatchCommitEnd, Replies
    <3>2. \/ Become("committed") /\ Reply(batch.ok, "ok")
          \/ Reply(batch.ok, "commitErr") /\ \E x \in {"none", "committed"} : Become(x)
          BY <2>7 DEF BatchCommitEnd
    <3> QED BY <1>0, <3>1, <3>2, BatchSettles
  <2>8. CASE BatchExit
    <3>1. /\ batch.pc = "recv" /\ batch' = [batch EXCEPT !.pc = "exit"] /\ UNCHANGED <<bpc, effect>>
          /\ "exit" \in BatchPcs
          BY <2>8 DEF BatchExit, BatchPcs
    <3> QED BY <1>0, <3>1, BatchProceeds
  <2> QED BY <1>7, <2>1, <2>2, <2>3, <2>4, <2>5, <2>6, <2>7, <2>8 DEF BatchSteps
<1>8. CASE NewOp
      BY <1>3, <1>4, <1>6, <1>8 DEF NewOp
<1>9. CASE Step
      BY <1>3, <1>4, <1>5, <1>6, <1>7, <1>9 DEF Step
<1> QED BY <1>1, <1>2, <1>8, <1>9 DEF Next

\* DB.Batch answers truthfully: nil only when the parent commit has landed
\* with the closure in it, and an error other than the commit's own only when
\* nothing of the closure is in the parent, now or later.
THEOREM BatchTruthfulAlways == Spec => []BatchTruthful
<1>1. Init => PhaseInv /\ BatchInv
      BY PhaseInit, BatchInit
<1>2. (PhaseInv /\ BatchInv) /\ [Next]_vars => (PhaseInv /\ BatchInv)'
      BY PhaseNext, BatchNext
<1>3. BatchInv => BatchTruthful
      BY DEF BatchInv, CallTruth, BatchTruthful
<1> QED BY <1>1, <1>2, <1>3, PTL DEF Spec
=============================================================================
