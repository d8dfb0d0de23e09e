---------------------------- MODULE MappingProofs ----------------------------
(***************************************************************************)
(* The close gate and the lock-file mapping: nobody works on a mapping that *)
(* is gone, and whoever writes to the data file does so alone.             *)
(***************************************************************************)
EXTENDS HandleProofs

\* The window of the close gate is as wide as those inside it are many ...
InsideC == {t \in Callers : pc[t] \in {"leakEntered", "leakWork"}}
InsideR == {r \in Readers : rpc[r] \in {"entered", "acquire", "leakEntered"}}
\* ... and the mapping has a reference for each read transaction, and one of
\* the handle's until the end of Close.
Mapping == {r \in Readers : rpc[r] \in {"open", "leaked", "leakEntered"}}

MapInv ==
    /\ rpc \in [Readers -> {"idle", "begin", "entered", "acquire", "open", "leaked", "leakEntered"}]
    /\ txInflight = Cardinality(InsideC) + Cardinality(InsideR)
    /\ refs = Cardinality(Mapping) + (IF cl = "done" THEN 0 ELSE 1)
    /\ \A r \in Readers : rpc[r] = "acquire" => cl \in Before \cup {"drain", "gcDrain"}

-----------------------------------------------------------------------------
USE ZenonT(30)

\* One element more, one element less.
LEMMA OneMore ==
    ASSUME NEW S, NEW T, NEW x, IsFiniteSet(S), x \notin S, T = S \cup {x}
    PROVE  IsFiniteSet(T) /\ Cardinality(S) \in Nat /\ Cardinality(T) = Cardinality(S) + 1
BY FS_AddElement, FS_CardinalityType

\* (see OneMore)
LEMMA OneLess ==
    ASSUME NEW S, NEW T, NEW x, IsFiniteSet(S), x \in S, T = S \ {x}
    PROVE  IsFiniteSet(T) /\ Cardinality(T) \in Nat /\ Cardinality(S) = Cardinality(T) + 1
<1>1. IsFiniteSet(T) /\ Cardinality(T) = Cardinality(S) - 1 /\ Cardinality(S) \in Nat
          /\ Cardinality(T) \in Nat
      BY FS_RemoveElement, FS_CardinalityType
<1> QED BY SMTT(30), <1>1

\* The sets counted are finite.
LEMMA CountsFinite ==
    /\ IsFiniteSet(InsideC) /\ Cardinality(InsideC) \in Nat
    /\ IsFiniteSet(InsideR) /\ Cardinality(InsideR) \in Nat
    /\ IsFiniteSet(Mapping) /\ Cardinality(Mapping) \in Nat
<1>1. InsideC \subseteq Callers /\ InsideR \subseteq Readers /\ Mapping \subseteq Readers
      BY DEF InsideC, InsideR, Mapping
<1>2. IsFiniteSet(InsideC) /\ IsFiniteSet(InsideR) /\ IsFiniteSet(Mapping)
      BY <1>1, HandleAssumption, FS_Subset
<1> QED BY <1>2, FS_CardinalityType

\* Nobody is counted when the handle is opened.
LEMMA MapInit == Init => MapInv
<1> SUFFICES ASSUME Init PROVE MapInv
    OBVIOUS
<1>1. InsideC = {} /\ InsideR = {} /\ Mapping = {}
      BY DEF Init, InsideC, InsideR, Mapping
<1>2. Cardinality({}) = 0
      BY FS_EmptySet
<1>3. cl = "open" /\ refs = 1 /\ txInflight = 0
      BY DEF Init
<1>4. txInflight = Cardinality(InsideC) + Cardinality(InsideR)
      BY SMTT(30), <1>1, <1>2, <1>3
<1>5. refs = Cardinality(Mapping) + (IF cl = "done" THEN 0 ELSE 1)
      BY SMTT(30), <1>1, <1>2, <1>3
<1>6. /\ rpc \in [Readers -> {"idle", "begin", "entered", "acquire", "open", "leaked", "leakEntered"}]
      /\ \A r \in Readers : rpc[r] = "acquire" => cl \in Before \cup {"drain", "gcDrain"}
      BY DEF Init
<1> QED BY <1>4, <1>5, <1>6 DEF MapInv

\* A step of a caller: the window widens or narrows with its cleanup.
LEMMA MapCaller ==
    ASSUME PhaseInv, MapInv, NEW t \in Callers, NEW l \in CallerPcs, pc' = [pc EXCEPT ![t] = l],
           \/ /\ pc[t] \notin {"leakEntered", "leakWork"} /\ l \notin {"leakEntered", "leakWork"}
              /\ UNCHANGED txInflight
           \/ /\ pc[t] \in {"leakEntered", "leakWork"} /\ l \in {"leakEntered", "leakWork"}
              /\ UNCHANGED txInflight
           \/ /\ pc[t] \notin {"leakEntered", "leakWork"} /\ l \in {"leakEntered", "leakWork"}
              /\ txInflight' = txInflight + 1
           \/ /\ pc[t] \in {"leakEntered", "leakWork"} /\ l \notin {"leakEntered", "leakWork"}
              /\ txInflight' = txInflight - 1,
           UNCHANGED <<rpc, refs, cl>>
    PROVE  MapInv'
<1>0. pc \in [Callers -> CallerPcs]
      BY DEF PhaseInv, PhaseType
<1>1. pc'[t] = l /\ \A u \in Callers : u # t => pc'[u] = pc[u]
      BY <1>0
<1>2. UNCHANGED <<InsideR, Mapping>>
      BY DEF InsideR, Mapping
<1>3. txInflight' = Cardinality(InsideC') + Cardinality(InsideR')
  <2>0. txInflight = Cardinality(InsideC) + Cardinality(InsideR)
        BY DEF MapInv
  <2>1. CASE /\ UNCHANGED txInflight
             /\ pc[t] \in {"leakEntered", "leakWork"} <=> l \in {"leakEntered", "leakWork"}
    <3>1. InsideC' = InsideC
          BY <1>1, <2>1 DEF InsideC
    <3> QED BY <1>2, <2>0, <2>1, <3>1
  <2>2. CASE /\ pc[t] \notin {"leakEntered", "leakWork"} /\ l \in {"leakEntered", "leakWork"}
             /\ txInflight' = txInflight + 1
    <3>1. InsideC' = InsideC \cup {t} /\ t \notin InsideC
          BY <1>1, <2>2 DEF InsideC
    <3>2. Cardinality(InsideC') = Cardinality(InsideC) + 1
          BY <3>1, OneMore, CountsFinite
    <3> QED BY SMTT(30), <1>2, <2>0, <2>2, <3>2, CountsFinite
  <2>3. CASE /\ pc[t] \in {"leakEntered", "leakWork"} /\ l \notin {"leakEntered", "leakWork"}
             /\ txInflight' = txInflight - 1
    <3>1. InsideC' = InsideC \ {t} /\ t \in InsideC
          BY <1>1, <2>3 DEF InsideC
    <3>2. Cardinality(InsideC) = Cardinality(InsideC') + 1 /\ Cardinality(InsideC') \in Nat
          BY <3>1, OneLess, CountsFinite
    <3> QED BY SMTT(30), <1>2, <2>0, <2>3, <3>2, CountsFinite
  <2> QED BY <2>1, <2>2, <2>3
<1> QED BY <1>2, <1>3 DEF MapInv

\* The labels under which a reader is in the window, or has a reference.
Windowed == {"entered", "acquire", "leakEntered"}
Referring == {"open", "leaked", "leakEntered"}

\* A step of a reader: the window ...
LEMMA WindowReader ==
    ASSUME MapInv, NEW r \in Readers, NEW l, rpc' = [rpc EXCEPT ![r] = l], UNCHANGED pc,
           \/ (rpc[r] \in Windowed <=> l \in Windowed) /\ UNCHANGED txInflight
           \/ rpc[r] \notin Windowed /\ l \in Windowed /\ txInflight' = txInflight + 1
           \/ rpc[r] \in Windowed /\ l \notin Windowed /\ txInflight' = txInflight - 1
    PROVE  txInflight' = Cardinality(InsideC') + Cardinality(InsideR')
<1>0. txInflight = Cardinality(InsideC) + Cardinality(InsideR)
      BY DEF MapInv
<1>1. rpc'[r] = l /\ \A q \in Readers : q # r => rpc'[q] = rpc[q]
      BY DEF MapInv
<1>2. UNCHANGED InsideC
      BY DEF InsideC
<1> USE DEF InsideR, Windowed
<1>3. CASE (rpc[r] \in Windowed <=> l \in Windowed) /\ UNCHANGED txInflight
  <2>1. InsideR' = InsideR
        BY <1>1, <1>3
  <2> QED BY <1>0, <1>2, <1>3, <2>1
<1>4. CASE rpc[r] \notin Windowed /\ l \in Windowed /\ txInflight' = txInflight + 1
  <2>1. InsideR' = InsideR \cup {r} /\ r \notin InsideR
        BY <1>1, <1>4
  <2> HIDE DEF InsideR
  <2>2. Cardinality(InsideR') = Cardinality(InsideR) + 1
        BY <2>1, OneMore, CountsFinite
  <2> QED BY SMTT(30), <1>0, <1>2, <1>4, <2>2, CountsFinite
<1>5. CASE rpc[r] \in Windowed /\ l \notin Windowed /\ txInflight' = txInflight - 1
  <2>1. InsideR' = InsideR \ {r} /\ r \in InsideR
        BY <1>1, <1>5
  <2> HIDE DEF InsideR
  <2>2. Cardinality(InsideR) = Cardinality(InsideR') + 1 /\ Cardinality(InsideR') \in Nat
        BY <2>1, OneLess, CountsFinite
  <2> QED BY SMTT(30), <1>0, <1>2, <1>5, <2>2, CountsFinite
<1> QED BY <1>3, <1>4, <1>5

\* ... and the references.
LEMMA RefsReader ==
    ASSUME MapInv, NEW r \in Readers, NEW l, rpc' = [rpc EXCEPT ![r] = l], UNCHANGED cl,
           \/ (rpc[r] \in Referring <=> l \in Referring) /\ UNCHANGED refs
           \/ rpc[r] \notin Referring /\ l \in Referring /\ refs' = refs + 1
           \/ rpc[r] \in Referring /\ l \notin Referring /\ refs' = refs - 1
    PROVE  refs' = Cardinality(Mapping') + (IF cl' = "done" THEN 0 ELSE 1)
<1>0. refs = Cardinality(Mapping) + (IF cl = "done" THEN 0 ELSE 1)
      BY DEF MapInv
<1>1. rpc'[r] = l /\ \A q \in Readers : q # r => rpc'[q] = rpc[q]
      BY DEF MapInv
<1> USE DEF Mapping, Referring
<1>3. CASE (rpc[r] \in Referring <=> l \in Referring) /\ UNCHANGED refs
  <2>1. Mapping' = Mapping
        BY <1>1, <1>3
  <2> QED BY <1>0, <1>3, <2>1
<1>4. CASE rpc[r] \notin Referring /\ l \in Referring /\ refs' = refs + 1
  <2>1. Mapping' = Mapping \cup {r} /\ r \notin Mapping
        BY <1>1, <1>4
  <2> HIDE DEF Mapping
  <2>2. Cardinality(Mapping') = Cardinality(Mapping) + 1
        BY <2>1, OneMore, CountsFinite
  <2> QED BY SMTT(30), <1>0, <1>4, <2>2, CountsFinite
<1>5. CASE rpc[r] \in Referring /\ l \notin Referring /\ refs' = refs - 1
  <2>1. Mapping' = Mapping \ {r} /\ r \in Mapping
        BY <1>1, <1>5
  <2> HIDE DEF Mapping
  <2>2. Cardinality(Mapping) = Cardinality(Mapping') + 1 /\ Cardinality(Mapping') \in Nat
        BY <2>1, OneLess, CountsFinite
  <2> QED BY SMTT(30), <1>0, <1>5, <2>2, CountsFinite
<1> QED BY <1>3, <1>4, <1>5

\* BeginRead, Close of a read transaction and its cleanup: a reader enters
\* the window before it looks at the gate, and leaves it with a reference of
\* its own on the mapping.
LEMMA MapReader ==
    ASSUME PhaseInv, MapInv, NEW r \in Readers, BeginRead(r) \/ Reader(r)
    PROVE  MapInv'
<1>0. rpc \in [Readers -> {"idle", "begin", "entered", "acquire", "open", "leaked", "leakEntered"}]
      BY DEF MapInv
<1>1. UNCHANGED <<pc, cl, closed>>
      BY DEF BeginRead, Reader, ReadEnter, ReadCheck, ReadAcquire, ReadClose, ReadLeak,
         ReadCleanupEnter, ReadCleanup, rothers, gateVars, closeVars
<1>2. \E l \in {"idle", "begin", "entered", "acquire", "open", "leaked", "leakEntered"} :
          /\ rpc' = [rpc EXCEPT ![r] = l]
          /\ \/ (rpc[r] \in Windowed <=> l \in Windowed) /\ UNCHANGED txInflight
             \/ rpc[r] \notin Windowed /\ l \in Windowed /\ txInflight' = txInflight + 1
             \/ rpc[r] \in Windowed /\ l \notin Windowed /\ txInflight' = txInflight - 1
          /\ \/ (rpc[r] \in Referring <=> l \in Referring) /\ UNCHANGED refs
             \/ rpc[r] \notin Referring /\ l \in Referring /\ refs' = refs + 1
             \/ rpc[r] \in Referring /\ l \notin Referring /\ refs' = refs - 1
          /\ l = "acquire" => ~closed
  <2> USE DEF RGoto, gateVars, Windowed, Referring
  <2>1. CASE BeginRead(r)
        BY <2>1 DEF BeginRead
  <2>2. CASE ReadEnter(r)
        BY <2>2 DEF ReadEnter
  <2>3. CASE ReadCheck(r)
        BY <2>3 DEF ReadCheck
  <2>4. CASE ReadAcquire(r)
        BY <2>4 DEF ReadAcquire
  <2>5. CASE ReadClose(r)
        BY <2>5 DEF ReadClose
  <2>6. CASE ReadLeak(r)
        BY <2>6 DEF ReadLeak
  <2>7. CASE ReadCleanupEnter(r)
        BY <2>7 DEF ReadCleanupEnter
  <2>8. CASE ReadCleanup(r)
        BY <2>8 DEF ReadCleanup
  <2> QED BY <2>1, <2>2, <2>3, <2>4, <2>5, <2>6, <2>7, <2>8 DEF Reader
<1>3. PICK l \in {"idle", "begin", "entered", "acquire", "open", "leaked", "leakEntered"} :
          /\ rpc' = [rpc EXCEPT ![r] = l]
          /\ \/ (rpc[r] \in Windowed <=> l \in Windowed) /\ UNCHANGED txInflight
             \/ rpc[r] \notin Windowed /\ l \in Windowed /\ txInflight' = txInflight + 1
             \/ rpc[r] \in Windowed /\ l \notin Windowed /\ txInflight' = txInflight - 1
          /\ \/ (rpc[r] \in Referring <=> l \in Referring) /\ UNCHANGED refs
             \/ rpc[r] \notin Referring /\ l \in Referring /\ refs' = refs + 1
             \/ rpc[r] \in Referring /\ l \notin Referring /\ refs' = refs - 1
          /\ l = "acquire" => ~closed
      BY <1>2
<1>4. txInflight' = Cardinality(InsideC') + Cardinality(InsideR')
      BY <1>1, <1>3, WindowReader
<1>5. refs' = Cardinality(Mapping') + (IF cl' = "done" THEN 0 ELSE 1)
      BY <1>1, <1>3, RefsReader
<1>6. \A q \in Readers : rpc'[q] = "acquire" => cl' \in Before \cup {"drain", "gcDrain"}
  <2>1. ~closed => cl = "open"
        BY DEF PhaseInv, ClosePhase
  <2> QED BY <1>0, <1>1, <1>3, <2>1 DEF MapInv, Before
<1>7. rpc' \in [Readers -> {"idle", "begin", "entered", "acquire", "open", "leaked", "leakEntered"}]
      BY <1>0, <1>3
<1> QED BY <1>4, <1>5, <1>6, <1>7 DEF MapInv

\* Steps that move nobody in or out.
LEMMA MapStays ==
    ASSUME MapInv, UNCHANGED <<pc, rpc, txInflight, refs>>, cl # "done", cl' # "done",
           cl' \in Before \cup {"drain", "gcDrain"} \/ cl \notin Before \cup {"drain", "gcDrain"}
    PROVE  MapInv'
<1>1. UNCHANGED <<InsideC, InsideR, Mapping>>
      BY DEF InsideC, InsideR, Mapping
<1>2. \A r \in Readers : rpc[r] = "acquire" => cl' \in Before \cup {"drain", "gcDrain"}
      BY DEF MapInv
<1> QED BY <1>1, <1>2 DEF MapInv

\* Nothing changes that matters here.
LEMMA MapStutter ==
    ASSUME MapInv, UNCHANGED <<pc, rpc, txInflight, refs, cl>>
    PROVE  MapInv'
<1>1. UNCHANGED <<InsideC, InsideR, Mapping>>
      BY DEF InsideC, InsideR, Mapping
<1> QED BY <1>1 DEF MapInv

\* Close drains the window before it goes on, and gives its reference up at
\* the very end.
LEMMA MapClose ==
    ASSUME PhaseInv, MapInv, Close \/ CloseSteps \/ Collected
    PROVE  MapInv'
<1> USE DEF cothers, gateVars, CGoto
<1>1. CASE BeginClose
  <2>1. txInflight = 0 /\ UNCHANGED <<pc, rpc, txInflight, refs>> /\ cl' \in {"shutdown", "stop"}
        /\ cl \in {"drain", "gcDrain"}
        BY <1>1 DEF BeginClose
  <2>2. Cardinality(InsideR) = 0
        BY SMTT(30), <2>1, CountsFinite DEF MapInv
  <2>3. InsideR = {}
        BY <2>2, CountsFinite, FS_EmptySet
  <2>4. \A r \in Readers : rpc[r] # "acquire"
        BY <2>3 DEF InsideR
  <2>5. UNCHANGED <<InsideC, InsideR, Mapping>>
        BY <2>1 DEF InsideC, InsideR, Mapping
  <2> QED BY <2>1, <2>4, <2>5 DEF MapInv
<1>2. CASE DropMappings
  <2>1. cl = "waitSrv" /\ cl' = "done" /\ refs' = refs - 1 /\ UNCHANGED <<pc, rpc, txInflight>>
        BY <1>2 DEF DropMappings
  <2>2. UNCHANGED <<InsideC, InsideR, Mapping>>
        BY <2>1 DEF InsideC, InsideR, Mapping
  <2>3. refs' = Cardinality(Mapping') + (IF cl' = "done" THEN 0 ELSE 1)
        BY SMTT(30), <2>1, <2>2, CountsFinite DEF MapInv
  <2>4. \A r \in Readers : rpc[r] # "acquire"
        BY <2>1 DEF MapInv, Before
  <2> QED BY <2>1, <2>2, <2>3, <2>4 DEF MapInv
<1>3. CASE \/ Close \/ Collected \/ StopBatch \/ WaitBatch \/ Shutdown \/ ShutdownGranted
           \/ ShutdownEnd \/ NilPointers \/ CoordClose
  <2>1. UNCHANGED <<pc, rpc, txInflight, refs>>
        BY <1>3 DEF Close, Collected, StopBatch, WaitBatch, Shutdown, ShutdownGranted, ShutdownEnd,
           NilPointers, CoordClose
  <2>2. /\ cl # "done" /\ cl' # "done"
        /\ cl' \in Before \cup {"drain", "gcDrain"} \/ cl \notin Before \cup {"drain", "gcDrain"}
        BY <1>3 DEF Close, Collected, StopBatch, WaitBatch, Shutdown, ShutdownGranted, ShutdownEnd,
           NilPointers, CoordClose, End, Before
  <2> QED BY <2>1, <2>2, MapStays
<1> QED BY <1>1, <1>2, <1>3 DEF CloseSteps

\* A write transaction: only the cleanup of a leaked one enters the window.
LEMMA MapWriter ==
    ASSUME PhaseInv, MapInv, NEW t \in Callers,
           Caller(t) \/ \E j \in {"begin", "beginCheckpoint"} : Begin(t, j)
    PROVE  MapInv'
<1>1. UNCHANGED <<rpc, refs, cl>>
      BY DEF Begin, Caller, BeginAcquire, BeginRefused, BeginGranted, Commit, CommitEnd, Rollback,
         CheckpointEnd, Leak, CleanupEnter, CleanupCheck, CleanupRelease, others, closeVars
<1>2. \E l \in CallerPcs :
          /\ pc' = [pc EXCEPT ![t] = l]
          /\ \/ /\ pc[t] \notin {"leakEntered", "leakWork"} /\ l \notin {"leakEntered", "leakWork"}
                /\ UNCHANGED txInflight
             \/ /\ pc[t] \in {"leakEntered", "leakWork"} /\ l \in {"leakEntered", "leakWork"}
                /\ UNCHANGED txInflight
             \/ /\ pc[t] \notin {"leakEntered", "leakWork"} /\ l \in {"leakEntered", "leakWork"}
                /\ txInflight' = txInflight + 1
             \/ /\ pc[t] \in {"leakEntered", "leakWork"} /\ l \notin {"leakEntered", "leakWork"}
                /\ txInflight' = txInflight - 1
  <2> USE DEF Goto, gateVars, CallerPcs
  <2>1. CASE \E j \in {"begin", "beginCheckpoint"} : Begin(t, j)
        BY <2>1 DEF Begin
  <2>2. CASE BeginAcquire(t) \/ BeginRefused(t)
        BY <2>2 DEF BeginAcquire, BeginRefused
  <2>3. CASE BeginGranted(t)
        BY <2>3 DEF BeginGranted, GrantChecks
  <2>4. CASE Commit(t) \/ Rollback(t) \/ Leak(t)
        BY <2>4 DEF Commit, Rollback, Leak
  <2>5. CASE CommitEnd(t) \/ CheckpointEnd(t)
        BY <2>5 DEF CommitEnd, CheckpointEnd
  <2>6. CASE CleanupEnter(t)
        BY <2>6 DEF CleanupEnter
  <2>7. CASE CleanupCheck(t)
        BY <2>7 DEF CleanupCheck
  <2>8. CASE CleanupRelease(t)
        BY <2>8 DEF CleanupRelease
  <2> QED BY <2>1, <2>2, <2>3, <2>4, <2>5, <2>6, <2>7, <2>8 DEF Caller
<1> QED BY <1>1, <1>2, MapCaller

\* Every step keeps the counts.
LEMMA MapNext == PhaseInv /\ MapInv /\ [Next]_vars => MapInv'
<1> SUFFICES ASSUME PhaseInv, MapInv, [Next]_vars PROVE MapInv'
    OBVIOUS
<1>1. CASE UNCHANGED handleVars
      BY <1>1, MapStutter DEF handleVars, gateVars, closeVars
<1>2. CASE UNCHANGED vars
      BY <1>2, MapStutter DEF vars, gateVars, closeVars
<1>3. ASSUME NEW b \in BatchCalls, Batch(b) \/ BatchAbandon(b) \/ BatchCancel(b) \/ BatchReceive(b)
      PROVE  MapInv'
      BY <1>3, MapStutter DEF Batch, BatchAbandon, BatchCancel, BatchReceive, bothers, gateVars, closeVars
<1>4. CASE BatchSteps
  <2>1. UNCHANGED <<pc, rpc, txInflight, refs, cl>>
        BY <1>4 DEF BatchSteps, CollectEnd, RunBatch, BatchRefused, BatchGranted, RunClosure,
           BatchCommit, BatchCommitEnd, BatchExit, bothers, gateVars, closeVars
  <2> QED BY <2>1, MapStutter
<1>5. CASE NewOp
      BY <1>3, <1>5, MapWriter, MapReader DEF NewOp
<1>6. CASE Step
      BY <1>3, <1>4, <1>6, MapWriter, MapReader, MapClose DEF Step
<1> QED BY <1>1, <1>2, <1>5, <1>6 DEF Next

\* The phases and the counts hold throughout.
LEMMA MapAlways == Spec => [](PhaseInv /\ MapInv)
<1>1. Init => PhaseInv /\ MapInv
      BY PhaseInit, MapInit
<1>2. (PhaseInv /\ MapInv) /\ [Next]_vars => (PhaseInv /\ MapInv)'
      BY PhaseNext, MapNext
<1> QED BY <1>1, <1>2, PTL DEF Spec

-----------------------------------------------------------------------------
\* Until Close has let its reference go there is one.
LEMMA StillMapped ==
    ASSUME MapInv, cl # "done"
    PROVE  refs > 0
<1>1. refs = Cardinality(Mapping) + 1
      BY DEF MapInv
<1> QED BY SMTT(30), <1>1, CountsFinite

\* Nothing touches the lock-file mapping after its last reference is dropped:
\* a BeginRead past the gate holds Close in its drain until it has a
\* reference of its own, an open or leaked ReadTx keeps its reference until
\* Close or its cleanup, and Coord.Close waits for the flock goroutine before
\* the handle lets go.
THEOREM MappedInUseAlways == Spec => []MappedInUse
<1>1. ASSUME PhaseInv, MapInv PROVE MappedInUse
  <2>1. ASSUME NEW r \in Readers, rpc[r] \in {"acquire", "open", "leaked", "leakEntered"}
        PROVE  refs > 0
    <3>1. CASE cl # "done"
          BY <1>1, <3>1, StillMapped
    <3>2. CASE cl = "done"
      <4>1. r \in Mapping
            BY <1>1, <2>1, <3>2 DEF MapInv, Mapping, Before
      <4>2. Cardinality(Mapping) # 0
            BY <4>1, CountsFinite, FS_EmptySet
      <4>3. refs = Cardinality(Mapping) + 0
            BY <1>1, <3>2 DEF MapInv
      <4> QED BY SMTT(30), <4>2, <4>3, CountsFinite
    <3> QED BY <3>1, <3>2
  <2>2. srv.pc # "exit" => cl # "done"
        BY <1>1 DEF PhaseInv, ClosePhase
  <2>3. srv.pc # "exit" => refs > 0
        BY <1>1, <2>2, StillMapped
  <2> QED BY <2>1, <2>3 DEF MappedInUse
<1> QED BY <1>1, MapAlways, PTL

\* Whoever writes to the data file has the grant, and does so before
\* anything of Close that would take it away unless it is a checkpoint.
LEMMA WritersHold ==
    ASSUME PhaseInv, CheckInv, NEW w \in Writers
    PROVE  /\ w \in Clients /\ call[w] = "grant"
           /\ nilled \/ stopCh => w \in Callers /\ pc[w] = "checkpoint" /\ outcome # "ok"
           /\ stopCh => nilled
<1>0. PhaseType /\ BatchPhase /\ ClosePhase
      BY DEF PhaseInv
<1>1. CASE w \in Callers /\ pc[w] = "commit"
  <2>1. CallerPhase(w) /\ w \in Clients
        BY <1>1, HandleAssumption DEF PhaseInv
  <2>2. call[w] = "grant" /\ cl = "open"
        BY <1>0, <1>1, <2>1 DEF CallerPhase, Holding, ClosePhase
  <2> QED BY <1>0, <2>1, <2>2 DEF ClosePhase
<1>2. CASE w \in Callers /\ pc[w] = "checkpoint"
  <2>1. CallerPhase(w) /\ w \in Clients /\ outcome \notin {"ok", "leaked"}
        BY <1>2, HandleAssumption DEF PhaseInv, CheckInv
  <2>2. call[w] = "grant"
        BY <1>2, <2>1 DEF CallerPhase, Holding
  <2>3. stopCh => nilled
        BY <1>0, <2>1 DEF ClosePhase, CheckInv
  <2> QED BY <1>2, <2>1, <2>2, <2>3
<1>3. CASE w = "batch" /\ batch.pc = "commit"
  <2>1. call["batch"] = "grant" /\ cl \in Before
        BY <1>0, <1>3 DEF BatchPhase
  <2> QED BY <1>0, <1>3, <2>1, HandleAssumption DEF ClosePhase, Before
<1>4. CASE w = "close" /\ cl = "checkpoint"
      BY <1>0, <1>4, HandleAssumption DEF ClosePhase
<1> QED BY <1>1, <1>2, <1>3, <1>4 DEF Writers

\* Whoever publishes a commit or a checkpoint - a caller, the batch
\* coordinator or Close - is the only one in the process to publish, and has
\* LOCK_EX through the flock goroutine with the lock file mapped, until the
\* goroutine is told to stop.  Only a caller's Checkpoint can be under way
\* then, and Close, which overtook it, has not reported a checkpoint done.
THEOREM WriteExclusiveAlways == Spec => []WriteExclusive
<1>1. ASSUME PhaseInv, CheckInv, NEW w \in Writers, ~stopCh
      PROVE  srv.pc = "hold" /\ srv.who = w /\ w \notin release /\ flock = "us" /\ writerPID = "us"
  <2>1. w \in Clients /\ call[w] = "grant"
        BY <1>1, WritersHold
  <2>2. Granted(w) /\ Locked
        BY <1>1, <2>1 DEF PhaseInv, GrantInv
  <2> QED BY <2>1, <2>2 DEF Granted, Locked
<1>2. ASSUME PhaseInv, CheckInv, NEW w \in Writers
      PROVE  Writers = {w}
  <2>1. ASSUME NEW v \in Writers PROVE v = w
    <3>1. CASE ~stopCh
          BY <1>2, <2>1, <3>1, WritersHold, OneGrant
    <3>2. CASE stopCh
      <4>1. /\ v \in Callers /\ pc[v] = "checkpoint"
            /\ w \in Callers /\ pc[w] = "checkpoint"
            BY <1>2, <2>1, <3>2, WritersHold
      <4> QED BY <1>2, <4>1 DEF CheckInv
    <3> QED BY <3>1, <3>2
  <2> QED BY <1>2, <2>1
<1>3. ASSUME PhaseInv, MapInv, ~stopCh PROVE refs > 0
  <2>1. cl # "done"
        BY <1>3 DEF PhaseInv, ClosePhase
  <2> QED BY <1>3, <2>1, StillMapped
<1>4. ASSUME PhaseInv, MapInv, CheckInv PROVE WriteExclusive
  <2> SUFFICES ASSUME NEW w \in Writers
               PROVE  /\ Writers = {w}
                      /\ nilled => w \in Callers /\ pc[w] = "checkpoint" /\ outcome # "ok"
                      /\ stopCh => nilled
                      /\ ~stopCh => /\ flock = "us" /\ writerPID = "us"
                                    /\ srv.pc = "hold" /\ srv.who = w /\ w \notin release
                                    /\ refs > 0
      BY DEF WriteExclusive
  <2>1. Writers = {w}
        BY <1>2, <1>4
  <2>2. /\ nilled => w \in Callers /\ pc[w] = "checkpoint" /\ outcome # "ok"
        /\ stopCh => nilled
        BY <1>4, WritersHold
  <2>3. ~stopCh => /\ flock = "us" /\ writerPID = "us"
                   /\ srv.pc = "hold" /\ srv.who = w /\ w \notin release /\ refs > 0
        BY <1>1, <1>3, <1>4
  <2> QED BY <2>1, <2>2, <2>3
<1> QED BY <1>4, MapAlways, CheckAlways, PTL
=============================================================================
