-------------------------------- MODULE Coord --------------------------------
(***************************************************************************)
(* The write grant: internal/lock/coord.go.  One goroutine of the process,  *)
(* the flock goroutine, owns the lock file's flock(LOCK_EX).  Callers hand  *)
(* it a request over an unbuffered channel and wait for one result; the     *)
(* goroutine takes the flock with LOCK_NB in a retry loop, publishes the    *)
(* writer header, answers, and holds the flock until the caller closes its  *)
(* release channel or the coordinator stops.  Every select of the code is a *)
(* choice between the actions whose channel is ready.                       *)
(*                                                                          *)
(* Another process competes for the same flock and may die holding it.      *)
(***************************************************************************)
EXTENDS Naturals, FiniteSets

CONSTANTS
    Clients,        \* the calls of AcquireWriter this process makes
    MaxPeerLocks    \* bound: how often the other process takes the flock

ASSUME CoordAssumption == MaxPeerLocks \in Nat /\ "nobody" \notin Clients

VARIABLES
    flock,          \* who has LOCK_EX: "free", "us" or "peer"
    writerPID,      \* the header's writer identity: "none", "us" or "peer"
    takeovers,      \* TakeoverSeq: tears that have been recorded
    tears,          \* history: deaths and failed publications that tear the file, of handles
                    \* that still have a coordinator to record them (Handle: missed)
    peerLocks,      \* history: flocks the other process has taken
    dataGeneration, \* bumped by the other process when it replaces the file
    srv,            \* the flock goroutine: [pc, who, stopped]
    writerHeld,     \* the advisory flag Close reads
    stopCh,         \* TRUE once Coord.Close has closed the stop channel
    call,           \* per client: where its AcquireWriter is
    result,         \* per client: the buffered result channel
    release,        \* the clients whose release channel is closed
    undone,         \* history: those of them that were cancelled
    ctxDone         \* the clients whose context has fired

coordVars == <<flock, writerPID, takeovers, tears, peerLocks, dataGeneration,
               srv, writerHeld, stopCh, call, result, release, undone, ctxDone>>

relVars == <<release, undone>>
peerVars == <<takeovers, tears, peerLocks, dataGeneration>>
lockVars == <<flock, writerPID>>

Denied == {"cause", "closed", "fail"}

SrvPcs == {"recv", "check", "try", "hold", "clear", "unlock", "exit"}
SrvStates == [pc : SrvPcs, who : Clients \cup {"nobody"}, stopped : BOOLEAN]

CoordTypeOK ==
    /\ flock \in {"free", "us", "peer"}
    /\ writerPID \in {"none", "us", "peer"}
    /\ takeovers \in Nat /\ tears \in Nat
    /\ peerLocks \in 0..MaxPeerLocks
    /\ dataGeneration \in Nat
    /\ srv \in SrvStates
    /\ writerHeld \in BOOLEAN /\ stopCh \in BOOLEAN
    /\ call \in [Clients -> {"none", "send", "wait", "drain", "grant"} \cup Denied]
    /\ result \in [Clients -> {"empty", "grant", "cause", "fail"}]
    /\ release \subseteq Clients /\ undone \subseteq release /\ ctxDone \subseteq Clients

CoordInit ==
    /\ flock = "free" /\ writerPID = "none"
    /\ takeovers = 0 /\ tears = 0 /\ peerLocks = 0 /\ dataGeneration = 0
    /\ srv = [pc |-> "recv", who |-> "nobody", stopped |-> FALSE]
    /\ writerHeld = FALSE /\ stopCh = FALSE
    /\ call = [c \in Clients |-> "none"]
    /\ result = [c \in Clients |-> "empty"]
    /\ release = {} /\ undone = {} /\ ctxDone = {}

-----------------------------------------------------------------------------
(* AcquireWriter, as seen by the caller.  A call starts by offering its     *)
(* request (or is refused at once when its context has fired) ...           *)
AcquireWriter(c) ==
    /\ call' = [call EXCEPT ![c] = IF c \in ctxDone THEN "cause" ELSE "send"]
    /\ result' = [result EXCEPT ![c] = "empty"]
    /\ UNCHANGED <<lockVars, peerVars, srv, writerHeld, stopCh, relVars, ctxDone>>

(* ... is received by the goroutine, gives up, or sees the stop channel ...  *)
Send(c) ==
    /\ call[c] = "send" /\ srv.pc = "recv"
    /\ call' = [call EXCEPT ![c] = "wait"]
    /\ srv' = [srv EXCEPT !.pc = "check", !.who = c]
    /\ UNCHANGED <<lockVars, peerVars, writerHeld, stopCh, result, relVars, ctxDone>>

GiveUp(c) ==
    /\ call[c] = "send"
    /\ \/ c \in ctxDone /\ call' = [call EXCEPT ![c] = "cause"]
       \/ stopCh /\ call' = [call EXCEPT ![c] = "closed"]
    /\ UNCHANGED <<lockVars, peerVars, srv, writerHeld, stopCh, result, relVars, ctxDone>>

(* ... and then waits for the result, its context, or the stop channel.  A   *)
(* call whose context fired drains the result so that a grant already made  *)
(* is handed back.                                                          *)
Receive(c) ==
    /\ call[c] = "wait"
    /\ \/ /\ result[c] # "empty" /\ result' = [result EXCEPT ![c] = "empty"]
          /\ call' = [call EXCEPT ![c] = result[c]]
       \/ c \in ctxDone /\ call' = [call EXCEPT ![c] = "drain"] /\ UNCHANGED result
       \/ stopCh /\ call' = [call EXCEPT ![c] = "closed"] /\ UNCHANGED result
    /\ UNCHANGED <<lockVars, peerVars, srv, writerHeld, stopCh, relVars, ctxDone>>

Drain(c) ==
    /\ call[c] = "drain"
    /\ \/ /\ result[c] # "empty" /\ result' = [result EXCEPT ![c] = "empty"]
          /\ IF result[c] = "grant"
             THEN release' = release \cup {c} /\ undone' = undone \cup {c}
             ELSE UNCHANGED relVars
       \/ stopCh /\ UNCHANGED <<result, relVars>>
    /\ call' = [call EXCEPT ![c] = "cause"]
    /\ UNCHANGED <<lockVars, peerVars, srv, writerHeld, stopCh, ctxDone>>

(* The caller has its error and the context is gone.                        *)
Return(c) ==
    /\ call[c] \in Denied
    /\ call' = [call EXCEPT ![c] = "none"] /\ ctxDone' = ctxDone \ {c}
    /\ UNCHANGED <<lockVars, peerVars, srv, writerHeld, stopCh, result, relVars>>

CancelCtx(c) ==
    /\ c \notin ctxDone
    /\ ctxDone' = ctxDone \cup {c}
    /\ UNCHANGED <<lockVars, peerVars, srv, writerHeld, stopCh, call, result, relVars>>

\* Mutant of Release: the flag is left for the goroutine to clear.
ReleaseLeavesFlag(c) ==
    /\ release' = release \cup {c}
    /\ call' = [call EXCEPT ![c] = "none"]
    /\ UNCHANGED <<undone, lockVars, peerVars, srv, writerHeld, stopCh, result, ctxDone>>

(* Grant.Release clears writerHeld itself and returns before the goroutine  *)
(* has noticed.                                                             *)
Release(c) ==
    /\ release' = release \cup {c}
    /\ writerHeld' = FALSE
    /\ call' = [call EXCEPT ![c] = "none"]
    /\ UNCHANGED <<undone, lockVars, peerVars, srv, stopCh, result, ctxDone>>

-----------------------------------------------------------------------------
(* The flock goroutine.                                                     *)
Answer(r) == result' = [result EXCEPT ![srv.who] = r]
Serve(pc) == srv' = [srv EXCEPT !.pc = pc]
NextRequest == srv' = [srv EXCEPT !.pc = "recv", !.who = "nobody"]

SrvStop ==
    /\ srv.pc = "recv" /\ stopCh
    /\ Serve("exit")
    /\ UNCHANGED <<lockVars, peerVars, writerHeld, stopCh, call, result, relVars, ctxDone>>

SrvCheck ==
    /\ srv.pc = "check"
    /\ IF srv.who \in ctxDone
       THEN Answer("cause") /\ NextRequest
       ELSE Serve("try") /\ UNCHANGED result
    /\ UNCHANGED <<lockVars, peerVars, writerHeld, stopCh, call, relVars, ctxDone>>

(* LOCK_NB succeeded.  A header still naming a writer is a death: it is      *)
(* recorded before the header is overwritten.                               *)
SrvGrant ==
    /\ srv.pc = "try" /\ flock = "free"
    /\ flock' = "us" /\ writerPID' = "us"
    /\ takeovers' = IF writerPID # "none" THEN takeovers + 1 ELSE takeovers
    /\ writerHeld' = TRUE
    /\ Answer("grant") /\ Serve("hold")
    /\ UNCHANGED <<tears, peerLocks, dataGeneration, stopCh, call, relVars, ctxDone>>

(* LOCK_NB was refused: wait a tick, or leave the loop.                      *)
SrvRefuse ==
    /\ srv.pc = "try" /\ flock # "free"
    /\ \/ srv.who \in ctxDone /\ Answer("cause") /\ NextRequest
       \/ stopCh /\ Serve("exit") /\ UNCHANGED result
    /\ UNCHANGED <<lockVars, peerVars, writerHeld, stopCh, call, relVars, ctxDone>>

(* Any error but contention and an interrupted call is the caller's.        *)
SrvFail ==
    /\ srv.pc = "try"
    /\ Answer("fail") /\ NextRequest
    /\ UNCHANGED <<lockVars, peerVars, writerHeld, stopCh, call, relVars, ctxDone>>

\* Mutant of SrvHold: the hold loop also ends when the caller's context fires.
SrvHoldCtx ==
    /\ srv.pc = "hold"
    /\ \/ srv.who \in release \cup ctxDone /\ Serve("clear")
       \/ stopCh /\ srv' = [srv EXCEPT !.pc = "clear", !.stopped = TRUE]
    /\ writerHeld' = FALSE
    /\ release' = release \ {srv.who} /\ undone' = undone \ {srv.who}
    /\ UNCHANGED <<lockVars, peerVars, stopCh, call, result, ctxDone>>

SrvHold ==
    /\ srv.pc = "hold"
    /\ \/ srv.who \in release /\ Serve("clear")
       \/ stopCh /\ srv' = [srv EXCEPT !.pc = "clear", !.stopped = TRUE]
    /\ writerHeld' = FALSE
    /\ release' = release \ {srv.who} /\ undone' = undone \ {srv.who}
    /\ UNCHANGED <<lockVars, peerVars, stopCh, call, result, ctxDone>>

\* Mutant of SrvClear: the flock is dropped before the header is cleared.
SrvClearLate ==
    /\ srv.pc = "clear"
    /\ flock' = "free" /\ Serve("unlock")
    /\ UNCHANGED <<writerPID, peerVars, writerHeld, stopCh, call, result, relVars, ctxDone>>

(* The header is cleared before the flock is dropped.                        *)
SrvClear ==
    /\ srv.pc = "clear"
    /\ writerPID' = "none" /\ Serve("unlock")
    /\ UNCHANGED <<flock, peerVars, writerHeld, stopCh, call, result, relVars, ctxDone>>

SrvUnlock ==
    /\ srv.pc = "unlock"
    /\ flock' = "free"
    /\ IF srv.stopped THEN Serve("exit") ELSE NextRequest
    /\ UNCHANGED <<writerPID, peerVars, writerHeld, stopCh, call, result, relVars, ctxDone>>

Srv == SrvStop \/ SrvCheck \/ SrvGrant \/ SrvRefuse \/ SrvHold \/ SrvClear \/ SrvUnlock

-----------------------------------------------------------------------------
(* The other process.  Its coordinator is this same code, seen only through *)
(* the flock and the header; the generation is bumped by its Compact.       *)
ourVars == <<srv, writerHeld, stopCh, call, result, relVars, ctxDone>>

PeerLock ==
    /\ flock = "free" /\ peerLocks < MaxPeerLocks
    /\ flock' = "peer" /\ writerPID' = "peer"
    /\ peerLocks' = peerLocks + 1
    /\ takeovers' = IF writerPID # "none" THEN takeovers + 1 ELSE takeovers
    /\ UNCHANGED <<tears, dataGeneration, ourVars>>

PeerCompact ==
    /\ flock = "peer" /\ writerPID = "peer" /\ dataGeneration = 0
    /\ dataGeneration' = 1
    /\ UNCHANGED <<lockVars, takeovers, tears, peerLocks, ourVars>>

PeerClear ==
    /\ flock = "peer" /\ writerPID = "peer"
    /\ writerPID' = "none"
    /\ UNCHANGED <<flock, peerVars, ourVars>>

PeerUnlock ==
    /\ flock = "peer" /\ writerPID = "none"
    /\ flock' = "free"
    /\ UNCHANGED <<writerPID, peerVars, ourVars>>

(* The kernel drops a dead process's flock; the header keeps its identity.  *)
PeerDie ==
    /\ flock = "peer"
    /\ flock' = "free"
    /\ tears' = IF writerPID = "peer" THEN tears + 1 ELSE tears
    /\ UNCHANGED <<writerPID, takeovers, peerLocks, dataGeneration, ourVars>>

Peer == PeerLock \/ PeerCompact \/ PeerClear \/ PeerUnlock \/ PeerDie

-----------------------------------------------------------------------------
(* Every tear is recorded in the takeover sequence exactly once: while the   *)
(* flock is free, the header names a writer exactly when one death is still *)
(* unrecorded, and while it is held none is.  process() relies on it when   *)
(* it bumps the sequence on a non-zero WriterPID without asking whether the *)
(* writer is alive, and a clean release must never look like a death.       *)
TearsSeen ==
    /\ flock = "free" => tears - takeovers = IF writerPID = "none" THEN 0 ELSE 1
    /\ flock # "free" => tears = takeovers
=============================================================================
