----------------------------- MODULE CoordProofs -----------------------------
(***************************************************************************)
(* What the write grant guarantees to whoever uses it: an invariant of the *)
(* coordinator that every one of its operations preserves, for any number  *)
(* of clients.  HandleProofs builds on it.                                 *)
(***************************************************************************)
EXTENDS Coord, TLAPS

\* The flock, the header and the goroutine agree.
Locked ==
    /\ srv.pc \in {"hold", "clear", "unlock"} <=> flock = "us"
    /\ srv.pc \in {"hold", "clear"} => writerPID = "us"
    /\ srv.pc = "unlock" => writerPID = "none"
    /\ flock # "us" => writerPID \in {"none", "peer"}
    /\ srv.pc \in {"check", "try", "hold"} => srv.who \in Clients
    /\ srv.pc = "exit" \/ srv.stopped => stopCh

\* Who has the grant, or has it waiting, is who the goroutine holds it for.
Granted(c) ==
    /\ call[c] = "grant" \/ result[c] = "grant" \/ c \in release
           => srv.pc = "hold" /\ srv.who = c
    /\ call[c] = "grant" \/ result[c] = "grant" => c \notin release
    /\ result[c] = "grant" => call[c] \in {"wait", "drain"}
    /\ call[c] = "send" => result[c] = "empty"

\* The request being served has a caller that is still waiting.
Served ==
    /\ srv.pc \in {"check", "try"}
           => call[srv.who] \in {"wait", "drain"} /\ result[srv.who] = "empty"
    /\ srv.pc = "hold" => result[srv.who] \in {"empty", "grant"}
    /\ writerHeld => /\ srv.pc = "hold"
                     /\ call[srv.who] \in {"wait", "drain", "grant"} \/ srv.who \in undone

GrantInv ==
    /\ CoordTypeOK /\ Locked /\ TearsSeen
    /\ ~stopCh => Served /\ \A c \in Clients : Granted(c)

-----------------------------------------------------------------------------
\* Zenon proves most leaves; one that needs arithmetic names SMT.
USE ZenonT(30)

\* The goroutine goes on with its request ...
LEMMA SrvGoes ==
    ASSUME CoordTypeOK, NEW x \in SrvPcs, srv' = [srv EXCEPT !.pc = x]
    PROVE  srv' \in SrvStates /\ srv'.pc = x /\ srv'.who = srv.who /\ srv'.stopped = srv.stopped
<1>1. srv' \in SrvStates
      BY DEF CoordTypeOK, SrvStates
<1>2. srv'.pc = x /\ srv'.who = srv.who /\ srv'.stopped = srv.stopped
      BY SMTT(30) DEF CoordTypeOK, SrvStates
<1> QED BY <1>1, <1>2

\* ... finds that it must stop ...
LEMMA SrvStops ==
    ASSUME CoordTypeOK, NEW x \in SrvPcs, srv' = [srv EXCEPT !.pc = x, !.stopped = TRUE]
    PROVE  srv' \in SrvStates /\ srv'.pc = x /\ srv'.who = srv.who
<1>1. srv' \in SrvStates
      BY DEF CoordTypeOK, SrvStates
<1>2. srv'.pc = x /\ srv'.who = srv.who
      BY SMTT(30) DEF CoordTypeOK, SrvStates
<1> QED BY <1>1, <1>2

\* ... or turns to another.
LEMMA SrvTakes ==
    ASSUME CoordTypeOK, NEW x \in SrvPcs, NEW w \in Clients \cup {"nobody"},
           srv' = [srv EXCEPT !.pc = x, !.who = w]
    PROVE  srv' \in SrvStates /\ srv'.pc = x /\ srv'.who = w /\ srv'.stopped = srv.stopped
<1>1. srv' \in SrvStates
      BY DEF CoordTypeOK, SrvStates
<1>2. srv'.pc = x /\ srv'.who = w /\ srv'.stopped = srv.stopped
      BY SMTT(30) DEF CoordTypeOK, SrvStates
<1> QED BY <1>1, <1>2

\* A freshly opened coordinator.
LEMMA GrantInit == CoordInit => GrantInv
<1> SUFFICES ASSUME CoordInit PROVE GrantInv
    OBVIOUS
<1>1. CoordTypeOK
  <2>1. srv \in SrvStates
        BY DEF CoordInit, SrvStates, SrvPcs
  <2>2. peerLocks \in 0 .. MaxPeerLocks /\ dataGeneration \in Nat /\ takeovers \in Nat
            /\ tears \in Nat
        BY SMTT(30), CoordAssumption DEF CoordInit
  <2> QED BY <2>1, <2>2 DEF CoordInit, CoordTypeOK, Denied
<1>2. Locked /\ TearsSeen
      BY SMTT(30) DEF CoordInit, Locked, TearsSeen
<1>3. Served /\ \A c \in Clients : Granted(c)
      BY SMTT(30) DEF CoordInit, Served, Granted
<1> QED BY <1>1, <1>2, <1>3 DEF GrantInv

\* A call of AcquireWriter begins, by a client that has none under way.
LEMMA Acquires ==
    ASSUME GrantInv, NEW c \in Clients, AcquireWriter(c),
           call[c] \notin {"wait", "drain", "grant"}
    PROVE  GrantInv'
<1>0. CoordTypeOK /\ Locked /\ TearsSeen
      BY DEF GrantInv
<1>1. CoordTypeOK' /\ Locked' /\ TearsSeen'
      BY SMTT(30), <1>0 DEF AcquireWriter, lockVars, peerVars, relVars, CoordTypeOK, Locked,
         TearsSeen, Denied
<1>2. /\ call'[c] \in {"cause", "send"} /\ result'[c] = "empty"
      /\ \A d \in Clients \ {c} : call'[d] = call[d] /\ result'[d] = result[d]
      /\ UNCHANGED <<srv, writerHeld, stopCh, release, undone>>
      BY SMTT(30), <1>0 DEF AcquireWriter, relVars, CoordTypeOK
<1>3. ASSUME ~stopCh PROVE Served' /\ \A d \in Clients : Granted(d)'
  <2>1. Served /\ (\A d \in Clients : Granted(d))
        BY <1>3 DEF GrantInv
  <2>2. Served'
        BY <1>0, <1>2, <2>1 DEF Served, Locked
  <2>3. \A d \in Clients : Granted(d)'
        BY <1>2, <2>1 DEF Granted
  <2> QED BY <2>2, <2>3
<1> QED BY <1>1, <1>2, <1>3 DEF GrantInv

\* A context fires or is renewed.
LEMMA Contexts ==
    ASSUME GrantInv, ctxDone' \subseteq Clients,
           UNCHANGED <<lockVars, peerVars, srv, writerHeld, stopCh, call, result, relVars>>
    PROVE  GrantInv'
<1>1. CoordTypeOK' /\ Locked' /\ TearsSeen'
      BY DEF GrantInv, lockVars, peerVars, relVars, CoordTypeOK, Locked, TearsSeen
<1>2. ~stopCh => Served' /\ \A d \in Clients : Granted(d)'
      BY DEF GrantInv, relVars, Served, Granted
<1> QED BY <1>1, <1>2 DEF GrantInv

\* The stop channel closes: nothing is promised to anyone any more.
LEMMA StopCloses ==
    ASSUME GrantInv, stopCh' = TRUE,
           UNCHANGED <<lockVars, peerVars, srv, writerHeld, call, result, relVars, ctxDone>>
    PROVE  GrantInv'
BY DEF GrantInv, lockVars, peerVars, relVars, CoordTypeOK, Locked, TearsSeen

\* A refused caller goes away.
LEMMA Returns ==
    ASSUME GrantInv, NEW c \in Clients, Return(c)
    PROVE  GrantInv'
<1>0. CoordTypeOK /\ Locked /\ TearsSeen
      BY DEF GrantInv
<1>1. CoordTypeOK' /\ Locked' /\ TearsSeen'
      BY SMTT(30), <1>0 DEF Return, lockVars, peerVars, relVars, CoordTypeOK, Locked, TearsSeen
<1>2. /\ call[c] \in {"cause", "closed", "fail"} /\ call'[c] = "none"
      /\ \A d \in Clients \ {c} : call'[d] = call[d]
      /\ UNCHANGED <<srv, writerHeld, stopCh, result, release, undone>>
      BY <1>0 DEF Return, relVars, CoordTypeOK, Denied
<1>3. ASSUME ~stopCh PROVE Served' /\ \A d \in Clients : Granted(d)'
  <2>1. Served /\ (\A d \in Clients : Granted(d))
        BY <1>3 DEF GrantInv
  <2>2. Served'
        BY <1>0, <1>2, <2>1 DEF Served, Locked
  <2>3. \A d \in Clients : Granted(d)'
        BY <1>2, <2>1 DEF Granted
  <2> QED BY <2>2, <2>3
<1> QED BY <1>1, <1>2, <1>3 DEF GrantInv

\* Whoever has the grant gives it back, after a commit that tore the file or
\* without.
LEMMA GivesBack ==
    ASSUME GrantInv, NEW c \in Clients, call[c] = "grant",
           release' = release \cup {c}, writerHeld' = FALSE, call' = [call EXCEPT ![c] = "none"],
           UNCHANGED <<undone, lockVars, peerLocks, dataGeneration, srv, stopCh, result, ctxDone>>,
           UNCHANGED <<tears, takeovers>> \/ (tears' = tears + 1 /\ takeovers' = takeovers + 1)
    PROVE  GrantInv'
<1>0. CoordTypeOK /\ Locked /\ TearsSeen
      BY DEF GrantInv
<1>1. CoordTypeOK'
  <2>1. tears' \in Nat /\ takeovers' \in Nat
        BY SMTT(30), <1>0 DEF CoordTypeOK
  <2> QED BY <1>0, <2>1 DEF lockVars, CoordTypeOK
<1>2. Locked'
      BY <1>0 DEF lockVars, Locked
<1>3. TearsSeen'
      BY SMTT(30), <1>0 DEF lockVars, TearsSeen, CoordTypeOK
<1>4. /\ call'[c] = "none" /\ \A d \in Clients \ {c} : call'[d] = call[d]
      BY <1>0 DEF CoordTypeOK
<1>5. ASSUME ~stopCh PROVE Served' /\ \A d \in Clients : Granted(d)'
  <2>1. /\ srv.pc = "hold" /\ srv.who = c /\ result[c] # "grant" /\ Served
        /\ \A d \in Clients : Granted(d)
        BY <1>5 DEF GrantInv, Granted
  <2>2. Served'
        BY SMTT(30), <2>1 DEF Served
  <2>3. \A d \in Clients : Granted(d)'
        BY <1>4, <2>1 DEF Granted
  <2> QED BY <2>2, <2>3
<1> QED BY <1>1, <1>2, <1>3, <1>5 DEF GrantInv

\* The steps of a call: the hand-over, the wait, the drain.
LEMMA CallsStep ==
    ASSUME GrantInv, NEW c \in Clients, Send(c) \/ GiveUp(c) \/ Receive(c) \/ Drain(c)
    PROVE  GrantInv' /\ UNCHANGED <<stopCh, writerPID, flock>>
              /\ (\A d \in Clients : call[d] \notin {"send", "wait", "drain"} => call'[d] = call[d])
              /\ (srv.pc = "exit" => srv'.pc = "exit")
<1>0. CoordTypeOK /\ Locked /\ TearsSeen
      BY DEF GrantInv
<1> DEFINE Rest == UNCHANGED <<flock, writerPID, takeovers, tears, peerLocks, dataGeneration,
                              writerHeld, stopCh, ctxDone>>
<1>1. CASE Send(c)
  <2>1. /\ call[c] = "send" /\ srv.pc = "recv" /\ Rest /\ UNCHANGED <<result, release, undone>>
        /\ call' = [call EXCEPT ![c] = "wait"] /\ srv' = [srv EXCEPT !.pc = "check", !.who = c]
        BY <1>1 DEF Send, lockVars, peerVars, relVars
  <2>2. /\ call'[c] = "wait" /\ \A d \in Clients \ {c} : call'[d] = call[d]
        /\ srv'.pc = "check" /\ srv'.who = c /\ srv'.stopped = srv.stopped
        BY SMTT(30), <1>0, <2>1 DEF CoordTypeOK
  <2>3. CoordTypeOK'
    <3>1. srv' \in SrvStates
          BY <1>0, <2>1, SrvTakes DEF CoordTypeOK, SrvPcs
    <3> QED BY <1>0, <2>1, <3>1 DEF CoordTypeOK
  <2>4. Locked' /\ TearsSeen'
        BY <1>0, <2>1, <2>2 DEF Locked, TearsSeen
  <2>5. ASSUME ~stopCh PROVE Served' /\ \A d \in Clients : Granted(d)'
    <3>1. Served /\ \A d \in Clients : Granted(d)
          BY <2>5 DEF GrantInv
    <3>2. \A d \in Clients : Granted(d)'
          BY <2>1, <2>2, <3>1 DEF Granted
    <3>3. Served'
          BY <2>1, <2>2, <3>1 DEF Served, Granted
    <3> QED BY <3>2, <3>3
  <2> QED BY <2>1, <2>2, <2>3, <2>4, <2>5 DEF GrantInv
<1>2. CASE GiveUp(c)
  <2>1. /\ call[c] = "send" /\ Rest /\ UNCHANGED <<srv, result, release, undone>>
        /\ \E x \in Denied : call' = [call EXCEPT ![c] = x]
        BY <1>2 DEF GiveUp, lockVars, peerVars, relVars, Denied
  <2>2. /\ call'[c] \in Denied /\ \A d \in Clients \ {c} : call'[d] = call[d]
        BY <1>0, <2>1 DEF CoordTypeOK
  <2>3. CoordTypeOK'
        BY SMTT(30), <1>0, <2>1 DEF CoordTypeOK, Denied
  <2>4. Locked' /\ TearsSeen'
        BY <1>0, <2>1 DEF Locked, TearsSeen
  <2>5. ASSUME ~stopCh PROVE Served' /\ \A d \in Clients : Granted(d)'
    <3>1. Served /\ \A d \in Clients : Granted(d)
          BY <2>5 DEF GrantInv
    <3>2. \A d \in Clients : Granted(d)'
          BY <2>1, <2>2, <3>1 DEF Granted, Denied
    <3>3. Served'
          BY <1>0, <2>1, <2>2, <3>1 DEF Served, Locked
    <3> QED BY <3>2, <3>3
  <2> QED BY <2>1, <2>2, <2>3, <2>4, <2>5 DEF GrantInv
<1>3. CASE Receive(c)
  <2>1. /\ call[c] = "wait" /\ Rest /\ UNCHANGED <<srv, release, undone>>
        /\ \/ /\ result[c] # "empty" /\ result' = [result EXCEPT ![c] = "empty"]
              /\ call' = [call EXCEPT ![c] = result[c]]
           \/ call' = [call EXCEPT ![c] = "drain"] /\ UNCHANGED result
           \/ stopCh /\ call' = [call EXCEPT ![c] = "closed"] /\ UNCHANGED result
        BY <1>3 DEF Receive, lockVars, peerVars, relVars
  <2>2. /\ \A d \in Clients \ {c} : call'[d] = call[d] /\ result'[d] = result[d]
        /\ \/ result[c] # "empty" /\ call'[c] = result[c] /\ result'[c] = "empty"
           \/ call'[c] = "drain" /\ result'[c] = result[c]
           \/ stopCh
        BY <1>0, <2>1 DEF CoordTypeOK
  <2>3. CoordTypeOK'
        BY SMTT(30), <1>0, <2>1 DEF CoordTypeOK, Denied
  <2>4. Locked' /\ TearsSeen'
        BY <1>0, <2>1 DEF Locked, TearsSeen
  <2>5. ASSUME ~stopCh PROVE Served' /\ \A d \in Clients : Granted(d)'
    <3>1. Served /\ (\A d \in Clients : Granted(d)) /\ result[c] \in {"empty", "grant", "cause", "fail"}
          BY <1>0, <2>5 DEF GrantInv, CoordTypeOK
    <3>2. \A d \in Clients : Granted(d)'
          BY SMTT(30), <2>1, <2>2, <2>5, <3>1 DEF Granted
    <3>3. Served'
          BY SMTT(30), <1>0, <2>1, <2>2, <2>5, <3>1 DEF Served, Locked, Granted
    <3> QED BY <3>2, <3>3
  <2> QED BY <2>1, <2>2, <2>3, <2>4, <2>5 DEF GrantInv
<1>4. CASE Drain(c)
  <2>1. /\ call[c] = "drain" /\ Rest /\ UNCHANGED srv /\ call' = [call EXCEPT ![c] = "cause"]
        /\ \/ /\ result[c] # "empty" /\ result' = [result EXCEPT ![c] = "empty"]
              /\ \/ /\ result[c] = "grant"
                    /\ release' = release \cup {c} /\ undone' = undone \cup {c}
                 \/ result[c] # "grant" /\ UNCHANGED <<release, undone>>
           \/ stopCh /\ UNCHANGED <<result, release, undone>>
        BY <1>4 DEF Drain, lockVars, peerVars, relVars
  <2>2. /\ call'[c] = "cause"
        /\ \A d \in Clients \ {c} : call'[d] = call[d] /\ result'[d] = result[d]
        /\ ~stopCh => result[c] # "empty" /\ result'[c] = "empty"
        BY <1>0, <2>1 DEF CoordTypeOK
  <2>3. CoordTypeOK'
        BY SMTT(30), <1>0, <2>1 DEF CoordTypeOK, Denied
  <2>4. Locked' /\ TearsSeen'
        BY <1>0, <2>1 DEF Locked, TearsSeen
  <2>5. ASSUME ~stopCh PROVE Served' /\ \A d \in Clients : Granted(d)'
    <3>1. Served /\ (\A d \in Clients : Granted(d))
          BY <2>5 DEF GrantInv
    <3>2. \A d \in Clients : Granted(d)'
          BY SMTT(30), <2>1, <2>2, <2>5, <3>1 DEF Granted
    <3>3. Served'
          BY SMTT(30), <1>0, <2>1, <2>2, <2>5, <3>1 DEF Served, Locked, Granted
    <3> QED BY <3>2, <3>3
  <2> QED BY <2>1, <2>2, <2>3, <2>4, <2>5 DEF GrantInv
<1> QED BY <1>1, <1>2, <1>3, <1>4

\* The goroutine turns a request away, or takes none any more.
LEMMA SrvIdles ==
    ASSUME GrantInv,
           \/ SrvStop
           \/ SrvCheck \/ SrvRefuse \/ SrvFail
    PROVE  GrantInv' /\ UNCHANGED <<stopCh, call>> /\ (srv.pc = "exit" => srv'.pc = "exit")
<1>0. CoordTypeOK /\ Locked /\ TearsSeen
      BY DEF GrantInv
<1>1. /\ UNCHANGED <<flock, writerPID, takeovers, tears, peerLocks, dataGeneration,
                     writerHeld, stopCh, call, release, undone, ctxDone>>
      /\ \/ srv.pc = "recv" /\ stopCh /\ srv' = [srv EXCEPT !.pc = "exit"] /\ UNCHANGED result
         \/ srv.pc = "check" /\ srv' = [srv EXCEPT !.pc = "try"] /\ UNCHANGED result
         \/ srv.pc = "try" /\ stopCh /\ srv' = [srv EXCEPT !.pc = "exit"] /\ UNCHANGED result
         \/ /\ srv.pc \in {"check", "try"} /\ srv' = [srv EXCEPT !.pc = "recv", !.who = "nobody"]
            /\ \E r \in {"cause", "fail"} : result' = [result EXCEPT ![srv.who] = r]
      BY DEF SrvStop, SrvCheck, SrvRefuse, SrvFail, Answer, Serve, NextRequest, lockVars,
             peerVars, relVars
<1>2. /\ srv' \in SrvStates /\ srv'.stopped = srv.stopped
      /\ \/ srv'.pc = "exit" /\ stopCh
         \/ srv.pc = "check" /\ srv'.pc = "try" /\ srv'.who = srv.who /\ UNCHANGED result
         \/ srv.pc \in {"check", "try"} /\ srv'.pc = "recv"
      BY <1>0, <1>1, SrvGoes, SrvTakes DEF SrvPcs
<1>3. /\ result' \in [Clients -> {"empty", "grant", "cause", "fail"}]
      /\ \A c \in Clients : result'[c] = result[c]
             \/ (srv.pc \in {"check", "try"} /\ c = srv.who /\ result'[c] # "grant")
      BY <1>0, <1>1 DEF CoordTypeOK
<1>4. CoordTypeOK'
      BY <1>0, <1>1, <1>2, <1>3 DEF CoordTypeOK
<1>5. Locked' /\ TearsSeen'
      BY <1>0, <1>1, <1>2 DEF Locked, TearsSeen
<1>6. ASSUME ~stopCh PROVE Served' /\ \A d \in Clients : Granted(d)'
  <2>1. /\ Served /\ (\A d \in Clients : Granted(d)) /\ srv.pc \in {"check", "try"}
        /\ srv'.pc \in {"try", "recv"} /\ call[srv.who] \in {"wait", "drain"} /\ ~writerHeld
        BY <1>1, <1>2, <1>6 DEF GrantInv, Served
  <2>2. \A d \in Clients : Granted(d)'
        BY <1>1, <1>3, <2>1 DEF Granted
  <2>3. Served'
    <3>1. CASE srv'.pc = "recv"
          BY <1>1, <2>1, <3>1 DEF Served
    <3>2. CASE srv'.pc = "try"
          BY <1>1, <1>2, <2>1, <3>2 DEF Served
    <3> QED BY <2>1, <3>1, <3>2
  <2> QED BY <2>2, <2>3
<1> QED BY <1>1, <1>2, <1>4, <1>5, <1>6 DEF GrantInv

\* The goroutine has the flock: a death is recorded, the caller answered.
LEMMA SrvGrants ==
    ASSUME GrantInv, SrvGrant
    PROVE  GrantInv' /\ UNCHANGED <<stopCh, call>> /\ (srv.pc = "exit" => srv'.pc = "exit")
<1>0. CoordTypeOK /\ Locked /\ TearsSeen
      BY DEF GrantInv
<1>1. /\ srv.pc = "try" /\ srv' = [srv EXCEPT !.pc = "hold"]
      /\ result' = [result EXCEPT ![srv.who] = "grant"] /\ writerHeld' = TRUE
      /\ flock = "free" /\ flock' = "us" /\ writerPID' = "us"
      /\ takeovers' = IF writerPID # "none" THEN takeovers + 1 ELSE takeovers
      /\ UNCHANGED <<tears, peerLocks, dataGeneration, stopCh, call, release, undone, ctxDone>>
      BY DEF SrvGrant, Answer, Serve, relVars
<1>2. /\ srv' \in SrvStates /\ srv'.stopped = srv.stopped /\ srv'.pc = "hold"
      /\ srv'.who = srv.who /\ srv.who \in Clients
      BY <1>0, <1>1, SrvGoes DEF SrvPcs, Locked
<1>3. /\ result' \in [Clients -> {"empty", "grant", "cause", "fail"}]
      /\ result'[srv.who] = "grant" /\ \A c \in Clients \ {srv.who} : result'[c] = result[c]
      BY <1>0, <1>1, <1>2 DEF CoordTypeOK
<1>4. tears' = takeovers' /\ takeovers' \in Nat
      BY SMTT(30), <1>0, <1>1 DEF CoordTypeOK, TearsSeen
<1>5. CoordTypeOK'
      BY <1>0, <1>1, <1>2, <1>3, <1>4 DEF CoordTypeOK
<1>6. Locked' /\ TearsSeen'
      BY <1>0, <1>1, <1>2, <1>4 DEF Locked, TearsSeen
<1>7. ASSUME ~stopCh PROVE Served' /\ \A d \in Clients : Granted(d)'
  <2>1. /\ Served /\ (\A d \in Clients : Granted(d)) /\ call[srv.who] \in {"wait", "drain"}
        BY <1>1, <1>7 DEF GrantInv, Served
  <2>2. \A d \in Clients : Granted(d)'
        BY <1>1, <1>2, <1>3, <2>1 DEF Granted
  <2>3. Served'
        BY <1>1, <1>2, <1>3, <2>1 DEF Served
  <2> QED BY <2>2, <2>3
<1> QED BY <1>1, <1>5, <1>6, <1>7 DEF GrantInv

\* The hold ends, the header is cleared, the flock dropped.
LEMMA SrvLets ==
    ASSUME GrantInv, SrvHold \/ SrvClear \/ SrvUnlock
    PROVE  GrantInv' /\ UNCHANGED <<stopCh, call>> /\ (srv.pc = "exit" => srv'.pc = "exit")
<1>0. CoordTypeOK /\ Locked /\ TearsSeen
      BY DEF GrantInv
<1>1. CASE SrvHold
  <2>1. /\ srv.pc = "hold" /\ writerHeld' = FALSE
        /\ \/ srv.who \in release /\ srv' = [srv EXCEPT !.pc = "clear"]
           \/ stopCh /\ srv' = [srv EXCEPT !.pc = "clear", !.stopped = TRUE]
        /\ release' = release \ {srv.who} /\ undone' = undone \ {srv.who}
        /\ UNCHANGED <<flock, writerPID, takeovers, tears, peerLocks, dataGeneration, stopCh,
                       call, result, ctxDone>>
        BY <1>1 DEF SrvHold, Serve, lockVars, peerVars
  <2>2. /\ srv' \in SrvStates /\ srv'.pc = "clear" /\ srv'.who = srv.who
        /\ srv'.stopped => stopCh
        BY <1>0, <2>1, SrvGoes, SrvStops DEF SrvPcs, Locked
  <2>3. CoordTypeOK'
        BY <1>0, <2>1, <2>2 DEF CoordTypeOK
  <2>4. Locked' /\ TearsSeen'
        BY <1>0, <2>1, <2>2 DEF Locked, TearsSeen
  <2>5. ASSUME ~stopCh PROVE Served' /\ \A d \in Clients : Granted(d)'
        BY <2>1, <2>2, <2>5 DEF GrantInv, Served, Granted
  <2> QED BY <2>1, <2>3, <2>4, <2>5 DEF GrantInv
<1>2. CASE SrvClear
  <2>1. /\ srv.pc = "clear" /\ srv' = [srv EXCEPT !.pc = "unlock"] /\ writerPID' = "none"
        /\ UNCHANGED <<flock, takeovers, tears, peerLocks, dataGeneration, stopCh, writerHeld,
                       call, result, release, undone, ctxDone>>
        BY <1>2 DEF SrvClear, Serve, relVars, peerVars
  <2>2. srv' \in SrvStates /\ srv'.pc = "unlock" /\ srv'.stopped = srv.stopped
        BY <1>0, <2>1, SrvGoes DEF SrvPcs
  <2>3. CoordTypeOK'
        BY <1>0, <2>1, <2>2 DEF CoordTypeOK
  <2>4. Locked' /\ TearsSeen'
        BY <1>0, <2>1, <2>2 DEF Locked, TearsSeen
  <2>5. ASSUME ~stopCh PROVE Served' /\ \A d \in Clients : Granted(d)'
        BY <2>1, <2>2, <2>5 DEF GrantInv, Served, Granted
  <2> QED BY <2>1, <2>3, <2>4, <2>5 DEF GrantInv
<1>3. CASE SrvUnlock
  <2>1. /\ srv.pc = "unlock" /\ flock' = "free"
        /\ \/ srv.stopped /\ srv' = [srv EXCEPT !.pc = "exit"]
           \/ srv' = [srv EXCEPT !.pc = "recv", !.who = "nobody"]
        /\ UNCHANGED <<writerPID, takeovers, tears, peerLocks, dataGeneration, stopCh, writerHeld,
                       call, result, release, undone, ctxDone>>
        BY <1>3 DEF SrvUnlock, Serve, NextRequest, relVars, peerVars
  <2>2. /\ srv' \in SrvStates /\ srv'.pc \in {"exit", "recv"} /\ srv'.stopped = srv.stopped
        /\ srv'.pc = "exit" => srv.stopped
        BY <1>0, <2>1, SrvGoes, SrvTakes DEF SrvPcs
  <2>3. CoordTypeOK'
        BY <1>0, <2>1, <2>2 DEF CoordTypeOK
  <2>4. Locked'
        BY <1>0, <2>1, <2>2 DEF Locked
  <2>5. TearsSeen'
        BY SMTT(30), <1>0, <2>1 DEF TearsSeen, Locked, CoordTypeOK
  <2>6. ASSUME ~stopCh PROVE Served' /\ \A d \in Clients : Granted(d)'
        BY <2>1, <2>2, <2>6 DEF GrantInv, Served, Granted
  <2> QED BY <2>1, <2>3, <2>4, <2>5, <2>6 DEF GrantInv
<1> QED BY <1>1, <1>2, <1>3

\* The other process takes, keeps and gives back the flock, or dies with it.
LEMMA PeerSteps ==
    ASSUME GrantInv, Peer
    PROVE  GrantInv' /\ UNCHANGED <<stopCh, call, srv>>
<1>0. CoordTypeOK /\ Locked /\ TearsSeen
      BY DEF GrantInv
<1>1. /\ UNCHANGED <<srv, writerHeld, stopCh, call, result, release, undone, ctxDone>>
      /\ \/ /\ flock = "free" /\ flock' = "peer" /\ writerPID' = "peer" /\ peerLocks < MaxPeerLocks
            /\ peerLocks' = peerLocks + 1 /\ UNCHANGED <<tears, dataGeneration>>
            /\ takeovers' = IF writerPID # "none" THEN takeovers + 1 ELSE takeovers
         \/ /\ dataGeneration' = 1 /\ UNCHANGED <<flock, writerPID, takeovers, tears, peerLocks>>
         \/ /\ flock = "peer" /\ writerPID' = "none"
            /\ UNCHANGED <<flock, takeovers, tears, peerLocks, dataGeneration>>
         \/ /\ flock = "peer" /\ writerPID = "none" /\ flock' = "free"
            /\ UNCHANGED <<writerPID, takeovers, tears, peerLocks, dataGeneration>>
         \/ /\ flock = "peer" /\ flock' = "free"
            /\ tears' = IF writerPID = "peer" THEN tears + 1 ELSE tears
            /\ UNCHANGED <<writerPID, takeovers, peerLocks, dataGeneration>>
      BY DEF Peer, PeerLock, PeerCompact, PeerClear, PeerUnlock, PeerDie, ourVars, lockVars,
             peerVars, relVars
<1>2. /\ takeovers' \in Nat /\ tears' \in Nat /\ peerLocks' \in 0 .. MaxPeerLocks
      /\ dataGeneration' \in Nat
      BY SMTT(30), <1>0, <1>1, CoordAssumption DEF CoordTypeOK
<1>3. CoordTypeOK'
      BY <1>0, <1>1, <1>2 DEF CoordTypeOK
<1>4. Locked'
      BY <1>0, <1>1 DEF Locked
<1>5. TearsSeen'
      BY SMTT(30), <1>0, <1>1 DEF TearsSeen, Locked, CoordTypeOK
<1>6. ASSUME ~stopCh PROVE Served' /\ \A d \in Clients : Granted(d)'
      BY <1>1, <1>6 DEF GrantInv, Served, Granted
<1> QED BY <1>1, <1>3, <1>4, <1>5, <1>6 DEF GrantInv

\* Nothing happens to the grant.
LEMMA GrantStutter == GrantInv /\ UNCHANGED coordVars => GrantInv'
<1> SUFFICES ASSUME GrantInv, UNCHANGED coordVars PROVE GrantInv'
    OBVIOUS
<1>1. CoordTypeOK' /\ Locked' /\ TearsSeen'
      BY DEF GrantInv, coordVars, CoordTypeOK, Locked, TearsSeen
<1>2. ~stopCh => Served' /\ \A d \in Clients : Granted(d)'
      BY DEF GrantInv, coordVars, Served, Granted
<1> QED BY <1>1, <1>2 DEF GrantInv, coordVars
=============================================================================
