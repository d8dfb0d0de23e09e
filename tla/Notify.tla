------------------------------- MODULE Notify -------------------------------
(***************************************************************************)
(* Change notification (notify.go, internal/lock/notify.go,                *)
(* futex_linux.go): version words in the lock file, raised and woken by a  *)
(* commit's publisher under the write grant, raised by an Open, awaited by *)
(* WaitVersion and WaitKeyspaceVersion on a futex.                         *)
(*                                                                         *)
(* by[s] is the set of commits the value of word s stands for, due[p] what *)
(* the wait process p returns from promises the reads that follow it.      *)
(* refs counts the references the handle and its waiter have on the mapping.    *)
(***************************************************************************)
EXTENDS DataFile

CONSTANTS
    Global,    \* the word every commit raises
    Slots      \* the words of keyspaces

ASSUME NotifyAssumption == Global \notin Slots

Words == {Global} \cup Slots

VARIABLES
    word, by,
    pub,                     \* the publisher: [at, todo], at = the word to wake
    wpc, slot, from, seen,   \* a waiter: where it is, what it waits for
    ctx,                     \* its context: "live", "done", "told" once the callback ran
    due, refs

wordVars == <<word, by, pub>>
waitVars == <<wpc, slot, from, seen, ctx, due>>
notifyVars == <<wordVars, waitVars, refs>>

Idle == [at |-> Global, todo |-> {}]

InitNotify ==
    /\ word = [s \in Words |-> 0] /\ by = [s \in Words |-> {}]
    /\ pub = Idle
    /\ wpc = [p \in Procs |-> "idle"] /\ slot = [p \in Procs |-> Global]
    /\ from = [p \in Procs |-> 0] /\ seen = [p \in Procs |-> 0]
    /\ ctx = [p \in Procs |-> "live"] /\ due = [p \in Procs |-> {}]
    /\ refs = [p \in Procs |-> 0]

\* The futex wake: every sleeper on the word looks again.
Woken(s) ==
    wpc' = [p \in Procs |-> IF wpc[p] = "asleep" /\ slot[p] = s THEN "load" ELSE wpc[p]]

-----------------------------------------------------------------------------
(* Publishing *)

(* mutant: a store of the TxnID, as if nobody else raised the word *)
SeedNotifyVersionStored(v, cs) ==
    /\ word' = [word EXCEPT ![Global] = v]
    /\ by' = [by EXCEPT ![Global] = cs]
    /\ UNCHANGED <<pub, waitVars, refs>>

\* CAS-max, and nobody is woken.
SeedNotifyVersion(v, cs) ==
    /\ word' = [word EXCEPT ![Global] = IF v > @ THEN v ELSE @]
    /\ by' = [by EXCEPT ![Global] = IF v > word[Global] THEN cs ELSE @]
    /\ UNCHANGED <<pub, waitVars, refs>>

\* Add64 on the global word.
PublishBump(c, ss) ==
    /\ word' = [word EXCEPT ![Global] = @ + 1]
    /\ by' = [by EXCEPT ![Global] = {c}]
    /\ pub' = [at |-> Global, todo |-> ss]
    /\ UNCHANGED <<waitVars, refs>>

PublishWake ==
    /\ Woken(pub.at)
    /\ UNCHANGED <<wordVars, slot, from, seen, ctx, due, refs>>

\* One keyspace word is stamped with the global version.
PublishStamp(s) ==
    /\ s \in pub.todo
    /\ word' = [word EXCEPT ![s] = word[Global]]
    /\ by' = [by EXCEPT ![s] = by[Global]]
    /\ pub' = [at |-> s, todo |-> pub.todo \ {s}]
    /\ UNCHANGED <<waitVars, refs>>

-----------------------------------------------------------------------------
(* Waiting *)

\* notifySnapshot takes a reference; from is a version seen before.
WaitStart(p, s, v) ==
    /\ "wait" \in uses[p] /\ wpc[p] = "idle"
    /\ refs' = [refs EXCEPT ![p] = @ + 1]
    /\ wpc' = [wpc EXCEPT ![p] = "load"]
    /\ slot' = [slot EXCEPT ![p] = s]
    /\ from' = [from EXCEPT ![p] = v]
    /\ ctx' = [ctx EXCEPT ![p] = "live"]
    /\ UNCHANGED <<wordVars, seen, due>>

WaitLoad(p) ==
    /\ wpc[p] = "load"
    /\ seen' = [seen EXCEPT ![p] = word[slot[p]]]
    /\ IF word[slot[p]] > from[p]
       THEN /\ wpc' = [wpc EXCEPT ![p] = "leave"]
            /\ due' = [due EXCEPT ![p] = by[slot[p]]]
       ELSE /\ wpc' = [wpc EXCEPT ![p] = "check"]
            /\ UNCHANGED due
    /\ UNCHANGED <<wordVars, slot, from, ctx, refs>>

\* The context's error, or ErrNotifyStopped once the handle is closing.
WaitCheck(p, stopped) ==
    /\ wpc[p] = "check"
    /\ wpc' = [wpc EXCEPT ![p] = IF ctx[p] # "live" \/ stopped THEN "leave" ELSE "sleep"]
    /\ UNCHANGED <<wordVars, slot, from, seen, ctx, due, refs>>

\* FUTEX_WAIT compares the word with the value seen.
WaitSleep(p) ==
    /\ wpc[p] = "sleep"
    /\ wpc' = [wpc EXCEPT ![p] = IF word[slot[p]] = seen[p] THEN "asleep" ELSE "load"]
    /\ UNCHANGED <<wordVars, slot, from, seen, ctx, due, refs>>

(* mutant: the futex wait has no timeout *)
WaitSliceNever(p) == FALSE

\* notifyWaitSlice has passed.
WaitSlice(p) ==
    /\ wpc[p] = "asleep"
    /\ wpc' = [wpc EXCEPT ![p] = "load"]
    /\ UNCHANGED <<wordVars, slot, from, seen, ctx, due, refs>>

Waiting(p) == wpc[p] # "idle"

Cancel(p) ==
    /\ Waiting(p) /\ ctx[p] = "live"
    /\ ctx' = [ctx EXCEPT ![p] = "done"]
    /\ UNCHANGED <<wordVars, wpc, slot, from, seen, due, refs>>

\* The AfterFunc wakes the word.
CancelWake(p) ==
    /\ ctx[p] = "done"
    /\ ctx' = [ctx EXCEPT ![p] = "told"]
    /\ Woken(slot[p])
    /\ UNCHANGED <<wordVars, slot, from, seen, due, refs>>

(* mutant: the callback that has started is not awaited *)
CallbackOverAlways(p) == TRUE

\* stop() succeeded, or the callback has run.
CallbackOver(p) == ctx[p] # "done"

WaitForgotten(p) ==
    /\ slot' = [slot EXCEPT ![p] = Global]
    /\ from' = [from EXCEPT ![p] = 0]
    /\ seen' = [seen EXCEPT ![p] = 0]
    /\ due' = [due EXCEPT ![p] = {}]

\* The callback is over, or will not run; the reference is dropped.
WaitLeave(p) ==
    /\ wpc[p] = "leave" /\ CallbackOver(p)
    /\ wpc' = [wpc EXCEPT ![p] = "idle"]
    /\ refs' = [refs EXCEPT ![p] = @ - 1]
    /\ WaitForgotten(p)
    /\ UNCHANGED <<wordVars, ctx>>
=============================================================================
