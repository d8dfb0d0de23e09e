--------------------------- MODULE KeyspaceStore ---------------------------
(***************************************************************************)
(* What the keyspace layer promises: a database is a set of named          *)
(* keyspaces, each [kind, rows, decls, cfg, seq] with rows a set of        *)
(* <<key, value>>; a transaction changes a copy of it, an operation takes  *)
(* effect whole or not at all (a range delete over an indexed keyspace     *)
(* may stop part of the way), a unique index never has two rows at one     *)
(* column, and Commit installs the copy, or leaves the database alone.     *)
(***************************************************************************)
EXTENDS Integers, Sequences, FiniteSets

CONSTANTS Cols, None
\* Cols[ver][v]: the columns of value v under extractor version ver.

VARIABLES
    db,           \* the committed database
    cur,          \* what the running transaction sees, or None
    par,          \* what its parent sees while a child runs, or None
    reply         \* the last operation and its result

storeVars == <<db, cur, par, reply>>

Unique(ks) ==
    \A i \in DOMAIN ks.decls :
        ks.decls[i].unique =>
            \A r, s \in ks.rows :
                r # s => Cols[ks.decls[i].ver][r[2]] \cap Cols[ks.decls[i].ver][s[2]] = {}

Replies(op) == reply'[1] = op

Changed(n, ks) == cur' = [cur EXCEPT ![n] = ks]

Whole(op) == Replies(op) /\ reply'[2] = "" /\ UNCHANGED <<db, par>>

KeysOf(ks) == {r[1] : r \in ks.rows}

Refusal == reply'[2] # "" /\ UNCHANGED <<db, cur, par>>

OpenName == Whole("open") /\ cur' = cur

CreateName ==
    /\ Whole("create")
    /\ \/ cur' = cur
       \/ \E n \in DOMAIN cur' \ DOMAIN cur :
              /\ DOMAIN cur' = DOMAIN cur \cup {n}
              /\ \A m \in DOMAIN cur : cur'[m] = cur[m]
              /\ cur'[n].rows = {} /\ cur'[n].cfg = 0 /\ cur'[n].seq = 0

DropName ==
    /\ Whole("drop")
    /\ \E n \in DOMAIN cur : cur' = [m \in DOMAIN cur \ {n} |-> cur[m]]

SetConfig ==
    /\ Whole("config")
    /\ \E n \in DOMAIN cur : Changed(n, [cur[n] EXCEPT !.cfg = 1])

IndexDDL ==
    /\ Whole("rebuild") \/ Whole("dropindex")
    /\ \E n \in DOMAIN cur :
           /\ DOMAIN cur'[n].decls = DOMAIN cur[n].decls \/ reply'[1] = "dropindex"
           /\ Changed(n, [cur[n] EXCEPT !.decls = cur'[n].decls])
           /\ Unique(cur'[n])

\* The rows a write of v at k leaves.
Written(ks, k, v) ==
    (IF ks.kind = 0 THEN {r \in ks.rows : r[1] # k} ELSE ks.rows) \cup {<<k, v>>}

PutRow ==
    /\ Whole("put") \/ Whole("insert") \/ Whole("replace")
    /\ \E n \in DOMAIN cur :
         /\ Unique(cur'[n])
         /\ \E r \in cur'[n].rows :
                /\ (reply'[1] = "insert") => (r[1] \notin KeysOf(cur[n]))
                /\ (reply'[1] = "replace") => (r[1] \in KeysOf(cur[n]))
                /\ Changed(n, [cur[n] EXCEPT !.rows = Written(cur[n], r[1], r[2])])

DeleteRow ==
    /\ Whole("delete")
    /\ \E n \in DOMAIN cur : \E r \in cur[n].rows :
           \/ Changed(n, [cur[n] EXCEPT !.rows = {x \in @ : x[1] # r[1]}])
           \/ cur[n].kind = 1 /\ Changed(n, [cur[n] EXCEPT !.rows = @ \ {r}])

Without(ks, gone) == [ks EXCEPT !.rows = {x \in @ : x[1] \notin gone}]

DeleteRange ==
    /\ Replies("range") /\ UNCHANGED <<db, par>>
    /\ \/ reply'[2] = ""
       \/ \E n \in DOMAIN cur : cur'[n] # cur[n] /\ DOMAIN cur[n].decls # {}
    /\ \E n \in DOMAIN cur : \E gone \in SUBSET KeysOf(cur[n]) :
           Changed(n, Without(cur[n], gone))

TakeSequence ==
    /\ Whole("sequence")
    /\ \E n \in DOMAIN cur : Changed(n, [cur[n] EXCEPT !.seq = @ + 1])

Begin == cur = None /\ cur' = db /\ UNCHANGED <<db, par, reply>>

Commit ==
    /\ Replies("commit") /\ par = None
    /\ cur' = None /\ par' = None
    /\ db' = IF reply'[2] = "" THEN cur ELSE db

Rollback == Replies("rollback") /\ cur' = None /\ par' = None /\ db' = db

BeginChild == Replies("child") /\ par = None /\ par' = cur /\ UNCHANGED <<db, cur>>

MergeChild == Replies("merge") /\ par # None /\ par' = None /\ UNCHANGED <<db, cur>>

DropChild == Replies("unchild") /\ par # None /\ cur' = par /\ par' = None /\ db' = db

StoreNext ==
    \/ Refusal \/ OpenName \/ CreateName \/ DropName \/ SetConfig \/ IndexDDL
    \/ PutRow \/ DeleteRow \/ DeleteRange \/ TakeSequence
    \/ Begin \/ Commit \/ Rollback \/ BeginChild \/ MergeChild \/ DropChild
=============================================================================
