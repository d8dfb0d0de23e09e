------------------------------ MODULE Catalog ------------------------------
(***************************************************************************)
(* Write transactions of the keyspace layer, one after the other, each     *)
(* with at most one child at a time.  An operation is one action of        *)
(* Keyspaces, taken with or without a failure at any of its fallible       *)
(* steps; after a failed operation the transaction goes on and may commit. *)
(*                                                                         *)
(* The descriptors of open handles live in memory and reach the catalogue  *)
(* tree only at Commit; creations and deletions are written to the tree    *)
(* at once.  The pinned index roots live in memory too and reach the       *)
(* registries only at Commit.                                              *)
(***************************************************************************)
EXTENDS Keyspaces

CONSTANTS
    RowArgs,      \* [k, v] the row operations are called with
    Ranges,       \* sets of keys DeleteRange is called with
    Rebuilds,     \* [i, decl] a caller may rebuild an index with
    Seeds,        \* beginnings: [db, names, slots, decls, ops], a committed
                  \* database [heap, ks, num], the names, the cursors and
                  \* the declarations in use, and the bound on operations
    NoTx          \* no transaction, no child

VARIABLES
    scope,        \* names, cursors, declarations, operations of this behaviour
    heap,         \* pages of the running transaction
    base,         \* the committed database: [heap, ks, num]
    tx,           \* the write transaction, or NoTx
    child,        \* its open child transaction, or NoTx
    saved,        \* the pages at BeginChild
    ext,          \* the pager's external commit reserve, in pages
    curs,         \* row cursors and index iterators
    told,         \* keyspaces whose version word the last commit published
    view,         \* what the database, the transaction and the parent read
    out,          \* the last operation and its result
    ops,          \* operations so far that may change the database
    low           \* history: a refused DropIndex of this transaction left a
                  \* handle with the registry depth after the drop

vars == <<scope, heap, base, tx, child, saved, ext, curs, told, view, out, ops, low>>

\* No guard and no invariant reads the last result or the last publication:
\* states that differ only there have the same future.
Observed == <<scope, heap, base, tx, child, saved, ext, curs, view, ops, low>>

Cur == IF child = NoTx THEN tx ELSE child
Level == IF child = NoTx THEN 0 ELSE 1
Kept == DOMAIN base.heap \cup (IF child = NoTx THEN {} ELSE DOMAIN saved)

Context(left) ==
    [w |-> Work(heap, Kept, left), t |-> Cur, ext |-> ext, curs |-> curs, lvl |-> Level]

\* What a transaction reads: through the open handles and the staged
\* descriptors, over the catalogue tree.
Logical(h, t, n, d) ==
    [kind |-> d.kind, cfg |-> d.cfg, seq |-> d.seq,
     rows |-> {<<x.k, x.v>> : x \in Pairs(h, d)},
     decls |-> DeclsOf(registryOf(h, d))]

ViewOf(h, t) ==
    [n \in DOMAIN Tree(h, t.ks) |-> Logical(h, t, n, lookupDescriptor(h, t, n))]

Init ==
    /\ \E s \in Seeds :
           /\ base = s.db
           /\ scope = [names |-> s.names, slots |-> s.slots, decls |-> s.decls,
                       ops |-> s.ops]
    /\ heap = base.heap
    /\ tx = NoTx /\ child = NoTx
    /\ saved = EmptyTree
    /\ ext = 0
    /\ curs = [s \in Slots |-> NoCursor]
    /\ told = {}
    /\ view = [db |-> ViewOf(base.heap, NewTx(base)), cur |-> NoTx, par |-> NoTx]
    /\ out = <<"init", "">>
    /\ ops = 0
    /\ low = FALSE

-----------------------------------------------------------------------------
(* Operations *)

\* The fallible steps an operation meets when none of them fails.
Ample == 100
StepsOf(c) == Ample - c.w.left

Do(op, c) ==
    /\ heap' = c.w.heap
    /\ ext' = c.ext
    /\ curs' = c.curs
    /\ tx' = IF child = NoTx THEN c.t ELSE tx
    /\ child' = IF child = NoTx THEN child ELSE c.t
    /\ view' = [view EXCEPT !.cur = ViewOf(c.w.heap, c.t)]
    /\ out' = <<op, c.w.err>>
    /\ ops' = IF op = "open" THEN ops ELSE ops + 1
    /\ low' = (low \/ (op = "dropindex" /\ c.w.err # "" /\ c.t # Cur))
    /\ UNCHANGED <<scope, base, saved, told>>

\* The operation Run goes through, or one of its fallible steps fails.
Attempt(op, Run(_)) ==
    LET c == Run(Context(Ample))
    IN \/ Do(op, c)
       \/ \E left \in 0..(StepsOf(c) - 1) : Do(op, Run(Context(left)))

Ready == tx # NoTx /\ ops < scope.ops

Open ==
    /\ Ready
    /\ \E n \in scope.names, kind \in {0, 1}, d \in scope.decls :
           Attempt("open", LAMBDA c : OpenKeyspace(c, n, kind, d, FALSE))

OpenReadOnly ==
    /\ Ready
    /\ \E n \in scope.names, kind \in {0, 1} :
           Attempt("open", LAMBDA c : OpenKeyspaceReadOnly(c, n, kind))

Create ==
    /\ Ready
    /\ \E n \in scope.names, kind \in {0, 1}, d \in scope.decls :
           Attempt("create", LAMBDA c : CreateKeyspace(c, n, kind, d, ops + 1))

CreateIfNotExists ==
    /\ Ready
    /\ \E n \in scope.names, kind \in {0, 1}, d \in scope.decls :
           Attempt("create", LAMBDA c : CreateKeyspaceIfNotExists(c, n, kind, d, ops + 1))

Delete ==
    /\ Ready
    /\ \E n \in scope.names :
           Attempt("drop", LAMBDA c : DeleteKeyspace(c, n))

Config ==
    /\ Ready
    /\ \E n \in scope.names :
           Attempt("config", LAMBDA c : SetKeyspaceConfig(c, n, 1))

Rebuild ==
    /\ Ready
    /\ \E n \in scope.names, r \in Rebuilds :
           Attempt("rebuild", LAMBDA c : rebuildIndex(c, n, r.i, r.decl))

DropIndex ==
    /\ Ready
    /\ \E n \in scope.names, r \in Rebuilds :
           Attempt("dropindex", LAMBDA c : dropIndex(c, n, r.i))

Handles(kinds) == {n \in DOMAIN Cur.open : Cur.open[n].desc.kind \in kinds}

Put ==
    /\ Ready
    /\ \E n \in Handles({0}), a \in RowArgs,
          verb \in {"put", "insert", "replace"} :
           Attempt(verb, LAMBDA c : RowOp(c, n, LAMBDA w, h : putVerb(w, h, a.k, a.v, verb)))

SetPut ==
    /\ Ready
    /\ \E n \in Handles({1}), a \in RowArgs :
           Attempt("put", LAMBDA c : RowOp(c, n, LAMBDA w, h : setPut(w, h, a.k, a.v)))

DeleteKeyRow ==
    /\ Ready
    /\ \E n \in Handles({0, 1}), a \in RowArgs :
           Attempt("delete", LAMBDA c : RowOp(c, n, LAMBDA w, h : DeleteOne(w, h, a.k)))

DeleteValue ==
    /\ Ready
    /\ \E n \in Handles({1}), a \in RowArgs :
           Attempt("delete", LAMBDA c : RowOp(c, n, LAMBDA w, h : setDeleteValue(w, h, a.k, a.v)))

DeleteRange ==
    /\ Ready
    /\ \E n \in Handles({0, 1}), r \in Ranges :
           Attempt("range", LAMBDA c : RowOp(c, n, LAMBDA w, h : deleteRange(w, h, r)))

Sequence ==
    /\ Ready
    /\ \E n \in Handles({0, 1}) :
           Attempt("sequence", LAMBDA c : NextSequence(c, n))

-----------------------------------------------------------------------------
(* Cursors *)

CursorStep(op, s, c) ==
    /\ curs' = [curs EXCEPT ![s] = c]
    /\ out' = <<op, "">>
    /\ UNCHANGED <<scope, heap, base, tx, child, saved, ext, told, view, ops, low>>

OpenCursor ==
    /\ Ready
    /\ \E s \in scope.slots, n \in DOMAIN Cur.open : \E i \in DOMAIN Cur.open[n].idx \cup {Plain} :
           /\ curs[s] = NoCursor
           /\ CursorStep("open", s,
                  [lvl |-> Level, n |-> n, i |-> i, stale |-> FALSE,
                   root |-> TreeRoot(Cur.open[n], i), at |-> TreeRoot(Cur.open[n], i)])

\* First, Last and the Seeks descend from the tracked root.
Reposition ==
    /\ Ready
    /\ \E s \in Slots :
           /\ curs[s] # NoCursor /\ curs[s].lvl = Level /\ curs[s].stale
           /\ CursorStep("open", s, [curs[s] EXCEPT !.stale = FALSE, !.at = curs[s].root])

DeleteAtCursor ==
    /\ Ready
    /\ \E s \in Slots, a \in RowArgs :
           /\ curs[s] # NoCursor /\ curs[s].lvl = Level
           /\ ~curs[s].stale /\ curs[s].i = Plain
           /\ a.v \in ValuesAt(heap, Cur.open[curs[s].n].desc, a.k)
           /\ Attempt("delete", LAMBDA c : CursorDelete(c, s, curs[s].n, a.k, a.v))

-----------------------------------------------------------------------------
(* Transactions *)

Begin ==
    /\ tx = NoTx /\ ops < scope.ops
    /\ tx' = NewTx(base)
    /\ ext' = 0
    /\ view' = [view EXCEPT !.cur = view.db]
    /\ UNCHANGED <<scope, heap, base, child, saved, curs, told, out, ops, low>>

\* The transaction is over: db is the committed database afterwards.
Finish(op, err, db) ==
    /\ heap' = db.heap
    /\ base' = db
    /\ tx' = NoTx /\ child' = NoTx /\ saved' = EmptyTree
    /\ ext' = 0
    /\ curs' = [s \in Slots |-> NoCursor]
    /\ view' = [db |-> ViewOf(db.heap, NewTx(db)), cur |-> NoTx, par |-> NoTx]
    /\ out' = <<op, err>>
    /\ low' = FALSE
    /\ UNCHANGED <<scope, ops>>

CommitFlushed(f) ==
    IF f.w.err = ""
    THEN /\ Finish("commit", "", [heap |-> f.w.heap, ks |-> f.ks, num |-> tx.num])
         /\ told' = touchedNotifySlots(tx)
    ELSE Finish("commit", f.w.err, base) /\ told' = {}

Flushed(left) == flushKeyspaces(Work(heap, Kept, left), tx)

Commit ==
    /\ tx # NoTx /\ child = NoTx
    /\ \/ CommitFlushed(Flushed(Ample))
       \/ \E left \in 0..(StepsOf(Flushed(Ample)) - 1) : CommitFlushed(Flushed(left))

\* Rolls an open child back first.
Rollback == tx # NoTx /\ Finish("rollback", "", base) /\ told' = {}

BeginChild ==
    /\ Ready /\ child = NoTx
    /\ child' = BeginChildTx(tx)
    /\ saved' = heap
    /\ view' = [view EXCEPT !.par = view.cur]
    /\ out' = <<"child", "">>
    /\ UNCHANGED <<scope, heap, base, tx, ext, curs, told, ops, low>>

ChildOver(op, t, h, cs) ==
    /\ tx' = t
    /\ child' = NoTx
    /\ heap' = h
    /\ saved' = EmptyTree
    /\ ext' = recalcFlushReserve(t)
    /\ curs' = cs
    /\ out' = <<op, "">>
    /\ view' = [view EXCEPT !.cur = ViewOf(h, t), !.par = NoTx]
    /\ UNCHANGED <<scope, base, told, ops, low>>

CommitChild ==
    /\ child # NoTx
    /\ ChildOver("merge", mergeKeyspaceHandles(tx, child), heap,
                 reconcileHandles(curs, tx, child))

RollbackChild ==
    /\ child # NoTx
    /\ ChildOver("unchild", tx, saved, DropChildCursors(curs))

Next ==
    \/ Open \/ OpenReadOnly \/ Create \/ CreateIfNotExists \/ Delete \/ Config
    \/ Rebuild \/ DropIndex
    \/ Put \/ SetPut \/ DeleteKeyRow \/ DeleteValue \/ DeleteRange \/ Sequence
    \/ OpenCursor \/ Reposition \/ DeleteAtCursor
    \/ Begin \/ Commit \/ Rollback \/ BeginChild \/ CommitChild \/ RollbackChild

Spec == Init /\ [][Next]_vars

-----------------------------------------------------------------------------
(* Properties *)

\* What the innermost transaction sees, the committed database when there
\* is none.
Database == IF tx = NoTx THEN [h |-> base.heap, t |-> NewTx(base)] ELSE [h |-> heap, t |-> Cur]

KeyspacesOf(d) == DOMAIN Tree(d.h, d.t.ks)
DescOf(d, n) == lookupDescriptor(d.h, d.t, n)

PinnedOf(d, n, i) ==
    IF n \in DOMAIN d.t.open THEN d.t.open[n].idx[i] ELSE registryOf(d.h, DescOf(d, n))[i]

\* What a scan of the rows finds in the columns cols.
Expected(decl, pairs, cols) ==
    UNION {{[col |-> c, pk |-> x.pk, v |-> x.v] : c \in ColumnSet(decl, x.v) \cap cols} :
               x \in pairs}

Stored(decl, rows) ==
    {[col |-> r.col, pk |-> r.pk, cov |-> IF decl.cover THEN r.v ELSE Plain] : r \in rows}

ReadsExact(h, desc, p, pairs, col) ==
    /\ Lookup(h, desc, p, col) = Expected(p.decl, pairs, {col})
    /\ Prefix(h, desc, p, <<col>>) = Expected(p.decl, pairs, {col})
    /\ p.decl.unique => (Get(h, desc, p, col) = Expected(p.decl, pairs, {col}))
    /\ (desc.kind = 0) => (LookupKeys(h, p, col) =
                               {r.pk : r \in Expected(p.decl, pairs, {col})})

RangesExact(h, desc, p, all, cols) ==
    /\ Prefix(h, desc, p, << >>) = all
    /\ \A start \in cols : \A end \in cols :
           /\ RangeRows(h, desc, p, start, end) = {r \in all : start <= r.col /\ r.col < end}
           /\ (desc.kind = 0) => (RangeEntries(h, p, start, end) =
                  Stored(p.decl, {r \in all : start <= r.col /\ r.col < end}))

ColumnsIn(rows) == {r.col : r \in rows}

IndexExact(h, desc, p, pairs, all) ==
    /\ \A col \in ColumnsIn(all) : ReadsExact(h, desc, p, pairs, col)
    /\ RangesExact(h, desc, p, all, ColumnsIn(all))
    /\ p.count = Cardinality(DOMAIN Tree(h, p.root))
    /\ p.count = Cardinality(all)

IndexTrue(h, desc, p, pairs) ==
    IndexExact(h, desc, p, pairs,
               Expected(p.decl, pairs, UNION {ColumnSet(p.decl, x.v) : x \in pairs}))

KeyspaceIndexed(d, n, desc) ==
    \A i \in DOMAIN registryOf(d.h, desc) :
        IndexTrue(d.h, desc, PinnedOf(d, n, i), Pairs(d.h, desc))

\* Lookup, LookupKeys, Prefix, Get, Range and RangeEntries answer with
\* exactly the rows whose extracted columns match and with their current
\* values, and IndexStats counts the entries right: after any operations,
\* failed ones, rebuilds and child merges included.
LookupExact ==
    \A n \in KeyspacesOf(Database) : KeyspaceIndexed(Database, n, DescOf(Database, n))

\* The pages of one keyspace: rows, nested values, registry, indexes.
PagesOf(d, n, desc) ==
    <<DataRoots(d.h, desc) \ {0}, {desc.reg} \ {0}, IndexRoots(d.h, d.t, n, desc) \ {0}>>

PageCount(p) == Cardinality(p[1]) + Cardinality(p[2]) + Cardinality(p[3])

Partition(pages, all) ==
    /\ UNION {pages[n][1] \cup pages[n][2] \cup pages[n][3] : n \in DOMAIN pages} = all
    /\ Cardinality(all) = MapThenSumSet(LAMBDA n : PageCount(pages[n]), DOMAIN pages)

\* Every allocated page belongs to exactly one live tree and every live tree
\* has its pages: a failed or an abandoned operation leaks none, and a
\* retirement frees none that is still referenced (the bitmap consistency
\* the savepoints of putVerb, rebuildIndex, DeleteKeyspace ... are for).
PagesAccounted ==
    /\ (Database.t.ks # 0) => (Database.t.ks \in DOMAIN Database.h)
    /\ Partition([n \in KeyspacesOf(Database) |-> PagesOf(Database, n, DescOf(Database, n))],
                 DOMAIN Database.h \ {Database.t.ks})

\* A name has one home: an open handle, a staged descriptor or a pending
\* deletion (the maps of Tx are disjoint); the handle is of the keyspace's
\* own generation, so none outlives a delete and recreate through a child
\* merge; the catalogue count is the number of keyspaces, and every
\* keyspace's count the number of its rows.
OneHome ==
    LET t == Database.t
    IN /\ DOMAIN t.open \cap DOMAIN t.dirty = {}
       /\ (DOMAIN t.open \cup DOMAIN t.dirty) \cap t.pend = {}
       /\ DOMAIN t.open \cup DOMAIN t.dirty \subseteq KeyspacesOf(Database)
       /\ t.pend \cap KeyspacesOf(Database) = {}
       /\ \A n \in DOMAIN t.open : t.open[n].gen = t.open[n].desc.gen
       /\ t.num = Cardinality(KeyspacesOf(Database))
       /\ \A n \in KeyspacesOf(Database) :
              DescOf(Database, n).count = Cardinality(Pairs(Database.h, DescOf(Database, n)))

\* Pages and names are accounted for: each has one owner, and the counts of
\* the catalogue and of its descriptors are right.
Accounted == PagesAccounted /\ OneHome

\* The pages the flush of transaction t would allocate, and the RPL segments
\* its retires would add, on top of what the transaction already retired.
RetiredBy(h) == Cardinality(DOMAIN base.heap \ DOMAIN h)
FlushCost(f) == StepsOf(f) + Segments(RetiredBy(f.w.heap)) - Segments(RetiredBy(heap))

\* Registry pages the handles do not charge for, since their measured depth
\* is below the depth of the registry they will write.
Unmeasured(h) ==
    IF h.ro THEN 0 ELSE Cardinality(DOMAIN h.idx) * (PathLen(h.desc.reg) - h.regLen)

Shortfall(t) == MapThenSumSet(LAMBDA n : Unmeasured(t.open[n]), DOMAIN t.open)

\* The reserve recalcFlushReserve keeps in the pager covers what the commit
\* flush will allocate, between any two operations: Commit cannot run out
\* of slab budget half-way through the descriptors.  One case is short, by
\* no more than the pages stated: dropIndex refused by the admission check
\* keeps the depth it measured after its own registry delete, while the
\* registry goes back (index_rebuild.go calls the kept depth "a safe
\* overcharge for the reverted tree").
ReserveCovers ==
    (tx # NoTx) =>
        LET short == IF low THEN Shortfall(Cur) ELSE 0
        IN ext + short + Segments(short)
               >= FlushCost(flushKeyspaces(Work(heap, Kept, Ample), Cur))

LiveRoot(c, t) == TreeRoot(t.open[c.n], c.i)

\* A cursor that may still be used is on a live handle, re-positions from
\* the tree's current root, and while it is not stale its position lies in
\* that tree: no mutation, rebuild, drop or child merge leaves a usable
\* cursor on freed pages.
CursorsTrack ==
    \A s \in Slots :
        (curs[s] # NoCursor /\ curs[s].lvl = Level) =>
            /\ curs[s].n \in DOMAIN Cur.open
            /\ curs[s].i \in DOMAIN Cur.open[curs[s].n].idx \cup {Plain}
            /\ curs[s].root = LiveRoot(curs[s], Cur)
            /\ curs[s].stale \/ curs[s].at = LiveRoot(curs[s], Cur)

Differs(a, b, n) == (n \in DOMAIN a) # (n \in DOMAIN b) \/ (n \in DOMAIN a /\ a[n] # b[n])

\* A commit publishes the version word of every keyspace whose content it
\* changed, created or removed, whatever path the change took (child
\* merges, staged descriptors, dead handles): a waiter on WaitKeyspaceVersion
\* misses no change.
NotifyCovers ==
    [][view'.db # view.db => {n \in scope.names : Differs(view.db, view'.db, n)} \subseteq told']_vars

Store == INSTANCE KeyspaceStore WITH
    Cols <- [ver \in DOMAIN Extract |->
                [v \in DOMAIN Extract[ver] |->
                    {Extract[ver][v][i] : i \in DOMAIN Extract[ver][v]}]],
    None <- NoTx, db <- view.db, cur <- view.cur, par <- view.par, reply <- out

\* Every step of the keyspace layer is a step of KeyspaceStore: operations
\* take effect whole or not at all, child transactions and commits carry
\* exactly what their transaction saw, and no write breaks a unique index.
ImplementsStore == [][Store!StoreNext]_(Store!storeVars)
=============================================================================
