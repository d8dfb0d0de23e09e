-------------------------------- MODULE Rows --------------------------------
(***************************************************************************)
(* The row operations of one keyspace handle: Keyspace (kind 0, keyspace.go)*)
(* maps a key to a value; SetKeyspace (kind 1, set_keyspace.go) maps a key *)
(* to a set of values, held in the row itself (a subpage) while the values *)
(* fit the budget and in a nested tree of their own beyond it.             *)
(*                                                                         *)
(* A handle is [desc, state, ro, idx, charged, regLen, gen]; its in-memory *)
(* descriptor desc is [kind, root, count, reg, cfg, seq, gen] and idx are  *)
(* the pinned indexes.  Every operation runs in a shallow savepoint:       *)
(* index maintenance first, then the row; an error puts the pages and the  *)
(* pinned roots back.  The result is [w, h, done]: done says that the      *)
(* tree moved, which is when the caller marks the cursors stale.           *)
(***************************************************************************)
EXTENDS Indexing, Folds

CONSTANTS
    VSize,        \* value -> bytes it takes in a subpage
    SubBudget     \* bytes a subpage may take: subpageBudgetForKey

Bytes(vals) == MapThenSumSet(LAMBDA v : VSize[v], vals)
Subpage(vals) == [vals |-> vals, root |-> 0, n |-> 0]
NestedRef(root, n) == [vals |-> {}, root |-> root, n |-> n]
NestedTree(vals) == [v \in vals |-> v]

cellValues(heap, cell) ==
    IF cell.root = 0 THEN cell.vals ELSE DOMAIN Tree(heap, cell.root)

PrimaryKey(kind, k, v) == IF kind = 0 THEN <<k>> ELSE <<k, v>>

\* The rows of a keyspace, as [pk, k, v].
ValuesAt(heap, desc, k) ==
    IF k \notin DOMAIN Tree(heap, desc.root) THEN {}
    ELSE IF desc.kind = 0 THEN {Tree(heap, desc.root)[k]}
    ELSE cellValues(heap, Tree(heap, desc.root)[k])

PairsAt(heap, desc, ks) ==
    UNION {{[pk |-> PrimaryKey(desc.kind, k, v), k |-> k, v |-> v] :
                v \in ValuesAt(heap, desc, k)} : k \in ks}

Pairs(heap, desc) == PairsAt(heap, desc, DOMAIN Tree(heap, desc.root))

NestedRoots(heap, desc, ks) ==
    IF desc.kind = 0 THEN {}
    ELSE {Tree(heap, desc.root)[k].root :
              k \in ks \cap DOMAIN Tree(heap, desc.root)} \ {0}

markDirty(h) == IF h.state = "clean" THEN [h EXCEPT !.state = "dirty"] ELSE h

\* The end of an operation that began with work record sp on handle h:
\* idx are the pinned indexes as maintenance left them, w the final record.
Settled(sp, h, idx, w, d) ==
    IF w.err = ""
    THEN [w |-> w, done |-> TRUE,
          h |-> markDirty([h EXCEPT !.desc.root = w.ret, !.desc.count = @ + d,
                                    !.idx = idx])]
    ELSE [w |-> RestoreSavepoint(w, sp), done |-> FALSE,
          h |-> [h EXCEPT !.idx = restoreIndexes(idx, h.idx)]]

Refused(w, h, e) == [w |-> Fail(w, e), h |-> h, done |-> FALSE]
Unchanged(w, h) == [w |-> w, h |-> h, done |-> FALSE]

-----------------------------------------------------------------------------
(* Keyspace *)

PutRow(w, h, k, v, old, acc) ==
    Settled(w, h, acc.idx, PutKey(acc.w, h.desc.root, k, v), IF old = {} THEN 1 ELSE 0)

PutOver(w, h, k, v, verb, old) ==
    IF verb = "insert" /\ old # {} THEN Refused(w, h, "ErrKeyExists")
    ELSE IF verb = "replace" /\ old = {} THEN Refused(w, h, "ErrNotFound")
    ELSE PutRow(w, h, k, v, old, onReplace(w, h.idx, <<k>>, old, v))

putVerb(w, h, k, v, verb) ==
    PutOver(w, h, k, v, verb, ValuesAt(w.heap, h.desc, k))

DeleteRow(w, h, k, acc) ==
    Settled(w, h, acc.idx, DeleteKey(acc.w, h.desc.root, k), -1)

keyspaceDelete(w, h, k) ==
    IF ValuesAt(w.heap, h.desc, k) = {} THEN Refused(w, h, "ErrNotFound")
    ELSE DeleteRow(w, h, k, onDelete(w, h.idx, PairsAt(w.heap, h.desc, {k})))

-----------------------------------------------------------------------------
(* SetKeyspace *)

\* The row of a key whose values no longer fit, or never fitted, a subpage.
PromoteRow(w, h, k, vals) ==
    PutKey(w, h.desc.root, k, NestedRef(w.ret, Cardinality(vals)))

putIntoSubpage(w, h, k, vals) ==
    IF Bytes(vals) <= SubBudget THEN PutKey(w, h.desc.root, k, Subpage(vals))
    ELSE PromoteRow(WriteTree(w, 0, NestedTree(vals)), h, k, vals)

PutNestedRef(w, h, k, n) == PutKey(w, h.desc.root, k, NestedRef(w.ret, n))

putIntoNestedTree(w, h, k, v, cell) ==
    PutNestedRef(PutKey(w, cell.root, v, v), h, k, cell.n + 1)

putMember(w, h, k, v) ==
    IF k \notin DOMAIN Tree(w.heap, h.desc.root) THEN putIntoSubpage(w, h, k, {v})
    ELSE IF Tree(w.heap, h.desc.root)[k].root = 0
    THEN putIntoSubpage(w, h, k, Tree(w.heap, h.desc.root)[k].vals \cup {v})
    ELSE putIntoNestedTree(w, h, k, v, Tree(w.heap, h.desc.root)[k])

AddMember(w, h, k, v, acc) == Settled(w, h, acc.idx, putMember(acc.w, h, k, v), 1)

setPut(w, h, k, v) ==
    IF v \in ValuesAt(w.heap, h.desc, k) THEN Unchanged(w, h)
    ELSE AddMember(w, h, k, v, onReplace(w, h.idx, <<k, v>>, {}, v))

\* The values of one key, nested tree included.
FreeNestedValues(w, h, ks) == FreeSubtrees(w, NestedRoots(w.heap, h.desc, ks))

DropRows(w, h, ks, acc, n) ==
    LET freed == FreeNestedValues(acc.w, h, ks)
    IN Settled(w, h, acc.idx,
               WriteTree(freed, h.desc.root, Without(Tree(freed.heap, h.desc.root), ks)),
               -n)

setDelete(w, h, k) ==
    IF ValuesAt(w.heap, h.desc, k) = {} THEN Refused(w, h, "ErrNotFound")
    ELSE DropRows(w, h, {k}, onDelete(w, h.idx, PairsAt(w.heap, h.desc, {k})),
                  Cardinality(ValuesAt(w.heap, h.desc, k)))

deleteValueFromSubpage(w, h, k, vals) ==
    IF vals = {} THEN DeleteKey(w, h.desc.root, k)
    ELSE PutKey(w, h.desc.root, k, Subpage(vals))

\* The nested tree lost a value: a tree that fits again becomes a subpage.
DemoteNestedTreeIfFits(w, h, k, vals, root) ==
    IF w.err # "" THEN w
    ELSE IF vals = {} THEN DeleteKey(w, h.desc.root, k)
    ELSE IF Bytes(vals) <= SubBudget
    THEN PutKey(FreeSubtrees(w, {root}), h.desc.root, k, Subpage(vals))
    ELSE PutKey(w, h.desc.root, k, NestedRef(root, Cardinality(vals)))

AfterNestedDelete(w, h, k, vals) == DemoteNestedTreeIfFits(w, h, k, vals, w.ret)

removeMember(w, h, k, v, cell) ==
    IF cell.root = 0 THEN deleteValueFromSubpage(w, h, k, cell.vals \ {v})
    ELSE AfterNestedDelete(DeleteKey(w, cell.root, v), h, k,
                           cellValues(w.heap, cell) \ {v})

RemoveMember(w, h, k, v, acc) ==
    Settled(w, h, acc.idx,
            removeMember(acc.w, h, k, v, Tree(w.heap, h.desc.root)[k]), -1)

setDeleteValue(w, h, k, v) ==
    IF v \notin ValuesAt(w.heap, h.desc, k) THEN Refused(w, h, "ErrNotFound")
    ELSE RemoveMember(w, h, k, v,
             onDelete(w, h.idx, {[pk |-> <<k, v>>, k |-> k, v |-> v]}))

-----------------------------------------------------------------------------
(* Range deletes: one atomic walk without indexes, row by row with them.   *)

DeleteOne(w, h, k) == IF h.desc.kind = 0 THEN keyspaceDelete(w, h, k) ELSE setDelete(w, h, k)

\* The loop runs in key order, stops at the first error and keeps the rows
\* already deleted.
DeleteNext(k, r) ==
    IF r.w.err # "" THEN r
    ELSE LET one == DeleteOne(r.w, r.h, k)
         IN [one EXCEPT !.done = r.done \/ @]

deleteRangeIndexed(w, h, ks) ==
    MapThenFoldSet(DeleteNext, Unchanged(w, h), LAMBDA k : k,
                   LAMBDA left : CHOOSE k \in left : \A j \in left : j <= k, ks)

deleteRangeUnindexed(w, h, ks) ==
    DropRows(w, h, ks, [w |-> w, idx |-> h.idx], Cardinality(PairsAt(w.heap, h.desc, ks)))

DeleteRangeOf(w, h, ks) ==
    IF ks = {} THEN Unchanged(w, h)
    ELSE IF DOMAIN h.idx # {} THEN deleteRangeIndexed(w, h, ks)
    ELSE deleteRangeUnindexed(w, h, ks)

deleteRange(w, h, range) ==
    DeleteRangeOf(w, h, range \cap DOMAIN Tree(w.heap, h.desc.root))
=============================================================================
