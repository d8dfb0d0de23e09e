------------------------------ MODULE Indexing ------------------------------
(***************************************************************************)
(* Secondary-index maintenance (index_engine.go, index_maintain.go,        *)
(* index_setkeyspace.go).                                                  *)
(*                                                                         *)
(* A declaration is [unique, cover, ver]; ver stands for the columns and   *)
(* the user version, and Extract[ver][v] is the sequence of column tuples  *)
(* the extractor returns for value v.  A pinned index is the declaration   *)
(* with the in-memory root and count of its tree.  A primary key is <<k>>  *)
(* in a keyspace and <<k, v>> in a set keyspace.  An index tree maps       *)
(*   <<col>>      |-> the primary key and the covering payload (unique)    *)
(*   <<col, pk>>  |-> the covering payload                     (otherwise) *)
(* The covering payload is the value itself, the column it is cut from.    *)
(***************************************************************************)
EXTENDS Forest

CONSTANTS
    Extract,      \* version -> value -> sequence of columns
    Plain         \* stands for an absent payload

Columns(decl, v) == Extract[decl.ver][v]
ColumnSet(decl, v) == {Columns(decl, v)[i] : i \in DOMAIN Columns(decl, v)}

EntryKey(decl, col, pk) == IF decl.unique THEN <<col>> ELSE <<col, pk>>
EntryValue(decl, pk, v) ==
    [pk |-> IF decl.unique THEN pk ELSE << >>,
     cov |-> IF decl.cover THEN v ELSE Plain]

\* The candidate set of one row: two entries with one key are a violation
\* when the index is unique, one entry (the last) otherwise.
extractEntriesAsKeySet(decl, pk, v) ==
    [key \in {EntryKey(decl, c, pk) : c \in ColumnSet(decl, v)}
        |-> EntryValue(decl, pk, v)]

CandidateRepeats(decl, v) ==
    decl.unique /\ Len(Columns(decl, v)) # Cardinality(ColumnSet(decl, v))

-----------------------------------------------------------------------------
(* Maintenance.  acc is [w, idx]: the work record and the pinned indexes,  *)
(* whose roots and counts the code mutates in place as it goes.            *)

Advance(w, idx, n, d) ==
    [w |-> w,
     idx |-> IF w.err # "" THEN idx
             ELSE [idx EXCEPT ![n].root = w.ret, ![n].count = @ + d]]

deleteEntry(acc, n, key) ==
    Advance(DeleteKey(acc.w, acc.idx[n].root, key), acc.idx, n, -1)

putEntry(acc, n, key, val, d) ==
    Advance(PutKey(acc.w, acc.idx[n].root, key, val), acc.idx, n, d)

deleteKeys(acc, n, keys) ==
    FoldSet(LAMBDA key, a : deleteEntry(a, n, key), acc, keys)

putKeys(acc, n, keys, news, d) ==
    FoldSet(LAMBDA key, a : putEntry(a, n, key, news[key], d), acc, keys)

\* The diff of one index: keys to delete, keys to insert, and keys whose
\* covering payload changed with the row value.
DiffEntrySets(p, olds, news) ==
    [news |-> news,
     dels |-> DOMAIN olds \ DOMAIN news,
     ins |-> DOMAIN news \ DOMAIN olds,
     upds |-> {k \in DOMAIN olds \cap DOMAIN news :
                   p.decl.cover /\ olds[k] # news[k]}]

OldEntries(decl, pk, old) ==
    IF old = {} THEN EmptyTree
    ELSE extractEntriesAsKeySet(decl, pk, CHOOSE v \in old : TRUE)

buildReplacePlans(idx, pk, old, v) ==
    [n \in DOMAIN idx |->
        DiffEntrySets(idx[n], OldEntries(idx[n].decl, pk, old),
                      extractEntriesAsKeySet(idx[n].decl, pk, v))]

\* Some unique index already holds a key the operation would insert.
probeUnique(heap, idx, plans) ==
    \E n \in DOMAIN idx :
        idx[n].decl.unique
            /\ plans[n].ins \cap DOMAIN Tree(heap, idx[n].root) # {}

applyDeletes(acc, plans) ==
    FoldSet(LAMBDA n, a : deleteKeys(a, n, plans[n].dels), acc, DOMAIN plans)

applyInserts(acc, plans) ==
    FoldSet(LAMBDA n, a :
                putKeys(putKeys(a, n, plans[n].ins, plans[n].news, 1),
                        n, plans[n].upds, plans[n].news, 0),
            acc, DOMAIN plans)

applyPlans(w, idx, plans) ==
    IF probeUnique(w.heap, idx, plans)
    THEN [w |-> Fail(w, "ErrIndexUniqueViolation"), idx |-> idx]
    ELSE applyInserts(applyDeletes([w |-> w, idx |-> idx], plans), plans)

\* Put: extract the old and the new entries of every index before the first
\* mutation, probe, delete, insert.  old is the set of the replaced value.
onReplace(w, idx, pk, old, v) ==
    IF DOMAIN idx = {} THEN [w |-> w, idx |-> idx]
    ELSE IF \E n \in DOMAIN idx : CandidateRepeats(idx[n].decl, v)
    THEN [w |-> Fail(w, "ErrIndexUniqueViolation"), idx |-> idx]
    ELSE applyPlans(Fallible(w), idx, buildReplacePlans(idx, pk, old, v))

\* Delete: pairs is the set of [pk, v] that go.
EntriesToDelete(decl, pairs) ==
    UNION {DOMAIN extractEntriesAsKeySet(decl, x.pk, x.v) : x \in pairs}

onDelete(w, idx, pairs) ==
    IF DOMAIN idx = {} THEN [w |-> w, idx |-> idx]
    ELSE FoldSet(LAMBDA n, a : deleteKeys(a, n, EntriesToDelete(idx[n].decl, pairs)),
                 [w |-> Fallible(w), idx |-> idx], DOMAIN idx)

(* mutant: the pinned roots keep the values of the failed operation *)
restoreIndexesNot(now, snap) == now

\* The in-memory roots and counts go back with the savepoint.
restoreIndexes(now, snap) == snap

-----------------------------------------------------------------------------
(* Rebuild: the whole tree from the rows. *)

IndexOf(decl, pairs) ==
    LET entries == UNION {{<<EntryKey(decl, c, x.pk), EntryValue(decl, x.pk, x.v)>> :
                               c \in ColumnSet(decl, x.v)} : x \in pairs}
    IN [key \in {e[1] : e \in entries} |->
            (CHOOSE e \in entries : e[1] = key)[2]]

\* Two candidates of one row, or of two rows, share a unique key.
Collides(decl, pairs) ==
    decl.unique /\
        (\/ \E x \in pairs : CandidateRepeats(decl, x.v)
         \/ \E x, y \in pairs :
                x # y /\ ColumnSet(decl, x.v) \cap ColumnSet(decl, y.v) # {})

processPairs(w, decl, pairs) ==
    IF Collides(decl, pairs) THEN Fail(w, "ErrIndexUniqueViolation")
    ELSE IF DOMAIN IndexOf(decl, pairs) = {} THEN [Fallible(w) EXCEPT !.ret = 0]
    ELSE WriteTree(w, 0, IndexOf(decl, pairs))
=============================================================================
