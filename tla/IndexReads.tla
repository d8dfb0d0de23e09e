----------------------------- MODULE IndexReads -----------------------------
(***************************************************************************)
(* Reads through an index (index.go).  An operator returns what the        *)
(* iterator yields, as the set of [col, pk, v]: the column tuple the entry *)
(* is stored under, the primary key and the row value the caller gets.     *)
(* The value comes from the covering payload when the index has one, from  *)
(* the row otherwise; an entry without its row is skipped silently.        *)
(***************************************************************************)
EXTENDS Rows

entryPK(p, key, val) == IF p.decl.unique THEN val.pk ELSE key[2]

\* A set keyspace yields the pair itself, once it is known to be there.
extractSetKeyspacePKAndValue(heap, desc, pk) ==
    ValuesAt(heap, desc, pk[1]) \cap {pk[2]}

extractPKAndValue(heap, desc, p, pk, val) ==
    IF desc.kind = 1 THEN extractSetKeyspacePKAndValue(heap, desc, pk)
    ELSE IF p.decl.cover THEN {val.cov}
    ELSE ValuesAt(heap, desc, pk[1])

Yield(heap, desc, p, key, pk) ==
    {[col |-> key[1], pk |-> pk, v |-> v] :
         v \in extractPKAndValue(heap, desc, p, pk, Tree(heap, p.root)[key])}

Yields(heap, desc, p, keys) ==
    UNION {Yield(heap, desc, p, key, entryPK(p, key, Tree(heap, p.root)[key])) : key \in keys}

iteratePrefix(heap, desc, p, prefix) ==
    Yields(heap, desc, p,
           {key \in DOMAIN Tree(heap, p.root) : prefix = << >> \/ key[1] = prefix[1]})

\* All declared columns: one probe of a unique index, a scan otherwise.
Lookup(heap, desc, p, col) ==
    IF p.decl.unique THEN Yields(heap, desc, p, {<<col>>} \cap DOMAIN Tree(heap, p.root))
    ELSE iteratePrefix(heap, desc, p, <<col>>)

\* Some leading columns, or none.
Prefix(heap, desc, p, prefix) == iteratePrefix(heap, desc, p, prefix)

\* A unique index only; at most one pair.
Get(heap, desc, p, col) ==
    Yields(heap, desc, p, {<<col>>} \cap DOMAIN Tree(heap, p.root))

\* Primary keys alone: the rows are not looked at.  Not for set keyspaces.
LookupKeys(heap, p, col) ==
    {entryPK(p, key, Tree(heap, p.root)[key]) :
         key \in {x \in DOMAIN Tree(heap, p.root) : x[1] = col}}

InBounds(heap, p, start, end) ==
    {key \in DOMAIN Tree(heap, p.root) : start <= key[1] /\ key[1] < end}

RangeRows(heap, desc, p, start, end) == Yields(heap, desc, p, InBounds(heap, p, start, end))

\* The stored entries, payload verbatim.  Not for set keyspaces.
splitEntry(p, key, val) == [col |-> key[1], pk |-> entryPK(p, key, val), cov |-> val.cov]

RangeEntries(heap, p, start, end) ==
    {splitEntry(p, key, Tree(heap, p.root)[key]) : key \in InBounds(heap, p, start, end)}
=============================================================================
