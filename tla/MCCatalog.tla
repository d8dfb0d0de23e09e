----------------------------- MODULE MCCatalog -----------------------------
(***************************************************************************)
(* Two names, two keys, three values.  Value v2 shares column 1 with v1    *)
(* and has another payload; v3 has two columns, equal ones under version   *)
(* 2.  Two bytes of values fit a subpage.  The seeded database was written *)
(* by the operations themselves: keyspace a with a unique and a covering   *)
(* index and two rows, set keyspace b with an index and a nested tree.     *)
(***************************************************************************)
EXTENDS Catalog

CONSTANTS v1, v2, v3

MCExtract ==
    <<[v \in {v1, v2, v3} |-> IF v = v3 THEN <<2, 3>> ELSE <<1>>],
      [v \in {v1, v2, v3} |-> IF v = v3 THEN <<4, 4>> ELSE <<5>>]>>

MCVSize == [v \in {v1, v2, v3} |-> IF v = v3 THEN 2 ELSE 1]

U1 == [unique |-> TRUE, cover |-> TRUE, ver |-> 1]
N1 == [unique |-> FALSE, cover |-> TRUE, ver |-> 1]
N2 == [unique |-> FALSE, cover |-> FALSE, ver |-> 2]
U2 == [unique |-> TRUE, cover |-> FALSE, ver |-> 2]

Both == [x \in {"i", "u"} |-> IF x = "u" THEN U1 ELSE N1]
One == [x \in {"i"} |-> N1]
MCRebuilds == {[i |-> "i", decl |-> N2], [i |-> "i", decl |-> U2]}
MCRowArgs == {[k |-> 1, v |-> v3], [k |-> 2, v |-> v2]}
MCRanges == {{1, 2}}

Nothing == [heap |-> EmptyTree, ks |-> 0, num |-> 0]

Fresh0(b) == [w |-> Work(b.heap, DOMAIN b.heap, Never), t |-> NewTx(b), ext |-> 0,
              curs |-> [s \in Slots |-> NoCursor], lvl |-> 0]

Committed(c, f) == [heap |-> f.w.heap, ks |-> f.ks, num |-> c.t.num]
CommitOf(c) == Committed(c, flushKeyspaces(c.w, c.t))

WithA(c) == CreateKeyspace(c, "a", 0, Both, 0)
WithB(c, n) == CreateKeyspace(c, n, 1, Both, 0)
PutA(c, k, v) == RowOp(c, "a", LAMBDA w, h : putVerb(w, h, k, v, "put"))
PutB(c, n, k, v) == RowOp(c, n, LAMBDA w, h : setPut(w, h, k, v))

RowsOnly == PutA(PutA(WithA(Fresh0(Nothing)), 1, v1), 2, v3)
SetIn(c, n) == PutB(PutB(WithB(c, n), n, 1, v1), n, 1, v3)

Dbs == {Nothing, CommitOf(RowsOnly), CommitOf(SetIn(Fresh0(Nothing), "a"))}

OneIndex == PutA(CreateKeyspace(Fresh0(Nothing), "a", 0, One, 0), 1, v1)

Seed(db, names, slots, decls, n) ==
    [db |-> db, names |-> names, slots |-> slots, decls |-> decls, ops |-> n]

\* Three operations, or two with a cursor, or two on two keyspaces, or three
\* on a keyspace whose registry the drop of its one index empties.
MCSeeds ==
    {Seed(db, {"a"}, {}, {EmptyTree, Both}, 3) : db \in Dbs}
        \cup {Seed(db, {"a"}, Slots, {EmptyTree, Both}, 2) : db \in Dbs \ {Nothing}}
        \cup {Seed(CommitOf(SetIn(RowsOnly, "b")), {"a", "b"}, {}, {EmptyTree, Both}, 2),
              Seed(CommitOf(OneIndex), {"a"}, {}, {One}, 3)}
=============================================================================
