------------------------------- MODULE Forest -------------------------------
(***************************************************************************)
(* The trees of one write transaction, as the keyspace layer sees them:    *)
(* the catalogue, the row tree of every keyspace, the nested value trees   *)
(* of set keyspaces, the index registries and the index trees.  What a     *)
(* tree's pages hold is the subject of BTree.tla; here a tree is one page, *)
(* so that a root page id names a tree version, exactly as the descriptors *)
(* and the registry entries name it.  Root 0 is the empty tree.            *)
(*                                                                         *)
(* An operation threads a work record through its steps:                   *)
(*   heap   page id -> tree content (a function)                           *)
(*   keep   page ids an enclosing view still reads (the committed base and *)
(*          the open nested savepoint): never handed out again             *)
(*   left   fallible steps before the injected failure, Never for none     *)
(*   err    the first error, "" while there is none                        *)
(*   ret    the root the last tree write returned                          *)
(* Once err is set every later step leaves the record alone, which is the  *)
(* early return every caller in the code performs.                         *)
(***************************************************************************)
EXTENDS Integers, FiniteSets, Sequences, FiniteSetsExt, Functions

Never == -1
EmptyTree == [x \in {} |-> x]

With(f, k, v) == [x \in DOMAIN f \cup {k} |-> IF x = k THEN v ELSE f[x]]
Without(f, S) == Restrict(f, DOMAIN f \ S)

Fail(w, e) == IF w.err = "" THEN [w EXCEPT !.err = e] ELSE w

\* A step the pager or an extractor may refuse.
Fallible(w) ==
    IF w.err # "" THEN w
    ELSE IF w.left = 0 THEN [w EXCEPT !.err = "ErrFault"]
    ELSE [w EXCEPT !.left = IF @ = Never THEN @ ELSE @ - 1]

Tree(heap, root) == IF root \in DOMAIN heap THEN heap[root] ELSE EmptyTree

Fresh(w) == Min((1..(Cardinality(DOMAIN w.heap \cup w.keep) + 1))
                  \ (DOMAIN w.heap \cup w.keep))

\* Replace a tree by its next version: copy-on-write allocates the new root
\* and frees the old one; a tree that becomes empty has root 0.
Rewritten(w, root, content, id) ==
    IF w.err # "" THEN w
    ELSE IF root # 0 /\ root \notin DOMAIN w.heap THEN Fail(w, "ErrCorrupted")
    ELSE IF DOMAIN content = {} THEN [w EXCEPT !.heap = Without(@, {root}), !.ret = 0]
    ELSE [w EXCEPT !.heap = With(Without(@, {root}), id, content), !.ret = id]

WriteTree(w, root, content) == Rewritten(Fallible(w), root, content, Fresh(w))

PutKey(w, root, k, v) == WriteTree(w, root, With(Tree(w.heap, root), k, v))
DeleteKey(w, root, k) ==
    IF w.err = "" /\ k \notin DOMAIN Tree(w.heap, root) THEN Fail(w, "ErrCorrupted")
    ELSE WriteTree(w, root, Without(Tree(w.heap, root), {k}))

Freed(w, roots) ==
    IF w.err # "" THEN w
    ELSE IF ~(roots \subseteq DOMAIN w.heap) THEN Fail(w, "ErrCorrupted")
    ELSE [w EXCEPT !.heap = Without(@, roots)]

\* Free every page of the given trees; freeing a page that is not allocated
\* is the pager's double-free error.
FreeSubtrees(w, roots) == Freed(Fallible(w), roots \ {0})

\* Savepoints: the heap is put back as it was.  The error survives for the
\* caller, and so do the fallible steps already spent.
RestoreSavepoint(w, sp) == [w EXCEPT !.heap = sp.heap]
=============================================================================
