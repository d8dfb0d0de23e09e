------------------------------- MODULE BTree -------------------------------
(***************************************************************************)
(* The B+tree as a state machine: one operation of internal/btree at a     *)
(* time on one tree, with one cursor.                                      *)
(*                                                                         *)
(* An operation is a function of the page store, which records every page  *)
(* allocated and freed.  An action runs one operation, audits the pages,   *)
(* and numbers the pages that are left in preorder: the code never looks   *)
(* at the value of a page id.                                              *)
(***************************************************************************)
EXTENDS TreeWalk

CONSTANTS
    Seeds,        \* sequences of <<key, value>> puts that build the first tree
    MaxOps        \* operations after the first tree (bound)

ASSUME BTreeAssumption == Seeds \subseteq Seq(Keys \X Vals) /\ MaxOps \in Nat

VARIABLES
    tree,    \* pages of the tree, numbered in preorder; << >> when empty
    content, \* the map the tree holds, read off its leaves after each operation
    audit,   \* what the last operation did to the pages
    out,     \* the last operation and its reply
    cur,     \* a cursor
    ops      \* operations so far

vars == <<tree, content, audit, out, cur, ops>>

-----------------------------------------------------------------------------
(* The state machine *)

Root == IF tree = << >> THEN 0 ELSE 1

NonZero(seq) == SelectSeq(seq, LAMBDA x : x # 0)

(* the pages reached from id, in preorder *)
RECURSIVE Preorder(_, _)
Preorder(s, id) ==
    LET n == s.pg[id]
    IN <<id>> \o NonZero(FlattenSeq([i \in DOMAIN n.es |-> <<n.es[i].kx, n.es[i].ov>>]))
              \o NonZero([i \in DOMAIN n.sp |-> n.sp[i].x])
              \o FlattenSeq([i \in DOMAIN n.ch |-> Preorder(s, n.ch[i])])

Order(r) == IF r.root = 0 THEN << >> ELSE Preorder(r.s, r.root)

Renumbered(s, order) ==
    LET id(x) == IF x = 0 THEN 0 ELSE IndexIn(x, order)
        page(n) == [n EXCEPT
                  !.es = AsSeq([i \in DOMAIN @ |-> [@[i] EXCEPT !.kx = id(@), !.ov = id(@)]]),
                  !.ch = AsSeq([i \in DOMAIN @ |-> id(@[i])]),
                  !.sp = AsSeq([i \in DOMAIN @ |-> [@[i] EXCEPT !.x = id(@)]])]
    IN AsSeq([i \in DOMAIN order |-> page(s.pg[order[i]])])

ContentOf(t) ==
    LET es == UNION {ToSet(t[id].es) : id \in DOMAIN t}
    IN [k \in {e.k : e \in es} |-> (CHOOSE e \in es : e.k = k).v]

(* what is wrong with the pages an operation leaves behind *)
Audit(r, order) ==
    LET reached == ToSet(order)
        wrong(name, b) == IF b THEN {name} ELSE {}
        lost == wrong("lost", r.s.skip # "no")
    IN IF r.s.err THEN lost
       ELSE lost
            \cup wrong("double free", r.s.dup)
            \cup wrong("dangling", reached \cap r.s.fr # {})
            \cup wrong("shared", Cardinality(reached) # Len(order))
            \cup wrong("leak", (DOMAIN r.s.pg) \ (reached \cup r.s.fr) # {})

Reply(op, a, b, k, v, err) ==
    [op |-> op, a |-> a, b |-> b, k |-> k, v |-> v, err |-> err]

Ready == ops < MaxOps /\ audit = {}

Counted == Ready /\ ops' = ops + 1

(* Keyspace writes mark the transaction's cursors stale *)
Marked(r) == IF r.s = Store(tree) THEN cur ELSE MarkStale(cur)

(* a savepoint restore undoes a failed operation *)
Commit(r, op, a, b, t, c) ==
    /\ Counted
    /\ tree' = t
    /\ content' = ContentOf(t)
    /\ audit' = Audit(r, Order(r))
    /\ out' = IF Stopped(r.s) THEN Reply(op, a, b, 0, 0, "failed")
              ELSE Reply(op, a, b, r.n, 0, "")
    /\ cur' = IF Stopped(r.s) THEN cur ELSE c

After(r) == IF Stopped(r.s) THEN tree ELSE Renumbered(r.s, Order(r))

Apply(r, op, a, b) == Commit(r, op, a, b, After(r), Marked(r))

(* the endless loop of ScanDescendants when it ends in an error *)
ApplyOrFail(r, op, a, b) ==
    \/ Apply(r, op, a, b)
    \/ Ready /\ r.s.skip = "again" /\ Apply([r EXCEPT !.s.err = TRUE], op, a, b)

PutKey(k, v, mode) == Apply(Put(Store(tree), Root, k, v, mode), mode, k, v)

DeleteKey(k) == ApplyOrFail(Delete(Store(tree), Root, k), "delete", k, 0)

DeleteKeyRange(lo, hi) == ApplyOrFail(DeleteRange(Store(tree), Root, lo, hi), "range", lo, hi)

(* a transaction of its own: no cursor lives across it *)
Restart(r) == Commit([r EXCEPT !.n = 0], "relocate", 0, 0, After(r), Unpositioned)

Relocate(zone, b) == Restart(RelocatePages(Store(tree), Root, zone, b))

Answer(k, e) ==
    /\ Counted
    /\ out' = Reply("get", k, 0, e.k, e.v, "")
    /\ UNCHANGED <<tree, content, audit, cur>>

Lookup(k) == Answer(k, Get(tree, k))

MoveTo(op, k, c) ==
    /\ Counted
    /\ cur' = c
    /\ out' = IF c.st = "positioned" /\ c.stale THEN Reply(op, k, 0, 0, 0, "stale")
              ELSE IF c.st = "positioned" THEN Reply(op, k, 0, c.k, EntryAt(tree, c).v, "")
              ELSE Reply(op, k, 0, 0, 0, "")
    /\ UNCHANGED <<tree, content, audit>>

(* the cursor moves to the entry behind the deleted one *)
SeekOn(r, t) == Commit(r, "cdelete", 0, 0, t, SeekGE(t, cur.k))

DeleteCurrent(r) == SeekOn(r, After(r))

CursorDelete ==
    LET refuse == IF cur.st # "positioned" THEN "unpositioned" ELSE "stale"
    IN IF cur.st # "positioned" \/ cur.stale
       THEN /\ Counted
            /\ out' = Reply("cdelete", 0, 0, 0, 0, refuse)
            /\ UNCHANGED <<tree, content, audit, cur>>
       ELSE DeleteCurrent(Delete(Store(tree), Root, cur.k))

Fresh(r) == Renumbered(r.s, Order(r))

Build(seed) ==
    FoldLeft(LAMBDA t, kv :
                 Fresh(Put(Store(t), IF t = << >> THEN 0 ELSE 1, kv[1], kv[2], "put")),
             << >>, seed)

Init ==
    /\ tree \in {Build(seed) : seed \in Seeds}
    /\ content = ContentOf(tree)
    /\ audit = {}
    /\ out = Reply("none", 0, 0, 0, 0, "")
    /\ cur = Unpositioned
    /\ ops = 0

Next ==
    \/ \E k \in Keys, v \in Vals, mode \in {"put", "insert", "replace"} : PutKey(k, v, mode)
    \/ \E k \in Keys : DeleteKey(k)
    \/ \E lo \in 0..OpenEnd, hi \in 1..OpenEnd : DeleteKeyRange(lo, hi)
    \/ \E x \in DOMAIN tree, b \in 1..2 : \/ Relocate(1..x, b)
                                           \/ Relocate(x..Len(tree), b)
    \/ \E k \in Keys : Lookup(k)
    \/ MoveTo("first", 0, First(tree))
    \/ MoveTo("last", 0, LastOf(tree))
    \/ MoveTo("next", 0, Next1(tree, cur))
    \/ MoveTo("prev", 0, Prev1(tree, cur))
    \/ \E k \in Keys : \/ MoveTo("seek", k, Seek(tree, k))
                       \/ MoveTo("seekGE", k, SeekGE(tree, k))
                       \/ MoveTo("seekLE", k, SeekLE(tree, k))
                       \/ MoveTo("seekLT", k, SeekLT(tree, k))
    \/ CursorDelete

Spec == Init /\ [][Next]_vars

-----------------------------------------------------------------------------
(* Properties *)

Nodes == {id \in DOMAIN tree : tree[id] # RunPage}

RECURSIVE KeysUnder(_, _)
KeysUnder(t, id) ==
    LET n == t[id]
    IN {n.es[i].k : i \in DOMAIN n.es}
         \cup UNION {KeysUnder(t, n.ch[i]) : i \in DOMAIN n.ch}

RECURSIVE Depths(_)
Depths(id) ==
    IF tree[id].leaf THEN {0}
    ELSE {d + 1 : d \in UNION {Depths(tree[id].ch[i]) : i \in DOMAIN tree[id].ch}}

(* What ValidateOrder requires of every tree, after any operation:         *)
(* a separator is above every key to its left and not above any key to its *)
(* right, leaves are sorted, no page overflows, the root is no branch with *)
(* one child, and every leaf is at the same depth.                         *)
WellFormed ==
    /\ \A id \in Nodes :
          LET n == tree[id] IN
          /\ IF n.leaf THEN LeafFits(n.es)
             ELSE Len(n.ch) = Len(n.sp) + 1 /\ BranchFits(n.sp)
          /\ \A i \in 1..(Len(n.es) - 1) : n.es[i].k < n.es[i + 1].k
          /\ \A i \in DOMAIN n.sp : /\ \A k \in KeysUnder(tree, n.ch[i]) : k < n.sp[i].k
                                    /\ \A k \in KeysUnder(tree, n.ch[i + 1]) : n.sp[i].k <= k
    /\ tree # << >> => /\ Cardinality(Depths(1)) = 1
                       /\ tree[1].leaf \/ tree[1].sp # << >>

(* No operation loses or reuses a page: a page allocated and not freed is  *)
(* reached from the root exactly once, a page freed is not reached and was *)
(* freed once.  Key extents and overflow runs are pages.  A layout that    *)
(* cousinRebalanceBranch drops is left to LayoutWritten.                   *)
PagesAccounted == audit = {} \/ "lost" \in audit

(* cousinRebalanceBranch returns its branch unchanged only when nothing    *)
(* was changed.                                                            *)
LayoutWritten == "lost" \notin audit

BelowFloor(t) ==
    {<<t[id].leaf, KeysUnder(t, id)>> : id \in {x \in DOMAIN t : pageUnderflow(t[x])}}

(* the pages below the floor that could be merged, or share, with a        *)
(* neighbour                                                               *)
Healable(t) ==
    UNION {LET n == t[id]
               does(i) == mergeOrRedistributePair(Store(t), n.ch, n.sp, i).what
               heals(j) == \E i \in {j - 1, j} \cap DOMAIN n.sp : does(i) # "decline"
           IN {<<t[n.ch[j]].leaf, KeysUnder(t, n.ch[j])>> :
                 j \in {x \in DOMAIN n.ch : pageUnderflow(t[n.ch[x]]) /\ heals(x)}} :
           id \in DOMAIN t}

(* A delete of one key from a tree whose branches all have two children    *)
(* leaves no page below the floor beside a neighbour that could heal it,   *)
(* but for the pages that were below the floor before.                     *)
FloorReached ==
    [][out'.op \in {"delete", "cdelete"} /\ (\A id \in Nodes : Len(tree[id].ch) # 1) =>
          Healable(tree') \subseteq BelowFloor(tree)]_vars

CursorKey ==
    [st |-> CASE cur.st = "positioned" -> IF cur.stale THEN "stale" ELSE "on"
              [] OTHER -> cur.st,
     k |-> cur.k]

RECURSIVE Height(_)
Height(id) == IF tree[id].leaf THEN 0 ELSE 1 + Height(tree[id].ch[1])

(* the height at which the paths to lo and hi part, 0 for one leaf *)
RECURSIVE PartAt(_, _, _)
PartAt(id, lo, hi) ==
    LET n == tree[id]
        L == BranchSearch(n.sp, lo)
    IN CASE n.leaf -> 0
         [] ~n.leaf /\ BranchSearch(n.sp, hi) # L -> Height(id)
         [] OTHER -> PartAt(n.ch[L], lo, hi)

(* ranges whose two ends have no parent branch in common: the descendant   *)
(* deleteRangeFromBranch hands up from below is not always a child of the  *)
(* branch cousinRebalanceBranch looks for it in                            *)
Parted == {r \in (0..OpenEnd) \X (1..OpenEnd) : Root # 0 /\ PartAt(Root, r[1], r[2]) >= 2}

Map == INSTANCE OrderedMap WITH N <- Len(KeyLen), map <- content, pos <- CursorKey,
                                frail <- Parted

(* The tree with its cursor implements the ordered map: put, delete, range *)
(* delete and relocation have the effect and the reply of the map, the     *)
(* cursor's walk over leaves visits the map's keys in order, and nothing   *)
(* fails on a valid tree but the range deletes of Parted, which            *)
(* range-delete.md says never fail either.                                 *)
ImplementsMap == [][Map!MapNext]_(Map!mapVars)
=============================================================================
