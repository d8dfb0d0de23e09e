------------------------------ MODULE TreeWalk ------------------------------
(***************************************************************************)
(* Relocation, the point lookup and the cursor of internal/btree.          *)
(***************************************************************************)
EXTENDS TreeDelete

-----------------------------------------------------------------------------
(* Relocation of the pages in zone, at most b of them, children first.  A  *)
(* page outside the zone is copied only to take a new reference.           *)

relocateOverflowChain(w, x, zone) ==
    IF x = 0 \/ x \notin zone \/ w.b <= 0 THEN [w EXCEPT !.id = x]
    ELSE [s |-> FreePage(AllocPage(w.s, RunPage), x), b |-> w.b - 1, id |-> NextID(w.s)]

relocateVerbatim(w, id, page, zone) ==
    IF (id \notin zone \/ w.b <= 0) /\ page = w.s.pg[id] THEN [w EXCEPT !.id = id]
    ELSE [s |-> FreePage(AllocPage(w.s, page), id), id |-> NextID(w.s),
          b |-> IF id \in zone /\ w.b > 0 THEN w.b - 1 ELSE w.b]

relocateLeaf(w, id, zone) ==
    LET es == w.s.pg[id].es
        r == FoldLeft(LAMBDA a, j :
                 LET x == relocateOverflowChain(a.w, es[j].kx, zone)
                     o == relocateOverflowChain(x, es[j].ov, zone)
                 IN [w |-> o, es |-> [a.es EXCEPT ![j].kx = x.id, ![j].ov = o.id]],
                 [w |-> w, es |-> es], Upto(Len(es)))
    IN relocateVerbatim(r.w, id, LeafPage(r.es), zone)

RECURSIVE relocateNode(_, _, _)
relocateNode(w, id, zone) ==
    LET n == w.s.pg[id]
        c == FoldLeft(LAMBDA a, j : LET r == relocateNode(a.w, n.ch[j], zone)
                                    IN [w |-> r, ch |-> [a.ch EXCEPT ![j] = r.id]],
                      [w |-> w, ch |-> n.ch], Upto(Len(n.ch)))
        x == FoldLeft(LAMBDA a, j : LET r == relocateOverflowChain(a.w, n.sp[j].x, zone)
                                    IN [w |-> r, sp |-> [a.sp EXCEPT ![j].x = r.id]],
                      [w |-> c.w, sp |-> n.sp], Upto(Len(n.sp)))
    IN IF n.leaf THEN relocateLeaf(w, id, zone)
       ELSE relocateVerbatim(x.w, id, BranchPage(c.ch, x.sp), zone)

RelocatePages(s, root, zone, b) ==
    LET done(r) == [s |-> r.s, root |-> r.id, n |-> b - r.b]
    IN IF root = 0 THEN [s |-> s, root |-> 0, n |-> 0]
       ELSE done(relocateNode([s |-> s, b |-> b, id |-> 0], root, zone))

-----------------------------------------------------------------------------
(* Reading: the point lookup and the cursor's walk over t.  A place is the *)
(* child taken at each branch and the index in the leaf.                   *)

RECURSIVE NodeAt(_, _, _)
NodeAt(t, id, path) ==
    IF path = << >> THEN t[id] ELSE NodeAt(t, t[id].ch[Head(path)], Tail(path))

EntryAt(t, p) == NodeAt(t, 1, p.path).es[p.i]

RECURSIVE descendFrom(_, _, _)
descendFrom(t, id, k) ==
    LET i == BranchSearch(t[id].sp, k)
    IN IF t[id].leaf THEN << >> ELSE <<i>> \o descendFrom(t, t[id].ch[i], k)

(* below and above every key: the outermost child of each branch *)
pickLeftmost == 0

pickRightmost == OpenEnd

Get(t, k) ==
    LET leaf == NodeAt(t, 1, descendFrom(t, 1, k))
    IN IF t = << >> \/ ~Found(leaf.es, k) THEN NoEntry
       ELSE leaf.es[ucSearchLeaf(leaf.es, k)]

(* the branch on the path nearest the leaf that has a sibling on that side *)
advanceToNextLeaf(t, path) ==
    LET up == {j \in DOMAIN path : path[j] < Len(NodeAt(t, 1, SubSeq(path, 1, j - 1)).ch)}
        p == Append(SubSeq(path, 1, Max(up) - 1), path[Max(up)] + 1)
        id == NodeAt(t, 1, Front(p)).ch[Last(p)]
    IN IF up = {} THEN {} ELSE {p \o descendFrom(t, id, pickLeftmost)}

advanceToPrevLeaf(t, path) ==
    LET up == {j \in DOMAIN path : path[j] > 1}
        p == Append(SubSeq(path, 1, Max(up) - 1), path[Max(up)] - 1)
        id == NodeAt(t, 1, Front(p)).ch[Last(p)]
    IN IF up = {} THEN {} ELSE {p \o descendFrom(t, id, pickRightmost)}

Cursor(st, path, i, k, stale) ==
    [st |-> st, path |-> path, i |-> i, k |-> k, stale |-> stale]

Unpositioned == Cursor("unpositioned", << >>, 0, 0, FALSE)

transitionToEnd == Cursor("end", << >>, 0, 0, FALSE)

At(t, path, i) == Cursor("positioned", path, i, NodeAt(t, 1, path).es[i].k, FALSE)

firstInLeaf(t, paths) ==
    IF paths = {} THEN transitionToEnd ELSE At(t, CHOOSE p \in paths : TRUE, 1)

lastInLeaf(t, paths) ==
    LET p == CHOOSE p \in paths : TRUE
    IN IF paths = {} THEN transitionToEnd ELSE At(t, p, Len(NodeAt(t, 1, p).es))

First(t) == IF t = << >> THEN transitionToEnd
            ELSE firstInLeaf(t, {descendFrom(t, 1, pickLeftmost)})

LastOf(t) == IF t = << >> THEN transitionToEnd
             ELSE lastInLeaf(t, {descendFrom(t, 1, pickRightmost)})

SeekGE(t, k) ==
    LET path == descendFrom(t, 1, k)
        es == NodeAt(t, 1, path).es
        i == ucSearchLeaf(es, k)
    IN CASE t = << >> -> transitionToEnd
         [] t # << >> /\ i <= Len(es) -> At(t, path, i)
         [] OTHER -> firstInLeaf(t, advanceToNextLeaf(t, path))

Seek(t, k) == IF t # << >> /\ Get(t, k).k = k THEN SeekGE(t, k) ELSE transitionToEnd

Next1(t, c) ==
    CASE c.st = "unpositioned" -> First(t)
      [] c.st = "end" \/ c.stale -> c
      [] OTHER -> IF c.i < Len(NodeAt(t, 1, c.path).es) THEN At(t, c.path, c.i + 1)
                  ELSE firstInLeaf(t, advanceToNextLeaf(t, c.path))

Prev1(t, c) ==
    CASE c.st = "unpositioned" -> LastOf(t)
      [] c.st = "end" \/ c.stale -> c
      [] OTHER -> IF c.i > 1 THEN At(t, c.path, c.i - 1)
                  ELSE lastInLeaf(t, advanceToPrevLeaf(t, c.path))

SeekLE(t, k) ==
    LET c == SeekGE(t, k)
    IN IF c.st = "end" THEN LastOf(t) ELSE IF c.k = k THEN c ELSE Prev1(t, c)

SeekLT(t, k) ==
    LET c == SeekGE(t, k)
    IN IF c.st = "end" THEN LastOf(t) ELSE Prev1(t, c)

(* a write by another handle: the position is given up until the next seek *)
MarkStale(c) == IF c.st = "positioned" THEN Cursor("positioned", << >>, 0, 0, TRUE)
                ELSE c
=============================================================================
