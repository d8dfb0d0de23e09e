----------------------------- MODULE TreeDelete -----------------------------
(***************************************************************************)
(* Delete and range delete of internal/btree: merge, redistribute, and the *)
(* cascade that hands a page below the fill floor to a level where it has  *)
(* neighbours.                                                             *)
(***************************************************************************)
EXTENDS TreePages

-----------------------------------------------------------------------------
(* Merge or redistribute two siblings.  ch and sp are the children and the *)
(* separators of their parent while it is being changed in memory, i the   *)
(* separator between the two.                                              *)

NoChange(s, ch, sp) == [s |-> s, ch |-> ch, sp |-> sp, what |-> "decline"]

Merged(s, ch, sp, i, page) ==
    [s |-> FreePages(AllocPage(s, page), {ch[i], ch[i + 1]}),
     ch |-> RemoveAt([ch EXCEPT ![i] = NextID(s)], i + 1),
     sp |-> RemoveAt(sp, i), what |-> "merge"]

Redistributed(s, ch, sp, i, l, r, c) ==
    [s |-> FreePages(AllocPage(AllocPage(s, l), r), {ch[i], ch[i + 1]}),
     ch |-> [ch EXCEPT ![i] = NextID(s), ![i + 1] = NextID(s) + 1],
     sp |-> [sp EXCEPT ![i] = c], what |-> "redistribute"]

parentFitsSeparator(sp, i, k) == BranchFits([sp EXCEPT ![i].k = k])

LeafPair(s, ch, sp, i, es, mid) ==
    LET l == SubSeq(es, 1, mid)
        r == SubSeq(es, mid + 1, Len(es))
        k == ShortestSeparator(es[mid].k, es[mid + 1].k)
        m == makeSeparatorCell(s, k)
    IN CASE LeafFits(es) ->
              Merged(FreePage(s, sp[i].x), ch, sp, i, LeafPage(es))
         [] ~LeafFits(es) /\ (mid = 0 \/ leafUnderflow(l) \/ leafUnderflow(r)
                                 \/ ~parentFitsSeparator(sp, i, k)) ->
              NoChange(s, ch, sp)
         [] OTHER ->
              Redistributed(FreePage(m.s, sp[i].x), ch, sp, i,
                            LeafPage(l), LeafPage(r), m.c)

mergeOrRedistributeLeaves(s, ch, sp, i) ==
    LET es == s.pg[ch[i]].es \o s.pg[ch[i + 1]].es
    IN LeafPair(s, ch, sp, i, es, findLeafSplitIndex(es, FALSE))

BranchPair(s, ch, sp, i, kids, cells, mid) ==
    LET lo == BranchPage(SubSeq(kids, 1, mid), SubSeq(cells, 1, mid - 1))
        hi == BranchPage(SubSeq(kids, mid + 1, Len(kids)),
                         SubSeq(cells, mid + 1, Len(cells)))
    IN CASE BranchFits(cells) -> Merged(s, ch, sp, i, BranchPage(kids, cells))
         [] ~BranchFits(cells) /\ (Len(cells) < 3 \/ mid = 0) ->
              NoChange(Fail(s), ch, sp)
         [] ~BranchFits(cells) /\ Len(cells) >= 3 /\ mid # 0
              /\ (branchUnderflow(lo.sp) \/ branchUnderflow(hi.sp)
                    \/ ~parentFitsSeparator(sp, i, cells[mid].k)) ->
              NoChange(s, ch, sp)
         [] OTHER -> Redistributed(s, ch, sp, i, lo, hi, cells[mid])

mergeOrRedistributeBranches(s, ch, sp, i) ==
    LET l == s.pg[ch[i]]
        r == s.pg[ch[i + 1]]
        cells == l.sp \o <<sp[i]>> \o r.sp
    IN BranchPair(s, ch, sp, i, l.ch \o r.ch, cells, findBranchSplitIndex(cells))

mergeOrRedistributePair(s, ch, sp, i) ==
    IF s.pg[ch[i]].leaf THEN mergeOrRedistributeLeaves(s, ch, sp, i)
                        ELSE mergeOrRedistributeBranches(s, ch, sp, i)

-----------------------------------------------------------------------------
(* Rebalance a child against its neighbours *)

Stopped(s) == s.err

Rebalanced(s, ch, sp, pos, uf) ==
    [s |-> s, ch |-> ch, sp |-> sp, pos |-> pos, uf |-> uf]

RECURSIVE rebalanceChildAtPos(_, _, _, _, _, _)
RebalanceAgain(p, ch, sp, pos, left, triedLeft, triedRight) ==
    CASE p.what = "merge" ->
           rebalanceChildAtPos(p.s, p.ch, p.sp, IF left THEN pos - 1 ELSE pos, FALSE, FALSE)
      [] p.what = "decline" ->
           rebalanceChildAtPos(p.s, ch, sp, pos, triedLeft \/ left, triedRight \/ ~left)
      [] p.what = "redistribute" ->
           rebalanceChildAtPos(p.s, p.ch, p.sp, pos, FALSE, FALSE)

rebalanceChildAtPos(s, ch, sp, pos, triedLeft, triedRight) ==
    LET left == pos > 1 /\ ~triedLeft
        right == pos < Len(ch) /\ ~triedRight
    IN CASE Stopped(s) \/ ~pageUnderflow(s.pg[ch[pos]]) ->
              Rebalanced(s, ch, sp, pos, FALSE)
         [] ~Stopped(s) /\ pageUnderflow(s.pg[ch[pos]]) /\ ~left /\ ~right ->
              Rebalanced(s, ch, sp, pos, TRUE)
         [] OTHER ->
              RebalanceAgain(mergeOrRedistributePair(s, ch, sp, IF left THEN pos - 1 ELSE pos),
                             ch, sp, pos, left, triedLeft, triedRight)

IndexIn(x, seq) == IF Contains(seq, x) THEN SelectInSeq(seq, LAMBDA y : y = x) ELSE 0

(* the first child below the floor, or 0 *)
SubFloorChild(s, n) ==
    LET i == SelectInSeq(n.ch, LAMBDA c : pageUnderflow(s.pg[c]))
    IN IF i = 0 THEN 0 ELSE n.ch[i]

(* what became of a branch, and the descendant only a higher level can help *)
Healed(s, id, res) == [s |-> s, id |-> id, res |-> res]

(* the branch is left as it was when the number of its cells and its       *)
(* leftmost child are what they were; skip records that they are not all   *)
(* that changed, so that the branch names pages that were freed.  The      *)
(* operation goes on with what those pages hold.                           *)
RECURSIVE cousinRebalanceBranch(_, _, _)
RECURSIVE ScanDescendants(_, _)
WriteRebalanced(id, n, b) ==
    LET write(d) == Healed(FreePage(AllocPage(d.s, BranchPage([b.ch EXCEPT ![b.pos] = d.id],
                                                              b.sp)), id),
                           NextID(d.s), d.res)
    IN IF Len(b.sp) = Len(n.sp) /\ b.ch[1] = n.ch[1] /\ ~b.uf
       THEN Healed(IF b.ch = n.ch THEN b.s ELSE [b.s EXCEPT !.skip = "lost"], id, 0)
       ELSE write(IF b.uf THEN Healed(b.s, b.ch[b.pos], b.ch[b.pos])
                  ELSE ScanDescendants(b.s, b.ch[b.pos]))

cousinRebalanceBranch(s, id, deep) ==
    LET n == s.pg[id]
        pos == IndexIn(deep, n.ch)
    IN CASE Stopped(s) -> Healed(s, id, 0)
         [] ~Stopped(s) /\ pos = 0 -> Healed(Fail(s), id, 0)
         [] OTHER -> WriteRebalanced(id, n,
                         rebalanceChildAtPos(s, n.ch, n.sp, pos, FALSE, FALSE))

(* A lost layout leaves the loop where it was: it comes to an end when the *)
(* pager has no page left, or when it hands out the freed pages again.     *)
ScanDescendants(s, id) ==
    LET n == s.pg[id]
        again(c) == CASE c.res # 0 -> Healed(c.s, c.id, c.id)
                      [] c.res = 0 /\ c.id = id -> Healed([c.s EXCEPT !.skip = "again"], id, 0)
                      [] OTHER -> ScanDescendants(c.s, c.id)
        scan(sub) == IF Stopped(s) \/ n.leaf \/ n.sp = << >> \/ sub = 0
                     THEN Healed(s, id, 0)
                     ELSE again(cousinRebalanceBranch(s, id, sub))
    IN scan(SubFloorChild(s, n))

-----------------------------------------------------------------------------
(* Delete.  A subtree's result: the page that replaces it (0: none left),  *)
(* how many entries went, whether it is below the floor, and a descendant  *)
(* below the floor that only a higher level can help.                      *)

Done(s, id, n, uf, deep) == [s |-> s, id |-> id, n |-> n, uf |-> uf, deep |-> deep]

OwnedBy(es) == UNION {{es[i].ov, es[i].kx} : i \in DOMAIN es}

RewriteLeaf(s, id, keep, gone, ufEmpty) ==
    LET s1 == FreePages(s, {id} \cup OwnedBy(gone))
    IN IF keep = << >> THEN Done(s1, 0, Len(gone), ufEmpty, 0)
       ELSE Done(AllocPage(s1, LeafPage(keep)), NextID(s1), Len(gone),
                 leafUnderflow(keep), 0)

deleteFromLeaf(s, id, k) ==
    LET es == s.pg[id].es
        i == ucSearchLeaf(es, k)
    IN IF Found(es, k) THEN RewriteLeaf(s, id, RemoveAt(es, i), <<es[i]>>, FALSE)
                       ELSE Done(s, id, 0, FALSE, 0)

RewriteBranch(s, id, ch, sp, n, uf, deep) ==
    Done(FreePage(AllocPage(s, BranchPage(ch, sp)), id), NextID(s), n,
         uf \/ branchUnderflow(sp), deep)

(* the child is gone: its pointer goes with one separator *)
DropChild(s, id, pos, n) ==
    LET p == s.pg[id]
        i == IF pos = 1 THEN 1 ELSE pos - 1
    IN IF Len(p.ch) = 1 THEN Done(FreePage(s, id), 0, n, FALSE, 0)
       ELSE RewriteBranch(FreePage(s, p.sp[i].x), id, RemoveAt(p.ch, pos),
                          RemoveAt(p.sp, i), n, FALSE, 0)

(* the children of the pair i, i + 1 after it was rebalanced, and the       *)
(* descendant they leave to a higher level                                 *)
DeepHealed(s, ch, deep) == [s |-> s, ch |-> ch, deep |-> deep]

HealAt(s, ch, j, deep, keep) ==
    LET healed(c) == DeepHealed(c.s, [ch EXCEPT ![j] = c.id],
                                IF c.res # 0 THEN c.id ELSE keep)
    IN healed(cousinRebalanceBranch(s, ch[j], deep))

HealDeep(p, pos, i, deepIn) ==
    LET slots == IF p.what = "merge" THEN {i} ELSE {i, i + 1}
        holder == {j \in slots : Contains(p.s.pg[p.ch[j]].ch, deepIn)}
    IN CASE Stopped(p.s) \/ deepIn = 0 \/ p.s.pg[p.ch[i]].leaf -> DeepHealed(p.s, p.ch, 0)
         [] ~Stopped(p.s) /\ deepIn # 0 /\ ~p.s.pg[p.ch[i]].leaf
              /\ p.what = "decline" -> DeepHealed(p.s, p.ch, p.ch[pos])
         [] OTHER -> IF holder = {} THEN DeepHealed(Fail(p.s), p.ch, 0)
                     ELSE HealAt(p.s, p.ch, Min(holder), deepIn, 0)

(* the recorded descendant was merged away: heal each child's first        *)
(* sub-floor child, remember the last one that could not be                *)
ReconcileAt(a, j, sub) ==
    IF a.s.pg[a.ch[j]].leaf \/ sub = 0 THEN a ELSE HealAt(a.s, a.ch, j, sub, a.deep)

Reconcile(h) ==
    FoldLeft(LAMBDA a, j : ReconcileAt(a, j, SubFloorChild(a.s, a.s.pg[a.ch[j]])),
             DeepHealed(h.s, h.ch, 0), Upto(Len(h.ch)))

RecordDeep(b, id, n, deep) ==
    LET t == [s |-> b.s, ch |-> b.ch, deep |-> IF b.uf THEN b.ch[b.pos] ELSE deep]
        known == Stopped(t.s) \/ t.deep = 0 \/ Contains(t.ch, t.deep)
        written(r) == RewriteBranch(r.s, id, r.ch, b.sp, n, r.deep # 0, r.deep)
    IN written(IF known THEN t ELSE Reconcile(t))

(* mutant: one pair is tried and the other neighbour forgotten *)
RetryNothing(p, h, id, at, n) ==
    RecordDeep(Rebalanced(h.s, h.ch, p.sp, at, FALSE), id, n, h.deep)

RetryChild(p, h, id, at, n) ==
    RecordDeep(IF p.sp = << >> THEN Rebalanced(h.s, h.ch, p.sp, at, FALSE)
               ELSE rebalanceChildAtPos(h.s, h.ch, p.sp, at, FALSE, FALSE),
               id, n, h.deep)

RebalanceChild(s, id, ch, sp, pos, n, deepIn) ==
    LET i == IF pos > 1 THEN pos - 1 ELSE 1
        after(p) == RetryChild(p, HealDeep(p, pos, i, deepIn), id,
                               IF p.what = "merge" THEN i ELSE pos, n)
    IN after(mergeOrRedistributePair(s, ch, sp, i))

patchBranchAfterChildDelete(id, pos, r) ==
    LET p == r.s.pg[id]
        ch == [p.ch EXCEPT ![pos] = r.id]
    IN CASE r.id = 0 -> DropChild(r.s, id, pos, r.n)
         [] r.id # 0 /\ (~r.uf \/ p.sp = << >>) ->
              RewriteBranch(r.s, id, ch, p.sp, r.n, r.uf, r.deep)
         [] OTHER -> RebalanceChild(r.s, id, ch, p.sp, pos, r.n, r.deep)

RECURSIVE deleteFrom(_, _, _)
deleteFrom(s, id, k) ==
    LET n == s.pg[id]
        pos == BranchSearch(n.sp, k)
        patch(r) == IF Stopped(r.s) \/ r.n = 0 THEN Done(r.s, id, 0, FALSE, 0)
                    ELSE patchBranchAfterChildDelete(id, pos, r)
    IN IF n.leaf THEN deleteFromLeaf(s, id, k) ELSE patch(deleteFrom(s, n.ch[pos], k))

RECURSIVE collapseDegenerateRoot(_, _)
collapseDegenerateRoot(s, id) ==
    IF id # 0 /\ ~s.pg[id].leaf /\ s.pg[id].sp = << >>
    THEN collapseDegenerateRoot(FreePage(s, id), s.pg[id].ch[1])
    ELSE [s |-> s, root |-> id]

FinishDelete(root, r) ==
    LET done(d) == [s |-> d.s, root |-> d.root, n |-> r.n]
        collapse(c) == done(collapseDegenerateRoot(c.s, c.id))
    IN CASE Stopped(r.s) \/ r.n = 0 -> [s |-> r.s, root |-> root, n |-> 0]
         [] ~Stopped(r.s) /\ r.n # 0 /\ r.deep # 0 /\ r.id # 0 ->
              collapse(cousinRebalanceBranch(r.s, r.id, r.deep))
         [] OTHER -> collapse(Healed(r.s, r.id, 0))

Delete(s, root, k) ==
    IF root = 0 THEN [s |-> s, root |-> 0, n |-> 0]
    ELSE FinishDelete(root, deleteFrom(s, root, k))

-----------------------------------------------------------------------------
(* Range delete of [lo, hi).  A nil start is 0, a nil end is OpenEnd: both *)
(* find the outermost child.                                               *)

OpenEnd == Len(KeyLen) + 1

(* mutant: the end of the range is deleted too *)
ClosedRangeFromLeaf(s, id, lo, hi) ==
    LET es == s.pg[id].es
        gone == SelectSeq(es, LAMBDA e : lo <= e.k /\ e.k <= hi)
        keep == SelectSeq(es, LAMBDA e : ~(lo <= e.k /\ e.k <= hi))
    IN IF gone = << >> THEN Done(s, id, 0, FALSE, 0)
       ELSE RewriteLeaf(s, id, keep, gone, TRUE)

deleteRangeFromLeaf(s, id, lo, hi) ==
    LET es == s.pg[id].es
        gone == SelectSeq(es, LAMBDA e : lo <= e.k /\ e.k < hi)
        keep == SelectSeq(es, LAMBDA e : ~(lo <= e.k /\ e.k < hi))
    IN IF gone = << >> THEN Done(s, id, 0, FALSE, 0)
       ELSE RewriteLeaf(s, id, keep, gone, TRUE)

RECURSIVE FreeSubtree(_, _)
FreeSubtree(s, id) ==
    LET n == s.pg[id]
        s1 == FreePages(s, {id} \cup OwnedBy(n.es) \cup {n.sp[i].x : i \in DOMAIN n.sp})
    IN FoldLeft(LAMBDA a, c : LET r == FreeSubtree(a.s, c)
                              IN [s |-> r.s, n |-> a.n + r.n],
                [s |-> s1, n |-> Len(n.es)], n.ch)

Slot(o, c, uf, deep) == [o |-> o, c |-> c, uf |-> uf, deep |-> deep]

(* the separator in front of each survivor but the first *)
SurvivorCells(v) == AsSeq([j \in 1..(Len(v.sv) - 1) |-> v.sep[v.sv[j + 1].o - 1]])

SurvivorPages(v) == AsSeq([j \in DOMAIN v.sv |-> v.sv[j].c])

HealMerged(v, p, l) ==
    LET deep == IF v.sv[l].deep # 0 THEN v.sv[l].deep ELSE v.sv[l + 1].deep
        healed(c) ==
            [v EXCEPT !.s = c.s,
                      !.disp = @ \cup {v.sv[l + 1].o - 1},
                      !.sv = RemoveAt([@ EXCEPT ![l].c = c.id, ![l].deep = c.res,
                                                ![l].uf = pageUnderflow(c.s.pg[c.id])], l + 1)]
    IN healed(IF deep = 0 \/ p.s.pg[p.ch[l]].leaf THEN Healed(p.s, p.ch[l], 0)
              ELSE cousinRebalanceBranch(p.s, p.ch[l], deep))

(* heal one descendant in the output that holds it; a second one may have  *)
(* been absorbed by the first heal                                         *)
HealIn(a, deep) ==
    LET holder == {j \in {1, 2} : Contains(a.s.pg[a.out[j].c].ch, deep)}
        healed(j, c) == [a EXCEPT !.s = c.s, !.healed = TRUE,
                                  !.out[j].c = c.id, !.out[j].deep = c.res]
        heal(j) == healed(j, cousinRebalanceBranch(a.s, a.out[j].c, deep))
    IN CASE Stopped(a.s) \/ deep = 0 -> a
         [] ~Stopped(a.s) /\ deep # 0 /\ holder = {} ->
              IF a.healed THEN a ELSE [a EXCEPT !.s = Fail(@)]
         [] OTHER -> heal(Min(holder))

HealRedistributed(v, p, l) ==
    LET a == [s |-> p.s, healed |-> FALSE,
              out |-> <<[c |-> p.ch[l], deep |-> 0], [c |-> p.ch[l + 1], deep |-> 0]>>]
        x == v.sv[l + 1].o - 1
        slot(h, j, o) == Slot(v.sv[j].o, o.c, pageUnderflow(h.s.pg[o.c]), o.deep)
        healed(h) == [v EXCEPT !.s = h.s,
                               !.sep[x] = p.sp[l],
                               !.disp = @ \ {x},
                               !.sv[l] = slot(h, l, h.out[1]),
                               !.sv[l + 1] = slot(h, l + 1, h.out[2])]
    IN healed(IF p.s.pg[p.ch[l]].leaf THEN a
              ELSE FoldLeft(HealIn, a, <<v.sv[l].deep, v.sv[l + 1].deep>>))

RECURSIVE rebalanceSurvivors(_, _)
SurvivorsPaired(v, p, j, l) ==
    LET again(d) == rebalanceSurvivors(d, IF d.sv[l].uf \/ d.sv[l + 1].uf THEN l ELSE j + 1)
    IN CASE p.what = "decline" -> rebalanceSurvivors([v EXCEPT !.s = p.s], j + 1)
         [] p.what = "merge" -> rebalanceSurvivors(HealMerged(v, p, l), l)
         [] p.what = "redistribute" -> again(HealRedistributed(v, p, l))

rebalanceSurvivors(v, j) ==
    LET l == IF j > 1 THEN j - 1 ELSE 1
        p == mergeOrRedistributePair(v.s, SurvivorPages(v), SurvivorCells(v), l)
    IN CASE Stopped(v.s) \/ j > Len(v.sv) -> v
         [] ~Stopped(v.s) /\ j <= Len(v.sv) /\ ~v.sv[j].uf -> rebalanceSurvivors(v, j + 1)
         [] ~Stopped(v.s) /\ j <= Len(v.sv) /\ v.sv[j].uf /\ Len(v.sv) = 1 -> v
         [] OTHER -> SurvivorsPaired(v, p, j, l)

(* the new branch is encoded; its survivors' descendants are healed in it *)
RECURSIVE HealSurvivors(_, _, _, _)
HealSurvivors(s, ch, sv, j) ==
    LET below == {i \in DOMAIN sv : sv[i].uf}
        next(c, ch1) == IF c.res # 0
                        THEN [s |-> c.s, ch |-> ch1, uf |-> TRUE, deep |-> c.res]
                        ELSE HealSurvivors(c.s, ch1, sv, j + 1)
        healed(c) == next(c, [ch EXCEPT ![j] = c.id])
    IN CASE Stopped(s) \/ j > Len(sv) ->
              [s |-> s, ch |-> ch, uf |-> below # {},
               deep |-> IF below = {} THEN 0 ELSE ch[Min(below)]]
         [] ~Stopped(s) /\ j <= Len(sv) /\ sv[j].deep = 0 ->
              HealSurvivors(s, ch, sv, j + 1)
         [] OTHER -> healed(cousinRebalanceBranch(s, ch[j], sv[j].deep))

Survivors(n, L, R, l, r) ==
    LET all == [i \in 1..Len(n.ch) |->
                  CASE i = L -> Slot(i, l.id, l.uf, l.deep)
                    [] i = R -> Slot(i, r.id, r.uf, r.deep)
                    [] L < i /\ i < R -> Slot(i, 0, FALSE, 0)
                    [] OTHER -> Slot(i, n.ch[i], FALSE, 0)]
    IN SelectSeq(all, LAMBDA x : x.c # 0)

(* separators that front no survivor and that no merge took go *)
RebuildAcrossRange(s, id, sv, n) ==
    LET p == s.pg[id]
        written(h, sp) == Done(AllocPage(h.s, BranchPage(h.ch, sp)), NextID(h.s), n,
                               h.uf \/ branchUnderflow(sp), h.deep)
        encode(s1, v, ch, sp) ==
            IF Len(ch) = 1 THEN Done(AllocPage(s1, BranchPage(ch, sp)), NextID(s1), n, TRUE, ch[1])
            ELSE written(HealSurvivors(s1, ch, v.sv, 1), sp)
        used(v) == {v.sv[j].o - 1 : j \in 2..Len(v.sv)}
        drop(v) == FreePages(v.s, {id} \cup {v.sep[x].x :
                                              x \in (DOMAIN v.sep) \ (v.disp \cup used(v))})
        rebuilt(v) == encode(drop(v), v, SurvivorPages(v), SurvivorCells(v))
    IN IF sv = << >>
       THEN Done(FreePages(s, {id} \cup {p.sp[i].x : i \in DOMAIN p.sp}), 0, n, TRUE, 0)
       ELSE rebuilt(rebalanceSurvivors([s |-> s, sep |-> p.sp, disp |-> {}, sv |-> sv], 1))

RECURSIVE deleteRangeFrom(_, _, _, _)
AddFreed(n, r) == [s |-> r.s, n |-> n + r.n]

deleteRangeFromBranch(s, id, lo, hi) ==
    LET n == s.pg[id]
        L == BranchSearch(n.sp, lo)
        R == BranchSearch(n.sp, hi)
        patch(r) == IF Stopped(r.s) \/ r.n = 0 THEN Done(r.s, id, 0, FALSE, 0)
                    ELSE patchBranchAfterChildDelete(id, L, r)
        rebuild(l, r, count) == IF Stopped(r.s) \/ count = 0 THEN Done(r.s, id, 0, FALSE, 0)
                                ELSE RebuildAcrossRange(r.s, id, Survivors(n, L, R, l, r), count)
        joined(mid, l, r) == rebuild(l, r, mid.n + l.n + r.n)
        right(mid, l) == joined(mid, l, deleteRangeFrom(l.s, n.ch[R], 0, hi))
        left(mid) == right(mid, deleteRangeFrom(mid.s, n.ch[L], lo, OpenEnd))
    IN IF L = R THEN patch(deleteRangeFrom(s, n.ch[L], lo, hi))
       ELSE left(FoldLeft(LAMBDA a, i : AddFreed(a.n, FreeSubtree(a.s, n.ch[i])),
                          [s |-> s, n |-> 0], [i \in 1..(R - L - 1) |-> L + i]))

deleteRangeFrom(s, id, lo, hi) ==
    IF s.pg[id].leaf THEN deleteRangeFromLeaf(s, id, lo, hi)
                     ELSE deleteRangeFromBranch(s, id, lo, hi)

DeleteRange(s, root, lo, hi) ==
    IF root = 0 \/ lo >= hi THEN [s |-> s, root |-> root, n |-> 0]
    ELSE FinishDelete(root, deleteRangeFrom(s, root, lo, hi))
=============================================================================
