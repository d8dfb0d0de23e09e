----------------------------- MODULE TreePages -----------------------------
(***************************************************************************)
(* The pages of the B+tree (internal/page), the page store an operation    *)
(* works on, and the put path of internal/btree with its splits.           *)
(*                                                                         *)
(* Keys are the numbers 1..Len(KeyLen) in key order; KeyLen gives their    *)
(* length in bytes.  A value is its length.  Sizes are bytes; the leaves   *)
(* are uncompressed (RestartGroupTarget 1) and the branches plain, the two *)
(* layouts in which a page's size is the sum of its entries' sizes.        *)
(***************************************************************************)
EXTENDS Integers, SequencesExt

CONSTANTS
    KeyLen,       \* length of each key, in key order; prefix-closed
    InlineT,      \* InlineThreshold: longer keys keep their tail in an extent
    Vals,         \* value lengths
    PageCap,      \* ContentEnd
    ExtRef,       \* bytes of a key-extent reference
    OvRef,        \* bytes of an overflow reference
    CellHdr,      \* bytes of a branch cell besides its key
    MergePct      \* MergeThreshold

Keys == 1..Len(KeyLen)

ASSUME PageAssumption ==
    /\ KeyLen \in Seq(Nat \ {0})
    /\ {InlineT, PageCap, OvRef, CellHdr} \subseteq Nat \ {0}
    /\ ExtRef \in Nat
    /\ MergePct \in 1..50
    /\ Vals \subseteq Nat /\ Vals # {}
    /\ 2 * (InlineT + ExtRef + CellHdr) <= PageCap
    /\ InlineT + ExtRef + OvRef <= PageCap

-----------------------------------------------------------------------------
(* Pages and their sizes *)

Entry(k, v, ov, kx) == [k |-> k, v |-> v, ov |-> ov, kx |-> kx]

NoEntry == Entry(0, 0, 0, 0)

Cell(k, x) == [k |-> k, x |-> x]

LeafPage(es) == [leaf |-> TRUE, es |-> es, ch |-> << >>, sp |-> << >>]

BranchPage(ch, sp) == [leaf |-> FALSE, es |-> << >>, ch |-> ch, sp |-> sp]

RunPage == LeafPage(<< >>)

(* a function on 1..n as a sequence TLC stores element by element *)
AsSeq(f) == << >> \o f

Upto(n) == [i \in 1..n |-> i]

residentKeyCost(k) ==
    IF KeyLen[k] <= InlineT THEN KeyLen[k] ELSE InlineT + ExtRef

EntrySize(e) == residentKeyCost(e.k) + (IF e.ov # 0 THEN OvRef ELSE e.v)

(* the sum of cost[i] over a sequence of n elements *)
Total(cost, n) ==
    LET sum[i \in 0..n] == IF i = 0 THEN 0 ELSE sum[i - 1] + cost[i]
    IN sum[n]

LeafSize(es) == Total([i \in DOMAIN es |-> EntrySize(es[i])], Len(es))

LeafFits(es) == LeafSize(es) <= PageCap

BranchSize(sp) ==
    Total([i \in DOMAIN sp |-> residentKeyCost(sp[i].k) + CellHdr], Len(sp))

BranchFits(sp) == BranchSize(sp) <= PageCap

needsOverflow(k, v) == residentKeyCost(k) + v > PageCap

leafUnderflow(es) == LeafSize(es) * 100 < MergePct * PageCap

branchUnderflow(sp) == BranchSize(sp) * 100 < MergePct * PageCap

pageUnderflow(n) == IF n.leaf THEN leafUnderflow(n.es) ELSE branchUnderflow(n.sp)

(* mutant: the left key itself may be chosen *)
LooseSeparator(l, r) ==
    LET short == Min({KeyLen[k] : k \in l..r})
    IN Max({k \in l..r : KeyLen[k] = short})

(* the shortest string in (l, r]: a prefix of r, so the largest of them *)
ShortestSeparator(l, r) ==
    LET short == Min({KeyLen[k] : k \in (l + 1)..r})
    IN Max({k \in (l + 1)..r : KeyLen[k] = short})

BranchSearch(sp, k) == 1 + Cardinality({i \in DOMAIN sp : sp[i].k <= k})

ucSearchLeaf(es, k) == 1 + Cardinality({i \in DOMAIN es : es[i].k < k})

Found(es, k) == \E i \in DOMAIN es : es[i].k = k

-----------------------------------------------------------------------------
(* The page store an operation works on: fr holds the pages freed, dup is  *)
(* set by a second free, skip is "lost" after a rebalanced layout that was *)
(* not written and "again" when that layout is then tried over and over,   *)
(* err is set by the first error.  The keyspace runs every operation       *)
(* inside a savepoint and restores it on an error, so nothing after err    *)
(* matters.  A page freed keeps its content until it is allocated again,   *)
(* which no operation does here.                                           *)

Store(t) == [pg |-> t, fr |-> {}, dup |-> FALSE, skip |-> "no", err |-> FALSE]

NextID(s) == Len(s.pg) + 1

AllocPage(s, n) == [s EXCEPT !.pg = Append(@, n)]

FreePages(s, ids) ==
    [s EXCEPT !.fr = @ \cup (ids \ {0}), !.dup = @ \/ ids \cap s.fr # {}]

FreePage(s, id) == FreePages(s, {id})

Fail(s) == [s EXCEPT !.err = TRUE]

makeSeparatorCell(s, k) ==
    IF KeyLen[k] <= InlineT
    THEN [s |-> s, c |-> Cell(k, 0)]
    ELSE [s |-> AllocPage(s, RunPage), c |-> Cell(k, NextID(s))]

buildPutEntry(s, k, v) ==
    LET ov == needsOverflow(k, v)
        kx == KeyLen[k] > InlineT
        s1 == IF ov THEN AllocPage(s, RunPage) ELSE s
        s2 == IF kx THEN AllocPage(s1, RunPage) ELSE s1
    IN [s |-> s2, e |-> Entry(k, v, IF ov THEN NextID(s) ELSE 0,
                                    IF kx THEN NextID(s1) ELSE 0)]

-----------------------------------------------------------------------------
(* Where a page is split *)

findLeafSplitIndex(es, appendRightmost) ==
    LET n == Len(es)
        left(m) == SubSeq(es, 1, m)
        right(m) == SubSeq(es, m + 1, n)
        full == Max({m \in 0..n : LeafFits(left(m))})
        a == Min({full, n - 1})
        past == {m \in 2..full : PageCap - LeafSize(left(m)) < PageCap \div 2}
        g == Min(past \cup {full, n - 1})
        ok == {m \in g..(n - 1) : LeafFits(left(m)) /\ LeafFits(right(m))}
    IN CASE n < 2 \/ full = 0 -> 0
         [] n >= 2 /\ full > 0 /\ appendRightmost /\ LeafFits(right(a)) -> a
         [] OTHER -> IF ok = {} THEN 0 ELSE Min(ok)

Abs(n) == IF n < 0 THEN -n ELSE n

FindUCSplitIndex(es) ==
    LET dist(m) == Abs(LeafSize(SubSeq(es, 1, m)) - LeafSize(es) \div 2)
        near == Min({dist(m) : m \in 1..(Len(es) - 1)})
    IN Min({m \in 1..(Len(es) - 1) : dist(m) = near})

(* the cell that is lifted to the parent, or 0 *)
findBranchSplitIndex(sp) ==
    LET n == Len(sp)
        left(m) == SubSeq(sp, 1, m - 1)
        right(m) == SubSeq(sp, m + 1, n)
        fit == {m \in 2..n : BranchFits(left(m)) /\ BranchFits(right(m))}
        diff(m) == Abs(BranchSize(left(m)) - BranchSize(right(m)))
        near == Min({diff(m) : m \in fit})
    IN IF fit = {} THEN 0 ELSE Min({m \in fit : diff(m) = near})

largestInlineEntry(es) ==
    LET inline == {i \in DOMAIN es : es[i].ov = 0}
        big == Max({es[i].v : i \in inline})
    IN IF inline = {} THEN 0 ELSE Min({i \in inline : es[i].v = big})

-----------------------------------------------------------------------------
(* Put *)

RECURSIVE descendToLeafForKey(_, _, _)
descendToLeafForKey(s, id, k) ==
    LET n == s.pg[id]
        pos == BranchSearch(n.sp, k)
    IN IF n.leaf THEN << >>
       ELSE <<[id |-> id, pos |-> pos]>> \o descendToLeafForKey(s, n.ch[pos], k)

LeafOf(s, root, path) ==
    IF path = << >> THEN root ELSE s.pg[Last(path).id].ch[Last(path).pos]

RECURSIVE ascendNoSplit(_, _, _)
ascendNoSplit(s, path, id) ==
    IF path = << >> THEN [s |-> s, root |-> id]
    ELSE LET f == Last(path)
             n == [s.pg[f.id] EXCEPT !.ch[f.pos] = id]
         IN ascendNoSplit(FreePage(AllocPage(s, n), f.id), Front(path), NextID(s))

(* ids[i] is the page to the right of separator seps[i] *)
RECURSIVE ascendWithSplit(_, _, _, _, _, _)
SplitBranch(s, path, ch, sp, mid, rightmostAppend) ==
    LET lo == BranchPage(SubSeq(ch, 1, mid), SubSeq(sp, 1, mid - 1))
        hi == BranchPage(SubSeq(ch, mid + 1, Len(ch)), SubSeq(sp, mid + 1, Len(sp)))
    IN IF mid = 0 THEN [s |-> Fail(s), root |-> 0]
       ELSE ascendWithSplit(FreePage(AllocPage(AllocPage(s, lo), hi), Last(path).id),
                            Front(path), NextID(s), <<sp[mid]>>, <<NextID(s) + 1>>,
                            rightmostAppend)

GrowBranch(s, path, ch, sp, rightmostAppend) ==
    LET f == Last(path)
        last == f.pos = Len(s.pg[f.id].ch)
    IN IF BranchFits(sp)
       THEN ascendNoSplit(FreePage(AllocPage(s, BranchPage(ch, sp)), f.id),
                          Front(path), NextID(s))
       ELSE SplitBranch(s, path, ch, sp,
                        IF rightmostAppend /\ last /\ Len(sp) >= 3 THEN Len(sp) - 1
                        ELSE findBranchSplitIndex(sp), rightmostAppend)

ascendWithSplit(s, path, left, seps, ids, rightmostAppend) ==
    LET f == Last(path)
        n == s.pg[f.id]
    IN IF path = << >>
       THEN [s |-> AllocPage(s, BranchPage(<<left>> \o ids, seps)), root |-> NextID(s)]
       ELSE GrowBranch(s, path,
                SubSeq(n.ch, 1, f.pos - 1) \o <<left>> \o ids
                    \o SubSeq(n.ch, f.pos + 1, Len(n.ch)),
                SubSeq(n.sp, 1, f.pos - 1) \o seps \o SubSeq(n.sp, f.pos, Len(n.sp)),
                rightmostAppend)

(* mutant: the key extent of the replaced entry is forgotten *)
RetireLeafOnly(s, w) == FreePages(s, {w.leaf, w.disp.ov})

(* the old leaf goes, with what a replaced entry owned *)
RetireLeaf(s, w) == FreePages(s, {w.leaf, w.disp.ov, w.disp.kx})

StoreLeaf(s, w, es) ==
    ascendNoSplit(RetireLeaf(AllocPage(s, LeafPage(es)), w), w.path, NextID(s))

SplitLeaf(s, w, es, mid, app) ==
    LET s1 == AllocPage(AllocPage(s, LeafPage(SubSeq(es, 1, mid))),
                        LeafPage(SubSeq(es, mid + 1, Len(es))))
        ascend(m) == ascendWithSplit(m.s, w.path, NextID(s), <<m.c>>, <<NextID(s) + 1>>, app)
    IN ascend(makeSeparatorCell(RetireLeaf(s1, w),
                                ShortestSeparator(es[mid].k, es[mid + 1].k)))

splitLeafThreeWay(s, w, es, i) ==
    LET parts == <<SubSeq(es, 1, i - 1), <<es[i]>>, SubSeq(es, i + 1, Len(es))>>
        s1 == FoldLeft(LAMBDA t, p : AllocPage(t, LeafPage(p)), s, parts)
        sep(t, j) == makeSeparatorCell(t, ShortestSeparator(es[j - 1].k, es[j].k))
        ascend(m1, m2) ==
            ascendWithSplit(RetireLeaf(m2.s, w), w.path, NextID(s), <<m1.c, m2.c>>,
                            <<NextID(s) + 1, NextID(s) + 2>>, FALSE)
        both(m1) == ascend(m1, sep(m1.s, i + 1))
    IN IF i = 1 \/ i = Len(es) \/ \E j \in DOMAIN parts : ~LeafFits(parts[j])
       THEN [s |-> Fail(s), root |-> 0]
       ELSE both(sep(s1, i))

(* one page, else two, else the largest inline value moves to an overflow  *)
(* chain and again, else three                                             *)
RECURSIVE StoreEntries(_, _, _)
StoreEntries(s, w, es) ==
    LET mid == findLeafSplitIndex(es, w.app)
        big == largestInlineEntry(es)
    IN CASE LeafFits(es) -> StoreLeaf(s, w, es)
         [] ~LeafFits(es) /\ mid # 0 -> SplitLeaf(s, w, es, mid, w.app)
         [] ~LeafFits(es) /\ mid = 0 /\ big # 0 ->
              StoreEntries(AllocPage(s, RunPage), w, [es EXCEPT ![big].ov = NextID(s)])
         [] OTHER -> splitLeafThreeWay(s, w, es, w.idx)

(* an append that overflows its leaf splits the leaf without the new entry *)
(* and adds the entry to the right half; 0 declines                        *)
trySplitLeafByGroup(es, e, rightmost) ==
    LET boundary == IF rightmost THEN Len(es) - 1 ELSE FindUCSplitIndex(es)
    IN IF Len(es) <= 1 \/ ~LeafFits(Append(SubSeq(es, boundary + 1, Len(es)), e))
       THEN 0 ELSE boundary

(* where the key is or belongs *)
Place(s, path, leaf, es, k) ==
    LET idx == ucSearchLeaf(es, k)
        found == Found(es, k)
        rightmost == \A i \in DOMAIN path : path[i].pos = Len(s.pg[path[i].id].ch)
        append == ~found /\ idx = Len(es) + 1
    IN [path |-> path, leaf |-> leaf, es |-> es, idx |-> idx, found |-> found,
        rightmost |-> rightmost, append |-> append, app |-> rightmost /\ append,
        disp |-> IF found THEN es[idx] ELSE NoEntry]

PutEntry(w, b) ==
    LET new == IF w.found THEN ReplaceAt(w.es, w.idx, b.e) ELSE InsertAt(w.es, w.idx, b.e)
        store(ins, group) == IF ~LeafFits(ins) /\ group # 0
                             THEN SplitLeaf(b.s, w, ins, group, w.rightmost)
                             ELSE StoreEntries(b.s, w, ins)
    IN store(new, IF w.append THEN trySplitLeafByGroup(w.es, b.e, w.rightmost) ELSE 0)

Existed(r, found) == [s |-> r.s, root |-> r.root, n |-> IF found THEN 1 ELSE 0]

putReportCore(s, root, k, v, mode) ==
    LET leafAt(path, leaf) == Place(s, path, leaf, s.pg[leaf].es, k)
        place(path) == leafAt(path, LeafOf(s, root, path))
        put(w) == IF (mode = "insert" /\ w.found) \/ (mode = "replace" /\ ~w.found)
                  THEN Existed([s |-> s, root |-> root], w.found)
                  ELSE Existed(PutEntry(w, buildPutEntry(s, k, v)), w.found)
    IN put(place(descendToLeafForKey(s, root, k)))

putEmpty(s, k, v) ==
    LET leaf(b) == [s |-> AllocPage(b.s, LeafPage(<<b.e>>)), root |-> NextID(b.s), n |-> 0]
    IN leaf(buildPutEntry(s, k, v))

Put(s, root, k, v, mode) ==
    CASE root = 0 /\ mode = "replace" -> [s |-> s, root |-> 0, n |-> 0]
      [] root = 0 /\ mode # "replace" -> putEmpty(s, k, v)
      [] OTHER -> putReportCore(s, root, k, v, mode)
=============================================================================
