--------------------------- MODULE DurabilityProofs ---------------------------
(***************************************************************************)
(* Proofs about the two meta slots of Durability: what a crash can make of *)
(* them at any point of a commit, a checkpoint or a recovery.  They hold   *)
(* for any number of processes, pages, transactions, deaths, failed writes *)
(* and power losses, as long as no fdatasync fails.                        *)
(***************************************************************************)
EXTENDS Durability, TLAPS

USE ZenonT(30)

\* The steps that wait for an fdatasync.
Syncing == {"recoverSync", "cover", "gateSync", "step2", "step4", "check2", "check4"}

SyncsSucceed == Failing \cap Syncing = {}

-----------------------------------------------------------------------------
(* What a meta says. *)

\* A sub-record has its fields; its tree is not newer than it is.
SubOK(s) ==
    /\ {"txn", "tree"} \subseteq DOMAIN s
    /\ s.txn \in Nat
    /\ \A x \in DOMAIN s.tree : s.tree[x] \in Nat /\ s.tree[x] <= s.txn

\* The durable sub-record is the live one or an older one, with an older
\* tree; the anchor is not above it.
MetaOK(m) ==
    /\ {"live", "dur", "anch"} \subseteq DOMAIN m
    /\ SubOK(m.live) /\ SubOK(m.dur) /\ m.anch \in Nat
    /\ m.anch <= m.dur.txn /\ m.dur.txn <= m.live.txn
    /\ m.live.txn # 0 =>
           /\ Version(m.live.tree) \in Nat /\ Version(m.dur.tree) \in Nat
           /\ Version(m.live.tree) <= m.live.txn
           /\ Version(m.dur.tree) <= Version(m.live.tree)
    /\ SelfDurable(m) => m.dur.tree = m.live.tree

-----------------------------------------------------------------------------
(* What two slots say: c[i] is what slot i holds, P[i] what a crash may     *)
(* leave in it.                                                             *)

Sides == {0, 1}

Top(c) == c[ActiveOf(c[0], c[1])]

\* Whatever a slot may hold is a meta, none newer than the active one, and
\* the two slots never hold the same transaction.
SlotsIn(c, P) ==
    /\ \A i \in Sides : c[i] \in P[i] /\ \A m \in P[i] : MetaOK(m) /\ m.live.txn <= Top(c).live.txn
    /\ \A m \in P[1] : m.live.txn # 0
    /\ \A m \in P[0], n \in P[1] : m.live.txn # n.live.txn

\* Whichever of the contents of the two slots wins after a crash, its durable
\* epoch is e or later.
EpochIn(P, e) ==
    \A i \in Sides : \A m \in P[i], n \in P[1 - i] : n.live.txn < m.live.txn => e <= m.dur.txn

\* ... and the version of its durable tree is v or later.
VersionIn(P, v) ==
    \A i \in Sides : \A m \in P[i], n \in P[1 - i] :
        n.live.txn < m.live.txn => v <= Version(m.dur.tree)

-----------------------------------------------------------------------------
(* The invariant. *)

Now == [i \in Sides |-> cache[Slot(i)]]
Left == [i \in Sides |-> platter[Slot(i)]]

\* A slot whose content is open is one the next fdatasync settles.
SlotsOK ==
    /\ SlotsIn(Now, Left)
    /\ \A i \in Sides : /\ Slot(i) \in DOMAIN cache
                        /\ Slot(i) \notin queued => Left[i] = {Now[i]}

EpochKept(e) == EpochIn(Left, e)
VersionKept(v) == VersionIn(Left, v)

Working == {"tx", "gateSync", "step1", "step2", "step3", "check2", "check3"}
Publishing == {"step1", "step2", "step3"}

\* A handle outside every operation.
Resting == {"closed", "idle", "poisoned"}

Places == Resting \cup Working \cup Syncing \cup {"recoverMeta", "opened", "finish"}

\* What the grant's holder knows of the meta.
HolderOK(p) ==
    /\ pc[p] \notin Resting => holder = p
    /\ pc[p] = "cover" => job \in {"open", "tx", "checkpoint", "close"}
    /\ pc[p] \in Working \/ (pc[p] = "cover" /\ job # "open") => Meta.anch <= anchored[p]
    /\ pc[p] = "opened" => covered
    /\ pc[p] = "check4" => SelfDurable(Meta)

\* What its transaction is about to publish, or has published; it writes no
\* meta slot before step 3.
TxOK(p) ==
    /\ pc[p] \in Publishing =>
           /\ tx.view.txn = Meta.live.txn + 1 /\ Version(tx.tree) = tx.view.txn
           /\ \A x \in DOMAIN tx.tree : tx.tree[x] \in Nat /\ tx.tree[x] <= tx.view.txn
           /\ \A i \in Sides : Slot(i) \notin DOMAIN tx.writes
    /\ pc[p] = "step4" => Meta.dur.tree = tx.tree
    /\ pc[p] = "finish" /\ tx.mode = "SyncBoth" =>
           Version(tx.tree) \in Nat /\ VersionKept(Version(tx.tree))

\* The anchored epoch of an attached handle survives; that of one still
\* attaching will, once its barrier has passed.
AnchorOK(p) ==
    /\ anchored[p] \in Nat
    /\ Attached(p) => EpochKept(anchored[p])
    /\ pc[p] \in {"recoverMeta", "recoverSync", "cover"} => anchored[p] <= Meta.dur.txn

\* A recovery commit anchors what its own fdatasync settles: until then, or
\* until the cover of whoever takes over, the anchor in the meta is ahead.
Settled == ~deadHolder /\ covered /\ ~(\E p \in Procs : pc[p] = "recoverSync")

MetaInv ==
    /\ SlotsOK
    /\ pc \in [Procs -> Places] /\ anchored \in [Procs -> Nat]
    /\ acked \in Nat /\ crashes \in Nat
    /\ fresh # {} => covered
    /\ Settled => EpochKept(Meta.anch)
    /\ VersionKept(acked)
    /\ \A p \in Procs : HolderOK(p) /\ TxOK(p) /\ AnchorOK(p)

-----------------------------------------------------------------------------
(* Lemmas about two slots. *)

\* The slots are numbered 0 and 1.
LEMMA TwoSides ==
    /\ 0 \in Sides /\ 1 \in Sides
    /\ \A i \in Sides : 1 - i \in Sides /\ 1 - i # i /\ 1 - (1 - i) = i
    /\ \A i, j \in Sides : j = i \/ j = 1 - i
BY SMTT(30) DEF Sides

\* The numbers of a meta.
LEMMA MetaNumbers ==
    ASSUME NEW m, MetaOK(m)
    PROVE  m.live.txn \in Nat /\ m.dur.txn \in Nat /\ m.anch \in Nat
BY DEF MetaOK, SubOK

\* pickHighestTxnID takes the slot with the higher TxnID.
LEMMA TopIs ==
    ASSUME NEW d, NEW s \in Sides, d[s].live.txn \in Nat, d[1 - s].live.txn \in Nat,
           d[1 - s].live.txn < d[s].live.txn
    PROVE  ActiveOf(d[0], d[1]) = s /\ Top(d) = d[s]
BY SMTT(30) DEF ActiveOf, Top, Sides

\* The active meta is newer than whatever the other slot may hold.
LEMMA TopFacts ==
    ASSUME NEW c, NEW P, SlotsIn(c, P), NEW a, a = ActiveOf(c[0], c[1])
    PROVE  /\ a \in Sides /\ Top(c) = c[a] /\ Top(c) \in P[a] /\ MetaOK(Top(c))
           /\ Top(c).live.txn # 0
           /\ \A n \in P[1 - a] : n.live.txn < Top(c).live.txn
<1>1. a \in Sides
      BY DEF ActiveOf, Sides
<1>2. Top(c) = c[a] /\ Top(c) \in P[a] /\ MetaOK(Top(c))
      BY <1>1 DEF Top, SlotsIn
<1>3. Top(c).live.txn \in Nat
      BY <1>2, MetaNumbers
<1>4. ASSUME NEW n \in P[1 - a] PROVE n.live.txn < Top(c).live.txn
  <2>1. n.live.txn \in Nat /\ n.live.txn <= Top(c).live.txn
        BY <1>1, TwoSides, MetaNumbers DEF SlotsIn
  <2>2. n.live.txn # Top(c).live.txn
    <3>1. CASE a = 0
      <4>1. 1 - a = 1
            BY SMTT(30), <3>1
      <4> QED BY <1>2, <3>1, <4>1 DEF SlotsIn
    <3>2. CASE a = 1
      <4>1. 1 - a = 0
            BY SMTT(30), <3>2
      <4> QED BY <1>2, <3>2, <4>1 DEF SlotsIn
    <3> QED BY <1>1, <3>1, <3>2 DEF Sides
  <2> QED BY SMTT(30), <1>3, <2>1, <2>2
<1>5. Top(c).live.txn # 0
  <2>1. c[1].live.txn \in Nat /\ c[1].live.txn # 0 /\ c[1].live.txn <= Top(c).live.txn
        BY TwoSides, MetaNumbers DEF SlotsIn
  <2> QED BY SMTT(30), <1>3, <2>1
<1> QED BY <1>1, <1>2, <1>4, <1>5

\* What every crash keeps, the active meta has.
LEMMA TopKeeps ==
    ASSUME NEW c, NEW P, SlotsIn(c, P)
    PROVE  /\ \A e : EpochIn(P, e) => e <= Top(c).dur.txn
           /\ \A v : VersionIn(P, v) => v <= Version(Top(c).dur.tree)
<1>1. PICK a : a = ActiveOf(c[0], c[1])
      OBVIOUS
<1>2. a \in Sides /\ Top(c) \in P[a] /\ c[1 - a] \in P[1 - a]
      /\ c[1 - a].live.txn < Top(c).live.txn
  <2>1. a \in Sides /\ Top(c) \in P[a] /\ \A n \in P[1 - a] : n.live.txn < Top(c).live.txn
        BY <1>1, TopFacts
  <2>2. c[1 - a] \in P[1 - a]
        BY <2>1, TwoSides DEF SlotsIn
  <2> QED BY <2>1, <2>2
<1> QED BY <1>2 DEF EpochIn, VersionIn

\* Meta m is written to slot s: it is not older than the active one and newer
\* than all the other slot may hold.
Added(c, P, d, Q, s, m) ==
    /\ s \in Sides /\ MetaOK(m)
    /\ d[s] = m /\ d[1 - s] = c[1 - s] /\ Q[s] = P[s] \cup {m} /\ Q[1 - s] = P[1 - s]
    /\ Top(c).live.txn <= m.live.txn /\ \A n \in P[1 - s] : n.live.txn < m.live.txn

\* It becomes the active one and, as its durable epoch and tree are not older
\* than those of the active one, what every crash kept is kept.
LEMMA Adds ==
    ASSUME NEW c, NEW P, NEW d, NEW Q, NEW s, NEW m, SlotsIn(c, P), Added(c, P, d, Q, s, m)
    PROVE  /\ SlotsIn(d, Q) /\ Top(d) = m
           /\ \A e \in Nat : EpochIn(P, e) /\ Top(c).dur.txn <= m.dur.txn => EpochIn(Q, e)
           /\ \A v \in Nat : VersionIn(P, v) /\ Version(Top(c).dur.tree) <= Version(m.dur.tree)
                                 => VersionIn(Q, v)
<1> USE DEF Added
<1>1. /\ 1 - s \in Sides /\ 1 - s # s /\ 1 - (1 - s) = s
      /\ \A i \in Sides : i = s \/ i = 1 - s
      BY TwoSides
<1>2. MetaOK(Top(c)) /\ Top(c).live.txn # 0
      BY TopFacts
<1>3. /\ Top(c).live.txn \in Nat /\ m.live.txn \in Nat /\ m.live.txn # 0
      /\ Top(c).dur.txn \in Nat /\ m.dur.txn \in Nat
  <2>1. /\ Top(c).live.txn \in Nat /\ m.live.txn \in Nat
        /\ Top(c).dur.txn \in Nat /\ m.dur.txn \in Nat
        BY <1>2, MetaNumbers
  <2> QED BY SMTT(30), <1>2, <2>1
<1>4. ASSUME NEW i \in Sides, NEW n \in Q[i]
      PROVE  MetaOK(n) /\ n.live.txn \in Nat /\ n.live.txn <= m.live.txn
  <2>1. CASE n = m
    <3>1. m.live.txn <= m.live.txn
          BY SMTT(30), <1>3
    <3> QED BY <1>3, <2>1, <3>1
  <2>2. CASE n \in P[i]
    <3>1. MetaOK(n) /\ n.live.txn <= Top(c).live.txn /\ n.live.txn \in Nat
          BY <2>2, MetaNumbers DEF SlotsIn
    <3>2. n.live.txn <= m.live.txn
          BY SMTT(30), <1>3, <3>1
    <3> QED BY <3>1, <3>2
  <2>3. n = m \/ n \in P[i]
        BY <1>1
  <2> QED BY <2>1, <2>2, <2>3
<1>5. Top(d) = m
  <2>1. c[1 - s] \in P[1 - s]
        BY <1>1 DEF SlotsIn
  <2>2. d[1 - s].live.txn \in Nat /\ d[s].live.txn \in Nat /\ d[1 - s].live.txn < d[s].live.txn
        BY <1>1, <1>3, <1>4, <2>1
  <2> QED BY <2>2, TopIs
<1>6. \A i \in Sides : d[i] \in Q[i]
      BY <1>1 DEF SlotsIn
<1>7. \A n \in Q[1] : n.live.txn # 0
  <2>1. ASSUME NEW n \in Q[1] PROVE n = m \/ n \in P[1]
        BY <1>1, TwoSides
  <2> QED BY <1>3, <2>1 DEF SlotsIn
<1>8. \A n \in P[1 - s] : n.live.txn # m.live.txn
  <2>1. ASSUME NEW n \in P[1 - s] PROVE n.live.txn # m.live.txn
    <3>1. n.live.txn \in Nat /\ n.live.txn < m.live.txn
          BY <1>1, <1>4
    <3> QED BY SMTT(30), <1>3, <3>1
  <2> QED BY <2>1
<1>9. ASSUME NEW n0 \in Q[0], NEW n1 \in Q[1] PROVE n0.live.txn # n1.live.txn
  <2>1. CASE s = 0
    <3>1. n1 \in P[1 - s] /\ n1 \in P[1] /\ (n0 = m \/ n0 \in P[0])
      <4>1. 1 - s = 1
            BY SMTT(30), <2>1
      <4> QED BY <2>1, <4>1
    <3> QED BY <1>8, <3>1 DEF SlotsIn
  <2>2. CASE s = 1
    <3>1. n0 \in P[1 - s] /\ n0 \in P[0] /\ (n1 = m \/ n1 \in P[1])
      <4>1. 1 - s = 0
            BY SMTT(30), <2>2
      <4> QED BY <2>2, <4>1
    <3> QED BY <1>8, <3>1 DEF SlotsIn
  <2> QED BY <2>1, <2>2 DEF Sides
<1>10. SlotsIn(d, Q)
       BY <1>4, <1>5, <1>6, <1>7, <1>9 DEF SlotsIn
<1>11. ASSUME NEW i \in Sides, NEW x \in Q[i], NEW y \in Q[1 - i], y.live.txn < x.live.txn
       PROVE  x = m \/ (x \in P[i] /\ y \in P[1 - i])
  <2>1. CASE i = s
        BY <2>1, <1>1, <1>11
  <2>2. CASE i = 1 - s
    <3>1. x \in P[1 - s] /\ (y = m \/ y \in P[1 - i])
          BY <2>2, <1>1
    <3>2. y # m
      <4>1. x.live.txn < m.live.txn /\ x.live.txn \in Nat
            BY <1>4, <3>1
      <4>2. ~(m.live.txn < x.live.txn)
            BY SMTT(30), <1>3, <4>1
      <4> QED BY <1>11, <4>2
    <3> QED BY <2>2, <3>1, <3>2
  <2> QED BY <1>1, <2>1, <2>2
<1>12. ASSUME NEW e \in Nat, EpochIn(P, e), Top(c).dur.txn <= m.dur.txn PROVE EpochIn(Q, e)
  <2>1. e <= m.dur.txn
    <3>1. e <= Top(c).dur.txn
          BY <1>12, TopKeeps
    <3> QED BY SMTT(30), <1>3, <1>12, <3>1
  <2> QED BY <1>11, <1>12, <2>1 DEF EpochIn
<1>13. ASSUME NEW v \in Nat, VersionIn(P, v),
              Version(Top(c).dur.tree) <= Version(m.dur.tree)
       PROVE  VersionIn(Q, v)
  <2>1. v <= Version(m.dur.tree)
    <3>1. v <= Version(Top(c).dur.tree)
          BY <1>13, TopKeeps
    <3>2. Version(Top(c).dur.tree) \in Nat /\ Version(m.dur.tree) \in Nat
          BY <1>2, <1>3 DEF MetaOK
    <3> QED BY SMTT(30), <1>13, <3>1, <3>2
  <2> QED BY <1>11, <1>13, <2>1 DEF VersionIn
<1> QED BY <1>5, <1>10, <1>12, <1>13

\* One content is picked for each slot, by an fdatasync or by a crash: what
\* every crash kept is kept, and so is all that the new active meta says.
LEMMA Picks ==
    ASSUME NEW c, NEW P, NEW d, NEW Q, SlotsIn(c, P),
           \A i \in Sides : d[i] \in P[i] /\ Q[i] = {d[i]}
    PROVE  /\ SlotsIn(d, Q)
           /\ \A e : EpochIn(P, e) => EpochIn(Q, e)
           /\ \A v : VersionIn(P, v) => VersionIn(Q, v)
           /\ \A e : e <= Top(d).dur.txn => EpochIn(Q, e)
           /\ \A v : v <= Version(Top(d).dur.tree) => VersionIn(Q, v)
<1>1. \A i \in Sides : MetaOK(d[i]) /\ d[i].live.txn \in Nat
      BY MetaNumbers DEF SlotsIn
<1>2. d[1].live.txn # 0 /\ d[0].live.txn # d[1].live.txn
      BY TwoSides DEF SlotsIn
<1>3. ASSUME NEW i \in Sides PROVE d[i].live.txn <= Top(d).live.txn
  <2>1. d[0].live.txn \in Nat /\ d[1].live.txn \in Nat
        BY <1>1, TwoSides
  <2>2. i = 0 \/ i = 1
        BY DEF Sides
  <2> QED BY SMTT(30), <2>1, <2>2 DEF Top, ActiveOf
<1>4. SlotsIn(d, Q)
      BY SMTT(30), <1>1, <1>2, <1>3, TwoSides DEF SlotsIn
<1>5. ASSUME NEW i \in Sides, d[1 - i].live.txn < d[i].live.txn PROVE d[i] = Top(d)
      BY <1>1, <1>5, TwoSides, TopIs
<1>6. \A i \in Sides : \A x : x \in Q[i] => x = d[i] /\ x \in P[i]
      OBVIOUS
<1>7. \A i \in Sides : \A x : x \in Q[1 - i] => x = d[1 - i] /\ x \in P[1 - i]
      BY <1>6, TwoSides
<1>8. \A e : EpochIn(P, e) => EpochIn(Q, e)
      BY <1>6, <1>7 DEF EpochIn
<1>9. \A v : VersionIn(P, v) => VersionIn(Q, v)
      BY <1>6, <1>7 DEF VersionIn
<1>10. \A e : e <= Top(d).dur.txn => EpochIn(Q, e)
       BY SMTT(30), <1>5, <1>6, <1>7 DEF EpochIn
<1>11. \A v : v <= Version(Top(d).dur.tree) => VersionIn(Q, v)
       BY SMTT(30), <1>5, <1>6, <1>7 DEF VersionIn
<1> QED BY <1>4, <1>8, <1>9, <1>10, <1>11

-----------------------------------------------------------------------------
(* Lemmas about what a step does to the slots. *)

\* The blocks of the file.
LEMMA SlotBlocks ==
    /\ Slot(0) # Slot(1)
    /\ \A i \in Sides : /\ Slot(1 - i) # Slot(i)
                        /\ Slot(i) \in Blocks /\ Slot(i) # Length
                        /\ Slot(i) \notin BitBlocks /\ Slot(i) \notin PageBlocks
                        /\ \A x : Slot(i) # Bit(x) /\ Slot(i) # Page(x)
<1>1. Slot(0) # Slot(1)
      BY SMTT(30) DEF Slot
<1>2. ASSUME NEW i \in Sides PROVE Slot(1 - i) # Slot(i)
      BY SMTT(30), TwoSides DEF Slot
<1>3. ASSUME NEW i \in Sides PROVE Slot(i) # Length
      BY SMTT(30) DEF Slot, Length
<1>4. ASSUME NEW i \in Sides, NEW x PROVE Slot(i) # Bit(x)
      BY SMTT(30) DEF Slot, Bit
<1>5. ASSUME NEW i \in Sides, NEW x PROVE Slot(i) # Page(x)
      BY SMTT(30) DEF Slot, Page
<1>6. ASSUME NEW i \in Sides PROVE Slot(i) \in Blocks
      BY LayoutAssumption DEF FileBlocks, Sides
<1>7. ASSUME NEW i \in Sides PROVE Slot(i) \notin BitBlocks /\ Slot(i) \notin PageBlocks
      BY <1>4, <1>5 DEF BitBlocks, PageBlocks
<1> QED BY <1>1, <1>2, <1>3, <1>4, <1>5, <1>6, <1>7

\* The active meta in terms of the two slots.
LEMMA MetaIs ==
    /\ Active = ActiveOf(Now[0], Now[1]) /\ Meta = Top(Now)
    /\ Active' = ActiveOf(Now'[0], Now'[1]) /\ Meta' = Top(Now')
<1>1. Now[0] = cache[Slot(0)] /\ Now[1] = cache[Slot(1)]
      BY TwoSides DEF Now
<1>2. Now'[0] = cache'[Slot(0)] /\ Now'[1] = cache'[Slot(1)]
      BY TwoSides DEF Now
<1>3. ActiveOf(Now[0], Now[1]) \in Sides /\ ActiveOf(Now'[0], Now'[1]) \in Sides
      BY TwoSides DEF ActiveOf
<1>4. Now[ActiveOf(Now[0], Now[1])] = cache[Slot(ActiveOf(Now[0], Now[1]))]
      BY <1>3 DEF Now
<1>5. Now'[ActiveOf(Now'[0], Now'[1])] = cache'[Slot(ActiveOf(Now'[0], Now'[1]))]
      BY <1>3 DEF Now
<1> QED BY <1>1, <1>2, <1>4, <1>5 DEF Active, Meta, Top

\* What the active meta says.
LEMMA MetaSays ==
    ASSUME SlotsOK
    PROVE  /\ MetaOK(Meta) /\ Meta.live.txn # 0
           /\ Meta.live.txn \in Nat /\ Meta.dur.txn \in Nat /\ Meta.anch \in Nat
           /\ Meta.anch <= Meta.dur.txn /\ Meta.dur.txn <= Meta.live.txn
           /\ Version(Meta.live.tree) \in Nat /\ Version(Meta.dur.tree) \in Nat
           /\ Version(Meta.live.tree) <= Meta.live.txn
           /\ Version(Meta.dur.tree) <= Version(Meta.live.tree)
           /\ \A e : EpochKept(e) => e <= Meta.dur.txn
           /\ \A v : VersionKept(v) => v <= Version(Meta.dur.tree)
<1>1. SlotsIn(Now, Left)
      BY DEF SlotsOK
<1>2. MetaOK(Meta) /\ Meta.live.txn # 0
      BY <1>1, MetaIs, TopFacts
<1>3. Meta.live.txn \in Nat /\ Meta.dur.txn \in Nat /\ Meta.anch \in Nat
      BY <1>2, MetaNumbers
<1>4. \A e : EpochKept(e) => e <= Meta.dur.txn
      BY <1>1, MetaIs, TopKeeps DEF EpochKept
<1>5. \A v : VersionKept(v) => v <= Version(Meta.dur.tree)
      BY <1>1, MetaIs, TopKeeps DEF VersionKept
<1> QED BY <1>2, <1>3, <1>4, <1>5 DEF MetaOK

\* After a step every crash still keeps what it kept before.
Kept ==
    /\ SlotsOK'
    /\ \A e \in Nat : EpochKept(e) => EpochKept(e)'
    /\ \A v \in Nat : VersionKept(v) => VersionKept(v)'

\* A step that leaves both slots alone, or only queues them.
LEMMA Untouched ==
    ASSUME SlotsOK,
           \A i \in Sides : /\ cache'[Slot(i)] = cache[Slot(i)]
                            /\ platter'[Slot(i)] = platter[Slot(i)]
                            /\ Slot(i) \in DOMAIN cache'
                            /\ Slot(i) \in queued => Slot(i) \in queued'
    PROVE  Kept /\ Meta' = Meta
<1>1. Now' = Now /\ Left' = Left
      BY DEF Now, Left
<1>2. SlotsIn(Now', Left')
      BY <1>1 DEF SlotsOK
<1>3. \A i \in Sides : Slot(i) \notin queued' => Left'[i] = {Now'[i]}
      BY <1>1 DEF SlotsOK
<1>4. SlotsOK'
      BY <1>2, <1>3 DEF SlotsOK
<1>5. Meta' = Meta
      BY <1>1, MetaIs
<1>6. \A e : EpochKept(e) => EpochKept(e)'
      BY <1>1 DEF EpochKept
<1>7. \A v : VersionKept(v) => VersionKept(v)'
      BY <1>1 DEF VersionKept
<1> QED BY <1>4, <1>5, <1>6, <1>7 DEF Kept

\* A pwrite of other blocks.
LEMMA WritesElsewhere ==
    ASSUME SlotsOK, NEW w, Pwrite(w), \A i \in Sides : Slot(i) \notin DOMAIN w
    PROVE  Kept /\ Meta' = Meta
<1>1. ASSUME NEW i \in Sides
      PROVE  /\ cache'[Slot(i)] = cache[Slot(i)]
             /\ platter'[Slot(i)] = platter[Slot(i)]
             /\ Slot(i) \in DOMAIN cache'
             /\ Slot(i) \in queued => Slot(i) \in queued'
  <2>1. Slot(i) \in DOMAIN cache /\ Slot(i) \in Blocks
        BY SlotBlocks DEF SlotsOK
  <2>2. cache'[Slot(i)] = cache[Slot(i)] /\ Slot(i) \in DOMAIN cache'
        BY <2>1 DEF Pwrite, Over
  <2> QED BY <2>1, <2>2 DEF Pwrite
<1> QED BY <1>1, Untouched

\* A step that does not touch the file.
LEMMA DiskUntouched ==
    ASSUME SlotsOK, UNCHANGED disk
    PROVE  Kept /\ Meta' = Meta
<1>1. cache' = cache /\ platter' = platter /\ queued' = queued
      BY DEF disk
<1>2. \A i \in Sides : Slot(i) \in DOMAIN cache'
      BY <1>1 DEF SlotsOK
<1> QED BY <1>1, <1>2, Untouched

\* The active meta is written back with the bytes it has.
LEMMA Redirties ==
    ASSUME SlotsOK, Pwrite(Redirty({Slot(Active)}))
    PROVE  Kept /\ Meta' = Meta
<1>1. ASSUME NEW i \in Sides
      PROVE  /\ cache'[Slot(i)] = cache[Slot(i)]
             /\ platter'[Slot(i)] = platter[Slot(i)]
             /\ Slot(i) \in DOMAIN cache'
             /\ Slot(i) \in queued => Slot(i) \in queued'
  <2>1. Slot(i) \in DOMAIN cache /\ Slot(i) \in Blocks
        BY SlotBlocks DEF SlotsOK
  <2>2. cache'[Slot(i)] = cache[Slot(i)] /\ Slot(i) \in DOMAIN cache'
        BY <2>1 DEF Pwrite, Over, Redirty
  <2>3. cache[Slot(i)] \in platter[Slot(i)]
        BY DEF SlotsOK, SlotsIn, Now, Left
  <2>4. platter'[Slot(i)] = platter[Slot(i)]
    <3>1. Slot(i) \in DOMAIN Redirty({Slot(Active)}) =>
              Redirty({Slot(Active)})[Slot(i)] = cache[Slot(i)]
          BY DEF Redirty
    <3>2. platter'[Slot(i)] = IF Slot(i) \in DOMAIN Redirty({Slot(Active)})
                              THEN platter[Slot(i)] \cup {Redirty({Slot(Active)})[Slot(i)]}
                              ELSE platter[Slot(i)]
          BY <2>1 DEF Pwrite
    <3>3. platter[Slot(i)] \cup {cache[Slot(i)]} = platter[Slot(i)]
          BY <2>3
    <3> QED BY <3>1, <3>2, <3>3
  <2> QED BY <2>2, <2>4 DEF Pwrite
<1> QED BY <1>1, Untouched

\* An fdatasync: all that the active meta says is kept from here on.
LEMMA Settles ==
    ASSUME SlotsOK, FdatasyncOK
    PROVE  /\ Kept /\ Meta' = Meta
           /\ \A e : e <= Meta.dur.txn => EpochKept(e)'
           /\ \A v : v <= Version(Meta.dur.tree) => VersionKept(v)'
<1>1. Now' = Now
      BY DEF Now, FdatasyncOK
<1>2. ASSUME NEW i \in Sides PROVE Left'[i] = {Now'[i]} /\ Now'[i] \in Left[i]
  <2>1. Left'[i] = IF Slot(i) \in queued THEN {cache[Slot(i)]} ELSE platter[Slot(i)]
        BY SlotBlocks DEF FdatasyncOK, Left
  <2>2. Slot(i) \notin queued => platter[Slot(i)] = {cache[Slot(i)]}
        BY DEF SlotsOK, Left, Now
  <2>3. Now'[i] = cache[Slot(i)] /\ Now[i] \in Left[i]
        BY <1>1 DEF Now, SlotsOK, SlotsIn
  <2> QED BY <1>1, <2>1, <2>2, <2>3
<1>3. SlotsIn(Now, Left)
      BY DEF SlotsOK
<1>4. /\ SlotsIn(Now', Left')
      /\ \A e : EpochIn(Left, e) => EpochIn(Left', e)
      /\ \A v : VersionIn(Left, v) => VersionIn(Left', v)
      /\ \A e : e <= Top(Now').dur.txn => EpochIn(Left', e)
      /\ \A v : v <= Version(Top(Now').dur.tree) => VersionIn(Left', v)
      BY <1>2, <1>3, Picks
<1>5. Meta' = Meta /\ Meta' = Top(Now')
      BY <1>1, MetaIs
<1>6. \A i \in Sides : Slot(i) \in DOMAIN cache'
      BY DEF SlotsOK, FdatasyncOK
<1>7. SlotsOK'
      BY <1>2, <1>4, <1>6 DEF SlotsOK
<1> QED BY <1>4, <1>5, <1>7 DEF Kept, EpochKept, VersionKept

\* A meta is written: a newer one to the inactive slot, or one with the same
\* TxnID over the active one.
LEMMA Writes ==
    ASSUME SlotsOK, NEW s \in Sides, NEW m, MetaOK(m), Pwrite(Block(Slot(s), m)),
           \/ s = 1 - Active /\ Meta.live.txn < m.live.txn
           \/ s = Active /\ Meta.live.txn = m.live.txn,
           Meta.dur.txn <= m.dur.txn, Version(Meta.dur.tree) <= Version(m.dur.tree)
    PROVE  Kept /\ Meta' = m
<1>1. SlotsIn(Now, Left)
      BY DEF SlotsOK
<1>2. DOMAIN Block(Slot(s), m) = {Slot(s)} /\ Block(Slot(s), m)[Slot(s)] = m
      BY DEF Block
<1>3. 1 - s \in Sides /\ Slot(1 - s) # Slot(s) /\ Slot(s) \in Blocks /\ Slot(1 - s) \in Blocks
      BY TwoSides, SlotBlocks
<1>4. \A i \in Sides : Slot(i) \in DOMAIN cache /\ Slot(i) \in DOMAIN cache'
      BY DEF SlotsOK, Pwrite, Over
<1>5. Now'[s] = m /\ Now'[1 - s] = Now[1 - s]
  <2>1. cache'[Slot(s)] = m
        BY <1>2, <1>4 DEF Pwrite, Over
  <2>2. cache'[Slot(1 - s)] = cache[Slot(1 - s)]
        BY <1>2, <1>3, <1>4 DEF Pwrite, Over
  <2> QED BY <1>3, <2>1, <2>2 DEF Now
<1>6. Left'[s] = Left[s] \cup {m} /\ Left'[1 - s] = Left[1 - s]
  <2>1. platter'[Slot(s)] = platter[Slot(s)] \cup {m}
        BY <1>2, <1>3 DEF Pwrite
  <2>2. platter'[Slot(1 - s)] = platter[Slot(1 - s)]
        BY <1>2, <1>3 DEF Pwrite
  <2> QED BY <1>3, <2>1, <2>2 DEF Left
<1>7. Meta = Top(Now) /\ Active \in Sides /\ m.live.txn \in Nat /\ Meta.live.txn \in Nat
      BY <1>1, MetaIs, TopFacts, MetaNumbers
<1>8. Meta.live.txn <= m.live.txn
      BY SMTT(30), <1>7
<1>9. ASSUME NEW n \in Left[1 - s] PROVE n.live.txn < m.live.txn
  <2>1. CASE s = 1 - Active /\ Meta.live.txn < m.live.txn
    <3>1. n.live.txn \in Nat /\ n.live.txn <= Meta.live.txn
          BY <1>1, <1>3, <1>7, MetaNumbers DEF SlotsIn
    <3> QED BY SMTT(30), <1>7, <2>1, <3>1
  <2>2. CASE s = Active /\ Meta.live.txn = m.live.txn
        BY <1>1, <1>7, <2>2, MetaIs, TopFacts
  <2> QED BY <2>1, <2>2
<1>10. /\ SlotsIn(Now', Left') /\ Top(Now') = m
       /\ \A e \in Nat : EpochIn(Left, e) /\ Top(Now).dur.txn <= m.dur.txn => EpochIn(Left', e)
       /\ \A v \in Nat : VersionIn(Left, v) /\ Version(Top(Now).dur.tree) <= Version(m.dur.tree)
                             => VersionIn(Left', v)
  <2>1. Top(Now).live.txn <= m.live.txn
        BY <1>7, <1>8
  <2>2. Added(Now, Left, Now', Left', s, m)
        BY <1>5, <1>6, <1>9, <2>1 DEF Added
  <2> QED BY <1>1, <2>2, Adds
<1>11. ASSUME NEW i \in Sides, Slot(i) \notin queued' PROVE Left'[i] = {Now'[i]}
  <2>1. queued' = queued \cup {Slot(s)}
        BY <1>2 DEF Pwrite
  <2>2. i = 1 - s
        BY <1>11, <2>1, TwoSides
  <2> QED BY <1>5, <1>6, <1>11, <2>1, <2>2 DEF SlotsOK
<1>12. SlotsOK'
       BY <1>4, <1>10, <1>11 DEF SlotsOK
<1>13. Meta' = m
       BY <1>10, MetaIs
<1> QED BY <1>7, <1>10, <1>12, <1>13 DEF Kept, EpochKept, VersionKept

\* A power loss: all that the meta it leaves active says is kept from here on.
LEMMA Loses ==
    ASSUME SlotsOK, NEW image, PowerLoss(image)
    PROVE  /\ Kept
           /\ \A e : e <= Meta'.dur.txn => EpochKept(e)'
           /\ \A v : v <= Version(Meta'.dur.tree) => VersionKept(v)'
<1>1. SlotsIn(Now, Left)
      BY DEF SlotsOK
<1>2. ASSUME NEW i \in Sides
      PROVE  /\ Slot(i) \in DOMAIN cache'
             /\ Now'[i] \in Left[i] /\ Left'[i] = {Now'[i]}
  <2>1. Slot(i) \in DOMAIN cache /\ Slot(i) \in Blocks
        BY SlotBlocks DEF SlotsOK
  <2>2. cache[Slot(i)] \in platter[Slot(i)]
        BY <1>1 DEF SlotsIn, Now, Left
  <2>3. cache'[Slot(i)] = IF Slot(i) \in DOMAIN image THEN image[Slot(i)] ELSE cache[Slot(i)]
        BY <2>1 DEF PowerLoss, Over
  <2>4. cache'[Slot(i)] \in platter[Slot(i)]
        BY <2>2, <2>3 DEF PowerLoss
  <2>5. platter'[Slot(i)] = {cache'[Slot(i)]}
        BY <2>1 DEF PowerLoss
  <2>6. Slot(i) \in DOMAIN cache'
        BY <2>1 DEF PowerLoss, Over
  <2> QED BY <2>4, <2>5, <2>6 DEF Now, Left
<1>3. /\ SlotsIn(Now', Left')
      /\ \A e : EpochIn(Left, e) => EpochIn(Left', e)
      /\ \A v : VersionIn(Left, v) => VersionIn(Left', v)
      /\ \A e : e <= Top(Now').dur.txn => EpochIn(Left', e)
      /\ \A v : v <= Version(Top(Now').dur.tree) => VersionIn(Left', v)
      BY <1>1, <1>2, Picks
<1>4. SlotsOK'
      BY <1>2, <1>3 DEF SlotsOK
<1> QED BY <1>3, <1>4, MetaIs DEF Kept, EpochKept, VersionKept

-----------------------------------------------------------------------------
(* Lemmas about the metas that are written. *)

\* The version of a tree with a page of transaction t, and none newer, is t.
LEMMA VersionIs ==
    ASSUME NEW tree, NEW t \in Nat, NEW x \in DOMAIN tree, tree[x] = t,
           \A y \in DOMAIN tree : tree[y] \in Nat /\ tree[y] <= t
    PROVE  Version(tree) = t
<1> DEFINE V == {tree[y] : y \in DOMAIN tree}
           Newest(v) == \A y \in DOMAIN tree : tree[y] <= v
<1>1. t \in V /\ Newest(t)
      OBVIOUS
<1>2. Version(tree) \in V /\ Newest(Version(tree))
  <2>1. Version(tree) = CHOOSE v \in V : Newest(v)
        BY DEF Version
  <2> HIDE DEF V, Newest
  <2> QED BY <1>1, <2>1
<1>3. Version(tree) \in Nat /\ Version(tree) <= t /\ t <= Version(tree)
      BY <1>2
<1> QED BY SMTT(30), <1>3

\* The meta of a commit: buildNewMeta.
LEMMA CommitMeta ==
    ASSUME SlotsOK, NEW p \in Procs, anchored[p] \in Nat, anchored[p] <= Meta.dur.txn,
           tx.view.txn = Meta.live.txn + 1, Version(tx.tree) = tx.view.txn,
           \A x \in DOMAIN tx.tree : tx.tree[x] \in Nat /\ tx.tree[x] <= tx.view.txn
    PROVE  /\ MetaOK(NewMeta(p)) /\ Meta.live.txn < NewMeta(p).live.txn
           /\ Meta.dur.txn <= NewMeta(p).dur.txn
           /\ Version(Meta.dur.tree) <= Version(NewMeta(p).dur.tree)
           /\ NewMeta(p).anch = anchored[p]
           /\ tx.mode = "SyncBoth" => NewMeta(p).dur.tree = tx.tree
<1> DEFINE m == NewMeta(p)
<1>1. /\ {"live", "dur", "anch"} \subseteq DOMAIN m /\ {"txn", "tree"} \subseteq DOMAIN m.live
      /\ m.live.txn = tx.view.txn /\ m.live.tree = tx.tree /\ m.anch = anchored[p]
      /\ m.dur = IF tx.mode = "SyncNone" THEN Meta.dur ELSE m.live
      BY DEF NewMeta
<1> HIDE DEF m
<1>2. /\ MetaOK(Meta)
      /\ Meta.live.txn \in Nat /\ Meta.dur.txn \in Nat
      /\ Meta.dur.txn <= Meta.live.txn
      /\ Version(Meta.live.tree) \in Nat /\ Version(Meta.dur.tree) \in Nat
      /\ Version(Meta.live.tree) <= Meta.live.txn
      /\ Version(Meta.dur.tree) <= Version(Meta.live.tree)
      BY MetaSays
<1>3. /\ tx.view.txn \in Nat /\ tx.view.txn # 0 /\ Meta.live.txn < tx.view.txn
      /\ Meta.dur.txn < tx.view.txn /\ Meta.dur.txn <= tx.view.txn
      /\ anchored[p] <= tx.view.txn /\ Meta.dur.txn # tx.view.txn
      /\ Version(Meta.dur.tree) <= tx.view.txn /\ tx.view.txn <= tx.view.txn
      /\ Meta.dur.txn <= Meta.dur.txn
      /\ Version(Meta.dur.tree) <= Version(Meta.dur.tree)
      BY SMTT(30), <1>2
<1>4. SubOK(m.live)
      BY <1>1, <1>3 DEF SubOK
<1>5. SubOK(Meta.dur)
      BY <1>2 DEF MetaOK
<1>6. CASE tx.mode = "SyncNone"
  <2>1. m.dur = Meta.dur /\ tx.mode # "SyncBoth"
        BY <1>1, <1>6
  <2>2. MetaOK(m)
        BY <1>1, <1>2, <1>3, <1>4, <1>5, <2>1 DEF MetaOK, SelfDurable
  <2> QED BY <1>1, <1>3, <2>1, <2>2 DEF m
<1>7. CASE tx.mode # "SyncNone"
  <2>1. m.dur = m.live
        BY <1>1, <1>7
  <2>2. MetaOK(m)
        BY <1>1, <1>3, <1>4, <2>1 DEF MetaOK
  <2> QED BY <1>1, <1>3, <2>1, <2>2 DEF m
<1> QED BY <1>6, <1>7

\* The meta of a recovery commit: the durable tree under a new TxnID.
LEMMA RecoveryMeta ==
    ASSUME SlotsOK, NEW live, live = [Meta.dur EXCEPT !.txn = Meta.live.txn + 1],
           NEW m, m = [live |-> live, dur |-> live, anch |-> Meta.dur.txn]
    PROVE  /\ MetaOK(m) /\ Meta.live.txn < m.live.txn /\ Meta.dur.txn <= m.dur.txn
           /\ Version(Meta.dur.tree) <= Version(m.dur.tree)
           /\ Meta.anch <= m.anch
<1>1. /\ MetaOK(Meta)
      /\ Meta.live.txn \in Nat /\ Meta.dur.txn \in Nat
      /\ Meta.dur.txn <= Meta.live.txn /\ Meta.anch <= Meta.dur.txn
      /\ Version(Meta.live.tree) \in Nat /\ Version(Meta.dur.tree) \in Nat
      /\ Version(Meta.live.tree) <= Meta.live.txn
      /\ Version(Meta.dur.tree) <= Version(Meta.live.tree)
      BY MetaSays
<1>2. SubOK(Meta.dur)
      BY <1>1 DEF MetaOK
<1>3. /\ {"txn", "tree"} \subseteq DOMAIN live
      /\ live.txn = Meta.live.txn + 1 /\ live.tree = Meta.dur.tree
      BY <1>2 DEF SubOK
<1>4. /\ {"live", "dur", "anch"} \subseteq DOMAIN m
      /\ m.live = live /\ m.dur = live /\ m.anch = Meta.dur.txn
      OBVIOUS
<1>5. /\ live.txn \in Nat /\ Meta.live.txn < live.txn /\ Meta.dur.txn <= live.txn
      /\ live.txn <= live.txn
      /\ Version(Meta.dur.tree) <= live.txn
      /\ Version(Meta.dur.tree) <= Version(Meta.dur.tree)
      BY SMTT(30), <1>1, <1>3
<1>6. SubOK(live)
  <2>1. ASSUME NEW x \in DOMAIN live.tree
        PROVE  live.tree[x] \in Nat /\ live.tree[x] <= live.txn
    <3>1. live.tree[x] \in Nat /\ live.tree[x] <= Meta.dur.txn
          BY <1>2, <1>3 DEF SubOK
    <3> QED BY SMTT(30), <1>1, <1>5, <3>1
  <2> QED BY <1>3, <1>5, <2>1 DEF SubOK
<1>7. MetaOK(m)
      BY <1>1, <1>3, <1>4, <1>5, <1>6 DEF MetaOK
<1> QED BY <1>1, <1>3, <1>4, <1>5, <1>7

\* The meta of a checkpoint: the live sub-record becomes the durable one.
LEMMA CheckpointMeta ==
    ASSUME SlotsOK, NEW a \in Nat, a <= Meta.dur.txn,
           NEW m, m = [Meta EXCEPT !.dur = Meta.live, !.anch = a]
    PROVE  /\ MetaOK(m) /\ SelfDurable(m) /\ Meta.live.txn = m.live.txn
           /\ Meta.dur.txn <= m.dur.txn
           /\ Version(Meta.dur.tree) <= Version(m.dur.tree)
           /\ m.anch = a
<1>1. /\ MetaOK(Meta)
      /\ Meta.live.txn \in Nat /\ Meta.dur.txn \in Nat
      /\ Meta.dur.txn <= Meta.live.txn
      /\ Version(Meta.live.tree) \in Nat /\ Version(Meta.dur.tree) \in Nat
      /\ Version(Meta.live.tree) <= Meta.live.txn
      /\ Version(Meta.dur.tree) <= Version(Meta.live.tree)
      BY MetaSays
<1>2. /\ {"live", "dur", "anch"} \subseteq DOMAIN m
      /\ m.live = Meta.live /\ m.dur = Meta.live /\ m.anch = a
      BY <1>1 DEF MetaOK
<1>3. /\ a <= Meta.live.txn /\ Meta.live.txn <= Meta.live.txn
      /\ Version(Meta.live.tree) <= Version(Meta.live.tree)
      BY SMTT(30), <1>1
<1>4. MetaOK(m)
      BY <1>1, <1>2, <1>3 DEF MetaOK
<1> QED BY <1>1, <1>2, <1>4 DEF SelfDurable

-----------------------------------------------------------------------------
(* Lemmas about who is where. *)

\* One handle moves.
LEMMA Moves ==
    ASSUME MetaInv, NEW p \in Procs, NEW w \in Places, pc' = [pc EXCEPT ![p] = w]
    PROVE  /\ pc' \in [Procs -> Places] /\ pc'[p] = w
           /\ \A q \in Procs : q # p => pc'[q] = pc[q]
<1>1. pc \in [Procs -> Places]
      BY DEF MetaInv
<1> QED BY <1>1

\* One handle's anchored epoch is set.
LEMMA Anchors ==
    ASSUME MetaInv, NEW p \in Procs, NEW a \in Nat, anchored' = [anchored EXCEPT ![p] = a]
    PROVE  /\ anchored' \in [Procs -> Nat] /\ anchored'[p] = a
           /\ \A q \in Procs : q # p => anchored'[q] = anchored[q]
<1>1. anchored \in [Procs -> Nat]
      BY DEF MetaInv
<1> QED BY <1>1

\* A handle outside every operation only needs its anchored epoch to be kept.
LEMMA AtRest ==
    ASSUME NEW q \in Procs, pc'[q] \in Resting, anchored'[q] \in Nat,
           pc'[q] # "closed" => EpochKept(anchored[q])'
    PROVE  HolderOK(q)' /\ TxOK(q)' /\ AnchorOK(q)'
<1>1. HolderOK(q)'
      BY DEF HolderOK, Resting, Working
<1>2. TxOK(q)'
      BY DEF TxOK, Resting, Publishing
<1>3. AnchorOK(q)'
      BY DEF AnchorOK, Resting, Attached
<1> QED BY <1>1, <1>2, <1>3

\* While p has the grant, or takes it, every other handle is at rest.
LEMMA Sole ==
    ASSUME MetaInv, NEW p \in Procs, holder = p \/ holder = None
    PROVE  \A q \in Procs : q # p => pc[q] \in Resting
<1>1. \A q \in Procs : pc[q] \notin Resting => holder = q
      BY DEF MetaInv, HolderOK
<1>2. \A q \in Procs : q # None
      BY BoundsAssumption
<1> QED BY <1>1, <1>2

\* A step of the grant's holder, or of a handle that takes the grant: what
\* holds of the others carries over.
LEMMA Carries ==
    ASSUME MetaInv, Kept, NEW p \in Procs, holder = p \/ holder = None,
           pc' \in [Procs -> Places], anchored' \in [Procs -> Nat],
           \A q \in Procs : q # p => pc'[q] = pc[q] /\ anchored'[q] = anchored[q],
           acked' \in Nat, VersionKept(acked)', crashes' \in Nat,
           fresh' # {} => covered', Settled' => EpochKept(Meta.anch)',
           HolderOK(p)', TxOK(p)', AnchorOK(p)'
    PROVE  MetaInv'
<1>1. ASSUME NEW q \in Procs PROVE HolderOK(q)' /\ TxOK(q)' /\ AnchorOK(q)'
  <2>1. CASE q = p
        BY <2>1
  <2>2. CASE q # p
    <3>1. pc'[q] \in Resting /\ pc'[q] = pc[q] /\ anchored'[q] = anchored[q]
          BY <2>2, Sole
    <3>2. anchored[q] \in Nat
          BY DEF MetaInv
    <3>3. pc[q] # "closed" => EpochKept(anchored[q])
          BY <3>1 DEF MetaInv, AnchorOK, Attached, Resting
    <3>4. pc'[q] # "closed" => EpochKept(anchored[q])'
          BY <3>1, <3>2, <3>3 DEF Kept, EpochKept
    <3> QED BY <3>1, <3>2, <3>4, AtRest
  <2> QED BY <2>1, <2>2
<1>2. SlotsOK'
      BY DEF Kept
<1> QED BY <1>1, <1>2 DEF MetaInv

\* The grant's holder, and its anchored epoch.
LEMMA HolderHas ==
    ASSUME MetaInv, NEW p \in Procs
    PROVE  /\ SlotsOK /\ anchored[p] \in Nat /\ acked \in Nat /\ crashes \in Nat
           /\ pc[p] \notin Resting => holder = p
           /\ pc[p] \in Working => Meta.anch <= anchored[p]
           /\ Attached(p) => EpochKept(anchored[p]) /\ anchored[p] <= Meta.dur.txn
<1>1. SlotsOK /\ anchored[p] \in Nat /\ acked \in Nat /\ crashes \in Nat
      BY DEF MetaInv
<1>2. HolderOK(p) /\ AnchorOK(p)
      BY DEF MetaInv
<1>3. Attached(p) => EpochKept(anchored[p])
      BY <1>2 DEF AnchorOK
<1> QED BY <1>1, <1>2, <1>3, MetaSays DEF HolderOK

\* A step that acknowledges nothing.
LEMMA Acks ==
    ASSUME MetaInv, Kept, acked' = acked
    PROVE  acked' \in Nat /\ VersionKept(acked)'
BY DEF MetaInv, Kept, VersionKept

\* A step within the grant that leaves the anchor in the meta alone.
LEMMA Steady ==
    ASSUME MetaInv, Kept, Meta' = Meta, NEW p \in Procs, pc[p] # "recoverSync",
           \A q \in Procs : q # p => pc'[q] = pc[q],
           covered' => covered, deadHolder' = deadHolder
    PROVE  Settled' => EpochKept(Meta.anch)'
<1>1. Settled' => Settled
      BY DEF Settled
<1>2. Settled => EpochKept(Meta.anch)
      BY DEF MetaInv
<1>3. Meta.anch \in Nat
      BY MetaSays DEF MetaInv
<1> QED BY <1>1, <1>2, <1>3 DEF Kept, EpochKept

\* The holder goes from one step of its transaction or checkpoint to another,
\* and the active meta stays.
LEMMA Works ==
    ASSUME MetaInv, Kept, Meta' = Meta, NEW p \in Procs, NEW w \in Working,
           pc[p] \in Working, pc' = [pc EXCEPT ![p] = w],
           NEW a \in Nat, anchored' = [anchored EXCEPT ![p] = a], anchored[p] <= a,
           EpochIn(Left', a), UNCHANGED <<locks, seqs, acked, crashes>>, TxOK(p)'
    PROVE  MetaInv'
<1>1. /\ pc' \in [Procs -> Places] /\ pc'[p] = w
      /\ \A q \in Procs : q # p => pc'[q] = pc[q]
      BY Moves DEF Places
<1>2. /\ anchored' \in [Procs -> Nat] /\ anchored'[p] = a
      /\ \A q \in Procs : q # p => anchored'[q] = anchored[q]
      BY Anchors
<1>3. /\ covered' = covered /\ fresh' = fresh /\ deadHolder' = deadHolder /\ holder' = holder
      /\ acked' = acked /\ crashes' = crashes
      BY DEF seqs, locks
<1>4. SlotsOK /\ anchored[p] \in Nat /\ crashes \in Nat /\ Meta.anch <= anchored[p]
      BY HolderHas
<1>5. pc[p] \notin Resting /\ pc[p] # "recoverSync" /\ w \notin Resting
      BY DEF Working, Resting
<1>6. holder = p
      BY <1>5, HolderHas
<1>7. Meta.anch <= a
  <2>1. Meta.anch \in Nat
        BY <1>4, MetaSays
  <2> QED BY SMTT(30), <1>4, <2>1
<1>8. HolderOK(p)'
  <2>1. w \notin {"cover", "opened", "check4"}
        BY DEF Working
  <2> QED BY <1>1, <1>2, <1>3, <1>6, <1>7, <2>1 DEF HolderOK
<1>9. AnchorOK(p)'
  <2>1. w \notin {"recoverMeta", "recoverSync", "cover"}
        BY DEF Working
  <2> QED BY <1>1, <1>2, <2>1 DEF AnchorOK, EpochKept
<1>10. Settled' => EpochKept(Meta.anch)'
       BY <1>1, <1>3, <1>5, Steady
<1>11. acked' \in Nat /\ VersionKept(acked)'
       BY <1>3, Acks
<1>12. fresh' # {} => covered'
       BY <1>3 DEF MetaInv
<1> QED BY <1>1, <1>2, <1>3, <1>4, <1>6, <1>8, <1>9, <1>10, <1>11, <1>12, Carries

\* The holder returns.
LEMMA Returns ==
    ASSUME MetaInv, Kept, NEW p \in Procs, NEW w \in Resting, holder = p,
           pc' = [pc EXCEPT ![p] = w],
           NEW a \in Nat, anchored' = [anchored EXCEPT ![p] = a],
           w # "closed" => EpochIn(Left', a), crashes' = crashes,
           acked' \in Nat, VersionKept(acked)', fresh' # {} => covered',
           Settled' => EpochKept(Meta.anch)'
    PROVE  MetaInv'
<1>1. /\ pc' \in [Procs -> Places] /\ pc'[p] = w
      /\ \A q \in Procs : q # p => pc'[q] = pc[q]
      BY Moves DEF Places
<1>2. /\ anchored' \in [Procs -> Nat] /\ anchored'[p] = a
      /\ \A q \in Procs : q # p => anchored'[q] = anchored[q]
      BY Anchors
<1>3. crashes' \in Nat
      BY DEF MetaInv
<1>4. pc'[p] # "closed" => EpochKept(anchored[p])'
      BY <1>1, <1>2 DEF EpochKept
<1>5. HolderOK(p)' /\ TxOK(p)' /\ AnchorOK(p)'
      BY <1>1, <1>2, <1>4, AtRest
<1> QED BY <1>1, <1>2, <1>3, <1>5, Carries

\* advanceAnchoredEpoch takes the later of two epochs.
LEMMA Later ==
    ASSUME NEW a \in Nat, NEW b \in Nat
    PROVE  /\ Max2(a, b) \in Nat /\ a <= Max2(a, b) /\ b <= Max2(a, b)
           /\ Max2(a, b) = a \/ Max2(a, b) = b
BY SMTT(30) DEF Max2

\* An anchored epoch set to itself.
LEMMA SameAnchor ==
    ASSUME MetaInv, NEW p \in Procs, anchored' = anchored
    PROVE  anchored' = [anchored EXCEPT ![p] = anchored[p]]
<1>1. anchored \in [Procs -> Nat]
      BY DEF MetaInv
<1> QED BY <1>1

-----------------------------------------------------------------------------
(* The write transaction. *)

\* The body of a transaction: its tree is newer than the active one by one
\* transaction, and what it is going to write are pages and bits.
LEMMA BodyStep ==
    ASSUME MetaInv, NEW p \in Procs, NEW mode, NEW retired, NEW early, pc[p] = "tx",
           Body(p, mode, retired, early)
    PROVE  MetaInv' /\ Meta' = Meta
<1> DEFINE txn == Meta.live.txn + 1
           tree == Meta.live.tree
<1>1. /\ pc[p] = "tx" /\ pc' = [pc EXCEPT ![p] = "step1"]
      /\ UNCHANGED <<locks, seqs, acked, crashes>> /\ anchored' = anchored
      BY DEF Body, rest, faults
<1>2. PICK s, t :
          LET seg == CHOOSE x \in t.new : TRUE
              older == IF t.chain = <<>> THEN None ELSE t.chain[Len(t.chain)].page
              content(b) ==
                  CASE b[1] = "bit" -> b[2] \in t.free
                    [] b[2] = seg -> [kind |-> "seg", txn |-> txn, older |-> older, ids |-> retired]
                    [] OTHER -> TreePage(txn)
          IN /\ s.new # {}
             /\ tx' = [mode |-> mode, hwm |-> t.hwm,
                       view |-> [txn |-> txn, free |-> t.free,
                                 chain |-> Append(t.chain, [page |-> seg, txn |-> txn])],
                       tree |-> [x \in (DOMAIN tree \ retired) \cup s.new |->
                                    IF x \in s.new THEN txn ELSE tree[x]],
                       writes |-> [b \in {Page(x) : x \in s.new \cup {seg}} \cup {Bit(x) : x \in t.bits} |-> content(b)]]
             /\ Pwrite(IF t.hwm > cache[Length] THEN Block(Length, t.hwm) ELSE <<>>)
      BY DEF Body
<1>3. PICK new, pages, bits :
          /\ new # {} /\ tx'.view.txn = txn
          /\ tx'.tree = [x \in (DOMAIN tree \ retired) \cup new |-> IF x \in new THEN txn ELSE tree[x]]
          /\ DOMAIN tx'.writes = {Page(x) : x \in pages} \cup {Bit(x) : x \in bits}
      BY <1>2
<1>4. PICK w : Pwrite(w) /\ (w = <<>> \/ \E h : w = Block(Length, h))
      BY <1>2
<1>5. \A i \in Sides : Slot(i) \notin DOMAIN w
  <2>1. DOMAIN w \subseteq {Length}
    <3>1. CASE w = <<>>
          BY SMTT(30), <3>1
    <3>2. CASE \E h : w = Block(Length, h)
          BY <3>2 DEF Block
    <3> QED BY <1>4, <3>1, <3>2
  <2> QED BY <2>1, SlotBlocks
<1>6. SlotsOK /\ anchored[p] \in Nat /\ EpochKept(anchored[p])
      BY <1>1, HolderHas DEF Attached
<1>7. Kept /\ Meta' = Meta
      BY <1>4, <1>5, <1>6, WritesElsewhere
<1>8. MetaOK(Meta) /\ Meta.live.txn \in Nat
      BY <1>6, MetaSays
<1>9. txn \in Nat /\ txn <= txn
      BY SMTT(30), <1>8
<1>10. ASSUME NEW x \in DOMAIN tx'.tree PROVE tx'.tree[x] \in Nat /\ tx'.tree[x] <= txn
  <2>1. CASE x \in new
        BY <1>3, <1>9, <2>1
  <2>2. CASE x \notin new
    <3>1. tx'.tree[x] = tree[x] /\ x \in DOMAIN tree
          BY <1>3, <2>2
    <3>2. tree[x] \in Nat /\ tree[x] <= Meta.live.txn
          BY <1>8, <3>1 DEF MetaOK, SubOK
    <3>3. tree[x] <= txn
          BY SMTT(30), <1>8, <3>2
    <3> QED BY <3>1, <3>2, <3>3
  <2> QED BY <2>1, <2>2
<1>11. Version(tx'.tree) = txn
  <2>1. PICK x : x \in new
        BY <1>3
  <2>2. x \in DOMAIN tx'.tree /\ tx'.tree[x] = txn
        BY <1>3, <2>1
  <2> HIDE DEF txn, tree
  <2> QED BY <1>9, <1>10, <2>2, VersionIs
<1>12. \A i \in Sides : Slot(i) \notin DOMAIN tx'.writes
       BY <1>3, SlotBlocks
<1>13. pc'[p] = "step1"
       BY <1>1, Moves DEF Places, Working
<1>14. TxOK(p)'
  <2>1. tx'.view.txn = Meta'.live.txn + 1 /\ Version(tx'.tree) = tx'.view.txn
        BY <1>3, <1>7, <1>11
  <2>2. \A x \in DOMAIN tx'.tree : tx'.tree[x] \in Nat /\ tx'.tree[x] <= tx'.view.txn
        BY <1>3, <1>10
  <2> QED BY <1>12, <1>13, <2>1, <2>2 DEF TxOK, Publishing
<1>15. anchored[p] <= anchored[p] /\ EpochIn(Left', anchored[p])
  <2>1. anchored[p] <= anchored[p]
        BY SMTT(30), <1>6
  <2> QED BY <1>6, <1>7, <2>1 DEF Kept, EpochKept
<1>16. anchored' = [anchored EXCEPT ![p] = anchored[p]]
       BY <1>1, SameAnchor
<1>17. "step1" \in Working /\ pc[p] \in Working
       BY <1>1 DEF Working
<1> QED BY <1>1, <1>6, <1>7, <1>14, <1>15, <1>16, <1>17, Works

\* The holder goes on, and nothing it relies on changes.
LEMMA WorksOn ==
    ASSUME MetaInv, Kept, Meta' = Meta, NEW p \in Procs, NEW w \in Working,
           pc[p] \in Working, pc' = [pc EXCEPT ![p] = w],
           UNCHANGED <<locks, seqs, anchored, acked, crashes>>, TxOK(p)'
    PROVE  MetaInv'
<1>1. Attached(p)
      BY DEF Working, Attached
<1>2. anchored[p] \in Nat /\ EpochKept(anchored[p])
      BY <1>1, HolderHas
<1>3. anchored[p] <= anchored[p]
      BY SMTT(30), <1>2
<1>4. EpochIn(Left', anchored[p])
      BY <1>2 DEF Kept, EpochKept
<1>5. anchored' = [anchored EXCEPT ![p] = anchored[p]] /\ UNCHANGED <<locks, seqs, acked, crashes>>
      BY SameAnchor
<1> QED BY <1>2, <1>3, <1>4, <1>5, Works

\* The holder's fdatasync anchors the durable epoch of the active meta.
LEMMA SyncsOn ==
    ASSUME MetaInv, FdatasyncOK, NEW p \in Procs, NEW w \in Working,
           pc[p] \in Working, pc' = [pc EXCEPT ![p] = w],
           anchored' = [anchored EXCEPT ![p] = Max2(@, Meta.dur.txn)],
           UNCHANGED <<locks, seqs, acked, crashes>>, TxOK(p)'
    PROVE  MetaInv' /\ Meta' = Meta
<1> DEFINE a == Max2(anchored[p], Meta.dur.txn)
<1>1. Attached(p)
      BY DEF Working, Attached
<1>2. SlotsOK /\ anchored[p] \in Nat /\ anchored[p] <= Meta.dur.txn
      BY <1>1, HolderHas
<1>3. Meta.dur.txn \in Nat
      BY <1>2, MetaSays
<1>4. /\ Kept /\ Meta' = Meta
      /\ \A e : e <= Meta.dur.txn => EpochKept(e)'
      BY <1>2, Settles
<1>5. a \in Nat /\ anchored[p] <= a /\ a <= Meta.dur.txn
  <2>1. a \in Nat /\ anchored[p] <= a /\ (a = anchored[p] \/ a = Meta.dur.txn)
        BY <1>2, <1>3, Later
  <2>2. Meta.dur.txn <= Meta.dur.txn
        BY SMTT(30), <1>3
  <2> QED BY <1>2, <2>1, <2>2
<1>6. EpochIn(Left', a)
      BY <1>4, <1>5 DEF EpochKept
<1>7. anchored' = [anchored EXCEPT ![p] = a]
      BY DEF MetaInv
<1> HIDE DEF a
<1> QED BY <1>4, <1>5, <1>6, <1>7, Works

\* What the transaction of a working handle is.
LEMMA TxOf ==
    ASSUME MetaInv, NEW p \in Procs
    PROVE  TxOK(p)
BY DEF MetaInv

\* Its transaction as it goes on.
LEMMA TxGoesOn ==
    ASSUME MetaInv, NEW p \in Procs, Meta' = Meta, tx' = tx,
           pc[p] \in Publishing, pc'[p] \in Publishing
    PROVE  TxOK(p)'
BY TxOf DEF TxOK, Publishing

\* GateAnchorAdvance, its fdatasync, steps 1 and 2 of a commit and step 2 of a
\* checkpoint.
LEMMA WorkSteps ==
    ASSUME MetaInv, NEW p \in Procs,
           GateAnchorAdvance(p) \/ GateSync(p) \/ Step1(p) \/ Step2(p) \/ Checkpoint2(p)
    PROVE  MetaInv' /\ Meta' = Meta
<1>1. SlotsOK
      BY DEF MetaInv
<1>2. CASE GateAnchorAdvance(p)
  <2>1. /\ pc[p] = "tx" /\ pc' = [pc EXCEPT ![p] = "gateSync"]
        /\ UNCHANGED <<locks, seqs, anchored, acked, crashes>>
        BY <1>2 DEF GateAnchorAdvance, rest, faults
  <2>2. Kept /\ Meta' = Meta
        BY <1>1, <1>2, Redirties DEF GateAnchorAdvance
  <2>3. "gateSync" \in Working /\ pc[p] \in Working
        BY <2>1 DEF Working
  <2>4. pc'[p] = "gateSync"
        BY <2>1, <2>3, Moves DEF Places
  <2>5. TxOK(p)'
        BY <2>4 DEF TxOK, Publishing
  <2> QED BY <2>1, <2>2, <2>3, <2>5, WorksOn
<1>3. CASE GateSync(p)
  <2>1. /\ pc[p] = "gateSync" /\ pc' = [pc EXCEPT ![p] = "tx"] /\ FdatasyncOK
        /\ anchored' = [anchored EXCEPT ![p] = Max2(@, Meta.dur.txn)]
        /\ UNCHANGED <<locks, seqs, acked, crashes>>
        BY <1>3 DEF GateSync, Barrier, rest, faults
  <2>2. "tx" \in Working /\ pc[p] \in Working
        BY <2>1 DEF Working
  <2>3. pc'[p] = "tx"
        BY <2>1, <2>2, Moves DEF Places
  <2>4. TxOK(p)'
        BY <2>3 DEF TxOK, Publishing
  <2> QED BY <2>1, <2>2, <2>4, SyncsOn
<1>4. CASE Step1(p)
  <2>1. PICK w : /\ w \in {"step2", "step3"} /\ pc[p] = "step1" /\ pc' = [pc EXCEPT ![p] = w]
                 /\ UNCHANGED <<locks, seqs, anchored, acked, crashes>> /\ tx' = tx
        BY <1>4 DEF Step1, rest, faults
  <2>2. Kept /\ Meta' = Meta
    <3>1. Pwrite(tx.writes)
          BY <1>4 DEF Step1
    <3>2. \A i \in Sides : Slot(i) \notin DOMAIN tx.writes
          BY <2>1, TxOf DEF TxOK, Publishing
    <3> QED BY <1>1, <3>1, <3>2, WritesElsewhere
  <2>3. w \in Working /\ pc[p] \in Working
        BY <2>1 DEF Working
  <2>4. pc'[p] = w
        BY <2>1, <2>3, Moves DEF Places
  <2>5. TxOK(p)'
        BY <2>1, <2>2, <2>4, TxGoesOn DEF Publishing
  <2> QED BY <2>1, <2>2, <2>3, <2>5, WorksOn
<1>5. CASE Step2(p)
  <2>1. /\ pc[p] = "step2" /\ pc' = [pc EXCEPT ![p] = "step3"] /\ FdatasyncOK
        /\ anchored' = [anchored EXCEPT ![p] = Max2(@, Meta.dur.txn)]
        /\ UNCHANGED <<locks, seqs, acked, crashes>> /\ tx' = tx
        BY <1>5 DEF Step2, Barrier, rest, faults
  <2>2. "step3" \in Working /\ pc[p] \in Working
        BY <2>1 DEF Working
  <2>3. pc'[p] = "step3" /\ Meta' = Meta
        BY <1>1, <2>1, <2>2, Moves, Settles DEF Places
  <2>4. TxOK(p)'
        BY <2>1, <2>3, TxGoesOn DEF Publishing
  <2> QED BY <2>1, <2>2, <2>4, SyncsOn
<1>6. CASE Checkpoint2(p)
  <2>1. /\ pc[p] = "check2" /\ pc' = [pc EXCEPT ![p] = "check3"] /\ FdatasyncOK
        /\ anchored' = [anchored EXCEPT ![p] = Max2(@, Meta.dur.txn)]
        /\ UNCHANGED <<locks, seqs, acked, crashes>>
        BY <1>6 DEF Checkpoint2, Barrier, rest, faults
  <2>2. "check3" \in Working /\ pc[p] \in Working
        BY <2>1 DEF Working
  <2>3. pc'[p] = "check3"
        BY <2>1, <2>2, Moves DEF Places
  <2>4. TxOK(p)'
        BY <2>3 DEF TxOK, Publishing
  <2> QED BY <2>1, <2>2, <2>4, SyncsOn
<1> QED BY <1>2, <1>3, <1>4, <1>5, <1>6

\* Step 3 of a commit: the meta goes to the other slot.
LEMMA Step3Step ==
    ASSUME MetaInv, NEW p \in Procs, Step3(p)
    PROVE  MetaInv' /\ Kept /\ Meta' = NewMeta(p)
<1>1. /\ pc[p] = "step3" /\ Pwrite(Block(Slot(1 - Active), NewMeta(p)))
      /\ UNCHANGED <<locks, seqs, anchored, tx, acked, crashes>>
      /\ pc' = [pc EXCEPT ![p] = IF tx.mode = "SyncBoth" THEN "step4" ELSE "finish"]
      BY DEF Step3, rest, faults
<1>2. PICK w : w = IF tx.mode = "SyncBoth" THEN "step4" ELSE "finish"
      OBVIOUS
<1>3. w \in {"step4", "finish"} /\ w \in Places /\ w \notin Resting /\ w \notin Working
      BY <1>2 DEF Places, Syncing, Resting, Working
<1>4. /\ pc' \in [Procs -> Places] /\ pc'[p] = w
      /\ \A q \in Procs : q # p => pc'[q] = pc[q]
      BY <1>1, <1>2, <1>3, Moves
<1>5. /\ SlotsOK /\ anchored[p] \in Nat /\ crashes \in Nat /\ holder = p
      /\ EpochKept(anchored[p]) /\ anchored[p] <= Meta.dur.txn
      BY <1>1, HolderHas DEF Attached, Resting
<1>6. /\ MetaOK(NewMeta(p)) /\ Meta.live.txn < NewMeta(p).live.txn
      /\ Meta.dur.txn <= NewMeta(p).dur.txn
      /\ Version(Meta.dur.tree) <= Version(NewMeta(p).dur.tree)
      /\ NewMeta(p).anch = anchored[p]
      /\ tx.mode = "SyncBoth" => NewMeta(p).dur.tree = tx.tree
  <2>1. /\ tx.view.txn = Meta.live.txn + 1 /\ Version(tx.tree) = tx.view.txn
        /\ \A x \in DOMAIN tx.tree : tx.tree[x] \in Nat /\ tx.tree[x] <= tx.view.txn
        BY <1>1, TxOf DEF TxOK, Publishing
  <2> QED BY <1>5, <2>1, CommitMeta
<1>7. Kept /\ Meta' = NewMeta(p)
  <2>1. 1 - Active \in Sides
        BY <1>5, MetaIs, TopFacts, TwoSides DEF SlotsOK
  <2>2. PICK s, m : s = 1 - Active /\ m = NewMeta(p)
        OBVIOUS
  <2> QED BY <1>1, <1>5, <1>6, <2>1, <2>2, Writes
<1>8. EpochIn(Left', anchored[p])
      BY <1>5, <1>7 DEF Kept, EpochKept
<1>9. EpochKept(Meta.anch)' /\ EpochKept(anchored[p])'
      BY <1>1, <1>6, <1>7, <1>8 DEF EpochKept
<1>10. HolderOK(p)'
       BY <1>1, <1>3, <1>4, <1>5 DEF HolderOK, locks
<1>11. TxOK(p)'
  <2>1. pc'[p] = "step4" => Meta'.dur.tree = tx'.tree
        BY <1>1, <1>2, <1>4, <1>6, <1>7
  <2>2. ~(pc'[p] = "finish" /\ tx'.mode = "SyncBoth")
        BY <1>1, <1>2, <1>4
  <2>3. pc'[p] \notin Publishing
        BY <1>3, <1>4 DEF Publishing
  <2> QED BY <2>1, <2>2, <2>3 DEF TxOK
<1>12. AnchorOK(p)'
       BY <1>1, <1>3, <1>4, <1>5, <1>9 DEF AnchorOK
<1>13. acked' \in Nat /\ VersionKept(acked)'
       BY <1>1, <1>7, Acks
<1>14. fresh' # {} => covered'
       BY <1>1 DEF MetaInv, seqs
<1>15. anchored' \in [Procs -> Nat]
       BY <1>1 DEF MetaInv
<1>16. MetaInv'
       BY <1>1, <1>4, <1>5, <1>7, <1>9, <1>10, <1>11, <1>12, <1>13, <1>14, <1>15, Carries
<1> QED BY <1>7, <1>16

\* Step 3 of a checkpoint: the meta is rewritten in place.
LEMMA Checkpoint3Step ==
    ASSUME MetaInv, NEW p \in Procs, Checkpoint3(p)
    PROVE  /\ MetaInv' /\ Kept
           /\ Meta' = Meta \/ Meta' = [Meta EXCEPT !.dur = Meta.live, !.anch = anchored[p]]
<1>1. /\ pc[p] = "check3" /\ pc' = [pc EXCEPT ![p] = "check4"]
      /\ UNCHANGED <<locks, seqs, anchored, tx, acked, crashes>>
      /\ Pwrite(IF SelfDurable(Meta) THEN <<>>
                ELSE Block(Slot(Active), [Meta EXCEPT !.dur = Meta.live, !.anch = anchored[p]]))
      BY DEF Checkpoint3, rest, faults
<1>2. "check4" \in Places
      BY DEF Places, Syncing
<1>3. /\ pc' \in [Procs -> Places] /\ pc'[p] = "check4"
      /\ \A q \in Procs : q # p => pc'[q] = pc[q]
      BY <1>1, <1>2, Moves
<1>4. /\ SlotsOK /\ anchored[p] \in Nat /\ crashes \in Nat /\ holder = p
      /\ EpochKept(anchored[p]) /\ anchored[p] <= Meta.dur.txn
      BY <1>1, HolderHas DEF Attached, Resting
<1>5. /\ Kept /\ SelfDurable(Meta)'
      /\ Settled' => EpochKept(Meta.anch)'
      /\ Meta' = Meta \/ Meta' = [Meta EXCEPT !.dur = Meta.live, !.anch = anchored[p]]
  <2>1. CASE SelfDurable(Meta)
    <3>1. PICK w : w = <<>> /\ Pwrite(w)
          BY <1>1, <2>1
    <3>2. DOMAIN w = {}
          BY SMTT(30), <3>1
    <3>3. Kept /\ Meta' = Meta
          BY <1>4, <3>1, <3>2, WritesElsewhere
    <3>4. Settled' => EpochKept(Meta.anch)'
          BY <1>1, <1>3, <3>3, Steady DEF seqs, locks
    <3> QED BY <2>1, <3>3, <3>4 DEF SelfDurable
  <2>2. CASE ~SelfDurable(Meta)
    <3>1. PICK m : m = [Meta EXCEPT !.dur = Meta.live, !.anch = anchored[p]]
          OBVIOUS
    <3>2. /\ MetaOK(m) /\ SelfDurable(m) /\ Meta.live.txn = m.live.txn
          /\ Meta.dur.txn <= m.dur.txn
          /\ Version(Meta.dur.tree) <= Version(m.dur.tree) /\ m.anch = anchored[p]
          BY <1>4, <3>1, CheckpointMeta
    <3>3. Active \in Sides
          BY <1>4, MetaIs, TopFacts DEF SlotsOK
    <3>4. PICK s : s = Active
          OBVIOUS
    <3>5. Pwrite(Block(Slot(s), m))
          BY <1>1, <2>2, <3>1, <3>4
    <3>6. Kept /\ Meta' = m
          BY <1>4, <3>2, <3>3, <3>4, <3>5, Writes
    <3>7. EpochKept(Meta.anch)'
          BY <1>4, <3>2, <3>6 DEF Kept, EpochKept
    <3> QED BY <3>1, <3>2, <3>6, <3>7 DEF SelfDurable
  <2> QED BY <2>1, <2>2
<1>6. HolderOK(p)'
      BY <1>1, <1>3, <1>4, <1>5 DEF HolderOK, locks, Resting, Working
<1>7. TxOK(p)'
      BY <1>3 DEF TxOK, Publishing
<1>8. AnchorOK(p)'
  <2>1. EpochKept(anchored[p])'
        BY <1>1, <1>4, <1>5 DEF Kept, EpochKept
  <2> QED BY <1>1, <1>3, <1>4, <2>1 DEF AnchorOK
<1>9. acked' \in Nat /\ VersionKept(acked)'
      BY <1>1, <1>5, Acks
<1>10. fresh' # {} => covered'
       BY <1>1 DEF MetaInv, seqs
<1>11. anchored' \in [Procs -> Nat]
       BY <1>1 DEF MetaInv
<1>12. MetaInv'
       BY <1>1, <1>3, <1>4, <1>5, <1>6, <1>7, <1>8, <1>9, <1>10, <1>11, Carries
<1> QED BY <1>5, <1>12

\* Step 4 of a commit: its meta is settled.
LEMMA Step4Step ==
    ASSUME MetaInv, NEW p \in Procs, Step4(p)
    PROVE  MetaInv' /\ Meta' = Meta
<1> DEFINE a == Max2(anchored[p], Meta.dur.txn)
<1>1. /\ pc[p] = "step4" /\ pc' = [pc EXCEPT ![p] = "finish"] /\ FdatasyncOK
      /\ anchored' = [anchored EXCEPT ![p] = Max2(@, Meta.dur.txn)]
      /\ UNCHANGED <<locks, seqs, tx, acked, crashes>>
      BY DEF Step4, Barrier, rest, faults
<1>2. "finish" \in Places
      BY DEF Places
<1>3. /\ pc' \in [Procs -> Places] /\ pc'[p] = "finish"
      /\ \A q \in Procs : q # p => pc'[q] = pc[q]
      BY <1>1, <1>2, Moves
<1>4. /\ SlotsOK /\ anchored[p] \in Nat /\ crashes \in Nat /\ holder = p
      /\ anchored[p] <= Meta.dur.txn
      BY <1>1, HolderHas DEF Attached, Resting
<1>5. Meta.dur.txn \in Nat /\ Version(Meta.dur.tree) \in Nat
      BY <1>4, MetaSays
<1>6. /\ Kept /\ Meta' = Meta
      /\ \A e : e <= Meta.dur.txn => EpochKept(e)'
      /\ \A v : v <= Version(Meta.dur.tree) => VersionKept(v)'
      BY <1>1, <1>4, Settles
<1>7. a \in Nat /\ a <= Meta.dur.txn
  <2>1. a \in Nat /\ (a = anchored[p] \/ a = Meta.dur.txn)
        BY <1>4, <1>5, Later
  <2>2. Meta.dur.txn <= Meta.dur.txn
        BY SMTT(30), <1>5
  <2> QED BY <1>4, <2>1, <2>2
<1>8. anchored' = [anchored EXCEPT ![p] = a]
      BY <1>1 DEF MetaInv
<1> HIDE DEF a
<1>9. /\ anchored' \in [Procs -> Nat] /\ anchored'[p] = a
      /\ \A q \in Procs : q # p => anchored'[q] = anchored[q]
      BY <1>7, <1>8, Anchors
<1>10. HolderOK(p)'
       BY <1>1, <1>3, <1>4 DEF HolderOK, locks, Working, Resting
<1>11. TxOK(p)'
  <2>1. Meta.dur.tree = tx.tree
        BY <1>1, TxOf DEF TxOK
  <2>2. Version(tx.tree) \in Nat /\ Version(tx.tree) <= Version(Meta.dur.tree)
    <3>1. Version(Meta.dur.tree) <= Version(Meta.dur.tree)
          BY SMTT(30), <1>5
    <3> QED BY <1>5, <2>1, <3>1
  <2>3. VersionKept(Version(tx.tree))' /\ Version(tx'.tree) \in Nat
        BY <1>1, <1>6, <2>2 DEF VersionKept
  <2> QED BY <1>3, <2>3 DEF TxOK, Publishing
<1>12. AnchorOK(p)'
       BY <1>3, <1>6, <1>7, <1>9 DEF AnchorOK, EpochKept
<1>13. Settled' => EpochKept(Meta.anch)'
       BY <1>1, <1>3, <1>6, Steady DEF seqs, locks
<1>14. acked' \in Nat /\ VersionKept(acked)'
       BY <1>1, <1>6, Acks
<1>15. fresh' # {} => covered'
       BY <1>1 DEF MetaInv, seqs
<1>16. MetaInv'
       BY <1>1, <1>3, <1>4, <1>6, <1>9, <1>10, <1>11, <1>12, <1>13, <1>14, <1>15, Carries
<1> QED BY <1>6, <1>16

\* The commit returns: what it acknowledges is kept.
LEMMA FinishStep ==
    ASSUME MetaInv, NEW p \in Procs, Finish(p)
    PROVE  MetaInv' /\ Meta' = Meta
<1>1. /\ pc[p] = "finish" /\ pc' = [pc EXCEPT ![p] = "idle"]
      /\ UNCHANGED <<seqs, anchored, crashes, deadHolder>>
      /\ acked' = IF tx.mode = "SyncBoth" THEN Version(tx.tree) ELSE acked
      BY DEF Finish, Release, faults
<1>2. PICK w : Pwrite(w) /\ \/ w = <<>>
                            \/ w = Over(Block(Length, tx.hwm),
                                        [b \in {Page(x) : x \in tx.hwm + 1 .. cache[Length]} |-> Blank])
      BY DEF Finish
<1>3. \A i \in Sides : Slot(i) \notin DOMAIN w
  <2>1. CASE w = <<>>
    <3>1. DOMAIN w = {}
          BY SMTT(30), <2>1
    <3> QED BY <3>1
  <2>2. CASE w # <<>>
    <3>1. \A b \in DOMAIN w : b = Length \/ \E x : b = Page(x)
          BY SMTT(30), <1>2, <2>2 DEF Over, Block
    <3> QED BY <3>1, SlotBlocks
  <2> QED BY <2>1, <2>2
<1>4. /\ SlotsOK /\ anchored[p] \in Nat /\ holder = p /\ EpochKept(anchored[p])
      BY <1>1, HolderHas DEF Attached, Resting
<1>5. Kept /\ Meta' = Meta
      BY <1>2, <1>3, <1>4, WritesElsewhere
<1>6. acked' \in Nat /\ VersionKept(acked)'
  <2>1. CASE tx.mode = "SyncBoth"
    <3>1. Version(tx.tree) \in Nat /\ VersionKept(Version(tx.tree))
          BY <1>1, <2>1, TxOf DEF TxOK
    <3> QED BY <1>1, <1>5, <2>1, <3>1 DEF Kept, VersionKept
  <2>2. CASE tx.mode # "SyncBoth"
        BY <1>1, <1>5, <2>2, Acks
  <2> QED BY <2>1, <2>2
<1>7. "idle" \in Resting /\ "idle" \in Places
      BY DEF Resting, Places
<1>8. Settled' => EpochKept(Meta.anch)'
  <2>1. \A q \in Procs : q # p => pc'[q] = pc[q]
        BY <1>1, <1>7, Moves
  <2> QED BY <1>1, <1>5, <2>1, Steady DEF seqs
<1>9. fresh' # {} => covered'
      BY <1>1 DEF MetaInv, seqs
<1>10. EpochIn(Left', anchored[p])
       BY <1>4, <1>5 DEF Kept, EpochKept
<1>11. anchored' = [anchored EXCEPT ![p] = anchored[p]]
       BY <1>1, SameAnchor
<1>12. MetaInv'
       BY <1>1, <1>4, <1>5, <1>6, <1>7, <1>8, <1>9, <1>10, <1>11, Returns
<1> QED BY <1>5, <1>12

\* A rollback, and an Open that needed no barrier, return.
LEMMA RollbackOpenedStep ==
    ASSUME MetaInv, NEW p \in Procs, Rollback(p) \/ Opened(p)
    PROVE  MetaInv' /\ Meta' = Meta
<1>1. /\ pc[p] \in {"tx", "opened"} /\ pc' = [pc EXCEPT ![p] = "idle"]
      /\ UNCHANGED <<disk, covered, anchored, acked, crashes, deadHolder>>
      BY DEF Rollback, Opened, Release, rest, seqs, faults
<1>2. SlotsOK /\ anchored[p] \in Nat /\ holder = p /\ EpochKept(anchored[p])
      BY <1>1, HolderHas DEF Attached, Resting
<1>3. Kept /\ Meta' = Meta
      BY <1>1, <1>2, DiskUntouched
<1>4. acked' \in Nat /\ VersionKept(acked)'
      BY <1>1, <1>3, Acks
<1>5. "idle" \in Resting /\ "idle" \in Places
      BY DEF Resting, Places
<1>6. Settled' => EpochKept(Meta.anch)'
  <2>1. \A q \in Procs : q # p => pc'[q] = pc[q]
        BY <1>1, <1>5, Moves
  <2> QED BY <1>1, <1>3, <2>1, Steady
<1>7. fresh' # {} => covered'
  <2>1. CASE Rollback(p)
        BY <2>1 DEF Rollback, seqs, MetaInv
  <2>2. CASE Opened(p)
        BY SMTT(30), <1>1, <2>2 DEF Opened, MetaInv, HolderOK
  <2> QED BY <2>1, <2>2
<1>8. EpochIn(Left', anchored[p])
      BY <1>2, <1>3 DEF Kept, EpochKept
<1>9. anchored' = [anchored EXCEPT ![p] = anchored[p]]
      BY <1>1, SameAnchor
<1>10. MetaInv'
       BY <1>1, <1>2, <1>3, <1>4, <1>5, <1>6, <1>7, <1>8, <1>9, Returns
<1> QED BY <1>3, <1>10

\* The barrier of a recovery: the anchor it wrote is settled.
LEMMA RecoverSyncStep ==
    ASSUME MetaInv, NEW p \in Procs, RecoverSync(p)
    PROVE  MetaInv' /\ Meta' = Meta
<1>1. /\ pc[p] = "recoverSync" /\ pc' = [pc EXCEPT ![p] = "idle"] /\ FdatasyncOK
      /\ anchored' = [anchored EXCEPT ![p] = Meta.dur.txn] /\ covered' = TRUE
      /\ UNCHANGED <<acked, crashes>>
      BY DEF RecoverSync, Barrier, faults
<1>2. SlotsOK /\ holder = p
      BY <1>1, HolderHas DEF Resting
<1>3. Meta.dur.txn \in Nat /\ Meta.anch <= Meta.dur.txn /\ Meta.dur.txn <= Meta.dur.txn
  <2>1. Meta.dur.txn \in Nat /\ Meta.anch <= Meta.dur.txn
        BY <1>2, MetaSays
  <2>2. Meta.dur.txn <= Meta.dur.txn
        BY SMTT(30), <2>1
  <2> QED BY <2>1, <2>2
<1>4. Kept /\ Meta' = Meta /\ \A e : e <= Meta.dur.txn => EpochKept(e)'
      BY <1>1, <1>2, Settles
<1>5. EpochIn(Left', Meta.dur.txn) /\ EpochKept(Meta.anch)'
      BY <1>3, <1>4 DEF EpochKept
<1>6. acked' \in Nat /\ VersionKept(acked)'
      BY <1>1, <1>4, Acks
<1>7. "idle" \in Resting
      BY DEF Resting
<1>8. MetaInv'
      BY <1>1, <1>2, <1>3, <1>4, <1>5, <1>6, <1>7, Returns
<1> QED BY <1>4, <1>8

\* The checkpoint returns: what it acknowledges is kept.
LEMMA Checkpoint4Step ==
    ASSUME MetaInv, NEW p \in Procs, Checkpoint4(p)
    PROVE  MetaInv' /\ Meta' = Meta
<1> DEFINE a == Max2(anchored[p], Meta.live.txn)
<1>1. /\ pc[p] = "check4" /\ FdatasyncOK
      /\ anchored' = [anchored EXCEPT ![p] = Max2(@, Meta.live.txn)]
      /\ acked' = Version(Meta.live.tree)
      /\ UNCHANGED <<seqs, crashes, deadHolder>>
      BY DEF Checkpoint4, Barrier, faults, Release
<1>2. PICK w \in {"closed", "idle"} : pc' = [pc EXCEPT ![p] = w]
      BY DEF Checkpoint4
<1>3. SlotsOK /\ holder = p /\ anchored[p] \in Nat /\ anchored[p] <= Meta.dur.txn
      BY <1>1, HolderHas DEF Attached, Resting
<1>4. SelfDurable(Meta)
      BY <1>1 DEF MetaInv, HolderOK
<1>5. MetaOK(Meta) /\ Meta.dur.txn \in Nat /\ Version(Meta.dur.tree) \in Nat
      BY <1>3, MetaSays
<1>6. Meta.dur.txn = Meta.live.txn /\ Meta.dur.tree = Meta.live.tree
      BY <1>4, <1>5 DEF MetaOK, SelfDurable
<1>7. /\ Kept /\ Meta' = Meta /\ \A e : e <= Meta.dur.txn => EpochKept(e)'
      /\ \A v : v <= Version(Meta.dur.tree) => VersionKept(v)'
      BY <1>1, <1>3, Settles
<1>8. Meta.dur.txn <= Meta.dur.txn /\ Version(Meta.dur.tree) <= Version(Meta.dur.tree)
      BY SMTT(30), <1>5
<1>9. a \in Nat /\ a <= Meta.dur.txn
  <2>1. a \in Nat /\ (a = anchored[p] \/ a = Meta.live.txn)
        BY <1>3, <1>5, <1>6, Later
  <2> QED BY <1>3, <1>6, <1>8, <2>1
<1>10. EpochIn(Left', a)
       BY <1>7, <1>9 DEF EpochKept
<1>11. anchored' = [anchored EXCEPT ![p] = a]
       BY <1>1 DEF MetaInv
<1> HIDE DEF a
<1>12. acked' \in Nat /\ VersionKept(acked)'
       BY <1>1, <1>5, <1>6, <1>7, <1>8 DEF VersionKept
<1>13. w \in Resting /\ w \in Places
       BY <1>2 DEF Resting, Places
<1>14. Settled' => EpochKept(Meta.anch)'
  <2>1. \A q \in Procs : q # p => pc'[q] = pc[q]
        BY <1>2, <1>13, Moves
  <2> QED BY <1>1, <1>7, <2>1, Steady DEF seqs
<1>15. fresh' # {} => covered'
       BY <1>1 DEF MetaInv, seqs
<1>16. MetaInv'
       BY <1>1, <1>2, <1>3, <1>7, <1>9, <1>10, <1>11, <1>12, <1>13, <1>14, <1>15, Returns
<1> QED BY <1>7, <1>16

\* Part of step 1 leaves the slots alone.
LEMMA Step1PartlyKeeps ==
    ASSUME MetaInv, NEW p \in Procs, pc[p] = "step1", Step1Partly
    PROVE  Kept /\ Meta' = Meta
<1>1. PICK done \in SUBSET DOMAIN tx.writes : Pwrite([b \in done |-> tx.writes[b]])
      BY DEF Step1Partly
<1>2. \A i \in Sides : Slot(i) \notin DOMAIN tx.writes
      BY TxOf DEF TxOK, Publishing
<1>3. PICK w : w = [b \in done |-> tx.writes[b]]
      OBVIOUS
<1>4. \A i \in Sides : Slot(i) \notin DOMAIN w
      BY <1>2, <1>3
<1> QED BY <1>1, <1>3, <1>4, WritesElsewhere DEF MetaInv

\* A pwrite of the publication phase fails: the handle is poisoned.
LEMMA WriteFailsStep ==
    ASSUME MetaInv, NEW p \in Procs, WriteFails(p)
    PROVE  MetaInv' /\ Meta' = Meta
<1>1. /\ pc[p] \in {"step1", "step3", "check3"} /\ covered' = FALSE /\ fresh' = {}
      /\ anchored' = anchored /\ acked' = acked /\ crashes' = crashes
      BY DEF WriteFails, Poison, rest, CountFailure
<1>2. PICK w \in {"closed", "poisoned"} : pc' = [pc EXCEPT ![p] = w]
      BY DEF WriteFails, Poison
<1>3. SlotsOK /\ holder = p /\ anchored[p] \in Nat /\ EpochKept(anchored[p])
      BY <1>1, HolderHas DEF Attached, Resting
<1>4. Kept /\ Meta' = Meta
      BY <1>3, DiskUntouched, Step1PartlyKeeps DEF WriteFails
<1>5. acked' \in Nat /\ VersionKept(acked)'
      BY <1>1, <1>4, Acks
<1>6. EpochIn(Left', anchored[p])
      BY <1>3, <1>4 DEF Kept, EpochKept
<1>7. anchored' = [anchored EXCEPT ![p] = anchored[p]]
      BY <1>1, SameAnchor
<1>8. w \in Resting /\ ~Settled'
      BY <1>1, <1>2 DEF Resting, Settled
<1>9. MetaInv'
      BY <1>1, <1>2, <1>3, <1>4, <1>5, <1>6, <1>7, <1>8, Returns
<1> QED BY <1>4, <1>9

-----------------------------------------------------------------------------
(* Taking the grant. *)

\* What attachState writes back, and what is redirtied, are bits and pages.
LEMMA AttachWrites ==
    ASSUME NEW s, NEW e, NEW i \in Sides
    PROVE  /\ Slot(i) \notin DOMAIN Attach(s, e).writes
           /\ Slot(i) \notin DOMAIN Over(Attach(s, e).writes, Redirty(BitBlocks))
           /\ Slot(i) \notin DOMAIN Over(Attach(s, e).writes, Redirty(AttachedExtent))
<1>1. PICK bits : DOMAIN Attach(s, e).writes = {Bit(x) : x \in bits}
      BY DEF Attach
<1>2. Slot(i) \notin DOMAIN Attach(s, e).writes
      BY <1>1, SlotBlocks
<1>3. Slot(i) \notin BitBlocks /\ Slot(i) \notin AttachedExtent
      BY SlotBlocks DEF AttachedExtent
<1> QED BY <1>2, <1>3 DEF Over, Redirty

\* Whoever takes the grant and finds the lineage covered can rely on the anchor
\* in the meta.
LEMMA Takes ==
    ASSUME MetaInv, Kept, Meta' = Meta, holder = None
    PROVE  /\ Covered => EpochKept(Meta.anch)
           /\ Covered => EpochKept(Meta.anch)'
<1>1. ASSUME NEW q \in Procs PROVE pc[q] # "recoverSync"
  <2>1. pc[q] \notin Resting => holder = q
        BY DEF MetaInv, HolderOK
  <2>2. q # None
        BY BoundsAssumption
  <2>3. pc[q] \in Resting
        BY <2>1, <2>2
  <2> QED BY <2>3 DEF Resting
<1>2. Covered => EpochKept(Meta.anch)
      BY <1>1 DEF Covered, MetaInv, Settled
<1>3. Meta.anch \in Nat
      BY MetaSays DEF MetaInv
<1> QED BY <1>2, <1>3 DEF Kept, EpochKept

\* The gated arm of Open attaches.
LEMMA OpenGatedStep ==
    ASSUME MetaInv, NEW p \in Procs, OpenGated(p)
    PROVE  MetaInv' /\ Meta' = Meta
<1>1. /\ pc' = [pc EXCEPT ![p] = "recoverMeta"] /\ holder = None /\ holder' = p
      /\ anchored' = [anchored EXCEPT ![p] = Meta.anch] /\ covered' = Covered
      /\ fresh' = (IF deadHolder THEN {} ELSE fresh)
      /\ acked' = acked /\ crashes' = crashes
      BY DEF OpenGated, Acquire, rest, faults
<1>2. SlotsOK /\ crashes \in Nat
      BY DEF MetaInv
<1>3. Kept /\ Meta' = Meta
  <2>1. PICK w : w = Over(Attach(Meta.dur, Meta.dur.txn).writes, Redirty(BitBlocks)) /\ Pwrite(w)
        BY DEF OpenGated
  <2>2. \A i \in Sides : Slot(i) \notin DOMAIN w
        BY <2>1, AttachWrites
  <2> QED BY <1>2, <2>1, <2>2, WritesElsewhere
<1>4. "recoverMeta" \in Places
      BY DEF Places
<1>5. /\ pc' \in [Procs -> Places] /\ pc'[p] = "recoverMeta"
      /\ \A q \in Procs : q # p => pc'[q] = pc[q]
      BY <1>1, <1>4, Moves
<1>6. Meta.anch \in Nat /\ Meta.anch <= Meta.dur.txn
      BY <1>2, MetaSays
<1>7. /\ anchored' \in [Procs -> Nat] /\ anchored'[p] = Meta.anch
      /\ \A q \in Procs : q # p => anchored'[q] = anchored[q]
      BY <1>1, <1>6, Anchors
<1>8. HolderOK(p)'
      BY <1>1, <1>5 DEF HolderOK, Working
<1>9. TxOK(p)'
      BY <1>5 DEF TxOK, Publishing
<1>10. AnchorOK(p)'
       BY <1>3, <1>5, <1>6, <1>7 DEF AnchorOK, Attached
<1>11. Settled' => EpochKept(Meta.anch)'
  <2>1. Settled' => Covered
        BY <1>1 DEF Settled
  <2> QED BY <1>1, <1>3, <2>1, Takes
<1>12. fresh' # {} => covered'
       BY <1>1 DEF MetaInv, Covered
<1>13. acked' \in Nat /\ VersionKept(acked)'
       BY <1>1, <1>3, Acks
<1>14. MetaInv'
       BY <1>1, <1>2, <1>3, <1>5, <1>7, <1>8, <1>9, <1>10, <1>11, <1>12, <1>13, Carries
<1> QED BY <1>3, <1>14

\* The ungated arm of Open attaches.
LEMMA OpenLiveStep ==
    ASSUME MetaInv, NEW p \in Procs, OpenLive(p)
    PROVE  MetaInv' /\ Meta' = Meta
<1> DEFINE w == IF Covered THEN "opened" ELSE "cover"
<1>1. /\ pc' = [pc EXCEPT ![p] = w] /\ holder = None /\ holder' = p /\ job' = "open"
      /\ anchored' = [anchored EXCEPT ![p] = Meta.anch] /\ covered' = Covered
      /\ fresh' = (IF deadHolder THEN {} ELSE fresh)
      /\ acked' = acked /\ crashes' = crashes
      BY DEF OpenLive, Acquire, rest, faults
<1>2. SlotsOK /\ crashes \in Nat
      BY DEF MetaInv
<1>3. Kept /\ Meta' = Meta
  <2>1. PICK ws : Pwrite(ws) /\ \/ ws = Attach(Meta.live, Meta.dur.txn).writes
                                \/ ws = Over(Attach(Meta.live, Meta.dur.txn).writes, Redirty(AttachedExtent))
        BY DEF OpenLive
  <2>2. \A i \in Sides : Slot(i) \notin DOMAIN ws
        BY <2>1, AttachWrites
  <2> QED BY <1>2, <2>1, <2>2, WritesElsewhere
<1>4. w \in Places
      BY DEF Places, Syncing
<1>5. /\ pc' \in [Procs -> Places] /\ pc'[p] = w
      /\ \A q \in Procs : q # p => pc'[q] = pc[q]
  <2> HIDE DEF w
  <2> QED BY <1>1, <1>4, Moves
<1>6. Meta.anch \in Nat /\ Meta.anch <= Meta.dur.txn
      BY <1>2, MetaSays
<1>7. /\ anchored' \in [Procs -> Nat] /\ anchored'[p] = Meta.anch
      /\ \A q \in Procs : q # p => anchored'[q] = anchored[q]
      BY <1>1, <1>6, Anchors
<1>8. HolderOK(p)'
      BY <1>1, <1>5 DEF HolderOK, Working
<1>9. TxOK(p)'
      BY <1>5 DEF TxOK, Publishing
<1>10. AnchorOK(p)'
  <2>1. CASE Covered
    <3>1. pc'[p] = "opened" /\ EpochKept(Meta.anch)'
          BY <1>1, <1>3, <1>5, <2>1, Takes
    <3>2. EpochKept(anchored[p])'
          BY <1>3, <1>7, <3>1 DEF EpochKept
    <3> QED BY <1>6, <1>7, <3>1, <3>2 DEF AnchorOK
  <2>2. CASE ~Covered
    <3>1. pc'[p] = "cover"
          BY <1>5, <2>2
    <3> QED BY <1>3, <1>6, <1>7, <3>1 DEF AnchorOK, Attached
  <2> QED BY <2>1, <2>2
<1>11. Settled' => EpochKept(Meta.anch)'
  <2>1. Settled' => Covered
        BY <1>1 DEF Settled
  <2> QED BY <1>1, <1>3, <2>1, Takes
<1>12. fresh' # {} => covered'
       BY <1>1 DEF MetaInv, Covered
<1>13. acked' \in Nat /\ VersionKept(acked)'
       BY <1>1, <1>3, Acks
<1> HIDE DEF w
<1>14. MetaInv'
       BY <1>1, <1>2, <1>3, <1>5, <1>7, <1>8, <1>9, <1>10, <1>11, <1>12, <1>13, Carries
<1> QED BY <1>3, <1>14

\* A grant for a transaction, a checkpoint or a close: the handle's anchored
\* epoch and the one in the meta both count, or the cover comes first.
LEMMA BeginStep ==
    ASSUME MetaInv, NEW p \in Procs, NEW for \in {"tx", "checkpoint", "close"}, Begin(p, for)
    PROVE  MetaInv' /\ Meta' = Meta
<1> DEFINE redirty == ~Fresh(p) /\ ~Covered
           w == IF redirty THEN "cover" ELSE IF for = "tx" THEN "tx" ELSE "check2"
           a == Max2(anchored[p], Meta.anch)
<1>1. /\ pc[p] = "idle" /\ pc' = [pc EXCEPT ![p] = w]
      /\ holder = None /\ holder' = p /\ job' = for
      /\ anchored' = [anchored EXCEPT ![p] = Max2(@, Meta.anch)] /\ covered' = Covered
      /\ acked' = acked /\ crashes' = crashes
      BY DEF Begin, Acquire, rest, faults
<1>2. /\ SlotsOK /\ crashes \in Nat /\ anchored[p] \in Nat
      /\ EpochKept(anchored[p]) /\ anchored[p] <= Meta.dur.txn
      BY <1>1, HolderHas DEF Attached
<1>3. Kept /\ Meta' = Meta
  <2>1. PICK ws : Pwrite(ws) /\ \/ ws = Attach(Meta.live, Meta.dur.txn).writes
                                \/ ws = Over(Attach(Meta.live, Meta.dur.txn).writes, Redirty(AttachedExtent))
                                \/ ws = <<>>
        BY DEF Begin
  <2>2. \A i \in Sides : Slot(i) \notin DOMAIN <<>>
        BY SMTT(30)
  <2>3. \A i \in Sides : Slot(i) \notin DOMAIN ws
        BY <2>1, <2>2, AttachWrites
  <2> QED BY <1>2, <2>1, <2>3, WritesElsewhere
<1>4. w \in Places /\ w \in {"cover", "tx", "check2"}
      BY DEF Places, Working, Syncing
<1>5. redirty <=> ~Covered
      BY DEF Fresh, Covered, MetaInv
<1>6. pc'[p] = w /\ (w = "cover" <=> ~Covered)
  <2>1. w = "cover" <=> ~Covered
        BY <1>5
  <2> HIDE DEF w
  <2> QED BY <1>1, <1>4, <2>1, Moves
<1>7. fresh' # {} => covered'
  <2>1. fresh' = LET known == IF deadHolder THEN {} ELSE fresh
                 IN IF redirty THEN known ELSE known \cup {p}
        BY DEF Begin
  <2>2. CASE redirty
        BY <1>1, <2>1, <2>2 DEF MetaInv, Covered
  <2>3. CASE ~redirty
        BY <1>1, <1>5, <2>3
  <2> QED BY <2>2, <2>3
<1> HIDE DEF w, redirty
<1>8. /\ pc' \in [Procs -> Places]
      /\ \A q \in Procs : q # p => pc'[q] = pc[q]
      BY <1>1, <1>4, Moves
<1>9. Meta.anch \in Nat /\ Meta.anch <= Meta.dur.txn
      BY <1>2, MetaSays
<1>10. a \in Nat /\ Meta.anch <= a /\ a <= Meta.dur.txn /\ (a = anchored[p] \/ a = Meta.anch)
  <2>1. a \in Nat /\ Meta.anch <= a /\ (a = anchored[p] \/ a = Meta.anch)
        BY <1>2, <1>9, Later
  <2> QED BY <1>2, <1>9, <2>1
<1>11. anchored' = [anchored EXCEPT ![p] = a]
       BY <1>1 DEF MetaInv
<1> HIDE DEF a
<1>12. /\ anchored' \in [Procs -> Nat] /\ anchored'[p] = a
       /\ \A q \in Procs : q # p => anchored'[q] = anchored[q]
       BY <1>10, <1>11, Anchors
<1>13. HolderOK(p)'
  <2>1. Meta'.anch <= anchored'[p] /\ job' \in {"open", "tx", "checkpoint", "close"}
        BY <1>1, <1>3, <1>10, <1>12
  <2> QED BY <1>1, <1>4, <1>6, <2>1 DEF HolderOK
<1>14. TxOK(p)'
       BY <1>4, <1>6 DEF TxOK, Publishing
<1>15. AnchorOK(p)'
  <2>1. CASE Covered
    <3>1. EpochKept(Meta.anch)
          BY <1>1, <1>3, <2>1, Takes
    <3>2. EpochKept(a)
          BY <1>2, <1>10, <3>1
    <3>3. EpochKept(anchored[p])'
          BY <1>3, <1>10, <1>12, <3>2 DEF Kept, EpochKept
    <3>4. pc'[p] \in {"tx", "check2"}
          BY <1>4, <1>6, <2>1
    <3> QED BY <1>10, <1>12, <3>3, <3>4 DEF AnchorOK
  <2>2. CASE ~Covered
    <3>1. pc'[p] = "cover"
          BY <1>6, <2>2
    <3> QED BY <1>3, <1>10, <1>12, <3>1 DEF AnchorOK, Attached
  <2> QED BY <2>1, <2>2
<1>16. Settled' => EpochKept(Meta.anch)'
  <2>1. Settled' => Covered
        BY <1>1 DEF Settled
  <2> QED BY <1>1, <1>3, <2>1, Takes
<1>17. acked' \in Nat /\ VersionKept(acked)'
       BY <1>1, <1>3, Acks
<1>18. MetaInv'
       BY <1>1, <1>2, <1>3, <1>7, <1>8, <1>12, <1>13, <1>14, <1>15, <1>16, <1>17, Carries
<1> QED BY <1>3, <1>18

\* The barrier of a cover: the anchored epoch is settled.
LEMMA CoverSyncStep ==
    ASSUME MetaInv, NEW p \in Procs, CoverSync(p)
    PROVE  MetaInv' /\ Meta' = Meta
<1>1. /\ pc[p] = "cover" /\ FdatasyncOK /\ covered' = TRUE
      /\ UNCHANGED <<locks, anchored, acked, crashes>>
      BY DEF CoverSync, Barrier, rest, faults
<1>2. PICK w : /\ pc' = [pc EXCEPT ![p] = w]
               /\ w = CASE job = "open" -> "opened" [] job = "tx" -> "tx" [] OTHER -> "check2"
      BY DEF CoverSync
<1>3. w \in {"opened", "tx", "check2"} /\ (w = "opened" \/ job # "open")
      BY <1>2
<1>4. w \in Places
      BY <1>3 DEF Places, Working
<1>5. /\ pc' \in [Procs -> Places] /\ pc'[p] = w
      /\ \A q \in Procs : q # p => pc'[q] = pc[q]
      BY <1>2, <1>4, Moves
<1>6. /\ SlotsOK /\ crashes \in Nat /\ anchored[p] \in Nat /\ holder = p
      BY <1>1, HolderHas DEF Resting
<1>7. anchored[p] <= Meta.dur.txn /\ (job # "open" => Meta.anch <= anchored[p])
      BY <1>1 DEF MetaInv, AnchorOK, HolderOK
<1>8. Kept /\ Meta' = Meta /\ \A e : e <= Meta.dur.txn => EpochKept(e)'
      BY <1>1, <1>6, Settles
<1>9. HolderOK(p)'
  <2>1. holder' = p /\ covered'
        BY <1>1, <1>6 DEF locks
  <2>2. pc'[p] \in Working => Meta'.anch <= anchored'[p]
        BY <1>1, <1>3, <1>5, <1>7, <1>8 DEF Working
  <2>3. pc'[p] \notin {"cover", "check4"}
        BY <1>3, <1>5
  <2> QED BY <2>1, <2>2, <2>3 DEF HolderOK
<1>10. TxOK(p)'
       BY <1>3, <1>5 DEF TxOK, Publishing
<1>11. AnchorOK(p)'
       BY <1>1, <1>3, <1>5, <1>6, <1>7, <1>8 DEF AnchorOK, EpochKept
<1>12. EpochKept(Meta.anch)'
  <2>1. Meta.anch <= Meta.dur.txn
        BY <1>6, MetaSays
  <2> QED BY <1>8, <2>1 DEF EpochKept
<1>13. acked' \in Nat /\ VersionKept(acked)'
       BY <1>1, <1>8, Acks
<1>14. anchored' \in [Procs -> Nat]
       BY <1>1 DEF MetaInv
<1>15. MetaInv'
       BY <1>1, <1>5, <1>6, <1>8, <1>9, <1>10, <1>11, <1>12, <1>13, <1>14, Carries
<1> QED BY <1>8, <1>15

\* The recovery rewrites its meta, or publishes the durable tree anew.
LEMMA RecoverMetaStep ==
    ASSUME MetaInv, NEW p \in Procs, RecoverMeta(p)
    PROVE  /\ MetaInv'
           /\ \/ Meta' = Meta
              \/ \E live : /\ live = [Meta.dur EXCEPT !.txn = Meta.live.txn + 1]
                           /\ Meta' = [live |-> live, dur |-> live, anch |-> Meta.dur.txn]
<1>1. /\ pc[p] = "recoverMeta" /\ pc' = [pc EXCEPT ![p] = "recoverSync"]
      /\ UNCHANGED <<locks, seqs, anchored, acked, crashes>>
      BY DEF RecoverMeta, rest, faults
<1>2. "recoverSync" \in Places
      BY DEF Places, Syncing
<1>3. /\ pc' \in [Procs -> Places] /\ pc'[p] = "recoverSync"
      /\ \A q \in Procs : q # p => pc'[q] = pc[q]
      BY <1>1, <1>2, Moves
<1>4. SlotsOK /\ crashes \in Nat /\ anchored[p] \in Nat /\ holder = p
      BY <1>1, HolderHas DEF Resting
<1>5. anchored[p] <= Meta.dur.txn /\ Meta.dur.txn \in Nat
  <2>1. anchored[p] <= Meta.dur.txn
        BY <1>1 DEF MetaInv, AnchorOK
  <2> QED BY <1>4, <2>1, MetaSays
<1>6. /\ Kept /\ anchored[p] <= Meta'.dur.txn
      /\ \/ Meta' = Meta
         \/ \E live : /\ live = [Meta.dur EXCEPT !.txn = Meta.live.txn + 1]
                      /\ Meta' = [live |-> live, dur |-> live, anch |-> Meta.dur.txn]
  <2>1. CASE SelfDurable(Meta)
    <3>1. Pwrite(Redirty({Slot(Active)}))
          BY <2>1 DEF RecoverMeta
    <3>2. Kept /\ Meta' = Meta
          BY <1>4, <3>1, Redirties
    <3> QED BY <1>5, <3>2
  <2>2. CASE ~SelfDurable(Meta)
    <3>1. PICK live : live = [Meta.dur EXCEPT !.txn = Meta.live.txn + 1]
          OBVIOUS
    <3>2. PICK m : m = [live |-> live, dur |-> live, anch |-> Meta.dur.txn]
          OBVIOUS
    <3>3. PICK s : s = 1 - Active
          OBVIOUS
    <3>4. Pwrite(Block(Slot(s), m))
          BY <2>2, <3>1, <3>2, <3>3 DEF RecoverMeta
    <3>5. /\ MetaOK(m) /\ Meta.live.txn < m.live.txn /\ Meta.dur.txn <= m.dur.txn
          /\ Version(Meta.dur.tree) <= Version(m.dur.tree)
          BY <1>4, <3>1, <3>2, RecoveryMeta
    <3>6. s \in Sides
          BY <1>4, <3>3, MetaIs, TopFacts, TwoSides DEF SlotsOK
    <3>7. Kept /\ Meta' = m
          BY <1>4, <3>3, <3>4, <3>5, <3>6, Writes
    <3>8. anchored[p] <= m.dur.txn
      <4>1. m.dur.txn \in Nat
            BY <3>5, MetaNumbers
      <4> QED BY SMTT(30), <1>4, <1>5, <3>5, <4>1
    <3> QED BY <3>1, <3>2, <3>7, <3>8
  <2> QED BY <2>1, <2>2
<1>7. HolderOK(p)'
      BY <1>1, <1>3, <1>4 DEF HolderOK, locks, Working
<1>8. TxOK(p)'
      BY <1>3 DEF TxOK, Publishing
<1>9. AnchorOK(p)'
      BY <1>1, <1>3, <1>4, <1>6 DEF AnchorOK, Attached
<1>10. ~Settled'
       BY <1>3 DEF Settled
<1>11. acked' \in Nat /\ VersionKept(acked)'
       BY <1>1, <1>6, Acks
<1>12. fresh' # {} => covered'
       BY <1>1 DEF MetaInv, seqs
<1>13. anchored' \in [Procs -> Nat]
       BY <1>1 DEF MetaInv
<1>14. MetaInv'
       BY <1>1, <1>3, <1>4, <1>6, <1>7, <1>8, <1>9, <1>10, <1>11, <1>12, <1>13, Carries
<1> QED BY <1>6, <1>14

-----------------------------------------------------------------------------
(* Deaths, power losses and the rest. *)

\* A step of another handle, which leaves the slots, the grant and this handle
\* alone.
LEMMA Bystander ==
    ASSUME MetaInv, Kept, Meta' = Meta, NEW q \in Procs, pc'[q] = pc[q],
           anchored'[q] = anchored[q], UNCHANGED <<holder, job, tx, covered>>
    PROVE  HolderOK(q)' /\ TxOK(q)' /\ AnchorOK(q)'
<1>1. /\ pc'[q] = pc[q] /\ anchored'[q] = anchored[q] /\ holder' = holder /\ job' = job
      /\ tx' = tx /\ covered' = covered /\ Meta' = Meta
      OBVIOUS
<1>2. HolderOK(q) /\ TxOK(q) /\ AnchorOK(q) /\ anchored[q] \in Nat
      BY DEF MetaInv
<1>3. HolderOK(q)'
      BY SMTT(30), <1>1, <1>2 DEF HolderOK, SelfDurable
<1>4. TxOK(q)'
  <2>1. /\ pc[q] \in Publishing =>
               /\ tx.view.txn = Meta'.live.txn + 1 /\ Version(tx.tree) = tx.view.txn
               /\ \A x \in DOMAIN tx.tree : tx.tree[x] \in Nat /\ tx.tree[x] <= tx.view.txn
               /\ \A i \in Sides : Slot(i) \notin DOMAIN tx.writes
        /\ pc[q] = "step4" => Meta'.dur.tree = tx.tree
        BY <1>1, <1>2 DEF TxOK
  <2>2. pc[q] = "finish" /\ tx.mode = "SyncBoth" =>
            Version(tx.tree) \in Nat /\ VersionIn(Left', Version(tx.tree))
        BY <1>2 DEF TxOK, Kept, VersionKept
  <2> QED BY <1>1, <2>1, <2>2 DEF TxOK, VersionKept
<1>5. AnchorOK(q)'
  <2>1. Attached(q) => EpochIn(Left', anchored[q])
        BY <1>2 DEF AnchorOK, Kept, EpochKept
  <2>2. Attached(q)' <=> Attached(q)
        BY <1>1 DEF Attached
  <2> QED BY <1>1, <1>2, <2>1, <2>2 DEF AnchorOK, EpochKept
<1> QED BY <1>3, <1>4, <1>5

\* A process dies.  If it had the grant, whoever takes over covers first.
LEMMA KillStep ==
    ASSUME MetaInv, NEW p \in Procs, Kill(p)
    PROVE  MetaInv' /\ Meta' = Meta
<1>1. /\ pc' = [pc EXCEPT ![p] = "closed"] /\ anchored' = [anchored EXCEPT ![p] = 0]
      /\ fresh' = fresh \ {p} /\ UNCHANGED <<covered, acked, crashes>>
      /\ IF holder = p THEN deadHolder' = TRUE
         ELSE UNCHANGED <<holder, job, tx, deadHolder>>
      BY DEF Kill, rest
<1>2. Kept /\ Meta' = Meta
  <2>1. SlotsOK
        BY DEF MetaInv
  <2> QED BY <2>1, Step1PartlyKeeps, DiskUntouched DEF Kill
<1>3. acked' \in Nat /\ VersionKept(acked)' /\ crashes' \in Nat
      BY <1>1, <1>2, Acks DEF MetaInv
<1>4. fresh' # {} => covered'
      BY <1>1 DEF MetaInv
<1>5. "closed" \in Resting /\ "closed" \in Places /\ 0 \in Nat
      BY SMTT(30) DEF Resting, Places
<1>6. CASE holder = p
  <2>1. ~Settled'
        BY <1>1, <1>6 DEF Settled
  <2>2. PICK w : w = "closed"
        OBVIOUS
  <2>3. PICK a : a = 0
        OBVIOUS
  <2>4. MetaInv'
        BY <1>1, <1>2, <1>3, <1>4, <1>5, <1>6, <2>1, <2>2, <2>3, Returns
  <2> QED BY <1>2, <2>4
<1>7. CASE holder # p
  <2>1. pc[p] \in Resting
        BY <1>7, HolderHas
  <2>2. /\ pc' \in [Procs -> Places] /\ pc'[p] = "closed"
        /\ \A q \in Procs : q # p => pc'[q] = pc[q]
        BY <1>1, <1>5, Moves
  <2>3. /\ anchored' \in [Procs -> Nat] /\ anchored'[p] = 0
        /\ \A q \in Procs : q # p => anchored'[q] = anchored[q]
        BY <1>1, <1>5, Anchors
  <2>4. Settled' => EpochKept(Meta.anch)'
        BY <1>1, <1>2, <1>7, <2>1, <2>2, Steady DEF Resting
  <2>5. HolderOK(p)' /\ TxOK(p)' /\ AnchorOK(p)'
        BY <1>5, <2>2, <2>3, AtRest
  <2>6. ASSUME NEW q \in Procs, q # p PROVE HolderOK(q)' /\ TxOK(q)' /\ AnchorOK(q)'
    <3>1. /\ pc'[q] = pc[q] /\ anchored'[q] = anchored[q] /\ holder' = holder /\ job' = job
          /\ tx' = tx /\ covered' = covered /\ Meta' = Meta
          BY <1>1, <1>2, <1>7, <2>2, <2>3, <2>6
    <3> QED BY <1>2, <3>1, Bystander
  <2>7. SlotsOK'
        BY <1>2 DEF Kept
  <2>8. MetaInv'
        BY <1>3, <1>4, <2>2, <2>3, <2>4, <2>5, <2>6, <2>7 DEF MetaInv
  <2> QED BY <1>2, <2>8
<1> QED BY <1>6, <1>7

\* A poisoned handle closes.
LEMMA ClosePoisonedStep ==
    ASSUME MetaInv, NEW p \in Procs, ClosePoisoned(p)
    PROVE  MetaInv' /\ Meta' = Meta
<1>1. /\ pc[p] = "poisoned" /\ pc' = [pc EXCEPT ![p] = "closed"]
      /\ UNCHANGED <<disk, locks, seqs, anchored, tx, acked, crashes>>
      BY DEF ClosePoisoned, rest, faults
<1>2. /\ UNCHANGED <<holder, job, tx, covered>> /\ fresh' = fresh /\ deadHolder' = deadHolder
      BY <1>1 DEF locks, seqs
<1>3. Kept /\ Meta' = Meta
      BY <1>1, DiskUntouched DEF MetaInv
<1>4. "closed" \in Places /\ "closed" \in Resting
      BY DEF Places, Resting
<1>5. /\ pc' \in [Procs -> Places] /\ pc'[p] = "closed"
      /\ \A q \in Procs : q # p => pc'[q] = pc[q]
      BY <1>1, <1>4, Moves
<1>6. HolderOK(p)' /\ TxOK(p)' /\ AnchorOK(p)'
  <2>1. anchored'[p] \in Nat
        BY <1>1 DEF MetaInv
  <2> QED BY <1>4, <1>5, <2>1, AtRest
<1>7. \A q \in Procs : q # p => HolderOK(q)' /\ TxOK(q)' /\ AnchorOK(q)'
      BY <1>1, <1>2, <1>3, <1>5, Bystander
<1>8. Settled' => EpochKept(Meta.anch)'
      BY <1>1, <1>2, <1>3, <1>5, Steady
<1>9. acked' \in Nat /\ VersionKept(acked)'
      BY <1>1, <1>3, Acks
<1>10. SlotsOK'
       BY <1>3 DEF Kept
<1>11. anchored' \in [Procs -> Nat] /\ crashes' \in Nat /\ (fresh' # {} => covered')
       BY <1>1, <1>2 DEF MetaInv
<1>12. MetaInv'
       BY <1>5, <1>6, <1>7, <1>8, <1>9, <1>10, <1>11 DEF MetaInv
<1> QED BY <1>3, <1>12

\* A read transaction begins or ends, or nothing happens.
LEMMA ReadStep ==
    ASSUME MetaInv, UNCHANGED <<disk, pc, locks, seqs, anchored, tx, acked, crashes>>
    PROVE  MetaInv' /\ Meta' = Meta
<1>1. /\ UNCHANGED <<holder, job, tx, covered>> /\ fresh' = fresh /\ deadHolder' = deadHolder
      /\ pc' = pc /\ anchored' = anchored /\ acked' = acked /\ crashes' = crashes
      BY DEF locks, seqs
<1>2. Kept /\ Meta' = Meta
      BY DiskUntouched DEF MetaInv
<1>3. \A q \in Procs : HolderOK(q)' /\ TxOK(q)' /\ AnchorOK(q)'
      BY <1>1, <1>2, Bystander
<1>4. Settled' => EpochKept(Meta.anch)'
  <2>1. Settled' => Settled
        BY <1>1 DEF Settled
  <2>2. Meta.anch \in Nat
        BY MetaSays DEF MetaInv
  <2> QED BY <1>2, <2>1, <2>2 DEF MetaInv, Kept, EpochKept
<1>5. acked' \in Nat /\ VersionKept(acked)'
      BY <1>1, <1>2, Acks
<1>6. SlotsOK'
      BY <1>2 DEF Kept
<1>7. pc' \in [Procs -> Places] /\ anchored' \in [Procs -> Nat] /\ crashes' \in Nat
      /\ (fresh' # {} => covered')
      BY <1>1 DEF MetaInv
<1>8. MetaInv'
      BY <1>3, <1>4, <1>5, <1>6, <1>7 DEF MetaInv
<1> QED BY <1>2, <1>8

\* Power is lost: what was acknowledged is in whatever is left.
LEMMA CrashStep ==
    ASSUME MetaInv, Crash
    PROVE  MetaInv' /\ crashes' # crashes
<1>1. /\ crashes' = crashes + 1 /\ pc' = [p \in Procs |-> "closed"] /\ fresh' = {}
      /\ anchored' = [p \in Procs |-> 0] /\ acked' = acked
      BY DEF Crash
<1>2. PICK image : PowerLoss(image)
      BY DEF Crash
<1>3. Kept /\ \A e : e <= Meta'.dur.txn => EpochKept(e)'
      BY <1>2, Loses DEF MetaInv
<1>4. SlotsOK'
      BY <1>3 DEF Kept
<1>5. acked' \in Nat /\ VersionKept(acked)'
      BY <1>1, <1>3, Acks
<1>6. Meta'.anch <= Meta'.dur.txn
  <2>1. SlotsIn(Now', Left')
        BY <1>4 DEF SlotsOK
  <2>2. MetaOK(Meta')
        BY <2>1, MetaIs, TopFacts
  <2> QED BY <2>2 DEF MetaOK
<1>7. EpochKept(Meta.anch)'
      BY <1>3, <1>6 DEF EpochKept
<1>8. "closed" \in Places /\ "closed" \in Resting /\ 0 \in Nat
      BY SMTT(30) DEF Places, Resting
<1>9. pc' \in [Procs -> Places] /\ anchored' \in [Procs -> Nat]
      BY <1>1, <1>8
<1>10. ASSUME NEW q \in Procs PROVE HolderOK(q)' /\ TxOK(q)' /\ AnchorOK(q)'
  <2>1. pc'[q] = "closed" /\ anchored'[q] \in Nat
        BY <1>1, <1>8
  <2> QED BY <1>8, <2>1, AtRest
<1>11. crashes' \in Nat /\ crashes' # crashes
  <2>1. crashes \in Nat
        BY DEF MetaInv
  <2> QED BY SMTT(30), <1>1, <2>1
<1> QED BY <1>1, <1>4, <1>5, <1>7, <1>9, <1>10, <1>11 DEF MetaInv

-----------------------------------------------------------------------------
(* The invariant. *)

\* The first commit is in slot 1, nothing before it.
LEMMA MetaInit ==
    ASSUME Init
    PROVE  MetaInv
<1> DEFINE L == [txn |-> 1, tree |-> [x \in 1 .. TreeSize |-> 1], hwm |-> TreeSize,
                 head |-> None, headTxn |-> 0, tail |-> None]
           G == [L EXCEPT !.txn = 0, !.tree = <<>>, !.hwm = 0]
           M0 == [live |-> G, dur |-> G, anch |-> 0]
           M1 == [live |-> L, dur |-> L, anch |-> 0]
<1>1. Slot(0) \in FileBlocks /\ Slot(1) \in FileBlocks /\ Slot(0) # Slot(1)
      BY SlotBlocks DEF FileBlocks
<1>2. DOMAIN cache = FileBlocks /\ cache[Slot(0)] = M0 /\ cache[Slot(1)] = M1
  <2> DEFINE Content(b) == CASE b = Slot(0) -> M0
                            [] b = Slot(1) -> M1
                            [] b = Length -> TreeSize
                            [] b \in BitBlocks -> FALSE
                            [] OTHER -> IF b[2] <= TreeSize THEN TreePage(1) ELSE Blank
  <2>1. cache = [b \in FileBlocks |-> Content(b)]
        BY DEF Init
  <2>2. \A i \in Sides : Slot(i) # Length /\ Slot(i) \notin BitBlocks
        BY SlotBlocks
  <2>3. Content(Slot(0)) = M0 /\ Content(Slot(1)) = M1
    <3> HIDE DEF M0, M1
    <3> QED BY <1>1, <2>2, TwoSides
  <2> HIDE DEF Content, M0, M1
  <2> QED BY <1>1, <2>1, <2>3
<1>3. platter[Slot(0)] = {M0} /\ platter[Slot(1)] = {M1}
      BY <1>1, <1>2 DEF Init
<1>4. Now[0] = M0 /\ Now[1] = M1 /\ Left[0] = {M0} /\ Left[1] = {M1}
      BY <1>2, <1>3, TwoSides DEF Now, Left
<1>5. /\ {"txn", "tree"} \subseteq DOMAIN L /\ L.txn = 1 /\ L.tree = [x \in 1 .. TreeSize |-> 1]
      /\ {"txn", "tree"} \subseteq DOMAIN G /\ G.txn = 0 /\ G.tree = <<>>
      OBVIOUS
<1> HIDE DEF L, G
<1>6. /\ {"live", "dur", "anch"} \subseteq DOMAIN M0 /\ M0.live = G /\ M0.dur = G /\ M0.anch = 0
      /\ {"live", "dur", "anch"} \subseteq DOMAIN M1 /\ M1.live = L /\ M1.dur = L /\ M1.anch = 0
      OBVIOUS
<1> HIDE DEF M0, M1
<1>7. /\ 0 \in Nat /\ 1 \in Nat /\ 0 <= 0 /\ 0 <= 1 /\ 1 <= 1 /\ 0 < 1 /\ 0 # 1 /\ ~(1 < 0)
      /\ 1 - 1 = 0 /\ 1 - 0 = 1
      BY SMTT(30)
<1>8. DOMAIN G.tree = {}
      BY SMTT(30), <1>5
<1>9. Version(L.tree) = 1
  <2>1. 1 \in 1 .. TreeSize
        BY SMTT(30), BoundsAssumption
  <2> QED BY <1>5, <1>7, <2>1, VersionIs
<1>10. SubOK(G) /\ SubOK(L)
       BY <1>5, <1>7, <1>8 DEF SubOK
<1>11. MetaOK(M0) /\ MetaOK(M1)
       BY <1>5, <1>6, <1>7, <1>9, <1>10 DEF MetaOK
<1>12. Top(Now) = M1
  <2>1. Now[1 - 1].live.txn < Now[1].live.txn /\ Now[1].live.txn \in Nat /\ Now[1 - 1].live.txn \in Nat
        BY <1>4, <1>5, <1>6, <1>7
  <2> QED BY <1>4, <2>1, TopIs, TwoSides
<1>13. SlotsIn(Now, Left)
  <2>1. ASSUME NEW i \in Sides, NEW m \in Left[i] PROVE MetaOK(m) /\ m.live.txn <= Top(Now).live.txn
    <3>1. m = M0 \/ m = M1
          BY <1>4 DEF Sides
    <3> QED BY <1>5, <1>6, <1>7, <1>11, <1>12, <3>1
  <2>2. \A i \in Sides : Now[i] \in Left[i]
        BY <1>4 DEF Sides
  <2>3. \A m \in Left[1] : m.live.txn # 0
        BY <1>4, <1>5, <1>6, <1>7
  <2>4. \A m \in Left[0], n \in Left[1] : m.live.txn # n.live.txn
        BY SMTT(30), <1>4, <1>5, <1>6, <1>7
  <2> QED BY <2>1, <2>2, <2>3, <2>4 DEF SlotsIn
<1>14. SlotsOK
  <2>1. \A i \in Sides : Slot(i) \in DOMAIN cache /\ Left[i] = {Now[i]}
        BY <1>1, <1>2, <1>4 DEF Sides
  <2> QED BY <1>13, <2>1 DEF SlotsOK
<1>15. ASSUME NEW i \in Sides, NEW m \in Left[i], NEW n \in Left[1 - i], n.live.txn < m.live.txn
       PROVE  m = M1
  <2>1. CASE i = 0
    <3>1. m = M0 /\ n = M1
          BY <1>4, <1>7, <2>1
    <3> QED BY <1>5, <1>6, <1>7, <1>15, <3>1
  <2>2. CASE i = 1
        BY <1>4, <2>2
  <2> QED BY <2>1, <2>2 DEF Sides
<1>16. VersionKept(acked) /\ EpochKept(Meta.anch)
  <2>1. acked = 1
        BY DEF Init
  <2>2. Meta.anch = 0
        BY <1>6, <1>12, MetaIs
  <2>3. M1.dur.txn = 1 /\ Version(M1.dur.tree) = 1
        BY <1>5, <1>6, <1>9
  <2>4. EpochKept(0)
        BY <1>7, <1>15, <2>3 DEF EpochKept, EpochIn
  <2>5. VersionKept(1)
        BY <1>7, <1>15, <2>3 DEF VersionKept, VersionIn
  <2> QED BY <2>1, <2>2, <2>4, <2>5
<1>17. /\ pc = [p \in Procs |-> "closed"] /\ anchored = [p \in Procs |-> 0]
       /\ acked = 1 /\ crashes = 0 /\ fresh = {}
       BY DEF Init
<1>18. pc \in [Procs -> Places] /\ anchored \in [Procs -> Nat] /\ acked \in Nat /\ crashes \in Nat
       BY <1>7, <1>17 DEF Places, Resting
<1>19. ASSUME NEW p \in Procs PROVE HolderOK(p) /\ TxOK(p) /\ AnchorOK(p)
  <2>1. pc[p] = "closed" /\ anchored[p] \in Nat
        BY <1>7, <1>17
  <2> QED BY <2>1 DEF HolderOK, TxOK, AnchorOK, Resting, Working, Publishing, Attached
<1> QED BY <1>14, <1>16, <1>17, <1>18, <1>19 DEF MetaInv

\* The active meta does not go backwards.
Forward ==
    /\ Meta'.live.txn >= Meta.live.txn
    /\ Meta'.dur.txn >= Meta.dur.txn
    /\ Meta'.anch >= Meta.anch

\* A step that publishes no meta.
LEMMA StaysForward ==
    ASSUME MetaInv, Meta' = Meta
    PROVE  Forward
<1>1. Meta.live.txn \in Nat /\ Meta.dur.txn \in Nat /\ Meta.anch \in Nat
      BY MetaSays DEF MetaInv
<1> QED BY SMTT(30), <1>1 DEF Forward

\* A meta newer than the active one, or as new.
LEMMA MovesForward ==
    ASSUME MetaInv, NEW m, MetaOK(m), Meta' = m, Meta.live.txn <= m.live.txn,
           Meta.dur.txn <= m.dur.txn, Meta.anch <= m.anch
    PROVE  Forward
<1>1. Meta.live.txn \in Nat /\ Meta.dur.txn \in Nat /\ Meta.anch \in Nat
      BY MetaSays DEF MetaInv
<1>2. m.live.txn \in Nat /\ m.dur.txn \in Nat /\ m.anch \in Nat
      BY MetaNumbers
<1> QED BY SMTT(30), <1>1, <1>2 DEF Forward

\* Every step of a process preserves the invariant and moves the meta forward.
LEMMA ProcessStep ==
    ASSUME SyncsSucceed, MetaInv, NEW p \in Procs, Step(p)
    PROVE  MetaInv' /\ Forward
<1>1. SlotsOK /\ anchored[p] \in Nat
      BY DEF MetaInv
<1>2. CASE Step3(p)
  <2>1. MetaInv' /\ Meta' = NewMeta(p)
        BY <1>2, Step3Step
  <2>2. pc[p] = "step3"
        BY <1>2 DEF Step3
  <2>3. anchored[p] <= Meta.dur.txn /\ Meta.anch <= anchored[p]
        BY <2>2, HolderHas DEF Attached, Working
  <2>4. PICK m : m = NewMeta(p)
        OBVIOUS
  <2>5. /\ MetaOK(m) /\ Meta.live.txn < m.live.txn
        /\ Meta.dur.txn <= m.dur.txn /\ m.anch = anchored[p]
    <3>1. /\ tx.view.txn = Meta.live.txn + 1 /\ Version(tx.tree) = tx.view.txn
          /\ \A x \in DOMAIN tx.tree : tx.tree[x] \in Nat /\ tx.tree[x] <= tx.view.txn
          BY <2>2, TxOf DEF TxOK, Publishing
    <3> QED BY <1>1, <2>3, <2>4, <3>1, CommitMeta
  <2>6. Meta.live.txn <= m.live.txn
    <3>1. Meta.live.txn \in Nat /\ m.live.txn \in Nat
          BY <1>1, <2>5, MetaSays, MetaNumbers
    <3> QED BY SMTT(30), <2>5, <3>1
  <2> QED BY <2>1, <2>3, <2>4, <2>5, <2>6, MovesForward
<1>3. CASE Checkpoint3(p)
  <2>1. /\ MetaInv'
        /\ Meta' = Meta \/ Meta' = [Meta EXCEPT !.dur = Meta.live, !.anch = anchored[p]]
        BY <1>3, Checkpoint3Step
  <2>2. pc[p] = "check3"
        BY <1>3 DEF Checkpoint3
  <2>3. anchored[p] <= Meta.dur.txn /\ Meta.anch <= anchored[p]
        BY <2>2, HolderHas DEF Attached, Working
  <2>4. CASE Meta' = [Meta EXCEPT !.dur = Meta.live, !.anch = anchored[p]]
    <3>1. PICK m : m = [Meta EXCEPT !.dur = Meta.live, !.anch = anchored[p]]
          OBVIOUS
    <3>2. /\ MetaOK(m) /\ Meta.live.txn = m.live.txn /\ Meta.dur.txn <= m.dur.txn
          /\ m.anch = anchored[p]
          BY <1>1, <2>3, <3>1, CheckpointMeta
    <3>3. Meta.live.txn <= m.live.txn
      <4>1. Meta.live.txn \in Nat
            BY <1>1, MetaSays
      <4> QED BY SMTT(30), <3>2, <4>1
    <3> QED BY <2>1, <2>3, <2>4, <3>1, <3>2, <3>3, MovesForward
  <2> QED BY <2>1, <2>4, StaysForward
<1>4. CASE RecoverMeta(p)
  <2>1. /\ MetaInv'
        /\ \/ Meta' = Meta
           \/ \E live : /\ live = [Meta.dur EXCEPT !.txn = Meta.live.txn + 1]
                        /\ Meta' = [live |-> live, dur |-> live, anch |-> Meta.dur.txn]
        BY <1>4, RecoverMetaStep
  <2>2. ASSUME NEW live, live = [Meta.dur EXCEPT !.txn = Meta.live.txn + 1],
               Meta' = [live |-> live, dur |-> live, anch |-> Meta.dur.txn]
        PROVE  Forward
    <3>1. PICK m : m = [live |-> live, dur |-> live, anch |-> Meta.dur.txn]
          OBVIOUS
    <3>2. /\ MetaOK(m) /\ Meta.live.txn < m.live.txn /\ Meta.dur.txn <= m.dur.txn
          /\ Meta.anch <= m.anch
          BY <1>1, <2>2, <3>1, RecoveryMeta
    <3>3. Meta.live.txn <= m.live.txn
      <4>1. Meta.live.txn \in Nat /\ m.live.txn \in Nat
            BY <1>1, <3>2, MetaSays, MetaNumbers
      <4> QED BY SMTT(30), <3>2, <4>1
    <3> QED BY <2>2, <3>1, <3>2, <3>3, MovesForward
  <2> QED BY <2>1, <2>2, StaysForward
<1>5. CASE SyncFails(p)
      BY <1>5 DEF SyncFails, SyncsSucceed, Syncing
<1>6. CASE OpenGated(p) \/ OpenLive(p) \/ RecoverSync(p) \/ Opened(p) \/ Rollback(p)
      BY <1>6, OpenGatedStep, OpenLiveStep, RecoverSyncStep, RollbackOpenedStep, StaysForward
<1>7. CASE \E for \in {"tx", "checkpoint", "close"} : Begin(p, for)
      BY <1>7, BeginStep, StaysForward
<1>8. CASE WriteTx(p)
  <2>1. PICK mode, retired, early : Body(p, mode, retired, early)
        BY <1>8 DEF WriteTx
  <2>2. pc[p] = "tx"
        BY <1>8 DEF WriteTx
  <2> QED BY <2>1, <2>2, BodyStep, StaysForward
<1>9. CASE GateAnchorAdvance(p) \/ GateSync(p) \/ Step1(p) \/ Step2(p) \/ Checkpoint2(p)
      BY <1>9, WorkSteps, StaysForward
<1>10. CASE CoverSync(p) \/ Step4(p) \/ Finish(p) \/ Checkpoint4(p)
       BY <1>10, CoverSyncStep, Step4Step, FinishStep, Checkpoint4Step, StaysForward
<1>11. CASE ClosePoisoned(p) \/ WriteFails(p) \/ Kill(p)
       BY <1>11, ClosePoisonedStep, WriteFailsStep, KillStep, StaysForward
<1> QED BY <1>2, <1>3, <1>4, <1>5, <1>6, <1>7, <1>8, <1>9, <1>10, <1>11 DEF Step

\* The invariant is inductive.
LEMMA MetaNext ==
    ASSUME SyncsSucceed, MetaInv, [Next]_vars
    PROVE  MetaInv' /\ (crashes' = crashes => Forward)
<1>1. CASE \E p \in Procs : Step(p)
      BY <1>1, ProcessStep
<1>2. CASE Crash
      BY <1>2, CrashStep
<1>3. CASE BeginRead \/ EndRead \/ UNCHANGED vars
  <2>1. UNCHANGED <<disk, pc, locks, seqs, anchored, tx, acked, crashes>>
        BY <1>3 DEF BeginRead, EndRead, vars, rest, faults
  <2> QED BY <2>1, ReadStep, StaysForward
<1> QED BY <1>1, <1>2, <1>3 DEF Next

\* Whatever a crash leaves of the two slots, an attached handle's anchored
\* epoch has survived.
LEMMA AnchorsKnown ==
    ASSUME MetaInv
    PROVE  AnchorSurvives
<1>1. SUFFICES ASSUME NEW p \in Procs, NEW m0 \in platter[Slot(0)], NEW m1 \in platter[Slot(1)],
                      Attached(p)
               PROVE  anchored[p] <= IF ActiveOf(m0, m1) = 1 THEN m1.dur.txn ELSE m0.dur.txn
      BY DEF AnchorSurvives
<1>2. m0 \in Left[0] /\ m1 \in Left[1]
      BY TwoSides DEF Left
<1>3. EpochIn(Left, anchored[p]) /\ SlotsIn(Now, Left)
      BY <1>1 DEF MetaInv, AnchorOK, EpochKept, SlotsOK
<1>4. m0.live.txn \in Nat /\ m1.live.txn \in Nat /\ m0.live.txn # m1.live.txn
      BY <1>2, <1>3, TwoSides, MetaNumbers DEF SlotsIn
<1>5. 1 - 1 = 0 /\ 1 - 0 = 1
      BY SMTT(30)
<1>6. CASE ActiveOf(m0, m1) = 1
  <2>1. m0.live.txn < m1.live.txn
        BY SMTT(30), <1>4, <1>6 DEF ActiveOf
  <2> QED BY <1>2, <1>3, <1>5, <1>6, <2>1, TwoSides DEF EpochIn
<1>7. CASE ActiveOf(m0, m1) # 1
  <2>1. m1.live.txn < m0.live.txn
        BY SMTT(30), <1>4, <1>7 DEF ActiveOf
  <2> QED BY <1>2, <1>3, <1>5, <1>7, <2>1, TwoSides DEF EpochIn
<1> QED BY <1>6, <1>7

\* advanceAnchoredEpoch is sound: while fdatasync does not fail, the anchored
\* epoch of every attached handle, which bounds what it reclaims, survives
\* every power loss at every point of every commit, checkpoint and recovery; in
\* particular AnchorSound holds without its exception for hollow barriers.
THEOREM AnchorSoundAlways ==
    ASSUME SyncsSucceed
    PROVE  Spec => [](AnchorSound /\ AnchorSurvives)
<1>1. Init => MetaInv
      BY MetaInit
<1>2. MetaInv /\ [Next]_vars => MetaInv'
      BY MetaNext
<1>3. MetaInv => AnchorSound /\ AnchorSurvives
      BY AnchorsKnown DEF AnchorSound
<1> QED BY <1>1, <1>2, <1>3, PTL DEF Spec

\* What a SyncBoth commit or a checkpoint has acknowledged is in the durable
\* tree of the active meta, after any power losses and deaths, while fdatasync
\* does not fail (commit.go step 4, checkpoint.go).
THEOREM AckedAlwaysKept ==
    ASSUME SyncsSucceed
    PROVE  Spec => []AckedKept
<1>1. Init => MetaInv
      BY MetaInit
<1>2. MetaInv /\ [Next]_vars => MetaInv'
      BY MetaNext
<1>3. ASSUME MetaInv PROVE AckedKept
  <2>1. SlotsOK /\ acked \in Nat /\ VersionKept(acked)
        BY <1>3 DEF MetaInv
  <2>2. acked <= Version(Meta.dur.tree) /\ Version(Meta.dur.tree) \in Nat
        BY <2>1, MetaSays
  <2> QED BY SMTT(30), <2>1, <2>2 DEF AckedKept
<1> QED BY <1>1, <1>2, <1>3, PTL DEF Spec

\* Short of a power loss neither the active meta, nor its durable epoch, nor the
\* anchor in it moves backwards, whoever dies or fails to write, while fdatasync
\* does not fail (meta.go, commit.go, checkpoint.go).
THEOREM EpochsNeverRegress ==
    ASSUME SyncsSucceed
    PROVE  Spec => EpochsMonotone
<1>1. Init => MetaInv
      BY MetaInit
<1>2. MetaInv /\ [Next]_vars => MetaInv'
      BY MetaNext
<1>3. MetaInv /\ [Next]_vars =>
          [crashes' = crashes =>
              /\ Meta'.live.txn >= Meta.live.txn
              /\ Meta'.dur.txn >= Meta.dur.txn
              /\ Meta'.anch >= Meta.anch]_vars
      BY MetaNext DEF Forward
<1> QED BY <1>1, <1>2, <1>3, PTL DEF Spec, EpochsMonotone
=============================================================================
