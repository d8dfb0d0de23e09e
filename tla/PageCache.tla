------------------------------ MODULE PageCache ------------------------------
(***************************************************************************)
(* The data file as the processes see it and as a power loss leaves it.    *)
(* External: the kernel's page cache and the disk, as internal/pager uses  *)
(* them through fileOps (WriteAt, ReadAt, Fdatasync).                      *)
(*                                                                         *)
(* A block is a page of the file.  cache[b] is what every process reads;   *)
(* platter[b] is the set of contents a power loss may leave; queued is the *)
(* set of blocks the kernel will write at the next fdatasync.  A failed    *)
(* fdatasync marks its blocks clean without having written them: they are  *)
(* no longer queued, and what the platter holds stays open.  The length of *)
(* the file is inode state, which the journal keeps until it is written.   *)
(***************************************************************************)
EXTENDS FiniteSetsExt

CONSTANTS Blocks, InodeBlocks

VARIABLES cache, platter, queued

disk == <<cache, platter, queued>>

\* One block and its content; the blocks of w and those of v beside them.
Block(b, content) == [x \in {b} |-> content]
Over(w, v) == [b \in DOMAIN w \cup DOMAIN v |-> IF b \in DOMAIN w THEN w[b] ELSE v[b]]

\* pwrite of the blocks in the domain of w.
Pwrite(w) ==
    /\ cache' = Over(w, cache)
    /\ platter' = [b \in Blocks |->
          IF b \in DOMAIN w THEN platter[b] \cup {w[b]} ELSE platter[b]]
    /\ queued' = queued \cup DOMAIN w

\* A block written back with the bytes it already has.
Redirty(bs) == [b \in bs |-> cache[b]]

FdatasyncOK ==
    /\ platter' = [b \in Blocks |-> IF b \in queued THEN {cache[b]} ELSE platter[b]]
    /\ queued' = {}
    /\ UNCHANGED cache

FdatasyncFails ==
    /\ queued' = queued \cap InodeBlocks
    /\ UNCHANGED <<cache, platter>>

\* What a power loss may leave, block by block.
Images ==
    FoldSet(LAMBDA b, images : {Over(Block(b, content), image) : content \in platter[b], image \in images},
            {<<>>}, {b \in Blocks : platter[b] # {cache[b]}})

\* Every block is left with one of its contents.
PowerLoss(image) ==
    /\ \A b \in DOMAIN image : image[b] \in platter[b]
    /\ cache' = Over(image, cache)
    /\ platter' = [b \in Blocks |-> {cache'[b]}]
    /\ queued' = {}
=============================================================================
