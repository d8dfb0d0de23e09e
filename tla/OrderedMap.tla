----------------------------- MODULE OrderedMap -----------------------------
(***************************************************************************)
(* What the B+tree promises its callers: a finite map on ordered keys with *)
(* one cursor, every operation atomic, every reply the one the map gives.  *)
(* A range delete may be refused where frail says so, and leaves the map   *)
(* and the cursor as they were; nothing else fails.                        *)
(***************************************************************************)
EXTENDS Integers, FiniteSetsExt

CONSTANTS
    N,       \* keys are 1..N
    Vals     \* values

VARIABLES
    map,     \* key |-> value, on the keys that are there
    pos,     \* the cursor: its state, and the key it is on
    out,     \* the last operation and its reply
    frail    \* pairs of bounds whose range delete may be refused

mapVars == <<map, pos, out>>

Reply(op, a, b, k, v, err) ==
    [op |-> op, a |-> a, b |-> b, k |-> k, v |-> v, err |-> err]

Unpositioned == [st |-> "unpositioned", k |-> 0]

End == [st |-> "end", k |-> 0]

Stale == [st |-> "stale", k |-> 0]

(* the cursor on the least, or the greatest, of a set of keys *)
OnLeast(S) == IF S = {} THEN End ELSE [st |-> "on", k |-> Min(S)]

OnGreatest(S) == IF S = {} THEN End ELSE [st |-> "on", k |-> Max(S)]

Without(S) == [k \in (DOMAIN map) \ S |-> map[k]]

GiveUp == IF pos.st = "on" THEN Stale ELSE pos

MapInit ==
    /\ DOMAIN map \subseteq 1..N /\ \A k \in DOMAIN map : map[k] \in Vals
    /\ pos = Unpositioned
    /\ out = Reply("none", 0, 0, 0, 0, "")

Put(k, v, mode) ==
    LET there == k \in DOMAIN map
        skip == (mode = "insert" /\ there) \/ (mode = "replace" /\ ~there)
    IN /\ out' = Reply(mode, k, v, IF there THEN 1 ELSE 0, 0, "")
       /\ map' = IF skip THEN map
                 ELSE [x \in DOMAIN map \cup {k} |-> IF x = k THEN v ELSE map[x]]
       /\ pos' = IF skip THEN pos ELSE GiveUp

Remove(S, op, a, b) ==
    /\ out' = Reply(op, a, b, Cardinality(S \cap DOMAIN map), 0, "")
    /\ map' = Without(S)
    /\ pos' = IF S \cap DOMAIN map = {} THEN pos ELSE GiveUp

DeleteAtCursor ==
    \/ /\ pos.st # "on"
       /\ out' = Reply("cdelete", 0, 0, 0, 0,
                       IF pos.st = "stale" THEN "stale" ELSE "unpositioned")
       /\ UNCHANGED <<map, pos>>
    \/ /\ pos.st = "on"
       /\ map' = Without({pos.k})
       /\ pos' = OnLeast({k \in DOMAIN map : k > pos.k})
       /\ out' = Reply("cdelete", 0, 0, 1, 0, "")

Get(k) ==
    /\ out' = IF k \in DOMAIN map THEN Reply("get", k, 0, k, map[k], "")
              ELSE Reply("get", k, 0, 0, 0, "")
    /\ UNCHANGED <<map, pos>>

Move(op, k, p) ==
    /\ out' = CASE p.st = "on" -> Reply(op, k, 0, p.k, map[p.k], "")
                [] p.st = "stale" -> Reply(op, k, 0, 0, 0, "stale")
                [] OTHER -> Reply(op, k, 0, 0, 0, "")
    /\ pos' = p
    /\ UNCHANGED map

Step(first, onward) ==
    CASE pos.st = "unpositioned" -> first
      [] pos.st = "on" -> onward
      [] OTHER -> pos

(* the tree may be rewritten in a transaction of its own *)
Rewrite ==
    /\ pos' = Unpositioned
    /\ out' = Reply("relocate", 0, 0, 0, 0, "")
    /\ UNCHANGED map

RefusedRange ==
    /\ out' \in {Reply("range", r[1], r[2], 0, 0, "failed") : r \in frail}
    /\ UNCHANGED <<map, pos>>

MapNext ==
    \/ \E k \in 1..N :
          \/ \E v \in Vals, mode \in {"put", "insert", "replace"} : Put(k, v, mode)
          \/ Remove({k}, "delete", k, 0)
          \/ Get(k)
          \/ Move("seek", k, OnLeast({k} \cap DOMAIN map))
          \/ Move("seekGE", k, OnLeast({x \in DOMAIN map : x >= k}))
          \/ Move("seekLE", k, OnGreatest({x \in DOMAIN map : x <= k}))
          \/ Move("seekLT", k, OnGreatest({x \in DOMAIN map : x < k}))
    \/ \E lo \in 0..(N + 1), hi \in 1..(N + 1) : Remove(lo..(hi - 1), "range", lo, hi)
    \/ Move("first", 0, OnLeast(DOMAIN map))
    \/ Move("last", 0, OnGreatest(DOMAIN map))
    \/ Move("next", 0, Step(OnLeast(DOMAIN map),
                            OnLeast({x \in DOMAIN map : x > pos.k})))
    \/ Move("prev", 0, Step(OnGreatest(DOMAIN map),
                            OnGreatest({x \in DOMAIN map : x < pos.k})))
    \/ DeleteAtCursor
    \/ Rewrite
    \/ RefusedRange

MapSpec == MapInit /\ [][MapNext]_mapVars
=============================================================================
