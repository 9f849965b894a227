----------------------------- MODULE MCLmdbTree -----------------------------
(***************************************************************************)
(* LmdbTree with the map it stands for beside it: items and pos always     *)
(* hold Items and Pos, so that SortedMap is compared with a plain state.   *)
(***************************************************************************)
EXTENDS LmdbTree

CONSTANT Long

VARIABLES items, pos

MCPuts == {<<k, 1>> : k \in Key} \cup {<<k, 2>> : k \in Long}

MCInit == Init /\ items = Items /\ pos = Pos
MCNext == Next /\ items' = Items' /\ pos' = Pos'
MCSpec == MCInit /\ [][MCNext]_<<vars, items, pos>>

Map == INSTANCE SortedMap WITH dup <- dupsort

(* The tree is the sorted map of lmdb.h: each write, deletion and move of  *)
(* the cursor does to the items and to the cursor's place what SortedMap   *)
(* says, whatever the pages do.                                            *)
ImplementsMap == Map!Spec
=============================================================================
