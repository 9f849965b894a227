----------------------------- MODULE MCLmdbTxn ------------------------------
(* Two writing processes and one reading process on one store that two     *)
(* transactions have written to: the second one copied both pages of the   *)
(* first, so pages wait in the free database for their readers to end.  The *)
(* reader is not there yet, or still reads what the first one wrote.       *)
EXTENDS LmdbTxn, TLC

Symmetric == Permutations(Writers)

Tree(leaf) == [NoPage EXCEPT !.kids[1] = leaf]
Leaf(t) == [NoPage EXCEPT !.leaf = <<t, 0>>]
First(t) == [k \in Key |-> IF k = 1 /\ t > 0 THEN <<t, 0>> ELSE <<>>]

UsedStore ==
    /\ page = [i \in 2..MaxPgno |->
                  CASE i = 2 -> Tree(3)
                    [] i = 3 -> Leaf(1)
                    [] i = 4 -> Tree(5)
                    [] i = 5 -> Leaf(2)
                    [] i = 6 -> [NoPage EXCEPT !.recs =
                                    [t \in {2} |-> {2, 3}]]
                    [] OTHER -> NoPage]
    /\ meta = [i \in 0..1 |->
                  IF i = 1
                  THEN [txnid |-> 1, main |-> 2, free |-> P_INVALID,
                        last_pg |-> 3, mapsize |-> InitMap,
                        owner |-> 1, last_owner |-> 1]
                  ELSE [txnid |-> 2, main |-> 4, free |-> 6,
                        last_pg |-> 6, mapsize |-> InitMap,
                        owner |-> 2, last_owner |-> 2]]
    /\ hist = [t \in 0..2 |-> First(t)]
    /\ \E Old \in {{}, Readers} :
          /\ info = [txnid |-> 2, wmutex |-> Free, stale |-> {},
                     slot |-> [p \in Procs |-> IF p \in Old THEN 1 ELSE Idle]]
          /\ env = [p \in Procs |->
                       IF p \in Old THEN [Closed EXCEPT !.open = TRUE,
                                                       !.maxpg = InitMap]
                       ELSE Closed]
          /\ txn = [p \in Procs |->
                       IF p \in Old
                       THEN [NoTxn EXCEPT !.pc = "read", !.txnid = 1,
                                          !.main = 2, !.next_pgno = 4,
                                          !.from = 1, !.sound = TRUE,
                                          !.view = First(1)]
                       ELSE NoTxn]
          /\ opens = Cardinality(Old)

MCSpec == UsedStore /\ [][Next]_vars
=============================================================================
