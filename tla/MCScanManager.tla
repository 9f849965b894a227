---------------------------- MODULE MCScanManager ---------------------------
(***************************************************************************)
(* Instances of ScanManager: two importing and two scanning threads, two   *)
(* files and two hashes that share a prefix.                               *)
(***************************************************************************)
EXTENDS ScanManager, TLC

CONSTANTS t1, t2, s1, s2, f1, f2, h1, h2, p1

MCThread == {t1, t2}
MCScanner == {s1, s2}
MCFile == {f1, f2}
MCSourceId == 1 .. 2
MCHash == {h1, h2}
MCprefix == [h \in Hash |-> p1]
MCLabel == {<<>>}
AllModes == {"EXPANDED", "EXPANDED_OPTIMIZED", "COUNT", "APPROXIMATE_COUNT"}

Symmetry ==
    Permutations(Thread) \cup Permutations(File) \cup Permutations(Hash)
    \cup Permutations(Scanner)
=============================================================================
