--------------------------- MODULE MCImportManager --------------------------
(***************************************************************************)
(* Instances of ImportManager for TLC.                                     *)
(***************************************************************************)
EXTENDS ImportManager, TLC

CONSTANTS t1, t2, f1, f2, h1, h2, p1

MCThread == {t1, t2}
MCFile == {f1, f2}
MCSourceId == 1 .. 2
MCHash == {h1, h2}

(* Two block hashes with the same first num_prefix_bytes bytes. *)
MCprefix == [h \in Hash |-> p1]

MCLabel == {<<>>}

Symmetry ==
    Permutations(Thread) \cup Permutations(File) \cup Permutations(Hash)
=============================================================================
