--------------------------- MODULE MCCopyDatabases --------------------------
(***************************************************************************)
(* Instances of CopyDatabases: two hashes, two sources, two names.         *)
(***************************************************************************)
EXTENDS CopyDatabases

MCRepository == {1}

(* The sub_counts of database a reach 3 for hash 1, those of b 2. *)
CountsA == {c \in [Hash -> [Source -> 0..2]] :
              c[1][1] \in {0, 2} /\ c[1][2] < 2 /\ \A s \in Source : c[2][s] < 2}
CountsB == [Hash -> [Source -> 0..1]]

(* A database built by ingesting files: every source has data and names,   *)
(* except one without names, which came with a hash alone (import_json).   *)
Build(count, label, data, its) ==
    LET known == {s \in Source : \E h \in Hash : count[h][s] > 0}
    IN  [count |-> count,
         label |-> [h \in Hash |-> IF \E s \in Source : count[h][s] > 0
                                   THEN label ELSE ""],
         data |-> [s \in Source |->
                     IF s \notin known THEN NoSource
                     ELSE IF its[s] = {} THEN Blank ELSE data],
         names |-> [s \in Source |-> IF s \in known THEN its[s] ELSE {}]]

(* In a source 1 has names in and out of the repository and source 2 only  *)
(* in it; in b source 1 has a name out of it and source 2 has none.        *)
MCInputs ==
    {[x \in {"a", "b"} |->
        IF x = "a" THEN Build(c, "la", "da", <<{1, 2}, {1}>>)
        ELSE Build(d, "lb", "db", <<{2}, {}>>)] :
       c \in CountsA, d \in CountsB}

(* An empty destination, and one that has source 2 with hash 1.            *)
MCDestinations ==
    {Build([h \in Hash |-> [s \in Source |-> 0]], "", "", <<{}, {}>>),
     Build([h \in Hash |-> [s \in Source |-> IF h = 1 /\ s = 2 THEN 3
                                             ELSE 0]],
           "lc", "dc", <<{}, {2}>>)}
=============================================================================
