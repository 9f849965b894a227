------------------------------ MODULE FileList ------------------------------
(***************************************************************************)
(* Which files a path stands for (filename_list), and how each of them is  *)
(* opened (file_reader_t).                                                 *)
(*                                                                         *)
(* A tree gives every node, which stands for a device and inode number,    *)
(* its kind and, if it is a directory, its entries in the order in which   *)
(* readdir returns them.  Node 0 is the path that was given.  A name is    *)
(* <<stem, extension, part>>; a filename is the sequence of the names      *)
(* below the path that was given.  Extension "E" or "e" is for parts of an *)
(* EWF image (x.E01, x.E02), "." for a number alone (x.001), and "vmdk"    *)
(* for x001.vmdk.                                                          *)
(*                                                                         *)
(* Kinds: dir; locked, a directory that cannot be opened; vanishing, one   *)
(* that can be opened once; file; broken, what cannot be statted; special, *)
(* a FIFO, a socket or a device.                                           *)
(***************************************************************************)
EXTENDS Integers, FiniteSets, SequencesExt

-----------------------------------------------------------------------------
(* Names.                                                                  *)

is_multipart(name) == name[2] \in {"E", "e"} /\ name[3] = 1

(* The filename of part i of the series that first starts. *)
Part(first, i) ==
    LET name == Last(first)
    IN Front(first) \o <<<<name[1], name[2], i>>>>

(* A faulty variant of the next definition. *)
Parts_From3(files, first) ==
    {Part(first, i) :
        i \in {k \in 3 .. Cardinality(files) + 1 :
                  \A j \in 3 .. k : Part(first, j) \in files}}

(* The later parts, up to the first that is not there. *)
Parts(files, first) ==
    {Part(first, i) :
        i \in {k \in 2 .. Cardinality(files) + 1 :
                  \A j \in 2 .. k : Part(first, j) \in files}}

strip_non_first_multipart_filenames(files) ==
    files \ UNION {Parts(files, first) :
                      first \in {f \in files : is_multipart(Last(f))}}

-----------------------------------------------------------------------------
(* The walk.                                                               *)

(* What opendir opens the first time. *)
IsDirectory(tree, node) == tree.kind[node] \in {"dir", "vanishing"}

(* A faulty variant of the next definition. *)
read_entry_AnyLink(tree, path, walk, entry) ==
    LET filename == Append(path, entry.name)
    IN IF tree.kind[entry.node] \in {"broken", "special"}
       THEN walk
       ELSE IF IsDirectory(tree, entry.node)
       THEN IF entry.node \in walk.seen THEN walk
            ELSE [walk EXCEPT
                     !.seen  = @ \cup {entry.node},
                     !.stack = <<[path |-> filename, node |-> entry.node]>>
                                   \o @]
       ELSE [walk EXCEPT !.files = @ \cup {filename}]

(* One entry of the directory at path. *)
read_entry(tree, path, walk, entry) ==
    LET filename == Append(path, entry.name)
        marked   == [walk EXCEPT !.seen = @ \cup {entry.node}]
    IN IF \/ tree.kind[entry.node] \in {"broken", "special"}
          \/ entry.node \in walk.seen
       THEN walk
       ELSE IF IsDirectory(tree, entry.node)
       THEN [marked EXCEPT
                !.stack = <<[path |-> filename, node |-> entry.node]>> \o @]
       ELSE [marked EXCEPT !.files = @ \cup {filename}]

(* The loop over the stack of directories. *)
RECURSIVE Walk(_, _)
Walk(tree, walk) ==
    IF walk.stack = <<>> THEN walk
    ELSE LET top == Head(walk.stack)
         IN IF tree.kind[top.node] = "vanishing"
            THEN [walk EXCEPT !.error = TRUE]
            ELSE Walk(tree,
                      FoldLeft(LAMBDA w, entry :
                                   read_entry(tree, top.path, w, entry),
                               [walk EXCEPT !.stack = Tail(@)],
                               tree.entries[top.node]))

(* The files, and whether an error message is returned. *)
filename_list(tree) ==
    LET start == [stack |-> <<[path |-> <<>>, node |-> 0]>>, seen |-> {},
                  files |-> {}, error |-> FALSE]
        end   == Walk(tree, start)
    IN IF ~IsDirectory(tree, 0)
       THEN [error |-> FALSE, files |-> {<<>>}]
       ELSE [error |-> end.error,
             files |-> IF end.error THEN end.files
                       ELSE strip_non_first_multipart_filenames(end.files)]

-----------------------------------------------------------------------------
(* Readers.                                                                *)

(* The test for E01 is written twice, and there is none for e01. *)
reader_type(name) ==
    IF name[2] = "E" /\ name[3] = 1 THEN "E01"
    ELSE IF \/ name[2] = "." /\ name[3] \in {0, 1}
            \/ name[2] = "vmdk" /\ name[3] = 1
    THEN "SERIAL"
    ELSE "SINGLE"

(* The node that a filename leads to, or NoNode. *)
NoNode == -1

Lookup(tree, node, name) ==
    LET found == SelectSeq(IF node = NoNode THEN <<>> ELSE tree.entries[node],
                           LAMBDA entry : entry.name = name)
    IN IF found = <<>> THEN NoNode ELSE found[1].node

NodeOf(tree, filename) ==
    FoldLeft(LAMBDA node, name : Lookup(tree, node, name), 0, filename)

(* The nodes that a reader reads: libewf finds the parts of an image by    *)
(* their names.                                                            *)
ewf_nodes(tree, filename) ==
    LET nodes == {n \in 1 .. Cardinality(DOMAIN tree.kind) :
                    \A j \in 2 .. n : NodeOf(tree, Part(filename, j)) # NoNode}
    IN {NodeOf(tree, Part(filename, n)) : n \in nodes}

ReadNodes(tree, filename) ==
    IF reader_type(Last(filename)) = "E01" THEN ewf_nodes(tree, filename)
    ELSE {NodeOf(tree, filename)}
=============================================================================
