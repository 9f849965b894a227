----------------------------- MODULE HashSources ----------------------------
(***************************************************************************)
(* What the hash data store promises, whatever its records look like: for  *)
(* each hash, the sources it was seen in with a sub_count that stops at    *)
(* Max2, and the entropy and label that came with its first occurrence.    *)
(***************************************************************************)
EXTENDS Integers

CONSTANTS Hash, SourceId, Entropy, StoredLabel, Max2

VARIABLES
    subs,    \* subs[h]: function from the sources of h to their sub_counts
    about    \* about[h]: <<>>, or the entropy and label of h

vars == <<subs, about>>

Clip(n) == IF n > Max2 THEN Max2 ELSE n

With(f, x, v) == [y \in DOMAIN f \cup {x} |-> IF y = x THEN v ELSE f[y]]

Init ==
    /\ subs = [h \in Hash |-> [s \in {} |-> 0]]
    /\ about = [h \in Hash |-> <<>>]

(* The first occurrence of a hash decides its entropy and label. *)
Describe(h, k_entropy, label) ==
    about' = [about EXCEPT ![h] =
                IF about[h] = <<>> THEN <<k_entropy, label>> ELSE about[h]]

(* One more occurrence of h in source s. *)
Insert(h, s, k_entropy, label) ==
    /\ subs' = [subs EXCEPT ![h] =
                 With(subs[h], s,
                      IF s \in DOMAIN subs[h] THEN Clip(subs[h][s] + 1) ELSE 1)]
    /\ Describe(h, k_entropy, label)

(* n occurrences of h in source s, unless s is known. *)
Merge(h, s, n, k_entropy, label) ==
    /\ s \notin DOMAIN subs[h]
    /\ subs' = [subs EXCEPT ![h] = With(subs[h], s, Clip(n))]
    /\ Describe(h, k_entropy, label)

Next ==
    \E h \in Hash, s \in SourceId, e \in Entropy, l \in StoredLabel :
        \/ Insert(h, s, e, l)
        \/ \E n \in 0 .. Max2 : Merge(h, s, n, e, l)

Spec == Init /\ [][Next]_vars
=============================================================================
