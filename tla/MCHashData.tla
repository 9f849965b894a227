----------------------------- MODULE MCHashData -----------------------------
(***************************************************************************)
(* Instances of HashData for TLC.                                          *)
(***************************************************************************)
EXTENDS HashData

(* Two labels that differ only after MaxLabelSize = 2, and a short one.    *)
MCLabel == {<<"a", "b", "a">>, <<"a", "b", "b">>, <<"b">>}
=============================================================================
