------------------------------ MODULE MCIngest ------------------------------
(***************************************************************************)
(* The instance of Ingest for TLC: file a holds b twice, b has two parts,  *)
(* is also a file of its own, and holds c.                                 *)
(***************************************************************************)
EXTENDS Ingest

CONSTANTS a, b, c

MCFile == {a, b, c}
MCfilenames == <<a, b>>
MCParts == [f \in File |-> IF f = b THEN 2 ELSE 1]
MCEmbedded == [f \in File |-> IF f = a THEN <<b, b>> ELSE IF f = b THEN <<c>>
                                                              ELSE <<>>]
=============================================================================
