---------------------------- MODULE MCCodeImport ----------------------------
(* CodeImport with all files of three rows over two codes, an invalid row   *)
(* and a row whose limit is not a number.                                   *)
EXTENDS CodeImport

CONSTANTS A, B
MCNames == {A, B}
MCRows == [code : {A, B}, number : {TRUE}] \cup {[code |-> "bad", number |-> TRUE]}
            \cup {[code |-> B, number |-> FALSE]}
MCFiles == [1 .. 3 -> MCRows]
=============================================================================
