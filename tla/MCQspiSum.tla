------------------------------ MODULE MCQspiSum -----------------------------
(* Small instances of QspiSum for TLC. *)
EXTENDS QspiSum

IntLow == -1
=============================================================================
