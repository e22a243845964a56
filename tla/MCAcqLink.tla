----------------------------- MODULE MCAcqLink ------------------------------
(* The acquisition chain on a small instance.                              *)
EXTENDS AcqLink

CONSTANT r1
=============================================================================
