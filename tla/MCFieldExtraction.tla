-------------------------- MODULE MCFieldExtraction -------------------------
(* FieldExtraction for TLC. *)
EXTENDS FieldExtraction
=============================================================================
