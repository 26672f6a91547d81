----------------------------- MODULE MCLlamaBlock -----------------------------
(* The C forward by itself.                                                *)
EXTENDS LlamaBlock

MCStarts == [{1} -> Vocab]
=============================================================================
