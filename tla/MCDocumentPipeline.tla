-------------------------- MODULE MCDocumentPipeline --------------------------
(* DocumentPipeline on small instances. *)
EXTENDS DocumentPipeline

CONSTANTS d1, d2, w1, w2, w3
=============================================================================
