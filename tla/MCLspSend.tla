----------------------------- MODULE MCLspSend -----------------------------
(* Instances of LspSend for TLC; the cfg names three writers.               *)
EXTENDS LspSend
============================================================================
