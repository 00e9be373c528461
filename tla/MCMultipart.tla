----------------------------- MODULE MCMultipart -----------------------------
(* Multipart for TLC.                                                      *)
EXTENDS Multipart
=============================================================================
