--------------------------- MODULE MCRdtReconnect ---------------------------
(* RdtReconnect for TLC; the values of the constants are in the .cfg files. *)
EXTENDS RdtReconnect
=============================================================================
