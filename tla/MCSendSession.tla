--------------------------- MODULE MCSendSession ---------------------------
(***************************************************************************)
(* TLC instance of SendSession: a message, a receipt and a re-handshake.   *)
(***************************************************************************)
EXTENDS SendSession
=============================================================================
