--------------------------- MODULE MCAuthLifecycle ---------------------------
(***************************************************************************)
(* TLC instance of AuthLifecycle.                                          *)
(***************************************************************************)
EXTENDS AuthLifecycle
=============================================================================
