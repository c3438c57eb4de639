--------------------------- MODULE MCMessagingStore ---------------------------
(***************************************************************************)
(* TLC instance of MessagingStore: two identities, so that every switch    *)
(* can cross a load, a save or an ingest of the other one.                 *)
(***************************************************************************)
EXTENDS MessagingStore
=============================================================================
