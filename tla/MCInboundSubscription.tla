----------------------- MODULE MCInboundSubscription -----------------------
(***************************************************************************)
(* TLC instances of InboundSubscription: two sessions and two streams, so  *)
(* that an open, a stream or a session can be overtaken by the next one.   *)
(***************************************************************************)
EXTENDS InboundSubscription
=============================================================================
