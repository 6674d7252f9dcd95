---------------------------- MODULE MCWsGateway -----------------------------
(* A few sockets and messages. *)
EXTENDS WsGateway
=============================================================================
