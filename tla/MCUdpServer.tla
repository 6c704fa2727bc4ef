---------------------------- MODULE MCUdpServer ----------------------------
(* Instances of UdpServer, with the limiter and the query log, for TLC. *)
EXTENDS UdpServer
=============================================================================
