--------------------------- MODULE MCSocketGateway ---------------------------
(* Small instances of SocketGateway for TLC.                               *)
EXTENDS SocketGateway, TLC

CONSTANTS s1, s2, web, app

TwoDevices == [s \in Sockets |-> IF s = s1 THEN web ELSE app]

=============================================================================
