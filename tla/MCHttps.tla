------------------------------ MODULE MCHttps ------------------------------
(* Two connections, a response of more than one record, a slow socket.     *)
EXTENDS Https

CONSTANTS c1, c2

Conns    == {c1, c2}
Timeouts == {0, 5}
=============================================================================
