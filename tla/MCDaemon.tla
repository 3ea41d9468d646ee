------------------------------ MODULE MCDaemon ------------------------------
(* Three processes that want to be one daemon, for TLC.                    *)
EXTENDS Daemon

CONSTANTS a, b, c, n1, n2, n3, n4

Processes == {a, b, c}
TwoProcesses == {a, b}
Inodes == {n1, n2, n3, n4}
FewInodes == {n1, n2, n3}
=============================================================================
