------------------------------ MODULE MCSignKey ------------------------------
(* Daemons that want a signing key at the same time, for TLC.             *)
EXTENDS SignKey

CONSTANTS a, b, n1, n2, n3, k1, k2, k3

Processes == {a, b}
Inodes    == {n1, n2, n3}
Keys      == {k1, k2, k3}
AllFaults == {"crash", "disk"}
=============================================================================
