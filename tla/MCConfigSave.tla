---------------------------- MODULE MCConfigSave ----------------------------
(* Two or three daemons saving one file, for TLC.                          *)
EXTENDS ConfigSave, TLC

CONSTANTS d1, d2, n1, n2, n3, Top, Osd, k, v

TwoDaemons == {d1, d2}
Inodes     == {n1, n2, n3}
Sections   == {Top, Osd}
OneKey     == {k}
OneValue   == {v}

\* Neither daemons nor inodes are told apart.
Symmetry == Permutations(TwoDaemons) \cup Permutations(Inodes)

AllFaults  == {"crash", "power", "disk", "nomem", "dirsync"}
LiveFaults == {"crash", "nomem", "delete", "read"}
EintrFault == {"eintr"}

\* Liveness is checked without symmetry, from one small file.
LiveInit == Init /\ path = n1 /\ ConfigFile = EmptyContents
LiveSpec == LiveInit /\ [][Next]_vars /\ Fairness
=============================================================================
