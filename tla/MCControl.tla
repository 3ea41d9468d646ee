------------------------------ MODULE MCControl ------------------------------
(* A daemon with a log level and a pin, on a camera of two processors.     *)
EXTENDS Control, TLC

CONSTANTS Start, Top, Log, Own, level, cpu, info, warn, minus, zero, nine

\* Where it is started, and where it goes.
Directories == {Start, Root}

Sections == {Top, Log, Own}
Keys     == {level, cpu}
Values   == {info, warn, minus, zero, nine}

LogItem == <<Log, level>>
CpuItem == <<Own, cpu>>

Named   == info :> Info
Numbers == (zero :> 0) @@ (nine :> 9)

\* A CPU; nine is one that is not there.
Settings == {<<CpuItem, zero>>}

\* Others save a level that has no name, and that CPU.
Others == {<<LogItem, warn>>, <<CpuItem, zero>>}

\* As a daemon with a relative path, and in the foreground with -d.
Started == {[debug |-> FALSE, foreground |-> FALSE, path |-> Relative],
            [debug |-> TRUE, foreground |-> TRUE, path |-> Start]}
=============================================================================
