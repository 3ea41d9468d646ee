----------------------------- MODULE BitStrings -----------------------------
(* Numbers and bytes as strings of bits, the highest first.                *)
EXTENDS Naturals, Sequences

NumberOf(bits) ==
    LET n[i \in 0..Len(bits)] == IF i = 0 THEN 0 ELSE 2 * n[i - 1] + bits[i]
    IN n[Len(bits)]

BitsOf(v, n) == [i \in 1..n |-> (v \div 2^(n - i)) % 2]

Times(n, x) == [i \in 1..n |-> x]

Joined(strings) ==
    LET j[i \in 0..Len(strings)] == IF i = 0 THEN <<>> ELSE j[i - 1] \o strings[i]
    IN j[Len(strings)]

\* Bytes to bits, and whole bytes back.
Unpacked(bytes) == Joined([i \in DOMAIN bytes |-> BitsOf(bytes[i], 8)])

Packed(bits) ==
    [b \in 1..Len(bits) \div 8 |-> NumberOf(SubSeq(bits, 8 * b - 7, 8 * b))]
=============================================================================
