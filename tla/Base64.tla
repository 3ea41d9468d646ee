------------------------------- MODULE Base64 -------------------------------
(* rss_base64_decode: a text as the values of its characters, Pad for the  *)
(* '=' and Junk for whatever is not of the alphabet.                       *)
EXTENDS BitStrings

Pad  == 64
Junk == 255

\* One character more.  (C keeps 32 bits of the buffer, of which 14 count.)
Taken(was, v) == [was EXCEPT !.buf = (@ * 64 + v) % 2^20, !.bits = @ + 6]

\* (mutant: one byte more than there is room for)
GivenOneMore(was, outmax) ==
    IF was.bits < 8 THEN was
    ELSE IF Len(was.out) > outmax THEN [was EXCEPT !.full = TRUE]
    ELSE [was EXCEPT !.bits = @ - 8,
                     !.out  = Append(@, (was.buf \div 2^(was.bits - 8)) % 256)]

Given(was, outmax) ==
    IF was.bits < 8 THEN was
    ELSE IF Len(was.out) >= outmax THEN [was EXCEPT !.full = TRUE]
    ELSE [was EXCEPT !.bits = @ - 8,
                     !.out  = Append(@, (was.buf \div 2^(was.bits - 8)) % 256)]

\* The bytes in out, or full: -1.
Base64Decode(in, outmax) ==
    LET d[i \in 0..Len(in)] ==
          IF i = 0 THEN [buf |-> 0, bits |-> 0, out |-> <<>>, full |-> FALSE]
          ELSE LET was == d[i - 1] IN
               IF was.full \/ in[i] = Junk \/ \E j \in 1..i : in[j] = Pad THEN was
               ELSE Given(Taken(was, in[i]), outmax)
    IN d[Len(in)]
=============================================================================
