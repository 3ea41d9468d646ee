------------------------------- MODULE Shadow -------------------------------
(***************************************************************************)
(* rss_shadow.c: the password field of the first line of /etc/shadow that *)
(* names the account.  A file is a sequence of characters.                 *)
(***************************************************************************)
EXTENDS Integers, SequencesExt

CONSTANT LineSize       \* char line[512]

NewLine == "\n"
Return  == "\r"

FirstAt(text, from, chars) ==
    LET At(p) == p > Len(text) \/ text[p] \in chars
    IN CHOOSE p \in from..Len(text) + 1 : At(p) /\ \A q \in from..(p - 1) : ~At(q)

\* What fgets at place p leaves in the buffer: a line, or as much as there is
\* room for.
Got(file, p) ==
    SubSeq(file, p, Min({FirstAt(file, p, {NewLine}), p + LineSize - 2, Len(file)}))

\* (mutant: the name may go on)
NamesPrefix(line, user) == IsPrefix(user, line)

Names(line, user) == IsPrefix(user \o <<":">>, line)

FieldOf(line, user) ==
    LET from == Len(user) + 2
    IN SubSeq(line, from, FirstAt(line, from, {":", Return, NewLine}) - 1)

UsableHash(f) ==
    LET dollars == {i \in 1..Len(f) : f[i] = "$"} IN
    /\ f # <<>> /\ f[1] = "$" /\ f[Len(f)] # "$"
    /\ \E i, j, k \in dollars : i < j /\ j < k

\* passwd_field: <<>> or the field of the first line that names the account.
PasswdField(file, user) ==
    LET find[p \in 1..Len(file) + 1] ==
          IF p > Len(file) THEN <<>>
          ELSE LET line == Got(file, p) IN
               IF Names(line, user) THEN <<FieldOf(line, user)>>
               ELSE find[p + Len(line)]
    IN IF user = <<>> \/ \E i \in 1..Len(user) : user[i] = ":" THEN <<>> ELSE find[1]

ShadowState(file, user) ==
    LET f == PasswdField(file, user) IN
    IF f = <<>> THEN "missing"
    ELSE IF f[1] = <<>> THEN "unset"
    ELSE IF UsableHash(f[1]) THEN "set"
    ELSE "locked"

\* rss_shadow_hash: <<>> or the hash.
ShadowHash(file, user, outsz) ==
    LET f == PasswdField(file, user) IN
    IF f # <<>> /\ UsableHash(f[1]) /\ Len(f[1]) < outsz THEN f ELSE <<>>
=============================================================================
