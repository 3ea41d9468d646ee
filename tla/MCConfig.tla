------------------------------ MODULE MCConfig ------------------------------
(* One or two daemons on small config files, for TLC.                      *)
EXTENDS Config

CONSTANTS d1, d2, Top, Osd, Log, k, v, w, blank, note

Symmetry   == Permutations({d1, d2})
Daemons    == {d1, d2}
Sections   == {Top, Osd, Log}
OneKey     == {k}
TwoValues  == {v, w}

\* Widths that never bind.
WideLine == 100
UnitWidth == [x \in Value |-> 1]
NoCuts == <<>>

Plain(x) == KeyLine(k, x, 1, 0)
Noted(x) == KeyLine(k, x, 1, 2)

\* A hand-kept file: comments, a key above the first header, a key written
\* twice, a section opened twice, inline comments.
HandKept == <<Note, Plain(v), Blank,
              Header(Osd), Plain(v), Note, Noted(w), Blank,
              Header(Log), Blank, Note, Plain(w), Blank,
              Header(Osd), Note>>

\* A file whose sections have no keys, or none of one of them.
Sparse == <<Header(Log), Noted(v)>>

Lonely == [texts |-> {HandKept, Sparse, <<Blank>>}, daemons |-> {d1},
           items |-> {Top, Osd} \X {k}, values |-> {v, w}]

Removing == [texts |-> {HandKept}, daemons |-> {d1},
             items |-> {Osd, Log} \X {k}, values |-> {w}]

Crowded == [texts |-> {<<Plain(w), Header(Osd), Noted(w), Blank, Note>>, <<Note>>},
            daemons |-> {d1, d2}, items |-> {Top, Osd} \X {k}, values |-> {w}]

OneOrTwo == {Lonely, Removing, Crowded}

ASSUME PlainCameras
=============================================================================
