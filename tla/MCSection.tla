----------------------------- MODULE MCSection ------------------------------
(* A section read from any file of up to three of these lines: an option with  *)
(* a value, without one, with either separator, with both, with blanks; and    *)
(* the names and values to change it with: plain, with a separator, padded.    *)
EXTENDS Section

MCChars == {"a", "b", "=", ":", " ", "#", ";", "["}
Name   == <<"a">>
Pair   == <<"a", ":", "b">>
Padded == <<" ", "b">>

MCOpts   == {Name, Pair, Padded}
MCValues == {Empty, <<"b">>, Padded}
MCLines  == {Name, Pair, <<"a", "=", "b">>, Pair \o <<"=">>, Padded \o <<" ", "=", " ", "a">>}
AnyFile == BoundedSeq(MCLines, 3)
=============================================================================
