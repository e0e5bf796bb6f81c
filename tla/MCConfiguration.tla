-------------------------- MODULE MCConfiguration ---------------------------
(* Names g, "global", which Read makes first, and s and t of the file, for up *)
(* to two goroutines; one regex that matches the last name and one that       *)
(* matches two names, which are neighbours.                                   *)
EXTENDS Configuration
CONSTANTS p1, p2, g, s, t
FileOrder == <<g, s, t>>
OneOrTwo  == {{t}, {g, s}}
=============================================================================
