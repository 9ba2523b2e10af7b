------------------------------ MODULE MCLookup ------------------------------
(* Rings of up to four machines, every identifier between, below and above *)
(* theirs, and every list content allowed for lists of two entries.        *)
EXTENDS Lookup

MCNode == {2, 4, 6, 8}
MCKey == 1..9
=============================================================================
