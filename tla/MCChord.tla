------------------------------ MODULE MCChord -------------------------------
(* Small rings for TLC.  A node is named by the identifier of its address. *)
EXTENDS Chord

\* every node is started with the address the others see
Plain == [n \in Node |-> n]

NoNodes == <<>>
Ring1 == <<1>>
Ring12 == <<1, 2>>
Ring13 == <<1, 3>>
Ring123 == <<1, 2, 3>>

NoJoin == {}
Join21 == {<<2, 1>>}
Join23 == {<<2, 3>>}

\* Stabilize objects per node: one each, or two at the joining node
OneEach == [n \in Node |-> 1]
TwoAt2 == [n \in Node |-> IF n = 2 THEN 2 ELSE 1]
=============================================================================
