------------------------------ MODULE MCFiles -------------------------------
(* Rings of three and four nodes; files of two or three blocks.            *)
EXTENDS Files, FiniteSets

MCSucc == [n \in Node |-> (n % Cardinality(Node)) + 1]

\* node 1 has the file
OneVersion == [n \in Node |-> IF n = 1 THEN <<"a", "a", "a">> ELSE NoFile]

\* nodes 1 and 3 have different files of the same name
TwoVersions ==
    [n \in Node |-> CASE n = 1 -> <<"a", "a">>
                      [] n = 3 -> <<"b", "b", "b">>
                      [] OTHER -> NoFile]
=============================================================================
