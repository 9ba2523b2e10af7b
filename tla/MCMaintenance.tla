--------------------------- MODULE MCMaintenance ----------------------------
(* Node 4 between 2 and 6.  Its successor answers with nothing, or with    *)
(* the new node 5 as its predecessor, which is asked next.                 *)
EXTENDS Maintenance

MCPredAndSuccLists == {<<>>, <<5, 6>>}
MCSelfAndSuccLists == {<<5, 6>>}
=============================================================================
