----------------------------- MODULE FileStore ------------------------------
(***************************************************************************)
(* What the storage of a ring promises to its users, without a word about  *)
(* announcements, chunks, offsets and the database: a node keeps a file or *)
(* does not; it gets one in one piece from a node that keeps it; what it   *)
(* keeps it never loses or changes, whether its process runs or not; and a *)
(* process that runs offers what its node keeps, and nothing else.         *)
(***************************************************************************)
CONSTANTS
    Node,
    Original,   \* Original[n]: what users have put into the storage of n
    Empty,      \* the content without a block
    NoFile

VARIABLES
    running,    \* the nodes whose process runs
    kept,       \* the file that survives the process of its node
    files       \* the file that the node offers to others

vars == <<running, kept, files>>

Init ==
    /\ running = Node
    /\ kept = Original
    /\ files = Original

\* n gets a whole file from a node that keeps it
Copy(n) ==
    /\ n \in running
    /\ kept[n] = NoFile
    /\ \E m \in Node :
         /\ kept[m] # NoFile
         /\ kept' = [kept EXCEPT ![n] = kept[m]]
         /\ files' = [files EXCEPT ![n] = kept[m]]
    /\ UNCHANGED running

\* the process of n is killed, and offers nothing any more; a file that was
\* just being created is kept without a content
Kill(n) ==
    /\ n \in running
    /\ running' = running \ {n}
    /\ files' = [files EXCEPT ![n] = NoFile]
    /\ \/ UNCHANGED kept
       \/ kept[n] = NoFile /\ kept' = [kept EXCEPT ![n] = Empty]

Restart(n) ==
    /\ n \notin running
    /\ running' = running \cup {n}
    /\ files' = [files EXCEPT ![n] = kept[n]]
    /\ UNCHANGED kept

Next == \E n \in Node : Copy(n) \/ Kill(n) \/ Restart(n)

Spec == Init /\ [][Next]_vars
=============================================================================
