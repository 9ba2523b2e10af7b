------------------------------ MODULE Routing ------------------------------
(***************************************************************************)
(* The pure part of peerpaste's Chord ring: the circular order on peer     *)
(* identifiers, the operations of the routing table on a successor list,   *)
(* and the two routing decisions a node takes for a lookup.                *)
(*                                                                         *)
(* A peer is abstracted to its identifier.  Identifiers are SHA-256        *)
(* digests in the code and are only compared as strings, so any positive   *)
(* naturals in the same order stand for them.  A default-constructed Peer  *)
(* has the empty string as identifier, which is below every digest: it is  *)
(* BlankId.                                                                *)
(***************************************************************************)
EXTENDS Integers, Sequences, FiniteSetsExt

CONSTANTS
    SuccListSize,   \* succ_list_size_ of the routing table (10 in the code)
    NoPeer          \* a null pointer to a Peer

BlankId == 0

Id == Nat \ {BlankId}

Peer == Nat         \* an identifier, or a blank peer

ASSUME SuccListSizeAssumption == SuccListSize \in Nat \ {0}
ASSUME NoPeerAssumption == NoPeer \notin Peer

-----------------------------------------------------------------------------
\* mutant of between: the arc does not wrap around zero
between_linear(id_1, id_2, id_3) == id_1 < id_2 /\ id_2 < id_3

(* util::between: does id_2 lie strictly inside the clockwise arc from     *)
(* id_1 to id_3?                                                           *)
between(id_1, id_2, id_3) ==
    IF id_1 < id_3
    THEN id_1 < id_2 /\ id_2 < id_3
    ELSE id_1 < id_2 \/ id_2 < id_3

-----------------------------------------------------------------------------
(* The routing table's operations on its successor list.                   *)

\* mutant of Resize: the last entry of the list is lost
Resize_short(list) ==
    [i \in 1..SuccListSize |-> IF i <= Len(list) /\ i < SuccListSize THEN list[i] ELSE BlankId]

\* std::vector::resize: cut the list or fill it up with default peers
Resize(list) ==
    [i \in 1..SuccListSize |-> IF i <= Len(list) THEN list[i] ELSE BlankId]

set_successor(list, peer) ==
    IF list = <<>> THEN <<peer>> ELSE [list EXCEPT ![1] = peer]

replace_successor_list(new_succ_list) == Resize(new_succ_list)

replace_after_successor(list, new_succ_list) ==
    Resize(<<Head(list)>> \o new_succ_list \o Tail(list))

\* mutant of pop_front: the list is left alone
pop_front_never(list) == list

\* mutant of pop_front: the only successor is given up, too
pop_front_any(list) == Tail(list)

pop_front(list) == IF Len(list) <= 1 THEN list ELSE Tail(list)

-----------------------------------------------------------------------------
(* FindSuccessor's decisions at the node with identifier self and          *)
(* successor list peers.                                                   *)

\* mutant of Preceding: id itself may be among them
Preceding_closed(self, peers, id) ==
    {i \in 1..Len(peers) : between(self, peers[i], id) \/ peers[i] = id}

\* the positions of the list whose peer lies between self and id
Preceding(self, peers, id) ==
    {i \in 1..Len(peers) : between(self, peers[i], id)}

\* mutant of closest_preceding_node: the last peer of the list, unseen
closest_preceding_node_last(self, peers, id) == peers[Len(peers)]

closest_preceding_node(self, peers, id) ==
    IF Preceding(self, peers, id) = {}
    THEN self
    ELSE peers[Max(Preceding(self, peers, id))]

\* mutant of find_successor: it returns what was looked up
find_successor_echo(self, peers, id) ==
    IF closest_preceding_node(self, peers, id) = self THEN id ELSE NoPeer

\* the successor of id as far as this node knows it, NoPeer to ask further
find_successor(self, peers, id) ==
    IF peers # <<>> /\ (between(self, id, Head(peers)) \/ id = Head(peers))
    THEN Head(peers)
    ELSE IF closest_preceding_node(self, peers, id) = self
         THEN self
         ELSE NoPeer

-----------------------------------------------------------------------------
(* Reference: what a set R of identifiers on the ring means, told apart    *)
(* from how the nodes compute it.                                          *)

\* p is the first member of R met when going clockwise from k, k included
IsSuccessorOf(p, k, R) ==
    /\ p \in R
    /\ p = k \/ (k \notin R /\ \A m \in R : ~between(k, m, p))

\* p is the first member of R met when going clockwise from n, n excluded
IsNext(p, n, R) == p \in R /\ \A m \in R : ~between(n, m, p)
=============================================================================
