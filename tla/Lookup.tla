------------------------------- MODULE Lookup -------------------------------
(***************************************************************************)
(* One find_successor request travelling through a ring whose tables do    *)
(* not change: the routing algorithm of FindSuccessor on its own, without  *)
(* churn, delays or losses (the module Chord adds those).                  *)
(*                                                                         *)
(* The tables are as arbitrary as the algorithm tolerates: the first entry *)
(* of each successor list is the node's true successor, and the others are *)
(* any members of the ring, in any order and with repetitions (Stabilize   *)
(* copies them from neighbours, so they may be stale).                     *)
(***************************************************************************)
EXTENDS Routing

CONSTANTS Node,     \* identifiers of the machines that may form the ring
          Key       \* identifiers that may be looked up

ASSUME NodeAssumption == Node \subseteq Id
ASSUME KeyAssumption == Key \subseteq Id

VARIABLES
    ring,           \* the machines that form the ring
    succ_list,      \* the successor list of each of them
    id,             \* the identifier that is looked up
    at,             \* the node whose handle_request has the request
    relays,         \* the nodes that forwarded it and await the answer
    answer          \* the peer in the response, NoPeer before there is one

vars == <<ring, succ_list, id, at, relays, answer>>

ListOver(R) == UNION {[1..len -> R] : len \in 1..SuccListSize}

-----------------------------------------------------------------------------
Init ==
    /\ ring \in SUBSET Node \ {{}}
    /\ succ_list \in {t \in [ring -> ListOver(ring)] :
                        \A n \in ring : IsNext(Head(t[n]), n, ring)}
    /\ id \in Key
    /\ at \in ring
    /\ relays = {}
    /\ answer = NoPeer

\* FindSuccessor::handle_request when this node knows the successor
Respond ==
    /\ answer = NoPeer
    /\ find_successor(at, succ_list[at], id) # NoPeer
    /\ answer' = find_successor(at, succ_list[at], id)
    /\ UNCHANGED <<ring, succ_list, id, at, relays>>

\* FindSuccessor::forward_request
forward_request ==
    /\ answer = NoPeer
    /\ find_successor(at, succ_list[at], id) = NoPeer
    /\ at' = closest_preceding_node(at, succ_list[at], id)
    /\ relays' = relays \cup {at}
    /\ UNCHANGED <<ring, succ_list, id, answer>>

Next == Respond \/ forward_request

Spec == Init /\ [][Next]_vars /\ WF_vars(Next)

-----------------------------------------------------------------------------
TypeOK ==
    /\ ring \in SUBSET Node
    /\ succ_list \in [ring -> Seq(ring) \ {<<>>}]
    /\ id \in Key
    /\ at \in ring
    /\ relays \subseteq ring
    /\ answer \in ring \cup {NoPeer}

\* A lookup answers with the ring's successor of the identifier, whatever the
\* rest of the lists holds and whichever node was asked first
\* (FindSuccessor::find_successor).
LookupCorrect == answer # NoPeer => IsSuccessorOf(answer, id, ring)

\* A request is never forwarded to a node that is already relaying it: each
\* relay waits for the next one, so a cycle would make all of them wait until
\* they time out (FindSuccessor::forward_request).
NoRelayCycle == at \notin relays

\* Every lookup is eventually answered.
LookupTerminates == <>(answer # NoPeer)
=============================================================================
