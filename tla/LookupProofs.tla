---------------------------- MODULE LookupProofs ----------------------------
(* A lookup in a ring whose first successors are right is answered with    *)
(* the right peer and never comes back to a node that relays it, for every *)
(* set of machines, every identifier and every length of successor lists.  *)
EXTENDS Lookup, RoutingLemmas, SequenceTheorems

\* what the tables promise, and no step changes
FirstSuccessors == \A n \in ring : IsNext(Head(succ_list[n]), n, ring)

\* the request moves clockwise towards the identifier and does not pass it
MovesClockwise == \A v \in relays : between(v, at, id)

IInv == TypeOK /\ FirstSuccessors /\ MovesClockwise /\ LookupCorrect

LEMMA NodesArePeers ==
    ASSUME TypeOK
    PROVE  /\ ring \subseteq Peer /\ at \in Peer /\ id \in Peer
           /\ relays \subseteq Peer
           /\ succ_list[at] \in Seq(Peer) \ {<<>>}
           /\ succ_list[at] \in Seq(ring)
<1>1. ring \subseteq Peer /\ at \in Peer /\ id \in Peer /\ relays \subseteq Peer
  BY NodeAssumption, KeyAssumption DEF TypeOK, Id, Peer
<1>2. succ_list[at] \in Seq(ring) \ {<<>>}
  BY DEF TypeOK
<1>3. Seq(ring) \subseteq Seq(Peer)
  BY <1>1, SeqMonotonic
<1> QED  BY <1>1, <1>2, <1>3

LEMMA InitEstablishes == Init => IInv
<1> SUFFICES ASSUME Init PROVE IInv
  OBVIOUS
<1>1. \A t \in ListOver(ring) : t \in Seq(ring) \ {<<>>}
  <2>1. ASSUME NEW len \in 1..SuccListSize, NEW t \in [1..len -> ring]
        PROVE  t \in Seq(ring) \ {<<>>}
    BY <2>1, SuccListSizeAssumption
  <2> QED  BY <2>1 DEF ListOver
<1>2. succ_list \in [ring -> Seq(ring) \ {<<>>}]
  BY <1>1 DEF Init
<1> QED  BY <1>2 DEF Init, IInv, TypeOK, FirstSuccessors, MovesClockwise, LookupCorrect

-----------------------------------------------------------------------------
(* An answer given by a node with a right first successor is right.        *)
LEMMA AnswerIsSuccessor ==
    ASSUME NEW R \in SUBSET Peer, NEW n \in R, NEW k \in Peer,
           NEW list \in Seq(Peer) \ {<<>>}, IsNext(Head(list), n, R),
           find_successor(n, list, k) # NoPeer
    PROVE  IsSuccessorOf(find_successor(n, list, k), k, R)
<1> DEFINE next == Head(list)
<1>1. n \in Peer /\ next \in R /\ next \in Peer /\ \A m \in R : ~between(n, m, next)
  BY DEF IsNext
<1>2. CASE between(n, k, next) \/ k = next
  <2>1. find_successor(n, list, k) = next
    BY <1>1, <1>2, FindSuccessorProperties
  <2>2. CASE k = next
    BY <1>1, <2>1, <2>2 DEF IsSuccessorOf
  <2>3. CASE between(n, k, next)
    <3>1. \A m \in R : ~between(k, m, next)
      BY <1>1, <2>3, BetweenIsTransitive
    <3> QED  BY <1>1, <2>1, <2>3, <3>1 DEF IsSuccessorOf
  <2> QED  BY <1>2, <2>2, <2>3
<1>3. CASE ~(between(n, k, next) \/ k = next)
  <2>1. find_successor(n, list, k) = n /\ Preceding(n, list, k) = {}
    BY <1>1, <1>3, FindSuccessorProperties
  <2>2. ~between(n, next, k)
    <3>1. 1 \in 1..Len(list) /\ list[1] = next
      OBVIOUS
    <3> QED  BY <2>1, <3>1 DEF Preceding
  <2>3. n = k
    <3>1. n = k \/ n = next
      BY <1>1, <1>3, <2>2, BetweenIsTotal
    <3>2. n = next => n = k
      BY <1>1, <1>3 DEF between, Peer
    <3> QED  BY <3>1, <3>2
  <2> QED  BY <2>1, <2>3 DEF IsSuccessorOf
<1> QED  BY <1>2, <1>3

LEMMA StepPreserves == IInv /\ [Next]_vars => IInv'
<1> SUFFICES ASSUME IInv, [Next]_vars PROVE IInv'
  OBVIOUS
<1> USE DEF IInv
<1> DEFINE list == succ_list[at]
<1>0. /\ ring \subseteq Peer /\ at \in Peer /\ id \in Peer /\ relays \subseteq Peer
      /\ list \in Seq(Peer) \ {<<>>} /\ list \in Seq(ring) /\ at \in ring
  BY NodesArePeers DEF TypeOK
<1>1. CASE Respond
  <2>1. IsNext(Head(list), at, ring)
    BY <1>0 DEF FirstSuccessors
  <2>2. IsSuccessorOf(answer', id, ring)
    BY <1>0, <1>1, <2>1, AnswerIsSuccessor DEF Respond
  <2>3. answer' \in ring
    BY <2>2 DEF IsSuccessorOf
  <2> QED  BY <1>1, <2>2, <2>3
           DEF Respond, TypeOK, FirstSuccessors, MovesClockwise, LookupCorrect
<1>2. CASE forward_request
  <2>1. /\ at' \in ring
        /\ between(at, at', id)
    <3>1. closest_preceding_node(at, list, id) # at
      BY <1>0, <1>2, NoPeerAssumption, FindSuccessorProperties DEF forward_request
    <3>2. PICK i \in 1..Len(list) : at' = list[i]
      BY <1>0, <1>2, <3>1, ClosestPrecedingProperties DEF forward_request
    <3>3. between(at, at', id)
      BY <1>0, <1>2, <3>1, ClosestPrecedingProperties DEF forward_request
    <3> QED  BY <1>0, <3>2, <3>3
  <2>2. MovesClockwise'
    <3>1. ASSUME NEW v \in relays
          PROVE  between(v, at', id)
      <4>1. between(v, at, id) /\ v \in Peer /\ at' \in Peer
        BY <1>0, <2>1 DEF MovesClockwise
      <4> QED  BY <1>0, <2>1, <4>1, BetweenIsTransitive
    <3> QED  BY <1>2, <2>1, <3>1 DEF forward_request, MovesClockwise
  <2> QED  BY <1>0, <1>2, <2>1, <2>2
           DEF forward_request, TypeOK, FirstSuccessors, LookupCorrect
<1>3. CASE UNCHANGED vars
  BY <1>3 DEF vars, TypeOK, FirstSuccessors, MovesClockwise, LookupCorrect
<1> QED  BY <1>1, <1>2, <1>3 DEF Next

LEMMA InvariantImpliesNoCycle == IInv => NoRelayCycle
<1> SUFFICES ASSUME IInv PROVE NoRelayCycle
  OBVIOUS
<1>1. at \in Peer /\ id \in Peer
  BY NodesArePeers DEF IInv
<1>2. ~between(at, at, id)
  BY <1>1, BetweenIsStrict
<1> QED  BY <1>2 DEF IInv, MovesClockwise, NoRelayCycle

-----------------------------------------------------------------------------
LEMMA InvariantHolds == Spec => []IInv
BY InitEstablishes, StepPreserves, PTL DEF Spec

(* Every value of a lookup's state is of the kind the code handles: the    *)
(* request only ever reaches members of the ring                           *)
(* (FindSuccessor::handle_request, forward_request).                       *)
THEOREM LookupTypeCorrect == Spec => []TypeOK
BY InvariantHolds, PTL DEF IInv

(* A lookup is only ever answered with the ring's successor of the         *)
(* identifier (FindSuccessor::find_successor).                             *)
THEOREM LookupIsCorrect == Spec => []LookupCorrect
BY InvariantHolds, PTL DEF IInv

(* A lookup never returns to a node that waits for its answer              *)
(* (FindSuccessor::closest_preceding_node).                                *)
THEOREM LookupHasNoRelayCycle == Spec => []NoRelayCycle
BY InvariantHolds, InvariantImpliesNoCycle, PTL
=============================================================================
