----------------------------- MODULE ChordProofs ----------------------------
(* Type correctness of the ring, and that a raised flag always has an      *)
(* object that will lower it, for every set of machines, every length of   *)
(* successor lists and any number of kills, losses and overlapping         *)
(* Stabilize objects.                                                      *)
EXTENDS Chord, RoutingLemmas, SequenceTheorems

Owner == {"get_pred_and_succ_list", "get_self_and_succ_list"}

\* the requests an object of this slot makes
StepsOf(s) == IF s = JoinSlot THEN JoinStep
              ELSE IF s = CheckSlot THEN CheckStep
              ELSE StabilizeStep

\* the identifiers node n may have
NamesOf(n) == {GivenId[n], ObservedId[n]}

\* the peers in a request of node n: a lookup is for the identifier it is
\* observed at, a notification names n itself, the others carry none
RequestOK(n, step, peers) ==
    /\ step = "find_successor" => peers = <<ObservedId[n]>>
    /\ step = "notify" => \E id \in NamesOf(n) : peers = <<id>>
    /\ step \notin {"find_successor", "notify"} => peers = <<>>

\* a peer the responder knows, and its successor list
PeerAndList(peers) == Len(peers) > 1 /\ Head(peers) \in Id

\* the peers in the answer to it
AnswerOK(n, step, peers) ==
    /\ step = "query" => peers = <<ObservedId[n]>>
    /\ step = "find_successor" => Len(peers) = 1
    /\ step = "get_successor_list" => peers # <<>>
    /\ step = "get_pred_and_succ_list" => peers = <<>> \/ PeerAndList(peers)
    /\ step = "get_self_and_succ_list" => PeerAndList(peers)
    /\ step \in {"notify", "check_predecessor"} => peers = <<>>

\* an object waits for one of its own requests; only a lookup is relayed
MessageOK(n, s, r) ==
    /\ r.leg = "none" <=> r.step = "idle"
    /\ r.step \in {"idle"} \cup StepsOf(s)
    /\ r.relays # <<>> => r.step = "find_successor"
    /\ r.leg = "req" => RequestOK(n, r.step, r.peers)
    /\ r.leg = "rsp" => AnswerOK(n, r.step, r.peers)

MessagesOK == \A n \in Node, s \in Slot : MessageOK(n, s, session[n][s])

\* a node goes by the identifier it was given or the one it is observed at
NamesOK == \A n \in Node : self[n] \in NamesOf(n)

IInv == TypeOK /\ NamesOK /\ MessagesOK /\ FlagHasOwner

\* the type invariant without the objects
TablesOK ==
    /\ running \subseteq Node
    /\ self \in [Node -> Id]
    /\ NamesOK
    /\ predecessor \in [Node -> Id \cup {NoPeer}]
    /\ successor_list \in [Node -> Seq(Peer) \ {<<>>}]
    /\ stabilize_flag \in [Node -> BOOLEAN]
    /\ check_predecessor_flag \in [Node -> BOOLEAN]
    /\ late \subseteq [from : Id, to : Node]
    /\ crashes \in Nat
    /\ losses \in Nat

\* when session s of node n becomes next, a flag that is up afterwards still
\* has its object, or gets it
OwnersKept(n, s, next) ==
    /\ \A m \in Node \ {n} :
         /\ stabilize_flag'[m] = stabilize_flag[m]
         /\ check_predecessor_flag'[m] = check_predecessor_flag[m]
    /\ stabilize_flag'[n] =>
         \/ s \in StabilizeSlot /\ next.step \in Owner
         \/ /\ stabilize_flag[n]
            /\ s \in StabilizeSlot => session[n][s].step \notin Owner
    /\ check_predecessor_flag'[n] =>
         \/ s = CheckSlot /\ next.step = "check_predecessor"
         \/ /\ check_predecessor_flag[n]
            /\ s = CheckSlot => session[n][s].step # "check_predecessor"

-----------------------------------------------------------------------------
(* A step that updates one session and keeps tables and flags in order     *)
(* preserves the invariant.                                                *)
LEMMA SessionStep ==
    ASSUME IInv, NEW n \in Node, NEW s \in Slot, NEW next \in Session,
           MessageOK(n, s, next), Continue(n, s, next), TablesOK',
           OwnersKept(n, s, next)
    PROVE  IInv'
<1>1. session \in [Node -> [Slot -> Session]]
  BY DEF IInv, TypeOK
<1>2. session' \in [Node -> [Slot -> Session]]
  BY <1>1 DEF Continue
<1>3. session'[n][s] = next
  BY <1>1 DEF Continue
<1>4. \A m \in Node, t \in Slot :
        m # n \/ t # s => session'[m][t] = session[m][t]
  BY <1>1 DEF Continue
<1>5. TypeOK' /\ NamesOK'
  BY <1>2 DEF TablesOK, TypeOK
<1>6. MessagesOK'
  BY <1>3, <1>4 DEF IInv, MessagesOK
<1>7. FlagHasOwner'
  <2> SUFFICES ASSUME NEW m \in Node
               PROVE  /\ stabilize_flag'[m] =>
                           \E t \in StabilizeSlot : session'[m][t].step \in Owner
                      /\ check_predecessor_flag'[m] =>
                           session'[m][CheckSlot].step = "check_predecessor"
    BY DEF FlagHasOwner, Owner
  <2>0. StabilizeSlot \subseteq Slot /\ CheckSlot \in Slot
    BY DEF Slot
  <2>1. ASSUME stabilize_flag'[m]
        PROVE  \E t \in StabilizeSlot : session'[m][t].step \in Owner
    <3>1. CASE m = n /\ s \in StabilizeSlot /\ next.step \in Owner
      BY <1>3, <3>1
    <3>2. CASE ~(m = n /\ s \in StabilizeSlot /\ next.step \in Owner)
      <4>1. /\ stabilize_flag[m]
            /\ m = n /\ s \in StabilizeSlot => session[n][s].step \notin Owner
        BY <2>1, <3>2 DEF OwnersKept
      <4>2. PICK t \in StabilizeSlot : session[m][t].step \in Owner
        BY <4>1 DEF IInv, FlagHasOwner, Owner
      <4>3. session'[m][t] = session[m][t]
        BY <1>4, <2>0, <4>1, <4>2
      <4> QED  BY <4>2, <4>3
    <3> QED  BY <3>1, <3>2
  <2>2. ASSUME check_predecessor_flag'[m]
        PROVE  session'[m][CheckSlot].step = "check_predecessor"
    <3>1. CASE m = n /\ s = CheckSlot /\ next.step = "check_predecessor"
      BY <1>3, <3>1
    <3>2. CASE ~(m = n /\ s = CheckSlot /\ next.step = "check_predecessor")
      <4>1. /\ check_predecessor_flag[m]
            /\ m = n /\ s = CheckSlot =>
                 session[n][s].step # "check_predecessor"
        BY <2>2, <3>2 DEF OwnersKept
      <4>2. session[m][CheckSlot].step = "check_predecessor"
        BY <4>1 DEF IInv, FlagHasOwner
      <4> QED  BY <1>4, <2>0, <4>1, <4>2
    <3> QED  BY <3>1, <3>2
  <2> QED  BY <2>1, <2>2
<1> QED  BY <1>5, <1>6, <1>7 DEF IInv

-----------------------------------------------------------------------------
(* What the invariant says of one node, and of one object.                 *)

LEMMA NodeState ==
    ASSUME IInv, NEW n \in Node
    PROVE  /\ self[n] \in Id /\ self[n] \in Peer
           /\ self[n] \in NamesOf(n)
           /\ predecessor[n] \in Id \cup {NoPeer}
           /\ successor_list[n] \in Seq(Peer) \ {<<>>}
           /\ Head(successor_list[n]) \in Peer
BY DEF IInv, TypeOK, NamesOK, Id, Peer

LEMMA SessionState ==
    ASSUME IInv, NEW n \in Node, NEW s \in Slot
    PROVE  /\ session[n][s] \in Session
           /\ MessageOK(n, s, session[n][s])
           /\ session[n][s].to \in Peer
           /\ session[n][s].peers \in Seq(Peer)
           /\ session[n][s].relays \in Seq(Node)
BY DEF IInv, TypeOK, MessagesOK, Session

LEMMA TablesState ==
    ASSUME IInv
    PROVE  /\ TablesOK
           /\ session \in [Node -> [Slot -> Session]]
BY DEF IInv, TypeOK, TablesOK

(* What an object may become is an object.                                 *)

LEMMA IdleIsSession ==
    Idle \in Session /\ \A n \in Node, s \in Slot : MessageOK(n, s, Idle)
<1>1. BlankId \in Peer
  BY DEF BlankId, Peer
<1>2. <<>> \in Seq(Node) /\ <<>> \in Seq(Peer)
  BY EmptySeq
<1> QED  BY <1>1, <1>2 DEF Idle, Session, MessageOK

LEMMA VoidIsSession ==
    ASSUME NEW n \in Node, NEW s \in Slot, NEW r \in Session,
           MessageOK(n, s, r), r.step # "idle"
    PROVE  /\ [r EXCEPT !.leg = "void"] \in Session
           /\ [r EXCEPT !.leg = "void"].step = r.step
           /\ [r EXCEPT !.leg = "void"].leg = "void"
           /\ MessageOK(n, s, [r EXCEPT !.leg = "void"])
<1> DEFINE next == [r EXCEPT !.leg = "void"]
<1>1. /\ next \in Session /\ next.step = r.step /\ next.leg = "void"
      /\ next.relays = r.relays
  BY DEF Session
<1> HIDE DEF next
<1>2. MessageOK(n, s, next)
  BY <1>1 DEF MessageOK
<1> QED  BY <1>1, <1>2 DEF next

(* A step that leaves tables and flags alone, and the object its step.     *)
LEMMA QuietStep ==
    ASSUME IInv, NEW n \in Node, NEW s \in Slot, NEW next \in Session,
           MessageOK(n, s, next), Continue(n, s, next),
           next.step = session[n][s].step,
           UNCHANGED flags, TablesOK'
    PROVE  IInv'
<1>1. OwnersKept(n, s, next)
  <2>1. stabilize_flag' = stabilize_flag
        /\ check_predecessor_flag' = check_predecessor_flag
    BY DEF flags
  <2>2. StabilizeSlot \subseteq Slot
    BY DEF Slot
  <2> QED  BY <2>1, <2>2 DEF OwnersKept
<1> QED  BY <1>1, SessionStep

-----------------------------------------------------------------------------
(* The request handlers answer an object or pass its request on.           *)

LEMMA RespondStep ==
    ASSUME IInv, NEW n \in Node, NEW s \in Slot, NEW peers \in Seq(Peer),
           Respond(n, s, peers), session[n][s].leg = "req",
           AnswerOK(n, session[n][s].step, peers),
           UNCHANGED <<running, table, flags, late, faults>>
    PROVE  IInv'
<1> DEFINE next == [session[n][s] EXCEPT !.leg = "rsp", !.peers = peers]
<1>1. /\ next \in Session /\ next.step = session[n][s].step
      /\ next.leg = "rsp" /\ next.peers = peers
      /\ next.relays = session[n][s].relays
  BY SessionState DEF Session
<1>2. MessageOK(n, s, next)
  <2> HIDE DEF next
  <2> QED  BY <1>1, SessionState DEF MessageOK
<1>3. TablesOK'
  BY TablesState DEF TablesOK, NamesOK, table, flags, faults
<1>4. Continue(n, s, next) /\ UNCHANGED flags
  BY DEF Respond
<1> QED
  <2> HIDE DEF next
  <2> QED  BY <1>1, <1>2, <1>3, <1>4, QuietStep

LEMMA RequestHandlersPreserve ==
    ASSUME IInv, NEW n \in Node, NEW s \in Slot, NEW m \in Node,
           Request_handlers(n, s, m)
    PROVE  IInv'
<1> DEFINE r == session[n][s]
<1>0. /\ r \in Session /\ MessageOK(n, s, r) /\ r.to \in Peer
      /\ r.peers \in Seq(Peer) /\ r.relays \in Seq(Node)
  BY SessionState
<1>a. /\ self[m] \in Peer /\ predecessor[m] \in Id \cup {NoPeer}
      /\ successor_list[m] \in Seq(Peer) \ {<<>>}
      /\ Head(successor_list[m]) \in Peer
  BY NodeState
<1>b. Id \subseteq Peer
  BY DEF Id, Peer
<1>1. CASE Query_handle_request(n, s, m)
  <2>1. ObservedId[n] \in Id
    BY NodesAssumption
  <2>2. <<ObservedId[n]>> \in Seq(Peer)
    BY <2>1, <1>b
  <2>3. r.leg = "req" /\ AnswerOK(n, r.step, <<ObservedId[n]>>)
    BY <1>1 DEF Query_handle_request, Arrived, AnswerOK
  <2> QED  BY <1>1, <2>2, <2>3, RespondStep DEF Query_handle_request
<1>2. CASE FindSuccessor_handle_request(n, s, m)
  <2> DEFINE successor == find_successor(self[m], successor_list[m], Head(r.peers))
  <2>1. r.peers # <<>> /\ Head(r.peers) \in Peer
    BY <1>0, <1>2, NodesAssumption, <1>b
    DEF FindSuccessor_handle_request, Arrived, MessageOK, RequestOK
  <2>2. successor # NoPeer
    BY <1>2 DEF FindSuccessor_handle_request
  <2>3. successor \in Peer
    BY <1>a, <2>1, <2>2, FindSuccessorProperties
  <2>4. /\ r.step = "find_successor" /\ r.leg = "req"
        /\ Respond(n, s, <<successor>>)
        /\ UNCHANGED <<running, table, flags, late, faults>>
    BY <1>2 DEF FindSuccessor_handle_request, Arrived
  <2> HIDE DEF successor
  <2>5. <<successor>> \in Seq(Peer) /\ AnswerOK(n, r.step, <<successor>>)
    BY <2>3, <2>4 DEF AnswerOK
  <2> QED  BY <2>4, <2>5, RespondStep
<1>3. CASE forward_request(n, s, m)
  <2> DEFINE closest == closest_preceding_node(self[m], successor_list[m], Head(r.peers))
             next == [r EXCEPT !.to = closest, !.relays = Append(@, m)]
  <2>1. r.peers # <<>> /\ Head(r.peers) \in Peer
    BY <1>0, <1>3, NodesAssumption, <1>b
    DEF forward_request, Arrived, MessageOK, RequestOK
  <2>2. closest \in Peer
    BY <1>a, <2>1, ClosestPrecedingProperties
  <2>3. Append(r.relays, m) \in Seq(Node)
    BY <1>0
  <2>4. /\ next \in Session /\ next.step = r.step /\ next.leg = r.leg
        /\ next.peers = r.peers
    <3> HIDE DEF closest
    <3> QED  BY <1>0, <2>2, <2>3 DEF Session
  <2>5. Continue(n, s, next) /\ UNCHANGED <<running, table, flags, late, faults>>
    BY <1>3 DEF forward_request
  <2>6. MessageOK(n, s, next)
    <3>1. r.step = "find_successor" /\ r.leg = "req"
      BY <1>3 DEF forward_request, Arrived
    <3> HIDE DEF next
    <3> QED  BY <1>0, <2>4, <3>1 DEF MessageOK
  <2>7. TablesOK'
    BY <2>5, TablesState DEF TablesOK, NamesOK, table, flags, faults
  <2>8. UNCHANGED flags
    BY <2>5
  <2> HIDE DEF next
  <2> QED  BY <2>4, <2>5, <2>6, <2>7, <2>8, QuietStep
<1>4. CASE GetSuccessorList_handle_request(n, s, m)
  BY <1>4, <1>a, RespondStep
  DEF GetSuccessorList_handle_request, Arrived, AnswerOK
<1>5. CASE GetPredAndSuccList_handle_request(n, s, m)
  <2> DEFINE answer == IF predecessor[m] = NoPeer
                       THEN <<>>
                       ELSE <<predecessor[m]>> \o successor_list[m]
  <2>1. answer \in Seq(Peer) /\ (answer = <<>> \/ PeerAndList(answer))
    BY <1>a, <1>b DEF PeerAndList
  <2>2. /\ r.step = "get_pred_and_succ_list" /\ r.leg = "req"
        /\ Respond(n, s, answer)
        /\ UNCHANGED <<running, table, flags, late, faults>>
    BY <1>5 DEF GetPredAndSuccList_handle_request, Arrived
  <2> HIDE DEF answer
  <2>3. AnswerOK(n, r.step, answer)
    BY <2>1, <2>2 DEF AnswerOK
  <2> QED  BY <2>1, <2>2, <2>3, RespondStep
<1>6. CASE GetSelfAndSuccList_handle_request(n, s, m)
  <2> DEFINE answer == <<self[m]>> \o successor_list[m]
  <2>1. answer \in Seq(Peer) /\ PeerAndList(answer)
    BY <1>a, NodeState DEF PeerAndList
  <2>2. /\ r.step = "get_self_and_succ_list" /\ r.leg = "req"
        /\ Respond(n, s, answer)
        /\ UNCHANGED <<running, table, flags, late, faults>>
    BY <1>6 DEF GetSelfAndSuccList_handle_request, Arrived
  <2> HIDE DEF answer
  <2>3. AnswerOK(n, r.step, answer)
    BY <2>1, <2>2 DEF AnswerOK
  <2> QED  BY <2>1, <2>2, <2>3, RespondStep
<1>7. CASE CheckPredecessor_handle_request(n, s, m)
  <2>1. <<>> \in Seq(Peer)
    OBVIOUS
  <2> QED  BY <1>7, <2>1, RespondStep
           DEF CheckPredecessor_handle_request, Arrived, AnswerOK
<1>8. CASE Notification_handle_request(n, s, m)
  <2> DEFINE leg == IF predecessor[m] = NoPeer THEN "void" ELSE "rsp"
             next == [r EXCEPT !.leg = leg, !.peers = <<>>]
  <2>1. Head(r.peers) \in Id /\ r.step = "notify"
    BY <1>0, <1>8, NodesAssumption
    DEF Notification_handle_request, Arrived, MessageOK, RequestOK, NamesOf
  <2>2. /\ next \in Session /\ next.step = r.step
        /\ next.leg \in {"void", "rsp"}
        /\ next.peers = <<>> /\ next.relays = r.relays
    <3>1. leg \in {"void", "rsp"} /\ <<>> \in Seq(Peer)
      OBVIOUS
    <3> HIDE DEF leg
    <3> QED  BY <1>0, <3>1 DEF Session
  <2>3. /\ Continue(n, s, next)
        /\ predecessor' = Rectified(m, Head(r.peers))
        /\ UNCHANGED <<running, self, successor_list, flags, late, faults>>
    BY <1>8 DEF Notification_handle_request
  <2>4. MessageOK(n, s, next)
    <3> HIDE DEF next
    <3> QED  BY <1>0, <2>1, <2>2 DEF MessageOK, AnswerOK
  <2>5. predecessor' \in [Node -> Id \cup {NoPeer}]
    BY <2>1, <2>3, TablesState DEF TablesOK, Rectified
  <2>6. TablesOK'
    BY <2>3, <2>5, TablesState DEF TablesOK, NamesOK, flags, faults
  <2>7. UNCHANGED flags
    BY <2>3
  <2> HIDE DEF next
  <2> QED  BY <2>2, <2>3, <2>4, <2>6, <2>7, QuietStep
<1> QED  BY <1>1, <1>2, <1>3, <1>4, <1>5, <1>6, <1>7, <1>8 DEF Request_handlers

-----------------------------------------------------------------------------
(* The response handlers.                                                  *)

(* The last request of a Stabilize lowers the flag.                        *)
LEMMA NotifyStep ==
    ASSUME IInv, NEW n \in Node, NEW s \in Slot,
           session[n][s].step \in StabilizeStep,
           NEW list \in Seq(Peer) \ {<<>>},
           successor_list' = [successor_list EXCEPT ![n] = list],
           stabilize_flag' = [stabilize_flag EXCEPT ![n] = FALSE],
           create_notification(n, s),
           UNCHANGED <<running, self, predecessor, check_predecessor_flag, late, faults>>
    PROVE  IInv'
<1> DEFINE next == Notification_create_request(Head(successor_list'[n]), self[n])
<1>1. TablesOK'
  BY TablesState DEF TablesOK, NamesOK, faults
<1>2. /\ Head(successor_list'[n]) \in Peer /\ <<self[n]>> \in Seq(Peer)
      /\ self[n] \in NamesOf(n)
  BY NodeState, TablesState DEF TablesOK
<1>3. /\ next \in Session /\ next.step = "notify" /\ next.leg = "req"
      /\ next.relays = <<>> /\ next.peers = <<self[n]>>
  BY <1>2, EmptySeq DEF Notification_create_request, Request, Session, StabilizeStep
<1>4. MessageOK(n, s, next)
  <2>1. "notify" \in StepsOf(s)
    BY SessionState DEF MessageOK, StepsOf, JoinStep, StabilizeStep, CheckStep
  <2> HIDE DEF next
  <2> QED  BY <1>2, <1>3, <2>1 DEF MessageOK, RequestOK
<1>5. OwnersKept(n, s, next)
  BY TablesState DEF OwnersKept, TablesOK, StabilizeStep
<1>6. Continue(n, s, next)
  BY DEF create_notification
<1> HIDE DEF next
<1> QED  BY <1>1, <1>3, <1>4, <1>5, <1>6, SessionStep

LEMMA ResponseHandlersPreserve ==
    ASSUME IInv, NEW n \in Node, NEW s \in Slot, Response_handlers(n, s)
    PROVE  IInv'
<1> DEFINE r == session[n][s]
<1>0. /\ r \in Session /\ MessageOK(n, s, r) /\ r.to \in Peer
      /\ r.peers \in Seq(Peer) /\ r.relays \in Seq(Node)
  BY SessionState
<1>a. /\ self[n] \in Id /\ self[n] \in Peer
      /\ successor_list[n] \in Seq(Peer) \ {<<>>}
      /\ Head(successor_list[n]) \in Peer
  BY NodeState
<1>b. Id \subseteq Peer
  BY DEF Id, Peer
<1>1. CASE handle_forwarded_response(n, s)
  <2> DEFINE next == [r EXCEPT !.relays = Front(@)]
  <2>1. r.relays # <<>> /\ r.leg = "rsp"
    BY <1>1 DEF handle_forwarded_response
  <2>2. Front(r.relays) \in Seq(Node)
    BY <1>0, <2>1 DEF Front
  <2>3. /\ next \in Session /\ next.step = r.step
        /\ next.leg = r.leg /\ next.peers = r.peers
    BY <1>0, <2>2 DEF Session
  <2>4. Continue(n, s, next) /\ UNCHANGED <<running, table, flags, late, faults>>
    BY <1>1 DEF handle_forwarded_response
  <2>5. MessageOK(n, s, next)
    <3> HIDE DEF next
    <3> QED  BY <1>0, <2>1, <2>3 DEF MessageOK
  <2>6. TablesOK' /\ UNCHANGED flags
    BY <2>4, TablesState DEF TablesOK, NamesOK, table, flags, faults
  <2> HIDE DEF next
  <2> QED  BY <2>3, <2>4, <2>5, <2>6, QuietStep
<1>2. CASE handle_query_notify(n, s)
  <2> DEFINE next == FindSuccessor_create_request(r.to, Head(r.peers))
  <2>1. r.step = "query" /\ r.peers = <<ObservedId[n]>>
    BY <1>0, <1>2 DEF handle_query_notify, Answered, MessageOK, AnswerOK
  <2>1a. Head(r.peers) = ObservedId[n] /\ Head(r.peers) \in Id
         /\ <<Head(r.peers)>> \in Seq(Peer)
    BY <2>1, <1>b, NodesAssumption
  <2>2. /\ next \in Session /\ next.step = "find_successor"
        /\ next.leg = "req" /\ next.relays = <<>>
        /\ next.peers = <<Head(r.peers)>>
    BY <1>0, <2>1a, EmptySeq DEF FindSuccessor_create_request, Request, Session, JoinStep
  <2>3. MessageOK(n, s, next)
    <3>1. "find_successor" \in StepsOf(s)
      BY <1>0, <2>1 DEF MessageOK, StepsOf, JoinStep, StabilizeStep, CheckStep
    <3> HIDE DEF next
    <3> QED  BY <2>1a, <2>2, <3>1 DEF MessageOK, RequestOK
  <2>4. TablesOK'
    BY <1>2, <2>1a, TablesState
    DEF handle_query_notify, TablesOK, NamesOK, NamesOf, flags, faults
  <2>5. OwnersKept(n, s, next)
    BY <1>2, <2>1 DEF handle_query_notify, flags, OwnersKept, Owner
  <2>6. Continue(n, s, next)
    BY <1>2 DEF handle_query_notify
  <2> HIDE DEF next
  <2> QED  BY <2>2, <2>3, <2>4, <2>5, <2>6, SessionStep
<1>3. CASE handle_find_successor_notify(n, s)
  <2> DEFINE next == GetSuccessorList_create_request(Head(r.peers))
  <2>1. r.step = "find_successor" /\ Head(r.peers) \in Peer /\ <<>> \in Seq(Peer)
    BY <1>0, <1>3 DEF handle_find_successor_notify, Answered, MessageOK, AnswerOK
  <2>2. /\ next \in Session /\ next.step = "get_successor_list"
        /\ next.leg = "req" /\ next.relays = <<>> /\ next.peers = <<>>
    BY <2>1, EmptySeq DEF GetSuccessorList_create_request, Request, Session, JoinStep
  <2>3. MessageOK(n, s, next)
    <3>1. "get_successor_list" \in StepsOf(s)
      BY <1>0, <2>1 DEF MessageOK, StepsOf, JoinStep, StabilizeStep, CheckStep
    <3> HIDE DEF next
    <3> QED  BY <2>2, <3>1 DEF MessageOK, RequestOK
  <2>4. TablesOK'
    <3>1. set_successor(successor_list[n], Head(r.peers)) \in Seq(Peer) \ {<<>>}
      BY <1>a, <2>1, SetSuccessorType
    <3> QED  BY <1>3, <3>1, TablesState
             DEF handle_find_successor_notify, TablesOK, NamesOK, flags, faults
  <2>5. OwnersKept(n, s, next)
    BY <1>3, <2>1 DEF handle_find_successor_notify, flags, OwnersKept, Owner
  <2>6. Continue(n, s, next)
    BY <1>3 DEF handle_find_successor_notify
  <2> HIDE DEF next
  <2> QED  BY <2>2, <2>3, <2>4, <2>5, <2>6, SessionStep
<1>4. CASE handle_get_successor_list_notify(n, s)
  <2>1. replace_after_successor(successor_list[n], r.peers) \in Seq(Peer) \ {<<>>}
    BY <1>0, <1>a, ReplaceAfterType
  <2>2. TablesOK'
    BY <1>4, <2>1, TablesState
    DEF handle_get_successor_list_notify, TablesOK, NamesOK, flags, faults
  <2>3. OwnersKept(n, s, Idle)
    BY <1>4 DEF handle_get_successor_list_notify, Answered, flags, OwnersKept, Owner
  <2>4. Continue(n, s, Idle)
    BY <1>4 DEF handle_get_successor_list_notify, Destroy
  <2> QED  BY <2>2, <2>3, <2>4, IdleIsSession, SessionStep
<1>5. CASE handle_empty_pred_and_succ_list_notify(n, s)
  <2>1. pop_front(successor_list[n]) \in Seq(Peer) \ {<<>>}
    BY <1>a, PopFrontType
  <2>2. /\ successor_list' = [successor_list EXCEPT ![n] = pop_front(successor_list[n])]
        /\ stabilize_flag' = [stabilize_flag EXCEPT ![n] = FALSE]
        /\ create_notification(n, s)
        /\ UNCHANGED <<running, self, predecessor, check_predecessor_flag, late, faults>>
        /\ r.step \in StabilizeStep
    BY <1>5 DEF handle_empty_pred_and_succ_list_notify, Answered, StabilizeStep
  <2> QED  BY <2>1, <2>2, NotifyStep
<1>6. CASE handle_get_pred_and_succ_list_notify(n, s)
  <2> DEFINE rest == IF Len(r.peers) > 1 THEN Tail(r.peers) ELSE r.peers
             list == replace_successor_list(<<Head(successor_list[n])>> \o rest)
             asked == Head(r.peers)
             next == GetSelfAndSuccList_create_request(asked)
  <2>1. /\ r.peers # <<>> /\ asked \in Peer /\ r.step = "get_pred_and_succ_list"
        /\ successor_list' = [successor_list EXCEPT ![n] = list]
        /\ UNCHANGED <<running, self, predecessor, check_predecessor_flag, late, faults>>
    BY <1>0, <1>6 DEF handle_get_pred_and_succ_list_notify, Answered
  <2>2. list \in Seq(Peer) \ {<<>>}
    <3>1. rest \in Seq(Peer)
      BY <1>0, <2>1
    <3> HIDE DEF rest
    <3>2. <<Head(successor_list[n])>> \o rest \in Seq(Peer)
      BY <1>a, <3>1
    <3> QED  BY <3>2, ResizeProperties DEF replace_successor_list
  <2>3. CASE Continue(n, s, next) /\ UNCHANGED stabilize_flag
    <3>1. TablesOK'
      <4> HIDE DEF list
      <4> QED  BY <2>1, <2>2, <2>3, TablesState DEF TablesOK, NamesOK, faults
    <3>2. /\ next \in Session /\ next.step = "get_self_and_succ_list"
          /\ next.leg = "req" /\ next.relays = <<>> /\ next.peers = <<>>
      BY <2>1, EmptySeq
      DEF GetSelfAndSuccList_create_request, Request, Session, StabilizeStep
    <3>2a. "get_self_and_succ_list" \in StepsOf(s)
      BY <1>0, <2>1 DEF MessageOK, StepsOf, JoinStep, StabilizeStep, CheckStep
    <3> HIDE DEF next
    <3>3. MessageOK(n, s, next)
      BY <3>2, <3>2a DEF MessageOK, RequestOK
    <3>4. OwnersKept(n, s, next)
      BY <2>1, <2>3, <3>2 DEF OwnersKept, Owner
    <3> QED  BY <2>3, <3>1, <3>2, <3>3, <3>4, SessionStep
  <2>4. CASE /\ create_notification(n, s)
             /\ stabilize_flag' = [stabilize_flag EXCEPT ![n] = FALSE]
    <3>1. r.step \in StabilizeStep
      BY <2>1 DEF StabilizeStep
    <3> HIDE DEF list
    <3> QED  BY <2>1, <2>2, <2>4, <3>1, NotifyStep
  <2> QED  BY <1>6, <2>3, <2>4 DEF handle_get_pred_and_succ_list_notify
<1>7. CASE handle_get_self_and_succ_list_notify(n, s)
  <2>1. replace_successor_list(r.peers) \in Seq(Peer) \ {<<>>}
    BY <1>0, ResizeProperties DEF replace_successor_list
  <2>2. /\ successor_list' = [successor_list EXCEPT ![n] = replace_successor_list(r.peers)]
        /\ stabilize_flag' = [stabilize_flag EXCEPT ![n] = FALSE]
        /\ create_notification(n, s)
        /\ UNCHANGED <<running, self, predecessor, check_predecessor_flag, late, faults>>
        /\ r.step \in StabilizeStep
    BY <1>7 DEF handle_get_self_and_succ_list_notify, Answered, StabilizeStep
  <2> QED  BY <2>1, <2>2, NotifyStep
<1>8. CASE handle_notification_notify(n, s)
  <2>1. TablesOK'
    BY <1>8, TablesState
    DEF handle_notification_notify, TablesOK, NamesOK, table, flags, faults
  <2>2. OwnersKept(n, s, Idle)
    BY <1>8 DEF handle_notification_notify, Answered, flags, OwnersKept, Owner
  <2>3. Continue(n, s, Idle)
    BY <1>8 DEF handle_notification_notify, Destroy
  <2> QED  BY <2>1, <2>2, <2>3, IdleIsSession, SessionStep
<1>9. CASE CheckPredecessor_handle_response(n, s)
  <2>1. TablesOK'
    BY <1>9, TablesState
    DEF CheckPredecessor_handle_response, TablesOK, NamesOK, table, faults
  <2>2. OwnersKept(n, s, Idle)
    BY <1>9, TablesState
    DEF CheckPredecessor_handle_response, Answered, OwnersKept, Owner, TablesOK
  <2>3. Continue(n, s, Idle)
    BY <1>9 DEF CheckPredecessor_handle_response, Destroy
  <2> QED  BY <2>1, <2>2, <2>3, IdleIsSession, SessionStep
<1> QED  BY <1>1, <1>2, <1>3, <1>4, <1>5, <1>6, <1>7, <1>8, <1>9
         DEF Response_handlers

-----------------------------------------------------------------------------
(* Timeouts, and the network.                                              *)

LEMMA TimeoutsPreserve ==
    ASSUME IInv, NEW n \in Node, NEW s \in Slot, Timeouts(n, s)
    PROVE  IInv'
<1>1. CASE Join_handle_failed(n, s)
  <2>1. TablesOK'
    BY <1>1, TablesState
    DEF Join_handle_failed, TablesOK, NamesOK, table, flags, faults
  <2>2. OwnersKept(n, s, Idle)
    BY <1>1 DEF Join_handle_failed, Expired, JoinStep, flags, OwnersKept, Owner
  <2>3. Continue(n, s, Idle)
    BY <1>1 DEF Join_handle_failed, Destroy
  <2> QED  BY <2>1, <2>2, <2>3, IdleIsSession, SessionStep
<1>2. CASE Stabilize_handle_failed(n, s)
  <2>1. pop_front(successor_list[n]) \in Seq(Peer) \ {<<>>}
    BY NodeState, PopFrontType
  <2>2. TablesOK'
    BY <1>2, <2>1, TablesState
    DEF Stabilize_handle_failed, TablesOK, NamesOK, faults
  <2>3. OwnersKept(n, s, Idle)
    BY <1>2, TablesState
    DEF Stabilize_handle_failed, Expired, StabilizeStep, OwnersKept, TablesOK
  <2>4. Continue(n, s, Idle)
    BY <1>2 DEF Stabilize_handle_failed, Destroy
  <2> QED  BY <2>2, <2>3, <2>4, IdleIsSession, SessionStep
<1>3. CASE CheckPredecessor_handle_failed(n, s)
  <2>1. TablesOK'
    BY <1>3, TablesState
    DEF CheckPredecessor_handle_failed, TablesOK, NamesOK, faults
  <2>2. OwnersKept(n, s, Idle)
    BY <1>3, TablesState
    DEF CheckPredecessor_handle_failed, Expired, CheckStep, OwnersKept, Owner, TablesOK
  <2>3. Continue(n, s, Idle)
    BY <1>3 DEF CheckPredecessor_handle_failed, Destroy
  <2> QED  BY <2>1, <2>2, <2>3, IdleIsSession, SessionStep
<1> QED  BY <1>1, <1>2, <1>3 DEF Timeouts

(* An object that gets no response any more keeps the flag it has raised.  *)
LEMMA VoidStep ==
    ASSUME IInv, NEW n \in Node, NEW s \in Slot, Void(n, s),
           session[n][s].leg # "none", UNCHANGED flags, TablesOK'
    PROVE  IInv'
<1> DEFINE next == [session[n][s] EXCEPT !.leg = "void"]
<1>1. /\ next \in Session /\ MessageOK(n, s, next)
      /\ next.step = session[n][s].step
  BY SessionState, VoidIsSession DEF MessageOK
<1>2. Continue(n, s, next)
  BY DEF Void
<1> HIDE DEF next
<1> QED  BY <1>1, <1>2, QuietStep

LEMMA HostIsNode ==
    ASSUME NEW peer, IsAddress(peer)
    PROVE  HostOf(peer) \in Node
BY DEF IsAddress, HostOf

LEMMA LateIsWellFormed ==
    ASSUME IInv, NEW n \in Node, NEW s \in Slot, Travelling(n, s)
    PROVE  AsLate(n, s) \in [from : Id, to : Node]
BY SessionState, HostIsNode, NodesAssumption
DEF Travelling, AsLate, MessageOK, RequestOK, NamesOf

LEMMA StopPreserves ==
    ASSUME IInv, NEW m \in Node, Stop(m), crashes' \in Nat, losses' \in Nat
    PROVE  IInv'
<1>1. TablesOK'
  <2>1. late' \subseteq [from : Id, to : Node]
    BY LateIsWellFormed, TablesState DEF Stop, TablesOK
  <2>2. GivenId[m] \in Id /\ GivenId[m] \in Peer
    BY NodesAssumption DEF Id, Peer
  <2>3. <<GivenId[m]>> \in Seq(Peer) \ {<<>>}
    BY <2>2
  <2>4. NamesOK'
    BY TablesState DEF Stop, TablesOK, NamesOK, NamesOf
  <2> QED  BY <2>1, <2>2, <2>3, <2>4, TablesState DEF Stop, TablesOK
<1>2. ASSUME NEW n \in Node, NEW s \in Slot
      PROVE  /\ session'[n][s] \in Session
             /\ MessageOK(n, s, session'[n][s])
             /\ n # m => session'[n][s].step = session[n][s].step
  <2>1. \/ session'[n][s] = Idle /\ n = m
        \/ /\ session'[n][s] = [session[n][s] EXCEPT !.leg = "void"]
           /\ session[n][s].relays # <<>>
        \/ session'[n][s] = session[n][s]
    BY DEF Stop, Range
  <2>2. /\ session[n][s] \in Session /\ MessageOK(n, s, session[n][s])
        /\ session[n][s].relays # <<>> => session[n][s].step # "idle"
    BY SessionState DEF MessageOK
  <2>3. CASE session'[n][s] = Idle /\ n = m
    BY <2>3, IdleIsSession
  <2>4. CASE /\ session'[n][s] = [session[n][s] EXCEPT !.leg = "void"]
             /\ session[n][s].relays # <<>>
    BY <2>2, <2>4, VoidIsSession
  <2>5. CASE session'[n][s] = session[n][s]
    BY <2>2, <2>5
  <2> QED  BY <2>1, <2>3, <2>4, <2>5
<1>3. session' \in [Node -> [Slot -> Session]]
  <2>1. /\ DOMAIN session' = Node
        /\ \A n \in Node : session'[n] = [s \in Slot |-> session'[n][s]]
        /\ session' = [n \in Node |-> session'[n]]
    BY DEF Stop
  <2>2. \A n \in Node : session'[n] \in [Slot -> Session]
    BY <1>2, <2>1
  <2> QED  BY <2>1, <2>2
<1>4. TypeOK' /\ NamesOK' /\ MessagesOK'
  BY <1>1, <1>2, <1>3 DEF TypeOK, TablesOK, MessagesOK
<1>5. FlagHasOwner'
  <2> SUFFICES ASSUME NEW n \in Node
               PROVE  /\ stabilize_flag'[n] =>
                           \E t \in StabilizeSlot : session'[n][t].step \in Owner
                      /\ check_predecessor_flag'[n] =>
                           session'[n][CheckSlot].step = "check_predecessor"
    BY DEF FlagHasOwner, Owner
  <2>1. CASE n = m
    BY <2>1, TablesState DEF Stop, TablesOK
  <2>2. CASE n # m
    <3>1. /\ stabilize_flag'[n] = stabilize_flag[n]
          /\ check_predecessor_flag'[n] = check_predecessor_flag[n]
      BY <2>2, TablesState DEF Stop, TablesOK
    <3>2. \A t \in Slot : session'[n][t].step = session[n][t].step
      BY <1>2, <2>2
    <3>3. StabilizeSlot \subseteq Slot /\ CheckSlot \in Slot
      BY DEF Slot
    <3> QED  BY <3>1, <3>2, <3>3 DEF IInv, FlagHasOwner, Owner
  <2> QED  BY <2>1, <2>2
<1> QED  BY <1>4, <1>5 DEF IInv

LEMMA ProgressPreserves ==
    ASSUME IInv, NEW n \in Node, NEW s \in Slot, Progress(n, s)
    PROVE  IInv'
<1>1. CASE \E m \in Node : Request_handlers(n, s, m)
  BY <1>1, RequestHandlersPreserve
<1>2. CASE Response_handlers(n, s)
  BY <1>2, ResponseHandlersPreserve
<1>3. CASE Timeouts(n, s)
  BY <1>3, TimeoutsPreserve
<1>4. CASE connection_refused(n, s)
  <2>1. TablesOK' /\ UNCHANGED flags /\ Void(n, s) /\ session[n][s].leg # "none"
    BY <1>4, TablesState
    DEF connection_refused, TablesOK, NamesOK, table, flags, faults
  <2> QED  BY <2>1, VoidStep
<1>5. CASE send_to_blank(n, s)
  <2> DEFINE relays == session[n][s].relays
             sender == IF relays = <<>> THEN n ELSE Last(relays)
  <2>1. relays \in Seq(Node)
    BY SessionState
  <2>2. sender \in Node
    BY <2>1 DEF Last
  <2>3. Stop(sender) /\ crashes' = crashes /\ losses' = losses
    BY <1>5 DEF send_to_blank, faults
  <2>4. crashes' \in Nat /\ losses' \in Nat
    BY <2>3, TablesState DEF TablesOK
  <2> HIDE DEF sender
  <2> QED  BY <2>2, <2>3, <2>4, StopPreserves
<1> QED  BY <1>1, <1>2, <1>3, <1>4, <1>5 DEF Progress

LEMMA FaultPreserves ==
    ASSUME IInv, NEW n \in Node, Fault(n)
    PROVE  IInv'
<1>1. CASE crash(n)
  <2>1. Stop(n) /\ crashes' \in Nat /\ losses' \in Nat
    BY <1>1, TablesState DEF crash, TablesOK
  <2> QED  BY <2>1, StopPreserves
<1>2. CASE late_notification(n)
  <2>1. PICK l \in late : /\ predecessor' = Rectified(n, l.from)
                          /\ late' = late \ {l}
                          /\ UNCHANGED <<running, self, successor_list, flags,
                                         session, faults>>
    BY <1>2 DEF late_notification
  <2>2. l.from \in Id
    BY TablesState DEF TablesOK
  <2>3. predecessor' \in [Node -> Id \cup {NoPeer}]
    BY <2>1, <2>2, TablesState DEF TablesOK, Rectified
  <2>4. TypeOK' /\ NamesOK'
    BY <2>1, <2>3, TablesState DEF TablesOK, NamesOK, TypeOK, flags, faults
  <2> QED  BY <2>1, <2>4 DEF IInv, MessagesOK, FlagHasOwner, flags
<1>3. ASSUME NEW s \in Slot, lose(n, s)
      PROVE  IInv'
  <2>1. TablesOK' /\ UNCHANGED flags /\ Void(n, s) /\ session[n][s].leg # "none"
    BY <1>3, TablesState DEF lose, TablesOK, NamesOK, table, flags
  <2> QED  BY <2>1, VoidStep
<1>4. ASSUME NEW s \in Slot, delay(n, s)
      PROVE  IInv'
  <2>1. AsLate(n, s) \in [from : Id, to : Node]
    BY <1>4, LateIsWellFormed DEF delay
  <2>2. TablesOK' /\ UNCHANGED flags /\ Void(n, s) /\ session[n][s].leg # "none"
    BY <1>4, <2>1, TablesState
    DEF delay, Travelling, TablesOK, NamesOK, table, flags
  <2> QED  BY <2>2, VoidStep
<1> QED  BY <1>1, <1>2, <1>3, <1>4 DEF Fault

-----------------------------------------------------------------------------
(* The threads of a node start an object.                                  *)

LEMMA LaunchPreserves ==
    ASSUME IInv, NEW n \in Node, Launch(n)
    PROVE  IInv'
<1>1. CASE create_ring(n)
  <2>1. TypeOK' /\ NamesOK'
    BY <1>1, TablesState
    DEF create_ring, TablesOK, NamesOK, TypeOK, table, flags, faults
  <2> QED  BY <1>1, <2>1 DEF create_ring, IInv, MessagesOK, FlagHasOwner, flags
<1>2. ASSUME NEW m \in Node, join(n, m)
      PROVE  IInv'
  <2> DEFINE next == Query_create_request(ObservedId[m])
  <2>1. ObservedId[m] \in Peer
    BY NodesAssumption DEF Id, Peer
  <2>2. /\ next \in Session /\ next.step = "query" /\ next.leg = "req"
        /\ next.relays = <<>> /\ next.peers = <<>>
    BY <2>1, EmptySeq DEF Query_create_request, Request, Session, JoinStep
  <2>3. TablesOK' /\ Continue(n, JoinSlot, next)
    BY <1>2, TablesState DEF join, TablesOK, NamesOK, table, flags, faults
  <2>4. OwnersKept(n, JoinSlot, next)
    BY <1>2, SlotAssumption DEF join, flags, OwnersKept, JoinSlot, CheckSlot
  <2> HIDE DEF next
  <2>5. MessageOK(n, JoinSlot, next) /\ JoinSlot \in Slot
    BY <2>2 DEF MessageOK, RequestOK, StepsOf, JoinStep, Slot
  <2> QED  BY <2>2, <2>3, <2>4, <2>5, SessionStep
<1> QED  BY <1>1, <1>2 DEF Launch

LEMMA StabilizePreserves ==
    ASSUME IInv, NEW n \in Node, stabilize(n)
    PROVE  IInv'
<1> DEFINE next == GetPredAndSuccList_create_request(Head(successor_list[n]))
<1>1. PICK s \in StabilizeSlot : session[n][s] = Idle /\ Continue(n, s, next)
  BY DEF stabilize
<1>2. /\ next \in Session /\ next.step = "get_pred_and_succ_list"
      /\ next.leg = "req" /\ next.relays = <<>> /\ next.peers = <<>>
  BY NodeState, EmptySeq
  DEF GetPredAndSuccList_create_request, Request, Session, StabilizeStep
<1>3. TablesOK'
  BY TablesState DEF stabilize, TablesOK, NamesOK, table, faults
<1> HIDE DEF next
<1>4. MessageOK(n, s, next) /\ s \in Slot
  BY <1>2, SlotAssumption
  DEF MessageOK, RequestOK, StepsOf, StabilizeStep, Slot
<1>5. OwnersKept(n, s, next)
  BY <1>2, SlotAssumption, TablesState
  DEF stabilize, OwnersKept, Owner, TablesOK, CheckSlot
<1> QED  BY <1>1, <1>2, <1>3, <1>4, <1>5, SessionStep

LEMMA CheckPredecessorPreserves ==
    ASSUME IInv, NEW n \in Node, check_predecessor(n)
    PROVE  IInv'
<1> DEFINE next == CheckPredecessor_create_request(predecessor[n])
<1>1. predecessor[n] \in Peer /\ Continue(n, CheckSlot, next)
  BY NodeState DEF check_predecessor, Id, Peer
<1>2. /\ next \in Session /\ next.step = "check_predecessor"
      /\ next.leg = "req" /\ next.relays = <<>> /\ next.peers = <<>>
  BY <1>1, EmptySeq DEF CheckPredecessor_create_request, Request, Session, CheckStep
<1>3. TablesOK'
  BY TablesState DEF check_predecessor, TablesOK, NamesOK, table, faults
<1> HIDE DEF next
<1>4. MessageOK(n, CheckSlot, next) /\ CheckSlot \in Slot
  BY <1>2 DEF MessageOK, RequestOK, StepsOf, JoinSlot, CheckSlot, CheckStep, Slot
<1>5. OwnersKept(n, CheckSlot, next)
  BY <1>2, SlotAssumption, TablesState
  DEF check_predecessor, OwnersKept, TablesOK, CheckSlot
<1> QED  BY <1>1, <1>2, <1>3, <1>4, <1>5, SessionStep

LEMMA StepPreserves == IInv /\ [Next]_vars => IInv'
<1> SUFFICES ASSUME IInv, [Next]_vars PROVE IInv'
  OBVIOUS
<1>1. CASE Next
  <2>1. PICK n \in Node : \/ Launch(n)
                          \/ stabilize(n)
                          \/ check_predecessor(n)
                          \/ \E s \in Slot : Progress(n, s)
                          \/ Fault(n)
    BY <1>1 DEF Next
  <2> QED  BY <2>1, LaunchPreserves, StabilizePreserves,
              CheckPredecessorPreserves, ProgressPreserves, FaultPreserves
<1>2. CASE UNCHANGED vars
  BY <1>2 DEF vars, table, flags, faults, IInv, TypeOK, NamesOK, MessagesOK, FlagHasOwner
<1> QED  BY <1>1, <1>2

-----------------------------------------------------------------------------
(* The settled ring that a behaviour starts from.                          *)

LEMMA AfterIsNode ==
    ASSUME SettledRing # <<>>, NEW i \in DOMAIN SettledRing, NEW k \in Nat
    PROVE  After(i, k) \in Node
<1>1. Len(SettledRing) \in Nat \ {0} /\ i \in 1..Len(SettledRing)
      /\ SettledRing \in Seq(Node)
  BY SettledAssumption
<1>2. ((i + k - 1) % Len(SettledRing)) + 1 \in 1..Len(SettledRing)
  BY <1>1
<1> QED  BY <1>1, <1>2 DEF After

LEMMA SettledState ==
    ASSUME NEW n \in Settled
    PROVE  /\ n \in Node
           /\ IdealList(n) \in Seq(Peer) \ {<<>>}
           /\ IdealPredecessor(n) \in Id
<1>1. SettledRing \in Seq(Node)
  BY SettledAssumption
<1>2. Position(n) \in DOMAIN SettledRing /\ SettledRing[Position(n)] = n
  BY DEF Settled, Range, Position
<1>3. SettledRing # <<>>
  BY <1>1, <1>2
<1>4. n \in Node
  BY <1>1, <1>2
<1>5. \A k \in Nat : ObservedId[After(Position(n), k)] \in Id
  BY <1>2, <1>3, AfterIsNode, NodesAssumption
<1>6. IdealList(n) \in Seq(Peer) \ {<<>>}
  BY <1>5, SuccListSizeAssumption DEF IdealList, Id, Peer
<1>7. Len(SettledRing) - 1 \in Nat
  BY <1>1, <1>3
<1> QED  BY <1>4, <1>5, <1>6, <1>7 DEF IdealPredecessor

LEMMA InitEstablishes == Init => IInv
<1> SUFFICES ASSUME Init PROVE IInv
  OBVIOUS
<1>1. /\ running \subseteq Node
      /\ self \in [Node -> Id]
  BY SettledState, NodesAssumption DEF Init
<1>2. predecessor \in [Node -> Id \cup {NoPeer}]
  BY SettledState DEF Init
<1>3. successor_list \in [Node -> Seq(Peer) \ {<<>>}]
  <2>1. \A n \in Node : <<GivenId[n]>> \in Seq(Peer) \ {<<>>}
    BY NodesAssumption DEF Id, Peer
  <2> QED  BY <2>1, SettledState DEF Init
<1>4. session \in [Node -> [Slot -> Session]]
  BY IdleIsSession DEF Init
<1>5. TypeOK
  BY <1>1, <1>2, <1>3, <1>4 DEF Init, TypeOK
<1>6. NamesOK /\ MessagesOK
  BY IdleIsSession DEF Init, MessagesOK, NamesOK, NamesOf
<1>7. FlagHasOwner
  BY DEF Init, FlagHasOwner
<1> QED  BY <1>5, <1>6, <1>7 DEF IInv

-----------------------------------------------------------------------------
LEMMA InvariantHolds == Spec => []IInv
BY InitEstablishes, StepPreserves, PTL DEF Spec

(* Tables and messages are always of the kind the handlers expect; no      *)
(* successor list ever runs empty, and no process has a blank peer for its *)
(* predecessor or itself (ConcurrentRoutingTable::pop_front,               *)
(* Notification::handle_request, Join::handle_query_notify).               *)
THEOREM ChordTypeCorrect == Spec => []TypeOK
BY InvariantHolds, PTL DEF IInv

(* Whatever dies, is lost, comes late or overlaps: a raised stabilize_flag_*)
(* or check_predecessor_flag_ always has an object in active_messages_     *)
(* whose answer or timeout lowers it (Stabilize::handle_failed,            *)
(* CheckPredecessor::handle_failed).                                       *)
THEOREM FlagsHaveOwners == Spec => []FlagHasOwner
BY InvariantHolds, PTL DEF IInv

(* Whatever is lost, relayed or answered late, a message is about its      *)
(* object: it is a request that this object makes, or the answer to it; a  *)
(* lookup asks for the identifier its own node is observed at, a           *)
(* notification names its own sender, and an answer has the peers its      *)
(* response handler takes from it: the observed identifier, one successor, *)
(* a list that is not empty, or the peer asked together with its list      *)
(* (create_request and handle_request of the seven message classes).  So   *)
(* no handler takes the first peer of a message that has none, and the     *)
(* fallback of Stabilize for a predecessor without a list is never taken.  *)
THEOREM MessagesMatch == Spec => []MessagesOK
BY InvariantHolds, PTL DEF IInv
=============================================================================
