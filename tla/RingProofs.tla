----------------------------- MODULE RingProofs -----------------------------
(* A node that joins a settled ring never opens a gap in it: RingIntact and *)
(* NoBlankTarget, for rings of any size, lists of any length and any number *)
(* of Stabilize objects at the same time, as long as no other node joins    *)
(* and no fault happens.                                                    *)
EXTENDS ChordProofs

Joiner == CHOOSE n \in Node : n \notin Settled

\* one node may join, and nothing else happens to the ring
LoneJoin ==
    /\ Node \ Settled = {Joiner}
    /\ Creators = {} /\ MaxCrash = 0 /\ MaxLoss = 0

joined == ObservedId[Joiner]

Own == {GivenId[Joiner], joined}

\* no member lies between a and b
Adjacent(a, b) == \A m \in Members : ~between(a, m, b)

\* the successor that the Joiner should have
Follows(peer) == peer \in Members /\ Adjacent(joined, peer)

\* the list of a settled node that only knows members, after k other peers
Full(list, k) == list \in Seq(Members) /\ Len(list) = SuccListSize + k

Peers == Members \cup Own

-----------------------------------------------------------------------------
(* Objects and their messages, by the node n and the slot s that they      *)
(* belong to.                                                              *)

IsEmpty(r) ==
    r.step = "get_pred_and_succ_list" /\ r.leg = "rsp" /\ r.peers = <<>>

\* the answer to a get_pred_and_succ_list or a get_self_and_succ_list
ListAnswer(r) ==
    r.step \in Owner /\ r.leg = "rsp" /\ r.peers # <<>> =>
      /\ Len(r.peers) >= 2
      /\ r.to \in Peers /\ Head(r.peers) \in Peers /\ r.peers[2] \in Peers
      /\ r.to \in Members => Head(r.peers) \in Members \cup {joined}

Notice(n, r) ==
    r.step = "notify" /\ r.leg = "req" =>
      /\ n \in Settled => Head(r.peers) = ObservedId[n]
      /\ n = Joiner => Head(r.peers) \in Own
      /\ n = Joiner /\ r.to \in Members => Head(r.peers) = joined

\* what a settled node asks of the Joiner
SettledMessage(n, r) ==
    n \in Settled /\ r.step \in Owner =>
      /\ r.to \in Own => Adjacent(ObservedId[n], joined)
      /\ r.step = "get_self_and_succ_list" =>
           r.to \in Own /\ (r.leg = "rsp" => Head(r.peers) = joined)

\* what the Join of the Joiner asks, and what it gets
JoinMessage(r) ==
    r.step \in JoinStep =>
      /\ r.to \in Members
      /\ r.step = "query" /\ r.leg = "rsp" => r.peers = <<joined>>
      /\ r.step = "find_successor" /\ r.leg = "req" => r.peers = <<joined>>
      /\ r.step = "find_successor" /\ r.leg = "rsp" =>
           r.peers # <<>> /\ Follows(Head(r.peers))
      /\ r.step = "get_successor_list" /\ r.leg = "rsp" =>
           r.peers # <<>> /\ Head(r.peers) \in Peers

AnyMessage(n, s, r) ==
    /\ r.leg = "req" => r.to \in Peers
    /\ r.leg = "void" => r.step = "notify"
    /\ r.step = "idle" => r.leg = "none"
    /\ r.relays # <<>> => r.step = "find_successor"
    /\ r.step \in JoinStep => n = Joiner /\ s = JoinSlot
    /\ r.step \in StabilizeStep => s \in StabilizeSlot
    /\ r.step \in CheckStep => s = CheckSlot
    /\ IsEmpty(r) => r.to \in Own
    /\ r.step = "get_self_and_succ_list" /\ r.leg = "rsp" => r.peers # <<>>
    /\ ListAnswer(r) /\ Notice(n, r) /\ SettledMessage(n, r) /\ JoinMessage(r)

\* no settled node has heard of the Joiner
UnknownMessage(n, r) ==
    /\ n \in Settled /\ r.step # "idle" =>
         /\ r.to \in Members /\ r.step # "get_self_and_succ_list"
         /\ r.step = "get_pred_and_succ_list" /\ r.leg = "rsp" => Full(r.peers, 1)
    /\ n = Joiner /\ r.step = "notify" /\ r.leg = "req" => ~Follows(r.to)

\* neither has the Joiner heard of itself from them
FreshMessage(r) ==
    /\ r.step = "get_self_and_succ_list" => r.to \in Members
    /\ r.step \in Owner /\ r.leg = "rsp" => r.peers = <<>> \/ Full(r.peers, 1)
    /\ r.step = "get_successor_list" /\ r.leg = "rsp" => Full(r.peers, 0)

\* before it has a successor, the Joiner only talks to itself
AloneMessage(r) ==
    /\ r.step \in StabilizeStep => r.to \in Own
    /\ r.step \in Owner => Range(r.peers) \subseteq Own \cup {BlankId}

\* the Joiner asks members, and settled nodes get its successor from it
PlacedMessage(n, r) ==
    /\ n = Joiner /\ r.step \in Owner =>
         r.step = "get_pred_and_succ_list" /\ r.to \in Members
    /\ n \in Settled /\ r.step \in Owner /\ r.to \in Own
         /\ r.leg = "rsp" /\ r.peers # <<>> => Follows(r.peers[2])

-----------------------------------------------------------------------------
(* The state of the ring.                                                  *)

\* the Joiner has not been notified by anybody
Unnotified == predecessor[Joiner] = NoPeer

Looking ==
    \/ Joiner \notin running
    \/ session[Joiner][JoinSlot].step \in {"query", "find_successor"}

Asking(n) == {s \in StabilizeSlot : session[n][s].step \in Owner}

Empty(n, s) == IsEmpty(session[n][s])

\* a settled node is about to drop the Joiner
Pending == \E n \in Settled, s \in StabilizeSlot : Empty(n, s)

NoFaults ==
    /\ crashes = 0 /\ losses = 0 /\ late = {}
    /\ Settled \subseteq running

SelfInv ==
    /\ \A n \in Settled : self[n] = ObservedId[n]
    /\ self[Joiner] \in Own
    /\ \/ self[Joiner] = joined
       \/ Joiner \notin running
       \/ session[Joiner][JoinSlot].step = "query"

PredecessorInv ==
    /\ \A n \in Settled :
         \/ predecessor[n] \in Members /\ Adjacent(predecessor[n], ObservedId[n])
         \/ predecessor[n] = joined /\ Follows(ObservedId[n])
    /\ predecessor[Joiner] \in {NoPeer} \cup Peers

\* the first entry of a list is right for a settled node
Successor(n, list) ==
    /\ n \in Settled =>
         /\ Head(list) \in Members \cup {joined}
         /\ Adjacent(ObservedId[n], Head(list))
    /\ Head(list) \in Peers

SuccessorInv == \A n \in Node : Successor(n, successor_list[n])

MessagesInv ==
    \A n \in Node, s \in Slot :
      /\ AnyMessage(n, s, session[n][s])
      /\ session[n][s].step # "idle" => n \in running
      /\ session[n][s].leg = "void" => ~Unnotified

\* until the Joiner has been notified, no Stabilize expires, so no node has
\* two of them that wait for a list
SequentialInv ==
    Unnotified =>
      /\ \A n \in Node :
           /\ \A s, t \in Asking(n) : s = t
           /\ Asking(n) # {} => stabilize_flag[n]
      /\ \A n \in Settled, s \in StabilizeSlot :
           session[n][s].step = "get_pred_and_succ_list" =>
             session[n][s].to = Head(successor_list[n])

\* a node gets one empty answer at a time, and can bear to drop its successor
EmptyInv ==
    \A n \in Node, s \in StabilizeSlot : Empty(n, s) =>
      /\ \A t \in StabilizeSlot : Empty(n, t) => s = t
      /\ n \in Settled =>
           /\ Head(successor_list[n]) = joined
           /\ \A t \in Asking(n) : session[n][t].to \in Own
      /\ n = Joiner /\ Len(successor_list[n]) >= 2 => successor_list[n][2] \in Peers

Unknown ==
    /\ \A n \in Settled : predecessor[n] \in Members /\ Full(successor_list[n], 0)
    /\ \A n \in Node, s \in Slot : UnknownMessage(n, session[n][s])

Fresh ==
    /\ \A i \in 2..Len(successor_list[Joiner]) : successor_list[Joiner][i] \in Members
    /\ \A s \in Slot : FreshMessage(session[Joiner][s])

LookingInv ==
    Looking =>
      /\ Unknown
      /\ Head(successor_list[Joiner]) \in Own
      /\ Range(successor_list[Joiner]) \subseteq Own \cup {BlankId}
      /\ predecessor[Joiner] \in Own \cup {NoPeer}
      /\ \A s \in Slot : AloneMessage(session[Joiner][s])

Placed ==
    /\ Follows(Head(successor_list[Joiner]))
    /\ \A n \in Settled :
         (Head(successor_list[n]) = joined /\ Len(successor_list[n]) >= 2) =>
           Follows(successor_list[n][2])
    /\ \A n \in Node, s \in Slot : PlacedMessage(n, session[n][s])

\* as long as somebody may drop the Joiner, its successor is the next entry
PlacedInv ==
    /\ Unnotified => Placed \/ (Unknown /\ Fresh)
    /\ Pending => Placed

RingInv ==
    /\ LoneJoin /\ IInv
    /\ NoFaults /\ SelfInv /\ PredecessorInv /\ SuccessorInv /\ MessagesInv
    /\ SequentialInv /\ EmptyInv /\ LookingInv /\ PlacedInv

-----------------------------------------------------------------------------
(* The circle.                                                             *)

\* Members, the Joiner and its identifiers.
LEMMA TheJoiner ==
    ASSUME LoneJoin
    PROVE  /\ Joiner \in Node /\ Joiner \notin Settled /\ Settled \subseteq Node
           /\ \A n \in Node : n \in Settled \/ n = Joiner
           /\ Members \subseteq Id /\ Own \subseteq Id /\ Id \subseteq Peer
           /\ Members \cap Own = {} /\ joined \in Own
           /\ BlankId \notin Peers /\ Peers \subseteq Id /\ NoPeer \notin Peers
           /\ \A n \in Settled : ObservedId[n] \in Members
<1>1. Joiner \in Node /\ Joiner \notin Settled /\ \A n \in Node : n \in Settled \/ n = Joiner
  BY DEF LoneJoin
<1>2. Settled \subseteq Node
  <2>1. SettledRing \in Seq(Node) BY SettledAssumption
  <2>2. QED BY <2>1 DEF Settled, Range
<1>3. Members \subseteq Id /\ Own \subseteq Id
  BY <1>1, <1>2, NodesAssumption DEF Members, Own, joined
<1>4. Members \cap Own = {}
  <2> SUFFICES ASSUME NEW m \in Settled, ObservedId[m] \in Own PROVE FALSE
    BY DEF Members
  <2>1. m \in Node /\ m # Joiner BY <1>1, <1>2
  <2>2. QED BY <1>1, <2>1, NodesAssumption DEF Own, joined
<1>5. Id \subseteq Peer /\ BlankId \notin Id /\ NoPeer \notin Id
  BY NoPeerAssumption DEF Id, Peer
<1>6. QED BY <1>1, <1>2, <1>3, <1>4, <1>5 DEF Own, Peers, Members

\* The machine that listens on each of them.
LEMMA Hosts ==
    ASSUME LoneJoin, NEW x \in Peers
    PROVE  /\ IsAddress(x)
           /\ x \in Own => HostOf(x) = Joiner
           /\ x \in Members => HostOf(x) \in Settled /\ ObservedId[HostOf(x)] = x
<1>1. \A n, m \in Node : x \in {GivenId[n], ObservedId[n]} /\ x \in {GivenId[m], ObservedId[m]} => n = m
  BY NodesAssumption
<1>2. CASE x \in Own
  <2>1. x \in {GivenId[Joiner], ObservedId[Joiner]} /\ Joiner \in Node
    BY <1>2, TheJoiner DEF Own, joined
  <2>2. IsAddress(x) BY <2>1 DEF IsAddress
  <2>3. HostOf(x) \in Node /\ x \in {GivenId[HostOf(x)], ObservedId[HostOf(x)]}
    BY <2>1 DEF HostOf
  <2>4. QED BY <1>1, <1>2, <2>1, <2>2, <2>3, TheJoiner
<1>3. CASE x \in Members
  <2>1. PICK m \in Settled : x = ObservedId[m] BY <1>3 DEF Members
  <2>2. m \in Node BY TheJoiner
  <2>3. IsAddress(x) BY <2>1, <2>2 DEF IsAddress
  <2>4. HostOf(x) \in Node /\ x \in {GivenId[HostOf(x)], ObservedId[HostOf(x)]}
    BY <2>1, <2>2 DEF HostOf
  <2>5. HostOf(x) = m BY <1>1, <2>1, <2>2, <2>4
  <2>6. QED BY <1>3, <2>1, <2>3, <2>5, TheJoiner
<1>4. QED BY <1>2, <1>3 DEF Peers

\* A part of an arc without members has none.
LEMMA PartOfArc ==
    ASSUME NEW a \in Peer, NEW b \in Peer, NEW c \in Peer, Members \subseteq Peer,
           between(a, b, c), Adjacent(a, c)
    PROVE  Adjacent(a, b) /\ Adjacent(b, c)
<1> SUFFICES ASSUME NEW m \in Members
             PROVE  ~between(a, m, b) /\ ~between(b, m, c)
  BY DEF Adjacent
<1>1. m \in Peer /\ ~between(a, m, c) BY DEF Adjacent
<1>2. QED BY <1>1 DEF between, Peer

\* What follows the Joiner follows the member before it.
LEMMA BehindTheJoiner ==
    ASSUME LoneJoin, NEW a \in Members, Adjacent(a, joined),
           NEW x \in Peer, Follows(x)
    PROVE  Adjacent(a, x)
<1> SUFFICES ASSUME NEW m \in Members, between(a, m, x) PROVE FALSE
  BY DEF Adjacent
<1>1. /\ a \in Peer /\ m \in Peer /\ joined \in Peer
      /\ a # joined /\ m # joined /\ x # joined
  BY TheJoiner DEF Follows
<1>2. ~between(a, m, joined) /\ ~between(a, x, joined) /\ ~between(joined, m, x)
  BY DEF Adjacent, Follows
<1>3. QED BY <1>1, <1>2 DEF between, Peer

\* Only one member comes before the Joiner, and one after it.
LEMMA OneNeighbour ==
    ASSUME LoneJoin, NEW a \in Members, NEW b \in Members,
           \/ Adjacent(a, joined) /\ Adjacent(b, joined)
           \/ Follows(a) /\ Follows(b)
    PROVE  a = b
<1>1. /\ a \in Peer /\ b \in Peer /\ joined \in Peer
      /\ a # joined /\ b # joined
  BY TheJoiner
<1>2. CASE Adjacent(a, joined) /\ Adjacent(b, joined)
  <2>1. ~between(a, b, joined) /\ ~between(b, a, joined) BY <1>2 DEF Adjacent
  <2>2. QED BY <1>1, <2>1 DEF between, Peer
<1>3. CASE Follows(a) /\ Follows(b)
  <2>1. ~between(joined, b, a) /\ ~between(joined, a, b) BY <1>3 DEF Adjacent, Follows
  <2>2. QED BY <1>1, <2>1 DEF between, Peer
<1>4. QED BY <1>2, <1>3

-----------------------------------------------------------------------------
(* Lists.                                                                  *)

\* replace_successor_list of a full list, and of any other one.
LEMMA Resized ==
    ASSUME NEW list \in Seq(Peer), list # <<>>
    PROVE  /\ Resize(list) \in Seq(Peer) \ {<<>>}
           /\ Head(Resize(list)) = Head(list)
           /\ Len(Resize(list)) >= 2 /\ Len(list) >= 2 => Resize(list)[2] = list[2]
           /\ Range(Resize(list)) \subseteq Range(list) \cup {BlankId}
<1>1. Resize(list) \in Seq(Peer) \ {<<>>} /\ Head(Resize(list)) = Head(list)
      /\ Len(Resize(list)) = SuccListSize
  BY ResizeProperties
<1>2. SuccListSize >= 2 /\ Len(list) >= 2 => Resize(list)[2] = list[2]
  BY SuccListSizeAssumption DEF Resize
<1>3. Range(Resize(list)) \subseteq Range(list) \cup {BlankId}
  BY DEF Range, Resize
<1>4. QED BY <1>1, <1>2, <1>3

LEMMA FullResized ==
    ASSUME NEW list \in Seq(Members), Len(list) >= SuccListSize
    PROVE  Full(Resize(list), 0)
<1>1. \A i \in 1..SuccListSize : list[i] \in Members
  BY SuccListSizeAssumption
<1>2. Resize(list) = [i \in 1..SuccListSize |-> list[i]]
  BY SuccListSizeAssumption DEF Resize
<1>3. QED BY <1>1, <1>2, SuccListSizeAssumption DEF Full
-----------------------------------------------------------------------------
(* A step of session s of node n: its object becomes next, the list of the *)
(* node list and its flag flag.                                            *)

Step(n, s, next, list, flag) ==
    /\ n \in Node /\ s \in Slot /\ next \in Session
    /\ list \in Seq(Peer) \ {<<>>} /\ flag \in BOOLEAN
    /\ Continue(n, s, next)
    /\ successor_list' = [successor_list EXCEPT ![n] = list]
    /\ stabilize_flag' = [stabilize_flag EXCEPT ![n] = flag]
    /\ running \subseteq running'
    /\ Unnotified' => Unnotified

LEMMA StepChanges ==
    ASSUME RingInv, NEW n, NEW s, NEW next, NEW list, NEW flag,
           Step(n, s, next, list, flag)
    PROVE  /\ session'[n][s] = next
           /\ \A m \in Node, t \in Slot :
                m # n \/ t # s => session'[m][t] = session[m][t]
           /\ successor_list'[n] = list
           /\ stabilize_flag'[n] = flag
           /\ \A m \in Node \ {n} :
                /\ successor_list'[m] = successor_list[m]
                /\ stabilize_flag'[m] = stabilize_flag[m]
BY DEF Step, Continue, RingInv, IInv, TypeOK

LEMMA SlotsAreSlots ==
    /\ StabilizeSlot \subseteq Slot /\ JoinSlot \in Slot /\ CheckSlot \in Slot
    /\ JoinSlot \notin StabilizeSlot /\ CheckSlot \notin StabilizeSlot
    /\ JoinSlot # CheckSlot
BY SlotAssumption DEF Slot, JoinSlot, CheckSlot

LEMMA SuccessorKept ==
    ASSUME RingInv, NEW n, NEW s, NEW next, NEW list, NEW flag,
           Step(n, s, next, list, flag), Successor(n, list)
    PROVE  SuccessorInv'
<1> SUFFICES ASSUME NEW m \in Node PROVE Successor(m, successor_list[m])'
  BY DEF SuccessorInv
<1>1. Successor(m, successor_list'[m])
  BY StepChanges DEF RingInv, SuccessorInv
<1>2. QED BY <1>1 DEF Successor

LEMMA MessagesKept ==
    ASSUME RingInv, NEW n, NEW s, NEW next, NEW list, NEW flag,
           Step(n, s, next, list, flag), AnyMessage(n, s, next),
           next.step # "idle" => n \in running',
           next.leg = "void" => ~Unnotified'
    PROVE  MessagesInv'
<1> SUFFICES ASSUME NEW m \in Node, NEW t \in Slot
             PROVE  /\ AnyMessage(m, t, session'[m][t])
                    /\ session'[m][t].step # "idle" => m \in running'
                    /\ session'[m][t].leg = "void" => ~Unnotified'
  BY DEF MessagesInv, AnyMessage, IsEmpty, ListAnswer, Notice, SettledMessage, JoinMessage,
         Follows, Adjacent
<1>1. CASE m = n /\ t = s BY <1>1, StepChanges
<1>2. CASE ~(m = n /\ t = s)
  <2>1. session'[m][t] = session[m][t] BY <1>2, StepChanges
  <2>2. QED BY <2>1 DEF RingInv, MessagesInv, Step
<1>3. QED BY <1>1, <1>2

\* One waiting Stabilize is followed by another one.
LEMMA SequentialKept ==
    ASSUME RingInv, NEW n, NEW s, NEW next, NEW list, NEW flag,
           Step(n, s, next, list, flag),
           AnyMessage(n, s, next),
           Unnotified' =>
             /\ next.step \in Owner => flag /\ Asking(n) \subseteq {s}
             /\ next.step \notin Owner =>
                  s \in Asking(n) \/ flag \/ flag = stabilize_flag[n]
             /\ n \in Settled /\ next.step = "get_pred_and_succ_list" => next.to = Head(list)
             /\ n \in Settled =>
                  Asking(n) \subseteq {s} \/ Head(list) = Head(successor_list[n])
    PROVE  SequentialInv'
<1> SUFFICES ASSUME Unnotified' PROVE
      /\ \A m \in Node :
           /\ \A t, u \in Asking(m)' : t = u
           /\ Asking(m)' # {} => stabilize_flag'[m]
      /\ \A m \in Settled, t \in StabilizeSlot :
           session'[m][t].step = "get_pred_and_succ_list" =>
             session'[m][t].to = Head(successor_list'[m])
  BY DEF SequentialInv
<1>1. Unnotified /\ n \in Node BY DEF Step
<1>2. /\ \A m \in Node :
           /\ \A t, u \in Asking(m) : t = u
           /\ Asking(m) # {} => stabilize_flag[m]
      /\ \A m \in Settled, t \in StabilizeSlot :
           session[m][t].step = "get_pred_and_succ_list" =>
             session[m][t].to = Head(successor_list[m])
  BY <1>1 DEF RingInv, SequentialInv
<1>3. \A m \in Node \ {n} : Asking(m)' = Asking(m)
  BY StepChanges, SlotsAreSlots DEF Asking
<1>4. /\ next.step \in Owner => Asking(n)' \subseteq Asking(n) \cup {s}
      /\ next.step \notin Owner => Asking(n)' = Asking(n) \ {s}
  BY StepChanges, SlotsAreSlots, <1>1 DEF Asking
<1>5. \A t, u \in Asking(n)' : t = u
  BY <1>1, <1>2, <1>4
<1>6. Asking(n)' # {} => stabilize_flag'[n]
  <2>1. stabilize_flag'[n] = flag BY StepChanges
  <2>2. CASE next.step \in Owner BY <2>1, <2>2
  <2>3. CASE next.step \notin Owner
    <3> SUFFICES ASSUME Asking(n) \ {s} # {} PROVE flag BY <1>4, <2>1, <2>3
    <3>1. s \notin Asking(n) /\ stabilize_flag[n] BY <1>1, <1>2
    <3>2. QED BY <2>3, <3>1
  <2>4. QED BY <2>2, <2>3
<1>7. ASSUME NEW m \in Settled, NEW t \in StabilizeSlot,
             session'[m][t].step = "get_pred_and_succ_list"
      PROVE  session'[m][t].to = Head(successor_list'[m])
  <2>1. m \in Node /\ t \in Slot BY TheJoiner, SlotsAreSlots DEF RingInv
  <2>2. CASE m # n BY <2>1, <2>2, <1>2, <1>7, StepChanges
  <2>3. CASE m = n /\ t = s BY <2>3, <1>7, StepChanges
  <2>4. CASE m = n /\ t # s
    <3>1. session'[m][t] = session[m][t] BY <2>1, <2>4, StepChanges
    <3>2. t \in Asking(n) BY <1>7, <2>4, <3>1 DEF Asking, Owner
    <3>3. Head(list) = Head(successor_list[n]) BY <2>4, <3>2
    <3>4. QED BY <1>2, <1>7, <2>4, <3>1, <3>3, StepChanges
  <2>5. QED BY <2>2, <2>3, <2>4
<1>8. QED BY <1>2, <1>3, <1>5, <1>6, <1>7, StepChanges

\* An empty answer comes, or others have come already.
LEMMA EmptyKept ==
    ASSUME RingInv, NEW n, NEW s, NEW next, NEW list, NEW flag,
           Step(n, s, next, list, flag),
           AnyMessage(n, s, next),
           IsEmpty(next) =>
             /\ Unnotified /\ list = successor_list[n]
             /\ session[n][s].step = "get_pred_and_succ_list"
             /\ next.to = session[n][s].to,
           (\E t \in StabilizeSlot \ {s} : Empty(n, t)) =>
             /\ n \in Settled => Head(list) = joined /\ (next.step \in Owner => next.to \in Own)
             /\ n = Joiner /\ Len(list) >= 2 => list[2] \in Peers
    PROVE  EmptyInv'
<1> SUFFICES ASSUME NEW m \in Node, NEW t \in StabilizeSlot, IsEmpty(session'[m][t])
             PROVE  /\ \A u \in StabilizeSlot : IsEmpty(session'[m][u]) => t = u
                    /\ m \in Settled =>
                         /\ Head(successor_list'[m]) = joined
                         /\ \A u \in Asking(m)' : session'[m][u].to \in Own
                    /\ m = Joiner /\ Len(successor_list'[m]) >= 2 =>
                         successor_list'[m][2] \in Peers
  BY DEF EmptyInv, Empty, IsEmpty
<1>1. t \in Slot /\ n \in Node /\ s \in Slot BY SlotsAreSlots DEF Step
<1>2. CASE m # n
  <2>1. \A u \in StabilizeSlot : session'[m][u] = session[m][u]
    BY <1>1, <1>2, StepChanges, SlotsAreSlots
  <2>2. Asking(m)' = Asking(m) BY <2>1 DEF Asking
  <2>3. successor_list'[m] = successor_list[m] BY <1>2, StepChanges
  <2>4. QED BY <2>1, <2>2, <2>3 DEF RingInv, EmptyInv, Empty, Asking
<1>3. CASE m = n /\ t = s
  <2>1. IsEmpty(next) BY <1>3, StepChanges
  <2>2. s \in Asking(n) /\ next.to \in Own
    BY <1>3, <2>1 DEF Asking, Owner, AnyMessage
  <2>3. \A u \in Asking(n) : u = s BY <1>1, <2>1, <2>2 DEF RingInv, SequentialInv
  <2>4. \A u \in StabilizeSlot \ {s} : session'[n][u].step \notin Owner
    <3> TAKE u \in StabilizeSlot \ {s}
    <3>1. session'[n][u] = session[n][u] BY <1>1, StepChanges, SlotsAreSlots
    <3>2. QED BY <2>3, <3>1 DEF Asking
  <2>5. \A u \in StabilizeSlot : IsEmpty(session'[n][u]) => u = s
    BY <2>4 DEF IsEmpty, Owner
  <2>6. \A u \in Asking(n)' : session'[n][u].to \in Own
    BY <2>2, <2>4, StepChanges DEF Asking
  <2>7. n \in Settled => Head(list) = joined
    <3> SUFFICES ASSUME n \in Settled PROVE Head(successor_list[n]) = joined BY <2>1
    <3>1. session[n][s].to = Head(successor_list[n])
      BY <1>3, <2>1 DEF RingInv, SequentialInv
    <3>2. Head(successor_list[n]) \in Own BY <2>1, <2>2, <3>1
    <3>3. Head(successor_list[n]) \in Members \cup {joined}
      BY <1>1 DEF RingInv, SuccessorInv, Successor
    <3>4. QED BY <3>2, <3>3, TheJoiner DEF RingInv
  <2>8. n = Joiner /\ Len(list) >= 2 => list[2] \in Peers
    <3> SUFFICES ASSUME n = Joiner, Len(list) >= 2 PROVE list[2] \in Peers OBVIOUS
    <3>1. ~PlacedMessage(n, session[n][s])
      BY <2>1, <2>2, TheJoiner DEF PlacedMessage, Owner, RingInv
    <3>2. ~Placed BY <1>1, <3>1 DEF Placed
    <3>3. Fresh BY <2>1, <3>2 DEF RingInv, PlacedInv
    <3>4. list = successor_list[Joiner] /\ Len(list) \in Nat BY <2>1 DEF Step
    <3>5. QED BY <3>3, <3>4 DEF Fresh, Peers
  <2>9. QED BY <1>3, <2>5, <2>6, <2>7, <2>8, StepChanges
<1>4. CASE m = n /\ t # s
  <2>1. session'[n][t] = session[n][t] /\ Empty(n, t)
    BY <1>1, <1>4, StepChanges DEF Empty
  <2>2. \A u \in StabilizeSlot : Empty(n, u) => t = u
    BY <1>1, <2>1 DEF RingInv, EmptyInv
  <2>3. ~IsEmpty(next)
    <3> SUFFICES ASSUME IsEmpty(next) PROVE FALSE OBVIOUS
    <3>1. s \in Asking(n) /\ t \in Asking(n)
      BY <1>4, <2>1 DEF Asking, Owner, Empty, IsEmpty, AnyMessage, StabilizeStep
    <3>2. QED BY <1>1, <1>4, <3>1 DEF RingInv, SequentialInv
  <2>4. \A u \in StabilizeSlot : IsEmpty(session'[n][u]) => t = u
    <3> TAKE u \in StabilizeSlot
    <3>1. CASE u = s BY <2>3, <3>1, StepChanges
    <3>2. CASE u # s
      <4>1. session'[n][u] = session[n][u] BY <1>1, <3>2, StepChanges, SlotsAreSlots
      <4>2. QED BY <2>2, <4>1 DEF Empty
    <3>3. QED BY <3>1, <3>2
  <2>5. /\ n \in Settled => Head(list) = joined /\ (next.step \in Owner => next.to \in Own)
        /\ n = Joiner /\ Len(list) >= 2 => list[2] \in Peers
    BY <1>4, <2>1
  <2>6. n \in Settled => \A u \in Asking(n)' : session'[n][u].to \in Own
    <3> SUFFICES ASSUME n \in Settled, NEW u \in Asking(n)'
                 PROVE  session'[n][u].to \in Own
      OBVIOUS
    <3>1. u \in StabilizeSlot /\ session'[n][u].step \in Owner BY DEF Asking
    <3>2. CASE u = s BY <2>5, <3>1, <3>2, StepChanges
    <3>3. CASE u # s
      <4>1. session'[n][u] = session[n][u] BY <1>1, <3>1, <3>3, StepChanges, SlotsAreSlots
      <4>2. u \in Asking(n) BY <3>1, <4>1 DEF Asking
      <4>3. QED BY <1>1, <2>1, <4>1, <4>2 DEF RingInv, EmptyInv
    <3>4. QED BY <3>2, <3>3
  <2>7. QED BY <1>4, <2>4, <2>5, <2>6, StepChanges
<1>5. QED BY <1>2, <1>3, <1>4
-----------------------------------------------------------------------------
(* Who has heard of the Joiner.                                            *)

SettledPredecessors == \A m \in Settled : predecessor[m] \in Members

KeepsUnknown(n, next, list) ==
    /\ UnknownMessage(n, next)
    /\ n \in Settled => Full(list, 0)

KeepsFresh(n, next, list) ==
    n = Joiner =>
      /\ \A i \in 2..Len(list) : list[i] \in Members
      /\ FreshMessage(next)

KeepsPlaced(n, next, list) ==
    /\ n = Joiner => Follows(Head(list))
    /\ (n \in Settled /\ Head(list) = joined /\ Len(list) >= 2) => Follows(list[2])
    /\ PlacedMessage(n, next)

LEMMA UnknownKept ==
    ASSUME RingInv, NEW n, NEW s, NEW next, NEW list, NEW flag,
           Step(n, s, next, list, flag),
           Unknown, KeepsUnknown(n, next, list), SettledPredecessors'
    PROVE  Unknown'
<1> SUFFICES /\ \A m \in Settled : predecessor'[m] \in Members /\ Full(successor_list'[m], 0)
             /\ \A m \in Node, t \in Slot : UnknownMessage(m, session'[m][t])
  BY DEF Unknown, UnknownMessage, Full, Follows, Adjacent
<1>1. ASSUME NEW m \in Settled PROVE predecessor'[m] \in Members /\ Full(successor_list'[m], 0)
  <2>1. predecessor'[m] \in Members BY DEF SettledPredecessors
  <2>2. m \in Node BY TheJoiner DEF RingInv
  <2>3. CASE m = n BY <2>1, <2>3, StepChanges DEF KeepsUnknown
  <2>4. CASE m # n
    <3>1. successor_list'[m] = successor_list[m] BY <2>2, <2>4, StepChanges
    <3>2. QED BY <2>1, <3>1 DEF Unknown
  <2>5. QED BY <2>3, <2>4
<1>2. ASSUME NEW m \in Node, NEW t \in Slot PROVE UnknownMessage(m, session'[m][t])
  <2>1. CASE m = n /\ t = s BY <2>1, StepChanges DEF KeepsUnknown
  <2>2. CASE ~(m = n /\ t = s)
    <3>1. session'[m][t] = session[m][t] BY <2>2, StepChanges
    <3>2. QED BY <3>1 DEF Unknown
  <2>3. QED BY <2>1, <2>2
<1>3. QED BY <1>1, <1>2

LEMMA FreshKept ==
    ASSUME RingInv, NEW n, NEW s, NEW next, NEW list, NEW flag,
           Step(n, s, next, list, flag),
           Fresh, KeepsFresh(n, next, list)
    PROVE  Fresh'
<1> SUFFICES /\ \A i \in 2..Len(successor_list'[Joiner]) :
                  successor_list'[Joiner][i] \in Members
             /\ \A t \in Slot : FreshMessage(session'[Joiner][t])
  BY DEF Fresh, FreshMessage, Full
<1>1. Joiner \in Node BY TheJoiner DEF RingInv
<1>2. CASE n = Joiner
  <2>1. successor_list'[Joiner] = list BY <1>2, StepChanges
  <2>2. ASSUME NEW t \in Slot PROVE FreshMessage(session'[Joiner][t])
    <3>1. CASE t = s BY <1>2, <3>1, StepChanges DEF KeepsFresh
    <3>2. CASE t # s
      <4>1. session'[Joiner][t] = session[Joiner][t] BY <1>1, <3>2, StepChanges
      <4>2. QED BY <4>1 DEF Fresh
    <3>3. QED BY <3>1, <3>2
  <2>3. QED BY <1>2, <2>1, <2>2 DEF KeepsFresh
<1>3. CASE n # Joiner
  <2>1. /\ successor_list'[Joiner] = successor_list[Joiner]
        /\ \A t \in Slot : session'[Joiner][t] = session[Joiner][t]
    BY <1>1, <1>3, StepChanges
  <2>2. QED BY <2>1 DEF Fresh
<1>4. QED BY <1>2, <1>3

LEMMA PlacedKept ==
    ASSUME RingInv, NEW n, NEW s, NEW next, NEW list, NEW flag,
           Step(n, s, next, list, flag),
           Placed, KeepsPlaced(n, next, list)
    PROVE  Placed'
<1> SUFFICES
      /\ Follows(Head(successor_list'[Joiner]))
      /\ \A m \in Settled :
           (Head(successor_list'[m]) = joined /\ Len(successor_list'[m]) >= 2) =>
             Follows(successor_list'[m][2])
      /\ \A m \in Node, t \in Slot : PlacedMessage(m, session'[m][t])
  BY DEF Placed, PlacedMessage, Follows, Adjacent
<1>0. Joiner \in Node /\ Settled \subseteq Node BY TheJoiner DEF RingInv
<1>1. Follows(Head(successor_list'[Joiner]))
  <2>1. CASE n = Joiner BY <2>1, StepChanges DEF KeepsPlaced
  <2>2. CASE n # Joiner
    <3>1. successor_list'[Joiner] = successor_list[Joiner] BY <1>0, <2>2, StepChanges
    <3>2. QED BY <3>1 DEF Placed
  <2>3. QED BY <2>1, <2>2
<1>2. ASSUME NEW m \in Settled, Head(successor_list'[m]) = joined,
             Len(successor_list'[m]) >= 2
      PROVE  Follows(successor_list'[m][2])
  <2>1. CASE m = n
    <3>1. successor_list'[m] = list BY <2>1, StepChanges
    <3>2. QED BY <1>2, <2>1, <3>1 DEF KeepsPlaced
  <2>2. CASE m # n
    <3>1. successor_list'[m] = successor_list[m] BY <1>0, <2>2, StepChanges
    <3>2. QED BY <1>2, <3>1 DEF Placed
  <2>3. QED BY <2>1, <2>2
<1>3. ASSUME NEW m \in Node, NEW t \in Slot PROVE PlacedMessage(m, session'[m][t])
  <2>1. CASE m = n /\ t = s BY <2>1, StepChanges DEF KeepsPlaced
  <2>2. CASE ~(m = n /\ t = s)
    <3>1. session'[m][t] = session[m][t] BY <2>2, StepChanges
    <3>2. QED BY <3>1 DEF Placed
  <2>3. QED BY <2>1, <2>2
<1>4. QED BY <1>1, <1>2, <1>3

\* The Joiner is about to notify its successor for the first time.
LEMMA JustPlaced ==
    ASSUME RingInv, NEW s, NEW next, NEW list, NEW flag,
           Step(Joiner, s, next, list, flag),
           Unnotified, Unknown, s \in Asking(Joiner),
           next.step = "notify", Follows(Head(list))
    PROVE  Placed'
<1> SUFFICES
      /\ Follows(Head(successor_list'[Joiner]))
      /\ \A m \in Settled :
           (Head(successor_list'[m]) = joined /\ Len(successor_list'[m]) >= 2) =>
             Follows(successor_list'[m][2])
      /\ \A m \in Node, t \in Slot : PlacedMessage(m, session'[m][t])
  BY DEF Placed, PlacedMessage, Follows, Adjacent
<1>0. Joiner \in Node /\ Joiner \notin Settled /\ Settled \subseteq Node
      /\ joined \notin Members /\ Members \cap Own = {}
      /\ \A n \in Node : n \in Settled \/ n = Joiner
  BY TheJoiner DEF RingInv
<1>1. Follows(Head(successor_list'[Joiner])) BY StepChanges
<1>2. ASSUME NEW m \in Settled PROVE Head(successor_list'[m]) # joined
  <2>1. successor_list'[m] = successor_list[m] BY <1>0, StepChanges
  <2>2. Full(successor_list[m], 0) BY DEF Unknown
  <2>3. successor_list[m] \in Seq(Members) /\ successor_list[m] # <<>>
    BY <2>2, SuccListSizeAssumption DEF Full
  <2>4. QED BY <1>0, <2>1, <2>3
<1>3. ASSUME NEW m \in Node, NEW t \in Slot PROVE PlacedMessage(m, session'[m][t])
  <2>1. CASE m \in Settled
    <3>1. session'[m][t] = session[m][t] BY <1>0, <2>1, StepChanges
    <3>2. session[m][t].step \in Owner => session[m][t].to \in Members
      BY <2>1 DEF Unknown, UnknownMessage, Owner
    <3>3. QED BY <1>0, <2>1, <3>1, <3>2 DEF PlacedMessage
  <2>2. CASE m = Joiner
    <3>1. session'[m][t].step \notin Owner
      <4>1. CASE t = s BY <2>2, <4>1, StepChanges DEF Owner
      <4>2. CASE t # s
        <5>1. session'[m][t] = session[m][t] BY <2>2, <1>0, <4>2, StepChanges
        <5>2. SUFFICES ASSUME session[m][t].step \in Owner PROVE FALSE BY <5>1
        <5>3. t \in StabilizeSlot
          BY <2>2, <5>2 DEF RingInv, MessagesInv, AnyMessage, Owner, StabilizeStep
        <5>4. t \in Asking(Joiner) BY <2>2, <5>2, <5>3 DEF Asking
        <5>5. QED BY <1>0, <4>2, <5>4 DEF RingInv, SequentialInv
      <4>3. QED BY <4>1, <4>2
    <3>2. QED BY <1>0, <2>2, <3>1 DEF PlacedMessage
  <2>3. QED BY <1>0, <2>1, <2>2
<1>4. QED BY <1>1, <1>2, <1>3
-----------------------------------------------------------------------------
(* What has to be shown of a step.                                         *)

KeepsSequential(n, s, next, list, flag) ==
    Unnotified =>
      /\ next.step \in Owner => flag /\ Asking(n) \subseteq {s}
      /\ next.step \notin Owner =>
           s \in Asking(n) \/ flag \/ flag = stabilize_flag[n]
      /\ n \in Settled /\ next.step = "get_pred_and_succ_list" => next.to = Head(list)
      /\ n \in Settled =>
           Asking(n) \subseteq {s} \/ Head(list) = Head(successor_list[n])

KeepsEmpty(n, s, next, list) ==
    /\ IsEmpty(next) =>
         /\ Unnotified /\ list = successor_list[n]
         /\ session[n][s].step = "get_pred_and_succ_list"
         /\ next.to = session[n][s].to
    /\ (\E t \in StabilizeSlot \ {s} : Empty(n, t)) =>
         /\ n \in Settled => Head(list) = joined /\ (next.step \in Owner => next.to \in Own)
         /\ n = Joiner /\ Len(list) >= 2 => list[2] \in Peers

KeepsLooking(n, s, next, list) ==
    /\ n = Joiner /\ s = JoinSlot =>
         next.step \notin {"query", "find_successor"} \/ Looking
    /\ Looking /\ ~(n = Joiner /\ s = JoinSlot /\ next.step = "get_successor_list") =>
         /\ KeepsUnknown(n, next, list)
         /\ n = Joiner =>
              /\ Head(list) \in Own
              /\ Range(list) \subseteq Own \cup {BlankId}
              /\ AloneMessage(next)

KeepsPlaces(n, s, next, list) ==
    /\ Placed /\ (Unnotified \/ Pending) => KeepsPlaced(n, next, list)
    /\ Unnotified /\ Unknown /\ Fresh =>
         \/ KeepsUnknown(n, next, list) /\ KeepsFresh(n, next, list)
         \/ n = Joiner /\ s \in Asking(n) /\ next.step = "notify" /\ Follows(Head(list))

LEMMA LookingKept ==
    ASSUME RingInv, NEW n, NEW s, NEW next, NEW list, NEW flag,
           Step(n, s, next, list, flag), n \in running',
           KeepsLooking(n, s, next, list), Unknown => SettledPredecessors',
           Looking => predecessor'[Joiner] \in Own \cup {NoPeer}
    PROVE  LookingInv'
<1>0. Joiner \in Node /\ JoinSlot \in Slot BY TheJoiner, SlotsAreSlots DEF RingInv
<1> SUFFICES ASSUME Looking' PROVE
      /\ Unknown'
      /\ Head(successor_list'[Joiner]) \in Own
      /\ Range(successor_list'[Joiner]) \subseteq Own \cup {BlankId}
      /\ predecessor'[Joiner] \in Own \cup {NoPeer}
      /\ \A t \in Slot : AloneMessage(session'[Joiner][t])
  BY DEF LookingInv, AloneMessage
<1>1. CASE n = Joiner /\ s = JoinSlot
  <2>1. next.step \in {"query", "find_successor"}
    BY <1>1, StepChanges DEF Looking
  <2>2. Looking BY <1>1, <2>1 DEF KeepsLooking
  <2>3. KeepsUnknown(n, next, list) /\ Head(list) \in Own
        /\ Range(list) \subseteq Own \cup {BlankId} /\ AloneMessage(next)
    BY <1>1, <2>1, <2>2 DEF KeepsLooking
  <2>4. Unknown /\ \A t \in Slot : AloneMessage(session[Joiner][t])
    BY <2>2 DEF RingInv, LookingInv
  <2>5. Unknown' BY <2>3, <2>4, UnknownKept
  <2>6. \A t \in Slot : AloneMessage(session'[Joiner][t])
    <3> TAKE t \in Slot
    <3>1. CASE t = s BY <1>1, <2>3, <3>1, StepChanges
    <3>2. CASE t # s
      <4>1. session'[Joiner][t] = session[Joiner][t] BY <1>0, <3>2, StepChanges
      <4>2. QED BY <2>4, <4>1
    <3>3. QED BY <3>1, <3>2
  <2>7. QED BY <1>1, <2>2, <2>3, <2>5, <2>6, StepChanges
<1>2. CASE ~(n = Joiner /\ s = JoinSlot)
  <2>1. session'[Joiner][JoinSlot] = session[Joiner][JoinSlot]
    BY <1>0, <1>2, StepChanges
  <2>2. Looking BY <2>1 DEF Looking, Step
  <2>3. KeepsUnknown(n, next, list)
        /\ (n = Joiner => /\ Head(list) \in Own
                          /\ Range(list) \subseteq Own \cup {BlankId}
                          /\ AloneMessage(next))
    BY <1>2, <2>2 DEF KeepsLooking
  <2>4. /\ Unknown /\ \A t \in Slot : AloneMessage(session[Joiner][t])
        /\ Head(successor_list[Joiner]) \in Own
        /\ Range(successor_list[Joiner]) \subseteq Own \cup {BlankId}
    BY <2>2 DEF RingInv, LookingInv
  <2>5. Unknown' BY <2>3, <2>4, UnknownKept
  <2>6. \A t \in Slot : AloneMessage(session'[Joiner][t])
    <3> TAKE t \in Slot
    <3>1. CASE n = Joiner /\ t = s BY <2>3, <3>1, StepChanges
    <3>2. CASE ~(n = Joiner /\ t = s)
      <4>1. session'[Joiner][t] = session[Joiner][t] BY <1>0, <3>2, StepChanges
      <4>2. QED BY <2>4, <4>1
    <3>3. QED BY <3>1, <3>2
  <2>7. /\ Head(successor_list'[Joiner]) \in Own
        /\ Range(successor_list'[Joiner]) \subseteq Own \cup {BlankId}
    <3>1. CASE n = Joiner
      <4>1. successor_list'[Joiner] = list BY <3>1, StepChanges
      <4>2. QED BY <2>3, <3>1, <4>1
    <3>2. CASE n # Joiner
      <4>1. successor_list'[Joiner] = successor_list[Joiner] BY <1>0, <3>2, StepChanges
      <4>2. QED BY <2>4, <4>1
    <3>3. QED BY <3>1, <3>2
  <2>8. QED BY <2>2, <2>5, <2>6, <2>7
<1>3. QED BY <1>1, <1>2

LEMMA PlacedInvKept ==
    ASSUME RingInv, NEW n, NEW s, NEW next, NEW list, NEW flag,
           Step(n, s, next, list, flag), AnyMessage(n, s, next),
           KeepsEmpty(n, s, next, list), KeepsPlaces(n, s, next, list),
           Unknown => SettledPredecessors'
    PROVE  PlacedInv'
<1>1. Placed /\ (Unnotified \/ Pending) => Placed'
  BY PlacedKept DEF KeepsPlaces
<1>2. Unnotified /\ Unknown /\ Fresh => Placed' \/ (Unknown' /\ Fresh')
  <2> SUFFICES ASSUME Unnotified, Unknown, Fresh PROVE Placed' \/ (Unknown' /\ Fresh')
    OBVIOUS
  <2>1. CASE KeepsUnknown(n, next, list) /\ KeepsFresh(n, next, list)
    BY <2>1, UnknownKept, FreshKept
  <2>2. CASE n = Joiner /\ s \in Asking(n) /\ next.step = "notify" /\ Follows(Head(list))
    BY <2>2, JustPlaced
  <2>3. QED BY <2>1, <2>2 DEF KeepsPlaces
<1>3. Unnotified' => Unnotified BY DEF Step
<1>4. Unnotified' => Placed' \/ (Unknown' /\ Fresh')
  BY <1>1, <1>2, <1>3 DEF RingInv, PlacedInv
<1>5. Pending' => Placed'
  <2> SUFFICES ASSUME NEW m \in Settled, NEW t \in StabilizeSlot, IsEmpty(session'[m][t])
               PROVE  Placed'
    BY DEF Pending, Empty, IsEmpty
  <2>0. m \in Node /\ t \in Slot /\ Members \cap Own = {}
    BY TheJoiner, SlotsAreSlots DEF RingInv
  <2>1. CASE m = n /\ t = s
    <3>1. IsEmpty(next) BY <2>1, StepChanges
    <3>2. /\ Unnotified /\ session[n][s].step = "get_pred_and_succ_list"
          /\ session[n][s].to \in Own
      BY <3>1 DEF KeepsEmpty, AnyMessage
    <3>3. ~UnknownMessage(n, session[n][s])
      BY <2>0, <2>1, <3>2 DEF UnknownMessage
    <3>4. ~Unknown BY <2>0, <2>1, <3>3 DEF Unknown
    <3>5. QED BY <1>1, <3>2, <3>4 DEF RingInv, PlacedInv
  <2>2. CASE ~(m = n /\ t = s)
    <3>1. session'[m][t] = session[m][t] BY <2>0, <2>2, StepChanges
    <3>2. Pending BY <3>1 DEF Pending, Empty
    <3>3. QED BY <1>1, <3>2 DEF RingInv, PlacedInv
  <2>3. QED BY <2>1, <2>2
<1>6. QED BY <1>4, <1>5 DEF PlacedInv

\* A step keeps the ring in order if it keeps each part of it in order.
LEMMA RingStep ==
    ASSUME RingInv, IInv', NEW n, NEW s, NEW next, NEW list, NEW flag,
           Step(n, s, next, list, flag),
           NoFaults', SelfInv', PredecessorInv', n \in running',
           Successor(n, list), AnyMessage(n, s, next),
           next.leg = "void" => ~Unnotified',
           KeepsSequential(n, s, next, list, flag),
           KeepsEmpty(n, s, next, list),
           KeepsLooking(n, s, next, list),
           KeepsPlaces(n, s, next, list),
           Unknown => SettledPredecessors',
           Looking => predecessor'[Joiner] \in Own \cup {NoPeer}
    PROVE  RingInv'
<1>1. SuccessorInv' BY SuccessorKept
<1>2. MessagesInv' BY MessagesKept
<1>3. SequentialInv'
  <2>1. Unnotified' => Unnotified BY DEF Step
  <2>2. QED BY <2>1, SequentialKept DEF KeepsSequential
<1>4. EmptyInv' BY EmptyKept DEF KeepsEmpty
<1>5. LookingInv' BY LookingKept
<1>6. PlacedInv' BY PlacedInvKept
<1>7. LoneJoin' BY DEF RingInv, LoneJoin
<1>8. QED BY <1>1, <1>2, <1>3, <1>4, <1>5, <1>6, <1>7 DEF RingInv

\* The tables, and who has been heard of, when only lists change.
LEMMA TablesKept ==
    ASSUME RingInv, NEW n, NEW s, NEW next, NEW list, NEW flag,
           n \in Node, s \in Slot, Continue(n, s, next),
           n = Joiner /\ s = JoinSlot => next.step = "query" \/ self[Joiner] = joined,
           UNCHANGED <<running, self, predecessor, late, faults>>
    PROVE  /\ NoFaults' /\ SelfInv' /\ PredecessorInv'
           /\ running \subseteq running' /\ Unnotified' = Unnotified
           /\ Unknown => SettledPredecessors'
           /\ Looking => predecessor'[Joiner] \in Own \cup {NoPeer}
<1>1. NoFaults' BY DEF RingInv, NoFaults, faults
<1>2. PredecessorInv' BY DEF RingInv, PredecessorInv, Adjacent, Follows
<1>3. SelfInv'
  <2>1. Joiner \in Node /\ JoinSlot \in Slot BY TheJoiner, SlotsAreSlots DEF RingInv
  <2>2. CASE n = Joiner /\ s = JoinSlot
    <3>1. session'[Joiner][JoinSlot] = next
      BY <2>1, <2>2 DEF Continue, RingInv, IInv, TypeOK
    <3>2. QED BY <2>2, <3>1 DEF SelfInv, RingInv
  <2>3. CASE ~(n = Joiner /\ s = JoinSlot)
    <3>1. session'[Joiner][JoinSlot] = session[Joiner][JoinSlot]
      BY <2>1, <2>3 DEF Continue, RingInv, IInv, TypeOK
    <3>2. QED BY <3>1 DEF SelfInv, RingInv
  <2>4. QED BY <2>2, <2>3
<1>4. Unnotified' = Unnotified BY DEF Unnotified
<1>5. Unknown => SettledPredecessors' BY DEF Unknown, SettledPredecessors
<1>6. Looking => predecessor'[Joiner] \in Own \cup {NoPeer}
  BY DEF RingInv, LookingInv
<1>7. QED BY <1>1, <1>2, <1>3, <1>4, <1>5, <1>6
-----------------------------------------------------------------------------
(* What the invariant says of one node, and of one object.                 *)

LEMMA RingNode ==
    ASSUME RingInv, NEW n \in Node
    PROVE  /\ self[n] \in Id /\ self[n] \in Peers
           /\ successor_list[n] \in Seq(Peer) /\ successor_list[n] # <<>>
           /\ Len(successor_list[n]) \in Nat /\ Len(successor_list[n]) >= 1
           /\ Successor(n, successor_list[n])
           /\ Head(successor_list[n]) \in Peers
           /\ stabilize_flag[n] \in BOOLEAN
           /\ n \in Settled => n \in running /\ self[n] = ObservedId[n]
           /\ n \in Settled \/ n = Joiner
<1>1. n \in Settled \/ n = Joiner BY TheJoiner DEF RingInv
<1>2. self[n] \in Id /\ successor_list[n] \in Seq(Peer) \ {<<>>}
      /\ stabilize_flag[n] \in BOOLEAN
  BY DEF RingInv, IInv, TypeOK
<1>3. Successor(n, successor_list[n]) BY DEF RingInv, SuccessorInv
<1>4. n \in Settled => n \in running /\ self[n] = ObservedId[n]
  BY DEF RingInv, NoFaults, SelfInv
<1>5. self[n] \in Peers
  <2>1. CASE n \in Settled BY <1>4, <2>1 DEF Members, Peers
  <2>2. CASE n = Joiner BY <2>2 DEF RingInv, SelfInv, Peers
  <2>3. QED BY <1>1, <2>1, <2>2
<1>6. QED BY <1>1, <1>2, <1>3, <1>4, <1>5 DEF Successor

LEMMA RingMessage ==
    ASSUME RingInv, NEW n \in Node, NEW s \in Slot
    PROVE  LET r == session[n][s] IN
           /\ r \in Session /\ AnyMessage(n, s, r) /\ MessageOK(n, s, r)
           /\ r.to \in Peer /\ r.peers \in Seq(Peer) /\ r.relays \in Seq(Node)
           /\ r.step # "idle" => n \in running
           /\ r.leg = "void" => ~Unnotified
           /\ Unknown => UnknownMessage(n, r)
           /\ Fresh /\ n = Joiner => FreshMessage(r)
           /\ Looking /\ n = Joiner => AloneMessage(r)
           /\ Placed => PlacedMessage(n, r)
           /\ Looking => Unknown
<1>1. IInv BY DEF RingInv
<1>2. QED BY <1>1, SessionState
          DEF RingInv, MessagesInv, Unknown, Fresh, LookingInv, Placed

\* The Joiner knows its identifier unless it is still asking for it.
LEMMA KnowsItself ==
    ASSUME RingInv, Joiner \in running, ~Looking
    PROVE  self[Joiner] = joined
BY DEF RingInv, SelfInv, Looking

\* The machine m that a request has reached.
LEMMA Reached ==
    ASSUME RingInv, NEW n \in Node, NEW s \in Slot, NEW step, NEW m,
           Arrived(n, s, step, m)
    PROVE  /\ m \in Node /\ m \in running /\ session[n][s].to \in Peers
           /\ session[n][s].step = step /\ session[n][s].leg = "req"
           /\ session[n][s].to \in Members => m \in Settled /\ ObservedId[m] = session[n][s].to
           /\ session[n][s].to \in Own => m = Joiner
           /\ m \in Settled => session[n][s].to \in Members
           /\ m = Joiner => session[n][s].to \in Own
<1>1. session[n][s].to \in Peers BY RingMessage DEF Arrived, AnyMessage
<1>2. LoneJoin BY DEF RingInv
<1>3. m = HostOf(session[n][s].to) /\ m \in running
      /\ session[n][s].step = step /\ session[n][s].leg = "req"
  BY DEF Arrived
<1>4. m \in Node BY <1>3 DEF RingInv, IInv, TypeOK
<1>5. QED BY <1>1, <1>2, <1>3, <1>4, Hosts, TheJoiner DEF Peers

-----------------------------------------------------------------------------
(* Steps that change no list and no flag.                                  *)

LEMMA QuietKeeps ==
    ASSUME RingInv, NEW n \in Node, NEW s \in Slot, NEW next \in Session,
           Continue(n, s, next), UNCHANGED <<successor_list, stabilize_flag>>,
           running \subseteq running', Unnotified' => Unnotified,
           next.step \in Owner =>
             next.step = session[n][s].step /\ next.to = session[n][s].to,
           IsEmpty(next) => Unnotified,
           n = Joiner /\ s = JoinSlot =>
             next.step \notin {"query", "find_successor"} \/ Looking,
           Unknown => UnknownMessage(n, next),
           n = Joiner /\ Looking => AloneMessage(next),
           n = Joiner /\ Unnotified /\ Unknown /\ Fresh => FreshMessage(next),
           Placed => PlacedMessage(n, next),
           AnyMessage(n, s, next)
    PROVE  LET list == successor_list[n]
               flag == stabilize_flag[n]
           IN  /\ Step(n, s, next, list, flag)
               /\ Successor(n, list)
               /\ KeepsSequential(n, s, next, list, flag)
               /\ KeepsEmpty(n, s, next, list)
               /\ KeepsLooking(n, s, next, list)
               /\ KeepsPlaces(n, s, next, list)
<1> DEFINE list == successor_list[n]
           flag == stabilize_flag[n]
<1>1. list \in Seq(Peer) \ {<<>>} /\ flag \in BOOLEAN /\ Successor(n, list)
  BY RingNode
<1>2. /\ successor_list' = [successor_list EXCEPT ![n] = list]
      /\ stabilize_flag' = [stabilize_flag EXCEPT ![n] = flag]
  BY DEF RingInv, IInv, TypeOK
<1>3. Step(n, s, next, list, flag) BY <1>1, <1>2 DEF Step
<1>4. next.step \in Owner => s \in Asking(n)
  BY DEF AnyMessage, Asking, Owner, StabilizeStep
<1>5. KeepsSequential(n, s, next, list, flag)
  <2> SUFFICES ASSUME Unnotified
               PROVE  /\ next.step \in Owner => flag /\ Asking(n) \subseteq {s}
                      /\ n \in Settled /\ next.step = "get_pred_and_succ_list" => next.to = Head(list)
    BY DEF KeepsSequential
  <2>1. /\ \A t, u \in Asking(n) : t = u
        /\ Asking(n) # {} => flag
        /\ \A t \in StabilizeSlot :
             n \in Settled /\ session[n][t].step = "get_pred_and_succ_list" =>
               session[n][t].to = Head(list)
    BY DEF RingInv, SequentialInv
  <2>2. next.step \in Owner => flag /\ Asking(n) \subseteq {s} BY <1>4, <2>1
  <2>3. n \in Settled /\ next.step = "get_pred_and_succ_list" => next.to = Head(list)
    BY <1>4, <2>1 DEF Owner, Asking
  <2>4. QED BY <2>2, <2>3
<1>6. KeepsEmpty(n, s, next, list)
  <2>1. IsEmpty(next) =>
          /\ session[n][s].step = "get_pred_and_succ_list"
          /\ next.to = session[n][s].to
    BY DEF IsEmpty, Owner
  <2>2. ASSUME NEW t \in StabilizeSlot \ {s}, Empty(n, t)
        PROVE  /\ n \in Settled => Head(list) = joined /\ (next.step \in Owner => next.to \in Own)
               /\ n = Joiner /\ Len(list) >= 2 => list[2] \in Peers
    BY <1>4, <2>2 DEF RingInv, EmptyInv
  <2>3. QED BY <2>1, <2>2 DEF KeepsEmpty
<1>7. Unknown => KeepsUnknown(n, next, list) BY DEF Unknown, KeepsUnknown
<1>8. KeepsLooking(n, s, next, list)
  BY <1>7 DEF RingInv, LookingInv, KeepsLooking
<1>9. Placed => KeepsPlaced(n, next, list) BY DEF Placed, KeepsPlaced
<1>10. Unnotified /\ Unknown /\ Fresh => KeepsFresh(n, next, list) BY DEF Fresh, KeepsFresh
<1>11. KeepsPlaces(n, s, next, list) BY <1>7, <1>9, <1>10 DEF KeepsPlaces
<1>12. QED BY <1>1, <1>3, <1>5, <1>6, <1>8, <1>11

LEMMA QuietRingStep ==
    ASSUME RingInv, IInv', NEW n \in Node, NEW s \in Slot, NEW next \in Session,
           Continue(n, s, next), n \in running,
           UNCHANGED <<running, self, predecessor, successor_list, stabilize_flag, late, faults>>,
           n = Joiner /\ s = JoinSlot => next.step = "query" \/ self[Joiner] = joined,
           next.leg = "void" => ~Unnotified,
           next.step \in Owner =>
             next.step = session[n][s].step /\ next.to = session[n][s].to,
           IsEmpty(next) => Unnotified,
           n = Joiner /\ s = JoinSlot =>
             next.step \notin {"query", "find_successor"} \/ Looking,
           Unknown => UnknownMessage(n, next),
           n = Joiner /\ Looking => AloneMessage(next),
           n = Joiner /\ Unnotified /\ Unknown /\ Fresh => FreshMessage(next),
           Placed => PlacedMessage(n, next),
           AnyMessage(n, s, next)
    PROVE  RingInv'
<1> DEFINE list == successor_list[n]
           flag == stabilize_flag[n]
<1>1. /\ NoFaults' /\ SelfInv' /\ PredecessorInv'
      /\ running \subseteq running' /\ Unnotified' = Unnotified
      /\ Unknown => SettledPredecessors'
      /\ Looking => predecessor'[Joiner] \in Own \cup {NoPeer}
  <2>1. UNCHANGED <<running, self, predecessor, late, faults>> OBVIOUS
  <2>2. QED BY <2>1, TablesKept
<1>2. /\ Step(n, s, next, list, flag)
      /\ Successor(n, list)
      /\ KeepsSequential(n, s, next, list, flag)
      /\ KeepsEmpty(n, s, next, list)
      /\ KeepsLooking(n, s, next, list)
      /\ KeepsPlaces(n, s, next, list)
  <2>1. UNCHANGED <<successor_list, stabilize_flag>> OBVIOUS
  <2>2. QED BY <1>1, <2>1, QuietKeeps
<1>3. n \in running' BY <1>1
<1> HIDE DEF list, flag
<1>4. QED BY <1>1, <1>2, <1>3, RingStep

-----------------------------------------------------------------------------
(* A member that only knows members answers the Joiner's lookup with the   *)
(* member that follows, or passes it on to another one.                    *)
LEMMA LookupOfTheJoiner ==
    ASSUME RingInv, Unknown, NEW m \in Settled
    PROVE  LET found == find_successor(self[m], successor_list[m], joined) IN
           \/ Follows(found)
           \/ /\ found = NoPeer
              /\ closest_preceding_node(self[m], successor_list[m], joined) \in Members
<1> DEFINE a == self[m]
           list == successor_list[m]
           h == Head(list)
           found == find_successor(a, list, joined)
<1>1. m \in Node /\ a \in Members /\ a = ObservedId[m]
  BY TheJoiner, RingNode DEF RingInv
<1>2. list \in Seq(Members) /\ list \in Seq(Peer) \ {<<>>} /\ Len(list) \in Nat
  BY <1>1, RingNode DEF Unknown, Full
<1>3. h \in Members /\ Adjacent(a, h) BY <1>1, <1>2, RingNode DEF Successor
<1>4. /\ Members \subseteq Peer /\ joined \in Peer /\ joined \notin Members
      /\ a \in Peer /\ h \in Peer
  BY <1>1, <1>3, TheJoiner DEF RingInv
<1>5. CASE (between(a, joined, h) \/ joined = h) /\ found = h
  <2>1. between(a, joined, h) BY <1>3, <1>4, <1>5
  <2>2. Adjacent(joined, h) BY <1>3, <1>4, <2>1, PartOfArc
  <2>3. QED BY <1>3, <1>5, <2>2 DEF Follows
<1>6. CASE Preceding(a, list, joined) = {} /\ ~between(a, joined, h)
  <2>1. between(a, h, joined) BY <1>1, <1>3, <1>4, <1>6, BetweenIsTotal
  <2>2. 1 \in 1..Len(list) /\ list[1] = h BY <1>2
  <2>3. 1 \in Preceding(a, list, joined) BY <2>1, <2>2 DEF Preceding
  <2>4. QED BY <1>6, <2>3
<1>7. CASE found = NoPeer /\ closest_preceding_node(a, list, joined) # a
  <2>1. PICK i \in 1..Len(list) : closest_preceding_node(a, list, joined) = list[i]
    BY <1>2, <1>4, <1>7, ClosestPrecedingProperties
  <2>2. QED BY <1>2, <1>7, <2>1
<1>8. QED BY <1>2, <1>4, <1>5, <1>6, <1>7, FindSuccessorProperties
-----------------------------------------------------------------------------
(* The request handlers that answer.                                       *)

\* object r after a response with these peers
Answers(r, peers, next) ==
    /\ next.step = r.step /\ next.leg = "rsp" /\ next.to = r.to
    /\ next.relays = r.relays /\ next.peers = peers

KeepsMessage(n, s, next) ==
    /\ AnyMessage(n, s, next)
    /\ IsEmpty(next) => Unnotified
    /\ Unknown => UnknownMessage(n, next)
    /\ n = Joiner /\ Looking => AloneMessage(next)
    /\ n = Joiner /\ Unnotified /\ Unknown /\ Fresh => FreshMessage(next)
    /\ Placed => PlacedMessage(n, next)

LEMMA RespondRingStep ==
    ASSUME RingInv, IInv', NEW n \in Node, NEW s \in Slot, NEW peers \in Seq(Peer),
           NEW step, NEW m, Arrived(n, s, step, m), step # "idle",
           Respond(n, s, peers), UNCHANGED <<running, table, flags, late, faults>>,
           \A next \in Session :
             Answers(session[n][s], peers, next) => KeepsMessage(n, s, next)
    PROVE  RingInv'
<1> DEFINE r == session[n][s]
           next == [r EXCEPT !.leg = "rsp", !.peers = peers]
<1>1. r \in Session /\ (r.step # "idle" => n \in running) BY RingMessage
<1>2. next \in Session /\ Answers(r, peers, next) /\ Continue(n, s, next)
  BY <1>1 DEF Session, Answers, Respond
<1>3. UNCHANGED <<running, self, predecessor, successor_list, stabilize_flag, late, faults>>
  BY DEF table, flags
<1>4. n \in running /\ next.step = r.step /\ next.to = r.to /\ next.leg = "rsp"
  BY <1>1, <1>2 DEF Arrived, Answers
<1> HIDE DEF next
<1>5. KeepsMessage(n, s, next) BY <1>2
<1>6. n = Joiner /\ s = JoinSlot => next.step = "query" \/ self[Joiner] = joined
  BY <1>4 DEF RingInv, SelfInv
<1>7. n = Joiner /\ s = JoinSlot => next.step \notin {"query", "find_successor"} \/ Looking
  BY <1>4 DEF Looking
<1>8. QED BY <1>2, <1>3, <1>4, <1>5, <1>6, <1>7, QuietRingStep DEF KeepsMessage

LEMMA QueryKeeps ==
    ASSUME RingInv, IInv', NEW n \in Node, NEW s \in Slot, NEW m,
           Query_handle_request(n, s, m)
    PROVE  RingInv'
<1> DEFINE r == session[n][s]
<1>1. /\ Arrived(n, s, "query", m) /\ Respond(n, s, <<ObservedId[n]>>)
      /\ UNCHANGED <<running, table, flags, late, faults>>
  BY DEF Query_handle_request
<1>2. r \in Session /\ AnyMessage(n, s, r) /\ r.step = "query" BY <1>1, RingMessage DEF Arrived
<1>3. n = Joiner BY <1>2 DEF AnyMessage, JoinStep
<1>4. <<ObservedId[n]>> \in Seq(Peer) BY NodesAssumption DEF Id, Peer
<1>5. ASSUME NEW next \in Session, Answers(r, <<ObservedId[n]>>, next)
      PROVE  KeepsMessage(n, s, next)
  <2>1. next.step = "query" /\ next.leg = "rsp" /\ next.to = r.to
        /\ next.relays = r.relays /\ next.peers = <<joined>>
    BY <1>2, <1>3, <1>5 DEF Answers, joined
  <2>2. AnyMessage(n, s, next)
    BY <1>2, <2>1 DEF AnyMessage, IsEmpty, ListAnswer, Notice, SettledMessage, JoinMessage,
       JoinStep, StabilizeStep, CheckStep, Owner
  <2>3. UnknownMessage(n, next) /\ AloneMessage(next) /\ FreshMessage(next)
        /\ PlacedMessage(n, next) /\ ~IsEmpty(next)
    BY <1>3, <2>1, TheJoiner
    DEF RingInv, UnknownMessage, AloneMessage, FreshMessage, PlacedMessage, IsEmpty,
        StabilizeStep, Owner
  <2>4. QED BY <2>2, <2>3 DEF KeepsMessage
<1>6. QED BY <1>1, <1>4, <1>5, RespondRingStep

LEMMA FindSuccessorKeeps ==
    ASSUME RingInv, IInv', NEW n \in Node, NEW s \in Slot, NEW m,
           FindSuccessor_handle_request(n, s, m)
    PROVE  RingInv'
<1> DEFINE r == session[n][s]
           successor == find_successor(self[m], successor_list[m], Head(r.peers))
<1>1. /\ Arrived(n, s, "find_successor", m) /\ Respond(n, s, <<successor>>)
      /\ successor # NoPeer
      /\ UNCHANGED <<running, table, flags, late, faults>>
  BY DEF FindSuccessor_handle_request
<1>2. r \in Session /\ AnyMessage(n, s, r) /\ r.step = "find_successor" /\ r.leg = "req"
  BY <1>1, RingMessage DEF Arrived
<1>3. n = Joiner /\ s = JoinSlot /\ r.peers = <<joined>> /\ r.to \in Members
  BY <1>2 DEF AnyMessage, JoinStep, JoinMessage
<1>4. m \in Settled BY <1>1, <1>3, Reached
<1>5. Unknown BY <1>2, <1>3 DEF RingInv, LookingInv, Looking
<1>6. Follows(successor) BY <1>1, <1>3, <1>4, <1>5, LookupOfTheJoiner
<1> HIDE DEF successor
<1>7. <<successor>> \in Seq(Peer) BY <1>6, TheJoiner DEF RingInv, Follows
<1>8. ASSUME NEW next \in Session, Answers(r, <<successor>>, next)
      PROVE  KeepsMessage(n, s, next)
  <2>1. next.step = "find_successor" /\ next.leg = "rsp" /\ next.to = r.to
        /\ next.relays = r.relays /\ next.peers = <<successor>>
    BY <1>2, <1>8 DEF Answers
  <2>2. AnyMessage(n, s, next)
    BY <1>2, <1>6, <2>1 DEF AnyMessage, IsEmpty, ListAnswer, Notice, SettledMessage,
       JoinMessage, JoinStep, StabilizeStep, CheckStep, Owner
  <2>3. UnknownMessage(n, next) /\ AloneMessage(next) /\ FreshMessage(next)
        /\ PlacedMessage(n, next) /\ ~IsEmpty(next)
    BY <1>3, <2>1, TheJoiner
    DEF RingInv, UnknownMessage, AloneMessage, FreshMessage, PlacedMessage, IsEmpty,
        StabilizeStep, Owner
  <2>4. QED BY <2>2, <2>3 DEF KeepsMessage
<1>9. QED BY <1>1, <1>7, <1>8, RespondRingStep

LEMMA ForwardKeeps ==
    ASSUME RingInv, IInv', NEW n \in Node, NEW s \in Slot, NEW m,
           forward_request(n, s, m)
    PROVE  RingInv'
<1> DEFINE r == session[n][s]
           closest == closest_preceding_node(self[m], successor_list[m], Head(r.peers))
           next == [r EXCEPT !.to = closest, !.relays = Append(@, m)]
<1>1. /\ Arrived(n, s, "find_successor", m) /\ Continue(n, s, next)
      /\ find_successor(self[m], successor_list[m], Head(r.peers)) = NoPeer
      /\ UNCHANGED <<running, self, predecessor, successor_list, stabilize_flag, late, faults>>
  BY DEF forward_request, table, flags
<1>2. r \in Session /\ AnyMessage(n, s, r) /\ r.step = "find_successor" /\ r.leg = "req"
      /\ n \in running /\ r.relays \in Seq(Node)
  BY <1>1, RingMessage DEF Arrived
<1>3. n = Joiner /\ s = JoinSlot /\ r.peers = <<joined>> /\ r.to \in Members
  BY <1>2 DEF AnyMessage, JoinStep, JoinMessage
<1>4. m \in Settled /\ m \in Node BY <1>1, <1>3, Reached
<1>5. Looking /\ Unknown BY <1>2, <1>3 DEF RingInv, LookingInv, Looking
<1>6. closest \in Members
  <2>1. ~Follows(NoPeer) BY TheJoiner DEF RingInv, Follows, Peers
  <2>2. QED BY <1>1, <1>3, <1>4, <1>5, <2>1, LookupOfTheJoiner
<1>7. closest \in Peer /\ Members \subseteq Peers /\ joined \notin Members
  BY <1>6, TheJoiner DEF RingInv, Peers
<1> HIDE DEF closest
<1>8. /\ next \in Session /\ next.step = "find_successor" /\ next.leg = "req"
      /\ next.to = closest /\ next.peers = <<joined>>
  <2>1. Append(r.relays, m) \in Seq(Node) BY <1>2, <1>4
  <2>2. QED BY <1>2, <1>3, <1>7, <2>1 DEF Session
<1> HIDE DEF next
<1>9. AnyMessage(n, s, next)
  BY <1>2, <1>3, <1>6, <1>7, <1>8 DEF AnyMessage, IsEmpty, ListAnswer, Notice, SettledMessage,
     JoinMessage, JoinStep, StabilizeStep, CheckStep, Owner
<1>10. UnknownMessage(n, next) /\ AloneMessage(next) /\ FreshMessage(next)
       /\ PlacedMessage(n, next) /\ ~IsEmpty(next)
  BY <1>3, <1>8, TheJoiner
  DEF RingInv, UnknownMessage, AloneMessage, FreshMessage, PlacedMessage, IsEmpty,
      StabilizeStep, Owner
<1>11. self[Joiner] = joined BY <1>2, <1>3 DEF RingInv, SelfInv
<1>12. next.step \notin Owner BY <1>8 DEF Owner
<1>13. QED BY <1>1, <1>2, <1>5, <1>8, <1>9, <1>10, <1>11, <1>12, QuietRingStep

LEMMA GetSuccessorListKeeps ==
    ASSUME RingInv, IInv', NEW n \in Node, NEW s \in Slot, NEW m,
           GetSuccessorList_handle_request(n, s, m)
    PROVE  RingInv'
<1> DEFINE r == session[n][s]
           list == successor_list[m]
<1>1. /\ Arrived(n, s, "get_successor_list", m) /\ Respond(n, s, list)
      /\ UNCHANGED <<running, table, flags, late, faults>>
  BY DEF GetSuccessorList_handle_request
<1>2. r \in Session /\ AnyMessage(n, s, r) /\ r.step = "get_successor_list"
  BY <1>1, RingMessage DEF Arrived
<1>3. n = Joiner /\ s = JoinSlot /\ r.to \in Members
  BY <1>2 DEF AnyMessage, JoinStep, JoinMessage
<1>4. m \in Settled /\ m \in Node BY <1>1, <1>3, Reached
<1>5. list \in Seq(Peer) /\ list # <<>> /\ Head(list) \in Peers BY <1>4, RingNode
<1>6. Unknown => Full(list, 0) BY <1>4 DEF Unknown
<1> HIDE DEF list
<1>7. ASSUME NEW next \in Session, Answers(r, list, next)
      PROVE  KeepsMessage(n, s, next)
  <2>1. next.step = "get_successor_list" /\ next.leg = "rsp" /\ next.to = r.to
        /\ next.relays = r.relays /\ next.peers = list
    BY <1>2, <1>7 DEF Answers
  <2>2. AnyMessage(n, s, next)
    BY <1>2, <1>5, <2>1 DEF AnyMessage, IsEmpty, ListAnswer, Notice, SettledMessage,
       JoinMessage, JoinStep, StabilizeStep, CheckStep, Owner
  <2>3. UnknownMessage(n, next) /\ AloneMessage(next) /\ (Unknown => FreshMessage(next))
        /\ PlacedMessage(n, next) /\ ~IsEmpty(next)
    BY <1>3, <1>6, <2>1, TheJoiner
    DEF RingInv, UnknownMessage, AloneMessage, FreshMessage, PlacedMessage, IsEmpty,
        StabilizeStep, Owner
  <2>4. QED BY <2>2, <2>3 DEF KeepsMessage
<1>8. QED BY <1>1, <1>5, <1>7, RespondRingStep

\* A list behind another peer.
LEMMA Behind ==
    ASSUME NEW p \in Peer, NEW list \in Seq(Peer), list # <<>>
    PROVE  LET peers == <<p>> \o list IN
           /\ peers \in Seq(Peer) /\ peers # <<>> /\ Len(peers) >= 2
           /\ Head(peers) = p /\ peers[2] = Head(list)
           /\ Range(peers) \subseteq {p} \cup Range(list)
<1> DEFINE peers == <<p>> \o list
<1>1. Len(list) \in Nat /\ Len(list) # 0 BY EmptySeq
<1>2. peers \in Seq(Peer) /\ Len(peers) = Len(list) + 1 BY <1>1
<1>3. \A i \in 1..Len(peers) : peers[i] = IF i = 1 THEN p ELSE list[i - 1] BY <1>1, <1>2
<1>4. Head(peers) = p /\ peers[2] = Head(list) /\ peers # <<>> BY <1>1, <1>2, <1>3
<1>5. Range(peers) \subseteq {p} \cup Range(list)
  <2> SUFFICES ASSUME NEW i \in 1..Len(peers) PROVE peers[i] \in {p} \cup Range(list)
    BY <1>2 DEF Range
  <2>1. CASE i = 1 BY <1>3, <2>1
  <2>2. CASE i # 1
    <3>1. i - 1 \in 1..Len(list) /\ peers[i] = list[i - 1] BY <1>1, <1>2, <1>3, <2>2
    <3>2. QED BY <3>1 DEF Range
  <2>3. QED BY <2>1, <2>2
<1>6. QED BY <1>1, <1>2, <1>4, <1>5

LEMMA FullBehind ==
    ASSUME NEW p \in Members, NEW list, Full(list, 0)
    PROVE  Full(<<p>> \o list, 1)
<1>1. list \in Seq(Members) /\ Len(list) = SuccListSize BY SuccListSizeAssumption DEF Full
<1>2. QED BY <1>1, SuccListSizeAssumption DEF Full

LEMMA GetPredAndSuccListKeeps ==
    ASSUME RingInv, IInv', NEW n \in Node, NEW s \in Slot, NEW m,
           GetPredAndSuccList_handle_request(n, s, m)
    PROVE  RingInv'
<1> DEFINE r == session[n][s]
           p == predecessor[m]
           list == successor_list[m]
           peers == IF p = NoPeer THEN <<>> ELSE <<p>> \o list
<1>1. /\ Arrived(n, s, "get_pred_and_succ_list", m) /\ Respond(n, s, peers)
      /\ UNCHANGED <<running, table, flags, late, faults>>
  BY DEF GetPredAndSuccList_handle_request
<1>2. /\ r \in Session /\ AnyMessage(n, s, r) /\ r.step = "get_pred_and_succ_list"
      /\ r.leg = "req" /\ r.to \in Peers
  BY <1>1, RingMessage, Reached DEF Arrived
<1>3. /\ m \in Node
      /\ r.to \in Members => m \in Settled
      /\ r.to \in Own => m = Joiner
      /\ m \in Settled => r.to \in Members
      /\ m = Joiner => r.to \in Own
  BY <1>1, Reached
<1>4. /\ list \in Seq(Peer) /\ list # <<>> /\ Head(list) \in Peers
      /\ m \in Settled \/ m = Joiner
      /\ n \in Settled \/ n = Joiner
  BY <1>3, RingNode
<1>5. /\ Peers \subseteq Peer /\ NoPeer \notin Peers /\ Members \cap Own = {}
      /\ joined \in Own /\ Joiner \notin Settled /\ Peers = Members \cup Own
  BY TheJoiner DEF RingInv, Peers
<1>6. /\ m \in Settled => p \in Members \cup {joined}
      /\ p # NoPeer => p \in Peers
  BY <1>4, <1>5 DEF RingInv, PredecessorInv
<1>7. peers \in Seq(Peer) BY <1>4, <1>5, <1>6, Behind
<1>8. p # NoPeer =>
        /\ peers # <<>> /\ Len(peers) >= 2
        /\ Head(peers) = p /\ peers[2] = Head(list)
        /\ Range(peers) \subseteq {p} \cup Range(list)
  BY <1>4, <1>5, <1>6, Behind
<1>9. p = NoPeer => peers = <<>> /\ m = Joiner /\ Unnotified /\ r.to \in Own
  BY <1>3, <1>4, <1>5, <1>6 DEF Unnotified
<1>10. Unknown /\ m \in Settled => Full(peers, 1)
  <2> SUFFICES ASSUME Unknown, m \in Settled PROVE Full(peers, 1) OBVIOUS
  <2>1. p \in Members /\ Full(list, 0) /\ p # NoPeer BY <1>5 DEF Unknown
  <2>2. QED BY <2>1, FullBehind
<1>11. Looking /\ m = Joiner => Range(peers) \subseteq Own \cup {BlankId}
  <2> SUFFICES ASSUME Looking, m = Joiner, p # NoPeer
               PROVE  Range(peers) \subseteq Own \cup {BlankId}
    BY <1>9 DEF Range
  <2>1. Range(list) \subseteq Own \cup {BlankId} /\ p \in Own
    BY DEF RingInv, LookingInv
  <2>2. QED BY <1>8, <2>1
<1>12. m = Joiner /\ Unnotified => peers = <<>> BY DEF Unnotified
<1>13. Placed /\ m = Joiner => Follows(Head(list)) BY DEF Placed
<1> HIDE DEF list, peers, p
<1>14. ASSUME NEW next \in Session, Answers(r, peers, next)
       PROVE  KeepsMessage(n, s, next)
  <2>1. /\ next.step = "get_pred_and_succ_list" /\ next.leg = "rsp" /\ next.to = r.to
        /\ next.relays = r.relays /\ next.peers = peers
    BY <1>2, <1>14 DEF Answers
  <2>2. ListAnswer(next) BY <1>2, <1>3, <1>4, <1>6, <1>8, <1>9, <2>1 DEF ListAnswer
  <2>3. SettledMessage(n, next) BY <1>2, <2>1 DEF AnyMessage, SettledMessage, Owner
  <2>4. AnyMessage(n, s, next)
    BY <1>2, <1>8, <1>9, <2>1, <2>2, <2>3 DEF AnyMessage, IsEmpty, Notice,
       JoinMessage, JoinStep, StabilizeStep, CheckStep
  <2>5. IsEmpty(next) => Unnotified BY <1>8, <1>9, <2>1 DEF IsEmpty
  <2>6. Unknown => UnknownMessage(n, next)
    <3> SUFFICES ASSUME Unknown PROVE UnknownMessage(n, next) OBVIOUS
    <3>1. UnknownMessage(n, r) BY RingMessage
    <3>2. QED BY <1>2, <1>3, <1>10, <2>1, <3>1 DEF UnknownMessage
  <2>7. n = Joiner /\ Looking => AloneMessage(next)
    <3> SUFFICES ASSUME n = Joiner, Looking PROVE AloneMessage(next) OBVIOUS
    <3>1. AloneMessage(r) BY RingMessage
    <3>2. r.to \in Own BY <1>2, <3>1 DEF AloneMessage, StabilizeStep
    <3>3. QED BY <1>3, <1>11, <2>1, <3>2 DEF AloneMessage
  <2>8. n = Joiner /\ Unnotified /\ Unknown /\ Fresh => FreshMessage(next)
    <3>1. Unnotified /\ Unknown => peers = <<>> \/ Full(peers, 1) BY <1>4, <1>10, <1>12
    <3>2. QED BY <2>1, <3>1 DEF FreshMessage
  <2>9. Placed => PlacedMessage(n, next)
    <3> SUFFICES ASSUME Placed PROVE PlacedMessage(n, next) OBVIOUS
    <3>1. PlacedMessage(n, r) BY RingMessage
    <3>2. QED BY <1>2, <1>3, <1>8, <1>9, <1>13, <2>1, <3>1 DEF PlacedMessage, Owner
  <2>10. QED BY <2>4, <2>5, <2>6, <2>7, <2>8, <2>9 DEF KeepsMessage
<1>15. QED BY <1>1, <1>7, <1>14, RespondRingStep

LEMMA GetSelfAndSuccListKeeps ==
    ASSUME RingInv, IInv', NEW n \in Node, NEW s \in Slot, NEW m,
           GetSelfAndSuccList_handle_request(n, s, m)
    PROVE  RingInv'
<1> DEFINE r == session[n][s]
           p == self[m]
           list == successor_list[m]
           peers == <<p>> \o list
<1>1. /\ Arrived(n, s, "get_self_and_succ_list", m) /\ Respond(n, s, peers)
      /\ UNCHANGED <<running, table, flags, late, faults>>
  BY DEF GetSelfAndSuccList_handle_request
<1>2. /\ r \in Session /\ AnyMessage(n, s, r) /\ r.step = "get_self_and_succ_list"
      /\ r.leg = "req" /\ r.to \in Peers
  BY <1>1, RingMessage, Reached DEF Arrived
<1>3. /\ m \in Node /\ m \in running
      /\ r.to \in Members => m \in Settled
      /\ r.to \in Own => m = Joiner
      /\ m \in Settled => r.to \in Members
      /\ m = Joiner => r.to \in Own
  BY <1>1, Reached
<1>4. /\ list \in Seq(Peer) /\ list # <<>> /\ Head(list) \in Peers
      /\ p \in Peers
      /\ m \in Settled => p = ObservedId[m]
      /\ m \in Settled \/ m = Joiner
      /\ n \in Settled \/ n = Joiner
  BY <1>3, RingNode
<1>5. /\ Peers \subseteq Peer /\ Members \cap Own = {}
      /\ joined \in Own /\ Joiner \notin Settled /\ Peers = Members \cup Own
      /\ m \in Settled => p \in Members
  BY <1>4, TheJoiner DEF RingInv, Peers
<1>6. /\ peers \in Seq(Peer) /\ peers # <<>> /\ Len(peers) >= 2
      /\ Head(peers) = p /\ peers[2] = Head(list)
      /\ Range(peers) \subseteq {p} \cup Range(list)
  BY <1>4, <1>5, Behind
<1>7. n \in Settled => r.to \in Own /\ m = Joiner /\ p = joined
  <2> SUFFICES ASSUME n \in Settled PROVE r.to \in Own /\ m = Joiner /\ p = joined
    OBVIOUS
  <2>1. r.to \in Own BY <1>2 DEF AnyMessage, SettledMessage, Owner
  <2>2. m = Joiner BY <1>3, <2>1
  <2>3. ~UnknownMessage(n, r) BY <1>2 DEF UnknownMessage
  <2>4. ~Looking BY <2>3, RingMessage
  <2>5. p = joined BY <1>3, <2>2, <2>4, KnowsItself
  <2>6. QED BY <2>1, <2>2, <2>5
<1>8. Unknown /\ m \in Settled => Full(peers, 1)
  <2> SUFFICES ASSUME Unknown, m \in Settled PROVE Full(peers, 1) OBVIOUS
  <2>1. p \in Members /\ Full(list, 0) BY <1>5 DEF Unknown
  <2>2. QED BY <2>1, FullBehind
<1>9. Looking /\ m = Joiner => Range(peers) \subseteq Own \cup {BlankId}
  <2> SUFFICES ASSUME Looking, m = Joiner
               PROVE  Range(peers) \subseteq Own \cup {BlankId}
    OBVIOUS
  <2>1. Range(list) \subseteq Own \cup {BlankId} /\ p \in Own
    BY DEF RingInv, LookingInv, SelfInv
  <2>2. QED BY <1>6, <2>1
<1>10. Placed /\ m = Joiner => Follows(Head(list)) BY DEF Placed
<1> HIDE DEF list, peers, p
<1>11. ASSUME NEW next \in Session, Answers(r, peers, next)
       PROVE  KeepsMessage(n, s, next)
  <2>1. /\ next.step = "get_self_and_succ_list" /\ next.leg = "rsp" /\ next.to = r.to
        /\ next.relays = r.relays /\ next.peers = peers
    BY <1>2, <1>11 DEF Answers
  <2>2. ListAnswer(next) BY <1>2, <1>3, <1>4, <1>5, <1>6, <2>1 DEF ListAnswer
  <2>3. SettledMessage(n, next)
    BY <1>2, <1>6, <1>7, <2>1 DEF AnyMessage, SettledMessage, Owner
  <2>4. AnyMessage(n, s, next)
    BY <1>2, <1>6, <2>1, <2>2, <2>3 DEF AnyMessage, IsEmpty, Notice,
       JoinMessage, JoinStep, StabilizeStep, CheckStep
  <2>5. ~IsEmpty(next) BY <2>1 DEF IsEmpty
  <2>6. Unknown => UnknownMessage(n, next)
    <3> SUFFICES ASSUME Unknown PROVE UnknownMessage(n, next) OBVIOUS
    <3>1. UnknownMessage(n, r) BY RingMessage
    <3>2. QED BY <1>2, <2>1, <3>1 DEF UnknownMessage
  <2>7. n = Joiner /\ Looking => AloneMessage(next)
    <3> SUFFICES ASSUME n = Joiner, Looking PROVE AloneMessage(next) OBVIOUS
    <3>1. AloneMessage(r) BY RingMessage
    <3>2. r.to \in Own BY <1>2, <3>1 DEF AloneMessage, StabilizeStep
    <3>3. QED BY <1>3, <1>9, <2>1, <3>2 DEF AloneMessage
  <2>8. n = Joiner /\ Unnotified /\ Unknown /\ Fresh => FreshMessage(next)
    <3> SUFFICES ASSUME n = Joiner, Unknown, Fresh PROVE FreshMessage(next) OBVIOUS
    <3>1. FreshMessage(r) BY RingMessage
    <3>2. r.to \in Members BY <1>2, <3>1 DEF FreshMessage
    <3>3. QED BY <1>3, <1>8, <2>1, <3>2 DEF FreshMessage
  <2>9. Placed => PlacedMessage(n, next)
    <3> SUFFICES ASSUME Placed PROVE PlacedMessage(n, next) OBVIOUS
    <3>1. PlacedMessage(n, r) BY RingMessage
    <3>2. QED BY <1>2, <1>3, <1>6, <1>10, <2>1, <3>1 DEF PlacedMessage, Owner
  <2>10. QED BY <2>4, <2>5, <2>6, <2>7, <2>8, <2>9 DEF KeepsMessage
<1>12. QED BY <1>1, <1>6, <1>11, RespondRingStep

LEMMA CheckPredecessorKeeps ==
    ASSUME RingInv, IInv', NEW n \in Node, NEW s \in Slot, NEW m,
           CheckPredecessor_handle_request(n, s, m)
    PROVE  RingInv'
<1> DEFINE r == session[n][s]
<1>1. /\ Arrived(n, s, "check_predecessor", m) /\ Respond(n, s, <<>>)
      /\ UNCHANGED <<running, table, flags, late, faults>>
  BY DEF CheckPredecessor_handle_request
<1>2. r \in Session /\ AnyMessage(n, s, r) /\ r.step = "check_predecessor"
  BY <1>1, RingMessage DEF Arrived
<1>3. <<>> \in Seq(Peer) BY EmptySeq
<1>4. ASSUME NEW next \in Session, Answers(r, <<>>, next)
      PROVE  KeepsMessage(n, s, next)
  <2>1. next.step = "check_predecessor" /\ next.leg = "rsp" /\ next.to = r.to
        /\ next.relays = r.relays /\ next.peers = <<>>
    BY <1>2, <1>4 DEF Answers
  <2>2. AnyMessage(n, s, next)
    BY <1>2, <2>1 DEF AnyMessage, IsEmpty, ListAnswer, Notice, SettledMessage, JoinMessage,
       JoinStep, StabilizeStep, CheckStep, Owner
  <2>3. AloneMessage(next) /\ FreshMessage(next) /\ PlacedMessage(n, next) /\ ~IsEmpty(next)
    BY <2>1 DEF AloneMessage, FreshMessage, PlacedMessage, IsEmpty, StabilizeStep, Owner
  <2>4. Unknown => UnknownMessage(n, next)
    <3> SUFFICES ASSUME Unknown PROVE UnknownMessage(n, next) OBVIOUS
    <3>1. UnknownMessage(n, r) BY RingMessage
    <3>2. QED BY <1>2, <2>1, <3>1 DEF UnknownMessage
  <2>5. QED BY <2>2, <2>3, <2>4 DEF KeepsMessage
<1>5. QED BY <1>1, <1>3, <1>4, RespondRingStep

\* A node that is notified takes the notifier for its predecessor only if no
\* member lies between them.
LEMMA NotifiedPredecessor ==
    ASSUME RingInv, NEW n \in Node, NEW s \in Slot, NEW m,
           Arrived(n, s, "notify", m),
           predecessor' = Rectified(m, Head(session[n][s].peers))
    PROVE  /\ PredecessorInv'
           /\ Unnotified' => Unnotified
           /\ predecessor[m] = NoPeer => m = Joiner /\ ~Unnotified'
           /\ Unknown => SettledPredecessors'
           /\ Looking => predecessor'[Joiner] \in Own \cup {NoPeer}
<1> DEFINE r == session[n][s]
           x == Head(r.peers)
<1>1. /\ r.step = "notify" /\ r.leg = "req" /\ AnyMessage(n, s, r)
      /\ r.to \in Peers /\ m \in Node
      /\ r.to \in Members => m \in Settled /\ ObservedId[m] = r.to
      /\ r.to \in Own => m = Joiner
      /\ m \in Settled => r.to \in Members
  BY Reached, RingMessage
<1>2. /\ Joiner \in Node /\ Joiner \notin Settled /\ Settled \subseteq Node
      /\ n \in Settled \/ n = Joiner
      /\ Members \cap Own = {} /\ NoPeer \notin Peers /\ Peers \subseteq Peer
      /\ joined \in Own /\ Own \subseteq Peers /\ Members \subseteq Peers
      /\ \A k \in Settled : ObservedId[k] \in Members
  BY TheJoiner, RingNode DEF RingInv, Peers
<1>3. /\ n \in Settled => x = ObservedId[n]
      /\ n = Joiner => x \in Own
      /\ n = Joiner /\ r.to \in Members => x = joined
  BY <1>1 DEF AnyMessage, Notice
<1>4. x \in Peers BY <1>2, <1>3
<1>5. /\ predecessor \in [Node -> Id \cup {NoPeer}]
      /\ self \in [Node -> Id]
      /\ m \in Settled => self[m] = ObservedId[m]
  BY DEF RingInv, IInv, TypeOK, SelfInv
<1>6. /\ \A k \in Node \ {m} : predecessor'[k] = predecessor[k]
      /\ \/ predecessor'[m] = predecessor[m] /\ predecessor[m] # NoPeer
         \/ /\ predecessor'[m] = x
            /\ predecessor[m] = NoPeer \/ between(predecessor[m], x, self[m])
  BY <1>1, <1>5 DEF Rectified
<1>7. \A k \in Settled :
        \/ predecessor[k] \in Members /\ Adjacent(predecessor[k], ObservedId[k])
        \/ predecessor[k] = joined /\ Follows(ObservedId[k])
  BY DEF RingInv, PredecessorInv
<1> HIDE DEF x
<1>8. ASSUME m \in Settled, predecessor'[m] # predecessor[m]
      PROVE  n = Joiner /\ x = joined /\ Follows(ObservedId[m]) /\ r.to = ObservedId[m]
  <2>1. predecessor[m] # NoPeer BY <1>2, <1>7, <1>8
  <2>2. between(predecessor[m], x, ObservedId[m]) /\ predecessor'[m] = x
    BY <1>5, <1>6, <1>8, <2>1
  <2>3. x \notin Members
    <3> SUFFICES ASSUME x \in Members PROVE FALSE OBVIOUS
    <3>1. Adjacent(predecessor[m], ObservedId[m]) BY <1>7, <1>8 DEF Follows
    <3>2. QED BY <2>2, <3>1 DEF Adjacent
  <2>4. n = Joiner /\ x = joined /\ r.to = ObservedId[m] /\ r.to \in Members
    BY <1>1, <1>2, <1>3, <1>8, <2>3
  <2>5. predecessor[m] \in Members /\ Adjacent(predecessor[m], ObservedId[m])
    <3>1. predecessor[m] # joined BY <1>8, <2>2, <2>4
    <3>2. QED BY <1>7, <1>8, <3>1
  <2>6. Adjacent(joined, ObservedId[m])
    <3>1. /\ predecessor[m] \in Peer /\ joined \in Peer /\ ObservedId[m] \in Peer
          /\ Members \subseteq Peer
      BY <1>2, <1>8, <2>5
    <3>2. QED BY <2>2, <2>4, <2>5, <3>1, PartOfArc
  <2>7. QED BY <1>2, <1>8, <2>4, <2>6 DEF Follows
<1>9. PredecessorInv'
  <2>1. \A k \in Settled :
          \/ predecessor'[k] \in Members /\ Adjacent(predecessor'[k], ObservedId[k])
          \/ predecessor'[k] = joined /\ Follows(ObservedId[k])
    <3> TAKE k \in Settled
    <3>1. CASE predecessor'[k] = predecessor[k] BY <1>7, <3>1
    <3>2. CASE predecessor'[k] # predecessor[k]
      <4>1. k = m /\ k \in Node BY <1>2, <1>6, <3>2
      <4>2. QED BY <1>6, <1>8, <3>2, <4>1
    <3>3. QED BY <3>1, <3>2
  <2>2. predecessor'[Joiner] \in {NoPeer} \cup Peers
    BY <1>2, <1>4, <1>6 DEF RingInv, PredecessorInv
  <2>3. QED BY <2>1, <2>2 DEF PredecessorInv, Adjacent, Follows
<1>10. Unnotified' => Unnotified BY <1>2, <1>4, <1>6 DEF Unnotified
<1>11. predecessor[m] = NoPeer => m = Joiner /\ ~Unnotified'
  <2>1. m \in Settled => predecessor[m] # NoPeer BY <1>2, <1>7
  <2>2. m \in Settled \/ m = Joiner BY <1>1, RingNode
  <2>3. QED BY <1>2, <1>4, <1>6, <2>1, <2>2 DEF Unnotified
<1>12. Unknown => SettledPredecessors'
  <2> SUFFICES ASSUME Unknown, NEW k \in Settled PROVE predecessor'[k] \in Members
    BY DEF SettledPredecessors
  <2>1. CASE predecessor'[k] = predecessor[k] BY <2>1 DEF Unknown
  <2>2. CASE predecessor'[k] # predecessor[k]
    <3>1. k = m BY <1>2, <1>6, <2>2
    <3>2. n = Joiner /\ Follows(r.to) BY <1>8, <2>2, <3>1
    <3>3. UnknownMessage(n, r) BY RingMessage
    <3>4. QED BY <1>1, <3>2, <3>3 DEF UnknownMessage
  <2>3. QED BY <2>1, <2>2
<1>13. Looking => predecessor'[Joiner] \in Own \cup {NoPeer}
  <2> SUFFICES ASSUME Looking PROVE predecessor'[Joiner] \in Own \cup {NoPeer}
    OBVIOUS
  <2>1. predecessor[Joiner] \in Own \cup {NoPeer} BY DEF RingInv, LookingInv
  <2>2. UnknownMessage(n, r) BY RingMessage
  <2>3. n \in Settled => m \in Settled BY <1>1, <2>2 DEF UnknownMessage
  <2>4. m = Joiner => x \in Own BY <1>2, <1>3, <2>3
  <2>5. QED BY <1>2, <1>6, <2>1, <2>4
<1>14. QED BY <1>9, <1>10, <1>11, <1>12, <1>13

LEMMA NotificationKeeps ==
    ASSUME RingInv, IInv', NEW n \in Node, NEW s \in Slot, NEW m,
           Notification_handle_request(n, s, m)
    PROVE  RingInv'
<1> DEFINE r == session[n][s]
           leg == IF predecessor[m] = NoPeer THEN "void" ELSE "rsp"
           next == [r EXCEPT !.leg = leg, !.peers = <<>>]
           list == successor_list[n]
           flag == stabilize_flag[n]
<1>1. /\ Arrived(n, s, "notify", m) /\ Continue(n, s, next)
      /\ predecessor' = Rectified(m, Head(r.peers))
      /\ UNCHANGED <<running, self, successor_list, stabilize_flag, late, faults>>
  BY DEF Notification_handle_request, flags
<1>2. /\ r \in Session /\ AnyMessage(n, s, r) /\ r.step = "notify"
      /\ n \in running /\ (Unknown => UnknownMessage(n, r))
      /\ n = Joiner /\ Looking => AloneMessage(r)
  BY <1>1, RingMessage DEF Arrived
<1>3. /\ PredecessorInv'
      /\ Unnotified' => Unnotified
      /\ predecessor[m] = NoPeer => m = Joiner /\ ~Unnotified'
      /\ Unknown => SettledPredecessors'
      /\ Looking => predecessor'[Joiner] \in Own \cup {NoPeer}
  BY <1>1, NotifiedPredecessor
<1>4. /\ next \in Session /\ next.step = "notify" /\ next.leg = leg /\ next.to = r.to
      /\ next.relays = r.relays /\ next.peers = <<>>
  <2>1. leg \in {"void", "rsp"} /\ <<>> \in Seq(Peer) OBVIOUS
  <2>2. QED BY <1>2, <2>1 DEF Session
<1>5. leg \in {"void", "rsp"} /\ (leg = "void" => ~Unnotified') BY <1>3
<1> HIDE DEF next, leg
<1>6. s \in StabilizeSlot /\ s # JoinSlot BY <1>2, SlotsAreSlots DEF AnyMessage, StabilizeStep
<1>7. AnyMessage(n, s, next)
  BY <1>2, <1>4, <1>5 DEF AnyMessage, IsEmpty, ListAnswer, Notice, SettledMessage, JoinMessage,
     JoinStep, StabilizeStep, CheckStep, Owner
<1>8. FreshMessage(next) /\ PlacedMessage(n, next) /\ ~IsEmpty(next) /\ next.step \notin Owner
  BY <1>4 DEF FreshMessage, PlacedMessage, IsEmpty, Owner
<1>9. n = Joiner /\ Looking => AloneMessage(next)
  BY <1>2, <1>4, <1>8 DEF AloneMessage
<1>10. Unknown => UnknownMessage(n, next)
  BY <1>2, <1>4, <1>5 DEF UnknownMessage
<1>11. running \subseteq running' /\ n \in running' BY <1>1, <1>2
<1>12. /\ Step(n, s, next, list, flag)
       /\ Successor(n, list)
       /\ KeepsSequential(n, s, next, list, flag)
       /\ KeepsEmpty(n, s, next, list)
       /\ KeepsLooking(n, s, next, list)
       /\ KeepsPlaces(n, s, next, list)
  BY <1>1, <1>3, <1>4, <1>6, <1>7, <1>8, <1>9, <1>10, <1>11, QuietKeeps
<1>13. NoFaults' BY <1>1 DEF RingInv, NoFaults, faults
<1>14. SelfInv'
  <2>1. session'[Joiner][JoinSlot] = session[Joiner][JoinSlot]
    BY <1>6, <1>12, StepChanges, TheJoiner, SlotsAreSlots DEF RingInv
  <2>2. QED BY <1>1, <2>1 DEF RingInv, SelfInv
<1> HIDE DEF list, flag
<1>15. next.leg = "void" => ~Unnotified' BY <1>4, <1>5
<1>16. QED BY <1>3, <1>7, <1>11, <1>12, <1>13, <1>14, <1>15, RingStep

LEMMA RequestHandlersKeep ==
    ASSUME RingInv, IInv', NEW n \in Node, NEW s \in Slot, NEW m,
           Request_handlers(n, s, m)
    PROVE  RingInv'
BY QueryKeeps, FindSuccessorKeeps, ForwardKeeps, GetSuccessorListKeeps,
   GetPredAndSuccListKeeps, GetSelfAndSuccListKeeps, CheckPredecessorKeeps,
   NotificationKeeps DEF Request_handlers

-----------------------------------------------------------------------------
(* The threads of a node start an object.                                  *)

LEMMA JoinKeeps ==
    ASSUME RingInv, IInv', NEW n \in Node, NEW m \in Node, join(n, m)
    PROVE  RingInv'
<1> DEFINE next == Query_create_request(ObservedId[m])
           s == JoinSlot
           list == successor_list[n]
           flag == stabilize_flag[n]
<1>1. /\ n \notin running /\ m \in running /\ running' = running \cup {n}
      /\ Continue(n, s, next)
      /\ UNCHANGED <<self, predecessor, successor_list, stabilize_flag, late, faults>>
  BY DEF join, table, flags
<1>2. n = Joiner /\ m \in Settled /\ Joiner \notin Settled /\ ObservedId[m] \in Members
      /\ Members \subseteq Peers /\ Peers \subseteq Peer
  BY <1>1, RingNode, TheJoiner DEF RingInv, Peers
<1>3. Looking BY <1>1, <1>2 DEF Looking
<1>4. s \in Slot /\ s \notin StabilizeSlot BY SlotsAreSlots
<1>5. /\ next \in Session /\ next.step = "query" /\ next.leg = "req"
      /\ next.to = ObservedId[m] /\ next.relays = <<>> /\ next.peers = <<>>
  <2>1. ObservedId[m] \in Peer /\ <<>> \in Seq(Peer) BY <1>2, EmptySeq
  <2>2. QED BY <2>1, EmptySeq DEF Query_create_request, Request, Session, JoinStep
<1> HIDE DEF next
<1>6. AnyMessage(n, s, next)
  BY <1>2, <1>5 DEF AnyMessage, IsEmpty, ListAnswer, Notice, SettledMessage, JoinMessage,
     JoinStep, StabilizeStep, CheckStep, Owner
<1>7. UnknownMessage(n, next) /\ AloneMessage(next) /\ FreshMessage(next)
      /\ PlacedMessage(n, next) /\ ~IsEmpty(next) /\ next.step \notin Owner
  BY <1>2, <1>5 DEF UnknownMessage, AloneMessage, FreshMessage, PlacedMessage, IsEmpty,
     StabilizeStep, Owner
<1>8. /\ running \subseteq running' /\ n \in running'
      /\ Unnotified' = Unnotified
      /\ Unknown => SettledPredecessors'
      /\ Looking => predecessor'[Joiner] \in Own \cup {NoPeer}
  BY <1>1 DEF Unnotified, Unknown, SettledPredecessors, RingInv, LookingInv
<1>9. /\ Step(n, s, next, list, flag)
      /\ Successor(n, list)
      /\ KeepsSequential(n, s, next, list, flag)
      /\ KeepsEmpty(n, s, next, list)
      /\ KeepsLooking(n, s, next, list)
      /\ KeepsPlaces(n, s, next, list)
  BY <1>1, <1>3, <1>4, <1>5, <1>6, <1>7, <1>8, QuietKeeps
<1>10. NoFaults' BY <1>1 DEF RingInv, NoFaults, faults
<1>11. PredecessorInv' BY <1>1 DEF RingInv, PredecessorInv, Adjacent, Follows
<1>12. SelfInv'
  <2>1. session'[Joiner][JoinSlot].step = "query" BY <1>2, <1>5, <1>9, StepChanges
  <2>2. QED BY <1>1, <2>1 DEF RingInv, SelfInv
<1>13. next.leg # "void" BY <1>5
<1> HIDE DEF list, flag, s
<1>14. QED BY <1>6, <1>8, <1>9, <1>10, <1>11, <1>12, <1>13, RingStep

LEMMA StabilizeKeeps ==
    ASSUME RingInv, IInv', NEW n \in Node, stabilize(n)
    PROVE  RingInv'
<1> DEFINE list == successor_list[n]
           h == Head(list)
           next == GetPredAndSuccList_create_request(h)
<1>1. PICK s \in StabilizeSlot : session[n][s] = Idle /\ Continue(n, s, next)
  BY DEF stabilize
<1>2. /\ n \in running /\ ~stabilize_flag[n]
      /\ stabilize_flag' = [stabilize_flag EXCEPT ![n] = TRUE]
      /\ UNCHANGED <<running, self, predecessor, successor_list, late, faults>>
  BY DEF stabilize, table
<1>3. /\ s \in Slot /\ s # JoinSlot
  BY SlotsAreSlots
<1>4. /\ list \in Seq(Peer) \ {<<>>} /\ Successor(n, list) /\ h \in Peers
  BY RingNode
<1>5. /\ Peers \subseteq Peer /\ Members \cap Own = {} /\ joined \in Own
      /\ Joiner \notin Settled /\ Peers = Members \cup Own
  BY TheJoiner DEF RingInv, Peers
<1>6. /\ next \in Session /\ next.step = "get_pred_and_succ_list" /\ next.leg = "req"
      /\ next.to = h /\ next.relays = <<>> /\ next.peers = <<>>
  <2>1. h \in Peer /\ <<>> \in Seq(Peer) BY <1>4, <1>5, EmptySeq
  <2>2. QED BY <2>1, EmptySeq
    DEF GetPredAndSuccList_create_request, Request, Session, StabilizeStep
<1> HIDE DEF next
<1>7. SettledMessage(n, next)
  BY <1>4, <1>5, <1>6 DEF SettledMessage, Successor
<1>8. AnyMessage(n, s, next)
  BY <1>4, <1>6, <1>7 DEF AnyMessage, IsEmpty, ListAnswer, Notice, JoinMessage,
     JoinStep, StabilizeStep, CheckStep
<1>9. /\ NoFaults' /\ SelfInv' /\ PredecessorInv'
      /\ running \subseteq running' /\ Unnotified' = Unnotified
      /\ Unknown => SettledPredecessors'
      /\ Looking => predecessor'[Joiner] \in Own \cup {NoPeer}
  BY <1>1, <1>2, <1>3, TablesKept
<1>10. successor_list' = [successor_list EXCEPT ![n] = list]
  BY <1>2 DEF RingInv, IInv, TypeOK
<1>11. Step(n, s, next, list, TRUE)
  BY <1>1, <1>2, <1>3, <1>4, <1>6, <1>9, <1>10 DEF Step
<1>12. KeepsSequential(n, s, next, list, TRUE)
  BY <1>2, <1>6 DEF KeepsSequential, RingInv, SequentialInv
<1>13. KeepsEmpty(n, s, next, list)
  <2>1. ~IsEmpty(next) BY <1>6 DEF IsEmpty
  <2>2. QED BY <1>5, <1>6, <2>1 DEF KeepsEmpty, RingInv, EmptyInv
<1>14. Unknown => KeepsUnknown(n, next, list)
  <2> SUFFICES ASSUME Unknown PROVE KeepsUnknown(n, next, list) OBVIOUS
  <2>1. n \in Settled => Full(list, 0) /\ h \in Members
    BY <1>4 DEF Unknown, Full
  <2>2. QED BY <1>6, <2>1 DEF KeepsUnknown, UnknownMessage
<1>15. KeepsLooking(n, s, next, list)
  <2>1. Looking /\ n = Joiner => AloneMessage(next)
    BY <1>6 DEF RingInv, LookingInv, AloneMessage, Range
  <2>2. QED BY <1>3, <1>14, <2>1 DEF KeepsLooking, RingInv, LookingInv
<1>16. KeepsPlaces(n, s, next, list)
  <2>1. Placed => KeepsPlaced(n, next, list)
    BY <1>5, <1>6 DEF Placed, KeepsPlaced, PlacedMessage, Follows
  <2>2. Fresh => KeepsFresh(n, next, list)
    BY <1>6 DEF Fresh, KeepsFresh, FreshMessage
  <2>3. QED BY <1>14, <2>1, <2>2 DEF KeepsPlaces
<1>17. n \in running' /\ next.leg # "void" BY <1>2, <1>6
<1> HIDE DEF list
<1>18. QED BY <1>4, <1>8, <1>9, <1>11, <1>12, <1>13, <1>15, <1>16, <1>17, RingStep

LEMMA CheckingKeeps ==
    ASSUME RingInv, IInv', NEW n \in Node, check_predecessor(n)
    PROVE  RingInv'
<1> DEFINE p == predecessor[n]
           next == CheckPredecessor_create_request(p)
           s == CheckSlot
<1>1. /\ n \in running /\ p # NoPeer /\ Continue(n, s, next)
      /\ UNCHANGED <<running, self, predecessor, successor_list, stabilize_flag, late, faults>>
  BY DEF check_predecessor, table
<1>2. /\ s \in Slot /\ s # JoinSlot /\ s \notin StabilizeSlot
  BY SlotsAreSlots
<1>3. p \in Peers /\ (Unknown /\ n \in Settled => p \in Members) /\ p \in Peer
      /\ (n \in Settled => n # Joiner)
  BY <1>1, RingNode, TheJoiner DEF RingInv, PredecessorInv, Peers, Unknown
<1>4. /\ next \in Session /\ next.step = "check_predecessor" /\ next.leg = "req"
      /\ next.to = p /\ next.relays = <<>> /\ next.peers = <<>>
  <2>1. <<>> \in Seq(Peer) BY EmptySeq
  <2>2. QED BY <1>3, <2>1, EmptySeq
    DEF CheckPredecessor_create_request, Request, Session, CheckStep
<1> HIDE DEF next
<1>5. AnyMessage(n, s, next)
  BY <1>3, <1>4 DEF AnyMessage, IsEmpty, ListAnswer, Notice, SettledMessage, JoinMessage,
     JoinStep, StabilizeStep, CheckStep, Owner
<1>6. AloneMessage(next) /\ FreshMessage(next)
      /\ PlacedMessage(n, next) /\ ~IsEmpty(next) /\ next.step \notin Owner
  BY <1>4 DEF AloneMessage, FreshMessage, PlacedMessage, IsEmpty, StabilizeStep, Owner
<1>7. Unknown => UnknownMessage(n, next) BY <1>3, <1>4 DEF UnknownMessage
<1> HIDE DEF s
<1>8. QED BY <1>1, <1>2, <1>4, <1>5, <1>6, <1>7, QuietRingStep

-----------------------------------------------------------------------------
(* The answers that a Join gets, and objects that end.                     *)

LEMMA IdleMessage ==
    ASSUME NEW n, NEW s
    PROVE  /\ Idle \in Session /\ Idle.step = "idle" /\ Idle.leg = "none"
           /\ AnyMessage(n, s, Idle) /\ UnknownMessage(n, Idle) /\ FreshMessage(Idle)
           /\ AloneMessage(Idle) /\ PlacedMessage(n, Idle) /\ ~IsEmpty(Idle)
           /\ Idle.step \notin Owner
<1> DEFINE next == Idle
<1>1. next \in Session BY IdleIsSession
<1>2. next.step = "idle" /\ next.leg = "none" /\ next.relays = <<>> /\ next.peers = <<>>
  BY DEF Idle
<1> HIDE DEF next
<1>3. AnyMessage(n, s, next)
  BY <1>2 DEF AnyMessage, IsEmpty, ListAnswer, Notice, SettledMessage, JoinMessage,
     JoinStep, StabilizeStep, CheckStep, Owner
<1>4. UnknownMessage(n, next) /\ FreshMessage(next) /\ AloneMessage(next)
      /\ PlacedMessage(n, next) /\ ~IsEmpty(next) /\ next.step \notin Owner
  BY <1>2 DEF UnknownMessage, AloneMessage, FreshMessage, PlacedMessage, IsEmpty,
     StabilizeStep, Owner
<1>5. QED BY <1>1, <1>2, <1>3, <1>4 DEF next

LEMMA EndKeeps ==
    ASSUME RingInv, IInv', NEW n \in Node, NEW s \in Slot, n \in running,
           session[n][s].step \notin {"query", "find_successor"},
           Destroy(n, s),
           UNCHANGED <<running, self, predecessor, successor_list, stabilize_flag, late, faults>>
    PROVE  RingInv'
<1>1. Continue(n, s, Idle) BY DEF Destroy
<1>2. n = Joiner /\ s = JoinSlot => self[Joiner] = joined
  BY DEF RingInv, SelfInv
<1>3. QED BY <1>1, <1>2, IdleMessage, QuietRingStep

LEMMA ForwardedResponseKeeps ==
    ASSUME RingInv, IInv', NEW n \in Node, NEW s \in Slot,
           handle_forwarded_response(n, s)
    PROVE  RingInv'
<1> DEFINE r == session[n][s]
           next == [r EXCEPT !.relays = Front(@)]
<1>1. /\ r.leg = "rsp" /\ r.relays # <<>> /\ Continue(n, s, next)
      /\ UNCHANGED <<running, self, predecessor, successor_list, stabilize_flag, late, faults>>
  BY DEF handle_forwarded_response, table, flags
<1>2. /\ r \in Session /\ AnyMessage(n, s, r) /\ r.relays \in Seq(Node)
      /\ r.step # "idle" => n \in running
  BY RingMessage
<1>3. r.step = "find_successor" BY <1>1, <1>2 DEF AnyMessage
<1>4. n = Joiner /\ s = JoinSlot /\ n \in running
  BY <1>2, <1>3 DEF AnyMessage, JoinStep
<1>5. Looking BY <1>3, <1>4 DEF Looking
<1>6. /\ next \in Session /\ next.step = "find_successor" /\ next.leg = "rsp"
      /\ next.to = r.to /\ next.peers = r.peers
  <2>1. Front(r.relays) \in Seq(Node) BY <1>1, <1>2 DEF Front
  <2>2. QED BY <1>1, <1>2, <1>3, <2>1 DEF Session
<1> HIDE DEF next
<1>7. AnyMessage(n, s, next)
  BY <1>1, <1>2, <1>3, <1>6 DEF AnyMessage, IsEmpty, ListAnswer, Notice, SettledMessage,
     JoinMessage, JoinStep, StabilizeStep, CheckStep, Owner
<1>8. UnknownMessage(n, next) /\ AloneMessage(next) /\ FreshMessage(next)
      /\ PlacedMessage(n, next) /\ ~IsEmpty(next) /\ next.step \notin Owner
  BY <1>4, <1>6, TheJoiner
  DEF RingInv, UnknownMessage, AloneMessage, FreshMessage, PlacedMessage, IsEmpty,
      StabilizeStep, Owner
<1>9. self[Joiner] = joined BY <1>3, <1>4 DEF RingInv, SelfInv
<1>10. QED BY <1>1, <1>4, <1>5, <1>6, <1>7, <1>8, <1>9, QuietRingStep

LEMMA QueryNotifyKeeps ==
    ASSUME RingInv, IInv', NEW n \in Node, NEW s \in Slot,
           handle_query_notify(n, s)
    PROVE  RingInv'
<1> DEFINE r == session[n][s]
           next == FindSuccessor_create_request(r.to, joined)
           list == successor_list[n]
           flag == stabilize_flag[n]
<1>1. r.step = "query" /\ r.leg = "rsp" BY DEF handle_query_notify, Answered
<1>2. r \in Session /\ AnyMessage(n, s, r) /\ n \in running BY <1>1, RingMessage
<1>3. n = Joiner /\ s = JoinSlot /\ r.to \in Members /\ r.peers = <<joined>>
  BY <1>1, <1>2 DEF AnyMessage, JoinStep, JoinMessage
<1>4. Head(r.peers) = joined BY <1>3
<1>5. /\ self' = [self EXCEPT ![n] = joined] /\ Continue(n, s, next)
      /\ UNCHANGED <<running, predecessor, successor_list, stabilize_flag, late, faults>>
  BY <1>4 DEF handle_query_notify, flags
<1>6. Looking BY <1>1, <1>3 DEF Looking
<1>7. joined \in Peer /\ r.to \in Peer /\ Members \subseteq Peers /\ Joiner \notin Settled
      /\ Settled \subseteq Node
  BY <1>3, TheJoiner DEF RingInv, Peers
<1>8. /\ next \in Session /\ next.step = "find_successor" /\ next.leg = "req"
      /\ next.to = r.to /\ next.relays = <<>> /\ next.peers = <<joined>>
  <2>1. <<joined>> \in Seq(Peer) BY <1>7
  <2>2. QED BY <1>7, <2>1, EmptySeq
        DEF FindSuccessor_create_request, Request, Session, JoinStep
<1> HIDE DEF next
<1>9. AnyMessage(n, s, next)
  BY <1>3, <1>7, <1>8 DEF AnyMessage, IsEmpty, ListAnswer, Notice, SettledMessage,
     JoinMessage, JoinStep, StabilizeStep, CheckStep, Owner
<1>10. UnknownMessage(n, next) /\ AloneMessage(next) /\ FreshMessage(next)
       /\ PlacedMessage(n, next) /\ ~IsEmpty(next) /\ next.step \notin Owner
  BY <1>3, <1>7, <1>8
  DEF UnknownMessage, AloneMessage, FreshMessage, PlacedMessage, IsEmpty,
      StabilizeStep, Owner
<1>11. /\ running \subseteq running' /\ n \in running'
       /\ Unnotified' = Unnotified
       /\ Unknown => SettledPredecessors'
       /\ Looking => predecessor'[Joiner] \in Own \cup {NoPeer}
  BY <1>2, <1>5 DEF Unnotified, Unknown, SettledPredecessors, RingInv, LookingInv
<1>12. /\ Step(n, s, next, list, flag)
       /\ Successor(n, list)
       /\ KeepsSequential(n, s, next, list, flag)
       /\ KeepsEmpty(n, s, next, list)
       /\ KeepsLooking(n, s, next, list)
       /\ KeepsPlaces(n, s, next, list)
  BY <1>5, <1>6, <1>8, <1>9, <1>10, <1>11, QuietKeeps
<1>13. NoFaults' BY <1>5 DEF RingInv, NoFaults, faults
<1>14. PredecessorInv' BY <1>5 DEF RingInv, PredecessorInv, Adjacent, Follows
<1>15. SelfInv'
  <2>1. self'[Joiner] = joined /\ \A m \in Settled : self'[m] = self[m]
    BY <1>3, <1>5, <1>7 DEF RingInv, IInv, TypeOK
  <2>2. QED BY <2>1 DEF RingInv, SelfInv, Own
<1>16. next.leg # "void" BY <1>8
<1> HIDE DEF list, flag
<1>17. QED BY <1>9, <1>11, <1>12, <1>13, <1>14, <1>15, <1>16, RingStep

LEMMA FindSuccessorNotifyKeeps ==
    ASSUME RingInv, IInv', NEW n \in Node, NEW s \in Slot,
           handle_find_successor_notify(n, s)
    PROVE  RingInv'
<1> DEFINE r == session[n][s]
           x == Head(r.peers)
           next == GetSuccessorList_create_request(x)
           list == set_successor(successor_list[n], x)
           flag == stabilize_flag[n]
<1>1. /\ r.step = "find_successor" /\ r.leg = "rsp"
      /\ successor_list' = [successor_list EXCEPT ![n] = list]
      /\ Continue(n, s, next)
      /\ UNCHANGED <<running, self, predecessor, stabilize_flag, late, faults>>
  BY DEF handle_find_successor_notify, Answered, flags
<1>2. r \in Session /\ AnyMessage(n, s, r) /\ n \in running BY <1>1, RingMessage
<1>3. n = Joiner /\ s = JoinSlot /\ Follows(x)
  BY <1>1, <1>2 DEF AnyMessage, JoinStep, JoinMessage
<1>4. x \in Members /\ x \in Peer /\ x \in Peers /\ Joiner \notin Settled
      /\ Members \subseteq Peers
  BY <1>3, TheJoiner DEF RingInv, Peers, Follows
<1>5. s \notin StabilizeSlot BY <1>3, SlotsAreSlots
<1>6. self[Joiner] = joined BY <1>1, <1>2, <1>3 DEF RingInv, SelfInv
<1>7. /\ successor_list[n] \in Seq(Peer) /\ successor_list[n] # <<>>
      /\ flag \in BOOLEAN
  BY RingNode
<1>8. /\ list \in Seq(Peer) \ {<<>>} /\ Head(list) = x
      /\ Len(list) = Len(successor_list[n])
      /\ \A i \in 2..Len(list) : list[i] = successor_list[n][i]
  BY <1>4, <1>7 DEF set_successor
<1>9. Len(list) \in Nat BY <1>8
<1>10. /\ next \in Session /\ next.step = "get_successor_list" /\ next.leg = "req"
       /\ next.to = x /\ next.relays = <<>> /\ next.peers = <<>>
  BY <1>4, EmptySeq DEF GetSuccessorList_create_request, Request, Session, JoinStep
<1> HIDE DEF next, x, list, flag
<1>11. AnyMessage(n, s, next)
  BY <1>3, <1>4, <1>10 DEF AnyMessage, IsEmpty, ListAnswer, Notice, SettledMessage,
     JoinMessage, JoinStep, StabilizeStep, CheckStep, Owner
<1>12. UnknownMessage(n, next) /\ FreshMessage(next)
       /\ PlacedMessage(n, next) /\ ~IsEmpty(next) /\ next.step \notin Owner
  BY <1>3, <1>4, <1>10
  DEF UnknownMessage, FreshMessage, PlacedMessage, IsEmpty, Owner
<1>13. /\ NoFaults' /\ SelfInv' /\ PredecessorInv'
       /\ running \subseteq running' /\ Unnotified' = Unnotified
       /\ Unknown => SettledPredecessors'
       /\ Looking => predecessor'[Joiner] \in Own \cup {NoPeer}
  BY <1>1, <1>6, TablesKept
<1>14. stabilize_flag' = [stabilize_flag EXCEPT ![n] = flag]
  BY <1>1 DEF flag, RingInv, IInv, TypeOK
<1>15. Step(n, s, next, list, flag)
  BY <1>1, <1>7, <1>8, <1>10, <1>13, <1>14 DEF Step
<1>16. Successor(n, list) BY <1>3, <1>4, <1>8 DEF Successor
<1>17. KeepsSequential(n, s, next, list, flag)
  BY <1>3, <1>4, <1>12 DEF KeepsSequential, flag
<1>18. KeepsEmpty(n, s, next, list)
  <2>1. ASSUME NEW t \in StabilizeSlot, Empty(n, t), Len(list) >= 2
        PROVE  list[2] \in Peers
    BY <1>3, <1>8, <1>9, <2>1 DEF RingInv, EmptyInv
  <2>2. QED BY <1>3, <1>4, <1>12, <2>1 DEF KeepsEmpty
<1>19. KeepsLooking(n, s, next, list)
  BY <1>3, <1>10 DEF KeepsLooking
<1>20. KeepsPlaces(n, s, next, list)
  <2>1. KeepsPlaced(n, next, list) BY <1>3, <1>4, <1>8, <1>12 DEF KeepsPlaced
  <2>2. KeepsUnknown(n, next, list) BY <1>3, <1>4, <1>12 DEF KeepsUnknown
  <2>3. Fresh => KeepsFresh(n, next, list) BY <1>3, <1>8, <1>12 DEF KeepsFresh, Fresh
  <2>4. QED BY <2>1, <2>2, <2>3 DEF KeepsPlaces
<1>21. n \in running' /\ next.leg # "void" BY <1>1, <1>2, <1>10
<1>22. QED BY <1>11, <1>13, <1>15, <1>16, <1>17, <1>18, <1>19, <1>20, <1>21, RingStep

LEMMA GetSuccessorListNotifyKeeps ==
    ASSUME RingInv, IInv', NEW n \in Node, NEW s \in Slot,
           handle_get_successor_list_notify(n, s)
    PROVE  RingInv'
<1> DEFINE r == session[n][s]
           old == successor_list[n]
           long == <<Head(old)>> \o r.peers \o Tail(old)
           list == replace_after_successor(old, r.peers)
           flag == stabilize_flag[n]
<1>1. /\ r.step = "get_successor_list" /\ r.leg = "rsp"
      /\ successor_list' = [successor_list EXCEPT ![n] = list]
      /\ Continue(n, s, Idle)
      /\ UNCHANGED <<running, self, predecessor, stabilize_flag, late, faults>>
  BY DEF handle_get_successor_list_notify, Answered, flags, Destroy
<1>2. r \in Session /\ AnyMessage(n, s, r) /\ n \in running /\ r.peers \in Seq(Peer)
      /\ (Fresh /\ n = Joiner => FreshMessage(r))
  BY <1>1, RingMessage
<1>3. n = Joiner /\ s = JoinSlot /\ r.peers # <<>> /\ Head(r.peers) \in Peers
  BY <1>1, <1>2 DEF AnyMessage, JoinStep, JoinMessage
<1>4. s \notin StabilizeSlot /\ Joiner \notin Settled
  BY <1>3, SlotsAreSlots, TheJoiner DEF RingInv
<1>5. self[Joiner] = joined BY <1>1, <1>2, <1>3 DEF RingInv, SelfInv
<1>6. /\ old \in Seq(Peer) /\ old # <<>> /\ flag \in BOOLEAN
      /\ Head(old) \in Peers /\ Head(old) \in Peer
  BY RingNode, TheJoiner DEF RingInv
<1>7. Len(r.peers) \in Nat /\ Len(r.peers) >= 1 BY <1>2, <1>3
<1>8. /\ long \in Seq(Peer) /\ long # <<>> /\ Head(long) = Head(old)
      /\ Len(long) >= 1 + Len(r.peers)
      /\ \A i \in 2..(1 + Len(r.peers)) : long[i] = r.peers[i - 1]
  <2> DEFINE front == <<Head(old)>> \o r.peers
             rest == Tail(old)
  <2>1. rest \in Seq(Peer) /\ Len(rest) \in Nat BY <1>6
  <2>2. front \in Seq(Peer)
        /\ Len(front) = 1 + Len(r.peers)
        /\ front[1] = Head(old)
        /\ \A i \in 2..(1 + Len(r.peers)) : front[i] = r.peers[i - 1]
    BY <1>2, <1>6, <1>7
  <2>3. long = front \o rest OBVIOUS
  <2> HIDE DEF front, rest, long
  <2>4. /\ long \in Seq(Peer) /\ Len(long) = Len(front) + Len(rest)
        /\ \A i \in 1..Len(front) : long[i] = front[i]
    <3>1. /\ front \o rest \in Seq(Peer)
          /\ Len(front \o rest) = Len(front) + Len(rest)
          /\ \A i \in 1..(Len(front) + Len(rest)) :
               (front \o rest)[i] = IF i <= Len(front) THEN front[i] ELSE rest[i - Len(front)]
      BY <2>1, <2>2, ConcatProperties
    <3>2. Len(front) \in Nat BY <2>2
    <3>3. \A i \in 1..Len(front) : i \in 1..(Len(front) + Len(rest)) /\ i <= Len(front)
      BY <2>1, <3>2
    <3>4. QED BY <2>3, <3>1, <3>3
  <2>5. Len(long) >= 1 + Len(r.peers) BY <1>7, <2>1, <2>2, <2>4
  <2>6. long # <<>> BY <1>7, <2>5, EmptySeq
  <2>7. Head(long) = Head(old)
    <3>1. Head(long) = long[1] /\ 1 \in 1..Len(front) BY <1>7, <2>2, <2>4, <2>6
    <3>2. QED BY <2>2, <2>4, <3>1
  <2>8. \A i \in 2..(1 + Len(r.peers)) : long[i] = r.peers[i - 1]
    BY <1>7, <2>2, <2>4
  <2>9. QED BY <2>4, <2>5, <2>6, <2>7, <2>8
<1>9. list = Resize(long) BY DEF replace_after_successor
<1> HIDE DEF long, list, flag
<1>10. /\ list \in Seq(Peer) \ {<<>>} /\ Head(list) = Head(old)
       /\ Len(list) = SuccListSize
       /\ Len(list) >= 2 => list[2] \in Peers
  <2>1. Len(long) >= 2 /\ long[2] = Head(r.peers) BY <1>2, <1>3, <1>7, <1>8
  <2>2. QED BY <1>3, <1>8, <1>9, <2>1, Resized, ResizeProperties
<1>11. Fresh => \A i \in 2..Len(list) : list[i] \in Members
  <2> SUFFICES ASSUME Fresh, NEW i \in 2..Len(list) PROVE list[i] \in Members
    OBVIOUS
  <2>1. Full(r.peers, 0) BY <1>1, <1>2, <1>3 DEF FreshMessage
  <2>2. Len(r.peers) = SuccListSize /\ r.peers \in Seq(Members)
    BY <2>1, SuccListSizeAssumption DEF Full
  <2>3. i \in 2..SuccListSize /\ i <= Len(long) /\ i \in 1..SuccListSize
    BY <1>8, <1>10, <2>2, SuccListSizeAssumption
  <2>4. list[i] = long[i] BY <1>9, <2>3 DEF Resize
  <2>5. long[i] = r.peers[i - 1] /\ i - 1 \in 1..Len(r.peers)
    BY <1>8, <2>2, <2>3, SuccListSizeAssumption
  <2>6. QED BY <2>2, <2>4, <2>5
<1> DEFINE next == Idle
<1>12. /\ next \in Session /\ next.step = "idle" /\ next.leg = "none"
       /\ AnyMessage(n, s, next) /\ UnknownMessage(n, next) /\ FreshMessage(next)
       /\ PlacedMessage(n, next) /\ ~IsEmpty(next) /\ next.step \notin Owner
       /\ Continue(n, s, next)
  BY <1>1, IdleMessage
<1> HIDE DEF next
<1>13. /\ NoFaults' /\ SelfInv' /\ PredecessorInv'
       /\ running \subseteq running' /\ Unnotified' = Unnotified
       /\ Unknown => SettledPredecessors'
       /\ Looking => predecessor'[Joiner] \in Own \cup {NoPeer}
  BY <1>1, <1>5, <1>12, TablesKept
<1>14. stabilize_flag' = [stabilize_flag EXCEPT ![n] = flag]
  BY <1>1 DEF flag, RingInv, IInv, TypeOK
<1>15. Step(n, s, next, list, flag)
  BY <1>1, <1>6, <1>10, <1>12, <1>13, <1>14 DEF Step, flag
<1>16. Successor(n, list) BY <1>3, <1>4, <1>6, <1>10 DEF Successor
<1>17. KeepsSequential(n, s, next, list, flag)
  BY <1>3, <1>4, <1>12 DEF KeepsSequential, flag
<1>18. KeepsEmpty(n, s, next, list)
  BY <1>3, <1>4, <1>10, <1>12 DEF KeepsEmpty
<1>19. KeepsLooking(n, s, next, list)
  <2>1. ~Looking BY <1>1, <1>2, <1>3 DEF Looking
  <2>2. QED BY <2>1, <1>12 DEF KeepsLooking
<1>20. KeepsPlaces(n, s, next, list)
  <2>1. Placed => KeepsPlaced(n, next, list)
    BY <1>3, <1>4, <1>10, <1>12 DEF KeepsPlaced, Placed
  <2>2. KeepsUnknown(n, next, list) BY <1>3, <1>4, <1>12 DEF KeepsUnknown
  <2>3. Fresh => KeepsFresh(n, next, list) BY <1>11, <1>12 DEF KeepsFresh
  <2>4. QED BY <2>1, <2>2, <2>3 DEF KeepsPlaces
<1>21. n \in running' /\ next.leg # "void" BY <1>1, <1>2, <1>12
<1>22. QED BY <1>12, <1>13, <1>15, <1>16, <1>17, <1>18, <1>19, <1>20, <1>21, RingStep

-----------------------------------------------------------------------------
(* The answers that a Stabilize gets.                                      *)

\* With the last of them it gets a list and notifies the head of the list.
LEMMA NotifierKeeps ==
    ASSUME RingInv, IInv', NEW n \in Node, NEW s \in StabilizeSlot,
           s \in Asking(n), NEW list \in Seq(Peer) \ {<<>>},
           successor_list' = [successor_list EXCEPT ![n] = list],
           stabilize_flag' = [stabilize_flag EXCEPT ![n] = FALSE],
           create_notification(n, s),
           UNCHANGED <<running, self, predecessor, late, faults>>,
           Successor(n, list),
           (\E t \in StabilizeSlot \ {s} : Empty(n, t)) =>
             /\ n \in Settled => Head(list) = joined
             /\ n = Joiner /\ Len(list) >= 2 => list[2] \in Peers,
           n = Joiner /\ Looking =>
             Head(list) \in Own /\ Range(list) \subseteq Own \cup {BlankId},
           n \in Settled /\ Unknown => Full(list, 0),
           Placed /\ (Unnotified \/ Pending) =>
             /\ n = Joiner => Follows(Head(list))
             /\ (n \in Settled /\ Head(list) = joined /\ Len(list) >= 2) => Follows(list[2]),
           n = Joiner /\ Unnotified /\ Unknown /\ Fresh =>
             \A i \in 2..Len(list) : list[i] \in Members
    PROVE  RingInv'
<1> DEFINE h == Head(list)
           next == Notification_create_request(h, self[n])
<1>1. s \in Slot /\ s # JoinSlot BY SlotsAreSlots
<1>2. session[n][s].step \in Owner BY DEF Asking
<1>3. n \in running BY <1>1, <1>2, RingMessage DEF Owner
<1>4. Continue(n, s, next)
  <2>1. successor_list'[n] = list BY DEF RingInv, IInv, TypeOK
  <2>2. QED BY <2>1 DEF create_notification
<1>5. /\ Peers \subseteq Peer /\ Members \cap Own = {} /\ joined \in Own
      /\ Joiner \notin Settled /\ Peers = Members \cup Own
      /\ n \in Settled \/ n = Joiner
  BY RingNode, TheJoiner DEF RingInv, Peers
<1>6. /\ self[n] \in Peers /\ h \in Peers
      /\ n \in Settled => self[n] = ObservedId[n]
      /\ n = Joiner => self[n] \in Own
  BY RingNode DEF Successor, RingInv, SelfInv
<1>7. n = Joiner /\ h \in Members => self[n] = joined
  <2> SUFFICES ASSUME n = Joiner, h \in Members PROVE self[n] = joined
    OBVIOUS
  <2>1. ~Looking BY <1>5
  <2>2. QED BY <1>3, <2>1, KnowsItself
<1>8. /\ next \in Session /\ next.step = "notify" /\ next.leg = "req"
      /\ next.to = h /\ next.relays = <<>> /\ next.peers = <<self[n]>>
  <2>1. h \in Peer /\ self[n] \in Peer /\ <<self[n]>> \in Seq(Peer) BY <1>5, <1>6
  <2>2. QED BY <2>1, EmptySeq
        DEF Notification_create_request, Request, Session, StabilizeStep
<1> HIDE DEF next
<1>9. AnyMessage(n, s, next)
  <2>1. Head(next.peers) = self[n] BY <1>8
  <2>2. Notice(n, next) BY <1>6, <1>7, <1>8, <2>1 DEF Notice
  <2>3. QED BY <1>6, <1>8, <2>2 DEF AnyMessage, IsEmpty, ListAnswer, SettledMessage,
            JoinMessage, JoinStep, StabilizeStep, CheckStep, Owner
<1>10. ~IsEmpty(next) /\ next.step \notin Owner /\ FreshMessage(next)
       /\ PlacedMessage(n, next) /\ (h \in Own => AloneMessage(next))
  BY <1>8 DEF IsEmpty, Owner, FreshMessage, PlacedMessage, AloneMessage
<1>11. /\ NoFaults' /\ SelfInv' /\ PredecessorInv'
       /\ running \subseteq running' /\ Unnotified' = Unnotified
       /\ Unknown => SettledPredecessors'
       /\ Looking => predecessor'[Joiner] \in Own \cup {NoPeer}
  BY <1>1, <1>4, TablesKept
<1>12. Step(n, s, next, list, FALSE)
  BY <1>1, <1>4, <1>8, <1>11 DEF Step
<1>13. KeepsSequential(n, s, next, list, FALSE)
  <2>1. Unnotified => Asking(n) \subseteq {s} BY DEF RingInv, SequentialInv
  <2>2. QED BY <1>8, <1>10, <2>1 DEF KeepsSequential
<1>14. KeepsEmpty(n, s, next, list) BY <1>10 DEF KeepsEmpty
<1>15. Unknown /\ (n = Joiner => ~Follows(h)) => KeepsUnknown(n, next, list)
  <2> SUFFICES ASSUME Unknown, n = Joiner => ~Follows(h) PROVE KeepsUnknown(n, next, list)
    OBVIOUS
  <2>1. n \in Settled => Full(list, 0) /\ h \in Members BY DEF Full
  <2>2. QED BY <1>5, <1>8, <2>1 DEF KeepsUnknown, UnknownMessage
<1>16. KeepsLooking(n, s, next, list)
  <2>1. Looking => Unknown BY DEF RingInv, LookingInv
  <2>2. n = Joiner /\ Looking => ~Follows(h) BY <1>5 DEF Follows
  <2>3. QED BY <1>1, <1>10, <1>15, <2>1, <2>2 DEF KeepsLooking
<1>17. KeepsPlaces(n, s, next, list)
  <2>1. Placed /\ (Unnotified \/ Pending) => KeepsPlaced(n, next, list)
    BY <1>10 DEF KeepsPlaced
  <2>2. Unnotified /\ Unknown /\ Fresh => KeepsFresh(n, next, list)
    BY <1>10 DEF KeepsFresh
  <2>3. QED BY <1>8, <1>15, <2>1, <2>2 DEF KeepsPlaces
<1>18. n \in running' /\ next.leg # "void" BY <1>3, <1>8
<1>19. QED BY <1>9, <1>11, <1>12, <1>13, <1>14, <1>16, <1>17, <1>18, RingStep

LEMMA Popped ==
    ASSUME NEW list \in Seq(Peer), list # <<>>
    PROVE  /\ pop_front(list) \in Seq(Peer) \ {<<>>}
           /\ Len(list) <= 1 => pop_front(list) = list
           /\ Len(list) >= 2 =>
                /\ Head(pop_front(list)) = list[2]
                /\ Len(pop_front(list)) = Len(list) - 1
                /\ \A i \in 1..(Len(list) - 1) : pop_front(list)[i] = list[i + 1]
           /\ Range(pop_front(list)) \subseteq Range(list)
<1>1. pop_front(list) \in Seq(Peer) \ {<<>>} BY PopFrontType
<1>2. Len(list) <= 1 => pop_front(list) = list BY DEF pop_front
<1>3. Len(list) >= 2 => pop_front(list) = Tail(list) /\ Len(list) \in Nat BY DEF pop_front
<1>4. Len(list) >= 2 =>
        /\ Len(pop_front(list)) = Len(list) - 1
        /\ \A i \in 1..(Len(list) - 1) : pop_front(list)[i] = list[i + 1]
  BY <1>3
<1>5. Len(list) >= 2 => Head(pop_front(list)) = list[2]
  <2> SUFFICES ASSUME Len(list) >= 2 PROVE Head(pop_front(list)) = list[2] OBVIOUS
  <2>1. Head(pop_front(list)) = pop_front(list)[1] BY <1>1
  <2>2. 1 \in 1..(Len(list) - 1) BY <1>3
  <2>3. QED BY <1>4, <2>1, <2>2
<1>6. Range(pop_front(list)) \subseteq Range(list)
  <2>1. CASE Len(list) <= 1 BY <1>2, <2>1
  <2>2. CASE Len(list) >= 2
    <3> SUFFICES ASSUME NEW i \in 1..Len(pop_front(list))
                 PROVE  pop_front(list)[i] \in Range(list)
      BY <1>1 DEF Range
    <3>1. i \in 1..(Len(list) - 1) /\ i + 1 \in 1..Len(list) BY <1>3, <1>4, <2>2
    <3>2. QED BY <1>4, <2>2, <3>1 DEF Range
  <2>3. QED BY <2>1, <2>2
<1>7. QED BY <1>1, <1>2, <1>4, <1>5, <1>6

LEMMA EmptyNotifyKeeps ==
    ASSUME RingInv, IInv', NEW n \in Node, NEW s \in Slot,
           handle_empty_pred_and_succ_list_notify(n, s)
    PROVE  RingInv'
<1> DEFINE r == session[n][s]
           old == successor_list[n]
           list == pop_front(old)
<1>1. /\ r.step = "get_pred_and_succ_list" /\ r.leg = "rsp" /\ r.peers = <<>>
      /\ successor_list' = [successor_list EXCEPT ![n] = list]
      /\ stabilize_flag' = [stabilize_flag EXCEPT ![n] = FALSE]
      /\ create_notification(n, s)
      /\ UNCHANGED <<running, self, predecessor, late, faults>>
  BY DEF handle_empty_pred_and_succ_list_notify, Answered
<1>2. /\ AnyMessage(n, s, r)
      /\ Unknown => UnknownMessage(n, r)
      /\ Fresh /\ n = Joiner => FreshMessage(r)
      /\ Placed => PlacedMessage(n, r)
      /\ Looking => Unknown
  BY RingMessage
<1>3. s \in StabilizeSlot /\ r.to \in Own
  BY <1>1, <1>2 DEF AnyMessage, IsEmpty, StabilizeStep
<1>4. s \in Asking(n) /\ Empty(n, s) BY <1>1, <1>3 DEF Asking, Owner, Empty, IsEmpty
<1>5. /\ \A t \in StabilizeSlot : Empty(n, t) => s = t
      /\ n \in Settled => Head(old) = joined
      /\ n = Joiner /\ Len(old) >= 2 => old[2] \in Peers
  BY <1>3, <1>4 DEF RingInv, EmptyInv
<1>6. /\ old \in Seq(Peer) /\ old # <<>> /\ Len(old) \in Nat /\ Len(old) >= 1
      /\ Successor(n, old)
      /\ n \in Settled \/ n = Joiner
  BY RingNode
<1>7. /\ Members \cap Own = {} /\ joined \in Own /\ joined \notin Members
      /\ Joiner \notin Settled /\ Peers = Members \cup Own /\ Peers \subseteq Peer
      /\ BlankId \notin Peers
      /\ n \in Settled => ObservedId[n] \in Members
  BY TheJoiner DEF RingInv, Peers
<1>8. /\ list \in Seq(Peer) \ {<<>>}
      /\ Len(old) <= 1 => list = old
      /\ Len(old) >= 2 =>
           /\ Head(list) = old[2]
           /\ Len(list) = Len(old) - 1
           /\ \A i \in 1..(Len(old) - 1) : list[i] = old[i + 1]
      /\ Range(list) \subseteq Range(old)
  BY <1>6, Popped
<1>9. n \in Settled => Placed BY <1>3, <1>4 DEF RingInv, PlacedInv, Pending
<1>10. n \in Settled => ~Unknown BY <1>1, <1>2, <1>3, <1>7 DEF UnknownMessage
<1>11. n = Joiner => ~Placed BY <1>1, <1>2, <1>3, <1>7 DEF PlacedMessage, Owner
<1>12. n \in Settled /\ Len(old) >= 2 => Follows(Head(list))
  BY <1>5, <1>8, <1>9 DEF Placed
<1> HIDE DEF list, old
<1>13. Successor(n, list)
  <2>1. CASE Len(old) <= 1 BY <1>6, <1>8, <2>1
  <2>2. CASE Len(old) >= 2 /\ n = Joiner
    BY <1>5, <1>7, <1>8, <2>2 DEF Successor
  <2>3. CASE Len(old) >= 2 /\ n \in Settled
    <3>1. Adjacent(ObservedId[n], joined) BY <1>5, <1>6, <2>3 DEF Successor
    <3>2. Follows(Head(list)) BY <1>12, <2>3
    <3>3. Head(list) \in Members /\ Head(list) \in Peer BY <1>7, <3>2 DEF Follows
    <3>4. LoneJoin BY DEF RingInv
    <3>5. Adjacent(ObservedId[n], Head(list))
      BY <1>7, <2>3, <3>1, <3>2, <3>3, <3>4, BehindTheJoiner
    <3>6. QED BY <1>7, <3>3, <3>5 DEF Successor
  <2>4. QED BY <1>6, <2>1, <2>2, <2>3
<1>14. ~\E t \in StabilizeSlot \ {s} : Empty(n, t) BY <1>5
<1>15. n = Joiner /\ Looking =>
         Head(list) \in Own /\ Range(list) \subseteq Own \cup {BlankId}
  <2> SUFFICES ASSUME n = Joiner, Looking
               PROVE  Head(list) \in Own /\ Range(list) \subseteq Own \cup {BlankId}
    OBVIOUS
  <2>1. Range(old) \subseteq Own \cup {BlankId} BY DEF old, RingInv, LookingInv
  <2>2. Head(list) \in Range(list) BY <1>8 DEF Range
  <2>3. Head(list) \in Peers BY <1>13 DEF Successor
  <2>4. QED BY <1>7, <1>8, <2>1, <2>2, <2>3
<1>16. Placed /\ (Unnotified \/ Pending) =>
         /\ n = Joiner => Follows(Head(list))
         /\ (n \in Settled /\ Head(list) = joined /\ Len(list) >= 2) => Follows(list[2])
  <2>1. n \in Settled /\ Len(old) >= 2 => Head(list) # joined
    BY <1>7, <1>12 DEF Follows
  <2>2. QED BY <1>6, <1>8, <1>11, <2>1
<1>17. n = Joiner /\ Unnotified /\ Unknown /\ Fresh =>
         \A i \in 2..Len(list) : list[i] \in Members
  <2> SUFFICES ASSUME n = Joiner, Fresh, NEW i \in 2..Len(list)
               PROVE  list[i] \in Members
    OBVIOUS
  <2>1. \A k \in 2..Len(old) : old[k] \in Members BY DEF old, Fresh
  <2>2. CASE Len(old) <= 1 BY <1>8, <2>1, <2>2
  <2>3. CASE Len(old) >= 2
    <3>1. i \in 1..(Len(old) - 1) /\ i + 1 \in 2..Len(old) BY <1>6, <1>8, <2>3
    <3>2. QED BY <1>8, <2>1, <2>3, <3>1
  <2>4. QED BY <1>6, <2>2, <2>3
<1>18. QED BY <1>1, <1>3, <1>4, <1>8, <1>10, <1>13, <1>14, <1>15, <1>16, <1>17, NotifierKeeps

LEMMA GetSelfNotifyKeeps ==
    ASSUME RingInv, IInv', NEW n \in Node, NEW s \in Slot,
           handle_get_self_and_succ_list_notify(n, s)
    PROVE  RingInv'
<1> DEFINE r == session[n][s]
           peers == r.peers
           list == replace_successor_list(peers)
<1>1. /\ r.step = "get_self_and_succ_list" /\ r.leg = "rsp"
      /\ successor_list' = [successor_list EXCEPT ![n] = list]
      /\ stabilize_flag' = [stabilize_flag EXCEPT ![n] = FALSE]
      /\ create_notification(n, s)
      /\ UNCHANGED <<running, self, predecessor, late, faults>>
  BY DEF handle_get_self_and_succ_list_notify, Answered
<1>2. /\ AnyMessage(n, s, r) /\ peers \in Seq(Peer)
      /\ Unknown => UnknownMessage(n, r)
      /\ Fresh /\ n = Joiner => FreshMessage(r)
      /\ Looking /\ n = Joiner => AloneMessage(r)
      /\ Placed => PlacedMessage(n, r)
      /\ Looking => Unknown
  BY RingMessage
<1>3. s \in StabilizeSlot /\ peers # <<>> /\ ListAnswer(r) /\ SettledMessage(n, r)
  BY <1>1, <1>2 DEF AnyMessage, StabilizeStep
<1>4. s \in Asking(n) BY <1>1, <1>3 DEF Asking, Owner
<1>5. /\ Len(peers) >= 2 /\ Head(peers) \in Peers /\ peers[2] \in Peers
      /\ n \in Settled =>
           r.to \in Own /\ Head(peers) = joined /\ Adjacent(ObservedId[n], joined)
  BY <1>1, <1>3 DEF ListAnswer, SettledMessage, Owner
<1>6. /\ Members \cap Own = {} /\ joined \in Own
      /\ Joiner \notin Settled /\ Peers = Members \cup Own
      /\ BlankId \notin Peers
      /\ n \in Settled \/ n = Joiner
  BY RingNode, TheJoiner DEF RingInv, Peers
<1>7. /\ list \in Seq(Peer) \ {<<>>} /\ Head(list) = Head(peers)
      /\ Len(list) >= 2 => list[2] = peers[2]
      /\ Range(list) \subseteq Range(peers) \cup {BlankId}
  BY <1>2, <1>3, <1>5, Resized DEF replace_successor_list
<1>8. n \in Settled => ~Unknown BY <1>1, <1>2 DEF UnknownMessage
<1>9. n = Joiner => ~Placed BY <1>1, <1>2 DEF PlacedMessage, Owner
<1>10. n = Joiner /\ Unknown /\ Fresh => \A i \in 2..Len(list) : list[i] \in Members
  <2> SUFFICES ASSUME n = Joiner, Fresh PROVE \A i \in 2..Len(list) : list[i] \in Members
    OBVIOUS
  <2>1. Full(peers, 1) BY <1>1, <1>2, <1>3 DEF FreshMessage, Owner
  <2>2. peers \in Seq(Members) /\ Len(peers) >= SuccListSize
    BY <2>1, SuccListSizeAssumption DEF Full
  <2>3. Full(list, 0) BY <2>2, FullResized DEF replace_successor_list
  <2>4. QED BY <2>3, SuccListSizeAssumption DEF Full
<1> HIDE DEF list
<1>11. Successor(n, list) BY <1>5, <1>6, <1>7 DEF Successor
<1>12. /\ n \in Settled => Head(list) = joined
       /\ n = Joiner /\ Len(list) >= 2 => list[2] \in Peers
  BY <1>5, <1>7
<1>13. n = Joiner /\ Looking =>
         Head(list) \in Own /\ Range(list) \subseteq Own \cup {BlankId}
  <2> SUFFICES ASSUME n = Joiner, Looking
               PROVE  Head(list) \in Own /\ Range(list) \subseteq Own \cup {BlankId}
    OBVIOUS
  <2>1. Range(peers) \subseteq Own \cup {BlankId} BY <1>1, <1>2 DEF AloneMessage, Owner
  <2>2. Head(list) \in Range(list) BY <1>7 DEF Range
  <2>3. QED BY <1>5, <1>6, <1>7, <2>1, <2>2
<1>14. Placed /\ (Unnotified \/ Pending) =>
         /\ n = Joiner => Follows(Head(list))
         /\ (n \in Settled /\ Head(list) = joined /\ Len(list) >= 2) => Follows(list[2])
  BY <1>1, <1>2, <1>3, <1>5, <1>7, <1>9 DEF PlacedMessage, Owner
<1>15. QED BY <1>1, <1>3, <1>4, <1>7, <1>8, <1>10, <1>11, <1>12, <1>13, <1>14, NotifierKeeps

\* The answer of a node with a predecessor.  What both branches of the
\* handler have to know of the list and of the responder's predecessor.
AnsweredList(n, peers) ==
    replace_successor_list(
      <<Head(successor_list[n])>> \o (IF Len(peers) > 1 THEN Tail(peers) ELSE peers))

LEMMA ListAnswered ==
    ASSUME RingInv, NEW n \in Node, NEW s \in Slot,
           Answered(n, s, "get_pred_and_succ_list"),
           session[n][s].peers # <<>>
    PROVE  LET r == session[n][s]
               peers == r.peers
               h == Head(successor_list[n])
               list == AnsweredList(n, peers)
           IN  /\ s \in StabilizeSlot /\ s \in Asking(n)
               /\ list \in Seq(Peer) \ {<<>>} /\ Head(list) = h
               /\ Successor(n, list)
               /\ Len(list) >= 2 => list[2] = peers[2]
               /\ h \in Peers /\ Head(peers) \in Peers /\ peers[2] \in Peers
               /\ r.to \in Members => Head(peers) \in Members \cup {joined}
               /\ n \in Settled /\ r.to \in Own => Adjacent(ObservedId[n], joined)
               /\ n = Joiner /\ Looking =>
                    /\ h \in Own /\ Head(peers) \in Own
                    /\ Range(list) \subseteq Own \cup {BlankId}
               /\ Unknown /\ (n = Joiner => Fresh) =>
                    Head(peers) \in Members /\ \A i \in 2..Len(list) : list[i] \in Members
               /\ n \in Settled /\ Unknown => Full(list, 0)
               /\ Placed /\ n = Joiner => Follows(h) /\ r.to \in Members
               /\ (Placed /\ (Unnotified \/ Pending) /\ n \in Settled /\ h = joined
                     /\ Len(list) >= 2) => Follows(list[2])
<1> DEFINE r == session[n][s]
           peers == r.peers
           rest == IF Len(peers) > 1 THEN Tail(peers) ELSE peers
           h == Head(successor_list[n])
           long == <<h>> \o rest
           list == AnsweredList(n, peers)
<1>1. /\ r.step = "get_pred_and_succ_list" /\ r.leg = "rsp" BY DEF Answered
<1>2. /\ AnyMessage(n, s, r) /\ peers \in Seq(Peer) /\ peers # <<>>
      /\ Unknown => UnknownMessage(n, r)
      /\ Fresh /\ n = Joiner => FreshMessage(r)
      /\ Looking /\ n = Joiner => AloneMessage(r)
      /\ Placed => PlacedMessage(n, r)
  BY RingMessage
<1>3. s \in StabilizeSlot /\ s \in Asking(n) /\ ListAnswer(r) /\ SettledMessage(n, r)
  BY <1>1, <1>2 DEF AnyMessage, StabilizeStep, Asking, Owner
<1>4. /\ Len(peers) >= 2 /\ Head(peers) \in Peers /\ peers[2] \in Peers
      /\ r.to \in Peers
      /\ r.to \in Members => Head(peers) \in Members \cup {joined}
      /\ n \in Settled /\ r.to \in Own => Adjacent(ObservedId[n], joined)
  BY <1>1, <1>2, <1>3 DEF ListAnswer, SettledMessage, Owner
<1>5. /\ Members \cap Own = {} /\ joined \in Own
      /\ Joiner \notin Settled /\ Peers = Members \cup Own /\ Peers \subseteq Peer
      /\ BlankId \notin Peers
      /\ n \in Settled \/ n = Joiner
      /\ \A m \in Settled : m \in Node /\ ObservedId[m] \in Members
  BY RingNode, TheJoiner DEF RingInv, Peers
<1>6. Successor(n, successor_list[n]) /\ h \in Peers BY RingNode
<1>7. /\ Len(peers) \in Nat /\ rest \in Seq(Peer) /\ Len(rest) = Len(peers) - 1
      /\ \A i \in 1..Len(rest) : rest[i] = peers[i + 1]
  BY <1>2, <1>4
<1>a. list = replace_successor_list(long) BY DEF AnsweredList
<1> HIDE DEF rest
<1>8. rest # <<>> /\ Head(rest) = peers[2] /\ Range(rest) \subseteq Range(peers)
  <2>1. Len(rest) >= 1 BY <1>4, <1>7
  <2>2. rest # <<>> BY <2>1, EmptySeq
  <2>3. Head(rest) = rest[1] /\ 1 \in 1..Len(rest) BY <1>7, <2>1, <2>2
  <2>4. ASSUME NEW i \in 1..Len(rest) PROVE rest[i] \in Range(peers)
    <3>1. i + 1 \in 1..Len(peers) /\ rest[i] = peers[i + 1] BY <1>7
    <3>2. DOMAIN peers = 1..Len(peers) BY <1>2
    <3>3. QED BY <3>1, <3>2 DEF Range
  <2>5. QED BY <1>7, <2>2, <2>3, <2>4 DEF Range
<1>9. /\ long \in Seq(Peer) /\ long # <<>> /\ Len(long) >= 2
      /\ Head(long) = h /\ long[2] = peers[2]
      /\ Range(long) \subseteq {h} \cup Range(peers)
  BY <1>5, <1>6, <1>7, <1>8, Behind
<1> HIDE DEF long
<1>10. /\ list \in Seq(Peer) \ {<<>>} /\ Head(list) = h
       /\ Len(list) >= 2 => list[2] = peers[2]
       /\ Range(list) \subseteq {h} \cup Range(peers) \cup {BlankId}
       /\ Len(list) = SuccListSize
  BY <1>a, <1>9, Resized, ResizeProperties DEF replace_successor_list
<1>11. Full(peers, 1) =>
         /\ Head(peers) \in Members
         /\ \A i \in 2..Len(list) : list[i] \in Members
         /\ h \in Members => Full(list, 0)
  <2> SUFFICES ASSUME Full(peers, 1)
               PROVE  /\ Head(peers) \in Members
                      /\ \A i \in 2..Len(list) : list[i] \in Members
                      /\ h \in Members => Full(list, 0)
    OBVIOUS
  <2>1. peers \in Seq(Members) /\ Len(peers) = SuccListSize + 1 BY DEF Full
  <2>2. Head(peers) \in Members BY <1>2, <2>1
  <2>3. Len(rest) = SuccListSize /\ \A i \in 1..SuccListSize : rest[i] \in Members
    <3>1. Len(rest) = SuccListSize BY <1>7, <2>1, SuccListSizeAssumption
    <3>2. ASSUME NEW i \in 1..SuccListSize PROVE rest[i] \in Members
      <4>1. i + 1 \in 1..Len(peers) /\ i \in 1..(Len(peers) - 1)
        BY <2>1, SuccListSizeAssumption
      <4>2. rest[i] = peers[i + 1] BY <1>7, <4>1
      <4>3. QED BY <2>1, <4>1, <4>2
    <3>3. QED BY <3>1, <3>2
  <2>4. /\ Len(long) = SuccListSize + 1
        /\ \A i \in 2..SuccListSize : long[i] = rest[i - 1]
    BY <1>5, <1>6, <1>7, <2>3, SuccListSizeAssumption DEF long
  <2>5. ASSUME NEW i \in 2..SuccListSize PROVE list[i] \in Members
    <3>1. i \in 1..SuccListSize /\ i <= Len(long) /\ i - 1 \in 1..SuccListSize
      BY <2>4, SuccListSizeAssumption
    <3>2. list[i] = long[i] BY <1>a, <3>1 DEF replace_successor_list, Resize
    <3>3. QED BY <2>3, <2>4, <3>1, <3>2
  <2>6. \A i \in 2..Len(list) : list[i] \in Members BY <1>10, <2>5
  <2>7. h \in Members => Full(list, 0)
    <3> SUFFICES ASSUME h \in Members PROVE Full(list, 0) OBVIOUS
    <3>1. list[1] \in Members BY <1>10
    <3>2. \A i \in 1..Len(list) : list[i] \in Members
      BY <1>10, <2>6, <3>1, SuccListSizeAssumption
    <3>3. QED BY <1>10, <3>2, SuccListSizeAssumption DEF Full
  <2>8. QED BY <2>2, <2>6, <2>7
<1>12. n \in Settled /\ Unknown => Full(peers, 1) /\ h \in Members
  <2> SUFFICES ASSUME n \in Settled, Unknown PROVE Full(peers, 1) /\ h \in Members
    OBVIOUS
  <2>1. Full(peers, 1) BY <1>1, <1>2 DEF UnknownMessage
  <2>2. Full(successor_list[n], 0) /\ successor_list[n] # <<>> BY RingNode DEF Unknown
  <2>3. h \in Members BY <2>2 DEF Full
  <2>4. QED BY <2>1, <2>3
<1>13. n = Joiner /\ Fresh => Full(peers, 1) BY <1>1, <1>2 DEF FreshMessage, Owner
<1>14. Successor(n, list) BY <1>6, <1>10 DEF Successor
<1>15. n = Joiner /\ Looking =>
         /\ h \in Own /\ Head(peers) \in Own
         /\ Range(list) \subseteq Own \cup {BlankId}
  <2> SUFFICES ASSUME n = Joiner, Looking
               PROVE  /\ h \in Own /\ Head(peers) \in Own
                      /\ Range(list) \subseteq Own \cup {BlankId}
    OBVIOUS
  <2>1. Range(peers) \subseteq Own \cup {BlankId} BY <1>1, <1>2 DEF AloneMessage, Owner
  <2>2. Head(peers) \in Range(peers) BY <1>2 DEF Range
  <2>3. h \in Own BY DEF RingInv, LookingInv
  <2>4. QED BY <1>4, <1>5, <1>10, <2>1, <2>2, <2>3
<1>16. Placed /\ n = Joiner => Follows(h) /\ r.to \in Members
  BY <1>1, <1>2 DEF Placed, PlacedMessage, Owner
<1>17. (Placed /\ (Unnotified \/ Pending) /\ n \in Settled /\ h = joined
          /\ Len(list) >= 2) => Follows(list[2])
  <2> SUFFICES ASSUME Placed, Unnotified \/ Pending, n \in Settled, h = joined,
                      Len(list) >= 2
               PROVE  Follows(list[2])
    OBVIOUS
  <2>1. r.to \in Own
    <3>1. CASE Unnotified
      <4>1. r.to = h BY <1>1, <1>3, <3>1 DEF RingInv, SequentialInv
      <4>2. QED BY <1>5, <4>1
    <3>2. CASE Pending
      <4>1. PICK m \in Settled, t \in StabilizeSlot : Empty(m, t) BY <3>2 DEF Pending
      <4>2. /\ Head(successor_list[m]) = joined
            /\ \A u \in Asking(m) : session[m][u].to \in Own
        BY <1>5, <4>1 DEF RingInv, EmptyInv
      <4>3. Adjacent(ObservedId[m], joined) /\ Adjacent(ObservedId[n], joined)
        BY <1>5, <1>6, <4>2, RingNode DEF Successor
      <4>4. ObservedId[m] = ObservedId[n]
        BY <1>5, <4>3, OneNeighbour DEF RingInv
      <4>5. m = n BY <1>5, <4>4, NodesAssumption
      <4>6. QED BY <1>3, <4>2, <4>5
    <3>3. QED BY <3>1, <3>2
  <2>2. QED BY <1>1, <1>2, <1>10, <2>1 DEF PlacedMessage, Owner
<1> HIDE DEF list
<1>18. QED BY <1>3, <1>4, <1>5, <1>6, <1>10, <1>11, <1>12, <1>13, <1>14, <1>15, <1>16, <1>17
           DEF list

\* A predecessor before the successor: only the Joiner can be found that way,
\* or by the Joiner as long as nobody knows it.
LEMMA AskPredecessorKeeps ==
    ASSUME RingInv, IInv', NEW n \in Node, NEW s \in Slot,
           handle_get_pred_and_succ_list_notify(n, s),
           between(self[n], Head(session[n][s].peers), Head(successor_list[n])),
           Continue(n, s, GetSelfAndSuccList_create_request(Head(session[n][s].peers))),
           UNCHANGED stabilize_flag
    PROVE  RingInv'
<1> DEFINE r == session[n][s]
           peers == r.peers
           p == Head(peers)
           h == Head(successor_list[n])
           list == AnsweredList(n, peers)
           next == GetSelfAndSuccList_create_request(p)
           flag == stabilize_flag[n]
<1>1. /\ Answered(n, s, "get_pred_and_succ_list") /\ peers # <<>>
      /\ successor_list' = [successor_list EXCEPT ![n] = list]
      /\ UNCHANGED <<running, self, predecessor, late, faults>>
  BY DEF handle_get_pred_and_succ_list_notify, AnsweredList
<1>2. /\ s \in StabilizeSlot /\ s \in Asking(n)
      /\ list \in Seq(Peer) \ {<<>>} /\ Head(list) = h
      /\ Successor(n, list)
      /\ Len(list) >= 2 => list[2] = peers[2]
      /\ h \in Peers /\ p \in Peers /\ peers[2] \in Peers
      /\ r.to \in Members => p \in Members \cup {joined}
      /\ n \in Settled /\ r.to \in Own => Adjacent(ObservedId[n], joined)
      /\ n = Joiner /\ Looking =>
           /\ h \in Own /\ p \in Own
           /\ Range(list) \subseteq Own \cup {BlankId}
      /\ Unknown /\ (n = Joiner => Fresh) =>
           p \in Members /\ \A i \in 2..Len(list) : list[i] \in Members
      /\ n \in Settled /\ Unknown => Full(list, 0)
      /\ Placed /\ n = Joiner => Follows(h) /\ r.to \in Members
      /\ (Placed /\ (Unnotified \/ Pending) /\ n \in Settled /\ h = joined
            /\ Len(list) >= 2) => Follows(list[2])
  BY <1>1, ListAnswered
<1> HIDE DEF list
<1>3. /\ r.step = "get_pred_and_succ_list" /\ r.leg = "rsp" BY <1>1 DEF Answered
<1>4. s \in Slot /\ s # JoinSlot BY <1>2, SlotsAreSlots
<1>5. n \in running /\ r.to \in Peers
  BY <1>1, <1>3, RingMessage DEF AnyMessage, ListAnswer, Owner
<1>6. /\ Members \cap Own = {} /\ joined \in Own
      /\ Joiner \notin Settled /\ Peers = Members \cup Own /\ Peers \subseteq Peer
      /\ n \in Settled \/ n = Joiner
      /\ n \in Settled => self[n] = ObservedId[n] /\ ObservedId[n] \in Members
      /\ Successor(n, successor_list[n])
  BY RingNode, TheJoiner DEF RingInv, Peers
<1>7. between(self[n], p, h) OBVIOUS
<1>8. /\ next \in Session /\ next.step = "get_self_and_succ_list" /\ next.leg = "req"
      /\ next.to = p /\ next.relays = <<>> /\ next.peers = <<>>
  <2>1. p \in Peer /\ <<>> \in Seq(Peer) BY <1>2, <1>6, EmptySeq
  <2>2. QED BY <2>1, EmptySeq
        DEF GetSelfAndSuccList_create_request, Request, Session, StabilizeStep
<1>9. Continue(n, s, next) OBVIOUS
<1>10. n \in Settled => p \in Own /\ Adjacent(ObservedId[n], joined)
  <2> SUFFICES ASSUME n \in Settled PROVE p \in Own /\ Adjacent(ObservedId[n], joined)
    OBVIOUS
  <2>1. between(ObservedId[n], p, h) /\ Adjacent(ObservedId[n], h)
    BY <1>6, <1>7 DEF Successor
  <2>2. p \notin Members BY <2>1 DEF Adjacent
  <2>3. p \in Own BY <1>2, <1>6, <2>2
  <2>4. Adjacent(ObservedId[n], p)
    <3>1. ObservedId[n] \in Peer /\ p \in Peer /\ h \in Peer /\ Members \subseteq Peer
      BY <1>2, <1>6
    <3>2. QED BY <2>1, <3>1, PartOfArc
  <2>5. Adjacent(ObservedId[n], joined) BY <1>2, <1>5, <1>6, <2>2, <2>4
  <2>6. QED BY <2>3, <2>5
<1>11. n \in Settled => ~Unknown BY <1>2, <1>6, <1>10
<1>12. n = Joiner => ~Placed
  <2> SUFFICES ASSUME n = Joiner, Placed PROVE FALSE OBVIOUS
  <2>1. Follows(h) /\ p \in Members \cup {joined} BY <1>2
  <2>2. h \in Members /\ h \in Peer /\ joined \in Peer BY <1>6, <2>1 DEF Follows
  <2>3. ~Looking BY <1>2, <1>6, <2>2
  <2>4. self[n] = joined BY <1>5, <2>3, KnowsItself
  <2>5. between(joined, p, h) BY <1>7, <2>4
  <2>6. p # joined BY <2>2, <2>5, BetweenIsStrict
  <2>7. QED BY <2>1, <2>5, <2>6 DEF Follows, Adjacent
<1> HIDE DEF next, p, h
<1>13. AnyMessage(n, s, next)
  <2>1. SettledMessage(n, next) BY <1>8, <1>10 DEF SettledMessage
  <2>2. QED BY <1>2, <1>8, <2>1 DEF AnyMessage, IsEmpty, ListAnswer, Notice,
            JoinMessage, JoinStep, StabilizeStep, CheckStep, Owner
<1>14. ~IsEmpty(next) /\ next.step \in Owner /\ next.step # "get_pred_and_succ_list"
       /\ (p \in Members => FreshMessage(next)) /\ (p \in Own => AloneMessage(next))
       /\ (n \in Settled => PlacedMessage(n, next))
       /\ (n = Joiner => UnknownMessage(n, next))
  BY <1>6, <1>8
  DEF IsEmpty, Owner, FreshMessage, PlacedMessage, AloneMessage, UnknownMessage, Range
<1>15. /\ NoFaults' /\ SelfInv' /\ PredecessorInv'
       /\ running \subseteq running' /\ Unnotified' = Unnotified
       /\ Unknown => SettledPredecessors'
       /\ Looking => predecessor'[Joiner] \in Own \cup {NoPeer}
  BY <1>1, <1>4, <1>9, TablesKept
<1>16. stabilize_flag' = [stabilize_flag EXCEPT ![n] = flag] /\ flag \in BOOLEAN
  BY DEF RingInv, IInv, TypeOK
<1>17. Step(n, s, next, list, flag)
  BY <1>1, <1>2, <1>4, <1>8, <1>9, <1>15, <1>16 DEF Step
<1>18. KeepsSequential(n, s, next, list, flag)
  <2>1. Unnotified => Asking(n) \subseteq {s} /\ flag
    BY <1>2 DEF RingInv, SequentialInv
  <2>2. QED BY <1>14, <2>1 DEF KeepsSequential
<1>19. KeepsEmpty(n, s, next, list)
  <2>1. ASSUME NEW t \in StabilizeSlot, Empty(n, t)
        PROVE  n \in Settled => h = joined
    BY <2>1 DEF h, RingInv, EmptyInv
  <2>2. QED BY <1>2, <1>8, <1>10, <1>14, <2>1 DEF KeepsEmpty
<1>20. n = Joiner => KeepsUnknown(n, next, list)
  BY <1>6, <1>14 DEF KeepsUnknown
<1>21. Looking => Unknown BY DEF RingInv, LookingInv
<1>22. KeepsLooking(n, s, next, list)
  BY <1>2, <1>4, <1>6, <1>11, <1>14, <1>20, <1>21 DEF KeepsLooking
<1>23. KeepsPlaces(n, s, next, list)
  <2>1. Placed /\ (Unnotified \/ Pending) => KeepsPlaced(n, next, list)
    BY <1>2, <1>6, <1>12, <1>14 DEF KeepsPlaced
  <2>2. Unknown /\ Fresh => KeepsFresh(n, next, list)
    BY <1>2, <1>14 DEF KeepsFresh
  <2>3. QED BY <1>6, <1>11, <1>20, <2>1, <2>2 DEF KeepsPlaces
<1>24. n \in running' /\ next.leg # "void" BY <1>1, <1>5, <1>8
<1>25. QED BY <1>2, <1>13, <1>15, <1>17, <1>18, <1>19, <1>22, <1>23, <1>24, RingStep

LEMMA GetPredNotifyKeeps ==
    ASSUME RingInv, IInv', NEW n \in Node, NEW s \in Slot,
           handle_get_pred_and_succ_list_notify(n, s)
    PROVE  RingInv'
<1> DEFINE r == session[n][s]
           peers == r.peers
           p == Head(peers)
           h == Head(successor_list[n])
           list == AnsweredList(n, peers)
<1>1. /\ Answered(n, s, "get_pred_and_succ_list") /\ peers # <<>>
      /\ successor_list' = [successor_list EXCEPT ![n] = list]
      /\ UNCHANGED <<running, self, predecessor, late, faults>>
      /\ \/ /\ between(self[n], p, h)
            /\ Continue(n, s, GetSelfAndSuccList_create_request(p))
            /\ UNCHANGED stabilize_flag
         \/ /\ create_notification(n, s)
            /\ stabilize_flag' = [stabilize_flag EXCEPT ![n] = FALSE]
  BY DEF handle_get_pred_and_succ_list_notify, AnsweredList
<1>2. CASE /\ between(self[n], p, h)
           /\ Continue(n, s, GetSelfAndSuccList_create_request(p))
           /\ UNCHANGED stabilize_flag
  BY <1>2, AskPredecessorKeeps
<1>3. CASE /\ create_notification(n, s)
           /\ stabilize_flag' = [stabilize_flag EXCEPT ![n] = FALSE]
  <2>1. /\ s \in StabilizeSlot /\ s \in Asking(n)
        /\ list \in Seq(Peer) \ {<<>>} /\ Head(list) = h
        /\ Successor(n, list)
        /\ Len(list) >= 2 => list[2] = peers[2]
        /\ peers[2] \in Peers
        /\ n = Joiner /\ Looking =>
             h \in Own /\ Range(list) \subseteq Own \cup {BlankId}
        /\ Unknown /\ (n = Joiner => Fresh) =>
             \A i \in 2..Len(list) : list[i] \in Members
        /\ n \in Settled /\ Unknown => Full(list, 0)
        /\ Placed /\ n = Joiner => Follows(h)
        /\ (Placed /\ (Unnotified \/ Pending) /\ n \in Settled /\ h = joined
              /\ Len(list) >= 2) => Follows(list[2])
    BY <1>1, ListAnswered
  <2> HIDE DEF list
  <2>2. (\E t \in StabilizeSlot \ {s} : Empty(n, t)) =>
          /\ n \in Settled => Head(list) = joined
          /\ n = Joiner /\ Len(list) >= 2 => list[2] \in Peers
    BY <2>1 DEF RingInv, EmptyInv
  <2>3. QED BY <1>1, <1>3, <2>1, <2>2, NotifierKeeps
<1>4. QED BY <1>1, <1>2, <1>3

-----------------------------------------------------------------------------
(* Every step.                                                             *)

LEMMA ResponseHandlersKeep ==
    ASSUME RingInv, IInv', NEW n \in Node, NEW s \in Slot, Response_handlers(n, s)
    PROVE  RingInv'
<1>1. CASE handle_notification_notify(n, s)
  <2>1. /\ session[n][s].step = "notify" /\ Destroy(n, s)
        /\ UNCHANGED <<running, self, predecessor, successor_list, stabilize_flag, late, faults>>
    BY <1>1 DEF handle_notification_notify, Answered, table, flags
  <2>2. n \in running BY <2>1, RingMessage
  <2>3. QED BY <2>1, <2>2, EndKeeps
<1>2. CASE CheckPredecessor_handle_response(n, s)
  <2>1. /\ session[n][s].step = "check_predecessor" /\ Destroy(n, s)
        /\ UNCHANGED <<running, self, predecessor, successor_list, stabilize_flag, late, faults>>
    BY <1>2 DEF CheckPredecessor_handle_response, Answered, table
  <2>2. n \in running BY <2>1, RingMessage
  <2>3. QED BY <2>1, <2>2, EndKeeps
<1>3. QED BY <1>1, <1>2, ForwardedResponseKeeps, QueryNotifyKeeps, FindSuccessorNotifyKeeps,
             GetSuccessorListNotifyKeeps, EmptyNotifyKeeps, GetPredNotifyKeeps,
             GetSelfNotifyKeeps DEF Response_handlers

\* Only a Stabilize that has notified the Joiner gets no answer, and lowers
\* the flag once more.
LEMMA TimeoutsKeep ==
    ASSUME RingInv, IInv', NEW n \in Node, NEW s \in Slot, Timeouts(n, s)
    PROVE  RingInv'
<1> DEFINE r == session[n][s]
           next == Idle
           list == successor_list[n]
<1>1. AnyMessage(n, s, r) /\ (r.leg = "void" => ~Unnotified) BY RingMessage
<1>2. n \in running /\ r.leg = "void"
  BY DEF Timeouts, Join_handle_failed, Stabilize_handle_failed,
         CheckPredecessor_handle_failed, Expired
<1>3. r.step = "notify" /\ ~Unnotified BY <1>1, <1>2 DEF AnyMessage
<1>4. Stabilize_handle_failed(n, s)
  BY <1>3 DEF Timeouts, Join_handle_failed, CheckPredecessor_handle_failed, Expired,
              JoinStep, CheckStep
<1>5. /\ Continue(n, s, next)
      /\ stabilize_flag' = [stabilize_flag EXCEPT ![n] = FALSE]
      /\ UNCHANGED <<running, self, predecessor, successor_list, late, faults>>
  BY <1>3, <1>4 DEF Stabilize_handle_failed, Destroy
<1>6. /\ next \in Session /\ next.step = "idle" /\ next.leg = "none"
      /\ AnyMessage(n, s, next) /\ UnknownMessage(n, next) /\ FreshMessage(next)
      /\ AloneMessage(next) /\ PlacedMessage(n, next) /\ ~IsEmpty(next)
      /\ next.step \notin Owner
  BY IdleMessage
<1> HIDE DEF next
<1>7. s # JoinSlot BY <1>1, <1>3, SlotsAreSlots DEF AnyMessage, StabilizeStep
<1>8. /\ NoFaults' /\ SelfInv' /\ PredecessorInv'
      /\ running \subseteq running' /\ Unnotified' = Unnotified
      /\ Unknown => SettledPredecessors'
      /\ Looking => predecessor'[Joiner] \in Own \cup {NoPeer}
  BY <1>5, <1>7, TablesKept
<1>9. list \in Seq(Peer) \ {<<>>} /\ Successor(n, list) BY RingNode
<1>10. successor_list' = [successor_list EXCEPT ![n] = list]
  BY <1>5 DEF RingInv, IInv, TypeOK
<1>11. Step(n, s, next, list, FALSE)
  BY <1>5, <1>6, <1>8, <1>9, <1>10 DEF Step
<1>12. KeepsSequential(n, s, next, list, FALSE) BY <1>3 DEF KeepsSequential
<1>13. KeepsEmpty(n, s, next, list) BY <1>6 DEF KeepsEmpty, RingInv, EmptyInv
<1>14. Unknown => KeepsUnknown(n, next, list) BY <1>6 DEF KeepsUnknown, Unknown
<1>15. KeepsLooking(n, s, next, list)
  BY <1>6, <1>7, <1>14 DEF KeepsLooking, RingInv, LookingInv
<1>16. KeepsPlaces(n, s, next, list)
  <2>1. Placed => KeepsPlaced(n, next, list) BY <1>6 DEF Placed, KeepsPlaced
  <2>2. QED BY <1>3, <2>1 DEF KeepsPlaces
<1>17. n \in running' /\ next.leg # "void" BY <1>2, <1>5, <1>6
<1> HIDE DEF list
<1>18. QED BY <1>6, <1>8, <1>9, <1>11, <1>12, <1>13, <1>15, <1>16, <1>17, RingStep

\* Neither a connection that is refused nor a blank peer.
LEMMA NothingFails ==
    ASSUME RingInv, NEW n \in Node, NEW s \in Slot
    PROVE  ~connection_refused(n, s) /\ ~send_to_blank(n, s)
<1> DEFINE r == session[n][s]
<1>1. /\ AnyMessage(n, s, r)
      /\ r.step # "idle" => n \in running
      /\ Unknown => UnknownMessage(n, r)
      /\ Looking => Unknown
  BY RingMessage
<1>2. ASSUME r.leg = "req"
      PROVE  /\ r.to \in Peers /\ r.to # BlankId /\ r.step # "idle"
             /\ HostOf(r.to) \in running
  <2>1. r.to \in Peers /\ r.step # "idle" BY <1>1, <1>2 DEF AnyMessage
  <2>2. r.to # BlankId BY <2>1, TheJoiner DEF RingInv
  <2>3. HostOf(r.to) \in Settled \/ (HostOf(r.to) = Joiner /\ r.to \in Own)
    <3>1. \A x \in Peers : \/ HostOf(x) \in Settled
                            \/ (HostOf(x) = Joiner /\ x \in Own)
      <4> SUFFICES ASSUME NEW x \in Peers
                   PROVE  \/ HostOf(x) \in Settled
                          \/ (HostOf(x) = Joiner /\ x \in Own)
        OBVIOUS
      <4>1. x \in Members \/ x \in Own BY DEF Peers
      <4>2. CASE x \in Members BY <4>2, Hosts DEF RingInv
      <4>3. CASE x \in Own BY <4>3, Hosts DEF RingInv
      <4>4. QED BY <4>1, <4>2, <4>3
    <3>2. QED BY <2>1, <3>1
  <2>4. CASE HostOf(r.to) \in Settled
    <3>1. HostOf(r.to) \in running BY <2>4 DEF RingInv, NoFaults
    <3>2. QED BY <2>1, <2>2, <3>1
  <2>5. CASE HostOf(r.to) = Joiner /\ r.to \in Own
    <3> SUFFICES ASSUME Joiner \notin running PROVE FALSE BY <2>1, <2>2, <2>5
    <3>1. UnknownMessage(n, r) BY <1>1 DEF Looking
    <3>2. n # Joiner BY <1>1, <2>1
    <3>3. n \in Settled /\ Members \cap Own = {} BY <3>2, TheJoiner DEF RingInv
    <3>4. r.to \in Members BY <2>1, <3>1, <3>3 DEF UnknownMessage
    <3>5. QED BY <2>5, <3>3, <3>4
  <2>6. QED BY <2>1, <2>2, <2>3, <2>4, <2>5
<1>3. QED BY <1>2 DEF connection_refused, send_to_blank

LEMMA RingStepPreserves == RingInv /\ [Next]_vars => RingInv'
<1> SUFFICES ASSUME RingInv, [Next]_vars PROVE RingInv' OBVIOUS
<1>1. IInv' BY StepPreserves DEF RingInv
<1>2. CASE Next
  <2>1. PICK n \in Node : \/ Launch(n)
                          \/ stabilize(n)
                          \/ check_predecessor(n)
                          \/ \E s \in Slot : Progress(n, s)
                          \/ Fault(n)
    BY <1>2 DEF Next
  <2>2. CASE Launch(n)
    <3>1. ~create_ring(n) BY DEF create_ring, RingInv, LoneJoin
    <3>2. PICK m \in Node : join(n, m) BY <2>2, <3>1 DEF Launch
    <3>3. QED BY <1>1, <3>2, JoinKeeps
  <2>3. CASE stabilize(n) BY <1>1, <2>3, StabilizeKeeps
  <2>4. CASE check_predecessor(n) BY <1>1, <2>4, CheckingKeeps
  <2>5. ASSUME NEW s \in Slot, Progress(n, s) PROVE RingInv'
    BY <1>1, <2>5, RequestHandlersKeep, ResponseHandlersKeep, TimeoutsKeep, NothingFails
    DEF Progress
  <2>6. ~Fault(n)
    <3>1. crashes = 0 /\ losses = 0 /\ late = {} /\ MaxCrash = 0 /\ MaxLoss = 0
      BY DEF RingInv, NoFaults, LoneJoin
    <3>2. QED BY <3>1 DEF Fault, crash, late_notification, lose, delay
  <2>7. QED BY <2>1, <2>2, <2>3, <2>4, <2>5, <2>6
<1>3. CASE UNCHANGED vars
  <2>1. UNCHANGED <<running, self, predecessor, successor_list, stabilize_flag, session, late,
                    crashes, losses>>
    BY <1>3 DEF vars, table, flags, faults
  <2>2. /\ LoneJoin' /\ NoFaults' /\ SelfInv'
        /\ (Unnotified <=> Unnotified') /\ (Looking <=> Looking')
        /\ \A n : Asking(n)' = Asking(n)
    BY <2>1 DEF RingInv, LoneJoin, NoFaults, SelfInv, Unnotified, Looking, Asking
  <2>3. PredecessorInv' /\ SuccessorInv'
    BY <2>1 DEF RingInv, PredecessorInv, SuccessorInv, Successor, Adjacent, Follows
  <2>4. MessagesInv'
    <3>1. \A n \in Node, s \in Slot :
            AnyMessage(n, s, session[n][s])' <=> AnyMessage(n, s, session[n][s])
      BY <2>1 DEF AnyMessage, IsEmpty, ListAnswer, Notice, SettledMessage, JoinMessage,
         Follows, Adjacent
    <3>2. QED BY <2>1, <2>2, <3>1 DEF RingInv, MessagesInv
  <2>5. SequentialInv' BY <2>1, <2>2 DEF RingInv, SequentialInv
  <2>6. EmptyInv' BY <2>1, <2>2 DEF RingInv, EmptyInv, Empty, IsEmpty
  <2>7. (Unknown <=> Unknown') /\ (Pending <=> Pending')
    BY <2>1 DEF Unknown, UnknownMessage, Full, Follows, Adjacent, Pending, Empty, IsEmpty
  <2>8. (Fresh <=> Fresh') BY <2>1 DEF Fresh, FreshMessage, Full
  <2>9. (Placed <=> Placed') BY <2>1 DEF Placed, PlacedMessage, Follows, Adjacent
  <2>10. LookingInv' BY <2>1, <2>2, <2>7 DEF RingInv, LookingInv, AloneMessage
  <2>11. PlacedInv' BY <2>2, <2>7, <2>8, <2>9 DEF RingInv, PlacedInv
  <2>12. QED BY <1>1, <2>2, <2>3, <2>4, <2>5, <2>6, <2>10, <2>11 DEF RingInv
<1>4. QED BY <1>2, <1>3

-----------------------------------------------------------------------------
(* The settled ring that a behaviour starts from.                          *)

\* The last node before the i-th one is its predecessor.
LEMMA BeforeIsBefore ==
    ASSUME NEW L \in Nat \ {0}, NEW i \in 1..L
    PROVE  LET j == ((i + (L - 1) - 1) % L) + 1 IN
           j \in 1..L /\ ((j + 1 - 1) % L) + 1 = i
<1> DEFINE j == ((i + (L - 1) - 1) % L) + 1
<1>1. CASE i = 1
  <2>1. (i + (L - 1) - 1) = L - 1 BY <1>1
  <2>2. (L - 1) % L = L - 1 OBVIOUS
  <2>3. j = L BY <2>1, <2>2
  <2>4. L % L = 0 OBVIOUS
  <2>5. QED BY <1>1, <2>3, <2>4
<1>2. CASE i # 1
  <2>1. i + (L - 1) - 1 = (i - 2) + L /\ i - 2 \in 0..(L - 1) BY <1>2
  <2>2. ((i - 2) + L) % L = i - 2 BY <2>1
  <2>3. j = i - 1 BY <2>1, <2>2
  <2>4. (i - 1) % L = i - 1 OBVIOUS
  <2>5. QED BY <1>2, <2>3, <2>4
<1>3. QED BY <1>1, <1>2

LEMMA AfterIsSettled ==
    ASSUME SettledRing # <<>>, NEW i \in DOMAIN SettledRing, NEW k \in Nat
    PROVE  ObservedId[After(i, k)] \in Members
<1>1. Len(SettledRing) \in Nat \ {0} /\ i \in 1..Len(SettledRing)
      /\ SettledRing \in Seq(Node)
  BY SettledAssumption
<1>2. ((i + k - 1) % Len(SettledRing)) + 1 \in 1..Len(SettledRing)
  BY <1>1
<1>3. After(i, k) \in Settled BY <1>1, <1>2 DEF After, Settled, Range
<1>4. QED BY <1>3 DEF Members

LEMMA IdealState ==
    ASSUME NEW n \in Settled
    PROVE  /\ Full(IdealList(n), 0)
           /\ Adjacent(ObservedId[n], Head(IdealList(n)))
           /\ IdealPredecessor(n) \in Members
           /\ Adjacent(IdealPredecessor(n), ObservedId[n])
<1> DEFINE L == Len(SettledRing)
           i == Position(n)
<1>1. SettledRing \in Seq(Node) BY SettledAssumption
<1>2. i \in DOMAIN SettledRing /\ SettledRing[i] = n BY DEF Settled, Range, Position
<1>3. SettledRing # <<>> /\ L \in Nat \ {0} /\ i \in 1..L /\ DOMAIN SettledRing = 1..L
  BY <1>1, <1>2
<1> HIDE DEF i
<1>4. \A k \in Nat : ObservedId[After(i, k)] \in Members
  BY <1>2, <1>3, AfterIsSettled
<1>5. IdealList(n) = [k \in 1..SuccListSize |-> ObservedId[After(i, k)]]
  BY DEF IdealList, i
<1>6. Full(IdealList(n), 0)
  BY <1>4, <1>5, SuccListSizeAssumption DEF Full
<1>7. Head(IdealList(n)) = ObservedId[After(i, 1)]
  BY <1>5, <1>6, SuccListSizeAssumption DEF Full
<1>8. \A k \in 1..L : Adjacent(ObservedId[SettledRing[k]], ObservedId[After(k, 1)])
  BY <1>3, SettledAssumption DEF IsNext, Adjacent
<1>9. Adjacent(ObservedId[n], Head(IdealList(n))) BY <1>2, <1>3, <1>7, <1>8
<1> DEFINE j == ((i + (L - 1) - 1) % L) + 1
<1>10. j \in 1..L /\ ((j + 1 - 1) % L) + 1 = i BY <1>3, BeforeIsBefore
<1>11. IdealPredecessor(n) = ObservedId[SettledRing[j]]
  BY DEF IdealPredecessor, After, i
<1>12. After(j, 1) = n BY <1>2, <1>10 DEF After
<1> HIDE DEF j
<1>13. Adjacent(IdealPredecessor(n), ObservedId[n]) BY <1>8, <1>10, <1>11, <1>12
<1>14. IdealPredecessor(n) \in Members
  BY <1>1, <1>3, <1>10, <1>11 DEF Members, Settled, Range
<1>15. QED BY <1>6, <1>9, <1>13, <1>14

LEMMA InitIsInOrder == LoneJoin /\ Init => RingInv
<1> SUFFICES ASSUME LoneJoin, Init PROVE RingInv OBVIOUS
<1>1. /\ Joiner \in Node /\ Joiner \notin Settled /\ Settled \subseteq Node
      /\ \A n \in Node : n \in Settled \/ n = Joiner
      /\ Members \cap Own = {} /\ joined \in Own /\ GivenId[Joiner] \in Own
      /\ Own \subseteq Peers /\ Members \subseteq Peers
  BY TheJoiner DEF Peers, Own
<1>2. /\ running = Settled
      /\ \A n \in Settled :
           /\ self[n] = ObservedId[n]
           /\ predecessor[n] = IdealPredecessor(n)
           /\ successor_list[n] = IdealList(n)
      /\ self[Joiner] = GivenId[Joiner]
      /\ predecessor[Joiner] = NoPeer
      /\ successor_list[Joiner] = <<GivenId[Joiner]>>
      /\ \A n \in Node, s \in Slot : session[n][s] = Idle
      /\ late = {} /\ crashes = 0 /\ losses = 0
  BY <1>1 DEF Init
<1>3. IInv BY InitEstablishes
<1>4. NoFaults BY <1>2 DEF NoFaults
<1>5. SelfInv BY <1>1, <1>2 DEF SelfInv
<1>6. PredecessorInv BY <1>1, <1>2, IdealState DEF PredecessorInv
<1>7. SuccessorInv
  <2>1. ASSUME NEW n \in Settled PROVE Head(successor_list[n]) \in Members
    <3>1. Full(successor_list[n], 0) BY <1>2, IdealState
    <3>2. successor_list[n] \in Seq(Members) /\ successor_list[n] # <<>>
      BY <3>1, SuccListSizeAssumption DEF Full
    <3>3. QED BY <3>2
  <2>2. Head(successor_list[Joiner]) = GivenId[Joiner] BY <1>2
  <2>3. QED BY <1>1, <1>2, <2>1, <2>2, IdealState DEF SuccessorInv, Successor
<1>8. MessagesInv BY <1>2, IdleMessage DEF MessagesInv
<1>9. \A n \in Node, s \in Slot :
        /\ session[n][s].step = "idle" /\ session[n][s].step \notin Owner
        /\ ~IsEmpty(session[n][s])
        /\ UnknownMessage(n, session[n][s]) /\ FreshMessage(session[n][s])
        /\ AloneMessage(session[n][s])
  BY <1>2, IdleMessage
<1>10. StabilizeSlot \subseteq Slot BY SlotsAreSlots
<1>11. SequentialInv
  <2>1. \A n \in Node : Asking(n) = {} BY <1>9, <1>10 DEF Asking
  <2>2. \A n \in Settled, s \in StabilizeSlot : session[n][s].step = "idle"
    BY <1>1, <1>9, <1>10
  <2>3. QED BY <2>1, <2>2 DEF SequentialInv
<1>12. EmptyInv BY <1>9, <1>10 DEF EmptyInv, Empty
<1>13. Unknown BY <1>2, <1>9, IdealState DEF Unknown
<1>14. LookingInv
  <2>1. Range(successor_list[Joiner]) \subseteq Own BY <1>1, <1>2 DEF Range
  <2>2. Head(successor_list[Joiner]) \in Own BY <1>1, <1>2
  <2>3. QED BY <1>1, <1>2, <1>9, <1>13, <2>1, <2>2 DEF LookingInv
<1>15. PlacedInv
  <2>1. Fresh BY <1>1, <1>2, <1>9 DEF Fresh
  <2>2. ~Pending BY <1>1, <1>9, <1>10 DEF Pending, Empty
  <2>3. QED BY <1>13, <2>1, <2>2 DEF PlacedInv
<1>16. QED BY <1>3, <1>4, <1>5, <1>6, <1>7, <1>8, <1>11, <1>12, <1>14, <1>15 DEF RingInv

-----------------------------------------------------------------------------
LEMMA RingInOrder ==
    ASSUME RingInv
    PROVE  RingIntact /\ NoBlankTarget
<1>1. Settled \subseteq Node /\ BlankId \notin Peers BY TheJoiner DEF RingInv
<1>2. \A n \in Settled : self[n] = ObservedId[n] /\ self[n] \in Members
  BY <1>1, RingNode DEF Members
<1>3. ASSUME NEW n \in Settled, NEW m \in Settled
      PROVE  /\ ~between(self[n], self[m], Head(successor_list[n]))
             /\ ~between(predecessor[n], self[m], self[n])
  <2>1. Adjacent(ObservedId[n], Head(successor_list[n]))
    BY <1>1, RingNode DEF Successor
  <2>2. Adjacent(predecessor[n], ObservedId[n])
    BY DEF RingInv, PredecessorInv, Follows
  <2>3. QED BY <1>2, <2>1, <2>2 DEF Adjacent
<1>4. ASSUME NEW n \in Node, NEW s \in Slot, NEW m \in Settled,
             Answered(n, s, "find_successor")
      PROVE  ~between(self[n], self[m], Head(session[n][s].peers))
  <2>1. /\ session[n][s].step = "find_successor" /\ session[n][s].leg = "rsp"
        /\ AnyMessage(n, s, session[n][s]) /\ n \in running
    BY <1>4, RingMessage DEF Answered
  <2>2. n = Joiner /\ s = JoinSlot /\ Follows(Head(session[n][s].peers))
    BY <2>1 DEF AnyMessage, JoinStep, JoinMessage
  <2>3. self[n] = joined BY <2>1, <2>2 DEF RingInv, SelfInv
  <2>4. QED BY <1>2, <2>2, <2>3 DEF Follows, Adjacent
<1>5. RingIntact BY <1>3, <1>4 DEF RingIntact
<1>6. NoBlankTarget
  <2> SUFFICES ASSUME NEW n \in Node, NEW s \in Slot, session[n][s].leg = "req"
               PROVE  session[n][s].to # BlankId
    BY DEF NoBlankTarget
  <2>1. session[n][s].to \in Peers BY RingMessage DEF AnyMessage
  <2>2. QED BY <1>1, <2>1
<1>7. QED BY <1>5, <1>6

LEMMA RingStaysInOrder == LoneJoin /\ Spec => []RingInv
BY InitIsInOrder, RingStepPreserves, PTL DEF Spec

(* While one node joins a ring of any size, with lists of any length and   *)
(* any number of Stabilize objects at the same time, and nothing fails: no *)
(* successor, no predecessor and no answer to the lookup of the Join       *)
(* leaves out a member (Stabilize::handle_get_pred_and_succ_list_notify,   *)
(* Notification::handle_request, FindSuccessor::handle_request).  With two *)
(* nodes that join in the same gap it is not so.                           *)
THEOREM JoinKeepsTheRing == LoneJoin /\ Spec => []RingIntact
BY RingStaysInOrder, RingInOrder, PTL

(* Nor does a process of that ring end because it sends to a default       *)
(* constructed Peer, although pop_front and vector::resize leave such ones *)
(* in its list (Stabilize::create_notification,                            *)
(* ConcurrentRoutingTable::pop_front).                                     *)
THEOREM JoinNeverSendsToBlank == LoneJoin /\ Spec => []NoBlankTarget
BY RingStaysInOrder, RingInOrder, PTL
=============================================================================
