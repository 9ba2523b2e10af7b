--------------------------- MODULE RoutingLemmas ----------------------------
(* What the operators of Routing return and preserve, for every identifier *)
(* and every successor list.                                               *)
EXTENDS Routing, FiniteSetTheorems, WellFoundedInduction, TLAPS

-----------------------------------------------------------------------------
(* The positions of a list: a non-empty set of them has a greatest one,    *)
(* the one with the least tail behind it.                                  *)
LEMMA MaxIsGreatest ==
    ASSUME NEW n \in Nat, NEW S \in SUBSET (1..n), S # {}
    PROVE  Max(S) \in S /\ \A y \in S : Max(S) >= y
<1> DEFINE Tails == {x..n : x \in S}
           Shorter == StrictSubsetOrdering(1..n)
<1>1. IsWellFoundedOn(Shorter, SUBSET (1..n))
  <2>1. IsFiniteSet(1..n)
    BY FS_Interval
  <2> QED  BY <2>1, FS_FiniteSubsetsOfFinite, FS_StrictSubsetOrderingWellFounded
<1>2. Tails \in SUBSET SUBSET (1..n) /\ Tails # {}
  <2>1. \A x \in S : x..n \in SUBSET (1..n)
    OBVIOUS
  <2>2. PICK x \in S : TRUE
    OBVIOUS
  <2>3. x..n \in Tails
    OBVIOUS
  <2> QED  BY <2>1, <2>3, Zenon
<1>3. PICK t \in Tails : \A u \in Tails : <<u, t>> \notin Shorter
  <2> HIDE DEF Tails, Shorter
  <2> QED  BY <1>1, <1>2, WFMin
<1>4. PICK x \in S : t = x..n
  OBVIOUS
<1>5. ASSUME NEW y \in S
      PROVE  x >= y
  <2>1. (y..n) \in Tails
    OBVIOUS
  <2>2. <<y..n, x..n>> \notin Shorter
    BY <1>3, <1>4, <2>1
  <2>3. ~(y..n \subseteq x..n /\ y..n # x..n)
    <3>1. (y..n) \in SUBSET (1..n) /\ (x..n) \in SUBSET (1..n)
      OBVIOUS
    <3> QED  BY <2>2, <3>1, Zenon DEF StrictSubsetOrdering
  <2>4. y > x => x \in x..n /\ x \notin y..n /\ y..n \subseteq x..n
    OBVIOUS
  <2> QED  BY <2>3, <2>4
<1> QED  BY <1>4, <1>5 DEF Max

-----------------------------------------------------------------------------
(* The circular order.                                                     *)

(* No identifier lies strictly between another one and itself.             *)
LEMMA BetweenIsStrict ==
    ASSUME NEW a \in Peer, NEW b \in Peer
    PROVE  ~between(a, a, b) /\ ~between(a, b, b)
BY DEF between, Peer

(* Two steps clockwise towards the same identifier are one.                *)
LEMMA BetweenIsTransitive ==
    ASSUME NEW a \in Peer, NEW b \in Peer, NEW c \in Peer, NEW d \in Peer,
           between(a, b, d), between(b, c, d)
    PROVE  between(a, c, d)
BY DEF between, Peer

(* Of two identifiers other than a one is met before the other.            *)
LEMMA BetweenIsTotal ==
    ASSUME NEW a \in Peer, NEW b \in Peer, NEW c \in Peer,
           a # b, b # c
    PROVE  between(a, b, c) \/ between(a, c, b)
BY DEF between, Peer

-----------------------------------------------------------------------------
(* The operations on a successor list return lists of peers that are never *)
(* empty, whatever peers they are given.                                   *)

LEMMA ResizeProperties ==
    ASSUME NEW list \in Seq(Peer)
    PROVE  /\ Resize(list) \in Seq(Peer) \ {<<>>}
           /\ Len(Resize(list)) = SuccListSize
           /\ list # <<>> => Head(Resize(list)) = Head(list)
BY SuccListSizeAssumption DEF Resize, Peer, BlankId

LEMMA SetSuccessorType ==
    ASSUME NEW list \in Seq(Peer), NEW peer \in Peer
    PROVE  set_successor(list, peer) \in Seq(Peer) \ {<<>>}
BY DEF set_successor

LEMMA PopFrontType ==
    ASSUME NEW list \in Seq(Peer) \ {<<>>}
    PROVE  pop_front(list) \in Seq(Peer) \ {<<>>}
<1>1. CASE Len(list) <= 1
  BY <1>1 DEF pop_front
<1>2. CASE ~(Len(list) <= 1)
  <2>1. Len(list) \in Nat /\ Tail(list) \in Seq(Peer)
    OBVIOUS
  <2>2. Len(Tail(list)) = Len(list) - 1
    OBVIOUS
  <2>3. Len(Tail(list)) # 0
    BY <1>2, <2>1, <2>2
  <2>4. Tail(list) # <<>>
    <3>1. Len(<<>>) = 0
      OBVIOUS
    <3> QED  BY <2>3, <3>1, Zenon
  <2> QED  BY <1>2, <2>1, <2>4 DEF pop_front
<1> QED  BY <1>1, <1>2

LEMMA ReplaceAfterType ==
    ASSUME NEW list \in Seq(Peer) \ {<<>>}, NEW new_succ_list \in Seq(Peer)
    PROVE  replace_after_successor(list, new_succ_list) \in Seq(Peer) \ {<<>>}
<1>1. (<<Head(list)>> \o new_succ_list \o Tail(list)) \in Seq(Peer)
  OBVIOUS
<1> QED  BY <1>1, ResizeProperties DEF replace_after_successor

-----------------------------------------------------------------------------
(* The routing decisions.                                                  *)

(* The node a lookup is forwarded to is an entry of the list that lies     *)
(* strictly between this node and the identifier.                          *)
LEMMA ClosestPrecedingProperties ==
    ASSUME NEW self \in Peer, NEW peers \in Seq(Peer), NEW id \in Peer
    PROVE  LET closest == closest_preceding_node(self, peers, id) IN
           \/ Preceding(self, peers, id) = {} /\ closest = self
           \/ /\ \E i \in 1..Len(peers) : closest = peers[i]
              /\ between(self, closest, id)
              /\ closest # self
<1>1. CASE Preceding(self, peers, id) = {}
  BY <1>1 DEF closest_preceding_node
<1>2. CASE Preceding(self, peers, id) # {}
  <2>1. Len(peers) \in Nat
    OBVIOUS
  <2>2. Preceding(self, peers, id) \in SUBSET (1..Len(peers))
    BY DEF Preceding
  <2>3. Max(Preceding(self, peers, id)) \in Preceding(self, peers, id)
    BY <1>2, <2>1, <2>2, MaxIsGreatest
  <2>4. PICK i \in Preceding(self, peers, id) :
          closest_preceding_node(self, peers, id) = peers[i]
    BY <1>2, <2>3 DEF closest_preceding_node
  <2>5. i \in 1..Len(peers) /\ peers[i] \in Peer /\ between(self, peers[i], id)
    BY <2>4 DEF Preceding
  <2> QED  BY <2>4, <2>5, BetweenIsStrict
<1> QED  BY <1>1, <1>2

(* What find_successor returns: the head of the list, the node itself, or  *)
(* nothing, and nothing only if there is a node to forward the lookup to.  *)
LEMMA FindSuccessorProperties ==
    ASSUME NEW self \in Peer, NEW peers \in Seq(Peer) \ {<<>>}, NEW id \in Peer
    PROVE  LET found == find_successor(self, peers, id)
               direct == between(self, id, Head(peers)) \/ id = Head(peers)
           IN  \/ direct /\ found = Head(peers)
               \/ ~direct /\ found = self /\ Preceding(self, peers, id) = {}
               \/ /\ ~direct /\ found = NoPeer
                  /\ closest_preceding_node(self, peers, id) # self
BY ClosestPrecedingProperties DEF find_successor
=============================================================================
