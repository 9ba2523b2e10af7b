------------------------------- MODULE Chord --------------------------------
(***************************************************************************)
(* The ring of peerpaste: every node runs a chord thread that stabilises   *)
(* and checks its predecessor, and a dispatcher thread that runs the       *)
(* handler of each message that arrives.                                   *)
(*                                                                         *)
(* A request opens a TCP session of its own and the response comes back on *)
(* it, so a session carries at most one message at a time.  The message    *)
(* therefore lives in the record of the MessagingBase object (a Join, a    *)
(* Stabilize or a CheckPredecessor of MessageHandler::active_messages_)    *)
(* that waits for it:                                                      *)
(*                                                                         *)
(*   step     the request it has made last, "idle" when there is no object *)
(*   leg      "req": the request is queued or travelling,                  *)
(*            "rsp": so is the response,                                   *)
(*            "void": no response will come, the object waits to time out  *)
(*   to       the peer the request is addressed to                         *)
(*   relays   the nodes whose FindSuccessor objects forwarded it           *)
(*   peers    the peers in the message                                     *)
(*                                                                         *)
(* Each handler is one atomic step; the chord thread interleaves between   *)
(* handlers.                                                               *)
(***************************************************************************)
EXTENDS Routing, SequencesExt

CONSTANTS
    Node,           \* the machines
    GivenId,        \* identifier of the address a node is started with
    ObservedId,     \* identifier of the address other nodes see it at
    SettledRing,    \* nodes that form a stable ring initially, in ring order
    Creators,       \* nodes that users start with --create
    JoinVia,        \* <<n, m>>: users start n with --join m
    StabilizeSlot,  \* where the Stabilize objects of a node are kept
    MaxStabilize,   \* bound: how many of them each node has at the same time
    Checkers,       \* bound: nodes that check their predecessor (all, in the code)
    Killable,       \* bound: nodes whose process may be killed
    MaxCrash,       \* bound: how often processes are killed
    MaxLoss         \* bound: messages that are lost or delayed

ASSUME NodesAssumption ==
    /\ GivenId \in [Node -> Id]
    /\ ObservedId \in [Node -> Id]
    /\ \A n, m \in Node : n # m =>
         {GivenId[n], ObservedId[n]} \cap {GivenId[m], ObservedId[m]} = {}

Settled == Range(SettledRing)

Members == {ObservedId[n] : n \in Settled}

\* the k-th node after the i-th of the settled ring
After(i, k) == SettledRing[((i + k - 1) % Len(SettledRing)) + 1]

ASSUME SettledAssumption ==
    /\ SettledRing \in Seq(Node)
    /\ \A i \in DOMAIN SettledRing :
         IsNext(ObservedId[After(i, 1)], ObservedId[SettledRing[i]], Members)

ASSUME LaunchAssumption ==
    /\ Creators \subseteq Node
    /\ JoinVia \subseteq Node \X Node

ASSUME BoundsAssumption ==
    /\ MaxStabilize \in [Node -> Nat]
    /\ Checkers \subseteq Node
    /\ Killable \subseteq Node
    /\ MaxCrash \in Nat
    /\ MaxLoss \in Nat

JoinSlot == 1       \* a process joins at most once
CheckSlot == 2      \* check_predecessor_flag_ admits one CheckPredecessor

ASSUME SlotAssumption == StabilizeSlot \subseteq Nat \ {JoinSlot, CheckSlot}

Slot == {JoinSlot, CheckSlot} \cup StabilizeSlot

JoinStep == {"query", "find_successor", "get_successor_list"}
StabilizeStep == {"get_pred_and_succ_list", "get_self_and_succ_list", "notify"}
CheckStep == {"check_predecessor"}

VARIABLES
    running,                \* the nodes whose process runs
    self,                   \* the routing table: self_
    predecessor,            \* predecessor_
    successor_list,         \* successor_list_
    stabilize_flag,
    check_predecessor_flag,
    session,                \* the objects of active_messages_, by slot
    late,                   \* notifications whose sender gave up on them
    crashes, losses         \* how much of MaxCrash and MaxLoss is used

table == <<self, predecessor, successor_list>>
flags == <<stabilize_flag, check_predecessor_flag>>
faults == <<crashes, losses>>
vars == <<running, table, flags, session, late, faults>>

-----------------------------------------------------------------------------
Idle == [step |-> "idle", leg |-> "none", to |-> BlankId,
         relays |-> <<>>, peers |-> <<>>]

Request(step, to, peers) ==
    [step |-> step, leg |-> "req", to |-> to, relays |-> <<>>, peers |-> peers]

\* the create_request of each class: what it asks, whom, and with which peers
Query_create_request(to) == Request("query", to, <<>>)
FindSuccessor_create_request(to, id) == Request("find_successor", to, <<id>>)
GetSuccessorList_create_request(to) == Request("get_successor_list", to, <<>>)
GetPredAndSuccList_create_request(to) ==
    Request("get_pred_and_succ_list", to, <<>>)
GetSelfAndSuccList_create_request(to) ==
    Request("get_self_and_succ_list", to, <<>>)
Notification_create_request(to, peer) == Request("notify", to, <<peer>>)
CheckPredecessor_create_request(to) == Request("check_predecessor", to, <<>>)

\* the machine that listens on a peer's address
HostOf(peer) == CHOOSE n \in Node : peer \in {GivenId[n], ObservedId[n]}

IsAddress(peer) == \E n \in Node : peer \in {GivenId[n], ObservedId[n]}

\* the request of session s of node n has arrived at node m
Arrived(n, s, step, m) ==
    /\ session[n][s].step = step
    /\ session[n][s].leg = "req"
    /\ IsAddress(session[n][s].to)
    /\ m = HostOf(session[n][s].to)
    /\ m \in running

Continue(n, s, next) == session' = [session EXCEPT ![n][s] = next]

Respond(n, s, peers) ==
    Continue(n, s, [session[n][s] EXCEPT !.leg = "rsp", !.peers = peers])

\* the response is back at node n itself
Answered(n, s, step) ==
    /\ session[n][s].step = step
    /\ session[n][s].leg = "rsp"
    /\ session[n][s].relays = <<>>

\* no response will come
Void(n, s) == Continue(n, s, [session[n][s] EXCEPT !.leg = "void"])

\* RequestDestruction, or clean() removing the object
Destroy(n, s) == Continue(n, s, Idle)

-----------------------------------------------------------------------------
\* A ring that has settled: in every successor list each entry is followed by
\* the next member, round and round.
Position(n) == CHOOSE i \in DOMAIN SettledRing : SettledRing[i] = n

IdealList(n) == [k \in 1..SuccListSize |-> ObservedId[After(Position(n), k)]]

IdealPredecessor(n) ==
    ObservedId[After(Position(n), Len(SettledRing) - 1)]

Init ==
    /\ running = Settled
    /\ self = [n \in Node |-> IF n \in Settled THEN ObservedId[n] ELSE GivenId[n]]
    /\ predecessor = [n \in Node |->
                        IF n \in Settled THEN IdealPredecessor(n) ELSE NoPeer]
    /\ successor_list = [n \in Node |->
                           IF n \in Settled THEN IdealList(n) ELSE <<GivenId[n]>>]
    /\ stabilize_flag = [n \in Node |-> FALSE]
    /\ check_predecessor_flag = [n \in Node |-> FALSE]
    /\ session = [n \in Node |-> [s \in Slot |-> Idle]]
    /\ late = {}
    /\ crashes = 0
    /\ losses = 0

-----------------------------------------------------------------------------
(* Starting a process.  MessageHandler's constructor and init() set self   *)
(* and make the node its own successor; a node that is not running keeps   *)
(* that state.                                                             *)

create_ring(n) ==
    /\ n \in Creators \ running
    /\ running' = running \cup {n}
    /\ UNCHANGED <<table, flags, session, late, faults>>

\* Join::create_request starts a Query to the address the user gave, that of a
\* node which runs when n is started (it may end before it answers)
join(n, m) ==
    /\ <<n, m>> \in JoinVia
    /\ n \notin running
    /\ m \in running
    /\ running' = running \cup {n}
    /\ Continue(n, JoinSlot, Query_create_request(ObservedId[m]))
    /\ UNCHANGED <<table, flags, late, faults>>

-----------------------------------------------------------------------------
(* run_chord_internal.                                                     *)

\* MessageHandler::stabilize and Stabilize::create_request
stabilize(n) ==
    /\ n \in running
    /\ ~stabilize_flag[n]
    /\ \E s \in StabilizeSlot :
         /\ session[n][s] = Idle
         /\ Cardinality({t \in StabilizeSlot : session[n][t] # Idle})
              < MaxStabilize[n]
         /\ \A t \in StabilizeSlot : t < s => session[n][t] # Idle
         /\ Continue(n, s, GetPredAndSuccList_create_request(Head(successor_list[n])))
    /\ stabilize_flag' = [stabilize_flag EXCEPT ![n] = TRUE]
    /\ UNCHANGED <<running, table, check_predecessor_flag, late, faults>>

\* MessageHandler::check_predecessor and CheckPredecessor::create_request;
\* without a predecessor the object is destroyed again at once
check_predecessor(n) ==
    /\ n \in running \cap Checkers
    /\ ~check_predecessor_flag[n]
    /\ predecessor[n] # NoPeer
    /\ Continue(n, CheckSlot, CheckPredecessor_create_request(predecessor[n]))
    /\ check_predecessor_flag' = [check_predecessor_flag EXCEPT ![n] = TRUE]
    /\ UNCHANGED <<running, table, stabilize_flag, late, faults>>

-----------------------------------------------------------------------------
(* The request handlers, run by the dispatcher of the node m that the      *)
(* request of session s of node n has reached.                             *)

\* Query::handle_request tells the client which address it comes from
Query_handle_request(n, s, m) ==
    /\ Arrived(n, s, "query", m)
    /\ Respond(n, s, <<ObservedId[n]>>)
    /\ UNCHANGED <<running, table, flags, late, faults>>

\* FindSuccessor::handle_request with an answer
FindSuccessor_handle_request(n, s, m) ==
    LET successor == find_successor(self[m], successor_list[m],
                                    Head(session[n][s].peers))
    IN  /\ Arrived(n, s, "find_successor", m)
        /\ successor # NoPeer
        /\ Respond(n, s, <<successor>>)
        /\ UNCHANGED <<running, table, flags, late, faults>>

\* FindSuccessor::forward_request
forward_request(n, s, m) ==
    LET id == Head(session[n][s].peers) IN
    /\ Arrived(n, s, "find_successor", m)
    /\ find_successor(self[m], successor_list[m], id) = NoPeer
    /\ Continue(n, s, [session[n][s] EXCEPT
         !.to = closest_preceding_node(self[m], successor_list[m], id),
         !.relays = Append(@, m)])
    /\ UNCHANGED <<running, table, flags, late, faults>>

\* FindSuccessor::handle_forwarded_response at the last of the relays
handle_forwarded_response(n, s) ==
    /\ session[n][s].leg = "rsp"
    /\ session[n][s].relays # <<>>
    /\ Continue(n, s, [session[n][s] EXCEPT !.relays = Front(@)])
    /\ UNCHANGED <<running, table, flags, late, faults>>

\* GetSuccessorList::handle_request
GetSuccessorList_handle_request(n, s, m) ==
    /\ Arrived(n, s, "get_successor_list", m)
    /\ Respond(n, s, successor_list[m])
    /\ UNCHANGED <<running, table, flags, late, faults>>

\* mutant: the predecessor is sent without asking whether there is one
GetPredAndSuccList_handle_request_null(n, s, m) ==
    /\ Arrived(n, s, "get_pred_and_succ_list", m)
    /\ Respond(n, s, <<predecessor[m]>> \o successor_list[m])
    /\ UNCHANGED <<running, table, flags, late, faults>>

\* GetPredAndSuccList::handle_request: no peers at all without a predecessor
GetPredAndSuccList_handle_request(n, s, m) ==
    /\ Arrived(n, s, "get_pred_and_succ_list", m)
    /\ Respond(n, s, IF predecessor[m] = NoPeer
                     THEN <<>>
                     ELSE <<predecessor[m]>> \o successor_list[m])
    /\ UNCHANGED <<running, table, flags, late, faults>>

\* GetSelfAndSuccList::handle_request
GetSelfAndSuccList_handle_request(n, s, m) ==
    /\ Arrived(n, s, "get_self_and_succ_list", m)
    /\ Respond(n, s, <<self[m]>> \o successor_list[m])
    /\ UNCHANGED <<running, table, flags, late, faults>>

\* CheckPredecessor::handle_request
CheckPredecessor_handle_request(n, s, m) ==
    /\ Arrived(n, s, "check_predecessor", m)
    /\ Respond(n, s, <<>>)
    /\ UNCHANGED <<running, table, flags, late, faults>>

\* mutants of Rectified: any notifier is taken, or only the first one
Rectified_always(m, notify_peer) == [predecessor EXCEPT ![m] = notify_peer]

Rectified_once(m, notify_peer) ==
    IF predecessor[m] = NoPeer
    THEN [predecessor EXCEPT ![m] = notify_peer]
    ELSE predecessor

\* the predecessor of m once it has been notified by a peer
Rectified(m, notify_peer) ==
    IF predecessor[m] = NoPeer \/ between(predecessor[m], notify_peer, self[m])
    THEN [predecessor EXCEPT ![m] = notify_peer]
    ELSE predecessor

\* Notification::handle_request: a node that had no predecessor takes the
\* notifier and returns without a response
Notification_handle_request(n, s, m) ==
    /\ Arrived(n, s, "notify", m)
    /\ predecessor' = Rectified(m, Head(session[n][s].peers))
    /\ Continue(n, s, [session[n][s] EXCEPT
         !.leg = IF predecessor[m] = NoPeer THEN "void" ELSE "rsp",
         !.peers = <<>>])
    /\ UNCHANGED <<running, self, successor_list, flags, late, faults>>

-----------------------------------------------------------------------------
(* The response handlers, run by the dispatcher of node n itself.          *)

\* Query::handle_response and Join::handle_query_notify: look up the place of
\* the observed identifier at the same address
handle_query_notify(n, s) ==
    LET id == Head(session[n][s].peers) IN
    /\ Answered(n, s, "query")
    /\ self' = [self EXCEPT ![n] = id]
    /\ Continue(n, s, FindSuccessor_create_request(session[n][s].to, id))
    /\ UNCHANGED <<running, predecessor, successor_list, flags, late, faults>>

\* FindSuccessor::handle_response and Join::handle_find_successor_notify
handle_find_successor_notify(n, s) ==
    LET successor == Head(session[n][s].peers) IN
    /\ Answered(n, s, "find_successor")
    /\ successor_list' = [successor_list EXCEPT ![n] = set_successor(@, successor)]
    /\ Continue(n, s, GetSuccessorList_create_request(successor))
    /\ UNCHANGED <<running, self, predecessor, flags, late, faults>>

\* GetSuccessorList::handle_response and Join::handle_get_successor_list_notify
handle_get_successor_list_notify(n, s) ==
    /\ Answered(n, s, "get_successor_list")
    /\ successor_list' = [successor_list EXCEPT
         ![n] = replace_after_successor(@, session[n][s].peers)]
    /\ Destroy(n, s)
    /\ UNCHANGED <<running, self, predecessor, flags, late, faults>>

\* Stabilize::create_notification, sent to the successor n has by now
create_notification(n, s) ==
    Continue(n, s, Notification_create_request(Head(successor_list'[n]), self[n]))

\* mutant: the flag stays up after an empty answer
handle_empty_pred_and_succ_list_notify_flagged(n, s) ==
    /\ Answered(n, s, "get_pred_and_succ_list")
    /\ session[n][s].peers = <<>>
    /\ successor_list' = [successor_list EXCEPT ![n] = pop_front(@)]
    /\ create_notification(n, s)
    /\ UNCHANGED <<running, self, predecessor, flags, late, faults>>

\* Stabilize::handle_get_pred_and_succ_list_notify of an empty answer: the
\* successor is dropped
handle_empty_pred_and_succ_list_notify(n, s) ==
    /\ Answered(n, s, "get_pred_and_succ_list")
    /\ session[n][s].peers = <<>>
    /\ successor_list' = [successor_list EXCEPT ![n] = pop_front(@)]
    /\ stabilize_flag' = [stabilize_flag EXCEPT ![n] = FALSE]
    /\ create_notification(n, s)
    /\ UNCHANGED <<running, self, predecessor, check_predecessor_flag, late, faults>>

\* ... of a predecessor and a successor list: the list replaces n's own, and
\* a predecessor between n and its successor is asked for its list next
handle_get_pred_and_succ_list_notify(n, s) ==
    LET peers == session[n][s].peers
        successors_predecessor == Head(peers)
        rest == IF Len(peers) > 1 THEN Tail(peers) ELSE peers
        successor == Head(successor_list[n])
    IN  /\ Answered(n, s, "get_pred_and_succ_list")
        /\ peers # <<>>
        /\ successor_list' = [successor_list EXCEPT
             ![n] = replace_successor_list(<<successor>> \o rest)]
        /\ \/ /\ between(self[n], successors_predecessor, successor)
              /\ Continue(n, s,
                   GetSelfAndSuccList_create_request(successors_predecessor))
              /\ UNCHANGED stabilize_flag
           \/ /\ ~between(self[n], successors_predecessor, successor)
              /\ create_notification(n, s)
              /\ stabilize_flag' = [stabilize_flag EXCEPT ![n] = FALSE]
        /\ UNCHANGED <<running, self, predecessor, check_predecessor_flag, late, faults>>

\* Stabilize::handle_get_self_and_succ_list_notify
handle_get_self_and_succ_list_notify(n, s) ==
    /\ Answered(n, s, "get_self_and_succ_list")
    /\ successor_list' = [successor_list EXCEPT
         ![n] = replace_successor_list(session[n][s].peers)]
    /\ stabilize_flag' = [stabilize_flag EXCEPT ![n] = FALSE]
    /\ create_notification(n, s)
    /\ UNCHANGED <<running, self, predecessor, check_predecessor_flag, late, faults>>

\* Stabilize::handle_notification_notify
handle_notification_notify(n, s) ==
    /\ Answered(n, s, "notify")
    /\ Destroy(n, s)
    /\ UNCHANGED <<running, table, flags, late, faults>>

\* CheckPredecessor::handle_response
CheckPredecessor_handle_response(n, s) ==
    /\ Answered(n, s, "check_predecessor")
    /\ check_predecessor_flag' = [check_predecessor_flag EXCEPT ![n] = FALSE]
    /\ Destroy(n, s)
    /\ UNCHANGED <<running, table, stabilize_flag, late, faults>>

-----------------------------------------------------------------------------
(* Timeouts: clean() finds the deadline of an object passed, runs its      *)
(* handle_failed and removes it.  An object that will still get its        *)
(* response gets it in time; losses[] pays for those that do not.          *)

Expired(n, s, steps) ==
    /\ n \in running
    /\ session[n][s].step \in steps
    /\ session[n][s].leg = "void"

\* mutant: only the first request of a Join is watched
Join_handle_failed_query(n, s) ==
    /\ Expired(n, s, {"query"})
    /\ Destroy(n, s)
    /\ UNCHANGED <<running, table, flags, late, faults>>

\* Join::handle_failed: nothing is tried again
Join_handle_failed(n, s) ==
    /\ Expired(n, s, JoinStep)
    /\ Destroy(n, s)
    /\ UNCHANGED <<running, table, flags, late, faults>>

\* mutant: the flag is only lowered when the successor is dropped
Stabilize_handle_failed_flagged(n, s) ==
    /\ Expired(n, s, StabilizeStep)
    /\ IF session[n][s].step = "get_pred_and_succ_list"
       THEN /\ successor_list' = [successor_list EXCEPT ![n] = pop_front(@)]
            /\ stabilize_flag' = [stabilize_flag EXCEPT ![n] = FALSE]
       ELSE UNCHANGED <<successor_list, stabilize_flag>>
    /\ Destroy(n, s)
    /\ UNCHANGED <<running, self, predecessor, check_predecessor_flag, late, faults>>

\* Stabilize::handle_failed: with one dependency, the request to the
\* successor, that successor is dropped; the flag is cleared whichever
\* Stabilize has raised it
Stabilize_handle_failed(n, s) ==
    /\ Expired(n, s, StabilizeStep)
    /\ successor_list' =
         IF session[n][s].step = "get_pred_and_succ_list"
         THEN [successor_list EXCEPT ![n] = pop_front(@)]
         ELSE successor_list
    /\ stabilize_flag' = [stabilize_flag EXCEPT ![n] = FALSE]
    /\ Destroy(n, s)
    /\ UNCHANGED <<running, self, predecessor, check_predecessor_flag, late, faults>>

\* CheckPredecessor::handle_failed: the predecessor n has by now is dropped
CheckPredecessor_handle_failed(n, s) ==
    /\ Expired(n, s, CheckStep)
    /\ predecessor' = [predecessor EXCEPT ![n] = NoPeer]
    /\ check_predecessor_flag' = [check_predecessor_flag EXCEPT ![n] = FALSE]
    /\ Destroy(n, s)
    /\ UNCHANGED <<running, self, successor_list, stabilize_flag, late, faults>>

-----------------------------------------------------------------------------
(* What the network and the operating system do.                           *)

\* n cannot connect: BoostSession::write_to only prints the error
connection_refused(n, s) ==
    /\ session[n][s].leg = "req"
    /\ IsAddress(session[n][s].to)
    /\ HostOf(session[n][s].to) \notin running
    /\ Void(n, s)
    /\ UNCHANGED <<running, table, flags, late, faults>>

\* a request, or a response on its way, does not make it in ten seconds
lose(n, s) ==
    /\ losses < MaxLoss
    /\ session[n][s].leg \in {"req", "rsp"}
    /\ IsAddress(session[n][s].to)
    /\ Void(n, s)
    /\ losses' = losses + 1
    /\ UNCHANGED <<running, table, flags, late, crashes>>

\* the notifications of n that are travelling
Travelling(n, s) ==
    /\ session[n][s].step = "notify"
    /\ session[n][s].leg = "req"
    /\ IsAddress(session[n][s].to)

AsLate(n, s) == [from |-> Head(session[n][s].peers),
                 to |-> HostOf(session[n][s].to)]

\* a notification arrives after its sender has given it up; the other
\* requests change nothing where they arrive
delay(n, s) ==
    /\ losses < MaxLoss
    /\ Travelling(n, s)
    /\ Void(n, s)
    /\ late' = late \cup {AsLate(n, s)}
    /\ losses' = losses + 1
    /\ UNCHANGED <<running, table, flags, crashes>>

late_notification(m) ==
    \E l \in late :
      /\ l.to = m
      /\ m \in running
      /\ predecessor' = Rectified(m, l.from)
      /\ late' = late \ {l}
      /\ UNCHANGED <<running, self, successor_list, flags, session, faults>>

\* the process of m ends: its memory and its sessions are gone, requests it
\* relays get no response, notifications it has sent may still arrive
Stop(m) ==
    /\ m \in running
    /\ running' = running \ {m}
    /\ self' = [self EXCEPT ![m] = GivenId[m]]
    /\ predecessor' = [predecessor EXCEPT ![m] = NoPeer]
    /\ successor_list' = [successor_list EXCEPT ![m] = <<GivenId[m]>>]
    /\ stabilize_flag' = [stabilize_flag EXCEPT ![m] = FALSE]
    /\ check_predecessor_flag' = [check_predecessor_flag EXCEPT ![m] = FALSE]
    /\ session' = [n \in Node |-> [s \in Slot |->
                     IF n = m THEN Idle
                     ELSE IF m \in Range(session[n][s].relays)
                          THEN [session[n][s] EXCEPT !.leg = "void"]
                          ELSE session[n][s]]]
    /\ late' = late \cup {AsLate(m, s) : s \in {t \in Slot : Travelling(m, t)}}

crash(m) ==
    /\ m \in Killable
    /\ crashes < MaxCrash
    /\ Stop(m)
    /\ crashes' = crashes + 1
    /\ UNCHANGED losses

\* resolve("", "") throws on the thread that sends a request to a blank peer,
\* and the process terminates
send_to_blank(n, s) ==
    LET relays == session[n][s].relays
        sender == IF relays = <<>> THEN n ELSE Last(relays)
    IN  /\ session[n][s].leg = "req"
        /\ session[n][s].to = BlankId
        /\ Stop(sender)
        /\ UNCHANGED faults

-----------------------------------------------------------------------------
Request_handlers(n, s, m) ==
    \/ Query_handle_request(n, s, m)
    \/ FindSuccessor_handle_request(n, s, m)
    \/ forward_request(n, s, m)
    \/ GetSuccessorList_handle_request(n, s, m)
    \/ GetPredAndSuccList_handle_request(n, s, m)
    \/ GetSelfAndSuccList_handle_request(n, s, m)
    \/ CheckPredecessor_handle_request(n, s, m)
    \/ Notification_handle_request(n, s, m)

Response_handlers(n, s) ==
    \/ handle_forwarded_response(n, s)
    \/ handle_query_notify(n, s)
    \/ handle_find_successor_notify(n, s)
    \/ handle_get_successor_list_notify(n, s)
    \/ handle_empty_pred_and_succ_list_notify(n, s)
    \/ handle_get_pred_and_succ_list_notify(n, s)
    \/ handle_get_self_and_succ_list_notify(n, s)
    \/ handle_notification_notify(n, s)
    \/ CheckPredecessor_handle_response(n, s)

Timeouts(n, s) ==
    \/ Join_handle_failed(n, s)
    \/ Stabilize_handle_failed(n, s)
    \/ CheckPredecessor_handle_failed(n, s)

Launch(n) == create_ring(n) \/ \E m \in Node : join(n, m)

\* what happens to session s of node n unless the network interferes
Progress(n, s) ==
    \/ \E m \in Node : Request_handlers(n, s, m)
    \/ Response_handlers(n, s)
    \/ Timeouts(n, s)
    \/ connection_refused(n, s)
    \/ send_to_blank(n, s)

Fault(n) ==
    \/ crash(n)
    \/ late_notification(n)
    \/ \E s \in Slot : lose(n, s) \/ delay(n, s)

Next ==
    \E n \in Node :
      \/ Launch(n)
      \/ stabilize(n)
      \/ check_predecessor(n)
      \/ \E s \in Slot : Progress(n, s)
      \/ Fault(n)

\* The chord thread loops for as long as the process runs, the dispatcher
\* handles whatever arrives, and clean() removes what has expired.  Users
\* launch what they intend to.  Nothing makes faults happen.
Fairness ==
    \A n \in Node :
      /\ WF_vars(Launch(n))
      /\ WF_vars(stabilize(n))
      /\ WF_vars(check_predecessor(n))
      /\ \A s \in Slot : WF_vars(Progress(n, s))

Spec == Init /\ [][Next]_vars /\ Fairness

-----------------------------------------------------------------------------
Session ==
    [step : {"idle"} \cup JoinStep \cup StabilizeStep \cup CheckStep,
     leg : {"none", "req", "rsp", "void"},
     to : Peer,
     relays : Seq(Node),
     peers : Seq(Peer)]

TypeOK ==
    /\ running \subseteq Node
    /\ self \in [Node -> Id]
    /\ predecessor \in [Node -> Id \cup {NoPeer}]
    /\ successor_list \in [Node -> Seq(Peer) \ {<<>>}]
    /\ stabilize_flag \in [Node -> BOOLEAN]
    /\ check_predecessor_flag \in [Node -> BOOLEAN]
    /\ session \in [Node -> [Slot -> Session]]
    /\ late \subseteq [from : Id, to : Node]
    /\ crashes \in Nat
    /\ losses \in Nat

\* A raised flag keeps the chord thread from starting another Stabilize or
\* CheckPredecessor, so an object that will lower it must exist: otherwise
\* the node never stabilises again.
FlagHasOwner ==
    \A n \in Node :
      /\ stabilize_flag[n] =>
           \E s \in StabilizeSlot : session[n][s].step \in
             {"get_pred_and_succ_list", "get_self_and_succ_list"}
      /\ check_predecessor_flag[n] =>
           session[n][CheckSlot].step = "check_predecessor"

\* The ring is as it should be: all nodes that run are in one circle, and
\* their successor lists are full.
Ideal ==
    LET R == {self[n] : n \in running} IN
    \A n \in running :
      /\ Len(successor_list[n]) = SuccListSize
      /\ IsNext(Head(successor_list[n]), self[n], R)
      /\ \A i \in 1..(SuccListSize - 1) :
           IsNext(successor_list[n][i + 1], successor_list[n][i], R)
      /\ predecessor[n] \in R /\ IsNext(self[n], predecessor[n], R)

\* A node that joins while no other does never opens a gap in a ring of nodes
\* that stay: no successor, no predecessor and no answer to a lookup leaves out
\* one of them.
RingIntact ==
    /\ \A n, m \in Settled :
         /\ ~between(self[n], self[m], Head(successor_list[n]))
         /\ predecessor[n] # NoPeer =>
              ~between(predecessor[n], self[m], self[n])
    /\ \A n \in Node, s \in Slot, m \in Settled :
         Answered(n, s, "find_successor") =>
           ~between(self[n], self[m], Head(session[n][s].peers))

\* No process ever ends because it sends to a blank peer.
NoBlankTarget ==
    \A n \in Node, s \in Slot :
      session[n][s].leg = "req" => session[n][s].to # BlankId

\* From wherever joins, crashes and old messages have left them, the nodes that
\* run end up in one circle, with predecessors and full lists.
Converges == <>[]Ideal

CircleClosed ==
    \A n \in running :
      IsNext(Head(successor_list[n]), self[n], {self[m] : m \in running})

\* Once the successors have made one circle of all nodes, and as long as no
\* process ends, whatever is under way by then may open it again, but not for
\* good: a CheckPredecessor of a former predecessor that drops the present one
\* (whose next Stabilize then drops its successor), a notification that arrives
\* after its sender gave it up, a Stabilize that expires.
Heals == [](running = Node /\ CircleClosed => <>[]Ideal \/ <>(running # Node))

\* Every Stabilize lowers the flag it has raised.
FlagLowered == \A n \in Node : stabilize_flag[n] ~> ~stabilize_flag[n]

\* A Join ends, with success or without, even when a relay of its lookup or
\* the successor it has found dies.
JoinEnds ==
    \A n \in {launch[1] : launch \in JoinVia} :
      session[n][JoinSlot] # Idle ~> session[n][JoinSlot] = Idle
=============================================================================
