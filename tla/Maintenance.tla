---------------------------- MODULE Maintenance -----------------------------
(***************************************************************************)
(* How the threads of one node share its routing table and the objects     *)
(* that maintain it, one operation of the table at a time.  In Chord a     *)
(* handler is one step; here the table is unlocked between two operations  *)
(* and the other thread may come in between.                               *)
(*                                                                         *)
(*   the chord thread    raises stabilize_flag_ and creates a Stabilize,   *)
(*                       creates a CheckPredecessor, and runs clean(),     *)
(*                       which fails what has expired                      *)
(*   the dispatcher      runs the notifications of other nodes, and the    *)
(*                       responses that a CheckPredecessor or a dependency *)
(*                       of a Stabilize waits for                          *)
(*                                                                         *)
(* Unlike a Join, a Stabilize that is notified takes no lock: it changes   *)
(* its dependencies_ while check_state may iterate over them.              *)
(*                                                                         *)
(* The node is a member of a ring, and what others answer is arbitrary.    *)
(* Queues and sessions are left out (see Messaging and Sessions), as is    *)
(* every request that only reads the table.                                *)
(***************************************************************************)
EXTENDS Routing, SequencesExt

CONSTANTS
    self,               \* the identifier of the node
    Stabilize,          \* bound: the Stabilize objects it creates
    CheckPredecessor,   \* bound: the CheckPredecessor objects it creates
    FirstPredecessors,  \* its predecessor to begin with, or none
    Others,             \* the peers that notify it
    MaxRequests,        \* bound: how many notifications arrive
    PredAndSuccLists,   \* bound: the answers to GetPredAndSuccList
    SelfAndSuccLists    \* bound: the answers to GetSelfAndSuccList

ASSUME SelfAssumption == self \in Id
ASSUME ObjectsAssumption == Stabilize \cap CheckPredecessor = {}
ASSUME AnswersAssumption ==
    /\ FirstPredecessors \subseteq Peer \cup {NoPeer} /\ Others \subseteq Id
    /\ PredAndSuccLists \subseteq Seq(Peer)
    /\ SelfAndSuccLists \subseteq Seq(Peer) \ {<<>>}
ASSUME BoundAssumption == MaxRequests \in Nat

Object == Stabilize \cup CheckPredecessor

Dependency == {"get_pred_and_succ_list", "get_self_and_succ_list", "notify"}

None == "none"

VARIABLES
    predecessor, successor_list,
    stabilize_flag, check_predecessor_flag,
    active_messages,    \* the deque of objects
    state,              \* of each object, "none" before it is created
    dependencies,       \* of each Stabilize, front first
    dependency,         \* what has become of each of them
    waiting,            \* the requests that are not answered
    requests,           \* how much of MaxRequests is used
    chord,              \* the chord thread
    dispatcher,         \* the dispatcher
    terminated          \* an exception has ended the process

table == <<predecessor, successor_list>>
flags == <<stabilize_flag, check_predecessor_flag>>
objects == <<active_messages, state, dependencies, dependency>>
network == <<waiting, requests>>
vars == <<table, flags, objects, network, chord, dispatcher, terminated>>

(* The chord thread: where it is, the position in active_messages_ that    *)
(* clean() is at, the operations left of handle_failed, the dependencies   *)
(* left to iterate over, and whether dependencies_ has been reallocated    *)
(* since the iteration began.                                              *)
Chord_idle == [at |-> "stabilize", it |-> 1, todo |-> <<>>, rest |-> <<>>, moved |-> FALSE]

(* The dispatcher: where it is, the peer that notifies, the successor it   *)
(* has read, the object and dependency of a response, the peers in it, and *)
(* the operations left of HandleNotification.                              *)
Dispatcher_idle == [at |-> "idle", peer |-> BlankId, read |-> BlankId,
                    object |-> None, dependency |-> None, peers |-> <<>>, todo |-> <<>>]

Unanswered == [d \in Dependency |-> "VALID"]

Init ==
    /\ predecessor \in FirstPredecessors
    /\ successor_list \in SelfAndSuccLists
    /\ stabilize_flag = FALSE
    /\ check_predecessor_flag = FALSE
    /\ active_messages = <<>>
    /\ state = [o \in Object |-> "none"]
    /\ dependencies = [s \in Stabilize |-> <<>>]
    /\ dependency = [s \in Stabilize |-> Unanswered]
    /\ waiting = {}
    /\ requests = 0
    /\ chord = Chord_idle
    /\ dispatcher = Dispatcher_idle
    /\ terminated = FALSE

Alive(o) == o \in Range(active_messages)

-----------------------------------------------------------------------------
(* The chord thread creates objects.                                       *)

Chord_at(at) == ~terminated /\ chord.at = at

Chord_goes(at) == chord' = [Chord_idle EXCEPT !.at = at]

\* objects that are left to be created
Fresh(set) == {o \in set : state[o] = "none"}

\* create_request and push_back of the object o
Created(o, as) ==
    /\ state' = [state EXCEPT ![o] = as]
    /\ active_messages' = Append(active_messages, o)

\* stabilize() raises the flag, and Stabilize::create_request asks the successor:
\* there always is one.  Nothing that the dispatcher may do in between matters.
stabilize ==
    /\ Chord_at("stabilize")
    /\ ~stabilize_flag
    /\ Fresh(Stabilize) # {}
    /\ LET s == CHOOSE o \in Fresh(Stabilize) : TRUE IN
         /\ Created(s, "VALID")
         /\ dependencies' = [dependencies EXCEPT ![s] = <<"get_pred_and_succ_list">>]
         /\ waiting' = waiting \cup {<<s, "get_pred_and_succ_list">>}
    /\ stabilize_flag' = TRUE
    /\ Chord_goes("check")
    /\ UNCHANGED <<table, check_predecessor_flag, dependency, requests, dispatcher,
                   terminated>>

no_stabilize ==
    /\ Chord_at("stabilize")
    /\ stabilize_flag \/ Fresh(Stabilize) = {}
    /\ Chord_goes("check")
    /\ UNCHANGED <<table, flags, objects, network, dispatcher, terminated>>

CheckPredecessor_create_request(c) ==
    /\ Chord_at("check")
    /\ ~check_predecessor_flag
    /\ c \in Fresh(CheckPredecessor)
    /\ \/ /\ predecessor # NoPeer
          /\ Created(c, "VALID")
          /\ waiting' = waiting \cup {<<c, None>>}
          /\ check_predecessor_flag' = TRUE
       \/ /\ predecessor = NoPeer
          /\ Created(c, "FAILED")
          /\ UNCHANGED <<waiting, check_predecessor_flag>>
    /\ Chord_goes("clean")
    /\ UNCHANGED <<table, stabilize_flag, dependencies, dependency, requests, dispatcher,
                   terminated>>

no_check_predecessor ==
    /\ Chord_at("check")
    /\ check_predecessor_flag \/ Fresh(CheckPredecessor) = {}
    /\ Chord_goes("clean")
    /\ UNCHANGED <<table, flags, objects, network, dispatcher, terminated>>

-----------------------------------------------------------------------------
(* clean() holds the lock of active_messages_ from its first step, with    *)
(* which the chord thread comes to "clean", to clean_end.  Any deadline    *)
(* may have passed when it is looked at.                                   *)

\* check_state() of the object o begins
Cleaning(o) ==
    /\ Chord_at("clean")
    /\ chord.it <= Len(active_messages)
    /\ o = active_messages[chord.it]

clean_end ==
    /\ Chord_at("clean")
    /\ chord.it > Len(active_messages)
    /\ Chord_goes("stabilize")
    /\ UNCHANGED <<table, flags, objects, network, dispatcher, terminated>>

\* mutants of is_done: what has been answered, or has failed, still is checked
is_done_failed(o) == state[o] = "FAILED"
is_done_answered(o) == state[o] = "DONE"

is_done(o) == state[o] \in {"DONE", "FAILED"}

\* an object that is done is removed: the last one takes its place.  Who answers it
\* or its dependencies now finds an expired weak_ptr.
clean_done(o) ==
    /\ Cleaning(o)
    /\ is_done(o)
    /\ active_messages' = Front([active_messages EXCEPT ![chord.it] = Last(active_messages)])
    /\ waiting' = {request \in waiting : request[1] # o}
    /\ UNCHANGED <<table, flags, state, dependencies, dependency, requests, chord,
                   dispatcher, terminated>>

\* a CheckPredecessor is waited for
clean_waiting(c) ==
    /\ Cleaning(c)
    /\ c \in CheckPredecessor
    /\ ~is_done(c)
    /\ chord' = [chord EXCEPT !.it = @ + 1]
    /\ UNCHANGED <<table, flags, objects, network, dispatcher, terminated>>

\* mutant of handle_failed: the flag stays up when the successor is given up
handle_failed_flagged(o) ==
    IF o \in CheckPredecessor
    THEN <<"reset_predecessor", "lower_check_predecessor_flag">>
    ELSE IF Len(dependencies[o]) = 1
         THEN <<"pop_front">>
         ELSE <<"lower_stabilize_flag">>

\* what handle_failed does to table and flags.  Only a Stabilize that has no
\* answer at all gives up the successor.
handle_failed(o) ==
    IF o \in CheckPredecessor
    THEN <<"reset_predecessor", "lower_check_predecessor_flag">>
    ELSE IF Len(dependencies[o]) = 1
         THEN <<"pop_front", "lower_stabilize_flag">>
         ELSE <<"lower_stabilize_flag">>

\* an object has expired
check_state_expired(o) ==
    /\ Cleaning(o)
    /\ ~is_done(o)
    /\ state' = [state EXCEPT ![o] = "FAILED"]
    /\ chord' = [chord EXCEPT !.at = "failing", !.todo = handle_failed(o)]
    /\ UNCHANGED <<table, flags, active_messages, dependencies, dependency, network,
                   dispatcher, terminated>>

\* or it has not: std::any_of takes the bounds of dependencies_
check_dependencies(s) ==
    /\ Cleaning(s)
    /\ s \in Stabilize
    /\ ~is_done(s)
    /\ chord' = [chord EXCEPT !.at = "iterating", !.rest = dependencies[s],
                              !.moved = FALSE]
    /\ UNCHANGED <<table, flags, objects, network, dispatcher, terminated>>

\* the next dependency is in freed memory
any_of_next_freed ==
    /\ Chord_at("iterating")
    /\ chord.rest # <<>> /\ chord.moved
    /\ terminated' = TRUE
    /\ UNCHANGED <<table, flags, objects, network, chord, dispatcher>>

\* The next dependency d of s is copied, if it still is there, and locked.  The
\* dispatcher keeps the lock of a dependency while it handles its response.
Iterating(s, d) ==
    /\ Chord_at("iterating")
    /\ chord.rest # <<>> /\ d = Head(chord.rest)
    /\ s = active_messages[chord.it]
    /\ ~(dispatcher.at = "handling" /\ dispatcher.object = s /\ dispatcher.dependency = d)

\* its check_state() says that it is all right
check_dependency(s, d) ==
    /\ Iterating(s, d)
    /\ dependency[s][d] # "FAILED"
    /\ chord' = [chord EXCEPT !.rest = Tail(@)]
    /\ UNCHANGED <<table, flags, objects, network, dispatcher, terminated>>

\* or that it has failed, or expired
check_dependency_failed(s, d) ==
    /\ Iterating(s, d)
    /\ dependency[s][d] # "DONE"
    /\ dependency' = [dependency EXCEPT ![s][d] = "FAILED"]
    /\ chord' = [chord EXCEPT !.at = "failing", !.rest = <<>>, !.moved = FALSE,
                              !.todo = handle_failed(s)]
    /\ UNCHANGED <<table, flags, active_messages, state, dependencies, network,
                   dispatcher, terminated>>

\* none has
any_of_end ==
    /\ Chord_at("iterating")
    /\ chord.rest = <<>>
    /\ chord' = [chord EXCEPT !.at = "clean", !.it = @ + 1, !.moved = FALSE]
    /\ UNCHANGED <<table, flags, objects, network, dispatcher, terminated>>

-----------------------------------------------------------------------------
(* The operations on table and flags that are parts of a longer section.   *)

Operation(op) ==
    /\ predecessor' = IF op = "reset_predecessor" THEN NoPeer ELSE predecessor
    /\ successor_list' = IF op = "pop_front" THEN pop_front(successor_list)
                         ELSE successor_list
    /\ stabilize_flag' = (stabilize_flag /\ op # "lower_stabilize_flag")
    /\ check_predecessor_flag' =
         (check_predecessor_flag /\ op # "lower_check_predecessor_flag")

\* handle_failed goes on, and after its last operation the object is done
handle_failed_next(o) ==
    /\ Chord_at("failing")
    /\ o = active_messages[chord.it]
    /\ Operation(Head(chord.todo))
    /\ chord' = [chord EXCEPT !.at = IF Len(chord.todo) = 1 THEN "clean" ELSE "failing",
                              !.todo = Tail(@)]
    /\ state' = [state EXCEPT ![o] = IF Len(chord.todo) = 1 THEN "FAILED" ELSE @]
    /\ UNCHANGED <<active_messages, dependencies, dependency, network, dispatcher,
                   terminated>>

-----------------------------------------------------------------------------
(* The dispatcher runs a notification (Notification::handle_request).      *)

Dispatcher_at(at) == ~terminated /\ dispatcher.at = at

Table_only ==
    UNCHANGED <<successor_list, flags, objects, waiting, chord, terminated>>

\* a peer notifies the node, which has a predecessor or not
has_predecessor(peer) ==
    /\ Dispatcher_at("idle")
    /\ requests < MaxRequests
    /\ requests' = requests + 1
    /\ dispatcher' = [dispatcher EXCEPT
         !.at = IF predecessor = NoPeer THEN "set_predecessor" ELSE "try_get_predecessor",
         !.peer = peer]
    /\ UNCHANGED predecessor
    /\ Table_only

\* by now it may have none again: the comparison is then made with a blank one
Read_predecessor == IF predecessor = NoPeer THEN BlankId ELSE predecessor

\* mutant of try_get_predecessor: any other peer takes the predecessor's place
try_get_predecessor_any ==
    /\ Dispatcher_at("try_get_predecessor")
    /\ dispatcher' = [dispatcher EXCEPT
         !.at = IF Read_predecessor # dispatcher.peer THEN "set_predecessor" ELSE "push_back"]
    /\ UNCHANGED <<predecessor, requests>>
    /\ Table_only

try_get_predecessor ==
    /\ Dispatcher_at("try_get_predecessor")
    /\ dispatcher' = [dispatcher EXCEPT
         !.at = IF between(Read_predecessor, dispatcher.peer, self)
                THEN "set_predecessor" ELSE "push_back"]
    /\ UNCHANGED <<predecessor, requests>>
    /\ Table_only

set_predecessor ==
    /\ Dispatcher_at("set_predecessor")
    /\ predecessor' = dispatcher.peer
    /\ dispatcher' = [dispatcher EXCEPT !.at = "push_back"]
    /\ UNCHANGED requests
    /\ Table_only

\* the Notification goes into active_messages_ when clean() is over
push_back ==
    /\ Dispatcher_at("push_back")
    /\ chord.at \in {"stabilize", "check"}
    /\ dispatcher' = Dispatcher_idle
    /\ UNCHANGED <<predecessor, requests>>
    /\ Table_only

-----------------------------------------------------------------------------
(* The dispatcher handles a response.                                      *)

\* the answers to a request
Answers(d) ==
    CASE d = "get_pred_and_succ_list" -> PredAndSuccLists
      [] d = "get_self_and_succ_list" -> SelfAndSuccLists
      [] OTHER -> {<<>>}

\* MessageHandler::handle_response: the handler is erased, and its object is
\* locked or gone.  The dependencies of a Stabilize live and die with it.
get_and_erase(o, d, peers) ==
    /\ Dispatcher_at("idle")
    /\ <<o, d>> \in waiting
    /\ peers \in Answers(d)
    /\ waiting' = waiting \ {<<o, d>>}
    /\ dispatcher' = IF Alive(o)
                     THEN [dispatcher EXCEPT !.at = "locked", !.object = o,
                                             !.dependency = d, !.peers = peers]
                     ELSE dispatcher
    /\ UNCHANGED <<table, flags, objects, requests, chord, terminated>>

\* CheckPredecessor::handle_response, when check_state() has unlocked the object
CheckPredecessor_handle_response ==
    LET c == dispatcher.object IN
    /\ Dispatcher_at("locked")
    /\ c \in CheckPredecessor
    /\ ~(chord.at = "failing" /\ c = active_messages[chord.it])
    /\ check_predecessor_flag' = FALSE
    /\ state' = [state EXCEPT ![c] = "DONE"]
    /\ dispatcher' = Dispatcher_idle
    /\ UNCHANGED <<table, stabilize_flag, active_messages, dependencies, dependency,
                   network, chord, terminated>>

\* GetSelfAndSuccList::handle_failed has set the promise
promise_is_set ==
    /\ dispatcher.dependency = "get_self_and_succ_list"
    /\ dependency[dispatcher.object]["get_self_and_succ_list"] = "FAILED"

\* handle_response of a dependency: its promise is set a second time, which throws
\* std::future_error
handle_response_late ==
    /\ Dispatcher_at("locked")
    /\ dispatcher.object \in Stabilize
    /\ promise_is_set
    /\ terminated' = TRUE
    /\ UNCHANGED <<table, flags, objects, network, chord, dispatcher>>

\* or it is done, and stays locked while Notify() calls Stabilize::HandleNotification.
\* What is answered decides on the operations of that.
Handled(d, todo) ==
    LET s == dispatcher.object IN
    /\ Dispatcher_at("locked")
    /\ s \in Stabilize
    /\ dispatcher.dependency = d
    /\ Alive(s)
    /\ ~promise_is_set
    /\ dependency' = [dependency EXCEPT ![s][d] = "DONE"]
    /\ dispatcher' = IF todo = <<>> THEN Dispatcher_idle
                     ELSE [dispatcher EXCEPT !.at = "handling", !.todo = todo]
    /\ UNCHANGED <<table, flags, active_messages, dependencies, network, chord,
                   terminated>>

handle_empty_pred_and_succ_list_notify ==
    /\ dispatcher.peers = <<>>
    /\ Handled("get_pred_and_succ_list",
               <<"pop_front", "lower_stabilize_flag", "create_notification">>)
    /\ UNCHANGED state

handle_get_pred_and_succ_list_notify ==
    /\ dispatcher.peers # <<>>
    /\ Handled("get_pred_and_succ_list", <<"try_get_successor", "replace_successor_list">>)
    /\ UNCHANGED state

handle_get_self_and_succ_list_notify ==
    /\ Handled("get_self_and_succ_list",
               <<"replace_successor_list", "lower_stabilize_flag", "create_notification">>)
    /\ UNCHANGED state

handle_notification_notify ==
    /\ Handled("notify", <<>>)
    /\ state' = [state EXCEPT ![dispatcher.object] = "DONE"]

\* but Notify() finds nobody to call when the Stabilize is gone
Notify_dead ==
    /\ Dispatcher_at("locked")
    /\ dispatcher.object \in Stabilize
    /\ ~promise_is_set
    /\ ~Alive(dispatcher.object)
    /\ dispatcher' = Dispatcher_idle
    /\ UNCHANGED <<table, flags, objects, network, chord, terminated>>

-----------------------------------------------------------------------------
(* Stabilize::HandleNotification goes on.                                  *)

Next_operation(op) ==
    /\ Dispatcher_at("handling")
    /\ dispatcher.todo # <<>> /\ Head(dispatcher.todo) = op

\* with the last operation the handler returns
Done_operation ==
    IF Len(dispatcher.todo) = 1 THEN Dispatcher_idle
    ELSE [dispatcher EXCEPT !.todo = Tail(@)]

pop_or_lower ==
    /\ \E op \in {"pop_front", "lower_stabilize_flag"} :
         Next_operation(op) /\ Operation(op)
    /\ dispatcher' = Done_operation
    /\ UNCHANGED <<objects, network, chord, terminated>>

try_get_successor ==
    /\ Next_operation("try_get_successor")
    /\ dispatcher' = [dispatcher EXCEPT !.todo = Tail(@), !.read = Head(successor_list)]
    /\ UNCHANGED <<table, flags, objects, network, chord, terminated>>

\* the list of the successor behind the successor, or the answer as it is
New_list ==
    LET peers == dispatcher.peers IN
    IF dispatcher.dependency = "get_self_and_succ_list" THEN peers
    ELSE <<dispatcher.read>> \o (IF Len(peers) > 1 THEN Tail(peers) ELSE peers)

\* what follows: the successor's predecessor is asked if it is nearer
After_replace ==
    IF dispatcher.dependency = "get_self_and_succ_list" THEN Tail(dispatcher.todo)
    ELSE IF between(self, Head(dispatcher.peers), dispatcher.read)
         THEN <<"create_get_self_and_succ_list">>
         ELSE <<"create_notification", "lower_stabilize_flag">>

Stabilize_replace_successor_list ==
    /\ Next_operation("replace_successor_list")
    /\ successor_list' = replace_successor_list(New_list)
    /\ dispatcher' = [dispatcher EXCEPT !.todo = After_replace]
    /\ UNCHANGED <<predecessor, flags, objects, network, chord, terminated>>

\* a dependency is inserted at the front, and makes its request
Create(op, d) ==
    LET s == dispatcher.object IN
    /\ Next_operation(op)
    /\ dependencies' = [dependencies EXCEPT ![s] = <<d>> \o @]
    /\ waiting' = waiting \cup {<<s, d>>}
    /\ chord' = [chord EXCEPT
         !.moved = @ \/ (chord.at = "iterating" /\ s = active_messages[chord.it])]
    /\ dispatcher' = Done_operation
    /\ UNCHANGED <<table, flags, active_messages, state, dependency, requests,
                   terminated>>

create_notification == Create("create_notification", "notify")

create_get_self_and_succ_list ==
    Create("create_get_self_and_succ_list", "get_self_and_succ_list")

-----------------------------------------------------------------------------
clean ==
    \/ \E o \in Object :
         clean_done(o) \/ clean_waiting(o) \/ check_state_expired(o) \/ handle_failed_next(o)
    \/ \E s \in Stabilize :
         \/ check_dependencies(s)
         \/ \E d \in Dependency : check_dependency(s, d) \/ check_dependency_failed(s, d)
    \/ any_of_next_freed
    \/ any_of_end
    \/ clean_end

chord_thread ==
    \/ stabilize
    \/ no_stabilize
    \/ \E c \in CheckPredecessor : CheckPredecessor_create_request(c)
    \/ no_check_predecessor
    \/ clean

HandleNotification ==
    \/ handle_empty_pred_and_succ_list_notify
    \/ handle_get_pred_and_succ_list_notify
    \/ handle_get_self_and_succ_list_notify
    \/ handle_notification_notify
    \/ pop_or_lower
    \/ try_get_successor
    \/ Stabilize_replace_successor_list
    \/ create_notification
    \/ create_get_self_and_succ_list

dispatcher_thread ==
    \/ try_get_predecessor
    \/ set_predecessor
    \/ push_back
    \/ CheckPredecessor_handle_response
    \/ handle_response_late
    \/ Notify_dead
    \/ HandleNotification

\* what other nodes send
arrivals ==
    \/ \E peer \in Others : has_predecessor(peer)
    \/ \E request \in waiting : \E peers \in Answers(request[2]) :
         get_and_erase(request[1], request[2], peers)

Next ==
    \/ chord_thread
    \/ dispatcher_thread
    \/ arrivals

\* Both threads run, and the clock does not stop: an object that clean() looks at
\* again and again is found to be done or expired at last.  Nobody has to answer.
\* The chord thread sleeps a second between two clean()s: the dispatcher does not
\* wait forever for a lock that is released again and again.
Fairness ==
    /\ WF_vars(chord_thread)
    /\ SF_vars(dispatcher_thread)
    /\ SF_vars(\E o \in Object : check_state_expired(o))

Spec == Init /\ [][Next]_vars /\ Fairness

-----------------------------------------------------------------------------
\* the operations of handle_failed, and those of HandleNotification
FailureOperation ==
    {"reset_predecessor", "lower_check_predecessor_flag", "pop_front", "lower_stabilize_flag"}

NotificationOperation ==
    {"pop_front", "lower_stabilize_flag", "try_get_successor", "replace_successor_list",
     "create_notification", "create_get_self_and_succ_list"}

ChordState ==
    [at : {"stabilize", "check", "clean", "iterating", "failing"}, it : Nat,
     todo : Seq(FailureOperation), rest : Seq(Dependency), moved : BOOLEAN]

DispatcherState ==
    [at : {"idle", "try_get_predecessor", "set_predecessor", "push_back", "locked",
           "handling"},
     peer : Peer, read : Peer, object : Object \cup {None},
     dependency : Dependency \cup {None}, peers : Seq(Peer),
     todo : Seq(NotificationOperation)]

\* Among others, the successor list is never empty, which is why the handlers
\* need not say what they do without a successor.
TypeOK ==
    /\ predecessor \in Peer \cup {NoPeer}
    /\ successor_list \in Seq(Peer) \ {<<>>}
    /\ stabilize_flag \in BOOLEAN /\ check_predecessor_flag \in BOOLEAN
    /\ active_messages \in Seq(Object)
    /\ state \in [Object -> {"none", "VALID", "DONE", "FAILED"}]
    /\ dependencies \in [Stabilize -> Seq(Dependency)]
    /\ dependency \in [Stabilize -> [Dependency -> {"VALID", "DONE", "FAILED"}]]
    /\ waiting \subseteq Object \X (Dependency \cup {None})
    /\ requests \in 0..MaxRequests
    /\ chord \in ChordState
    /\ dispatcher \in DispatcherState
    /\ terminated \in BOOLEAN

\* the operations that are left to either thread
Pending(op) == op \in Range(chord.todo) \cup Range(dispatcher.todo)

\* A raised flag has somebody who will lower it, at every point of every section
\* of the other thread: otherwise the node would never stabilise, or check its
\* predecessor, again (MessageHandler::run_chord_internal).
FlagsHaveOwners ==
    /\ stabilize_flag =>
         \/ Pending("lower_stabilize_flag")
         \/ \E s \in Stabilize :
              state[s] = "VALID" /\ "notify" \notin Range(dependencies[s])
    /\ check_predecessor_flag =>
         \/ Pending("lower_check_predecessor_flag")
         \/ \E c \in CheckPredecessor : state[c] = "VALID"

\* However the chord thread comes between the three operations of a
\* notification, the predecessor is never exchanged for one that is farther away
\* (Notification::handle_request).
PredecessorRectified ==
    [][predecessor' \in {predecessor, NoPeer} \/ predecessor = NoPeer
         \/ between(predecessor, predecessor', self)]_vars

\* A check that has been answered in time does not reset the predecessor, even
\* if its deadline passes while the answer is handled (check_state).
AnswerCounts ==
    [][\A c \in CheckPredecessor : state[c] = "DONE" => state'[c] = "DONE"]_vars

\* Unless an exception ends the process, the dispatcher comes back for the next
\* message, although it waits for locks that the chord thread holds and the chord
\* thread for the lock of a dependency, and every object is released: the messages
\* of a node do not pile up (ConcurrentDeque::clean, MessagingBase::check_state).
NothingHangs ==
    []<>((dispatcher.at = "idle" /\ active_messages = <<>>) \/ terminated)

\* Flags that are raised are lowered, whatever is not answered, so that the node
\* stabilizes and checks its predecessor again (MessageHandler::run_chord_internal).
FlagsLowered ==
    []<>((~stabilize_flag /\ ~check_predecessor_flag) \/ terminated)
=============================================================================
