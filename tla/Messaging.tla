----------------------------- MODULE Messaging ------------------------------
(***************************************************************************)
(* The threads of one node at the level of their locks.  The node has      *)
(* created a Join, whose requests (a Query, a FindSuccessor and a          *)
(* GetSuccessorList) are objects of their own, one after the other in      *)
(* Join::dependencies_.                                                    *)
(*                                                                         *)
(*   the chord thread    runs clean(): it locks active_messages_, in it    *)
(*                       the Join, and in that the dependency              *)
(*   the send thread     empties the send queue                            *)
(*   the dispatcher      empties the receive queue: it runs a request, or  *)
(*                       finds the handler a response belongs to, which    *)
(*                       locks the dependency, and in that the Join        *)
(*                                                                         *)
(* Objects are shared_ptrs: an object lives as long as active_messages_,   *)
(* the dependencies_ of a live Join or a thread refers to it.  Handlers    *)
(* refer to their object weakly.  What a response does to the routing      *)
(* table is in the module Chord.  A step of a thread ends where it may     *)
(* have to wait for a lock; sections in which it cannot are one step.      *)
(* The paste thread, which only adds objects, is left out.                 *)
(***************************************************************************)
EXTENDS Naturals, Sequences

CONSTANT MaxRequests    \* bound: requests of other nodes that arrive

ASSUME MaxRequestsAssumption == MaxRequests \in Nat

Dependency == {"query", "find_successor", "get_successor_list"}

Object == {"join"} \cup Dependency

\* the mutex_ of each object, and the one of active_messages_
Mutex == Object \cup {"active_messages"}

Thread == {"chord", "dispatcher"}

VARIABLES
    state, is_done,     \* of each object
    promise,            \* of each dependency
    dependency,         \* dependencies_.front() of the Join
    expired,            \* the objects whose time_point_ has passed
    active_messages,    \* {"join"}, or empty when the Join is removed
    active_handlers,    \* the dependencies that have a handler in the set
    send_queue,         \* the requests in the send queue
    sent,               \* the requests that are sent and not answered
    receive_queue,      \* the messages in the receive queue
    requests,           \* how much of MaxRequests is used
    owner,              \* which thread holds a mutex
    chord,              \* where the chord thread is
    dispatcher,         \* where the dispatcher is, and
    message,            \*   the message it handles,
    references,         \*   the objects its shared_ptrs refer to
    terminated          \* an exception has ended the process

objects == <<state, is_done, promise, dependency, expired>>
containers == <<active_messages, active_handlers>>
network == <<send_queue, sent, requests>>
threads == <<owner, chord, dispatcher, message, references>>
vars == <<objects, containers, network, receive_queue, threads, terminated>>

Alive(o) ==
    LET join == "join" \in active_messages \cup references
    IN  IF o = "join" THEN join
        ELSE (join /\ dependency = o) \/ o \in references

Free(m) == owner[m] = "nobody"

\* main() creates the Join, and with it its Query, before it starts the threads
Init ==
    /\ state = [o \in Object |-> "VALID"]
    /\ is_done = [o \in Object |-> FALSE]
    /\ promise = [d \in Dependency |-> "unset"]
    /\ dependency = "query"
    /\ expired = {}
    /\ active_messages = {"join"}
    /\ active_handlers = {"query"}
    /\ send_queue = {"query"}
    /\ sent = {}
    /\ receive_queue = <<>>
    /\ requests = 0
    /\ owner = [m \in Mutex |-> "nobody"]
    /\ chord = "idle"
    /\ dispatcher = "idle"
    /\ message = "none"
    /\ references = {}
    /\ terminated = FALSE

-----------------------------------------------------------------------------
(* The chord thread.                                                       *)

Chord(from, to) ==
    /\ ~terminated
    /\ chord = from
    /\ chord' = to
    /\ UNCHANGED <<active_handlers, network, receive_queue, dispatcher, message,
                   references, terminated>>

\* clean() begins
clean ==
    /\ Chord("idle", "cleaning")
    /\ Free("active_messages")
    /\ owner' = [owner EXCEPT !["active_messages"] = "chord"]
    /\ UNCHANGED <<objects, active_messages>>

\* check_state() of the Join begins
check_state ==
    /\ "join" \in active_messages
    /\ Free("join")
    /\ Chord("cleaning", "checking")
    /\ owner' = [owner EXCEPT !["join"] = "chord"]
    /\ UNCHANGED <<objects, active_messages>>

\* mutant of already_done: is_done_ is not looked at
already_done_ignored == FALSE

\* check_state returns at once
already_done == is_done["join"]

\* the Join is done, or it has timed out (handle_failed leaves it FAILED)
check_join ==
    /\ already_done \/ "join" \in expired
    /\ Chord("checking", "checked")
    /\ IF already_done
       THEN UNCHANGED <<state, is_done>>
       ELSE /\ state' = [state EXCEPT !["join"] = "FAILED"]
            /\ is_done' = [is_done EXCEPT !["join"] = TRUE]
    /\ owner' = [owner EXCEPT !["join"] = "nobody"]
    /\ UNCHANGED <<promise, dependency, expired, active_messages>>

\* it is not, and its dependency is next
check_dependencies ==
    /\ ~already_done
    /\ "join" \notin expired
    /\ Chord("checking", "waiting")
    /\ UNCHANGED <<objects, active_messages, owner>>

\* check_state() of the dependency, and what it means for the Join.  The state
\* of a Query or FindSuccessor stays TIMEDOUT, GetSuccessorList::handle_failed
\* makes it FAILED: nobody tells them apart.
check_dependency ==
    LET d == dependency
        times_out == ~is_done[d] /\ d \in expired
        failed == times_out \/ (is_done[d] /\ state[d] # "DONE")
    IN  /\ Chord("waiting", "checked")
        /\ Free(d)
        /\ state' = [o \in Object |->
             IF (o = d /\ times_out) \/ (o = "join" /\ failed) THEN "FAILED"
             ELSE state[o]]
        /\ is_done' = [o \in Object |->
             is_done[o] \/ (o = d /\ times_out) \/ (o = "join" /\ failed)]
        /\ promise' = [promise EXCEPT ![d] = IF times_out THEN "empty" ELSE @]
        /\ owner' = [owner EXCEPT !["join"] = "nobody"]
        /\ UNCHANGED <<dependency, expired, active_messages>>

\* mutant of Kept: only a Join that has succeeded is removed
Kept_failed == state["join"] # "DONE"

\* clean() keeps the Join for the next time
Kept == ~is_done["join"]

\* clean() ends
clean_end ==
    /\ \/ Chord("checked", "idle")
       \/ active_messages = {} /\ Chord("cleaning", "idle")
    /\ active_messages' = IF Kept THEN active_messages ELSE {}
    /\ owner' = [owner EXCEPT !["active_messages"] = "nobody"]
    /\ UNCHANGED objects

-----------------------------------------------------------------------------
(* The send thread, the network and the clock.                             *)

\* run_send_internal: a session of its own for the request
send(d) ==
    /\ ~terminated
    /\ d \in send_queue
    /\ send_queue' = send_queue \ {d}
    /\ sent' = sent \cup {d}
    /\ UNCHANGED <<objects, containers, requests, receive_queue, threads, terminated>>

\* the session pushes the response; it may also never come
handle_read_message(d) ==
    /\ ~terminated
    /\ d \in sent
    /\ sent' = sent \ {d}
    /\ receive_queue' = Append(receive_queue, d)
    /\ UNCHANGED <<objects, containers, send_queue, requests, threads, terminated>>

\* a session that another node has opened pushes its request
request_arrives ==
    /\ ~terminated
    /\ requests < MaxRequests
    /\ requests' = requests + 1
    /\ receive_queue' = Append(receive_queue, "request")
    /\ UNCHANGED <<objects, containers, send_queue, sent, threads, terminated>>

\* A deadline passes.  The time_point_ of a dependency is set after that of
\* the Join it belongs to.
time_passes ==
    /\ ~terminated
    /\ expired' = expired \cup
         IF "join" \in expired THEN {dependency} ELSE {"join"}
    /\ UNCHANGED <<state, is_done, promise, dependency, containers, network,
                   receive_queue, threads, terminated>>

-----------------------------------------------------------------------------
(* The dispatcher.                                                         *)

Dispatcher(from, to) ==
    /\ ~terminated
    /\ dispatcher = from
    /\ dispatcher' = to
    /\ UNCHANGED <<requests, sent, chord>>

\* the message at the head of the queue is popped (wait_for_and_pop)
Popped ==
    /\ receive_queue # <<>>
    /\ message' = Head(receive_queue)
    /\ receive_queue' = Tail(receive_queue)

\* MessageHandler::HandleNotification() drops the handlers whose object is gone
Remaining == {d \in active_handlers : Alive(d)}

\* MessageHandler::handle_request: the object has run and has told the
\* MessageHandler that it is done
handle_request ==
    /\ Dispatcher("idle", "pushing")
    /\ Popped
    /\ message' = "request"
    /\ active_handlers' = Remaining
    /\ UNCHANGED <<objects, active_messages, send_queue, owner, references, terminated>>

\* handle_request puts the object, which is done, into active_messages_
push_back ==
    /\ Dispatcher("pushing", "idle")
    /\ Free("active_messages")
    /\ message' = "none"
    /\ UNCHANGED <<objects, containers, send_queue, receive_queue, owner, references,
                   terminated>>

\* MessageHandler::handle_response: get_and_erase_if finds the handler
get_and_erase ==
    /\ Dispatcher("idle", "found")
    /\ Popped
    /\ message' \in active_handlers
    /\ active_handlers' = active_handlers \ {message'}
    /\ UNCHANGED <<objects, active_messages, send_queue, owner, references, terminated>>

\* or does not
no_handler ==
    /\ Dispatcher("idle", "idle")
    /\ receive_queue # <<>>
    /\ Head(receive_queue) \in Dependency \ active_handlers
    /\ receive_queue' = Tail(receive_queue)
    /\ UNCHANGED <<objects, containers, send_queue, owner, message, references,
                   terminated>>

\* mutant of Held: is_valid() is asked instead
Held_valid(o) == {}

\* what a thread refers to after o's weak_ptr is locked
Held(o) == {o}

\* the handler's weak_ptr is locked
lock_parent ==
    /\ Alive(message)
    /\ Dispatcher("found", "locked")
    /\ references' = Held(message)
    /\ UNCHANGED <<objects, containers, send_queue, receive_queue, owner, message,
                   terminated>>

\* or its object is gone
parent_expired ==
    /\ ~Alive(message)
    /\ Dispatcher("found", "idle")
    /\ message' = "none"
    /\ UNCHANGED <<objects, containers, send_queue, receive_queue, owner, references,
                   terminated>>

\* mutant: the promise is not set before Notify()
handle_response_unset ==
    /\ Dispatcher("locked", "notifying")
    /\ Free(message)
    /\ promise[message] = "unset"
    /\ owner' = [owner EXCEPT ![message] = "dispatcher"]
    /\ state' = [state EXCEPT ![message] = "DONE"]
    /\ is_done' = [is_done EXCEPT ![message] = TRUE]
    /\ UNCHANGED <<promise, dependency, expired, containers, send_queue, receive_queue,
                   message, references, terminated>>

\* handle_response of the dependency: its promise is set, it is done, and
\* Notify() follows
handle_response ==
    /\ Dispatcher("locked", "notifying")
    /\ Free(message)
    /\ promise[message] = "unset"
    /\ owner' = [owner EXCEPT ![message] = "dispatcher"]
    /\ state' = [state EXCEPT ![message] = "DONE"]
    /\ promise' = [promise EXCEPT ![message] = "value"]
    /\ is_done' = [is_done EXCEPT ![message] = TRUE]
    /\ UNCHANGED <<dependency, expired, containers, send_queue, receive_queue, message,
                   references, terminated>>

\* the same when handle_failed has set the promise: std::future_error
handle_response_late ==
    /\ Dispatcher("locked", "notifying")
    /\ Free(message)
    /\ promise[message] # "unset"
    /\ terminated' = TRUE
    /\ UNCHANGED <<objects, containers, send_queue, receive_queue, owner, message,
                   references>>

\* Notify() locks the weak_ptr to the Join
Notify ==
    /\ Alive("join")
    /\ Dispatcher("notifying", "notified")
    /\ references' = references \cup Held("join")
    /\ UNCHANGED <<objects, containers, send_queue, receive_queue, owner, message,
                   terminated>>

\* or the Join is gone
Notify_dead ==
    /\ ~Alive("join")
    /\ Dispatcher("notifying", "returning")
    /\ UNCHANGED <<objects, containers, send_queue, receive_queue, owner, message,
                   references, terminated>>

Following == [query |-> "find_successor", find_successor |-> "get_successor_list",
              get_successor_list |-> "none"]

\* Join::HandleNotification with the Join locked: the next dependency replaces
\* the one that is done and makes its request
HandleNotification ==
    LET next == Following[dependency] IN
    /\ Dispatcher("notified", "returning")
    /\ Free("join")
    /\ is_done[dependency] /\ state[dependency] = "DONE"
    /\ next # "none"
    /\ dependency' = next
    /\ expired' = expired \ {"join"}
    /\ active_handlers' = active_handlers \cup {next}
    /\ send_queue' = send_queue \cup {next}
    /\ UNCHANGED <<state, is_done, promise, active_messages, receive_queue, owner,
                   message, references, terminated>>

\* mutant: dependencies_ is cleared after the last one, too
HandleNotification_last_cleared ==
    /\ Dispatcher("notified", "returning")
    /\ Free("join")
    /\ is_done[dependency] /\ state[dependency] = "DONE"
    /\ Following[dependency] = "none"
    /\ state' = [state EXCEPT !["join"] = "DONE"]
    /\ is_done' = [is_done EXCEPT !["join"] = TRUE]
    /\ dependency' = "none"
    /\ active_handlers' = Remaining
    /\ UNCHANGED <<promise, expired, active_messages, send_queue, receive_queue,
                   owner, message, references, terminated>>

\* the same for the last one: the Join is done, and tells the MessageHandler
HandleNotification_last ==
    /\ Dispatcher("notified", "returning")
    /\ Free("join")
    /\ is_done[dependency] /\ state[dependency] = "DONE"
    /\ Following[dependency] = "none"
    /\ state' = [state EXCEPT !["join"] = "DONE"]
    /\ is_done' = [is_done EXCEPT !["join"] = TRUE]
    /\ active_handlers' = Remaining
    /\ UNCHANGED <<promise, dependency, expired, active_messages, send_queue,
                   receive_queue, owner, message, references, terminated>>

\* the handler returns
return ==
    /\ Dispatcher("returning", "idle")
    /\ owner' = [owner EXCEPT ![message] = "nobody"]
    /\ message' = "none"
    /\ references' = {}
    /\ UNCHANGED <<objects, containers, send_queue, receive_queue, terminated>>

-----------------------------------------------------------------------------
chord_thread ==
    \/ clean
    \/ check_state
    \/ check_join
    \/ check_dependencies
    \/ check_dependency
    \/ clean_end

dispatcher_thread ==
    \/ handle_request
    \/ push_back
    \/ get_and_erase
    \/ no_handler
    \/ lock_parent
    \/ parent_expired
    \/ handle_response
    \/ handle_response_late
    \/ Notify
    \/ Notify_dead
    \/ HandleNotification
    \/ HandleNotification_last
    \/ return

send_thread == \E d \in Dependency : send(d)

Environment ==
    \/ \E d \in Dependency : handle_read_message(d)
    \/ request_arrives
    \/ time_passes

Next == chord_thread \/ dispatcher_thread \/ send_thread \/ Environment

\* The operating system runs every thread and the clock does not stop; nothing
\* makes other nodes answer.  The chord thread sleeps a second between two
\* clean()s: the dispatcher does not wait forever for a lock that is released
\* again and again.
Fairness ==
    /\ WF_vars(chord_thread)
    /\ SF_vars(dispatcher_thread)
    /\ WF_vars(send_thread)
    /\ WF_vars(time_passes)

Spec == Init /\ [][Next]_vars /\ Fairness

-----------------------------------------------------------------------------
TypeOK ==
    /\ state \in [Object -> {"VALID", "DONE", "FAILED"}]
    /\ is_done \in [Object -> BOOLEAN]
    /\ promise \in [Dependency -> {"unset", "value", "empty"}]
    /\ dependency \in Dependency
    /\ expired \subseteq Object
    /\ active_messages \subseteq {"join"}
    /\ active_handlers \subseteq Dependency
    /\ send_queue \subseteq Dependency
    /\ sent \subseteq Dependency
    /\ receive_queue \in Seq(Dependency \cup {"request"})
    /\ requests \in 0..MaxRequests
    /\ owner \in [Mutex -> Thread \cup {"nobody"}]
    /\ chord \in {"idle", "cleaning", "checking", "waiting", "checked"}
    /\ dispatcher \in {"idle", "pushing", "found", "locked", "notifying", "notified",
                       "returning"}
    /\ message \in Dependency \cup {"request", "none"}
    /\ references \subseteq Object
    /\ terminated \in BOOLEAN

\* No thread runs code of an object that is destroyed: not the response handler
\* of a dependency that the Join replaces meanwhile (Join::handle_query_notify
\* clears dependencies_ under the feet of the Query), nor check_state() of an
\* object that clean() has removed.
RunsWhatLives ==
    /\ dispatcher \in {"locked", "notifying", "notified", "returning"} => Alive(message)
    /\ dispatcher = "notified" => Alive("join")
    /\ chord \in {"checking", "waiting"} => Alive("join") /\ Alive(dependency)

\* When the Join is notified, the dependency that notifies it is the one it
\* looks at, and the future it reads is ready: otherwise the dispatcher would
\* wait for itself, or read the wrong answer (Join::HandleNotification).
FutureReady ==
    dispatcher = "notified" => dependency = message /\ promise[dependency] = "value"

\* A Join that has succeeded never turns into one that has failed, whenever its
\* deadline passes (MessagingBase::check_state).
SuccessKept == [][state["join"] = "DONE" => state'["join"] = "DONE"]_vars

\* The two threads wait for each other: check_state() holds the Join and wants
\* the dependency, its response handler holds the dependency and wants the Join.
LockedOut ==
    /\ chord = "waiting" /\ owner[dependency] = "dispatcher"
    /\ dispatcher = "notified" /\ owner["join"] = "chord"

\* Unless that happens, or an exception ends the process, every Join is
\* released, whether its requests are answered or not.
JoinReleased == <>(~Alive("join") \/ LockedOut \/ terminated)

-----------------------------------------------------------------------------
\* "Pops Msg from Queue, converts it and dispatches it to the MessageHandler"
Dispatched == receive_queue # <<>> ~> receive_queue = <<>> \/ terminated
=============================================================================
