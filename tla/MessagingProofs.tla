-------------------------- MODULE MessagingProofs ---------------------------
(* What the locks and references of a node keep while its threads take     *)
(* their steps in any order, for any number of requests of other nodes.    *)
EXTENDS Messaging, TLAPS

Handling == {"locked", "notifying", "notified", "returning"}

\* who holds a mutex follows from where the threads are, until an exception
\* ends the process
LocksInv ==
  ~terminated =>
    /\ owner["active_messages"] = IF chord = "idle" THEN "nobody" ELSE "chord"
    /\ owner["join"] = IF chord \in {"checking", "waiting"} THEN "chord" ELSE "nobody"
    /\ \A d \in Dependency :
         owner[d] = IF dispatcher \in {"notifying", "notified", "returning"} /\ message = d
                    THEN "dispatcher" ELSE "nobody"

\* clean() looks at a Join that is in active_messages_, and at its dependency
\* only if the Join is not done
CleanInv ==
    /\ chord \in {"checking", "waiting"} => "join" \in active_messages
    /\ chord = "waiting" => ~is_done["join"]
    /\ state["join"] = "DONE" => is_done["join"]

\* the dispatcher refers to the object it runs, and that is the one the Join
\* looks at until HandleNotification replaces it
DispatcherInv ==
    /\ active_handlers \subseteq {dependency}
    /\ dispatcher \in {"found"} \cup Handling => message \in Dependency
    /\ dispatcher \in {"found", "locked", "notifying", "notified"} =>
         dependency = message /\ active_handlers = {}
    /\ dispatcher \in Handling => message \in references
    /\ dispatcher = "notified" => "join" \in references
    /\ (dispatcher = "notifying" /\ ~terminated) \/ dispatcher = "notified" =>
         is_done[message] /\ promise[message] = "value"

IInv == TypeOK /\ LocksInv /\ CleanInv /\ DispatcherInv

-----------------------------------------------------------------------------
\* Each step of a thread, of the network or of the clock keeps the types.
LEMMA TypeKept ==
    ASSUME TypeOK, DispatcherInv, Next
    PROVE  TypeOK'
<1> USE DEF TypeOK, Object, Dependency, Mutex, Thread, objects, containers, network,
            threads
<1>1. CASE clean
  BY <1>1 DEF clean, Chord
<1>2. CASE check_state
  BY <1>2 DEF check_state, Chord
<1>3. CASE check_join
  <2>1. \/ UNCHANGED <<state, is_done>>
        \/ /\ state' = [state EXCEPT !["join"] = "FAILED"]
           /\ is_done' = [is_done EXCEPT !["join"] = TRUE]
    BY <1>3 DEF check_join
  <2>2. state' \in [Object -> {"VALID", "DONE", "FAILED"}]
    BY <2>1
  <2>3. is_done' \in [Object -> BOOLEAN]
    BY <2>1
  <2>4. QED BY <1>3, <2>2, <2>3 DEF check_join, Chord
<1>4. CASE check_dependencies
  BY <1>4 DEF check_dependencies, already_done, Chord
<1>5. CASE check_dependency
  BY <1>5 DEF check_dependency, Chord
<1>6. CASE clean_end
  BY <1>6 DEF clean_end, Kept, Chord
<1>7. CASE handle_request
  <2>1. receive_queue' \in Seq(Dependency \cup {"request"})
    BY <1>7 DEF handle_request, Popped
  <2>2. active_handlers' \subseteq Dependency
    BY <1>7 DEF handle_request, Remaining
  <2>3. QED BY <1>7, <2>1, <2>2 DEF handle_request, Dispatcher
<1>8. CASE push_back
  BY <1>8 DEF push_back, Dispatcher, DispatcherInv, Handling
<1>9. CASE get_and_erase
  <2>1. receive_queue' \in Seq(Dependency \cup {"request"})
    BY <1>9 DEF get_and_erase, Popped
  <2>2. message' \in Dependency
    BY <1>9 DEF get_and_erase
  <2>3. QED BY <1>9, <2>1, <2>2 DEF get_and_erase, Dispatcher
<1>10. CASE no_handler
  BY <1>10 DEF no_handler, Dispatcher, DispatcherInv, Handling
<1>11. CASE lock_parent
  BY <1>11 DEF lock_parent, Held, Dispatcher, DispatcherInv, Handling
<1>12. CASE parent_expired
  BY <1>12 DEF parent_expired, Dispatcher, DispatcherInv, Handling
<1>13. CASE handle_response
  BY <1>13 DEF handle_response, Dispatcher, DispatcherInv, Handling
<1>14. CASE handle_response_late
  BY <1>14 DEF handle_response_late, Dispatcher, DispatcherInv, Handling
<1>15. CASE Notify
  BY <1>15 DEF Notify, Held, Dispatcher, DispatcherInv, Handling
<1>16. CASE Notify_dead
  BY <1>16 DEF Notify_dead, Dispatcher, DispatcherInv, Handling
<1>17. CASE HandleNotification
  <2>1. Following[dependency] \in Dependency
    BY <1>17 DEF HandleNotification, Following
  <2>2. /\ dependency' \in Dependency
        /\ active_handlers' \subseteq Dependency
        /\ send_queue' \subseteq Dependency
        /\ expired' \subseteq Object
    BY <1>17, <2>1 DEF HandleNotification
  <2>3. QED BY <1>17, <2>2 DEF HandleNotification, Dispatcher
<1>18. CASE HandleNotification_last
  BY <1>18 DEF HandleNotification_last, Free, Following, Remaining, Dispatcher,
    DispatcherInv, Handling
<1>19. CASE return
  BY <1>19 DEF return, Dispatcher, DispatcherInv, Handling
<1>20. CASE send_thread
  BY <1>20 DEF send_thread, send
<1>21. CASE \E d \in Dependency : handle_read_message(d)
  BY <1>21 DEF handle_read_message
<1>22. CASE request_arrives
  BY <1>22, MaxRequestsAssumption DEF request_arrives
<1>23. CASE time_passes
  BY <1>23 DEF time_passes
<1>24. QED
  BY <1>1, <1>2, <1>3, <1>4, <1>5, <1>6, <1>7, <1>8, <1>9, <1>10, <1>11, <1>12,
    <1>13, <1>14, <1>15, <1>16, <1>17, <1>18, <1>19, <1>20, <1>21, <1>22,
    <1>23 DEF Next, chord_thread, dispatcher_thread, Environment

\* The chord thread keeps what the locks, the Join and the dispatcher agree on.
LEMMA ChordThreadKeeps ==
    ASSUME IInv, TypeOK', chord_thread
    PROVE  LocksInv' /\ CleanInv' /\ DispatcherInv'
<1> USE DEF IInv, TypeOK, Object, Dependency, Mutex, Thread, objects, containers,
            network, threads, Handling
<1>1. CASE clean
  <2>1. LocksInv' BY <1>1 DEF clean, Chord, LocksInv, CleanInv, DispatcherInv
  <2>2. CleanInv' BY <1>1 DEF clean, Chord, LocksInv, CleanInv, DispatcherInv
  <2>3. DispatcherInv' BY <1>1 DEF clean, Chord, LocksInv, CleanInv, DispatcherInv
  <2>4. QED BY <2>1, <2>2, <2>3
<1>2. CASE check_state
  <2>1. LocksInv' BY <1>2 DEF check_state, Chord, LocksInv, CleanInv, DispatcherInv
  <2>2. CleanInv' BY <1>2 DEF check_state, Chord, LocksInv, CleanInv, DispatcherInv
  <2>3. DispatcherInv' BY <1>2 DEF check_state, Chord, LocksInv, CleanInv,
        DispatcherInv
  <2>4. QED BY <2>1, <2>2, <2>3
<1>3. CASE check_join
  <2>1. LocksInv' BY <1>3 DEF check_join, already_done, Chord, LocksInv, CleanInv,
        DispatcherInv
  <2>2. CleanInv' BY <1>3 DEF check_join, already_done, Chord, LocksInv, CleanInv,
        DispatcherInv
  <2>3. DispatcherInv' BY <1>3 DEF check_join, already_done, Chord, LocksInv,
        CleanInv, DispatcherInv
  <2>4. QED BY <2>1, <2>2, <2>3
<1>4. CASE check_dependencies
  <2>1. LocksInv' BY <1>4 DEF check_dependencies, already_done, Chord, LocksInv,
        CleanInv, DispatcherInv
  <2>2. CleanInv' BY <1>4 DEF check_dependencies, already_done, Chord, LocksInv,
        CleanInv, DispatcherInv
  <2>3. DispatcherInv' BY <1>4 DEF check_dependencies, already_done, Chord,
        LocksInv, CleanInv, DispatcherInv
  <2>4. QED BY <2>1, <2>2, <2>3
<1>5. CASE check_dependency
  <2>1. LocksInv' BY <1>5 DEF check_dependency, Chord, LocksInv, CleanInv,
        DispatcherInv
  <2>2. CleanInv' BY <1>5 DEF check_dependency, Chord, LocksInv, CleanInv,
        DispatcherInv
  <2>3. DispatcherInv' BY <1>5 DEF check_dependency, Chord, LocksInv, CleanInv,
        DispatcherInv
  <2>4. QED BY <2>1, <2>2, <2>3
<1>6. CASE clean_end
  <2>1. LocksInv' BY <1>6 DEF clean_end, Kept, Chord, LocksInv, CleanInv,
        DispatcherInv
  <2>2. CleanInv' BY <1>6 DEF clean_end, Kept, Chord, LocksInv, CleanInv,
        DispatcherInv
  <2>3. DispatcherInv' BY <1>6 DEF clean_end, Kept, Chord, LocksInv, CleanInv,
        DispatcherInv
  <2>4. QED BY <2>1, <2>2, <2>3
<1>7. QED BY <1>1, <1>2, <1>3, <1>4, <1>5, <1>6 DEF chord_thread

\* So does the dispatcher.
LEMMA DispatcherKeeps ==
    ASSUME IInv, TypeOK', dispatcher_thread
    PROVE  LocksInv' /\ CleanInv' /\ DispatcherInv'
<1> USE DEF IInv, TypeOK, Object, Dependency, Mutex, Thread, objects, containers,
            network, threads, Handling
<1>1. CASE handle_request
  <2>1. LocksInv' BY <1>1 DEF handle_request, Popped, Remaining, Dispatcher,
        LocksInv, CleanInv, DispatcherInv
  <2>2. CleanInv' BY <1>1 DEF handle_request, Popped, Remaining, Dispatcher,
        LocksInv, CleanInv, DispatcherInv
  <2>3. DispatcherInv' BY <1>1 DEF handle_request, Popped, Remaining, Dispatcher,
        LocksInv, CleanInv, DispatcherInv
  <2>4. QED BY <2>1, <2>2, <2>3
<1>2. CASE push_back
  <2>1. LocksInv' BY <1>2 DEF push_back, Dispatcher, LocksInv, CleanInv,
        DispatcherInv
  <2>2. CleanInv' BY <1>2 DEF push_back, Dispatcher, LocksInv, CleanInv,
        DispatcherInv
  <2>3. DispatcherInv' BY <1>2 DEF push_back, Dispatcher, LocksInv, CleanInv,
        DispatcherInv
  <2>4. QED BY <2>1, <2>2, <2>3
<1>3. CASE get_and_erase
  <2>1. LocksInv' BY <1>3 DEF get_and_erase, Popped, Dispatcher, LocksInv,
        CleanInv, DispatcherInv
  <2>2. CleanInv' BY <1>3 DEF get_and_erase, Popped, Dispatcher, LocksInv,
        CleanInv, DispatcherInv
  <2>3. DispatcherInv' BY <1>3 DEF get_and_erase, Popped, Dispatcher, LocksInv,
        CleanInv, DispatcherInv
  <2>4. QED BY <2>1, <2>2, <2>3
<1>4. CASE no_handler
  <2>1. LocksInv' BY <1>4 DEF no_handler, Dispatcher, LocksInv, CleanInv,
        DispatcherInv
  <2>2. CleanInv' BY <1>4 DEF no_handler, Dispatcher, LocksInv, CleanInv,
        DispatcherInv
  <2>3. DispatcherInv' BY <1>4 DEF no_handler, Dispatcher, LocksInv, CleanInv,
        DispatcherInv
  <2>4. QED BY <2>1, <2>2, <2>3
<1>5. CASE lock_parent
  <2>1. LocksInv' BY <1>5 DEF lock_parent, Held, Dispatcher, LocksInv, CleanInv,
        DispatcherInv
  <2>2. CleanInv' BY <1>5 DEF lock_parent, Held, Dispatcher, LocksInv, CleanInv,
        DispatcherInv
  <2>3. DispatcherInv' BY <1>5 DEF lock_parent, Held, Dispatcher, LocksInv,
        CleanInv, DispatcherInv
  <2>4. QED BY <2>1, <2>2, <2>3
<1>6. CASE parent_expired
  <2>1. LocksInv' BY <1>6 DEF parent_expired, Dispatcher, LocksInv, CleanInv,
        DispatcherInv
  <2>2. CleanInv' BY <1>6 DEF parent_expired, Dispatcher, LocksInv, CleanInv,
        DispatcherInv
  <2>3. DispatcherInv' BY <1>6 DEF parent_expired, Dispatcher, LocksInv, CleanInv,
        DispatcherInv
  <2>4. QED BY <2>1, <2>2, <2>3
<1>7. CASE handle_response
  <2>1. LocksInv' BY <1>7 DEF handle_response, Dispatcher, LocksInv, CleanInv,
        DispatcherInv
  <2>2. CleanInv' BY <1>7 DEF handle_response, Dispatcher, LocksInv, CleanInv,
        DispatcherInv
  <2>3. DispatcherInv' BY <1>7 DEF handle_response, Dispatcher, LocksInv, CleanInv,
        DispatcherInv
  <2>4. QED BY <2>1, <2>2, <2>3
<1>8. CASE handle_response_late
  <2>1. LocksInv' BY <1>8 DEF handle_response_late, Dispatcher, LocksInv, CleanInv,
        DispatcherInv
  <2>2. CleanInv' BY <1>8 DEF handle_response_late, Dispatcher, LocksInv, CleanInv,
        DispatcherInv
  <2>3. DispatcherInv' BY <1>8 DEF handle_response_late, Dispatcher, LocksInv,
        CleanInv, DispatcherInv
  <2>4. QED BY <2>1, <2>2, <2>3
<1>9. CASE Notify
  <2>1. LocksInv' BY <1>9 DEF Notify, Held, Dispatcher, LocksInv, CleanInv,
        DispatcherInv
  <2>2. CleanInv' BY <1>9 DEF Notify, Held, Dispatcher, LocksInv, CleanInv,
        DispatcherInv
  <2>3. DispatcherInv' BY <1>9 DEF Notify, Held, Dispatcher, LocksInv, CleanInv,
        DispatcherInv
  <2>4. QED BY <2>1, <2>2, <2>3
<1>10. CASE Notify_dead
  <2>1. LocksInv' BY <1>10 DEF Notify_dead, Dispatcher, LocksInv, CleanInv,
        DispatcherInv
  <2>2. CleanInv' BY <1>10 DEF Notify_dead, Dispatcher, LocksInv, CleanInv,
        DispatcherInv
  <2>3. DispatcherInv' BY <1>10 DEF Notify_dead, Dispatcher, LocksInv, CleanInv,
        DispatcherInv
  <2>4. QED BY <2>1, <2>2, <2>3
<1>11. CASE HandleNotification
  <2>1. LocksInv' BY <1>11 DEF HandleNotification, Following, Dispatcher, LocksInv,
        CleanInv, DispatcherInv
  <2>2. CleanInv' BY <1>11 DEF HandleNotification, Following, Dispatcher, LocksInv,
        CleanInv, DispatcherInv
  <2>3. DispatcherInv' BY <1>11 DEF HandleNotification, Following, Dispatcher,
        LocksInv, CleanInv, DispatcherInv
  <2>4. QED BY <2>1, <2>2, <2>3
<1>12. CASE HandleNotification_last
  <2>1. LocksInv' BY <1>12 DEF HandleNotification_last, Free, Following, Remaining,
        Dispatcher, LocksInv, CleanInv, DispatcherInv
  <2>2. CleanInv' BY <1>12 DEF HandleNotification_last, Free, Following, Remaining,
        Dispatcher, LocksInv, CleanInv, DispatcherInv
  <2>3. DispatcherInv' BY <1>12 DEF HandleNotification_last, Free, Following,
        Remaining, Dispatcher, LocksInv, CleanInv, DispatcherInv
  <2>4. QED BY <2>1, <2>2, <2>3
<1>13. CASE return
  <2>1. LocksInv' BY <1>13 DEF return, Dispatcher, LocksInv, CleanInv, DispatcherInv
  <2>2. CleanInv' BY <1>13 DEF return, Dispatcher, LocksInv, CleanInv, DispatcherInv
  <2>3. DispatcherInv' BY <1>13 DEF return, Dispatcher, LocksInv, CleanInv,
        DispatcherInv
  <2>4. QED BY <2>1, <2>2, <2>3
<1>14. QED BY <1>1, <1>2, <1>3, <1>4, <1>5, <1>6, <1>7, <1>8, <1>9, <1>10, <1>11, <1>12, <1>13 DEF dispatcher_thread

\* And the send thread, the network and the clock.
LEMMA OthersKeep ==
    ASSUME IInv, TypeOK', send_thread \/ Environment
    PROVE  LocksInv' /\ CleanInv' /\ DispatcherInv'
<1> USE DEF IInv, TypeOK, Object, Dependency, Mutex, Thread, objects, containers,
            network, threads, Handling
<1>1. CASE send_thread
  <2>1. LocksInv' BY <1>1 DEF send_thread, send, LocksInv, CleanInv, DispatcherInv
  <2>2. CleanInv' BY <1>1 DEF send_thread, send, LocksInv, CleanInv, DispatcherInv
  <2>3. DispatcherInv' BY <1>1 DEF send_thread, send, LocksInv, CleanInv,
        DispatcherInv
  <2>4. QED BY <2>1, <2>2, <2>3
<1>2. CASE \E d \in Dependency : handle_read_message(d)
  <2>1. LocksInv' BY <1>2 DEF handle_read_message, LocksInv, CleanInv, DispatcherInv
  <2>2. CleanInv' BY <1>2 DEF handle_read_message, LocksInv, CleanInv, DispatcherInv
  <2>3. DispatcherInv' BY <1>2 DEF handle_read_message, LocksInv, CleanInv,
        DispatcherInv
  <2>4. QED BY <2>1, <2>2, <2>3
<1>3. CASE request_arrives
  <2>1. LocksInv' BY <1>3 DEF request_arrives, LocksInv, CleanInv, DispatcherInv
  <2>2. CleanInv' BY <1>3 DEF request_arrives, LocksInv, CleanInv, DispatcherInv
  <2>3. DispatcherInv' BY <1>3 DEF request_arrives, LocksInv, CleanInv,
        DispatcherInv
  <2>4. QED BY <2>1, <2>2, <2>3
<1>4. CASE time_passes
  <2>1. LocksInv' BY <1>4 DEF time_passes, LocksInv, CleanInv, DispatcherInv
  <2>2. CleanInv' BY <1>4 DEF time_passes, LocksInv, CleanInv, DispatcherInv
  <2>3. DispatcherInv' BY <1>4 DEF time_passes, LocksInv, CleanInv, DispatcherInv
  <2>4. QED BY <2>1, <2>2, <2>3
<1>5. QED BY <1>1, <1>2, <1>3, <1>4 DEF Environment

\* The invariant holds in every state of the node.
LEMMA Invariant == Spec => []IInv
<1>1. Init => IInv
  <2> SUFFICES ASSUME Init PROVE IInv OBVIOUS
  <2>1. TypeOK
    <3>1. /\ dependency \in Dependency
          /\ active_handlers \subseteq Dependency
          /\ send_queue \subseteq Dependency
          /\ sent \subseteq Dependency
      BY DEF Init, Dependency
    <3>2. receive_queue \in Seq(Dependency \cup {"request"}) BY DEF Init
    <3>3. requests \in 0..MaxRequests BY MaxRequestsAssumption DEF Init
    <3>4. /\ state \in [Object -> {"VALID", "DONE", "FAILED"}]
          /\ is_done \in [Object -> BOOLEAN]
          /\ promise \in [Dependency -> {"unset", "value", "empty"}]
          /\ owner \in [Mutex -> Thread \cup {"nobody"}]
      BY DEF Init
    <3>5. QED BY <3>1, <3>2, <3>3, <3>4 DEF Init, TypeOK
  <2>2. LocksInv BY DEF Init, LocksInv, Object, Dependency, Mutex
  <2>3. CleanInv BY DEF Init, CleanInv, Object
  <2>4. DispatcherInv BY DEF Init, DispatcherInv, Handling
  <2>5. QED BY <2>1, <2>2, <2>3, <2>4 DEF IInv
<1>2. IInv /\ [Next]_vars => IInv'
  <2> SUFFICES ASSUME IInv, [Next]_vars PROVE IInv' OBVIOUS
  <2>1. CASE Next
    <3>1. TypeOK' BY <2>1, TypeKept DEF IInv
    <3>2. LocksInv' /\ CleanInv' /\ DispatcherInv'
      BY <2>1, <3>1, ChordThreadKeeps, DispatcherKeeps, OthersKeep DEF Next
    <3>3. QED BY <3>1, <3>2 DEF IInv
  <2>2. CASE UNCHANGED vars
    BY <2>2 DEF vars, objects, containers, network, threads, IInv, TypeOK, LocksInv,
       CleanInv, DispatcherInv
  <2>3. QED BY <2>1, <2>2
<1>3. QED BY <1>1, <1>2, PTL DEF Spec

-----------------------------------------------------------------------------
\* The objects, containers, threads and messages of a node keep their types:
\* in particular the Join always has a dependency, so that front() of
\* dependencies_ exists whenever check_state or a notification reads it.
THEOREM MessagingTypeCorrect == Spec => []TypeOK
<1>1. IInv => TypeOK BY DEF IInv
<1>2. QED BY <1>1, Invariant, PTL

\* No thread runs a method of an object that is destroyed: the dispatcher holds
\* a shared_ptr to what it runs, and clean() removes a Join only between two
\* check_state()s.
THEOREM ObjectsOutliveTheirHandlers == Spec => []RunsWhatLives
<1>1. IInv => RunsWhatLives
  BY DEF IInv, TypeOK, CleanInv, DispatcherInv, Handling, RunsWhatLives, Alive,
     Dependency
<1>2. QED BY <1>1, Invariant, PTL

\* Join::HandleNotification reads the future of the dependency that notifies
\* it, and reads it after its promise is set with a value.
THEOREM NotifiedFuturesAreReady == Spec => []FutureReady
<1>1. IInv => FutureReady
  BY DEF IInv, DispatcherInv, FutureReady
<1>2. QED BY <1>1, Invariant, PTL

\* Once HandleNotification has made a Join succeed, check_state() never makes
\* it fail, whichever of the two threads gets its mutex first.
THEOREM JoinsStaySuccessful == Spec => SuccessKept
<1>1. IInv /\ [Next]_vars => [state["join"] = "DONE" => state'["join"] = "DONE"]_vars
  <2> SUFFICES ASSUME IInv, Next, state["join"] = "DONE"
               PROVE  state'["join"] = "DONE"
    BY DEF vars
  <2> USE DEF IInv, TypeOK, CleanInv, Object, Dependency, objects, containers, network,
              threads
  <2>1. CASE chord_thread
    <3>1. CASE check_join BY <3>1 DEF check_join, already_done
    <3>2. CASE check_dependency BY <3>2 DEF check_dependency, Chord
    <3>3. CASE clean \/ check_state \/ check_dependencies \/ clean_end
      BY <3>3 DEF clean, check_state, check_dependencies, clean_end
    <3>4. QED BY <2>1, <3>1, <3>2, <3>3 DEF chord_thread
  <2>2. CASE dispatcher_thread
    <3>1. CASE handle_response
      BY <3>1 DEF handle_response, Dispatcher, DispatcherInv, Handling
    <3>2. CASE HandleNotification_last BY <3>2 DEF HandleNotification_last
    <3>3. CASE UNCHANGED state BY <3>3
    <3>4. QED
      BY <2>2, <3>1, <3>2, <3>3 DEF dispatcher_thread, handle_request, push_back,
         get_and_erase, no_handler, lock_parent, parent_expired, handle_response_late,
         Notify, Notify_dead, HandleNotification, return
  <2>3. CASE send_thread \/ Environment
    BY <2>3 DEF send_thread, send, Environment, handle_read_message, request_arrives,
       time_passes
  <2>4. QED BY <2>1, <2>2, <2>3 DEF Next
<1>2. QED BY <1>1, Invariant, PTL DEF Spec, SuccessKept

=============================================================================
