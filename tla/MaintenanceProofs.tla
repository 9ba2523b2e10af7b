------------------------- MODULE MaintenanceProofs --------------------------
(* What the threads of a node do to its routing table, its flags and its   *)
(* objects, for every number of objects and notifications, all answers and *)
(* all orders of the two threads' operations.                              *)
EXTENDS Maintenance, RoutingLemmas, SequenceTheorems

\* what is left of handle_failed while the chord thread is in it
FailingTodo(o) ==
    IF o \in CheckPredecessor
    THEN {<<"reset_predecessor", "lower_check_predecessor_flag">>,
          <<"lower_check_predecessor_flag">>}
    ELSE {<<"pop_front", "lower_stabilize_flag">>, <<"lower_stabilize_flag">>}

\* what is left of HandleNotification, if it still lowers the flag
LoweringTodo ==
    {<<"pop_front", "lower_stabilize_flag", "create_notification">>,
     <<"replace_successor_list", "lower_stabilize_flag", "create_notification">>,
     <<"lower_stabilize_flag", "create_notification">>,
     <<"create_notification", "lower_stabilize_flag">>,
     <<"lower_stabilize_flag">>}

\* or not
OtherTodo ==
    {<<"try_get_successor", "replace_successor_list">>, <<"replace_successor_list">>,
     <<"create_get_self_and_succ_list">>, <<"create_notification">>}

Here == active_messages[chord.it]

\* where clean() is, and that it keeps the object it has locked
ChordInv ==
    /\ chord.it # 0
    /\ chord.at # "failing" => chord.todo = <<>>
    /\ chord.at \in {"failing", "iterating"} => chord.it \in 1..Len(active_messages)
    /\ chord.at = "failing" =>
         /\ chord.todo \in FailingTodo(Here)
         /\ Here \in CheckPredecessor => state[Here] = "FAILED"

Notified(s) == "notify" \in Range(dependencies[s])

\* a handler that runs or may run belongs to an object, and a Stabilize whose
\* notification may be answered has made it
DispatcherInv ==
    /\ dispatcher.at # "handling" => dispatcher.todo = <<>>
    /\ dispatcher.at = "handling" =>
         /\ dispatcher.todo \in LoweringTodo \cup OtherTodo
         /\ dispatcher.object \in Stabilize
         /\ state[dispatcher.object] # "none"
         /\ dispatcher.dependency = "get_self_and_succ_list" =>
              dispatcher.todo \notin {<<"try_get_successor", "replace_successor_list">>,
                                      <<"replace_successor_list">>}
         /\ dispatcher.dependency # "get_self_and_succ_list" =>
              dispatcher.todo # <<"replace_successor_list", "lower_stabilize_flag",
                                  "create_notification">>
    /\ dispatcher.at = "locked" =>
         /\ dispatcher.object \in Object
         /\ state[dispatcher.object] # "none"
         /\ dispatcher.object \in Stabilize => dispatcher.dependency \in Dependency
         /\ dispatcher.object \in Stabilize /\ dispatcher.dependency = "notify" =>
              Notified(dispatcher.object)

WaitingInv ==
    \A request \in waiting :
      /\ state[request[1]] # "none"
      /\ request[1] \in Stabilize => request[2] \in Dependency
      /\ request[1] \in Stabilize /\ request[2] = "notify" => Notified(request[1])

\* the predecessor is exchanged only for a nearer one
RectifyInv ==
    dispatcher.at = "set_predecessor" =>
      predecessor = NoPeer \/ between(predecessor, dispatcher.peer, self)

\* a Stabilize that will lower the flag, or whose handler is about to notify,
\* having lowered the flag
About(s) ==
    /\ dispatcher.at = "handling" /\ dispatcher.object = s
    /\ dispatcher.todo = <<"create_notification">>

Owns(s) == state[s] = "VALID" /\ ~Notified(s) /\ ~About(s)

StabilizeFlagInv ==
    stabilize_flag =>
      \/ chord.at = "failing" /\ Here \in Stabilize
      \/ dispatcher.at = "handling" /\ dispatcher.todo \in LoweringTodo
      \/ \E s \in Stabilize : Owns(s)

CheckFlagInv ==
    check_predecessor_flag =>
      \/ chord.at = "failing" /\ Here \in CheckPredecessor
      \/ \E c \in CheckPredecessor : state[c] = "VALID"

IInv ==
    /\ TypeOK
    /\ ChordInv
    /\ DispatcherInv
    /\ WaitingInv
    /\ RectifyInv
    /\ StabilizeFlagInv
    /\ CheckFlagInv

-----------------------------------------------------------------------------
(* What handle_failed does to the table is a sequence of operations.       *)
LEMMA HandleFailedType ==
    ASSUME NEW o \in Object
    PROVE  handle_failed(o) \in Seq(FailureOperation)
<1>1. /\ <<"reset_predecessor", "lower_check_predecessor_flag">> \in Seq(FailureOperation)
      /\ <<"pop_front", "lower_stabilize_flag">> \in Seq(FailureOperation)
      /\ <<"lower_stabilize_flag">> \in Seq(FailureOperation)
  BY DEF FailureOperation
<1> QED  BY <1>1 DEF handle_failed

(* Both threads begin in one of their states.                              *)
LEMMA IdleTypes ==
    /\ \A at \in {"stabilize", "check", "clean"} : [Chord_idle EXCEPT !.at = at] \in ChordState
    /\ Chord_idle \in ChordState
    /\ Dispatcher_idle \in DispatcherState
<1>1. ASSUME NEW S PROVE <<>> \in Seq(S)
  OBVIOUS
<1>2. \A at \in {"stabilize", "check", "clean"} : [Chord_idle EXCEPT !.at = at] \in ChordState
  BY <1>1 DEF ChordState, Chord_idle
<1>3. Chord_idle \in ChordState
  BY <1>1 DEF ChordState, Chord_idle
<1>4. Dispatcher_idle \in DispatcherState
  BY <1>1 DEF Dispatcher_idle, DispatcherState, Peer, BlankId
<1> QED  BY <1>2, <1>3, <1>4

(* What is left of a HandleNotification is a sequence of its operations.   *)
LEMMA TodoType == LoweringTodo \cup OtherTodo \subseteq Seq(NotificationOperation) \ {<<>>}
BY DEF LoweringTodo, OtherTodo, NotificationOperation

(* What others answer are lists of peers.                                  *)
LEMMA AnswersType ==
    ASSUME NEW d
    PROVE  Answers(d) \subseteq Seq(Peer)
<1>1. <<>> \in Seq(Peer)
  OBVIOUS
<1>2. CASE d = "get_pred_and_succ_list"
  BY <1>2, AnswersAssumption DEF Answers
<1>3. CASE d = "get_self_and_succ_list"
  BY <1>3, AnswersAssumption DEF Answers
<1>4. CASE d # "get_pred_and_succ_list" /\ d # "get_self_and_succ_list"
  BY <1>1, <1>4 DEF Answers
<1> QED  BY <1>2, <1>3, <1>4

(* Every step of clean() leaves the chord thread in one of its states.     *)
LEMMA ChordStateType ==
    ASSUME NEW c \in ChordState
    PROVE  /\ [c EXCEPT !.it = @ + 1] \in ChordState
           /\ [c EXCEPT !.at = "clean", !.it = @ + 1, !.moved = FALSE] \in ChordState
           /\ \A moved \in BOOLEAN : [c EXCEPT !.moved = moved] \in ChordState
           /\ \A rest \in Seq(Dependency) :
                [c EXCEPT !.at = "iterating", !.rest = rest, !.moved = FALSE] \in ChordState
           /\ c.rest # <<>> => [c EXCEPT !.rest = Tail(@)] \in ChordState
           /\ \A todo \in Seq(FailureOperation) :
                /\ [c EXCEPT !.at = "failing", !.todo = todo] \in ChordState
                /\ [c EXCEPT !.at = "failing", !.rest = <<>>, !.moved = FALSE,
                             !.todo = todo] \in ChordState
           /\ \A at \in {"clean", "failing"} :
                c.todo # <<>> => [c EXCEPT !.at = at, !.todo = Tail(@)] \in ChordState
<1>1. c.it + 1 \in Nat
  BY DEF ChordState
<1>2. c.rest # <<>> => Tail(c.rest) \in Seq(Dependency)
  BY DEF ChordState
<1>3. c.todo # <<>> => Tail(c.todo) \in Seq(FailureOperation)
  BY DEF ChordState
<1>4. <<>> \in Seq(Dependency)
  OBVIOUS
<1> QED  BY <1>1, <1>2, <1>3, <1>4 DEF ChordState

(* Every step of a handler leaves the dispatcher in one of its states.     *)
LEMMA DispatcherStateType ==
    ASSUME NEW r \in DispatcherState
    PROVE  /\ \A at \in {"try_get_predecessor", "set_predecessor", "push_back"} :
                /\ [r EXCEPT !.at = at] \in DispatcherState
                /\ \A peer \in Peer : [r EXCEPT !.at = at, !.peer = peer] \in DispatcherState
           /\ \A o \in Object, d \in Dependency \cup {None}, peers \in Seq(Peer) :
                [r EXCEPT !.at = "locked", !.object = o, !.dependency = d, !.peers = peers]
                  \in DispatcherState
           /\ \A todo \in Seq(NotificationOperation) :
                /\ [r EXCEPT !.todo = todo] \in DispatcherState
                /\ [r EXCEPT !.at = "handling", !.todo = todo] \in DispatcherState
           /\ r.todo # <<>> =>
                /\ [r EXCEPT !.todo = Tail(@)] \in DispatcherState
                /\ \A peer \in Peer :
                     [r EXCEPT !.todo = Tail(@), !.read = peer] \in DispatcherState
<1>1. r.todo # <<>> => Tail(r.todo) \in Seq(NotificationOperation)
  BY DEF DispatcherState
<1> QED  BY <1>1 DEF DispatcherState

\* What is done first by a handler, and what is left then.
TodoStep(todo) ==
    /\ Head(todo) = "pop_front" =>
         Len(todo) # 1 /\ Tail(todo) = <<"lower_stabilize_flag", "create_notification">>
    /\ Head(todo) = "lower_stabilize_flag" =>
         Len(todo) = 1 \/ Tail(todo) = <<"create_notification">>
    /\ Head(todo) = "try_get_successor" =>
         /\ todo = <<"try_get_successor", "replace_successor_list">>
         /\ Tail(todo) = <<"replace_successor_list">>
    /\ Head(todo) = "replace_successor_list" =>
         \/ todo = <<"replace_successor_list">>
         \/ /\ todo = <<"replace_successor_list", "lower_stabilize_flag",
                       "create_notification">>
            /\ Tail(todo) = <<"lower_stabilize_flag", "create_notification">>
    /\ Head(todo) = "create_notification" =>
         \/ Len(todo) = 1 /\ todo = <<"create_notification">>
         \/ /\ Len(todo) # 1 /\ Tail(todo) = <<"lower_stabilize_flag">>
            /\ todo \in LoweringTodo
    /\ Head(todo) = "create_get_self_and_succ_list" =>
         Len(todo) = 1 /\ todo \in OtherTodo

(* Whatever HandleNotification does first, what is left then is known.     *)
LEMMA TodoSteps == \A todo \in LoweringTodo \cup OtherTodo : TodoStep(todo)
<1> SUFFICES ASSUME NEW todo \in LoweringTodo \cup OtherTodo
             PROVE  TodoStep(todo)
  OBVIOUS
<1>1. CASE todo = <<"pop_front", "lower_stabilize_flag", "create_notification">>
  BY <1>1 DEF TodoStep
<1>2. CASE todo = <<"replace_successor_list", "lower_stabilize_flag", "create_notification">>
  BY <1>2 DEF TodoStep
<1>3. CASE todo = <<"lower_stabilize_flag", "create_notification">>
  BY <1>3 DEF TodoStep
<1>4. CASE todo = <<"create_notification", "lower_stabilize_flag">>
  BY <1>4 DEF LoweringTodo, TodoStep
<1>5. CASE todo = <<"lower_stabilize_flag">>
  BY <1>5 DEF TodoStep
<1>6. CASE todo = <<"try_get_successor", "replace_successor_list">>
  BY <1>6 DEF TodoStep
<1>7. CASE todo = <<"replace_successor_list">>
  BY <1>7 DEF TodoStep
<1>8. CASE todo = <<"create_get_self_and_succ_list">>
  BY <1>8 DEF OtherTodo, TodoStep
<1>9. CASE todo = <<"create_notification">>
  BY <1>9 DEF TodoStep
<1> QED  BY <1>1, <1>2, <1>3, <1>4, <1>5,
            <1>6, <1>7, <1>8, <1>9 DEF LoweringTodo, OtherTodo

(* So it is for handle_failed, which ends by lowering the flag of its kind. *)
LEMMA FailingTodoSteps ==
    ASSUME NEW o \in Object
    PROVE  \A todo \in FailingTodo(o) :
             /\ todo # <<>>
             /\ Len(todo) # 1 => /\ Tail(todo) \in FailingTodo(o)
                                 /\ Head(todo) \in {"reset_predecessor", "pop_front"}
             /\ Len(todo) = 1 =>
                  /\ Tail(todo) = <<>>
                  /\ Head(todo) = IF o \in CheckPredecessor THEN "lower_check_predecessor_flag"
                                  ELSE "lower_stabilize_flag"
<1> SUFFICES ASSUME NEW todo \in FailingTodo(o)
             PROVE  /\ todo # <<>>
                    /\ Len(todo) # 1 => /\ Tail(todo) \in FailingTodo(o)
                                        /\ Head(todo) \in {"reset_predecessor", "pop_front"}
                    /\ Len(todo) = 1 =>
                         /\ Tail(todo) = <<>>
                         /\ Head(todo) = IF o \in CheckPredecessor
                                         THEN "lower_check_predecessor_flag"
                                         ELSE "lower_stabilize_flag"
  OBVIOUS
<1>1. CASE o \in CheckPredecessor
  <2>1. CASE todo = <<"reset_predecessor", "lower_check_predecessor_flag">>
    BY <1>1, <2>1 DEF FailingTodo
  <2>2. CASE todo = <<"lower_check_predecessor_flag">>
    BY <1>1, <2>2 DEF FailingTodo
  <2> QED  BY <1>1, <2>1, <2>2 DEF FailingTodo
<1>2. CASE o \notin CheckPredecessor
  <2>1. CASE todo = <<"pop_front", "lower_stabilize_flag">>
    BY <1>2, <2>1 DEF FailingTodo
  <2>2. CASE todo = <<"lower_stabilize_flag">>
    BY <1>2, <2>2 DEF FailingTodo
  <2> QED  BY <1>2, <2>1, <2>2 DEF FailingTodo
<1> QED  BY <1>1, <1>2

(* A handle_failed that begins has all its operations left.                *)
LEMMA HandleFailedTodo ==
    ASSUME NEW o \in Object
    PROVE  handle_failed(o) \in FailingTodo(o)
BY DEF handle_failed, FailingTodo

(* What is left of a handle_failed is a sequence of its operations.        *)
LEMMA FailingTodoType ==
    ASSUME NEW o \in Object
    PROVE  FailingTodo(o) \subseteq Seq(FailureOperation)
<1>1. /\ <<"reset_predecessor", "lower_check_predecessor_flag">> \in Seq(FailureOperation)
      /\ <<"lower_check_predecessor_flag">> \in Seq(FailureOperation)
      /\ <<"pop_front", "lower_stabilize_flag">> \in Seq(FailureOperation)
      /\ <<"lower_stabilize_flag">> \in Seq(FailureOperation)
  BY DEF FailureOperation
<1> QED  BY <1>1 DEF FailingTodo

(* A dependency at the front adds itself to what a Stabilize has asked.    *)
LEMMA CreatedDependency ==
    ASSUME NEW q \in Seq(Dependency), NEW d \in Dependency
    PROVE  /\ <<d>> \o q \in Seq(Dependency)
           /\ Range(<<d>> \o q) = {d} \cup Range(q)
<1>1. <<d>> \in Seq(Dependency)
  OBVIOUS
<1>2. Range(<<d>>) = {d}
  BY DEF Range
<1>3. Range(<<d>> \o q) = Range(<<d>>) \cup Range(q)
  BY <1>1, RangeConcatenation
<1>4. <<d>> \o q \in Seq(Dependency)
  BY <1>1
<1> QED  BY <1>2, <1>3, <1>4

(* The chord thread is somewhere in its loop.                             *)
LEMMA ChordTypeStep ==
    ASSUME IInv, Next
    PROVE  chord' \in ChordState
<1>1. CASE stabilize \/ no_stabilize \/ no_check_predecessor \/ clean_end
  BY <1>1, IdleTypes
     DEF stabilize, no_stabilize, no_check_predecessor, clean_end, Chord_goes
<1>2. ASSUME NEW c \in CheckPredecessor, CheckPredecessor_create_request(c)
      PROVE  chord' \in ChordState
  BY <1>2, IdleTypes DEF CheckPredecessor_create_request, Chord_goes
<1>3. ASSUME NEW o \in Object, clean_waiting(o)
      PROVE  chord' \in ChordState
  BY <1>3, ChordStateType DEF clean_waiting, IInv, TypeOK
<1>4. ASSUME NEW o \in Object, check_state_expired(o)
      PROVE  chord' \in ChordState
  BY <1>4, ChordStateType, HandleFailedType DEF check_state_expired, IInv, TypeOK
<1>5. ASSUME NEW s \in Stabilize, check_dependencies(s)
      PROVE  chord' \in ChordState
  BY <1>5, ChordStateType DEF check_dependencies, IInv, TypeOK
<1>6. ASSUME NEW s \in Stabilize, NEW d \in Dependency, check_dependency(s, d)
      PROVE  chord' \in ChordState
  BY <1>6, ChordStateType DEF check_dependency, Iterating, IInv, TypeOK
<1>7. ASSUME NEW s \in Stabilize, NEW d \in Dependency, check_dependency_failed(s, d)
      PROVE  chord' \in ChordState
  BY <1>7, ChordStateType, HandleFailedType
     DEF check_dependency_failed, IInv, TypeOK, Object
<1>8. CASE any_of_end
  BY <1>8, ChordStateType DEF any_of_end, IInv, TypeOK
<1>9. ASSUME NEW o \in Object, handle_failed_next(o)
      PROVE  chord' \in ChordState
  <2> DEFINE at == IF Len(chord.todo) = 1 THEN "clean" ELSE "failing"
  <2>1. chord.todo # <<>>
    BY <1>9, FailingTodoSteps DEF handle_failed_next, Chord_at, IInv, ChordInv, Here
  <2>2. at \in {"clean", "failing"} /\ chord \in ChordState
    BY DEF IInv, TypeOK
  <2>3. [chord EXCEPT !.at = at, !.todo = Tail(@)] \in ChordState
    BY <2>1, <2>2, ChordStateType
  <2> QED  BY <1>9, <2>3 DEF handle_failed_next
<1>10. CASE create_notification \/ create_get_self_and_succ_list
  <2> DEFINE moved == \/ chord.moved
                      \/ chord.at = "iterating" /\ dispatcher.object = active_messages[chord.it]
  <2>1. chord \in ChordState /\ moved \in BOOLEAN
    BY DEF IInv, TypeOK, ChordState
  <2>2. [chord EXCEPT !.moved = moved] \in ChordState
    BY <2>1, ChordStateType
  <2> QED
    BY <1>10, <2>2 DEF create_notification, create_get_self_and_succ_list, Create
<1>11. CASE any_of_next_freed \/ try_get_predecessor \/ set_predecessor \/ push_back
          \/ CheckPredecessor_handle_response \/ handle_response_late
          \/ handle_empty_pred_and_succ_list_notify
          \/ handle_get_pred_and_succ_list_notify
          \/ handle_get_self_and_succ_list_notify \/ handle_notification_notify
          \/ Notify_dead \/ pop_or_lower \/ try_get_successor
          \/ Stabilize_replace_successor_list
  BY <1>11 DEF any_of_next_freed, try_get_predecessor, set_predecessor, push_back,
         CheckPredecessor_handle_response, handle_response_late,
         handle_empty_pred_and_succ_list_notify, handle_get_pred_and_succ_list_notify,
         handle_get_self_and_succ_list_notify, handle_notification_notify,
         Notify_dead, pop_or_lower, try_get_successor,
         Stabilize_replace_successor_list, IInv, TypeOK, Table_only, Handled
<1>12. ASSUME NEW o \in Object, clean_done(o)
      PROVE  chord' \in ChordState
  BY <1>12 DEF clean_done, IInv, TypeOK, Table_only, Handled
<1>13. ASSUME NEW peer \in Others, has_predecessor(peer)
      PROVE  chord' \in ChordState
  BY <1>13 DEF has_predecessor, IInv, TypeOK, Table_only, Handled
<1>14. ASSUME NEW request \in waiting, NEW peers \in Answers(request[2]), get_and_erase(request[1], request[2], peers)
      PROVE  chord' \in ChordState
  BY <1>14 DEF get_and_erase, IInv, TypeOK, Table_only, Handled
<1> QED
  BY <1>1, <1>2, <1>3, <1>4, <1>5, <1>6, <1>7, <1>8, <1>9, <1>10, <1>11, <1>12, <1>13,
     <1>14
     DEF Next, chord_thread, dispatcher_thread, arrivals, clean, HandleNotification

(* So is the dispatcher.                                                  *)
LEMMA DispatcherTypeStep ==
    ASSUME IInv, Next
    PROVE  dispatcher' \in DispatcherState
<1>1. ASSUME NEW peer \in Others, has_predecessor(peer)
      PROVE  dispatcher' \in DispatcherState
  BY <1>1, DispatcherStateType, AnswersAssumption
     DEF has_predecessor, IInv, TypeOK, Peer, Id
<1>2. CASE try_get_predecessor \/ set_predecessor
  BY <1>2, DispatcherStateType DEF try_get_predecessor, set_predecessor, IInv, TypeOK
<1>3. CASE push_back \/ CheckPredecessor_handle_response \/ Notify_dead
  BY <1>3, IdleTypes DEF push_back, CheckPredecessor_handle_response, Notify_dead
<1>4. CASE handle_notification_notify
  BY <1>4, IdleTypes DEF handle_notification_notify, Handled
<1>5. ASSUME NEW request \in waiting, NEW peers \in Answers(request[2]), get_and_erase(request[1], request[2], peers)
      PROVE  dispatcher' \in DispatcherState
  BY <1>5, DispatcherStateType, AnswersType DEF get_and_erase, IInv, TypeOK
<1>6. CASE handle_empty_pred_and_succ_list_notify
  BY <1>6, DispatcherStateType, TodoType
     DEF handle_empty_pred_and_succ_list_notify, Handled, LoweringTodo, IInv, TypeOK
<1>7. CASE handle_get_self_and_succ_list_notify
  BY <1>7, DispatcherStateType, TodoType
     DEF handle_get_self_and_succ_list_notify, Handled, LoweringTodo, IInv, TypeOK
<1>8. CASE handle_get_pred_and_succ_list_notify
  BY <1>8, DispatcherStateType, TodoType
     DEF handle_get_pred_and_succ_list_notify, Handled, OtherTodo, IInv, TypeOK
<1>9. CASE pop_or_lower
  BY <1>9, DispatcherStateType, IdleTypes
     DEF pop_or_lower, Done_operation, Next_operation, IInv, TypeOK
<1>10. CASE create_notification \/ create_get_self_and_succ_list
  BY <1>10, DispatcherStateType, IdleTypes
     DEF create_notification, create_get_self_and_succ_list, Create, Done_operation,
         Next_operation, IInv, TypeOK
<1>11. CASE try_get_successor
  <2>1. Head(successor_list) \in Peer
    BY DEF IInv, TypeOK
  <2> QED  BY <1>11, <2>1, DispatcherStateType DEF try_get_successor, Next_operation, IInv, TypeOK
<1>12. CASE Stabilize_replace_successor_list
  <2>1. dispatcher.todo # <<>> /\ dispatcher \in DispatcherState
    BY <1>12 DEF Stabilize_replace_successor_list, Next_operation, IInv, TypeOK
  <2>2. Tail(dispatcher.todo) \in Seq(NotificationOperation)
    BY <2>1 DEF DispatcherState
  <2>3. After_replace \in Seq(NotificationOperation)
    BY <2>2, TodoType DEF After_replace, LoweringTodo, OtherTodo
  <2> QED
    BY <1>12, <2>1, <2>3, DispatcherStateType DEF Stabilize_replace_successor_list
<1>13. CASE stabilize \/ no_stabilize \/ no_check_predecessor \/ clean_end
          \/ any_of_next_freed \/ any_of_end \/ handle_response_late
  BY <1>13
     DEF stabilize, no_stabilize, no_check_predecessor, clean_end, any_of_next_freed,
         any_of_end, handle_response_late, IInv, TypeOK, Chord_goes
<1>14. ASSUME NEW c \in CheckPredecessor, CheckPredecessor_create_request(c)
      PROVE  dispatcher' \in DispatcherState
  BY <1>14 DEF CheckPredecessor_create_request, IInv, TypeOK, Chord_goes
<1>15. ASSUME NEW o \in Object, clean_done(o)
      PROVE  dispatcher' \in DispatcherState
  BY <1>15 DEF clean_done, IInv, TypeOK, Chord_goes
<1>16. ASSUME NEW o \in Object, clean_waiting(o)
      PROVE  dispatcher' \in DispatcherState
  BY <1>16 DEF clean_waiting, IInv, TypeOK, Chord_goes
<1>17. ASSUME NEW o \in Object, check_state_expired(o)
      PROVE  dispatcher' \in DispatcherState
  BY <1>17 DEF check_state_expired, IInv, TypeOK, Chord_goes
<1>18. ASSUME NEW s \in Stabilize, check_dependencies(s)
      PROVE  dispatcher' \in DispatcherState
  BY <1>18 DEF check_dependencies, IInv, TypeOK, Chord_goes
<1>19. ASSUME NEW s \in Stabilize, NEW d \in Dependency, check_dependency(s, d)
      PROVE  dispatcher' \in DispatcherState
  BY <1>19 DEF check_dependency, IInv, TypeOK, Chord_goes
<1>20. ASSUME NEW s \in Stabilize, NEW d \in Dependency, check_dependency_failed(s, d)
      PROVE  dispatcher' \in DispatcherState
  BY <1>20 DEF check_dependency_failed, IInv, TypeOK, Chord_goes
<1>21. ASSUME NEW o \in Object, handle_failed_next(o)
      PROVE  dispatcher' \in DispatcherState
  BY <1>21 DEF handle_failed_next, IInv, TypeOK, Chord_goes
<1> QED
  BY <1>1, <1>2, <1>3, <1>4, <1>5, <1>6, <1>7, <1>8, <1>9, <1>10, <1>11, <1>12, <1>13,
     <1>14, <1>15, <1>16, <1>17, <1>18, <1>19, <1>20, <1>21
     DEF Next, chord_thread, dispatcher_thread, arrivals, clean, HandleNotification

(* Types are kept.                                                        *)
LEMMA TypeStep ==
    ASSUME IInv, Next
    PROVE  TypeOK'
<1>1. ASSUME NEW c \in CheckPredecessor, CheckPredecessor_create_request(c)
      PROVE  TypeOK'
  <2>1. c \in Object /\ waiting' \subseteq Object \X (Dependency \cup {None})
    BY <1>1 DEF CheckPredecessor_create_request, IInv, TypeOK, Object
  <2>2. active_messages' \in Seq(Object)
    <3>1. active_messages' = Append(active_messages, c)
      BY <1>1 DEF CheckPredecessor_create_request, Created
    <3>2. active_messages \in Seq(Object)
      BY DEF IInv, TypeOK
    <3> QED  BY <2>1, <3>1, <3>2
  <2>3. state' \in [Object -> {"none", "VALID", "DONE", "FAILED"}]
    BY <1>1, <2>1 DEF CheckPredecessor_create_request, Created, IInv, TypeOK
  <2>4. check_predecessor_flag' \in BOOLEAN
    BY <1>1 DEF CheckPredecessor_create_request, IInv, TypeOK
  <2> QED
    BY <1>1, <2>1, <2>2, <2>3, <2>4, ChordTypeStep, DispatcherTypeStep
       DEF CheckPredecessor_create_request, table, IInv, TypeOK
<1>2. CASE stabilize
  BY <1>2, ChordTypeStep, DispatcherTypeStep
     DEF stabilize, Chord_goes, Created, Fresh, Object, Dependency, None, IInv,
         TypeOK, vars, table, flags, objects, network
<1>3. ASSUME NEW o \in Object, clean_done(o)
      PROVE  TypeOK'
  BY <1>3, ChordTypeStep, DispatcherTypeStep
     DEF clean_done, Cleaning, Front, Last, IInv, TypeOK, ChordInv, vars, table,
         flags, objects, network
<1>4. ASSUME NEW o \in Object, handle_failed_next(o)
      PROVE  TypeOK'
  BY <1>4, PopFrontType, ChordTypeStep, DispatcherTypeStep
     DEF handle_failed_next, Operation, IInv, TypeOK, Object, vars, table, flags,
         objects, network
<1>5. ASSUME NEW peer \in Others, has_predecessor(peer)
      PROVE  TypeOK'
  BY <1>5, BoundAssumption, ChordTypeStep, DispatcherTypeStep
     DEF has_predecessor, Table_only, IInv, TypeOK, vars, table, flags, objects,
         network
<1>6. CASE set_predecessor
  BY <1>6, ChordTypeStep, DispatcherTypeStep
     DEF set_predecessor, Table_only, IInv, TypeOK, DispatcherState, vars, table,
         flags, objects, network
<1>7. CASE pop_or_lower
  BY <1>7, PopFrontType, ChordTypeStep, DispatcherTypeStep
     DEF pop_or_lower, Operation, IInv, TypeOK, vars, table, flags, objects, network
<1>8. CASE Stabilize_replace_successor_list
  <2>1. dispatcher.peers \in Seq(Peer) /\ dispatcher.read \in Peer
    BY DEF IInv, TypeOK, DispatcherState
  <2>2. New_list \in Seq(Peer)
    <3>1. <<dispatcher.read>> \in Seq(Peer) /\ Len(dispatcher.peers) \in Nat
      BY <2>1
    <3>2. Len(dispatcher.peers) > 1 => Tail(dispatcher.peers) \in Seq(Peer)
      BY <2>1
    <3> DEFINE tail == IF Len(dispatcher.peers) > 1 THEN Tail(dispatcher.peers)
                       ELSE dispatcher.peers
    <3>3. tail \in Seq(Peer)
      BY <2>1, <3>2
    <3>4. <<dispatcher.read>> \o tail \in Seq(Peer)
      BY <3>1, <3>3
    <3> QED  BY <2>1, <3>4 DEF New_list
  <2>3. successor_list' \in Seq(Peer) \ {<<>>}
    BY <1>8, <2>2, ResizeProperties
       DEF Stabilize_replace_successor_list, replace_successor_list
  <2> QED
    BY <1>8, <2>3, ChordTypeStep, DispatcherTypeStep
       DEF Stabilize_replace_successor_list, flags, objects, network, IInv, TypeOK
<1>9. CASE create_notification
  <2>1. dispatcher.object \in Stabilize
    BY <1>9 DEF create_notification, Create, Next_operation, Dispatcher_at, IInv, DispatcherInv
  <2>2. /\ "notify" \in Dependency
        /\ dependencies[dispatcher.object] \in Seq(Dependency)
    BY <2>1 DEF Dependency, IInv, TypeOK
  <2>3. <<"notify">> \o dependencies[dispatcher.object] \in Seq(Dependency)
    BY <2>2, CreatedDependency
  <2>4. dependencies' \in [Stabilize -> Seq(Dependency)]
    BY <1>9, <2>1, <2>3 DEF create_notification, Create, IInv, TypeOK
  <2>5. waiting' \subseteq Object \X (Dependency \cup {None})
    BY <1>9, <2>1, <2>2 DEF create_notification, Create, Object, IInv, TypeOK
  <2> QED
    BY <1>9, <2>4, <2>5, ChordTypeStep, DispatcherTypeStep
       DEF create_notification, Create, table, flags, IInv, TypeOK
<1>10. CASE create_get_self_and_succ_list
  <2>1. dispatcher.object \in Stabilize
    BY <1>10 DEF create_get_self_and_succ_list, Create, Next_operation, Dispatcher_at, IInv, DispatcherInv
  <2>2. /\ "get_self_and_succ_list" \in Dependency
        /\ dependencies[dispatcher.object] \in Seq(Dependency)
    BY <2>1 DEF Dependency, IInv, TypeOK
  <2>3. <<"get_self_and_succ_list">> \o dependencies[dispatcher.object] \in Seq(Dependency)
    BY <2>2, CreatedDependency
  <2>4. dependencies' \in [Stabilize -> Seq(Dependency)]
    BY <1>10, <2>1, <2>3 DEF create_get_self_and_succ_list, Create, IInv, TypeOK
  <2>5. waiting' \subseteq Object \X (Dependency \cup {None})
    BY <1>10, <2>1, <2>2 DEF create_get_self_and_succ_list, Create, Object, IInv, TypeOK
  <2> QED
    BY <1>10, <2>4, <2>5, ChordTypeStep, DispatcherTypeStep
       DEF create_get_self_and_succ_list, Create, table, flags, IInv, TypeOK
<1>11. CASE handle_empty_pred_and_succ_list_notify
  BY <1>11, ChordTypeStep, DispatcherTypeStep
     DEF handle_empty_pred_and_succ_list_notify, Handled, table, flags, network, IInv,
         TypeOK
<1>12. CASE handle_get_pred_and_succ_list_notify
  BY <1>12, ChordTypeStep, DispatcherTypeStep
     DEF handle_get_pred_and_succ_list_notify, Handled, table, flags, network, IInv,
         TypeOK
<1>13. CASE handle_get_self_and_succ_list_notify
  BY <1>13, ChordTypeStep, DispatcherTypeStep
     DEF handle_get_self_and_succ_list_notify, Handled, table, flags, network, IInv,
         TypeOK
<1>14. CASE handle_notification_notify
  BY <1>14, ChordTypeStep, DispatcherTypeStep
     DEF handle_notification_notify, Handled, Object, table, flags, network, IInv,
         TypeOK
<1>15. CASE CheckPredecessor_handle_response
  BY <1>15, ChordTypeStep, DispatcherTypeStep
     DEF CheckPredecessor_handle_response, Object, table, network, IInv, TypeOK
<1>16. ASSUME NEW s \in Stabilize, NEW d \in Dependency, check_dependency_failed(s, d)
      PROVE  TypeOK'
  BY <1>16, ChordTypeStep, DispatcherTypeStep
     DEF check_dependency_failed, table, flags, network, IInv, TypeOK
<1>17. ASSUME NEW o \in Object, check_state_expired(o)
      PROVE  TypeOK'
  BY <1>17, ChordTypeStep, DispatcherTypeStep
     DEF check_state_expired, table, flags, network, IInv, TypeOK
<1>18. CASE no_stabilize \/ no_check_predecessor \/ clean_end \/ any_of_next_freed
          \/ any_of_end \/ try_get_predecessor \/ push_back \/ handle_response_late
          \/ Notify_dead \/ try_get_successor
  BY <1>18, ChordTypeStep, DispatcherTypeStep
     DEF no_stabilize, no_check_predecessor, clean_end, any_of_next_freed, any_of_end,
         try_get_predecessor, push_back, handle_response_late, Notify_dead,
         try_get_successor, IInv, TypeOK, Table_only, vars, table, flags, objects,
         network
<1>19. ASSUME NEW o \in Object, clean_waiting(o)
      PROVE  TypeOK'
  BY <1>19, ChordTypeStep, DispatcherTypeStep
     DEF clean_waiting, IInv, TypeOK, Table_only, vars, table, flags, objects, network
<1>20. ASSUME NEW s \in Stabilize, check_dependencies(s)
      PROVE  TypeOK'
  BY <1>20, ChordTypeStep, DispatcherTypeStep
     DEF check_dependencies, IInv, TypeOK, Table_only, vars, table, flags, objects,
         network
<1>21. ASSUME NEW s \in Stabilize, NEW d \in Dependency, check_dependency(s, d)
      PROVE  TypeOK'
  BY <1>21, ChordTypeStep, DispatcherTypeStep
     DEF check_dependency, IInv, TypeOK, Table_only, vars, table, flags, objects,
         network
<1>22. ASSUME NEW request \in waiting, NEW peers \in Answers(request[2]), get_and_erase(request[1], request[2], peers)
      PROVE  TypeOK'
  BY <1>22, ChordTypeStep, DispatcherTypeStep
     DEF get_and_erase, IInv, TypeOK, Table_only, vars, table, flags, objects, network
<1> QED
  BY <1>1, <1>2, <1>3, <1>4, <1>5, <1>6, <1>7, <1>8, <1>9, <1>10, <1>11, <1>12, <1>13,
     <1>14, <1>15, <1>16, <1>17, <1>18, <1>19, <1>20, <1>21, <1>22
     DEF Next, chord_thread, dispatcher_thread, arrivals, clean, HandleNotification

(* The chord thread keeps what it has locked until it is done with it.    *)
LEMMA ChordStep ==
    ASSUME IInv, Next
    PROVE  ChordInv'
<1>1. CASE stabilize
  BY <1>1 DEF stabilize, Chord_goes, Chord_idle, IInv, ChordInv, Here
<1>2. CASE no_stabilize \/ no_check_predecessor \/ clean_end
  BY <1>2
     DEF no_stabilize, no_check_predecessor, clean_end, Chord_goes, Chord_idle, IInv,
         ChordInv, Here
<1>3. ASSUME NEW c \in CheckPredecessor, CheckPredecessor_create_request(c)
      PROVE  ChordInv'
  BY <1>3
     DEF CheckPredecessor_create_request, Chord_goes, Chord_idle, IInv, ChordInv, Here
<1>4. ASSUME NEW o \in Object, clean_done(o)
      PROVE  ChordInv'
  BY <1>4 DEF clean_done, Cleaning, Chord_at, objects, IInv, ChordInv, Here
<1>5. ASSUME NEW o \in Object, clean_waiting(o)
      PROVE  ChordInv'
  BY <1>5 DEF clean_waiting, Cleaning, Chord_at, objects, TypeOK, ChordState, IInv,
         ChordInv, Here
<1>6. ASSUME NEW o \in Object, check_state_expired(o)
      PROVE  ChordInv'
  BY <1>6, HandleFailedTodo
     DEF check_state_expired, Cleaning, Chord_at, TypeOK, ChordState, IInv, ChordInv,
         Here
<1>7. ASSUME NEW s \in Stabilize, check_dependencies(s)
      PROVE  ChordInv'
  BY <1>7
     DEF check_dependencies, Cleaning, Chord_at, objects, TypeOK, ChordState, IInv,
         ChordInv, Here
<1>8. ASSUME NEW s \in Stabilize, NEW d \in Dependency, check_dependency(s, d)
      PROVE  ChordInv'
  BY <1>8
     DEF check_dependency, Iterating, Chord_at, objects, TypeOK, ChordState, IInv,
         ChordInv, Here
<1>9. ASSUME NEW s \in Stabilize, NEW d \in Dependency, check_dependency_failed(s, d)
      PROVE  ChordInv'
  BY <1>9, HandleFailedTodo, ObjectsAssumption
     DEF check_dependency_failed, Iterating, Chord_at, Object, TypeOK, ChordState,
         IInv, ChordInv, Here
<1>10. CASE any_of_end
  BY <1>10 DEF any_of_end, Chord_at, objects, TypeOK, ChordState, IInv, ChordInv, Here
<1>11. ASSUME NEW o \in Object, handle_failed_next(o)
      PROVE  ChordInv'
  <2>1. /\ chord.at = "failing" /\ o = Here
        /\ chord.todo \in FailingTodo(o) /\ chord.it \in 1..Len(active_messages)
        /\ o \in CheckPredecessor => state[o] = "FAILED"
    BY <1>11 DEF handle_failed_next, Chord_at, IInv, ChordInv, Here
  <2>2. /\ chord'.it = chord.it /\ active_messages' = active_messages
        /\ chord'.todo = Tail(chord.todo)
        /\ chord'.at = IF Len(chord.todo) = 1 THEN "clean" ELSE "failing"
        /\ o \in CheckPredecessor => state'[o] = "FAILED"
    BY <1>11, <2>1 DEF handle_failed_next, IInv, TypeOK, ChordState
  <2>3. chord'.it # 0
    BY <2>2 DEF IInv, ChordInv
  <2>4. CASE Len(chord.todo) = 1
    BY <2>1, <2>2, <2>3, <2>4, FailingTodoSteps DEF ChordInv
  <2>5. CASE Len(chord.todo) # 1
    BY <2>1, <2>2, <2>3, <2>5, FailingTodoSteps DEF ChordInv, Here
  <2> QED  BY <2>4, <2>5
<1>12. CASE CheckPredecessor_handle_response
  BY <1>12 DEF CheckPredecessor_handle_response, TypeOK, IInv, ChordInv, Here
<1>13. CASE handle_notification_notify
  BY <1>13, ObjectsAssumption
     DEF handle_notification_notify, Handled, TypeOK, Object, IInv, ChordInv, Here
<1>14. CASE create_notification \/ create_get_self_and_succ_list
  BY <1>14 DEF create_notification, create_get_self_and_succ_list, Create, TypeOK,
         ChordState, IInv, ChordInv, Here
<1>15. CASE any_of_next_freed \/ try_get_predecessor \/ set_predecessor \/ push_back
          \/ handle_response_late \/ handle_empty_pred_and_succ_list_notify
          \/ handle_get_pred_and_succ_list_notify
          \/ handle_get_self_and_succ_list_notify \/ Notify_dead \/ pop_or_lower
          \/ try_get_successor \/ Stabilize_replace_successor_list
  BY <1>15 DEF any_of_next_freed, try_get_predecessor, set_predecessor, push_back,
         handle_response_late, handle_empty_pred_and_succ_list_notify,
         handle_get_pred_and_succ_list_notify, handle_get_self_and_succ_list_notify,
         Notify_dead, pop_or_lower, try_get_successor,
         Stabilize_replace_successor_list, Table_only, Handled, objects, IInv,
         ChordInv, Here
<1>16. ASSUME NEW peer \in Others, has_predecessor(peer)
      PROVE  ChordInv'
  BY <1>16 DEF has_predecessor, Table_only, Handled, objects, IInv, ChordInv, Here
<1>17. ASSUME NEW request \in waiting, NEW peers \in Answers(request[2]), get_and_erase(request[1], request[2], peers)
      PROVE  ChordInv'
  BY <1>17 DEF get_and_erase, Table_only, Handled, objects, IInv, ChordInv, Here
<1> QED
  BY <1>1, <1>2, <1>3, <1>4, <1>5, <1>6, <1>7, <1>8, <1>9, <1>10, <1>11, <1>12, <1>13,
     <1>14, <1>15, <1>16, <1>17
     DEF Next, chord_thread, dispatcher_thread, arrivals, clean, HandleNotification

(* A handler that runs, or waits for its lock, belongs to an object.      *)
LEMMA DispatcherStep ==
    ASSUME IInv, Next
    PROVE  DispatcherInv'
<1>1. CASE stabilize
  BY <1>1 DEF stabilize, Created, Fresh, Object, Dependency, Notified, TypeOK, IInv,
         DispatcherInv
<1>2. ASSUME NEW c \in CheckPredecessor, CheckPredecessor_create_request(c)
      PROVE  DispatcherInv'
  BY <1>2 DEF CheckPredecessor_create_request, Created, Fresh, Object, Dependency,
         Notified, TypeOK, IInv, DispatcherInv
<1>3. ASSUME NEW o \in Object, check_state_expired(o)
      PROVE  DispatcherInv'
  BY <1>3 DEF check_state_expired, Notified, TypeOK, IInv, DispatcherInv
<1>4. ASSUME NEW o \in Object, handle_failed_next(o)
      PROVE  DispatcherInv'
  BY <1>4 DEF handle_failed_next, Notified, TypeOK, IInv, DispatcherInv
<1>5. ASSUME NEW peer \in Others, has_predecessor(peer)
      PROVE  DispatcherInv'
  BY <1>5 DEF has_predecessor, Dispatcher_at, Table_only, Notified, objects, TypeOK,
         DispatcherState, IInv, DispatcherInv
<1>6. CASE try_get_predecessor \/ set_predecessor
  BY <1>6
     DEF try_get_predecessor, set_predecessor, Dispatcher_at, Table_only, Notified,
         objects, TypeOK, DispatcherState, IInv, DispatcherInv
<1>7. CASE push_back \/ Notify_dead
  BY <1>7 DEF push_back, Notify_dead, Dispatcher_idle, IInv, DispatcherInv
<1>8. CASE CheckPredecessor_handle_response
  BY <1>8 DEF CheckPredecessor_handle_response, Dispatcher_idle, IInv, DispatcherInv
<1>9. ASSUME NEW request \in waiting, NEW peers \in Answers(request[2]), get_and_erase(request[1], request[2], peers)
      PROVE  DispatcherInv'
  BY <1>9
     DEF get_and_erase, Dispatcher_at, Notified, Object, objects, WaitingInv, TypeOK,
         DispatcherState, IInv, DispatcherInv
<1>10. CASE handle_empty_pred_and_succ_list_notify
  BY <1>10
     DEF handle_empty_pred_and_succ_list_notify, Handled, Dispatcher_at, LoweringTodo,
         Notified, TypeOK, DispatcherState, IInv, DispatcherInv
<1>11. CASE handle_get_pred_and_succ_list_notify
  BY <1>11
     DEF handle_get_pred_and_succ_list_notify, Handled, Dispatcher_at, OtherTodo,
         Notified, TypeOK, DispatcherState, IInv, DispatcherInv
<1>12. CASE handle_get_self_and_succ_list_notify
  BY <1>12
     DEF handle_get_self_and_succ_list_notify, Handled, Dispatcher_at, LoweringTodo,
         Notified, TypeOK, DispatcherState, IInv, DispatcherInv
<1>13. CASE handle_notification_notify
  BY <1>13
     DEF handle_notification_notify, Handled, Dispatcher_idle, IInv, DispatcherInv
<1>14. CASE pop_or_lower
  <2>1. /\ dispatcher.at = "handling" /\ dispatcher.todo \in LoweringTodo \cup OtherTodo
        /\ Head(dispatcher.todo) \in {"pop_front", "lower_stabilize_flag"}
    BY <1>14 DEF pop_or_lower, Next_operation, Dispatcher_at, IInv, DispatcherInv
  <2>2. TodoStep(dispatcher.todo)
    BY <2>1, TodoSteps
  <2>3. \/ dispatcher' = Dispatcher_idle
        \/ dispatcher' = [dispatcher EXCEPT !.todo = Tail(@)] /\ Len(dispatcher.todo) # 1
    BY <1>14 DEF pop_or_lower, Done_operation
  <2>4. CASE dispatcher' = Dispatcher_idle
    BY <2>4 DEF DispatcherInv, Dispatcher_idle
  <2>5. CASE dispatcher' = [dispatcher EXCEPT !.todo = Tail(@)] /\ Len(dispatcher.todo) # 1
    <3>1. Tail(dispatcher.todo) \in LoweringTodo \cup {<<"create_notification">>}
      BY <2>1, <2>2, <2>5 DEF TodoStep, LoweringTodo
    <3>2. /\ dispatcher'.todo = Tail(dispatcher.todo)
          /\ dispatcher'.at = "handling" /\ dispatcher'.object = dispatcher.object
          /\ dispatcher'.dependency = dispatcher.dependency
      BY <2>1, <2>5 DEF IInv, TypeOK, DispatcherState
    <3>3. Tail(dispatcher.todo) # <<"replace_successor_list", "lower_stabilize_flag",
                                   "create_notification">>
      BY <2>1, <2>2, <2>5 DEF TodoStep
    <3>4. Tail(dispatcher.todo) \notin
            {<<"try_get_successor", "replace_successor_list">>, <<"replace_successor_list">>}
      BY <2>1, <2>2, <2>5 DEF TodoStep
    <3> QED
      BY <1>14, <2>1, <3>1, <3>2, <3>3, <3>4
         DEF DispatcherInv, IInv, OtherTodo, pop_or_lower, objects
  <2> QED  BY <2>3, <2>4, <2>5
<1>15. CASE create_notification
  <2>1. /\ dispatcher.at = "handling" /\ dispatcher.todo \in LoweringTodo \cup OtherTodo
        /\ Head(dispatcher.todo) = "create_notification"
    BY <1>15 DEF create_notification, Create, Next_operation, Dispatcher_at, IInv, DispatcherInv
  <2>2. TodoStep(dispatcher.todo)
    BY <2>1, TodoSteps
  <2>3. \/ dispatcher' = Dispatcher_idle
        \/ dispatcher' = [dispatcher EXCEPT !.todo = Tail(@)] /\ Len(dispatcher.todo) # 1
    BY <1>15 DEF create_notification, Create, Done_operation
  <2>4. CASE dispatcher' = Dispatcher_idle
    BY <2>4 DEF DispatcherInv, Dispatcher_idle
  <2>5. CASE dispatcher' = [dispatcher EXCEPT !.todo = Tail(@)] /\ Len(dispatcher.todo) # 1
    <3>1. Tail(dispatcher.todo) \in LoweringTodo \cup {<<"create_notification">>}
      BY <2>1, <2>2, <2>5 DEF TodoStep, LoweringTodo
    <3>2. /\ dispatcher'.todo = Tail(dispatcher.todo)
          /\ dispatcher'.at = "handling" /\ dispatcher'.object = dispatcher.object
          /\ dispatcher'.dependency = dispatcher.dependency
      BY <2>1, <2>5 DEF IInv, TypeOK, DispatcherState
    <3>3. Tail(dispatcher.todo) # <<"replace_successor_list", "lower_stabilize_flag",
                                   "create_notification">>
      BY <2>1, <2>2, <2>5 DEF TodoStep
    <3>4. Tail(dispatcher.todo) \notin
            {<<"try_get_successor", "replace_successor_list">>, <<"replace_successor_list">>}
      BY <2>1, <2>2, <2>5 DEF TodoStep
    <3> QED
      BY <1>15, <2>1, <3>1, <3>2, <3>3, <3>4
         DEF DispatcherInv, IInv, OtherTodo, create_notification, Create, objects
  <2> QED  BY <2>3, <2>4, <2>5
<1>16. CASE create_get_self_and_succ_list
  <2>1. /\ dispatcher.at = "handling" /\ dispatcher.todo \in LoweringTodo \cup OtherTodo
        /\ Head(dispatcher.todo) = "create_get_self_and_succ_list"
    BY <1>16 DEF create_get_self_and_succ_list, Create, Next_operation, Dispatcher_at, IInv, DispatcherInv
  <2>2. TodoStep(dispatcher.todo)
    BY <2>1, TodoSteps
  <2>3. \/ dispatcher' = Dispatcher_idle
        \/ dispatcher' = [dispatcher EXCEPT !.todo = Tail(@)] /\ Len(dispatcher.todo) # 1
    BY <1>16 DEF create_get_self_and_succ_list, Create, Done_operation
  <2>4. CASE dispatcher' = Dispatcher_idle
    BY <2>4 DEF DispatcherInv, Dispatcher_idle
  <2>5. CASE dispatcher' = [dispatcher EXCEPT !.todo = Tail(@)] /\ Len(dispatcher.todo) # 1
    <3>1. Tail(dispatcher.todo) \in LoweringTodo \cup {<<"create_notification">>}
      BY <2>1, <2>2, <2>5 DEF TodoStep, LoweringTodo
    <3>2. /\ dispatcher'.todo = Tail(dispatcher.todo)
          /\ dispatcher'.at = "handling" /\ dispatcher'.object = dispatcher.object
          /\ dispatcher'.dependency = dispatcher.dependency
      BY <2>1, <2>5 DEF IInv, TypeOK, DispatcherState
    <3>3. Tail(dispatcher.todo) # <<"replace_successor_list", "lower_stabilize_flag",
                                   "create_notification">>
      BY <2>1, <2>2, <2>5 DEF TodoStep
    <3>4. Tail(dispatcher.todo) \notin
            {<<"try_get_successor", "replace_successor_list">>, <<"replace_successor_list">>}
      BY <2>1, <2>2, <2>5 DEF TodoStep
    <3> QED
      BY <1>16, <2>1, <3>1, <3>2, <3>3, <3>4
         DEF DispatcherInv, IInv, OtherTodo, create_get_self_and_succ_list, Create, objects
  <2> QED  BY <2>3, <2>4, <2>5
<1>17. CASE try_get_successor
  <2>1. /\ dispatcher.at = "handling" /\ dispatcher.todo \in LoweringTodo \cup OtherTodo
        /\ Head(dispatcher.todo) = "try_get_successor"
    BY <1>17 DEF try_get_successor, Next_operation, Dispatcher_at, IInv, DispatcherInv
  <2>2. TodoStep(dispatcher.todo)
    BY <2>1, TodoSteps
  <2>3. /\ dispatcher'.todo = <<"replace_successor_list">>
        /\ dispatcher'.at = "handling" /\ dispatcher'.object = dispatcher.object
        /\ dispatcher'.dependency = dispatcher.dependency
    BY <1>17, <2>1, <2>2 DEF try_get_successor, TodoStep, IInv, TypeOK, DispatcherState
  <2>4. dispatcher.dependency # "get_self_and_succ_list"
    BY <2>1, <2>2 DEF TodoStep, IInv, DispatcherInv
  <2> QED
    BY <1>17, <2>1, <2>3, <2>4 DEF try_get_successor, objects, IInv, DispatcherInv, OtherTodo
<1>18. CASE Stabilize_replace_successor_list
  <2>1. /\ dispatcher.at = "handling" /\ dispatcher.todo \in LoweringTodo \cup OtherTodo
        /\ Head(dispatcher.todo) = "replace_successor_list"
    BY <1>18 DEF Stabilize_replace_successor_list, Next_operation, Dispatcher_at, IInv, DispatcherInv
  <2>2. TodoStep(dispatcher.todo)
    BY <2>1, TodoSteps
  <2>3. /\ dispatcher'.todo = After_replace
        /\ dispatcher'.at = "handling" /\ dispatcher'.object = dispatcher.object
        /\ dispatcher'.dependency = dispatcher.dependency
    BY <1>18, <2>1 DEF Stabilize_replace_successor_list, IInv, TypeOK, DispatcherState
  <2>4. CASE dispatcher.dependency = "get_self_and_succ_list"
    <3>1. After_replace = <<"lower_stabilize_flag", "create_notification">>
      BY <2>1, <2>2, <2>4 DEF After_replace, TodoStep, IInv, DispatcherInv
    <3> QED
      BY <1>18, <2>1, <2>3, <2>4, <3>1
         DEF Stabilize_replace_successor_list, objects, IInv, DispatcherInv, LoweringTodo
  <2>5. CASE dispatcher.dependency # "get_self_and_succ_list"
    <3>1. After_replace \in {<<"create_get_self_and_succ_list">>,
                            <<"create_notification", "lower_stabilize_flag">>}
      BY <2>5 DEF After_replace
    <3> QED
      BY <1>18, <2>1, <2>3, <2>5, <3>1
         DEF Stabilize_replace_successor_list, objects, IInv, DispatcherInv, LoweringTodo,
             OtherTodo
  <2> QED  BY <2>4, <2>5
<1>19. CASE no_stabilize \/ no_check_predecessor \/ clean_end \/ any_of_next_freed
          \/ any_of_end \/ handle_response_late
  BY <1>19
     DEF no_stabilize, no_check_predecessor, clean_end, any_of_next_freed, any_of_end,
         handle_response_late, Notified, objects, IInv, DispatcherInv
<1>20. ASSUME NEW o \in Object, clean_done(o)
      PROVE  DispatcherInv'
  BY <1>20 DEF clean_done, Notified, objects, IInv, DispatcherInv
<1>21. ASSUME NEW o \in Object, clean_waiting(o)
      PROVE  DispatcherInv'
  BY <1>21 DEF clean_waiting, Notified, objects, IInv, DispatcherInv
<1>22. ASSUME NEW s \in Stabilize, check_dependencies(s)
      PROVE  DispatcherInv'
  BY <1>22 DEF check_dependencies, Notified, objects, IInv, DispatcherInv
<1>23. ASSUME NEW s \in Stabilize, NEW d \in Dependency, check_dependency(s, d)
      PROVE  DispatcherInv'
  BY <1>23 DEF check_dependency, Notified, objects, IInv, DispatcherInv
<1>24. ASSUME NEW s \in Stabilize, NEW d \in Dependency, check_dependency_failed(s, d)
      PROVE  DispatcherInv'
  BY <1>24 DEF check_dependency_failed, Notified, objects, IInv, DispatcherInv
<1> QED
  BY <1>1, <1>2, <1>3, <1>4, <1>5, <1>6, <1>7, <1>8, <1>9, <1>10, <1>11, <1>12, <1>13,
     <1>14, <1>15, <1>16, <1>17, <1>18, <1>19, <1>20, <1>21, <1>22, <1>23, <1>24
     DEF Next, chord_thread, dispatcher_thread, arrivals, clean, HandleNotification

(* What is waited for has been asked.                                     *)
LEMMA WaitingStep ==
    ASSUME IInv, Next
    PROVE  WaitingInv'
<1>1. CASE stabilize
  BY <1>1 DEF stabilize, Created, Fresh, Object, Dependency, Notified, TypeOK, IInv,
         WaitingInv
<1>2. ASSUME NEW c \in CheckPredecessor, CheckPredecessor_create_request(c)
      PROVE  WaitingInv'
  BY <1>2, ObjectsAssumption
     DEF CheckPredecessor_create_request, Created, Fresh, Object, Dependency,
         Notified, TypeOK, IInv, WaitingInv
<1>3. ASSUME NEW o \in Object, clean_done(o)
      PROVE  WaitingInv'
  BY <1>3 DEF clean_done, Notified, IInv, WaitingInv
<1>4. ASSUME NEW o \in Object, check_state_expired(o)
      PROVE  WaitingInv'
  BY <1>4 DEF check_state_expired, network, Notified, TypeOK, IInv, WaitingInv
<1>5. ASSUME NEW o \in Object, handle_failed_next(o)
      PROVE  WaitingInv'
  BY <1>5 DEF handle_failed_next, network, Notified, TypeOK, IInv, WaitingInv
<1>6. ASSUME NEW request \in waiting, NEW peers \in Answers(request[2]), get_and_erase(request[1], request[2], peers)
      PROVE  WaitingInv'
  BY <1>6 DEF get_and_erase, objects, Notified, IInv, WaitingInv
<1>7. CASE CheckPredecessor_handle_response
  BY <1>7
     DEF CheckPredecessor_handle_response, network, Notified, TypeOK, IInv, WaitingInv
<1>8. CASE handle_notification_notify
  BY <1>8 DEF handle_notification_notify, Handled, network, Notified, TypeOK, IInv,
         WaitingInv
<1>9. CASE create_notification
  <2>1. /\ dispatcher.object \in Stabilize /\ state[dispatcher.object] # "none"
        /\ dependencies[dispatcher.object] \in Seq(Dependency)
    BY <1>9 DEF create_notification, Create, Next_operation, Dispatcher_at, IInv, DispatcherInv,
              TypeOK
  <2>2. Range(dependencies'[dispatcher.object])
          = {"notify"} \cup Range(dependencies[dispatcher.object])
    BY <1>9, <2>1, CreatedDependency DEF create_notification, Create, Dependency, IInv, TypeOK
  <2>3. \A s \in Stabilize \ {dispatcher.object} : dependencies'[s] = dependencies[s]
    BY <1>9 DEF create_notification, Create, IInv, TypeOK
  <2>4. waiting' = waiting \cup {<<dispatcher.object, "notify">>} /\ state' = state
    BY <1>9 DEF create_notification, Create
  <2> QED
    BY <2>1, <2>2, <2>3, <2>4 DEF WaitingInv, Notified, Dependency, IInv
<1>10. CASE create_get_self_and_succ_list
  <2>1. /\ dispatcher.object \in Stabilize /\ state[dispatcher.object] # "none"
        /\ dependencies[dispatcher.object] \in Seq(Dependency)
    BY <1>10 DEF create_get_self_and_succ_list, Create, Next_operation, Dispatcher_at, IInv, DispatcherInv,
              TypeOK
  <2>2. Range(dependencies'[dispatcher.object])
          = {"get_self_and_succ_list"} \cup Range(dependencies[dispatcher.object])
    BY <1>10, <2>1, CreatedDependency DEF create_get_self_and_succ_list, Create, Dependency, IInv, TypeOK
  <2>3. \A s \in Stabilize \ {dispatcher.object} : dependencies'[s] = dependencies[s]
    BY <1>10 DEF create_get_self_and_succ_list, Create, IInv, TypeOK
  <2>4. waiting' = waiting \cup {<<dispatcher.object, "get_self_and_succ_list">>} /\ state' = state
    BY <1>10 DEF create_get_self_and_succ_list, Create
  <2> QED
    BY <2>1, <2>2, <2>3, <2>4 DEF WaitingInv, Notified, Dependency, IInv
<1>11. CASE no_stabilize \/ no_check_predecessor \/ clean_end \/ any_of_next_freed
          \/ any_of_end \/ try_get_predecessor \/ set_predecessor \/ push_back
          \/ handle_response_late \/ handle_empty_pred_and_succ_list_notify
          \/ handle_get_pred_and_succ_list_notify
          \/ handle_get_self_and_succ_list_notify \/ Notify_dead \/ pop_or_lower
          \/ try_get_successor \/ Stabilize_replace_successor_list
  BY <1>11
     DEF no_stabilize, no_check_predecessor, clean_end, any_of_next_freed, any_of_end,
         try_get_predecessor, set_predecessor, push_back, handle_response_late,
         handle_empty_pred_and_succ_list_notify, handle_get_pred_and_succ_list_notify,
         handle_get_self_and_succ_list_notify, Notify_dead, pop_or_lower,
         try_get_successor, Stabilize_replace_successor_list, Handled, Table_only,
         objects, network, Notified, IInv, WaitingInv
<1>12. ASSUME NEW o \in Object, clean_waiting(o)
      PROVE  WaitingInv'
  BY <1>12 DEF clean_waiting, Handled, Table_only, objects, network, Notified, IInv,
         WaitingInv
<1>13. ASSUME NEW s \in Stabilize, check_dependencies(s)
      PROVE  WaitingInv'
  BY <1>13
     DEF check_dependencies, Handled, Table_only, objects, network, Notified, IInv,
         WaitingInv
<1>14. ASSUME NEW s \in Stabilize, NEW d \in Dependency, check_dependency(s, d)
      PROVE  WaitingInv'
  BY <1>14
     DEF check_dependency, Handled, Table_only, objects, network, Notified, IInv,
         WaitingInv
<1>15. ASSUME NEW s \in Stabilize, NEW d \in Dependency, check_dependency_failed(s, d)
      PROVE  WaitingInv'
  BY <1>15
     DEF check_dependency_failed, Handled, Table_only, objects, network, Notified,
         IInv, WaitingInv
<1>16. ASSUME NEW peer \in Others, has_predecessor(peer)
      PROVE  WaitingInv'
  BY <1>16 DEF has_predecessor, Handled, Table_only, objects, network, Notified, IInv,
         WaitingInv
<1> QED
  BY <1>1, <1>2, <1>3, <1>4, <1>5, <1>6, <1>7, <1>8, <1>9, <1>10, <1>11, <1>12, <1>13,
     <1>14, <1>15, <1>16
     DEF Next, chord_thread, dispatcher_thread, arrivals, clean, HandleNotification

(* A notification that is about to set the predecessor may do so.         *)
LEMMA RectifyStep ==
    ASSUME IInv, Next
    PROVE  RectifyInv'
<1>1. ASSUME NEW o \in Object, handle_failed_next(o)
      PROVE  RectifyInv'
  BY <1>1 DEF handle_failed_next, Operation, IInv, RectifyInv
<1>2. ASSUME NEW peer \in Others, has_predecessor(peer)
      PROVE  RectifyInv'
  BY <1>2 DEF has_predecessor, TypeOK, DispatcherState, IInv, RectifyInv
<1>3. CASE try_get_predecessor
  BY <1>3 DEF try_get_predecessor, Read_predecessor, TypeOK, DispatcherState, IInv,
         RectifyInv
<1>4. CASE set_predecessor
  BY <1>4 DEF set_predecessor, TypeOK, DispatcherState, IInv, RectifyInv
<1>5. CASE push_back \/ Notify_dead
  BY <1>5 DEF push_back, Notify_dead, Dispatcher_idle, IInv, RectifyInv
<1>6. CASE CheckPredecessor_handle_response
  BY <1>6 DEF CheckPredecessor_handle_response, Dispatcher_idle, IInv, RectifyInv
<1>7. ASSUME NEW request \in waiting, NEW peers \in Answers(request[2]), get_and_erase(request[1], request[2], peers)
      PROVE  RectifyInv'
  BY <1>7 DEF get_and_erase, Dispatcher_at, table, TypeOK, DispatcherState, IInv,
         RectifyInv
<1>8. CASE handle_empty_pred_and_succ_list_notify
          \/ handle_get_pred_and_succ_list_notify
  BY <1>8
     DEF handle_empty_pred_and_succ_list_notify, handle_get_pred_and_succ_list_notify,
         Handled, TypeOK, DispatcherState, IInv, RectifyInv
<1>9. CASE handle_get_self_and_succ_list_notify
  BY <1>9
     DEF handle_get_self_and_succ_list_notify, Handled, TypeOK, DispatcherState, IInv,
         RectifyInv
<1>10. CASE handle_notification_notify
  BY <1>10 DEF handle_notification_notify, Handled, Dispatcher_idle, RectifyInv
<1>11. CASE pop_or_lower
  BY <1>11
     DEF pop_or_lower, Next_operation, Dispatcher_at, Done_operation, Dispatcher_idle,
         TypeOK, DispatcherState, IInv, RectifyInv
<1>12. CASE create_notification \/ create_get_self_and_succ_list
  BY <1>12
     DEF create_notification, create_get_self_and_succ_list, Create, Next_operation,
         Dispatcher_at, Done_operation, Dispatcher_idle, TypeOK, DispatcherState,
         IInv, RectifyInv
<1>13. CASE try_get_successor \/ Stabilize_replace_successor_list
  BY <1>13 DEF try_get_successor, Stabilize_replace_successor_list, Next_operation,
         Dispatcher_at, TypeOK, DispatcherState, IInv, RectifyInv
<1>14. CASE stabilize \/ no_stabilize \/ no_check_predecessor \/ clean_end
          \/ any_of_next_freed \/ any_of_end \/ handle_response_late
  BY <1>14
     DEF stabilize, no_stabilize, no_check_predecessor, clean_end, any_of_next_freed,
         any_of_end, handle_response_late, table, IInv, RectifyInv
<1>15. ASSUME NEW c \in CheckPredecessor, CheckPredecessor_create_request(c)
      PROVE  RectifyInv'
  BY <1>15 DEF CheckPredecessor_create_request, table, IInv, RectifyInv
<1>16. ASSUME NEW o \in Object, clean_done(o)
      PROVE  RectifyInv'
  BY <1>16 DEF clean_done, table, IInv, RectifyInv
<1>17. ASSUME NEW o \in Object, clean_waiting(o)
      PROVE  RectifyInv'
  BY <1>17 DEF clean_waiting, table, IInv, RectifyInv
<1>18. ASSUME NEW o \in Object, check_state_expired(o)
      PROVE  RectifyInv'
  BY <1>18 DEF check_state_expired, table, IInv, RectifyInv
<1>19. ASSUME NEW s \in Stabilize, check_dependencies(s)
      PROVE  RectifyInv'
  BY <1>19 DEF check_dependencies, table, IInv, RectifyInv
<1>20. ASSUME NEW s \in Stabilize, NEW d \in Dependency, check_dependency(s, d)
      PROVE  RectifyInv'
  BY <1>20 DEF check_dependency, table, IInv, RectifyInv
<1>21. ASSUME NEW s \in Stabilize, NEW d \in Dependency, check_dependency_failed(s, d)
      PROVE  RectifyInv'
  BY <1>21 DEF check_dependency_failed, table, IInv, RectifyInv
<1> QED
  BY <1>1, <1>2, <1>3, <1>4, <1>5, <1>6, <1>7, <1>8, <1>9, <1>10, <1>11, <1>12, <1>13,
     <1>14, <1>15, <1>16, <1>17, <1>18, <1>19, <1>20, <1>21
     DEF Next, chord_thread, dispatcher_thread, arrivals, clean, HandleNotification

(* A check of the predecessor that is marked as running does run.         *)
LEMMA CheckFlagStep ==
    ASSUME IInv, Next
    PROVE  CheckFlagInv'
<1>1. CASE stabilize
  BY <1>1, ObjectsAssumption
     DEF stabilize, Created, Chord_at, Chord_goes, Chord_idle, Fresh, Object, TypeOK,
         IInv, CheckFlagInv
<1>2. CASE no_stabilize \/ no_check_predecessor \/ clean_end
  BY <1>2 DEF no_stabilize, no_check_predecessor, clean_end, Chord_at, flags, objects,
         IInv, CheckFlagInv
<1>3. ASSUME NEW c \in CheckPredecessor, CheckPredecessor_create_request(c)
      PROVE  CheckFlagInv'
  BY <1>3
     DEF CheckPredecessor_create_request, Created, Fresh, Object, TypeOK, Chord_at,
         IInv, CheckFlagInv
<1>4. ASSUME NEW o \in Object, clean_done(o)
      PROVE  CheckFlagInv'
  BY <1>4 DEF clean_done, Cleaning, Chord_at, flags, IInv, CheckFlagInv
<1>5. ASSUME NEW o \in Object, clean_waiting(o)
      PROVE  CheckFlagInv'
  BY <1>5 DEF clean_waiting, Cleaning, Chord_at, flags, objects, IInv, CheckFlagInv
<1>6. ASSUME NEW o \in Object, check_state_expired(o)
      PROVE  CheckFlagInv'
  BY <1>6 DEF check_state_expired, Cleaning, Chord_at, Here, Object, flags, TypeOK,
         ChordState, IInv, CheckFlagInv
<1>7. ASSUME NEW s \in Stabilize, check_dependencies(s)
      PROVE  CheckFlagInv'
  BY <1>7
     DEF check_dependencies, Cleaning, Chord_at, flags, objects, IInv, CheckFlagInv
<1>8. ASSUME NEW s \in Stabilize, NEW d \in Dependency, check_dependency(s, d)
      PROVE  CheckFlagInv'
  BY <1>8
     DEF check_dependency, Iterating, Chord_at, flags, objects, IInv, CheckFlagInv
<1>9. ASSUME NEW s \in Stabilize, NEW d \in Dependency, check_dependency_failed(s, d)
      PROVE  CheckFlagInv'
  BY <1>9 DEF check_dependency_failed, Iterating, Chord_at, flags, IInv, CheckFlagInv
<1>10. CASE any_of_end
  BY <1>10 DEF any_of_end, Chord_at, flags, objects, IInv, CheckFlagInv
<1>11. ASSUME NEW o \in Object, handle_failed_next(o)
      PROVE  CheckFlagInv'
  <2>1. /\ chord.at = "failing" /\ o = Here
        /\ chord.todo \in FailingTodo(o)
        /\ Here \in CheckPredecessor => state[Here] = "FAILED"
    BY <1>11 DEF handle_failed_next, Chord_at, IInv, ChordInv, Here
  <2>2. /\ Here' = Here
        /\ chord'.at = IF Len(chord.todo) = 1 THEN "clean" ELSE "failing"
    BY <1>11 DEF handle_failed_next, IInv, TypeOK, ChordState, Here
  <2>3. CASE o \in CheckPredecessor /\ Len(chord.todo) = 1
    <3>1. ~check_predecessor_flag'
      BY <1>11, <2>1, <2>3, FailingTodoSteps DEF handle_failed_next, Operation
    <3> QED  BY <3>1 DEF CheckFlagInv
  <2>4. CASE o \in CheckPredecessor /\ Len(chord.todo) # 1
    BY <2>1, <2>2, <2>4 DEF CheckFlagInv
  <2>5. CASE o \notin CheckPredecessor
    <3>1. \A c \in CheckPredecessor : state'[c] = state[c]
      BY <1>11, <2>5 DEF handle_failed_next, Object, IInv, TypeOK
    <3> QED
      BY <1>11, <2>1, <2>5, <3>1 DEF handle_failed_next, Operation, IInv, CheckFlagInv
  <2> QED  BY <2>3, <2>4, <2>5
<1>12. CASE CheckPredecessor_handle_response
  BY <1>12 DEF CheckPredecessor_handle_response, IInv, CheckFlagInv
<1>13. CASE handle_notification_notify
  BY <1>13, ObjectsAssumption
     DEF handle_notification_notify, Handled, flags, Here, Object, TypeOK, IInv,
         CheckFlagInv
<1>14. CASE pop_or_lower
  BY <1>14 DEF pop_or_lower, Operation, objects, Here, IInv, CheckFlagInv
<1>15. CASE create_notification \/ create_get_self_and_succ_list
  BY <1>15
     DEF create_notification, create_get_self_and_succ_list, Create, flags, Here,
         TypeOK, ChordState, IInv, CheckFlagInv
<1>16. CASE any_of_next_freed \/ try_get_predecessor \/ set_predecessor \/ push_back
          \/ handle_response_late \/ handle_empty_pred_and_succ_list_notify
          \/ handle_get_pred_and_succ_list_notify
          \/ handle_get_self_and_succ_list_notify \/ Notify_dead \/ try_get_successor
          \/ Stabilize_replace_successor_list
  BY <1>16 DEF any_of_next_freed, try_get_predecessor, set_predecessor, push_back,
         handle_response_late, handle_empty_pred_and_succ_list_notify,
         handle_get_pred_and_succ_list_notify, handle_get_self_and_succ_list_notify,
         Notify_dead, try_get_successor, Stabilize_replace_successor_list, Handled,
         Table_only, flags, objects, Here, IInv, CheckFlagInv
<1>17. ASSUME NEW peer \in Others, has_predecessor(peer)
      PROVE  CheckFlagInv'
  BY <1>17 DEF has_predecessor, Handled, Table_only, flags, objects, Here, IInv,
         CheckFlagInv
<1>18. ASSUME NEW request \in waiting, NEW peers \in Answers(request[2]), get_and_erase(request[1], request[2], peers)
      PROVE  CheckFlagInv'
  BY <1>18
     DEF get_and_erase, Handled, Table_only, flags, objects, Here, IInv, CheckFlagInv
<1> QED
  BY <1>1, <1>2, <1>3, <1>4, <1>5, <1>6, <1>7, <1>8, <1>9, <1>10, <1>11, <1>12, <1>13,
     <1>14, <1>15, <1>16, <1>17, <1>18
     DEF Next, chord_thread, dispatcher_thread, arrivals, clean, HandleNotification

(* A raised stabilize_flag_ has somebody who lowers it.                   *)
LEMMA StabilizeFlagStep ==
    ASSUME IInv, Next
    PROVE  StabilizeFlagInv'
<1>1. CASE stabilize
  <2>1. PICK s \in Stabilize :
          /\ state[s] = "none" /\ state' = [state EXCEPT ![s] = "VALID"]
          /\ dependencies' = [dependencies EXCEPT ![s] = <<"get_pred_and_succ_list">>]
    BY <1>1 DEF stabilize, Created, Fresh
  <2>2. state'[s] = "VALID" /\ dependencies'[s] = <<"get_pred_and_succ_list">>
    BY <2>1 DEF Object, IInv, TypeOK
  <2>3. "notify" \notin Range(<<"get_pred_and_succ_list">>)
    BY DEF Range
  <2>4. ~About(s)'
    BY <1>1, <2>1 DEF stabilize, About, IInv, DispatcherInv
  <2>5. Owns(s)'
    BY <2>2, <2>3, <2>4 DEF Owns, Notified
  <2> QED  BY <2>1, <2>5 DEF StabilizeFlagInv
<1>2. CASE no_stabilize \/ no_check_predecessor \/ clean_end
  BY <1>2 DEF no_stabilize, no_check_predecessor, clean_end, Chord_at, flags, objects,
         Owns, Notified, About, IInv, StabilizeFlagInv
<1>3. ASSUME NEW c \in CheckPredecessor, CheckPredecessor_create_request(c)
      PROVE  StabilizeFlagInv'
  <2>1. \A s \in Stabilize : Owns(s) => Owns(s)'
    BY <1>3, ObjectsAssumption
       DEF CheckPredecessor_create_request, Created, Owns, Notified, About, Object, IInv, TypeOK
  <2> QED
    BY <1>3, <2>1 DEF CheckPredecessor_create_request, Chord_at, IInv, StabilizeFlagInv
<1>4. ASSUME NEW o \in Object, clean_done(o)
      PROVE  StabilizeFlagInv'
  BY <1>4 DEF clean_done, Cleaning, Chord_at, flags, Owns, Notified, About, IInv,
         StabilizeFlagInv
<1>5. ASSUME NEW o \in Object, clean_waiting(o)
      PROVE  StabilizeFlagInv'
  BY <1>5
     DEF clean_waiting, Cleaning, Chord_at, flags, objects, Owns, Notified, About,
         IInv, StabilizeFlagInv
<1>6. ASSUME NEW o \in Object, check_state_expired(o)
      PROVE  StabilizeFlagInv'
  <2>1. CASE o \in Stabilize
    BY <1>6, <2>1
       DEF check_state_expired, Cleaning, Here, IInv, TypeOK, ChordState, StabilizeFlagInv
  <2>2. CASE o \notin Stabilize
    <3>1. \A s \in Stabilize : Owns(s) => Owns(s)'
      BY <1>6, <2>2 DEF check_state_expired, Owns, Notified, About, Object, IInv, TypeOK
    <3> QED
      BY <1>6, <3>1 DEF check_state_expired, Cleaning, Chord_at, flags, IInv, StabilizeFlagInv
  <2> QED  BY <2>1, <2>2
<1>7. ASSUME NEW s \in Stabilize, check_dependencies(s)
      PROVE  StabilizeFlagInv'
  BY <1>7 DEF check_dependencies, Cleaning, Chord_at, flags, objects, Owns, Notified,
         About, IInv, StabilizeFlagInv
<1>8. ASSUME NEW s \in Stabilize, NEW d \in Dependency, check_dependency(s, d)
      PROVE  StabilizeFlagInv'
  BY <1>8
     DEF check_dependency, Iterating, Chord_at, flags, objects, Owns, Notified, About,
         IInv, StabilizeFlagInv
<1>9. ASSUME NEW s \in Stabilize, NEW d \in Dependency, check_dependency_failed(s, d)
      PROVE  StabilizeFlagInv'
  BY <1>9 DEF check_dependency_failed, Iterating, Here, TypeOK, ChordState, IInv,
         StabilizeFlagInv
<1>10. CASE any_of_end
  BY <1>10 DEF any_of_end, Chord_at, flags, objects, Owns, Notified, About, IInv,
         StabilizeFlagInv
<1>11. ASSUME NEW o \in Object, handle_failed_next(o)
      PROVE  StabilizeFlagInv'
  <2>1. /\ chord.at = "failing" /\ o = Here
        /\ chord.todo \in FailingTodo(o)
    BY <1>11 DEF handle_failed_next, Chord_at, IInv, ChordInv, Here
  <2>2. /\ Here' = Here
        /\ chord'.at = IF Len(chord.todo) = 1 THEN "clean" ELSE "failing"
    BY <1>11 DEF handle_failed_next, IInv, TypeOK, ChordState, Here
  <2>3. CASE o \in Stabilize /\ Len(chord.todo) = 1
    <3>1. ~stabilize_flag'
      BY <1>11, <2>1, <2>3, FailingTodoSteps, ObjectsAssumption
         DEF handle_failed_next, Operation
    <3> QED  BY <3>1 DEF StabilizeFlagInv
  <2>4. CASE o \in Stabilize /\ Len(chord.todo) # 1
    BY <2>1, <2>2, <2>4 DEF StabilizeFlagInv
  <2>5. CASE o \notin Stabilize
    <3>1. \A s \in Stabilize : Owns(s) => Owns(s)'
      BY <1>11, <2>5 DEF handle_failed_next, Owns, Notified, About, Object, IInv, TypeOK
    <3> QED
      BY <1>11, <2>1, <2>5, <3>1 DEF handle_failed_next, Operation, IInv, StabilizeFlagInv
  <2> QED  BY <2>3, <2>4, <2>5
<1>12. ASSUME NEW peer \in Others, has_predecessor(peer)
      PROVE  StabilizeFlagInv'
  BY <1>12
     DEF has_predecessor, Dispatcher_at, Table_only, flags, objects, Here, TypeOK,
         DispatcherState, Owns, Notified, About, IInv, StabilizeFlagInv
<1>13. CASE try_get_predecessor \/ set_predecessor
  BY <1>13 DEF try_get_predecessor, set_predecessor, Dispatcher_at, Table_only, flags,
         objects, Here, TypeOK, DispatcherState, Owns, Notified, About, IInv,
         StabilizeFlagInv
<1>14. CASE push_back
  BY <1>14
     DEF push_back, Dispatcher_at, Dispatcher_idle, Table_only, flags, objects, Here,
         Owns, Notified, About, IInv, StabilizeFlagInv
<1>15. CASE Notify_dead
  BY <1>15
     DEF Notify_dead, Dispatcher_at, Dispatcher_idle, flags, objects, Here, Owns,
         Notified, About, IInv, StabilizeFlagInv
<1>16. ASSUME NEW request \in waiting, NEW peers \in Answers(request[2]), get_and_erase(request[1], request[2], peers)
      PROVE  StabilizeFlagInv'
  BY <1>16
     DEF get_and_erase, Dispatcher_at, flags, objects, Here, TypeOK, DispatcherState,
         Owns, Notified, About, IInv, StabilizeFlagInv
<1>17. CASE CheckPredecessor_handle_response
  <2>1. \A s \in Stabilize : Owns(s) => Owns(s)'
    BY <1>17, ObjectsAssumption
       DEF CheckPredecessor_handle_response, Dispatcher_idle, Owns, Notified, About, Object,
           IInv, TypeOK
  <2> QED
    BY <1>17, <2>1
       DEF CheckPredecessor_handle_response, Dispatcher_at, Here, IInv, StabilizeFlagInv
<1>18. CASE handle_empty_pred_and_succ_list_notify
  BY <1>18 DEF handle_empty_pred_and_succ_list_notify, Handled, LoweringTodo, TypeOK,
         DispatcherState, IInv, StabilizeFlagInv
<1>19. CASE handle_get_self_and_succ_list_notify
  BY <1>19 DEF handle_get_self_and_succ_list_notify, Handled, LoweringTodo, TypeOK,
         DispatcherState, IInv, StabilizeFlagInv
<1>20. CASE handle_get_pred_and_succ_list_notify
  BY <1>20
     DEF handle_get_pred_and_succ_list_notify, Handled, Dispatcher_at, flags, Here,
         TypeOK, DispatcherState, Owns, Notified, About, IInv, StabilizeFlagInv
<1>21. CASE handle_notification_notify
  <2>1. /\ dispatcher.at = "locked" /\ dispatcher.object \in Stabilize
        /\ Notified(dispatcher.object)
    BY <1>21 DEF handle_notification_notify, Handled, Dispatcher_at, IInv, DispatcherInv
  <2>2. \A s \in Stabilize : Owns(s) => Owns(s)'
    BY <1>21, <2>1
       DEF handle_notification_notify, Handled, Dispatcher_idle, Owns, Notified, About, Object,
           IInv, TypeOK
  <2> QED
    BY <1>21, <2>1, <2>2
       DEF handle_notification_notify, Handled, flags, Here, IInv, StabilizeFlagInv
<1>22. CASE pop_or_lower
  <2>1. /\ dispatcher.at = "handling" /\ dispatcher.todo \in LoweringTodo \cup OtherTodo
        /\ Head(dispatcher.todo) \in {"pop_front", "lower_stabilize_flag"}
    BY <1>22 DEF pop_or_lower, Next_operation, Dispatcher_at, IInv, DispatcherInv
  <2>2. TodoStep(dispatcher.todo)
    BY <2>1, TodoSteps
  <2>3. CASE Head(dispatcher.todo) = "lower_stabilize_flag"
    <3>1. ~stabilize_flag'
      BY <1>22, <2>3 DEF pop_or_lower, Next_operation, Operation
    <3> QED  BY <3>1 DEF StabilizeFlagInv
  <2>4. CASE Head(dispatcher.todo) = "pop_front"
    <3>1. /\ dispatcher'.at = "handling"
          /\ dispatcher'.todo = <<"lower_stabilize_flag", "create_notification">>
      BY <1>22, <2>1, <2>2, <2>4
         DEF pop_or_lower, Done_operation, TodoStep, IInv, TypeOK, DispatcherState
    <3> QED  BY <3>1 DEF StabilizeFlagInv, LoweringTodo
  <2> QED  BY <2>1, <2>3, <2>4
<1>23. CASE try_get_successor
  <2>1. /\ dispatcher.at = "handling" /\ dispatcher.todo \in LoweringTodo \cup OtherTodo
        /\ Head(dispatcher.todo) = "try_get_successor"
    BY <1>23 DEF try_get_successor, Next_operation, Dispatcher_at, IInv, DispatcherInv
  <2>2. TodoStep(dispatcher.todo)
    BY <2>1, TodoSteps
  <2>3. /\ dispatcher'.at = "handling" /\ dispatcher'.object = dispatcher.object
        /\ dispatcher'.todo = <<"replace_successor_list">>
    BY <1>23, <2>1, <2>2 DEF try_get_successor, TodoStep, IInv, TypeOK, DispatcherState
  <2>4. dispatcher.todo \notin LoweringTodo
    BY <2>1, <2>2 DEF TodoStep, LoweringTodo
  <2>5. \A s \in Stabilize : Owns(s) => Owns(s)'
    BY <1>23, <2>3 DEF try_get_successor, objects, Owns, Notified, About
  <2> QED
    BY <1>23, <2>4, <2>5 DEF try_get_successor, flags, objects, Here, IInv, StabilizeFlagInv
<1>24. CASE Stabilize_replace_successor_list
  <2>1. /\ dispatcher.at = "handling" /\ dispatcher.todo \in LoweringTodo \cup OtherTodo
        /\ Head(dispatcher.todo) = "replace_successor_list"
    BY <1>24 DEF Stabilize_replace_successor_list, Next_operation, Dispatcher_at, IInv, DispatcherInv
  <2>2. TodoStep(dispatcher.todo)
    BY <2>1, TodoSteps
  <2>3. /\ dispatcher'.at = "handling" /\ dispatcher'.object = dispatcher.object
        /\ dispatcher'.todo = After_replace
    BY <1>24, <2>1 DEF Stabilize_replace_successor_list, IInv, TypeOK, DispatcherState
  <2>4. CASE dispatcher.dependency = "get_self_and_succ_list"
    <3>1. After_replace = <<"lower_stabilize_flag", "create_notification">>
      BY <2>1, <2>2, <2>4 DEF After_replace, TodoStep, IInv, DispatcherInv
    <3> QED  BY <2>3, <3>1 DEF StabilizeFlagInv, LoweringTodo
  <2>5. CASE dispatcher.dependency # "get_self_and_succ_list"
    <3>1. dispatcher.todo = <<"replace_successor_list">>
      BY <2>1, <2>2, <2>5 DEF TodoStep, IInv, DispatcherInv
    <3>2. dispatcher.todo \notin LoweringTodo
      BY <3>1 DEF LoweringTodo
    <3>3. After_replace \in {<<"create_get_self_and_succ_list">>,
                            <<"create_notification", "lower_stabilize_flag">>}
      BY <2>5 DEF After_replace
    <3>4. \A s \in Stabilize : Owns(s) => Owns(s)'
      BY <1>24, <2>3, <3>3
         DEF Stabilize_replace_successor_list, objects, Owns, Notified, About
    <3> QED
      BY <1>24, <3>2, <3>4
         DEF Stabilize_replace_successor_list, flags, objects, Here, IInv, StabilizeFlagInv
  <2> QED  BY <2>4, <2>5
<1>25. CASE create_notification
  <2>1. /\ dispatcher.at = "handling" /\ dispatcher.todo \in LoweringTodo \cup OtherTodo
        /\ Head(dispatcher.todo) = "create_notification"
    BY <1>25 DEF create_notification, Create, Next_operation, Dispatcher_at, IInv, DispatcherInv
  <2>2. TodoStep(dispatcher.todo)
    BY <2>1, TodoSteps
  <2>3. /\ dispatcher.object \in Stabilize /\ state[dispatcher.object] # "none"
        /\ dependencies[dispatcher.object] \in Seq(Dependency)
    BY <1>25 DEF create_notification, Create, Next_operation, Dispatcher_at, IInv, DispatcherInv,
              TypeOK
  <2>4. Range(dependencies'[dispatcher.object])
          = {"notify"} \cup Range(dependencies[dispatcher.object])
    BY <1>25, <2>3, CreatedDependency DEF create_notification, Create, Dependency, IInv, TypeOK
  <2>5. \A s \in Stabilize \ {dispatcher.object} : dependencies'[s] = dependencies[s]
    BY <1>25 DEF create_notification, Create, IInv, TypeOK
  <2>6. chord'.at = chord.at /\ Here' = Here
    BY <1>25 DEF create_notification, Create, Here, IInv, TypeOK, ChordState
  <2>7. CASE Len(dispatcher.todo) = 1 /\ dispatcher.todo = <<"create_notification">>
    <3>1. \A s \in Stabilize : Owns(s) => s # dispatcher.object
      BY <2>1, <2>7 DEF Owns, About
    <3>2. dispatcher'.at = "idle"
      BY <1>25, <2>7 DEF create_notification, Create, Done_operation, Dispatcher_idle
    <3>3. \A s \in Stabilize : Owns(s) => Owns(s)'
      BY <1>25, <2>5, <3>1, <3>2 DEF create_notification, Create, Owns, Notified, About
    <3>4. dispatcher.todo \notin LoweringTodo
      BY <2>7 DEF LoweringTodo
    <3> QED
      BY <1>25, <2>6, <3>3, <3>4 DEF create_notification, Create, flags, IInv, StabilizeFlagInv
  <2>8. CASE Len(dispatcher.todo) # 1
    <3>1. dispatcher'.at = "handling" /\ dispatcher'.todo = <<"lower_stabilize_flag">>
      BY <1>25, <2>1, <2>2, <2>8
         DEF create_notification, Create, Done_operation, TodoStep, IInv, TypeOK,
             DispatcherState
    <3> QED  BY <3>1 DEF StabilizeFlagInv, LoweringTodo
  <2> QED  BY <2>1, <2>2, <2>7, <2>8 DEF TodoStep
<1>26. CASE create_get_self_and_succ_list
  <2>1. /\ dispatcher.at = "handling" /\ dispatcher.todo \in LoweringTodo \cup OtherTodo
        /\ Head(dispatcher.todo) = "create_get_self_and_succ_list"
    BY <1>26 DEF create_get_self_and_succ_list, Create, Next_operation, Dispatcher_at, IInv, DispatcherInv
  <2>2. TodoStep(dispatcher.todo)
    BY <2>1, TodoSteps
  <2>3. /\ dispatcher.object \in Stabilize /\ state[dispatcher.object] # "none"
        /\ dependencies[dispatcher.object] \in Seq(Dependency)
    BY <1>26 DEF create_get_self_and_succ_list, Create, Next_operation, Dispatcher_at, IInv, DispatcherInv,
              TypeOK
  <2>4. Range(dependencies'[dispatcher.object])
          = {"get_self_and_succ_list"} \cup Range(dependencies[dispatcher.object])
    BY <1>26, <2>3, CreatedDependency DEF create_get_self_and_succ_list, Create, Dependency, IInv, TypeOK
  <2>5. \A s \in Stabilize \ {dispatcher.object} : dependencies'[s] = dependencies[s]
    BY <1>26 DEF create_get_self_and_succ_list, Create, IInv, TypeOK
  <2>6. chord'.at = chord.at /\ Here' = Here
    BY <1>26 DEF create_get_self_and_succ_list, Create, Here, IInv, TypeOK, ChordState
  <2>7. dispatcher'.at = "idle" /\ dispatcher.todo \notin LoweringTodo
    BY <1>26, <2>1, <2>2
       DEF create_get_self_and_succ_list, Create, Done_operation, Dispatcher_idle, TodoStep,
           LoweringTodo
  <2>8. \A s \in Stabilize : Notified(s)' = Notified(s)
    BY <2>3, <2>4, <2>5 DEF Notified
  <2>9. \A s \in Stabilize : Owns(s) => Owns(s)'
    BY <1>26, <2>7, <2>8 DEF create_get_self_and_succ_list, Create, Owns, About
  <2> QED
    BY <1>26, <2>6, <2>7, <2>9
       DEF create_get_self_and_succ_list, Create, flags, IInv, StabilizeFlagInv
<1>27. CASE any_of_next_freed \/ handle_response_late
  BY <1>27 DEF any_of_next_freed, handle_response_late, flags, objects, Here, Owns,
         Notified, About, IInv, StabilizeFlagInv
<1> QED
  BY <1>1, <1>2, <1>3, <1>4, <1>5, <1>6, <1>7, <1>8, <1>9, <1>10, <1>11, <1>12, <1>13,
     <1>14, <1>15, <1>16, <1>17, <1>18, <1>19, <1>20, <1>21, <1>22, <1>23, <1>24,
     <1>25, <1>26, <1>27
     DEF Next, chord_thread, dispatcher_thread, arrivals, clean, HandleNotification

-----------------------------------------------------------------------------
(* It holds of a node that has just started.                               *)
LEMMA InitIInv == Init => IInv
<1> SUFFICES ASSUME Init
             PROVE  IInv
  OBVIOUS
<1>1. TypeOK
  <2>1. successor_list \in Seq(Peer) \ {<<>>} /\ predecessor \in Peer \cup {NoPeer}
    BY AnswersAssumption DEF Init
  <2>2. active_messages \in Seq(Object) /\ \A s \in Stabilize : <<>> \in Seq(Dependency)
    BY DEF Init
  <2>3. requests \in 0..MaxRequests
    BY BoundAssumption DEF Init
  <2> QED
    BY <2>1, <2>2, <2>3, IdleTypes DEF Init, TypeOK, Unanswered
<1>2. ChordInv /\ DispatcherInv /\ WaitingInv /\ RectifyInv
  BY DEF Init, Chord_idle, Dispatcher_idle, ChordInv, DispatcherInv, WaitingInv, RectifyInv
<1>3. StabilizeFlagInv /\ CheckFlagInv
  BY DEF Init, StabilizeFlagInv, CheckFlagInv
<1> QED  BY <1>1, <1>2, <1>3 DEF IInv

(* It is kept when nothing changes.                                        *)
LEMMA StutterIInv ==
    ASSUME IInv, UNCHANGED vars
    PROVE  IInv'
<1>1. TypeOK'
  BY DEF IInv, TypeOK, vars, table, flags, objects, network
<1>2. ChordInv' /\ DispatcherInv' /\ WaitingInv' /\ RectifyInv'
  BY DEF IInv, ChordInv, Here, DispatcherInv, WaitingInv, RectifyInv, Notified, vars, table,
         flags, objects, network
<1>3. StabilizeFlagInv' /\ CheckFlagInv'
  BY DEF IInv, StabilizeFlagInv, CheckFlagInv, Here, Owns, Notified, About, vars, table, flags,
         objects, network
<1> QED  BY <1>1, <1>2, <1>3 DEF IInv

(* Every step of either thread keeps it.                                   *)
LEMMA NextIInv ==
    ASSUME IInv, [Next]_vars
    PROVE  IInv'
<1>1. CASE Next
  BY <1>1, TypeStep, ChordStep, DispatcherStep, WaitingStep, RectifyStep, StabilizeFlagStep,
     CheckFlagStep
     DEF IInv
<1>2. CASE UNCHANGED vars
  BY <1>2, StutterIInv
<1> QED  BY <1>1, <1>2

(* The inductive invariant: what the two threads hold and have still to do *)
(* while they work on table, flags and objects between each other's        *)
(* operations (MessageHandler::run_chord_internal, handle_request and      *)
(* handle_response).                                                       *)
THEOREM InductiveInvariant == Spec => []IInv
BY InitIInv, NextIInv, PTL DEF Spec

(* The state is well formed; in particular the node never is without a     *)
(* successor, although two threads give successors up                      *)
(* (ConcurrentRoutingTable::pop_front).                                    *)
THEOREM TypeCorrect == Spec => []TypeOK
<1>1. IInv => TypeOK
  BY DEF IInv
<1> QED  BY <1>1, InductiveInvariant, PTL

(* A handler that has not come to its lowering of a flag will.             *)
LEMMA LowersFlag ==
    /\ \A todo \in LoweringTodo : "lower_stabilize_flag" \in Range(todo)
    /\ \A s \in Stabilize : \A todo \in FailingTodo(s) : "lower_stabilize_flag" \in Range(todo)
    /\ \A c \in CheckPredecessor : \A todo \in FailingTodo(c) :
         "lower_check_predecessor_flag" \in Range(todo)
<1>1. ASSUME NEW a, NEW b, NEW c
      PROVE  /\ a \in Range(<<a>>)
             /\ a \in Range(<<a, b>>) /\ b \in Range(<<a, b>>)
             /\ b \in Range(<<a, b, c>>)
  BY DEF Range
<1> QED  BY <1>1, ObjectsAssumption DEF LoweringTodo, FailingTodo

(* A raised flag always has somebody who will lower it, so that a node     *)
(* does not stop to stabilize or to check its predecessor for good         *)
(* (Stabilize::HandleNotification and handle_failed, CheckPredecessor).    *)
THEOREM FlagsOwned == Spec => []FlagsHaveOwners
<1>1. IInv => FlagsHaveOwners
  <2> SUFFICES ASSUME IInv
               PROVE  FlagsHaveOwners
    OBVIOUS
  <2>1. ASSUME chord.at = "failing"
        PROVE  chord.todo \in FailingTodo(Here)
    BY <2>1 DEF IInv, ChordInv
  <2>2. ASSUME stabilize_flag
        PROVE  \/ Pending("lower_stabilize_flag")
               \/ \E s \in Stabilize :
                    state[s] = "VALID" /\ "notify" \notin Range(dependencies[s])
    BY <2>1, <2>2, LowersFlag DEF IInv, StabilizeFlagInv, Owns, Notified, Pending
  <2>3. ASSUME check_predecessor_flag
        PROVE  \/ Pending("lower_check_predecessor_flag")
               \/ \E c \in CheckPredecessor : state[c] = "VALID"
    BY <2>1, <2>3, LowersFlag DEF IInv, CheckFlagInv, Pending
  <2> QED  BY <2>2, <2>3 DEF FlagsHaveOwners
<1> QED  BY <1>1, InductiveInvariant, PTL

\* what PredecessorRectified says of a step
Rectified ==
    predecessor' \in {predecessor, NoPeer} \/ predecessor = NoPeer
      \/ between(predecessor, predecessor', self)

(* Only a notification sets the predecessor, and only to a nearer one.    *)
LEMMA RectifiedStep ==
    ASSUME IInv, Next
    PROVE  Rectified
<1>1. ASSUME NEW o \in Object, handle_failed_next(o)
      PROVE  Rectified
  BY <1>1 DEF handle_failed_next, Operation, Rectified
<1>2. CASE pop_or_lower
  BY <1>2 DEF pop_or_lower, Operation, Rectified
<1>3. CASE set_predecessor
  BY <1>3 DEF set_predecessor, Dispatcher_at, IInv, RectifyInv, Rectified
<1>4. CASE stabilize \/ no_stabilize \/ no_check_predecessor \/ clean_end
          \/ any_of_next_freed \/ any_of_end \/ try_get_predecessor \/ push_back
          \/ CheckPredecessor_handle_response \/ handle_response_late
          \/ handle_empty_pred_and_succ_list_notify
          \/ handle_get_pred_and_succ_list_notify
          \/ handle_get_self_and_succ_list_notify \/ handle_notification_notify
          \/ Notify_dead \/ try_get_successor \/ Stabilize_replace_successor_list
          \/ create_notification \/ create_get_self_and_succ_list
  BY <1>4
     DEF stabilize, no_stabilize, no_check_predecessor, clean_end, any_of_next_freed,
         any_of_end, try_get_predecessor, push_back, CheckPredecessor_handle_response,
         handle_response_late, handle_empty_pred_and_succ_list_notify,
         handle_get_pred_and_succ_list_notify, handle_get_self_and_succ_list_notify,
         handle_notification_notify, Notify_dead, try_get_successor,
         Stabilize_replace_successor_list, create_notification,
         create_get_self_and_succ_list, Handled, Create, table, Rectified
<1>5. ASSUME NEW c \in CheckPredecessor, CheckPredecessor_create_request(c)
      PROVE  Rectified
  BY <1>5 DEF CheckPredecessor_create_request, Handled, Create, table, Rectified
<1>6. ASSUME NEW o \in Object, clean_done(o)
      PROVE  Rectified
  BY <1>6 DEF clean_done, Handled, Create, table, Rectified
<1>7. ASSUME NEW o \in Object, clean_waiting(o)
      PROVE  Rectified
  BY <1>7 DEF clean_waiting, Handled, Create, table, Rectified
<1>8. ASSUME NEW o \in Object, check_state_expired(o)
      PROVE  Rectified
  BY <1>8 DEF check_state_expired, Handled, Create, table, Rectified
<1>9. ASSUME NEW s \in Stabilize, check_dependencies(s)
      PROVE  Rectified
  BY <1>9 DEF check_dependencies, Handled, Create, table, Rectified
<1>10. ASSUME NEW s \in Stabilize, NEW d \in Dependency, check_dependency(s, d)
      PROVE  Rectified
  BY <1>10 DEF check_dependency, Handled, Create, table, Rectified
<1>11. ASSUME NEW s \in Stabilize, NEW d \in Dependency, check_dependency_failed(s, d)
      PROVE  Rectified
  BY <1>11 DEF check_dependency_failed, Handled, Create, table, Rectified
<1>12. ASSUME NEW peer \in Others, has_predecessor(peer)
      PROVE  Rectified
  BY <1>12 DEF has_predecessor, Handled, Create, table, Rectified
<1>13. ASSUME NEW request \in waiting, NEW peers \in Answers(request[2]), get_and_erase(request[1], request[2], peers)
      PROVE  Rectified
  BY <1>13 DEF get_and_erase, Handled, Create, table, Rectified
<1> QED
  BY <1>1, <1>2, <1>3, <1>4, <1>5, <1>6, <1>7, <1>8, <1>9, <1>10, <1>11, <1>12, <1>13
     DEF Next, chord_thread, dispatcher_thread, arrivals, clean, HandleNotification

(* A step does not exchange the predecessor for one that is farther away,  *)
(* although the three operations of a notification on the table are not    *)
(* one (Notification::handle_request).                                     *)
THEOREM OnlyNearerPredecessors == Spec => PredecessorRectified
<1>1. ASSUME IInv, [Next]_vars
      PROVE  [Rectified]_vars
  BY <1>1, RectifiedStep
<1> QED  BY <1>1, InductiveInvariant, PTL DEF Spec, PredecessorRectified, Rectified

\* what AnswerCounts says of a step
AnswerKept == \A c \in CheckPredecessor : state[c] = "DONE" => state'[c] = "DONE"

(* An answered check stays answered.                                      *)
LEMMA AnswerKeptStep ==
    ASSUME IInv, Next
    PROVE  AnswerKept
<1>1. CASE stabilize
  BY <1>1 DEF stabilize, Created, Fresh, Object, AnswerKept, IInv, TypeOK
<1>2. ASSUME NEW c \in CheckPredecessor, CheckPredecessor_create_request(c)
      PROVE  AnswerKept
  BY <1>2
     DEF CheckPredecessor_create_request, Created, Fresh, Object, AnswerKept, IInv,
         TypeOK
<1>3. ASSUME NEW o \in Object, check_state_expired(o)
      PROVE  AnswerKept
  BY <1>3 DEF check_state_expired, is_done, AnswerKept, IInv, TypeOK
<1>4. ASSUME NEW o \in Object, handle_failed_next(o)
      PROVE  AnswerKept
  BY <1>4 DEF handle_failed_next, Chord_at, Here, AnswerKept, IInv, TypeOK, ChordInv
<1>5. CASE CheckPredecessor_handle_response
  BY <1>5 DEF CheckPredecessor_handle_response, AnswerKept, IInv, TypeOK
<1>6. CASE handle_notification_notify
  BY <1>6 DEF handle_notification_notify, Handled, AnswerKept, IInv, TypeOK
<1>7. CASE no_stabilize \/ no_check_predecessor \/ clean_end \/ any_of_next_freed
          \/ any_of_end \/ try_get_predecessor \/ set_predecessor \/ push_back
          \/ handle_response_late \/ handle_empty_pred_and_succ_list_notify
          \/ handle_get_pred_and_succ_list_notify
          \/ handle_get_self_and_succ_list_notify \/ Notify_dead \/ pop_or_lower
          \/ try_get_successor \/ Stabilize_replace_successor_list
          \/ create_notification \/ create_get_self_and_succ_list
  BY <1>7
     DEF no_stabilize, no_check_predecessor, clean_end, any_of_next_freed, any_of_end,
         try_get_predecessor, set_predecessor, push_back, handle_response_late,
         handle_empty_pred_and_succ_list_notify, handle_get_pred_and_succ_list_notify,
         handle_get_self_and_succ_list_notify, Notify_dead, pop_or_lower,
         try_get_successor, Stabilize_replace_successor_list, create_notification,
         create_get_self_and_succ_list, Handled, Create, Table_only, objects,
         AnswerKept
<1>8. ASSUME NEW o \in Object, clean_done(o)
      PROVE  AnswerKept
  BY <1>8 DEF clean_done, Handled, Create, Table_only, objects, AnswerKept
<1>9. ASSUME NEW o \in Object, clean_waiting(o)
      PROVE  AnswerKept
  BY <1>9 DEF clean_waiting, Handled, Create, Table_only, objects, AnswerKept
<1>10. ASSUME NEW s \in Stabilize, check_dependencies(s)
      PROVE  AnswerKept
  BY <1>10 DEF check_dependencies, Handled, Create, Table_only, objects, AnswerKept
<1>11. ASSUME NEW s \in Stabilize, NEW d \in Dependency, check_dependency(s, d)
      PROVE  AnswerKept
  BY <1>11 DEF check_dependency, Handled, Create, Table_only, objects, AnswerKept
<1>12. ASSUME NEW s \in Stabilize, NEW d \in Dependency, check_dependency_failed(s, d)
      PROVE  AnswerKept
  BY <1>12
     DEF check_dependency_failed, Handled, Create, Table_only, objects, AnswerKept
<1>13. ASSUME NEW peer \in Others, has_predecessor(peer)
      PROVE  AnswerKept
  BY <1>13 DEF has_predecessor, Handled, Create, Table_only, objects, AnswerKept
<1>14. ASSUME NEW request \in waiting, NEW peers \in Answers(request[2]), get_and_erase(request[1], request[2], peers)
      PROVE  AnswerKept
  BY <1>14 DEF get_and_erase, Handled, Create, Table_only, objects, AnswerKept
<1> QED
  BY <1>1, <1>2, <1>3, <1>4, <1>5, <1>6, <1>7, <1>8, <1>9, <1>10, <1>11, <1>12, <1>13,
     <1>14
     DEF Next, chord_thread, dispatcher_thread, arrivals, clean, HandleNotification

(* A check of the predecessor that has been answered does not reset it any *)
(* more, even if its deadline passes meanwhile (MessagingBase::check_state *)
(* and CheckPredecessor::handle_response).                                 *)
THEOREM AnswersCount == Spec => AnswerCounts
<1>1. ASSUME IInv, [Next]_vars
      PROVE  [AnswerKept]_vars
  BY <1>1, AnswerKeptStep
<1> QED  BY <1>1, InductiveInvariant, PTL DEF Spec, AnswerCounts, AnswerKept
=============================================================================
