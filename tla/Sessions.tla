------------------------------ MODULE Sessions ------------------------------
(***************************************************************************)
(* Requests, responses and the TCP sessions that carry them.  Every        *)
(* request opens a session of its own (BoostSession) and its response, or  *)
(* the chunks of a file, come back on it.  In each process a send thread   *)
(* and the dispatcher (MessageDispatcher) work through a queue each, the   *)
(* asio threads run the completion handlers of the sessions, and           *)
(* MessageHandler finds the handler of a response by its correlational     *)
(* identifier.                                                             *)
(*                                                                         *)
(* A session exists as long as something refers to it: an operation that   *)
(* is under way, a queue, or the message object that serves its request.   *)
(* With the last reference its socket is closed.                           *)
(*                                                                         *)
(* Each completion handler and each message handler is one step.  Peers,   *)
(* file names and data in messages are left out, and so is the identifier  *)
(* of a response, which nobody looks at.  An address has one endpoint, as  *)
(* the numeric ones have by which nodes know each other.                   *)
(***************************************************************************)
EXTENDS Integers, Sequences, SequencesExt

CONSTANTS
    Node,
    Request,        \* bound: the requests that are made, each at most once
    Client,         \* Client[r]: the node that makes r
    Server,         \* Server[r]: the node that r is sent to
    Relayed,        \* Relayed[r]: the request that Server[r] may forward r with
    NoRequest,
    File,           \* the requests for files
    Chunks,         \* bound: the chunks that are sent of a file
    Trailing,       \* the files whose last chunk has no data
    Killable,       \* bound: nodes whose process may be killed
    MaxCrash        \* bound: how often processes are killed

ASSUME NodesAssumption ==
    /\ Client \in [Request -> Node]
    /\ Server \in [Request -> Node]
    /\ Killable \subseteq Node

ASSUME FileAssumption ==
    /\ File \subseteq Request /\ Trailing \subseteq File
    /\ Chunks \in Nat \ {0}
    /\ Trailing # {} => Chunks > 1

ASSUME RelayedAssumption ==
    /\ NoRequest \notin Request
    /\ Relayed \in [Request \ File -> (Request \ File) \cup {NoRequest}]
    /\ \A r \in Request \ File : Relayed[r] # NoRequest =>
         /\ Client[Relayed[r]] = Server[r]
         /\ \A q \in Request \ File : Relayed[q] = Relayed[r] => q = r

ASSUME BoundsAssumption == MaxCrash \in Nat

End == {"client", "server"}

Other(e) == IF e = "client" THEN "server" ELSE "client"

NodeAt(r, e) == IF e = "client" THEN Client[r] ELSE Server[r]

VARIABLES
    running,            \* the nodes whose process runs
    counter,            \* the static Counter of generate_transaction_id
    transaction_id,     \* of each request, 0 before it is made
    active_handlers,
    object,             \* the MessagingBase objects of a request at both ends
    source,             \* the next chunk that the sender of a file reads
    received,           \* the chunks its receiver has written
    send_queue, receive_queue,
    session,            \* the two ends of the session of each request
    crashes             \* how much of MaxCrash is used

identifiers == <<counter, transaction_id>>
files == <<source, received>>
vars == <<running, identifiers, active_handlers, object, files,
          send_queue, receive_queue, session, crashes>>

-----------------------------------------------------------------------------
(* An end of a session.                                                    *)
(*   socket   "connecting" until async_connect completes, "backlog" until  *)
(*            the connection is accepted                                   *)
(*   reads    how many async_read operations are under way                 *)
(*   posted   the writes posted to write_strand_                           *)
(*   packets  send_packet_queue                                            *)
(*   writing  the messages of the async_write operations under way         *)
(*   inbox    the messages that have arrived and are not read              *)
NoSession == [socket |-> "none", reads |-> 0, posted |-> <<>>, packets |-> <<>>,
              writing |-> <<>>, inbox |-> <<>>]

Init ==
    /\ running = Node
    /\ counter = [n \in Node |-> 0]
    /\ transaction_id = [r \in Request |-> 0]
    /\ active_handlers = [n \in Node |-> {}]
    /\ object = [r \in Request |-> [e \in End |-> "none"]]
    /\ source = [r \in Request |-> 1]
    /\ received = [r \in Request |-> 0]
    /\ send_queue = [n \in Node |-> <<>>]
    /\ receive_queue = [n \in Node |-> <<>>]
    /\ session = [r \in Request |-> [e \in End |-> NoSession]]
    /\ crashes = 0

-----------------------------------------------------------------------------
(* Messages and their objects.                                             *)

\* Message::create_request
Request_message(r, id) ==
    [request |-> r, t_flag |-> TRUE, transaction_id |-> id,
     correlational_id |-> 0, chunk |-> 0]

\* mutant: a response is correlated with the last request of the server
generate_response_last(m, chunk) ==
    [m EXCEPT !.t_flag = FALSE, !.transaction_id = 0,
              !.correlational_id = counter[Server[m.request]], !.chunk = chunk]

\* Message::generate_response and Header::generate_response_header
generate_response(m, chunk) ==
    [m EXCEPT !.t_flag = FALSE, !.transaction_id = 0,
              !.correlational_id = m.transaction_id, !.chunk = chunk]

\* the request that the object at the server keeps in request_
request_(r) == Request_message(r, transaction_id[r])

\* the request that is forwarded with r
Forwarded(r) == {q \in Request \ File : Relayed[q] = r}

\* who made r: the object of its client, or that of a relay
Parent(r) ==
    IF Forwarded(r) = {} THEN <<r, "client">>
    ELSE <<CHOOSE q \in Forwarded(r) : TRUE, "server">>

Alive(o) == object[o[1]][o[2]] \in {"waiting", "done"}

With(o, state) == [object EXCEPT ![o[1]][o[2]] = state]

\* RequestDestruction: MessageHandler drops the handlers whose object is gone
Pruned(n) ==
    [active_handlers EXCEPT ![n] = {h \in @ : Alive(Parent(h.request))}]

Pushed(n, m) == [send_queue EXCEPT ![n] = Append(@, m)]

\* create_request of the object that makes r, up to MessageHandler's queue
Make(r) ==
    LET n == Client[r]
        id == counter[n] + 1
    IN  /\ counter' = [counter EXCEPT ![n] = id]
        /\ transaction_id' = [transaction_id EXCEPT ![r] = id]
        /\ active_handlers' = [active_handlers EXCEPT
             ![n] = @ \cup {[id |-> id, request |-> r]}]
        /\ send_queue' = Pushed(n, Request_message(r, id))

create_request(r) ==
    /\ Forwarded(r) = {}
    /\ transaction_id[r] = 0
    /\ Client[r] \in running
    /\ Make(r)
    /\ object' = With(<<r, "client">>, "waiting")
    /\ UNCHANGED <<running, files, receive_queue, session, crashes>>

\* clean() removes an object that is done or has expired
clean(r, e) ==
    /\ Alive(<<r, e>>)
    /\ object' = With(<<r, e>>, "gone")
    /\ UNCHANGED <<running, identifiers, active_handlers, files, send_queue,
                   receive_queue, session, crashes>>

-----------------------------------------------------------------------------
(* What keeps a session alive.                                             *)

Queued(queue, r, t_flag) ==
    \E i \in DOMAIN queue : queue[i].request = r /\ queue[i].t_flag = t_flag

Served(r) ==
    \/ Alive(<<r, "server">>)
    \/ Queued(send_queue[Server[r]], r, FALSE)

Referenced(r, e) ==
    LET s == session[r][e] IN
    \/ s.socket \in {"connecting", "backlog"}
    \/ s.reads > 0 \/ s.posted # <<>> \/ s.writing # <<>>
    \/ Queued(receive_queue[NodeAt(r, e)], r, e = "server")
    \/ e = "server" /\ Served(r)

Open(r, e) ==
    session[r][e].socket \notin {"none", "closed"} /\ Referenced(r, e)

\* the other end has been there and is closed
PeerGone(r, e) ==
    session[r][Other(e)].socket # "none" /\ ~Open(r, Other(e))

SetEnd(r, e, s) == session' = [session EXCEPT ![r][e] = s]

-----------------------------------------------------------------------------
(* run_send_internal.                                                      *)

\* a request: a session is made, it connects and already reads
write_to(n) ==
    /\ n \in running
    /\ send_queue[n] # <<>> /\ Head(send_queue[n]).t_flag
    /\ LET r == Head(send_queue[n]).request IN
       SetEnd(r, "client", [NoSession EXCEPT !.socket = "connecting", !.reads = 1])
    /\ send_queue' = [send_queue EXCEPT ![n] = Tail(@)]
    /\ UNCHANGED <<running, identifiers, active_handlers, object, files,
                   receive_queue, crashes>>

\* a response is posted to the session its request has come with (write and
\* write_direct)
write(n) ==
    /\ n \in running
    /\ send_queue[n] # <<>> /\ ~Head(send_queue[n]).t_flag
    /\ LET m == Head(send_queue[n])
           r == m.request
       IN  SetEnd(r, "server", [session[r]["server"] EXCEPT !.posted = Append(@, m)])
    /\ send_queue' = [send_queue EXCEPT ![n] = Tail(@)]
    /\ UNCHANGED <<running, identifiers, active_handlers, object, files,
                   receive_queue, crashes>>

-----------------------------------------------------------------------------
(* Completion handlers, run by the asio threads.                           *)

Session_step ==
    UNCHANGED <<running, identifiers, active_handlers, object, files, send_queue,
                receive_queue, crashes>>

\* async_connect succeeds: the request is posted
connected(r) ==
    LET s == session[r]["client"] IN
    /\ s.socket = "connecting"
    /\ Server[r] \in running
    /\ session' = [session EXCEPT
         ![r]["client"] = [s EXCEPT !.socket = "open", !.posted = <<request_(r)>>],
         ![r]["server"].socket = "backlog"]
    /\ Session_step

\* it fails, and the error is printed
connection_refused(r) ==
    LET s == session[r]["client"] IN
    /\ s.socket = "connecting"
    /\ Server[r] \notin running
    /\ SetEnd(r, "client", [s EXCEPT !.socket = "closed"])
    /\ Session_step

\* Server::handle_new_connection reads the request
handle_new_connection(r) ==
    LET s == session[r]["server"] IN
    /\ s.socket = "backlog"
    /\ SetEnd(r, "server", [s EXCEPT !.socket = "open", !.reads = 1])
    /\ Session_step

\* the responses of a GetFile object have an on_write_handler
Direct(r, e) == r \in File /\ e = "server"

\* a posted write: queue_message starts it unless one is in progress,
\* write_direct starts it at once
queue_message(r, e) ==
    LET s == session[r][e]
        m == Head(s.posted)
    IN  /\ s.posted # <<>>
        /\ SetEnd(r, e,
             IF Direct(r, e)
             THEN [s EXCEPT !.posted = Tail(@), !.writing = Append(@, m)]
             ELSE [s EXCEPT !.posted = Tail(@), !.packets = Append(@, m),
                            !.writing = IF s.packets = <<>> THEN Append(@, m) ELSE @])
        /\ Session_step

\* the message at the head of the writing ones is written: it arrives unless
\* the other end is closed
Delivered(r, e, s) ==
    [session EXCEPT
       ![r][e] = s,
       ![r][Other(e)].inbox =
         IF PeerGone(r, e) THEN @ ELSE Append(@, Head(session[r][e].writing))]

\* packet_send_done
packet_send_done(r, e) ==
    LET s == session[r][e]
        rest == Tail(s.packets)
    IN  /\ ~Direct(r, e)
        /\ s.writing # <<>> /\ s.socket = "open"
        /\ session' = Delivered(r, e,
             [s EXCEPT !.packets = rest,
                       !.writing = IF rest = <<>> THEN Tail(@) ELSE <<Head(rest)>>])
        /\ Session_step

\* an async_write may fail once the other end is closed; packet_send_done then
\* stops the session
packet_send_failed(r, e) ==
    LET s == session[r][e] IN
    /\ ~Direct(r, e)
    /\ s.writing # <<>>
    /\ s.socket = "closed" \/ PeerGone(r, e)
    /\ SetEnd(r, e, [s EXCEPT !.writing = Tail(@), !.socket = "closed"])
    /\ Session_step

\* mutant: a session always keeps reading
handle_read_message_on(r, e) ==
    LET s == session[r][e] IN
    /\ s.reads > 0 /\ s.inbox # <<>> /\ s.socket = "open"
    /\ SetEnd(r, e, [s EXCEPT !.inbox = Tail(@)])
    /\ receive_queue' = [receive_queue EXCEPT
         ![NodeAt(r, e)] = Append(@, Head(s.inbox))]
    /\ UNCHANGED <<running, identifiers, active_handlers, object, files, send_queue,
                   crashes>>

\* handle_read_header and handle_read_message: one message is read and pushed
handle_read_message(r, e) ==
    LET s == session[r][e] IN
    /\ s.reads > 0 /\ s.inbox # <<>> /\ s.socket = "open"
    /\ SetEnd(r, e, [s EXCEPT !.reads = @ - 1, !.inbox = Tail(@)])
    /\ receive_queue' = [receive_queue EXCEPT
         ![NodeAt(r, e)] = Append(@, Head(s.inbox))]
    /\ UNCHANGED <<running, identifiers, active_handlers, object, files, send_queue,
                   crashes>>

\* mutant: a failed read is only logged, and tried again
read_failed_again(r, e) ==
    LET s == session[r][e] IN
    /\ s.reads > 0
    /\ s.socket = "closed" \/ (s.inbox = <<>> /\ PeerGone(r, e))
    /\ SetEnd(r, e, s)
    /\ Session_step

\* a read fails at the end of the stream, or because its session has been
\* stopped; the session stops
read_failed(r, e) ==
    LET s == session[r][e] IN
    /\ s.reads > 0
    /\ s.socket = "closed" \/ (s.inbox = <<>> /\ PeerGone(r, e))
    /\ SetEnd(r, e, [s EXCEPT !.reads = @ - 1, !.socket = "closed"])
    /\ Session_step

-----------------------------------------------------------------------------
(* The dispatcher.                                                         *)

\* the message at the head of the queue of n is popped
Popped(n) ==
    /\ n \in running
    /\ receive_queue[n] # <<>>
    /\ receive_queue' = [receive_queue EXCEPT ![n] = Tail(@)]

\* a request for r is popped, and its object is made
Requested(n, r) ==
    /\ Popped(n)
    /\ Head(receive_queue[n]).t_flag
    /\ r = Head(receive_queue[n]).request

\* it is answered at once
handle_request(n, r) ==
    /\ Requested(n, r)
    /\ r \notin File
    /\ object' = With(<<r, "server">>, "done")
    /\ active_handlers' = Pruned(n)
    /\ send_queue' = Pushed(n, generate_response(Head(receive_queue[n]), 0))
    /\ UNCHANGED <<running, identifiers, files, session, crashes>>

\* it is not answered at all: the first notification of a node, a file that
\* is not there
handle_request_unanswered(n, r) ==
    /\ Requested(n, r)
    /\ IF r \in File
       THEN /\ object' = With(<<r, "server">>, "done")
            /\ active_handlers' = Pruned(n)
       ELSE /\ object' = With(<<r, "server">>, "waiting")
            /\ UNCHANGED active_handlers
    /\ UNCHANGED <<running, identifiers, files, send_queue, session, crashes>>

\* FindSuccessor::forward_request
forward_request(n, r) ==
    /\ Requested(n, r)
    /\ r \notin File
    /\ Relayed[r] # NoRequest
    /\ object' = With(<<r, "server">>, "waiting")
    /\ Make(Relayed[r])
    /\ UNCHANGED <<running, files, session, crashes>>

\* mutant: the end of the file is noticed one chunk late
write_file_past_end(r) ==
    IF source[r] <= Chunks + 1
    THEN /\ send_queue' =
              Pushed(Server[r], generate_response(request_(r), source[r]))
         /\ source' = [source EXCEPT ![r] = @ + 1]
    ELSE UNCHANGED <<send_queue, source>>

\* mutant: the offset is moved on after a read that has moved it already
write_file_skips(r) ==
    IF source[r] <= Chunks
    THEN /\ send_queue' =
              Pushed(Server[r], generate_response(request_(r), source[r]))
         /\ source' = [source EXCEPT ![r] = @ + 2]
    ELSE UNCHANGED <<send_queue, source>>

\* GetFile::write_file: the next chunk is read and pushed, if there is one
write_file(r) ==
    IF source[r] <= Chunks
    THEN /\ send_queue' =
              Pushed(Server[r], generate_response(request_(r), source[r]))
         /\ source' = [source EXCEPT ![r] = @ + 1]
    ELSE UNCHANGED <<send_queue, source>>

\* GetFile::handle_request
GetFile_handle_request(n, r) ==
    /\ Requested(n, r)
    /\ r \in File
    /\ object' = With(<<r, "server">>, "waiting")
    /\ write_file(r)
    /\ UNCHANGED <<running, identifiers, active_handlers, received, session, crashes>>

\* get_and_erase_if: the handlers that a response is for
Handlers(n) ==
    {h \in active_handlers[n] : h.id = Head(receive_queue[n]).correlational_id}

\* handle_response without a handler, or with one whose object is gone
no_handler(n) ==
    /\ Popped(n)
    /\ ~Head(receive_queue[n]).t_flag
    /\ \A h \in Handlers(n) : ~Alive(Parent(h.request))
    /\ active_handlers' = [active_handlers EXCEPT
         ![n] = @ \ {h \in Handlers(n) : h.request \notin File}]
    /\ UNCHANGED <<running, identifiers, object, files, send_queue, session, crashes>>

\* handle_response finds the handler of request r
Responded(n, r) ==
    /\ Popped(n)
    /\ ~Head(receive_queue[n]).t_flag
    /\ Alive(Parent(r))
    /\ \E h \in Handlers(n) : h.request = r

\* MessageHandler::handle_response erases the handler, and the object prunes
\* the others when it is done
Erased(n, r) ==
    [Pruned(n) EXCEPT ![n] = {h \in @ : h.request # r}]

handle_response(n, r) ==
    /\ Responded(n, r)
    /\ r \notin File
    /\ Forwarded(r) = {}
    /\ object' = With(<<r, "client">>, "done")
    /\ active_handlers' = Erased(n, r)
    /\ UNCHANGED <<running, identifiers, files, send_queue, session, crashes>>

\* FindSuccessor::handle_forwarded_response answers the request q that was
\* forwarded with r
handle_forwarded_response(n, r) ==
    /\ Responded(n, r)
    /\ r \notin File
    /\ \E q \in Forwarded(r) :
         /\ object' = With(<<q, "server">>, "done")
         /\ send_queue' = Pushed(n, generate_response(request_(q), 0))
    /\ active_handlers' = Erased(n, r)
    /\ UNCHANGED <<running, identifiers, files, session, crashes>>

\* the chunk with which a file is complete
LastNeeded(r) == IF r \in Trailing THEN Chunks - 1 ELSE Chunks

\* mutant: the receiver reads on when the file is complete
GetFile_handle_response_on(n, r) ==
    LET chunk == Head(receive_queue[n]).chunk IN
    /\ Responded(n, r)
    /\ r \in File
    /\ received' = [received EXCEPT ![r] = chunk]
    /\ session' = [session EXCEPT ![r]["client"].reads = @ + 1]
    /\ IF chunk < LastNeeded(r)
       THEN UNCHANGED <<object, active_handlers>>
       ELSE /\ object' = With(<<r, "client">>, "done")
            /\ active_handlers' = Pruned(n)
    /\ UNCHANGED <<running, identifiers, source, send_queue, crashes>>

\* GetFile::handle_response reads the next chunk, or is done; its handler is
\* persistent
GetFile_handle_response(n, r) ==
    LET chunk == Head(receive_queue[n]).chunk IN
    /\ Responded(n, r)
    /\ r \in File
    /\ received' = [received EXCEPT ![r] = chunk]
    /\ IF chunk < LastNeeded(r)
       THEN /\ session' = [session EXCEPT ![r]["client"].reads = @ + 1]
            /\ UNCHANGED <<object, active_handlers>>
       ELSE /\ object' = With(<<r, "client">>, "done")
            /\ active_handlers' = Pruned(n)
            /\ UNCHANGED session
    /\ UNCHANGED <<running, identifiers, source, send_queue, crashes>>

-----------------------------------------------------------------------------
(* The chunks of a file (write_direct).                                    *)

\* the on_write_handler locks its weak_ptr, or finds the object gone
on_write(r, failed) ==
    LET alive == Alive(<<r, "server">>) IN
    /\ IF alive THEN write_file(r) ELSE UNCHANGED <<send_queue, source>>
    /\ IF alive /\ failed
       THEN /\ object' = With(<<r, "server">>, "done")
            /\ active_handlers' = Pruned(Server[r])
       ELSE UNCHANGED <<object, active_handlers>>
    /\ UNCHANGED <<running, identifiers, received, receive_queue, crashes>>

chunk_written(r) ==
    LET s == session[r]["server"] IN
    /\ r \in File
    /\ s.writing # <<>> /\ s.socket = "open"
    /\ session' = Delivered(r, "server", [s EXCEPT !.writing = Tail(@)])
    /\ on_write(r, FALSE)

chunk_failed(r) ==
    LET s == session[r]["server"] IN
    /\ r \in File
    /\ s.writing # <<>>
    /\ s.socket = "closed" \/ PeerGone(r, "server")
    /\ SetEnd(r, "server", [s EXCEPT !.writing = Tail(@)])
    /\ on_write(r, TRUE)

-----------------------------------------------------------------------------
\* the process of n is killed, and the operating system closes its sockets
crash(n) ==
    /\ n \in Killable \cap running
    /\ crashes < MaxCrash
    /\ crashes' = crashes + 1
    /\ running' = running \ {n}
    /\ active_handlers' = [active_handlers EXCEPT ![n] = {}]
    /\ send_queue' = [send_queue EXCEPT ![n] = <<>>]
    /\ receive_queue' = [receive_queue EXCEPT ![n] = <<>>]
    /\ object' = [r \in Request |-> [e \in End |->
         IF NodeAt(r, e) = n /\ Alive(<<r, e>>) THEN "gone" ELSE object[r][e]]]
    /\ session' = [r \in Request |-> [e \in End |->
         IF NodeAt(r, e) = n /\ session[r][e].socket # "none"
         THEN [NoSession EXCEPT !.socket = "closed"]
         ELSE session[r][e]]]
    /\ UNCHANGED <<identifiers, files>>

-----------------------------------------------------------------------------
send_thread(n) == write_to(n) \/ write(n)

dispatcher_thread(n) ==
    \/ no_handler(n)
    \/ \E r \in Request :
         \/ handle_request(n, r)
         \/ handle_request_unanswered(n, r)
         \/ forward_request(n, r)
         \/ GetFile_handle_request(n, r)
         \/ handle_response(n, r)
         \/ handle_forwarded_response(n, r)
         \/ GetFile_handle_response(n, r)

clean_up(r) == \E e \in End : clean(r, e)

asio_threads(r, e) ==
    \/ queue_message(r, e)
    \/ packet_send_done(r, e)
    \/ packet_send_failed(r, e)
    \/ handle_read_message(r, e)
    \/ read_failed(r, e)

connections(r) ==
    \/ connected(r)
    \/ connection_refused(r)
    \/ handle_new_connection(r)
    \/ chunk_written(r)
    \/ chunk_failed(r)

Next ==
    \/ \E n \in Node : send_thread(n) \/ dispatcher_thread(n) \/ crash(n)
    \/ \E r \in Request :
         \/ create_request(r)
         \/ clean_up(r)
         \/ connections(r)
         \/ \E e \in End : asio_threads(r, e)

\* The threads of a process run, the operating system completes what has been
\* started on a socket, and every object is done or expires at some time.
\* Nothing makes a node ask, and nothing kills it.
Fairness ==
    /\ \A n \in Node : WF_vars(send_thread(n)) /\ WF_vars(dispatcher_thread(n))
    /\ \A r \in Request :
         /\ WF_vars(clean_up(r))
         /\ WF_vars(connections(r))
         /\ \A e \in End : WF_vars(asio_threads(r, e))

Spec == Init /\ [][Next]_vars /\ Fairness

-----------------------------------------------------------------------------
Message ==
    [request : Request, t_flag : BOOLEAN, transaction_id : Nat,
     correlational_id : Nat, chunk : 0..Chunks]

EndState ==
    [socket : {"none", "connecting", "backlog", "open", "closed"}, reads : Nat,
     posted : Seq(Message), packets : Seq(Message), writing : Seq(Message),
     inbox : Seq(Message)]

TypeOK ==
    /\ running \subseteq Node
    /\ counter \in [Node -> Nat]
    /\ transaction_id \in [Request -> Nat]
    /\ active_handlers \in [Node -> SUBSET [id : Nat, request : Request]]
    /\ object \in [Request -> [End -> {"none", "waiting", "done", "gone"}]]
    /\ source \in [Request -> Nat]
    /\ received \in [Request -> 0..Chunks]
    /\ send_queue \in [Node -> Seq(Message)]
    /\ receive_queue \in [Node -> Seq(Message)]
    /\ session \in [Request -> [End -> EndState]]
    /\ crashes \in Nat

\* A response that is about to be handled finds the handler of the request it
\* answers, or none, although identifiers are only unique within a process and
\* a relay has two requests of the same lookup under way
\* (MessageHandler::handle_response).
OwnAnswer ==
    \A n \in Node :
      receive_queue[n] # <<>> /\ ~Head(receive_queue[n]).t_flag =>
        \A h \in Handlers(n) : h.request = Head(receive_queue[n]).request

\* A socket never has two async_reads or two async_writes under way, whoever
\* starts them: the send thread, the dispatcher, the strand or a write handler.
\* Their bytes would be interleaved (BoostSession::read, write, write_direct).
OneAtATime ==
    \A r \in Request, e \in End :
      session[r][e].reads <= 1 /\ Len(session[r][e].writing) <= 1

\* The chunks of a file reach the file in the order they were read, and none is
\* left out (GetFile::handle_response takes whatever chunk the handler gets).
ChunksInOrder ==
    [][\A r \in Request : received'[r] \in {received[r], received[r] + 1}]_vars

\* What the objects of all processes see of each other.
EX == INSTANCE Exchange WITH
          made <- {r \in Request : transaction_id[r] # 0},
          read <- [r \in Request |-> source[r] - 1],
          written <- received,
          Needed <- [r \in File |-> LastNeeded(r)]

\* The objects of all processes only see an exchange: a request is handled at
\* most once, no object is told an answer while the one that serves it waits,
\* through all relays, and no chunk is written before it is read or after the
\* last one (MessageHandler, MessageDispatcher, BoostSession and GetFile
\* together, whoever is killed).
ImplementsExchange == EX!Spec

\* Every session is closed at both ends, answered or not: nothing in a session
\* expires, so a peer that waits depends on the other one to let go.  (Each of
\* the finitely many requests opens one session.)
SessionsEnd ==
    []<>(\A r \in Request, e \in End : ~Open(r, e))
=============================================================================
