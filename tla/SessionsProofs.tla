--------------------------- MODULE SessionsProofs ---------------------------
(* What the ends of a session, the queues and the objects of a request     *)
(* know of each other, for every set of requests, chains of relays, number *)
(* of chunks and number of killed processes.                               *)
EXTENDS Sessions, SequenceTheorems, TLAPS

\* the messages of request r in a queue: its request or its responses
In(queue, r, t_flag) == {m \in Range(queue) : m.request = r /\ m.t_flag = t_flag}

Asked(r) == In(send_queue[Client[r]], r, TRUE)
Arrived(r) == In(receive_queue[Server[r]], r, TRUE)
Answered(r) == In(send_queue[Server[r]], r, FALSE)
Answers(r) == In(receive_queue[Client[r]], r, FALSE)

C(r) == session[r]["client"]
S(r) == session[r]["server"]

Connecting == [NoSession EXCEPT !.socket = "connecting", !.reads = 1]

-----------------------------------------------------------------------------
(* Messages.                                                               *)

\* the object at the server has done all it will do
Over == {"done", "gone"}

\* a response has been made, and a chunk has been read
Caused(m) ==
    IF m.request \in File THEN m.chunk \in 1..(source[m.request] - 1)
    ELSE object[m.request]["server"] \in Over

\* a message has the identifier of its request where it is looked for
Identified(m) ==
    /\ transaction_id[m.request] # 0
    /\ transaction_id[m.request] =
         IF m.t_flag THEN m.transaction_id ELSE m.correlational_id
    /\ ~m.t_flag => Caused(m)

\* a queue holds a request once, and one chunk of a file
Unique(queue) ==
    \A i, j \in 1..Len(queue) :
      /\ queue[i].request = queue[j].request
      /\ queue[i].t_flag = queue[j].t_flag
      /\ queue[i].t_flag \/ queue[i].request \in File
      => i = j

\* the node whose send_queue, or whose receive_queue, a message passes
Sender(r, f) == IF f THEN Client[r] ELSE Server[r]
Receiver(r, f) == IF f THEN Server[r] ELSE Client[r]

SendInv ==
    \A n \in Node :
      /\ Unique(send_queue[n])
      /\ \A r \in Request, f \in BOOLEAN :
           /\ In(send_queue[n], r, f) # {} => n = Sender(r, f)
           /\ \A m \in In(send_queue[n], r, f) : Identified(m)

ReceiveInv ==
    \A n \in Node :
      /\ Unique(receive_queue[n])
      /\ \A r \in Request, f \in BOOLEAN :
           /\ In(receive_queue[n], r, f) # {} => n = Receiver(r, f)
           /\ \A m \in In(receive_queue[n], r, f) : Identified(m)

Carries(messages, r, f) ==
    \A i \in 1..Len(messages) :
      messages[i].request = r /\ messages[i].t_flag = f /\ Identified(messages[i])

CarriesInv(r) ==
    /\ Carries(C(r).posted, r, TRUE) /\ Carries(C(r).packets, r, TRUE)
    /\ Carries(C(r).writing, r, TRUE) /\ Carries(C(r).inbox, r, FALSE)
    /\ Carries(S(r).posted, r, FALSE) /\ Carries(S(r).packets, r, FALSE)
    /\ Carries(S(r).writing, r, FALSE) /\ Carries(S(r).inbox, r, TRUE)

\* identifiers are unique in a process, and handlers belong to its requests
IdsInv ==
    /\ \A r \in Request : transaction_id[r] <= counter[Client[r]]
    /\ \A r, q \in Request :
         /\ Client[r] = Client[q]
         /\ transaction_id[r] = transaction_id[q]
         /\ transaction_id[r] # 0
         => r = q
    /\ \A n \in Node : \A h \in active_handlers[n] :
         /\ Client[h.request] = n
         /\ h.id = transaction_id[h.request]
         /\ h.id # 0

-----------------------------------------------------------------------------
(* One request and its session.                                            *)

\* the ends of a session come into being one after the other
ConnectInv(r) ==
    /\ C(r).socket = "none" => C(r) = NoSession
    /\ C(r).socket = "connecting" => C(r) = Connecting
    /\ C(r).socket \in {"none", "connecting"} => S(r) = NoSession
    /\ S(r).socket = "none" =>
         S(r) = NoSession /\ C(r).posted = <<>> /\ C(r).packets = <<>>
    /\ Asked(r) # {} => C(r) = NoSession
    /\ transaction_id[r] = 0 => C(r) = NoSession /\ Asked(r) = {}

UnderWay(r) == Len(C(r).posted) + Len(C(r).packets) + Len(S(r).inbox)

\* a request is in one place at most, and in none once it has been handled
RequestInv(r) ==
    /\ UnderWay(r) <= 1
    /\ Arrived(r) # {} \/ object[r]["server"] # "none" =>
         UnderWay(r) = 0 /\ S(r).socket \in {"open", "closed"}
    /\ object[r]["server"] # "none" => Arrived(r) = {}

\* before it is handled there is no response, and no relay
AnswerInv(r) ==
    object[r]["server"] = "none" =>
      /\ S(r).posted = <<>> /\ S(r).packets = <<>> /\ S(r).writing = <<>>
      /\ C(r).inbox = <<>>
      /\ Answered(r) = {} /\ Answers(r) = {}
      /\ source[r] = 1 /\ received[r] = 0
      /\ r \notin File /\ Relayed[r] # NoRequest => transaction_id[Relayed[r]] = 0

Some(set) == IF set = {} THEN 0 ELSE 1

\* the chunks that are read and not yet written to the socket
Busy(r) == Some(Answered(r)) + Len(S(r).posted) + Len(S(r).writing)

WritesInv(r) ==
    /\ Len(C(r).writing) <= 1
    /\ C(r).writing # <<>> => C(r).packets # <<>>
    /\ r \notin File =>
         Len(S(r).writing) <= 1 /\ (S(r).writing # <<>> => S(r).packets # <<>>)
    /\ r \in File => Busy(r) <= 1

ReadsInv(r) ==
    /\ C(r).reads <= 1 /\ S(r).reads <= 1
    /\ r \in File /\ Answers(r) # {} => C(r).reads = 0

\* the client of a file will take what arrives
Reading(r) == C(r).socket = "open" /\ (C(r).reads > 0 \/ Answers(r) # {})

\* the chunk before the first one in the inbox
Taken(r) == received[r] + Some(Answers(r))

\* the chunks under way follow each other without a gap
ChunksInv(r) ==
    /\ \A m \in Answers(r) : m.chunk = received[r] + 1
    /\ \A m \in Answered(r) : m.chunk = source[r] - 1
    /\ S(r).posted # <<>> => S(r).posted[1].chunk = source[r] - 1
    /\ S(r).writing # <<>> => S(r).writing[1].chunk = source[r] - 1
    /\ Reading(r) =>
         \A i \in 1..Len(C(r).inbox) : C(r).inbox[i].chunk = Taken(r) + i
    /\ Reading(r) /\ S(r).socket # "closed" =>
         source[r] = Taken(r) + Len(C(r).inbox) + 1 + Busy(r)

RequestsInv(r) ==
    /\ CarriesInv(r) /\ ConnectInv(r) /\ RequestInv(r) /\ AnswerInv(r)
    /\ WritesInv(r) /\ ReadsInv(r)
    /\ r \in File => ChunksInv(r)

IInv ==
    /\ TypeOK /\ SendInv /\ ReceiveInv /\ IdsInv
    /\ \A r \in Request : RequestsInv(r)

-----------------------------------------------------------------------------
(* The queues.                                                             *)

\* What is left of a queue whose head is popped.
LEMMA TailOfQueue ==
    ASSUME NEW Q \in Seq(Message), Q # <<>>, Unique(Q)
    PROVE  /\ Tail(Q) \in Seq(Message)
           /\ Head(Q) \in Message
           /\ Head(Q) \in In(Q, Head(Q).request, Head(Q).t_flag)
           /\ Unique(Tail(Q))
           /\ \A r, f : In(Tail(Q), r, f) \subseteq In(Q, r, f)
           /\ \A r, f : Head(Q).request # r \/ Head(Q).t_flag # f =>
                In(Tail(Q), r, f) = In(Q, r, f)
           /\ Head(Q).t_flag \/ Head(Q).request \in File =>
                In(Tail(Q), Head(Q).request, Head(Q).t_flag) = {}
<1>1. /\ Tail(Q) \in Seq(Message) /\ Len(Tail(Q)) = Len(Q) - 1
      /\ \A i \in 1..Len(Tail(Q)) : Tail(Q)[i] = Q[i + 1]
      /\ Head(Q) = Q[1] /\ Len(Q) \in Nat \ {0}
  OBVIOUS
<1>2. /\ DOMAIN Q = 1..Len(Q)
      /\ DOMAIN Tail(Q) = 1..Len(Tail(Q))
  BY <1>1
<1>3. Head(Q) \in Message BY <1>1
<1>4. Head(Q) \in Range(Q) BY <1>1, <1>2 DEF Range
<1>5. \A m \in Range(Q) : m = Head(Q) \/ m \in Range(Tail(Q))
  <2> SUFFICES ASSUME NEW i \in 1..Len(Q), i # 1
               PROVE  Q[i] \in Range(Tail(Q))
    BY <1>1, <1>2 DEF Range
  <2>1. i - 1 \in 1..Len(Tail(Q)) /\ Tail(Q)[i - 1] = Q[i] BY <1>1
  <2>2. QED BY <2>1, <1>2 DEF Range
<1>6. Range(Tail(Q)) \subseteq Range(Q)
  <2> SUFFICES ASSUME NEW i \in 1..Len(Tail(Q)) PROVE Tail(Q)[i] \in Range(Q)
    BY <1>2 DEF Range
  <2>1. i + 1 \in 1..Len(Q) /\ Tail(Q)[i] = Q[i + 1] BY <1>1
  <2>2. QED BY <2>1, <1>2 DEF Range
<1>7. Unique(Tail(Q))
  <2> SUFFICES ASSUME NEW i \in 1..Len(Tail(Q)), NEW j \in 1..Len(Tail(Q)),
                      Tail(Q)[i].request = Tail(Q)[j].request,
                      Tail(Q)[i].t_flag = Tail(Q)[j].t_flag,
                      Tail(Q)[i].t_flag \/ Tail(Q)[i].request \in File
               PROVE  i = j
    BY DEF Unique
  <2>1. /\ i + 1 \in 1..Len(Q) /\ Tail(Q)[i] = Q[i + 1]
        /\ j + 1 \in 1..Len(Q) /\ Tail(Q)[j] = Q[j + 1]
    BY <1>1
  <2>2. i + 1 = j + 1 BY <2>1 DEF Unique
  <2>3. QED BY <2>2
<1>8. ASSUME Head(Q).t_flag \/ Head(Q).request \in File
      PROVE  In(Tail(Q), Head(Q).request, Head(Q).t_flag) = {}
  <2> SUFFICES ASSUME NEW i \in 1..Len(Tail(Q)),
                      Tail(Q)[i].request = Head(Q).request,
                      Tail(Q)[i].t_flag = Head(Q).t_flag
               PROVE  FALSE
    BY <1>2 DEF In, Range
  <2>1. i + 1 \in 1..Len(Q) /\ Tail(Q)[i] = Q[i + 1] /\ 1 \in 1..Len(Q) BY <1>1
  <2>2. i + 1 = 1 BY <2>1, <1>1, <1>8 DEF Unique
  <2>3. QED BY <2>2
<1>9. QED BY <1>1, <1>3, <1>4, <1>5, <1>6, <1>7, <1>8 DEF In

\* What is in a queue to which a message is pushed.
LEMMA Appended ==
    ASSUME NEW Q \in Seq(Message), NEW m \in Message
    PROVE  /\ Append(Q, m) \in Seq(Message)
           /\ \A r, f : ~(m.request = r /\ m.t_flag = f) =>
                In(Append(Q, m), r, f) = In(Q, r, f)
           /\ In(Append(Q, m), m.request, m.t_flag)
                = In(Q, m.request, m.t_flag) \cup {m}
           /\ Unique(Q) /\ (In(Q, m.request, m.t_flag) = {}
                              \/ (~m.t_flag /\ m.request \notin File))
              => Unique(Append(Q, m))
<1> DEFINE A == Append(Q, m)
<1>1. /\ A \in Seq(Message) /\ Len(A) = Len(Q) + 1 /\ Len(Q) \in Nat
      /\ \A i \in 1..Len(Q) : A[i] = Q[i]
      /\ A[Len(Q) + 1] = m
  OBVIOUS
<1>2. DOMAIN A = 1..Len(A) /\ DOMAIN Q = 1..Len(Q) BY <1>1
<1> HIDE DEF A
<1>3. Range(A) = Range(Q) \cup {m}
  <2>1. ASSUME NEW i \in 1..Len(A) PROVE A[i] \in Range(Q) \cup {m}
    BY <1>1, <1>2 DEF Range
  <2>2. ASSUME NEW i \in 1..Len(Q) PROVE Q[i] \in Range(A)
    <3>1. i \in 1..Len(A) BY <1>1
    <3>2. QED BY <3>1, <1>1, <1>2 DEF Range
  <2>3. m \in Range(A)
    <3>1. Len(Q) + 1 \in 1..Len(A) BY <1>1
    <3>2. QED BY <3>1, <1>1, <1>2 DEF Range
  <2>4. QED BY <2>1, <2>2, <2>3, <1>2 DEF Range
<1>4. ASSUME Unique(Q), In(Q, m.request, m.t_flag) = {}
                          \/ (~m.t_flag /\ m.request \notin File)
      PROVE  Unique(A)
  <2> SUFFICES ASSUME NEW i \in 1..Len(A), NEW j \in 1..Len(A),
                      A[i].request = A[j].request, A[i].t_flag = A[j].t_flag,
                      A[i].t_flag \/ A[i].request \in File
               PROVE  i = j
    BY DEF Unique
  <2>1. \A k \in 1..Len(Q) : Q[k] \in Range(Q) BY <1>2 DEF Range
  <2>2. CASE i \in 1..Len(Q) /\ j \in 1..Len(Q)
    BY <2>2, <1>1, <1>4 DEF Unique
  <2>3. CASE i \in 1..Len(Q) /\ j = Len(Q) + 1
    BY <2>3, <2>1, <1>1, <1>4 DEF In
  <2>4. CASE i = Len(Q) + 1 /\ j \in 1..Len(Q)
    BY <2>4, <2>1, <1>1, <1>4 DEF In
  <2>5. QED BY <2>2, <2>3, <2>4, <1>1
<1>5. QED BY <1>1, <1>3, <1>4 DEF In, A

\* No message is in an empty queue.
LEMMA EmptyQueue == Unique(<<>>) /\ \A r, f : In(<<>>, r, f) = {}
  BY DEF Unique, In, Range

\* Queued asks whether there is a message.
LEMMA QueuedIn ==
    ASSUME NEW Q \in Seq(Message), NEW r, NEW f
    PROVE  Queued(Q, r, f) <=> In(Q, r, f) # {}
  BY DEF Queued, In, Range

-----------------------------------------------------------------------------
(* What a step does to the messages of each request.                       *)

\* an answer that has been made, or a chunk that has been read, remains so
CausesKept ==
    \A r \in Request :
      /\ 1..(source[r] - 1) \subseteq 1..(source'[r] - 1)
      /\ object[r]["server"] \in Over => object'[r]["server"] \in Over

\* the identifier of a request that is made never changes
IdsKept ==
    /\ CausesKept
    /\ \A r \in Request :
         transaction_id[r] # 0 => transaction_id'[r] = transaction_id[r]

LEMMA StaysIdentified ==
    ASSUME IdsKept, NEW m, m.request \in Request, Identified(m)
    PROVE  Identified(m)'
  BY DEF IdsKept, CausesKept, Identified, Caused

\* The nodes of a request and the ends of its session.
LEMMA Nodes ==
    ASSUME NEW r \in Request
    PROVE  Client[r] \in Node /\ Server[r] \in Node
  BY NodesAssumption

LEMMA RangeOfMessages ==
    ASSUME NEW Q \in Seq(Message), NEW r, NEW f
    PROVE  In(Q, r, f) \subseteq Message
  BY DEF In, Range

\* The send thread of a node takes a message from its queue.
LEMMA SendPopped ==
    ASSUME TypeOK, SendInv, IdsKept, NEW n \in Node, send_queue[n] # <<>>,
           send_queue' = [send_queue EXCEPT ![n] = Tail(@)],
           NEW m, m = Head(send_queue[n])
    PROVE  /\ m \in Message /\ n = Sender(m.request, m.t_flag) /\ Identified(m)
           /\ SendInv'
           /\ \A r \in Request : r # m.request =>
                Asked(r)' = Asked(r) /\ Answered(r)' = Answered(r)
           /\ m.t_flag =>
                /\ m \in Asked(m.request) /\ Asked(m.request)' = {}
                /\ Answered(m.request)' = Answered(m.request)
           /\ ~m.t_flag =>
                /\ m \in Answered(m.request)
                /\ Answered(m.request)' \subseteq Answered(m.request)
                /\ m.request \in File => Answered(m.request)' = {}
                /\ Asked(m.request)' = Asked(m.request)
<1> DEFINE Q == send_queue[n]
<1>1. Q \in Seq(Message) /\ Q # <<>> /\ m = Head(Q) BY DEF TypeOK
<1>2. Unique(Q) BY DEF SendInv
<1>3. /\ send_queue'[n] = Tail(Q)
      /\ \A k \in Node : k # n => send_queue'[k] = send_queue[k]
  BY DEF TypeOK
<1> HIDE DEF Q
<1>4. /\ m \in Message /\ m \in In(Q, m.request, m.t_flag)
      /\ Unique(Tail(Q))
      /\ \A r, f : In(Tail(Q), r, f) \subseteq In(Q, r, f)
      /\ \A r, f : m.request # r \/ m.t_flag # f => In(Tail(Q), r, f) = In(Q, r, f)
      /\ m.t_flag \/ m.request \in File => In(Tail(Q), m.request, m.t_flag) = {}
  <2>1. /\ Head(Q) \in Message /\ Head(Q) \in In(Q, Head(Q).request, Head(Q).t_flag)
        /\ Unique(Tail(Q))
        /\ \A r, f : In(Tail(Q), r, f) \subseteq In(Q, r, f)
        /\ \A r, f : Head(Q).request # r \/ Head(Q).t_flag # f =>
             In(Tail(Q), r, f) = In(Q, r, f)
        /\ Head(Q).t_flag \/ Head(Q).request \in File =>
             In(Tail(Q), Head(Q).request, Head(Q).t_flag) = {}
    BY <1>1, <1>2, TailOfQueue
  <2>2. QED BY <2>1, <1>1
<1>5. m.request \in Request /\ m.t_flag \in BOOLEAN BY <1>4 DEF Message
<1>6. n = Sender(m.request, m.t_flag) /\ Identified(m)
  BY <1>4, <1>5 DEF SendInv, Q
<1>7. SendInv'
  <2> SUFFICES ASSUME NEW k \in Node
               PROVE  /\ Unique(send_queue'[k])
                      /\ \A r \in Request, f \in BOOLEAN :
                           /\ In(send_queue'[k], r, f) # {} => k = Sender(r, f)
                           /\ \A x \in In(send_queue'[k], r, f) : Identified(x)'
    BY DEF SendInv, Sender, In
  <2>1. Unique(send_queue'[k]) BY <1>3, <1>4 DEF SendInv
  <2>2. ASSUME NEW r \in Request, NEW f \in BOOLEAN
        PROVE  /\ In(send_queue'[k], r, f) # {} => k = Sender(r, f)
               /\ \A x \in In(send_queue'[k], r, f) : Identified(x)'
    <3>1. In(send_queue'[k], r, f) \subseteq In(send_queue[k], r, f) BY <1>3, <1>4 DEF Q
    <3>2. \A x \in In(send_queue[k], r, f) : x.request \in Request BY DEF In
    <3>3. QED BY <3>1, <3>2, StaysIdentified DEF SendInv
  <2>3. QED BY <2>1, <2>2
<1>8. \A r \in Request, k \in Node, f \in BOOLEAN :
        ~(r = m.request /\ f = m.t_flag) => In(send_queue'[k], r, f) = In(send_queue[k], r, f)
  BY <1>3, <1>4 DEF Q
<1>9. \A r \in Request : r # m.request =>
        Asked(r)' = Asked(r) /\ Answered(r)' = Answered(r)
  BY <1>8, Nodes DEF Asked, Answered
<1>10. CASE m.t_flag
  <2>1. n = Sender(m.request, TRUE) /\ m.t_flag = TRUE BY <1>5, <1>6, <1>10
  <2>2. /\ m \in Asked(m.request) /\ Asked(m.request)' = {}
        /\ Answered(m.request)' = Answered(m.request)
    <3>1. m \in Asked(m.request) BY <1>4, <2>1 DEF Asked, Sender, Q
    <3>2. Asked(m.request)' = {} BY <1>3, <1>4, <2>1 DEF Asked, Sender
    <3>3. Answered(m.request)' = Answered(m.request) BY <1>5, <1>8, <2>1, Nodes DEF Answered
    <3>4. QED BY <3>1, <3>2, <3>3
  <2>3. QED BY <1>4, <1>6, <1>7, <1>9, <1>10, <2>2
<1>11. CASE ~m.t_flag
  <2>1. n = Sender(m.request, FALSE) /\ m.t_flag = FALSE BY <1>5, <1>6, <1>11
  <2>2. /\ m \in Answered(m.request) /\ Answered(m.request)' \subseteq Answered(m.request)
        /\ m.request \in File => Answered(m.request)' = {}
        /\ Asked(m.request)' = Asked(m.request)
    BY <1>3, <1>4, <1>5, <1>8, <2>1, Nodes DEF Asked, Answered, Sender, Q
  <2>3. QED BY <1>4, <1>6, <1>7, <1>9, <1>11, <2>2
<1>12. QED BY <1>10, <1>11

\* A message is pushed to the send queue of the node that sends it.
LEMMA SendPushed ==
    ASSUME TypeOK, SendInv, IdsKept, NEW n \in Node, NEW m \in Message,
           send_queue' = Pushed(n, m),
           n = Sender(m.request, m.t_flag), Identified(m)',
           m.t_flag => Asked(m.request) = {},
           ~m.t_flag /\ m.request \in File => Answered(m.request) = {}
    PROVE  /\ SendInv'
           /\ \A r \in Request : r # m.request =>
                Asked(r)' = Asked(r) /\ Answered(r)' = Answered(r)
           /\ m.t_flag =>
                /\ Asked(m.request)' = Asked(m.request) \cup {m}
                /\ Answered(m.request)' = Answered(m.request)
           /\ ~m.t_flag =>
                /\ Answered(m.request)' = Answered(m.request) \cup {m}
                /\ Asked(m.request)' = Asked(m.request)
<1> DEFINE Q == send_queue[n]
<1>1. Q \in Seq(Message) BY DEF TypeOK
<1>2. Unique(Q) BY DEF SendInv
<1>3. /\ send_queue'[n] = Append(Q, m)
      /\ \A k \in Node : k # n => send_queue'[k] = send_queue[k]
  BY DEF TypeOK, Pushed
<1>4. m.request \in Request /\ m.t_flag \in BOOLEAN BY DEF Message
<1>5. In(Q, m.request, m.t_flag) = {} \/ (~m.t_flag /\ m.request \notin File)
  BY <1>4 DEF Asked, Answered, Sender
<1> HIDE DEF Q
<1>6. /\ Unique(Append(Q, m))
      /\ \A r, f : ~(m.request = r /\ m.t_flag = f) => In(Append(Q, m), r, f) = In(Q, r, f)
      /\ In(Append(Q, m), m.request, m.t_flag) = In(Q, m.request, m.t_flag) \cup {m}
  BY <1>1, <1>2, <1>5, Appended
<1>7. SendInv'
  <2> SUFFICES ASSUME NEW k \in Node
               PROVE  /\ Unique(send_queue'[k])
                      /\ \A r \in Request, f \in BOOLEAN :
                           /\ In(send_queue'[k], r, f) # {} => k = Sender(r, f)
                           /\ \A x \in In(send_queue'[k], r, f) : Identified(x)'
    BY DEF SendInv, Sender, In
  <2>1. Unique(send_queue'[k]) BY <1>3, <1>6 DEF SendInv
  <2>2. ASSUME NEW r \in Request, NEW f \in BOOLEAN
        PROVE  /\ In(send_queue'[k], r, f) # {} => k = Sender(r, f)
               /\ \A x \in In(send_queue'[k], r, f) : Identified(x)'
    <3>1. \/ In(send_queue'[k], r, f) = In(send_queue[k], r, f)
          \/ /\ k = n /\ r = m.request /\ f = m.t_flag
             /\ In(send_queue'[k], r, f) = In(send_queue[k], r, f) \cup {m}
      <4>1. CASE k = n /\ m.request = r /\ m.t_flag = f
        BY <4>1, <1>3, <1>6 DEF Q
      <4>2. CASE k = n /\ ~(m.request = r /\ m.t_flag = f)
        <5>1. In(Append(Q, m), r, f) = In(Q, r, f) BY <4>2, <1>6, Zenon
        <5>2. QED BY <5>1, <4>2, <1>3 DEF Q
      <4>3. CASE k # n BY <4>3, <1>3
      <4>4. QED BY <4>1, <4>2, <4>3
    <3>2. \A x \in In(send_queue[k], r, f) : x.request \in Request BY DEF In
    <3>3. QED BY <3>1, <3>2, StaysIdentified DEF SendInv
  <2>3. QED BY <2>1, <2>2
<1>8. \A r \in Request, k \in Node, f \in BOOLEAN :
        ~(k = n /\ r = m.request /\ f = m.t_flag) =>
           In(send_queue'[k], r, f) = In(send_queue[k], r, f)
  <2> TAKE r \in Request, k \in Node, f \in BOOLEAN
  <2>1. CASE k # n BY <2>1, <1>3
  <2>2. CASE k = n /\ ~(m.request = r /\ m.t_flag = f)
    BY <2>2, <1>3, <1>6 DEF Q
  <2>3. QED BY <2>1, <2>2
<1>9. In(send_queue'[n], m.request, m.t_flag) = In(send_queue[n], m.request, m.t_flag) \cup {m}
  BY <1>3, <1>6 DEF Q
<1>10. \A r \in Request : r # m.request =>
         Asked(r)' = Asked(r) /\ Answered(r)' = Answered(r)
  BY <1>8, Nodes DEF Asked, Answered
<1>11. CASE m.t_flag
  <2>1. n = Sender(m.request, TRUE) /\ m.t_flag = TRUE BY <1>4, <1>11
  <2>2. /\ Asked(m.request)' = Asked(m.request) \cup {m}
        /\ Answered(m.request)' = Answered(m.request)
    BY <1>4, <1>8, <1>9, <2>1, Nodes DEF Asked, Answered, Sender
  <2>3. QED BY <1>7, <1>10, <1>11, <2>2
<1>12. CASE ~m.t_flag
  <2>1. n = Sender(m.request, FALSE) /\ m.t_flag = FALSE BY <1>4, <1>12
  <2>2. /\ Answered(m.request)' = Answered(m.request) \cup {m}
        /\ Asked(m.request)' = Asked(m.request)
    BY <1>4, <1>8, <1>9, <2>1, Nodes DEF Asked, Answered, Sender
  <2>3. QED BY <1>7, <1>10, <1>12, <2>2
<1>13. QED BY <1>11, <1>12

\* The dispatcher of a node takes a message from its queue.
LEMMA ReceivePopped ==
    ASSUME TypeOK, ReceiveInv, IdsKept, NEW n \in Node, receive_queue[n] # <<>>,
           receive_queue' = [receive_queue EXCEPT ![n] = Tail(@)],
           NEW m, m = Head(receive_queue[n])
    PROVE  /\ m \in Message /\ n = Receiver(m.request, m.t_flag) /\ Identified(m)
           /\ ReceiveInv'
           /\ \A r \in Request : r # m.request =>
                Arrived(r)' = Arrived(r) /\ Answers(r)' = Answers(r)
           /\ m.t_flag =>
                /\ m \in Arrived(m.request) /\ Arrived(m.request)' = {}
                /\ Answers(m.request)' = Answers(m.request)
           /\ ~m.t_flag =>
                /\ m \in Answers(m.request)
                /\ Answers(m.request)' \subseteq Answers(m.request)
                /\ m.request \in File => Answers(m.request)' = {}
                /\ Arrived(m.request)' = Arrived(m.request)
<1> DEFINE Q == receive_queue[n]
<1>1. Q \in Seq(Message) /\ Q # <<>> /\ m = Head(Q) BY DEF TypeOK
<1>2. Unique(Q) BY DEF ReceiveInv
<1>3. /\ receive_queue'[n] = Tail(Q)
      /\ \A k \in Node : k # n => receive_queue'[k] = receive_queue[k]
  BY DEF TypeOK
<1> HIDE DEF Q
<1>4. /\ m \in Message /\ m \in In(Q, m.request, m.t_flag)
      /\ Unique(Tail(Q))
      /\ \A r, f : In(Tail(Q), r, f) \subseteq In(Q, r, f)
      /\ \A r, f : m.request # r \/ m.t_flag # f => In(Tail(Q), r, f) = In(Q, r, f)
      /\ m.t_flag \/ m.request \in File => In(Tail(Q), m.request, m.t_flag) = {}
  <2>1. /\ Head(Q) \in Message /\ Head(Q) \in In(Q, Head(Q).request, Head(Q).t_flag)
        /\ Unique(Tail(Q))
        /\ \A r, f : In(Tail(Q), r, f) \subseteq In(Q, r, f)
        /\ \A r, f : Head(Q).request # r \/ Head(Q).t_flag # f =>
             In(Tail(Q), r, f) = In(Q, r, f)
        /\ Head(Q).t_flag \/ Head(Q).request \in File =>
             In(Tail(Q), Head(Q).request, Head(Q).t_flag) = {}
    BY <1>1, <1>2, TailOfQueue
  <2>2. QED BY <2>1, <1>1
<1>5. m.request \in Request /\ m.t_flag \in BOOLEAN BY <1>4 DEF Message
<1>6. n = Receiver(m.request, m.t_flag) /\ Identified(m)
  BY <1>4, <1>5 DEF ReceiveInv, Q
<1>7. ReceiveInv'
  <2> SUFFICES ASSUME NEW k \in Node
               PROVE  /\ Unique(receive_queue'[k])
                      /\ \A r \in Request, f \in BOOLEAN :
                           /\ In(receive_queue'[k], r, f) # {} => k = Receiver(r, f)
                           /\ \A x \in In(receive_queue'[k], r, f) : Identified(x)'
    BY DEF ReceiveInv, Receiver, In
  <2>1. Unique(receive_queue'[k]) BY <1>3, <1>4 DEF ReceiveInv
  <2>2. ASSUME NEW r \in Request, NEW f \in BOOLEAN
        PROVE  /\ In(receive_queue'[k], r, f) # {} => k = Receiver(r, f)
               /\ \A x \in In(receive_queue'[k], r, f) : Identified(x)'
    <3>1. In(receive_queue'[k], r, f) \subseteq In(receive_queue[k], r, f) BY <1>3, <1>4 DEF Q
    <3>2. \A x \in In(receive_queue[k], r, f) : x.request \in Request BY DEF In
    <3>3. QED BY <3>1, <3>2, StaysIdentified DEF ReceiveInv
  <2>3. QED BY <2>1, <2>2
<1>8. \A r \in Request, k \in Node, f \in BOOLEAN :
        ~(r = m.request /\ f = m.t_flag) => In(receive_queue'[k], r, f) = In(receive_queue[k], r, f)
  BY <1>3, <1>4 DEF Q
<1>9. \A r \in Request : r # m.request =>
        Arrived(r)' = Arrived(r) /\ Answers(r)' = Answers(r)
  BY <1>8, Nodes DEF Arrived, Answers
<1>10. CASE m.t_flag
  <2>1. n = Receiver(m.request, TRUE) /\ m.t_flag = TRUE BY <1>5, <1>6, <1>10
  <2>2. /\ m \in Arrived(m.request) /\ Arrived(m.request)' = {}
        /\ Answers(m.request)' = Answers(m.request)
    <3>1. m \in Arrived(m.request) BY <1>4, <2>1 DEF Arrived, Receiver, Q
    <3>2. Arrived(m.request)' = {} BY <1>3, <1>4, <2>1 DEF Arrived, Receiver
    <3>3. Answers(m.request)' = Answers(m.request) BY <1>5, <1>8, <2>1, Nodes DEF Answers
    <3>4. QED BY <3>1, <3>2, <3>3
  <2>3. QED BY <1>4, <1>6, <1>7, <1>9, <1>10, <2>2
<1>11. CASE ~m.t_flag
  <2>1. n = Receiver(m.request, FALSE) /\ m.t_flag = FALSE BY <1>5, <1>6, <1>11
  <2>2. /\ m \in Answers(m.request) /\ Answers(m.request)' \subseteq Answers(m.request)
        /\ m.request \in File => Answers(m.request)' = {}
        /\ Arrived(m.request)' = Arrived(m.request)
    BY <1>3, <1>4, <1>5, <1>8, <2>1, Nodes DEF Arrived, Answers, Receiver, Q
  <2>3. QED BY <1>4, <1>6, <1>7, <1>9, <1>11, <2>2
<1>12. QED BY <1>10, <1>11

\* A message that has been read is pushed to the receive queue.
LEMMA ReceivePushed ==
    ASSUME TypeOK, ReceiveInv, IdsKept, NEW n \in Node, NEW m \in Message,
           receive_queue' = [receive_queue EXCEPT ![n] = Append(@, m)],
           n = Receiver(m.request, m.t_flag), Identified(m)',
           m.t_flag => Arrived(m.request) = {},
           ~m.t_flag /\ m.request \in File => Answers(m.request) = {}
    PROVE  /\ ReceiveInv'
           /\ \A r \in Request : r # m.request =>
                Arrived(r)' = Arrived(r) /\ Answers(r)' = Answers(r)
           /\ m.t_flag =>
                /\ Arrived(m.request)' = Arrived(m.request) \cup {m}
                /\ Answers(m.request)' = Answers(m.request)
           /\ ~m.t_flag =>
                /\ Answers(m.request)' = Answers(m.request) \cup {m}
                /\ Arrived(m.request)' = Arrived(m.request)
<1> DEFINE Q == receive_queue[n]
<1>1. Q \in Seq(Message) BY DEF TypeOK
<1>2. Unique(Q) BY DEF ReceiveInv
<1>3. /\ receive_queue'[n] = Append(Q, m)
      /\ \A k \in Node : k # n => receive_queue'[k] = receive_queue[k]
  BY DEF TypeOK
<1>4. m.request \in Request /\ m.t_flag \in BOOLEAN BY DEF Message
<1>5. In(Q, m.request, m.t_flag) = {} \/ (~m.t_flag /\ m.request \notin File)
  BY <1>4 DEF Arrived, Answers, Receiver
<1> HIDE DEF Q
<1>6. /\ Unique(Append(Q, m))
      /\ \A r, f : ~(m.request = r /\ m.t_flag = f) => In(Append(Q, m), r, f) = In(Q, r, f)
      /\ In(Append(Q, m), m.request, m.t_flag) = In(Q, m.request, m.t_flag) \cup {m}
  BY <1>1, <1>2, <1>5, Appended
<1>7. ReceiveInv'
  <2> SUFFICES ASSUME NEW k \in Node
               PROVE  /\ Unique(receive_queue'[k])
                      /\ \A r \in Request, f \in BOOLEAN :
                           /\ In(receive_queue'[k], r, f) # {} => k = Receiver(r, f)
                           /\ \A x \in In(receive_queue'[k], r, f) : Identified(x)'
    BY DEF ReceiveInv, Receiver, In
  <2>1. Unique(receive_queue'[k]) BY <1>3, <1>6 DEF ReceiveInv
  <2>2. ASSUME NEW r \in Request, NEW f \in BOOLEAN
        PROVE  /\ In(receive_queue'[k], r, f) # {} => k = Receiver(r, f)
               /\ \A x \in In(receive_queue'[k], r, f) : Identified(x)'
    <3>1. \/ In(receive_queue'[k], r, f) = In(receive_queue[k], r, f)
          \/ /\ k = n /\ r = m.request /\ f = m.t_flag
             /\ In(receive_queue'[k], r, f) = In(receive_queue[k], r, f) \cup {m}
      <4>1. CASE k = n /\ m.request = r /\ m.t_flag = f
        BY <4>1, <1>3, <1>6 DEF Q
      <4>2. CASE k = n /\ ~(m.request = r /\ m.t_flag = f)
        <5>1. In(Append(Q, m), r, f) = In(Q, r, f) BY <4>2, <1>6, Zenon
        <5>2. QED BY <5>1, <4>2, <1>3 DEF Q
      <4>3. CASE k # n BY <4>3, <1>3
      <4>4. QED BY <4>1, <4>2, <4>3
    <3>2. \A x \in In(receive_queue[k], r, f) : x.request \in Request BY DEF In
    <3>3. QED BY <3>1, <3>2, StaysIdentified DEF ReceiveInv
  <2>3. QED BY <2>1, <2>2
<1>8. \A r \in Request, k \in Node, f \in BOOLEAN :
        ~(k = n /\ r = m.request /\ f = m.t_flag) =>
           In(receive_queue'[k], r, f) = In(receive_queue[k], r, f)
  <2> TAKE r \in Request, k \in Node, f \in BOOLEAN
  <2>1. CASE k # n BY <2>1, <1>3
  <2>2. CASE k = n /\ ~(m.request = r /\ m.t_flag = f)
    BY <2>2, <1>3, <1>6 DEF Q
  <2>3. QED BY <2>1, <2>2
<1>9. In(receive_queue'[n], m.request, m.t_flag) = In(receive_queue[n], m.request, m.t_flag) \cup {m}
  BY <1>3, <1>6 DEF Q
<1>10. \A r \in Request : r # m.request =>
         Arrived(r)' = Arrived(r) /\ Answers(r)' = Answers(r)
  BY <1>8, Nodes DEF Arrived, Answers
<1>11. CASE m.t_flag
  <2>1. n = Receiver(m.request, TRUE) /\ m.t_flag = TRUE BY <1>4, <1>11
  <2>2. /\ Arrived(m.request)' = Arrived(m.request) \cup {m}
        /\ Answers(m.request)' = Answers(m.request)
    BY <1>4, <1>8, <1>9, <2>1, Nodes DEF Arrived, Answers, Receiver
  <2>3. QED BY <1>7, <1>10, <1>11, <2>2
<1>12. CASE ~m.t_flag
  <2>1. n = Receiver(m.request, FALSE) /\ m.t_flag = FALSE BY <1>4, <1>12
  <2>2. /\ Answers(m.request)' = Answers(m.request) \cup {m}
        /\ Arrived(m.request)' = Arrived(m.request)
    BY <1>4, <1>8, <1>9, <2>1, Nodes DEF Arrived, Answers, Receiver
  <2>3. QED BY <1>7, <1>10, <1>12, <2>2
<1>13. QED BY <1>11, <1>12

-----------------------------------------------------------------------------
(* Steps that leave a request alone.                                       *)

\* the step changes nothing of request r, except that it may make r
Untouched(r) ==
    /\ session'[r] = session[r]
    /\ object'[r]["server"] = "none" <=> object[r]["server"] = "none"
    /\ source'[r] = source[r] /\ received'[r] = received[r]
    /\ Asked(r)' = Asked(r) /\ Arrived(r)' = Arrived(r)
    /\ Answered(r)' = Answered(r) /\ Answers(r)' = Answers(r)

\* nor does it make the relay of a request that is not handled yet
RelayKept(r) ==
    r \notin File /\ Relayed[r] # NoRequest /\ object'[r]["server"] = "none" =>
      transaction_id'[Relayed[r]] = transaction_id[Relayed[r]]

LEMMA CarriesKept ==
    ASSUME IdsKept, NEW r \in Request, NEW messages, NEW f, Carries(messages, r, f)
    PROVE  Carries(messages, r, f)'
  BY StaysIdentified DEF Carries

LEMMA UntouchedKept ==
    ASSUME TypeOK, IdsKept, NEW r \in Request, RequestsInv(r), Untouched(r),
           RelayKept(r), transaction_id'[r] \in Nat
    PROVE  RequestsInv(r)'
<1>1. C(r)' = C(r) /\ S(r)' = S(r) BY DEF Untouched, C, S
<1>2. CarriesInv(r)'
  BY <1>1, CarriesKept DEF RequestsInv, CarriesInv
<1>3. ConnectInv(r)'
  BY <1>1 DEF RequestsInv, ConnectInv, Untouched, IdsKept
<1>4. UnderWay(r)' = UnderWay(r) BY <1>1 DEF UnderWay
<1>5. RequestInv(r)'
  BY <1>1, <1>4 DEF RequestsInv, RequestInv, Untouched
<1>6. AnswerInv(r)'
  BY <1>1 DEF RequestsInv, AnswerInv, Untouched, RelayKept
<1>7. Busy(r)' = Busy(r) BY <1>1 DEF Busy, Some, Untouched
<1>8. WritesInv(r)'
  BY <1>1, <1>7 DEF RequestsInv, WritesInv
<1>9. ReadsInv(r)'
  BY <1>1 DEF RequestsInv, ReadsInv, Untouched
<1>10. Taken(r)' = Taken(r) /\ (Reading(r)' <=> Reading(r))
  BY <1>1 DEF Taken, Reading, Some, Untouched
<1>11. r \in File => ChunksInv(r)'
  BY <1>1, <1>7, <1>10 DEF RequestsInv, ChunksInv, Untouched
<1>12. QED
  BY <1>2, <1>3, <1>5, <1>6, <1>8, <1>9, <1>11 DEF RequestsInv

\* Handlers that are dropped leave the identifiers in order.
LEMMA IdsInvKept ==
    ASSUME TypeOK, IdsInv, CausesKept, UNCHANGED identifiers,
           \A n \in Node : active_handlers'[n] \subseteq active_handlers[n]
    PROVE  IdsInv' /\ IdsKept
  BY DEF IdsInv, IdsKept, identifiers

\* An object that is changed is the only one.
LEMMA ObjectChanged ==
    ASSUME TypeOK, NEW r \in Request, NEW e \in End, NEW state,
           object' = With(<<r, e>>, state)
    PROVE  /\ object'[r][e] = state
           /\ \A q \in Request, d \in End :
                ~(q = r /\ d = e) => object'[q][d] = object[q][d]
  BY DEF TypeOK, With

LEMMA TheEnds == "client" \in End /\ "server" \in End /\ \A e \in End : Other(e) \in End
  BY DEF End, Other

\* The two ends of a session.
LEMMA TypeOfEnds ==
    ASSUME TypeOK, NEW r \in Request
    PROVE  C(r) \in EndState /\ S(r) \in EndState
  BY TheEnds DEF TypeOK, C, S

LEMMA EndIsSet ==
    ASSUME TypeOK, NEW r \in Request, NEW e \in End, NEW s, SetEnd(r, e, s)
    PROVE  /\ e = "client" => C(r)' = s /\ S(r)' = S(r)
           /\ e = "server" => S(r)' = s /\ C(r)' = C(r)
           /\ \A q \in Request : q # r => session'[q] = session[q]
  BY TheEnds DEF TypeOK, SetEnd, C, S

\* The queues of a step that leaves them alone.
LEMMA QueuesKept ==
    ASSUME IdsKept
    PROVE  /\ UNCHANGED send_queue => 
                /\ SendInv => SendInv'
                /\ \A r \in Request : Asked(r)' = Asked(r) /\ Answered(r)' = Answered(r)
           /\ UNCHANGED receive_queue =>
                /\ ReceiveInv => ReceiveInv'
                /\ \A r \in Request : Arrived(r)' = Arrived(r) /\ Answers(r)' = Answers(r)
<1>1. \A n \in Node, r \in Request, f \in BOOLEAN :
        \A m \in In(send_queue[n], r, f) \cup In(receive_queue[n], r, f) :
          Identified(m) => Identified(m)'
  BY StaysIdentified DEF In
<1>2. UNCHANGED send_queue => (SendInv => SendInv') BY <1>1 DEF SendInv
<1>3. UNCHANGED receive_queue => (ReceiveInv => ReceiveInv') BY <1>1 DEF ReceiveInv
<1>4. QED BY <1>2, <1>3 DEF Asked, Answered, Arrived, Answers

-----------------------------------------------------------------------------
(* Completion handlers that change the session of a request and nothing    *)
(* else.                                                                   *)

\* A step of one request keeps the invariant when it keeps that of its request.
LEMMA StepKept ==
    ASSUME IInv, TypeOK', IdsInv', IdsKept, SendInv', ReceiveInv', NEW r \in Request,
           \A q \in Request : q # r => Untouched(q) /\ RelayKept(q),
           RequestsInv(r)'
    PROVE  IInv'
<1>1. ASSUME NEW q \in Request, q # r PROVE RequestsInv(q)'
  <2>1. transaction_id'[q] \in Nat BY DEF TypeOK
  <2>2. QED BY <1>1, <2>1, UntouchedKept DEF IInv
<1>2. QED BY <1>1 DEF IInv

LEMMA SessionStepKept ==
    ASSUME IInv, TypeOK', Session_step, NEW r \in Request,
           \A q \in Request : q # r => session'[q] = session[q],
           RequestsInv(r)'
    PROVE  IInv'
<1>1. IdsInv' /\ IdsKept BY IdsInvKept DEF IInv, Session_step, CausesKept, files
<1>2. /\ SendInv' /\ ReceiveInv'
      /\ \A q \in Request : /\ Asked(q)' = Asked(q) /\ Answered(q)' = Answered(q)
                            /\ Arrived(q)' = Arrived(q) /\ Answers(q)' = Answers(q)
  BY <1>1, QueuesKept DEF IInv, Session_step
<1>3. ASSUME NEW q \in Request, q # r PROVE Untouched(q) /\ RelayKept(q)
  BY <1>2, <1>3 DEF Untouched, RelayKept, Session_step, files, identifiers
<1>4. QED BY <1>1, <1>2, <1>3, StepKept

\* What such a step leaves as it is.
Frame(r) ==
    /\ IdsKept /\ transaction_id' = transaction_id
    /\ object'[r]["server"] = object[r]["server"]
    /\ source'[r] = source[r] /\ received'[r] = received[r]
    /\ Asked(r)' = Asked(r) /\ Arrived(r)' = Arrived(r)
    /\ Answered(r)' = Answered(r) /\ Answers(r)' = Answers(r)

LEMMA SessionStepFrame ==
    ASSUME IInv, Session_step, NEW r \in Request
    PROVE  Frame(r)
<1>1. IdsKept BY IdsInvKept DEF IInv, Session_step, CausesKept, files
<1>2. QED BY <1>1, QueuesKept DEF Frame, Session_step, identifiers, files

LEMMA NoMessages == \A r, f : Carries(<<>>, r, f) /\ Carries(<<>>, r, f)'
  BY DEF Carries

\* A message that is appended, or one that is taken.
LEMMA CarriesAppended ==
    ASSUME NEW r \in Request, NEW f \in BOOLEAN,
           NEW Q \in Seq(Message), NEW m \in Message,
           Carries(Q, r, f), m.request = r, m.t_flag = f, Identified(m)
    PROVE  Carries(Append(Q, m), r, f)
  BY DEF Carries

LEMMA CarriesTail ==
    ASSUME NEW r \in Request, NEW f, NEW Q \in Seq(Message), Q # <<>>,
           Carries(Q, r, f)
    PROVE  /\ Carries(Tail(Q), r, f)
           /\ Head(Q) \in Message
           /\ Head(Q).request = r /\ Head(Q).t_flag = f /\ Identified(Head(Q))
<1>1. /\ Len(Tail(Q)) = Len(Q) - 1
      /\ \A i \in 1..Len(Tail(Q)) : Tail(Q)[i] = Q[i + 1]
      /\ Head(Q) = Q[1] /\ Len(Q) \in Nat \ {0}
  OBVIOUS
<1>2. Head(Q) \in Message OBVIOUS
<1>3. QED BY <1>1, <1>2 DEF Carries

LEMMA CarriesOne ==
    ASSUME NEW m, NEW r, NEW f, m.request = r, m.t_flag = f, Identified(m)
    PROVE  Carries(<<m>>, r, f)
  BY DEF Carries

\* async_connect succeeds.
LEMMA connectedKept ==
    ASSUME IInv, TypeOK', NEW r \in Request, connected(r)
    PROVE  IInv'
<1> PICK m : m = request_(r) OBVIOUS
<1>1. Session_step BY DEF connected
<1>2. RequestsInv(r) BY DEF IInv
<1>3. /\ C(r).socket = "connecting" /\ C(r) = Connecting /\ S(r) = NoSession
      /\ Asked(r) = {} /\ transaction_id[r] # 0
  BY <1>2 DEF RequestsInv, ConnectInv, connected, C, Connecting, NoSession
<1>4. /\ C(r)' = [Connecting EXCEPT !.socket = "open", !.posted = <<m>>]
      /\ S(r)' = [NoSession EXCEPT !.socket = "backlog"]
      /\ \A q \in Request : q # r => session'[q] = session[q]
  <2>1. session[r]["client"] = Connecting /\ session[r]["server"] = NoSession
    BY <1>3 DEF C, S
  <2>2. session' = [session EXCEPT
          ![r]["client"] = [Connecting EXCEPT !.socket = "open", !.posted = <<m>>],
          ![r]["server"].socket = "backlog"]
    BY <2>1 DEF connected
  <2>3. session \in [Request -> [End -> EndState]] BY DEF IInv, TypeOK
  <2>4. QED BY <2>1, <2>2, <2>3, TheEnds DEF C, S
<1>5. /\ C(r)'.socket = "open" /\ C(r)'.reads = 1 /\ C(r)'.posted = <<m>>
      /\ C(r)'.packets = <<>> /\ C(r)'.writing = <<>> /\ C(r)'.inbox = <<>>
      /\ S(r)'.socket = "backlog" /\ S(r)'.reads = 0 /\ S(r)'.posted = <<>>
      /\ S(r)'.packets = <<>> /\ S(r)'.writing = <<>> /\ S(r)'.inbox = <<>>
  BY <1>4 DEF Connecting, NoSession
<1>6. /\ object[r]["server"] = "none" /\ Arrived(r) = {} /\ Answered(r) = {}
      /\ Answers(r) = {} /\ source[r] = 1 /\ received[r] = 0
  BY <1>2, <1>3 DEF RequestsInv, RequestInv, AnswerInv, NoSession
<1>7. RequestsInv(r)'
  <2>1. CarriesInv(r)'
    <3>1. m.request = r /\ m.t_flag = TRUE /\ Identified(m)'
      BY <1>1, <1>3, SessionStepFrame DEF Frame, Identified, request_, Request_message
    <3>2. Carries(<<m>>, r, TRUE)' BY <3>1 DEF Carries
    <3>3. QED BY <1>5, <3>2, NoMessages DEF CarriesInv
  <2>2. ConnectInv(r)'
    BY <1>1, <1>3, <1>5, SessionStepFrame DEF Frame, ConnectInv
  <2>3. RequestInv(r)'
    BY <1>1, <1>5, <1>6, SessionStepFrame DEF Frame, RequestInv, UnderWay
  <2>4. AnswerInv(r)'
    BY <1>1, <1>2, <1>5, <1>6, SessionStepFrame DEF Frame, RequestsInv, AnswerInv
  <2>5. WritesInv(r)'
    BY <1>1, <1>5, <1>6, SessionStepFrame DEF Frame, WritesInv, Busy, Some
  <2>6. ReadsInv(r)'
    BY <1>1, <1>5, <1>6, SessionStepFrame DEF Frame, ReadsInv
  <2>7. ChunksInv(r)'
    BY <1>1, <1>5, <1>6, SessionStepFrame DEF Frame, ChunksInv, Taken, Busy, Some
  <2>8. QED BY <2>1, <2>2, <2>3, <2>4, <2>5, <2>6, <2>7 DEF RequestsInv
<1>8. QED BY <1>1, <1>4, <1>7, SessionStepKept

\* The kernel refuses the connection.
LEMMA connection_refusedKept ==
    ASSUME IInv, TypeOK', NEW r \in Request, connection_refused(r)
    PROVE  IInv'
<1>1. Session_step BY DEF connection_refused
<1>2. RequestsInv(r) BY DEF IInv
<1>3. /\ C(r).socket = "connecting" /\ C(r) = Connecting /\ S(r) = NoSession
      /\ Asked(r) = {} /\ transaction_id[r] # 0
  BY <1>2 DEF RequestsInv, ConnectInv, connection_refused, C, Connecting, NoSession
<1>4. /\ C(r)' = [Connecting EXCEPT !.socket = "closed"] /\ S(r)' = NoSession
      /\ \A q \in Request : q # r => session'[q] = session[q]
  BY <1>3, TheEnds DEF IInv, TypeOK, connection_refused, SetEnd, C, S
<1>5. /\ C(r)'.socket = "closed" /\ C(r)'.reads = 1 /\ C(r)'.posted = <<>>
      /\ C(r)'.packets = <<>> /\ C(r)'.writing = <<>> /\ C(r)'.inbox = <<>>
      /\ S(r)'.socket = "none" /\ S(r)'.reads = 0 /\ S(r)'.posted = <<>>
      /\ S(r)'.packets = <<>> /\ S(r)'.writing = <<>> /\ S(r)'.inbox = <<>>
  BY <1>4 DEF Connecting, NoSession
<1>6. /\ object[r]["server"] = "none" /\ Arrived(r) = {} /\ Answered(r) = {}
      /\ Answers(r) = {} /\ source[r] = 1 /\ received[r] = 0
  BY <1>2, <1>3 DEF RequestsInv, RequestInv, AnswerInv, NoSession
<1>7. RequestsInv(r)'
  <2>1. CarriesInv(r)' BY <1>5, NoMessages DEF CarriesInv
  <2>2. ConnectInv(r)' BY <1>1, <1>3, <1>4, <1>5, SessionStepFrame DEF Frame, ConnectInv
  <2>3. RequestInv(r)' BY <1>1, <1>5, <1>6, SessionStepFrame DEF Frame, RequestInv, UnderWay
  <2>4. AnswerInv(r)'
    BY <1>1, <1>2, <1>5, <1>6, SessionStepFrame DEF Frame, RequestsInv, AnswerInv
  <2>5. WritesInv(r)' BY <1>1, <1>5, <1>6, SessionStepFrame DEF Frame, WritesInv, Busy, Some
  <2>6. ReadsInv(r)' BY <1>1, <1>5, <1>6, SessionStepFrame DEF Frame, ReadsInv
  <2>7. ChunksInv(r)'
    BY <1>1, <1>5, <1>6, SessionStepFrame DEF Frame, ChunksInv, Reading, Taken, Busy, Some
  <2>8. QED BY <2>1, <2>2, <2>3, <2>4, <2>5, <2>6, <2>7 DEF RequestsInv
<1>8. QED BY <1>1, <1>4, <1>7, SessionStepKept

\* The server accepts it and reads.
LEMMA handle_new_connectionKept ==
    ASSUME IInv, TypeOK', NEW r \in Request, handle_new_connection(r)
    PROVE  IInv'
<1>1. Session_step BY DEF handle_new_connection
<1>2. RequestsInv(r) BY DEF IInv
<1>3. /\ S(r).socket = "backlog" /\ C(r) \in EndState /\ S(r) \in EndState
  BY TypeOfEnds DEF IInv, handle_new_connection, S
<1>4. /\ C(r)' = C(r) /\ S(r)' = [S(r) EXCEPT !.socket = "open", !.reads = 1]
      /\ \A q \in Request : q # r => session'[q] = session[q]
  <2>1. SetEnd(r, "server", [S(r) EXCEPT !.socket = "open", !.reads = 1])
    BY DEF handle_new_connection, S
  <2>2. QED BY <2>1, TheEnds, EndIsSet DEF IInv
<1>5. /\ S(r)'.socket = "open" /\ S(r)'.reads = 1 /\ S(r)'.posted = S(r).posted
      /\ S(r)'.packets = S(r).packets /\ S(r)'.writing = S(r).writing
      /\ S(r)'.inbox = S(r).inbox
  BY <1>3, <1>4 DEF EndState
<1>6. RequestsInv(r)'
  <2>1. CarriesInv(r)'
    BY <1>1, <1>2, <1>4, <1>5, CarriesKept, SessionStepFrame DEF Frame, RequestsInv, CarriesInv
  <2>2. ConnectInv(r)'
    BY <1>1, <1>2, <1>3, <1>4, <1>5, SessionStepFrame DEF Frame, RequestsInv, ConnectInv, NoSession
  <2>3. RequestInv(r)'
    BY <1>1, <1>2, <1>3, <1>4, <1>5, SessionStepFrame DEF Frame, RequestsInv, RequestInv, UnderWay
  <2>4. AnswerInv(r)'
    BY <1>1, <1>2, <1>4, <1>5, SessionStepFrame DEF Frame, RequestsInv, AnswerInv
  <2>5. WritesInv(r)'
    BY <1>1, <1>2, <1>4, <1>5, SessionStepFrame DEF Frame, RequestsInv, WritesInv, Busy
  <2>6. ReadsInv(r)'
    BY <1>1, <1>2, <1>4, <1>5, SessionStepFrame DEF Frame, RequestsInv, ReadsInv
  <2>7. r \in File => ChunksInv(r)'
    BY <1>1, <1>2, <1>3, <1>4, <1>5, SessionStepFrame DEF Frame, RequestsInv, ChunksInv, Reading, Taken, Busy
  <2>8. QED BY <2>1, <2>2, <2>3, <2>4, <2>5, <2>6, <2>7 DEF RequestsInv
<1>7. QED BY <1>1, <1>4, <1>6, SessionStepKept

-----------------------------------------------------------------------------
(* Writing and reading.                                                    *)

LEMMA SomeIs == \A set : Some(set) \in {0, 1} /\ (Some(set) = 0 <=> set = {})
  BY DEF Some

\* Lengths of messages that move.
LEMMA Lengths ==
    ASSUME NEW Q \in Seq(Message)
    PROVE  /\ Len(Q) \in Nat /\ (Q = <<>> <=> Len(Q) = 0)
           /\ Q # <<>> => /\ Len(Tail(Q)) = Len(Q) - 1 /\ Tail(Q) \in Seq(Message)
                         /\ Head(Q) \in Message /\ Head(Q) = Q[1]
  OBVIOUS

LEMMA AppendedLength ==
    ASSUME NEW Q \in Seq(Message), NEW m \in Message
    PROVE  /\ Len(Append(Q, m)) = Len(Q) + 1 /\ Append(Q, m) # <<>>
           /\ Append(Q, m) \in Seq(Message)
           /\ Q = <<>> => Append(Q, m)[1] = m
           /\ \A i \in 1..Len(Q) : Append(Q, m)[i] = Q[i]
           /\ Append(Q, m)[Len(Q) + 1] = m
  OBVIOUS

\* A sequence of one message at most.
LEMMA Short ==
    ASSUME NEW Q \in Seq(Message)
    PROVE  /\ Len(Q) \in Nat
           /\ Q = <<>> \/ Len(Q) >= 1
           /\ Q # <<>> /\ Len(Q) <= 1 => Tail(Q) = <<>>
  OBVIOUS

\* Of three such sequences together.
LEMMA AtMostOne ==
    ASSUME NEW A \in Seq(Message), NEW B \in Seq(Message), NEW D \in Seq(Message),
           Len(A) + Len(B) + Len(D) <= 1
    PROVE  /\ A # <<>> => Tail(A) = <<>> /\ B = <<>> /\ D = <<>>
           /\ B # <<>> => Tail(B) = <<>> /\ A = <<>> /\ D = <<>>
           /\ D # <<>> => Tail(D) = <<>> /\ A = <<>> /\ B = <<>>
<1>1. PICK a \in Nat, b \in Nat, d \in Nat : a = Len(A) /\ b = Len(B) /\ d = Len(D)
  BY Short
<1>2. /\ A = <<>> \/ a >= 1
      /\ B = <<>> \/ b >= 1
      /\ D = <<>> \/ d >= 1
  BY <1>1, Short
<1>3. a + b + d <= 1 BY <1>1
<1>4. /\ A # <<>> => a <= 1 /\ B = <<>> /\ D = <<>>
      /\ B # <<>> => b <= 1 /\ A = <<>> /\ D = <<>>
      /\ D # <<>> => d <= 1 /\ A = <<>> /\ B = <<>>
  BY <1>2, <1>3
<1>5. QED BY <1>1, <1>4, Short

LEMMA AtMostOneBusy ==
    ASSUME NEW x \in {0, 1}, NEW A \in Seq(Message), NEW B \in Seq(Message),
           x + Len(A) + Len(B) <= 1
    PROVE  /\ x = 1 => A = <<>> /\ B = <<>>
           /\ A # <<>> => x = 0 /\ Tail(A) = <<>> /\ B = <<>>
           /\ B # <<>> => x = 0 /\ Tail(B) = <<>> /\ A = <<>>
<1>1. PICK a \in Nat, b \in Nat : a = Len(A) /\ b = Len(B)
  BY Short
<1>2. /\ A = <<>> \/ a >= 1
      /\ B = <<>> \/ b >= 1
  BY <1>1, Short
<1>3. x + a + b <= 1 BY <1>1
<1>4. /\ x = 1 => A = <<>> /\ B = <<>>
      /\ A # <<>> => x = 0 /\ a <= 1 /\ B = <<>>
      /\ B # <<>> => x = 0 /\ b <= 1 /\ A = <<>>
  BY <1>2, <1>3
<1>5. QED BY <1>1, <1>4, Short

\* What is in an end of a session.
LEMMA EndFacts ==
    ASSUME NEW s \in EndState
    PROVE  /\ s.reads \in Nat
           /\ s.posted \in Seq(Message) /\ s.packets \in Seq(Message)
           /\ s.writing \in Seq(Message) /\ s.inbox \in Seq(Message)
           /\ Len(s.posted) \in Nat /\ (s.posted = <<>> <=> Len(s.posted) = 0)
           /\ Len(s.packets) \in Nat /\ (s.packets = <<>> <=> Len(s.packets) = 0)
           /\ Len(s.writing) \in Nat /\ (s.writing = <<>> <=> Len(s.writing) = 0)
           /\ Len(s.inbox) \in Nat /\ (s.inbox = <<>> <=> Len(s.inbox) = 0)
  BY Lengths DEF EndState

\* A write that has been posted.
LEMMA queue_messageClient ==
    ASSUME IInv, TypeOK', NEW r \in Request, queue_message(r, "client")
    PROVE  IInv'
<1>1. Session_step BY DEF queue_message
<1>2. RequestsInv(r) BY DEF IInv
<1>F. Frame(r) BY <1>1, SessionStepFrame
<1>3. /\ C(r).posted # <<>> /\ C(r) \in EndState /\ S(r) \in EndState
  BY TypeOfEnds DEF IInv, queue_message, C
<1> PICK m \in Message : m = Head(C(r).posted) BY <1>3, EndFacts, Lengths
<1>4. /\ Carries(Tail(C(r).posted), r, TRUE)
      /\ m.request = r /\ m.t_flag = TRUE /\ Identified(m)
  <2>1. C(r).posted \in Seq(Message) /\ Carries(C(r).posted, r, TRUE)
    BY <1>2, <1>3, EndFacts DEF RequestsInv, CarriesInv
  <2>2. QED BY <2>1, <1>3, CarriesTail
<1>5. /\ S(r).inbox = <<>> /\ Tail(C(r).posted) = <<>>
      /\ C(r).packets = <<>> /\ C(r).writing = <<>>
  <2>1. /\ S(r).inbox = <<>> /\ C(r).packets = <<>> /\ Tail(C(r).posted) = <<>>
    <3>1. UnderWay(r) <= 1 BY <1>2 DEF RequestsInv, RequestInv
    <3>2. /\ C(r).posted \in Seq(Message) /\ C(r).packets \in Seq(Message)
          /\ S(r).inbox \in Seq(Message)
      BY <1>3, EndFacts
    <3>3. QED BY <1>3, <3>1, <3>2, AtMostOne DEF UnderWay
  <2>2. C(r).writing = <<>> BY <1>2, <2>1 DEF RequestsInv, WritesInv
  <2>3. QED BY <2>1, <2>2
<1>6. /\ S(r)' = S(r)
      /\ C(r)' = [C(r) EXCEPT !.posted = Tail(C(r).posted),
                              !.packets = Append(C(r).packets, m),
                              !.writing = Append(C(r).writing, m)]
      /\ \A q \in Request : q # r => session'[q] = session[q]
  <2>1. SetEnd(r, "client", [C(r) EXCEPT !.posted = Tail(C(r).posted),
                                        !.packets = Append(C(r).packets, m),
                                        !.writing = Append(C(r).writing, m)])
    BY <1>5, <1>3 DEF queue_message, C, Direct, EndState
  <2>2. QED BY <2>1, TheEnds, EndIsSet DEF IInv
<1>7. /\ S(r)' = S(r) /\ C(r)'.socket = C(r).socket /\ C(r)'.reads = C(r).reads
      /\ C(r)'.posted = <<>> /\ C(r)'.packets = <<m>>
      /\ C(r)'.writing = <<m>> /\ C(r)'.inbox = C(r).inbox
      /\ Len(<<m>>) = 1 /\ <<m>> # <<>> /\ Len(<<>>) = 0
  BY <1>3, <1>5, <1>6 DEF EndState
<1>8. RequestsInv(r)'
  <2>1. CarriesInv(r)'
    <3>1. Carries(<<m>>, r, TRUE)'
      BY <1>1, <1>4, StaysIdentified, <1>F DEF Carries, Frame
    <3>2. QED
      BY <1>1, <1>2, <1>6, <1>7, <3>1, NoMessages, CarriesKept, <1>F
         DEF RequestsInv, CarriesInv, Frame
  <2>2. ConnectInv(r)'
    BY <1>2, <1>3, <1>5, <1>7, <1>F
       DEF Frame, RequestsInv, ConnectInv, NoSession, Connecting, EndState
  <2>3. RequestInv(r)'
    BY <1>2, <1>3, <1>5, <1>7, <1>F
       DEF Frame, RequestsInv, RequestInv, UnderWay
  <2>4. AnswerInv(r)'
    BY <1>2, <1>3, <1>5, <1>7, <1>F
       DEF Frame, RequestsInv, AnswerInv
  <2>5. WritesInv(r)'
    <3>1. Busy(r)' = Busy(r) BY <1>7, <1>F DEF Busy, Frame
    <3>2. QED BY <1>2, <1>7, <3>1 DEF RequestsInv, WritesInv
  <2>6. ReadsInv(r)'
    BY <1>2, <1>3, <1>5, <1>7, <1>F
       DEF Frame, RequestsInv, ReadsInv
  <2>7. r \in File => ChunksInv(r)'
    <3>1. Busy(r)' = Busy(r) /\ Taken(r)' = Taken(r) /\ (Reading(r)' <=> Reading(r))
      BY <1>7, <1>F DEF Busy, Taken, Reading, Frame
    <3>2. QED BY <1>2, <1>7, <3>1, <1>F DEF RequestsInv, ChunksInv, Frame
  <2>8. QED BY <2>1, <2>2, <2>3, <2>4, <2>5, <2>6, <2>7 DEF RequestsInv
<1>9. QED BY <1>1, <1>6, <1>8, SessionStepKept

\* The same for a chunk, which write_direct writes at once.
LEMMA queue_messageChunk ==
    ASSUME IInv, TypeOK', NEW r \in Request, r \in File, queue_message(r, "server")
    PROVE  IInv'
<1>1. Session_step BY DEF queue_message
<1>2. RequestsInv(r) BY DEF IInv
<1>F. Frame(r) BY <1>1, SessionStepFrame
<1>3. /\ S(r).posted # <<>> /\ C(r) \in EndState /\ S(r) \in EndState
  BY TypeOfEnds DEF IInv, queue_message, S
<1> PICK m \in Message : m = Head(S(r).posted) BY <1>3, EndFacts, Lengths
<1>4. /\ Carries(Tail(S(r).posted), r, FALSE)
      /\ m.request = r /\ m.t_flag = FALSE /\ Identified(m)
  <2>1. S(r).posted \in Seq(Message) /\ Carries(S(r).posted, r, FALSE)
    BY <1>2, <1>3, EndFacts DEF RequestsInv, CarriesInv
  <2>2. QED BY <2>1, <1>3, CarriesTail
<1>5. /\ Answered(r) = {}
      /\ S(r).writing = <<>> /\ Tail(S(r).posted) = <<>> /\ m.chunk = source[r] - 1
      /\ object[r]["server"] # "none" /\ S(r).socket # "none"
  <2>1. S(r).posted \in Seq(Message) /\ S(r).writing \in Seq(Message)
    BY <1>3, EndFacts
  <2>2. /\ S(r).writing = <<>> /\ Answered(r) = {}
        /\ Tail(S(r).posted) = <<>>
    <3>1. Busy(r) <= 1 BY <1>2 DEF RequestsInv, WritesInv
    <3>2. QED BY <1>3, <2>1, <3>1, SomeIs, AtMostOneBusy DEF Busy
  <2>3. m.chunk = source[r] - 1
    <3>1. m = S(r).posted[1] BY <1>3, EndFacts, Lengths
    <3>2. QED BY <3>1, <1>2, <1>3 DEF RequestsInv, ChunksInv
  <2>4. object[r]["server"] # "none" /\ S(r).socket # "none"
    BY <1>2, <1>3 DEF RequestsInv, AnswerInv, RequestInv
  <2>5. QED BY <2>2, <2>3, <2>4
<1>6. /\ C(r)' = C(r)
      /\ S(r)' = [S(r) EXCEPT !.posted = Tail(S(r).posted),
                              !.writing = Append(S(r).writing, m)]
      /\ \A q \in Request : q # r => session'[q] = session[q]
  <2>1. SetEnd(r, "server", [S(r) EXCEPT !.posted = Tail(S(r).posted),
                                        !.writing = Append(S(r).writing, m)])
    BY <1>3 DEF queue_message, S, Direct, EndState
  <2>2. QED BY <2>1, TheEnds, EndIsSet DEF IInv
<1>7. /\ C(r)' = C(r) /\ S(r)'.socket = S(r).socket /\ S(r)'.reads = S(r).reads
      /\ S(r)'.posted = <<>> /\ S(r)'.packets = S(r).packets
      /\ S(r)'.writing = <<m>> /\ S(r)'.inbox = S(r).inbox
      /\ Len(<<m>>) = 1 /\ <<m>> # <<>> /\ Len(<<>>) = 0 /\ <<m>>[1] = m
  BY <1>3, <1>5, <1>6 DEF EndState
<1>8. RequestsInv(r)'
  <2>1. CarriesInv(r)'
    <3>1. Carries(<<m>>, r, FALSE)'
      BY <1>1, <1>4, StaysIdentified, <1>F DEF Carries, Frame
    <3>2. QED
      BY <1>1, <1>2, <1>6, <1>7, <3>1, NoMessages, CarriesKept, <1>F
         DEF RequestsInv, CarriesInv, Frame
  <2>2. ConnectInv(r)'
    BY <1>2, <1>3, <1>5, <1>7, <1>F
       DEF Frame, RequestsInv, ConnectInv, NoSession
  <2>3. RequestInv(r)'
    BY <1>2, <1>3, <1>5, <1>7, <1>F
       DEF Frame, RequestsInv, RequestInv, UnderWay
  <2>4. AnswerInv(r)'
    BY <1>2, <1>3, <1>5, <1>7, <1>F
       DEF Frame, RequestsInv, AnswerInv
  <2>5. WritesInv(r)'
    BY <1>2, <1>3, <1>5, <1>7, <1>F
       DEF Frame, RequestsInv, WritesInv, Busy, Some
  <2>6. ReadsInv(r)'
    BY <1>2, <1>3, <1>5, <1>7, <1>F
       DEF Frame, RequestsInv, ReadsInv
  <2>7. r \in File => ChunksInv(r)'
    <3>1. Busy(r)' = 1
      BY <1>5, <1>7, <1>F DEF Busy, Some, Frame
    <3>2. Busy(r) = 1
      <4>1. S(r).posted \in Seq(Message) BY <1>3, EndFacts
      <4>2. PICK k \in Nat : k = Len(S(r).posted) BY <4>1, Short
      <4>3. k >= 1 BY <1>3, <4>1, <4>2, Short
      <4>4. Busy(r) = k
        <5>1. Busy(r) = 0 + k + 0 BY <1>5, <1>7, <4>2 DEF Busy, Some
        <5>2. QED BY <5>1
      <4>5. Busy(r) <= 1 BY <1>2 DEF RequestsInv, WritesInv
      <4>6. k = 1 BY <4>3, <4>4, <4>5
      <4>7. QED BY <4>4, <4>6
    <3>3. Taken(r)' = Taken(r) /\ (Reading(r)' <=> Reading(r))
      BY <1>7, <1>F DEF Taken, Reading, Frame
    <3>4. QED
      BY <1>2, <1>5, <1>7, <3>1, <3>2, <3>3, <1>F DEF RequestsInv, ChunksInv, Frame
  <2>8. QED BY <2>1, <2>2, <2>3, <2>4, <2>5, <2>6, <2>7 DEF RequestsInv
<1>9. QED BY <1>1, <1>6, <1>8, SessionStepKept

\* And for any other response.
LEMMA queue_messageResponse ==
    ASSUME IInv, TypeOK', NEW r \in Request, r \notin File, queue_message(r, "server")
    PROVE  IInv'
<1>1. Session_step BY DEF queue_message
<1>2. RequestsInv(r) BY DEF IInv
<1>F. Frame(r) BY <1>1, SessionStepFrame
<1>3. /\ S(r).posted # <<>> /\ C(r) \in EndState /\ S(r) \in EndState
  BY TypeOfEnds DEF IInv, queue_message, S
<1> PICK m \in Message : m = Head(S(r).posted) BY <1>3, EndFacts, Lengths
<1>4. /\ Carries(Tail(S(r).posted), r, FALSE)
      /\ m.request = r /\ m.t_flag = FALSE /\ Identified(m)
  <2>1. S(r).posted \in Seq(Message) /\ Carries(S(r).posted, r, FALSE)
    BY <1>2, <1>3, EndFacts DEF RequestsInv, CarriesInv
  <2>2. QED BY <2>1, <1>3, CarriesTail
<1>5. object[r]["server"] # "none" /\ S(r).socket # "none"
  BY <1>2, <1>3 DEF RequestsInv, AnswerInv, RequestInv
<1>6. /\ C(r)' = C(r)
      /\ S(r)' = [S(r) EXCEPT !.posted = Tail(S(r).posted),
                    !.packets = Append(S(r).packets, m),
                    !.writing = IF S(r).packets = <<>> THEN Append(S(r).writing, m)
                                ELSE S(r).writing]
      /\ \A q \in Request : q # r => session'[q] = session[q]
  <2>1. SetEnd(r, "server", [S(r) EXCEPT !.posted = Tail(S(r).posted),
                    !.packets = Append(S(r).packets, m),
                    !.writing = IF S(r).packets = <<>> THEN Append(S(r).writing, m)
                                ELSE S(r).writing])
    BY <1>3 DEF queue_message, S, Direct, EndState
  <2>2. QED BY <2>1, TheEnds, EndIsSet DEF IInv
<1>7. /\ C(r)' = C(r) /\ S(r)'.socket = S(r).socket /\ S(r)'.reads = S(r).reads
      /\ S(r)'.posted = Tail(S(r).posted) /\ S(r)'.packets = Append(S(r).packets, m)
      /\ S(r)'.writing = S(r).writing
           \/ (S(r).packets = <<>> /\ S(r)'.writing = Append(S(r).writing, m))
      /\ S(r)'.inbox = S(r).inbox
  <2>1. S(r)'.writing =
          IF S(r).packets = <<>> THEN Append(S(r).writing, m) ELSE S(r).writing
    BY <1>3, <1>6 DEF EndState
  <2>2. /\ C(r)' = C(r) /\ S(r)'.socket = S(r).socket /\ S(r)'.reads = S(r).reads
        /\ S(r)'.posted = Tail(S(r).posted)
        /\ S(r)'.packets = Append(S(r).packets, m) /\ S(r)'.inbox = S(r).inbox
    BY <1>3, <1>6 DEF EndState
  <2>3. CASE S(r).packets = <<>> BY <2>1, <2>2, <2>3
  <2>4. CASE S(r).packets # <<>>
    <3>1. S(r)'.writing = S(r).writing BY <2>1, <2>4
    <3>2. QED BY <2>2, <3>1
  <2>5. QED BY <2>3, <2>4
<1>8. RequestsInv(r)'
  <2>1. CarriesInv(r)'
    <3>1. /\ Carries(Append(S(r).packets, m), r, FALSE)
          /\ Carries(Append(S(r).writing, m), r, FALSE)
      BY <1>2, <1>3, <1>4, EndFacts, CarriesAppended DEF RequestsInv, CarriesInv
    <3>2. Carries(S(r)'.writing, r, FALSE)
      BY <1>2, <1>7, <3>1 DEF RequestsInv, CarriesInv
    <3>3. QED
      BY <1>1, <1>2, <1>4, <1>6, <1>7, <3>1, <3>2, CarriesKept, <1>F
         DEF RequestsInv, CarriesInv, Frame
  <2>2. ConnectInv(r)'
    BY <1>2, <1>3, <1>5, <1>7, <1>F
       DEF Frame, RequestsInv, ConnectInv, NoSession
  <2>3. RequestInv(r)'
    BY <1>2, <1>3, <1>5, <1>7, <1>F
       DEF Frame, RequestsInv, RequestInv, UnderWay
  <2>4. AnswerInv(r)'
    BY <1>2, <1>3, <1>5, <1>7, <1>F
       DEF Frame, RequestsInv, AnswerInv
  <2>5. WritesInv(r)'
    <3>1. Len(S(r)'.writing) <= 1 /\ S(r)'.packets # <<>>
      <4>1. S(r).packets \in Seq(Message) /\ S(r).writing \in Seq(Message)
        BY <1>3, EndFacts
      <4>2. S(r).packets = <<>> => S(r).writing = <<>>
        BY <1>2 DEF RequestsInv, WritesInv
      <4>3. Len(<<>>) = 0 OBVIOUS
      <4>4. Len(S(r).writing) <= 1 BY <1>2 DEF RequestsInv, WritesInv
      <4>5. QED BY <1>7, <4>1, <4>2, <4>3, <4>4, AppendedLength
    <3>2. QED BY <1>2, <1>7, <3>1 DEF RequestsInv, WritesInv
  <2>6. ReadsInv(r)'
    BY <1>2, <1>3, <1>5, <1>7, <1>F
       DEF Frame, RequestsInv, ReadsInv
  <2>7. r \in File => ChunksInv(r)' OBVIOUS
  <2>8. QED BY <2>1, <2>2, <2>3, <2>4, <2>5, <2>6, <2>7 DEF RequestsInv
<1>9. QED BY <1>1, <1>6, <1>8, SessionStepKept

\* What packet_send_done leaves at the two ends.
LEMMA DeliveredEnds ==
    ASSUME TypeOK, NEW r \in Request, NEW e \in End, NEW s, session' = Delivered(r, e, s)
    PROVE  /\ e = "client" =>
                /\ C(r)' = s
                /\ \/ PeerGone(r, e) /\ S(r)' = [S(r) EXCEPT !.inbox = S(r).inbox]
                   \/ S(r)' = [S(r) EXCEPT !.inbox = Append(S(r).inbox, Head(C(r).writing))]
           /\ e = "server" =>
                /\ S(r)' = s
                /\ \/ PeerGone(r, e) /\ C(r)' = [C(r) EXCEPT !.inbox = C(r).inbox]
                   \/ C(r)' = [C(r) EXCEPT !.inbox = Append(C(r).inbox, Head(S(r).writing))]
           /\ \A q \in Request : q # r => session'[q] = session[q]
<1>1. CASE e = "client" BY <1>1 DEF TypeOK, Delivered, C, S, End, Other
<1>2. CASE e = "server" BY <1>2 DEF TypeOK, Delivered, C, S, End, Other
<1>3. QED BY <1>1, <1>2 DEF End

\* What is written next of the messages that are left.
LEMMA CarriesNext ==
    ASSUME NEW r \in Request, NEW f, NEW Q \in Seq(Message), Carries(Q, r, f),
           NEW next, next = IF Q = <<>> THEN <<>> ELSE <<Head(Q)>>
    PROVE  Carries(next, r, f) /\ Len(next) <= 1
<1>1. CASE Q = <<>>
  <2>1. next = <<>> /\ Len(<<>>) <= 1 BY <1>1
  <2>2. QED BY <2>1, NoMessages
<1>2. CASE Q # <<>>
  <2>1. PICK x : x = Head(Q) OBVIOUS
  <2>2. x.request = r /\ x.t_flag = f /\ Identified(x) BY <1>2, <2>1, CarriesTail
  <2>3. Carries(<<x>>, r, f) BY <2>2, CarriesOne
  <2>4. next = <<x>> /\ Len(<<x>>) <= 1 BY <1>2, <2>1
  <2>5. QED BY <2>3, <2>4
<1>3. QED BY <1>1, <1>2

\* A request is written.
LEMMA packet_send_doneClient ==
    ASSUME IInv, TypeOK', NEW r \in Request, packet_send_done(r, "client")
    PROVE  IInv'
<1>1. Session_step BY DEF packet_send_done
<1>2. RequestsInv(r) BY DEF IInv
<1>F. Frame(r) BY <1>1, SessionStepFrame
<1>3. /\ C(r).writing # <<>> /\ C(r).socket = "open"
      /\ C(r) \in EndState /\ S(r) \in EndState
  BY TypeOfEnds DEF IInv, packet_send_done, C
<1> PICK m \in Message : m = Head(C(r).writing) BY <1>3, EndFacts, Lengths
<1>4. m.request = r /\ m.t_flag = TRUE /\ Identified(m)
  <2>1. C(r).writing \in Seq(Message) /\ Carries(C(r).writing, r, TRUE)
    BY <1>2, <1>3, EndFacts DEF RequestsInv, CarriesInv
  <2>2. QED BY <2>1, <1>3, CarriesTail
<1>5. /\ C(r).posted = <<>> /\ Tail(C(r).packets) = <<>> /\ S(r).inbox = <<>>
      /\ Tail(C(r).writing) = <<>> /\ C(r).packets # <<>>
  <2>1. C(r).packets # <<>> /\ UnderWay(r) <= 1 /\ Len(C(r).writing) <= 1
    BY <1>2, <1>3 DEF RequestsInv, WritesInv, RequestInv
  <2>2. /\ C(r).posted \in Seq(Message) /\ C(r).packets \in Seq(Message)
        /\ S(r).inbox \in Seq(Message) /\ C(r).writing \in Seq(Message)
    BY <1>3, EndFacts
  <2>3. C(r).posted = <<>> /\ Tail(C(r).packets) = <<>> /\ S(r).inbox = <<>>
    BY <2>1, <2>2, AtMostOne DEF UnderWay
  <2>4. Tail(C(r).writing) = <<>> BY <1>3, <2>1, <2>2, Short
  <2>5. QED BY <2>1, <2>3, <2>4
<1>6. Arrived(r) = {} /\ object[r]["server"] = "none" /\ S(r).socket # "none"
  <2>1. UnderWay(r) # 0
    <3>1. /\ C(r).posted \in Seq(Message) /\ C(r).packets \in Seq(Message)
          /\ S(r).inbox \in Seq(Message)
      BY <1>3, EndFacts
    <3>2. PICK a \in Nat, b \in Nat, d \in Nat :
            a = Len(C(r).posted) /\ b = Len(C(r).packets) /\ d = Len(S(r).inbox)
      BY <3>1, Short
    <3>3. b >= 1 BY <1>5, <3>1, <3>2, Short
    <3>4. UnderWay(r) = a + b + d BY <3>2 DEF UnderWay
    <3>5. QED BY <3>3, <3>4
  <2>2. QED BY <1>2, <1>5, <2>1 DEF RequestsInv, RequestInv, ConnectInv
<1>7. /\ C(r)' = [C(r) EXCEPT !.packets = <<>>, !.writing = <<>>]
      /\ \/ S(r)' = [S(r) EXCEPT !.inbox = S(r).inbox]
         \/ S(r)' = [S(r) EXCEPT !.inbox = Append(S(r).inbox, m)]
      /\ \A q \in Request : q # r => session'[q] = session[q]
  <2>1. session' = Delivered(r, "client",
           [C(r) EXCEPT !.packets = Tail(C(r).packets), !.writing = <<>>])
    <3>1. session' = Delivered(r, "client",
            [C(r) EXCEPT !.packets = Tail(C(r).packets),
                         !.writing = IF Tail(C(r).packets) = <<>> THEN Tail(C(r).writing)
                                     ELSE <<Head(Tail(C(r).packets))>>])
      BY <1>3 DEF packet_send_done, C, EndState
    <3>2. QED BY <1>5, <3>1
  <2>2. QED BY ZenonT(40), <2>1, <1>5, TheEnds, DeliveredEnds DEF IInv
<1>8. /\ C(r)'.socket = C(r).socket /\ C(r)'.reads = C(r).reads
      /\ C(r)'.posted = <<>> /\ C(r)'.packets = <<>>
      /\ C(r)'.writing = <<>> /\ C(r)'.inbox = C(r).inbox
      /\ S(r)'.socket = S(r).socket /\ S(r)'.reads = S(r).reads
      /\ S(r)'.posted = S(r).posted /\ S(r)'.packets = S(r).packets
      /\ S(r)'.writing = S(r).writing
      /\ S(r)'.inbox = <<>> \/ S(r)'.inbox = <<m>>
      /\ Len(<<>>) = 0 /\ Len(<<m>>) = 1
  <2>1. /\ C(r)'.socket = C(r).socket /\ C(r)'.reads = C(r).reads
        /\ C(r)'.posted = <<>> /\ C(r)'.packets = <<>>
        /\ C(r)'.writing = <<>> /\ C(r)'.inbox = C(r).inbox
    BY <1>3, <1>5, <1>7 DEF EndState
  <2>2. /\ S(r)'.socket = S(r).socket /\ S(r)'.reads = S(r).reads
        /\ S(r)'.posted = S(r).posted /\ S(r)'.packets = S(r).packets
        /\ S(r)'.writing = S(r).writing
        /\ S(r)'.inbox = S(r).inbox \/ S(r)'.inbox = Append(S(r).inbox, m)
    BY <1>3, <1>7 DEF EndState
  <2>3. S(r).inbox = <<>> /\ Append(<<>>, m) = <<m>> BY <1>5
  <2>4. Len(<<>>) = 0 /\ Len(<<m>>) = 1 OBVIOUS
  <2>5. QED BY <2>1, <2>2, <2>3, <2>4
<1>9. RequestsInv(r)'
  <2>1. CarriesInv(r)'
    <3>1. Carries(<<m>>, r, TRUE)'
      BY <1>4, StaysIdentified, <1>F DEF Carries, Frame
    <3>2. QED
      BY <1>2, <1>8, <3>1, NoMessages, CarriesKept, <1>F
         DEF RequestsInv, CarriesInv, Frame
  <2>2. ConnectInv(r)'
    BY <1>2, <1>3, <1>6, <1>8, <1>F
       DEF Frame, RequestsInv, ConnectInv, NoSession
  <2>3. RequestInv(r)'
    <3>1. UnderWay(r)' <= 1
      <4>1. CASE S(r)'.inbox = <<>> BY <1>8, <4>1 DEF UnderWay
      <4>2. CASE S(r)'.inbox = <<m>> BY <1>8, <4>2 DEF UnderWay
      <4>3. QED BY <1>8, <4>1, <4>2
    <3>2. Arrived(r)' = {} /\ object'[r]["server"] = "none"
      BY <1>6, <1>F DEF Frame
    <3>3. QED BY <3>1, <3>2 DEF RequestInv
  <2>4. AnswerInv(r)'
    BY <1>2, <1>3, <1>6, <1>8, <1>F
       DEF Frame, RequestsInv, AnswerInv
  <2>5. WritesInv(r)'
    <3>1. Busy(r)' = Busy(r) BY <1>8, <1>F DEF Busy, Frame
    <3>2. QED BY <1>2, <1>8, <3>1 DEF RequestsInv, WritesInv
  <2>6. ReadsInv(r)'
    BY <1>2, <1>3, <1>6, <1>8, <1>F
       DEF Frame, RequestsInv, ReadsInv
  <2>7. r \in File => ChunksInv(r)'
    <3>1. Busy(r)' = Busy(r) /\ Taken(r)' = Taken(r) /\ (Reading(r)' <=> Reading(r))
      BY <1>8, <1>F DEF Busy, Taken, Reading, Frame
    <3>2. QED BY <1>2, <1>8, <3>1, <1>F DEF RequestsInv, ChunksInv, Frame
  <2>8. QED BY <2>1, <2>2, <2>3, <2>4, <2>5, <2>6, <2>7 DEF RequestsInv
<1>10. QED BY <1>1, <1>7, <1>9, SessionStepKept

\* A response that is no chunk is written, and the next one is started.
LEMMA packet_send_doneServer ==
    ASSUME IInv, TypeOK', NEW r \in Request, packet_send_done(r, "server")
    PROVE  IInv'
<1>1. Session_step BY DEF packet_send_done
<1>2. RequestsInv(r) BY DEF IInv
<1>F. Frame(r) BY <1>1, SessionStepFrame
<1>3. /\ S(r).writing # <<>> /\ S(r).socket = "open" /\ r \notin File
      /\ C(r) \in EndState /\ S(r) \in EndState
  BY TypeOfEnds DEF IInv, packet_send_done, S, Direct
<1>D. /\ C(r).inbox \in Seq(Message) /\ S(r).writing \in Seq(Message)
      /\ S(r).packets \in Seq(Message) /\ S(r).packets # <<>>
      /\ Len(S(r).writing) <= 1
  BY <1>2, <1>3, EndFacts DEF RequestsInv, WritesInv
<1>E. /\ Carries(C(r).inbox, r, FALSE) /\ Carries(S(r).writing, r, FALSE)
      /\ Carries(S(r).packets, r, FALSE)
  BY <1>2 DEF RequestsInv, CarriesInv
<1> PICK m \in Message : m = Head(S(r).writing) BY <1>3, <1>D, Lengths
<1>4. m.request = r /\ m.t_flag = FALSE /\ Identified(m)
  <2>1. S(r).writing \in Seq(Message) /\ Carries(S(r).writing, r, FALSE) BY <1>D, <1>E
  <2>2. QED BY ZenonT(40), <2>1, <1>3, CarriesTail
<1> PICK rest \in Seq(Message) : rest = Tail(S(r).packets)
  BY <1>D, Lengths
<1>5. Carries(rest, r, FALSE) BY <1>D, <1>E, CarriesTail
<1>6. Tail(S(r).writing) = <<>> BY <1>3, <1>D, Short
<1> PICK next : next = IF rest = <<>> THEN <<>> ELSE <<Head(rest)>>
  OBVIOUS
<1>7. /\ Carries(next, r, FALSE) /\ Len(next) <= 1 /\ (next # <<>> => rest # <<>>)
  <2>1. (next # <<>> => rest # <<>>) OBVIOUS
  <2>2. QED BY <2>1, <1>5, CarriesNext
<1>8. /\ S(r)' = [S(r) EXCEPT !.packets = rest, !.writing = next]
      /\ \/ C(r)' = [C(r) EXCEPT !.inbox = C(r).inbox]
         \/ C(r)' = [C(r) EXCEPT !.inbox = Append(C(r).inbox, m)]
      /\ \A q \in Request : q # r => session'[q] = session[q]
  <2>1. session' = Delivered(r, "server", [S(r) EXCEPT !.packets = rest, !.writing = next])
    BY <1>3, <1>6 DEF packet_send_done, S, EndState
  <2>2. QED BY <2>1, TheEnds, DeliveredEnds DEF IInv
<1>9. /\ S(r)'.socket = S(r).socket /\ S(r)'.reads = S(r).reads
      /\ S(r)'.posted = S(r).posted /\ S(r)'.packets = rest
      /\ S(r)'.writing = next /\ S(r)'.inbox = S(r).inbox
      /\ C(r)'.socket = C(r).socket /\ C(r)'.reads = C(r).reads
      /\ C(r)'.posted = C(r).posted /\ C(r)'.packets = C(r).packets
      /\ C(r)'.writing = C(r).writing
      /\ C(r)'.inbox = C(r).inbox \/ C(r)'.inbox = Append(C(r).inbox, m)
  BY <1>3, <1>8 DEF EndState
<1>10. object[r]["server"] # "none"
  BY <1>2, <1>3 DEF RequestsInv, AnswerInv
<1>11. RequestsInv(r)'
  <2>1. CarriesInv(r)'
    <3>1. Carries(Append(C(r).inbox, m), r, FALSE) BY <1>4, <1>D, <1>E, CarriesAppended
    <3>2. Carries(C(r)'.inbox, r, FALSE) BY <1>9, <1>E, <3>1
    <3>3. QED
      BY <1>2, <1>5, <1>7, <1>9, <3>2, CarriesKept, <1>F
         DEF RequestsInv, CarriesInv, Frame
  <2>2. ConnectInv(r)'
    <3>1. C(r).socket \notin {"none", "connecting"} /\ Asked(r) = {} /\ transaction_id[r] # 0
      BY <1>2, <1>3 DEF RequestsInv, ConnectInv, NoSession
    <3>2. QED BY <1>3, <1>9, <3>1, <1>F DEF Frame, ConnectInv
  <2>3. RequestInv(r)'
    BY <1>2, <1>3, <1>9, <1>10, <1>F
       DEF Frame, RequestsInv, RequestInv, UnderWay
  <2>4. AnswerInv(r)'
    BY <1>2, <1>3, <1>9, <1>10, <1>F
       DEF Frame, RequestsInv, AnswerInv
  <2>5. WritesInv(r)' BY <1>2, <1>3, <1>7, <1>9 DEF RequestsInv, WritesInv
  <2>6. ReadsInv(r)'
    BY <1>2, <1>3, <1>9, <1>10, <1>F
       DEF Frame, RequestsInv, ReadsInv
  <2>7. r \in File => ChunksInv(r)' BY <1>3
  <2>8. QED BY <2>1, <2>2, <2>3, <2>4, <2>5, <2>6, <2>7 DEF RequestsInv
<1>12. QED BY <1>1, <1>8, <1>11, SessionStepKept

\* The write of a request fails.
LEMMA packet_send_failedClientKept ==
    ASSUME IInv, TypeOK', NEW r \in Request, packet_send_failed(r, "client")
    PROVE  IInv'
<1>1. Session_step BY DEF packet_send_failed
<1>2. RequestsInv(r) BY DEF IInv
<1>F. Frame(r) BY <1>1, SessionStepFrame
<1>3. /\ C(r).writing # <<>>
      /\ C(r) \in EndState /\ S(r) \in EndState
  BY TypeOfEnds DEF IInv, packet_send_failed, C, Direct
<1>4. Tail(C(r).writing) = <<>>
  <2>1. C(r).writing \in Seq(Message) /\ Len(C(r).writing) <= 1
    BY <1>2, <1>3, EndFacts DEF RequestsInv, WritesInv
  <2>2. QED BY <2>1, <1>3, Short
<1>5. /\ S(r)' = S(r) /\ C(r)' = [C(r) EXCEPT !.writing = Tail(C(r).writing), !.socket = "closed"]
      /\ \A q \in Request : q # r => session'[q] = session[q]
  <2>1. SetEnd(r, "client", [C(r) EXCEPT !.writing = Tail(C(r).writing), !.socket = "closed"])
    BY <1>3 DEF packet_send_failed, C, EndState
  <2>2. QED BY <2>1, TheEnds, EndIsSet DEF IInv
<1>6. /\ S(r)' = S(r) /\ C(r)'.socket = "closed"
      /\ C(r)'.reads = C(r).reads
      /\ C(r)'.posted = C(r).posted /\ C(r)'.packets = C(r).packets
      /\ C(r)'.writing = <<>> /\ C(r)'.inbox = C(r).inbox
  BY <1>3, <1>4, <1>5 DEF EndState
<1>7. C(r).socket \notin {"none", "connecting"} /\ Asked(r) = {} /\ transaction_id[r] # 0
  <2>1. C(r) # NoSession /\ C(r) # Connecting
    <3>1. NoSession.writing = <<>> /\ Connecting.writing = <<>>
      BY DEF NoSession, Connecting
    <3>2. QED BY <1>3, <3>1, Zenon
  <2>2. QED BY <1>2, <2>1 DEF RequestsInv, ConnectInv
<1>8. RequestsInv(r)'
  <2>1. CarriesInv(r)'
    BY <1>2, <1>4, <1>6, NoMessages, CarriesKept, <1>F DEF Frame, RequestsInv, CarriesInv
  <2>2. ConnectInv(r)'
    BY <1>2, <1>3, <1>4, <1>6, <1>7, <1>F
       DEF Frame, RequestsInv, ConnectInv
  <2>3. RequestInv(r)'
    BY <1>2, <1>3, <1>4, <1>6, <1>7, <1>F
       DEF Frame, RequestsInv, RequestInv, UnderWay
  <2>4. AnswerInv(r)'
    BY <1>2, <1>3, <1>4, <1>6, <1>7, <1>F
       DEF Frame, RequestsInv, AnswerInv
  <2>5. WritesInv(r)'
    <3>1. Busy(r)' = Busy(r) /\ Len(<<>>) <= 1 BY <1>6, <1>F DEF Busy, Frame
    <3>2. QED BY <1>2, <1>6, <3>1 DEF RequestsInv, WritesInv
  <2>6. ReadsInv(r)'
    BY <1>2, <1>3, <1>4, <1>6, <1>7, <1>F
       DEF Frame, RequestsInv, ReadsInv
  <2>7. r \in File => ChunksInv(r)'
    <3>1. ~Reading(r)' BY <1>6 DEF Reading
    <3>2. QED BY <1>2, <1>6, <3>1, <1>F DEF RequestsInv, ChunksInv, Frame
  <2>8. QED BY <2>1, <2>2, <2>3, <2>4, <2>5, <2>6, <2>7 DEF RequestsInv
<1>9. QED BY <1>1, <1>5, <1>8, SessionStepKept

\* The write of a response fails.
LEMMA packet_send_failedServerKept ==
    ASSUME IInv, TypeOK', NEW r \in Request, packet_send_failed(r, "server")
    PROVE  IInv'
<1>1. Session_step BY DEF packet_send_failed
<1>2. RequestsInv(r) BY DEF IInv
<1>F. Frame(r) BY <1>1, SessionStepFrame
<1>3. /\ S(r).writing # <<>> /\ r \notin File
      /\ C(r) \in EndState /\ S(r) \in EndState
  BY TypeOfEnds DEF IInv, packet_send_failed, S, Direct
<1>4. Tail(S(r).writing) = <<>>
  <2>1. S(r).writing \in Seq(Message) /\ Len(S(r).writing) <= 1
    BY <1>2, <1>3, EndFacts DEF RequestsInv, WritesInv
  <2>2. QED BY <2>1, <1>3, Short
<1>5. /\ C(r)' = C(r) /\ S(r)' = [S(r) EXCEPT !.writing = Tail(S(r).writing), !.socket = "closed"]
      /\ \A q \in Request : q # r => session'[q] = session[q]
  <2>1. SetEnd(r, "server", [S(r) EXCEPT !.writing = Tail(S(r).writing), !.socket = "closed"])
    BY <1>3 DEF packet_send_failed, S, EndState
  <2>2. QED BY <2>1, TheEnds, EndIsSet DEF IInv
<1>6. /\ C(r)' = C(r) /\ S(r)'.socket = "closed"
      /\ S(r)'.reads = S(r).reads
      /\ S(r)'.posted = S(r).posted /\ S(r)'.packets = S(r).packets
      /\ S(r)'.writing = <<>> /\ S(r)'.inbox = S(r).inbox
  BY <1>3, <1>4, <1>5 DEF EndState
<1>7. /\ C(r).socket \notin {"none", "connecting"} /\ Asked(r) = {}
      /\ transaction_id[r] # 0 /\ object[r]["server"] # "none"
  BY <1>2, <1>3 DEF RequestsInv, ConnectInv, AnswerInv, NoSession, Connecting
<1>8. RequestsInv(r)'
  <2>1. CarriesInv(r)'
    BY <1>2, <1>4, <1>6, NoMessages, CarriesKept, <1>F DEF Frame, RequestsInv, CarriesInv
  <2>2. ConnectInv(r)'
    BY <1>2, <1>3, <1>4, <1>6, <1>7, <1>F
       DEF Frame, RequestsInv, ConnectInv
  <2>3. RequestInv(r)'
    BY <1>2, <1>3, <1>4, <1>6, <1>7, <1>F
       DEF Frame, RequestsInv, RequestInv, UnderWay
  <2>4. AnswerInv(r)'
    BY <1>2, <1>3, <1>4, <1>6, <1>7, <1>F
       DEF Frame, RequestsInv, AnswerInv
  <2>5. WritesInv(r)'
    <3>1. Len(<<>>) <= 1 OBVIOUS
    <3>2. QED BY <1>2, <1>3, <1>6, <3>1 DEF RequestsInv, WritesInv
  <2>6. ReadsInv(r)'
    BY <1>2, <1>3, <1>4, <1>6, <1>7, <1>F
       DEF Frame, RequestsInv, ReadsInv
  <2>7. r \in File => ChunksInv(r)' BY <1>3
  <2>8. QED BY <2>1, <2>2, <2>3, <2>4, <2>5, <2>6, <2>7 DEF RequestsInv
<1>9. QED BY <1>1, <1>5, <1>8, SessionStepKept

\* The read of a response fails.
LEMMA read_failedClientKept ==
    ASSUME IInv, TypeOK', NEW r \in Request, read_failed(r, "client")
    PROVE  IInv'
<1>1. Session_step BY DEF read_failed
<1>2. RequestsInv(r) BY DEF IInv
<1>F. Frame(r) BY <1>1, SessionStepFrame
<1>3. /\ C(r).reads > 0
      /\ C(r).socket = "closed" \/ PeerGone(r, "client")
      /\ C(r) \in EndState /\ S(r) \in EndState
  BY TypeOfEnds DEF IInv, read_failed, C, Direct
<1>4. C(r).socket \notin {"none", "connecting"} /\ Asked(r) = {} /\ transaction_id[r] # 0
  <2>1. S(r) = NoSession => ~PeerGone(r, "client")
    BY DEF PeerGone, S, NoSession, Other
  <2>2. QED BY <1>2, <1>3, <2>1 DEF RequestsInv, ConnectInv, NoSession
<1>5. /\ S(r)' = S(r) /\ C(r)' = [C(r) EXCEPT !.reads = C(r).reads - 1, !.socket = "closed"]
      /\ \A q \in Request : q # r => session'[q] = session[q]
  <2>1. SetEnd(r, "client", [C(r) EXCEPT !.reads = C(r).reads - 1, !.socket = "closed"])
    BY <1>3 DEF read_failed, C, EndState
  <2>2. QED BY <2>1, TheEnds, EndIsSet DEF IInv
<1>6. /\ S(r)' = S(r) /\ C(r)'.socket = "closed"
      /\ C(r)'.reads = C(r).reads - 1
      /\ C(r)'.posted = C(r).posted /\ C(r)'.packets = C(r).packets
      /\ C(r)'.writing = C(r).writing /\ C(r)'.inbox = C(r).inbox
  BY <1>3, <1>5 DEF EndState
<1>8. RequestsInv(r)'
  <2>1. CarriesInv(r)'
    BY <1>2, <1>3, <1>4, <1>6, <1>F, CarriesKept
       DEF Frame, RequestsInv, CarriesInv
  <2>2. ConnectInv(r)'
    BY <1>2, <1>3, <1>4, <1>6, <1>F
       DEF Frame, RequestsInv, ConnectInv
  <2>3. RequestInv(r)'
    BY <1>2, <1>3, <1>4, <1>6, <1>F
       DEF Frame, RequestsInv, RequestInv, UnderWay
  <2>4. AnswerInv(r)'
    BY <1>2, <1>3, <1>4, <1>6, <1>F
       DEF Frame, RequestsInv, AnswerInv
  <2>5. WritesInv(r)'
    <3>1. Busy(r)' = Busy(r) BY <1>6, <1>F DEF Busy, Frame
    <3>2. QED BY <1>2, <1>6, <3>1 DEF RequestsInv, WritesInv
  <2>6. ReadsInv(r)'
    <3>1. C(r).reads = 1 BY <1>2, <1>3, EndFacts DEF RequestsInv, ReadsInv
    <3>2. QED BY <1>2, <1>6, <3>1, <1>F DEF RequestsInv, ReadsInv, Frame
  <2>7. r \in File => ChunksInv(r)'
    <3>1. ~Reading(r)' BY <1>6 DEF Reading
    <3>2. QED BY <1>2, <1>6, <3>1, <1>F DEF RequestsInv, ChunksInv, Frame
  <2>8. QED BY <2>1, <2>2, <2>3, <2>4, <2>5, <2>6, <2>7 DEF RequestsInv
<1>9. QED BY <1>1, <1>5, <1>8, SessionStepKept

\* The read of a request fails.
LEMMA read_failedServerKept ==
    ASSUME IInv, TypeOK', NEW r \in Request, read_failed(r, "server")
    PROVE  IInv'
<1>1. Session_step BY DEF read_failed
<1>2. RequestsInv(r) BY DEF IInv
<1>F. Frame(r) BY <1>1, SessionStepFrame
<1>3. /\ S(r).reads > 0
      /\ C(r) \in EndState /\ S(r) \in EndState
  BY TypeOfEnds DEF IInv, read_failed, S, Direct
<1>4. C(r).socket \notin {"none", "connecting"} /\ Asked(r) = {} /\ transaction_id[r] # 0
  BY <1>2, <1>3 DEF RequestsInv, ConnectInv, NoSession
<1>5. /\ C(r)' = C(r) /\ S(r)' = [S(r) EXCEPT !.reads = S(r).reads - 1, !.socket = "closed"]
      /\ \A q \in Request : q # r => session'[q] = session[q]
  <2>1. SetEnd(r, "server", [S(r) EXCEPT !.reads = S(r).reads - 1, !.socket = "closed"])
    BY <1>3 DEF read_failed, S, EndState
  <2>2. QED BY <2>1, TheEnds, EndIsSet DEF IInv
<1>6. /\ C(r)' = C(r) /\ S(r)'.socket = "closed"
      /\ S(r)'.reads = S(r).reads - 1
      /\ S(r)'.posted = S(r).posted /\ S(r)'.packets = S(r).packets
      /\ S(r)'.writing = S(r).writing /\ S(r)'.inbox = S(r).inbox
  BY <1>3, <1>5 DEF EndState
<1>8. RequestsInv(r)'
  <2>1. CarriesInv(r)'
    BY <1>2, <1>3, <1>4, <1>6, <1>F, CarriesKept
       DEF Frame, RequestsInv, CarriesInv
  <2>2. ConnectInv(r)'
    BY <1>2, <1>3, <1>4, <1>6, <1>F
       DEF Frame, RequestsInv, ConnectInv
  <2>3. RequestInv(r)'
    BY <1>2, <1>3, <1>4, <1>6, <1>F
       DEF Frame, RequestsInv, RequestInv, UnderWay
  <2>4. AnswerInv(r)'
    BY <1>2, <1>3, <1>4, <1>6, <1>F
       DEF Frame, RequestsInv, AnswerInv
  <2>5. WritesInv(r)'
    <3>1. Busy(r)' = Busy(r) BY <1>6, <1>F DEF Busy, Frame
    <3>2. QED BY <1>2, <1>6, <3>1 DEF RequestsInv, WritesInv
  <2>6. ReadsInv(r)'
    <3>1. S(r).reads = 1 BY <1>2, <1>3, EndFacts DEF RequestsInv, ReadsInv
    <3>2. QED BY <1>2, <1>6, <3>1, <1>F DEF RequestsInv, ReadsInv, Frame
  <2>7. r \in File => ChunksInv(r)'
    <3>1. Busy(r)' = Busy(r) /\ Taken(r)' = Taken(r) /\ (Reading(r)' <=> Reading(r))
      BY <1>6, <1>F DEF Busy, Taken, Reading, Frame
    <3>2. QED BY <1>2, <1>6, <3>1, <1>F DEF RequestsInv, ChunksInv, Frame
  <2>8. QED BY <2>1, <2>2, <2>3, <2>4, <2>5, <2>6, <2>7 DEF RequestsInv
<1>9. QED BY <1>1, <1>5, <1>8, SessionStepKept

\* A response is read and pushed to the receive queue of the client.
LEMMA handle_read_messageClient ==
    ASSUME IInv, TypeOK', NEW r \in Request, handle_read_message(r, "client")
    PROVE  IInv'
<1>2. RequestsInv(r) BY DEF IInv
<1>3. /\ C(r).reads > 0 /\ C(r).inbox # <<>> /\ C(r).socket = "open"
      /\ C(r) \in EndState /\ S(r) \in EndState
  BY TypeOfEnds DEF IInv, handle_read_message, C
<1>D. C(r).inbox \in Seq(Message) BY <1>3, EndFacts
<1> PICK m \in Message : m = Head(C(r).inbox) BY <1>3, <1>D, Lengths
<1>4. /\ Carries(Tail(C(r).inbox), r, FALSE)
      /\ m.request = r /\ m.t_flag = FALSE /\ Identified(m)
  <2>1. C(r).inbox \in Seq(Message) /\ Carries(C(r).inbox, r, FALSE)
    BY <1>2, <1>D DEF RequestsInv, CarriesInv
  <2>2. C(r).inbox # <<>> BY <1>3
  <2>3. QED BY <2>1, <2>2, CarriesTail
<1>5. /\ S(r)' = S(r) /\ C(r)' = [C(r) EXCEPT !.reads = C(r).reads - 1,
                                            !.inbox = Tail(C(r).inbox)]
      /\ \A q \in Request : q # r => session'[q] = session[q]
  <2>1. SetEnd(r, "client", [C(r) EXCEPT !.reads = C(r).reads - 1,
                                        !.inbox = Tail(C(r).inbox)])
    BY <1>3 DEF handle_read_message, C, EndState
  <2>2. QED BY <2>1, TheEnds, EndIsSet DEF IInv
<1>6. /\ S(r)' = S(r) /\ C(r)'.socket = "open" /\ C(r)'.reads = C(r).reads - 1
      /\ C(r)'.posted = C(r).posted /\ C(r)'.packets = C(r).packets
      /\ C(r)'.writing = C(r).writing /\ C(r)'.inbox = Tail(C(r).inbox)
  BY <1>3, <1>5 DEF EndState
<1>7. /\ IdsInv' /\ IdsKept /\ transaction_id' = transaction_id /\ SendInv'
      /\ \A q \in Request : Asked(q)' = Asked(q) /\ Answered(q)' = Answered(q)
  <2>1. IdsInv' /\ IdsKept BY IdsInvKept DEF IInv, handle_read_message, CausesKept, files
  <2>2. QED BY <2>1, QueuesKept DEF IInv, handle_read_message, identifiers
<1>8. /\ C(r).reads = 1 /\ object[r]["server"] # "none"
      /\ r \in File => Answers(r) = {}
  <2>1. C(r).reads = 1 BY <1>2, <1>3, EndFacts DEF RequestsInv, ReadsInv
  <2>2. QED BY <1>2, <1>3, <2>1 DEF RequestsInv, ReadsInv, AnswerInv
<1>9. /\ ReceiveInv'
      /\ \A q \in Request : Arrived(q)' = Arrived(q)
      /\ \A q \in Request : q # r => Answers(q)' = Answers(q)
      /\ Answers(r)' = Answers(r) \cup {m}
  <2> PICK n \in Node : n = Client[r] BY Nodes
  <2>1. n = Receiver(m.request, m.t_flag) BY <1>4 DEF Receiver
  <2>2. receive_queue' = [receive_queue EXCEPT ![n] = Append(@, m)]
    BY DEF handle_read_message, C, NodeAt
  <2>3. Identified(m)' BY <1>4, <1>7, StaysIdentified
  <2>4. /\ ReceiveInv'
        /\ \A q \in Request : q # m.request =>
             Arrived(q)' = Arrived(q) /\ Answers(q)' = Answers(q)
        /\ ~m.t_flag =>
             /\ Answers(m.request)' = Answers(m.request) \cup {m}
             /\ Arrived(m.request)' = Arrived(m.request)
    <3>1. m.t_flag => Arrived(m.request) = {} BY <1>4
    <3>2. ~m.t_flag /\ m.request \in File => Answers(m.request) = {} BY <1>4, <1>8
    <3>3. TypeOK /\ ReceiveInv /\ IdsKept BY <1>7 DEF IInv
    <3>4. QED BY <2>1, <2>2, <2>3, <3>1, <3>2, <3>3, ReceivePushed, Zenon
  <2>5. QED BY <1>4, <2>4
<1>10. /\ UNCHANGED object /\ source' = source /\ received' = received
  BY DEF handle_read_message, files
<1>11. ASSUME NEW q \in Request, q # r PROVE Untouched(q) /\ RelayKept(q)
  BY <1>5, <1>7, <1>9, <1>10, <1>11 DEF Untouched, RelayKept
<1>12. RequestsInv(r)'
  <2>1. CarriesInv(r)'
    BY <1>2, <1>4, <1>6, <1>7, CarriesKept DEF RequestsInv, CarriesInv
  <2>2. ConnectInv(r)'
    BY <1>2, <1>3, <1>6, <1>7 DEF RequestsInv, ConnectInv, NoSession
  <2>3. RequestInv(r)'
    BY <1>2, <1>6, <1>9, <1>10 DEF RequestsInv, RequestInv, UnderWay
  <2>4. AnswerInv(r)' BY <1>8, <1>10 DEF AnswerInv
  <2>5. Busy(r)' = Busy(r) BY <1>6, <1>7 DEF Busy
  <2>6. WritesInv(r)' BY <1>2, <1>6, <2>5 DEF RequestsInv, WritesInv
  <2>7. ReadsInv(r)' BY <1>2, <1>6, <1>8 DEF RequestsInv, ReadsInv
  <2>8. ASSUME r \in File PROVE ChunksInv(r)'
    <3>1. ChunksInv(r) /\ Reading(r) /\ Answers(r) = {} /\ Answers(r)' = {m}
      BY <1>2, <1>3, <1>8, <1>9, <2>8 DEF RequestsInv, Reading
    <3>2. PICK k \in Nat : k = received[r] BY DEF IInv, TypeOK
    <3>3. Taken(r) = k BY <3>1, <3>2 DEF Taken, Some
    <3>4. Taken(r)' = k + 1 BY <3>1, <3>2, <1>10 DEF Taken, Some
    <3>5. PICK n \in Nat : /\ Len(C(r).inbox) = n + 1 /\ Len(Tail(C(r).inbox)) = n
                           /\ C(r).inbox[1] = m
                           /\ \A i \in 1..n : Tail(C(r).inbox)[i] = C(r).inbox[i + 1]
      <4>1. PICK n \in Nat : n = Len(Tail(C(r).inbox)) BY <1>3, <1>D, Lengths
      <4>2. Len(C(r).inbox) = n + 1 BY <1>3, <1>D, <4>1, Lengths
      <4>3. C(r).inbox[1] = m BY <1>3, <1>D, Lengths
      <4>4. \A i \in 1..n : Tail(C(r).inbox)[i] = C(r).inbox[i + 1] BY <1>3, <1>D, <4>1
      <4>5. QED BY <4>1, <4>2, <4>3, <4>4
    <3>6. \A i \in 1..(n + 1) : C(r).inbox[i].chunk = k + i
      BY <3>1, <3>3, <3>5 DEF ChunksInv
    <3>7. m.chunk = k + 1
      <4>1. 1 \in 1..(n + 1) OBVIOUS
      <4>2. QED BY <3>5, <3>6, <4>1
    <3>8. \A i \in 1..n : Tail(C(r).inbox)[i].chunk = (k + 1) + i
      <4>1. \A i \in 1..n : i + 1 \in 1..(n + 1) /\ k + (i + 1) = (k + 1) + i OBVIOUS
      <4>2. QED BY <3>5, <3>6, <4>1
    <3>9. S(r).socket # "closed" => source[r] = k + (n + 1) + 1 + Busy(r)
      BY <3>1, <3>3, <3>5 DEF ChunksInv
    <3>10. S(r).socket # "closed" => source[r] = (k + 1) + n + 1 + Busy(r)
      <4>1. k + (n + 1) + 1 = (k + 1) + n + 1 OBVIOUS
      <4>2. QED BY <3>9, <4>1
    <3>11. QED
      BY <1>6, <1>7, <1>10, <2>5, <3>1, <3>2, <3>4, <3>5, <3>7, <3>8, <3>10
         DEF ChunksInv
  <2>9. QED BY <2>1, <2>2, <2>3, <2>4, <2>6, <2>7, <2>8 DEF RequestsInv
<1>13. QED BY <1>7, <1>9, <1>11, <1>12, StepKept

\* A request is read and pushed to the receive queue of the server.
LEMMA handle_read_messageServer ==
    ASSUME IInv, TypeOK', NEW r \in Request, handle_read_message(r, "server")
    PROVE  IInv'
<1>2. RequestsInv(r) BY DEF IInv
<1>3. /\ S(r).reads > 0 /\ S(r).inbox # <<>> /\ S(r).socket = "open"
      /\ C(r) \in EndState /\ S(r) \in EndState
  BY TypeOfEnds DEF IInv, handle_read_message, S
<1>D. S(r).inbox \in Seq(Message) /\ C(r).posted \in Seq(Message)
      /\ C(r).packets \in Seq(Message)
  BY <1>3, EndFacts
<1> PICK m \in Message : m = Head(S(r).inbox) BY <1>3, <1>D, Lengths
<1>4. m.request = r /\ m.t_flag = TRUE /\ Identified(m)
  <2>1. S(r).inbox \in Seq(Message) /\ Carries(S(r).inbox, r, TRUE)
    BY <1>2, <1>D DEF RequestsInv, CarriesInv
  <2>2. QED BY <2>1, <1>3, CarriesTail
<1>8. /\ Tail(S(r).inbox) = <<>> /\ C(r).posted = <<>> /\ C(r).packets = <<>>
      /\ Arrived(r) = {} /\ object[r]["server"] = "none"
  <2>1. UnderWay(r) <= 1 BY <1>2 DEF RequestsInv, RequestInv
  <2>2. Tail(S(r).inbox) = <<>> /\ C(r).posted = <<>> /\ C(r).packets = <<>>
    BY <2>1, <1>3, <1>D, AtMostOne DEF UnderWay
  <2>3. UnderWay(r) # 0
    <3>1. PICK k \in Nat : k = Len(S(r).inbox) BY <1>D, Short
    <3>2. k >= 1 BY <1>3, <1>D, <3>1, Short
    <3>3. Len(<<>>) = 0 OBVIOUS
    <3>4. UnderWay(r) = 0 + 0 + k BY <2>2, <3>1, <3>3 DEF UnderWay
    <3>5. QED BY <3>2, <3>4
  <2>4. QED BY <1>2, <2>2, <2>3 DEF RequestsInv, RequestInv
<1>5. /\ C(r)' = C(r) /\ S(r)' = [S(r) EXCEPT !.reads = S(r).reads - 1,
                                            !.inbox = Tail(S(r).inbox)]
      /\ \A q \in Request : q # r => session'[q] = session[q]
  <2>1. SetEnd(r, "server", [S(r) EXCEPT !.reads = S(r).reads - 1,
                                        !.inbox = Tail(S(r).inbox)])
    BY <1>3 DEF handle_read_message, S, EndState
  <2>2. QED BY <2>1, TheEnds, EndIsSet DEF IInv
<1>6. /\ C(r)' = C(r) /\ S(r)'.socket = "open" /\ S(r)'.reads = S(r).reads - 1
      /\ S(r)'.posted = S(r).posted /\ S(r)'.packets = S(r).packets
      /\ S(r)'.writing = S(r).writing /\ S(r)'.inbox = <<>>
  BY <1>3, <1>5, <1>8 DEF EndState
<1>7. /\ IdsInv' /\ IdsKept /\ transaction_id' = transaction_id /\ SendInv'
      /\ \A q \in Request : Asked(q)' = Asked(q) /\ Answered(q)' = Answered(q)
  <2>1. IdsInv' /\ IdsKept BY IdsInvKept DEF IInv, handle_read_message, CausesKept, files
  <2>2. QED BY <2>1, QueuesKept DEF IInv, handle_read_message, identifiers
<1>9. /\ ReceiveInv'
      /\ \A q \in Request : Answers(q)' = Answers(q)
      /\ \A q \in Request : q # r => Arrived(q)' = Arrived(q)
  <2> PICK n \in Node : n = Server[r] BY Nodes
  <2>1. n = Receiver(m.request, m.t_flag) BY <1>4 DEF Receiver
  <2>2. receive_queue' = [receive_queue EXCEPT ![n] = Append(@, m)]
    BY DEF handle_read_message, S, NodeAt
  <2>3. Identified(m)' BY <1>4, <1>7, StaysIdentified
  <2>4. /\ ReceiveInv'
        /\ \A q \in Request : q # m.request =>
             Arrived(q)' = Arrived(q) /\ Answers(q)' = Answers(q)
        /\ m.t_flag =>
             /\ Arrived(m.request)' = Arrived(m.request) \cup {m}
             /\ Answers(m.request)' = Answers(m.request)
    <3>1. m.t_flag => Arrived(m.request) = {} BY <1>4, <1>8
    <3>2. ~m.t_flag /\ m.request \in File => Answers(m.request) = {} BY <1>4
    <3>3. TypeOK /\ ReceiveInv /\ IdsKept BY <1>7 DEF IInv
    <3>4. QED BY <2>1, <2>2, <2>3, <3>1, <3>2, <3>3, ReceivePushed, Zenon
  <2>5. QED BY <1>4, <2>4
<1>10. /\ UNCHANGED object /\ source' = source /\ received' = received
  BY DEF handle_read_message, files
<1>11. ASSUME NEW q \in Request, q # r PROVE Untouched(q) /\ RelayKept(q)
  BY <1>5, <1>7, <1>9, <1>10, <1>11 DEF Untouched, RelayKept
<1>12. RequestsInv(r)'
  <2>1. CarriesInv(r)'
    BY <1>2, <1>4, <1>6, <1>7, NoMessages, CarriesKept DEF RequestsInv, CarriesInv
  <2>2. ConnectInv(r)'
    BY <1>2, <1>3, <1>6, <1>7 DEF RequestsInv, ConnectInv, NoSession
  <2>3. RequestInv(r)'
    <3>1. Len(<<>>) = 0 OBVIOUS
    <3>2. UnderWay(r)' = 0 BY <1>6, <1>8, <3>1 DEF UnderWay
    <3>3. QED BY <1>6, <1>8, <1>10, <3>2 DEF RequestInv
  <2>4. AnswerInv(r)'
    BY <1>2, <1>6, <1>7, <1>9, <1>10 DEF RequestsInv, AnswerInv
  <2>5. Busy(r)' = Busy(r) BY <1>6, <1>7 DEF Busy
  <2>6. WritesInv(r)' BY <1>2, <1>6, <2>5 DEF RequestsInv, WritesInv
  <2>7. ReadsInv(r)'
    <3>1. S(r).reads = 1 BY <1>2, <1>3, EndFacts DEF RequestsInv, ReadsInv
    <3>2. QED BY <1>2, <1>6, <1>9, <3>1 DEF RequestsInv, ReadsInv
  <2>8. Taken(r)' = Taken(r) /\ (Reading(r)' <=> Reading(r))
    BY <1>6, <1>9, <1>10 DEF Taken, Reading
  <2>9. r \in File => ChunksInv(r)'
    BY <1>2, <1>3, <1>6, <1>7, <1>9, <1>10, <2>5, <2>8 DEF RequestsInv, ChunksInv
  <2>10. QED BY <2>1, <2>2, <2>3, <2>4, <2>6, <2>7, <2>9 DEF RequestsInv
<1>13. QED BY <1>7, <1>9, <1>11, <1>12, StepKept

-----------------------------------------------------------------------------
(* The send thread.                                                        *)

\* A request is sent on a session of its own.
LEMMA write_toKept ==
    ASSUME IInv, TypeOK', NEW n \in Node, write_to(n)
    PROVE  IInv'
<1>a. PICK m : m = Head(send_queue[n]) OBVIOUS
<1>1. /\ IdsInv' /\ IdsKept /\ transaction_id' = transaction_id
      /\ UNCHANGED <<object, source, received>> /\ ReceiveInv'
      /\ \A q \in Request : Arrived(q)' = Arrived(q) /\ Answers(q)' = Answers(q)
  <2>1. IdsInv' /\ IdsKept BY IdsInvKept DEF IInv, write_to, CausesKept, files
  <2>2. QED BY <2>1, QueuesKept DEF IInv, write_to, identifiers, files
<1>2. /\ m \in Message /\ m.t_flag /\ Identified(m) /\ SendInv'
      /\ m \in Asked(m.request) /\ Asked(m.request)' = {}
      /\ Answered(m.request)' = Answered(m.request)
      /\ \A q \in Request : q # m.request =>
           Asked(q)' = Asked(q) /\ Answered(q)' = Answered(q)
  BY <1>a, <1>1, SendPopped DEF IInv, write_to
<1>b. PICK r \in Request : r = m.request BY <1>2 DEF Message
<1>3. RequestsInv(r) BY DEF IInv
<1>4. C(r) = NoSession /\ S(r) = NoSession /\ transaction_id[r] # 0
  BY <1>b, <1>2, <1>3 DEF RequestsInv, ConnectInv, NoSession
<1>5. /\ C(r)' = Connecting /\ S(r)' = NoSession
      /\ \A q \in Request : q # r => session'[q] = session[q]
  <2>1. SetEnd(r, "client", Connecting) BY <1>a, <1>b DEF write_to, Connecting
  <2>2. QED BY <2>1, <1>4, TheEnds, EndIsSet DEF IInv
<1>6. /\ C(r)'.socket = "connecting" /\ C(r)'.reads = 1 /\ C(r)'.posted = <<>>
      /\ C(r)'.packets = <<>> /\ C(r)'.writing = <<>> /\ C(r)'.inbox = <<>>
      /\ S(r)'.socket = "none" /\ S(r)'.reads = 0 /\ S(r)'.posted = <<>>
      /\ S(r)'.packets = <<>> /\ S(r)'.writing = <<>> /\ S(r)'.inbox = <<>>
  BY <1>5 DEF Connecting, NoSession
<1>L. Len(<<>>) = 0 OBVIOUS
<1>7. /\ object[r]["server"] = "none" /\ Arrived(r) = {} /\ Answered(r) = {}
      /\ Answers(r) = {} /\ source[r] = 1 /\ received[r] = 0
  <2>1. S(r).socket = "none" BY <1>4 DEF NoSession
  <2>2. object[r]["server"] = "none" /\ Arrived(r) = {}
    BY <1>3, <2>1 DEF RequestsInv, RequestInv
  <2>3. QED BY <1>3, <2>2 DEF RequestsInv, AnswerInv
<1>8. ASSUME NEW q \in Request, q # r PROVE Untouched(q) /\ RelayKept(q)
  BY <1>b, <1>1, <1>2, <1>5, <1>8 DEF Untouched, RelayKept
<1>9. RequestsInv(r)'
  <2>1. CarriesInv(r)' BY <1>6, NoMessages DEF CarriesInv
  <2>2. ConnectInv(r)' BY <1>b, <1>1, <1>2, <1>4, <1>5, <1>6 DEF ConnectInv
  <2>3. RequestInv(r)'
    <3>1. UnderWay(r)' = 0 BY <1>6, <1>L DEF UnderWay
    <3>2. QED BY <1>1, <1>7, <3>1 DEF RequestInv
  <2>4. AnswerInv(r)'
    BY <1>b, <1>1, <1>2, <1>3, <1>6, <1>7 DEF RequestsInv, AnswerInv
  <2>5. WritesInv(r)'
    <3>1. Busy(r)' = 0 BY <1>b, <1>2, <1>6, <1>7, <1>L DEF Busy, Some
    <3>2. QED BY <1>6, <1>L, <3>1 DEF WritesInv
  <2>6. ReadsInv(r)' BY <1>1, <1>6, <1>7 DEF ReadsInv
  <2>7. ChunksInv(r)' BY <1>b, <1>1, <1>2, <1>6, <1>7 DEF ChunksInv, Reading
  <2>8. QED BY <2>1, <2>2, <2>3, <2>4, <2>5, <2>6, <2>7 DEF RequestsInv
<1>10. QED BY <1>b, <1>1, <1>2, <1>8, <1>9, StepKept

\* A response is posted to the session of its request.
LEMMA writeKept ==
    ASSUME IInv, TypeOK', NEW n \in Node, write(n)
    PROVE  IInv'
<1>a. PICK m : m = Head(send_queue[n]) OBVIOUS
<1>1. /\ IdsInv' /\ IdsKept /\ transaction_id' = transaction_id
      /\ UNCHANGED <<object, source, received>> /\ ReceiveInv'
      /\ \A q \in Request : Arrived(q)' = Arrived(q) /\ Answers(q)' = Answers(q)
  <2>1. IdsInv' /\ IdsKept BY IdsInvKept DEF IInv, write, CausesKept, files
  <2>2. QED BY <2>1, QueuesKept DEF IInv, write, identifiers, files
<1>2. /\ m \in Message /\ m.t_flag = FALSE /\ Identified(m) /\ SendInv'
      /\ m \in Answered(m.request) /\ Asked(m.request)' = Asked(m.request)
      /\ Answered(m.request)' \subseteq Answered(m.request)
      /\ m.request \in File => Answered(m.request)' = {}
      /\ \A q \in Request : q # m.request =>
           Asked(q)' = Asked(q) /\ Answered(q)' = Answered(q)
  <2>1. ~m.t_flag BY <1>a DEF write
  <2>2. m \in Message BY <1>a, <1>1, SendPopped DEF IInv, write
  <2>3. QED BY <1>a, <1>1, <2>1, <2>2, SendPopped DEF IInv, write, Message
<1>b. PICK r \in Request : r = m.request BY <1>2 DEF Message
<1>3. /\ RequestsInv(r) /\ C(r) \in EndState /\ S(r) \in EndState
      /\ S(r).posted \in Seq(Message) /\ S(r).writing \in Seq(Message)
  BY TypeOfEnds, EndFacts DEF IInv
<1>4. /\ object[r]["server"] # "none" /\ S(r).socket \in {"open", "closed"}
      /\ C(r).socket \notin {"none", "connecting"}
  BY <1>b, <1>2, <1>3 DEF RequestsInv, AnswerInv, RequestInv, ConnectInv, NoSession
<1>5. /\ C(r)' = C(r) /\ S(r)' = [S(r) EXCEPT !.posted = Append(S(r).posted, m)]
      /\ \A q \in Request : q # r => session'[q] = session[q]
  <2>1. SetEnd(r, "server", [S(r) EXCEPT !.posted = Append(S(r).posted, m)])
    BY <1>a, <1>b, <1>3 DEF write, S, EndState
  <2>2. QED BY <2>1, TheEnds, EndIsSet DEF IInv
<1>6. /\ C(r)' = C(r) /\ S(r)'.socket = S(r).socket /\ S(r)'.reads = S(r).reads
      /\ S(r)'.posted = Append(S(r).posted, m) /\ S(r)'.packets = S(r).packets
      /\ S(r)'.writing = S(r).writing /\ S(r)'.inbox = S(r).inbox
  BY <1>3, <1>5 DEF EndState
<1>8. ASSUME NEW q \in Request, q # r PROVE Untouched(q) /\ RelayKept(q)
  BY <1>b, <1>1, <1>2, <1>5, <1>8 DEF Untouched, RelayKept
<1>7. ASSUME r \in File
      PROVE  /\ Busy(r)' = Busy(r) /\ Answered(r)' = {}
             /\ S(r)'.posted[1] = m /\ S(r).writing = <<>>
  <2>1. Some(Answered(r)) = 1 /\ Some(Answered(r)') = 0 BY <1>b, <1>2, <1>7 DEF Some
  <2>2. Busy(r) <= 1 BY <1>3, <1>7 DEF RequestsInv, WritesInv
  <2>3. S(r).posted = <<>> /\ S(r).writing = <<>>
    BY <1>3, <2>1, <2>2, AtMostOneBusy DEF Busy
  <2>4. PICK x : x = S(r)'.posted OBVIOUS
  <2>5. x = <<m>>
    <3>1. Append(<<>>, m) = <<m>> OBVIOUS
    <3>2. QED BY <1>6, <2>3, <2>4, <3>1
  <2>6. Len(<<m>>) = 1 /\ Len(<<>>) = 0 /\ <<m>>[1] = m OBVIOUS
  <2>7. Busy(r) = 1 + 0 + 0 BY <2>1, <2>3, <2>6 DEF Busy
  <2>8. Busy(r)' = 0 + 1 + 0
    BY <1>b, <1>2, <1>6, <1>7, <2>3, <2>4, <2>5, <2>6 DEF Busy, Some
  <2>9. QED BY <1>b, <1>2, <1>7, <2>3, <2>4, <2>5, <2>6, <2>7, <2>8
<1>9. RequestsInv(r)'
  <2>1. CarriesInv(r)'
    <3>1. Carries(Append(S(r).posted, m), r, FALSE)
      <4>1. Carries(S(r).posted, r, FALSE) BY <1>3 DEF RequestsInv, CarriesInv
      <4>2. QED BY <1>b, <1>2, <1>3, <4>1, CarriesAppended
    <3>2. QED BY <1>1, <1>3, <1>6, <3>1, CarriesKept DEF RequestsInv, CarriesInv
  <2>2. ConnectInv(r)'
    BY <1>b, <1>1, <1>2, <1>3, <1>4, <1>6 DEF RequestsInv, ConnectInv
  <2>3. RequestInv(r)' BY <1>1, <1>3, <1>6 DEF RequestsInv, RequestInv, UnderWay
  <2>4. AnswerInv(r)' BY <1>1, <1>4 DEF AnswerInv
  <2>5. WritesInv(r)' BY <1>3, <1>6, <1>7 DEF RequestsInv, WritesInv
  <2>6. ReadsInv(r)' BY <1>1, <1>3, <1>6 DEF RequestsInv, ReadsInv
  <2>7. ASSUME r \in File PROVE ChunksInv(r)'
    <3>1. m.chunk = source[r] - 1 BY <1>b, <1>2, <1>3, <2>7 DEF RequestsInv, ChunksInv
    <3>2. Taken(r)' = Taken(r) /\ (Reading(r)' <=> Reading(r))
      BY <1>1, <1>6 DEF Taken, Reading
    <3>3. ChunksInv(r) BY <1>3, <2>7 DEF RequestsInv
    <3>4. QED
      BY <1>1, <1>6, <1>7, <2>7, <3>1, <3>2, <3>3 DEF ChunksInv
  <2>8. QED BY <2>1, <2>2, <2>3, <2>4, <2>5, <2>6, <2>7 DEF RequestsInv
<1>10. QED BY <1>b, <1>1, <1>2, <1>8, <1>9, StepKept

-----------------------------------------------------------------------------
(* Objects that are made and removed.                                      *)

\* A request gets the next identifier of its process.
LEMMA Made ==
    ASSUME IInv, TypeOK', NEW r \in Request, transaction_id[r] = 0, Make(r), CausesKept
    PROVE  /\ IdsKept /\ IdsInv' /\ SendInv'
           /\ transaction_id'[r] # 0
           /\ C(r) = NoSession /\ Asked(r) = {}
           /\ \A q \in Request : q # r =>
                transaction_id'[q] = transaction_id[q] /\ Asked(q)' = Asked(q)
           /\ \A q \in Request : Answered(q)' = Answered(q)
<1>n. PICK n \in Node : n = Client[r] BY Nodes
<1>1. counter[n] \in Nat BY DEF IInv, TypeOK
<1>i. PICK id : id = counter[n] + 1 OBVIOUS
<1>m. PICK m : m = Request_message(r, id) OBVIOUS
<1>2. /\ counter'[n] = id
      /\ \A k \in Node : k # n => counter'[k] = counter[k]
      /\ transaction_id'[r] = id
      /\ \A q \in Request : q # r => transaction_id'[q] = transaction_id[q]
      /\ active_handlers'[n] = active_handlers[n] \cup {[id |-> id, request |-> r]}
      /\ \A k \in Node : k # n => active_handlers'[k] = active_handlers[k]
  BY <1>n, <1>i, <1>1 DEF IInv, TypeOK, Make
<1>3. send_queue' = Pushed(n, m) BY <1>n, <1>i, <1>m DEF Make
<1>4. \A q \in Request : Client[q] = n => transaction_id[q] \in Nat /\ transaction_id[q] < id
  <2> TAKE q \in Request
  <2>1. transaction_id[q] \in Nat BY DEF IInv, TypeOK
  <2>2. transaction_id[q] <= counter[Client[q]] BY DEF IInv, IdsInv
  <2>3. QED BY <1>1, <1>i, <2>1, <2>2
<1>5. id # 0 /\ id \in Nat BY <1>1, <1>i
<1>6. IdsKept BY <1>2 DEF IdsKept
<1>7. IdsInv'
  <2>1. \A q \in Request : transaction_id'[q] <= counter'[Client[q]]
    <3> SUFFICES ASSUME NEW q \in Request
                 PROVE  transaction_id'[q] <= counter'[Client[q]]
      OBVIOUS
    <3>1. CASE q = r BY <3>1, <1>n, <1>2, <1>5
    <3>2. CASE q # r /\ Client[q] = n BY <3>2, <1>2, <1>4, <1>5
    <3>3. CASE q # r /\ Client[q] # n BY <3>3, <1>2, Nodes DEF IInv, IdsInv
    <3>4. QED BY <3>1, <3>2, <3>3
  <2>2. \A p, q \in Request :
          /\ Client[p] = Client[q]
          /\ transaction_id'[p] = transaction_id'[q]
          /\ transaction_id'[p] # 0
          => p = q
    <3> SUFFICES ASSUME NEW p \in Request, NEW q \in Request, p # q,
                        Client[p] = Client[q], transaction_id'[p] = transaction_id'[q],
                        transaction_id'[p] # 0
                 PROVE  FALSE
      OBVIOUS
    <3>1. CASE p = r BY <3>1, <1>n, <1>2, <1>4, <1>5
    <3>2. CASE q = r BY <3>2, <1>n, <1>2, <1>4, <1>5
    <3>3. CASE p # r /\ q # r BY <3>3, <1>2 DEF IInv, IdsInv
    <3>4. QED BY <3>1, <3>2, <3>3
  <2>3. ASSUME NEW k \in Node, NEW h \in active_handlers'[k]
        PROVE  Client[h.request] = k /\ h.id = transaction_id'[h.request] /\ h.id # 0
    <3>1. CASE h = [id |-> id, request |-> r] /\ k = n BY <3>1, <1>n, <1>2, <1>5
    <3>2. CASE h \in active_handlers[k]
      <4>1. h \in [id : Nat, request : Request] BY <3>2 DEF IInv, TypeOK
      <4>2. /\ Client[h.request] = k
            /\ h.id = transaction_id[h.request] /\ h.id # 0
        BY <3>2 DEF IInv, IdsInv
      <4>3. QED BY <4>1, <4>2, <1>6 DEF IdsKept
    <3>3. QED BY <3>1, <3>2, <1>2
  <2>4. QED BY <2>1, <2>2, <2>3 DEF IdsInv
<1>8. C(r) = NoSession /\ Asked(r) = {} BY DEF IInv, RequestsInv, ConnectInv
<1>9. m \in Message /\ m.request = r /\ m.t_flag = TRUE /\ Identified(m)'
  <2>1. m \in Message BY <1>m, <1>5, FileAssumption DEF Request_message, Message
  <2>2. m.request = r /\ m.t_flag = TRUE /\ m.transaction_id = id BY <1>m DEF Request_message
  <2>3. QED BY <2>1, <2>2, <1>2, <1>5 DEF Identified
<1>10. n = Sender(m.request, m.t_flag) BY <1>n, <1>9 DEF Sender
<1>11. /\ SendInv'
       /\ \A q \in Request : q # r => Asked(q)' = Asked(q) /\ Answered(q)' = Answered(q)
       /\ Answered(r)' = Answered(r)
  <2>1. m.t_flag => Asked(m.request) = {} BY <1>8, <1>9
  <2>2. ~m.t_flag /\ m.request \in File => Answered(m.request) = {} BY <1>9
  <2>3. TypeOK /\ SendInv BY DEF IInv
  <2>4. /\ SendInv'
        /\ \A q \in Request : q # m.request =>
             Asked(q)' = Asked(q) /\ Answered(q)' = Answered(q)
        /\ m.t_flag => Answered(m.request)' = Answered(m.request)
    BY <1>1, <1>3, <1>6, <1>9, <1>10, <2>1, <2>2, <2>3, SendPushed, Zenon
  <2>5. QED BY <1>9, <2>4
<1>12. QED BY <1>2, <1>5, <1>6, <1>7, <1>8, <1>11

\* What is known of a request that is made.
LEMMA MadeKept ==
    ASSUME TypeOK, NEW r \in Request, RequestsInv(r), IdsKept, transaction_id'[r] # 0,
           C(r) = NoSession,
           session'[r] = session[r],
           object'[r]["server"] = "none" <=> object[r]["server"] = "none",
           source'[r] = source[r], received'[r] = received[r],
           Arrived(r)' = Arrived(r), Answered(r)' = Answered(r), Answers(r)' = Answers(r),
           RelayKept(r)
    PROVE  RequestsInv(r)'
<1>1. C(r)' = C(r) /\ S(r)' = S(r) BY DEF C, S
<1>2. CarriesInv(r)' BY <1>1, CarriesKept DEF RequestsInv, CarriesInv
<1>3. ConnectInv(r)' BY <1>1 DEF RequestsInv, ConnectInv
<1>4. UnderWay(r)' = UnderWay(r) BY <1>1 DEF UnderWay
<1>5. RequestInv(r)' BY <1>1, <1>4 DEF RequestsInv, RequestInv
<1>6. AnswerInv(r)' BY <1>1 DEF RequestsInv, AnswerInv, RelayKept
<1>7. Busy(r)' = Busy(r) BY <1>1 DEF Busy
<1>8. WritesInv(r)' BY <1>1, <1>7 DEF RequestsInv, WritesInv
<1>9. ReadsInv(r)' BY <1>1 DEF RequestsInv, ReadsInv
<1>10. Taken(r)' = Taken(r) /\ (Reading(r)' <=> Reading(r)) BY <1>1 DEF Taken, Reading
<1>11. r \in File => ChunksInv(r)'
  BY <1>1, <1>7, <1>10 DEF RequestsInv, ChunksInv
<1>12. QED BY <1>2, <1>3, <1>5, <1>6, <1>8, <1>9, <1>11 DEF RequestsInv

\* A request is made.
LEMMA create_requestKept ==
    ASSUME IInv, TypeOK', NEW r \in Request, create_request(r)
    PROVE  IInv'
<1>3. \A q \in Request : object'[q]["server"] = object[q]["server"]
  BY TheEnds, ObjectChanged DEF IInv, create_request
<1>1. /\ IdsKept /\ IdsInv' /\ SendInv' /\ transaction_id'[r] # 0
      /\ C(r) = NoSession /\ Asked(r) = {}
      /\ \A q \in Request : q # r =>
           transaction_id'[q] = transaction_id[q] /\ Asked(q)' = Asked(q)
      /\ \A q \in Request : Answered(q)' = Answered(q)
  <2>1. CausesKept BY <1>3 DEF create_request, files, CausesKept
  <2>2. QED BY <2>1, Made DEF create_request
<1>2. /\ ReceiveInv' /\ session' = session /\ source' = source /\ received' = received
      /\ \A q \in Request : Arrived(q)' = Arrived(q) /\ Answers(q)' = Answers(q)
  BY <1>1, QueuesKept DEF IInv, create_request, files
<1>4. \A q \in Request : RelayKept(q)
  <2> SUFFICES ASSUME NEW q \in Request, q \notin File, Relayed[q] # NoRequest
               PROVE  transaction_id'[Relayed[q]] = transaction_id[Relayed[q]]
    BY DEF RelayKept
  <2>1. Relayed[q] # r BY DEF create_request, Forwarded
  <2>2. Relayed[q] \in Request BY RelayedAssumption
  <2>3. QED BY <1>1, <2>1, <2>2
<1>5. ASSUME NEW q \in Request, q # r PROVE Untouched(q) /\ RelayKept(q)
  BY <1>1, <1>2, <1>3, <1>4, <1>5 DEF Untouched
<1>6. RequestsInv(r)'
  BY <1>1, <1>2, <1>3, <1>4, MadeKept DEF IInv
<1>7. QED BY <1>1, <1>2, <1>5, <1>6, StepKept

\* An object is removed.
LEMMA cleanKept ==
    ASSUME IInv, TypeOK', NEW r \in Request, NEW e \in End, clean(r, e)
    PROVE  IInv'
<1>1. /\ IdsInv' /\ IdsKept /\ transaction_id' = transaction_id /\ session' = session
      /\ source' = source /\ received' = received
      /\ SendInv' /\ ReceiveInv'
      /\ \A q \in Request : /\ Asked(q)' = Asked(q) /\ Answered(q)' = Answered(q)
                            /\ Arrived(q)' = Arrived(q) /\ Answers(q)' = Answers(q)
  <2>0. CausesKept
    <3>1. /\ object'[r][e] = "gone" /\ source' = source
          /\ \A q \in Request, d \in End :
               ~(q = r /\ d = e) => object'[q][d] = object[q][d]
      BY ObjectChanged DEF IInv, clean, files
    <3>2. QED BY <3>1, TheEnds DEF CausesKept, Over
  <2>1. IdsInv' /\ IdsKept BY <2>0, IdsInvKept DEF IInv, clean
  <2>2. QED BY <2>1, QueuesKept DEF IInv, clean, identifiers, files
<1>2. \A q \in Request :
        object'[q]["server"] = "none" <=> object[q]["server"] = "none"
  <2>1. /\ object[r][e] # "none" /\ object'[r][e] = "gone"
        /\ \A q \in Request, d \in End :
             ~(q = r /\ d = e) => object'[q][d] = object[q][d]
    BY ObjectChanged DEF IInv, clean, Alive
  <2>2. QED BY <2>1, TheEnds
<1>3. ASSUME NEW q \in Request PROVE Untouched(q) /\ RelayKept(q)
  BY <1>1, <1>2 DEF Untouched, RelayKept
<1>4. transaction_id'[r] \in Nat BY DEF TypeOK
<1>5. QED BY <1>1, <1>3, <1>4, UntouchedKept, StepKept DEF IInv

-----------------------------------------------------------------------------
(* The dispatcher and requests.                                            *)

\* The message of a request that is popped.
LEMMA RequestIsNew ==
    ASSUME IInv, NEW n \in Node, NEW r \in Request, Requested(n, r)
    PROVE  Arrived(r) # {} /\ object[r]["server"] = "none" /\ transaction_id[r] # 0
<1>m. PICK m : m = Head(receive_queue[n]) OBVIOUS
<1>1. receive_queue[n] # <<>> /\ m.t_flag /\ r = m.request
  BY <1>m DEF Requested, Popped
<1>2. receive_queue[n] \in Seq(Message) /\ Unique(receive_queue[n])
  BY DEF IInv, TypeOK, ReceiveInv
<1>3. m \in Message /\ m \in In(receive_queue[n], m.request, m.t_flag)
  BY <1>m, <1>1, <1>2, TailOfQueue
<1>4. m.t_flag = TRUE BY <1>1, <1>3 DEF Message
<1>5. m \in In(receive_queue[n], r, TRUE) BY <1>1, <1>3, <1>4
<1>6. n = Server[r] /\ Identified(m) BY <1>5 DEF IInv, ReceiveInv, Receiver
<1>7. Arrived(r) # {} BY <1>5, <1>6 DEF Arrived
<1>8. QED BY <1>1, <1>6, <1>7 DEF IInv, RequestsInv, RequestInv, Identified

\* So no answer is lost when its object changes.
LEMMA NewCausesKept ==
    ASSUME IInv, NEW n \in Node, NEW r \in Request, Requested(n, r), NEW state,
           object' = With(<<r, "server">>, state),
           source' = source
             \/ (r \in File /\ source' = [source EXCEPT ![r] = @ + 1])
    PROVE  CausesKept
<1>1. /\ object[r]["server"] = "none"
      /\ \A q \in Request : q # r => object'[q]["server"] = object[q]["server"]
  BY RequestIsNew, TheEnds, ObjectChanged DEF IInv
<1>2. ASSUME NEW q \in Request PROVE 1..(source[q] - 1) \subseteq 1..(source'[q] - 1)
  <2>1. source[q] \in Nat /\ source \in [Request -> Nat] BY DEF IInv, TypeOK
  <2>2. source'[q] = source[q] \/ source'[q] = source[q] + 1 BY <2>1
  <2>3. QED BY <2>1, <2>2
<1>3. QED BY <1>1, <1>2 DEF CausesKept, Over

\* A request that is popped has not been handled before.
LEMMA RequestPopped ==
    ASSUME IInv, IdsKept, NEW n \in Node, NEW r \in Request, Requested(n, r)
    PROVE  /\ ReceiveInv' /\ n = Server[r] /\ Arrived(r)' = {}
           /\ \A q \in Request : q # r => Arrived(q)' = Arrived(q)
           /\ \A q \in Request : Answers(q)' = Answers(q)
           /\ Head(receive_queue[n]) \in Message
           /\ Head(receive_queue[n]).request = r
           /\ Head(receive_queue[n]).transaction_id = transaction_id[r]
           /\ transaction_id[r] # 0
           /\ object[r]["server"] = "none"
           /\ UnderWay(r) = 0 /\ S(r).socket \in {"open", "closed"}
           /\ S(r).posted = <<>> /\ S(r).writing = <<>>
           /\ Answered(r) = {} /\ Answers(r) = {}
<1>m. PICK m : m = Head(receive_queue[n]) OBVIOUS
<1>1. /\ receive_queue[n] # <<>> /\ m.t_flag /\ r = m.request
      /\ receive_queue' = [receive_queue EXCEPT ![n] = Tail(@)]
  BY <1>m DEF Requested, Popped
<1>2. /\ m \in Message /\ n = Receiver(m.request, m.t_flag) /\ Identified(m)
      /\ ReceiveInv'
      /\ m \in Arrived(m.request) /\ Arrived(m.request)' = {}
      /\ Answers(m.request)' = Answers(m.request)
      /\ \A q \in Request : q # m.request =>
           Arrived(q)' = Arrived(q) /\ Answers(q)' = Answers(q)
  BY <1>m, <1>1, ReceivePopped DEF IInv
<1>3. /\ object[r]["server"] = "none" /\ UnderWay(r) = 0
      /\ S(r).socket \in {"open", "closed"}
  BY <1>1, <1>2 DEF IInv, RequestsInv, RequestInv
<1>4. /\ S(r).posted = <<>> /\ S(r).writing = <<>>
      /\ Answered(r) = {} /\ Answers(r) = {}
  BY <1>3 DEF IInv, RequestsInv, AnswerInv
<1>5. n = Server[r] /\ m.transaction_id = transaction_id[r] /\ transaction_id[r] # 0
  BY <1>1, <1>2 DEF Receiver, Identified
<1>6. QED BY <1>m, <1>1, <1>2, <1>3, <1>4, <1>5

\* What follows from it once the request is handled.
LEMMA RequestHandled ==
    ASSUME IdsKept, NEW r \in Request, RequestsInv(r), transaction_id[r] # 0,
           session'[r] = session[r], Arrived(r)' = {},
           UnderWay(r) = 0, S(r).socket \in {"open", "closed"},
           Asked(r)' = Asked(r), Answers(r)' = Answers(r),
           object'[r]["server"] # "none"
    PROVE  /\ C(r)' = C(r) /\ S(r)' = S(r)
           /\ CarriesInv(r)' /\ ConnectInv(r)' /\ RequestInv(r)' /\ AnswerInv(r)'
           /\ ReadsInv(r)'
           /\ r \notin File => RequestsInv(r)'
<1>1. C(r)' = C(r) /\ S(r)' = S(r) BY DEF C, S
<1>2. CarriesInv(r)' BY <1>1, CarriesKept DEF RequestsInv, CarriesInv
<1>3. ConnectInv(r)'
  <2>1. transaction_id'[r] # 0 BY DEF IdsKept
  <2>2. QED BY <1>1, <2>1 DEF RequestsInv, ConnectInv
<1>4. RequestInv(r)'
  <2>1. UnderWay(r)' = UnderWay(r) BY <1>1 DEF UnderWay
  <2>2. QED BY <1>1, <2>1 DEF RequestInv
<1>5. AnswerInv(r)' BY DEF AnswerInv
<1>6. ReadsInv(r)' BY <1>1 DEF RequestsInv, ReadsInv
<1>7. r \notin File => WritesInv(r)' BY <1>1 DEF RequestsInv, WritesInv
<1>8. QED BY <1>1, <1>2, <1>3, <1>4, <1>5, <1>6, <1>7 DEF RequestsInv

\* A response has the identifier of its request.
LEMMA Responses ==
    ASSUME TypeOK, IdsKept, NEW r \in Request, transaction_id[r] # 0,
           NEW m \in Message, m.request = r, m.transaction_id = transaction_id[r],
           NEW chunk \in 0..Chunks, NEW x, x = generate_response(m, chunk),
           IF r \in File THEN chunk \in 1..(source'[r] - 1)
           ELSE object'[r]["server"] \in Over
    PROVE  /\ x \in Message /\ x.request = r /\ ~x.t_flag /\ x.chunk = chunk
           /\ Identified(x)'
<1>1. transaction_id[r] \in Nat BY DEF TypeOK
<1>2. /\ x \in Message /\ x.request = r /\ ~x.t_flag /\ x.chunk = chunk
      /\ x.correlational_id = transaction_id[r]
  BY <1>1 DEF generate_response, Message
<1>3. QED BY <1>2 DEF Identified, IdsKept, Caused

\* A response is pushed to the send queue of the server.
LEMMA ResponsePushed ==
    ASSUME TypeOK, SendInv, IdsKept, NEW r \in Request,
           NEW x \in Message, x.request = r, ~x.t_flag, Identified(x)',
           send_queue' = Pushed(Server[r], x), r \in File => Answered(r) = {}
    PROVE  /\ SendInv'
           /\ Answered(r)' = Answered(r) \cup {x}
           /\ \A q \in Request : Asked(q)' = Asked(q)
           /\ \A q \in Request : q # r => Answered(q)' = Answered(q)
<1>n. PICK n \in Node : n = Server[r] BY Nodes
<1>1. n = Sender(x.request, x.t_flag) /\ send_queue' = Pushed(n, x)
  BY <1>n DEF Sender
<1>2. /\ SendInv'
      /\ \A q \in Request : q # x.request => Asked(q)' = Asked(q) /\ Answered(q)' = Answered(q)
      /\ ~x.t_flag =>
           /\ Answered(x.request)' = Answered(x.request) \cup {x}
           /\ Asked(x.request)' = Asked(x.request)
  <2>1. x.t_flag => Asked(x.request) = {} OBVIOUS
  <2>2. ~x.t_flag /\ x.request \in File => Answered(x.request) = {} OBVIOUS
  <2>3. QED BY <1>1, <2>1, <2>2, SendPushed, Zenon
<1>3. QED BY <1>2

\* A request is answered at once.
LEMMA handle_requestKept ==
    ASSUME IInv, TypeOK', NEW n \in Node, NEW r \in Request, handle_request(n, r)
    PROVE  IInv'
<1>m. PICK m : m = Head(receive_queue[n]) OBVIOUS
<1>x. PICK x : x = generate_response(m, 0) OBVIOUS
<1>1. /\ IdsInv' /\ IdsKept /\ transaction_id' = transaction_id /\ session' = session
      /\ source' = source /\ received' = received
  <2>1. \A k \in Node : active_handlers'[k] \subseteq active_handlers[k]
    BY DEF handle_request, Pruned, IInv, TypeOK
  <2>2. CausesKept BY NewCausesKept DEF handle_request, files
  <2>3. QED BY <2>1, <2>2, IdsInvKept DEF IInv, handle_request, identifiers, files
<1>2. /\ ReceiveInv' /\ n = Server[r] /\ Arrived(r)' = {}
      /\ \A q \in Request : q # r => Arrived(q)' = Arrived(q)
      /\ \A q \in Request : Answers(q)' = Answers(q)
      /\ m \in Message /\ m.request = r /\ m.transaction_id = transaction_id[r]
      /\ transaction_id[r] # 0
      /\ UnderWay(r) = 0 /\ S(r).socket \in {"open", "closed"}
  BY <1>m, <1>1, RequestPopped DEF handle_request
<1>5. /\ object'[r]["server"] = "done"
      /\ \A q \in Request : q # r => object'[q]["server"] = object[q]["server"]
  BY TheEnds, ObjectChanged DEF IInv, handle_request
<1>3. x \in Message /\ x.request = r /\ ~x.t_flag /\ Identified(x)'
  <2>1. 0 \in 0..Chunks BY FileAssumption
  <2>2. TypeOK /\ IdsKept /\ transaction_id[r] # 0 /\ m \in Message /\ m.request = r
        /\ m.transaction_id = transaction_id[r]
    BY <1>1, <1>2 DEF IInv
  <2>3. r \notin File /\ object'[r]["server"] \in Over
    BY <1>5 DEF handle_request, Over
  <2>4. QED BY <1>x, <2>1, <2>2, <2>3, Responses
<1>4. /\ SendInv'
      /\ \A q \in Request : Asked(q)' = Asked(q)
      /\ \A q \in Request : q # r => Answered(q)' = Answered(q)
  <2>1. send_queue' = Pushed(Server[r], x) /\ r \notin File
    BY <1>m, <1>x, <1>2 DEF handle_request
  <2>2. QED BY <1>1, <1>3, <2>1, ResponsePushed DEF IInv
<1>6. ASSUME NEW q \in Request, q # r PROVE Untouched(q) /\ RelayKept(q)
  BY <1>1, <1>2, <1>4, <1>5, <1>6 DEF Untouched, RelayKept
<1>7. RequestsInv(r)'
  BY <1>1, <1>2, <1>4, <1>5, RequestHandled DEF IInv, handle_request
<1>8. QED BY <1>1, <1>2, <1>4, <1>6, <1>7, StepKept

\* A request is not answered.
LEMMA handle_request_unansweredKept ==
    ASSUME IInv, TypeOK', NEW n \in Node, NEW r \in Request,
           handle_request_unanswered(n, r)
    PROVE  IInv'
<1>1. /\ IdsInv' /\ IdsKept /\ transaction_id' = transaction_id /\ session' = session
      /\ source' = source /\ received' = received /\ SendInv'
      /\ \A q \in Request : Asked(q)' = Asked(q) /\ Answered(q)' = Answered(q)
  <2>0. CausesKept BY NewCausesKept DEF handle_request_unanswered, files
  <2>3. \A k \in Node : active_handlers'[k] \subseteq active_handlers[k]
    BY DEF handle_request_unanswered, Pruned, IInv, TypeOK
  <2>1. IdsInv' /\ IdsKept
    BY <2>0, <2>3, IdsInvKept DEF IInv, handle_request_unanswered
  <2>2. QED BY <2>1, QueuesKept DEF IInv, handle_request_unanswered, identifiers, files
<1>2. /\ ReceiveInv' /\ Arrived(r)' = {}
      /\ \A q \in Request : q # r => Arrived(q)' = Arrived(q)
      /\ \A q \in Request : Answers(q)' = Answers(q)
      /\ transaction_id[r] # 0
      /\ UnderWay(r) = 0 /\ S(r).socket \in {"open", "closed"}
  BY <1>1, RequestPopped DEF handle_request_unanswered
<1>3. /\ object'[r]["server"] \in {"done", "waiting"}
      /\ \A q \in Request : q # r => object'[q]["server"] = object[q]["server"]
  BY TheEnds, ObjectChanged DEF IInv, handle_request_unanswered
<1>4. ASSUME NEW q \in Request, q # r PROVE Untouched(q) /\ RelayKept(q)
  BY <1>1, <1>2, <1>3, <1>4 DEF Untouched, RelayKept
<1>5. RequestsInv(r)'
  <2>1. /\ C(r)' = C(r) /\ S(r)' = S(r)
        /\ CarriesInv(r)' /\ ConnectInv(r)' /\ RequestInv(r)' /\ AnswerInv(r)'
        /\ ReadsInv(r)'
    BY <1>1, <1>2, <1>3, RequestHandled DEF IInv
  <2>2. Busy(r)' = Busy(r) BY <1>1, <2>1 DEF Busy
  <2>3. WritesInv(r)' BY <2>1, <2>2 DEF IInv, RequestsInv, WritesInv
  <2>4. Taken(r)' = Taken(r) /\ (Reading(r)' <=> Reading(r))
    BY <1>1, <1>2, <2>1 DEF Taken, Reading
  <2>5. ASSUME r \in File PROVE ChunksInv(r)'
    <3>1. ChunksInv(r) BY <2>5 DEF IInv, RequestsInv
    <3>2. QED BY <1>1, <1>2, <2>1, <2>2, <2>4, <3>1 DEF ChunksInv
  <2>6. QED BY <2>1, <2>3, <2>5 DEF RequestsInv
<1>6. QED BY <1>1, <1>2, <1>4, <1>5, StepKept

\* A request is forwarded: its relay is made.
LEMMA forward_requestKept ==
    ASSUME IInv, TypeOK', NEW n \in Node, NEW r \in Request, forward_request(n, r)
    PROVE  IInv'
<1>p. PICK p : p = Relayed[r] OBVIOUS
<1>1. /\ p \in Request \ File /\ p # NoRequest /\ r \notin File
      /\ \A q \in Request \ File : Relayed[q] = p => q = r
  BY <1>p, RelayedAssumption DEF forward_request
<1>2. Requested(n, r) /\ Make(p) /\ session' = session /\ source' = source
      /\ received' = received
  BY <1>p DEF forward_request, files
<1>3. Arrived(r) # {} /\ object[r]["server"] = "none" /\ transaction_id[r] # 0
  BY <1>2, RequestIsNew
<1>4. transaction_id[p] = 0
  BY <1>p, <1>1, <1>3 DEF IInv, RequestsInv, AnswerInv
<1>5. p # r BY <1>3, <1>4
<1>6. /\ IdsKept /\ IdsInv' /\ SendInv' /\ transaction_id'[p] # 0
      /\ C(p) = NoSession /\ Asked(p) = {}
      /\ \A q \in Request : q # p =>
           transaction_id'[q] = transaction_id[q] /\ Asked(q)' = Asked(q)
      /\ \A q \in Request : Answered(q)' = Answered(q)
  <2>1. CausesKept BY <1>2, NewCausesKept DEF forward_request
  <2>2. QED BY <1>1, <1>2, <1>4, <2>1, Made
<1>7. /\ ReceiveInv' /\ Arrived(r)' = {}
      /\ \A q \in Request : q # r => Arrived(q)' = Arrived(q)
      /\ \A q \in Request : Answers(q)' = Answers(q)
      /\ UnderWay(r) = 0 /\ S(r).socket \in {"open", "closed"}
  BY <1>2, <1>6, RequestPopped
<1>8. /\ object'[r]["server"] = "waiting"
      /\ \A q \in Request : q # r => object'[q]["server"] = object[q]["server"]
  BY TheEnds, ObjectChanged DEF IInv, forward_request
<1>9. ASSUME NEW q \in Request, q # r PROVE RelayKept(q)
  <2> SUFFICES ASSUME q \notin File, Relayed[q] # NoRequest
               PROVE  transaction_id'[Relayed[q]] = transaction_id[Relayed[q]]
    BY DEF RelayKept
  <2>1. Relayed[q] # p BY <1>1, <1>9
  <2>2. Relayed[q] \in Request BY RelayedAssumption
  <2>3. QED BY <1>6, <2>1, <2>2
<1>10. ASSUME NEW q \in Request, q # r, q # p PROVE Untouched(q)
  BY <1>2, <1>6, <1>7, <1>8, <1>10 DEF Untouched
<1>11. ASSUME NEW q \in Request PROVE RequestsInv(q)'
  <2>1. CASE q = r
    BY <2>1, <1>1, <1>2, <1>3, <1>5, <1>6, <1>7, <1>8, RequestHandled DEF IInv
  <2>2. CASE q = p
    BY <2>2, <1>1, <1>2, <1>5, <1>6, <1>7, <1>8, <1>9, MadeKept DEF IInv
  <2>3. CASE q # r /\ q # p
    <3>1. transaction_id'[q] \in Nat BY DEF TypeOK
    <3>2. QED BY <2>3, <3>1, <1>6, <1>9, <1>10, UntouchedKept DEF IInv
  <2>4. QED BY <2>1, <2>2, <2>3
<1>12. QED BY <1>6, <1>7, <1>11 DEF IInv

\* The next chunk is read and pushed, or there is none.
LEMMA write_fileKept ==
    ASSUME TypeOK, SendInv, IdsKept, NEW r \in File, transaction_id[r] # 0,
           source[r] # 0, Answered(r) = {}, write_file(r)
    PROVE  /\ SendInv'
           /\ \A q \in Request : Asked(q)' = Asked(q)
           /\ \A q \in Request : q # r =>
                source'[q] = source[q] /\ Answered(q)' = Answered(q)
           /\ \/ source'[r] = source[r] /\ Answered(r)' = {}
              \/ /\ source'[r] = source[r] + 1
                 /\ \E x : Answered(r)' = {x} /\ x.chunk = source[r]
<1>1. r \in Request BY FileAssumption
<1>2. source[r] \in Nat /\ Chunks \in Nat BY <1>1, FileAssumption DEF TypeOK
<1>3. CASE source[r] <= Chunks
  <2>m. PICK m : m = request_(r) OBVIOUS
  <2>x. PICK x : x = generate_response(m, source[r]) OBVIOUS
  <2>c. PICK chunk \in 0..Chunks : chunk = source[r] BY <1>2, <1>3
  <2>1. m \in Message /\ m.request = r /\ m.transaction_id = transaction_id[r]
    <3>1. transaction_id[r] \in Nat /\ 0 \in 0..Chunks BY <1>1, <1>2 DEF TypeOK
    <3>2. QED BY <2>m, <1>1, <3>1 DEF request_, Request_message, Message
  <2>2. x \in Message /\ x.request = r /\ ~x.t_flag /\ x.chunk = chunk /\ Identified(x)'
    <3>1. x = generate_response(m, chunk) BY <2>x, <2>c
    <3>2. source'[r] = source[r] + 1 BY <1>1, <1>3 DEF TypeOK, write_file
    <3>3. chunk \in 1..(source'[r] - 1) BY <1>2, <2>c, <3>2
    <3>4. QED BY <1>1, <2>1, <3>1, <3>3, Responses
  <2>3. /\ send_queue' = Pushed(Server[r], x)
        /\ source' = [source EXCEPT ![r] = @ + 1]
    BY <1>3, <2>m, <2>x DEF write_file
  <2>4. /\ SendInv'
        /\ Answered(r)' = Answered(r) \cup {x}
        /\ \A q \in Request : Asked(q)' = Asked(q)
        /\ \A q \in Request : q # r => Answered(q)' = Answered(q)
    BY <1>1, <2>2, <2>3, ResponsePushed
  <2>5. /\ source'[r] = source[r] + 1
        /\ \A q \in Request : q # r => source'[q] = source[q]
    BY <1>1, <2>3 DEF TypeOK
  <2>6. Answered(r)' = {x} /\ x.chunk = source[r] BY <2>2, <2>4, <2>c
  <2>7. QED BY <2>4, <2>5, <2>6
<1>4. CASE ~(source[r] <= Chunks)
  <2>1. UNCHANGED <<send_queue, source>> BY <1>4 DEF write_file
  <2>2. SendInv' /\ \A q \in Request : Asked(q)' = Asked(q) /\ Answered(q)' = Answered(q)
    BY <2>1, QueuesKept
  <2>3. QED BY <1>1, <2>1, <2>2
<1>5. QED BY <1>3, <1>4

\* The first chunk of a file is sent.
LEMMA GetFile_handle_requestKept ==
    ASSUME IInv, TypeOK', NEW n \in Node, NEW r \in Request,
           GetFile_handle_request(n, r)
    PROVE  IInv'
<1>1. /\ IdsInv' /\ IdsKept /\ transaction_id' = transaction_id /\ session' = session
      /\ received' = received /\ r \in File
  <2>0. CausesKept BY NewCausesKept DEF GetFile_handle_request, write_file
  <2>1. IdsInv' /\ IdsKept BY <2>0, IdsInvKept DEF IInv, GetFile_handle_request
  <2>2. QED BY <2>1 DEF IInv, GetFile_handle_request, identifiers
<1>2. /\ ReceiveInv' /\ Arrived(r)' = {}
      /\ \A q \in Request : q # r => Arrived(q)' = Arrived(q)
      /\ \A q \in Request : Answers(q)' = Answers(q)
      /\ transaction_id[r] # 0 /\ object[r]["server"] = "none"
      /\ UnderWay(r) = 0 /\ S(r).socket \in {"open", "closed"}
      /\ S(r).posted = <<>> /\ S(r).writing = <<>>
      /\ Answered(r) = {} /\ Answers(r) = {}
  BY <1>1, RequestPopped DEF GetFile_handle_request
<1>3. /\ object'[r]["server"] = "waiting"
      /\ \A q \in Request : q # r => object'[q]["server"] = object[q]["server"]
  BY TheEnds, ObjectChanged DEF IInv, GetFile_handle_request
<1>4. /\ SendInv'
      /\ \A q \in Request : Asked(q)' = Asked(q)
      /\ \A q \in Request : q # r =>
           source'[q] = source[q] /\ Answered(q)' = Answered(q)
      /\ \/ source'[r] = source[r] /\ Answered(r)' = {}
         \/ /\ source'[r] = source[r] + 1
            /\ \E x : Answered(r)' = {x} /\ x.chunk = source[r]
  <2>1. source[r] # 0 BY <1>2 DEF IInv, RequestsInv, AnswerInv
  <2>2. QED BY <1>1, <1>2, <2>1, write_fileKept DEF IInv, GetFile_handle_request
<1>5. ASSUME NEW q \in Request, q # r PROVE Untouched(q) /\ RelayKept(q)
  BY <1>1, <1>2, <1>3, <1>4, <1>5 DEF Untouched, RelayKept
<1>6. RequestsInv(r)'
  <2>1. /\ C(r)' = C(r) /\ S(r)' = S(r)
        /\ CarriesInv(r)' /\ ConnectInv(r)' /\ RequestInv(r)' /\ AnswerInv(r)'
        /\ ReadsInv(r)'
    BY <1>1, <1>2, <1>3, <1>4, RequestHandled DEF IInv
  <2>2. Len(<<>>) = 0 OBVIOUS
  <2>3. Busy(r) = 0 BY <1>2, <2>2 DEF Busy, Some
  <2>4. PICK s \in Nat : s = source[r] BY DEF IInv, TypeOK
  <2>5. \/ source'[r] = s /\ Busy(r)' = 0 /\ Answered(r)' = {}
        \/ /\ source'[r] = s + 1 /\ Busy(r)' = 1
           /\ \E x : Answered(r)' = {x} /\ x.chunk = s
    <3>1. Busy(r)' = Some(Answered(r)') + 0 + 0 BY <1>2, <2>1, <2>2 DEF Busy
    <3>2. Busy(r)' = IF Answered(r)' = {} THEN 0 ELSE 1
      <4>1. CASE Answered(r)' = {}
        <5>1. Some(Answered(r)') = 0 BY <4>1 DEF Some
        <5>2. QED BY <3>1, <4>1, <5>1
      <4>2. CASE Answered(r)' # {}
        <5>1. Some(Answered(r)') = 1 BY <4>2 DEF Some
        <5>2. QED BY <3>1, <4>2, <5>1
      <4>3. QED BY <4>1, <4>2
    <3>3. CASE source'[r] = source[r] /\ Answered(r)' = {}
      BY <2>4, <3>2, <3>3
    <3>4. CASE /\ source'[r] = source[r] + 1
               /\ \E x : Answered(r)' = {x} /\ x.chunk = source[r]
      <4>1. Answered(r)' # {} BY <3>4
      <4>2. Busy(r)' = 1 BY <3>2, <4>1
      <4>3. QED BY <2>4, <3>4, <4>2
    <3>5. QED BY <1>4, <3>3, <3>4
  <2>6. WritesInv(r)' BY <1>1, <2>1, <2>5 DEF IInv, RequestsInv, WritesInv
  <2>7. Taken(r)' = Taken(r) /\ (Reading(r)' <=> Reading(r))
    BY <1>1, <1>2, <2>1 DEF Taken, Reading
  <2>8. ChunksInv(r) BY <1>1 DEF IInv, RequestsInv
  <2>9. ChunksInv(r)'
    <3>1. \A x \in Answered(r)' : x.chunk = source'[r] - 1 BY <2>5
    <3>2. Reading(r) /\ S(r).socket # "closed" =>
            source'[r] = Taken(r) + Len(C(r).inbox) + 1 + Busy(r)'
      <4> SUFFICES ASSUME Reading(r), S(r).socket # "closed"
                   PROVE  source'[r] = Taken(r) + Len(C(r).inbox) + 1 + Busy(r)'
        OBVIOUS
      <4>1. s = Taken(r) + Len(C(r).inbox) + 1 + 0 BY <2>3, <2>4, <2>8 DEF ChunksInv
      <4>2. PICK t \in Nat : t = Taken(r)
        <5>1. received[r] \in Nat BY FileAssumption DEF IInv, TypeOK
        <5>2. QED BY <5>1, SomeIs DEF Taken
      <4>3. PICK k \in Nat : k = Len(C(r).inbox)
        <5>1. C(r) \in EndState BY TypeOfEnds DEF IInv
        <5>2. QED BY <5>1, EndFacts
      <4>4. s = t + k + 1 BY <4>1, <4>2, <4>3
      <4>5. QED BY <2>5, <4>2, <4>3, <4>4
    <3>3. QED BY <1>1, <1>2, <2>1, <2>7, <2>8, <3>1, <3>2 DEF ChunksInv
  <2>10. QED BY <2>1, <2>6, <2>9 DEF RequestsInv
<1>7. QED BY <1>1, <1>2, <1>4, <1>5, <1>6, StepKept

-----------------------------------------------------------------------------
(* The dispatcher and responses.                                           *)

\* A response is popped.
LEMMA ResponsePopped ==
    ASSUME IInv, IdsKept, NEW n \in Node, Popped(n), ~Head(receive_queue[n]).t_flag
    PROVE  \E p \in Request :
             /\ p = Head(receive_queue[n]).request /\ n = Client[p]
             /\ Identified(Head(receive_queue[n]))
             /\ Head(receive_queue[n]) \in Answers(p)
             /\ ReceiveInv'
             /\ Answers(p)' \subseteq Answers(p)
             /\ p \in File => Answers(p)' = {}
             /\ \A q \in Request : Arrived(q)' = Arrived(q)
             /\ \A q \in Request : q # p => Answers(q)' = Answers(q)
<1>m. PICK m : m = Head(receive_queue[n]) OBVIOUS
<1>1. /\ receive_queue[n] # <<>> /\ ~m.t_flag
      /\ receive_queue' = [receive_queue EXCEPT ![n] = Tail(@)]
  BY <1>m DEF Popped
<1>2. /\ m \in Message /\ n = Receiver(m.request, m.t_flag) /\ Identified(m)
      /\ ReceiveInv'
      /\ m \in Answers(m.request)
      /\ Answers(m.request)' \subseteq Answers(m.request)
      /\ m.request \in File => Answers(m.request)' = {}
      /\ Arrived(m.request)' = Arrived(m.request)
      /\ \A q \in Request : q # m.request =>
           Arrived(q)' = Arrived(q) /\ Answers(q)' = Answers(q)
  BY <1>m, <1>1, ReceivePopped DEF IInv
<1>3. m.request \in Request BY <1>2 DEF Message
<1>4. n = Client[m.request] BY <1>1, <1>2 DEF Receiver
<1>5. QED BY <1>m, <1>2, <1>3, <1>4

\* What a response leaves of its request, and of one that it lets answer.
LEMMA AnswerKept ==
    ASSUME TypeOK, IdsKept, NEW r \in Request, RequestsInv(r), transaction_id' = transaction_id,
           session'[r] = session[r], source'[r] = source[r], received'[r] = received[r],
           Asked(r)' = Asked(r), Arrived(r)' = Arrived(r),
           Answers(r)' \subseteq Answers(r),
           r \in File => Answers(r)' = Answers(r) \/ Answers(r)' = {},
           object'[r]["server"] = "none" <=> object[r]["server"] = "none",
           Answered(r)' = Answered(r) \/ (r \notin File /\ object[r]["server"] # "none")
    PROVE  RequestsInv(r)'
<1>1. C(r)' = C(r) /\ S(r)' = S(r) BY DEF C, S
<1>2. CarriesInv(r)' BY <1>1, CarriesKept DEF RequestsInv, CarriesInv
<1>3. ConnectInv(r)' BY <1>1 DEF RequestsInv, ConnectInv
<1>4. RequestInv(r)'
  <2>1. UnderWay(r)' = UnderWay(r) BY <1>1 DEF UnderWay
  <2>2. QED BY <1>1, <2>1 DEF RequestsInv, RequestInv
<1>5. AnswerInv(r)' BY <1>1 DEF RequestsInv, AnswerInv
<1>6. WritesInv(r)'
  <2>1. r \in File => Busy(r)' = Busy(r) BY <1>1 DEF Busy
  <2>2. QED BY <1>1, <2>1 DEF RequestsInv, WritesInv
<1>7. ReadsInv(r)' BY <1>1 DEF RequestsInv, ReadsInv
<1>8. ASSUME r \in File PROVE ChunksInv(r)'
  <2>1. Busy(r)' = Busy(r) /\ Answered(r)' = Answered(r) BY <1>1, <1>8 DEF Busy
  <2>2. ChunksInv(r) /\ ReadsInv(r) BY <1>8 DEF RequestsInv
  <2>3. CASE Answers(r)' = Answers(r)
    <3>1. Taken(r)' = Taken(r) /\ (Reading(r)' <=> Reading(r))
      BY <1>1, <2>3 DEF Taken, Reading
    <3>2. QED BY <1>1, <2>1, <2>2, <2>3, <3>1 DEF ChunksInv
  <2>4. CASE Answers(r) # {} /\ Answers(r)' = {}
    <3>1. ~Reading(r)' BY <1>1, <1>8, <2>2, <2>4 DEF ReadsInv, Reading
    <3>2. QED BY <1>1, <2>1, <2>2, <2>4, <3>1 DEF ChunksInv
  <2>5. QED BY <1>8, <2>3, <2>4
<1>9. QED BY <1>2, <1>3, <1>4, <1>5, <1>6, <1>7, <1>8 DEF RequestsInv

\* A response without a handler is dropped, and one with a handler ends what
\* its request was made for.
LEMMA AnsweredKept ==
    ASSUME IInv, TypeOK', NEW n \in Node, Popped(n), ~Head(receive_queue[n]).t_flag,
           UNCHANGED <<identifiers, files, send_queue, session>>,
           \A k \in Node : active_handlers'[k] \subseteq active_handlers[k],
           \A q \in Request : object'[q]["server"] = object[q]["server"]
    PROVE  IInv'
<1>1. IdsInv' /\ IdsKept /\ transaction_id' = transaction_id
  <2>1. CausesKept BY DEF CausesKept, files
  <2>2. QED BY <2>1, IdsInvKept DEF IInv, identifiers
<1>2. PICK p \in Request :
        /\ ReceiveInv'
        /\ Answers(p)' \subseteq Answers(p)
        /\ p \in File => Answers(p)' = {}
        /\ \A q \in Request : Arrived(q)' = Arrived(q)
        /\ \A q \in Request : q # p => Answers(q)' = Answers(q)
  BY <1>1, ResponsePopped
<1>3. SendInv' /\ \A q \in Request : Asked(q)' = Asked(q) /\ Answered(q)' = Answered(q)
  BY <1>1, QueuesKept DEF IInv
<1>4. ASSUME NEW q \in Request PROVE RequestsInv(q)'
  <2>1. source'[q] = source[q] /\ received'[q] = received[q] BY DEF files
  <2>2. QED BY <1>1, <1>2, <1>3, <2>1, AnswerKept DEF IInv
<1>5. QED BY <1>1, <1>2, <1>3, <1>4 DEF IInv

LEMMA no_handlerKept ==
    ASSUME IInv, TypeOK', NEW n \in Node, no_handler(n)
    PROVE  IInv'
<1>1. /\ Popped(n) /\ ~Head(receive_queue[n]).t_flag
      /\ UNCHANGED <<identifiers, files, send_queue, session, object>>
  BY DEF no_handler
<1>2. \A k \in Node : active_handlers'[k] \subseteq active_handlers[k]
  BY DEF no_handler, IInv, TypeOK
<1>3. QED BY <1>1, <1>2, AnsweredKept

\* Handlers that are erased or dropped are gone.
LEMMA HandlersErased ==
    ASSUME TypeOK, NEW n \in Node, NEW r,
           active_handlers' = Erased(n, r) \/ active_handlers' = Pruned(n)
    PROVE  \A k \in Node : active_handlers'[k] \subseteq active_handlers[k]
<1>1. CASE active_handlers' = Pruned(n) BY <1>1 DEF Pruned, TypeOK
<1>2. CASE active_handlers' = Erased(n, r) BY <1>2 DEF Erased, Pruned, TypeOK
<1>3. QED BY <1>1, <1>2

LEMMA handle_responseKept ==
    ASSUME IInv, TypeOK', NEW n \in Node, NEW r \in Request, handle_response(n, r)
    PROVE  IInv'
<1>1. /\ Popped(n) /\ ~Head(receive_queue[n]).t_flag
      /\ UNCHANGED <<identifiers, files, send_queue, session>>
  BY DEF handle_response, Responded
<1>2. \A k \in Node : active_handlers'[k] \subseteq active_handlers[k]
  BY HandlersErased DEF handle_response, IInv
<1>3. \A q \in Request : object'[q]["server"] = object[q]["server"]
  BY TheEnds, ObjectChanged DEF IInv, handle_response
<1>4. QED BY <1>1, <1>2, <1>3, AnsweredKept

\* The handler of a response is that of its request.
LEMMA RespondedIs ==
    ASSUME IInv, NEW n \in Node, NEW p \in Request, n = Client[p],
           NEW m, m.request = p, ~m.t_flag, Identified(m),
           NEW h \in active_handlers[n], h.id = m.correlational_id
    PROVE  h.request = p
<1>1. h.request \in Request BY DEF IInv, TypeOK
<1>2. transaction_id[p] # 0 /\ transaction_id[p] = m.correlational_id
  BY DEF Identified
<1>3. Client[h.request] = n /\ h.id = transaction_id[h.request]
  BY DEF IInv, IdsInv
<1>4. QED BY <1>1, <1>2, <1>3 DEF IInv, IdsInv

\* A relay is answered, and with it the request that was forwarded.
LEMMA handle_forwarded_responseKept ==
    ASSUME IInv, TypeOK', NEW n \in Node, NEW r \in Request,
           handle_forwarded_response(n, r)
    PROVE  IInv'
<1>1. /\ IdsInv' /\ IdsKept /\ transaction_id' = transaction_id /\ session' = session
      /\ source' = source /\ received' = received
  <2>1. \A k \in Node : active_handlers'[k] \subseteq active_handlers[k]
    BY HandlersErased DEF IInv, handle_forwarded_response
  <2>2. CausesKept
    <3>1. PICK q \in Forwarded(r) : object' = With(<<q, "server">>, "done")
      BY DEF handle_forwarded_response
    <3>2. q \in Request BY <3>1 DEF Forwarded
    <3>3. \A x \in Request : object'[x]["server"] \in {object[x]["server"], "done"}
      BY <3>1, <3>2, TheEnds, ObjectChanged DEF IInv
    <3>4. QED BY <3>3 DEF CausesKept, Over, handle_forwarded_response, files
  <2>3. QED
    BY <2>1, <2>2, IdsInvKept DEF IInv, handle_forwarded_response, identifiers, files
<1>2. PICK p \in Request :
        /\ ReceiveInv'
        /\ Answers(p)' \subseteq Answers(p)
        /\ p \in File => Answers(p)' = {}
        /\ \A x \in Request : Arrived(x)' = Arrived(x)
        /\ \A x \in Request : x # p => Answers(x)' = Answers(x)
  BY <1>1, ResponsePopped DEF handle_forwarded_response, Responded
<1>3. PICK q \in Forwarded(r) :
        /\ object' = With(<<q, "server">>, "done")
        /\ send_queue' = Pushed(n, generate_response(request_(q), 0))
  BY DEF handle_forwarded_response
<1>4. q \in Request /\ q \notin File /\ Relayed[q] = r BY <1>3 DEF Forwarded
<1>5. Client[r] = n /\ transaction_id[r] # 0
  <2>1. PICK h \in active_handlers[n] : h.request = r
    BY DEF handle_forwarded_response, Responded, Handlers
  <2>2. QED BY <2>1 DEF IInv, IdsInv
<1>6. n = Server[q] BY <1>4, <1>5, RelayedAssumption
<1>7. object[q]["server"] # "none" /\ transaction_id[q] # 0
  <2>1. object[q]["server"] # "none"
    BY <1>4, <1>5, RelayedAssumption DEF IInv, RequestsInv, AnswerInv
  <2>2. S(q).socket # "none" BY <1>4, <2>1 DEF IInv, RequestsInv, RequestInv
  <2>3. QED BY <1>4, <2>1, <2>2 DEF IInv, RequestsInv, ConnectInv, NoSession
<1>9. /\ object'[q]["server"] = "done"
      /\ \A x \in Request : x # q => object'[x]["server"] = object[x]["server"]
  BY <1>3, <1>4, TheEnds, ObjectChanged DEF IInv
<1>8. /\ SendInv'
      /\ \A x \in Request : Asked(x)' = Asked(x)
      /\ \A x \in Request : x # q => Answered(x)' = Answered(x)
  <2>m. PICK m : m = request_(q) OBVIOUS
  <2>x. PICK x : x = generate_response(m, 0) OBVIOUS
  <2>0. 0 \in 0..Chunks BY FileAssumption
  <2>1. m \in Message /\ m.request = q /\ m.transaction_id = transaction_id[q]
    <3>1. transaction_id[q] \in Nat BY <1>4 DEF IInv, TypeOK
    <3>2. QED BY <2>m, <2>0, <1>4, <3>1 DEF request_, Request_message, Message
  <2>2. x \in Message /\ x.request = q /\ ~x.t_flag /\ Identified(x)'
    <3>1. TypeOK BY DEF IInv
    <3>2. object'[q]["server"] \in Over BY <1>9 DEF Over
    <3>3. QED BY <2>x, <2>0, <2>1, <3>1, <3>2, <1>1, <1>4, <1>7, Responses
  <2>3. send_queue' = Pushed(Server[q], x) BY <2>m, <2>x, <1>3, <1>6
  <2>4. QED BY <1>1, <1>4, <2>2, <2>3, ResponsePushed DEF IInv
<1>10. ASSUME NEW x \in Request PROVE RequestsInv(x)'
  BY <1>1, <1>2, <1>4, <1>7, <1>8, <1>9, AnswerKept DEF IInv
<1>11. QED BY <1>1, <1>2, <1>8, <1>10 DEF IInv

\* A chunk is written to the file, and the next one is read unless it was the
\* last.
LEMMA GetFile_handle_responseKept ==
    ASSUME IInv, TypeOK', NEW n \in Node, NEW r \in Request,
           GetFile_handle_response(n, r)
    PROVE  IInv'
<1>m. PICK m : m = Head(receive_queue[n]) OBVIOUS
<1>7. \A q \in Request : object'[q]["server"] = object[q]["server"]
  BY TheEnds, ObjectChanged DEF IInv, GetFile_handle_response
<1>1. /\ IdsInv' /\ IdsKept /\ transaction_id' = transaction_id /\ SendInv'
      /\ source' = source /\ r \in File
      /\ \A q \in Request : Asked(q)' = Asked(q) /\ Answered(q)' = Answered(q)
  <2>1. \A k \in Node : active_handlers'[k] \subseteq active_handlers[k]
    BY HandlersErased DEF IInv, GetFile_handle_response
  <2>0. CausesKept BY <1>7 DEF CausesKept, GetFile_handle_response
  <2>2. IdsInv' /\ IdsKept
    BY <2>0, <2>1, IdsInvKept DEF IInv, GetFile_handle_response
  <2>3. QED BY <2>2, QueuesKept DEF IInv, GetFile_handle_response, identifiers
<1>2. PICK p \in Request :
        /\ p = m.request /\ n = Client[p] /\ Identified(m) /\ m \in Answers(p)
        /\ ReceiveInv'
        /\ p \in File => Answers(p)' = {}
        /\ \A x \in Request : Arrived(x)' = Arrived(x)
        /\ \A x \in Request : x # p => Answers(x)' = Answers(x)
  BY <1>m, <1>1, ResponsePopped DEF GetFile_handle_response, Responded
<1>3. p = r
  <2>1. PICK h \in active_handlers[n] : h.request = r /\ h.id = m.correlational_id
    BY <1>m DEF GetFile_handle_response, Responded, Handlers
  <2>2. ~m.t_flag BY <1>2 DEF Answers, In
  <2>3. QED BY <1>2, <2>1, <2>2, RespondedIs
<1>4. RequestsInv(r) /\ ChunksInv(r) /\ m \in Answers(r) /\ Answers(r)' = {}
  BY <1>1, <1>2, <1>3 DEF IInv, RequestsInv
<1>5. received[r] \in Nat /\ m.chunk = received[r] + 1
  BY <1>4, FileAssumption DEF IInv, TypeOK, ChunksInv
<1>6. /\ received'[r] = received[r] + 1
      /\ \A q \in Request : q # r => received'[q] = received[q]
  BY <1>m, <1>5 DEF GetFile_handle_response, IInv, TypeOK
<1>8. /\ C(r).reads = 0 /\ object[r]["server"] # "none"
      /\ C(r).socket \notin {"none", "connecting"}
  <2>1. C(r).reads = 0 /\ object[r]["server"] # "none"
    BY <1>1, <1>4 DEF RequestsInv, ReadsInv, AnswerInv
  <2>2. S(r).socket # "none" BY <1>4, <2>1 DEF RequestsInv, RequestInv
  <2>3. QED BY <1>4, <2>1, <2>2 DEF RequestsInv, ConnectInv, NoSession
<1>9. /\ C(r) \in EndState /\ S(r)' = S(r)
      /\ C(r)' = C(r) \/ C(r)' = [C(r) EXCEPT !.reads = 1]
      /\ \A q \in Request : q # r => session'[q] = session[q]
  <2>1. C(r) \in EndState BY TypeOfEnds DEF IInv
  <2>2. CASE m.chunk < LastNeeded(r)
    <3>1. session' = [session EXCEPT ![r]["client"].reads = @ + 1]
      BY <1>m, <2>2 DEF GetFile_handle_response
    <3>2. session[r]["client"].reads = 0 BY <1>8 DEF C
    <3>3. QED BY <2>1, <3>1, <3>2, TheEnds DEF IInv, TypeOK, C, S
  <2>3. CASE ~(m.chunk < LastNeeded(r))
    <3>1. session' = session BY <1>m, <2>3 DEF GetFile_handle_response
    <3>2. QED BY <2>1, <3>1 DEF C, S
  <2>4. QED BY <2>2, <2>3
<1>10. /\ S(r)' = S(r) /\ C(r)'.socket = C(r).socket
       /\ C(r)'.posted = C(r).posted /\ C(r)'.packets = C(r).packets
       /\ C(r)'.writing = C(r).writing /\ C(r)'.inbox = C(r).inbox
       /\ C(r)'.reads \in {0, 1}
  BY <1>8, <1>9 DEF EndState
<1>11. ASSUME NEW q \in Request, q # r PROVE Untouched(q) /\ RelayKept(q)
  BY <1>1, <1>2, <1>3, <1>6, <1>7, <1>9, <1>11 DEF Untouched, RelayKept
<1>12. RequestsInv(r)'
  <2>1. CarriesInv(r)'
    BY <1>1, <1>4, <1>10, CarriesKept DEF RequestsInv, CarriesInv
  <2>2. ConnectInv(r)' BY <1>1, <1>4, <1>8, <1>10 DEF RequestsInv, ConnectInv, NoSession
  <2>3. RequestInv(r)'
    <3>1. UnderWay(r)' = UnderWay(r) BY <1>10 DEF UnderWay
    <3>2. QED BY <1>2, <1>4, <1>7, <1>10, <3>1 DEF RequestsInv, RequestInv
  <2>4. AnswerInv(r)' BY <1>7, <1>8 DEF AnswerInv
  <2>5. Busy(r)' = Busy(r) BY <1>1, <1>10 DEF Busy
  <2>6. WritesInv(r)' BY <1>4, <1>10, <2>5 DEF RequestsInv, WritesInv
  <2>7. ReadsInv(r)' BY <1>4, <1>10 DEF RequestsInv, ReadsInv
  <2>8. Taken(r) = received[r] + 1 /\ Taken(r)' = received[r] + 1
    BY <1>4, <1>5, <1>6 DEF Taken, Some
  <2>9. Reading(r)' => Reading(r) BY <1>4, <1>10 DEF Reading
  <2>10. ChunksInv(r)'
    <3>1. Taken(r)' = Taken(r) BY <2>8
    <3>2. QED BY <1>1, <1>4, <1>10, <2>5, <2>9, <3>1 DEF ChunksInv
  <2>11. QED BY <2>1, <2>2, <2>3, <2>4, <2>6, <2>7, <2>10 DEF RequestsInv
<1>13. QED BY <1>1, <1>2, <1>11, <1>12, StepKept

-----------------------------------------------------------------------------
(* The chunks of a file.                                                   *)

\* The on_write_handler sends the next chunk, or finds the object gone.
LEMMA on_writeKept ==
    ASSUME IInv, NEW r \in File, NEW failed, on_write(r, failed),
           transaction_id[r] # 0, source[r] # 0, Answered(r) = {}
    PROVE  /\ IdsInv' /\ IdsKept /\ transaction_id' = transaction_id
           /\ SendInv' /\ ReceiveInv' /\ received' = received
           /\ \A q \in Request : /\ Asked(q)' = Asked(q) /\ Arrived(q)' = Arrived(q)
                                 /\ Answers(q)' = Answers(q)
           /\ \A q \in Request :
                object'[q]["server"] = "none" <=> object[q]["server"] = "none"
           /\ \A q \in Request : q # r =>
                source'[q] = source[q] /\ Answered(q)' = Answered(q)
           /\ \/ source'[r] = source[r] /\ Answered(r)' = {}
              \/ /\ source'[r] = source[r] + 1
                 /\ \E x : Answered(r)' = {x} /\ x.chunk = source[r]
<1>1. r \in Request BY FileAssumption
<1>2. /\ IdsInv' /\ IdsKept /\ transaction_id' = transaction_id
      /\ ReceiveInv' /\ received' = received
      /\ \A q \in Request : Arrived(q)' = Arrived(q) /\ Answers(q)' = Answers(q)
  <2>1. \A k \in Node : active_handlers'[k] \subseteq active_handlers[k]
    BY ZenonT(40) DEF on_write, Pruned, IInv, TypeOK
  <2>0. CausesKept
    <3>1. ASSUME NEW q \in Request
          PROVE  1..(source[q] - 1) \subseteq 1..(source'[q] - 1)
      <4>1. source[q] \in Nat /\ source \in [Request -> Nat] BY DEF IInv, TypeOK
      <4>2. source' = source \/ source' = [source EXCEPT ![r] = @ + 1]
        BY DEF on_write, write_file
      <4>3. source'[q] = source[q] \/ source'[q] = source[q] + 1 BY <4>1, <4>2
      <4>4. QED BY <4>1, <4>3
    <3>2. \A q \in Request : object'[q]["server"] \in {object[q]["server"], "done"}
      BY <1>1, TheEnds, ObjectChanged DEF IInv, on_write
    <3>3. QED BY <3>1, <3>2 DEF CausesKept, Over
  <2>2. IdsInv' /\ IdsKept BY <2>0, <2>1, IdsInvKept DEF IInv, on_write
  <2>3. UNCHANGED receive_queue /\ transaction_id' = transaction_id /\ received' = received
    BY DEF on_write, identifiers
  <2>4. QED BY <2>2, <2>3, QueuesKept DEF IInv
<1>3. \A q \in Request :
        object'[q]["server"] = "none" <=> object[q]["server"] = "none"
  <2>1. CASE UNCHANGED object BY <2>1
  <2>2. CASE Alive(<<r, "server">>) /\ object' = With(<<r, "server">>, "done")
    <3>1. object[r]["server"] # "none" BY <2>2 DEF Alive
    <3>2. /\ object'[r]["server"] = "done"
          /\ \A q \in Request : q # r => object'[q]["server"] = object[q]["server"]
      BY <1>1, <2>2, TheEnds, ObjectChanged DEF IInv
    <3>3. QED BY <3>1, <3>2
  <2>3. QED BY <2>1, <2>2 DEF on_write
<1>4. CASE Alive(<<r, "server">>)
  <2>1. write_file(r) BY <1>4 DEF on_write
  <2>2. QED BY <1>2, <1>3, <2>1, write_fileKept DEF IInv
<1>5. CASE ~Alive(<<r, "server">>)
  <2>1. UNCHANGED <<send_queue, source>> BY <1>5 DEF on_write
  <2>2. SendInv' /\ \A q \in Request : Asked(q)' = Asked(q) /\ Answered(q)' = Answered(q)
    BY <1>2, <2>1, QueuesKept DEF IInv
  <2>3. QED BY <1>1, <1>2, <1>3, <2>1, <2>2
<1>6. QED BY <1>4, <1>5

\* A chunk leaves the socket, and arrives if somebody is to read it.
LEMMA ChunkGone ==
    ASSUME IInv, TypeOK', NEW r \in File, NEW failed, on_write(r, failed),
           S(r).writing # <<>>,
           S(r)' = [S(r) EXCEPT !.writing = Tail(S(r).writing)],
           \/ /\ S(r).socket # "closed"
              /\ C(r)' = [C(r) EXCEPT !.inbox = Append(C(r).inbox, Head(S(r).writing))]
           \/ /\ Reading(r) => S(r).socket = "closed"
              /\ C(r)' = [C(r) EXCEPT !.inbox = C(r).inbox],
           \A q \in Request : q # r => session'[q] = session[q]
    PROVE  IInv'
<1>1. r \in Request BY FileAssumption
<1>2. RequestsInv(r) /\ ChunksInv(r) /\ C(r) \in EndState /\ S(r) \in EndState
  BY <1>1, TypeOfEnds DEF IInv, RequestsInv
<1>3. /\ C(r).inbox \in Seq(Message) /\ S(r).posted \in Seq(Message)
      /\ S(r).writing \in Seq(Message)
  BY <1>2, EndFacts
<1>w. PICK messages \in Seq(Message) : messages = S(r).writing BY <1>3
<1>m. PICK m \in Message : m = Head(messages) /\ m = messages[1]
  <2>1. messages # <<>> BY <1>w
  <2>2. QED BY <2>1, Lengths
<1>4. m.request = r /\ m.t_flag = FALSE /\ Identified(m)
  <2>1. Carries(messages, r, FALSE) BY <1>2, <1>w DEF RequestsInv, CarriesInv
  <2>2. messages # <<>> BY <1>w
  <2>3. messages \in Seq(Message) BY <1>w
  <2>4. /\ Head(messages).request = r /\ Head(messages).t_flag = FALSE
        /\ Identified(Head(messages))
    BY <1>1, <2>1, <2>2, <2>3, CarriesTail
  <2>5. m = Head(messages) BY <1>m
  <2>6. QED BY <2>4, <2>5
<1>5. /\ Answered(r) = {} /\ S(r).posted = <<>> /\ Tail(S(r).writing) = <<>>
      /\ m.chunk = source[r] - 1 /\ object[r]["server"] # "none"
      /\ transaction_id[r] # 0 /\ source[r] # 0
  <2>1. Busy(r) <= 1 BY <1>2 DEF RequestsInv, WritesInv
  <2>2. Answered(r) = {} /\ S(r).posted = <<>> /\ Tail(S(r).writing) = <<>>
    BY <1>3, <2>1, SomeIs, AtMostOneBusy DEF Busy
  <2>3. S(r).writing[1] = m BY <1>w, <1>m
  <2>4. m.chunk = source[r] - 1 /\ object[r]["server"] # "none"
    BY <1>2, <2>3 DEF ChunksInv, RequestsInv, AnswerInv
  <2>5. m.chunk \in 1..(source[r] - 1) BY <1>4 DEF Identified, Caused
  <2>6. source[r] # 0 BY <1>1, <2>5 DEF IInv, TypeOK
  <2>7. QED BY <1>4, <2>2, <2>4, <2>6 DEF Identified
<1>6. /\ IdsInv' /\ IdsKept /\ transaction_id' = transaction_id
      /\ SendInv' /\ ReceiveInv' /\ received' = received
      /\ \A q \in Request : /\ Asked(q)' = Asked(q) /\ Arrived(q)' = Arrived(q)
                            /\ Answers(q)' = Answers(q)
      /\ \A q \in Request :
           object'[q]["server"] = "none" <=> object[q]["server"] = "none"
      /\ \A q \in Request : q # r =>
           source'[q] = source[q] /\ Answered(q)' = Answered(q)
      /\ \/ source'[r] = source[r] /\ Answered(r)' = {}
         \/ /\ source'[r] = source[r] + 1
            /\ \E x : Answered(r)' = {x} /\ x.chunk = source[r]
  BY <1>5, on_writeKept
<1>7. /\ S(r)'.socket = S(r).socket /\ S(r)'.reads = S(r).reads
      /\ S(r)'.posted = <<>> /\ S(r)'.packets = S(r).packets
      /\ S(r)'.writing = <<>> /\ S(r)'.inbox = S(r).inbox
      /\ C(r)'.socket = C(r).socket /\ C(r)'.reads = C(r).reads
      /\ C(r)'.posted = C(r).posted /\ C(r)'.packets = C(r).packets
      /\ C(r)'.writing = C(r).writing
      /\ \/ S(r).socket # "closed" /\ C(r)'.inbox = Append(C(r).inbox, m)
         \/ (Reading(r) => S(r).socket = "closed") /\ C(r)'.inbox = C(r).inbox
  <2>1. /\ S(r)'.socket = S(r).socket /\ S(r)'.reads = S(r).reads
        /\ S(r)'.posted = S(r).posted /\ S(r)'.packets = S(r).packets
        /\ S(r)'.writing = Tail(S(r).writing) /\ S(r)'.inbox = S(r).inbox
    BY <1>2 DEF EndState
  <2>2. m = Head(S(r).writing) BY <1>w, <1>m
  <2>3. CASE /\ S(r).socket # "closed"
             /\ C(r)' = [C(r) EXCEPT !.inbox = Append(C(r).inbox, Head(S(r).writing))]
    <3>1. C(r)' = [C(r) EXCEPT !.inbox = Append(C(r).inbox, m)] BY <2>2, <2>3
    <3>2. /\ C(r)'.socket = C(r).socket /\ C(r)'.reads = C(r).reads
          /\ C(r)'.posted = C(r).posted /\ C(r)'.packets = C(r).packets
          /\ C(r)'.writing = C(r).writing
          /\ C(r)'.inbox = Append(C(r).inbox, m)
      BY <1>2, <3>1 DEF EndState
    <3>3. S(r).socket # "closed" BY <2>3
    <3>4. QED BY <1>5, <2>1, <3>2, <3>3
  <2>4. CASE /\ Reading(r) => S(r).socket = "closed"
             /\ C(r)' = [C(r) EXCEPT !.inbox = C(r).inbox]
    <3>1. /\ C(r)'.socket = C(r).socket /\ C(r)'.reads = C(r).reads
          /\ C(r)'.posted = C(r).posted /\ C(r)'.packets = C(r).packets
          /\ C(r)'.writing = C(r).writing
          /\ C(r)'.inbox = C(r).inbox
      BY <1>2, <2>4 DEF EndState
    <3>2. Reading(r) => S(r).socket = "closed" BY <2>4
    <3>3. QED BY <1>5, <2>1, <3>1, <3>2
  <2>5. QED BY <2>3, <2>4
<1>8. ASSUME NEW q \in Request, q # r PROVE Untouched(q) /\ RelayKept(q)
  BY <1>6, <1>8 DEF Untouched, RelayKept
<1>9. PICK s \in Nat, b \in {0, 1} :
        /\ s = source[r] /\ source'[r] = s + b /\ Busy(r)' = b
        /\ \A x \in Answered(r)' : x.chunk = source'[r] - 1
  <2>1. PICK s \in Nat : s = source[r] BY <1>1 DEF IInv, TypeOK
  <2>2. Len(<<>>) = 0 OBVIOUS
  <2>3. Busy(r)' = Some(Answered(r)') + 0 + 0 BY <1>7, <2>2 DEF Busy
  <2>4. CASE source'[r] = source[r] /\ Answered(r)' = {}
    <3>1. Some(Answered(r)') = 0 BY <2>4 DEF Some
    <3>2. Busy(r)' = 0 BY <2>3, <3>1
    <3>3. QED BY <2>1, <2>4, <3>2
  <2>5. CASE /\ source'[r] = source[r] + 1
             /\ \E x : Answered(r)' = {x} /\ x.chunk = source[r]
    <3>1. Some(Answered(r)') = 1 BY <2>5 DEF Some
    <3>2. Busy(r)' = 1 BY <2>3, <3>1
    <3>3. \A x \in Answered(r)' : x.chunk = source'[r] - 1 BY <2>1, <2>5
    <3>4. source'[r] = s + 1 BY <2>1, <2>5
    <3>5. QED BY <2>1, <3>2, <3>3, <3>4
  <2>6. QED BY <1>6, <2>4, <2>5
<1>10. Busy(r) = 1
  <2>1. PICK k \in Nat : k = Len(S(r).writing) BY <1>3, Short
  <2>2. k >= 1 BY <1>3, <2>1, Short
  <2>3. Some(Answered(r)) = 0 BY <1>5 DEF Some
  <2>4. Len(<<>>) = 0 OBVIOUS
  <2>5. Busy(r) = 0 + 0 + k BY <1>5, <2>1, <2>3, <2>4 DEF Busy
  <2>6. Busy(r) = k BY <2>5
  <2>7. Busy(r) <= 1 BY <1>2 DEF RequestsInv, WritesInv
  <2>8. k = 1 BY <2>2, <2>6, <2>7
  <2>9. QED BY <2>6, <2>8
<1>11. RequestsInv(r)'
  <2>1. CarriesInv(r)'
    <3>i. PICK inbox : inbox = C(r)'.inbox OBVIOUS
    <3>1. Carries(inbox, r, FALSE)
      <4>1. Carries(C(r).inbox, r, FALSE) BY <1>2 DEF RequestsInv, CarriesInv
      <4>2. Carries(Append(C(r).inbox, m), r, FALSE)
        <5>1. m \in Message /\ C(r).inbox \in Seq(Message) BY <1>m, <1>3
        <5>2. QED BY <1>1, <1>4, <4>1, <5>1, CarriesAppended
      <4>3. inbox \in {C(r).inbox, Append(C(r).inbox, m)} BY <1>7, <3>i
      <4>4. QED BY <4>1, <4>2, <4>3
    <3>2. IdsKept BY <1>6
    <3>3. Carries(C(r).inbox, r, FALSE)'
      <4>1. Carries(inbox, r, FALSE)' BY <1>1, <3>1, <3>2, CarriesKept
      <4>2. QED BY <3>i, <4>1
    <3>4. /\ Carries(C(r).posted, r, TRUE) /\ Carries(C(r).packets, r, TRUE)
          /\ Carries(C(r).writing, r, TRUE)
          /\ Carries(S(r).packets, r, FALSE) /\ Carries(S(r).inbox, r, TRUE)
      BY <1>2 DEF RequestsInv, CarriesInv
    <3>5. /\ Carries(C(r).posted, r, TRUE)' /\ Carries(C(r).packets, r, TRUE)'
          /\ Carries(C(r).writing, r, TRUE)'
      <4>1. /\ C(r)'.posted = C(r).posted /\ C(r)'.packets = C(r).packets
            /\ C(r)'.writing = C(r).writing
        BY <1>7
      <4>2. QED BY <1>1, <3>2, <3>4, <4>1, CarriesKept
    <3>6. Carries(S(r).packets, r, FALSE)' /\ Carries(S(r).inbox, r, TRUE)'
      BY <1>1, <1>7, <3>2, <3>4, CarriesKept
    <3>7. Carries(S(r).posted, r, FALSE)' /\ Carries(S(r).writing, r, FALSE)'
      BY ZenonT(40), <1>7, NoMessages
    <3>8. QED BY <3>3, <3>5, <3>6, <3>7 DEF CarriesInv
  <2>2. ConnectInv(r)'
    <3>1. S(r) # NoSession BY DEF NoSession
    <3>2. C(r).socket \notin {"none", "connecting"} /\ S(r).socket # "none"
      BY <1>2, <3>1 DEF RequestsInv, ConnectInv
    <3>3. Asked(r)' = {} /\ transaction_id'[r] # 0
      BY <1>1, <1>2, <1>5, <1>6, <3>2 DEF RequestsInv, ConnectInv, NoSession
    <3>4. QED BY <1>7, <3>2, <3>3 DEF ConnectInv
  <2>3. RequestInv(r)'
    <3>1. UnderWay(r)' = UnderWay(r) BY <1>7 DEF UnderWay
    <3>2. QED BY <1>1, <1>2, <1>6, <1>7, <3>1 DEF RequestsInv, RequestInv
  <2>4. AnswerInv(r)' BY <1>1, <1>5, <1>6 DEF AnswerInv
  <2>5. WritesInv(r)' BY <1>2, <1>7, <1>9 DEF RequestsInv, WritesInv
  <2>6. ReadsInv(r)' BY <1>1, <1>2, <1>6, <1>7 DEF RequestsInv, ReadsInv
  <2>7. Taken(r)' = Taken(r) /\ (Reading(r)' <=> Reading(r))
    BY <1>1, <1>6, <1>7 DEF Taken, Reading
  <2>8. ASSUME Reading(r)
        PROVE  /\ \A i \in 1..Len(C(r)'.inbox) : C(r)'.inbox[i].chunk = Taken(r) + i
               /\ S(r)'.socket # "closed" =>
                    source'[r] = Taken(r) + Len(C(r)'.inbox) + 1 + Busy(r)'
    <3>t. PICK t \in Nat : t = Taken(r)
      <4>1. received[r] \in Nat BY <1>1, FileAssumption DEF IInv, TypeOK
      <4>2. QED BY <4>1, SomeIs DEF Taken
    <3>k. PICK k \in Nat : k = Len(C(r).inbox) BY <1>3, Short
    <3>1. \A i \in 1..k : C(r).inbox[i].chunk = t + i
      BY <1>2, <2>8, <3>t, <3>k DEF ChunksInv
    <3>2. CASE C(r)'.inbox = C(r).inbox /\ S(r).socket = "closed"
      BY <1>7, <3>1, <3>2, <3>t, <3>k
    <3>3. CASE S(r).socket # "closed" /\ C(r)'.inbox = Append(C(r).inbox, m)
      <4>1. s = t + k + 1 + 1 BY <1>2, <1>9, <1>10, <2>8, <3>3, <3>t, <3>k DEF ChunksInv
      <4>2. m.chunk = t + (k + 1) BY <1>5, <1>9, <4>1
      <4>i. PICK inbox : inbox = C(r)'.inbox OBVIOUS
      <4>3. /\ Len(inbox) = k + 1 /\ inbox[k + 1] = m
            /\ \A i \in 1..k : inbox[i] = C(r).inbox[i]
        BY <1>3, <3>3, <3>k, <4>i, AppendedLength
      <4>4. \A i \in 1..(k + 1) : inbox[i].chunk = t + i
        <5> TAKE i \in 1..(k + 1)
        <5>1. CASE i \in 1..k BY <5>1, <3>1, <4>3
        <5>2. CASE i = k + 1 BY <5>2, <4>2, <4>3
        <5>3. QED BY <5>1, <5>2
      <4>5. source'[r] = t + (k + 1) + 1 + b BY <1>9, <4>1
      <4>6. QED BY <1>9, <3>t, <4>i, <4>3, <4>4, <4>5
    <3>4. QED BY <1>7, <2>8, <3>2, <3>3
  <2>9. ChunksInv(r)'
    <3>1. \A x \in Answers(r)' : x.chunk = received'[r] + 1
      BY <1>1, <1>2, <1>6 DEF ChunksInv
    <3>2. QED BY <1>7, <1>9, <2>7, <2>8, <3>1 DEF ChunksInv
  <2>10. QED BY <2>1, <2>2, <2>3, <2>4, <2>5, <2>6, <2>9 DEF RequestsInv
<1>12. QED BY <1>1, <1>6, <1>8, <1>11, StepKept

\* Somebody who is to read a chunk keeps his end open.
LEMMA ReaderIsThere ==
    ASSUME IInv, NEW r \in Request, Reading(r)
    PROVE  ~PeerGone(r, "server")
<1>1. receive_queue[Client[r]] \in Seq(Message) BY Nodes DEF IInv, TypeOK
<1>2. Answers(r) # {} => Queued(receive_queue[NodeAt(r, "client")], r, FALSE)
  BY <1>1, QueuedIn DEF Answers, NodeAt
<1>3. Referenced(r, "client") BY <1>2 DEF Referenced, Reading, C
<1>4. Open(r, "client") BY <1>3 DEF Open, Reading, C
<1>5. QED BY <1>4 DEF PeerGone, Other

\* A chunk is written.
LEMMA chunk_writtenKept ==
    ASSUME IInv, TypeOK', NEW r \in Request, chunk_written(r)
    PROVE  IInv'
<1>1. /\ r \in File /\ on_write(r, FALSE)
      /\ S(r).writing # <<>> /\ S(r).socket = "open"
      /\ session' = Delivered(r, "server", [S(r) EXCEPT !.writing = Tail(S(r).writing)])
  <2>1. S(r) \in EndState BY TypeOfEnds DEF IInv
  <2>2. QED BY <2>1 DEF chunk_written, S, EndState
<1>2. /\ S(r)' = [S(r) EXCEPT !.writing = Tail(S(r).writing)]
      /\ \/ /\ PeerGone(r, "server")
            /\ C(r)' = [C(r) EXCEPT !.inbox = C(r).inbox]
         \/ C(r)' = [C(r) EXCEPT !.inbox = Append(C(r).inbox, Head(S(r).writing))]
      /\ \A q \in Request : q # r => session'[q] = session[q]
  BY <1>1, TheEnds, DeliveredEnds DEF IInv
<1>3. QED BY <1>1, <1>2, ReaderIsThere, ChunkGone

\* A chunk is lost with the connection.
LEMMA chunk_failedKept ==
    ASSUME IInv, TypeOK', NEW r \in Request, chunk_failed(r)
    PROVE  IInv'
<1>1. C(r) \in EndState /\ S(r) \in EndState BY TypeOfEnds DEF IInv
<1>2. /\ r \in File /\ on_write(r, TRUE) /\ S(r).writing # <<>>
      /\ S(r).socket = "closed" \/ PeerGone(r, "server")
      /\ SetEnd(r, "server", [S(r) EXCEPT !.writing = Tail(S(r).writing)])
  BY <1>1 DEF chunk_failed, S, EndState
<1>3. /\ S(r)' = [S(r) EXCEPT !.writing = Tail(S(r).writing)] /\ C(r)' = C(r)
      /\ \A q \in Request : q # r => session'[q] = session[q]
  BY <1>2, TheEnds, EndIsSet DEF IInv
<1>4. C(r) = [C(r) EXCEPT !.inbox = C(r).inbox] BY <1>1 DEF EndState
<1>5. QED BY <1>2, <1>3, <1>4, ReaderIsThere, ChunkGone

-----------------------------------------------------------------------------
(* A process is killed.                                                    *)

Closed == [NoSession EXCEPT !.socket = "closed"]

\* The ends of its sessions are closed.
LEMMA CrashedEnds ==
    ASSUME TypeOK, NEW n \in Node, crash(n), NEW r \in Request
    PROVE  /\ Client[r] = n /\ C(r).socket # "none" => C(r)' = Closed
           /\ ~(Client[r] = n /\ C(r).socket # "none") => C(r)' = C(r)
           /\ Server[r] = n /\ S(r).socket # "none" => S(r)' = Closed
           /\ ~(Server[r] = n /\ S(r).socket # "none") => S(r)' = S(r)
           /\ object'[r]["server"] = "none" <=> object[r]["server"] = "none"
           /\ object[r]["server"] \in Over => object'[r]["server"] \in Over
<1>1. "client" \in End /\ "server" \in End BY TheEnds
<1>2. /\ NodeAt(r, "client") = Client[r] /\ NodeAt(r, "server") = Server[r] BY DEF NodeAt
<1>3. session'[r] = [e \in End |->
        IF NodeAt(r, e) = n /\ session[r][e].socket # "none"
        THEN [NoSession EXCEPT !.socket = "closed"] ELSE session[r][e]]
  BY DEF crash
<1>4. /\ C(r)' = IF Client[r] = n /\ C(r).socket # "none" THEN Closed ELSE C(r)
      /\ S(r)' = IF Server[r] = n /\ S(r).socket # "none" THEN Closed ELSE S(r)
  BY <1>1, <1>2, <1>3 DEF C, S, Closed
<1>5. object'[r]["server"] =
        IF Server[r] = n /\ Alive(<<r, "server">>) THEN "gone" ELSE object[r]["server"]
  BY <1>1, <1>2 DEF crash
<1>6. Alive(<<r, "server">>) => object[r]["server"] # "none" BY DEF Alive
<1>7. QED BY <1>4, <1>5, <1>6 DEF Over

\* Its queues are gone.
LEMMA CrashedQueues ==
    ASSUME IInv, NEW n \in Node, crash(n)
    PROVE  /\ IdsInv' /\ IdsKept /\ SendInv' /\ ReceiveInv'
           /\ \A r \in Request :
                /\ Asked(r)' = IF Client[r] = n THEN {} ELSE Asked(r)
                /\ Arrived(r)' = IF Server[r] = n THEN {} ELSE Arrived(r)
                /\ Answered(r)' = IF Server[r] = n THEN {} ELSE Answered(r)
                /\ Answers(r)' = IF Client[r] = n THEN {} ELSE Answers(r)
<1>1. IdsInv' /\ IdsKept
  <2>1. \A k \in Node : active_handlers'[k] \subseteq active_handlers[k]
    BY DEF crash, IInv, TypeOK
  <2>2. CausesKept
    BY CrashedEnds DEF CausesKept, IInv, crash, files
  <2>3. QED BY <2>1, <2>2, IdsInvKept DEF IInv, crash
<1>2. \A k \in Node :
        /\ send_queue'[k] = IF k = n THEN <<>> ELSE send_queue[k]
        /\ receive_queue'[k] = IF k = n THEN <<>> ELSE receive_queue[k]
  BY DEF crash, IInv, TypeOK
<1>3. \A k \in Node, r \in Request, f \in BOOLEAN :
        \A m \in In(send_queue[k], r, f) \cup In(receive_queue[k], r, f) :
          Identified(m) => Identified(m)'
  BY <1>1, StaysIdentified DEF In
<1>4. SendInv'
  <2> SUFFICES ASSUME NEW k \in Node
               PROVE  /\ Unique(send_queue[k])'
                      /\ \A r \in Request, f \in BOOLEAN :
                           /\ In(send_queue[k], r, f)' # {} => k = Sender(r, f)
                           /\ \A m \in In(send_queue[k], r, f)' : Identified(m)'
    BY DEF SendInv
  <2>1. CASE k = n
    <3>1. send_queue'[k] = <<>> BY <1>2, <2>1
    <3>2. Unique(send_queue'[k]) /\ \A r, f : In(send_queue'[k], r, f) = {}
      BY <3>1, EmptyQueue
    <3>3. QED BY <3>2
  <2>2. CASE k # n
    <3>1. send_queue'[k] = send_queue[k] BY <1>2, <2>2
    <3>2. QED BY <1>3, <3>1 DEF IInv, SendInv
  <2>3. QED BY <2>1, <2>2
<1>5. ReceiveInv'
  <2> SUFFICES ASSUME NEW k \in Node
               PROVE  /\ Unique(receive_queue[k])'
                      /\ \A r \in Request, f \in BOOLEAN :
                           /\ In(receive_queue[k], r, f)' # {} => k = Receiver(r, f)
                           /\ \A m \in In(receive_queue[k], r, f)' : Identified(m)'
    BY DEF ReceiveInv
  <2>1. CASE k = n
    <3>1. receive_queue'[k] = <<>> BY <1>2, <2>1
    <3>2. Unique(receive_queue'[k]) /\ \A r, f : In(receive_queue'[k], r, f) = {}
      BY <3>1, EmptyQueue
    <3>3. QED BY <3>2
  <2>2. CASE k # n
    <3>1. receive_queue'[k] = receive_queue[k] BY <1>2, <2>2
    <3>2. QED BY <1>3, <3>1 DEF IInv, ReceiveInv
  <2>3. QED BY <2>1, <2>2
<1>6. ASSUME NEW r \in Request
      PROVE  /\ Asked(r)' = IF Client[r] = n THEN {} ELSE Asked(r)
             /\ Arrived(r)' = IF Server[r] = n THEN {} ELSE Arrived(r)
             /\ Answered(r)' = IF Server[r] = n THEN {} ELSE Answered(r)
             /\ Answers(r)' = IF Client[r] = n THEN {} ELSE Answers(r)
  <2>1. Client[r] \in Node /\ Server[r] \in Node BY Nodes
  <2>2. \A f : In(<<>>, r, f) = {} BY EmptyQueue
  <2>3. Asked(r)' = IF Client[r] = n THEN {} ELSE Asked(r)
    BY <1>2, <2>1, <2>2 DEF Asked
  <2>4. Arrived(r)' = IF Server[r] = n THEN {} ELSE Arrived(r)
    BY <1>2, <2>1, <2>2 DEF Arrived
  <2>5. Answered(r)' = IF Server[r] = n THEN {} ELSE Answered(r)
    BY <1>2, <2>1, <2>2 DEF Answered
  <2>6. Answers(r)' = IF Client[r] = n THEN {} ELSE Answers(r)
    BY <1>2, <2>1, <2>2 DEF Answers
  <2>7. QED BY <2>3, <2>4, <2>5, <2>6
<1>7. QED BY <1>1, <1>4, <1>5, <1>6

\* The requests of a process that is killed are as a request may be.
LEMMA CrashedRequest ==
    ASSUME IInv, TypeOK', NEW n \in Node, crash(n), NEW r \in Request
    PROVE  RequestsInv(r)'
<1>1. /\ RequestsInv(r) /\ C(r) \in EndState /\ S(r) \in EndState
      /\ transaction_id' = transaction_id /\ source' = source /\ received' = received
  BY TypeOfEnds DEF IInv, crash, identifiers, files
<1>2. /\ C(r)' = C(r) \/ C(r)' = Closed
      /\ S(r)' = S(r) \/ S(r)' = Closed
      /\ C(r).socket = "none" => C(r)' = C(r)
      /\ S(r).socket = "none" => S(r)' = S(r)
      /\ C(r).socket # "none" /\ C(r)' # Closed => Client[r] # n
      /\ S(r).socket # "none" /\ S(r)' # Closed => Server[r] # n
      /\ object'[r]["server"] = "none" <=> object[r]["server"] = "none"
  BY CrashedEnds DEF IInv
<1>3. /\ IdsKept
      /\ Asked(r)' = Asked(r) \/ Asked(r)' = {}
      /\ Arrived(r)' = Arrived(r) \/ Arrived(r)' = {}
      /\ Answered(r)' = Answered(r) \/ Answered(r)' = {}
      /\ Answers(r)' = Answers(r) \/ Answers(r)' = {}
      /\ Client[r] # n => Answers(r)' = Answers(r)
      /\ Server[r] # n => Answered(r)' = Answered(r)
  BY CrashedQueues
<1>4. /\ Closed.socket = "closed" /\ Closed.reads = 0 /\ Closed.posted = <<>>
      /\ Closed.packets = <<>> /\ Closed.writing = <<>> /\ Closed.inbox = <<>>
      /\ Len(<<>>) = 0
  BY DEF Closed, NoSession
<1>5. CarriesInv(r)'
  <2>1. CASE C(r)' = C(r)
    <3>1. /\ Carries(C(r).posted, r, TRUE)' /\ Carries(C(r).packets, r, TRUE)'
          /\ Carries(C(r).writing, r, TRUE)' /\ Carries(C(r).inbox, r, FALSE)'
      BY <1>1, <1>3, <2>1, CarriesKept DEF RequestsInv, CarriesInv
    <3>2. CASE S(r)' = S(r)
      <4>1. /\ Carries(S(r).posted, r, FALSE)' /\ Carries(S(r).packets, r, FALSE)'
            /\ Carries(S(r).writing, r, FALSE)' /\ Carries(S(r).inbox, r, TRUE)'
        BY <1>1, <1>3, <3>2, CarriesKept DEF RequestsInv, CarriesInv
      <4>2. QED BY <3>1, <4>1 DEF CarriesInv
    <3>3. CASE S(r)' = Closed BY <1>4, <3>1, <3>3, NoMessages DEF CarriesInv
    <3>4. QED BY <1>2, <3>2, <3>3
  <2>2. CASE C(r)' = Closed
    <3>1. CASE S(r)' = S(r)
      <4>1. /\ Carries(S(r).posted, r, FALSE)' /\ Carries(S(r).packets, r, FALSE)'
            /\ Carries(S(r).writing, r, FALSE)' /\ Carries(S(r).inbox, r, TRUE)'
        BY <1>1, <1>3, <3>1, CarriesKept DEF RequestsInv, CarriesInv
      <4>2. QED BY <1>4, <2>2, <4>1, NoMessages DEF CarriesInv
    <3>2. CASE S(r)' = Closed BY <1>4, <2>2, <3>2, NoMessages DEF CarriesInv
    <3>3. QED BY <1>2, <3>1, <3>2
  <2>3. QED BY <1>2, <2>1, <2>2
<1>6. ConnectInv(r)'
  <2>1. C(r)'.socket \in {"none", "connecting"} => C(r)' = C(r) BY <1>2, <1>4
  <2>2. S(r)'.socket = "none" => S(r)' = S(r) BY <1>2, <1>4
  <2>3. NoSession.socket = "none" BY DEF NoSession
  <2>4. ConnectInv(r) BY <1>1 DEF RequestsInv
  <2>5. C(r) = NoSession => C(r)' = NoSession BY <1>2, <2>3
  <2>6. S(r) = NoSession => S(r)' = NoSession BY <1>2, <2>3
  <2>7. S(r)'.socket = "none" => C(r)'.posted = <<>> /\ C(r)'.packets = <<>>
    BY <1>2, <1>4, <2>2, <2>4 DEF ConnectInv
  <2>8. QED BY <1>1, <1>3, <2>1, <2>2, <2>4, <2>5, <2>6, <2>7 DEF ConnectInv
<1>7. RequestInv(r)'
  <2>p. PICK p \in Nat : p = Len(C(r).posted) BY <1>1, EndFacts
  <2>k. PICK k \in Nat : k = Len(C(r).packets) BY <1>1, EndFacts
  <2>i. PICK i \in Nat : i = Len(S(r).inbox) BY <1>1, EndFacts
  <2>1. UnderWay(r) = p + k + i BY <2>p, <2>k, <2>i DEF UnderWay
  <2>2. UnderWay(r)' \in {p + k + i, i, p + k, 0}
    <3>1. CASE C(r)' = C(r) /\ S(r)' = S(r) BY <2>1, <3>1 DEF UnderWay
    <3>2. CASE C(r)' = Closed /\ S(r)' = S(r)
      <4>1. UnderWay(r)' = 0 + 0 + i BY <1>4, <2>i, <3>2 DEF UnderWay
      <4>2. QED BY <4>1
    <3>3. CASE C(r)' = C(r) /\ S(r)' = Closed
      <4>1. UnderWay(r)' = p + k + 0 BY <1>4, <2>p, <2>k, <3>3 DEF UnderWay
      <4>2. QED BY <4>1
    <3>4. CASE C(r)' = Closed /\ S(r)' = Closed
      <4>1. UnderWay(r)' = 0 + 0 + 0 BY <1>4, <3>4 DEF UnderWay
      <4>2. QED BY <4>1
    <3>5. QED BY <1>2, <3>1, <3>2, <3>3, <3>4
  <2>3. p + k + i <= 1 BY <1>1, <2>1 DEF RequestsInv, RequestInv
  <2>4. UnderWay(r)' <= 1 /\ (UnderWay(r) = 0 => UnderWay(r)' = 0)
    BY <2>1, <2>2, <2>3
  <2>5. S(r).socket \in {"open", "closed"} => S(r)'.socket \in {"open", "closed"}
    BY <1>2, <1>4
  <2>6. RequestInv(r) BY <1>1 DEF RequestsInv
  <2>7. Arrived(r)' # {} => Arrived(r) # {} BY <1>3
  <2>8. QED BY <1>2, <2>4, <2>5, <2>6, <2>7 DEF RequestInv
<1>8. AnswerInv(r)'
  <2>1. AnswerInv(r) BY <1>1 DEF RequestsInv
  <2>2. SUFFICES ASSUME object[r]["server"] = "none" PROVE AnswerInv(r)'
    BY <1>2 DEF AnswerInv
  <2>3. S(r)'.posted = <<>> /\ S(r)'.packets = <<>> /\ S(r)'.writing = <<>>
    BY <1>2, <1>4, <2>1, <2>2 DEF AnswerInv
  <2>4. C(r)'.inbox = <<>> BY <1>2, <1>4, <2>1, <2>2 DEF AnswerInv
  <2>5. Answered(r)' = {} /\ Answers(r)' = {} BY <1>3, <2>1, <2>2 DEF AnswerInv
  <2>6. QED BY <1>1, <2>1, <2>2, <2>3, <2>4, <2>5 DEF AnswerInv
<1>9. Busy(r)' <= Busy(r) /\ Busy(r) \in Nat /\ Busy(r)' \in Nat
  <2>p. PICK p \in Nat : p = Len(S(r).posted) BY <1>1, EndFacts
  <2>k. PICK k \in Nat : k = Len(S(r).writing) BY <1>1, EndFacts
  <2>a. PICK a \in {0, 1} : a = Some(Answered(r)) BY SomeIs
  <2>b. PICK b \in {0, 1} : b = Some(Answered(r)') BY SomeIs
  <2>1. b <= a
    <3>1. Answered(r) = {} => Answered(r)' = {} BY <1>3
    <3>2. a = 0 => b = 0 BY <2>a, <2>b, <3>1, SomeIs
    <3>3. QED BY <3>2
  <2>2. Busy(r) = a + p + k BY <2>a, <2>p, <2>k DEF Busy
  <2>3. CASE S(r)' = S(r)
    <3>1. Busy(r)' = b + p + k BY <2>b, <2>p, <2>k, <2>3 DEF Busy
    <3>2. QED BY <2>1, <2>2, <3>1
  <2>4. CASE S(r)' = Closed
    <3>1. Busy(r)' = b + 0 + 0 BY <1>4, <2>b, <2>4 DEF Busy
    <3>2. QED BY <2>1, <2>2, <3>1
  <2>5. QED BY <1>2, <2>3, <2>4
<1>10. WritesInv(r)'
  <2>1. WritesInv(r) BY <1>1 DEF RequestsInv
  <2>2. Len(C(r)'.writing) <= 1 /\ (C(r)'.writing # <<>> => C(r)'.packets # <<>>)
    BY <1>2, <1>4, <2>1 DEF WritesInv
  <2>3. r \notin File =>
          Len(S(r)'.writing) <= 1 /\ (S(r)'.writing # <<>> => S(r)'.packets # <<>>)
    BY <1>2, <1>4, <2>1 DEF WritesInv
  <2>4. r \in File => Busy(r) <= 1 BY <2>1 DEF WritesInv
  <2>5. r \in File => Busy(r)' <= 1 BY <1>9, <2>4
  <2>6. QED BY <2>2, <2>3, <2>5 DEF WritesInv
<1>11. ReadsInv(r)'
  <2>1. ReadsInv(r) BY <1>1 DEF RequestsInv
  <2>2. C(r)'.reads <= 1 BY <1>2, <1>4, <2>1 DEF ReadsInv
  <2>3. S(r)'.reads <= 1 BY <1>2, <1>4, <2>1 DEF ReadsInv
  <2>4. ASSUME r \in File, Answers(r)' # {} PROVE C(r)'.reads = 0
    <3>1. Answers(r) # {} BY <1>3, <2>4
    <3>2. C(r).reads = 0 BY <2>1, <2>4, <3>1 DEF ReadsInv
    <3>3. QED BY <1>2, <1>4, <3>2
  <2>5. QED BY <2>2, <2>3, <2>4 DEF ReadsInv
<1>12. ASSUME r \in File PROVE ChunksInv(r)'
  <2>1. ChunksInv(r) /\ AnswerInv(r) /\ RequestInv(r) /\ ConnectInv(r)
    BY <1>1, <1>12 DEF RequestsInv
  <2>2. /\ \A x \in Answers(r)' : x.chunk = received'[r] + 1
        /\ \A x \in Answered(r)' : x.chunk = source'[r] - 1
    BY <1>1, <1>3, <2>1 DEF ChunksInv
  <2>3. /\ S(r)'.posted # <<>> => S(r)'.posted[1].chunk = source'[r] - 1
        /\ S(r)'.writing # <<>> => S(r)'.writing[1].chunk = source'[r] - 1
    BY <1>1, <1>2, <1>4, <2>1 DEF ChunksInv
  <2>4. ASSUME Reading(r)'
        PROVE  /\ C(r)' = C(r) /\ Answers(r)' = Answers(r)
               /\ Taken(r)' = Taken(r) /\ Reading(r)
    <3>1. C(r)'.socket = "open" BY <2>4 DEF Reading
    <3>2. C(r)' = C(r) /\ Client[r] # n BY <1>2, <1>4, <3>1
    <3>3. Answers(r)' = Answers(r) BY <1>3, <3>2
    <3>4. Taken(r)' = Taken(r) BY <1>1, <3>3 DEF Taken
    <3>5. Reading(r) BY <2>4, <3>2, <3>3 DEF Reading
    <3>6. QED BY <3>2, <3>3, <3>4, <3>5
  <2>5. ASSUME Reading(r)', S(r)'.socket # "closed" PROVE Busy(r)' = Busy(r)
    <3>1. S(r)' = S(r) BY <1>2, <1>4, <2>5
    <3>2. Answered(r)' = Answered(r)
      <4>1. CASE Server[r] # n BY <1>3, <4>1
      <4>2. CASE S(r).socket = "none"
        <5>1. object[r]["server"] = "none" BY <2>1, <4>2 DEF RequestInv
        <5>2. Answered(r) = {} BY <2>1, <5>1 DEF AnswerInv
        <5>3. QED BY <1>3, <5>2
      <4>3. S(r)' # Closed BY <1>4, <2>5
      <4>4. QED BY <1>2, <4>1, <4>2, <4>3
    <3>3. QED BY <3>1, <3>2 DEF Busy
  <2>6. Reading(r)' =>
          \A i \in 1..Len(C(r)'.inbox) : C(r)'.inbox[i].chunk = Taken(r)' + i
    BY <2>1, <2>4 DEF ChunksInv
  <2>7. ASSUME Reading(r)', S(r)'.socket # "closed"
        PROVE  source'[r] = Taken(r)' + Len(C(r)'.inbox) + 1 + Busy(r)'
    <3>1. S(r).socket # "closed" BY <1>2, <1>4, <2>7
    <3>2. QED BY <1>1, <2>1, <2>4, <2>5, <2>7, <3>1 DEF ChunksInv
  <2>8. QED BY <2>2, <2>3, <2>6, <2>7 DEF ChunksInv
<1>13. QED
  BY <1>5, <1>6, <1>7, <1>8, <1>10, <1>11, <1>12 DEF RequestsInv

\* A process is killed.
LEMMA crashKept ==
    ASSUME IInv, TypeOK', NEW n \in Node, crash(n)
    PROVE  IInv'
  BY CrashedQueues, CrashedRequest DEF IInv

-----------------------------------------------------------------------------
(* Types.                                                                  *)

Sessions_type == [Request -> [End -> EndState]]
Queues_type == [Node -> Seq(Message)]
Objects_type == [Request -> [End -> {"none", "waiting", "done", "gone"}]]
Handlers_type == [Node -> SUBSET [id : Nat, request : Request]]

\* The messages that are made.
LEMMA MessageTypes ==
    ASSUME NEW r \in Request, NEW id \in Nat, NEW m \in Message, NEW chunk \in 0..Chunks
    PROVE  Request_message(r, id) \in Message /\ generate_response(m, chunk) \in Message
<1>1. Request_message(r, id) \in Message
  BY FileAssumption DEF Request_message, Message
<1>2. m.transaction_id \in Nat BY DEF Message
<1>3. generate_response(m, chunk) \in Message BY <1>2 DEF generate_response, Message
<1>4. QED BY <1>1, <1>3

LEMMA request_Type ==
    ASSUME TypeOK, NEW r \in Request
    PROVE  request_(r) \in Message
  BY FileAssumption DEF TypeOK, request_, Request_message, Message

LEMMA PushedType ==
    ASSUME send_queue \in Queues_type, NEW n \in Node, NEW m \in Message
    PROVE  Pushed(n, m) \in Queues_type
  BY DEF Pushed, Queues_type

LEMMA WithType ==
    ASSUME object \in Objects_type, NEW r \in Request, NEW e \in End,
           NEW state \in {"none", "waiting", "done", "gone"}
    PROVE  With(<<r, e>>, state) \in Objects_type
  BY DEF With, Objects_type

LEMMA HandlersType ==
    ASSUME active_handlers \in Handlers_type, NEW n \in Node, NEW r
    PROVE  Pruned(n) \in Handlers_type /\ Erased(n, r) \in Handlers_type
<1>1. Pruned(n) \in Handlers_type BY DEF Pruned, Handlers_type
<1>2. QED BY <1>1 DEF Erased, Handlers_type

LEMMA TailedType ==
    ASSUME NEW Q \in Queues_type, NEW n \in Node, Q[n] # <<>>
    PROVE  /\ [Q EXCEPT ![n] = Tail(@)] \in Queues_type
           /\ Head(Q[n]) \in Message
  BY DEF Queues_type

\* The ends that are set.
LEMMA SetEndType ==
    ASSUME session \in Sessions_type, NEW r \in Request, NEW e \in End,
           NEW s \in EndState, SetEnd(r, e, s)
    PROVE  session' \in Sessions_type
  BY DEF SetEnd, Sessions_type

LEMMA DeliveredType ==
    ASSUME session \in Sessions_type, NEW r \in Request, NEW e \in End,
           NEW s \in EndState, session[r][e].writing # <<>>
    PROVE  Delivered(r, e, s) \in Sessions_type
<1>1. Other(e) \in End /\ Other(e) # e BY DEF End, Other
<1>2. session[r][e] \in EndState /\ session[r][Other(e)] \in EndState
  BY <1>1 DEF Sessions_type
<1>3. Head(session[r][e].writing) \in Message BY <1>2, EndFacts, Lengths
<1>i. PICK inbox \in Seq(Message) :
        inbox = IF PeerGone(r, e) THEN session[r][Other(e)].inbox
                ELSE Append(session[r][Other(e)].inbox, Head(session[r][e].writing))
  BY <1>2, <1>3, EndFacts, AppendedLength
<1>x. PICK x \in EndState : x = [session[r][Other(e)] EXCEPT !.inbox = inbox]
  BY <1>2 DEF EndState
<1>4. Delivered(r, e, s) = [session EXCEPT ![r][e] = s, ![r][Other(e)] = x]
  BY <1>1, <1>i, <1>x DEF Delivered
<1>5. QED BY <1>1, <1>4 DEF Sessions_type

LEMMA NoSessionType == NoSession \in EndState BY DEF NoSession, EndState

\* A step that changes sessions only.
LEMMA SessionStepType ==
    ASSUME TypeOK, Session_step, session' \in Sessions_type
    PROVE  TypeOK'
  BY DEF TypeOK, Session_step, Sessions_type, identifiers, files

LEMMA TypeParts ==
    ASSUME TypeOK
    PROVE  /\ session \in Sessions_type /\ send_queue \in Queues_type
           /\ receive_queue \in Queues_type /\ object \in Objects_type
           /\ active_handlers \in Handlers_type
           /\ \A r \in Request, e \in End : session[r][e] \in EndState
  BY DEF TypeOK, Sessions_type, Queues_type, Objects_type, Handlers_type

LEMMA connectionsType ==
    ASSUME TypeOK, NEW r \in Request,
           connected(r) \/ connection_refused(r) \/ handle_new_connection(r)
    PROVE  TypeOK'
<1>1. /\ session \in Sessions_type /\ "client" \in End /\ "server" \in End
      /\ session[r]["client"] \in EndState /\ session[r]["server"] \in EndState
  BY TypeParts, TheEnds
<1>2. CASE connected(r)
  <2>1. request_(r) \in Message BY request_Type
  <2>2. [session[r]["client"] EXCEPT !.socket = "open", !.posted = <<request_(r)>>]
          \in EndState
    <3>1. <<request_(r)>> \in Seq(Message) BY <2>1
    <3>2. QED BY <1>1, <3>1 DEF EndState
  <2>3. [session[r]["server"] EXCEPT !.socket = "backlog"] \in EndState
    BY <1>1 DEF EndState
  <2>4. session' \in Sessions_type BY <1>1, <1>2, <2>2, <2>3 DEF connected, Sessions_type
  <2>5. QED BY <1>2, <2>4, SessionStepType DEF connected
<1>3. CASE connection_refused(r)
  <2>1. [session[r]["client"] EXCEPT !.socket = "closed"] \in EndState
    BY <1>1 DEF EndState
  <2>2. session' \in Sessions_type
    BY <1>1, <1>3, <2>1, SetEndType DEF connection_refused
  <2>3. QED BY <1>3, <2>2, SessionStepType DEF connection_refused
<1>4. CASE handle_new_connection(r)
  <2>1. [session[r]["server"] EXCEPT !.socket = "open", !.reads = 1] \in EndState
    BY <1>1 DEF EndState
  <2>2. session' \in Sessions_type
    BY <1>1, <1>4, <2>1, SetEndType DEF handle_new_connection
  <2>3. QED BY <1>4, <2>2, SessionStepType DEF handle_new_connection
<1>5. QED BY <1>2, <1>3, <1>4

LEMMA queue_messageType ==
    ASSUME TypeOK, NEW r \in Request, NEW e \in End, queue_message(r, e)
    PROVE  TypeOK'
<1> DEFINE s == session[r][e]
<1>1. session \in Sessions_type /\ s \in EndState BY TypeParts
<1>2. s.posted # <<>> BY DEF queue_message
<1>3. Tail(s.posted) \in Seq(Message) /\ Head(s.posted) \in Message
  BY <1>1, <1>2 DEF EndState
<1>4. s.writing \in Seq(Message) /\ s.packets \in Seq(Message) BY <1>1 DEF EndState
<1>5. /\ Append(s.writing, Head(s.posted)) \in Seq(Message)
      /\ Append(s.packets, Head(s.posted)) \in Seq(Message)
  BY <1>3, <1>4
<1>6. \A w \in Seq(Message), p \in Seq(Message) :
        /\ [s EXCEPT !.posted = Tail(s.posted), !.writing = w] \in EndState
        /\ [s EXCEPT !.posted = Tail(s.posted), !.packets = p, !.writing = w] \in EndState
  BY <1>1, <1>3 DEF EndState
<1>7. CASE Direct(r, e)
  <2>1. SetEnd(r, e, [s EXCEPT !.posted = Tail(s.posted),
                               !.writing = Append(s.writing, Head(s.posted))])
    BY <1>7 DEF queue_message
  <2>2. session' \in Sessions_type BY <1>1, <1>4, <1>5, <1>6, <2>1, SetEndType
  <2>3. QED BY <2>2, SessionStepType DEF queue_message
<1>8. CASE ~Direct(r, e)
  <2>1. PICK w \in Seq(Message) :
          w = IF s.packets = <<>> THEN Append(s.writing, Head(s.posted)) ELSE s.writing
    BY <1>4, <1>5
  <2>2. SetEnd(r, e, [s EXCEPT !.posted = Tail(s.posted),
                               !.packets = Append(s.packets, Head(s.posted)),
                               !.writing = w])
    BY <1>8, <2>1 DEF queue_message
  <2>3. session' \in Sessions_type BY <1>1, <1>5, <1>6, <2>2, SetEndType
  <2>4. QED BY <2>3, SessionStepType DEF queue_message
<1>9. QED BY <1>7, <1>8

LEMMA packet_send_doneType ==
    ASSUME IInv, NEW r \in Request, NEW e \in End, packet_send_done(r, e)
    PROVE  TypeOK'
<1>s. PICK s : s = session[r][e] OBVIOUS
<1>1. session \in Sessions_type /\ s \in EndState BY <1>s, TypeParts DEF IInv
<1>2. s.writing # <<>> /\ ~Direct(r, e) BY <1>s DEF packet_send_done
<1>3. s.packets # <<>>
  <2>1. CASE e = "client" BY <1>s, <1>2, <2>1 DEF IInv, RequestsInv, WritesInv, C
  <2>2. CASE e = "server"
    <3>1. r \notin File BY <1>2, <2>2 DEF Direct
    <3>2. QED BY <1>s, <1>2, <2>2, <3>1 DEF IInv, RequestsInv, WritesInv, S
  <2>3. QED BY <2>1, <2>2 DEF End
<1>p. PICK rest \in Seq(Message) : rest = Tail(s.packets)
  BY <1>1, <1>3, EndFacts, Lengths
<1>4. Tail(s.writing) \in Seq(Message) BY <1>1, <1>2, EndFacts, Lengths
<1>w. PICK w \in Seq(Message) :
        w = IF rest = <<>> THEN Tail(s.writing) ELSE <<Head(rest)>>
  <2>1. CASE rest = <<>> BY <1>4, <2>1
  <2>2. CASE rest # <<>>
    <3>1. Head(rest) \in Message BY <1>p, <2>2, Lengths
    <3>2. <<Head(rest)>> \in Seq(Message) BY <3>1
    <3>3. QED BY <2>2, <3>2
  <2>3. QED BY <2>1, <2>2
<1>5. [s EXCEPT !.packets = rest, !.writing = w] \in EndState BY <1>1 DEF EndState
<1>6. session' = Delivered(r, e, [s EXCEPT !.packets = rest, !.writing = w])
  BY <1>s, <1>p, <1>w DEF packet_send_done
<1>7. session' \in Sessions_type
  <2>1. session[r][e].writing # <<>> BY <1>s, <1>2
  <2>2. QED BY <1>1, <1>5, <1>6, <2>1, DeliveredType
<1>8. QED BY <1>7, SessionStepType DEF packet_send_done, IInv

LEMMA failedType ==
    ASSUME TypeOK, NEW r \in Request, NEW e \in End,
           packet_send_failed(r, e) \/ read_failed(r, e)
    PROVE  TypeOK'
<1>s. PICK s : s = session[r][e] OBVIOUS
<1>1. session \in Sessions_type /\ s \in EndState BY <1>s, TypeParts
<1>2. CASE packet_send_failed(r, e)
  <2>1. s.writing # <<>> BY <1>s, <1>2 DEF packet_send_failed
  <2>2. [s EXCEPT !.writing = Tail(s.writing), !.socket = "closed"] \in EndState
    <3>1. Tail(s.writing) \in Seq(Message) BY <1>1, <2>1, EndFacts, Lengths
    <3>2. QED BY <1>1, <3>1 DEF EndState
  <2>3. SetEnd(r, e, [s EXCEPT !.writing = Tail(s.writing), !.socket = "closed"])
    BY <1>s, <1>2 DEF packet_send_failed
  <2>4. session' \in Sessions_type BY <1>1, <2>2, <2>3, SetEndType
  <2>5. QED BY <1>2, <2>4, SessionStepType DEF packet_send_failed
<1>3. CASE read_failed(r, e)
  <2>1. s.reads > 0 BY <1>s, <1>3 DEF read_failed
  <2>2. [s EXCEPT !.reads = s.reads - 1, !.socket = "closed"] \in EndState
    <3>1. s.reads - 1 \in Nat BY <1>1, <2>1, EndFacts
    <3>2. QED BY <1>1, <3>1 DEF EndState
  <2>3. SetEnd(r, e, [s EXCEPT !.reads = s.reads - 1, !.socket = "closed"])
    BY <1>s, <1>3 DEF read_failed
  <2>4. session' \in Sessions_type BY <1>1, <2>2, <2>3, SetEndType
  <2>5. QED BY <1>3, <2>4, SessionStepType DEF read_failed
<1>4. QED BY <1>2, <1>3

LEMMA handle_read_messageType ==
    ASSUME TypeOK, NEW r \in Request, NEW e \in End, handle_read_message(r, e)
    PROVE  TypeOK'
<1>s. PICK s : s = session[r][e] OBVIOUS
<1>1. session \in Sessions_type /\ s \in EndState /\ receive_queue \in Queues_type
  BY <1>s, TypeParts
<1>2. s.reads > 0 /\ s.inbox # <<>> BY <1>s DEF handle_read_message
<1>3. [s EXCEPT !.reads = s.reads - 1, !.inbox = Tail(s.inbox)] \in EndState
  <2>1. s.reads - 1 \in Nat BY <1>1, <1>2, EndFacts
  <2>2. Tail(s.inbox) \in Seq(Message) BY <1>1, <1>2, EndFacts, Lengths
  <2>3. QED BY <1>1, <2>1, <2>2 DEF EndState
<1>4. Head(s.inbox) \in Message BY <1>1, <1>2, EndFacts, Lengths
<1>5. SetEnd(r, e, [s EXCEPT !.reads = s.reads - 1, !.inbox = Tail(s.inbox)])
  BY <1>s DEF handle_read_message
<1>6. session' \in Sessions_type BY <1>1, <1>3, <1>5, SetEndType
<1>7. NodeAt(r, e) \in Node BY Nodes DEF NodeAt
<1>8. receive_queue' \in Queues_type
  BY <1>1, <1>4, <1>7, <1>s DEF handle_read_message, Queues_type
<1>9. QED
  BY <1>6, <1>8 DEF TypeOK, handle_read_message, Sessions_type, Queues_type,
                    identifiers, files

\* The steps of the other threads.
LEMMA send_threadType ==
    ASSUME TypeOK, NEW n \in Node, send_thread(n)
    PROVE  TypeOK'
<1>m. PICK m \in Message : m = Head(send_queue[n]) /\ send_queue[n] # <<>>
  BY TypeParts, TailedType DEF send_thread, write_to, write
<1>1. m.request \in Request BY DEF Message
<1>2. send_queue' = [send_queue EXCEPT ![n] = Tail(@)]
  BY DEF send_thread, write_to, write
<1>3. send_queue' \in Queues_type BY <1>2, <1>m, TypeParts, TailedType
<1>4. session' \in Sessions_type
  <2>1. CASE write_to(n)
    <3>1. [NoSession EXCEPT !.socket = "connecting", !.reads = 1] \in EndState
      BY NoSessionType DEF EndState
    <3>2. SetEnd(m.request, "client", [NoSession EXCEPT !.socket = "connecting", !.reads = 1])
      BY <1>m, <2>1 DEF write_to
    <3>3. QED BY <1>1, <3>1, <3>2, TheEnds, TypeParts, SetEndType
  <2>2. CASE write(n)
    <3>s. PICK s \in EndState : s = session[m.request]["server"]
      BY <1>1, TheEnds, TypeParts
    <3>1. Append(s.posted, m) \in Seq(Message) BY EndFacts, AppendedLength
    <3>2. [s EXCEPT !.posted = Append(s.posted, m)] \in EndState BY <3>1 DEF EndState
    <3>3. SetEnd(m.request, "server", [s EXCEPT !.posted = Append(s.posted, m)])
      BY <1>m, <2>2, <3>s DEF write
    <3>4. QED BY <1>1, <3>2, <3>3, TheEnds, TypeParts, SetEndType
  <2>3. QED BY <2>1, <2>2 DEF send_thread
<1>5. UNCHANGED <<running, counter, transaction_id, active_handlers, object, source,
                  received, receive_queue, crashes>>
  BY DEF send_thread, write_to, write, identifiers, files
<1>6. QED BY <1>3, <1>4, <1>5 DEF TypeOK, Sessions_type, Queues_type

LEMMA MakeType ==
    ASSUME TypeOK, NEW r \in Request, Make(r)
    PROVE  /\ counter' \in [Node -> Nat] /\ transaction_id' \in [Request -> Nat]
           /\ active_handlers' \in Handlers_type /\ send_queue' \in Queues_type
<1>n. PICK n \in Node : n = Client[r] BY Nodes
<1>i. PICK id \in Nat : id = counter[n] + 1 BY <1>n DEF TypeOK
<1>1. counter' \in [Node -> Nat] BY <1>n, <1>i DEF TypeOK, Make
<1>2. transaction_id' \in [Request -> Nat] BY <1>n, <1>i DEF TypeOK, Make
<1>3. active_handlers' \in Handlers_type
  <2>1. active_handlers' = [active_handlers EXCEPT ![n] =
          active_handlers[n] \cup {[id |-> id, request |-> r]}]
    BY <1>n, <1>i DEF Make
  <2>2. [id |-> id, request |-> r] \in [id : Nat, request : Request] OBVIOUS
  <2>3. QED BY <2>1, <2>2 DEF TypeOK, Handlers_type
<1>4. send_queue' \in Queues_type
  <2>1. send_queue' = Pushed(n, Request_message(r, id)) BY <1>n, <1>i DEF Make
  <2>2. Request_message(r, id) \in Message
    BY FileAssumption DEF Request_message, Message
  <2>3. QED BY <2>1, <2>2, TypeParts, PushedType
<1>5. QED BY <1>1, <1>2, <1>3, <1>4

LEMMA create_requestType ==
    ASSUME TypeOK, NEW r \in Request, create_request(r)
    PROVE  TypeOK'
<1>1. object' \in Objects_type BY TheEnds, TypeParts, WithType DEF create_request
<1>2. /\ counter' \in [Node -> Nat] /\ transaction_id' \in [Request -> Nat]
      /\ active_handlers' \in Handlers_type /\ send_queue' \in Queues_type
  BY MakeType DEF create_request
<1>3. UNCHANGED <<running, source, received, receive_queue, session, crashes>>
  BY DEF create_request, files
<1>4. QED BY <1>1, <1>2, <1>3 DEF TypeOK, Objects_type, Handlers_type, Queues_type

LEMMA cleanType ==
    ASSUME TypeOK, NEW r \in Request, NEW e \in End, clean(r, e)
    PROVE  TypeOK'
<1>1. object' \in Objects_type BY TypeParts, WithType DEF clean
<1>2. UNCHANGED <<running, counter, transaction_id, active_handlers, source, received,
                  send_queue, receive_queue, session, crashes>>
  BY DEF clean, identifiers, files
<1>3. QED BY <1>1, <1>2 DEF TypeOK, Objects_type

\* A chunk that is read fits its message.
LEMMA write_fileType ==
    ASSUME TypeOK, NEW r \in Request, write_file(r)
    PROVE  send_queue' \in Queues_type /\ source' \in [Request -> Nat]
<1>s. PICK s \in Nat : s = source[r] BY DEF TypeOK
<1>1. CASE s <= Chunks
  <2>1. s \in 0..Chunks BY <1>1, FileAssumption
  <2>m. PICK m : m = generate_response(request_(r), s) OBVIOUS
  <2>2. m \in Message BY <2>1, <2>m, request_Type, MessageTypes
  <2>3. send_queue' = Pushed(Server[r], m) BY <1>1, <1>s, <2>m DEF write_file
  <2>4. source' = [source EXCEPT ![r] = s + 1] BY <1>1, <1>s DEF write_file
  <2>5. send_queue' \in Queues_type BY <2>2, <2>3, Nodes, TypeParts, PushedType
  <2>6. QED BY <2>4, <2>5 DEF TypeOK
<1>2. CASE ~(s <= Chunks)
  <2>1. send_queue' = send_queue /\ source' = source BY <1>2, <1>s DEF write_file
  <2>2. QED BY <2>1, TypeParts DEF TypeOK
<1>3. QED BY <1>1, <1>2

LEMMA PoppedType ==
    ASSUME TypeOK, NEW n \in Node, Popped(n)
    PROVE  receive_queue' \in Queues_type /\ Head(receive_queue[n]) \in Message
  BY TypeParts, TailedType DEF Popped

\* A request is handled.
LEMMA RequestedType ==
    ASSUME TypeOK, NEW n \in Node, NEW r \in Request,
           \/ handle_request(n, r) \/ handle_request_unanswered(n, r)
           \/ forward_request(n, r) \/ GetFile_handle_request(n, r)
    PROVE  TypeOK'
<1>1. Popped(n)
  BY DEF handle_request, handle_request_unanswered, forward_request,
         GetFile_handle_request, Requested
<1>2. receive_queue' \in Queues_type /\ Head(receive_queue[n]) \in Message
  BY <1>1, PoppedType
<1>3. object' \in Objects_type
  <2>1. \/ object' = With(<<r, "server">>, "done")
        \/ object' = With(<<r, "server">>, "waiting")
    BY DEF handle_request, handle_request_unanswered, forward_request,
           GetFile_handle_request
  <2>2. QED BY <2>1, TheEnds, TypeParts, WithType
<1>4. CASE handle_request(n, r)
  <2>1. active_handlers' \in Handlers_type
    BY <1>4, TypeParts, HandlersType DEF handle_request
  <2>m. PICK m : m = generate_response(Head(receive_queue[n]), 0) OBVIOUS
  <2>2. 0 \in 0..Chunks BY FileAssumption
  <2>3. m \in Message BY <1>2, <2>2, <2>m, MessageTypes
  <2>4. send_queue' = Pushed(n, m) BY <1>4, <2>m DEF handle_request
  <2>5. send_queue' \in Queues_type BY <2>3, <2>4, TypeParts, PushedType
  <2>6. UNCHANGED <<running, counter, transaction_id, source, received, session, crashes>>
    BY <1>4 DEF handle_request, identifiers, files
  <2>7. QED
    BY <1>2, <1>3, <2>1, <2>5, <2>6
       DEF TypeOK, Objects_type, Handlers_type, Queues_type
<1>5. CASE handle_request_unanswered(n, r)
  <2>1. UNCHANGED <<running, counter, transaction_id, source, received, send_queue,
                    session, crashes>>
    BY <1>5 DEF handle_request_unanswered, identifiers, files
  <2>2. active_handlers' \in Handlers_type
    BY <1>5, TypeParts, HandlersType DEF handle_request_unanswered
  <2>3. QED
    BY <1>2, <1>3, <2>1, <2>2 DEF TypeOK, Objects_type, Handlers_type, Queues_type
<1>6. CASE forward_request(n, r)
  <2>1. Relayed[r] \in Request
    BY <1>6, RelayedAssumption DEF forward_request
  <2>2. /\ counter' \in [Node -> Nat] /\ transaction_id' \in [Request -> Nat]
        /\ active_handlers' \in Handlers_type /\ send_queue' \in Queues_type
    BY <1>6, <2>1, MakeType DEF forward_request
  <2>3. UNCHANGED <<running, source, received, session, crashes>>
    BY <1>6 DEF forward_request, files
  <2>4. QED
    BY <1>2, <1>3, <2>2, <2>3 DEF TypeOK, Objects_type, Handlers_type, Queues_type
<1>7. CASE GetFile_handle_request(n, r)
  <2>1. send_queue' \in Queues_type /\ source' \in [Request -> Nat]
    BY <1>7, write_fileType DEF GetFile_handle_request
  <2>2. UNCHANGED <<running, counter, transaction_id, active_handlers, received, session,
                    crashes>>
    BY <1>7 DEF GetFile_handle_request, identifiers
  <2>3. QED BY <1>2, <1>3, <2>1, <2>2 DEF TypeOK, Objects_type, Queues_type
<1>8. QED BY <1>4, <1>5, <1>6, <1>7

\* A response is handled.
LEMMA RespondedType ==
    ASSUME TypeOK, NEW n \in Node, NEW r \in Request,
           \/ no_handler(n) \/ handle_response(n, r)
           \/ handle_forwarded_response(n, r) \/ GetFile_handle_response(n, r)
    PROVE  TypeOK'
<1>1. Popped(n)
  BY DEF no_handler, handle_response, handle_forwarded_response,
         GetFile_handle_response, Responded
<1>2. receive_queue' \in Queues_type /\ Head(receive_queue[n]) \in Message
  BY <1>1, PoppedType
<1>3. CASE no_handler(n)
  <2>1. active_handlers' \in Handlers_type
    BY <1>3 DEF no_handler, TypeOK, Handlers_type
  <2>2. UNCHANGED <<running, counter, transaction_id, object, source, received,
                    send_queue, session, crashes>>
    BY <1>3 DEF no_handler, identifiers, files
  <2>3. QED BY <1>2, <2>1, <2>2 DEF TypeOK, Handlers_type, Queues_type
<1>4. CASE handle_response(n, r)
  <2>1. active_handlers' \in Handlers_type
    BY <1>4, TypeParts, HandlersType DEF handle_response
  <2>2. object' \in Objects_type
    BY <1>4, TheEnds, TypeParts, WithType DEF handle_response
  <2>3. UNCHANGED <<running, counter, transaction_id, source, received, send_queue,
                    session, crashes>>
    BY <1>4 DEF handle_response, identifiers, files
  <2>4. QED
    BY <1>2, <2>1, <2>2, <2>3 DEF TypeOK, Objects_type, Handlers_type, Queues_type
<1>5. CASE handle_forwarded_response(n, r)
  <2>1. active_handlers' \in Handlers_type
    BY <1>5, TypeParts, HandlersType DEF handle_forwarded_response
  <2>2. PICK q \in Forwarded(r) :
          /\ object' = With(<<q, "server">>, "done")
          /\ send_queue' = Pushed(n, generate_response(request_(q), 0))
    BY <1>5 DEF handle_forwarded_response
  <2>3. q \in Request BY <2>2 DEF Forwarded
  <2>4. object' \in Objects_type BY <2>2, <2>3, TheEnds, TypeParts, WithType
  <2>m. PICK m : m = generate_response(request_(q), 0) OBVIOUS
  <2>5. 0 \in 0..Chunks BY FileAssumption
  <2>6. m \in Message BY <2>3, <2>5, <2>m, request_Type, MessageTypes
  <2>7. send_queue' \in Queues_type BY <2>2, <2>6, <2>m, TypeParts, PushedType
  <2>8. UNCHANGED <<running, counter, transaction_id, source, received, session, crashes>>
    BY <1>5 DEF handle_forwarded_response, identifiers, files
  <2>9. QED
    BY <1>2, <2>1, <2>4, <2>7, <2>8
       DEF TypeOK, Objects_type, Handlers_type, Queues_type
<1>6. CASE GetFile_handle_response(n, r)
  <2>m. PICK m \in Message : m = Head(receive_queue[n]) BY <1>2
  <2>1. m.chunk \in 0..Chunks BY DEF Message
  <2>2. received' = [received EXCEPT ![r] = m.chunk]
    BY <1>6, <2>m DEF GetFile_handle_response
  <2>3. received' \in [Request -> 0..Chunks] BY <2>1, <2>2 DEF TypeOK
  <2>4. active_handlers' \in Handlers_type /\ object' \in Objects_type
    <3>1. active_handlers' = active_handlers \/ active_handlers' = Pruned(n)
      BY <1>6 DEF GetFile_handle_response
    <3>2. object' = object \/ object' = With(<<r, "client">>, "done")
      BY <1>6 DEF GetFile_handle_response
    <3>3. active_handlers' \in Handlers_type BY <3>1, TypeParts, HandlersType
    <3>4. QED BY <3>2, <3>3, TheEnds, TypeParts, WithType
  <2>5. session' \in Sessions_type
    <3>s. PICK s \in EndState : s = session[r]["client"] BY TheEnds, TypeParts
    <3>1. s.reads + 1 \in Nat BY EndFacts
    <3>2. [s EXCEPT !.reads = s.reads + 1] \in EndState BY <3>1 DEF EndState
    <3>3. \/ session' = session
          \/ session' = [session EXCEPT ![r]["client"] = [s EXCEPT !.reads = s.reads + 1]]
      <4>1. \/ session' = session
            \/ session' = [session EXCEPT ![r]["client"].reads = @ + 1]
        BY <1>6 DEF GetFile_handle_response
      <4>2. QED BY <4>1, <3>s
    <3>4. QED BY ZenonT(40), <3>2, <3>3, TheEnds, TypeParts DEF Sessions_type
  <2>6. UNCHANGED <<running, counter, transaction_id, source, send_queue, crashes>>
    BY <1>6 DEF GetFile_handle_response, identifiers
  <2>7. QED
    BY <1>2, <2>3, <2>4, <2>5, <2>6
       DEF TypeOK, Objects_type, Handlers_type, Queues_type, Sessions_type
<1>7. QED BY <1>3, <1>4, <1>5, <1>6

\* A chunk leaves the socket.
LEMMA chunkType ==
    ASSUME TypeOK, NEW r \in Request, chunk_written(r) \/ chunk_failed(r)
    PROVE  TypeOK'
<1>s. PICK s \in EndState : s = session[r]["server"] BY TheEnds, TypeParts
<1>1. s.writing # <<>> BY <1>s DEF chunk_written, chunk_failed
<1>2. [s EXCEPT !.writing = Tail(s.writing)] \in EndState
  <2>1. Tail(s.writing) \in Seq(Message) BY <1>1, EndFacts, Lengths
  <2>2. QED BY <2>1 DEF EndState
<1>3. session' \in Sessions_type
  <2>1. CASE chunk_written(r)
    <3>1. session' = Delivered(r, "server", [s EXCEPT !.writing = Tail(s.writing)])
      BY <1>s, <2>1 DEF chunk_written
    <3>2. QED BY <1>s, <1>1, <1>2, <3>1, TheEnds, TypeParts, DeliveredType
  <2>2. CASE chunk_failed(r)
    <3>1. SetEnd(r, "server", [s EXCEPT !.writing = Tail(s.writing)])
      BY <1>s, <2>2 DEF chunk_failed
    <3>2. QED BY <1>2, <3>1, TheEnds, TypeParts, SetEndType
  <2>3. QED BY <2>1, <2>2
<1>4. PICK failed \in BOOLEAN : on_write(r, failed) BY DEF chunk_written, chunk_failed
<1>5. send_queue' \in Queues_type /\ source' \in [Request -> Nat]
  <2>1. write_file(r) \/ (send_queue' = send_queue /\ source' = source)
    BY <1>4 DEF on_write
  <2>2. QED BY <2>1, write_fileType, TypeParts DEF TypeOK
<1>6. object' \in Objects_type /\ active_handlers' \in Handlers_type
  <2>1. \/ object' = object /\ active_handlers' = active_handlers
        \/ /\ object' = With(<<r, "server">>, "done")
           /\ active_handlers' = Pruned(Server[r])
    BY <1>4 DEF on_write
  <2>2. QED BY <2>1, Nodes, TheEnds, TypeParts, WithType, HandlersType
<1>7. UNCHANGED <<running, counter, transaction_id, received, receive_queue, crashes>>
  BY <1>4 DEF on_write, identifiers
<1>8. QED
  BY <1>3, <1>5, <1>6, <1>7
     DEF TypeOK, Objects_type, Handlers_type, Queues_type, Sessions_type

LEMMA crashType ==
    ASSUME TypeOK, NEW n \in Node, crash(n)
    PROVE  TypeOK'
<1>1. running' \subseteq Node /\ crashes' \in Nat BY DEF crash, TypeOK
<1>2. active_handlers' \in Handlers_type BY DEF crash, TypeOK, Handlers_type
<1>3. send_queue' \in Queues_type /\ receive_queue' \in Queues_type
  <2>1. <<>> \in Seq(Message) OBVIOUS
  <2>2. QED BY <2>1 DEF crash, TypeOK, Queues_type
<1>4. object' \in Objects_type BY DEF crash, TypeOK, Objects_type
<1>5. session' \in Sessions_type
  <2>1. [NoSession EXCEPT !.socket = "closed"] \in EndState
    BY NoSessionType DEF EndState
  <2>2. QED BY <2>1, TypeParts DEF crash, Sessions_type
<1>6. UNCHANGED <<counter, transaction_id, source, received>>
  BY DEF crash, identifiers, files
<1>7. QED
  BY <1>1, <1>2, <1>3, <1>4, <1>5, <1>6
     DEF TypeOK, Objects_type, Handlers_type, Queues_type, Sessions_type

-----------------------------------------------------------------------------
(* All steps.                                                              *)

LEMMA NextType ==
    ASSUME IInv, Next
    PROVE  TypeOK'
<1>1. TypeOK BY DEF IInv
<1>2. ASSUME NEW n \in Node, send_thread(n) \/ dispatcher_thread(n) \/ crash(n)
      PROVE  TypeOK'
  <2>1. CASE send_thread(n) BY <1>1, <2>1, send_threadType
  <2>2. CASE no_handler(n)
    <3>1. PICK r : r = Head(receive_queue[n]).request OBVIOUS
    <3>2. r \in Request
      <4>1. Head(receive_queue[n]) \in Message BY <1>1, <2>2, PoppedType DEF no_handler
      <4>2. QED BY <3>1, <4>1 DEF Message
    <3>3. QED BY <1>1, <2>2, <3>2, RespondedType
  <2>3. ASSUME NEW r \in Request,
               \/ handle_request(n, r) \/ handle_request_unanswered(n, r)
               \/ forward_request(n, r) \/ GetFile_handle_request(n, r)
        PROVE  TypeOK'
    BY <1>1, <2>3, RequestedType
  <2>4. ASSUME NEW r \in Request,
               \/ handle_response(n, r) \/ handle_forwarded_response(n, r)
               \/ GetFile_handle_response(n, r)
        PROVE  TypeOK'
    BY <1>1, <2>4, RespondedType
  <2>5. CASE crash(n) BY <1>1, <2>5, crashType
  <2>6. QED BY <1>2, <2>1, <2>2, <2>3, <2>4, <2>5 DEF dispatcher_thread
<1>3. ASSUME NEW r \in Request, create_request(r) \/ clean_up(r) \/ connections(r)
      PROVE  TypeOK'
  <2>1. CASE create_request(r) BY <1>1, <2>1, create_requestType
  <2>2. CASE clean_up(r) BY <1>1, <2>2, cleanType DEF clean_up
  <2>3. CASE connected(r) \/ connection_refused(r) \/ handle_new_connection(r)
    BY <1>1, <2>3, connectionsType
  <2>4. CASE chunk_written(r) \/ chunk_failed(r) BY <1>1, <2>4, chunkType
  <2>5. QED BY <1>3, <2>1, <2>2, <2>3, <2>4 DEF connections
<1>4. ASSUME NEW r \in Request, NEW e \in End, asio_threads(r, e)
      PROVE  TypeOK'
  <2>1. CASE queue_message(r, e) BY <1>1, <2>1, queue_messageType
  <2>2. CASE packet_send_done(r, e) BY <2>2, packet_send_doneType
  <2>3. CASE packet_send_failed(r, e) \/ read_failed(r, e) BY <1>1, <2>3, failedType
  <2>4. CASE handle_read_message(r, e) BY <1>1, <2>4, handle_read_messageType
  <2>5. QED BY <1>4, <2>1, <2>2, <2>3, <2>4 DEF asio_threads
<1>5. QED BY <1>2, <1>3, <1>4 DEF Next

LEMMA NextKept ==
    ASSUME IInv, Next
    PROVE  IInv'
<1>1. TypeOK' BY NextType
<1>2. ASSUME NEW n \in Node, send_thread(n) \/ dispatcher_thread(n) \/ crash(n)
      PROVE  IInv'
  <2>1. CASE send_thread(n) BY <1>1, <2>1, write_toKept, writeKept DEF send_thread
  <2>2. CASE no_handler(n) BY <1>1, <2>2, no_handlerKept
  <2>3. ASSUME NEW r \in Request,
               \/ handle_request(n, r) \/ handle_request_unanswered(n, r)
               \/ forward_request(n, r) \/ GetFile_handle_request(n, r)
        PROVE  IInv'
    BY <1>1, <2>3, handle_requestKept, handle_request_unansweredKept,
       forward_requestKept, GetFile_handle_requestKept
  <2>4. ASSUME NEW r \in Request,
               \/ handle_response(n, r) \/ handle_forwarded_response(n, r)
               \/ GetFile_handle_response(n, r)
        PROVE  IInv'
    BY <1>1, <2>4, handle_responseKept, handle_forwarded_responseKept,
       GetFile_handle_responseKept
  <2>5. CASE crash(n) BY <1>1, <2>5, crashKept
  <2>6. QED BY <1>2, <2>1, <2>2, <2>3, <2>4, <2>5 DEF dispatcher_thread
<1>3. ASSUME NEW r \in Request, create_request(r) \/ clean_up(r) \/ connections(r)
      PROVE  IInv'
  <2>1. CASE create_request(r) BY <1>1, <2>1, create_requestKept
  <2>2. CASE clean_up(r) BY <1>1, <2>2, cleanKept DEF clean_up
  <2>3. CASE connected(r) \/ connection_refused(r) \/ handle_new_connection(r)
    BY <1>1, <2>3, connectedKept, connection_refusedKept, handle_new_connectionKept
  <2>4. CASE chunk_written(r) \/ chunk_failed(r)
    BY <1>1, <2>4, chunk_writtenKept, chunk_failedKept
  <2>5. QED BY <1>3, <2>1, <2>2, <2>3, <2>4 DEF connections
<1>4. ASSUME NEW r \in Request, asio_threads(r, "client")
      PROVE  IInv'
  <2>1. CASE queue_message(r, "client") BY <1>1, <2>1, queue_messageClient
  <2>2. CASE packet_send_done(r, "client") BY <1>1, <2>2, packet_send_doneClient
  <2>3. CASE packet_send_failed(r, "client")
    BY <1>1, <2>3, packet_send_failedClientKept
  <2>4. CASE read_failed(r, "client") BY <1>1, <2>4, read_failedClientKept
  <2>5. CASE handle_read_message(r, "client") BY <1>1, <2>5, handle_read_messageClient
  <2>6. QED BY <1>4, <2>1, <2>2, <2>3, <2>4, <2>5 DEF asio_threads
<1>5. ASSUME NEW r \in Request, asio_threads(r, "server")
      PROVE  IInv'
  <2>1. CASE queue_message(r, "server") BY <1>1, <2>1, queue_messageChunk,
                                           queue_messageResponse
  <2>2. CASE packet_send_done(r, "server") BY <1>1, <2>2, packet_send_doneServer
  <2>3. CASE packet_send_failed(r, "server")
    BY <1>1, <2>3, packet_send_failedServerKept
  <2>4. CASE read_failed(r, "server") BY <1>1, <2>4, read_failedServerKept
  <2>5. CASE handle_read_message(r, "server") BY <1>1, <2>5, handle_read_messageServer
  <2>6. QED BY <1>5, <2>1, <2>2, <2>3, <2>4, <2>5 DEF asio_threads
<1>6. QED BY <1>2, <1>3, <1>4, <1>5 DEF Next, End

LEMMA InitIInv ==
    ASSUME Init
    PROVE  IInv
<1>1. TypeOK
  <2>1. <<>> \in Seq(Message) /\ 0 \in 0..Chunks BY FileAssumption
  <2>2. session \in [Request -> [End -> EndState]] BY NoSessionType DEF Init
  <2>3. QED BY <2>1, <2>2, NodesAssumption DEF Init, TypeOK
<1>2. \A n \in Node : send_queue[n] = <<>> /\ receive_queue[n] = <<>> BY DEF Init
<1>3. SendInv /\ ReceiveInv BY <1>2, EmptyQueue DEF SendInv, ReceiveInv
<1>4. IdsInv BY Nodes DEF Init, IdsInv
<1>5. ASSUME NEW r \in Request PROVE RequestsInv(r)
  <2>1. /\ C(r) = NoSession /\ S(r) = NoSession /\ object[r]["server"] = "none"
        /\ source[r] = 1 /\ received[r] = 0 /\ transaction_id[r] = 0
        /\ r \notin File /\ Relayed[r] # NoRequest => transaction_id[Relayed[r]] = 0
    BY TheEnds, RelayedAssumption DEF Init, C, S
  <2>2. Asked(r) = {} /\ Arrived(r) = {} /\ Answered(r) = {} /\ Answers(r) = {}
    BY <1>2, Nodes, EmptyQueue DEF Asked, Arrived, Answered, Answers
  <2>3. /\ C(r).socket = "none" /\ C(r).reads = 0 /\ C(r).posted = <<>>
        /\ C(r).packets = <<>> /\ C(r).writing = <<>> /\ C(r).inbox = <<>>
        /\ S(r).socket = "none" /\ S(r).reads = 0 /\ S(r).posted = <<>>
        /\ S(r).packets = <<>> /\ S(r).writing = <<>> /\ S(r).inbox = <<>>
        /\ Len(<<>>) = 0
    BY <2>1 DEF NoSession
  <2>4. CarriesInv(r) BY <2>3, NoMessages DEF CarriesInv
  <2>5. ConnectInv(r) BY <2>1, <2>2, <2>3 DEF ConnectInv
  <2>6. RequestInv(r)
    <3>1. UnderWay(r) = 0 + 0 + 0 BY <2>3 DEF UnderWay
    <3>2. QED BY <2>1, <2>2, <3>1 DEF RequestInv
  <2>7. AnswerInv(r) BY <2>1, <2>2, <2>3 DEF AnswerInv
  <2>8. Busy(r) = 0 + 0 + 0 BY <2>2, <2>3 DEF Busy, Some
  <2>9. WritesInv(r) BY <2>3, <2>8 DEF WritesInv
  <2>10. ReadsInv(r) BY <2>3 DEF ReadsInv
  <2>11. ChunksInv(r) BY <2>2, <2>3 DEF ChunksInv, Reading
  <2>12. QED BY <2>4, <2>5, <2>6, <2>7, <2>9, <2>10, <2>11 DEF RequestsInv
<1>6. QED BY <1>1, <1>3, <1>4, <1>5 DEF IInv

LEMMA Stuttering ==
    ASSUME IInv, UNCHANGED vars
    PROVE  IInv'
<1>1. TypeOK' BY DEF vars, identifiers, files, IInv, TypeOK
<1>2. IdsInv' /\ IdsKept BY IdsInvKept DEF vars, IInv, CausesKept, files
<1>3. /\ SendInv' /\ ReceiveInv'
      /\ \A r \in Request : /\ Asked(r)' = Asked(r) /\ Answered(r)' = Answered(r)
                            /\ Arrived(r)' = Arrived(r) /\ Answers(r)' = Answers(r)
  BY <1>2, QueuesKept DEF vars, IInv
<1>4. ASSUME NEW r \in Request PROVE RequestsInv(r)'
  <2>1. Untouched(r) /\ RelayKept(r)
    BY <1>3 DEF Untouched, RelayKept, vars, identifiers, files
  <2>2. transaction_id'[r] \in Nat BY <1>1 DEF TypeOK
  <2>3. QED BY <1>2, <2>1, <2>2, UntouchedKept DEF IInv
<1>5. QED BY <1>1, <1>2, <1>3, <1>4 DEF IInv

(* Whatever the threads, the network and the objects do, and whoever is    *)
(* killed, the ends of the sessions, the queues, the handlers and the      *)
(* objects agree with each other (BoostSession, MessageHandler, GetFile).  *)
THEOREM InvariantHolds == Spec => []IInv
<1>1. Init => IInv BY InitIInv
<1>2. IInv /\ [Next]_vars => IInv' BY NextKept, Stuttering
<1>3. QED BY <1>1, <1>2, PTL DEF Spec

(* No step takes a message from an empty queue or a session that has none, *)
(* and what the threads hand to each other are messages                    *)
(* (MessageDispatcher, BoostSession).                                      *)
THEOREM TypesHold == Spec => []TypeOK
<1>1. IInv => TypeOK BY DEF IInv
<1>2. QED BY <1>1, InvariantHolds, PTL

\* The handler that a response finds is that of the request it answers.
LEMMA HandlerIsOwn ==
    ASSUME IInv, NEW n \in Node, receive_queue[n] # <<>>,
           NEW m, m = Head(receive_queue[n]), ~m.t_flag, NEW h \in Handlers(n)
    PROVE  h.request = m.request /\ m \in Answers(m.request)
<1>q. PICK Q \in Seq(Message) : Q = receive_queue[n] BY DEF IInv, TypeOK
<1>1. Q # <<>> /\ Unique(Q) /\ m = Head(Q) BY <1>q DEF IInv, ReceiveInv
<1>2. m \in Message /\ m \in In(Q, m.request, m.t_flag) BY <1>1, TailOfQueue
<1>3. m.request \in Request /\ m.t_flag = FALSE BY <1>2 DEF Message
<1>4. m \in In(receive_queue[n], m.request, FALSE) BY <1>q, <1>2, <1>3
<1>5. n = Receiver(m.request, FALSE) /\ Identified(m)
  BY <1>3, <1>4 DEF IInv, ReceiveInv
<1>6. n = Client[m.request] BY <1>5 DEF Receiver
<1>7. transaction_id[m.request] # 0 /\ transaction_id[m.request] = m.correlational_id
  BY <1>5 DEF Identified
<1>8. h \in active_handlers[n] /\ h.id = m.correlational_id BY DEF Handlers
<1>9. h.request \in Request BY <1>8 DEF IInv, TypeOK
<1>10. Client[h.request] = n /\ h.id = transaction_id[h.request]
  BY <1>8 DEF IInv, IdsInv
<1>11. h.request = m.request
  <2>1. \A r, q \in Request :
          /\ Client[r] = Client[q] /\ transaction_id[r] = transaction_id[q]
          /\ transaction_id[r] # 0
          => r = q
    BY DEF IInv, IdsInv
  <2>p. PICK p \in Request : p = m.request BY <1>3
  <2>2. /\ Client[p] = Client[h.request] /\ transaction_id[p] = transaction_id[h.request]
        /\ transaction_id[p] # 0
    BY <2>p, <1>6, <1>7, <1>8, <1>10
  <2>3. QED BY <1>9, <2>1, <2>2, <2>p
<1>12. QED BY <1>4, <1>6, <1>11 DEF Answers

(* MessageHandler::handle_response gives a response to the handler of the  *)
(* request it answers or to none, although every process counts its own    *)
(* identifiers and a relay has two requests under way.                     *)
THEOREM AnswersFindTheirRequest == Spec => []OwnAnswer
<1>1. IInv => OwnAnswer
  <2> SUFFICES ASSUME IInv, NEW n \in Node, receive_queue[n] # <<>>,
                      ~Head(receive_queue[n]).t_flag, NEW h \in Handlers(n)
               PROVE  h.request = Head(receive_queue[n]).request
    BY DEF OwnAnswer
  <2>1. QED BY HandlerIsOwn
<1>2. QED BY <1>1, InvariantHolds, PTL

(* A socket never has two async_reads or two async_writes under way,       *)
(* although the send thread, the dispatcher, the strand and the write      *)
(* handler of a file all start them (BoostSession::read, write and         *)
(* write_direct).                                                          *)
THEOREM SocketsDoOneThing == Spec => []OneAtATime
<1>1. IInv => OneAtATime
  <2> SUFFICES ASSUME IInv, NEW r \in Request
               PROVE  /\ C(r).reads <= 1 /\ Len(C(r).writing) <= 1
                      /\ S(r).reads <= 1 /\ Len(S(r).writing) <= 1
    BY DEF OneAtATime, End, C, S
  <2>1. RequestsInv(r) /\ S(r) \in EndState BY TypeOfEnds DEF IInv
  <2>2. /\ C(r).reads <= 1 /\ S(r).reads <= 1 /\ Len(C(r).writing) <= 1
        /\ r \notin File => Len(S(r).writing) <= 1
    BY <2>1 DEF RequestsInv, ReadsInv, WritesInv
  <2>3. ASSUME r \in File PROVE Len(S(r).writing) <= 1
    <3>a. PICK a \in {0, 1} : a = Some(Answered(r)) BY SomeIs
    <3>p. PICK p \in Nat : p = Len(S(r).posted) BY <2>1, EndFacts
    <3>w. PICK w \in Nat : w = Len(S(r).writing) BY <2>1, EndFacts
    <3>1. a + p + w <= 1
      BY <2>1, <2>3, <3>a, <3>p, <3>w DEF RequestsInv, WritesInv, Busy
    <3>2. w <= 1 BY <3>1
    <3>3. QED BY <3>w, <3>2
  <2>4. QED BY <2>2, <2>3
<1>2. QED BY <1>1, InvariantHolds, PTL

\* A step takes the next chunk of a file, or none.
NextChunk == \A r \in Request : received'[r] \in {received[r], received[r] + 1}

LEMMA NextChunkStep ==
    ASSUME IInv, Next
    PROVE  NextChunk
<1>1. ASSUME received' = received PROVE NextChunk BY <1>1 DEF NextChunk
<1>2. ASSUME NEW n \in Node, NEW r \in Request, GetFile_handle_response(n, r)
      PROVE  NextChunk
  <2>m. PICK m : m = Head(receive_queue[n]) OBVIOUS
  <2>1. receive_queue[n] # <<>> /\ ~m.t_flag /\ r \in File
    BY <1>2, <2>m DEF GetFile_handle_response, Responded, Popped
  <2>2. PICK h \in Handlers(n) : h.request = r
    BY <1>2 DEF GetFile_handle_response, Responded
  <2>3. m \in Answers(r) BY <2>m, <2>1, <2>2, HandlerIsOwn
  <2>4. m.chunk = received[r] + 1 BY <2>1, <2>3 DEF IInv, RequestsInv, ChunksInv
  <2>5. received' = [received EXCEPT ![r] = m.chunk]
    BY <1>2, <2>m DEF GetFile_handle_response
  <2>6. QED BY <2>4, <2>5 DEF NextChunk, IInv, TypeOK
<1>3. ASSUME NEW n \in Node, send_thread(n) \/ dispatcher_thread(n) \/ crash(n)
      PROVE  NextChunk
  <2>1. CASE send_thread(n) \/ crash(n)
    BY <1>1, <2>1 DEF send_thread, write_to, write, crash, files
  <2>2. CASE dispatcher_thread(n)
    BY <1>1, <1>2, <2>2
       DEF dispatcher_thread, no_handler, handle_request, handle_request_unanswered,
           forward_request, GetFile_handle_request, handle_response,
           handle_forwarded_response, files
  <2>3. QED BY <1>3, <2>1, <2>2
<1>4. ASSUME NEW r \in Request, create_request(r) \/ clean_up(r) \/ connections(r)
      PROVE  NextChunk
  BY <1>1, <1>4
     DEF create_request, clean_up, clean, connections, connected, connection_refused,
         handle_new_connection, chunk_written, chunk_failed, on_write, Session_step, files
<1>5. ASSUME NEW r \in Request, NEW e \in End, asio_threads(r, e)
      PROVE  NextChunk
  BY <1>1, <1>5
     DEF asio_threads, queue_message, packet_send_done, packet_send_failed,
         handle_read_message, read_failed, Session_step, files
<1>6. QED BY <1>3, <1>4, <1>5 DEF Next

(* The chunks of a file are written in the order in which they were read,  *)
(* and none is left out: GetFile::handle_response writes whatever chunk    *)
(* its handler is given.                                                   *)
THEOREM ChunksAreInOrder == Spec => ChunksInOrder
<1>1. ASSUME IInv, [Next]_vars PROVE [NextChunk]_vars
  BY <1>1, NextChunkStep
<1>2. QED BY <1>1, InvariantHolds, PTL DEF Spec, ChunksInOrder, NextChunk

-----------------------------------------------------------------------------
(* What the objects see of each other: the steps of Exchange.              *)

\* the state of the object that made a request
Maker(r) == object[Parent(r)[1]][Parent(r)[2]]

\* as long as there is a handler, the object that made the request waits
HandlersWait ==
    \A n \in Node : \A h \in active_handlers[n] :
      h.request \notin File => Maker(h.request) # "done"

\* nothing reaches the receiver of a file that is complete
CompleteInv(r) ==
    object[r]["client"] = "done" =>
      C(r).reads = 0 /\ Answers(r) = {} /\ object[r]["server"] # "none"

WaitingInv == HandlersWait /\ \A r \in File : CompleteInv(r)

Simulated == WaitingInv' /\ [EX!Next]_(EX!vars)

LEMMA Parents ==
    ASSUME NEW r \in Request
    PROVE  \/ Forwarded(r) = {} /\ Parent(r) = <<r, "client">>
           \/ \E q \in Request \ File :
                /\ Relayed[q] = r /\ Forwarded(r) = {q} /\ r \notin File
                /\ Parent(r) = <<q, "server">>
<1>1. CASE Forwarded(r) = {} BY <1>1 DEF Parent
<1>2. CASE Forwarded(r) # {}
  <2>1. PICK q \in Request \ File : Relayed[q] = r BY <1>2 DEF Forwarded
  <2>2. Relayed[q] # NoRequest /\ r \notin File BY <2>1, RelayedAssumption
  <2>3. Forwarded(r) = {q} BY <2>1, <2>2, RelayedAssumption DEF Forwarded
  <2>4. Parent(r) = <<q, "server">> BY <1>2, <2>3 DEF Parent
  <2>5. QED BY <2>1, <2>2, <2>3, <2>4
<1>3. QED BY <1>1, <1>2

\* The handlers wait when an object is changed.
LEMMA HandlersWaitKept ==
    ASSUME TypeOK, TypeOK', HandlersWait, NEW r \in Request, NEW e \in End, NEW state,
           object' = With(<<r, e>>, state),
           \A n \in Node : \A h \in active_handlers'[n] :
             /\ h \in active_handlers[n] \/ Parent(h.request) = <<r, e>>
             /\ state = "done" /\ h.request \notin File => Parent(h.request) # <<r, e>>
    PROVE  HandlersWait'
<1> SUFFICES ASSUME NEW n \in Node, NEW h \in active_handlers'[n], h.request \notin File
             PROVE  Maker(h.request)' # "done"
  BY DEF HandlersWait
<1>1. h.request \in Request BY DEF TypeOK
<1>2. PICK q \in Request, d \in End : Parent(h.request) = <<q, d>>
  BY <1>1, Parents, TheEnds
<1>3. Maker(h.request) = object[q][d] /\ Maker(h.request)' = object'[q][d]
  BY <1>2 DEF Maker
<1>4. CASE q = r /\ d = e BY <1>2, <1>3, <1>4, ObjectChanged
<1>5. CASE ~(q = r /\ d = e)
  <2>1. object'[q][d] = object[q][d] BY <1>5, ObjectChanged
  <2>2. h \in active_handlers[n] BY <1>2, <1>5
  <2>3. QED BY <1>3, <2>1, <2>2 DEF HandlersWait
<1>6. QED BY <1>4, <1>5

\* The receiver of a complete file stays alone.
LEMMA CompleteKept ==
    ASSUME TypeOK, WaitingInv,
           \A r \in File :
             /\ object'[r]["client"] = "done" => object[r]["client"] = "done"
             /\ object'[r]["server"] = "none" => object[r]["server"] = "none"
             /\ object[r]["client"] = "done" =>
                  C(r)'.reads = C(r).reads /\ Answers(r)' \subseteq Answers(r)
    PROVE  \A r \in File : CompleteInv(r)'
  BY DEF WaitingInv, CompleteInv

\* A step that changes no object.
LEMMA QuietSimulated ==
    ASSUME TypeOK, WaitingInv, UNCHANGED <<transaction_id, object, source, received>>,
           \A n \in Node : active_handlers'[n] \subseteq active_handlers[n],
           \A r \in File :
             object[r]["client"] = "done" =>
               C(r)'.reads = C(r).reads /\ Answers(r)' \subseteq Answers(r)
    PROVE  Simulated
<1>1. HandlersWait' BY DEF WaitingInv, HandlersWait, Maker
<1>2. \A r \in File : CompleteInv(r)' BY CompleteKept
<1>3. UNCHANGED EX!vars BY DEF EX!vars
<1>4. QED BY <1>1, <1>2, <1>3 DEF Simulated, WaitingInv

\* A completion handler that starts no read.
LEMMA SessionSimulated ==
    ASSUME IInv, WaitingInv, Session_step, NEW r \in Request,
           \A q \in Request : q # r => session'[q] = session[q],
           r \in File => C(r)'.reads = C(r).reads \/ C(r).reads > 0
    PROVE  Simulated
<1>1. ASSUME NEW q \in File, object[q]["client"] = "done"
      PROVE  C(q)'.reads = C(q).reads /\ Answers(q)' \subseteq Answers(q)
  <2>1. q \in Request /\ C(q).reads = 0
    BY <1>1, FileAssumption DEF WaitingInv, CompleteInv
  <2>2. Answers(q)' = Answers(q) BY DEF Session_step, Answers
  <2>3. C(q)'.reads = C(q).reads BY <2>1 DEF C
  <2>4. QED BY <2>2, <2>3
<1>2. QED BY <1>1, QuietSimulated DEF IInv, Session_step, identifiers, files

LEMMA connectionsSimulated ==
    ASSUME IInv, WaitingInv, NEW r \in Request,
           connected(r) \/ connection_refused(r) \/ handle_new_connection(r)
    PROVE  Simulated
<1>1. C(r) \in EndState /\ S(r) \in EndState BY TypeOfEnds DEF IInv
<1>2. CASE connected(r)
  <2>1. /\ C(r)' = [C(r) EXCEPT !.socket = "open", !.posted = <<request_(r)>>]
        /\ \A q \in Request : q # r => session'[q] = session[q]
    BY <1>2, TheEnds DEF connected, IInv, TypeOK, C
  <2>2. C(r)'.reads = C(r).reads BY <1>1, <2>1 DEF EndState
  <2>3. QED BY <1>2, <2>1, <2>2, SessionSimulated DEF connected
<1>3. CASE connection_refused(r)
  <2>1. /\ C(r)' = [C(r) EXCEPT !.socket = "closed"]
        /\ \A q \in Request : q # r => session'[q] = session[q]
    BY <1>3, TheEnds, EndIsSet DEF connection_refused, IInv, C
  <2>2. C(r)'.reads = C(r).reads BY <1>1, <2>1 DEF EndState
  <2>3. QED BY <1>3, <2>1, <2>2, SessionSimulated DEF connection_refused
<1>4. CASE handle_new_connection(r)
  <2>1. C(r)' = C(r) /\ \A q \in Request : q # r => session'[q] = session[q]
    BY <1>4, TheEnds, EndIsSet DEF handle_new_connection, IInv
  <2>2. QED BY <1>4, <2>1, SessionSimulated DEF handle_new_connection
<1>5. QED BY <1>2, <1>3, <1>4

\* An end that is set without a read.
LEMMA EndSimulated ==
    ASSUME IInv, WaitingInv, Session_step, NEW r \in Request, NEW e \in End, NEW s,
           SetEnd(r, e, s), s.reads = session[r][e].reads
    PROVE  Simulated
<1>1. C(r)'.reads = C(r).reads /\ \A q \in Request : q # r => session'[q] = session[q]
  <2>1. CASE e = "client" BY <2>1, EndIsSet DEF IInv, C
  <2>2. CASE e = "server" BY <2>2, EndIsSet DEF IInv
  <2>3. QED BY <2>1, <2>2 DEF End
<1>2. QED BY <1>1, SessionSimulated

LEMMA asioSimulated ==
    ASSUME IInv, WaitingInv, NEW r \in Request, NEW e \in End,
           \/ queue_message(r, e) \/ packet_send_done(r, e)
           \/ packet_send_failed(r, e) \/ read_failed(r, e)
    PROVE  Simulated
<1>s. PICK s \in EndState : s = session[r][e] BY DEF IInv, TypeOK
<1>1. CASE queue_message(r, e)
  <2>m. PICK m : m = Head(s.posted) OBVIOUS
  <2>w. PICK w : w = IF s.packets = <<>> THEN Append(s.writing, m) ELSE s.writing
    OBVIOUS
  <2>t. PICK t : t = IF Direct(r, e)
                     THEN [s EXCEPT !.posted = Tail(s.posted),
                                    !.writing = Append(s.writing, m)]
                     ELSE [s EXCEPT !.posted = Tail(s.posted),
                                    !.packets = Append(s.packets, m), !.writing = w]
    OBVIOUS
  <2>1. t.reads = s.reads BY <2>t DEF EndState
  <2>2. SetEnd(r, e, t)
    <3>1. CASE Direct(r, e) BY <1>s, <1>1, <2>m, <2>t, <3>1 DEF queue_message
    <3>2. CASE ~Direct(r, e) BY <1>s, <1>1, <2>m, <2>w, <2>t, <3>2 DEF queue_message
    <3>3. QED BY <3>1, <3>2
  <2>3. QED BY <1>s, <1>1, <2>1, <2>2, EndSimulated DEF queue_message
<1>2. CASE packet_send_failed(r, e)
  <2>t. PICK t : t = [s EXCEPT !.writing = Tail(s.writing), !.socket = "closed"]
    OBVIOUS
  <2>1. SetEnd(r, e, t) /\ t.reads = s.reads
    BY <1>s, <1>2, <2>t DEF packet_send_failed, EndState
  <2>2. QED BY <1>s, <1>2, <2>1, EndSimulated DEF packet_send_failed
<1>3. CASE read_failed(r, e)
  <2>1. /\ e = "client" => C(r).reads > 0
        /\ e = "server" => C(r)' = C(r)
        /\ \A q \in Request : q # r => session'[q] = session[q]
    BY <1>3, EndIsSet DEF read_failed, IInv, C
  <2>2. QED BY <1>3, <2>1, SessionSimulated DEF read_failed, End
<1>4. CASE packet_send_done(r, e)
  <2>p. PICK p : p = Tail(s.packets) OBVIOUS
  <2>w. PICK w : w = IF p = <<>> THEN Tail(s.writing) ELSE <<Head(p)>> OBVIOUS
  <2>t. PICK t : t = [s EXCEPT !.packets = p, !.writing = w] OBVIOUS
  <2>1. session' = Delivered(r, e, t) /\ t.reads = s.reads
    BY <1>s, <1>4, <2>p, <2>w, <2>t DEF packet_send_done, EndState
  <2>2. ASSUME e = "client" PROVE C(r)'.reads = C(r).reads
    <3>1. C(r)' = t BY <2>1, <2>2, DeliveredEnds DEF IInv
    <3>2. QED BY <1>s, <2>1, <2>2, <3>1 DEF C
  <2>3. ASSUME e = "server" PROVE C(r)'.reads = C(r).reads
    <3>1. PICK inbox : C(r)' = [C(r) EXCEPT !.inbox = inbox]
      BY <2>1, <2>3, DeliveredEnds DEF IInv
    <3>2. C(r) \in EndState BY TypeOfEnds DEF IInv
    <3>3. QED BY <3>1, <3>2 DEF EndState
  <2>4. \A q \in Request : q # r => session'[q] = session[q]
    BY <2>1, DeliveredEnds DEF IInv
  <2>5. C(r)'.reads = C(r).reads BY <2>2, <2>3 DEF End
  <2>6. QED BY <1>4, <2>4, <2>5, SessionSimulated DEF packet_send_done
<1>5. QED BY <1>1, <1>2, <1>3, <1>4

\* A message is read, and none for the receiver of a complete file.
LEMMA handle_read_messageSimulated ==
    ASSUME IInv, WaitingInv, NEW r \in Request, NEW e \in End, handle_read_message(r, e)
    PROVE  Simulated
<1>s. PICK s \in EndState : s = session[r][e] BY DEF IInv, TypeOK
<1>m. PICK m : m = Head(s.inbox) OBVIOUS
<1>1. /\ s.reads > 0 /\ s.inbox # <<>> /\ s.inbox \in Seq(Message)
      /\ SetEnd(r, e, [s EXCEPT !.reads = s.reads - 1, !.inbox = Tail(s.inbox)])
      /\ receive_queue' = [receive_queue EXCEPT ![NodeAt(r, e)] = Append(@, m)]
      /\ UNCHANGED <<transaction_id, object, source, received, active_handlers>>
  BY <1>s, <1>m DEF handle_read_message, EndState, identifiers, files
<1>2. m \in Message /\ m.request = r /\ (e = "server" => m.t_flag = TRUE)
  <2>i. PICK inbox \in Seq(Message) : inbox = s.inbox BY <1>1
  <2>1. inbox # <<>> /\ m = Head(inbox) BY <1>m, <1>1, <2>i
  <2>2. PICK f : Carries(inbox, r, f) /\ (e = "server" => f = TRUE)
    <3>1. RequestsInv(r) BY DEF IInv
    <3>2. e = "client" => Carries(inbox, r, FALSE)
      BY <1>s, <2>i, <3>1 DEF RequestsInv, CarriesInv, C
    <3>3. e = "server" => Carries(inbox, r, TRUE)
      BY <1>s, <2>i, <3>1 DEF RequestsInv, CarriesInv, S
    <3>4. QED BY <3>2, <3>3 DEF End
  <2>3. Head(inbox) \in Message /\ Head(inbox).request = r /\ Head(inbox).t_flag = f
    BY <2>1, <2>2, CarriesTail
  <2>4. QED BY <2>1, <2>2, <2>3
<1>3. ASSUME NEW q \in File, object[q]["client"] = "done"
      PROVE  C(q)'.reads = C(q).reads /\ Answers(q)' \subseteq Answers(q)
  <2>1. q \in Request /\ C(q).reads = 0
    BY <1>3, FileAssumption DEF WaitingInv, CompleteInv
  <2>2. ~(q = r /\ e = "client") BY <1>s, <1>1, <2>1 DEF C
  <2>3. C(q)' = C(q)
    <3>1. CASE q = r BY <1>1, <2>2, <3>1, EndIsSet DEF IInv, End
    <3>2. CASE q # r BY <1>1, <2>1, <3>2, EndIsSet DEF IInv, C
    <3>3. QED BY <3>1, <3>2
  <2>4. Answers(q)' = Answers(q)
    <3>k. PICK k \in Node : k = Client[q] BY <2>1, Nodes
    <3>q. PICK Q \in Seq(Message) : Q = receive_queue[k] BY DEF IInv, TypeOK
    <3>1. receive_queue'[k] = Q \/ receive_queue'[k] = Append(Q, m)
      BY <1>1, <3>q DEF IInv, TypeOK
    <3>2. In(Append(Q, m), q, FALSE) = In(Q, q, FALSE)
      <4>1. ~(m.request = q /\ m.t_flag = FALSE) BY <1>2, <2>2 DEF End
      <4>f. PICK f : f = FALSE OBVIOUS
      <4>2. m \in Message /\ ~(m.request = q /\ m.t_flag = f) BY <1>2, <4>1, <4>f
      <4>3. In(Append(Q, m), q, f) = In(Q, q, f) BY <4>2, Appended
      <4>4. QED BY <4>f, <4>3
    <3>3. QED BY <3>k, <3>q, <3>1, <3>2 DEF Answers
  <2>5. QED BY <2>3, <2>4
<1>4. QED BY <1>1, <1>3, QuietSimulated DEF IInv

\* A message leaves the send queue.
LEMMA send_threadSimulated ==
    ASSUME IInv, WaitingInv, NEW n \in Node, send_thread(n)
    PROVE  Simulated
<1>m. PICK m : m = Head(send_queue[n]) OBVIOUS
<1>q. PICK Q \in Seq(Message) : Q = send_queue[n] BY DEF IInv, TypeOK
<1>1. /\ Q # <<>> /\ m = Head(Q) /\ Unique(Q)
      /\ UNCHANGED <<transaction_id, object, source, received, active_handlers,
                     receive_queue>>
  BY <1>m, <1>q
     DEF send_thread, write_to, write, identifiers, files, IInv, SendInv
<1>2. m \in Message /\ m \in In(Q, m.request, m.t_flag) BY <1>1, TailOfQueue
<1>r. PICK r \in Request : r = m.request BY <1>2 DEF Message
<1>3. CASE write_to(n)
  <2>1. SetEnd(r, "client", Connecting) /\ m.t_flag = TRUE
    BY <1>m, <1>r, <1>2, <1>3 DEF write_to, Connecting, Message
  <2>2. Asked(r) # {}
    <3>1. m \in In(send_queue[n], r, TRUE) BY <1>q, <1>2, <1>r, <2>1
    <3>2. n = Sender(r, TRUE) BY <3>1 DEF IInv, SendInv
    <3>3. QED BY <3>1, <3>2 DEF Sender, Asked
  <2>3. object[r]["server"] = "none"
    <3>1. C(r) = NoSession BY <2>2 DEF IInv, RequestsInv, ConnectInv
    <3>2. S(r) = NoSession BY <3>1 DEF IInv, RequestsInv, ConnectInv, NoSession
    <3>3. QED BY <3>2 DEF IInv, RequestsInv, RequestInv, NoSession
  <2>4. ASSUME NEW q \in File, object[q]["client"] = "done"
        PROVE  C(q)'.reads = C(q).reads /\ Answers(q)' \subseteq Answers(q)
    <3>1. q \in Request /\ q # r
      BY <2>3, <2>4, FileAssumption DEF WaitingInv, CompleteInv
    <3>2. session'[q] = session[q] BY <2>1, <3>1, TheEnds, EndIsSet DEF IInv
    <3>3. QED BY <1>1, <3>2 DEF C, Answers
  <2>5. QED BY <1>1, <2>4, QuietSimulated DEF IInv
<1>4. CASE write(n)
  <2>1. PICK s : SetEnd(r, "server", s) BY <1>m, <1>r, <1>4 DEF write
  <2>2. \A q \in Request : C(q)' = C(q)
    BY <2>1, TheEnds, EndIsSet DEF IInv, C
  <2>3. \A q \in File : C(q)'.reads = C(q).reads /\ Answers(q)' \subseteq Answers(q)
    BY <1>1, <2>2, FileAssumption DEF Answers
  <2>4. QED BY <1>1, <2>3, QuietSimulated DEF IInv
<1>5. QED BY <1>3, <1>4 DEF send_thread

-----------------------------------------------------------------------------
(* The objects.                                                            *)

\* What is known of a request that is made.
LEMMA MadeIs ==
    ASSUME TypeOK, NEW r \in Request, transaction_id[r] = 0, Make(r)
    PROVE  /\ {q \in Request : transaction_id'[q] # 0}
                = {q \in Request : transaction_id[q] # 0} \cup {r}
           /\ \A n \in Node : \A h \in active_handlers'[n] :
                h \in active_handlers[n] \/ h.request = r
<1>1. counter[Client[r]] + 1 # 0 BY Nodes DEF TypeOK
<1>2. transaction_id' = [transaction_id EXCEPT ![r] = counter[Client[r]] + 1]
  BY DEF Make
<1>3. active_handlers' = [active_handlers EXCEPT
        ![Client[r]] = @ \cup {[id |-> counter[Client[r]] + 1, request |-> r]}]
  BY DEF Make
<1>4. \A n \in Node : \A h \in active_handlers'[n] :
        h \in active_handlers[n] \/ h.request = r
  BY <1>3 DEF TypeOK
<1>5. QED BY <1>1, <1>2, <1>4 DEF TypeOK

\* An object that is not that of the receiver of a file, and not new.
LEMMA CompleteStays ==
    ASSUME TypeOK, WaitingInv, NEW r \in Request, NEW e \in End, NEW state,
           object' = With(<<r, e>>, state), state # "none",
           e = "client" /\ r \in File => state # "done",
           session' = session,
           \A q \in Request : Answers(q)' \subseteq Answers(q)
    PROVE  \A q \in File : CompleteInv(q)'
<1>1. ASSUME NEW q \in File
      PROVE  /\ object'[q]["client"] = "done" => object[q]["client"] = "done"
             /\ object'[q]["server"] = "none" => object[q]["server"] = "none"
             /\ C(q)'.reads = C(q).reads /\ Answers(q)' \subseteq Answers(q)
  <2>1. q \in Request BY FileAssumption
  <2>2. object'[q]["client"] = "done" => object[q]["client"] = "done"
    BY <2>1, TheEnds, ObjectChanged
  <2>3. object'[q]["server"] = "none" => object[q]["server"] = "none"
    BY <2>1, TheEnds, ObjectChanged
  <2>4. QED BY <2>1, <2>2, <2>3 DEF C
<1>2. QED BY <1>1, CompleteKept

LEMMA create_requestSimulated ==
    ASSUME IInv, TypeOK', WaitingInv, NEW r \in Request, create_request(r)
    PROVE  Simulated
<1>1. /\ transaction_id[r] = 0 /\ Forwarded(r) = {} /\ Make(r)
      /\ object' = With(<<r, "client">>, "waiting")
      /\ source' = source /\ received' = received
      /\ session' = session /\ receive_queue' = receive_queue
  BY DEF create_request, files
<1>2. HandlersWait'
  <2>1. Parent(r) = <<r, "client">> BY <1>1 DEF Parent
  <2>2. \A n \in Node : \A h \in active_handlers'[n] :
          h \in active_handlers[n] \/ Parent(h.request) = <<r, "client">>
    BY <1>1, <2>1, MadeIs DEF IInv
  <2>3. QED BY <1>1, <2>2, TheEnds, HandlersWaitKept DEF IInv, WaitingInv
<1>3. \A q \in File : CompleteInv(q)'
  BY <1>1, TheEnds, CompleteStays DEF IInv, Answers
<1>4. EX!Ask(r)
  <2>1. r \notin EX!Relay BY <1>1 DEF EX!Relay, Forwarded
  <2>2. object' = [object EXCEPT ![r]["client"] = "waiting"] BY <1>1 DEF With
  <2>3. QED BY <1>1, <2>1, <2>2, MadeIs DEF EX!Ask, IInv
<1>5. QED BY <1>2, <1>3, <1>4 DEF Simulated, WaitingInv, EX!Next

\* Objects that are lost are dropped.
LEMMA LostAreDropped ==
    ASSUME TypeOK, TypeOK', UNCHANGED <<transaction_id, source, received>>,
           NEW lost \in SUBSET (Request \X End),
           \A r \in Request, e \in End :
             object'[r][e] = IF <<r, e>> \in lost /\ Alive(<<r, e>>) THEN "gone"
                             ELSE object[r][e]
    PROVE  EX!Drop
<1> DEFINE kept(r) == [e \in End |->
             IF <<r, e>> \in lost /\ EX!Alive(object[r][e]) THEN "gone" ELSE object[r][e]]
<1>1. ASSUME NEW r \in Request PROVE object'[r] = kept(r)
  <2>1. object'[r] = [e \in End |-> object'[r][e]] BY DEF TypeOK
  <2>2. \A e \in End : object'[r][e] = kept(r)[e] BY DEF Alive, EX!Alive
  <2>3. QED BY <2>1, <2>2
<1>2. object' = [r \in Request |-> object'[r]] BY DEF TypeOK
<1>3. object' = [r \in Request |-> kept(r)] BY <1>1, <1>2
<1>4. EX!End = End BY DEF EX!End, End
<1>5. QED BY <1>3, <1>4 DEF EX!Drop

LEMMA cleanSimulated ==
    ASSUME IInv, TypeOK', WaitingInv, NEW r \in Request, NEW e \in End, clean(r, e)
    PROVE  Simulated
<1>1. /\ Alive(<<r, e>>) /\ object' = With(<<r, e>>, "gone")
      /\ UNCHANGED <<transaction_id, active_handlers, source, received, session,
                     receive_queue>>
  BY DEF clean, identifiers, files
<1>2. HandlersWait' BY <1>1, HandlersWaitKept DEF IInv, WaitingInv
<1>3. \A q \in File : CompleteInv(q)' BY <1>1, CompleteStays DEF IInv, Answers
<1>4. EX!Drop
  <2>1. \A q \in Request, d \in End :
          object'[q][d] = IF <<q, d>> \in {<<r, e>>} /\ Alive(<<q, d>>) THEN "gone"
                          ELSE object[q][d]
    BY <1>1, ObjectChanged DEF IInv
  <2>2. {<<r, e>>} \in SUBSET (Request \X End) OBVIOUS
  <2>3. QED BY <1>1, <2>1, <2>2, LostAreDropped DEF IInv
<1>5. QED BY <1>2, <1>3, <1>4 DEF Simulated, WaitingInv, EX!Next

\* A message is taken from the receive queue.
LEMMA PoppedAnswers ==
    ASSUME TypeOK, ReceiveInv, NEW n \in Node, Popped(n)
    PROVE  \A r \in Request : Answers(r)' \subseteq Answers(r)
<1>1. ASSUME NEW r \in Request PROVE Answers(r)' \subseteq Answers(r)
  <2>q. PICK Q \in Seq(Message) : Q = receive_queue[n] BY DEF TypeOK
  <2>1. Q # <<>> /\ Unique(Q) BY <2>q DEF Popped, ReceiveInv
  <2>2. \A x, f : In(Tail(Q), x, f) \subseteq In(Q, x, f) BY <2>1, TailOfQueue
  <2>3. receive_queue'[Client[r]] = IF Client[r] = n THEN Tail(Q)
                                    ELSE receive_queue[Client[r]]
    BY <2>q, Nodes DEF Popped, TypeOK
  <2>4. QED BY <2>q, <2>2, <2>3 DEF Answers
<1>2. QED BY <1>1

LEMMA no_handlerSimulated ==
    ASSUME IInv, WaitingInv, NEW n \in Node, no_handler(n)
    PROVE  Simulated
<1>1. /\ Popped(n)
      /\ UNCHANGED <<transaction_id, object, source, received, session>>
      /\ \A k \in Node : active_handlers'[k] \subseteq active_handlers[k]
  BY DEF no_handler, identifiers, files, IInv, TypeOK
<1>2. \A q \in Request : Answers(q)' \subseteq Answers(q)
  BY <1>1, PoppedAnswers DEF IInv
<1>3. QED BY <1>1, <1>2, FileAssumption, QuietSimulated DEF IInv, C

\* Nobody waits for a relay of a request that is not handled.
LEMMA NoRelayYet ==
    ASSUME IInv, NEW r \in Request, object[r]["server"] = "none",
           NEW n \in Node, NEW h \in active_handlers[n]
    PROVE  Parent(h.request) # <<r, "server">>
<1> SUFFICES ASSUME Parent(h.request) = <<r, "server">> PROVE FALSE
  OBVIOUS
<1>1. h.request \in Request BY DEF IInv, TypeOK
<1>2. h.id = transaction_id[h.request] /\ h.id # 0 BY DEF IInv, IdsInv
<1>3. r \in Request \ File /\ Relayed[r] = h.request BY <1>1, Parents
<1>4. Relayed[r] # NoRequest BY <1>1, <1>3, RelayedAssumption
<1>5. transaction_id[Relayed[r]] = 0
  BY <1>3, <1>4 DEF IInv, RequestsInv, AnswerInv
<1>6. QED BY <1>2, <1>3, <1>5

LEMMA handle_requestSimulated ==
    ASSUME IInv, TypeOK', WaitingInv, NEW n \in Node, NEW r \in Request,
           handle_request(n, r) \/ handle_request_unanswered(n, r)
    PROVE  Simulated
<1>1. PICK state \in {"waiting", "done"} :
        /\ Requested(n, r) /\ object' = With(<<r, "server">>, state)
        /\ UNCHANGED <<transaction_id, source, received, session>>
  BY DEF handle_request, handle_request_unanswered, identifiers, files
<1>2. /\ object[r]["server"] = "none" /\ transaction_id[r] # 0
      /\ \A q \in Request : Answers(q)' \subseteq Answers(q)
  BY <1>1, RequestIsNew, PoppedAnswers DEF Requested, IInv
<1>3. HandlersWait'
  <2>1. \A k \in Node : active_handlers'[k] \subseteq active_handlers[k]
    BY HandlersErased DEF handle_request, handle_request_unanswered, IInv
  <2>2. \A k \in Node : \A h \in active_handlers'[k] :
          h \in active_handlers[k] /\ Parent(h.request) # <<r, "server">>
    BY <1>2, <2>1, NoRelayYet
  <2>3. QED BY <1>1, <2>2, TheEnds, HandlersWaitKept DEF IInv, WaitingInv
<1>4. \A q \in File : CompleteInv(q)'
  BY <1>1, <1>2, TheEnds, CompleteStays DEF IInv
<1>5. EX!Handle(r) BY <1>1, <1>2 DEF EX!Handle, With
<1>6. QED BY <1>3, <1>4, <1>5 DEF Simulated, WaitingInv, EX!Next

LEMMA forward_requestSimulated ==
    ASSUME IInv, TypeOK', WaitingInv, NEW n \in Node, NEW r \in Request,
           forward_request(n, r)
    PROVE  Simulated
<1>1. /\ Requested(n, r) /\ r \notin File /\ Relayed[r] # NoRequest
      /\ object' = With(<<r, "server">>, "waiting") /\ Make(Relayed[r])
      /\ UNCHANGED <<source, received, session>>
  BY DEF forward_request, files
<1>2. /\ object[r]["server"] = "none" /\ transaction_id[r] # 0
      /\ \A q \in Request : Answers(q)' \subseteq Answers(q)
  BY <1>1, RequestIsNew, PoppedAnswers DEF Requested, IInv
<1>q. PICK q \in Request : q = Relayed[r] BY <1>1, RelayedAssumption
<1>3. transaction_id[q] = 0 /\ Parent(q) = <<r, "server">>
  <2>1. transaction_id[q] = 0 BY <1>1, <1>2, <1>q DEF IInv, RequestsInv, AnswerInv
  <2>2. r \in Forwarded(q) BY <1>1, <1>q DEF Forwarded
  <2>3. QED BY <2>1, <2>2, Parents
<1>4. HandlersWait'
  <2>1. \A k \in Node : \A h \in active_handlers'[k] :
          h \in active_handlers[k] \/ Parent(h.request) = <<r, "server">>
    BY <1>1, <1>q, <1>3, MadeIs DEF IInv
  <2>2. QED BY <1>1, <2>1, TheEnds, HandlersWaitKept DEF IInv, WaitingInv
<1>5. \A x \in File : CompleteInv(x)'
  BY <1>1, <1>2, TheEnds, CompleteStays DEF IInv
<1>6. EX!Forward(r)
  <2>1. {x \in Request : transaction_id'[x] # 0}
          = {x \in Request : transaction_id[x] # 0} \cup {q}
    BY <1>1, <1>q, <1>3, MadeIs DEF IInv
  <2>2. object' = [object EXCEPT ![r]["server"] = "waiting"] BY <1>1 DEF With
  <2>3. QED BY <1>1, <1>2, <1>q, <1>3, <2>1, <2>2 DEF EX!Forward
<1>7. QED BY <1>4, <1>5, <1>6 DEF Simulated, WaitingInv, EX!Next

LEMMA GetFile_handle_requestSimulated ==
    ASSUME IInv, TypeOK', WaitingInv, NEW n \in Node, NEW r \in Request,
           GetFile_handle_request(n, r)
    PROVE  Simulated
<1>1. /\ Requested(n, r) /\ r \in File /\ object' = With(<<r, "server">>, "waiting")
      /\ UNCHANGED <<transaction_id, active_handlers, received, session>>
      /\ write_file(r)
  BY DEF GetFile_handle_request, identifiers
<1>2. /\ object[r]["server"] = "none" /\ transaction_id[r] # 0
      /\ \A q \in Request : Answers(q)' \subseteq Answers(q)
  BY <1>1, RequestIsNew, PoppedAnswers DEF Requested, IInv
<1>3. HandlersWait' BY <1>1, TheEnds, HandlersWaitKept DEF IInv, WaitingInv
<1>4. \A q \in File : CompleteInv(q)'
  BY <1>1, <1>2, TheEnds, CompleteStays DEF IInv
<1>5. EX!Offer(r)
  <2>1. source[r] = 1 BY <1>2 DEF IInv, RequestsInv, AnswerInv
  <2>2. source' = [source EXCEPT ![r] = 2]
    BY <1>1, <2>1, FileAssumption DEF write_file
  <2>3. [q \in Request |-> source'[q] - 1]
          = [[q \in Request |-> source[q] - 1] EXCEPT ![r] = 1]
    <3>1. \A q \in Request :
            source'[q] - 1 = IF q = r THEN 1 ELSE source[q] - 1
      BY <2>2 DEF IInv, TypeOK
    <3>2. QED BY <3>1
  <2>4. object' = [object EXCEPT ![r]["server"] = "waiting"] BY <1>1 DEF With
  <2>5. QED BY <1>1, <1>2, <2>3, <2>4 DEF EX!Offer
<1>6. QED BY <1>3, <1>4, <1>5 DEF Simulated, WaitingInv, EX!Next

\* A response that finds its handler.
LEMMA RespondedTo ==
    ASSUME IInv, WaitingInv, NEW n \in Node, NEW r \in Request, Responded(n, r)
    PROVE  /\ Head(receive_queue[n]) \in Answers(r) /\ Client[r] = n
           /\ Caused(Head(receive_queue[n])) /\ Head(receive_queue[n]).request = r
           /\ Maker(r) \in {"waiting", "done"}
           /\ r \notin File => Maker(r) = "waiting"
<1>m. PICK m : m = Head(receive_queue[n]) OBVIOUS
<1>1. receive_queue[n] # <<>> /\ ~m.t_flag /\ Alive(Parent(r))
  BY <1>m DEF Responded, Popped
<1>2. PICK h \in Handlers(n) : h.request = r BY DEF Responded
<1>3. m.request = r /\ m \in Answers(r) BY <1>m, <1>1, <1>2, HandlerIsOwn
<1>4. Client[r] = n BY <1>2 DEF Handlers, IInv, IdsInv
<1>5. Identified(m)
  <2>1. m \in In(receive_queue[n], r, FALSE) BY <1>3, <1>4 DEF Answers
  <2>2. QED BY <2>1 DEF IInv, ReceiveInv
<1>6. Maker(r) \in {"waiting", "done"} BY <1>1 DEF Alive, Maker
<1>7. r \notin File => Maker(r) # "done"
  BY <1>2 DEF Handlers, WaitingInv, HandlersWait
<1>8. QED BY <1>m, <1>1, <1>3, <1>4, <1>5, <1>6, <1>7 DEF Identified

\* The handler of a response is erased.
LEMMA ErasedIsGone ==
    ASSUME IInv, NEW n \in Node, NEW r \in Request, Client[r] = n,
           active_handlers' = Erased(n, r)
    PROVE  \A k \in Node : \A h \in active_handlers'[k] :
             h \in active_handlers[k] /\ h.request # r
<1>1. \A k \in Node : active_handlers'[k] \subseteq active_handlers[k]
  BY HandlersErased DEF IInv
<1>2. \A h \in active_handlers'[n] : h.request # r
  BY DEF Erased, Pruned, IInv, TypeOK
<1>3. \A k \in Node : \A h \in active_handlers[k] : Client[h.request] = k
  BY DEF IInv, IdsInv
<1>4. QED BY <1>1, <1>2, <1>3

LEMMA handle_responseSimulated ==
    ASSUME IInv, TypeOK', WaitingInv, NEW n \in Node, NEW r \in Request,
           handle_response(n, r)
    PROVE  Simulated
<1>1. /\ Responded(n, r) /\ Popped(n) /\ r \notin File /\ Forwarded(r) = {}
      /\ object' = With(<<r, "client">>, "done") /\ active_handlers' = Erased(n, r)
      /\ UNCHANGED <<transaction_id, source, received, session>>
  BY DEF handle_response, Responded, identifiers, files
<1>2. \A q \in Request : Answers(q)' \subseteq Answers(q)
  BY <1>1, PoppedAnswers DEF IInv
<1>3. Parent(r) = <<r, "client">> BY <1>1 DEF Parent
<1>4. HandlersWait'
  <2>1. ASSUME NEW k \in Node, NEW h \in active_handlers'[k]
        PROVE  h \in active_handlers[k] /\ Parent(h.request) # <<r, "client">>
    <3>1. h \in active_handlers[k] /\ h.request # r
      BY <1>1, RespondedTo, ErasedIsGone
    <3>2. h.request \in Request BY DEF TypeOK
    <3>3. QED BY <3>1, <3>2, Parents
  <2>2. QED BY <1>1, <2>1, TheEnds, HandlersWaitKept DEF IInv, WaitingInv
<1>5. \A q \in File : CompleteInv(q)'
  BY <1>1, <1>2, TheEnds, CompleteStays DEF IInv
<1>6. EX!Receive(r)
  <2>1. object[r]["client"] = "waiting" BY <1>1, <1>3, RespondedTo DEF Maker
  <2>2. object[r]["server"] \in {"done", "gone"}
    BY <1>1, RespondedTo DEF Caused, Over
  <2>3. QED BY <1>1, <2>1, <2>2 DEF EX!Receive, EX!Over, With
<1>7. QED BY <1>4, <1>5, <1>6 DEF Simulated, WaitingInv, EX!Next

LEMMA handle_forwarded_responseSimulated ==
    ASSUME IInv, TypeOK', WaitingInv, NEW n \in Node, NEW r \in Request,
           handle_forwarded_response(n, r)
    PROVE  Simulated
<1>1. PICK q \in Forwarded(r) :
        /\ Responded(n, r) /\ Popped(n) /\ r \notin File
        /\ object' = With(<<q, "server">>, "done") /\ active_handlers' = Erased(n, r)
        /\ UNCHANGED <<transaction_id, source, received, session>>
  BY DEF handle_forwarded_response, Responded, identifiers, files
<1>2. \A x \in Request : Answers(x)' \subseteq Answers(x)
  BY <1>1, PoppedAnswers DEF IInv
<1>3. q \in Request \ File /\ Relayed[q] = r /\ Parent(r) = <<q, "server">>
  BY Parents DEF Forwarded
<1>4. HandlersWait'
  <2>1. ASSUME NEW k \in Node, NEW h \in active_handlers'[k]
        PROVE  h \in active_handlers[k] /\ Parent(h.request) # <<q, "server">>
    <3>1. h \in active_handlers[k] /\ h.request # r
      BY <1>1, RespondedTo, ErasedIsGone
    <3>2. h.request \in Request BY DEF TypeOK
    <3>3. QED BY <1>3, <3>1, <3>2, Parents
  <2>2. QED BY <1>1, <1>3, <2>1, TheEnds, HandlersWaitKept DEF IInv, WaitingInv
<1>5. \A x \in File : CompleteInv(x)'
  BY <1>1, <1>2, <1>3, TheEnds, CompleteStays DEF IInv
<1>6. EX!PassOn(q)
  <2>1. object[q]["server"] = "waiting" BY <1>1, <1>3, RespondedTo DEF Maker
  <2>2. object[r]["server"] \in {"done", "gone"}
    BY <1>1, RespondedTo DEF Caused, Over
  <2>3. Relayed[q] # NoRequest BY <1>3, RelayedAssumption
  <2>4. QED BY <1>1, <1>3, <2>1, <2>2, <2>3 DEF EX!PassOn, EX!Over, With
<1>7. QED BY <1>3, <1>4, <1>5, <1>6 DEF Simulated, WaitingInv, EX!Next

LEMMA GetFile_handle_responseSimulated ==
    ASSUME IInv, TypeOK', WaitingInv, NEW n \in Node, NEW r \in Request,
           GetFile_handle_response(n, r)
    PROVE  Simulated
<1>m. PICK m : m = Head(receive_queue[n]) OBVIOUS
<1>1. /\ Responded(n, r) /\ Popped(n) /\ r \in File
      /\ received' = [received EXCEPT ![r] = m.chunk]
      /\ IF m.chunk < LastNeeded(r)
         THEN /\ session' = [session EXCEPT ![r]["client"].reads = @ + 1]
              /\ UNCHANGED <<object, active_handlers>>
         ELSE /\ object' = With(<<r, "client">>, "done")
              /\ active_handlers' = Pruned(n)
              /\ UNCHANGED session
      /\ UNCHANGED <<transaction_id, source>>
  BY <1>m DEF GetFile_handle_response, Responded, identifiers
<1>2. /\ m \in Answers(r) /\ Client[r] = n /\ Caused(m) /\ m.request = r
      /\ Maker(r) \in {"waiting", "done"}
  BY <1>m, <1>1, RespondedTo
<1>3. object[r]["client"] = "waiting"
  <2>1. Parent(r) = <<r, "client">> BY <1>1, Parents
  <2>2. object[r]["client"] # "done" BY <1>1, <1>2 DEF WaitingInv, CompleteInv
  <2>3. QED BY <1>2, <2>1, <2>2 DEF Maker
<1>4. \A q \in Request : Answers(q)' \subseteq Answers(q)
  BY <1>1, PoppedAnswers DEF IInv
<1>5. Answers(r)' = {}
  <2>q. PICK Q \in Seq(Message) : Q = receive_queue[n] BY DEF IInv, TypeOK
  <2>1. Q # <<>> /\ Unique(Q) /\ Head(Q) = m
    BY <1>m, <1>1, <2>q DEF Popped, IInv, ReceiveInv
  <2>2. m.request = r /\ m.t_flag = FALSE BY <1>2 DEF Answers, In
  <2>3. In(Tail(Q), r, FALSE) = {} BY <1>1, <2>1, <2>2, TailOfQueue
  <2>4. receive_queue'[n] = Tail(Q) BY <1>1, <2>q DEF Popped, IInv, TypeOK
  <2>5. QED BY <1>2, <2>3, <2>4 DEF Answers
<1>6. /\ C(r).reads = 0 /\ object[r]["server"] # "none" /\ m.chunk = received[r] + 1
      /\ m.chunk \in 1..(source[r] - 1)
  BY <1>1, <1>2
     DEF IInv, RequestsInv, ReadsInv, AnswerInv, ChunksInv, Caused
<1>7. \A q \in Request, e \in End :
        ~(q = r /\ e = "client") => object'[q][e] = object[q][e]
  BY <1>1, TheEnds, ObjectChanged DEF IInv
<1>8. \A k \in Node : active_handlers'[k] \subseteq active_handlers[k]
  BY <1>1, HandlersErased DEF IInv
<1>9. HandlersWait'
  <2>1. CASE object' = object
    BY <1>8, <2>1 DEF WaitingInv, HandlersWait, Maker
  <2>2. CASE object' = With(<<r, "client">>, "done")
    <3>1. ASSUME NEW k \in Node, NEW h \in active_handlers'[k], h.request \notin File
          PROVE  Parent(h.request) # <<r, "client">>
      <4>1. h.request \in Request BY DEF TypeOK
      <4>2. QED BY <1>1, <3>1, <4>1, Parents
    <3>2. QED BY <1>8, <2>2, <3>1, TheEnds, HandlersWaitKept DEF IInv, WaitingInv
  <2>3. QED BY <1>1, <2>1, <2>2
<1>10. ASSUME NEW q \in File PROVE CompleteInv(q)'
  <2>1. q \in Request BY FileAssumption
  <2>2. CASE q # r
    <3>1. object'[q] = object[q]
      BY <1>1, <2>1, <2>2 DEF With, IInv, TypeOK
    <3>2. C(q)' = C(q) BY <1>1, <2>1, <2>2 DEF C, IInv, TypeOK
    <3>3. QED BY <1>4, <2>1, <3>1, <3>2 DEF WaitingInv, CompleteInv
  <2>3. CASE q = r /\ object' = object BY <1>3, <2>3 DEF CompleteInv
  <2>4. CASE q = r /\ session' = session
    <3>1. object'[r]["server"] # "none" BY <1>6, <1>7, TheEnds
    <3>2. QED BY <1>5, <1>6, <2>4, <3>1 DEF CompleteInv, C
  <2>5. QED BY <1>1, <2>2, <2>3, <2>4
<1>11. EX!Write(r)
  <2>1. received[r] \in Nat /\ source[r] \in Nat
    BY FileAssumption DEF IInv, TypeOK
  <2>2. received[r] < source[r] - 1 BY <1>6, <2>1
  <2>3. received' = [received EXCEPT ![r] = received[r] + 1] BY <1>1, <1>6
  <2>4. received'[r] = m.chunk BY <1>6, <2>3 DEF IInv, TypeOK
  <2>5. object' = IF received'[r] < LastNeeded(r) THEN object
                  ELSE [object EXCEPT ![r]["client"] = "done"]
    BY <1>1, <2>4 DEF With
  <2>6. QED BY <1>1, <1>3, <2>2, <2>3, <2>5 DEF EX!Write
<1>12. QED BY <1>9, <1>10, <1>11 DEF Simulated, WaitingInv, EX!Next

\* A chunk leaves the socket, and the next one is read.
LEMMA chunkSimulated ==
    ASSUME IInv, TypeOK', WaitingInv, NEW r \in Request,
           chunk_written(r) \/ chunk_failed(r)
    PROVE  Simulated
<1>1. /\ r \in File /\ \E failed : on_write(r, failed)
      /\ transaction_id' = transaction_id /\ received' = received
      /\ receive_queue' = receive_queue
  BY DEF chunk_written, chunk_failed, on_write, identifiers
<1>2. \A q \in Request : C(q)'.reads = C(q).reads
  <2>1. CASE chunk_written(r)
    <3>1. PICK s : session' = Delivered(r, "server", s) BY <2>1 DEF chunk_written
    <3>2. /\ \E inbox : C(r)' = [C(r) EXCEPT !.inbox = inbox]
          /\ \A q \in Request : q # r => session'[q] = session[q]
      BY <3>1, TheEnds, DeliveredEnds DEF IInv
    <3>3. C(r) \in EndState BY TypeOfEnds DEF IInv
    <3>4. QED BY <3>2, <3>3 DEF EndState, C
  <2>2. CASE chunk_failed(r)
    <3>1. PICK s : SetEnd(r, "server", s) BY <2>2 DEF chunk_failed
    <3>2. QED BY <3>1, TheEnds, EndIsSet DEF IInv, C
  <2>3. QED BY <2>1, <2>2
<1>3. Answers(r)' = Answers(r) /\ \A q \in Request : Answers(q)' = Answers(q)
  BY <1>1 DEF Answers
<1>4. CASE UNCHANGED <<object, source>>
  <2>1. \A k \in Node : active_handlers'[k] \subseteq active_handlers[k]
    BY <1>1, HandlersErased, Nodes DEF on_write, IInv
  <2>2. QED BY <1>1, <1>2, <1>3, <1>4, <2>1, FileAssumption, QuietSimulated DEF IInv
<1>5. CASE Alive(<<r, "server">>)
  <2>1. /\ write_file(r)
        /\ \/ UNCHANGED <<object, active_handlers>>
           \/ /\ object' = With(<<r, "server">>, "done")
              /\ active_handlers' = Pruned(Server[r])
    BY <1>1, <1>5 DEF on_write
  <2>2. HandlersWait'
    <3>1. CASE UNCHANGED <<object, active_handlers>>
      BY <3>1 DEF WaitingInv, HandlersWait, Maker
    <3>2. CASE /\ object' = With(<<r, "server">>, "done")
               /\ active_handlers' = Pruned(Server[r])
      <4>1. \A k \in Node : active_handlers'[k] \subseteq active_handlers[k]
        BY <3>2, HandlersErased, Nodes DEF IInv
      <4>2. ASSUME NEW k \in Node, NEW h \in active_handlers'[k]
            PROVE  Parent(h.request) # <<r, "server">>
        <5>1. h.request \in Request BY DEF TypeOK
        <5>2. QED BY <1>1, <5>1, Parents
      <4>3. QED BY <3>2, <4>1, <4>2, TheEnds, HandlersWaitKept DEF IInv, WaitingInv
    <3>3. QED BY <2>1, <3>1, <3>2
  <2>3. \A q \in File : CompleteInv(q)'
    <3>1. \A q \in Request :
            /\ object'[q]["client"] = object[q]["client"]
            /\ object'[q]["server"] = "none" => object[q]["server"] = "none"
      BY <2>1, TheEnds, ObjectChanged DEF IInv
    <3>2. QED BY <1>2, <1>3, <3>1, FileAssumption, CompleteKept DEF IInv
  <2>4. EX!Read(r)
    <3>1. source[r] \in Nat /\ Chunks \in Nat BY FileAssumption DEF IInv, TypeOK
    <3>2. \/ source' = source
          \/ source[r] - 1 < Chunks /\ source' = [source EXCEPT ![r] = source[r] + 1]
      BY <2>1, <3>1 DEF write_file
    <3>3. \/ source' = source
          \/ /\ source[r] - 1 < Chunks
             /\ [q \in Request |-> source'[q] - 1]
                  = [[q \in Request |-> source[q] - 1] EXCEPT ![r] = (source[r] - 1) + 1]
      <4>1. CASE source[r] - 1 < Chunks /\ source' = [source EXCEPT ![r] = source[r] + 1]
        <5>1. \A q \in Request :
                source'[q] - 1 = IF q = r THEN (source[r] - 1) + 1 ELSE source[q] - 1
          BY <3>1, <4>1 DEF IInv, TypeOK
        <5>2. QED BY <4>1, <5>1
      <4>2. QED BY <3>2, <4>1
    <3>4. \/ object' = object
          \/ object' = [object EXCEPT ![r]["server"] = "done"]
      BY <2>1 DEF With
    <3>5. object[r]["server"] \in {"waiting", "done"} BY <1>5 DEF Alive
    <3>6. QED BY <1>1, <3>3, <3>4, <3>5 DEF EX!Read, EX!Alive
  <2>5. QED BY <2>2, <2>3, <2>4 DEF Simulated, WaitingInv, EX!Next
<1>6. QED BY <1>1, <1>4, <1>5 DEF on_write

\* A process is killed, and its objects with it.
LEMMA crashSimulated ==
    ASSUME IInv, TypeOK', WaitingInv, NEW n \in Node, crash(n)
    PROVE  Simulated
<1>1. /\ \A r \in Request, e \in End :
           object'[r][e] = IF NodeAt(r, e) = n /\ Alive(<<r, e>>) THEN "gone"
                           ELSE object[r][e]
      /\ \A k \in Node : active_handlers'[k] \subseteq active_handlers[k]
      /\ UNCHANGED <<transaction_id, source, received>>
  BY DEF crash, identifiers, files, IInv, TypeOK
<1>2. HandlersWait'
  <2> SUFFICES ASSUME NEW k \in Node, NEW h \in active_handlers'[k], h.request \notin File
               PROVE  Maker(h.request)' # "done"
    BY DEF HandlersWait
  <2>1. h.request \in Request /\ h \in active_handlers[k] BY <1>1 DEF TypeOK
  <2>2. PICK q \in Request, d \in End : Parent(h.request) = <<q, d>>
    BY <2>1, Parents, TheEnds
  <2>3. object'[q][d] \in {object[q][d], "gone"} BY <1>1
  <2>4. QED BY <2>1, <2>2, <2>3 DEF WaitingInv, HandlersWait, Maker
<1>3. ASSUME NEW r \in File PROVE CompleteInv(r)'
  <2>1. r \in Request BY FileAssumption
  <2>2. C(r)' \in {C(r), Closed} /\ Answers(r)' \subseteq Answers(r)
    BY <2>1, CrashedEnds, CrashedQueues DEF IInv
  <2>3. /\ object'[r]["client"] = "done" => object[r]["client"] = "done"
        /\ object'[r]["server"] = "none" => object[r]["server"] = "none"
    BY <1>1, <2>1, TheEnds
  <2>4. Closed.reads = 0 BY DEF Closed, NoSession
  <2>5. QED BY <2>2, <2>3, <2>4 DEF WaitingInv, CompleteInv
<1>4. EX!Drop
  <2> DEFINE lost == {o \in Request \X End : NodeAt(o[1], o[2]) = n}
  <2>1. lost \in SUBSET (Request \X End) OBVIOUS
  <2>2. \A r \in Request, e \in End : <<r, e>> \in lost <=> NodeAt(r, e) = n OBVIOUS
  <2> HIDE DEF lost
  <2>3. QED BY <1>1, <2>1, <2>2, LostAreDropped DEF IInv
<1>5. QED BY <1>2, <1>3, <1>4 DEF Simulated, WaitingInv, EX!Next

LEMMA StepSimulated ==
    ASSUME IInv, WaitingInv, [Next]_vars
    PROVE  Simulated
<1>1. CASE UNCHANGED vars
  BY <1>1, QuietSimulated, FileAssumption
     DEF vars, identifiers, files, IInv, C, Answers
<1>2. CASE Next
  <2>1. TypeOK' BY <1>2, NextType
  <2>2. ASSUME NEW n \in Node, send_thread(n) \/ dispatcher_thread(n) \/ crash(n)
        PROVE  Simulated
    BY <2>1, <2>2, send_threadSimulated, no_handlerSimulated, crashSimulated,
       handle_requestSimulated, forward_requestSimulated, handle_responseSimulated,
       GetFile_handle_requestSimulated, GetFile_handle_responseSimulated,
       handle_forwarded_responseSimulated
       DEF dispatcher_thread
  <2>3. ASSUME NEW r \in Request, create_request(r) \/ clean_up(r) \/ connections(r)
        PROVE  Simulated
    BY <2>1, <2>3, create_requestSimulated, cleanSimulated, connectionsSimulated,
       chunkSimulated
       DEF clean_up, connections
  <2>4. ASSUME NEW r \in Request, NEW e \in End, asio_threads(r, e)
        PROVE  Simulated
    BY <2>4, asioSimulated, handle_read_messageSimulated DEF asio_threads
  <2>5. QED BY <1>2, <2>2, <2>3, <2>4 DEF Next
<1>3. QED BY <1>1, <1>2

(* What the objects of the processes see of each other is an exchange of   *)
(* requests and answers, and of the chunks of files: whatever the threads, *)
(* the sockets and the queues do, and whoever is killed (MessageHandler,   *)
(* MessageDispatcher, BoostSession, FindSuccessor, GetFile).               *)
THEOREM SessionsImplementExchange == Spec => ImplementsExchange
<1>1. Init => WaitingInv /\ EX!Init
  <2> SUFFICES ASSUME Init PROVE WaitingInv /\ EX!Init
    OBVIOUS
  <2>1. HandlersWait BY DEF Init, HandlersWait
  <2>2. \A r \in File : CompleteInv(r) BY TheEnds, FileAssumption DEF Init, CompleteInv
  <2>3. {r \in Request : transaction_id[r] # 0} = {} BY DEF Init
  <2>4. [r \in Request |-> source[r] - 1] = [r \in Request |-> 0] BY DEF Init
  <2>5. EX!Init BY <2>3, <2>4 DEF Init, EX!Init, EX!End, End
  <2>6. QED BY <2>1, <2>2, <2>5 DEF WaitingInv
<1>2. IInv /\ WaitingInv /\ [Next]_vars => WaitingInv' /\ [EX!Next]_(EX!vars)
  BY StepSimulated DEF Simulated
<1>3. QED BY <1>1, <1>2, InvariantHolds, PTL DEF Spec, ImplementsExchange, EX!Spec
=============================================================================
