# A TLA+ model of peerpaste

peerpaste is a peer-to-peer pastebin in C++: nodes form a Chord ring, look up
identifiers, and pass files from node to node along the ring. This directory
holds TLA+ modules that model the program, TLC configurations that check them
on small instances, and proofs checked by TLAPS.

## 1. Inventory of the system

| Component | Source | State | Operations |
|---|---|---|---|
| Program | `src/main.cpp`, `peerpaste.hpp` | started with `--create`, `--join` or neither | `init`, `join`, `create_ring`, `run`, `stop` |
| MessageHandler | `message_handler.hpp` | `active_messages_`, `active_handlers_`, `stabilize_flag_`, `check_predecessor_flag_` | chord loop (stabilise, check predecessor, clean), paste loop (broadcast), `handle_request`, `handle_response` |
| Routing table | `concurrent_routing_table.hpp` | `self_`, `predecessor_`, `successor_list_`, three `is_set` flags | getters, setters, `replace_successor_list`, `replace_after_successor`, `pop_front` |
| Message objects | `messaging_base.*`, `observable.*`, `message.hpp` | state, deadline, dependencies, promise, mutex | `check_state`, `RequestDestruction`, `handle_failed`, notifications |
| Lookup | `find_successor.cpp` | one object per relay | `find_successor`, `closest_preceding_node`, `forward_request`, `handle_forwarded_response` |
| Join | `join.cpp`, `query.cpp`, `get_successor_list.cpp` | the nested request under way | Query, then FindSuccessor, then GetSuccessorList |
| Maintenance | `stabilize.cpp`, `get_pred_and_succ_list.cpp`, `get_self_and_succ_list.cpp`, `notify.cpp`, `check_predecessor.cpp` | the nested request under way, the flags | Stabilize, Notification, CheckPredecessor |
| File list broadcast | `broadcast_file_list.cpp` | the peers a broadcast has visited, its GetFile objects | start, receive, pass on |
| File transfer and storage | `get_file.cpp`, `storage.*` | `files_`, `blocked_files_`, the `file_transfer` table, the files on disk | request, send chunks, receive chunks, resume, finalise, sync after a restart |
| Dispatcher and queues | `consumer.hpp`, `concurrent_queue.hpp` | receive queue, send queue | the receive thread, the send thread |
| Sessions and server | `boost_session.cpp`, `server.hpp` | socket, write queue, read buffer | accept, connect, framed read and write |
| Messages on the wire | `message.hpp`, `header.hpp`, `request_object.hpp`, `message_converter.hpp`, `proto/` | - | conversion to and from protobuf |
| ThreadPool | `thread_pool.*` | - | unused: built with no threads, every `submit` is commented out |

How they interact. The chord thread and the paste thread of a node create
request objects every one and two seconds. An object hands its request to the MessageHandler, which
stores a handler under the transaction id and puts the request in the send
queue; the send thread opens a TCP session per request. At the other end the
session puts the bytes in the receive queue, the dispatcher thread decodes them
and runs the `handle_request` of a fresh object, whose response goes back on
the same session. Back at the sender the dispatcher finds the handler and runs
`handle_response`, which notifies the object that contains the request: Join
and Stabilize chain their requests that way. `clean()` in the chord thread runs
`handle_failed` of every object whose deadline (ten seconds) has passed.

Hard behaviour: the two threads of a node interleave with the messages
of all others; answers are handled against a routing table that has changed
since the question; requests fail, are never answered or arrive late; nodes die
and come back with an empty table; a lookup is relayed by objects that wait for
each other.

### What makes each component correct

* **Lookup.** The answer is the first node at or after the identifier. A lookup
  never comes back to a node that relays it, since every relay waits for the
  next one. It ends.
* **Routing table and maintenance.** After joins and crashes the nodes that run
  form one circle with full successor lists. On the way there, a join does not
  open a gap between nodes that were there before. No step leaves a flag up
  that no object will lower, or the node stops stabilising.
* **Join.** It ends, whatever dies or is lost, and is released.
* **Message objects and MessageHandler.** No thread runs code of a destroyed
  object, no future is read before it is ready, an answer that has been handled
  is not undone by a deadline that passes meanwhile, and the threads do not
  wait for each other.
* **Files.** A node lists whole files only, sends what it has announced, never
  loses progress through a timeout or a crash, and in the end has every file.
* **Shared state of a node.** Whatever the chord thread does between two
  operations of a handler, the predecessor is not exchanged for one farther
  away, a check that was answered is not given up, a raised flag has somebody
  who will lower it, and the threads come back for more work.
* **Sessions.** One read and one write at a time on a socket, an answer finds
  its own request, chunks keep their order, and every session is closed.

## 2. Modules

| Module | What it models | Extends |
|---|---|---|
| `Routing` | identifiers, list operations, routing decisions (operators only) | |
| `Lookup` | one lookup on a ring at rest, with arbitrary list tails | `Routing` |
| `Chord` | nodes, their tables, flags and message objects, with joins, crashes, restarts, losses and timeouts | `Routing` |
| `Maintenance` | the chord thread and the dispatcher of one node, with its table, flags, Stabilize and CheckPredecessor objects, one operation at a time | `Routing` |
| `Files` | announcements, transfers, storage and database of a ring at rest | |
| `FileStore` | what `Files` promises: whole files are copied from nodes that have them (abstract) | |
| `Sessions` | queues, sessions, sockets and identifiers of messages among several processes | |
| `Exchange` | what `Sessions` promises to the objects: requests, answers and chunks without sockets and queues (abstract) | |
| `Messaging` | the threads, locks, references, promises and queues of one node with a Join | |
| `MCLookup`, `MCChord`, `MCMaintenance`, `MCFiles`, `MCMessaging`, `MCSessions` | instances for TLC | the module they are named after |
| `RoutingLemmas` | lemmas on the order of identifiers and on the list operations | `Routing` |
| `LookupProofs`, `ChordProofs`, `MaintenanceProofs`, `MessagingProofs` | theorems | the module they are named after |
| `SessionsProofs` | theorems, and that `Sessions` implements `Exchange` | `Sessions` |
| `FilesProofs` | theorems, and that `Files` implements `FileStore` | `Files` |
| `RingProofs` | theorems of `Chord` on a ring that one node joins | `ChordProofs` |

The reference definitions at the end of `Routing` (`IsSuccessorOf`, `IsNext`)
say what the set of nodes means by itself; `LookupCorrect`, `RingIntact` and
`Ideal` compare what the nodes compute with them.

A definition whose comment begins with "mutant" and whose name is that of
another one with a suffix (`create_file_truncated`) is a slip that could be
made in that definition. No module uses it. Put in place of the original it
makes TLC report a violation of the property that `PROJECT.json` names with it,
which shows that the property depends on the code at that place.

### Routing

A peer is its identifier, a natural number: identifiers are only compared, as
strings, so any numbers in the same order will do. 0 stands for the empty
identifier of a default-constructed `Peer`, which `resize()` fills lists with.
A successor list is a sequence. `between`, `closest_preceding_node`,
`find_successor`, `set_successor`, `replace_successor_list`,
`replace_after_successor` and `pop_front` are the functions of that name.

### Lookup

State: the ring, its successor lists, the node that has the request, the nodes
that relay it, the answer. Steps: `FindSuccessor::handle_request` with an
answer (`Respond`) or without (`forward_request`). Tables do not change, but
only the first entry of a list has to be right; the others are any members.

### Chord

* The routing table of node `n` is `self[n]`, `predecessor[n]` (`NoPeer` for
  the null pointer) and `successor_list[n]`. The flags have their names.
* An object of `active_messages_` that has a request of its own (Join,
  Stabilize, CheckPredecessor) is a record in a slot `session[n][s]`. Its
  current dependency is `step`; the message, with the session that carries it,
  is in the record too, because a request opens a connection of its own and its
  response comes back on it. A lookup that is relayed keeps the list of relays.
* One action per handler: `..._handle_request` at the receiver, `handle_..._notify`
  and `..._handle_response` at the sender, `..._handle_failed` when `clean()`
  finds the deadline passed. `stabilize` and `check_predecessor` are what the
  chord thread starts. `create_ring`, `join` start processes.
* `connection_refused`, `lose`, `delay`, `crash` and `send_to_blank` are what
  the network and the operating system do. A notification that is delayed
  beyond the deadline of its sender is kept in `late`, as it still changes the
  table where it arrives; no other request does.
* A node has an identifier from the address it is started with (`GivenId`) and
  one from the address others see it at (`ObservedId`), which `Query` tells it.

Abstractions. A handler is one atomic step: the dispatcher runs one at a time,
and the table has a lock per operation. The chord thread may slip in between
two operations of one handler; `Maintenance` is about that.
Deadlines are not ordered in time: an object expires when no response will
come, and a loss pays for a response that would have been late. Objects that
only answer requests are done when the handler ends. Broadcasts do not touch
the table and are in `Files`. Early returns that cannot be reached (a missing
self, an empty successor list, a request without its peer) are left out;
`TypeOK` and `MessagesOK`, both proved, are what makes them unreachable.

### Maintenance

One node that is a member of a ring. `predecessor`, `successor_list`,
`stabilize_flag`, `check_predecessor_flag` and `active_messages` are the members
of those names; each Stabilize has its `dependencies`, front first, and of each
dependency the model keeps whether it is valid, done or failed. `chord` and
`dispatcher` say where the two threads are; `todo` has the operations that are
left of the handler that a thread is in. A step is one operation of the table,
one store to a flag, or the insertion of a dependency, and a lock that a thread
would have to wait for is a guard: a CheckPredecessor that clean() checks, the
dependency whose response is handled, and the deque, which clean() holds from
its first step to its last.

What is merged: creating a Stabilize is one step, since it reads one thing, and
an answer that marks a dependency as done is one step with the branch that
`HandleNotification` takes. What other nodes answer is arbitrary within
`PredAndSuccLists` and `SelfAndSuccLists`. A deadline may have passed whenever
`clean()` looks.

`terminated` stands for two ways in which the process may end:
`handle_response_late`, an exception, and `any_of_next_freed`, the worst outcome
of the data race on `dependencies_` (the iterator of `std::any_of` points into
memory that the insertion has freed). The properties that say something must
happen allow for both.

### Files

One file name, as files are independent. A content is a sequence of blocks and
stands for its SHA-256 sum; one chunk carries one block. Per node: what is on
the `disk`, the `row` in `file_transfer`, the list `files_`, the GetFile object
(`transfer`) and the announcement that started at it (`broadcast`, one under
way at a time). The order in `StaticStorage` is kept: `create_file` opens the
file and then inserts the row, a chunk is written before its row is updated,
the sum is checked before the row is deleted. `crash_creating` and
`crash_writing` are kills between those steps, `crash` one elsewhere; `start`
runs `sync_files`. A chunk without data, which the sender adds when the last
block fills its buffer, is there; where it writes nothing it changes nothing.

`FileStore` is what this amounts to: a node gets the file whole, from a node
that has it, in one step (`Copy`), and a process that is killed is started again
with what is on its disk. `FS` in `Files` is the instance with the refinement
mapping: what a node keeps (`kept`) is the file on its disk if no row says that
it is being received, which is what `sync_files` lists after a restart.

### Sessions

Several processes, each with its send queue, its receive queue and its active
handlers. A request is made at most once and has one session with two ends; an
end has a socket, the number of reads under way, the posted writes, the
`send_packet_queue`, the messages being written, and the messages that have
arrived. A message is its header: request or response, its transaction
identifier, its correlational identifier, and the number of a chunk. Identifiers
are the counter of a process, so those of two processes may be equal, which the
digests of the code make unlikely: the model allows more than happens.

`Referenced` says what holds a `shared_ptr` to an end; a socket is closed when
nothing does any more (`Open`), and the other end notices (`PeerGone`). The
steps of the send thread are the three ways `run_send_internal` sends; those of
the asio threads are the completion handlers; the dispatcher runs
`handle_request` or `handle_response` of a lookup, of one that is relayed, or of
a file. A file goes in chunks: the next one is read when the one before is
written, and `Trailing` has the files whose last chunk is empty.

`Exchange` is what the objects see of all this: per request the objects at its
two ends (`none`, `waiting`, `done`, `gone`), the requests that are made, and per
file the chunks read and written. `EX` in `Sessions` is the instance: a request
is made when it has an identifier, `object` is the variable of that name, `read`
is one less than the next chunk of the sender (`source`), `written` is
`received`. An answer is told once (`Receive`), a forwarded request is
answered when its relay has been (`PassOn`), and a chunk is written only after
it has been read and before the file is complete (`Write`). In `Exchange` an
object that was removed (`gone`) counts as one that may have answered, since
neither module remembers whether it did.

### Messaging

One Join at the level of its threads. `owner` says who holds a mutex, and a
step ends wherever a thread may have to wait for one. An object is alive as
long as `active_messages_`, a live Join or the dispatcher refers to it;
`active_handlers` refers to objects weakly, as in the code. `promise` is a
dependency's `std::promise`, `expired` has the objects whose `time_point_` has
passed. `main` creates the Join before any thread runs, so the queues start
with its Query. The send queue is a set, as nothing depends on its order. The
paste thread, which only adds objects to `active_messages_`, is left out, and
so are `stop()` and the stabilisation that the chord thread starts.

## 3. Runs

`tlc -config X.cfg M` checks the configuration `X.cfg` of the module `M`.

| Run | Instance | Shows |
|---|---|---|
| `lookup` (`MCLookup.cfg`) | every ring of up to 4 machines, identifiers 1..9 (each machine's, and between, below and above them), every content of lists of 1 or 2 entries | lookups are right (`LookupCorrect`), never go round (`NoRelayCycle`), end |
| `join_settled` (`MCJoinSettled.cfg`) | nodes 1 and 3 settled, 2 joins through 3 | no gap opens (`RingIntact`), the ring becomes ideal (`Converges`) |
| `crash_one` (`MCCrash.cfg`) | nodes 1, 2, 3 settled, one of them dies | no message to a blank peer (`NoBlankTarget`), the other two close the ring |
| `restart` (`MCRestart.cfg`) | nodes 1 and 2 settled, one is killed; 2 can be started again with `--create` and runs two Stabilizes at once; lists of 3 | flags keep an owner (`FlagHasOwner`) and are lowered (`FlagLowered`); a survivor that runs out of successors sends to a blank peer and ends |
| `loss` (`MCLoss.cfg`) | node 1, which checks its predecessor and may die, is joined by 2; one message is lost or late | the Join ends (`JoinEnds`); once the two are in a circle, a stale check, a late notification or an expired Stabilize opens it only for a while (`Heals`) |
| `files_crash` (`MCFilesCrash.cfg`) | ring of 4, nodes 1 and 3 with different files of 2 and 3 blocks; 1 or 2 is killed once, one connection breaks | disk, rows and lists agree at every point |
| `files_delivered` (`MCFilesDelivered.cfg`) | ring of 3, node 1 has a file and is killed once, one connection breaks | every node gets the file (`Delivered`), and by copying whole files only (`ImplementsFileStore`) |
| `maintenance` (`MCMaintenance.cfg`) | node 4 between 2 and 6 with or without a predecessor, two Stabilizes, one CheckPredecessor, one notification from 1 or 3, the successor answers with nothing or with a nearer node 5 | table, flags and objects between two operations of the threads |
| `sessions` (`MCSessions.cfg`) | node 1 sends a lookup to 2, which may relay it to 3, and fetches a file from 2: two blocks that fill their chunks and an empty third chunk; 1 or 2 may be killed | answers, chunks, reads and writes keep apart; every session ends; the objects see an exchange and no more (`ImplementsExchange`) |
| `messaging` (`MCMessaging.cfg`) | one Join, two requests from other nodes | references, futures and the end of a Join |
| `files_mixed`, `messaging_stuck` | as above, without faults except one broken connection in `files_mixed` | a comment in the source that the code does not keep to, see section 6 |

Why the bounds are enough to be interesting. Three nodes are the fewest for
which a new node has a predecessor, a successor and, by its lookup, a relay;
two are enough for what concerns one node and its neighbour, and are used where
a second bound (overlapping objects, losses) makes the state space grow. Lists
of two entries have a first entry and a tail, and `resize` both cuts and fills
them. `MaxCrash` and `MaxLoss` count faults: liveness is about what happens
after the last one. In the code every node runs
CheckPredecessor; `Checkers` leaves it out of `join_settled` and `restart`, where
it would multiply the states; `crash_one` has it at every node, `loss` at the
node that is joined. `Heals` is not vacuous: in `loss` a closed circle of all
nodes is opened again by a step (the action property that it stays closed fails
there), and it holds only once the circle has closed (section 6).
`MaxStabilize` limits how many Stabilize objects a node has at a time; in the
code a new one may start as soon as the flag is lowered.
`MaxRequests` limits messages in the receive queue that concern the Join in no
way; in `Maintenance` it limits the notifications, of which one is enough to
meet the chord thread at every operation. Two Stabilizes are needed for the
timeout of one to meet the start of the next. In `Sessions` a relay has to have
two requests of one lookup under way, which takes three nodes. Two blocks are
the fewest for which an offset can lie inside a file, and the two files differ
in length so that a mixture can have the right size.

`CHECK_DEADLOCK FALSE` is set where the system may really stop: a lookup that
is answered, a ring in which no process runs any more, a node whose threads
wait for each other, a node that has no object left to create.

### Fairness

Chord: the chord thread loops as long as the process runs, so `stabilize` and
`check_predecessor` are weakly fair per node; the send thread, the network
threads and the dispatcher handle what is under way, and `clean()` runs every
second, so the steps of each object are weakly fair. Users start the
processes they intend to. Faults are never forced. Files: the paste thread
announces every two seconds, objects make progress, killed processes are
started again. Messaging: the operating system runs each thread; the dispatcher
has strong fairness because the chord thread holds a lock for moments only and
then sleeps for a second, so a thread that waits for it gets it in the end. The
clock advances. Nothing makes another node answer. Maintenance: the same for
its two threads, and an object that `clean()` looks at for ever is found to be
expired at last (strong fairness of `check_state_expired`: time goes on, but the
deadline need not have passed at any given look). Sessions: the threads of a
process run, what has been started on a socket completes or fails, and every
object is done or expires; nothing makes a node ask.

## 4. Proofs

`tlapm` checks them with Z3, Zenon and, for the temporal steps, LS4. Each
invariant is proved in the same way: an inductive invariant `IInv` holds
initially, every step preserves it (one proof step per action, in lemmas for
groups of actions), and it implies the property.

| Theorem | Says |
|---|---|
| `LookupTypeCorrect`, `LookupIsCorrect`, `LookupHasNoRelayCycle` | `TypeOK`, `LookupCorrect`, `NoRelayCycle` for every set of machines, identifiers and list length |
| `ChordTypeCorrect` | `TypeOK` of `Chord` |
| `FlagsHaveOwners` | `FlagHasOwner`: joins, crashes, restarts, losses and overlapping Stabilizes in any number |
| `MessagesMatch` | `MessagesOK`: a message is a request that its object makes, or the answer to it, with the peers its handler takes from it (see below) |
| `JoinKeepsTheRing`, `JoinNeverSendsToBlank` | `RingIntact`, `NoBlankTarget` while one node joins a ring of any size and nothing fails (`LoneJoin`), for any list length and number of Stabilizes |
| `FilesTypeCorrect`, `SentIsAnnounced`, `RowsAreOnDisk`, `ListedFilesAreWhole` | `TypeOK`, `SourceIsAnnounced`, `RowIsOnDisk`, `ListedIsWhole` for any ring, files and number of kills and losses |
| `OffsetsOnlyGrow` | the action property `ProgressKept` |
| `FilesImplementFileStore` | `ImplementsFileStore`: each step of `Files` is a step of `FileStore` or changes nothing there |
| `TypeCorrect`, `FlagsOwned` | `TypeOK`, `FlagsHaveOwners` of `Maintenance`, for any objects, answers and number of notifications |
| `OnlyNearerPredecessors`, `AnswersCount` | the action properties `PredecessorRectified`, `AnswerCounts` |
| `MessagingTypeCorrect`, `ObjectsOutliveTheirHandlers`, `NotifiedFuturesAreReady` | `TypeOK`, `RunsWhatLives`, `FutureReady` of `Messaging`, for any number of requests of other nodes |
| `JoinsStaySuccessful` | the action property `SuccessKept` |
| `TypesHold`, `AnswersFindTheirRequest`, `SocketsDoOneThing` | `TypeOK`, `OwnAnswer`, `OneAtATime` of `Sessions`, for any requests, chains of relays, number of chunks and killed processes |
| `ChunksAreInOrder` | the action property `ChunksInOrder` |
| `SessionsImplementExchange` | `ImplementsExchange`: each step of `Sessions` is a step of `Exchange` or changes nothing there |

* **Lookup.** `IInv` adds to the type that the first successors are right, and
  that the request has moved clockwise: each relay `v` satisfies
  `between(v, at, id)`. That is why it cannot come back to one, and the proof
  needs only the order of identifiers (`RoutingLemmas`: how `between` behaves
  on an arc, that a chosen peer lies between the node and the identifier).
  Correctness is in `IInv` too: when a node answers, its first successor is
  its neighbour in the ring.
* **Chord.** `IInv` is `TypeOK`, `NamesOK` (a node goes by its given or its
  observed identifier), `MessagesOK` and `FlagHasOwner`. `MessagesOK` says that
  an object waits for a request of its own kind; that a lookup asks for the
  identifier its own node is observed at, a notification names its sender and
  the other requests carry no peer (`RequestOK`); and that an answer has what
  the request that waits for it needs: the observed identifier, one successor,
  a list that is not empty, nothing, or a peer followed by its list
  (`AnswerOK`). So the fallback of Stabilize for a predecessor without a list
  (`rest` in `handle_get_pred_and_succ_list_notify`) is never taken. Type
  correctness needs `MessagesOK`, as the handlers store the peers they find. It
  was checked with TLC on the instances of `restart`, `loss`, `crash_one` and
  `join_settled` before the proof. Nearly all actions change one session, and
  the lemma `SessionStep` reduces them to what they do to the tables and to
  `OwnersKept`.
* **The ring during a join.** `RingProofs` assumes `LoneJoin`: one node (`Joiner`)
  is not in the settled ring and may join it, through any member and with any
  pair of addresses, and nothing crashes or is lost. `join_settled` is an
  instance. Both hypotheses are needed: with two nodes that join in the same gap
  `RingIntact` is false (section 6), and lost answers or crashes use up lists.
  `RingInv` says of each list that its first entry, and of each predecessor that
  it, leaves out no member (`SuccessorInv`, `PredecessorInv`), and of each message
  what its receiver will make of it (`AnyMessage`). The hard case is a settled
  node that drops the Joiner again, because the Joiner, not yet notified, answers
  with an empty list: the next entry then has to be the Joiner's successor. So
  `PlacedInv` says that until the Joiner is notified either no settled node has
  heard of it and its own list holds members only (`Unknown`, `Fresh`) or every
  list with the Joiner in front goes on with the Joiner's successor (`Placed`).
  That a node drops one successor only and not two (`EmptyInv`) rests on
  `SequentialInv`: as long as the Joiner has no predecessor no Stabilize expires,
  so no node has two of them that wait for a list. That the `Unknown` state ends
  in a `Placed` one rests on the lookup (`Follows`). Before the proof `RingInv`
  was checked with TLC on a ring of two, with overlapping Stabilizes.
* **Files.** That a sender sends what it announced is not inductive. It needs
  that who has announced, or is asked, has the whole file and no row
  (`SendersHold`), now or when it is started again, that a node lists what is
  on its disk (`ListsWhatItHas`), that a receiver has a row that is not ahead
  of it (`Receiving`), and that a file without a row is one of the originals or
  empty (`CompleteIsWhole`).
* **FileStore.** To the invariant of `Files` the refinement adds that a running
  node lists all it keeps and nothing else (`ListsAll`). A chunk, a row or an
  announcement is a stutter; the last step of a transfer is a `Copy`, because
  what is finalised has the sum of the file requested and the node that
  announced it keeps that file.
* **Maintenance.** `FlagsHaveOwners` is not inductive. It needs to know what is
  left of each handler: `ChordInv` (clean() keeps the object it is at, and what
  is left of its `handle_failed` is one of few sequences), `DispatcherInv` (so
  it is for `HandleNotification`, whose object has been created),
  `WaitingInv` (an answer to a notification can only come when the Stabilize has
  put one into its dependencies) and, for the flags, that a Stabilize that is
  valid and has not notified yet owns the raised flag (`StabilizeFlagInv`).
  `PredecessorRectified` needs `RectifyInv`: the chord thread can only take the
  predecessor away between the comparison and the assignment, never put another
  one there.
* **Messaging.** The invariant says who holds each mutex at each point of the two
  threads (`LocksInv`), that `clean()` looks at a Join it keeps and at its
  dependency only while the Join is not done (`CleanInv`), and that the
  dispatcher refers to the object it runs, which is the dependency of the Join
  until `HandleNotification` replaces it: at most one handler is registered, the
  one of the current dependency, and it is erased while it runs
  (`DispatcherInv`). So a dependency that the Join drops lives on in the
  dispatcher, and a notification finds its own future.
* **Sessions.** None of the properties is inductive, and none can be proved
  without most of the others, because the two ends, the queues and the handlers
  constrain each other. `SendInv` and `ReceiveInv`: a message is only in the
  queue of the process that sends or receives it, a request and a chunk once,
  and it carries the identifier of its request (`Identified`; `CarriesInv` says
  so for what is inside a session). `IdsInv`: identifiers are unique in one
  process, and its handlers are those of its own requests; with `Identified`
  that is `OwnAnswer`. `ConnectInv` orders the coming into being of the two ends,
  `RequestInv` says that a request is in one place at most, `AnswerInv` that
  nothing comes back before it is handled. `WritesInv` counts the chunks that are
  read from the file and not yet written (`Busy(r) <= 1`): a file is written with
  `write_direct`, which has no queue, so this is why its writes do not overlap.
  `ChunksInv` balances a transfer: as long as the client reads, the chunks taken,
  those that have arrived and the busy one add up to what the sender has read,
  and those in the inbox are numbered without a gap. Before the proof `IInv` was
  checked with TLC on a small instance.
* **Exchange.** `Identified` also says where a message comes from (`Caused`): a
  response exists only when the object that serves its request is done or gone, a
  chunk only when it has been read. That makes `Receive`, `PassOn` and `Write`
  possible in `Exchange` when the dispatcher takes the message. The refinement
  adds `WaitingInv`: no registered handler of a lookup belongs to an object that
  is done (`HandlersWait`), and once a file is complete its receiver neither reads
  nor has a chunk left to handle (`CompleteInv`). Everything the send thread, the sockets and the asio threads do
  is a stutter, except that the end of a write reads the next chunk; a crash is a
  `Drop` of the objects of its process.

Assumptions are the named `ASSUME`s of the modules: `NoPeer`, `NoFile` and
`NoRow` are no value of theirs, machines have different addresses, the settled
ring is in ring order, lists have at least one entry, a file is sent in at
least one chunk, and an empty trailing chunk has another before it
(`FileAssumption`: the sender adds it when the last block fills its chunk). TLC
evaluates them in each run.

Only model-checked: everything that says "eventually" (`LookupTerminates`,
`Converges`, `Heals`, `FlagLowered`, `JoinEnds`, `Delivered`,
`JoinReleased`, `FlagsLowered`, `NothingHangs`, `SessionsEnd`), which rests on
fairness and ENABLED and is outside what this prover handles. `NoBlankTarget`
with crashes is only checked (`crash_one`): it holds for the one crash of that
run, and not for any number, since enough crashes or losses use up a successor
list.

## 5. What is not modelled

* An address with several endpoints. Nodes know each other by the numeric
  address a connection came from, which has one; only the name a user gives to
  `--join` may resolve to several, and then `async_connect` closes the socket
  between two attempts and may abort the read that has been started on it.
  `Sessions` connects or is refused in one step.
* The conversion of messages to protobuf, which copies field by field, and their
  framing by a length of four bytes.
* The locks and dependencies of a BroadcastFilelist, whose GetFile objects live
  in it.
* `wait_til_valid`, `is_valid` and the `is_set` flags of the table.
* `put`, `get` and `remove` of the storage, which only the test calls.
* Deadlines as numbers. In `Chord` and `Files` an object times out when it waits
  in vain; in `Messaging` and `Maintenance` a deadline may pass at any moment.
* Shutdown (`stop()`), logging, options, the debug visualisation.
* ThreadPool, which never runs a task; digests; tests and build files.

## 6. Where code and comments disagree

* `files_mixed`: `create_file` resumes at the offset in the row whatever file
  the row is about, so a transfer may continue behind the blocks of another
  version. The sum check keeps the mixture from being listed
  (`ListedIsWhole`); its row and its offset stay, though, and the file is asked
  for again, from there, with each announcement.
* `messaging_stuck`: `check_state` locks the Join and then its dependency; a
  response locks the dependency and then the Join. When both happen at once the
  chord thread and the dispatcher wait for each other, and the node handles no
  message any more (`consumer.hpp:57`). It needs a `clean()` just when the
  response to a Query, FindSuccessor or GetSuccessorList of the Join is handled.

Other behaviour the models reach, against which no comment speaks:

* A failed Join is not tried again; the node stays alone. So does one that has
  joined when, before its neighbour has it for a successor, a check of the
  neighbour's former predecessor drops it, or its own Stabilize fails: it drops
  its only successor. `Heals` is therefore stated for circles that are closed.
* `GetPredAndSuccList::handle_request` answers without any peer as long as it
  has no predecessor, where `stabilize.cpp:84` expects predecessor and list. A
  Stabilize that gets such an answer drops its successor, even if that node has
  just started and is well; for that reason `Converges` is stated for rings that
  have settled.
* Two nodes that join in the same gap can make a third one skip a member for a
  while, without any fault. In a ring of 1, 4 and 5 with lists of two, 2 and 3
  join. A notification of node 1 to the new node 2 is not answered, and its
  Stabilize lowers the flag of a newer one; so two requests for the list of node 4
  are under way. After the first answer 3 is in front of node 1's list, and it is
  put in front of the second answer too, whose first entry, 4, gives way to it. Node
  3, which has no predecessor yet, then answers without any peer and is dropped:
  node 1 goes on with 5. Later Stabilizes repair it. Hence `LoneJoin` in
  `JoinKeepsTheRing`.
* `handle_get_pred_and_succ_list_notify` puts the successor of the moment in
  front of the list of the node that was asked before (`stabilize.cpp:127`). When
  a Join has changed the successor meanwhile, that list is another node's. Later
  Stabilizes repair it.
* One Stabilize may drop two successors: the dispatcher handles an empty answer
  just when the chord thread gives the object up. And what one thread pops
  between another's `try_get_successor` and `replace_successor_list` comes back
  (`Maintenance`). Neither leaves the node without a successor (`TypeCorrect`).
* A Stabilize inserts into `dependencies_` without a lock while the chord thread
  may iterate over it, and the answer to a GetSelfAndSuccList that has just timed
  out sets a promise twice; both can end the process (`terminated`).
* A node that is started again before its neighbours have noticed its death may
  find itself as its own successor and stay in a ring of its own. It takes a
  neighbour that loses its predecessor to a check at that moment, so that its
  own list is used up too; no run has both a check and a node that comes back
  with `--join`.
* When failing successors have used up the list, the next one is a blank peer;
  the attempt to connect to it throws and ends the process (`send_to_blank`).
* The timeout of an old Stabilize lowers the flag of a newer one
  (`FlagHasOwner` tolerates that, as the flag is then down), and that of a
  CheckPredecessor drops a newer predecessor.
* `handle_failed` and a late response both set the promise; the second one
  throws and ends the process (`handle_response_late`).
* A process killed in `create_file` between opening the file and inserting its
  row leaves an empty file that it lists from then on and never replaces.

## 7. Plan

Done: `Routing`, `Lookup`, `Chord`, `Maintenance`, `Messaging`, `Files` with
`FileStore`, and `Sessions` with `Exchange`, all with proofs.

Next, in this order:

1. A specification of what a lookup promises in a ring that changes, and
   `Lookup` shown to implement it.
2. The dependencies of BroadcastFilelist: GetFile objects that outlive or are
   removed with the broadcast that started them.
3. `NoBlankTarget` with fewer crashes than list entries, and what two nodes that
   join the same gap still keep, first checked, then proved if an invariant can
   be found.
