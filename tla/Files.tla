------------------------------- MODULE Files --------------------------------
(***************************************************************************)
(* How a file spreads along the ring.  The paste thread of every node      *)
(* announces the files it has to its successor (BroadcastFilelist), each   *)
(* node passes the announcement on and asks the announcing node for what   *)
(* it lacks (GetFile), and StaticStorage keeps what has arrived so far,    *)
(* with a row of the database table file_transfer per unfinished file, so  *)
(* that a transfer can be resumed after a timeout or a restart.            *)
(*                                                                         *)
(* Files are independent of each other, so there is one file name.  Nodes  *)
(* may have different contents under it.  A content is a sequence of       *)
(* blocks, one block to a chunk, and stands for its own SHA-256 sum; a     *)
(* FileInfo (sum and size) is therefore a content too.  Offsets count      *)
(* blocks.  The ring is at rest: Succ is the successor of each node.       *)
(***************************************************************************)
EXTENDS Integers, Sequences, SequencesExt

CONSTANTS
    Node,
    Succ,       \* Succ[n]: the successor in the routing table of n
    Block,
    Original,   \* Original[n]: what users have put into the storage of n
    NoFile,
    NoRow,
    Killable,   \* bound: nodes whose process may be killed
    MaxCrash,   \* bound: how often processes are killed
    MaxLoss     \* bound: connections that break or announcements that are lost

Content == Seq(Block)

ASSUME NoFileAssumption == NoFile \notin Content
ASSUME NoRowAssumption == NoRow \notin Nat
ASSUME OriginalAssumption == Original \in [Node -> Content \cup {NoFile}]
ASSUME SuccAssumption == Succ \in [Node -> Node]
ASSUME BoundsAssumption ==
    Killable \subseteq Node /\ MaxCrash \in Nat /\ MaxLoss \in Nat

VARIABLES
    running,        \* the nodes whose process runs
    disk,           \* the file in the storage directory
    row,            \* bytes_written in the row of file_transfer
    files,          \* StaticStorage::files_, what the node has completely
    transfer,       \* the GetFile object that receives the file
    broadcast,      \* the announcement of each node that is under way
    crashes, losses \* how much of MaxCrash and MaxLoss is used

storage == <<disk, row, files>>
faults == <<crashes, losses>>
vars == <<running, storage, transfer, broadcast, faults>>

(* A GetFile object asks the node from for the content info.  leg is       *)
(*   "req"     the request is queued or travelling,                        *)
(*   "chunks"  the chunks of source up to offset end are on their way,     *)
(*             those before pos have arrived,                              *)
(*   "cut"     the same, but the connection is broken and any number of    *)
(*             them may be lost,                                           *)
(*   "void"    nothing will come,                                          *)
(*   "done"    the object is_done and waits for its destruction.           *)
(* As long as it exists, its token blocks the file.                        *)
NoTransfer == [leg |-> "none"]

GetFile(from, info, pos) ==
    [leg |-> "req", from |-> from, info |-> info, pos |-> pos,
     source |-> <<>>, end |-> 0]

NoBroadcast == [at |-> NoFile, peers |-> {}, info |-> NoFile]

Init ==
    /\ running = Node
    /\ disk = Original
    /\ row = [n \in Node |-> NoRow]
    /\ files = Original
    /\ transfer = [n \in Node |-> NoTransfer]
    /\ broadcast = [n \in Node |-> NoBroadcast]
    /\ crashes = 0
    /\ losses = 0

-----------------------------------------------------------------------------
(* StaticStorage.                                                          *)

\* mutant of sync_files: the rows of file_transfer are not looked at
sync_files_all(n) == disk[n]

\* sync_files: what is in the directory and not in file_transfer is complete
sync_files(n) == IF row[n] = NoRow THEN disk[n] ELSE NoFile

is_blocked(n) == transfer[n].leg # "none"

\* mutants of create_file: a partly received file is opened without ios::in,
\* its row is written anew, or the offset of a new file is not set
create_file_truncated(n, from, info) ==
    LET offset == IF row[n] = NoRow THEN 0 ELSE row[n]
    IN  /\ disk' = [disk EXCEPT ![n] = <<>>]
        /\ row' = [row EXCEPT ![n] = offset]
        /\ transfer' = [transfer EXCEPT ![n] = GetFile(from, info, offset)]

create_file_anew(n, from, info) ==
    /\ disk' = [disk EXCEPT ![n] = <<>>]
    /\ row' = [row EXCEPT ![n] = 0]
    /\ transfer' = [transfer EXCEPT ![n] = GetFile(from, info, 0)]

create_file_unset(n, from, info) ==
    /\ disk' = [disk EXCEPT ![n] = IF row[n] = NoRow THEN <<>> ELSE @]
    /\ row' = [row EXCEPT ![n] = IF @ = NoRow THEN 0 ELSE @]
    /\ transfer' = [transfer EXCEPT ![n] = GetFile(from, info, row[n])]

\* GetFile::create_request and create_file.  A new file is created empty, one
\* that has been partly received is resumed at the offset in its row.
create_file(n, from, info) ==
    LET offset == IF row[n] = NoRow THEN 0 ELSE row[n]
    IN  /\ disk' = [disk EXCEPT ![n] = IF row[n] = NoRow THEN <<>> ELSE @]
        /\ row' = [row EXCEPT ![n] = offset]
        /\ transfer' = [transfer EXCEPT ![n] = GetFile(from, info, offset)]

\* the block of a chunk, none if it was read at the end of the file
Chunk(source, offset) ==
    IF offset < Len(source) THEN <<source[offset + 1]>> ELSE <<>>

\* OfstreamWrapper::write
Written(content, offset, chunk) ==
    IF chunk = <<>>
    THEN content
    ELSE SubSeq(content, 1, offset) \o chunk
           \o SubSeq(content, offset + 2, Len(content))

\* mutant of Finalizes: only the sizes are compared
Finalizes_by_size(content, info) == Len(content) = Len(info)

\* finalize_file succeeds if the sums agree
Finalizes(content, info) == content = info

-----------------------------------------------------------------------------
\* the process of n starts, and StaticStorage with it
start(n) ==
    /\ n \notin running
    /\ running' = running \cup {n}
    /\ files' = [files EXCEPT ![n] = sync_files(n)]
    /\ UNCHANGED <<disk, row, transfer, broadcast, faults>>

\* run_paste_internal and BroadcastFilelist::create_request
announce(n) ==
    /\ n \in running
    /\ files[n] # NoFile
    /\ broadcast[n] = NoBroadcast
    /\ broadcast' = [broadcast EXCEPT
         ![n] = [at |-> Succ[n], peers |-> {n}, info |-> files[n]]]
    /\ UNCHANGED <<running, storage, transfer, faults>>

\* the announcement of node o has arrived at node m
Announced(o, m) ==
    /\ broadcast[o] # NoBroadcast
    /\ m = broadcast[o].at
    /\ m \in running

\* mutant of Wanted: m asks for files it has
Wanted_again(o, m) == m \notin broadcast[o].peers /\ ~is_blocked(m)

\* BroadcastFilelist::handle_request: m lacks the file and may ask for it
Wanted(o, m) ==
    /\ m \notin broadcast[o].peers
    /\ files[m] = NoFile
    /\ ~is_blocked(m)

\* BroadcastFilelist::handle_request at m, to the end: it stops at a node it
\* has visited, others ask for what they lack and pass it on
BroadcastFilelist_handle_request(o, m) ==
    /\ Announced(o, m)
    /\ broadcast' = [broadcast EXCEPT
         ![o] = IF m \in broadcast[o].peers
                THEN NoBroadcast
                ELSE [at |-> Succ[m], peers |-> @.peers \cup {m}, info |-> @.info]]
    /\ IF Wanted(o, m)
       THEN create_file(m, o, broadcast[o].info)
       ELSE UNCHANGED <<disk, row, transfer>>
    /\ UNCHANGED <<running, files, faults>>

\* GetFile::handle_request at the node that announced the file.  After the last
\* block a chunk without data follows if that block filled the buffer.
GetFile_handle_request(n) ==
    LET get == transfer[n] IN
    /\ get.leg = "req"
    /\ get.from \in running
    /\ IF files[get.from] = NoFile
       THEN transfer' = [transfer EXCEPT ![n].leg = "void"]
       ELSE LET source == disk[get.from] IN
            \E end \in {Len(source) - 1, Len(source)} :
              transfer' = [transfer EXCEPT
                ![n].leg = "chunks",
                ![n].source = source,
                ![n].end = IF get.pos <= end THEN end ELSE get.pos]
    /\ UNCHANGED <<running, storage, broadcast, faults>>

\* a chunk has arrived at n
Arrived(n) ==
    /\ n \in running
    /\ transfer[n].leg \in {"chunks", "cut"}
    /\ transfer[n].pos <= transfer[n].end

Received(n) ==
    Written(disk[n], transfer[n].pos, Chunk(transfer[n].source, transfer[n].pos))

\* how far the file is written after the chunk (tellp)
Told(n) == transfer[n].pos + Len(Chunk(transfer[n].source, transfer[n].pos))

\* GetFile::handle_response: more chunks are needed
GetFile_handle_response(n) ==
    /\ Arrived(n)
    /\ Told(n) < Len(transfer[n].info)
    /\ disk' = [disk EXCEPT ![n] = Received(n)]
    /\ row' = [row EXCEPT ![n] = transfer[n].pos]
    /\ transfer' = [transfer EXCEPT ![n].pos = @ + 1]
    /\ UNCHANGED <<running, files, broadcast, faults>>

\* GetFile::handle_response and finalize_file: that was the last chunk
finalize_file(n) ==
    /\ Arrived(n)
    /\ Told(n) >= Len(transfer[n].info)
    /\ disk' = [disk EXCEPT ![n] = Received(n)]
    /\ IF Finalizes(Received(n), transfer[n].info)
       THEN /\ files' = [files EXCEPT ![n] = transfer[n].info]
            /\ row' = [row EXCEPT ![n] = NoRow]
       ELSE /\ row' = [row EXCEPT ![n] = transfer[n].pos]
            /\ UNCHANGED files
    /\ transfer' = [transfer EXCEPT ![n].leg = "done"]
    /\ UNCHANGED <<running, broadcast, faults>>

\* mutant of clean: an object that waits in vain is kept
clean_done(n) ==
    /\ n \in running
    /\ transfer[n].leg = "done"
    /\ transfer' = [transfer EXCEPT ![n] = NoTransfer]
    /\ UNCHANGED <<running, storage, broadcast, faults>>

\* clean() removes an object that is done or waits in vain
clean(n) ==
    /\ n \in running
    /\ \/ transfer[n].leg \in {"cut", "void", "done"}
       \/ transfer[n].leg = "chunks" /\ transfer[n].pos > transfer[n].end
    /\ transfer' = [transfer EXCEPT ![n] = NoTransfer]
    /\ UNCHANGED <<running, storage, broadcast, faults>>

-----------------------------------------------------------------------------
(* What the network and the operating system do.                           *)

\* a node that is to be asked, or told, does not run
connection_refused(n) ==
    /\ transfer[n].leg = "req"
    /\ transfer[n].from \notin running
    /\ transfer' = [transfer EXCEPT ![n].leg = "void"]
    /\ UNCHANGED <<running, storage, broadcast, faults>>

announcement_refused(o) ==
    /\ broadcast[o] # NoBroadcast
    /\ broadcast[o].at \notin running
    /\ broadcast' = [broadcast EXCEPT ![o] = NoBroadcast]
    /\ UNCHANGED <<running, storage, transfer, faults>>

\* a connection breaks, or stalls until the receiver's deadline
lose(n) ==
    /\ losses < MaxLoss
    /\ \/ /\ transfer[n].leg \in {"req", "chunks"}
          /\ transfer' = [transfer EXCEPT ![n].leg = IF @ = "req" THEN "void" ELSE "cut"]
          /\ UNCHANGED broadcast
       \/ /\ broadcast[n] # NoBroadcast
          /\ broadcast' = [broadcast EXCEPT ![n] = NoBroadcast]
          /\ UNCHANGED transfer
    /\ losses' = losses + 1
    /\ UNCHANGED <<running, storage, crashes>>

\* the process of m is killed: its memory is gone, and so is every connection
Stop(m) ==
    /\ m \in Killable \cap running
    /\ crashes < MaxCrash
    /\ crashes' = crashes + 1
    /\ running' = running \ {m}
    /\ files' = [files EXCEPT ![m] = NoFile]
    /\ transfer' = [n \in Node |->
         IF n = m THEN NoTransfer
         ELSE IF transfer[n].leg = "chunks" /\ transfer[n].from = m
              THEN [transfer[n] EXCEPT !.leg = "cut"]
              ELSE transfer[n]]
    /\ UNCHANGED losses

crash(m) ==
    /\ Stop(m)
    /\ UNCHANGED <<disk, row, broadcast>>

\* killed inside create_file, after the file is opened and before its row is
\* inserted
crash_creating(o, m) ==
    /\ Announced(o, m)
    /\ Wanted(o, m)
    /\ row[m] = NoRow
    /\ disk' = [disk EXCEPT ![m] = <<>>]
    /\ broadcast' = [broadcast EXCEPT ![o] = NoBroadcast]
    /\ Stop(m)
    /\ UNCHANGED row

\* killed inside handle_response, with the chunk written and its row updated or
\* not, before finalize_file deletes the row
crash_writing(m) ==
    /\ Arrived(m)
    /\ disk' = [disk EXCEPT ![m] = Received(m)]
    /\ row' \in {row, [row EXCEPT ![m] = transfer[m].pos]}
    /\ Stop(m)
    /\ UNCHANGED broadcast

-----------------------------------------------------------------------------
Receive(n) ==
    \/ GetFile_handle_request(n)
    \/ GetFile_handle_response(n)
    \/ finalize_file(n)
    \/ clean(n)
    \/ connection_refused(n)

Spread(o) ==
    \/ announce(o)
    \/ \E m \in Node : BroadcastFilelist_handle_request(o, m)
    \/ announcement_refused(o)

Fault(n) ==
    \/ lose(n)
    \/ crash(n)
    \/ \E o \in Node : crash_creating(o, n)
    \/ crash_writing(n)

Next == \E n \in Node : start(n) \/ Spread(n) \/ Receive(n) \/ Fault(n)

\* The paste thread announces for as long as the process runs, the dispatcher
\* handles whatever arrives, clean() removes what has expired, and users start
\* again what was killed.  Nothing makes faults happen.
Fairness ==
    \A n \in Node : WF_vars(start(n)) /\ WF_vars(Spread(n)) /\ WF_vars(Receive(n))

Spec == Init /\ [][Next]_vars /\ Fairness

-----------------------------------------------------------------------------
Transfer ==
    [leg : {"req", "chunks", "cut", "void", "done"}, from : Node, info : Content,
     pos : Nat, source : Content, end : Nat]

Broadcast == [at : Node, peers : SUBSET Node, info : Content]

TypeOK ==
    /\ running \subseteq Node
    /\ disk \in [Node -> Content \cup {NoFile}]
    /\ row \in [Node -> Nat \cup {NoRow}]
    /\ files \in [Node -> Content \cup {NoFile}]
    /\ transfer \in [Node -> {NoTransfer} \cup Transfer]
    /\ broadcast \in [Node -> {NoBroadcast} \cup Broadcast]
    /\ crashes \in Nat
    /\ losses \in Nat

\* The file that is sent is the one that was announced, even if the sender has
\* been restarted in between: what a node lists is never written to again
\* (GetFile::handle_request opens whatever is on the disk by then).
SourceIsAnnounced ==
    \A n \in Node :
      transfer[n].leg \in {"chunks", "cut"} => transfer[n].source = transfer[n].info

\* A node never lists a mixture of two versions, or a file that was cut off in
\* the middle: what it lists is what some user has put into the ring, or else
\* the empty file that a crash in create_file leaves behind.
ListedIsWhole ==
    \A n \in Node :
      files[n] # NoFile => files[n] \in Range(Original) \cup {<<>>}

\* What the database says has been written is on the disk.
RowIsOnDisk ==
    \A n \in Node : row[n] # NoRow => disk[n] # NoFile /\ row[n] <= Len(disk[n])

\* A timeout or a crash never throws back a transfer: the offset it resumes at
\* only grows.
ProgressKept ==
    [][\A n \in Node : row[n] # NoRow /\ row'[n] # NoRow => row'[n] >= row[n]]_vars

(* The file that StaticStorage would list if the process were started now, *)
(* and the abstract storage that this module implements with it.           *)
kept == [n \in Node |-> sync_files(n)]

FS == INSTANCE FileStore WITH Empty <- <<>>

\* A running node offers exactly what survives the death of its process, and a
\* file comes to a node in one step, whole, from a node that keeps it, and stays
\* as it is: nobody sees a transfer, an offset or a row (StaticStorage and
\* GetFile together, through restarts, kills and broken connections).
ImplementsFileStore == FS!Spec

\* In the end every node has a file.
Delivered == \A n \in Node : <>[](files[n] # NoFile /\ files[n] # <<>>)

-----------------------------------------------------------------------------
\* "requests with correct offset if file was partly received before": what is
\* kept of the file is the beginning of the file that is requested
ResumeIsRight ==
    \A n \in Node :
      transfer[n].leg = "req" =>
        IsPrefix(SubSeq(disk[n], 1, transfer[n].pos), transfer[n].info)
=============================================================================
