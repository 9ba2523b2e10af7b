----------------------------- MODULE FilesProofs ----------------------------
(* What StaticStorage lists, keeps and sends, for every ring, every set of *)
(* files, and any number of kills and broken connections, and that all of  *)
(* it amounts to the abstract storage of FileStore.                        *)
EXTENDS Files, SequenceTheorems, TLAPS

\* the legs on which a transfer still needs its source or its chunks
Open == {"req", "chunks", "cut"}

\* node o has info for good: while it runs it lists it, and when it is
\* started again it will
Holds(o, info) ==
    disk[o] = info /\ row[o] = NoRow /\ (o \in running => files[o] = info)

\* what a node lists is on its disk, and it has no row
ListsWhatItHas ==
    \A n \in Node :
      /\ files[n] # NoFile => n \in running /\ Holds(n, files[n])
      /\ n \notin running => transfer[n] = NoTransfer

SendersHold ==
    \A n \in Node :
      /\ broadcast[n] # NoBroadcast => Holds(n, broadcast[n].info)
      /\ transfer[n].leg \in Open => Holds(transfer[n].from, transfer[n].info)

\* a receiver has a row, which is never ahead of the transfer, and all blocks
\* before the position of the transfer
Receiving ==
    \A n \in Node :
      transfer[n].leg \in Open =>
        /\ files[n] = NoFile
        /\ row[n] # NoRow /\ row[n] <= transfer[n].pos
        /\ disk[n] # NoFile /\ transfer[n].pos <= Len(disk[n])

\* a file without a row is complete, or empty
CompleteIsWhole ==
    \A n \in Node : row[n] = NoRow => disk[n] \in Range(Original) \cup {<<>>}

IInv ==
    /\ TypeOK
    /\ ListsWhatItHas
    /\ SendersHold
    /\ Receiving
    /\ CompleteIsWhole
    /\ RowIsOnDisk
    /\ SourceIsAnnounced

-----------------------------------------------------------------------------
(* Blocks of a file.                                                       *)

LEMMA ChunkType ==
    ASSUME NEW source \in Content, NEW offset \in Nat
    PROVE  /\ Chunk(source, offset) \in Content
           /\ Len(Chunk(source, offset)) \in {0, 1}
           /\ Chunk(source, offset) # <<>> => Len(Chunk(source, offset)) = 1
           /\ offset < Len(source) => Chunk(source, offset) # <<>>
<1>1. CASE offset < Len(source)
  <2>1. source[offset + 1] \in Block
    BY <1>1 DEF Content
  <2> QED  BY <1>1, <2>1 DEF Chunk, Content
<1>2. CASE ~(offset < Len(source))
  BY <1>2 DEF Chunk, Content
<1> QED  BY <1>1, <1>2

(* A chunk that is written behind the blocks that are there leaves no gap. *)
LEMMA WrittenType ==
    ASSUME NEW content \in Content, NEW offset \in 0..Len(content),
           NEW chunk \in Content
    PROVE  /\ Written(content, offset, chunk) \in Content
           /\ offset + Len(chunk) <= Len(Written(content, offset, chunk))
<1>1. CASE chunk = <<>>
  BY <1>1 DEF Written, Content
<1>2. CASE chunk # <<>>
  <2> DEFINE before == SubSeq(content, 1, offset)
             behind == SubSeq(content, offset + 2, Len(content))
  <2>1. before \in Seq(Block) /\ Len(before) = offset
    BY DEF Content
  <2>2. behind \in Seq(Block)
    BY DEF Content
  <2>3. Written(content, offset, chunk) = before \o chunk \o behind
    BY <1>2 DEF Written
  <2> HIDE DEF before, behind
  <2>4. chunk \in Seq(Block) /\ Len(chunk) \in Nat /\ Len(behind) \in Nat
    BY <2>2 DEF Content
  <2>5. before \o chunk \in Seq(Block) /\ Len(before \o chunk) = offset + Len(chunk)
    BY <2>1, <2>4
  <2>6. /\ before \o chunk \o behind \in Seq(Block)
        /\ Len(before \o chunk \o behind) = offset + Len(chunk) + Len(behind)
    BY <2>2, <2>5, ConcatProperties
  <2> QED  BY <2>3, <2>4, <2>6 DEF Content
<1> QED  BY <1>1, <1>2

-----------------------------------------------------------------------------
(* What the invariant says of one node.                                    *)

LEMMA NoBroadcastInfo == NoBroadcast.info = NoFile /\ NoFile \notin Content
BY NoFileAssumption DEF NoBroadcast

LEMMA NodeState ==
    ASSUME IInv, NEW n \in Node
    PROVE  /\ disk[n] \in Content \cup {NoFile}
           /\ files[n] \in Content \cup {NoFile}
           /\ row[n] \in Nat \cup {NoRow}
           /\ broadcast[n] # NoBroadcast => broadcast[n] \in Broadcast
BY DEF IInv, TypeOK

LEMMA TransferState ==
    ASSUME IInv, NEW n \in Node, transfer[n].leg # "none"
    PROVE  /\ transfer[n] \in Transfer
           /\ transfer[n].from \in Node /\ transfer[n].info \in Content
           /\ transfer[n].pos \in Nat /\ transfer[n].source \in Content
           /\ n \in running
<1>1. transfer[n] \in {NoTransfer} \cup Transfer
  BY DEF IInv, TypeOK
<1>2. transfer[n] # NoTransfer
  BY DEF NoTransfer
<1> QED  BY <1>1, <1>2 DEF Transfer, IInv, ListsWhatItHas

(* The chunk that arrives is written without a gap, and the transfer stays *)
(* behind what is written.                                                 *)
LEMMA ReceivedProperties ==
    ASSUME IInv, NEW n \in Node, Arrived(n)
    PROVE  /\ transfer[n].leg \in Open /\ n \in running
           /\ disk[n] \in Content /\ row[n] \in Nat
           /\ row[n] <= transfer[n].pos
           /\ Received(n) \in Content
           /\ transfer[n].pos \in Nat /\ Len(Received(n)) \in Nat
           /\ transfer[n].pos <= Len(Received(n))
           /\ Told(n) < Len(transfer[n].info) =>
                transfer[n].pos + 1 <= Len(Received(n))
<1> DEFINE get == transfer[n]
           chunk == Chunk(get.source, get.pos)
<1>1. get.leg \in {"chunks", "cut"} /\ n \in running
  BY DEF Arrived
<1>2. get.info \in Content /\ get.pos \in Nat /\ get.source \in Content
  BY <1>1, TransferState
<1>3. /\ disk[n] \in Content /\ row[n] \in Nat
      /\ row[n] <= get.pos /\ get.pos <= Len(disk[n])
  BY <1>1, NodeState DEF IInv, Receiving, Open
<1>4. get.source = get.info
  BY <1>1 DEF IInv, SourceIsAnnounced
<1>5. /\ chunk \in Content /\ Len(chunk) \in {0, 1}
      /\ chunk # <<>> => Len(chunk) = 1
      /\ get.pos < Len(get.source) => chunk # <<>>
  BY <1>2, ChunkType
<1>6. get.pos \in 0..Len(disk[n])
  BY <1>2, <1>3 DEF Content
<1>7. /\ Received(n) \in Content
      /\ get.pos + Len(chunk) <= Len(Received(n))
  BY <1>3, <1>5, <1>6, WrittenType DEF Received
<1>8. Len(Received(n)) \in Nat /\ Len(get.info) \in Nat
  BY <1>2, <1>7 DEF Content
<1>9. Told(n) < Len(get.info) => Len(chunk) = 1
  <2>1. Told(n) = get.pos + Len(chunk)
    BY DEF Told
  <2> HIDE DEF chunk
  <2> QED  BY <1>2, <1>4, <1>5, <1>8, <2>1
<1>10. get.pos <= Len(Received(n))
  <2> HIDE DEF chunk
  <2> QED  BY <1>2, <1>5, <1>7, <1>8
<1>11. Told(n) < Len(get.info) => get.pos + 1 <= Len(Received(n))
  <2> HIDE DEF chunk
  <2> QED  BY <1>7, <1>9
<1> QED  BY <1>1, <1>2, <1>3, <1>7, <1>8, <1>10, <1>11 DEF Open

-----------------------------------------------------------------------------
(* How the parts of the invariant are preserved.                           *)

HoldsKept == \A m \in Node, info \in Content : Holds(m, info) => Holds(m, info)'

(* A file that some node needs from another one was there before the step. *)
SendersKept ==
    \A m \in Node :
      /\ broadcast'[m] # NoBroadcast =>
           /\ broadcast'[m].info \in Content
           /\ Holds(m, broadcast'[m].info)
      /\ transfer'[m].leg \in Open =>
           /\ transfer'[m].info \in Content /\ transfer'[m].from \in Node
           /\ Holds(transfer'[m].from, transfer'[m].info)

LEMMA SendersStep ==
    ASSUME HoldsKept, SendersKept
    PROVE  SendersHold'
BY DEF HoldsKept, SendersKept, SendersHold

(* A step that leaves running processes and storage alone: objects may only*)
(* be given up, or get the content that was announced.                     *)
LEMMA QuietStep ==
    ASSUME IInv, UNCHANGED <<running, storage>>, TypeOK', SendersKept,
           \A m \in Node :
             /\ transfer'[m].leg \in Open =>
                  transfer[m].leg \in Open /\ transfer'[m].pos = transfer[m].pos
             /\ transfer'[m].leg \in {"chunks", "cut"} =>
                  transfer'[m].source = transfer'[m].info
             /\ m \notin running => transfer'[m] = NoTransfer
    PROVE  IInv'
<1>0. /\ running' = running /\ disk' = disk /\ row' = row /\ files' = files
  BY DEF storage
<1>1. HoldsKept
  BY <1>0 DEF HoldsKept, Holds
<1>2. SendersHold'
  BY <1>1, SendersStep
<1>3. ListsWhatItHas'
  BY <1>0 DEF IInv, ListsWhatItHas, Holds
<1>4. Receiving'
  BY <1>0 DEF IInv, Receiving
<1>5. CompleteIsWhole' /\ RowIsOnDisk'
  BY <1>0 DEF IInv, CompleteIsWhole, RowIsOnDisk
<1>6. SourceIsAnnounced'
  BY DEF SourceIsAnnounced
<1> QED  BY <1>2, <1>3, <1>4, <1>5, <1>6 DEF IInv

(* Objects that are not touched keep what they need.                       *)
LEMMA Unsent ==
    ASSUME IInv, NEW m \in Node
    PROVE  /\ broadcast'[m] \in {broadcast[m], NoBroadcast} /\ broadcast'[m] # NoBroadcast =>
                broadcast'[m].info \in Content /\ Holds(m, broadcast'[m].info)
           /\ transfer'[m] = transfer[m] /\ transfer'[m].leg \in Open =>
                /\ transfer'[m].info \in Content /\ transfer'[m].from \in Node
                /\ Holds(transfer'[m].from, transfer'[m].info)
<1>1. broadcast[m] # NoBroadcast =>
        broadcast[m].info \in Content /\ Holds(m, broadcast[m].info)
  BY NodeState DEF IInv, SendersHold, Broadcast
<1>2. transfer[m].leg \in Open =>
        /\ transfer[m].info \in Content /\ transfer[m].from \in Node
        /\ Holds(transfer[m].from, transfer[m].info)
  BY TransferState DEF IInv, SendersHold, Open
<1> QED  BY <1>1, <1>2

-----------------------------------------------------------------------------
(* Steps that change announcements and transfers only.                     *)

LEMMA AnnouncePreserves ==
    ASSUME IInv, NEW n \in Node, announce(n)
    PROVE  IInv'
<1>1. /\ n \in running /\ files[n] \in Content
      /\ Holds(n, files[n])
  BY NodeState DEF announce, IInv, ListsWhatItHas
<1>2. /\ broadcast'[n].info = files[n]
      /\ \A m \in Node : m # n => broadcast'[m] = broadcast[m]
      /\ transfer' = transfer
  BY DEF announce, IInv, TypeOK
<1>3. SendersKept
  BY <1>1, <1>2, Unsent DEF SendersKept
<1>4. TypeOK'
  BY <1>1, SuccAssumption DEF announce, IInv, TypeOK, Broadcast, storage, faults
<1> QED  BY <1>2, <1>3, <1>4, QuietStep
         DEF announce, IInv, SourceIsAnnounced, ListsWhatItHas, storage

LEMMA GetFileRequestPreserves ==
    ASSUME IInv, NEW n \in Node, GetFile_handle_request(n)
    PROVE  IInv'
<1> DEFINE get == transfer[n]
<1>1. /\ get \in Transfer /\ get.from \in Node /\ get.info \in Content
      /\ get.pos \in Nat /\ n \in running
  BY TransferState DEF GetFile_handle_request
<1>2. Holds(get.from, get.info) /\ get.from \in running
  BY DEF GetFile_handle_request, IInv, SendersHold, Open
<1>3. files[get.from] # NoFile /\ disk[get.from] = get.info
  BY <1>1, <1>2, NoFileAssumption DEF Holds
<1>4. PICK end \in {Len(get.info) - 1, Len(get.info)} :
        transfer' = [transfer EXCEPT
          ![n].leg = "chunks",
          ![n].source = get.info,
          ![n].end = IF get.pos <= end THEN end ELSE get.pos]
  BY <1>3 DEF GetFile_handle_request
<1> DEFINE last == IF get.pos <= end THEN end ELSE get.pos
           next == [get EXCEPT !.leg = "chunks", !.source = get.info, !.end = last]
<1>5. last \in Nat
  BY <1>1 DEF Content
<1>6. transfer' = [transfer EXCEPT ![n] = next]
  BY <1>4 DEF IInv, TypeOK
<1> HIDE DEF last
<1>7. /\ next \in Transfer /\ next.leg = "chunks" /\ next.source = next.info
      /\ next.from = get.from /\ next.info = get.info /\ next.pos = get.pos
  BY <1>1, <1>5 DEF Transfer
<1> HIDE DEF next
<1>8. /\ transfer' \in [Node -> {NoTransfer} \cup Transfer]
      /\ transfer'[n] = next
      /\ \A m \in Node : m # n => transfer'[m] = transfer[m]
  BY <1>6, <1>7 DEF IInv, TypeOK
<1>9. UNCHANGED <<running, storage, broadcast, faults>>
  BY DEF GetFile_handle_request
<1>10. SendersKept
  BY <1>1, <1>2, <1>7, <1>8, <1>9, Unsent DEF SendersKept
<1>11. TypeOK'
  BY <1>8, <1>9 DEF IInv, TypeOK, storage, faults
<1>12. get.leg \in Open
  BY DEF GetFile_handle_request, Open
<1> QED  BY <1>1, <1>7, <1>8, <1>9, <1>10, <1>11, <1>12, QuietStep
         DEF IInv, SourceIsAnnounced, ListsWhatItHas

(* A transfer that is given up, or cut off, needs no more than before.     *)
LEMMA GiveUpStep ==
    ASSUME IInv, NEW n \in Node, NEW next \in {NoTransfer} \cup Transfer,
           UNCHANGED <<running, storage, broadcast>>,
           crashes' \in Nat, losses' \in Nat,
           transfer' = [transfer EXCEPT ![n] = next],
           n \notin running => next = NoTransfer,
           next.leg \in Open =>
             /\ transfer[n].leg = "chunks" /\ next.leg = "cut"
             /\ next.from = transfer[n].from /\ next.info = transfer[n].info
             /\ next.pos = transfer[n].pos /\ next.source = transfer[n].source
    PROVE  IInv'
<1>1. /\ transfer' \in [Node -> {NoTransfer} \cup Transfer]
      /\ transfer'[n] = next
      /\ \A m \in Node : m # n => transfer'[m] = transfer[m]
  BY DEF IInv, TypeOK
<1>2. TypeOK'
  BY <1>1 DEF IInv, TypeOK, storage
<1>3. \A m \in Node : transfer[m].leg \in Open =>
        /\ transfer[m].info \in Content /\ transfer[m].from \in Node
        /\ Holds(transfer[m].from, transfer[m].info)
  BY TransferState DEF IInv, SendersHold, Open
<1>4. SendersKept
  BY <1>1, <1>3, Unsent DEF SendersKept, Open
<1> QED  BY <1>1, <1>2, <1>4, QuietStep
         DEF IInv, SourceIsAnnounced, ListsWhatItHas, Open

LEMMA NoTransferIsClosed == NoTransfer.leg = "none" /\ NoTransfer.leg \notin Open
BY DEF NoTransfer, Open

LEMMA LegStep ==
    ASSUME IInv, NEW n \in Node, transfer[n].leg # "none",
           NEW leg \in {"cut", "void"},
           leg = "cut" => transfer[n].leg = "chunks",
           transfer' = [transfer EXCEPT ![n].leg = leg],
           UNCHANGED <<running, storage, broadcast>>,
           crashes' \in Nat, losses' \in Nat
    PROVE  IInv'
<1> DEFINE next == [transfer[n] EXCEPT !.leg = leg]
<1>1. transfer[n] \in Transfer /\ n \in running
  BY TransferState
<1>2. transfer' = [transfer EXCEPT ![n] = next]
  BY DEF IInv, TypeOK
<1>3. /\ next \in Transfer /\ next.leg = leg
      /\ next.from = transfer[n].from /\ next.info = transfer[n].info
      /\ next.pos = transfer[n].pos /\ next.source = transfer[n].source
  BY <1>1 DEF Transfer
<1> HIDE DEF next
<1> QED  BY <1>1, <1>2, <1>3, GiveUpStep DEF Open

LEMMA CleanPreserves ==
    ASSUME IInv, NEW n \in Node, clean(n)
    PROVE  IInv'
<1>1. crashes' \in Nat /\ losses' \in Nat
  BY DEF clean, faults, IInv, TypeOK
<1>2. /\ transfer' = [transfer EXCEPT ![n] = NoTransfer]
      /\ UNCHANGED <<running, storage, broadcast>>
  BY DEF clean
<1> QED  BY <1>1, <1>2, GiveUpStep, NoTransferIsClosed

LEMMA ConnectionRefusedPreserves ==
    ASSUME IInv, NEW n \in Node, connection_refused(n)
    PROVE  IInv'
<1>1. crashes' \in Nat /\ losses' \in Nat
  BY DEF connection_refused, faults, IInv, TypeOK
<1>2. /\ transfer' = [transfer EXCEPT ![n].leg = "void"]
      /\ UNCHANGED <<running, storage, broadcast>>
      /\ transfer[n].leg # "none"
  BY DEF connection_refused
<1> QED  BY <1>1, <1>2, LegStep

(* An announcement that goes no further.                                   *)
LEMMA DropStep ==
    ASSUME IInv, NEW n \in Node,
           broadcast' = [broadcast EXCEPT ![n] = NoBroadcast],
           UNCHANGED <<running, storage, transfer>>,
           crashes' \in Nat, losses' \in Nat
    PROVE  IInv'
<1>1. \A m \in Node : broadcast'[m] \in {broadcast[m], NoBroadcast}
  BY DEF IInv, TypeOK
<1>2. SendersKept
  BY <1>1, Unsent DEF SendersKept
<1>3. TypeOK'
  BY DEF IInv, TypeOK, storage
<1> QED  BY <1>2, <1>3, QuietStep DEF IInv, SourceIsAnnounced, ListsWhatItHas

LEMMA AnnouncementRefusedPreserves ==
    ASSUME IInv, NEW n \in Node, announcement_refused(n)
    PROVE  IInv'
<1>1. crashes' \in Nat /\ losses' \in Nat
  BY DEF announcement_refused, faults, IInv, TypeOK
<1> QED  BY <1>1, DropStep DEF announcement_refused

LEMMA LosePreserves ==
    ASSUME IInv, NEW n \in Node, lose(n)
    PROVE  IInv'
<1>1. crashes' \in Nat /\ losses' \in Nat /\ UNCHANGED <<running, storage>>
  BY DEF lose, IInv, TypeOK
<1>2. CASE broadcast[n] # NoBroadcast /\ broadcast' = [broadcast EXCEPT ![n] = NoBroadcast]
           /\ UNCHANGED transfer
  BY <1>1, <1>2, DropStep
<1>3. CASE /\ transfer[n].leg \in {"req", "chunks"}
           /\ transfer' = [transfer EXCEPT
                ![n].leg = IF @ = "req" THEN "void" ELSE "cut"]
           /\ UNCHANGED broadcast
  <2> DEFINE leg == IF transfer[n].leg = "req" THEN "void" ELSE "cut"
  <2>1. /\ transfer' = [transfer EXCEPT ![n].leg = leg]
        /\ leg \in {"cut", "void"} /\ leg = "cut" => transfer[n].leg = "chunks"
        /\ transfer[n].leg # "none"
    BY <1>3
  <2> HIDE DEF leg
  <2> QED  BY <1>1, <1>3, <2>1, LegStep
<1> QED  BY <1>2, <1>3 DEF lose

-----------------------------------------------------------------------------
(* An announcement arrives.                                                *)

LEMMA PassedOn ==
    ASSUME IInv, NEW o \in Node, NEW m \in Node,
           BroadcastFilelist_handle_request(o, m)
    PROVE  /\ broadcast[o] \in Broadcast /\ broadcast[o].info \in Content
           /\ Holds(o, broadcast[o].info) /\ m \in running
           /\ broadcast' \in [Node -> {NoBroadcast} \cup Broadcast]
           /\ \A k \in Node : broadcast'[k] # NoBroadcast =>
                /\ broadcast'[k].info \in Content
                /\ Holds(k, broadcast'[k].info)
<1>1. broadcast[o] # NoBroadcast /\ m \in running
  BY DEF BroadcastFilelist_handle_request, Announced
<1>2. /\ broadcast[o] \in Broadcast /\ broadcast[o].info \in Content
      /\ Holds(o, broadcast[o].info)
  BY <1>1, NodeState DEF Broadcast, IInv, SendersHold
<1> DEFINE passed == [at |-> Succ[m], peers |-> broadcast[o].peers \cup {m},
                    info |-> broadcast[o].info]
<1>3. passed \in Broadcast /\ passed.info = broadcast[o].info
  BY <1>2, SuccAssumption DEF Broadcast
<1>4. \/ broadcast' = [broadcast EXCEPT ![o] = NoBroadcast]
      \/ broadcast' = [broadcast EXCEPT ![o] = passed]
  <2>1. CASE m \in broadcast[o].peers
    BY <2>1 DEF BroadcastFilelist_handle_request
  <2>2. CASE m \notin broadcast[o].peers
    BY <2>2 DEF BroadcastFilelist_handle_request
  <2> QED  BY <2>1, <2>2
<1> HIDE DEF passed
<1>5. broadcast \in [Node -> {NoBroadcast} \cup Broadcast]
  BY DEF IInv, TypeOK
<1>6. broadcast' \in [Node -> {NoBroadcast} \cup Broadcast]
  BY <1>3, <1>4, <1>5
<1>7. \A k \in Node : \/ broadcast'[k] \in {NoBroadcast, broadcast[k]}
                      \/ k = o /\ broadcast'[k] = passed
  BY <1>4, <1>5
<1> QED  BY <1>1, <1>2, <1>3, <1>6, <1>7, Unsent

LEMMA CreatePreserves ==
    ASSUME IInv, NEW o \in Node, NEW m \in Node,
           BroadcastFilelist_handle_request(o, m), Wanted(o, m)
    PROVE  IInv'
<1> DEFINE info == broadcast[o].info
           offset == IF row[m] = NoRow THEN 0 ELSE row[m]
           next == GetFile(o, info, offset)
           content == IF row[m] = NoRow THEN <<>> ELSE disk[m]
<1>1. /\ disk' = [disk EXCEPT ![m] = content]
      /\ row' = [row EXCEPT ![m] = offset]
      /\ transfer' = [transfer EXCEPT ![m] = next]
      /\ UNCHANGED <<running, files, faults>>
  BY DEF BroadcastFilelist_handle_request, create_file, IInv, TypeOK
<1>2. info \in Content /\ Holds(o, info) /\ m \in running /\ files[m] = NoFile
  BY PassedOn DEF Wanted
<1>3. /\ offset \in Nat /\ content \in Content /\ offset <= Len(content)
      /\ offset # NoRow
  BY NodeState, NoRowAssumption DEF IInv, RowIsOnDisk, Content
<1> HIDE DEF offset, content
<1>4. /\ next \in Transfer /\ next.leg = "req"
      /\ next.from = o /\ next.info = info /\ next.pos = offset
  <2>1. <<>> \in Content
    BY DEF Content
  <2> QED  BY <1>2, <1>3, <2>1 DEF GetFile, Transfer
<1> HIDE DEF next
<1>5. /\ disk'[m] = content /\ row'[m] = offset /\ transfer'[m] = next
      /\ \A k \in Node : k # m => /\ disk'[k] = disk[k] /\ row'[k] = row[k]
                                  /\ transfer'[k] = transfer[k]
      /\ running' = running /\ files' = files
  BY <1>1 DEF IInv, TypeOK
<1>6. TypeOK'
  BY <1>1, <1>3, <1>4, PassedOn DEF IInv, TypeOK, faults
<1>7. HoldsKept
  BY <1>2, <1>5, NoFileAssumption DEF HoldsKept, Holds
<1>8. SendersKept
  BY <1>2, <1>4, <1>5, PassedOn, Unsent DEF SendersKept
<1>9. SendersHold'
  BY <1>7, <1>8, SendersStep
<1>10. ListsWhatItHas'
  BY <1>2, <1>5 DEF IInv, ListsWhatItHas, Holds
<1>11. Receiving'
  <2>1. content # NoFile /\ offset <= offset
    BY <1>3, NoFileAssumption
  <2> QED  BY <1>2, <1>3, <1>4, <1>5, <2>1 DEF IInv, Receiving
<1>12. CompleteIsWhole'
  BY <1>3, <1>5 DEF IInv, CompleteIsWhole
<1>13. RowIsOnDisk'
  BY <1>3, <1>5, NoFileAssumption DEF IInv, RowIsOnDisk
<1>14. SourceIsAnnounced'
  BY <1>4, <1>5 DEF IInv, SourceIsAnnounced
<1> QED  BY <1>6, <1>9, <1>10, <1>11, <1>12, <1>13, <1>14 DEF IInv

LEMMA BroadcastPreserves ==
    ASSUME IInv, NEW o \in Node, NEW m \in Node,
           BroadcastFilelist_handle_request(o, m)
    PROVE  IInv'
<1>1. CASE Wanted(o, m)
  BY <1>1, CreatePreserves
<1>2. CASE ~Wanted(o, m)
  <2>1. UNCHANGED <<running, storage, transfer, faults>>
    BY <1>2 DEF BroadcastFilelist_handle_request, storage
  <2>2. TypeOK'
    BY <2>1, PassedOn DEF IInv, TypeOK, storage, faults
  <2>3. SendersKept
    BY <2>1, PassedOn, Unsent DEF SendersKept
  <2> QED  BY <2>1, <2>2, <2>3, QuietStep DEF IInv, SourceIsAnnounced, ListsWhatItHas
<1> QED  BY <1>1, <1>2

-----------------------------------------------------------------------------
(* A chunk arrives.                                                        *)

LEMMA ResponsePreserves ==
    ASSUME IInv, NEW n \in Node, GetFile_handle_response(n)
    PROVE  IInv'
<1> DEFINE get == transfer[n]
           next == [get EXCEPT !.pos = @ + 1]
<1>1. /\ get.leg \in Open /\ n \in running /\ get.pos \in Nat
      /\ Received(n) \in Content /\ Len(Received(n)) \in Nat
      /\ get.pos + 1 <= Len(Received(n))
  BY ReceivedProperties DEF GetFile_handle_response
<1>2. get \in Transfer /\ files[n] = NoFile
  BY <1>1, TransferState DEF Open, IInv, Receiving
<1>3. /\ next \in Transfer /\ next.leg = get.leg /\ next.pos = get.pos + 1
      /\ next.from = get.from /\ next.info = get.info /\ next.source = get.source
  BY <1>1, <1>2 DEF Transfer
<1>4. transfer' = [transfer EXCEPT ![n] = next]
  BY DEF GetFile_handle_response, IInv, TypeOK
<1> HIDE DEF next
<1>5. /\ disk'[n] = Received(n) /\ row'[n] = get.pos /\ transfer'[n] = next
      /\ \A k \in Node : k # n => /\ disk'[k] = disk[k] /\ row'[k] = row[k]
                                  /\ transfer'[k] = transfer[k]
      /\ running' = running /\ files' = files /\ broadcast' = broadcast
  BY <1>4 DEF GetFile_handle_response, IInv, TypeOK
<1>6. TypeOK'
  BY <1>1, <1>3, <1>4 DEF GetFile_handle_response, IInv, TypeOK, faults
<1>7. HoldsKept
  BY <1>1, <1>2, <1>5, NoFileAssumption DEF HoldsKept, Holds
<1>8. SendersKept
  <2>1. /\ get.info \in Content /\ get.from \in Node
        /\ Holds(get.from, get.info)
    BY <1>1, Unsent, TransferState DEF IInv, SendersHold, Open
  <2> QED  BY <1>3, <1>5, <2>1, Unsent DEF SendersKept
<1>9. SendersHold'
  BY <1>7, <1>8, SendersStep
<1>10. ListsWhatItHas'
  BY <1>1, <1>2, <1>5 DEF IInv, ListsWhatItHas, Holds
<1>11. Receiving'
  <2>1. /\ get.pos # NoRow /\ get.pos <= get.pos + 1 /\ Received(n) # NoFile
    BY <1>1, NoRowAssumption, NoFileAssumption
  <2> QED  BY <1>1, <1>2, <1>3, <1>5, <2>1 DEF IInv, Receiving
<1>12. CompleteIsWhole'
  BY <1>1, <1>5, NoRowAssumption DEF IInv, CompleteIsWhole
<1>13. RowIsOnDisk'
  <2>1. get.pos <= Len(Received(n)) /\ Received(n) # NoFile
    BY <1>1, NoFileAssumption
  <2> QED  BY <1>5, <2>1 DEF IInv, RowIsOnDisk
<1>14. SourceIsAnnounced'
  BY <1>3, <1>5 DEF IInv, SourceIsAnnounced
<1> QED  BY <1>6, <1>9, <1>10, <1>11, <1>12, <1>13, <1>14 DEF IInv

LEMMA FinalizePreserves ==
    ASSUME IInv, NEW n \in Node, finalize_file(n)
    PROVE  IInv'
<1> DEFINE get == transfer[n]
           next == [get EXCEPT !.leg = "done"]
           whole == Received(n) = get.info
<1>1. /\ get.leg \in Open /\ n \in running /\ get.pos \in Nat
      /\ Received(n) \in Content /\ get.pos <= Len(Received(n))
  BY ReceivedProperties DEF finalize_file
<1>2. /\ get \in Transfer /\ files[n] = NoFile /\ get.info \in Content
      /\ get.from \in Node /\ Holds(get.from, get.info)
  BY <1>1, TransferState DEF Open, IInv, Receiving, SendersHold
<1>3. next \in Transfer /\ next.leg = "done" /\ next.leg \notin Open
  BY <1>2 DEF Transfer, Open
<1>4. transfer' = [transfer EXCEPT ![n] = next]
  BY DEF finalize_file, IInv, TypeOK
<1> HIDE DEF next
<1>5. /\ disk'[n] = Received(n) /\ transfer'[n] = next
      /\ whole => row'[n] = NoRow /\ files'[n] = get.info
      /\ ~whole => row'[n] = get.pos /\ files'[n] = files[n]
  BY <1>4 DEF finalize_file, Finalizes, IInv, TypeOK
<1>6. /\ \A k \in Node : k # n => /\ disk'[k] = disk[k] /\ row'[k] = row[k]
                                  /\ transfer'[k] = transfer[k]
                                  /\ files'[k] = files[k]
      /\ running' = running /\ broadcast' = broadcast
  BY <1>4 DEF finalize_file, IInv, TypeOK
<1>7. TypeOK'
  BY <1>1, <1>2, <1>3, <1>4 DEF finalize_file, IInv, TypeOK, faults
<1>8. HoldsKept
  BY <1>1, <1>2, <1>6, NoFileAssumption DEF HoldsKept, Holds
<1>9. SendersKept
  BY <1>3, <1>5, <1>6, Unsent DEF SendersKept
<1>10. SendersHold'
  BY <1>8, <1>9, SendersStep
<1>11. ListsWhatItHas'
  BY <1>1, <1>2, <1>5, <1>6 DEF IInv, ListsWhatItHas, Holds
<1>12. Receiving'
  BY <1>3, <1>5, <1>6 DEF IInv, Receiving
<1>13. CompleteIsWhole'
  <2>1. get.info \in Range(Original) \cup {<<>>}
    BY <1>2 DEF IInv, CompleteIsWhole, Holds
  <2> QED  BY <1>1, <1>5, <1>6, <2>1, NoRowAssumption DEF IInv, CompleteIsWhole
<1>14. RowIsOnDisk'
  BY <1>1, <1>5, <1>6, NoFileAssumption DEF IInv, RowIsOnDisk
<1>15. SourceIsAnnounced'
  BY <1>3, <1>5, <1>6 DEF IInv, SourceIsAnnounced
<1> QED  BY <1>7, <1>10, <1>11, <1>12, <1>13, <1>14, <1>15 DEF IInv

-----------------------------------------------------------------------------
(* A process is started or killed.                                         *)

LEMMA StartPreserves ==
    ASSUME IInv, NEW n \in Node, start(n)
    PROVE  IInv'
<1>1. n \notin running /\ transfer[n] = NoTransfer /\ files[n] = NoFile
  BY DEF start, IInv, ListsWhatItHas
<1>2. /\ files'[n] = sync_files(n)
      /\ \A k \in Node : k # n => files'[k] = files[k]
      /\ running' = running \cup {n}
      /\ UNCHANGED <<disk, row, transfer, broadcast, faults>>
  BY DEF start, IInv, TypeOK
<1>3. TypeOK'
  BY DEF start, sync_files, IInv, TypeOK, faults
<1>4. HoldsKept
  BY <1>2 DEF HoldsKept, Holds, sync_files
<1>5. SendersKept
  BY <1>2, Unsent DEF SendersKept
<1>6. SendersHold'
  BY <1>4, <1>5, SendersStep
<1>7. ListsWhatItHas'
  BY <1>2 DEF IInv, ListsWhatItHas, Holds, sync_files
<1>8. Receiving'
  BY <1>1, <1>2, NoTransferIsClosed DEF IInv, Receiving
<1>9. CompleteIsWhole' /\ RowIsOnDisk' /\ SourceIsAnnounced'
  BY <1>2 DEF IInv, CompleteIsWhole, RowIsOnDisk, SourceIsAnnounced
<1> QED  BY <1>3, <1>6, <1>7, <1>8, <1>9 DEF IInv

(* However far a process has come when it is killed: the row and the file  *)
(* it leaves behind have to fit together, and a file it has listed stays.  *)
LEMMA StopStep ==
    ASSUME IInv, NEW m \in Node, Stop(m),
           NEW content \in Content \cup {NoFile}, NEW written \in Nat \cup {NoRow},
           disk' = [disk EXCEPT ![m] = content],
           row' = [row EXCEPT ![m] = written],
           (content = disk[m] /\ written = row[m]) \/ files[m] = NoFile,
           written # NoRow => content # NoFile /\ written <= Len(content),
           written = NoRow => content \in Range(Original) \cup {<<>>},
           broadcast' \in [Node -> {NoBroadcast} \cup Broadcast],
           \A k \in Node : broadcast'[k] \in {broadcast[k], NoBroadcast}
    PROVE  IInv'
<1>1. /\ m \in running /\ running' = running \ {m}
      /\ files'[m] = NoFile
      /\ \A k \in Node : k # m => files'[k] = files[k]
  BY DEF Stop, IInv, TypeOK
<1>2. /\ disk'[m] = content /\ row'[m] = written
      /\ \A k \in Node : k # m => disk'[k] = disk[k] /\ row'[k] = row[k]
  BY DEF IInv, TypeOK
<1>3. transfer'[m] = NoTransfer
  BY DEF Stop
<1>4. ASSUME NEW k \in Node, k # m
      PROVE  \/ transfer'[k] = transfer[k]
             \/ /\ transfer[k].leg = "chunks" /\ transfer[k] \in Transfer
                /\ transfer'[k] \in Transfer /\ transfer'[k].leg = "cut"
                /\ transfer'[k].from = transfer[k].from
                /\ transfer'[k].info = transfer[k].info
                /\ transfer'[k].pos = transfer[k].pos
                /\ transfer'[k].source = transfer[k].source
  <2>1. CASE transfer[k].leg = "chunks" /\ transfer[k].from = m
    <3>1. transfer[k] \in Transfer
      BY <2>1, TransferState
    <3>2. transfer'[k] = [transfer[k] EXCEPT !.leg = "cut"]
      BY <1>4, <2>1 DEF Stop
    <3> QED  BY <2>1, <3>1, <3>2 DEF Transfer
  <2>2. CASE ~(transfer[k].leg = "chunks" /\ transfer[k].from = m)
    BY <1>4, <2>2 DEF Stop
  <2> QED  BY <2>1, <2>2
<1>5. TypeOK'
  <2>1. transfer' \in [Node -> {NoTransfer} \cup Transfer]
    <3>1. transfer' = [k \in Node |-> transfer'[k]]
      BY DEF Stop
    <3>2. \A k \in Node : transfer'[k] \in {NoTransfer} \cup Transfer
      BY <1>3, <1>4 DEF IInv, TypeOK
    <3> QED  BY <3>1, <3>2
  <2>2. disk' \in [Node -> Content \cup {NoFile}] /\ row' \in [Node -> Nat \cup {NoRow}]
    BY DEF IInv, TypeOK
  <2>3. /\ running' \subseteq Node /\ files' \in [Node -> Content \cup {NoFile}]
        /\ crashes' \in Nat /\ losses' \in Nat
    BY DEF Stop, IInv, TypeOK
  <2> QED  BY <2>1, <2>2, <2>3 DEF TypeOK
<1>6. HoldsKept
  BY <1>1, <1>2, NoFileAssumption DEF HoldsKept, Holds
<1>7. SendersKept
  <2>1. \A k \in Node : transfer[k].leg \in Open =>
          /\ transfer[k].info \in Content /\ transfer[k].from \in Node
          /\ Holds(transfer[k].from, transfer[k].info)
    BY TransferState DEF IInv, SendersHold, Open
  <2> QED  BY <1>3, <1>4, <2>1, Unsent, NoTransferIsClosed DEF SendersKept, Open
<1>8. SendersHold'
  BY <1>6, <1>7, SendersStep
<1>9. ListsWhatItHas'
  <2>1. ASSUME NEW k \in Node, k # m, files[k] # NoFile
        PROVE  k \in running' /\ Holds(k, files[k])' /\ files'[k] = files[k]
    BY <1>1, <1>2, <2>1 DEF IInv, ListsWhatItHas, Holds
  <2>2. ASSUME NEW k \in Node, k # m, k \notin running
        PROVE  transfer'[k] = NoTransfer
    BY <1>4, <2>2, NoTransferIsClosed DEF IInv, ListsWhatItHas
  <2> QED  BY <1>1, <1>2, <1>3, <2>1, <2>2 DEF ListsWhatItHas, Holds
<1>10. Receiving'
  BY <1>1, <1>2, <1>3, <1>4, NoTransferIsClosed DEF IInv, Receiving, Open
<1>11. CompleteIsWhole'
  BY <1>2 DEF IInv, CompleteIsWhole
<1>12. RowIsOnDisk'
  BY <1>2 DEF IInv, RowIsOnDisk
<1>13. SourceIsAnnounced'
  BY <1>3, <1>4, NoTransferIsClosed DEF IInv, SourceIsAnnounced
<1> QED  BY <1>5, <1>8, <1>9, <1>10, <1>11, <1>12, <1>13 DEF IInv

LEMMA KilledPreserves ==
    ASSUME IInv, NEW m \in Node, crash(m) \/ crash_writing(m)
    PROVE  IInv'
<1>0. /\ disk[m] \in Content \cup {NoFile} /\ row[m] \in Nat \cup {NoRow}
      /\ broadcast \in [Node -> {NoBroadcast} \cup Broadcast]
  BY NodeState DEF IInv, TypeOK
<1>1. CASE crash(m)
  <2>1. /\ disk' = [disk EXCEPT ![m] = disk[m]]
        /\ row' = [row EXCEPT ![m] = row[m]]
        /\ broadcast' = broadcast /\ Stop(m)
    BY <1>1 DEF crash, IInv, TypeOK
  <2>2. /\ row[m] # NoRow => disk[m] # NoFile /\ row[m] <= Len(disk[m])
        /\ row[m] = NoRow => disk[m] \in Range(Original) \cup {<<>>}
    BY DEF IInv, RowIsOnDisk, CompleteIsWhole
  <2> QED  BY <1>0, <2>1, <2>2, StopStep
<1>2. CASE crash_writing(m)
  <2>1. Stop(m) /\ broadcast' = broadcast /\ Arrived(m)
    BY <1>2 DEF crash_writing
  <2>2. /\ Received(m) \in Content /\ transfer[m].pos \in Nat
        /\ Len(Received(m)) \in Nat
        /\ transfer[m].pos <= Len(Received(m))
        /\ row[m] \in Nat /\ row[m] <= transfer[m].pos
        /\ files[m] = NoFile
    BY <2>1, ReceivedProperties DEF IInv, Receiving
  <2>3. PICK written \in {row[m], transfer[m].pos} :
          row' = [row EXCEPT ![m] = written]
    BY <1>2 DEF crash_writing, IInv, TypeOK
  <2>4. /\ written \in Nat /\ written # NoRow /\ written <= Len(Received(m))
        /\ Received(m) # NoFile
    BY <2>2, <2>3, NoRowAssumption, NoFileAssumption
  <2>5. disk' = [disk EXCEPT ![m] = Received(m)]
    BY <1>2 DEF crash_writing
  <2> QED  BY <1>0, <2>1, <2>2, <2>3, <2>4, <2>5, StopStep
<1> QED  BY <1>1, <1>2

LEMMA CrashCreatingPreserves ==
    ASSUME IInv, NEW o \in Node, NEW m \in Node, crash_creating(o, m)
    PROVE  IInv'
<1>1. /\ disk' = [disk EXCEPT ![m] = <<>>] /\ <<>> \in Content
      /\ row' = [row EXCEPT ![m] = NoRow]
      /\ files[m] = NoFile /\ Stop(m)
  BY DEF crash_creating, Wanted, Content, IInv, TypeOK
<1>2. /\ broadcast' \in [Node -> {NoBroadcast} \cup Broadcast]
      /\ \A k \in Node : broadcast'[k] \in {broadcast[k], NoBroadcast}
  BY DEF crash_creating, IInv, TypeOK
<1> QED  BY <1>1, <1>2, StopStep

-----------------------------------------------------------------------------
LEMMA StepPreserves == IInv /\ [Next]_vars => IInv'
<1> SUFFICES ASSUME IInv, [Next]_vars PROVE IInv'
  OBVIOUS
<1>1. ASSUME NEW n \in Node, Receive(n)
      PROVE  IInv'
  BY <1>1, GetFileRequestPreserves, ResponsePreserves, FinalizePreserves,
     CleanPreserves, ConnectionRefusedPreserves DEF Receive
<1>2. ASSUME NEW n \in Node, Spread(n)
      PROVE  IInv'
  BY <1>2, AnnouncePreserves, BroadcastPreserves, AnnouncementRefusedPreserves
  DEF Spread
<1>3. ASSUME NEW n \in Node, Fault(n)
      PROVE  IInv'
  BY <1>3, LosePreserves, KilledPreserves, CrashCreatingPreserves DEF Fault
<1>4. CASE UNCHANGED vars
  BY <1>4 DEF vars, storage, faults, IInv, TypeOK, ListsWhatItHas, SendersHold, Holds,
              Receiving, CompleteIsWhole, RowIsOnDisk, SourceIsAnnounced
<1> QED  BY <1>1, <1>2, <1>3, <1>4, StartPreserves DEF Next

LEMMA InitEstablishes == Init => IInv
<1> SUFFICES ASSUME Init PROVE IInv
  OBVIOUS
<1>1. TypeOK
  BY OriginalAssumption DEF Init, TypeOK
<1>2. \A n \in Node : transfer[n] = NoTransfer /\ broadcast[n] = NoBroadcast
  BY DEF Init
<1>3. ListsWhatItHas /\ SendersHold /\ Receiving /\ SourceIsAnnounced
  BY <1>2, NoTransferIsClosed
  DEF Init, ListsWhatItHas, Holds, SendersHold, Receiving, SourceIsAnnounced
<1>4. CompleteIsWhole
  BY OriginalAssumption DEF Init, CompleteIsWhole, Range
<1>5. RowIsOnDisk
  BY DEF Init, RowIsOnDisk
<1> QED  BY <1>1, <1>3, <1>4, <1>5 DEF IInv

(* One step never moves the offset of a row backwards.                     *)
LEMMA StepKeepsProgress ==
    ASSUME IInv, [Next]_vars
    PROVE  \A n \in Node : row[n] # NoRow /\ row'[n] # NoRow => row'[n] >= row[n]
<1> SUFFICES ASSUME NEW n \in Node, row[n] # NoRow, row'[n] # NoRow
             PROVE  row'[n] >= row[n]
  OBVIOUS
<1>0. row[n] \in Nat
  BY NodeState
<1>1. CASE row'[n] = row[n]
  BY <1>0, <1>1
<1>2. ASSUME NEW m \in Node, Arrived(m), row' \in {[row EXCEPT ![m] = transfer[m].pos],
                                                 [row EXCEPT ![m] = NoRow], row}
      PROVE  row'[n] >= row[n]
  <2>1. row[m] <= transfer[m].pos /\ transfer[m].pos \in Nat
    BY <1>2, ReceivedProperties
  <2> QED  BY <1>0, <1>2, <2>1 DEF IInv, TypeOK
<1>3. ASSUME NEW m \in Node,
             \/ GetFile_handle_response(m) \/ finalize_file(m) \/ crash_writing(m)
      PROVE  row'[n] >= row[n]
  BY <1>2, <1>3 DEF GetFile_handle_response, finalize_file, crash_writing
<1>4. ASSUME NEW o \in Node, NEW m \in Node,
             \/ BroadcastFilelist_handle_request(o, m) \/ crash_creating(o, m)
      PROVE  row'[n] >= row[n]
  <2>1. row'[n] = row[n]
    BY <1>4 DEF BroadcastFilelist_handle_request, create_file, crash_creating,
                IInv, TypeOK
  <2> QED  BY <1>1, <2>1
<1>5. ASSUME NEW m \in Node,
             \/ start(m) \/ announce(m) \/ announcement_refused(m)
             \/ GetFile_handle_request(m) \/ clean(m) \/ connection_refused(m)
             \/ lose(m) \/ crash(m)
      PROVE  row'[n] >= row[n]
  <2>1. row' = row
    BY <1>5 DEF start, announce, announcement_refused, GetFile_handle_request, clean,
                connection_refused, lose, crash, storage
  <2> QED  BY <1>1, <2>1
<1>6. CASE UNCHANGED vars
  BY <1>1, <1>6 DEF vars, storage
<1> QED  BY <1>3, <1>4, <1>5, <1>6 DEF Next, Spread, Receive, Fault

-----------------------------------------------------------------------------
LEMMA InvariantHolds == Spec => []IInv
BY InitEstablishes, StepPreserves, PTL DEF Spec

(* The database, the disk, the lists and the messages are always of the    *)
(* kind that StaticStorage and GetFile expect.                             *)
THEOREM FilesTypeCorrect == Spec => []TypeOK
BY InvariantHolds, PTL DEF IInv

(* What the node sends when GetFile::handle_request opens the file is what *)
(* it announced, however often it has been restarted in between.           *)
THEOREM SentIsAnnounced == Spec => []SourceIsAnnounced
BY InvariantHolds, PTL DEF IInv

(* bytes_written never points behind the end of the file on the disk, so   *)
(* that create_file resumes without a gap.                                 *)
THEOREM RowsAreOnDisk == Spec => []RowIsOnDisk
BY InvariantHolds, PTL DEF IInv

(* Kills, broken connections and senders with different versions never     *)
(* make a node list a mixture or a part of a file                          *)
(* (StaticStorage::finalize_file, sync_files).                             *)
THEOREM ListedFilesAreWhole == Spec => []ListedIsWhole
<1>1. IInv => ListedIsWhole
  BY DEF IInv, ListsWhatItHas, Holds, CompleteIsWhole, ListedIsWhole
<1> QED  BY <1>1, InvariantHolds, PTL

(* The offset that an unfinished file is resumed at never goes back        *)
(* (OfstreamWrapper::write, StaticStorage::create_file).                   *)
THEOREM OffsetsOnlyGrow == Spec => ProgressKept
<1>1. IInv /\ [Next]_vars =>
        [\A n \in Node : row[n] # NoRow /\ row'[n] # NoRow => row'[n] >= row[n]]_vars
  BY StepKeepsProgress
<1> QED  BY <1>1, InvariantHolds, PTL DEF Spec, ProgressKept

-----------------------------------------------------------------------------
(* The storage of a ring, with its transfers, offsets and rows, implements *)
(* FileStore.                                                              *)

\* a running node lists all it has, and nothing else
ListsAll == \A n \in running : files[n] = kept[n]

\* a step that the abstract storage does not see, or one of its steps
Simulated == ListsAll' /\ [FS!Next]_(FS!vars)

LEMMA KeptIs ==
    ASSUME NEW n \in Node
    PROVE  /\ row[n] = NoRow => kept[n] = disk[n]
           /\ row[n] # NoRow => kept[n] = NoFile
BY DEF kept, sync_files

LEMMA KeptIsNext ==
    ASSUME NEW n \in Node
    PROVE  /\ row'[n] = NoRow => kept'[n] = disk'[n]
           /\ row'[n] # NoRow => kept'[n] = NoFile
BY DEF kept, sync_files

(* Two descriptions of what is kept agree if they do so at every node.     *)
LEMMA KeptExtends ==
    ASSUME NEW n \in Node, NEW content,
           \A m \in Node : m # n => kept'[m] = kept[m],
           kept'[n] = content
    PROVE  /\ kept' = [kept EXCEPT ![n] = content]
           /\ content = kept[n] => kept' = kept
BY DEF kept

(* The files and rows of the other nodes stay, that of n is not complete   *)
(* before or after the step, and the same processes run.                   *)
LEMMA UnseenStep ==
    ASSUME IInv, ListsAll, NEW n \in Node,
           UNCHANGED <<running, files>>,
           \A m \in Node : m # n => disk'[m] = disk[m] /\ row'[m] = row[m],
           kept'[n] = kept[n]
    PROVE  Simulated
<1>1. \A m \in Node : m # n => kept'[m] = kept[m]
  BY KeptIs, KeptIsNext
<1>2. kept' = kept
  BY <1>1, KeptExtends
<1>3. ListsAll'
  BY <1>2 DEF ListsAll
<1> QED  BY <1>2, <1>3 DEF Simulated, FS!vars

LEMMA QuietSimulated ==
    ASSUME ListsAll, UNCHANGED <<running, storage>>
    PROVE  Simulated
<1>1. kept' = kept /\ files' = files /\ running' = running
  BY DEF storage, kept, sync_files
<1> QED  BY <1>1 DEF Simulated, ListsAll, FS!vars

LEMMA BroadcastSimulated ==
    ASSUME IInv, ListsAll, NEW o \in Node, NEW m \in Node,
           BroadcastFilelist_handle_request(o, m)
    PROVE  Simulated
<1>1. CASE ~Wanted(o, m)
  BY <1>1, QuietSimulated DEF BroadcastFilelist_handle_request, storage
<1>2. CASE Wanted(o, m)
  <2>1. /\ UNCHANGED <<running, files>>
        /\ row'[m] # NoRow
        /\ \A k \in Node : k # m => disk'[k] = disk[k] /\ row'[k] = row[k]
    BY <1>2, NoRowAssumption, NodeState
    DEF BroadcastFilelist_handle_request, create_file, IInv, TypeOK
  <2>2. m \in running /\ files[m] = NoFile
    BY <1>2 DEF BroadcastFilelist_handle_request, Announced, Wanted
  <2>3. kept[m] = NoFile /\ kept'[m] = NoFile
    BY <2>1, <2>2, KeptIsNext DEF ListsAll
  <2> QED  BY <2>1, <2>3, UnseenStep
<1> QED  BY <1>1, <1>2

LEMMA ResponseSimulated ==
    ASSUME IInv, ListsAll, NEW n \in Node, GetFile_handle_response(n)
    PROVE  Simulated
<1>1. /\ row[n] \in Nat /\ transfer[n].pos \in Nat
  BY ReceivedProperties DEF GetFile_handle_response
<1>2. /\ UNCHANGED <<running, files>>
      /\ row'[n] = transfer[n].pos
      /\ \A k \in Node : k # n => disk'[k] = disk[k] /\ row'[k] = row[k]
  BY DEF GetFile_handle_response, IInv, TypeOK
<1>3. kept[n] = NoFile /\ kept'[n] = NoFile
  BY <1>1, <1>2, KeptIs, KeptIsNext, NoRowAssumption
<1> QED  BY <1>2, <1>3, UnseenStep

(* With the sums compared, the file is the one that its sender keeps.      *)
LEMMA FinalizeSimulated ==
    ASSUME IInv, ListsAll, NEW n \in Node, finalize_file(n)
    PROVE  Simulated
<1> DEFINE get == transfer[n]
<1>1. /\ get.leg \in Open /\ n \in running
      /\ row[n] \in Nat /\ get.pos \in Nat
  BY ReceivedProperties DEF finalize_file
<1>2. /\ get.from \in Node /\ get.info \in Content
      /\ Holds(get.from, get.info)
  BY <1>1, TransferState DEF Open, IInv, SendersHold
<1>3. kept[n] = NoFile
  BY <1>1, KeptIs, NoRowAssumption
<1>4. running' = running /\ \A k \in Node : k # n =>
        disk'[k] = disk[k] /\ row'[k] = row[k] /\ files'[k] = files[k]
  BY DEF finalize_file, IInv, TypeOK
<1>5. CASE Received(n) = get.info
  <2>1. /\ disk'[n] = get.info /\ row'[n] = NoRow
        /\ files' = [files EXCEPT ![n] = get.info]
    BY <1>5 DEF finalize_file, Finalizes, IInv, TypeOK
  <2>2. kept[get.from] = get.info /\ get.info # NoFile
    BY <1>2, KeptIs, NoFileAssumption DEF Holds
  <2>3. \A k \in Node : k # n => kept'[k] = kept[k]
    BY <1>4, KeptIs, KeptIsNext
  <2>4. kept'[n] = get.info
    BY <2>1, KeptIsNext
  <2>5. kept' = [kept EXCEPT ![n] = get.info]
    BY <2>3, <2>4, KeptExtends
  <2>6. FS!Copy(n)
    BY <1>1, <1>2, <1>3, <1>4, <2>1, <2>2, <2>5 DEF FS!Copy
  <2>7. ListsAll'
    BY <1>4, <2>1, <2>3, <2>4 DEF ListsAll, IInv, TypeOK
  <2> QED  BY <2>6, <2>7 DEF Simulated, FS!Next
<1>6. CASE Received(n) # get.info
  <2>1. row'[n] = get.pos /\ files' = files
    BY <1>6 DEF finalize_file, Finalizes, IInv, TypeOK
  <2>2. kept'[n] = NoFile
    BY <1>1, <2>1, KeptIsNext, NoRowAssumption
  <2> QED  BY <1>3, <1>4, <2>1, <2>2, UnseenStep
<1> QED  BY <1>5, <1>6

LEMMA StartSimulated ==
    ASSUME IInv, ListsAll, NEW n \in Node, start(n)
    PROVE  Simulated
<1>1. kept' = kept
  BY DEF start, kept, sync_files
<1>2. files' = [files EXCEPT ![n] = kept[n]]
  BY DEF start, kept
<1>3. FS!Restart(n)
  BY <1>1, <1>2 DEF FS!Restart, start
<1>4. ListsAll'
  BY <1>1, <1>2 DEF ListsAll, start, IInv, TypeOK
<1> QED  BY <1>3, <1>4 DEF Simulated, FS!Next

(* A killed process leaves what was kept, or an empty file in its place.   *)
LEMMA StopSimulated ==
    ASSUME IInv, ListsAll, NEW m \in Node, Stop(m),
           \A k \in Node : k # m => disk'[k] = disk[k] /\ row'[k] = row[k],
           \/ kept'[m] = kept[m]
           \/ kept[m] = NoFile /\ kept'[m] = <<>>
    PROVE  Simulated
<1>1. /\ m \in running /\ running' = running \ {m}
      /\ files' = [files EXCEPT ![m] = NoFile]
  BY DEF Stop
<1>2. \A k \in Node : k # m => kept'[k] = kept[k]
  BY KeptIs, KeptIsNext
<1>3. \/ kept' = kept
      \/ kept[m] = NoFile /\ kept' = [kept EXCEPT ![m] = <<>>]
  BY <1>2, KeptExtends
<1>4. FS!Kill(m)
  BY <1>1, <1>3 DEF FS!Kill
<1>5. ListsAll'
  BY <1>1, <1>2 DEF ListsAll, IInv, TypeOK
<1> QED  BY <1>4, <1>5 DEF Simulated, FS!Next

LEMMA KillSimulated ==
    ASSUME IInv, ListsAll, NEW m \in Node,
           \/ crash(m) \/ crash_writing(m)
           \/ \E o \in Node : crash_creating(o, m)
    PROVE  Simulated
<1>1. CASE crash(m)
  <2>1. kept' = kept
    BY <1>1 DEF crash, kept, sync_files
  <2> QED  BY <1>1, <2>1, StopSimulated DEF crash
<1>2. CASE crash_writing(m)
  <2>1. row[m] \in Nat /\ transfer[m].pos \in Nat
    BY <1>2, ReceivedProperties DEF crash_writing
  <2>2. /\ row'[m] \in {row[m], transfer[m].pos}
        /\ \A k \in Node : k # m => disk'[k] = disk[k] /\ row'[k] = row[k]
    BY <1>2 DEF crash_writing, IInv, TypeOK
  <2>3. kept[m] = NoFile /\ kept'[m] = NoFile
    BY <2>1, <2>2, KeptIs, KeptIsNext, NoRowAssumption
  <2> QED  BY <1>2, <2>2, <2>3, StopSimulated DEF crash_writing
<1>3. ASSUME NEW o \in Node, crash_creating(o, m)
      PROVE  Simulated
  <2>1. /\ m \in running /\ files[m] = NoFile
        /\ row' = row /\ row[m] = NoRow
        /\ disk' = [disk EXCEPT ![m] = <<>>]
    BY <1>3 DEF crash_creating, Announced, Wanted, Stop
  <2>2. kept[m] = NoFile /\ kept'[m] = <<>>
    BY <2>1, KeptIsNext DEF ListsAll, IInv, TypeOK
  <2>3. \A k \in Node : k # m => disk'[k] = disk[k] /\ row'[k] = row[k]
    BY <2>1 DEF IInv, TypeOK
  <2> QED  BY <1>3, <2>2, <2>3, StopSimulated DEF crash_creating
<1> QED  BY <1>1, <1>2, <1>3

LEMMA StepSimulated ==
    ASSUME IInv, ListsAll, [Next]_vars
    PROVE  Simulated
<1>1. CASE UNCHANGED vars
  BY <1>1, QuietSimulated DEF vars
<1>2. ASSUME NEW n \in Node, Receive(n)
      PROVE  Simulated
  BY <1>2, QuietSimulated, ResponseSimulated, FinalizeSimulated
  DEF Receive, GetFile_handle_request, clean, connection_refused
<1>3. ASSUME NEW n \in Node, Spread(n)
      PROVE  Simulated
  BY <1>3, QuietSimulated, BroadcastSimulated
  DEF Spread, announce, announcement_refused
<1>4. ASSUME NEW n \in Node, Fault(n)
      PROVE  Simulated
  BY <1>4, QuietSimulated, KillSimulated DEF Fault, lose
<1> QED  BY <1>1, <1>2, <1>3, <1>4, StartSimulated DEF Next

-----------------------------------------------------------------------------
(* Transfers between running nodes, killed and restarted at any point,     *)
(* implement a storage in which a node gets a file in one piece, keeps it  *)
(* unchanged and offers nothing else (StaticStorage, GetFile).             *)
THEOREM FilesImplementFileStore == Spec => ImplementsFileStore
<1>1. Init => ListsAll /\ FS!Init
  <2> SUFFICES ASSUME Init PROVE ListsAll /\ FS!Init
    OBVIOUS
  <2>1. kept = Original
    BY OriginalAssumption DEF Init, kept, sync_files
  <2> QED  BY <2>1 DEF Init, ListsAll, FS!Init
<1>2. IInv /\ ListsAll /\ [Next]_vars => ListsAll' /\ [FS!Next]_(FS!vars)
  BY StepSimulated DEF Simulated
<1> QED  BY <1>1, <1>2, InvariantHolds, PTL DEF Spec, ImplementsFileStore, FS!Spec
=============================================================================
