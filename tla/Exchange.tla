------------------------------ MODULE Exchange ------------------------------
(***************************************************************************)
(* What the sessions of a set of processes promise to the objects that     *)
(* make requests and to those that serve them, without a word about        *)
(* sockets, queues, handlers and identifiers.  A request is handled at     *)
(* most once, and only if it has been made.  The object that made it is    *)
(* told an answer at most once, and not before the object that serves it   *)
(* is done (which may have been removed since).  A request that is         *)
(* forwarded is answered when its relay has been.  The chunks of a file    *)
(* are written one after the other, none before it has been read and none  *)
(* when the file is complete.                                              *)
(***************************************************************************)
EXTENDS Integers

CONSTANTS
    Request,
    File,           \* the requests for files
    Relayed,        \* Relayed[r]: the request that r may be forwarded with
    NoRequest,
    Chunks,         \* how many chunks are read of a file
    Needed          \* Needed[r]: the chunk with which file r is complete

VARIABLES
    made,           \* the requests that are made
    object,         \* of each request, the object at either end
    read,           \* the chunks of each file that its sender has read
    written         \* those that its receiver has written

vars == <<made, object, read, written>>

End == {"client", "server"}

Relay == {Relayed[q] : q \in Request \ File}

Alive(state) == state \in {"waiting", "done"}

\* the object has done all it will do
Over(state) == state \in {"done", "gone"}

Init ==
    /\ made = {}
    /\ object = [r \in Request |-> [e \in End |-> "none"]]
    /\ read = [r \in Request |-> 0]
    /\ written = [r \in Request |-> 0]

\* an object makes a request
Ask(r) ==
    /\ r \notin made /\ r \notin Relay
    /\ made' = made \cup {r}
    /\ object' = [object EXCEPT ![r]["client"] = "waiting"]
    /\ UNCHANGED <<read, written>>

\* a request is handled: it is answered, or not answered at all
Handle(r) ==
    /\ r \in made /\ object[r]["server"] = "none"
    /\ \E state \in {"waiting", "done"} :
         object' = [object EXCEPT ![r]["server"] = state]
    /\ UNCHANGED <<made, read, written>>

\* or it is forwarded, and waits for its relay
Forward(r) ==
    /\ r \in made /\ object[r]["server"] = "none"
    /\ r \notin File /\ Relayed[r] # NoRequest
    /\ Relayed[r] \notin made
    /\ made' = made \cup {Relayed[r]}
    /\ object' = [object EXCEPT ![r]["server"] = "waiting"]
    /\ UNCHANGED <<read, written>>

\* or the first chunk of a file is read
Offer(r) ==
    /\ r \in made /\ object[r]["server"] = "none"
    /\ r \in File
    /\ object' = [object EXCEPT ![r]["server"] = "waiting"]
    /\ read' = [read EXCEPT ![r] = 1]
    /\ UNCHANGED <<made, written>>

\* a forwarded request is answered, as its relay has been
PassOn(r) ==
    /\ r \notin File /\ Relayed[r] # NoRequest
    /\ object[r]["server"] = "waiting"
    /\ Over(object[Relayed[r]]["server"])
    /\ object' = [object EXCEPT ![r]["server"] = "done"]
    /\ UNCHANGED <<made, read, written>>

\* the object that made a request is told the answer
Receive(r) ==
    /\ r \notin File
    /\ object[r]["client"] = "waiting"
    /\ Over(object[r]["server"])
    /\ object' = [object EXCEPT ![r]["client"] = "done"]
    /\ UNCHANGED <<made, read, written>>

\* the next chunk of a file is read, and its sender may give up
Read(r) ==
    /\ r \in File
    /\ Alive(object[r]["server"])
    /\ \/ UNCHANGED read
       \/ read[r] < Chunks /\ read' = [read EXCEPT ![r] = @ + 1]
    /\ \/ UNCHANGED object
       \/ object' = [object EXCEPT ![r]["server"] = "done"]
    /\ UNCHANGED <<made, written>>

\* the next chunk is written, and the last one completes the file
Write(r) ==
    /\ r \in File
    /\ object[r]["client"] = "waiting"
    /\ written[r] < read[r]
    /\ written' = [written EXCEPT ![r] = @ + 1]
    /\ object' = IF written'[r] < Needed[r] THEN object
                 ELSE [object EXCEPT ![r]["client"] = "done"]
    /\ UNCHANGED <<made, read>>

\* objects are removed, or die with their process
Drop ==
    /\ \E lost \in SUBSET (Request \X End) :
         object' = [r \in Request |-> [e \in End |->
           IF <<r, e>> \in lost /\ Alive(object[r][e]) THEN "gone" ELSE object[r][e]]]
    /\ UNCHANGED <<made, read, written>>

Next ==
    \/ \E r \in Request :
         \/ Ask(r) \/ Receive(r) \/ Write(r)
         \/ Handle(r) \/ Forward(r) \/ Offer(r) \/ PassOn(r) \/ Read(r)
    \/ Drop

Spec == Init /\ [][Next]_vars
=============================================================================
