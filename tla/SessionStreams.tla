---------------------------- MODULE SessionStreams ----------------------------
(***************************************************************************)
(* The streams of one session (session.go): the maps from IDs to streams,  *)
(* the read loop that finds, creates, queues, feeds and finishes streams,  *)
(* and the application that opens, accepts, reads and closes them.         *)
(*                                                                         *)
(* The maps have no lock ("TODO: Lock").  A goroutine at a control state   *)
(* that accesses a map is inside the access until its next step, and two   *)
(* accesses that conflict may end the process.  Session shows how Close    *)
(* ends a session and ReceiveStream how one buffer works: here Close is    *)
(* one step, and so is each locked block of a buffer.                      *)
(***************************************************************************)
EXTENDS Integers, Sequences, FiniteSets

CONSTANTS
    IsServer,      \* Session.isServer
    QueueCap,      \* capacity of an accept channel, 16 in the code
    maxBytes,      \* StreamReceiveBufferSize; <= 0 is no limit
    PeerIDs,       \* bound: stream IDs the peer's capsules name
    Capsules,      \* bound: payload length and FIN of its capsules
    MaxCapsules,   \* bound: stream capsules the peer sends
    MaxOpens,      \* bound: streams the application opens
    MaxCloses,     \* bound: receive halves it closes
    MaxReaders     \* bound: goroutines in Read

StreamIDs == 0 .. (4 * MaxOpens + 3)
Kinds == {"uni", "bidi"}

ASSUME StreamsAssumption ==
    /\ IsServer \in BOOLEAN
    /\ QueueCap \in Nat \ {0}
    /\ maxBytes \in Int
    /\ Capsules \subseteq Nat \X BOOLEAN
    /\ MaxCapsules \in Nat /\ MaxOpens \in Nat
    /\ MaxCloses \in Nat /\ MaxReaders \in Nat
    /\ PeerIDs \subseteq StreamIDs

VARIABLES
    halves,          \* the receive halves made so far
    entry,           \* streams and receiveStreams: the half of an ID, 0 for none
    tracked,         \* IDs with a send limit (trackSendStream)
    incoming,        \* the two accept channels
    held,            \* halves the application holds
    reading,         \* halves with a goroutine in Read
    closing,         \* halves inside ReceiveStream.Close
    opening,         \* the ID that OpenStream inserts in a map, or -1
    createdStreamCounter,
    done,            \* the session is closed
    loop, cap, cur,  \* the read loop: where it is, its capsule, its half
    crashed,         \* the runtime found a concurrent map access
    capsules, sent,  \* capsules sent, and payload bytes of each ID
    fins,            \* IDs the peer has finished
    told,            \* our streams that were opened: the peer may know them
    early, afterFin, \* history: IDs of ours it may not use, IDs used after FIN
    discarded,       \* history: IDs with data no stream was there for
    fault            \* history: the buffer's error that ended the read loop

appVars  == <<held, reading, closing, told>>
openVars == <<opening, createdStreamCounter>>
peerVars == <<capsules, sent, fins, early, afterFin>>
mapVars  == <<halves, entry, tracked>>
loopVars == <<loop, cap, cur, discarded, fault>>
vars == <<appVars, openVars, peerVars, mapVars, loopVars, incoming, done, crashed>>

isOurStream(id) == IF IsServer THEN id % 2 = 1 ELSE id % 2 = 0

isBidirectionalStream(id) == (id \div 2) % 2 = 0

kindOf(id) == IF isBidirectionalStream(id) THEN "bidi" ELSE "uni"

newReceiveStream(id) ==
    [id |-> id, closed |-> FALSE, bufClosed |-> FALSE,
     data |-> <<>>, got |-> <<>>, eof |-> FALSE]

noCapsule == [id |-> 0, data |-> <<>>, fin |-> FALSE]

Init ==
    /\ halves = <<>>
    /\ entry = [id \in StreamIDs |-> 0]
    /\ tracked = {}
    /\ incoming = [k \in Kinds |-> <<>>]
    /\ held = {} /\ reading = {} /\ closing = {} /\ told = {}
    /\ opening = -1
    /\ createdStreamCounter = 0
    /\ done = FALSE
    /\ loop = "check"
    /\ cap = noCapsule
    /\ cur = 0
    /\ crashed = FALSE
    /\ capsules = 0
    /\ sent = [id \in StreamIDs |-> 0]
    /\ fins = {} /\ early = {} /\ afterFin = {} /\ discarded = {}
    /\ fault = "none"

-----------------------------------------------------------------------------
(* The read loop.  What it leaves alone:                                   *)

loopFrame == UNCHANGED <<appVars, openVars, crashed>>

(* The next turn of the loop; the last capsule is forgotten.               *)
checkStop ==
    /\ loop = "check"
    /\ loop' = IF done THEN "return" ELSE "parse"
    /\ cap' = noCapsule /\ cur' = 0
    /\ UNCHANGED <<discarded, fault, mapVars, peerVars, incoming, done>>
    /\ loopFrame

(* The next capsule.  A peer may use IDs of ours too early or send on our  *)
(* send-only streams, and use an ID after its FIN: the code meets them.    *)
parse(id, n, isFin) ==
    /\ loop = "parse"
    /\ capsules < MaxCapsules
    /\ capsules' = capsules + 1
    /\ cap' = [id |-> id, data |-> [i \in 1 .. n |-> sent[id] + i], fin |-> isFin]
    /\ sent' = [sent EXCEPT ![id] = @ + n]
    /\ fins' = IF isFin THEN fins \cup {id} ELSE fins
    /\ afterFin' = IF id \in fins THEN afterFin \cup {id} ELSE afterFin
    /\ early' = IF isOurStream(id) /\ (id \notin told \/ ~isBidirectionalStream(id))
                THEN early \cup {id} ELSE early
    /\ loop' = "lookup"
    /\ UNCHANGED <<cur, discarded, fault, mapVars, incoming, done>>
    /\ loopFrame

(* The CONNECT stream or a malformed capsule ends the loop.                *)
parseFails ==
    /\ loop = "parse"
    /\ loop' = "return"
    /\ UNCHANGED <<cap, cur, discarded, fault, mapVars, peerVars, incoming, done>>
    /\ loopFrame

(* Fault: receiveStreams is not looked in.                                 *)
found_bidiOnly(id) == entry[id] # 0 /\ isBidirectionalStream(id)

found(id) == entry[id] # 0

(* A known stream; a new one of the peer's; or one of ours that is not     *)
(* there, whose data is rejected.                                          *)
lookup ==
    /\ loop = "lookup"
    /\ \/ /\ found(cap.id)
          /\ cur' = entry[cap.id]
          /\ loop' = "look"
          /\ UNCHANGED <<halves, discarded>>
       \/ /\ ~found(cap.id) /\ ~isOurStream(cap.id)
          /\ halves' = Append(halves, newReceiveStream(cap.id))
          /\ cur' = Len(halves) + 1
          /\ loop' = "insert"
          /\ UNCHANGED discarded
       \/ /\ ~found(cap.id) /\ isOurStream(cap.id)
          /\ discarded' = discarded \cup {cap.id}
          /\ loop' = "check"
          /\ UNCHANGED <<halves, cur>>
    /\ UNCHANGED <<cap, fault, entry, tracked, peerVars, incoming, done>>
    /\ loopFrame

(* Fault: the stream is queued without a send limit.                       *)
afterInsert_untracked(id) == "enqueue"

afterInsert(id) == IF isBidirectionalStream(id) THEN "track" ELSE "enqueue"

insert ==
    /\ loop = "insert"
    /\ entry' = [entry EXCEPT ![cap.id] = cur]
    /\ loop' = afterInsert(cap.id)
    /\ UNCHANGED <<cap, cur, discarded, fault, halves, tracked, peerVars, incoming, done>>
    /\ loopFrame

trackSendStream ==
    /\ loop = "track"
    /\ tracked' = tracked \cup {cap.id}
    /\ loop' = "enqueue"
    /\ UNCHANGED <<cap, cur, discarded, fault, halves, entry, peerVars, incoming, done>>
    /\ loopFrame

(* Fault: the capsule that opens a stream carries no data.                 *)
afterEnqueue_noData == "check"

afterEnqueue == "look"

(* The application may hold the stream before it has its first payload.    *)
enqueueIncoming ==
    /\ loop = "enqueue"
    /\ \/ /\ Len(incoming[kindOf(cap.id)]) < QueueCap
          /\ incoming' = [incoming EXCEPT ![kindOf(cap.id)] = Append(@, cur)]
          /\ loop' = afterEnqueue
       \/ /\ done
          /\ loop' = "return"
          /\ UNCHANGED incoming
    /\ UNCHANGED <<cap, cur, discarded, fault, mapVars, peerVars, done>>
    /\ loopFrame

(* Fault: every capsule finishes its stream.                               *)
afterData_finishes == "finish"

afterData == IF cap.fin THEN "finish" ELSE "check"

(* receiveStreamData looks at closed, then writes to the buffer.           *)
look ==
    /\ loop = "look"
    /\ loop' = IF halves[cur].closed THEN afterData ELSE "write"
    /\ UNCHANGED <<cap, cur, discarded, fault, mapVars, peerVars, incoming, done>>
    /\ loopFrame

bufferError ==
    IF halves[cur].bufClosed THEN "closedPipe"
    ELSE IF maxBytes > 0 /\ Len(halves[cur].data) + Len(cap.data) > maxBytes
    THEN "full" ELSE "none"

writeBuffer ==
    /\ loop = "write"
    /\ fault' = bufferError
    /\ IF bufferError = "none"
       THEN /\ halves' = [halves EXCEPT ![cur].data = @ \o cap.data]
            /\ loop' = afterData
       ELSE loop' = "return" /\ UNCHANGED halves
    /\ UNCHANGED <<cap, cur, discarded, entry, tracked, peerVars, incoming, done>>
    /\ loopFrame

finishReceive ==
    /\ loop = "finish"
    /\ halves' = [halves EXCEPT ![cur].bufClosed = TRUE]
    /\ loop' = IF isBidirectionalStream(cap.id) THEN "check" ELSE "delete"
    /\ UNCHANGED <<cap, cur, discarded, fault, entry, tracked, peerVars, incoming, done>>
    /\ loopFrame

(* Only unidirectional streams leave their map.                            *)
delete ==
    /\ loop = "delete"
    /\ entry' = [entry EXCEPT ![cap.id] = 0]
    /\ loop' = "check"
    /\ UNCHANGED <<cap, cur, discarded, fault, halves, tracked, peerVars, incoming, done>>
    /\ loopFrame

deferredClose ==
    /\ loop = "return"
    /\ done' = TRUE
    /\ loop' = "ended"
    /\ UNCHANGED <<cap, cur, discarded, fault, mapVars, peerVars, incoming>>
    /\ loopFrame

-----------------------------------------------------------------------------
(* The application.                                                        *)

appFrame == UNCHANGED <<peerVars, loopVars, crashed>>

(* Fault: the stream is handed out before it is in its map.                *)
toldAtOnce_yes(id) == told' = told \cup {id}

toldAtOnce(id) == UNCHANGED told

(* OpenStream and OpenUnidirectionalStream: the ID and, under limits.mu,   *)
(* its send limit (SendLimits shows credit and refusals), then the map.    *)
(* The applications hold their openMu around it, so there is one at a      *)
(* time.                                                                   *)
OpenStream(kind) ==
    LET id == createdStreamCounter + (IF kind = "uni" THEN 2 ELSE 0)
                                   + (IF IsServer THEN 1 ELSE 0)
    IN  /\ opening = -1
        /\ ~done
        /\ createdStreamCounter < 4 * MaxOpens
        /\ createdStreamCounter' = createdStreamCounter + 4
        /\ opening' = id
        /\ tracked' = tracked \cup {id}
        /\ toldAtOnce(id)
        /\ UNCHANGED <<halves, entry, held, reading, closing, incoming, done>>
        /\ appFrame

(* The stream is in its map; a unidirectional one has no receive half.     *)
(* From now on the application may write on it, and the peer may answer.   *)
opened ==
    LET h == Len(halves) + 1
    IN  /\ opening # -1
        /\ IF isBidirectionalStream(opening)
           THEN /\ halves' = Append(halves, newReceiveStream(opening))
                /\ entry' = [entry EXCEPT ![opening] = h]
                /\ held' = held \cup {h}
           ELSE UNCHANGED <<halves, entry, held>>
        /\ told' = told \cup {opening}
        /\ opening' = -1
        /\ UNCHANGED <<tracked, createdStreamCounter, reading, closing>>
        /\ UNCHANGED <<incoming, done>>
        /\ appFrame

AcceptStream(kind) ==
    /\ incoming[kind] # <<>>
    /\ held' = held \cup {Head(incoming[kind])}
    /\ incoming' = [incoming EXCEPT ![kind] = Tail(@)]
    /\ UNCHANGED <<reading, closing, told, openVars, mapVars, done>>
    /\ appFrame

Read(h) ==
    /\ h \in held \ reading
    /\ Cardinality(reading) < MaxReaders
    /\ reading' = reading \cup {h}
    /\ UNCHANGED <<held, closing, told, openVars, mapVars, incoming, done>>
    /\ appFrame

(* Data comes before the end; with neither, Read waits.                    *)
readReturns(h) ==
    /\ h \in reading
    /\ \/ \E n \in 1 .. Len(halves[h].data) :
            halves' = [halves EXCEPT
                         ![h].got = @ \o SubSeq(halves[h].data, 1, n),
                         ![h].data = SubSeq(@, n + 1, Len(@))]
       \/ /\ halves[h].data = <<>> /\ halves[h].bufClosed
          /\ halves' = [halves EXCEPT ![h].eof = TRUE]
    /\ reading' = reading \ {h}
    /\ UNCHANGED <<held, closing, told, openVars, entry, tracked, incoming, done>>
    /\ appFrame

(* ReceiveStream.Close: the flag, then the buffer.                         *)
Close(h) ==
    /\ h \in held
    /\ ~halves[h].closed
    /\ Cardinality({i \in DOMAIN halves : halves[i].closed}) < MaxCloses
    /\ halves' = [halves EXCEPT ![h].closed = TRUE]
    /\ closing' = closing \cup {h}
    /\ UNCHANGED <<held, reading, told, openVars, entry, tracked, incoming, done>>
    /\ appFrame

(* Fault: once the session is closed its buffers are left alone.           *)
closeBuffer_whileOpen(h) ==
    /\ h \in closing /\ ~done
    /\ halves' = [halves EXCEPT ![h].bufClosed = TRUE]
    /\ closing' = closing \ {h}
    /\ UNCHANGED <<held, reading, told, openVars, entry, tracked, incoming, done>>
    /\ appFrame

closeBuffer(h) ==
    /\ h \in closing
    /\ halves' = [halves EXCEPT ![h].bufClosed = TRUE]
    /\ closing' = closing \ {h}
    /\ UNCHANGED <<held, reading, told, openVars, entry, tracked, incoming, done>>
    /\ appFrame

(* Session.Close wakes nobody in Read.                                     *)
SessionClose ==
    /\ ~done
    /\ done' = TRUE
    /\ UNCHANGED <<appVars, openVars, mapVars, incoming>>
    /\ appFrame

-----------------------------------------------------------------------------
(* Map accesses in progress, and what the Go runtime makes of a conflict:  *)
(* it stops the process, or notices nothing.                               *)

mapOf(id) ==
    IF isBidirectionalStream(id) THEN "streams"
    ELSE IF isOurStream(id) THEN "sendStreams" ELSE "receiveStreams"

(* Fault: data on a send-only stream of ours is looked up too.             *)
lookedIn_all(id) == mapOf(id)

lookedIn(id) == IF isBidirectionalStream(id) THEN "streams" ELSE "receiveStreams"

Access(by, map, write) == [by |-> by, map |-> map, write |-> write]

Accesses ==
    (IF opening = -1 THEN {} ELSE {Access("opener", mapOf(opening), TRUE)})
    \cup (IF loop = "lookup" THEN {Access("loop", lookedIn(cap.id), FALSE)} ELSE {})
    \cup (IF loop \in {"insert", "delete"}
          THEN {Access("loop", mapOf(cap.id), TRUE)} ELSE {})

Conflict(a, b) == a.by # b.by /\ a.map = b.map /\ (a.write \/ b.write)

concurrentMapAccess ==
    /\ \E a, b \in Accesses : Conflict(a, b)
    /\ crashed' = TRUE
    /\ UNCHANGED <<appVars, openVars, peerVars, mapVars, loopVars, incoming, done>>

LoopStep ==
    \/ checkStop \/ lookup \/ insert \/ trackSendStream \/ enqueueIncoming
    \/ look \/ writeBuffer \/ finishReceive \/ delete \/ deferredClose

PeerStep ==
    \/ \E id \in PeerIDs, c \in Capsules : parse(id, c[1], c[2])
    \/ parseFails

AppStep ==
    \/ opened
    \/ \E kind \in Kinds : OpenStream(kind) \/ AcceptStream(kind)
    \/ \E h \in DOMAIN halves :
          Read(h) \/ readReturns(h) \/ Close(h) \/ closeBuffer(h)
    \/ SessionClose

Next == ~crashed /\ (LoopStep \/ PeerStep \/ AppStep \/ concurrentMapAccess)

Spec == Init /\ [][Next]_vars

HalfNumbers == 1 .. (MaxCapsules + MaxOpens)

(* Runnable goroutines run.  Nothing makes the peer send, the CONNECT      *)
(* stream end, or the application call.                                    *)
FairSpec ==
    /\ Spec
    /\ WF_vars(~crashed /\ LoopStep)
    /\ WF_vars(~crashed /\ opened)
    /\ \A h \in HalfNumbers :
          /\ WF_vars(~crashed /\ h \in DOMAIN halves /\ readReturns(h))
          /\ WF_vars(~crashed /\ h \in DOMAIN halves /\ closeBuffer(h))

-----------------------------------------------------------------------------
(* The properties.                                                         *)

Halves == DOMAIN halves

(* IDs the peer used against the protocol.                                 *)
misused == early \cup afterFin

Half ==
    [id : StreamIDs, closed : BOOLEAN, bufClosed : BOOLEAN,
     data : Seq(Nat), got : Seq(Nat), eof : BOOLEAN]

TypeOK ==
    /\ halves \in Seq(Half)
    /\ \A h \in Halves : maxBytes > 0 => Len(halves[h].data) <= maxBytes
    /\ entry \in [StreamIDs -> 0 .. Len(halves)]
    /\ tracked \subseteq StreamIDs /\ told \subseteq tracked
    /\ incoming \in [Kinds -> Seq(Halves)]
    /\ \A k \in Kinds : Len(incoming[k]) <= QueueCap
    /\ held \subseteq Halves /\ reading \subseteq held /\ closing \subseteq held
    /\ opening \in StreamIDs \cup {-1}
    /\ createdStreamCounter \in {4 * i : i \in 0 .. MaxOpens}
    /\ done \in BOOLEAN /\ crashed \in BOOLEAN
    /\ loop \in {"check", "parse", "lookup", "insert", "track", "enqueue", "look",
                 "write", "finish", "delete", "return", "ended"}
    /\ cap \in [id : StreamIDs, data : Seq(Nat), fin : BOOLEAN]
    /\ cur \in 0 .. Len(halves)
    /\ capsules \in 0 .. MaxCapsules /\ sent \in [StreamIDs -> Nat]
    /\ UNION {fins, early, afterFin, discarded} \subseteq StreamIDs
    /\ fault \in {"none", "closedPipe", "full"}

(* An ID stands for one stream: the application is never given two for the *)
(* capsules of one, although a unidirectional stream leaves its map while  *)
(* the application still reads it.  Only a peer that goes on after its FIN *)
(* gets a second one (readLoop).                                           *)
OneStreamPerID ==
    \A g, h \in Halves :
        g # h /\ halves[g].id = halves[h].id => halves[h].id \in afterFin

(* What a stream's readers got, with what is buffered, is what the peer    *)
(* sent on that ID, from its first byte and without a gap: capsules of     *)
(* interleaved streams do not mix, and the payload that opens a stream is  *)
(* not lost while the stream waits to be accepted.  EOF that Close did not *)
(* cause means that the peer sent FIN and that all was read (readLoop).    *)
ReadInOrder ==
    \A h \in Halves :
        LET all == halves[h].got \o halves[h].data
            id  == halves[h].id
        IN  /\ \A i \in DOMAIN all :
                  all[i] = i + (IF id \in misused THEN all[1] - 1 ELSE 0)
            /\ halves[h].eof /\ ~halves[h].closed /\ id \notin misused =>
                  id \in fins /\ Len(halves[h].got) = sent[id]

(* A stream the application holds and can write on has its send limit,     *)
(* although the read loop hands it over before it is done with it          *)
(* (trackSendStream before enqueueIncomingStream).                         *)
TrackedBeforeHeld ==
    \A h \in held : isBidirectionalStream(halves[h].id) => halves[h].id \in tracked

(* Data is rejected as "our ID" only when the peer used the ID before it   *)
(* could know it, or a send-only one: every reply finds its stream in the  *)
(* map (OpenStream).                                                       *)
RepliesFindTheirStream == discarded \subseteq early

(* The buffer refuses data as closed, which ends the session, only when    *)
(* the application was closing that half or the peer went on after FIN     *)
(* (receiveStreamData).                                                    *)
ClosedPipeHasCause ==
    fault = "closedPipe" => halves[cur].closed \/ cap.id \in afterFin

(* With Open* serialised ("serialize Open* until the library locks stream  *)
(* maps", internal/baton/session.go) the unlocked map of bidirectional     *)
(* streams is the only one where goroutines conflict: an application that  *)
(* opens only unidirectional streams, as the echo server does, is safe.    *)
OnlyStreamsRace ==
    \A a, b \in Accesses : Conflict(a, b) => a.map = "streams"

(* The peer's FIN releases a reader unless the session ends first: then    *)
(* Session.Close, which wakes no stream reader, leaves it waiting.  The    *)
(* way out is to close the half, which releases the reader also after the  *)
(* session has ended (session.go, stream.go).                              *)
ReadersReleased ==
    \A h \in HalfNumbers :
        /\ (h \in reading /\ halves[h].closed) ~> (h \notin reading \/ crashed)
        /\ (h \in reading /\ halves[h].id \in fins)
              ~> (h \notin reading \/ done \/ crashed \/ halves[h].id \in misused)

=============================================================================
