------------------------------ MODULE SendLimits ------------------------------
(***************************************************************************)
(* The send side of a session: the peer's grant of data and stream credit  *)
(* (flow.go), and the calls that spend it (OpenStream and                  *)
(* OpenUnidirectionalStream in session.go, SendStream.Write and            *)
(* SendStream.Close in stream.go).                                         *)
(*                                                                         *)
(* Every block that runs under limits.mu or under writeMu is one action;   *)
(* the gaps between the blocks of one call are where goroutines, and the   *)
(* read loop that applies the peer's WT_MAX_* capsules, interleave.        *)
(*                                                                         *)
(* A Go map reads as zero where it has no entry, so streamMax is a total   *)
(* function and hasMax is the set of its keys; streamSent needs no key     *)
(* set because nothing asks whether an entry exists.  Amounts are natural  *)
(* numbers: WithinGrant bounds every counter by a value a varint carried,  *)
(* so the 64-bit fields of the code do not wrap.                           *)
(***************************************************************************)
EXTENDS Integers, FiniteSets

CONSTANTS
    IsServer,       \* Session.isServer
    Goroutines,     \* application goroutines that use the session
    InMemory,       \* newSession: made without a snapshot of the peer's SETTINGS
    PeerSettings,   \* SETTINGS snapshots the peer may have sent
    Grants,         \* values the peer's WT_MAX_* capsules carry
    NamedIDs,       \* bound: stream IDs the peer's capsules name
    maxStreamCount, \* 2^60 in the code
    MaxOpens,       \* bound: stream IDs of one kind and one opener
    MaxWrite,       \* bound: payload bytes of one Write
    MaxSent,        \* bound: no Write starts after this many bytes were sent
    Calls,          \* the calls the application makes
    SerialIDs       \* streams on which the application never overlaps two calls

Kinds == {"uni", "bidi"}

(* peerInitialLimits, with the two stream counts and the three per-stream  *)
(* values as functions.                                                    *)
Settings ==
    [maxData    : Nat,
     maxStreams : [Kinds -> Nat],
     streamData : [{"uni", "local", "remote"} -> Nat]]

StreamIDs == 0 .. (4 * MaxOpens - 1)

ASSUME ConstantsAssumption ==
    /\ IsServer \in BOOLEAN /\ InMemory \in BOOLEAN
    /\ IsFiniteSet(Goroutines)
    /\ PeerSettings \subseteq Settings
    /\ Grants \subseteq Nat
    /\ NamedIDs \subseteq StreamIDs
    /\ maxStreamCount \in Nat
    /\ MaxOpens \in Nat \ {0}
    /\ MaxWrite \in Nat
    /\ MaxSent \in Nat
    /\ Calls \subseteq {"open", "write", "close"}
    /\ SerialIDs \subseteq StreamIDs

VARIABLES
    active,               \* sendLimits.active
    maxData,              \* sendLimits.maxData
    maxStreams,           \* sendLimits.maxStreamsUni, maxStreamsBidi
    streamData,           \* sendLimits.streamDataUni, ...BidiLocal, ...BidiRemote
    hasMax, streamMax,    \* keys and values of sendLimits.streamMax
    dataSent,             \* sendLimits.dataSent
    streamSent,           \* sendLimits.streamSent
    opened,               \* sendLimits.openedUni, openedBidi
    createdStreamCounter, \* Session.createdStreamCounter
    stop,                 \* Session.stop
    sendable,             \* streams the application holds a send half of
    closed,               \* SendStream.closed
    reading,              \* the read loop has not returned
    connUp,               \* the CONNECT stream still takes writes
    pc, callKind, callID, callLen,  \* the call each goroutine is in
    wireData, wireStream, \* history: stream payload the peer was sent
    wireFin               \* history: streams whose FIN the peer was sent

limitVars == <<active, maxData, maxStreams, streamData, hasMax, streamMax>>
spentVars == <<dataSent, streamSent, opened, createdStreamCounter>>
callVars  == <<pc, callKind, callID, callLen>>
wireVars  == <<wireData, wireStream, wireFin>>
connVars  == <<stop, reading, connUp>>
vars == <<limitVars, spentVars, callVars, wireVars, connVars, sendable, closed>>

-----------------------------------------------------------------------------
(* Stream IDs.                                                             *)

isOurStream(id) == IF IsServer THEN id % 2 = 1 ELSE id % 2 = 0

isBidirectionalStream(id) == (id \div 2) % 2 = 0

(* createdStreamCounter is a multiple of four, so the bitwise ORs add.     *)
nextStreamID(kind) ==
    createdStreamCounter + (IF kind = "uni" THEN 2 ELSE 0)
                         + (IF IsServer THEN 1 ELSE 0)

initialStreamSendLimit(id) ==
    IF ~isBidirectionalStream(id) THEN streamData["uni"]
    ELSE IF isOurStream(id) THEN streamData["remote"] ELSE streamData["local"]

(* The limit in force on a stream, opened or not.                          *)
currentStreamMax(id) ==
    IF id \in hasMax THEN streamMax[id] ELSE initialStreamSendLimit(id)

-----------------------------------------------------------------------------
(* Initial state: newSessionConfigured with a peer snapshot, or without.   *)

adoptPeerSendLimits(peer) ==
    /\ active = TRUE
    /\ maxData = peer.maxData
    /\ maxStreams = peer.maxStreams
    /\ streamData = peer.streamData

noPeerSendLimits ==
    /\ active = FALSE
    /\ maxData = 0
    /\ maxStreams = [k \in Kinds |-> 0]
    /\ streamData = [k \in {"uni", "local", "remote"} |-> 0]

Init ==
    /\ IF InMemory THEN noPeerSendLimits
                   ELSE \E peer \in PeerSettings : adoptPeerSendLimits(peer)
    /\ hasMax = {}
    /\ streamMax = [id \in StreamIDs |-> 0]
    /\ dataSent = 0
    /\ streamSent = [id \in StreamIDs |-> 0]
    /\ opened = [k \in Kinds |-> 0]
    /\ createdStreamCounter = 0
    /\ stop = FALSE
    /\ sendable = {}
    /\ closed = [id \in StreamIDs |-> FALSE]
    /\ reading = TRUE
    /\ connUp = TRUE
    /\ pc = [g \in Goroutines |-> "idle"]
    /\ callKind = [g \in Goroutines |-> "uni"]
    /\ callID = [g \in Goroutines |-> 0]
    /\ callLen = [g \in Goroutines |-> 0]
    /\ wireData = 0
    /\ wireStream = [id \in StreamIDs |-> 0]
    /\ wireFin = {}

Goto(g, label) == pc' = [pc EXCEPT ![g] = label]

(* A call's arguments die with it.                                         *)
Return(g) ==
    /\ Goto(g, "idle")
    /\ callKind' = [callKind EXCEPT ![g] = "uni"]
    /\ callID' = [callID EXCEPT ![g] = 0]
    /\ callLen' = [callLen EXCEPT ![g] = 0]

-----------------------------------------------------------------------------
(* Opening a stream.                                                       *)

ensureStreamSendLimit(id) ==
    IF ~active \/ id \in hasMax THEN UNCHANGED <<hasMax, streamMax>>
    ELSE /\ hasMax' = hasMax \cup {id}
         /\ streamMax' = [streamMax EXCEPT ![id] = initialStreamSendLimit(id)]

(* OpenStream and OpenUnidirectionalStream look at stop first, unlocked.   *)
OpenStream(g, kind) ==
    /\ "open" \in Calls
    /\ pc[g] = "idle"
    /\ ~stop
    /\ Goto(g, "opening")
    /\ callKind' = [callKind EXCEPT ![g] = kind]
    /\ UNCHANGED <<callID, callLen>>
    /\ UNCHANGED <<limitVars, spentVars, wireVars, connVars, sendable, closed>>

(* Fault: the count is compared after the stream was counted.              *)
noStreamCredit_late(kind) == opened[kind] > maxStreams[kind]

noStreamCredit(kind) == opened[kind] >= maxStreams[kind]

(* Fault: a refused open has already taken its ID.                         *)
refusedOpen_takesID(g) ==
    /\ createdStreamCounter' = createdStreamCounter + 4
    /\ UNCHANGED <<dataSent, streamSent, opened, hasMax, streamMax, sendable>>

refusedOpen(g) ==
    UNCHANGED <<spentVars, hasMax, streamMax, sendable>>

(* The locked part, and the insertion into streams or sendStreams.  The    *)
(* first conjunct is the bound on stream IDs.                              *)
allocLocalStream(g) ==
    LET kind == callKind[g]
        id   == nextStreamID(kind)
    IN  /\ pc[g] = "opening"
        /\ createdStreamCounter < 4 * MaxOpens
        /\ Return(g)
        /\ IF active /\ noStreamCredit(kind)
           THEN refusedOpen(g)
           ELSE /\ createdStreamCounter' = createdStreamCounter + 4
                /\ opened' = IF active THEN [opened EXCEPT ![kind] = @ + 1]
                             ELSE opened
                /\ ensureStreamSendLimit(id)
                /\ sendable' = sendable \cup {id}
                /\ UNCHANGED <<dataSent, streamSent>>
        /\ UNCHANGED <<active, maxData, maxStreams, streamData>>
        /\ UNCHANGED <<wireVars, connVars, closed>>

-----------------------------------------------------------------------------
(* SendStream.Write: check closed, reserve, write the capsule, and refund  *)
(* when the capsule could not be written.                                  *)

mayCall(g, id) ==
    /\ pc[g] = "idle"
    /\ id \in sendable
    /\ id \in SerialIDs =>
           \A h \in Goroutines : pc[h] \in {"idle", "opening"} \/ callID[h] # id

(* Fault: Write does not look at closed.                                   *)
writable_unchecked(id) == TRUE

writable(id) == ~closed[id]

Write(g, id, n) ==
    /\ "write" \in Calls /\ wireData < MaxSent
    /\ mayCall(g, id)
    /\ writable(id)
    /\ Goto(g, "reserve")
    /\ callID' = [callID EXCEPT ![g] = id]
    /\ callLen' = [callLen EXCEPT ![g] = n]
    /\ UNCHANGED callKind
    /\ UNCHANGED <<limitVars, spentVars, wireVars, connVars, sendable, closed>>

exceedsSessionGrant(n) == dataSent > maxData \/ n > maxData - dataSent

(* Fault: only the session grant is compared.                              *)
exceedsStreamGrant_ignored(id, n) == FALSE

exceedsStreamGrant(id, n) ==
    streamSent[id] > streamMax[id] \/ n > streamMax[id] - streamSent[id]

reserveSendData(g) ==
    LET id == callID[g]
        n  == callLen[g]
    IN  /\ pc[g] = "reserve"
        /\ \/ /\ n = 0 \/ ~active
              /\ Goto(g, "send")
              /\ UNCHANGED <<dataSent, streamSent, callKind, callID, callLen>>
           \/ /\ n # 0 /\ active
              /\ exceedsSessionGrant(n) \/ exceedsStreamGrant(id, n)
              /\ Return(g)
              /\ UNCHANGED <<dataSent, streamSent>>
           \/ /\ n # 0 /\ active
              /\ ~exceedsSessionGrant(n) /\ ~exceedsStreamGrant(id, n)
              /\ Goto(g, "send")
              /\ dataSent' = dataSent + n
              /\ streamSent' = [streamSent EXCEPT ![id] = @ + n]
              /\ UNCHANGED <<callKind, callID, callLen>>
        /\ UNCHANGED <<opened, createdStreamCounter>>
        /\ UNCHANGED <<limitVars, wireVars, connVars, sendable, closed>>

(* writeCapsule takes writeMu and succeeds while the CONNECT stream is up. *)
writeStreamCapsule(g) ==
    /\ pc[g] = "send"
    /\ connUp
    /\ Return(g)
    /\ wireData' = wireData + callLen[g]
    /\ wireStream' = [wireStream EXCEPT ![callID[g]] = @ + callLen[g]]
    /\ UNCHANGED wireFin
    /\ UNCHANGED <<limitVars, spentVars, connVars, sendable, closed>>

writeStreamCapsuleFails(g) ==
    /\ pc[g] = "send"
    /\ ~connUp
    /\ Goto(g, "refund")
    /\ UNCHANGED <<callKind, callID, callLen>>
    /\ UNCHANGED <<limitVars, spentVars, wireVars, connVars, sendable, closed>>

(* Fault: only the session counter gets the bytes back.                    *)
refunded_sessionOnly(id, n) ==
    /\ dataSent' = IF dataSent >= n THEN dataSent - n ELSE dataSent
    /\ UNCHANGED streamSent

refunded(id, n) ==
    /\ dataSent' = IF dataSent >= n THEN dataSent - n ELSE dataSent
    /\ streamSent' = IF streamSent[id] >= n
                     THEN [streamSent EXCEPT ![id] = @ - n] ELSE streamSent

refundSendData(g) ==
    /\ pc[g] = "refund"
    /\ Return(g)
    /\ IF callLen[g] = 0 \/ ~active
       THEN UNCHANGED <<dataSent, streamSent>>
       ELSE refunded(callID[g], callLen[g])
    /\ UNCHANGED <<opened, createdStreamCounter>>
    /\ UNCHANGED <<limitVars, wireVars, connVars, sendable, closed>>

-----------------------------------------------------------------------------
(* SendStream.Close: look at closed, set it, then write the FIN capsule.   *)

Close(g, id) ==
    /\ "close" \in Calls
    /\ mayCall(g, id)
    /\ ~closed[id]
    /\ Goto(g, "mark")
    /\ callID' = [callID EXCEPT ![g] = id]
    /\ UNCHANGED <<callKind, callLen>>
    /\ UNCHANGED <<limitVars, spentVars, wireVars, connVars, sendable, closed>>

markClosed(g) ==
    /\ pc[g] = "mark"
    /\ Goto(g, "fin")
    /\ closed' = [closed EXCEPT ![callID[g]] = TRUE]
    /\ UNCHANGED <<callKind, callID, callLen>>
    /\ UNCHANGED <<limitVars, spentVars, wireVars, connVars, sendable>>

writeFinCapsule(g) ==
    /\ pc[g] = "fin"
    /\ Return(g)
    /\ wireFin' = IF connUp THEN wireFin \cup {callID[g]} ELSE wireFin
    /\ UNCHANGED <<wireData, wireStream>>
    /\ UNCHANGED <<limitVars, spentVars, connVars, sendable, closed>>

-----------------------------------------------------------------------------
(* The read loop applies the peer's capsules.  A FlowControlError ends it. *)
(* How many capsules it may still parse once stop is set is a question for *)
(* Session (OneLateCapsule); here it is free to parse more.                *)

UnchangedByReadLoop ==
    UNCHANGED <<spentVars, callVars, wireVars, stop, connUp, closed>>

(* Fault: the value of the capsule is stored whatever it was before.       *)
lowers_never(max, cur) == FALSE

lowers(max, cur) == max < cur

raiseMaxData(max) ==
    /\ reading
    /\ active' = TRUE
    /\ IF lowers(max, maxData) THEN reading' = FALSE /\ UNCHANGED maxData
                               ELSE maxData' = max /\ UNCHANGED reading
    /\ UNCHANGED <<maxStreams, streamData, hasMax, streamMax, sendable>>
    /\ UnchangedByReadLoop

raiseMaxStreamData(id, max) ==
    /\ reading
    /\ active' = TRUE
    /\ IF lowers(max, currentStreamMax(id))
       THEN reading' = FALSE /\ UNCHANGED <<hasMax, streamMax>>
       ELSE /\ hasMax' = hasMax \cup {id}
            /\ streamMax' = [streamMax EXCEPT ![id] = max]
            /\ UNCHANGED reading
    /\ UNCHANGED <<maxData, maxStreams, streamData, sendable>>
    /\ UnchangedByReadLoop

(* A count above 2^60 is refused before active is touched.                 *)
raiseMaxStreams(kind, max) ==
    /\ reading
    /\ IF max > maxStreamCount
       THEN reading' = FALSE /\ UNCHANGED <<active, maxStreams>>
       ELSE /\ active' = TRUE
            /\ IF lowers(max, maxStreams[kind])
               THEN reading' = FALSE /\ UNCHANGED maxStreams
               ELSE /\ maxStreams' = [maxStreams EXCEPT ![kind] = max]
                    /\ UNCHANGED reading
    /\ UNCHANGED <<maxData, streamData, hasMax, streamMax, sendable>>
    /\ UnchangedByReadLoop

(* A peer-initiated bidirectional stream is tracked before it is handed to *)
(* the application, which may then write on it.                            *)
trackSendStream(id) ==
    IF ~isBidirectionalStream(id) /\ ~isOurStream(id)
    THEN UNCHANGED <<hasMax, streamMax>> ELSE ensureStreamSendLimit(id)

acceptPeerStream(id) ==
    /\ reading
    /\ isBidirectionalStream(id) /\ ~isOurStream(id)
    /\ id \notin sendable
    /\ trackSendStream(id)
    /\ sendable' = sendable \cup {id}
    /\ UNCHANGED <<active, maxData, maxStreams, streamData, reading>>
    /\ UnchangedByReadLoop

(* A limit capsule it cannot read, or any other end of the loop.           *)
ReadLoopEnds ==
    /\ reading
    /\ reading' = FALSE
    /\ UNCHANGED <<limitVars, sendable>>
    /\ UnchangedByReadLoop

-----------------------------------------------------------------------------
(* The session stops (a local Close, or the read loop's deferred one); the *)
(* HTTP/2 layer ends the CONNECT stream.  Neither touches the streams.     *)

SessionClose ==
    /\ ~stop
    /\ stop' = TRUE
    /\ UNCHANGED <<limitVars, spentVars, callVars, wireVars>>
    /\ UNCHANGED <<reading, connUp, sendable, closed>>

ConnectStreamEnds ==
    /\ connUp
    /\ connUp' = FALSE
    /\ UNCHANGED <<limitVars, spentVars, callVars, wireVars>>
    /\ UNCHANGED <<stop, reading, sendable, closed>>

-----------------------------------------------------------------------------

App(g) ==
    \/ \E kind \in Kinds : OpenStream(g, kind)
    \/ allocLocalStream(g)
    \/ \E id \in StreamIDs, n \in 0 .. MaxWrite : Write(g, id, n)
    \/ reserveSendData(g)
    \/ writeStreamCapsule(g)
    \/ writeStreamCapsuleFails(g)
    \/ refundSendData(g)
    \/ \E id \in StreamIDs : Close(g, id)
    \/ markClosed(g)
    \/ writeFinCapsule(g)

ReadLoop ==
    \/ \E max \in Grants : raiseMaxData(max)
    \/ \E id \in NamedIDs, max \in Grants : raiseMaxStreamData(id, max)
    \/ \E kind \in Kinds, max \in Grants : raiseMaxStreams(kind, max)
    \/ \E id \in NamedIDs : acceptPeerStream(id)
    \/ ReadLoopEnds

Next ==
    \/ \E g \in Goroutines : App(g)
    \/ ReadLoop
    \/ SessionClose
    \/ ConnectStreamEnds

Spec == Init /\ [][Next]_vars

-----------------------------------------------------------------------------
(* The properties.                                                         *)

TypeOK ==
    /\ active \in BOOLEAN /\ maxData \in Nat
    /\ maxStreams \in [Kinds -> Nat]
    /\ streamData \in [{"uni", "local", "remote"} -> Nat]
    /\ hasMax \subseteq StreamIDs /\ streamMax \in [StreamIDs -> Nat]
    /\ dataSent \in Nat /\ streamSent \in [StreamIDs -> Nat]
    /\ opened \in [Kinds -> Nat]
    /\ createdStreamCounter \in {4 * k : k \in 0 .. MaxOpens}
    /\ sendable \subseteq StreamIDs /\ closed \in [StreamIDs -> BOOLEAN]
    /\ stop \in BOOLEAN /\ reading \in BOOLEAN /\ connUp \in BOOLEAN
    /\ pc \in [Goroutines -> {"idle", "opening", "reserve", "send", "refund",
                              "mark", "fin"}]
    /\ callKind \in [Goroutines -> Kinds]
    /\ callID \in [Goroutines -> StreamIDs]
    /\ callLen \in [Goroutines -> 0 .. MaxWrite]
    /\ wireData \in Nat /\ wireStream \in [StreamIDs -> Nat]
    /\ wireFin \subseteq StreamIDs

(* Payload bytes each goroutine has charged in a Write that has neither    *)
(* written its capsule nor refunded it, in all and on one stream.          *)
Held ==
    [g \in Goroutines |-> IF pc[g] \in {"send", "refund"} THEN callLen[g] ELSE 0]

HeldOn(id) == [g \in Goroutines |-> IF callID[g] = id THEN Held[g] ELSE 0]

(* The sum of such a function, counted one pair per byte.                  *)
Total(held) ==
    Cardinality({b \in Goroutines \X (1 .. MaxWrite) : b[2] <= held[b[1]]})

OurStreams(kind) ==
    {id \in sendable : isOurStream(id)
                       /\ (isBidirectionalStream(id) <=> kind = "bidi")}

(* What sendLimits records as spent is exactly what the peer was sent plus *)
(* what calls in progress still hold, whatever the interleaving of         *)
(* reserve, capsule write, failed write and refund (Write, stream.go):     *)
(* no credit leaks and none is given back twice.                           *)
ChargeMatchesWire ==
    ~InMemory =>
        /\ dataSent = wireData + Total(Held)
        /\ \A id \in StreamIDs :
               streamSent[id] = wireStream[id] + Total(HeldOn(id))

(* The peer never receives stream payload beyond its current grant, for    *)
(* the session and for each stream, although the grant is checked before   *)
(* the capsule is written (reserveSendData, flow.go).                      *)
WireWithinGrant ==
    ~InMemory =>
        /\ wireData <= maxData
        /\ \A id \in StreamIDs : wireStream[id] <= streamMax[id]

(* No more streams of a kind are open than the peer granted, although the  *)
(* application opens them from several goroutines (allocLocalStream).      *)
OpensWithinGrant ==
    ~InMemory => \A kind \in Kinds :
        Cardinality(OurStreams(kind)) <= maxStreams[kind]

(* Stream IDs are handed out without gaps or reuse over both kinds: "A     *)
(* refused open does not consume an ID" (allocLocalStream, flow.go).       *)
IDsDense ==
    createdStreamCounter =
        4 * (Cardinality(OurStreams("uni")) + Cardinality(OurStreams("bidi")))

(* What makes the properties above inductive.                              *)
ActiveOnceGranted == ~InMemory => active

NoLimitWithoutEntry == \A id \in StreamIDs \ hasMax : streamMax[id] = 0

SpentWithinGrant ==
    ~InMemory =>
        /\ dataSent <= maxData
        /\ \A id \in StreamIDs : streamSent[id] <= streamMax[id]
        /\ \A kind \in Kinds : opened[kind] <= maxStreams[kind]

OpensCounted ==
    ~InMemory => \A kind \in Kinds : opened[kind] = Cardinality(OurStreams(kind))

OurIDsBelowCounter ==
    \A id \in sendable : isOurStream(id) => id < createdStreamCounter

IInv ==
    /\ TypeOK /\ ActiveOnceGranted /\ NoLimitWithoutEntry /\ SpentWithinGrant
    /\ OpensCounted /\ OurIDsBelowCounter /\ ChargeMatchesWire

(* The peer sees flow control obeyed: a capsule that would lower a limit   *)
(* is an error, opening a stream keeps a limit raised before it existed,   *)
(* and every byte and stream is spent within the grants in force, although *)
(* reserving and sending are separate steps (raise*, ensure...Locked and   *)
(* reserveSendData in flow.go, Write in stream.go).                        *)
C == INSTANCE Credit WITH
    Streams <- StreamIDs,
    dataGrant <- maxData,
    dataUsed <- wireData,
    streamGrant <- [id \in StreamIDs |-> currentStreamMax(id)],
    streamUsed <- wireStream,
    openGrant <- maxStreams,
    openUsed <- [kind \in Kinds |-> Cardinality(OurStreams(kind))]

ImplementsCredit == C!Spec

(* After the FIN of a stream the peer gets no more data on it, when the    *)
(* application does not overlap calls on that stream (Write and Close,     *)
(* stream.go).                                                             *)
FinIsLast ==
    [][\A id \in wireFin \cap SerialIDs : wireStream'[id] = wireStream[id]]_vars

=============================================================================
