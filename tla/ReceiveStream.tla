---------------------------- MODULE ReceiveStream ----------------------------
(***************************************************************************)
(* The receive half of one stream: ReceiveStream and streamReceiveBuffer   *)
(* (stream.go), between the read loop, which delivers the peer's WT_STREAM *)
(* and WT_STREAM_FIN capsules, the goroutines in Read, and the application *)
(* goroutine that closes the half.                                         *)
(*                                                                         *)
(* ReceiveStream.closed has no lock ("TODO: Lock"): looking at it, setting *)
(* it and the buffer's locked blocks are steps of their own.  A payload    *)
(* byte is its position in what the peer sent, from 1.                     *)
(***************************************************************************)
EXTENDS Integers, Sequences

CONSTANTS
    Readers,      \* goroutines that call Read
    ReadSizes,    \* lengths of their slices
    maxBytes,     \* StreamReceiveBufferSize; <= 0 is no limit
    MaxPayload,   \* bound: payload bytes of one capsule
    MaxSent       \* bound: payload bytes the peer sends

ASSUME ReceiveAssumption ==
    /\ ReadSizes \subseteq Nat
    /\ maxBytes \in Int
    /\ MaxPayload \in Nat
    /\ MaxSent \in Nat

VARIABLES
    closed,         \* ReceiveStream.closed
    data,           \* streamReceiveBuffer.data
    bufClosed,      \* streamReceiveBuffer.closed
    waiting,        \* goroutines in notEmpty.Wait
    loop,           \* where the read loop is
    payload, fin,   \* the capsule it delivers
    closer,         \* where the goroutine in Close is
    pc,             \* where each reader is
    sent, finSent,  \* what the peer has sent on the stream
    got, eof,       \* history: bytes Read returned, readers that saw EOF
    overlap         \* history: two calls of Read overlapped

loopVars == <<loop, payload, fin, sent, finSent>>
vars == <<closed, data, bufClosed, waiting, loopVars, closer, pc, got, eof,
          overlap>>

Init ==
    /\ closed = FALSE
    /\ data = <<>>
    /\ bufClosed = FALSE
    /\ waiting = {}
    /\ loop = "parse"
    /\ payload = <<>>
    /\ fin = FALSE
    /\ closer = "open"
    /\ pc = [r \in Readers |-> "idle"]
    /\ sent = 0
    /\ finSent = FALSE
    /\ got = <<>>
    /\ eof = {}
    /\ overlap = FALSE

-----------------------------------------------------------------------------
(* The buffer.  A woken reader has left notEmpty and must lock again.      *)

(* Fault: Signal where Broadcast is needed.                                *)
broadcast_one ==
    IF waiting = {} THEN UNCHANGED <<waiting, pc>>
    ELSE \E r \in waiting : /\ waiting' = waiting \ {r}
                            /\ pc' = [pc EXCEPT ![r] = "read"]

broadcast ==
    /\ waiting' = {}
    /\ pc' = [r \in Readers |-> IF r \in waiting THEN "read" ELSE pc[r]]

signal ==
    IF waiting = {} THEN UNCHANGED <<waiting, pc>>
    ELSE \E r \in waiting : /\ waiting' = waiting \ {r}
                            /\ pc' = [pc EXCEPT ![r] = "read"]

(* close of the buffer; a second close does nothing.                       *)
closeBuffer ==
    IF bufClosed THEN UNCHANGED <<bufClosed, waiting, pc>>
    ELSE bufClosed' = TRUE /\ broadcast

bufferFull == maxBytes > 0 /\ Len(data) + Len(payload) > maxBytes

-----------------------------------------------------------------------------
(* The read loop.                                                          *)

(* A capsule for this stream; a peer sends nothing after its FIN.          *)
parseCapsule(n, isFin) ==
    /\ loop = "parse"
    /\ ~finSent
    /\ sent + n <= MaxSent
    /\ payload' = [i \in 1 .. n |-> sent + i]
    /\ fin' = isFin
    /\ sent' = sent + n
    /\ finSent' = isFin
    /\ loop' = "look"
    /\ UNCHANGED <<closed, data, bufClosed, waiting, closer, pc, got, eof, overlap>>

(* receiveStreamData looks at closed: data for a closed half is discarded. *)
receiveStreamData ==
    /\ loop = "look"
    /\ loop' = IF ~closed THEN "write" ELSE IF fin THEN "finish" ELSE "parse"
    /\ UNCHANGED <<payload, fin, sent, finSent>>
    /\ UNCHANGED <<closed, data, bufClosed, waiting, closer, pc, got, eof, overlap>>

store ==
    /\ data' = data \o payload
    /\ signal

(* recvBuffer.write; an error ends the read loop, and with it the session. *)
writeBuffer ==
    /\ loop = "write"
    /\ \/ /\ bufClosed
          /\ loop' = "closedPipe"
          /\ UNCHANGED <<data, waiting, pc>>
       \/ /\ ~bufClosed /\ bufferFull
          /\ loop' = "full"
          /\ UNCHANGED <<data, waiting, pc>>
       \/ /\ ~bufClosed /\ ~bufferFull
          /\ store
          /\ loop' = IF fin THEN "finish" ELSE "parse"
    /\ UNCHANGED <<payload, fin, sent, finSent>>
    /\ UNCHANGED <<closed, bufClosed, closer, got, eof, overlap>>

finishReceive ==
    /\ loop = "finish"
    /\ closeBuffer
    /\ loop' = "parse"
    /\ UNCHANGED <<payload, fin, sent, finSent>>
    /\ UNCHANGED <<closed, data, closer, got, eof, overlap>>

-----------------------------------------------------------------------------
(* ReceiveStream.Close by the application.                                 *)

Close ==
    /\ closer = "open"
    /\ closer' = "closing"
    /\ closed' = TRUE
    /\ UNCHANGED <<data, bufClosed, waiting, loopVars, pc, got, eof, overlap>>

CloseBuffer ==
    /\ closer = "closing"
    /\ closer' = "closed"
    /\ closeBuffer
    /\ UNCHANGED <<closed, data, loopVars, got, eof, overlap>>

-----------------------------------------------------------------------------
(* ReceiveStream.Read.                                                     *)

Read(r) ==
    /\ pc[r] = "idle"
    /\ pc' = [pc EXCEPT ![r] = "read"]
    /\ overlap' = (overlap \/ \E s \in Readers : pc[s] # "idle")
    /\ UNCHANGED <<closed, data, bufClosed, waiting, loopVars, closer, got, eof>>

(* Fault: a closed buffer is at its end.                                   *)
atEOF_early == bufClosed

atEOF == data = <<>> /\ bufClosed

Min(a, b) == IF a < b THEN a ELSE b

(* read under mu: wait, EOF, or as much as the caller's slice takes.  Wait *)
(* enters notEmpty before it unlocks.                                      *)
readBuffer(r, size) ==
    LET n == Min(size, Len(data))
    IN  /\ pc[r] = "read"
        /\ \/ /\ data = <<>> /\ ~bufClosed
              /\ waiting' = waiting \cup {r}
              /\ pc' = [pc EXCEPT ![r] = "wait"]
              /\ UNCHANGED <<data, got, eof>>
           \/ /\ atEOF
              /\ pc' = [pc EXCEPT ![r] = "idle"]
              /\ eof' = eof \cup {r}
              /\ UNCHANGED <<data, waiting, got>>
           \/ /\ data # <<>> /\ ~atEOF
              /\ pc' = [pc EXCEPT ![r] = "idle"]
              /\ data' = SubSeq(data, n + 1, Len(data))
              /\ got' = got \o SubSeq(data, 1, n)
              /\ UNCHANGED <<waiting, eof>>
        /\ UNCHANGED <<closed, bufClosed, loopVars, closer, overlap>>

-----------------------------------------------------------------------------

ReadLoop ==
    \/ \E n \in 0 .. MaxPayload, isFin \in BOOLEAN : parseCapsule(n, isFin)
    \/ receiveStreamData
    \/ writeBuffer
    \/ finishReceive

Reader(r) == Read(r) \/ \E size \in ReadSizes : readBuffer(r, size)

Next == ReadLoop \/ Close \/ CloseBuffer \/ \E r \in Readers : Reader(r)

Spec == Init /\ [][Next]_vars

(* Runnable goroutines run; nothing makes the peer send or anyone call.    *)
FairSpec ==
    /\ Spec
    /\ WF_vars(receiveStreamData \/ writeBuffer \/ finishReceive)
    /\ WF_vars(CloseBuffer)
    /\ \A r \in Readers : WF_vars(\E size \in ReadSizes : readBuffer(r, size))

-----------------------------------------------------------------------------
(* The properties.                                                         *)

TypeOK ==
    /\ closed \in BOOLEAN /\ bufClosed \in BOOLEAN
    /\ data \in Seq(1 .. MaxSent) /\ got \in Seq(1 .. MaxSent)
    /\ maxBytes > 0 => Len(data) <= maxBytes
    /\ waiting = {r \in Readers : pc[r] = "wait"}
    /\ loop \in {"parse", "look", "write", "finish", "closedPipe", "full"}
    /\ payload \in Seq(1 .. MaxSent) /\ fin \in BOOLEAN
    /\ closer \in {"open", "closing", "closed"}
    /\ pc \in [Readers -> {"idle", "read", "wait"}]
    /\ sent \in 0 .. MaxSent /\ finSent \in BOOLEAN
    /\ eof \subseteq Readers /\ overlap \in BOOLEAN

(* What readers got, with what is buffered behind it, is a prefix of what  *)
(* the peer sent: no byte is skipped, repeated or overtaken, although data *)
(* is discarded once the half is closed.  Unless the application closed    *)
(* it, EOF means that the peer sent FIN and that every byte before it was  *)
(* read (receiveStreamData, write, read, finishReceive).                   *)
ReadsWhatWasSent ==
    /\ \A i \in 1 .. Len(got \o data) : (got \o data)[i] = i
    /\ eof # {} /\ ~closed => finSent /\ Len(got) = sent

(* Whoever closes the buffer, no reader stays in Read, however many there  *)
(* are, since close broadcasts; and as long as calls of Read do not        *)
(* overlap, a call that has something to return does return: the read      *)
(* loop's Signal is not lost between the reader's test and its Wait        *)
(* (write, close, read).                                                   *)
ReadReturns ==
    \A r \in Readers :
        /\ (bufClosed /\ pc[r] = "wait") ~> pc[r] = "idle"
        /\ (pc[r] # "idle" /\ data # <<>>) ~> (pc[r] = "idle" \/ overlap)

=============================================================================
