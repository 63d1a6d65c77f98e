---------------------------- MODULE DatagramBuffer ----------------------------
(***************************************************************************)
(* The session's datagram receive buffer (datagram.go) between the read    *)
(* loop, which delivers datagrams, and the goroutines in ReceiveDatagram.  *)
(* A reader that finds nothing releases mu and waits on notify, a channel  *)
(* of one token, so every locked block and every channel operation is a    *)
(* step of its own.  A datagram is its arrival number and its length.      *)
(***************************************************************************)
EXTENDS Integers, Sequences, FiniteSets

CONSTANTS
    Readers,         \* goroutines that call ReceiveDatagram
    Lengths,         \* lengths of the datagrams the peer sends
    maxBytes,        \* datagramReceiveBuffer.maxBytes, set at construction
    MaxArrivals      \* bound: datagrams the peer sends

ASSUME DatagramAssumption ==
    /\ Lengths \subseteq Nat
    /\ maxBytes \in Int
    /\ MaxArrivals \in Nat

VARIABLES
    queue, bufferedBytes, closed,
    notify,                    \* tokens in the channel, of capacity one
    pc,                        \* where each reader is in read
    arrivals,                  \* datagrams the read loop has parsed
    accepted, received,        \* history: what write took, what read returned
    overlap                    \* history: two calls of ReceiveDatagram overlapped

bufferVars == <<queue, bufferedBytes, closed, notify>>
vars == <<bufferVars, pc, arrivals, accepted, received, overlap>>

Datagrams == [seq : 1 .. MaxArrivals, len : Lengths]

Init ==
    /\ queue = <<>>
    /\ bufferedBytes = 0
    /\ closed = FALSE
    /\ notify = 0
    /\ pc = [r \in Readers |-> "idle"]
    /\ arrivals = 0
    /\ accepted = <<>>
    /\ received = <<>>
    /\ overlap = FALSE

-----------------------------------------------------------------------------
(* The read loop.                                                          *)

bufferFull(n) == maxBytes > 0 /\ bufferedBytes + n > maxBytes

(* Fault: the waiting reader is not told.                                  *)
signal_dropped == UNCHANGED notify

(* A send that gives up when the channel is full.                          *)
signal == notify' = IF notify < 1 THEN notify + 1 ELSE notify

push(d) ==
    /\ queue' = Append(queue, d)
    /\ bufferedBytes' = bufferedBytes + d.len

(* deliverDatagram: write refuses a datagram that does not fit, or that    *)
(* comes after close; the caller drops it.                                 *)
write(n) ==
    LET d == [seq |-> arrivals + 1, len |-> n]
    IN  /\ arrivals < MaxArrivals
        /\ arrivals' = arrivals + 1
        /\ IF closed \/ bufferFull(n)
           THEN UNCHANGED <<bufferVars, accepted>>
           ELSE /\ push(d)
                /\ signal
                /\ accepted' = Append(accepted, d)
                /\ UNCHANGED closed
        /\ UNCHANGED <<pc, received, overlap>>

(* Fault: close leaves blocked readers alone.                              *)
close_silent ==
    /\ ~closed
    /\ closed' = TRUE
    /\ UNCHANGED <<queue, bufferedBytes, notify>>
    /\ UNCHANGED <<pc, arrivals, accepted, received, overlap>>

(* closeDatagramDelivery, once.                                            *)
close ==
    /\ ~closed
    /\ closed' = TRUE
    /\ signal
    /\ UNCHANGED <<queue, bufferedBytes>>
    /\ UNCHANGED <<pc, arrivals, accepted, received, overlap>>

-----------------------------------------------------------------------------
(* ReceiveDatagram.                                                        *)

Goto(r, label) == pc' = [pc EXCEPT ![r] = label]

ReceiveDatagram(r) ==
    /\ pc[r] = "idle"
    /\ Goto(r, "look")
    /\ overlap' = (overlap \/ \E s \in Readers : pc[s] # "idle")
    /\ UNCHANGED <<bufferVars, arrivals, accepted, received>>

(* Fault: the bytes of a datagram read stay counted.                       *)
pop_uncounted ==
    /\ queue' = Tail(queue)
    /\ UNCHANGED bufferedBytes

(* Fault: the slice is cut at the wrong end.                               *)
pop_last ==
    /\ queue' = SubSeq(queue, 1, Len(queue) - 1)
    /\ bufferedBytes' = bufferedBytes - queue[Len(queue)].len

pop ==
    /\ queue' = Tail(queue)
    /\ bufferedBytes' = bufferedBytes - Head(queue).len

(* The locked block of read.                                               *)
look(r) ==
    /\ pc[r] = "look"
    /\ \/ /\ queue # <<>>
          /\ pop
          /\ received' = Append(received, Head(queue))
          /\ Goto(r, "idle")
       \/ /\ queue = <<>>
          /\ Goto(r, IF closed THEN "idle" ELSE "wait")
          /\ UNCHANGED <<queue, bufferedBytes, received>>
    /\ UNCHANGED <<closed, notify, arrivals, accepted, overlap>>

(* select: the token, or the end of the caller's context.                  *)
takeToken(r) ==
    /\ pc[r] = "wait"
    /\ notify > 0
    /\ notify' = notify - 1
    /\ Goto(r, "look")
    /\ UNCHANGED <<queue, bufferedBytes, closed>>
    /\ UNCHANGED <<arrivals, accepted, received, overlap>>

contextDone(r) ==
    /\ pc[r] = "wait"
    /\ Goto(r, "idle")
    /\ UNCHANGED <<bufferVars, arrivals, accepted, received, overlap>>

-----------------------------------------------------------------------------

Reader(r) == ReceiveDatagram(r) \/ look(r) \/ takeToken(r) \/ contextDone(r)

Next ==
    \/ \E n \in Lengths : write(n)
    \/ close
    \/ \E r \in Readers : Reader(r)

Spec == Init /\ [][Next]_vars

(* A runnable goroutine runs, and a receive whose token stays is served.   *)
(* Nothing makes the peer send, the session close, or a context end.       *)
FairSpec == Spec /\ \A r \in Readers : WF_vars(look(r) \/ takeToken(r))

-----------------------------------------------------------------------------
(* The properties.                                                         *)

TypeOK ==
    /\ queue \in Seq(Datagrams) /\ bufferedBytes \in Int
    /\ closed \in BOOLEAN /\ notify \in 0 .. 1
    /\ pc \in [Readers -> {"idle", "look", "wait"}]
    /\ arrivals \in 0 .. MaxArrivals
    /\ accepted \in Seq(Datagrams) /\ received \in Seq(Datagrams)
    /\ overlap \in BOOLEAN

(* Datagrams taken by write come out of ReceiveDatagram once each, in      *)
(* order and with nothing lost in between, whichever readers take them and *)
(* however close intervenes (write, read, datagram.go).                    *)
InOrderNoLoss == accepted = received \o queue

(* The bytes in a queue, one pair for each: counting them adds up the      *)
(* lengths.                                                                *)
BytesIn(q) == UNION {{i} \X (1 .. q[i].len) : i \in DOMAIN q}

(* bufferedBytes is the space really in use, so reading makes room and the *)
(* configured number of bytes is never exceeded (write and read).          *)
SpaceAccounted ==
    /\ bufferedBytes = Cardinality(BytesIn(queue))
    /\ maxBytes > 0 => bufferedBytes <= maxBytes

(* As long as calls of ReceiveDatagram do not overlap, no wakeup is lost:  *)
(* a reader that waits while there is something to return finds the token  *)
(* in notify.  It decides to wait under mu and waits without it, so a      *)
(* write or a close may fall in between, and an earlier call may have left *)
(* a token behind or given up on its context.                              *)
NoLostWakeup ==
    ~overlap => \A r \in Readers :
        pc[r] = "wait" /\ (queue # <<>> \/ closed) => notify > 0

(* What makes it inductive: without overlap one reader is in a call.       *)
LoneCall ==
    ~overlap => \A r, s \in Readers : pc[r] # "idle" /\ pc[s] # "idle" => r = s

(* Then a call that could return does return: "ReceiveDatagram waits for   *)
(* the next datagram from the peer" (session.go).                          *)
ReadersReturn ==
    \A r \in Readers :
        (pc[r] # "idle" /\ (queue # <<>> \/ closed)) ~> (pc[r] = "idle" \/ overlap)

=============================================================================
