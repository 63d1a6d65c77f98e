--------------------------------- MODULE Echo ---------------------------------
(***************************************************************************)
(* The echo application (internal/echo) on both sides of one session: the  *)
(* server's handler with its three loops and the goroutines they start,    *)
(* and the client's RunClient with its timeout, inside the commands that   *)
(* end the CONNECT stream (cmd/echo).                                      *)
(*                                                                         *)
(* A payload is there or not; the library below hands it over whole        *)
(* (ReceiveStream, SessionStreams).  The server's capsules stay in the     *)
(* ResponseWriter's buffer until Flush or until the handler returns; a     *)
(* write after that panics, and no one recovers in those goroutines.       *)
(***************************************************************************)
EXTENDS Integers, Sequences, FiniteSets

CONSTANT Modes   \* channels a client may use

ASSUME EchoAssumption == Modes \subseteq {"bidi", "uni", "datagram"}

Loops == {"bidi", "uni", "datagram"}

VARIABLES
    mode, big,            \* the client's channel; payload larger than a receive buffer
    patient,              \* RunClient's context has no deadline
    client, result,       \* where RunClient and its command are; how it ended
    reader,               \* the client's goroutine in ReadAll
    reply,                \* the client's receive half: data, fin, closed
    clientQueue,          \* what the client can accept or receive
    clientDone,           \* the client's session is closed
    handler, loops, echo, \* the server's handler, loops, echoing goroutine
    request,              \* the server's receive half: data, fin
    serverQueue,          \* what the server's loops can accept or receive
    serverDone,           \* the server's session is closed
    buffer, up, down,     \* the ResponseWriter's buffer, the two wires
    timedOut, lost,       \* the client's context ended; the connection is gone
    refused               \* an Open or a Write was refused

clientVars == <<client, result, reader, reply, clientQueue, clientDone>>
serverVars == <<handler, loops, echo, request, serverQueue, serverDone, buffer>>
wires == <<up, down>>
trouble == <<timedOut, lost, refused>>
vars == <<mode, big, patient, clientVars, serverVars, wires, trouble>>

Init ==
    /\ mode \in Modes /\ big \in BOOLEAN /\ patient \in BOOLEAN
    /\ client = "open" /\ result = "none" /\ reader = "none"
    /\ reply = [data |-> FALSE, fin |-> FALSE, closed |-> FALSE]
    /\ request = [data |-> FALSE, fin |-> FALSE]
    /\ clientQueue = FALSE /\ serverQueue = FALSE
    /\ clientDone = FALSE /\ serverDone = FALSE
    /\ handler = "run" /\ loops = Loops /\ echo = "none"
    /\ buffer = <<>> /\ up = <<>> /\ down = <<>>
    /\ timedOut = FALSE /\ lost = FALSE /\ refused = FALSE

-----------------------------------------------------------------------------
(* The client: exchangeBidi, exchangeUni, exchangeDatagram.                *)

clientFrame == UNCHANGED <<mode, big, patient, serverVars, down, timedOut, lost>>

ClientReturns(how) == client' = "return" /\ result' = how

(* Open*, Write, Close and SendDatagram may fail: no credit, no stream, no *)
(* connection, a session that ended.                                       *)
clientRefused ==
    /\ client \in {"open", "write", "fin"}
    /\ ClientReturns("failed")
    /\ refused' = TRUE
    /\ UNCHANGED <<reader, reply, clientQueue, clientDone, up>>
    /\ clientFrame

(* OpenStream, OpenUnidirectionalStream, SendDatagram look at stop first.  *)
openStream ==
    /\ client = "open"
    /\ \/ clientDone /\ ClientReturns("failed")
       \/ ~clientDone /\ client' = "write" /\ UNCHANGED result
    /\ UNCHANGED <<reader, reply, clientQueue, clientDone, up, refused>>
    /\ clientFrame

writePayload ==
    /\ client = "write"
    /\ up' = IF lost THEN up ELSE Append(up, IF mode = "datagram" THEN "datagram" ELSE "data")
    /\ client' = IF mode = "datagram" THEN "receive" ELSE "fin"
    /\ UNCHANGED <<result, reader, reply, clientQueue, clientDone, refused>>
    /\ clientFrame

(* "FIN the send half so the server's read completes".                     *)
closeSend ==
    /\ client = "fin"
    /\ up' = IF lost THEN up ELSE Append(up, "fin")
    /\ \/ mode = "uni" /\ client' = "accept" /\ UNCHANGED reader
       \/ mode = "bidi" /\ client' = "read" /\ reader' = "reading"
    /\ UNCHANGED <<result, reply, clientQueue, clientDone, refused>>
    /\ clientFrame

acceptReply ==
    /\ client = "accept"
    /\ \/ /\ clientQueue
          /\ client' = "read" /\ reader' = "reading" /\ clientQueue' = FALSE
          /\ UNCHANGED result
       \/ /\ clientDone \/ timedOut
          /\ ClientReturns("failed")
          /\ UNCHANGED <<reader, clientQueue>>
    /\ UNCHANGED <<reply, clientDone, up, refused>>
    /\ clientFrame

(* io.ReadAll in its goroutine; the end of the session does not wake it.   *)
readAll ==
    /\ reader = "reading"
    /\ reply.fin \/ reply.closed
    /\ reader' = "ended"
    /\ UNCHANGED <<client, result, reply, clientQueue, clientDone, up, refused>>
    /\ clientFrame

compare == ClientReturns(IF reply.data THEN "ok" ELSE "mismatch")

(* Fault: the goroutine is left in ReadAll.                                *)
abandonRead_open == UNCHANGED reply

abandonRead == reply' = [reply EXCEPT !.closed = TRUE]

(* The select of exchangeBidi and readAllContext.                          *)
readReply ==
    /\ client = "read"
    /\ \/ reader = "ended" /\ compare /\ UNCHANGED reply
       \/ timedOut /\ ClientReturns("failed") /\ abandonRead
    /\ UNCHANGED <<reader, clientQueue, clientDone, up, refused>>
    /\ clientFrame

(* ReceiveDatagram looks at the queue first, but waiting it may see the    *)
(* context's end before the token of a datagram.                           *)
receiveGivesUp == timedOut \/ (clientDone /\ ~clientQueue)

receiveReply ==
    /\ client = "receive"
    /\ \/ clientQueue /\ clientQueue' = FALSE /\ compare
       \/ receiveGivesUp /\ ClientReturns("failed") /\ UNCHANGED clientQueue
    /\ UNCHANGED <<reader, reply, clientDone, up, refused>>
    /\ clientFrame

(* Fault: the CONNECT stream is finished when the request is sent.         *)
mayFinish_early == client \in {"return", "read", "accept", "receive"}

mayFinish == client = "return"

(* reqBody.Close: FIN of the CONNECT stream.                               *)
closeRequestBody ==
    /\ mayFinish
    /\ up' = IF lost THEN up ELSE Append(up, "end")
    /\ client' = "close"
    /\ UNCHANGED <<result, reader, reply, clientQueue, clientDone, refused>>
    /\ clientFrame

closeSession ==
    /\ client = "close"
    /\ client' = "over"
    /\ clientDone' = TRUE
    /\ UNCHANGED <<result, reader, reply, clientQueue, up, refused>>
    /\ clientFrame

(* The client's read loop, until its session is closed.                    *)
clientReads ==
    /\ ~clientDone /\ down # <<>>
    /\ down' = Tail(down)
    /\ CASE Head(down) \in {"data", "empty"} ->
              /\ reply' = [reply EXCEPT !.data = Head(down) = "data" /\ ~reply.closed]
              /\ clientQueue' = (mode = "uni" \/ clientQueue)
              /\ UNCHANGED clientDone
         [] Head(down) = "fin" ->
              reply' = [reply EXCEPT !.fin = TRUE] /\ UNCHANGED <<clientQueue, clientDone>>
         [] Head(down) = "datagram" ->
              /\ clientQueue' = TRUE /\ reply' = [reply EXCEPT !.data = TRUE]
              /\ UNCHANGED clientDone
         [] Head(down) = "end" -> clientDone' = TRUE /\ UNCHANGED <<reply, clientQueue>>
    /\ UNCHANGED <<mode, big, patient, client, result, reader, serverVars, up, trouble>>

-----------------------------------------------------------------------------
(* The server.                                                             *)

serverFrame == UNCHANGED <<mode, big, patient, clientVars, timedOut, lost>>

(* The read loop.  A stream is queued and then its first payload stored;   *)
(* one step here, since ReadAll waits for FIN.  A payload too large for    *)
(* the buffer ends the session, a datagram too large is dropped.           *)
serverReads ==
    /\ ~serverDone /\ up # <<>>
    /\ up' = Tail(up)
    /\ CASE Head(up) = "data" ->
              /\ serverQueue' = TRUE
              /\ request' = [request EXCEPT !.data = ~big]
              /\ serverDone' = big
         [] Head(up) = "fin" ->
              request' = [request EXCEPT !.fin = TRUE] /\ UNCHANGED <<serverQueue, serverDone>>
         [] Head(up) = "datagram" ->
              serverQueue' = ~big /\ UNCHANGED <<request, serverDone>>
         [] Head(up) = "end" -> serverDone' = TRUE /\ UNCHANGED <<request, serverQueue>>
    /\ UNCHANGED <<handler, loops, echo, buffer, down, refused>>
    /\ serverFrame

(* echoBidiLoop and echoUniLoop accept and start a goroutine, the datagram *)
(* loop echoes by itself.  A queued item may be taken after the end.       *)
loopTakes ==
    /\ mode \in loops /\ serverQueue
    /\ serverQueue' = FALSE
    /\ echo' = IF mode = "datagram" THEN "open" ELSE "read"
    /\ UNCHANGED <<handler, loops, request, serverDone, buffer, wires, refused>>
    /\ serverFrame

(* The request's context ends with the connection.                         *)
ended == serverDone \/ lost

loopReturns(l) ==
    /\ l \in loops
    /\ ended
    /\ l = "datagram" => echo \in {"none", "ended"} \/ mode # "datagram"
    /\ loops' = loops \ {l}
    /\ UNCHANGED <<handler, echo, request, serverQueue, serverDone, buffer, wires, refused>>
    /\ serverFrame

Step(from, to) == echo = from /\ echo' = to

(* echoBidi, echoUni: ReadAll returns at FIN.                              *)
readRequest ==
    /\ Step("read", IF mode = "uni" THEN "open" ELSE "write")
    /\ request.fin
    /\ UNCHANGED <<handler, loops, request, serverQueue, serverDone, buffer, wires, refused>>
    /\ serverFrame

(* OpenUnidirectionalStream and SendDatagram look whether the session has  *)
(* ended; a Write on a stream that is there does not.                      *)
openReply ==
    /\ Step("open", IF serverDone THEN "ended" ELSE "write")
    /\ UNCHANGED <<handler, loops, request, serverQueue, serverDone, buffer, wires, refused>>
    /\ serverFrame

echoRefused ==
    /\ echo \in {"open", "write", "fin"} /\ handler # "returned"
    /\ echo' = "ended"
    /\ refused' = TRUE
    /\ UNCHANGED <<handler, loops, request, serverQueue, serverDone, buffer, wires>>
    /\ serverFrame

(* A call on the ResponseWriter: it panics once the handler has returned.  *)
useWriter(change) ==
    IF handler = "returned"
    THEN handler' = "panic" /\ UNCHANGED <<buffer, down>>
    ELSE change /\ UNCHANGED handler

payload == IF request.data THEN "data" ELSE "empty"

(* Fault: FIN and payload in the wrong order.                              *)
replyCapsules_finFirst == IF mode = "datagram" THEN <<"datagram">> ELSE <<"fin", payload>>

replyCapsules == IF mode = "datagram" THEN <<"datagram">> ELSE <<payload, "fin">>

writeReply ==
    /\ Step("write", IF mode = "datagram" THEN "flush" ELSE "fin")
    /\ useWriter(buffer' = Append(buffer, replyCapsules[1]) /\ UNCHANGED down)
    /\ UNCHANGED <<loops, request, serverQueue, serverDone, up, refused>>
    /\ serverFrame

closeReply ==
    /\ Step("fin", "flush")
    /\ useWriter(buffer' = Append(buffer, replyCapsules[2]) /\ UNCHANGED down)
    /\ UNCHANGED <<loops, request, serverQueue, serverDone, up, refused>>
    /\ serverFrame

(* Fault: the reply stays in the buffer.                                   *)
push_never == UNCHANGED <<buffer, down>>

push == buffer' = <<>> /\ down' = IF lost THEN down ELSE down \o buffer

flush ==
    /\ Step("flush", "ended")
    /\ useWriter(push)
    /\ UNCHANGED <<loops, request, serverQueue, serverDone, up, refused>>
    /\ serverFrame

(* runEchoServer leaves its select and waits for the loops; Handler closes *)
(* the session and returns, which flushes and ends the response.           *)
handlerStops ==
    /\ handler = "run" /\ ended
    /\ handler' = "wait"
    /\ UNCHANGED <<loops, echo, request, serverQueue, serverDone, buffer, wires, refused>>
    /\ serverFrame

(* Fault: the WaitGroup covers the goroutines that echo streams too.       *)
waited_goroutines == loops = {} /\ echo \in {"none", "ended"}

waited == loops = {}

handlerReturns ==
    /\ handler = "wait" /\ waited
    /\ handler' = "returned"
    /\ serverDone' = TRUE
    /\ buffer' = <<>>
    /\ down' = IF lost THEN down ELSE down \o Append(buffer, "end")
    /\ UNCHANGED <<loops, echo, request, serverQueue, up, refused>>
    /\ serverFrame

-----------------------------------------------------------------------------
(* The client's deadline, and the connection.                              *)

deadline ==
    /\ ~patient /\ ~timedOut
    /\ timedOut' = TRUE
    /\ UNCHANGED <<mode, big, patient, clientVars, serverVars, wires, lost, refused>>

connectionLost ==
    /\ ~lost /\ lost' = TRUE
    /\ up' = <<>> /\ down' = <<>>
    /\ UNCHANGED <<mode, big, patient, clientVars, serverVars, timedOut, refused>>

(* Both read loops see it.                                                 *)
lossSeen ==
    /\ lost /\ ~(clientDone /\ serverDone)
    /\ \/ clientDone' = TRUE /\ UNCHANGED serverDone
       \/ serverDone' = TRUE /\ UNCHANGED clientDone
    /\ UNCHANGED <<mode, big, patient, client, result, reader, reply, clientQueue>>
    /\ UNCHANGED <<handler, loops, echo, request, serverQueue, buffer, wires, trouble>>

ClientStep ==
    \/ openStream \/ writePayload \/ closeSend \/ acceptReply \/ readReply
    \/ receiveReply \/ closeRequestBody \/ closeSession

EchoStep == loopTakes \/ readRequest \/ openReply \/ writeReply \/ closeReply \/ flush

HandlerStep == handlerStops \/ handlerReturns

(* A panic ends the server's process.                                      *)
Alive == handler # "panic"

ServerStep ==
    Alive /\ (serverReads \/ EchoStep \/ HandlerStep \/ \E l \in Loops : loopReturns(l))

Next ==
    \/ ClientStep \/ clientRefused \/ readAll \/ clientReads
    \/ ServerStep \/ (Alive /\ echoRefused)
    \/ deadline \/ connectionLost \/ lossSeen

Spec == Init /\ [][Next]_vars

(* Runnable goroutines run, a select with a ready case is served, the      *)
(* network delivers and the timer of context.WithTimeout fires.  Nothing   *)
(* makes a call fail or the connection break.                              *)
FairSpec ==
    /\ Spec
    /\ WF_vars(ClientStep) /\ WF_vars(readAll) /\ WF_vars(clientReads)
    /\ WF_vars(Alive /\ serverReads) /\ WF_vars(Alive /\ EchoStep)
    /\ WF_vars(Alive /\ HandlerStep)
    /\ \A l \in Loops : WF_vars(Alive /\ loopReturns(l))
    /\ WF_vars(deadline)
    /\ WF_vars(lossSeen)

-----------------------------------------------------------------------------
(* The properties.                                                         *)

Wire == Seq({"data", "empty", "fin", "datagram", "end"})

TypeOK ==
    /\ mode \in Modes /\ big \in BOOLEAN /\ patient \in BOOLEAN
    /\ client \in {"open", "write", "fin", "accept", "read", "receive", "return",
                   "close", "over"}
    /\ result \in {"none", "ok", "mismatch", "failed"}
    /\ result = "none" <=> client \in {"open", "write", "fin", "accept", "read", "receive"}
    /\ reader \in {"none", "reading", "ended"}
    /\ reply \in [data : BOOLEAN, fin : BOOLEAN, closed : BOOLEAN]
    /\ request \in [data : BOOLEAN, fin : BOOLEAN]
    /\ clientQueue \in BOOLEAN /\ serverQueue \in BOOLEAN
    /\ clientDone \in BOOLEAN /\ serverDone \in BOOLEAN
    /\ handler \in {"run", "wait", "returned", "panic"} /\ loops \subseteq Loops
    /\ echo \in {"none", "read", "open", "write", "fin", "flush", "ended"}
    /\ buffer \in Wire /\ up \in Wire /\ down \in Wire
    /\ timedOut \in BOOLEAN /\ lost \in BOOLEAN /\ refused \in BOOLEAN

(* Whatever is refused, lost or late, RunClient never takes an incomplete  *)
(* echo for the answer: no "echo mismatch" from this server (echoBidi,     *)
(* echoUni and the abandoned read of readAllContext).                      *)
NoMismatch == result # "mismatch"

(* A client without a deadline gets its echo, in every mode, unless a call *)
(* is refused, the connection is lost or the payload exceeds the buffers:  *)
(* FIN lets ReadAll return and Flush pushes the reply out (echoBidi,       *)
(* echoUni, echoDatagramLoop).                                             *)
EchoArrives == patient => <>(result = "ok" \/ lost \/ refused \/ big)

(* With a deadline the client's command ends in every case: each wait of   *)
(* RunClient has the context beside it.  ReadAll's goroutine, which the    *)
(* end of the session would not wake, does not outlive it, for the half is *)
(* closed (exchangeBidi, readAllContext, exchangeDatagram).                *)
ClientEnds ==
    /\ ~patient => <>(client = "over")
    /\ client = "over" ~> reader # "reading"

(* When the client has finished or the connection is gone the handler      *)
(* returns: no goroutine it waits for is stuck in a read that never ends   *)
(* (runEchoServer waits for its loops only).                               *)
HandlerReturnsAtEnd == (client = "over" \/ lost) ~> handler \in {"returned", "panic"}

(* The echoing goroutines are not waited for, so one may write after the   *)
(* handler returned, which panics.  It takes a client that gave up at its  *)
(* deadline, or a lost connection, while the echo was under way; a client  *)
(* that waits for its echo is safe (echoBidiLoop, echoUniLoop).            *)
PanicNeedsGiveUp == handler = "panic" => timedOut \/ lost

=============================================================================
