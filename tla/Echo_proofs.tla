------------------------------ MODULE Echo_proofs ------------------------------
(***************************************************************************)
(* Proofs about Echo, for every set of modes.                              *)
(***************************************************************************)
EXTENDS Echo, SequenceTheorems, TLAPS

-----------------------------------------------------------------------------
(* What is ever on a wire or in the response's buffer.                     *)

D == <<"data">>
DF == <<"data", "fin">>
DE == <<"data", "end">>
DFE == <<"data", "fin", "end">>
F == <<"fin">>
FE == <<"fin", "end">>
E == <<"end">>
G == <<"datagram">>
GE == <<"datagram", "end">>

WithData == {D, DF, DE, DFE}
WithFin == {DF, DFE, F, FE}
WithEnd == {DE, DFE, FE, E, GE}

(* They differ, ...                                                        *)
LEMMA WiresDiffer ==
    /\ <<>> \notin {D, DF, DE, DFE, F, FE, E, G, GE}
    /\ D \notin {DF, DE, DFE, F, FE, E, G, GE}
    /\ DF \notin {DE, DFE, F, FE, E, G, GE}
    /\ DE \notin {DFE, F, FE, E, G, GE}
    /\ DFE \notin {F, FE, E, G, GE}
    /\ F \notin {FE, E, G, GE}
    /\ FE \notin {E, G, GE}
    /\ E \notin {G, GE}
    /\ G # GE
  BY DEF D, DF, DE, DFE, F, FE, E, G, GE

(* ... are read from the front ...                                         *)
LEMMA WiresRead ==
    /\ Head(D) = "data" /\ Tail(D) = <<>>
    /\ Head(DF) = "data" /\ Tail(DF) = F
    /\ Head(DE) = "data" /\ Tail(DE) = E
    /\ Head(DFE) = "data" /\ Tail(DFE) = FE
    /\ Head(F) = "fin" /\ Tail(F) = <<>>
    /\ Head(FE) = "fin" /\ Tail(FE) = E
    /\ Head(E) = "end" /\ Tail(E) = <<>>
    /\ Head(G) = "datagram" /\ Tail(G) = <<>>
    /\ Head(GE) = "datagram" /\ Tail(GE) = E
  BY DEF D, DF, DE, DFE, F, FE, E, G, GE

Messages == {"data", "empty", "fin", "datagram", "end"}

LEMMA AppendTwo ==
    ASSUME NEW a \in Messages, NEW b \in Messages
    PROVE  Append(<<a>>, b) = <<a, b>>
  <1>1. <<a>> \in Seq(Messages) /\ <<a, b>> \in Seq(Messages)
    OBVIOUS
  <1>2. Append(<<a>>, b) \in Seq(Messages) /\ Len(Append(<<a>>, b)) = 2
        /\ Append(<<a>>, b)[1] = a /\ Append(<<a>>, b)[2] = b
    BY <1>1, AppendProperties
  <1> DEFINE s == Append(<<a>>, b)
             t == <<a, b>>
  <1>3. s \in Seq(Messages) /\ t \in Seq(Messages) /\ Len(s) = 2 /\ Len(t) = 2
        /\ s[1] = t[1] /\ s[2] = t[2]
    BY <1>1, <1>2
  <1> HIDE DEF s, t
  <1>4. \A i \in 1 .. Len(s) : s[i] = t[i]
    BY <1>3
  <1>5. s = t
    BY <1>3, <1>4, SeqEqual
  <1> QED
    BY <1>5 DEF s, t

LEMMA AppendThree ==
    ASSUME NEW a \in Messages, NEW b \in Messages, NEW c \in Messages
    PROVE  Append(<<a, b>>, c) = <<a, b, c>>
  <1>1. <<a, b>> \in Seq(Messages) /\ <<a, b, c>> \in Seq(Messages)
    OBVIOUS
  <1>2. Append(<<a, b>>, c) \in Seq(Messages) /\ Len(Append(<<a, b>>, c)) = 3
        /\ Append(<<a, b>>, c)[1] = a /\ Append(<<a, b>>, c)[2] = b /\ Append(<<a, b>>, c)[3] = c
    BY <1>1, AppendProperties
  <1> DEFINE s == Append(<<a, b>>, c)
             t == <<a, b, c>>
  <1>3. s \in Seq(Messages) /\ t \in Seq(Messages) /\ Len(s) = 3 /\ Len(t) = 3
        /\ s[1] = t[1] /\ s[2] = t[2] /\ s[3] = t[3]
    BY <1>1, <1>2
  <1> HIDE DEF s, t
  <1>4. \A i \in 1 .. Len(s) : s[i] = t[i]
    BY <1>3
  <1>5. s = t
    BY <1>3, <1>4, SeqEqual
  <1> QED
    BY <1>5 DEF s, t

(* ... and written at the end.                                             *)
LEMMA WiresWritten ==
    /\ Append(<<>>, "data") = D /\ Append(<<>>, "datagram") = G
    /\ Append(<<>>, "fin") = F /\ Append(D, "fin") = DF
    /\ Append(<<>>, "end") = E /\ Append(D, "end") = DE /\ Append(DF, "end") = DFE
    /\ Append(F, "end") = FE /\ Append(G, "end") = GE
  <1>1. Append(<<>>, "data") = D /\ Append(<<>>, "datagram") = G
        /\ Append(<<>>, "fin") = F /\ Append(<<>>, "end") = E
    BY DEF D, G, F, E
  <1>2. Append(D, "fin") = DF
    BY AppendTwo DEF D, DF, Messages
  <1>3. Append(D, "end") = DE
    BY AppendTwo DEF D, DE, Messages
  <1>4. Append(DF, "end") = DFE
    BY AppendThree DEF DF, DFE, Messages
  <1>5. Append(F, "end") = FE
    BY AppendTwo DEF F, FE, Messages
  <1>6. Append(G, "end") = GE
    BY AppendTwo DEF G, GE, Messages
  <1> QED
    BY <1>1, <1>2, <1>3, <1>4, <1>5, <1>6

(* They are messages, ...                                                  *)
Wires == {<<>>, D, DF, DE, DFE, F, FE, E, G, GE}

LEMMA WiresTyped == Wires \subseteq Wire
  <1>1. Wire = Seq(Messages)
    BY DEF Wire, Messages
  <1>2. /\ <<>> \in Seq(Messages)
        /\ {"data", "fin", "datagram", "end"} \subseteq Messages
    BY DEF Messages
  <1>3. D \in Seq(Messages) /\ F \in Seq(Messages) /\ E \in Seq(Messages)
        /\ G \in Seq(Messages)
    BY <1>2, AppendProperties, WiresWritten
  <1>4. DF \in Seq(Messages) /\ DE \in Seq(Messages) /\ FE \in Seq(Messages)
        /\ GE \in Seq(Messages)
    BY <1>2, <1>3, AppendProperties, WiresWritten
  <1>5. DFE \in Seq(Messages)
    BY <1>2, <1>4, AppendProperties, WiresWritten
  <1> QED
    BY <1>1, <1>2, <1>3, <1>4, <1>5 DEF Wires

(* ... and a flush puts the buffer behind what is on the wire.             *)
LEMMA WiresFlushed ==
    /\ \A s \in Wires : <<>> \o s = s /\ s \o <<>> = s
    /\ DF \o E = DFE /\ F \o E = FE /\ G \o E = GE
  <1>1. Wire = Seq(Messages) /\ "end" \in Messages
    BY DEF Wire, Messages
  <1>2. \A s \in Seq(Messages) : Append(s, "end") = s \o <<"end">>
    BY <1>1, AppendIsConcat
  <1>3. \A s \in Seq(Messages) : <<>> \o s = s /\ s \o <<>> = s
    BY ConcatEmptySeq
  <1>4. DF \in Seq(Messages) /\ F \in Seq(Messages) /\ G \in Seq(Messages)
    BY <1>1, WiresTyped DEF Wires
  <1>5. E = <<"end">>
    BY DEF E
  <1> QED
    BY <1>1, <1>2, <1>3, <1>4, <1>5, WiresTyped, WiresWritten

-----------------------------------------------------------------------------
(* The inductive invariant.                                                *)

(* The client is done with its exchange.                                   *)
Over == client \in {"return", "close", "over"}

Gone == handler \in {"returned", "panic"}

(* What the client has sent, and how far the server is with it: FIN comes  *)
(* behind the data.                                                        *)
RequestInv ==
    /\ lost => up = <<>>
    /\ mode = "datagram" => up \in {<<>>, G, GE, E}
    /\ mode # "datagram" => up \in {<<>>, D, DF, DFE, DE, F, FE, E}
    /\ client \in {"open", "write"} => up = <<>> /\ ~request.data /\ ~serverQueue
                                       /\ echo = "none"
    /\ client \in {"open", "write", "fin"} => up \notin WithFin /\ ~request.fin
    /\ client \in {"fin", "accept", "read"} => mode # "datagram"
    /\ client = "receive" => mode = "datagram"
    /\ client = "fin" /\ up = <<>> /\ ~lost => request.data \/ serverDone
    /\ up \in WithEnd => client \in {"close", "over"}
    /\ up \in WithData \cup {G, GE} => ~request.data /\ ~serverQueue /\ echo = "none"
    /\ up \in WithFin => ~request.fin
    /\ up \in {F, FE} => request.data \/ serverDone
    /\ request.fin => request.data
    /\ serverQueue => echo = "none"

(* The reply is written only with a complete request, data before FIN, and *)
(* flushed as a whole.                                                     *)
ReplyInv ==
    /\ lost => down = <<>>
    /\ mode # "datagram" /\ echo \in {"open", "write", "fin", "flush"} => request.fin
    /\ mode = "datagram" => echo \notin {"read", "fin"}
    /\ mode = "datagram" => buffer \in {<<>>, G} /\ down \in {<<>>, G, GE, E}
    /\ mode # "datagram" => /\ buffer \in {<<>>, D, DF}
                            /\ down \in {<<>>, DF, DFE, DE, F, FE, E}
    /\ echo \in {"none", "read", "open", "write"} \/ Gone => buffer = <<>>
    /\ echo = "fin" /\ ~Gone => buffer = D
    /\ echo = "flush" /\ ~Gone => buffer = IF mode = "datagram" THEN G ELSE DF
    /\ echo # "ended" /\ ~Gone => down = <<>>
    /\ buffer # <<>> => down = <<>>
    /\ down \in WithFin \/ reply.fin => echo = "ended" \/ Gone
    /\ down \in WithEnd => Gone

(* The client takes FIN for the end of the reply, and has the data then.   *)
ReaderInv ==
    /\ down \in {F, FE} => reply.data \/ reply.closed
    /\ reply.fin => reply.data \/ reply.closed
    /\ reply.closed => Over
    /\ reader = "ended" => reply.fin \/ reply.closed
    /\ mode = "datagram" /\ clientQueue => reply.data
    /\ result # "mismatch"

(* No FIN for the server to read, now or later.                            *)
NoMoreFin == ~request.fin /\ (up \notin WithFin \/ serverDone)

(* Without a deadline or a loss, the end of the session finds the echoing  *)
(* goroutine at its end, or waiting for a FIN that will not come.          *)
EndInv ==
    /\ handler # "run" => serverDone \/ lost
    /\ Gone => loops = {}
    /\ mode = "datagram" /\ "datagram" \notin loops => echo \in {"none", "ended"}
    /\ clientDone => Over \/ Gone \/ lost
    /\ (Over \/ serverDone) /\ ~timedOut /\ ~lost =>
          echo = "ended" \/ mode = "datagram" \/ NoMoreFin
    /\ handler = "panic" => timedOut \/ lost

EchoInv == TypeOK /\ RequestInv /\ ReplyInv /\ ReaderInv /\ EndInv

-----------------------------------------------------------------------------
(* What a step is.                                                         *)

LEMMA NextCases ==
    ASSUME [Next]_vars
    PROVE  \/ clientRefused \/ openStream \/ writePayload \/ closeSend
           \/ acceptReply \/ readAll \/ readReply \/ receiveReply
           \/ closeRequestBody \/ closeSession \/ clientReads
           \/ Alive /\ (serverReads \/ loopTakes \/ readRequest \/ openReply \/ echoRefused
                        \/ writeReply \/ closeReply \/ flush \/ handlerStops \/ handlerReturns
                        \/ \E l \in Loops : loopReturns(l))
           \/ deadline \/ connectionLost \/ lossSeen \/ UNCHANGED vars
  BY DEF Next, ClientStep, ServerStep, EchoStep, HandlerStep

-----------------------------------------------------------------------------
(* The messages on a wire stay messages.                                   *)
LEMMA WireKept ==
    /\ <<>> \in Wire
    /\ \A s \in Wire : s # <<>> => Head(s) \in Messages /\ Tail(s) \in Wire
    /\ \A s \in Wire, m \in Messages : Append(s, m) \in Wire
    /\ \A s, t \in Wire : s \o t \in Wire
  <1>1. Wire = Seq(Messages)
    BY DEF Wire, Messages
  <1> QED
    BY <1>1

(* The messages a read loop takes from its wire.                           *)
LEMMA ClientReadsCases ==
    ASSUME TypeOK, clientReads
    PROVE  \/ /\ Head(down) \in {"data", "empty"}
              /\ reply' = [reply EXCEPT !.data = Head(down) = "data" /\ ~reply.closed]
              /\ clientQueue' = (mode = "uni" \/ clientQueue)
              /\ UNCHANGED clientDone
           \/ /\ Head(down) = "fin"
              /\ reply' = [reply EXCEPT !.fin = TRUE]
              /\ UNCHANGED <<clientQueue, clientDone>>
           \/ /\ Head(down) = "datagram"
              /\ clientQueue' = TRUE /\ reply' = [reply EXCEPT !.data = TRUE]
              /\ UNCHANGED clientDone
           \/ /\ Head(down) = "end"
              /\ clientDone' = TRUE /\ UNCHANGED <<reply, clientQueue>>
  <1>1. Head(down) \in {"data", "empty", "fin", "datagram", "end"}
    BY WireKept DEF TypeOK, clientReads, Messages
  <1>2. CASE Head(down) \in {"data", "empty"}
    BY <1>2 DEF clientReads
  <1>3. CASE Head(down) = "fin"
    BY <1>3 DEF clientReads
  <1>4. CASE Head(down) = "datagram"
    BY <1>4 DEF clientReads
  <1>5. CASE Head(down) = "end"
    BY <1>5 DEF clientReads
  <1> QED
    BY <1>1, <1>2, <1>3, <1>4, <1>5

LEMMA ServerReadsCases ==
    ASSUME TypeOK, RequestInv, serverReads
    PROVE  \/ /\ Head(up) = "data" /\ serverQueue' = TRUE
              /\ request' = [request EXCEPT !.data = ~big]
              /\ serverDone' = big
           \/ /\ Head(up) = "fin"
              /\ request' = [request EXCEPT !.fin = TRUE]
              /\ UNCHANGED <<serverQueue, serverDone>>
           \/ /\ Head(up) = "datagram"
              /\ serverQueue' = ~big /\ UNCHANGED <<request, serverDone>>
           \/ /\ Head(up) = "end"
              /\ serverDone' = TRUE /\ UNCHANGED <<request, serverQueue>>
  <1>1. up \in {D, DF, DFE, DE, F, FE, E, G, GE}
    BY DEF RequestInv, serverReads
  <1>2. Head(up) \in {"data", "fin", "datagram", "end"}
    BY <1>1, WiresRead
  <1>3. CASE Head(up) = "data"
    BY <1>3 DEF serverReads
  <1>4. CASE Head(up) = "fin"
    BY <1>4 DEF serverReads
  <1>5. CASE Head(up) = "datagram"
    BY <1>5 DEF serverReads
  <1>6. CASE Head(up) = "end"
    BY <1>6 DEF serverReads
  <1> QED
    BY <1>2, <1>3, <1>4, <1>5, <1>6

(* What is written into the response, flushed, and left on the wire when   *)
(* the handler returns.                                                    *)
LEMMA WriteReplyCases ==
    ASSUME TypeOK, RequestInv, ReplyInv, Alive, writeReply
    PROVE  \/ /\ handler = "returned" /\ handler' = "panic"
              /\ UNCHANGED <<buffer, down>>
           \/ /\ ~Gone /\ UNCHANGED <<handler, down>>
              /\ buffer' = IF mode = "datagram" THEN G ELSE D
  <1>1. echo = "write"
    BY DEF writeReply, Step
  <1>2. CASE handler = "returned"
    BY <1>2 DEF writeReply, useWriter
  <1>3. CASE handler # "returned"
    <2>1. ~Gone /\ UNCHANGED <<handler, down>> /\ buffer' = Append(buffer, replyCapsules[1])
      BY <1>3 DEF writeReply, useWriter, Gone, Alive
    <2>2. buffer = <<>>
      BY <1>1, <2>1 DEF ReplyInv
    <2>3. CASE mode = "datagram"
      <3>1. replyCapsules[1] = "datagram"
        BY <2>3 DEF replyCapsules
      <3> QED
        BY <2>1, <2>2, <2>3, <3>1, WiresWritten
    <2>4. CASE mode # "datagram"
      <3>1. request.data
        BY <1>1, <2>4 DEF ReplyInv, RequestInv
      <3>2. replyCapsules[1] = "data"
        BY <2>4, <3>1 DEF replyCapsules, payload
      <3> QED
        BY <2>1, <2>2, <2>4, <3>2, WiresWritten
    <2> QED
      BY <2>3, <2>4
  <1> QED
    BY <1>2, <1>3

LEMMA CloseReplyCases ==
    ASSUME TypeOK, RequestInv, ReplyInv, Alive, closeReply
    PROVE  /\ mode # "datagram"
           /\ \/ /\ handler = "returned" /\ handler' = "panic"
                 /\ UNCHANGED <<buffer, down>>
              \/ ~Gone /\ UNCHANGED <<handler, down>> /\ buffer' = DF
  <1>1. echo = "fin"
    BY DEF closeReply, Step
  <1>2. mode # "datagram"
    BY <1>1 DEF ReplyInv
  <1>3. CASE handler = "returned"
    BY <1>2, <1>3 DEF closeReply, useWriter
  <1>4. CASE handler # "returned"
    <2>1. ~Gone /\ UNCHANGED <<handler, down>> /\ buffer' = Append(buffer, replyCapsules[2])
      BY <1>4 DEF closeReply, useWriter, Gone, Alive
    <2>2. buffer = D
      BY <1>1, <2>1 DEF ReplyInv
    <2>3. replyCapsules[2] = "fin"
      BY <1>2 DEF replyCapsules
    <2> QED
      BY <1>2, <2>1, <2>2, <2>3, WiresWritten
  <1> QED
    BY <1>3, <1>4

LEMMA FlushCases ==
    ASSUME TypeOK, RequestInv, ReplyInv, Alive, flush
    PROVE  \/ /\ handler = "returned" /\ handler' = "panic"
              /\ UNCHANGED <<buffer, down>>
           \/ /\ ~Gone /\ UNCHANGED handler /\ buffer' = <<>>
              /\ buffer = IF mode = "datagram" THEN G ELSE DF
              /\ down = <<>>
              /\ down' = IF lost THEN <<>> ELSE buffer
  <1>1. echo = "flush"
    BY DEF flush, Step
  <1>2. CASE handler = "returned"
    BY <1>2 DEF flush, useWriter
  <1>3. CASE handler # "returned"
    <2>1. ~Gone /\ UNCHANGED handler
          /\ buffer' = <<>> /\ down' = IF lost THEN down ELSE down \o buffer
      BY <1>3 DEF flush, useWriter, push, Gone, Alive
    <2>2. down = <<>> /\ buffer = IF mode = "datagram" THEN G ELSE DF
      BY <1>1, <2>1 DEF ReplyInv
    <2>3. <<>> \o buffer = buffer
      BY <2>2, WiresFlushed DEF Wires
    <2> QED
      BY <2>1, <2>2, <2>3
  <1> QED
    BY <1>2, <1>3

LEMMA ReturnCases ==
    ASSUME TypeOK, RequestInv, ReplyInv, handlerReturns
    PROVE  /\ ~Gone /\ handler' = "returned" /\ buffer' = <<>>
           /\ \/ lost /\ down' = <<>>
              \/ ~lost /\ mode = "datagram" /\ down = <<>> /\ down' \in {E, GE}
              \/ ~lost /\ mode = "datagram" /\ down = G /\ down' = GE
              \/ ~lost /\ mode # "datagram" /\ down = <<>> /\ buffer = <<>> /\ down' = E
              \/ ~lost /\ mode # "datagram" /\ down = <<>> /\ buffer = D /\ down' = DE
              \/ ~lost /\ mode # "datagram" /\ down = <<>> /\ buffer = DF /\ down' = DFE
              \/ ~lost /\ mode # "datagram" /\ down = DF /\ down' = DFE
              \/ ~lost /\ mode # "datagram" /\ down = F /\ down' = FE
  <1>1. handler = "wait" /\ ~Gone /\ handler' = "returned" /\ buffer' = <<>>
        /\ down' = IF lost THEN down ELSE down \o Append(buffer, "end")
    BY DEF handlerReturns, Gone
  <1>2. buffer # <<>> => down = <<>>
    BY DEF ReplyInv
  <1>3. down \notin WithEnd
    BY <1>1 DEF ReplyInv
  <1>4. CASE lost
    BY <1>1, <1>4 DEF ReplyInv
  <1>5. CASE ~lost /\ mode = "datagram"
    <2>1. buffer \in {<<>>, G} /\ down \in {<<>>, G}
      BY <1>3, <1>5 DEF ReplyInv, WithEnd
    <2>2. Append(buffer, "end") \in {E, GE}
      BY <2>1, WiresWritten
    <2>3. CASE down = <<>>
      <3>1. down' = Append(buffer, "end")
        BY <1>1, <1>5, <2>2, <2>3, WiresFlushed DEF Wires
      <3> QED
        BY <1>1, <1>5, <2>2, <2>3, <3>1
    <2>4. CASE down = G
      <3>1. buffer = <<>>
        BY <1>2, <2>4, WiresDiffer
      <3>2. down' = G \o E
        BY <1>1, <1>5, <2>4, <3>1, WiresWritten
      <3> QED
        BY <1>1, <1>5, <2>4, <3>2, WiresFlushed
    <2> QED
      BY <2>1, <2>3, <2>4
  <1>6. CASE ~lost /\ mode # "datagram"
    <2>1. buffer \in {<<>>, D, DF} /\ down \in {<<>>, DF, F}
      BY <1>3, <1>6 DEF ReplyInv, WithEnd
    <2>2. CASE down = <<>>
      <3>1. Append(buffer, "end") \in Wires
        BY <2>1, WiresWritten DEF Wires
      <3>2. down' = Append(buffer, "end")
        BY <1>1, <1>6, <2>2, <3>1, WiresFlushed
      <3> QED
        BY <1>1, <1>6, <2>1, <2>2, <3>2, WiresWritten
    <2>3. CASE down \in {DF, F}
      <3>1. buffer = <<>>
        BY <1>2, <2>3, WiresDiffer
      <3>2. down' = down \o E
        BY <1>1, <1>6, <3>1, WiresWritten
      <3> QED
        BY <1>1, <1>6, <2>3, <3>2, WiresFlushed
    <2> QED
      BY <2>1, <2>2, <2>3
  <1> QED
    BY <1>4, <1>5, <1>6

(* Types are kept.                                                         *)
LEMMA TypeKept ==
    ASSUME TypeOK, RequestInv, ReplyInv, [Next]_vars
    PROVE  TypeOK'
  <1>1. CASE clientRefused
    BY <1>1, WireKept DEF clientRefused, ClientReturns, clientFrame,
       clientVars, serverVars, wires, trouble, TypeOK, Messages, Loops
  <1>2. CASE openStream
    BY <1>2, WireKept DEF openStream, ClientReturns, clientFrame, clientVars,
       serverVars, wires, trouble, TypeOK, Messages, Loops
  <1>3. CASE writePayload
    BY <1>3, WireKept DEF writePayload, clientFrame, clientVars, serverVars,
       wires, trouble, TypeOK, Messages, Loops
  <1>4. CASE closeSend
    BY <1>4, WireKept DEF closeSend, clientFrame, clientVars, serverVars,
       wires, trouble, TypeOK, Messages, Loops
  <1>5. CASE acceptReply
    <2>1. /\ mode' \in Modes
          /\ client' \in {"open", "write", "fin", "accept", "read", "receive", "return",
                           "close", "over"}
          /\ result' \in {"none", "ok", "mismatch", "failed"}
          /\ result' = "none" <=> client' \in {"open", "write", "fin", "accept", "read",
                                               "receive"}
          /\ reader' \in {"none", "reading", "ended"}
          /\ handler' \in {"run", "wait", "returned", "panic"} /\ loops' \subseteq Loops
          /\ echo' \in {"none", "read", "open", "write", "fin", "flush", "ended"}
      BY <1>5 DEF acceptReply, ClientReturns, clientFrame, clientVars,
         serverVars, wires, trouble, TypeOK
    <2>2. /\ reply' \in [data : BOOLEAN, fin : BOOLEAN, closed : BOOLEAN]
          /\ request' \in [data : BOOLEAN, fin : BOOLEAN]
      BY <1>5 DEF acceptReply, ClientReturns, clientFrame, clientVars,
         serverVars, wires, trouble, TypeOK
    <2>3. /\ big' \in BOOLEAN /\ patient' \in BOOLEAN
          /\ clientQueue' \in BOOLEAN /\ serverQueue' \in BOOLEAN
          /\ clientDone' \in BOOLEAN /\ serverDone' \in BOOLEAN
          /\ timedOut' \in BOOLEAN /\ lost' \in BOOLEAN /\ refused' \in BOOLEAN
      BY <1>5 DEF acceptReply, ClientReturns, clientFrame, clientVars,
         serverVars, wires, trouble, TypeOK
    <2>4. /\ buffer' \in Wire /\ up' \in Wire /\ down' \in Wire
      BY <1>5, WireKept DEF acceptReply, ClientReturns, clientFrame,
         clientVars, serverVars, wires, trouble, TypeOK, Messages
    <2> QED
      BY <2>1, <2>2, <2>3, <2>4 DEF TypeOK
  <1>6. CASE readAll
    BY <1>6, WireKept DEF readAll, clientFrame, clientVars, serverVars, wires,
       trouble, TypeOK, Messages, Loops
  <1>7. CASE readReply
    <2>1. /\ mode' \in Modes
          /\ client' \in {"open", "write", "fin", "accept", "read", "receive", "return",
                           "close", "over"}
          /\ result' \in {"none", "ok", "mismatch", "failed"}
          /\ result' = "none" <=> client' \in {"open", "write", "fin", "accept", "read",
                                               "receive"}
          /\ reader' \in {"none", "reading", "ended"}
          /\ handler' \in {"run", "wait", "returned", "panic"} /\ loops' \subseteq Loops
          /\ echo' \in {"none", "read", "open", "write", "fin", "flush", "ended"}
      BY <1>7 DEF readReply, ClientReturns, compare, abandonRead, clientFrame,
         clientVars, serverVars, wires, trouble, TypeOK
    <2>2. /\ reply' \in [data : BOOLEAN, fin : BOOLEAN, closed : BOOLEAN]
          /\ request' \in [data : BOOLEAN, fin : BOOLEAN]
      BY <1>7 DEF readReply, ClientReturns, compare, abandonRead, clientFrame,
         clientVars, serverVars, wires, trouble, TypeOK
    <2>3. /\ big' \in BOOLEAN /\ patient' \in BOOLEAN
          /\ clientQueue' \in BOOLEAN /\ serverQueue' \in BOOLEAN
          /\ clientDone' \in BOOLEAN /\ serverDone' \in BOOLEAN
          /\ timedOut' \in BOOLEAN /\ lost' \in BOOLEAN /\ refused' \in BOOLEAN
      BY <1>7 DEF readReply, ClientReturns, compare, abandonRead, clientFrame,
         clientVars, serverVars, wires, trouble, TypeOK
    <2>4. /\ buffer' \in Wire /\ up' \in Wire /\ down' \in Wire
      BY <1>7, WireKept DEF readReply, ClientReturns, compare, abandonRead,
         clientFrame, clientVars, serverVars, wires, trouble, TypeOK, Messages
    <2> QED
      BY <2>1, <2>2, <2>3, <2>4 DEF TypeOK
  <1>8. CASE receiveReply
    <2>1. /\ mode' \in Modes
          /\ client' \in {"open", "write", "fin", "accept", "read", "receive", "return",
                           "close", "over"}
          /\ result' \in {"none", "ok", "mismatch", "failed"}
          /\ result' = "none" <=> client' \in {"open", "write", "fin", "accept", "read",
                                               "receive"}
          /\ reader' \in {"none", "reading", "ended"}
          /\ handler' \in {"run", "wait", "returned", "panic"} /\ loops' \subseteq Loops
          /\ echo' \in {"none", "read", "open", "write", "fin", "flush", "ended"}
      BY <1>8 DEF receiveReply, ClientReturns, compare, receiveGivesUp,
         clientFrame, clientVars, serverVars, wires, trouble, TypeOK
    <2>2. /\ reply' \in [data : BOOLEAN, fin : BOOLEAN, closed : BOOLEAN]
          /\ request' \in [data : BOOLEAN, fin : BOOLEAN]
      BY <1>8 DEF receiveReply, ClientReturns, compare, receiveGivesUp,
         clientFrame, clientVars, serverVars, wires, trouble, TypeOK
    <2>3. /\ big' \in BOOLEAN /\ patient' \in BOOLEAN
          /\ clientQueue' \in BOOLEAN /\ serverQueue' \in BOOLEAN
          /\ clientDone' \in BOOLEAN /\ serverDone' \in BOOLEAN
          /\ timedOut' \in BOOLEAN /\ lost' \in BOOLEAN /\ refused' \in BOOLEAN
      BY <1>8 DEF receiveReply, ClientReturns, compare, receiveGivesUp,
         clientFrame, clientVars, serverVars, wires, trouble, TypeOK
    <2>4. /\ buffer' \in Wire /\ up' \in Wire /\ down' \in Wire
      BY <1>8, WireKept DEF receiveReply, ClientReturns, compare,
         receiveGivesUp, clientFrame, clientVars, serverVars, wires, trouble,
         TypeOK, Messages
    <2> QED
      BY <2>1, <2>2, <2>3, <2>4 DEF TypeOK
  <1>9. CASE closeRequestBody
    BY <1>9, WireKept DEF closeRequestBody, mayFinish, clientFrame,
       clientVars, serverVars, wires, trouble, TypeOK, Messages, Loops
  <1>10. CASE closeSession
    BY <1>10, WireKept DEF closeSession, clientFrame, clientVars, serverVars,
       wires, trouble, TypeOK, Messages, Loops
  <1>11. CASE clientReads
    <2>1. /\ mode' \in Modes
          /\ client' \in {"open", "write", "fin", "accept", "read", "receive", "return",
                           "close", "over"}
          /\ result' \in {"none", "ok", "mismatch", "failed"}
          /\ result' = "none" <=> client' \in {"open", "write", "fin", "accept", "read",
                                               "receive"}
          /\ reader' \in {"none", "reading", "ended"}
          /\ handler' \in {"run", "wait", "returned", "panic"} /\ loops' \subseteq Loops
          /\ echo' \in {"none", "read", "open", "write", "fin", "flush", "ended"}
      BY <1>11, ClientReadsCases DEF clientReads, clientVars, serverVars, wires,
         trouble, TypeOK
    <2>2. /\ reply' \in [data : BOOLEAN, fin : BOOLEAN, closed : BOOLEAN]
          /\ request' \in [data : BOOLEAN, fin : BOOLEAN]
      BY <1>11, ClientReadsCases DEF clientReads, clientVars, serverVars, wires,
         trouble, TypeOK
    <2>3. /\ big' \in BOOLEAN /\ patient' \in BOOLEAN
          /\ clientQueue' \in BOOLEAN /\ serverQueue' \in BOOLEAN
          /\ clientDone' \in BOOLEAN /\ serverDone' \in BOOLEAN
          /\ timedOut' \in BOOLEAN /\ lost' \in BOOLEAN /\ refused' \in BOOLEAN
      BY <1>11, ClientReadsCases DEF clientReads, clientVars, serverVars, wires,
         trouble, TypeOK
    <2>4. /\ buffer' \in Wire /\ up' \in Wire /\ down' \in Wire
      BY <1>11, ClientReadsCases, WireKept DEF clientReads, clientVars,
         serverVars, wires, trouble, TypeOK, Messages
    <2> QED
      BY <2>1, <2>2, <2>3, <2>4 DEF TypeOK
  <1>12. CASE Alive /\ serverReads
    <2>1. /\ mode' \in Modes
          /\ client' \in {"open", "write", "fin", "accept", "read", "receive", "return",
                           "close", "over"}
          /\ result' \in {"none", "ok", "mismatch", "failed"}
          /\ result' = "none" <=> client' \in {"open", "write", "fin", "accept", "read",
                                               "receive"}
          /\ reader' \in {"none", "reading", "ended"}
          /\ handler' \in {"run", "wait", "returned", "panic"} /\ loops' \subseteq Loops
          /\ echo' \in {"none", "read", "open", "write", "fin", "flush", "ended"}
      BY <1>12, ServerReadsCases DEF serverReads, serverFrame, clientVars,
         serverVars, wires, trouble, TypeOK
    <2>2. /\ reply' \in [data : BOOLEAN, fin : BOOLEAN, closed : BOOLEAN]
          /\ request' \in [data : BOOLEAN, fin : BOOLEAN]
      BY <1>12, ServerReadsCases DEF serverReads, serverFrame, clientVars,
         serverVars, wires, trouble, TypeOK
    <2>3. /\ big' \in BOOLEAN /\ patient' \in BOOLEAN
          /\ clientQueue' \in BOOLEAN /\ serverQueue' \in BOOLEAN
          /\ clientDone' \in BOOLEAN /\ serverDone' \in BOOLEAN
          /\ timedOut' \in BOOLEAN /\ lost' \in BOOLEAN /\ refused' \in BOOLEAN
      BY <1>12, ServerReadsCases DEF serverReads, serverFrame, clientVars,
         serverVars, wires, trouble, TypeOK
    <2>4. /\ buffer' \in Wire /\ up' \in Wire /\ down' \in Wire
      BY <1>12, ServerReadsCases, WireKept DEF serverReads, serverFrame,
         clientVars, serverVars, wires, trouble, TypeOK, Messages
    <2> QED
      BY <2>1, <2>2, <2>3, <2>4 DEF TypeOK
  <1>13. CASE Alive /\ loopTakes
    <2>1. /\ mode' \in Modes
          /\ client' \in {"open", "write", "fin", "accept", "read", "receive", "return",
                           "close", "over"}
          /\ result' \in {"none", "ok", "mismatch", "failed"}
          /\ result' = "none" <=> client' \in {"open", "write", "fin", "accept", "read",
                                               "receive"}
          /\ reader' \in {"none", "reading", "ended"}
          /\ handler' \in {"run", "wait", "returned", "panic"} /\ loops' \subseteq Loops
          /\ echo' \in {"none", "read", "open", "write", "fin", "flush", "ended"}
      BY <1>13 DEF loopTakes, serverFrame, clientVars, serverVars, wires,
         trouble, TypeOK, Loops
    <2>2. /\ reply' \in [data : BOOLEAN, fin : BOOLEAN, closed : BOOLEAN]
          /\ request' \in [data : BOOLEAN, fin : BOOLEAN]
      BY <1>13 DEF loopTakes, serverFrame, clientVars, serverVars, wires,
         trouble, TypeOK, Loops
    <2>3. /\ big' \in BOOLEAN /\ patient' \in BOOLEAN
          /\ clientQueue' \in BOOLEAN /\ serverQueue' \in BOOLEAN
          /\ clientDone' \in BOOLEAN /\ serverDone' \in BOOLEAN
          /\ timedOut' \in BOOLEAN /\ lost' \in BOOLEAN /\ refused' \in BOOLEAN
      BY <1>13 DEF loopTakes, serverFrame, clientVars, serverVars, wires,
         trouble, TypeOK, Loops
    <2>4. /\ buffer' \in Wire /\ up' \in Wire /\ down' \in Wire
      BY <1>13, WireKept DEF loopTakes, serverFrame, clientVars, serverVars,
         wires, trouble, TypeOK, Messages, Loops
    <2> QED
      BY <2>1, <2>2, <2>3, <2>4 DEF TypeOK
  <1>14. CASE Alive /\ readRequest
    BY <1>14, WireKept DEF readRequest, Step, serverFrame, clientVars,
       serverVars, wires, trouble, TypeOK, Messages, Loops
  <1>15. CASE Alive /\ openReply
    BY <1>15, WireKept DEF openReply, Step, serverFrame, clientVars,
       serverVars, wires, trouble, TypeOK, Messages, Loops
  <1>16. CASE Alive /\ echoRefused
    BY <1>16, WireKept DEF echoRefused, serverFrame, clientVars, serverVars,
       wires, trouble, TypeOK, Messages, Loops
  <1>17. CASE Alive /\ writeReply
    <2>1. /\ mode' \in Modes
          /\ client' \in {"open", "write", "fin", "accept", "read", "receive", "return",
                           "close", "over"}
          /\ result' \in {"none", "ok", "mismatch", "failed"}
          /\ result' = "none" <=> client' \in {"open", "write", "fin", "accept", "read",
                                               "receive"}
          /\ reader' \in {"none", "reading", "ended"}
          /\ handler' \in {"run", "wait", "returned", "panic"} /\ loops' \subseteq Loops
          /\ echo' \in {"none", "read", "open", "write", "fin", "flush", "ended"}
      BY <1>17 DEF writeReply, Step, useWriter, replyCapsules, payload,
         serverFrame, clientVars, serverVars, wires, trouble, TypeOK
    <2>2. /\ reply' \in [data : BOOLEAN, fin : BOOLEAN, closed : BOOLEAN]
          /\ request' \in [data : BOOLEAN, fin : BOOLEAN]
      BY <1>17 DEF writeReply, Step, useWriter, replyCapsules, payload,
         serverFrame, clientVars, serverVars, wires, trouble, TypeOK
    <2>3. /\ big' \in BOOLEAN /\ patient' \in BOOLEAN
          /\ clientQueue' \in BOOLEAN /\ serverQueue' \in BOOLEAN
          /\ clientDone' \in BOOLEAN /\ serverDone' \in BOOLEAN
          /\ timedOut' \in BOOLEAN /\ lost' \in BOOLEAN /\ refused' \in BOOLEAN
      BY <1>17 DEF writeReply, Step, useWriter, replyCapsules, payload,
         serverFrame, clientVars, serverVars, wires, trouble, TypeOK
    <2>4. /\ buffer' \in Wire /\ up' \in Wire /\ down' \in Wire
      BY <1>17, WireKept DEF writeReply, Step, useWriter, replyCapsules,
         payload, serverFrame, clientVars, serverVars, wires, trouble, TypeOK,
         Messages
    <2> QED
      BY <2>1, <2>2, <2>3, <2>4 DEF TypeOK
  <1>18. CASE Alive /\ closeReply
    <2>1. /\ mode' \in Modes
          /\ client' \in {"open", "write", "fin", "accept", "read", "receive", "return",
                           "close", "over"}
          /\ result' \in {"none", "ok", "mismatch", "failed"}
          /\ result' = "none" <=> client' \in {"open", "write", "fin", "accept", "read",
                                               "receive"}
          /\ reader' \in {"none", "reading", "ended"}
          /\ handler' \in {"run", "wait", "returned", "panic"} /\ loops' \subseteq Loops
          /\ echo' \in {"none", "read", "open", "write", "fin", "flush", "ended"}
      BY <1>18 DEF closeReply, Step, useWriter, replyCapsules, payload,
         serverFrame, clientVars, serverVars, wires, trouble, TypeOK
    <2>2. /\ reply' \in [data : BOOLEAN, fin : BOOLEAN, closed : BOOLEAN]
          /\ request' \in [data : BOOLEAN, fin : BOOLEAN]
      BY <1>18 DEF closeReply, Step, useWriter, replyCapsules, payload,
         serverFrame, clientVars, serverVars, wires, trouble, TypeOK
    <2>3. /\ big' \in BOOLEAN /\ patient' \in BOOLEAN
          /\ clientQueue' \in BOOLEAN /\ serverQueue' \in BOOLEAN
          /\ clientDone' \in BOOLEAN /\ serverDone' \in BOOLEAN
          /\ timedOut' \in BOOLEAN /\ lost' \in BOOLEAN /\ refused' \in BOOLEAN
      BY <1>18 DEF closeReply, Step, useWriter, replyCapsules, payload,
         serverFrame, clientVars, serverVars, wires, trouble, TypeOK
    <2>4. /\ buffer' \in Wire /\ up' \in Wire /\ down' \in Wire
      BY <1>18, CloseReplyCases, WiresTyped, WireKept DEF closeReply, Step,
         useWriter, replyCapsules, payload, serverFrame, clientVars,
         serverVars, wires, trouble, TypeOK, Messages
    <2> QED
      BY <2>1, <2>2, <2>3, <2>4 DEF TypeOK
  <1>19. CASE Alive /\ flush
    <2>1. /\ mode' \in Modes
          /\ client' \in {"open", "write", "fin", "accept", "read", "receive", "return",
                           "close", "over"}
          /\ result' \in {"none", "ok", "mismatch", "failed"}
          /\ result' = "none" <=> client' \in {"open", "write", "fin", "accept", "read",
                                               "receive"}
          /\ reader' \in {"none", "reading", "ended"}
          /\ handler' \in {"run", "wait", "returned", "panic"} /\ loops' \subseteq Loops
          /\ echo' \in {"none", "read", "open", "write", "fin", "flush", "ended"}
      BY <1>19 DEF flush, Step, useWriter, push, serverFrame, clientVars,
         serverVars, wires, trouble, TypeOK
    <2>2. /\ reply' \in [data : BOOLEAN, fin : BOOLEAN, closed : BOOLEAN]
          /\ request' \in [data : BOOLEAN, fin : BOOLEAN]
      BY <1>19 DEF flush, Step, useWriter, push, serverFrame, clientVars,
         serverVars, wires, trouble, TypeOK
    <2>3. /\ big' \in BOOLEAN /\ patient' \in BOOLEAN
          /\ clientQueue' \in BOOLEAN /\ serverQueue' \in BOOLEAN
          /\ clientDone' \in BOOLEAN /\ serverDone' \in BOOLEAN
          /\ timedOut' \in BOOLEAN /\ lost' \in BOOLEAN /\ refused' \in BOOLEAN
      BY <1>19 DEF flush, Step, useWriter, push, serverFrame, clientVars,
         serverVars, wires, trouble, TypeOK
    <2>4. /\ buffer' \in Wire /\ up' \in Wire /\ down' \in Wire
      BY <1>19, FlushCases, WiresTyped, WireKept DEF flush, Step, useWriter,
         push, serverFrame, clientVars, serverVars, wires, trouble, TypeOK,
         Messages
    <2> QED
      BY <2>1, <2>2, <2>3, <2>4 DEF TypeOK
  <1>20. CASE Alive /\ handlerStops
    BY <1>20, WireKept DEF handlerStops, ended, serverFrame, clientVars,
       serverVars, wires, trouble, TypeOK, Messages, Loops
  <1>21. CASE Alive /\ handlerReturns
    BY <1>21, WireKept DEF handlerReturns, waited, serverFrame, clientVars,
       serverVars, wires, trouble, TypeOK, Messages, Loops
  <1>22. CASE Alive /\ \E l \in Loops : loopReturns(l)
    BY <1>22, WireKept DEF loopReturns, ended, serverFrame, clientVars,
       serverVars, wires, trouble, TypeOK, Messages, Loops
  <1>23. CASE deadline
    BY <1>23, WireKept DEF deadline, clientVars, serverVars, wires, trouble,
       TypeOK, Messages, Loops
  <1>24. CASE connectionLost
    BY <1>24, WireKept DEF connectionLost, clientVars, serverVars, wires,
       trouble, TypeOK, Messages, Loops
  <1>25. CASE lossSeen
    <2>1. /\ mode' \in Modes
          /\ client' \in {"open", "write", "fin", "accept", "read", "receive", "return",
                           "close", "over"}
          /\ result' \in {"none", "ok", "mismatch", "failed"}
          /\ result' = "none" <=> client' \in {"open", "write", "fin", "accept", "read",
                                               "receive"}
          /\ reader' \in {"none", "reading", "ended"}
          /\ handler' \in {"run", "wait", "returned", "panic"} /\ loops' \subseteq Loops
          /\ echo' \in {"none", "read", "open", "write", "fin", "flush", "ended"}
      BY <1>25 DEF lossSeen, clientVars, serverVars, wires, trouble, TypeOK
    <2>2. /\ reply' \in [data : BOOLEAN, fin : BOOLEAN, closed : BOOLEAN]
          /\ request' \in [data : BOOLEAN, fin : BOOLEAN]
      BY <1>25 DEF lossSeen, clientVars, serverVars, wires, trouble, TypeOK
    <2>3. /\ big' \in BOOLEAN /\ patient' \in BOOLEAN
          /\ clientQueue' \in BOOLEAN /\ serverQueue' \in BOOLEAN
          /\ clientDone' \in BOOLEAN /\ serverDone' \in BOOLEAN
          /\ timedOut' \in BOOLEAN /\ lost' \in BOOLEAN /\ refused' \in BOOLEAN
      BY <1>25 DEF lossSeen, clientVars, serverVars, wires, trouble, TypeOK
    <2>4. /\ buffer' \in Wire /\ up' \in Wire /\ down' \in Wire
      BY <1>25, WireKept DEF lossSeen, clientVars, serverVars, wires, trouble,
         TypeOK, Messages
    <2> QED
      BY <2>1, <2>2, <2>3, <2>4 DEF TypeOK
  <1>26. CASE UNCHANGED vars
    BY <1>26 DEF vars, clientVars, serverVars, wires, trouble, TypeOK, Messages, Loops
  <1> QED
    BY NextCases, <1>1, <1>2, <1>3, <1>4, <1>5, <1>6, <1>7, <1>8, <1>9, <1>10,
       <1>11, <1>12, <1>13, <1>14, <1>15, <1>16, <1>17, <1>18, <1>19, <1>20,
       <1>21, <1>22, <1>23, <1>24, <1>25, <1>26

-----------------------------------------------------------------------------
(* One part of the invariant at a time.                                    *)

(* The request.                                                            *)
LEMMA RequestKept ==
    ASSUME TypeOK, RequestInv, ReplyInv, ReaderInv, EndInv, [Next]_vars
    PROVE  RequestInv'
  <1>1. CASE clientRefused
    BY <1>1, WiresDiffer DEF clientRefused, ClientReturns, clientFrame,
       clientVars, serverVars, wires, trouble, TypeOK, RequestInv, WithData,
       WithFin, WithEnd
  <1>2. CASE openStream
    BY <1>2, WiresDiffer DEF openStream, ClientReturns, clientFrame,
       clientVars, serverVars, wires, trouble, TypeOK, RequestInv, WithData,
       WithFin, WithEnd
  <1>3. CASE writePayload
    BY <1>3, WiresDiffer, WiresWritten DEF writePayload, clientFrame,
       clientVars, serverVars, wires, trouble, TypeOK, RequestInv, WithData,
       WithFin, WithEnd
  <1>4. CASE closeSend
    BY <1>4, WiresDiffer, WiresWritten DEF closeSend, clientFrame, clientVars,
       serverVars, wires, trouble, TypeOK, RequestInv, WithData, WithFin,
       WithEnd
  <1>5. CASE acceptReply
    BY <1>5, WiresDiffer DEF acceptReply, ClientReturns, clientFrame,
       clientVars, serverVars, wires, trouble, TypeOK, RequestInv, WithData,
       WithFin, WithEnd
  <1>6. CASE readAll
    BY <1>6, WiresDiffer DEF readAll, clientFrame, clientVars, serverVars,
       wires, trouble, TypeOK, RequestInv, WithData, WithFin, WithEnd
  <1>7. CASE readReply
    BY <1>7, WiresDiffer DEF readReply, ClientReturns, compare, abandonRead,
       clientFrame, clientVars, serverVars, wires, trouble, TypeOK,
       RequestInv, WithData, WithFin, WithEnd
  <1>8. CASE receiveReply
    BY <1>8, WiresDiffer DEF receiveReply, ClientReturns, compare,
       receiveGivesUp, clientFrame, clientVars, serverVars, wires, trouble,
       TypeOK, RequestInv, WithData, WithFin, WithEnd
  <1>9. CASE closeRequestBody
    <2>1. client = "return" /\ up \notin WithEnd
      BY <1>9 DEF closeRequestBody, mayFinish, RequestInv
    <2>2. up \in {<<>>, G, D, DF, F}
      BY <2>1 DEF RequestInv, WithEnd
    <2>3. UNCHANGED <<mode, request, serverQueue, echo, serverDone, lost>> /\ client' = "close"
      BY <1>9 DEF closeRequestBody, clientFrame, serverVars
    <2>4. CASE lost
      <3>1. up = <<>> /\ up' = up
        BY <1>9, <2>4 DEF closeRequestBody, RequestInv
      <3> QED
        BY <2>1, <2>3, <3>1 DEF RequestInv
    <2>5. CASE ~lost
      <3>1. up' = Append(up, "end")
        BY <1>9, <2>5 DEF closeRequestBody
      <3>2. \/ up = <<>> /\ up' = E
            \/ up = G /\ up' = GE
            \/ up = D /\ up' = DE
            \/ up = DF /\ up' = DFE
            \/ up = F /\ up' = FE
        BY <2>2, <3>1, WiresWritten
      <3> QED
        BY <2>3, <2>5, <3>2, WiresDiffer DEF RequestInv, WithData, WithFin, WithEnd
    <2> QED
      BY <2>4, <2>5
  <1>10. CASE closeSession
    BY <1>10, WiresDiffer DEF closeSession, clientFrame, clientVars,
       serverVars, wires, trouble, TypeOK, RequestInv, WithData, WithFin,
       WithEnd
  <1>11. CASE clientReads
    BY <1>11, WiresDiffer, ClientReadsCases, WiresRead DEF clientReads,
       clientVars, serverVars, wires, trouble, TypeOK, RequestInv, WithData,
       WithFin, WithEnd
  <1>12. CASE Alive /\ serverReads
    <2> DEFINE Same == UNCHANGED <<mode, big, client, clientDone, echo, handler, loops, buffer,
                                   down, timedOut, lost>>
    <2>1. Same /\ up' = Tail(up) /\ up # <<>> /\ ~serverDone /\ ~lost
      BY <1>12 DEF serverReads, serverFrame, clientVars, RequestInv
    <2>2. \/ up = D /\ up' = <<>>
          \/ up = DF /\ up' = F
          \/ up = DE /\ up' = E
          \/ up = DFE /\ up' = FE
          \/ up = F /\ up' = <<>>
          \/ up = FE /\ up' = E
          \/ up = E /\ up' = <<>>
          \/ up = G /\ up' = <<>>
          \/ up = GE /\ up' = E
      BY <2>1, WiresRead DEF RequestInv
    <2>3. CASE Head(up) = "data"
      <3>1. /\ serverQueue' = TRUE /\ request' = [request EXCEPT !.data = ~big]
            /\ serverDone' = big
        BY <1>12, <2>3, ServerReadsCases
      <3>2. \/ up = D /\ up' = <<>>
            \/ up = DF /\ up' = F
            \/ up = DE /\ up' = E
            \/ up = DFE /\ up' = FE
        BY <2>2, <2>3, WiresRead
      <3>3. /\ request'.fin = request.fin /\ (~big => request'.data)
            /\ request'.fin \in BOOLEAN
        BY <3>1 DEF TypeOK
      <3>4. mode # "datagram" /\ echo = "none" /\ ~request.fin
        BY <3>2, WiresDiffer DEF RequestInv, WithData
      <3> QED
        BY <2>1, <3>1, <3>2, <3>3, <3>4, WiresDiffer
           DEF TypeOK, RequestInv, WithData, WithFin, WithEnd
    <2>4. CASE Head(up) = "fin"
      <3>1. /\ request' = [request EXCEPT !.fin = TRUE]
            /\ UNCHANGED <<serverQueue, serverDone>>
        BY <1>12, <2>4, ServerReadsCases
      <3>2. (up = F /\ up' = <<>>) \/ (up = FE /\ up' = E)
        BY <2>2, <2>4, WiresRead
      <3>3. request'.data = request.data /\ request'.fin
        BY <3>1 DEF TypeOK
      <3> QED
        BY <2>1, <3>1, <3>2, <3>3, WiresDiffer
           DEF TypeOK, RequestInv, WithData, WithFin, WithEnd
    <2>5. CASE Head(up) = "datagram"
      <3>1. serverQueue' = ~big /\ UNCHANGED <<request, serverDone>>
        BY <1>12, <2>5, ServerReadsCases
      <3>2. (up = G /\ up' = <<>>) \/ (up = GE /\ up' = E)
        BY <2>2, <2>5, WiresRead
      <3> QED
        BY <2>1, <3>1, <3>2, WiresDiffer DEF TypeOK, RequestInv, WithData, WithFin, WithEnd
    <2>6. CASE Head(up) = "end"
      <3>1. serverDone' = TRUE /\ UNCHANGED <<request, serverQueue>>
        BY <1>12, <2>6, ServerReadsCases
      <3>2. up = E /\ up' = <<>>
        BY <2>2, <2>6, WiresRead
      <3> QED
        BY <2>1, <3>1, <3>2, WiresDiffer DEF TypeOK, RequestInv, WithData, WithFin, WithEnd
    <2> QED
      BY <1>12, <2>3, <2>4, <2>5, <2>6, ServerReadsCases
  <1>13. CASE Alive /\ loopTakes
    BY <1>13, WiresDiffer DEF loopTakes, serverFrame, clientVars, serverVars,
       wires, trouble, TypeOK, RequestInv, WithData, WithFin, WithEnd
  <1>14. CASE Alive /\ readRequest
    BY <1>14, WiresDiffer DEF readRequest, Step, serverFrame, clientVars,
       serverVars, wires, trouble, TypeOK, RequestInv, WithData, WithFin,
       WithEnd
  <1>15. CASE Alive /\ openReply
    BY <1>15, WiresDiffer DEF openReply, Step, serverFrame, clientVars,
       serverVars, wires, trouble, TypeOK, RequestInv, WithData, WithFin,
       WithEnd
  <1>16. CASE Alive /\ echoRefused
    BY <1>16, WiresDiffer DEF echoRefused, serverFrame, clientVars,
       serverVars, wires, trouble, TypeOK, RequestInv, WithData, WithFin,
       WithEnd
  <1>17. CASE Alive /\ writeReply
    BY <1>17, WiresDiffer, WriteReplyCases DEF writeReply, Step, serverFrame,
       clientVars, serverVars, wires, trouble, TypeOK, RequestInv, WithData,
       WithFin, WithEnd
  <1>18. CASE Alive /\ closeReply
    BY <1>18, WiresDiffer, CloseReplyCases DEF closeReply, Step, serverFrame,
       clientVars, serverVars, wires, trouble, TypeOK, RequestInv, WithData,
       WithFin, WithEnd
  <1>19. CASE Alive /\ flush
    BY <1>19, WiresDiffer, FlushCases DEF flush, Step, serverFrame,
       clientVars, serverVars, wires, trouble, TypeOK, RequestInv, WithData,
       WithFin, WithEnd
  <1>20. CASE Alive /\ handlerStops
    BY <1>20, WiresDiffer DEF handlerStops, ended, serverFrame, clientVars,
       serverVars, wires, trouble, TypeOK, RequestInv, WithData, WithFin,
       WithEnd
  <1>21. CASE Alive /\ handlerReturns
    BY <1>21, WiresDiffer, ReturnCases DEF handlerReturns, waited,
       serverFrame, clientVars, serverVars, wires, trouble, TypeOK,
       RequestInv, WithData, WithFin, WithEnd
  <1>22. CASE Alive /\ \E l \in Loops : loopReturns(l)
    BY <1>22, WiresDiffer DEF loopReturns, ended, serverFrame, clientVars,
       serverVars, wires, trouble, TypeOK, RequestInv, WithData, WithFin,
       WithEnd
  <1>23. CASE deadline
    BY <1>23, WiresDiffer DEF deadline, clientVars, serverVars, wires,
       trouble, TypeOK, RequestInv, WithData, WithFin, WithEnd
  <1>24. CASE connectionLost
    BY <1>24, WiresDiffer DEF connectionLost, clientVars, serverVars, wires,
       trouble, TypeOK, RequestInv, WithData, WithFin, WithEnd
  <1>25. CASE lossSeen
    BY <1>25, WiresDiffer DEF lossSeen, clientVars, serverVars, wires,
       trouble, TypeOK, RequestInv, WithData, WithFin, WithEnd
  <1>26. CASE UNCHANGED vars
    BY <1>26 DEF vars, clientVars, serverVars, wires, trouble, TypeOK, RequestInv, WithData, WithFin, WithEnd
  <1> QED
    BY NextCases, <1>1, <1>2, <1>3, <1>4, <1>5, <1>6, <1>7, <1>8, <1>9, <1>10,
       <1>11, <1>12, <1>13, <1>14, <1>15, <1>16, <1>17, <1>18, <1>19, <1>20,
       <1>21, <1>22, <1>23, <1>24, <1>25, <1>26

(* The reply.                                                              *)
LEMMA ReplyKept ==
    ASSUME TypeOK, RequestInv, ReplyInv, ReaderInv, EndInv, [Next]_vars
    PROVE  ReplyInv'
  <1>1. CASE clientRefused
    BY <1>1, WiresDiffer DEF clientRefused, ClientReturns, clientFrame,
       clientVars, serverVars, wires, trouble, TypeOK, RequestInv, ReplyInv,
       Gone, WithData, WithFin, WithEnd
  <1>2. CASE openStream
    BY <1>2, WiresDiffer DEF openStream, ClientReturns, clientFrame,
       clientVars, serverVars, wires, trouble, TypeOK, RequestInv, ReplyInv,
       Gone, WithData, WithFin, WithEnd
  <1>3. CASE writePayload
    BY <1>3, WiresDiffer, WiresWritten DEF writePayload, clientFrame,
       clientVars, serverVars, wires, trouble, TypeOK, RequestInv, ReplyInv,
       Gone, WithData, WithFin, WithEnd
  <1>4. CASE closeSend
    BY <1>4, WiresDiffer, WiresWritten DEF closeSend, clientFrame, clientVars,
       serverVars, wires, trouble, TypeOK, RequestInv, ReplyInv, Gone,
       WithData, WithFin, WithEnd
  <1>5. CASE acceptReply
    BY <1>5, WiresDiffer DEF acceptReply, ClientReturns, clientFrame,
       clientVars, serverVars, wires, trouble, TypeOK, RequestInv, ReplyInv,
       Gone, WithData, WithFin, WithEnd
  <1>6. CASE readAll
    BY <1>6, WiresDiffer DEF readAll, clientFrame, clientVars, serverVars,
       wires, trouble, TypeOK, RequestInv, ReplyInv, Gone, WithData, WithFin,
       WithEnd
  <1>7. CASE readReply
    BY <1>7, WiresDiffer DEF readReply, ClientReturns, compare, abandonRead,
       clientFrame, clientVars, serverVars, wires, trouble, TypeOK,
       RequestInv, ReplyInv, Gone, WithData, WithFin, WithEnd
  <1>8. CASE receiveReply
    BY <1>8, WiresDiffer DEF receiveReply, ClientReturns, compare,
       receiveGivesUp, clientFrame, clientVars, serverVars, wires, trouble,
       TypeOK, RequestInv, ReplyInv, Gone, WithData, WithFin, WithEnd
  <1>9. CASE closeRequestBody
    BY <1>9, WiresDiffer, WiresWritten DEF closeRequestBody, mayFinish,
       clientFrame, clientVars, serverVars, wires, trouble, TypeOK,
       RequestInv, ReplyInv, Gone, WithData, WithFin, WithEnd
  <1>10. CASE closeSession
    BY <1>10, WiresDiffer DEF closeSession, clientFrame, clientVars,
       serverVars, wires, trouble, TypeOK, RequestInv, ReplyInv, Gone,
       WithData, WithFin, WithEnd
  <1>11. CASE clientReads
    BY <1>11, WiresDiffer, ClientReadsCases, WiresRead DEF clientReads,
       clientVars, serverVars, wires, trouble, TypeOK, RequestInv, ReplyInv,
       Gone, WithData, WithFin, WithEnd
  <1>12. CASE Alive /\ serverReads
    BY <1>12, WiresDiffer, ServerReadsCases, WiresRead DEF serverReads,
       serverFrame, clientVars, serverVars, wires, trouble, TypeOK,
       RequestInv, ReplyInv, Gone, WithData, WithFin, WithEnd
  <1>13. CASE Alive /\ loopTakes
    BY <1>13, WiresDiffer DEF loopTakes, serverFrame, clientVars, serverVars,
       wires, trouble, TypeOK, RequestInv, ReplyInv, Gone, WithData, WithFin,
       WithEnd
  <1>14. CASE Alive /\ readRequest
    BY <1>14, WiresDiffer DEF readRequest, Step, serverFrame, clientVars,
       serverVars, wires, trouble, TypeOK, RequestInv, ReplyInv, Gone,
       WithData, WithFin, WithEnd
  <1>15. CASE Alive /\ openReply
    BY <1>15, WiresDiffer DEF openReply, Step, serverFrame, clientVars,
       serverVars, wires, trouble, TypeOK, RequestInv, ReplyInv, Gone,
       WithData, WithFin, WithEnd
  <1>16. CASE Alive /\ echoRefused
    BY <1>16, WiresDiffer DEF echoRefused, serverFrame, clientVars,
       serverVars, wires, trouble, TypeOK, RequestInv, ReplyInv, Gone,
       WithData, WithFin, WithEnd
  <1>17. CASE Alive /\ writeReply
    BY <1>17, WiresDiffer, WriteReplyCases DEF writeReply, Step, serverFrame,
       clientVars, serverVars, wires, trouble, TypeOK, RequestInv, ReplyInv,
       Gone, WithData, WithFin, WithEnd
  <1>18. CASE Alive /\ closeReply
    BY <1>18, WiresDiffer, CloseReplyCases DEF closeReply, Step, serverFrame,
       clientVars, serverVars, wires, trouble, TypeOK, RequestInv, ReplyInv,
       Gone, WithData, WithFin, WithEnd
  <1>19. CASE Alive /\ flush
    BY <1>19, WiresDiffer, FlushCases DEF flush, Step, serverFrame,
       clientVars, serverVars, wires, trouble, TypeOK, RequestInv, ReplyInv,
       Gone, WithData, WithFin, WithEnd
  <1>20. CASE Alive /\ handlerStops
    BY <1>20, WiresDiffer DEF handlerStops, ended, serverFrame, clientVars,
       serverVars, wires, trouble, TypeOK, RequestInv, ReplyInv, Gone,
       WithData, WithFin, WithEnd
  <1>21. CASE Alive /\ handlerReturns
    BY <1>21, WiresDiffer, ReturnCases DEF handlerReturns, waited,
       serverFrame, clientVars, serverVars, wires, trouble, TypeOK,
       RequestInv, ReplyInv, Gone, WithData, WithFin, WithEnd
  <1>22. CASE Alive /\ \E l \in Loops : loopReturns(l)
    BY <1>22, WiresDiffer DEF loopReturns, ended, serverFrame, clientVars,
       serverVars, wires, trouble, TypeOK, RequestInv, ReplyInv, Gone,
       WithData, WithFin, WithEnd
  <1>23. CASE deadline
    BY <1>23, WiresDiffer DEF deadline, clientVars, serverVars, wires,
       trouble, TypeOK, RequestInv, ReplyInv, Gone, WithData, WithFin, WithEnd
  <1>24. CASE connectionLost
    BY <1>24, WiresDiffer DEF connectionLost, clientVars, serverVars, wires,
       trouble, TypeOK, RequestInv, ReplyInv, Gone, WithData, WithFin, WithEnd
  <1>25. CASE lossSeen
    BY <1>25, WiresDiffer DEF lossSeen, clientVars, serverVars, wires,
       trouble, TypeOK, RequestInv, ReplyInv, Gone, WithData, WithFin, WithEnd
  <1>26. CASE UNCHANGED vars
    BY <1>26 DEF vars, clientVars, serverVars, wires, trouble, TypeOK, RequestInv, ReplyInv, Gone, WithData, WithFin, WithEnd
  <1> QED
    BY NextCases, <1>1, <1>2, <1>3, <1>4, <1>5, <1>6, <1>7, <1>8, <1>9, <1>10,
       <1>11, <1>12, <1>13, <1>14, <1>15, <1>16, <1>17, <1>18, <1>19, <1>20,
       <1>21, <1>22, <1>23, <1>24, <1>25, <1>26

(* The client's reader.                                                    *)
LEMMA ReaderKept ==
    ASSUME TypeOK, RequestInv, ReplyInv, ReaderInv, EndInv, [Next]_vars
    PROVE  ReaderInv'
  <1>1. CASE clientRefused
    BY <1>1, WiresDiffer DEF clientRefused, ClientReturns, clientFrame,
       clientVars, serverVars, wires, trouble, TypeOK, ReplyInv, ReaderInv,
       Over, WithData, WithFin, WithEnd
  <1>2. CASE openStream
    BY <1>2, WiresDiffer DEF openStream, ClientReturns, clientFrame,
       clientVars, serverVars, wires, trouble, TypeOK, ReplyInv, ReaderInv,
       Over, WithData, WithFin, WithEnd
  <1>3. CASE writePayload
    BY <1>3, WiresDiffer, WiresWritten DEF writePayload, clientFrame,
       clientVars, serverVars, wires, trouble, TypeOK, ReplyInv, ReaderInv,
       Over, WithData, WithFin, WithEnd
  <1>4. CASE closeSend
    BY <1>4, WiresDiffer, WiresWritten DEF closeSend, clientFrame, clientVars,
       serverVars, wires, trouble, TypeOK, ReplyInv, ReaderInv, Over,
       WithData, WithFin, WithEnd
  <1>5. CASE acceptReply
    BY <1>5, WiresDiffer DEF acceptReply, ClientReturns, clientFrame,
       clientVars, serverVars, wires, trouble, TypeOK, ReplyInv, ReaderInv,
       Over, WithData, WithFin, WithEnd
  <1>6. CASE readAll
    BY <1>6, WiresDiffer DEF readAll, clientFrame, clientVars, serverVars,
       wires, trouble, TypeOK, ReplyInv, ReaderInv, Over, WithData, WithFin,
       WithEnd
  <1>7. CASE readReply
    BY <1>7, WiresDiffer DEF readReply, ClientReturns, compare, abandonRead,
       clientFrame, clientVars, serverVars, wires, trouble, TypeOK, ReplyInv,
       ReaderInv, Over, WithData, WithFin, WithEnd
  <1>8. CASE receiveReply
    <2>1. CASE clientQueue /\ clientQueue' = FALSE /\ compare
      <3>1. mode = "datagram" /\ reply.data
        BY <1>8, <2>1 DEF receiveReply, RequestInv, ReaderInv
      <3>2. result' # "mismatch"
        BY <1>8, <2>1, <3>1 DEF receiveReply, compare, ClientReturns
      <3>3. clientQueue' = FALSE /\ UNCHANGED <<down, reply, reader, mode>> /\ client' = "return"
        BY <1>8, <2>1 DEF receiveReply, compare, ClientReturns, clientFrame
      <3> QED
        BY <3>2, <3>3 DEF ReaderInv, Over
    <2>2. CASE receiveGivesUp /\ ClientReturns("failed") /\ UNCHANGED clientQueue
      BY <1>8, <2>2 DEF receiveReply, ClientReturns, clientFrame, ReaderInv, Over
    <2> QED
      BY <1>8, <2>1, <2>2 DEF receiveReply
  <1>9. CASE closeRequestBody
    BY <1>9, WiresDiffer, WiresWritten DEF closeRequestBody, mayFinish,
       clientFrame, clientVars, serverVars, wires, trouble, TypeOK, ReplyInv,
       ReaderInv, Over, WithData, WithFin, WithEnd
  <1>10. CASE closeSession
    BY <1>10, WiresDiffer DEF closeSession, clientFrame, clientVars,
       serverVars, wires, trouble, TypeOK, ReplyInv, ReaderInv, Over,
       WithData, WithFin, WithEnd
  <1>11. CASE clientReads
    <2>1. UNCHANGED <<mode, big, client, result, reader, handler, loops, echo, request, serverDone,
                      buffer, up, timedOut, lost>> /\ down' = Tail(down) /\ down # <<>>
          /\ ~clientDone
      BY <1>11 DEF clientReads, serverVars, trouble
    <2>2. \/ down = DF /\ down' = F
          \/ down = DE /\ down' = E
          \/ down = DFE /\ down' = FE
          \/ down = F /\ down' = <<>>
          \/ down = FE /\ down' = E
          \/ down = E /\ down' = <<>>
          \/ down = G /\ down' = <<>>
          \/ down = GE /\ down' = E
      BY <2>1, WiresRead DEF ReplyInv
    <2>3. CASE Head(down) = "data"
      <3>1. /\ reply' = [reply EXCEPT !.data = ~reply.closed]
            /\ UNCHANGED clientDone
        BY <1>11, <2>3, ClientReadsCases DEF TypeOK
      <3>2. mode # "datagram"
        BY <2>2, <2>3, WiresRead, WiresDiffer DEF ReplyInv
      <3>3. /\ reply'.fin = reply.fin /\ reply'.closed = reply.closed
            /\ reply'.data \/ reply'.closed
        BY <3>1 DEF TypeOK
      <3>4. (down = DF /\ down' = F) \/ (down = DE /\ down' = E) \/ (down = DFE /\ down' = FE)
        BY <2>2, <2>3, WiresRead
      <3> QED
        BY <2>1, <3>1, <3>2, <3>3, <3>4, WiresDiffer DEF ReaderInv, Over
    <2>4. CASE Head(down) = "fin"
      <3>1. reply' = [reply EXCEPT !.fin = TRUE] /\ UNCHANGED <<clientQueue, clientDone>>
        BY <1>11, <2>4, ClientReadsCases
      <3>2. (down = F /\ down' = <<>>) \/ (down = FE /\ down' = E)
        BY <2>2, <2>4, WiresRead
      <3>3. reply'.data = reply.data /\ reply'.closed = reply.closed /\ reply'.fin
        BY <3>1 DEF TypeOK
      <3>4. reply.data \/ reply.closed
        BY <3>2 DEF ReaderInv
      <3> QED
        BY <2>1, <3>1, <3>2, <3>3, <3>4, WiresDiffer DEF ReaderInv, Over
    <2>5. CASE Head(down) = "datagram"
      <3>1. /\ clientQueue' = TRUE /\ reply' = [reply EXCEPT !.data = TRUE]
            /\ UNCHANGED clientDone
        BY <1>11, <2>5, ClientReadsCases
      <3>2. (down = G /\ down' = <<>>) \/ (down = GE /\ down' = E)
        BY <2>2, <2>5, WiresRead
      <3>3. reply'.data /\ reply'.closed = reply.closed /\ reply'.fin = reply.fin
        BY <3>1 DEF TypeOK
      <3> QED
        BY <2>1, <3>1, <3>2, <3>3, WiresDiffer DEF ReaderInv, Over
    <2>6. CASE Head(down) = "end"
      <3>1. clientDone' = TRUE /\ UNCHANGED <<reply, clientQueue>>
        BY <1>11, <2>6, ClientReadsCases
      <3>2. down = E /\ down' = <<>>
        BY <2>2, <2>6, WiresRead
      <3> QED
        BY <2>1, <3>1, <3>2, WiresDiffer DEF ReaderInv, Over
    <2> QED
      BY <2>2, <2>3, <2>4, <2>5, <2>6, WiresRead
  <1>12. CASE Alive /\ serverReads
    BY <1>12, WiresDiffer, ServerReadsCases, WiresRead DEF serverReads,
       serverFrame, clientVars, serverVars, wires, trouble, TypeOK, ReplyInv,
       ReaderInv, Over, WithData, WithFin, WithEnd
  <1>13. CASE Alive /\ loopTakes
    BY <1>13, WiresDiffer DEF loopTakes, serverFrame, clientVars, serverVars,
       wires, trouble, TypeOK, ReplyInv, ReaderInv, Over, WithData, WithFin,
       WithEnd
  <1>14. CASE Alive /\ readRequest
    BY <1>14, WiresDiffer DEF readRequest, Step, serverFrame, clientVars,
       serverVars, wires, trouble, TypeOK, ReplyInv, ReaderInv, Over,
       WithData, WithFin, WithEnd
  <1>15. CASE Alive /\ openReply
    BY <1>15, WiresDiffer DEF openReply, Step, serverFrame, clientVars,
       serverVars, wires, trouble, TypeOK, ReplyInv, ReaderInv, Over,
       WithData, WithFin, WithEnd
  <1>16. CASE Alive /\ echoRefused
    BY <1>16, WiresDiffer DEF echoRefused, serverFrame, clientVars,
       serverVars, wires, trouble, TypeOK, ReplyInv, ReaderInv, Over,
       WithData, WithFin, WithEnd
  <1>17. CASE Alive /\ writeReply
    BY <1>17, WiresDiffer, WriteReplyCases DEF writeReply, Step, serverFrame,
       clientVars, serverVars, wires, trouble, TypeOK, ReplyInv, ReaderInv,
       Over, WithData, WithFin, WithEnd
  <1>18. CASE Alive /\ closeReply
    BY <1>18, WiresDiffer, CloseReplyCases DEF closeReply, Step, serverFrame,
       clientVars, serverVars, wires, trouble, TypeOK, ReplyInv, ReaderInv,
       Over, WithData, WithFin, WithEnd
  <1>19. CASE Alive /\ flush
    BY <1>19, WiresDiffer, FlushCases DEF flush, Step, serverFrame,
       clientVars, serverVars, wires, trouble, TypeOK, ReplyInv, ReaderInv,
       Over, WithData, WithFin, WithEnd
  <1>20. CASE Alive /\ handlerStops
    BY <1>20, WiresDiffer DEF handlerStops, ended, serverFrame, clientVars,
       serverVars, wires, trouble, TypeOK, ReplyInv, ReaderInv, Over,
       WithData, WithFin, WithEnd
  <1>21. CASE Alive /\ handlerReturns
    BY <1>21, WiresDiffer, ReturnCases DEF handlerReturns, waited,
       serverFrame, clientVars, serverVars, wires, trouble, TypeOK, ReplyInv,
       ReaderInv, Over, WithData, WithFin, WithEnd
  <1>22. CASE Alive /\ \E l \in Loops : loopReturns(l)
    BY <1>22, WiresDiffer DEF loopReturns, ended, serverFrame, clientVars,
       serverVars, wires, trouble, TypeOK, ReplyInv, ReaderInv, Over,
       WithData, WithFin, WithEnd
  <1>23. CASE deadline
    BY <1>23, WiresDiffer DEF deadline, clientVars, serverVars, wires,
       trouble, TypeOK, ReplyInv, ReaderInv, Over, WithData, WithFin, WithEnd
  <1>24. CASE connectionLost
    BY <1>24, WiresDiffer DEF connectionLost, clientVars, serverVars, wires,
       trouble, TypeOK, ReplyInv, ReaderInv, Over, WithData, WithFin, WithEnd
  <1>25. CASE lossSeen
    BY <1>25, WiresDiffer DEF lossSeen, clientVars, serverVars, wires,
       trouble, TypeOK, ReplyInv, ReaderInv, Over, WithData, WithFin, WithEnd
  <1>26. CASE UNCHANGED vars
    BY <1>26 DEF vars, clientVars, serverVars, wires, trouble, TypeOK, ReplyInv, ReaderInv, Over, WithData, WithFin, WithEnd
  <1> QED
    BY NextCases, <1>1, <1>2, <1>3, <1>4, <1>5, <1>6, <1>7, <1>8, <1>9, <1>10,
       <1>11, <1>12, <1>13, <1>14, <1>15, <1>16, <1>17, <1>18, <1>19, <1>20,
       <1>21, <1>22, <1>23, <1>24, <1>25, <1>26

(* The end of the session.                                                 *)
LEMMA EndKept ==
    ASSUME TypeOK, RequestInv, ReplyInv, ReaderInv, EndInv, [Next]_vars
    PROVE  EndInv'
  <1>1. CASE clientRefused
    BY <1>1, WiresDiffer DEF clientRefused, ClientReturns, clientFrame,
       clientVars, serverVars, wires, trouble, TypeOK, RequestInv, ReplyInv,
       ReaderInv, EndInv, Over, Gone, NoMoreFin, WithData, WithFin, WithEnd
  <1>2. CASE openStream
    BY <1>2, WiresDiffer DEF openStream, ClientReturns, clientFrame,
       clientVars, serverVars, wires, trouble, TypeOK, RequestInv, ReplyInv,
       ReaderInv, EndInv, Over, Gone, NoMoreFin, WithData, WithFin, WithEnd
  <1>3. CASE writePayload
    BY <1>3, WiresDiffer, WiresWritten DEF writePayload, clientFrame,
       clientVars, serverVars, wires, trouble, TypeOK, RequestInv, ReplyInv,
       ReaderInv, EndInv, Over, Gone, NoMoreFin, WithData, WithFin, WithEnd
  <1>4. CASE closeSend
    BY <1>4, WiresDiffer, WiresWritten DEF closeSend, clientFrame, clientVars,
       serverVars, wires, trouble, TypeOK, RequestInv, ReplyInv, ReaderInv,
       EndInv, Over, Gone, NoMoreFin, WithData, WithFin, WithEnd
  <1>5. CASE acceptReply
    BY <1>5, WiresDiffer DEF acceptReply, ClientReturns, clientFrame,
       clientVars, serverVars, wires, trouble, TypeOK, RequestInv, ReplyInv,
       ReaderInv, EndInv, Over, Gone, NoMoreFin, WithData, WithFin, WithEnd
  <1>6. CASE readAll
    BY <1>6, WiresDiffer DEF readAll, clientFrame, clientVars, serverVars,
       wires, trouble, TypeOK, RequestInv, ReplyInv, ReaderInv, EndInv, Over,
       Gone, NoMoreFin, WithData, WithFin, WithEnd
  <1>7. CASE readReply
    BY <1>7, WiresDiffer DEF readReply, ClientReturns, compare, abandonRead,
       clientFrame, clientVars, serverVars, wires, trouble, TypeOK,
       RequestInv, ReplyInv, ReaderInv, EndInv, Over, Gone, NoMoreFin,
       WithData, WithFin, WithEnd
  <1>8. CASE receiveReply
    BY <1>8, WiresDiffer DEF receiveReply, ClientReturns, compare,
       receiveGivesUp, clientFrame, clientVars, serverVars, wires, trouble,
       TypeOK, RequestInv, ReplyInv, ReaderInv, EndInv, Over, Gone, NoMoreFin,
       WithData, WithFin, WithEnd
  <1>9. CASE closeRequestBody
    BY <1>9, WiresDiffer, WiresWritten DEF closeRequestBody, mayFinish,
       clientFrame, clientVars, serverVars, wires, trouble, TypeOK,
       RequestInv, ReplyInv, ReaderInv, EndInv, Over, Gone, NoMoreFin,
       WithData, WithFin, WithEnd
  <1>10. CASE closeSession
    BY <1>10, WiresDiffer DEF closeSession, clientFrame, clientVars,
       serverVars, wires, trouble, TypeOK, RequestInv, ReplyInv, ReaderInv,
       EndInv, Over, Gone, NoMoreFin, WithData, WithFin, WithEnd
  <1>11. CASE clientReads
    <2>1. UNCHANGED <<mode, big, client, result, reader, handler, loops, echo, request, serverDone,
                      buffer, up, timedOut, lost>> /\ down' = Tail(down) /\ down # <<>>
          /\ ~clientDone
      BY <1>11 DEF clientReads, serverVars, trouble
    <2>2. \/ down = DF /\ down' = F
          \/ down = DE /\ down' = E
          \/ down = DFE /\ down' = FE
          \/ down = F /\ down' = <<>>
          \/ down = FE /\ down' = E
          \/ down = E /\ down' = <<>>
          \/ down = G /\ down' = <<>>
          \/ down = GE /\ down' = E
      BY <2>1, WiresRead DEF ReplyInv
    <2>3. CASE Head(down) = "data"
      <3>1. /\ reply' = [reply EXCEPT !.data = ~reply.closed]
            /\ UNCHANGED clientDone
        BY <1>11, <2>3, ClientReadsCases DEF TypeOK
      <3>2. mode # "datagram"
        BY <2>2, <2>3, WiresRead, WiresDiffer DEF ReplyInv
      <3>3. /\ reply'.fin = reply.fin /\ reply'.closed = reply.closed
            /\ reply'.data \/ reply'.closed
        BY <3>1 DEF TypeOK
      <3>4. (down = DF /\ down' = F) \/ (down = DE /\ down' = E) \/ (down = DFE /\ down' = FE)
        BY <2>2, <2>3, WiresRead
      <3> QED
        BY <2>1, <3>1, <3>2, <3>3, <3>4, WiresDiffer DEF ReplyInv, EndInv, Over, Gone, NoMoreFin, WithEnd
    <2>4. CASE Head(down) = "fin"
      <3>1. reply' = [reply EXCEPT !.fin = TRUE] /\ UNCHANGED <<clientQueue, clientDone>>
        BY <1>11, <2>4, ClientReadsCases
      <3>2. (down = F /\ down' = <<>>) \/ (down = FE /\ down' = E)
        BY <2>2, <2>4, WiresRead
      <3>3. reply'.data = reply.data /\ reply'.closed = reply.closed /\ reply'.fin
        BY <3>1 DEF TypeOK
      <3>4. reply.data \/ reply.closed
        BY <3>2 DEF ReaderInv
      <3> QED
        BY <2>1, <3>1, <3>2, <3>3, <3>4, WiresDiffer DEF ReplyInv, EndInv, Over, Gone, NoMoreFin, WithEnd
    <2>5. CASE Head(down) = "datagram"
      <3>1. /\ clientQueue' = TRUE /\ reply' = [reply EXCEPT !.data = TRUE]
            /\ UNCHANGED clientDone
        BY <1>11, <2>5, ClientReadsCases
      <3>2. (down = G /\ down' = <<>>) \/ (down = GE /\ down' = E)
        BY <2>2, <2>5, WiresRead
      <3>3. reply'.data /\ reply'.closed = reply.closed /\ reply'.fin = reply.fin
        BY <3>1 DEF TypeOK
      <3> QED
        BY <2>1, <3>1, <3>2, <3>3, WiresDiffer DEF ReplyInv, EndInv, Over, Gone, NoMoreFin, WithEnd
    <2>6. CASE Head(down) = "end"
      <3>1. clientDone' = TRUE /\ UNCHANGED <<reply, clientQueue>>
        BY <1>11, <2>6, ClientReadsCases
      <3>2. down = E /\ down' = <<>>
        BY <2>2, <2>6, WiresRead
      <3> QED
        BY <2>1, <3>1, <3>2, WiresDiffer DEF ReplyInv, EndInv, Over, Gone, NoMoreFin, WithEnd
    <2> QED
      BY <2>2, <2>3, <2>4, <2>5, <2>6, WiresRead
  <1>12. CASE Alive /\ serverReads
    <2> DEFINE Same == UNCHANGED <<mode, big, client, clientDone, echo, handler, loops, buffer,
                                   down, timedOut, lost>>
    <2>1. Same /\ up' = Tail(up) /\ up # <<>> /\ ~serverDone /\ ~lost
      BY <1>12 DEF serverReads, serverFrame, clientVars, RequestInv
    <2>2. \/ up = D /\ up' = <<>>
          \/ up = DF /\ up' = F
          \/ up = DE /\ up' = E
          \/ up = DFE /\ up' = FE
          \/ up = F /\ up' = <<>>
          \/ up = FE /\ up' = E
          \/ up = E /\ up' = <<>>
          \/ up = G /\ up' = <<>>
          \/ up = GE /\ up' = E
      BY <2>1, WiresRead DEF RequestInv
    <2>3. CASE Head(up) = "data"
      <3>1. /\ serverQueue' = TRUE /\ request' = [request EXCEPT !.data = ~big]
            /\ serverDone' = big
        BY <1>12, <2>3, ServerReadsCases
      <3>2. \/ up = D /\ up' = <<>>
            \/ up = DF /\ up' = F
            \/ up = DE /\ up' = E
            \/ up = DFE /\ up' = FE
        BY <2>2, <2>3, WiresRead
      <3>3. /\ request'.fin = request.fin /\ (~big => request'.data)
            /\ request'.fin \in BOOLEAN
        BY <3>1 DEF TypeOK
      <3>4. mode # "datagram" /\ echo = "none" /\ ~request.fin
        BY <3>2, WiresDiffer DEF RequestInv, WithData
      <3> QED
        BY <2>1, <3>1, <3>2, <3>3, <3>4, WiresDiffer
           DEF TypeOK, RequestInv, EndInv, Over, Gone, NoMoreFin, WithData, WithFin, WithEnd
    <2>4. CASE Head(up) = "fin"
      <3>1. /\ request' = [request EXCEPT !.fin = TRUE]
            /\ UNCHANGED <<serverQueue, serverDone>>
        BY <1>12, <2>4, ServerReadsCases
      <3>2. (up = F /\ up' = <<>>) \/ (up = FE /\ up' = E)
        BY <2>2, <2>4, WiresRead
      <3>3. request'.data = request.data /\ request'.fin
        BY <3>1 DEF TypeOK
      <3> QED
        BY <2>1, <3>1, <3>2, <3>3, WiresDiffer
           DEF TypeOK, RequestInv, EndInv, Over, Gone, NoMoreFin, WithData, WithFin, WithEnd
    <2>5. CASE Head(up) = "datagram"
      <3>1. serverQueue' = ~big /\ UNCHANGED <<request, serverDone>>
        BY <1>12, <2>5, ServerReadsCases
      <3>2. (up = G /\ up' = <<>>) \/ (up = GE /\ up' = E)
        BY <2>2, <2>5, WiresRead
      <3> QED
        BY <2>1, <3>1, <3>2, WiresDiffer DEF TypeOK, RequestInv, EndInv, Over, Gone, NoMoreFin, WithData, WithFin, WithEnd
    <2>6. CASE Head(up) = "end"
      <3>1. serverDone' = TRUE /\ UNCHANGED <<request, serverQueue>>
        BY <1>12, <2>6, ServerReadsCases
      <3>2. up = E /\ up' = <<>>
        BY <2>2, <2>6, WiresRead
      <3> QED
        BY <2>1, <3>1, <3>2, WiresDiffer DEF TypeOK, RequestInv, EndInv, Over, Gone, NoMoreFin, WithData, WithFin, WithEnd
    <2> QED
      BY <1>12, <2>3, <2>4, <2>5, <2>6, ServerReadsCases
  <1>13. CASE Alive /\ loopTakes
    BY <1>13, WiresDiffer DEF loopTakes, serverFrame, clientVars, serverVars,
       wires, trouble, TypeOK, RequestInv, ReplyInv, ReaderInv, EndInv, Over,
       Gone, NoMoreFin, WithData, WithFin, WithEnd
  <1>14. CASE Alive /\ readRequest
    BY <1>14, WiresDiffer DEF readRequest, Step, serverFrame, clientVars,
       serverVars, wires, trouble, TypeOK, RequestInv, ReplyInv, ReaderInv,
       EndInv, Over, Gone, NoMoreFin, WithData, WithFin, WithEnd
  <1>15. CASE Alive /\ openReply
    BY <1>15, WiresDiffer DEF openReply, Step, serverFrame, clientVars,
       serverVars, wires, trouble, TypeOK, RequestInv, ReplyInv, ReaderInv,
       EndInv, Over, Gone, NoMoreFin, WithData, WithFin, WithEnd
  <1>16. CASE Alive /\ echoRefused
    BY <1>16, WiresDiffer DEF echoRefused, serverFrame, clientVars,
       serverVars, wires, trouble, TypeOK, RequestInv, ReplyInv, ReaderInv,
       EndInv, Over, Gone, NoMoreFin, WithData, WithFin, WithEnd
  <1>17. CASE Alive /\ writeReply
    BY <1>17, WiresDiffer, WriteReplyCases DEF writeReply, Step, serverFrame,
       clientVars, serverVars, wires, trouble, TypeOK, RequestInv, ReplyInv,
       ReaderInv, EndInv, Over, Gone, NoMoreFin, WithData, WithFin, WithEnd
  <1>18. CASE Alive /\ closeReply
    BY <1>18, WiresDiffer, CloseReplyCases DEF closeReply, Step, serverFrame,
       clientVars, serverVars, wires, trouble, TypeOK, RequestInv, ReplyInv,
       ReaderInv, EndInv, Over, Gone, NoMoreFin, WithData, WithFin, WithEnd
  <1>19. CASE Alive /\ flush
    BY <1>19, WiresDiffer, FlushCases DEF flush, Step, serverFrame,
       clientVars, serverVars, wires, trouble, TypeOK, RequestInv, ReplyInv,
       ReaderInv, EndInv, Over, Gone, NoMoreFin, WithData, WithFin, WithEnd
  <1>20. CASE Alive /\ handlerStops
    BY <1>20, WiresDiffer DEF handlerStops, ended, serverFrame, clientVars,
       serverVars, wires, trouble, TypeOK, RequestInv, ReplyInv, ReaderInv,
       EndInv, Over, Gone, NoMoreFin, WithData, WithFin, WithEnd
  <1>21. CASE Alive /\ handlerReturns
    BY <1>21, WiresDiffer, ReturnCases DEF handlerReturns, waited,
       serverFrame, clientVars, serverVars, wires, trouble, TypeOK,
       RequestInv, ReplyInv, ReaderInv, EndInv, Over, Gone, NoMoreFin,
       WithData, WithFin, WithEnd
  <1>22. CASE Alive /\ \E l \in Loops : loopReturns(l)
    BY <1>22, WiresDiffer DEF loopReturns, ended, serverFrame, clientVars,
       serverVars, wires, trouble, TypeOK, RequestInv, ReplyInv, ReaderInv,
       EndInv, Over, Gone, NoMoreFin, WithData, WithFin, WithEnd
  <1>23. CASE deadline
    BY <1>23, WiresDiffer DEF deadline, clientVars, serverVars, wires,
       trouble, TypeOK, RequestInv, ReplyInv, ReaderInv, EndInv, Over, Gone,
       NoMoreFin, WithData, WithFin, WithEnd
  <1>24. CASE connectionLost
    BY <1>24, WiresDiffer DEF connectionLost, clientVars, serverVars, wires,
       trouble, TypeOK, RequestInv, ReplyInv, ReaderInv, EndInv, Over, Gone,
       NoMoreFin, WithData, WithFin, WithEnd
  <1>25. CASE lossSeen
    BY <1>25, WiresDiffer DEF lossSeen, clientVars, serverVars, wires,
       trouble, TypeOK, RequestInv, ReplyInv, ReaderInv, EndInv, Over, Gone,
       NoMoreFin, WithData, WithFin, WithEnd
  <1>26. CASE UNCHANGED vars
    BY <1>26 DEF vars, clientVars, serverVars, wires, trouble, TypeOK, RequestInv, ReplyInv, ReaderInv, EndInv, Over, Gone, NoMoreFin, WithData, WithFin, WithEnd
  <1> QED
    BY NextCases, <1>1, <1>2, <1>3, <1>4, <1>5, <1>6, <1>7, <1>8, <1>9, <1>10,
       <1>11, <1>12, <1>13, <1>14, <1>15, <1>16, <1>17, <1>18, <1>19, <1>20,
       <1>21, <1>22, <1>23, <1>24, <1>25, <1>26

-----------------------------------------------------------------------------
(* The results.                                                            *)

LEMMA InitEcho == Init => EchoInv
  <1> SUFFICES ASSUME Init PROVE EchoInv
    OBVIOUS
  <1>1. TypeOK
    BY WiresTyped DEF Init, TypeOK, Wires, Loops
  <1>2. RequestInv /\ ReplyInv
    BY WiresDiffer DEF Init, RequestInv, ReplyInv, Gone, WithData, WithFin, WithEnd
  <1>3. ReaderInv
    BY WiresDiffer DEF Init, ReaderInv, Over
  <1>4. EndInv
    BY WiresDiffer DEF Init, EndInv, Over, Gone, Loops
  <1> QED
    BY <1>1, <1>2, <1>3, <1>4 DEF EchoInv

LEMMA EchoInvariant == Spec => []EchoInv
  <1>1. EchoInv /\ [Next]_vars => EchoInv'
    BY TypeKept, RequestKept, ReplyKept, ReaderKept, EndKept DEF EchoInv
  <1> QED
    BY InitEcho, <1>1, PTL DEF Spec

(* The types of both sides, the loops, the response's buffer and the wires *)
(* (echo.go, handler.go of internal/echo).                                 *)
THEOREM TypeCorrect == Spec => []TypeOK
  <1>1. EchoInv => TypeOK
    BY DEF EchoInv
  <1> QED
    BY EchoInvariant, <1>1, PTL

(* RunClient never takes an incomplete echo for the answer: data is before *)
(* FIN on both wires, the server writes its reply only when the request    *)
(* has ended, and a half closed by the client's own deadline is not        *)
(* compared (exchangeBidi, exchangeUni, exchangeDatagram, echoBidi,        *)
(* echoUni, echoDatagramLoop).                                             *)
THEOREM NeverMismatch == Spec => []NoMismatch
  <1>1. EchoInv => NoMismatch
    BY DEF EchoInv, ReaderInv, NoMismatch
  <1> QED
    BY EchoInvariant, <1>1, PTL

(* An echoing goroutine that nobody waits for writes after the handler has *)
(* returned only when the client gave up at its deadline or the connection *)
(* was lost: otherwise the end of the session finds it at its end, or in a *)
(* read whose FIN will never come (echoBidiLoop, echoUniLoop, Handler).    *)
THEOREM PanicExplained == Spec => []PanicNeedsGiveUp
  <1>1. EchoInv => PanicNeedsGiveUp
    BY DEF EchoInv, EndInv, PanicNeedsGiveUp
  <1> QED
    BY EchoInvariant, <1>1, PTL

=============================================================================
