------------------------- MODULE ReceiveStream_proofs -------------------------
(***************************************************************************)
(* Proofs about ReceiveStream, for any set of readers, any lengths of      *)
(* their slices, any buffer size and any payloads.                         *)
(***************************************************************************)
EXTENDS ReceiveStream, SequenceTheorems, TLAPS

(* The first n of a sequence of bytes, and the rest.                       *)
LEMMA Split ==
    ASSUME NEW S, NEW s \in Seq(S), NEW n \in 0 .. Len(s)
    PROVE  /\ SubSeq(s, 1, n) \in Seq(S) /\ Len(SubSeq(s, 1, n)) = n
           /\ \A i \in 1 .. n : SubSeq(s, 1, n)[i] = s[i]
           /\ SubSeq(s, n + 1, Len(s)) \in Seq(S)
           /\ Len(SubSeq(s, n + 1, Len(s))) = Len(s) - n
           /\ \A i \in 1 .. Len(s) - n : SubSeq(s, n + 1, Len(s))[i] = s[n + i]
<1>1. Len(s) \in Nat /\ \A i \in 1 .. Len(s) : s[i] \in S
  BY LenProperties, ElementOfSeq
<1>2. n \in Int /\ 1 \in Int /\ n + 1 \in Int /\ Len(s) \in Int
  BY <1>1
<1>3. (\A i \in 1 .. n : s[i] \in S) /\ (\A i \in n + 1 .. Len(s) : s[i] \in S)
  BY <1>1
<1>4. /\ SubSeq(s, 1, n) \in Seq(S) /\ Len(SubSeq(s, 1, n)) = n
      /\ \A i \in 1 .. n : SubSeq(s, 1, n)[i] = s[i]
  BY <1>1, <1>2, <1>3, SubSeqProperties
<1>5. /\ SubSeq(s, n + 1, Len(s)) \in Seq(S)
      /\ Len(SubSeq(s, n + 1, Len(s))) = Len(s) - n
      /\ \A i \in 1 .. Len(s) - n : SubSeq(s, n + 1, Len(s))[i] = s[n + i]
  BY <1>1, <1>2, <1>3, SubSeqProperties
<1> QED
  BY <1>4, <1>5

-----------------------------------------------------------------------------
(* Type correctness.                                                       *)

Bytes == 1 .. MaxSent

(* The types of the stream's data, and of the control states around it.    *)
DataTypes ==
    /\ data \in Seq(Bytes) /\ got \in Seq(Bytes) /\ payload \in Seq(Bytes)
    /\ maxBytes > 0 => Len(data) <= maxBytes
    /\ sent \in 0 .. MaxSent

ControlTypes ==
    /\ closed \in BOOLEAN /\ bufClosed \in BOOLEAN
    /\ fin \in BOOLEAN /\ finSent \in BOOLEAN
    /\ waiting = {r \in Readers : pc[r] = "wait"}
    /\ loop \in {"parse", "look", "write", "finish", "closedPipe", "full"}
    /\ closer \in {"open", "closing", "closed"}
    /\ pc \in [Readers -> {"idle", "read", "wait"}]
    /\ eof \subseteq Readers /\ overlap \in BOOLEAN

(* Together they are TypeOK.                                               *)
LEMMA TypeParts == TypeOK <=> DataTypes /\ ControlTypes
  BY DEF TypeOK, DataTypes, ControlTypes, Bytes

(* The disjuncts of Next, as one fact to split on.                         *)
LEMMA NextCases ==
    ASSUME [Next]_vars
    PROVE  \/ \E n \in 0 .. MaxPayload, isFin \in BOOLEAN : parseCapsule(n, isFin)
           \/ receiveStreamData \/ writeBuffer \/ finishReceive
           \/ Close \/ CloseBuffer
           \/ \E r \in Readers : Read(r)
           \/ \E r \in Readers, size \in ReadSizes : readBuffer(r, size)
           \/ UNCHANGED vars
  BY DEF Next, ReadLoop, Reader

(* The payload of a new capsule continues what was sent.                   *)
LEMMA NewPayload ==
    ASSUME DataTypes, NEW n \in 0 .. MaxPayload, NEW isFin, parseCapsule(n, isFin)
    PROVE  /\ payload' \in Seq(Bytes) /\ Len(payload') = n
           /\ \A i \in 1 .. n : payload'[i] = sent + i
           /\ sent' = sent + n /\ sent' \in 0 .. MaxSent
<1>1. n \in Nat /\ sent \in Nat /\ sent + n <= MaxSent /\ MaxSent \in Nat
  BY ReceiveAssumption DEF parseCapsule, DataTypes
<1>2. payload' = [i \in 1 .. n |-> sent + i] /\ sent' = sent + n
  BY DEF parseCapsule
<1>3. \A i \in 1 .. n : sent + i \in Bytes
  BY <1>1 DEF Bytes
<1>4. payload' \in Seq(Bytes) /\ Len(payload') = n
  BY <1>1, <1>2, <1>3
<1>5. \A i \in 1 .. n : payload'[i] = sent + i
  BY <1>2
<1>6. sent' \in 0 .. MaxSent
  BY <1>1, <1>2
<1> QED
  BY <1>2, <1>4, <1>5, <1>6

(* What a reader takes off the buffer, and what it leaves.                 *)
LEMMA ReadTakes ==
    ASSUME DataTypes, NEW r \in Readers, NEW size \in ReadSizes,
           readBuffer(r, size), data # <<>>
    PROVE  \E n \in 0 .. Len(data) :
              /\ data' = SubSeq(data, n + 1, Len(data))
              /\ got' = got \o SubSeq(data, 1, n)
              /\ UNCHANGED eof
<1> DEFINE n == Min(size, Len(data))
<1>1. size \in Nat /\ Len(data) \in Nat
  BY ReceiveAssumption, LenProperties DEF DataTypes
<1>2. n \in 0 .. Len(data)
  BY <1>1 DEF Min
<1> HIDE DEF n
<1>3. /\ data' = SubSeq(data, n + 1, Len(data))
      /\ got' = got \o SubSeq(data, 1, n)
      /\ UNCHANGED eof
  BY DEF readBuffer, atEOF, n
<1> QED BY <1>2, <1>3

(* Every step keeps the types of the data.                                 *)
LEMMA DataTypesStep == DataTypes /\ ControlTypes /\ [Next]_vars => DataTypes'
<1> SUFFICES ASSUME DataTypes, ControlTypes, [Next]_vars PROVE DataTypes'
  OBVIOUS
<1>0. /\ data \in Seq(Bytes) /\ got \in Seq(Bytes) /\ payload \in Seq(Bytes)
      /\ maxBytes \in Int /\ Len(data) \in Nat /\ Len(payload) \in Nat
  BY ReceiveAssumption, LenProperties DEF DataTypes
<1>1. ASSUME UNCHANGED <<data, got, payload, sent>> PROVE DataTypes'
  BY <1>1 DEF DataTypes
<1>2. ASSUME NEW n \in 0 .. MaxPayload, NEW isFin \in BOOLEAN, parseCapsule(n, isFin)
      PROVE  DataTypes'
  <2>1. UNCHANGED <<data, got>>
    BY <1>2 DEF parseCapsule
  <2> QED BY <1>2, <2>1, NewPayload DEF DataTypes
<1>3. CASE writeBuffer
  <2>1. CASE ~bufClosed /\ ~bufferFull /\ store
    <3>1. /\ data' = data \o payload /\ UNCHANGED <<got, payload, sent>>
      BY <1>3, <2>1 DEF writeBuffer, store
    <3>2. data' \in Seq(Bytes) /\ Len(data') = Len(data) + Len(payload)
      BY <1>0, <3>1, ConcatProperties
    <3>3. maxBytes > 0 => Len(data') <= maxBytes
      BY <1>0, <2>1, <3>2 DEF bufferFull
    <3> QED BY <3>1, <3>2, <3>3 DEF DataTypes
  <2>2. CASE UNCHANGED data
    BY <1>1, <1>3, <2>2 DEF writeBuffer
  <2> QED BY <1>3, <2>1, <2>2 DEF writeBuffer
<1>4. ASSUME NEW r \in Readers, NEW size \in ReadSizes, readBuffer(r, size)
      PROVE  DataTypes'
  <2>0. UNCHANGED <<payload, sent>>
    BY <1>4 DEF readBuffer, loopVars
  <2>1. CASE data = <<>>
    BY <1>1, <1>4, <2>0, <2>1 DEF readBuffer
  <2>2. CASE data # <<>>
    <3>1. PICK n \in 0 .. Len(data) : /\ data' = SubSeq(data, n + 1, Len(data))
                                      /\ got' = got \o SubSeq(data, 1, n)
      BY <1>4, <2>2, ReadTakes
    <3>2. data' \in Seq(Bytes) /\ Len(data') <= Len(data)
      BY <1>0, <3>1, Split
    <3>3. SubSeq(data, 1, n) \in Seq(Bytes)
      BY <1>0, Split
    <3>4. got' \in Seq(Bytes)
      BY <1>0, <3>1, <3>3, ConcatProperties
    <3>5. Len(data') \in Nat
      BY <3>2, LenProperties
    <3>6. maxBytes > 0 => Len(data') <= maxBytes
      BY <1>0, <3>2, <3>5 DEF DataTypes
    <3> QED BY <2>0, <3>2, <3>4, <3>6 DEF DataTypes
  <2> QED BY <2>1, <2>2
<1>5. CASE \/ receiveStreamData \/ finishReceive \/ Close \/ CloseBuffer
           \/ (\E r \in Readers : Read(r)) \/ UNCHANGED vars
  BY <1>1, <1>5 DEF receiveStreamData, finishReceive, Close, CloseBuffer, Read,
                    loopVars, vars
<1> QED
  BY NextCases, <1>2, <1>3, <1>4, <1>5

(* Waking readers keeps waiting the set of those in Wait.                  *)
LEMMA Woken ==
    ASSUME ControlTypes, signal \/ broadcast \/ UNCHANGED <<waiting, pc>>
    PROVE  /\ pc' \in [Readers -> {"idle", "read", "wait"}]
           /\ waiting' = {r \in Readers : pc'[r] = "wait"}
<1>1. /\ pc \in [Readers -> {"idle", "read", "wait"}]
      /\ waiting = {r \in Readers : pc[r] = "wait"}
  BY DEF ControlTypes
<1>2. CASE broadcast
  BY <1>1, <1>2 DEF broadcast
<1>3. CASE UNCHANGED <<waiting, pc>>
  BY <1>1, <1>3
<1>4. ASSUME NEW r \in waiting, waiting' = waiting \ {r}, pc' = [pc EXCEPT ![r] = "read"]
      PROVE  /\ pc' \in [Readers -> {"idle", "read", "wait"}]
             /\ waiting' = {s \in Readers : pc'[s] = "wait"}
  BY <1>1, <1>4
<1> QED
  BY <1>2, <1>3, <1>4 DEF signal

(* Every step keeps the control states.                                    *)
LEMMA ControlTypesStep == ControlTypes /\ [Next]_vars => ControlTypes'
<1> SUFFICES ASSUME ControlTypes, [Next]_vars PROVE ControlTypes'
  OBVIOUS
<1> USE DEF loopVars
<1>1. ASSUME NEW n \in 0 .. MaxPayload, NEW isFin \in BOOLEAN, parseCapsule(n, isFin)
      PROVE  ControlTypes'
  BY <1>1, Zenon DEF parseCapsule, ControlTypes
<1>2. CASE receiveStreamData
  BY <1>2 DEF receiveStreamData, ControlTypes
<1>3. CASE writeBuffer
  <2>1. signal \/ UNCHANGED <<waiting, pc>>
    BY <1>3 DEF writeBuffer, store
  <2>2. /\ loop' \in {"parse", "look", "write", "finish", "closedPipe", "full"}
        /\ UNCHANGED <<closed, bufClosed, fin, finSent, closer, eof, overlap>>
    BY <1>3 DEF writeBuffer, ControlTypes
  <2> QED BY <2>1, <2>2, Woken DEF ControlTypes
<1>4. CASE finishReceive \/ CloseBuffer
  <2>1. /\ broadcast \/ UNCHANGED <<waiting, pc>>
        /\ bufClosed' \in BOOLEAN
    BY <1>4 DEF finishReceive, CloseBuffer, closeBuffer, ControlTypes
  <2>2. /\ loop' \in {"parse", "look", "write", "finish", "closedPipe", "full"}
        /\ closer' \in {"open", "closing", "closed"}
        /\ UNCHANGED <<closed, fin, finSent, eof, overlap>>
    BY <1>4 DEF finishReceive, CloseBuffer, ControlTypes
  <2> QED BY <2>1, <2>2, Woken DEF ControlTypes
<1>5. CASE Close
  BY <1>5 DEF Close, ControlTypes
<1>6. ASSUME NEW r \in Readers, Read(r) PROVE ControlTypes'
  <2>1. /\ pc[r] = "idle" /\ pc' = [pc EXCEPT ![r] = "read"] /\ waiting' = waiting
        /\ overlap' \in BOOLEAN
        /\ UNCHANGED <<closed, bufClosed, fin, finSent, loop, closer, eof>>
    BY <1>6 DEF Read
  <2>2. /\ pc' \in [Readers -> {"idle", "read", "wait"}]
        /\ waiting' = {s \in Readers : pc'[s] = "wait"}
    BY <2>1 DEF ControlTypes
  <2> QED BY <2>1, <2>2 DEF ControlTypes
<1>7. ASSUME NEW r \in Readers, NEW size \in ReadSizes, readBuffer(r, size)
      PROVE  ControlTypes'
  <2>1. /\ pc[r] = "read"
        /\ \/ pc' = [pc EXCEPT ![r] = "wait"] /\ waiting' = waiting \cup {r}
           \/ pc' = [pc EXCEPT ![r] = "idle"] /\ waiting' = waiting
        /\ eof' \subseteq eof \cup {r}
        /\ UNCHANGED <<closed, bufClosed, fin, finSent, loop, closer, overlap>>
    BY <1>7 DEF readBuffer
  <2>2. /\ pc' \in [Readers -> {"idle", "read", "wait"}]
        /\ waiting' = {s \in Readers : pc'[s] = "wait"}
    BY <2>1 DEF ControlTypes
  <2> QED BY <2>1, <2>2 DEF ControlTypes
<1>8. CASE UNCHANGED vars
  BY <1>8 DEF vars, ControlTypes
<1> QED
  BY NextCases, <1>1, <1>2, <1>3, <1>4, <1>5, <1>6, <1>7, <1>8

(* Every variable stays in its type, the buffer stays within maxBytes, and *)
(* waiting is the set of the readers in Wait.                              *)
THEOREM TypeCorrect == Spec => []TypeOK
<1>1. Init => TypeOK
  <2> SUFFICES ASSUME Init PROVE TypeOK
    OBVIOUS
  <2>1. <<>> \in Seq(Bytes) /\ Len(<<>>) = 0
    OBVIOUS
  <2>2. DataTypes
    BY <2>1, ReceiveAssumption DEF Init, DataTypes
  <2>3. ControlTypes
    BY DEF Init, ControlTypes
  <2> QED BY <2>2, <2>3, TypeParts
<1>2. TypeOK /\ [Next]_vars => TypeOK'
  <2>1. TypeOK' <=> DataTypes' /\ ControlTypes'
    BY DEF TypeOK, DataTypes, ControlTypes, Bytes
  <2> QED BY <2>1, TypeParts, DataTypesStep, ControlTypesStep
<1> QED
  BY <1>1, <1>2, PTL DEF Spec

-----------------------------------------------------------------------------
(* What was read is what was sent.                                         *)

(* The bytes read and those buffered are the first of the stream.          *)
InOrder ==
    /\ \A i \in 1 .. Len(got) : got[i] = i
    /\ \A i \in 1 .. Len(data) : data[i] = Len(got) + i

(* Until the application closes the half, and for a payload that passed    *)
(* the look at closed also after, nothing is missing between what is       *)
(* stored and what the peer sent but the payload under way.                *)
NothingMissing ==
    ~closed \/ loop = "write" =>
        /\ loop \in {"look", "write"} =>
              /\ sent = Len(got) + Len(data) + Len(payload)
              /\ \A i \in 1 .. Len(payload) : payload[i] = Len(got) + Len(data) + i
        /\ loop \in {"parse", "finish"} => sent = Len(got) + Len(data)

(* The buffer of a half that is not closed is closed by the FIN, after     *)
(* which the loop has nothing left for it.                                 *)
ClosedByFin ==
    /\ finSent = fin
    /\ loop = "finish" => fin
    /\ closer # "open" => closed
    /\ bufClosed /\ ~closed => finSent /\ loop = "parse"

(* EOF is final.                                                           *)
EofFinal == eof # {} => data = <<>> /\ bufClosed

StreamInv == TypeOK /\ InOrder /\ NothingMissing /\ ClosedByFin /\ EofFinal

(* Every step keeps the invariant: the capsule's payload is appended where *)
(* it belongs, and a reader moves bytes across the border of got and data. *)
LEMMA StreamInvStep == StreamInv /\ [Next]_vars => StreamInv'
<1> SUFFICES ASSUME StreamInv, [Next]_vars PROVE StreamInv'
  OBVIOUS
<1> USE DEF loopVars
<1>0. /\ TypeOK /\ InOrder /\ NothingMissing /\ ClosedByFin /\ EofFinal
      /\ DataTypes /\ ControlTypes
  BY TypeParts DEF StreamInv
<1>1. TypeOK'
  <2>1. TypeOK' <=> DataTypes' /\ ControlTypes'
    BY DEF TypeOK, DataTypes, ControlTypes, Bytes
  <2> QED BY <1>0, <2>1, DataTypesStep, ControlTypesStep
<1>2. /\ data \in Seq(Bytes) /\ got \in Seq(Bytes) /\ payload \in Seq(Bytes)
      /\ Len(data) \in Nat /\ Len(got) \in Nat /\ Len(payload) \in Nat /\ sent \in Nat
  BY <1>0, LenProperties DEF DataTypes
<1>3. ASSUME NEW n \in 0 .. MaxPayload, NEW isFin \in BOOLEAN, parseCapsule(n, isFin)
      PROVE  StreamInv'
  <2>1. /\ loop = "parse" /\ loop' = "look" /\ ~finSent
        /\ fin' = isFin /\ finSent' = isFin
        /\ UNCHANGED <<closed, data, bufClosed, closer, got, eof>>
    BY <1>3 DEF parseCapsule
  <2>2. /\ Len(payload') = n /\ sent' = sent + n
        /\ \A i \in 1 .. n : payload'[i] = sent + i
    BY <1>0, <1>3, NewPayload
  <2>3. InOrder' /\ EofFinal'
    BY <1>0, <2>1 DEF InOrder, EofFinal
  <2>4. NothingMissing'
    BY <1>0, <1>2, <2>1, <2>2 DEF NothingMissing
  <2>5. ClosedByFin'
    BY <1>0, <2>1 DEF ClosedByFin
  <2> QED BY <1>1, <2>3, <2>4, <2>5 DEF StreamInv
<1>4. CASE receiveStreamData
  <2>1. /\ loop = "look"
        /\ loop' = IF ~closed THEN "write" ELSE IF fin THEN "finish" ELSE "parse"
        /\ UNCHANGED <<payload, fin, sent, finSent, closed, data, bufClosed, closer, got, eof>>
    BY <1>4 DEF receiveStreamData
  <2>2. InOrder' /\ EofFinal'
    BY <1>0, <2>1 DEF InOrder, EofFinal
  <2>3. NothingMissing'
    BY <1>0, <2>1 DEF NothingMissing
  <2>4. ClosedByFin'
    BY <1>0, <2>1 DEF ClosedByFin
  <2> QED BY <1>1, <2>2, <2>3, <2>4 DEF StreamInv
<1>5. CASE writeBuffer
  <2>0. /\ loop = "write"
        /\ UNCHANGED <<payload, fin, sent, finSent, closed, bufClosed, closer, got, eof>>
    BY <1>5 DEF writeBuffer
  <2>1. CASE ~bufClosed /\ store /\ loop' = IF fin THEN "finish" ELSE "parse"
    <3>1. data' = data \o payload
      BY <2>1 DEF store
    <3>2. /\ Len(data') = Len(data) + Len(payload)
          /\ \A i \in 1 .. Len(data) + Len(payload) :
                data'[i] = IF i <= Len(data) THEN data[i] ELSE payload[i - Len(data)]
      BY <1>2, <3>1, ConcatProperties
    <3>3. /\ sent = Len(got) + Len(data) + Len(payload)
          /\ \A i \in 1 .. Len(payload) : payload[i] = Len(got) + Len(data) + i
      BY <1>0, <2>0 DEF NothingMissing
    <3>4. ASSUME NEW i \in 1 .. Len(data') PROVE data'[i] = Len(got) + i
      <4>1. i \in 1 .. Len(data) + Len(payload)
        BY <3>2
      <4>2. CASE i <= Len(data)
        BY <1>0, <1>2, <3>2, <4>1, <4>2 DEF InOrder
      <4>3. CASE i > Len(data)
        <5>1. i - Len(data) \in 1 .. Len(payload) /\ i \in Int
          BY <1>2, <4>1, <4>3
        <5>2. data'[i] = payload[i - Len(data)]
          BY <1>2, <3>2, <4>1, <4>3
        <5>3. data'[i] = Len(got) + Len(data) + (i - Len(data))
          BY <3>3, <5>1, <5>2
        <5> QED BY <1>2, <5>1, <5>3
      <4> QED BY <1>2, <4>1, <4>2, <4>3
    <3>5. InOrder'
      BY <1>0, <2>0, <3>4 DEF InOrder
    <3>6. NothingMissing'
      BY <1>2, <2>0, <2>1, <3>2, <3>3 DEF NothingMissing
    <3>7. ClosedByFin' /\ EofFinal'
      BY <1>0, <2>0, <2>1 DEF ClosedByFin, EofFinal
    <3> QED BY <1>1, <3>5, <3>6, <3>7 DEF StreamInv
  <2>2. CASE loop' \in {"closedPipe", "full"} /\ UNCHANGED data
    BY <1>0, <1>1, <2>0, <2>2
       DEF StreamInv, InOrder, NothingMissing, ClosedByFin, EofFinal
  <2> QED BY <1>5, <2>1, <2>2 DEF writeBuffer
<1>6. CASE finishReceive
  <2>1. /\ loop = "finish" /\ loop' = "parse" /\ bufClosed'
        /\ UNCHANGED <<payload, fin, sent, finSent, closed, data, closer, got, eof>>
    BY <1>6 DEF finishReceive, closeBuffer
  <2>2. InOrder' /\ EofFinal' /\ NothingMissing' /\ ClosedByFin'
    BY <1>0, <2>1 DEF InOrder, EofFinal, NothingMissing, ClosedByFin
  <2> QED BY <1>1, <2>2 DEF StreamInv
<1>7. CASE Close
  <2>1. /\ closer' = "closing" /\ closed'
        /\ UNCHANGED <<loop, payload, fin, sent, finSent, data, bufClosed, got, eof>>
    BY <1>7 DEF Close
  <2>2. InOrder' /\ EofFinal' /\ NothingMissing' /\ ClosedByFin'
    BY <1>0, <2>1 DEF InOrder, EofFinal, NothingMissing, ClosedByFin
  <2> QED BY <1>1, <2>2 DEF StreamInv
<1>8. CASE CloseBuffer
  <2>1. /\ closer = "closing" /\ closer' = "closed" /\ bufClosed'
        /\ UNCHANGED <<loop, payload, fin, sent, finSent, closed, data, got, eof>>
    BY <1>8 DEF CloseBuffer, closeBuffer
  <2>2. InOrder' /\ EofFinal' /\ NothingMissing' /\ ClosedByFin'
    BY <1>0, <2>1 DEF InOrder, EofFinal, NothingMissing, ClosedByFin
  <2> QED BY <1>1, <2>2 DEF StreamInv
<1>9. ASSUME NEW r \in Readers, NEW size \in ReadSizes, readBuffer(r, size)
      PROVE  StreamInv'
  <2>0. UNCHANGED <<loop, payload, fin, sent, finSent, closed, bufClosed, closer>>
    BY <1>9 DEF readBuffer
  <2>1. CASE data = <<>>
    <3>1. UNCHANGED <<data, got>> /\ (eof' = eof \/ bufClosed)
      BY <1>9, <2>1 DEF readBuffer, atEOF
    <3>2. InOrder' /\ EofFinal' /\ NothingMissing' /\ ClosedByFin'
      BY <1>0, <2>0, <2>1, <3>1 DEF InOrder, EofFinal, NothingMissing, ClosedByFin
    <3> QED BY <1>1, <3>2 DEF StreamInv
  <2>2. CASE data # <<>>
    <3>1. PICK n \in 0 .. Len(data) : /\ data' = SubSeq(data, n + 1, Len(data))
                                      /\ got' = got \o SubSeq(data, 1, n)
                                      /\ UNCHANGED eof
      BY <1>0, <1>9, <2>2, ReadTakes
    <3> DEFINE read == SubSeq(data, 1, n)
    <3>2. /\ read \in Seq(Bytes) /\ Len(read) = n
          /\ \A i \in 1 .. n : read[i] = data[i]
          /\ Len(data') = Len(data) - n
          /\ \A i \in 1 .. Len(data) - n : data'[i] = data[n + i]
      BY <1>2, <3>1, Split
    <3> HIDE DEF read
    <3>3. /\ Len(got') = Len(got) + n
          /\ \A i \in 1 .. Len(got) + n :
                got'[i] = IF i <= Len(got) THEN got[i] ELSE read[i - Len(got)]
      BY <1>2, <3>1, <3>2, ConcatProperties DEF read
    <3>4. ASSUME NEW i \in 1 .. Len(got') PROVE got'[i] = i
      <4>1. CASE i <= Len(got)
        BY <1>0, <1>2, <3>3, <4>1 DEF InOrder
      <4>2. CASE i > Len(got)
        <5>1. i - Len(got) \in 1 .. n /\ i - Len(got) \in 1 .. Len(data) /\ i \in Int
          BY <1>2, <3>3, <4>2
        <5>2. got'[i] = data[i - Len(got)]
          BY <1>2, <3>2, <3>3, <4>2, <5>1
        <5>3. got'[i] = Len(got) + (i - Len(got))
          BY <1>0, <5>1, <5>2 DEF InOrder
        <5> QED BY <1>2, <5>1, <5>3
      <4> QED BY <1>2, <4>1, <4>2
    <3>5. ASSUME NEW i \in 1 .. Len(data') PROVE data'[i] = Len(got') + i
      <4>1. n + i \in 1 .. Len(data) /\ i \in 1 .. Len(data) - n
        BY <1>2, <3>2
      <4>2. data'[i] = Len(got) + (n + i)
        BY <1>0, <3>2, <4>1 DEF InOrder
      <4> QED BY <1>2, <3>3, <4>2
    <3>6. InOrder'
      BY <3>4, <3>5 DEF InOrder
    <3>7. Len(got') + Len(data') = Len(got) + Len(data)
      BY <1>2, <3>2, <3>3
    <3>8. NothingMissing'
      BY <1>0, <2>0, <3>7 DEF NothingMissing
    <3>9. ClosedByFin' /\ EofFinal'
      BY <1>0, <2>0, <2>2, <3>1 DEF ClosedByFin, EofFinal
    <3> QED BY <1>1, <3>6, <3>8, <3>9 DEF StreamInv
  <2> QED BY <2>1, <2>2
<1>10. ASSUME UNCHANGED <<loop, payload, fin, sent, finSent, closed, data, bufClosed,
                          closer, got, eof>>
       PROVE  StreamInv'
  BY <1>0, <1>1, <1>10 DEF StreamInv, InOrder, NothingMissing, ClosedByFin, EofFinal
<1>11. CASE (\E r \in Readers : Read(r)) \/ UNCHANGED vars
  BY <1>10, <1>11 DEF Read, vars
<1> QED
  BY NextCases, <1>3, <1>4, <1>5, <1>6, <1>7, <1>8, <1>9, <1>11

(* Readers get the peer's bytes in order and without a gap, and EOF only   *)
(* behind the last of them unless the application closed the half itself   *)
(* (receiveStreamData, write, read and close, stream.go).                  *)
THEOREM ReadsExact == Spec => []ReadsWhatWasSent
<1>1. Init => StreamInv
  <2> SUFFICES ASSUME Init PROVE StreamInv
    OBVIOUS
  <2>1. <<>> \in Seq(Bytes) /\ Len(<<>>) = 0
    OBVIOUS
  <2>2. DataTypes
    BY <2>1, ReceiveAssumption DEF Init, DataTypes
  <2>3. ControlTypes
    BY DEF Init, ControlTypes
  <2>4. Len(got) = 0 /\ Len(data) = 0 /\ sent = 0
    BY <2>1 DEF Init
  <2>5. 1 .. 0 = {} /\ 0 = 0 + 0
    OBVIOUS
  <2>6. InOrder
    BY <2>4, <2>5 DEF InOrder
  <2>7. NothingMissing
    BY <2>4, <2>5 DEF Init, NothingMissing
  <2>8. ClosedByFin /\ EofFinal
    BY DEF Init, ClosedByFin, EofFinal
  <2> QED BY <2>2, <2>3, <2>6, <2>7, <2>8, TypeParts DEF StreamInv
<1>2. StreamInv => ReadsWhatWasSent
  <2> SUFFICES ASSUME StreamInv PROVE ReadsWhatWasSent
    OBVIOUS
  <2>1. /\ data \in Seq(Bytes) /\ got \in Seq(Bytes)
        /\ Len(data) \in Nat /\ Len(got) \in Nat
    BY LenProperties, TypeParts DEF StreamInv, DataTypes
  <2>2. /\ Len(got \o data) = Len(got) + Len(data)
        /\ \A i \in 1 .. Len(got) + Len(data) :
              (got \o data)[i] = IF i <= Len(got) THEN got[i] ELSE data[i - Len(got)]
    BY <2>1, ConcatProperties
  <2>3. ASSUME NEW i \in 1 .. Len(got \o data) PROVE (got \o data)[i] = i
    <3>1. CASE i <= Len(got)
      BY <2>1, <2>2, <3>1 DEF StreamInv, InOrder
    <3>2. CASE i > Len(got)
      <4>1. i - Len(got) \in 1 .. Len(data) /\ i \in Int
        BY <2>1, <2>2, <3>2
      <4>2. (got \o data)[i] = data[i - Len(got)]
        BY <2>1, <2>2, <3>2
      <4>3. data[i - Len(got)] = Len(got) + (i - Len(got))
        BY <4>1 DEF StreamInv, InOrder
      <4> QED BY <2>1, <4>1, <4>2, <4>3
    <3> QED BY <2>1, <2>2, <3>1, <3>2
  <2>4. eof # {} /\ ~closed => finSent /\ Len(got) = sent
    BY <2>1 DEF StreamInv, EofFinal, ClosedByFin, NothingMissing
  <2> QED BY <2>3, <2>4 DEF ReadsWhatWasSent
<1> QED
  BY <1>1, <1>2, StreamInvStep, PTL DEF Spec

=============================================================================
