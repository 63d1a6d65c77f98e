------------------------- MODULE DatagramBuffer_proofs -------------------------
(***************************************************************************)
(* Proofs about DatagramBuffer, for any set of readers, any datagram       *)
(* lengths and any buffer size.                                            *)
(***************************************************************************)
EXTENDS DatagramBuffer, FiniteSetTheorems, SequenceTheorems, TLAPS

(* A datagram appended behind the queue is appended to the whole.          *)
LEMMA ConcatAppend ==
    ASSUME NEW S, NEW s \in Seq(S), NEW t \in Seq(S), NEW e \in S
    PROVE  s \o Append(t, e) = Append(s \o t, e)
<1>1. Append(t, e) = t \o <<e>> /\ Append(s \o t, e) = (s \o t) \o <<e>>
  BY AppendIsConcat, ConcatProperties
<1>2. <<e>> \in Seq(S)
  OBVIOUS
<1> QED
  BY <1>1, <1>2, ConcatAssociative

(* A datagram moved from the head of the queue keeps its place.            *)
LEMMA ConcatHeadTail ==
    ASSUME NEW S, NEW s \in Seq(S), NEW t \in Seq(S), t # <<>>
    PROVE  Append(s, Head(t)) \o Tail(t) = s \o t
<1>1. /\ Head(t) \in S /\ Tail(t) \in Seq(S)
      /\ t = <<Head(t)>> \o Tail(t)
  BY HeadTailProperties
<1>2. Append(s, Head(t)) = s \o <<Head(t)>>
  BY <1>1, AppendIsConcat
<1>3. <<Head(t)>> \in Seq(S)
  BY <1>1
<1> QED
  BY <1>1, <1>2, <1>3, ConcatAssociative

-----------------------------------------------------------------------------

(* The initial state is well typed.                                        *)
LEMMA TypeInit == Init => TypeOK
<1> SUFFICES ASSUME Init PROVE TypeOK
  OBVIOUS
<1>1. arrivals \in 0 .. MaxArrivals /\ bufferedBytes \in Int /\ notify \in 0 .. 1
  BY DatagramAssumption DEF Init
<1>2. queue \in Seq(Datagrams) /\ accepted \in Seq(Datagrams) /\ received \in Seq(Datagrams)
  BY DEF Init
<1>3. /\ pc \in [Readers -> {"idle", "look", "wait"}]
      /\ closed \in BOOLEAN /\ overlap \in BOOLEAN
  BY DEF Init
<1> QED
  BY <1>1, <1>2, <1>3 DEF TypeOK

(* Every step of the read loop, a reader or close keeps the types.         *)
LEMMA TypeStep == TypeOK /\ [Next]_vars => TypeOK'
<1> SUFFICES ASSUME TypeOK, [Next]_vars PROVE TypeOK'
  OBVIOUS
<1> USE DEF bufferVars, Goto
<1>1. ASSUME NEW n \in Lengths, write(n)
      PROVE  TypeOK'
  <2> DEFINE d == [seq |-> arrivals + 1, len |-> n]
  <2>1. /\ arrivals + 1 \in 1 .. MaxArrivals /\ arrivals' = arrivals + 1
        /\ MaxArrivals \in Nat /\ n \in Int
    BY <1>1, DatagramAssumption DEF write, TypeOK
  <2>2. d \in Datagrams
    BY <2>1 DEF Datagrams
  <2>3. UNCHANGED <<pc, received, overlap>>
    BY <1>1 DEF write
  <2>4. CASE UNCHANGED <<bufferVars, accepted>>
    BY <2>1, <2>3, <2>4 DEF TypeOK
  <2>5. CASE push(d) /\ signal /\ accepted' = Append(accepted, d) /\ UNCHANGED closed
    <3>1. /\ queue' \in Seq(Datagrams) /\ accepted' \in Seq(Datagrams)
          /\ bufferedBytes' \in Int /\ notify' \in 0 .. 1
      BY <2>1, <2>2, <2>5 DEF push, signal, TypeOK
    <3> QED BY <2>1, <2>3, <2>5, <3>1 DEF TypeOK
  <2> QED BY <1>1, <2>4, <2>5 DEF write
<1>2. CASE close
  BY <1>2 DEF close, signal, TypeOK
<1>3. ASSUME NEW r \in Readers, ReceiveDatagram(r)
      PROVE  TypeOK'
  BY <1>3 DEF ReceiveDatagram, TypeOK
<1>4. ASSUME NEW r \in Readers, look(r)
      PROVE  TypeOK'
  <2>1. /\ pc' \in [Readers -> {"idle", "look", "wait"}]
        /\ UNCHANGED <<closed, notify, arrivals, accepted, overlap>>
    BY <1>4 DEF look, TypeOK
  <2>2. CASE queue # <<>> /\ pop /\ received' = Append(received, Head(queue))
    <3>1. Head(queue) \in Datagrams /\ Tail(queue) \in Seq(Datagrams)
      BY <2>2, HeadTailProperties DEF TypeOK
    <3>2. Head(queue).len \in Lengths
      BY <3>1 DEF Datagrams
    <3>0. \A n \in Lengths : n \in Int
      BY DatagramAssumption
    <3>3. Head(queue).len \in Int
      BY <3>2, <3>0, Zenon
    <3>4. queue' = Tail(queue) /\ bufferedBytes' = bufferedBytes - Head(queue).len
      BY <2>2 DEF pop
    <3>5. bufferedBytes' \in Int
      BY <3>3, <3>4 DEF TypeOK
    <3>6. received' \in Seq(Datagrams)
      BY <2>2, <3>1 DEF TypeOK
    <3> QED BY <2>1, <3>1, <3>4, <3>5, <3>6 DEF TypeOK
  <2>3. CASE UNCHANGED <<queue, bufferedBytes, received>>
    BY <2>1, <2>3 DEF TypeOK
  <2> QED BY <1>4, <2>2, <2>3 DEF look
<1>5. ASSUME NEW r \in Readers, takeToken(r)
      PROVE  TypeOK'
  BY <1>5 DEF takeToken, TypeOK
<1>6. ASSUME NEW r \in Readers, contextDone(r)
      PROVE  TypeOK'
  BY <1>6 DEF contextDone, TypeOK
<1>7. CASE UNCHANGED vars
  BY <1>7 DEF vars, TypeOK
<1> QED
  BY <1>1, <1>2, <1>3, <1>4, <1>5, <1>6, <1>7 DEF Next, Reader

(* Every value stays in its type; notify never holds a second token.       *)
THEOREM TypeCorrect == Spec => []TypeOK
<1> QED
  BY TypeInit, TypeStep, PTL DEF Spec

(* Datagrams come out once each and in order (write and read).             *)
THEOREM Fifo == Spec => []InOrderNoLoss
<1>1. Init => InOrderNoLoss
  BY DEF Init, InOrderNoLoss
<1>2. TypeOK /\ InOrderNoLoss /\ [Next]_vars => InOrderNoLoss'
  <2> SUFFICES ASSUME TypeOK, InOrderNoLoss, [Next]_vars PROVE InOrderNoLoss'
    OBVIOUS
  <2> USE DEF bufferVars
  <2>0. queue \in Seq(Datagrams) /\ received \in Seq(Datagrams)
    BY DEF TypeOK
  <2>1. ASSUME NEW n \in Lengths, write(n)
        PROVE  InOrderNoLoss'
    <3> DEFINE d == [seq |-> arrivals + 1, len |-> n]
    <3>1. received' = received
      BY <2>1 DEF write
    <3>2. CASE UNCHANGED <<queue, accepted>>
      BY <3>1, <3>2 DEF InOrderNoLoss
    <3>3. CASE queue' = Append(queue, d) /\ accepted' = Append(accepted, d)
      <4>1. arrivals + 1 \in 1 .. MaxArrivals
        BY <2>1, DatagramAssumption DEF write, TypeOK
      <4>2. d \in Datagrams
        BY <4>1 DEF Datagrams
      <4>3. received \o Append(queue, d) = Append(received \o queue, d)
        BY <2>0, <4>2, ConcatAppend
      <4> HIDE DEF d
      <4> QED BY <3>1, <3>3, <4>3 DEF InOrderNoLoss
    <3> QED BY <2>1, <3>2, <3>3 DEF write, push
  <2>2. ASSUME NEW r \in Readers, look(r)
        PROVE  InOrderNoLoss'
    <3>1. CASE /\ queue # <<>> /\ queue' = Tail(queue)
               /\ received' = Append(received, Head(queue)) /\ accepted' = accepted
      BY <2>0, <3>1, ConcatHeadTail DEF InOrderNoLoss
    <3>2. CASE UNCHANGED <<queue, received, accepted>>
      BY <3>2 DEF InOrderNoLoss
    <3> QED BY <2>2, <3>1, <3>2 DEF look, pop
  <2>3. ASSUME UNCHANGED <<queue, received, accepted>>
        PROVE  InOrderNoLoss'
    BY <2>3 DEF InOrderNoLoss
  <2> QED
    BY <2>1, <2>2, <2>3
       DEF Next, Reader, close, ReceiveDatagram,
           takeToken, contextDone, vars
<1> QED
  BY <1>1, <1>2, TypeCorrect, PTL DEF Spec

(* Without overlap one reader is in a call.                                *)
LEMMA LoneCallStep == TypeOK /\ LoneCall /\ [Next]_vars => LoneCall'
<1> SUFFICES ASSUME TypeOK, LoneCall, [Next]_vars, ~overlap',
                    NEW r \in Readers, NEW s \in Readers,
                    pc'[r] # "idle", pc'[s] # "idle"
             PROVE  r = s
  BY DEF LoneCall
<1>0. pc \in [Readers -> {"idle", "look", "wait"}]
  BY DEF TypeOK
<1> USE DEF Goto
<1>1. ASSUME NEW t \in Readers, ReceiveDatagram(t)
      PROVE  r = s
  <2>1. \A u \in Readers : pc[u] = "idle"
    BY <1>1 DEF ReceiveDatagram
  <2> QED BY <1>0, <1>1, <2>1 DEF ReceiveDatagram
<1>2. ASSUME NEW t \in Readers, look(t) \/ takeToken(t) \/ contextDone(t)
      PROVE  r = s
  <2>1. pc[t] # "idle" /\ ~overlap /\ \A u \in Readers : u # t => pc'[u] = pc[u]
    BY <1>0, <1>2 DEF look, takeToken, contextDone
  <2>2. pc[r] # "idle" /\ pc[s] # "idle"
    BY <2>1
  <2> QED BY <2>1, <2>2 DEF LoneCall
<1>3. ASSUME pc' = pc, overlap' = overlap
      PROVE  r = s
  BY <1>3 DEF LoneCall
<1> QED
  BY <1>1, <1>2, <1>3
     DEF Next, Reader, write, close, vars

(* While calls of ReceiveDatagram do not overlap no wakeup is lost,        *)
(* although a reader decides to wait under mu and waits without it (read,  *)
(* write and close, datagram.go).                                          *)
THEOREM NoWakeupLost == Spec => []NoLostWakeup
<1>1. Init => LoneCall /\ NoLostWakeup
  BY DEF Init, LoneCall, NoLostWakeup
<1>2. TypeOK /\ LoneCall /\ NoLostWakeup /\ [Next]_vars => NoLostWakeup'
  <2> SUFFICES ASSUME TypeOK, LoneCall, NoLostWakeup, [Next]_vars, ~overlap',
                      NEW r \in Readers, pc'[r] = "wait", queue' # <<>> \/ closed'
               PROVE  notify' > 0
    BY DEF NoLostWakeup
  <2>0. notify \in 0 .. 1 /\ pc \in [Readers -> {"idle", "look", "wait"}]
    BY DEF TypeOK
  <2> USE DEF bufferVars, Goto
  <2>1. ASSUME UNCHANGED <<queue, closed, notify, overlap>>, pc'[r] = pc[r]
        PROVE  notify' > 0
    BY <2>1 DEF NoLostWakeup
  <2>2. ASSUME NEW n \in Lengths, write(n)
        PROVE  notify' > 0
    <3>1. CASE signal
      BY <2>0, <3>1 DEF signal
    <3>2. CASE UNCHANGED <<bufferVars, overlap>> /\ pc' = pc
      BY <2>1, <3>2
    <3> QED BY <2>2, <3>1, <3>2 DEF write
  <2>3. CASE close
    BY <2>0, <2>3 DEF close, signal
  <2>4. ASSUME NEW s \in Readers, ReceiveDatagram(s)
        PROVE  notify' > 0
    <3>1. pc[r] = "idle" /\ pc'[r] # "wait"
      BY <2>0, <2>4 DEF ReceiveDatagram
    <3> QED BY <3>1
  <2>5. ASSUME NEW s \in Readers, takeToken(s) \/ contextDone(s) \/ look(s)
        PROVE  s = r /\ pc[s] # "idle" /\ ~overlap
    <3>1. /\ pc[s] # "idle" /\ ~overlap
          /\ s # r => pc[r] = "wait"
      BY <2>0, <2>5 DEF takeToken, contextDone, look
    <3> QED BY <3>1 DEF LoneCall
  <2>6. ASSUME NEW s \in Readers, takeToken(s) \/ contextDone(s)
        PROVE  notify' > 0
    <3>1. s = r
      BY <2>5, <2>6
    <3>2. pc'[s] # "wait"
      BY <2>0, <2>6 DEF takeToken, contextDone
    <3> QED BY <3>1, <3>2
  <2>7. ASSUME NEW s \in Readers, look(s)
        PROVE  notify' > 0
    <3>1. s = r
      BY <2>5, <2>7
    <3>2. CASE queue = <<>> /\ ~closed
      BY <2>7, <3>2 DEF look
    <3>3. CASE queue # <<>> \/ closed
      BY <2>0, <2>7, <3>1, <3>3 DEF look
    <3> QED BY <3>2, <3>3
  <2>8. CASE UNCHANGED vars
    BY <2>1, <2>8 DEF vars
  <2> QED
    BY <2>2, <2>3, <2>4, <2>6, <2>7, <2>8 DEF Next, Reader
<1> QED
  BY <1>1, <1>2, LoneCallStep, TypeCorrect, PTL DEF Spec

-----------------------------------------------------------------------------
(* Bytes in the queue.                                                     *)

LEMMA BytesPairs ==
    \A q, b : b \in BytesIn(q) <=>
                 \E i \in DOMAIN q : \E k \in 1 .. q[i].len : b = <<i, k>>
BY DEF BytesIn

LEMMA LenNat == \A d \in Datagrams : d.len \in Nat
<1>1. \A n \in Lengths : n \in Nat
  BY DatagramAssumption
<1> QED
  BY <1>1 DEF Datagrams

(* The bytes of one datagram.                                              *)
LEMMA OnePlace ==
    ASSUME NEW i, NEW n \in Nat
    PROVE  IsFiniteSet({i} \X (1 .. n)) /\ Cardinality({i} \X (1 .. n)) = n
<1> DEFINE I == {i}
<1>1. IsFiniteSet(I) /\ Cardinality(I) = 1
  BY FS_Singleton
<1>2. IsFiniteSet(1 .. n) /\ Cardinality(1 .. n) = n
  BY FS_Interval
<1> HIDE DEF I
<1>3. IsFiniteSet(I \X (1 .. n)) /\ Cardinality(I \X (1 .. n)) = 1 * n
  BY <1>1, <1>2, FS_Product
<1> QED
  BY <1>3 DEF I

(* A datagram behind the queue adds its length (write).                    *)
LEMMA BytesAppend ==
    ASSUME NEW q \in Seq(Datagrams), NEW d \in Datagrams, IsFiniteSet(BytesIn(q))
    PROVE  /\ IsFiniteSet(BytesIn(Append(q, d)))
           /\ Cardinality(BytesIn(Append(q, d))) = Cardinality(BytesIn(q)) + d.len
<1> DEFINE N == {Len(q) + 1} \X (1 .. d.len)
           A == BytesIn(q)
           D == BytesIn(Append(q, d))
<1>1. d.len \in Nat /\ Len(q) \in Nat /\ DOMAIN q = 1 .. Len(q)
  BY LenNat
<1>2. /\ DOMAIN Append(q, d) = 1 .. Len(q) + 1
      /\ \A i \in 1 .. Len(q) : Append(q, d)[i] = q[i]
      /\ Append(q, d)[Len(q) + 1] = d
  BY AppendProperties
<1>3. \A b : b \in N <=> \E k \in 1 .. d.len : b = <<Len(q) + 1, k>>
  OBVIOUS
<1>4. D = A \cup N
  <2>1. \A i : i \in 1 .. Len(q) + 1 <=> i \in 1 .. Len(q) \/ i = Len(q) + 1
    BY <1>1
  <2>2. ASSUME NEW b PROVE b \in D <=> b \in A \/ b \in N
    <3>1. b \in D <=> \E i \in DOMAIN Append(q, d) :
                         \E k \in 1 .. Append(q, d)[i].len : b = <<i, k>>
      <4> DEFINE p == Append(q, d)
      <4> HIDE DEF p
      <4>1. b \in BytesIn(p) <=> \E i \in DOMAIN p : \E k \in 1 .. p[i].len : b = <<i, k>>
        BY BytesPairs
      <4> QED
        BY <4>1 DEF p
    <3>2. b \in A <=> \E i \in DOMAIN q : \E k \in 1 .. q[i].len : b = <<i, k>>
      BY BytesPairs
    <3> HIDE DEF D, A, N
    <3> QED
      BY <1>1, <1>2, <1>3, <2>1, <3>1, <3>2
  <2> QED
    BY <2>2
<1>5. A \cap N = {}
  <2> SUFFICES ASSUME NEW b \in A, b \in N PROVE FALSE
    OBVIOUS
  <2>1. PICK i \in 1 .. Len(q) : \E k \in 1 .. q[i].len : b = <<i, k>>
    BY <1>1, BytesPairs
  <2>2. b[1] = i /\ b[1] = Len(q) + 1
    BY <1>3, <2>1
  <2> QED
    BY <1>1, <2>2
<1>6. IsFiniteSet(N) /\ Cardinality(N) = d.len
  BY <1>1, OnePlace
<1>7. Cardinality(A) \in Nat
  BY FS_CardinalityType
<1> HIDE DEF N, A, D
<1>8. IsFiniteSet(A)
  BY DEF A
<1>9. IsFiniteSet(D) /\ Cardinality(D) = Cardinality(A) + Cardinality(N) - Cardinality(A \cap N)
  BY <1>4, <1>6, <1>8, FS_Union
<1>10. Cardinality(A \cap N) = 0
  BY <1>5, FS_EmptySet
<1>11. IsFiniteSet(D) /\ Cardinality(D) = Cardinality(A) + d.len
  BY <1>1, <1>6, <1>7, <1>9, <1>10
<1> QED
  BY <1>11 DEF A, D

(* Without its head the queue has so many bytes less (read).               *)
LEMMA BytesTail ==
    ASSUME NEW q \in Seq(Datagrams), q # <<>>, IsFiniteSet(BytesIn(q))
    PROVE  /\ IsFiniteSet(BytesIn(Tail(q)))
           /\ Cardinality(BytesIn(Tail(q))) = Cardinality(BytesIn(q)) - Head(q).len
<1> DEFINE n == Head(q).len
           N == {1} \X (1 .. n)
           A == BytesIn(q)
           R == A \ N
           T == BytesIn(Tail(q))
           f == [b \in R |-> <<b[1] - 1, b[2]>>]
<1>1. /\ Len(q) \in Nat /\ Len(q) >= 1 /\ DOMAIN q = 1 .. Len(q)
      /\ Head(q) \in Datagrams /\ Head(q) = q[1]
      /\ Tail(q) \in Seq(Datagrams) /\ Len(Tail(q)) = Len(q) - 1
      /\ \A i \in 1 .. Len(q) - 1 : Tail(q)[i] = q[i + 1]
      /\ DOMAIN Tail(q) = 1 .. Len(q) - 1
  BY HeadTailProperties, EmptySeq
<1>2. n \in Nat
  BY <1>1, LenNat
<1>3. \A b : b \in N <=> \E k \in 1 .. n : b = <<1, k>>
  OBVIOUS
<1>4. \A b : b \in A <=> \E i \in 1 .. Len(q) : \E k \in 1 .. q[i].len : b = <<i, k>>
  BY <1>1, BytesPairs
<1>5. \A b : b \in T <=> \E i \in 1 .. Len(q) - 1 : \E k \in 1 .. q[i + 1].len : b = <<i, k>>
  <2> DEFINE p == Tail(q)
  <2>1. DOMAIN p = 1 .. Len(q) - 1 /\ \A i \in 1 .. Len(q) - 1 : p[i] = q[i + 1]
    BY <1>1
  <2> HIDE DEF p
  <2>2. \A b : b \in BytesIn(p) <=> \E i \in DOMAIN p : \E k \in 1 .. p[i].len : b = <<i, k>>
    BY BytesPairs
  <2>3. \A b : b \in BytesIn(p) <=>
                  \E i \in 1 .. Len(q) - 1 : \E k \in 1 .. q[i + 1].len : b = <<i, k>>
    BY <2>1, <2>2
  <2> QED
    BY <2>3 DEF p
<1>6. N \subseteq A
  BY <1>1, <1>3, <1>4
<1>7. \A b : b \in R <=> \E i \in 2 .. Len(q) : \E k \in 1 .. q[i].len : b = <<i, k>>
  <2> SUFFICES ASSUME NEW b
               PROVE  b \in R <=> \E i \in 2 .. Len(q) : \E k \in 1 .. q[i].len : b = <<i, k>>
    OBVIOUS
  <2>1. ASSUME b \in R
        PROVE  \E i \in 2 .. Len(q) : \E k \in 1 .. q[i].len : b = <<i, k>>
    <3>0. PICK i \in 1 .. Len(q) : \E k \in 1 .. q[i].len : b = <<i, k>>
      BY <1>4, <2>1
    <3>1. PICK k \in 1 .. q[i].len : b = <<i, k>>
      BY <3>0
    <3>2. i # 1
      BY <1>1, <1>3, <2>1, <3>1
    <3> QED
      BY <1>1, <3>1, <3>2
  <2>2. ASSUME NEW i \in 2 .. Len(q), NEW k \in 1 .. q[i].len, b = <<i, k>>
        PROVE  b \in R
    <3>1. i \in 1 .. Len(q) /\ i # 1
      BY <1>1
    <3>2. b \in A
      BY <1>4, <2>2, <3>1
    <3>3. b \notin N
      BY <1>3, <2>2, <3>1
    <3> QED
      BY <3>2, <3>3
  <2> QED
    BY <2>1, <2>2
<1> HIDE DEF n, N, A, R, T
<1>8. f \in Bijection(R, T)
  <2>1. \A b \in R : /\ b[1] \in 2 .. Len(q) /\ b[2] \in 1 .. q[b[1]].len
                     /\ b = <<b[1], b[2]>>
    BY <1>7
  <2>2. \A b \in R : <<b[1] - 1, b[2]>> \in T
    <3> SUFFICES ASSUME NEW b \in R PROVE <<b[1] - 1, b[2]>> \in T
      OBVIOUS
    <3>1. b[1] - 1 \in 1 .. Len(q) - 1 /\ (b[1] - 1) + 1 = b[1]
      BY <1>1, <2>1
    <3>2. b[2] \in 1 .. q[(b[1] - 1) + 1].len
      BY <2>1, <3>1
    <3> QED
      BY <1>5, <3>1, <3>2
  <2>3. f \in [R -> T]
    BY <2>2
  <2>4. \A b, c \in R : f[b] = f[c] => b = c
    <3> SUFFICES ASSUME NEW b \in R, NEW c \in R, f[b] = f[c] PROVE b = c
      OBVIOUS
    <3>1. b[1] - 1 = c[1] - 1 /\ b[2] = c[2]
      OBVIOUS
    <3>2. b[1] \in Int /\ c[1] \in Int
      BY <1>1, <2>1
    <3>3. b[1] = c[1]
      BY <3>1, <3>2
    <3> QED
      BY <2>1, <3>1, <3>3
  <2>5. \A t \in T : \E b \in R : f[b] = t
    <3> SUFFICES ASSUME NEW t \in T PROVE \E b \in R : f[b] = t
      OBVIOUS
    <3>0. PICK i \in 1 .. Len(q) - 1 : \E k \in 1 .. q[i + 1].len : t = <<i, k>>
      BY <1>5
    <3>1. PICK k \in 1 .. q[i + 1].len : t = <<i, k>>
      BY <3>0
    <3>2. i + 1 \in 2 .. Len(q) /\ (i + 1) - 1 = i
      BY <1>1
    <3>3. <<i + 1, k>> \in R
      BY <1>7, <3>1, <3>2
    <3>4. f[<<i + 1, k>>] = <<(i + 1) - 1, k>>
      BY <3>3
    <3> QED
      BY <3>1, <3>2, <3>3, <3>4
  <2> HIDE DEF f
  <2> QED
    BY <2>3, <2>4, <2>5 DEF Bijection, Injection, Surjection, IsInjective
<1>9. IsFiniteSet(A) /\ Cardinality(A) \in Nat
  BY FS_CardinalityType DEF A
<1>10. IsFiniteSet(N) /\ Cardinality(N) = n
  BY <1>2, OnePlace DEF N
<1>11. A \cap N = N
  BY <1>6
<1>12. IsFiniteSet(R) /\ Cardinality(R) = Cardinality(A) - n
  BY <1>9, <1>10, <1>11, FS_Difference DEF R
<1>13. ExistsBijection(R, T)
  BY <1>8 DEF ExistsBijection
<1>14. IsFiniteSet(T) /\ Cardinality(T) = Cardinality(R)
  BY <1>12, <1>13, FS_Bijection
<1> QED
  BY <1>12, <1>14 DEF A, T, n

(* The count is exact, and the queue finite.                               *)
SpaceInv == IsFiniteSet(BytesIn(queue)) /\ SpaceAccounted

(* bufferedBytes is what the queue holds and stays within maxBytes, for    *)
(* any lengths and any interleaving of write, read and close.              *)
THEOREM SpaceExact == Spec => []SpaceAccounted
<1>1. Init => SpaceInv
  <2> SUFFICES ASSUME Init PROVE SpaceInv
    OBVIOUS
  <2>1. BytesIn(queue) = {} /\ bufferedBytes = 0
    BY DEF Init, BytesIn
  <2>2. maxBytes > 0 => bufferedBytes <= maxBytes
    BY <2>1, DatagramAssumption
  <2> QED
    BY <2>1, <2>2, FS_EmptySet DEF SpaceInv, SpaceAccounted
<1>2. TypeOK /\ SpaceInv /\ [Next]_vars => SpaceInv'
  <2> SUFFICES ASSUME TypeOK, SpaceInv, [Next]_vars PROVE SpaceInv'
    OBVIOUS
  <2> USE DEF bufferVars
  <2>0. /\ queue \in Seq(Datagrams) /\ bufferedBytes \in Int /\ maxBytes \in Int
        /\ IsFiniteSet(BytesIn(queue)) /\ bufferedBytes = Cardinality(BytesIn(queue))
        /\ maxBytes > 0 => bufferedBytes <= maxBytes
    BY DatagramAssumption DEF TypeOK, SpaceInv, SpaceAccounted
  <2>1. ASSUME UNCHANGED <<queue, bufferedBytes>>
        PROVE  SpaceInv'
    BY <2>1 DEF SpaceInv, SpaceAccounted
  <2>2. ASSUME NEW n \in Lengths, write(n)
        PROVE  SpaceInv'
    <3> DEFINE d == [seq |-> arrivals + 1, len |-> n]
    <3>1. CASE UNCHANGED bufferVars
      BY <2>1, <3>1
    <3>2. CASE push(d) /\ ~bufferFull(n)
      <4>1. arrivals + 1 \in 1 .. MaxArrivals
        BY <2>2, DatagramAssumption DEF write, TypeOK
      <4>2. d \in Datagrams /\ d.len = n
        BY <4>1 DEF Datagrams
      <4>3. n \in Nat
        BY <4>2, LenNat
      <4>4. queue' = Append(queue, d) /\ bufferedBytes' = bufferedBytes + n
        BY <3>2 DEF push
      <4> HIDE DEF d
      <4>5. /\ IsFiniteSet(BytesIn(queue'))
            /\ Cardinality(BytesIn(queue')) = Cardinality(BytesIn(queue)) + n
        BY <2>0, <4>2, <4>4, BytesAppend
      <4>6. maxBytes > 0 => bufferedBytes' <= maxBytes
        BY <2>0, <3>2, <4>3, <4>4 DEF bufferFull
      <4> QED
        BY <2>0, <4>4, <4>5, <4>6 DEF SpaceInv, SpaceAccounted
    <3> QED
      BY <2>2, <3>1, <3>2 DEF write
  <2>3. ASSUME NEW r \in Readers, look(r)
        PROVE  SpaceInv'
    <3>1. CASE queue # <<>> /\ pop
      <4>1. queue' = Tail(queue) /\ bufferedBytes' = bufferedBytes - Head(queue).len
        BY <3>1 DEF pop
      <4>2. Head(queue).len \in Nat
        BY <2>0, <3>1, HeadTailProperties, LenNat
      <4>3. /\ IsFiniteSet(BytesIn(queue'))
            /\ Cardinality(BytesIn(queue')) = Cardinality(BytesIn(queue)) - Head(queue).len
        BY <2>0, <3>1, <4>1, BytesTail
      <4>4. maxBytes > 0 => bufferedBytes' <= maxBytes
        BY <2>0, <4>1, <4>2
      <4> QED
        BY <2>0, <4>1, <4>3, <4>4 DEF SpaceInv, SpaceAccounted
    <3> QED
      BY <2>1, <2>3, <3>1 DEF look
  <2> QED
    BY <2>1, <2>2, <2>3
       DEF Next, Reader, close, ReceiveDatagram, takeToken, contextDone, vars
<1>3. SpaceInv => SpaceAccounted
  BY DEF SpaceInv
<1> QED
  BY <1>1, <1>2, <1>3, TypeCorrect, PTL DEF Spec

================================================================================
