--------------------------- MODULE SendLimits_proofs ---------------------------
(***************************************************************************)
(* Proofs about SendLimits for every number of goroutines, streams, grants *)
(* and write sizes.                                                        *)
(***************************************************************************)
EXTENDS SendLimits, FiniteSetTheorems, TLAPS

-----------------------------------------------------------------------------
(* Sums of held bytes.                                                     *)

HeldFunctions == [Goroutines -> 0 .. MaxWrite]

(* A sum of held bytes is a natural number (the credit Total stands for).  *)
LEMMA TotalType ==
    ASSUME NEW f \in HeldFunctions
    PROVE  Total(f) \in Nat
<1> DEFINE B == {b \in Goroutines \X (1 .. MaxWrite) : b[2] <= f[b[1]]}
<1>1. IsFiniteSet(1 .. MaxWrite)
  BY FS_Interval, ConstantsAssumption
<1>2. IsFiniteSet(Goroutines \X (1 .. MaxWrite))
  BY <1>1, FS_Product, ConstantsAssumption
<1>3. IsFiniteSet(B)
  BY <1>2, FS_Subset
<1> QED
  BY <1>3, FS_CardinalityType DEF Total

(* A goroutine that starts to hold n bytes adds n to the sum (one Write's  *)
(* reserveSendData).                                                       *)
LEMMA TotalUpdate ==
    ASSUME NEW f \in HeldFunctions, NEW g \in Goroutines,
           NEW n \in 0 .. MaxWrite, f[g] = 0
    PROVE  Total([f EXCEPT ![g] = n]) = Total(f) + n
<1> DEFINE h == [f EXCEPT ![g] = n]
           A == {b \in Goroutines \X (1 .. MaxWrite) : b[2] <= f[b[1]]}
           D == {b \in Goroutines \X (1 .. MaxWrite) : b[2] <= h[b[1]]}
           N == {g} \X (1 .. n)
<1>0. MaxWrite \in Nat /\ IsFiniteSet(Goroutines)
  BY ConstantsAssumption
<1>1. D = A \cup N
  BY <1>0 DEF HeldFunctions
<1>2. A \cap N = {}
  BY <1>0 DEF HeldFunctions
<1>3. IsFiniteSet(A)
  <2>1. IsFiniteSet(1 .. MaxWrite)
    BY FS_Interval, <1>0
  <2>2. IsFiniteSet(Goroutines \X (1 .. MaxWrite))
    BY <2>1, FS_Product, <1>0
  <2> QED BY <2>2, FS_Subset
<1>4. IsFiniteSet(N) /\ Cardinality(N) = n
  <2>1. IsFiniteSet({g}) /\ Cardinality({g}) = 1
    BY FS_Singleton
  <2>2. IsFiniteSet(1 .. n) /\ Cardinality(1 .. n) = n
    BY FS_Interval, <1>0
  <2>3. IsFiniteSet(N) /\ Cardinality(N) = Cardinality({g}) * Cardinality(1 .. n)
    <3> HIDE DEF N
    <3>1. N = {g} \X (1 .. n)
      BY DEF N
    <3> QED BY <2>1, <2>2, <3>1, FS_Product
  <2> QED BY <2>1, <2>2, <2>3, <1>0
<1>5. Cardinality(D) = Cardinality(A) + Cardinality(N) - Cardinality(A \cap N)
  BY <1>1, <1>3, <1>4, FS_Union
<1>6. Cardinality(A \cap N) = 0
  BY <1>2, FS_EmptySet
<1>7. Cardinality(A) \in Nat
  BY <1>3, FS_CardinalityType
<1>8. Cardinality(D) = Cardinality(A) + n
  BY <1>4, <1>5, <1>6, <1>7
<1> QED
  BY <1>8 DEF Total

-----------------------------------------------------------------------------
(* Stream IDs.                                                             *)

(* The two low bits of a stream ID.                                        *)
LEMMA LowBits ==
    ASSUME NEW k \in Nat, NEW dir \in {0, 2}, NEW bit \in {0, 1}
    PROVE  LET id == 4 * k + dir + bit
           IN  /\ id % 2 = bit
               /\ (id \div 2) % 2 = 0 <=> dir = 0
<1>1. CASE dir = 0 /\ bit = 0 BY <1>1
<1>2. CASE dir = 0 /\ bit = 1 BY <1>2
<1>3. CASE dir = 2 /\ bit = 0 BY <1>3
<1>4. CASE dir = 2 /\ bit = 1 BY <1>4
<1> QED BY <1>1, <1>2, <1>3, <1>4

(* The ID allocLocalStream hands out is one of ours, of the kind asked for *)
(* and not below the counter (nextStreamID, session.go).                   *)
LEMMA NextStreamID ==
    ASSUME TypeOK, createdStreamCounter < 4 * MaxOpens, NEW kind \in Kinds
    PROVE  LET id == nextStreamID(kind)
           IN  /\ id \in StreamIDs
               /\ isOurStream(id)
               /\ isBidirectionalStream(id) <=> kind = "bidi"
               /\ createdStreamCounter <= id
               /\ id < createdStreamCounter + 4
               /\ createdStreamCounter + 4 \in {4 * k : k \in 0 .. MaxOpens}
<1> DEFINE bit == IF IsServer THEN 1 ELSE 0
           dir == IF kind = "uni" THEN 2 ELSE 0
           id == nextStreamID(kind)
<1>0. PICK k \in 0 .. MaxOpens : createdStreamCounter = 4 * k
  BY DEF TypeOK
<1>1. MaxOpens \in Nat /\ IsServer \in BOOLEAN
  BY ConstantsAssumption
<1>2. k + 1 \in 0 .. MaxOpens /\ k \in Nat
  BY <1>0, <1>1
<1>3. dir \in {0, 2} /\ bit \in {0, 1} /\ (dir = 0 <=> kind = "bidi") /\ (bit = 1 <=> IsServer)
  BY <1>1 DEF Kinds
<1>4. id = 4 * k + dir + bit
  BY <1>0 DEF nextStreamID
<1> HIDE DEF id, dir, bit
<1>5. id % 2 = bit /\ ((id \div 2) % 2 = 0 <=> dir = 0)
  BY <1>2, <1>3, <1>4, LowBits
<1>6. isOurStream(id) /\ (isBidirectionalStream(id) <=> kind = "bidi")
  BY <1>1, <1>3, <1>5 DEF isOurStream, isBidirectionalStream
<1>7. createdStreamCounter <= id /\ id < createdStreamCounter + 4 /\ id \in StreamIDs
  BY <1>0, <1>1, <1>2, <1>3, <1>4 DEF StreamIDs
<1>8. createdStreamCounter + 4 \in {4 * j : j \in 0 .. MaxOpens}
  <2>1. createdStreamCounter + 4 = 4 * (k + 1)
    BY <1>0, <1>2
  <2> QED BY <2>1, <1>2
<1> QED
  BY <1>6, <1>7, <1>8 DEF id

(* createdStreamCounter is a natural number.                               *)
LEMMA CounterNat == TypeOK => createdStreamCounter \in Nat
<1> SUFFICES ASSUME TypeOK PROVE createdStreamCounter \in Nat
  OBVIOUS
<1>1. PICK k \in 0 .. MaxOpens : createdStreamCounter = 4 * k
  BY DEF TypeOK
<1>2. k \in Nat
  BY ConstantsAssumption
<1> QED BY <1>1, <1>2

(* The limits the code computes are natural numbers.                       *)
LEMMA LimitTypes ==
    ASSUME TypeOK, NEW id \in StreamIDs
    PROVE  initialStreamSendLimit(id) \in Nat /\ currentStreamMax(id) \in Nat
  BY DEF TypeOK, initialStreamSendLimit, currentStreamMax

-----------------------------------------------------------------------------
(* Type correctness.                                                       *)

(* The initial state, with a snapshot or without, is well typed.           *)
LEMMA TypeInit == Init => TypeOK
<1> SUFFICES ASSUME Init PROVE TypeOK
  OBVIOUS
<1>1. 0 \in StreamIDs /\ 0 \in {4 * k : k \in 0 .. MaxOpens} /\ 0 \in 0 .. MaxWrite
  BY ConstantsAssumption DEF StreamIDs
<1>2. /\ active \in BOOLEAN /\ maxData \in Nat
      /\ maxStreams \in [Kinds -> Nat]
      /\ streamData \in [{"uni", "local", "remote"} -> Nat]
  <2>1. CASE InMemory
    <3>1. noPeerSendLimits
      BY <2>1 DEF Init
    <3> QED BY <3>1 DEF noPeerSendLimits
  <2>2. CASE ~InMemory
    <3>1. PICK peer \in PeerSettings : adoptPeerSendLimits(peer)
      BY <2>2 DEF Init
    <3>2. peer \in Settings
      BY ConstantsAssumption
    <3> QED BY <3>1, <3>2 DEF adoptPeerSendLimits, Settings
  <2> QED BY <2>1, <2>2
<1> QED
  BY <1>1, <1>2 DEF Init, TypeOK, Kinds

(* The disjuncts of Next, as one fact to split on.                         *)
LEMMA NextCases ==
    ASSUME [Next]_vars
    PROVE  \/ \E g \in Goroutines :
                  \/ \E kind \in Kinds : OpenStream(g, kind)
                  \/ allocLocalStream(g)
                  \/ \E id \in StreamIDs, n \in 0 .. MaxWrite : Write(g, id, n)
                  \/ reserveSendData(g)
                  \/ writeStreamCapsule(g)
                  \/ writeStreamCapsuleFails(g)
                  \/ refundSendData(g)
                  \/ \E id \in StreamIDs : Close(g, id)
                  \/ markClosed(g)
                  \/ writeFinCapsule(g)
           \/ \E max \in Nat : raiseMaxData(max)
           \/ \E id \in StreamIDs, max \in Nat : raiseMaxStreamData(id, max)
           \/ \E kind \in Kinds, max \in Nat : raiseMaxStreams(kind, max)
           \/ \E id \in StreamIDs : acceptPeerStream(id)
           \/ SessionClose \/ ReadLoopEnds
           \/ ConnectStreamEnds
           \/ UNCHANGED vars
<1>1. Grants \subseteq Nat /\ NamedIDs \subseteq StreamIDs
  BY ConstantsAssumption
<1> QED
  BY <1>1 DEF Next, App, ReadLoop

(* Every call and every capsule keeps the types.                           *)
LEMMA TypeStep == TypeOK /\ [Next]_vars => TypeOK'
<1> SUFFICES ASSUME TypeOK, [Next]_vars PROVE TypeOK'
  OBVIOUS
<1>c. 0 \in StreamIDs /\ 0 \in 0 .. MaxWrite /\ "uni" \in Kinds
  BY ConstantsAssumption DEF StreamIDs, Kinds
<1> USE DEF limitVars, spentVars, callVars, wireVars, connVars, Goto
<1>1. ASSUME NEW g \in Goroutines, NEW kind \in Kinds, OpenStream(g, kind)
      PROVE  TypeOK'
  BY <1>1 DEF OpenStream, TypeOK
<1>2. ASSUME NEW g \in Goroutines, allocLocalStream(g)
      PROVE  TypeOK'
  <2> DEFINE kind == callKind[g]
             id == nextStreamID(kind)
  <2>1. kind \in Kinds /\ createdStreamCounter < 4 * MaxOpens
    BY <1>2 DEF allocLocalStream, TypeOK
  <2>2. id \in StreamIDs /\ createdStreamCounter + 4 \in {4 * k : k \in 0 .. MaxOpens}
    BY <2>1, NextStreamID
  <2>3. initialStreamSendLimit(id) \in Nat
    BY <2>2, LimitTypes
  <2> HIDE DEF id
  <2>4. /\ hasMax' \subseteq StreamIDs /\ streamMax' \in [StreamIDs -> Nat]
        /\ opened' \in [Kinds -> Nat] /\ sendable' \subseteq StreamIDs
        /\ createdStreamCounter' \in {4 * k : k \in 0 .. MaxOpens}
    BY <1>2, <2>1, <2>2, <2>3
       DEF allocLocalStream, refusedOpen, ensureStreamSendLimit, TypeOK, id
  <2>5. /\ dataSent' = dataSent /\ streamSent' = streamSent
        /\ UNCHANGED <<active, maxData, maxStreams, streamData>>
        /\ UNCHANGED <<wireVars, connVars, closed>>
    BY <1>2 DEF allocLocalStream, refusedOpen
  <2>6. /\ pc' \in [Goroutines -> {"idle", "opening", "reserve", "send", "refund",
                                   "mark", "fin"}]
        /\ callKind' \in [Goroutines -> Kinds]
        /\ callID' \in [Goroutines -> StreamIDs]
        /\ callLen' \in [Goroutines -> 0 .. MaxWrite]
    BY <1>2, <1>c DEF allocLocalStream, Return, TypeOK
  <2> QED BY <2>4, <2>5, <2>6 DEF TypeOK
<1>3. ASSUME NEW g \in Goroutines, NEW id \in StreamIDs, NEW n \in 0 .. MaxWrite,
             Write(g, id, n)
      PROVE  TypeOK'
  BY <1>3 DEF Write, TypeOK
<1>4. ASSUME NEW g \in Goroutines, reserveSendData(g)
      PROVE  TypeOK'
  <2>1. callID[g] \in StreamIDs /\ callLen[g] \in Nat
    BY ConstantsAssumption DEF TypeOK
  <2> QED BY <1>4, <1>c, <2>1 DEF reserveSendData, Return, TypeOK
<1>5. ASSUME NEW g \in Goroutines, writeStreamCapsule(g)
      PROVE  TypeOK'
  <2>1. callID[g] \in StreamIDs /\ callLen[g] \in Nat
    BY ConstantsAssumption DEF TypeOK
  <2> QED BY <1>5, <1>c, <2>1 DEF writeStreamCapsule, Return, TypeOK
<1>6. ASSUME NEW g \in Goroutines, writeStreamCapsuleFails(g)
      PROVE  TypeOK'
  BY <1>6 DEF writeStreamCapsuleFails, TypeOK
<1>7. ASSUME NEW g \in Goroutines, refundSendData(g)
      PROVE  TypeOK'
  <2>1. callID[g] \in StreamIDs /\ callLen[g] \in Nat
    BY ConstantsAssumption DEF TypeOK
  <2>2. dataSent' \in Nat /\ streamSent' \in [StreamIDs -> Nat]
    BY <1>7, <2>1 DEF refundSendData, refunded, TypeOK
  <2> QED BY <1>7, <1>c, <2>2 DEF refundSendData, Return, TypeOK
<1>8. ASSUME NEW g \in Goroutines, NEW id \in StreamIDs, Close(g, id)
      PROVE  TypeOK'
  BY <1>8 DEF Close, TypeOK
<1>9. ASSUME NEW g \in Goroutines, markClosed(g)
      PROVE  TypeOK'
  BY <1>9 DEF markClosed, TypeOK
<1>10. ASSUME NEW g \in Goroutines, writeFinCapsule(g)
       PROVE  TypeOK'
  BY <1>10, <1>c DEF writeFinCapsule, Return, TypeOK
<1>11. ASSUME NEW max \in Nat, raiseMaxData(max)
       PROVE  TypeOK'
  BY <1>11 DEF raiseMaxData, UnchangedByReadLoop, TypeOK
<1>12. ASSUME NEW id \in StreamIDs, NEW max \in Nat, raiseMaxStreamData(id, max)
       PROVE  TypeOK'
  BY <1>12 DEF raiseMaxStreamData, UnchangedByReadLoop, TypeOK
<1>13. ASSUME NEW kind \in Kinds, NEW max \in Nat, raiseMaxStreams(kind, max)
       PROVE  TypeOK'
  BY <1>13 DEF raiseMaxStreams, UnchangedByReadLoop, TypeOK
<1>14. ASSUME NEW id \in StreamIDs, acceptPeerStream(id)
       PROVE  TypeOK'
  <2>1. initialStreamSendLimit(id) \in Nat
    BY LimitTypes
  <2> QED
    BY <1>14, <2>1
       DEF acceptPeerStream, trackSendStream, ensureStreamSendLimit,
           UnchangedByReadLoop, TypeOK
<1>15. CASE SessionClose \/ ReadLoopEnds
  BY <1>15 DEF SessionClose, ReadLoopEnds, UnchangedByReadLoop, TypeOK
<1>16. CASE ConnectStreamEnds
  BY <1>16 DEF ConnectStreamEnds, TypeOK
<1>17. CASE UNCHANGED vars
  BY <1>17 DEF vars, TypeOK
<1> QED
  BY NextCases, <1>1, <1>2, <1>3, <1>4, <1>5, <1>6, <1>7, <1>8, <1>9, <1>10,
     <1>11, <1>12, <1>13, <1>14, <1>15, <1>16, <1>17

(* Every value stays in its type: in particular the counters that the code *)
(* subtracts from never go below zero (refundSendData, flow.go).           *)
THEOREM TypeCorrect == Spec => []TypeOK
<1>1. Init => TypeOK
  BY TypeInit
<1>2. TypeOK /\ [Next]_vars => TypeOK'
  BY TypeStep
<1> QED
  BY <1>1, <1>2, PTL DEF Spec

-----------------------------------------------------------------------------
(* The inductive invariant, one lemma per conjunct.                        *)

(* A session with a snapshot is never deactivated.                         *)
LEMMA ActiveStep ==
    TypeOK /\ ActiveOnceGranted /\ [Next]_vars => ActiveOnceGranted'
<1> SUFFICES ASSUME TypeOK, ~InMemory, active, [Next]_vars PROVE active'
  BY DEF ActiveOnceGranted
<1> USE DEF limitVars
<1> QED
  BY NextCases
     DEF OpenStream, allocLocalStream, Write, reserveSendData,
         writeStreamCapsule, writeStreamCapsuleFails, refundSendData, Close,
         markClosed, writeFinCapsule, raiseMaxData, raiseMaxStreamData,
         raiseMaxStreams, acceptPeerStream, SessionClose,
         ReadLoopEnds, UnchangedByReadLoop, ConnectStreamEnds,
         vars

(* Steps that leave limits and counters alone.                             *)
Quiet ==
    \/ \E g \in Goroutines :
           \/ \E kind \in Kinds : OpenStream(g, kind)
           \/ \E id \in StreamIDs, n \in 0 .. MaxWrite : Write(g, id, n)
           \/ writeStreamCapsule(g)
           \/ writeStreamCapsuleFails(g)
           \/ \E id \in StreamIDs : Close(g, id)
           \/ markClosed(g)
           \/ writeFinCapsule(g)
    \/ SessionClose
    \/ ReadLoopEnds
    \/ ConnectStreamEnds
    \/ UNCHANGED vars

(* What those steps leave alone.                                           *)
LEMMA QuietFrame ==
    Quiet => UNCHANGED <<active, maxData, maxStreams, streamData, hasMax,
                         streamMax, dataSent, streamSent, opened,
                         createdStreamCounter, sendable>>
  BY DEF Quiet, OpenStream, Write, writeStreamCapsule, writeStreamCapsuleFails,
         Close, markClosed, writeFinCapsule, SessionClose,
         ReadLoopEnds, UnchangedByReadLoop, ConnectStreamEnds,
         vars, limitVars, spentVars

(* The steps that are left.                                                *)
LEMMA LoudCases ==
    ASSUME [Next]_vars, ~Quiet
    PROVE  \/ \E g \in Goroutines : \/ allocLocalStream(g)
                                    \/ reserveSendData(g)
                                    \/ refundSendData(g)
           \/ \E max \in Nat : raiseMaxData(max)
           \/ \E id \in StreamIDs, max \in Nat : raiseMaxStreamData(id, max)
           \/ \E kind \in Kinds, max \in Nat : raiseMaxStreams(kind, max)
           \/ \E id \in StreamIDs : acceptPeerStream(id)
  BY NextCases DEF Quiet

(* ensureStreamSendLimit adds an entry and changes no other.               *)
LEMMA EnsureEffect ==
    ASSUME TypeOK, NoLimitWithoutEntry, NEW id \in StreamIDs,
           ensureStreamSendLimit(id)
    PROVE  /\ hasMax \subseteq hasMax'
           /\ hasMax' \subseteq hasMax \cup {id}
           /\ \A i \in StreamIDs : i # id => streamMax'[i] = streamMax[i]
           /\ \A i \in StreamIDs : streamMax[i] <= streamMax'[i]
           /\ \A i \in StreamIDs \ hasMax' : streamMax'[i] = 0
           /\ id \notin hasMax /\ id \in hasMax' =>
                  streamMax'[id] = initialStreamSendLimit(id)
           /\ id \in hasMax => streamMax'[id] = streamMax[id]
<1>1. initialStreamSendLimit(id) \in Nat
  BY LimitTypes
<1>2. CASE ~active \/ id \in hasMax
  BY <1>2 DEF ensureStreamSendLimit, NoLimitWithoutEntry, TypeOK
<1>3. CASE active /\ id \notin hasMax
  BY <1>1, <1>3 DEF ensureStreamSendLimit, NoLimitWithoutEntry, TypeOK
<1> QED BY <1>2, <1>3

(* A limit is stored together with its key (streamMax, flow.go).           *)
LEMMA NoLimitStep ==
    TypeOK /\ NoLimitWithoutEntry /\ [Next]_vars => NoLimitWithoutEntry'
<1> SUFFICES ASSUME TypeOK, NoLimitWithoutEntry, [Next]_vars
             PROVE  NoLimitWithoutEntry'
  OBVIOUS
<1> USE DEF limitVars
<1>1. CASE Quiet
  BY <1>1, QuietFrame DEF NoLimitWithoutEntry
<1>2. ASSUME NEW g \in Goroutines, allocLocalStream(g)
      PROVE  NoLimitWithoutEntry'
  <2> DEFINE id == nextStreamID(callKind[g])
  <2>1. id \in StreamIDs
    BY <1>2, NextStreamID DEF allocLocalStream, TypeOK
  <2> HIDE DEF id
  <2>2. ensureStreamSendLimit(id) \/ UNCHANGED <<hasMax, streamMax>>
    BY <1>2 DEF allocLocalStream, refusedOpen, id
  <2> QED BY <2>1, <2>2, EnsureEffect DEF NoLimitWithoutEntry
<1>3. ASSUME NEW g \in Goroutines, reserveSendData(g) \/ refundSendData(g)
      PROVE  NoLimitWithoutEntry'
  BY <1>3 DEF reserveSendData, refundSendData, NoLimitWithoutEntry
<1>4. ASSUME NEW max \in Nat, raiseMaxData(max)
      PROVE  NoLimitWithoutEntry'
  BY <1>4 DEF raiseMaxData, NoLimitWithoutEntry
<1>5. ASSUME NEW id \in StreamIDs, NEW max \in Nat, raiseMaxStreamData(id, max)
      PROVE  NoLimitWithoutEntry'
  BY <1>5 DEF raiseMaxStreamData, NoLimitWithoutEntry, TypeOK
<1>6. ASSUME NEW kind \in Kinds, NEW max \in Nat, raiseMaxStreams(kind, max)
      PROVE  NoLimitWithoutEntry'
  BY <1>6 DEF raiseMaxStreams, NoLimitWithoutEntry
<1>7. ASSUME NEW id \in StreamIDs, acceptPeerStream(id)
      PROVE  NoLimitWithoutEntry'
  <2>1. ensureStreamSendLimit(id) \/ UNCHANGED <<hasMax, streamMax>>
    BY <1>7 DEF acceptPeerStream, trackSendStream
  <2> QED BY <2>1, EnsureEffect DEF NoLimitWithoutEntry
<1> QED
  BY LoudCases, <1>1, <1>2, <1>3, <1>4, <1>5, <1>6, <1>7

(* Nothing is charged, and no stream opened, beyond the current grant.     *)
LEMMA SpentStep ==
    TypeOK /\ ActiveOnceGranted /\ NoLimitWithoutEntry /\ SpentWithinGrant
        /\ [Next]_vars => SpentWithinGrant'
<1> SUFFICES ASSUME TypeOK, ~InMemory, active, NoLimitWithoutEntry,
                    SpentWithinGrant, [Next]_vars
             PROVE  SpentWithinGrant'
  BY DEF ActiveOnceGranted, SpentWithinGrant
<1> USE DEF limitVars, spentVars
<1>1. CASE Quiet
  BY <1>1, QuietFrame DEF SpentWithinGrant
<1>2. ASSUME NEW g \in Goroutines, allocLocalStream(g)
      PROVE  SpentWithinGrant'
  <2> DEFINE kind == callKind[g]
             id == nextStreamID(kind)
  <2>1. id \in StreamIDs /\ kind \in Kinds
    BY <1>2, NextStreamID DEF allocLocalStream, TypeOK
  <2> HIDE DEF id
  <2>2. CASE noStreamCredit(kind)
    BY <1>2, <2>2 DEF allocLocalStream, refusedOpen, SpentWithinGrant
  <2>3. CASE ~noStreamCredit(kind)
    <3>1. ensureStreamSendLimit(id)
      BY <1>2, <2>3 DEF allocLocalStream, id
    <3>2. \A i \in StreamIDs : streamMax[i] <= streamMax'[i]
      BY <2>1, <3>1, EnsureEffect
    <3>3. streamMax' \in [StreamIDs -> Nat]
      BY TypeStep DEF TypeOK
    <3>4. /\ opened' = [opened EXCEPT ![kind] = @ + 1]
          /\ UNCHANGED <<dataSent, streamSent, maxData, maxStreams>>
      BY <1>2, <2>3 DEF allocLocalStream
    <3>5. opened[kind] < maxStreams[kind]
      BY <2>1, <2>3 DEF noStreamCredit, TypeOK
    <3>6. \A k \in Kinds : opened'[k] <= maxStreams'[k]
      BY <2>1, <3>4, <3>5 DEF SpentWithinGrant, TypeOK
    <3>7. \A i \in StreamIDs : streamSent'[i] <= streamMax'[i]
      BY <3>2, <3>3, <3>4 DEF SpentWithinGrant, TypeOK
    <3> QED BY <3>4, <3>6, <3>7 DEF SpentWithinGrant
  <2> QED BY <2>2, <2>3
<1>3. ASSUME NEW g \in Goroutines, reserveSendData(g)
      PROVE  SpentWithinGrant'
  <2>1. callID[g] \in StreamIDs /\ callLen[g] \in Nat
    BY ConstantsAssumption DEF TypeOK
  <2> QED
    BY <1>3, <2>1
       DEF reserveSendData, exceedsSessionGrant, exceedsStreamGrant,
           SpentWithinGrant, TypeOK
<1>4. ASSUME NEW g \in Goroutines, refundSendData(g)
      PROVE  SpentWithinGrant'
  <2>1. callID[g] \in StreamIDs /\ callLen[g] \in Nat
    BY ConstantsAssumption DEF TypeOK
  <2> QED
    BY <1>4, <2>1 DEF refundSendData, refunded, SpentWithinGrant, TypeOK
<1>5. ASSUME NEW max \in Nat, raiseMaxData(max)
      PROVE  SpentWithinGrant'
  <2>1. maxData <= maxData'
    <3>1. maxData \in Nat
      BY DEF TypeOK
    <3>2. maxData' = maxData \/ (maxData' = max /\ ~lowers(max, maxData))
      BY <1>5 DEF raiseMaxData
    <3> QED BY <3>1, <3>2 DEF lowers
  <2>2. maxData' \in Nat
    BY TypeStep DEF TypeOK
  <2>3. UNCHANGED <<dataSent, streamSent, streamMax, opened, maxStreams>>
    BY <1>5 DEF raiseMaxData, UnchangedByReadLoop
  <2> QED BY <2>1, <2>2, <2>3 DEF SpentWithinGrant, TypeOK
<1>6. ASSUME NEW id \in StreamIDs, NEW max \in Nat, raiseMaxStreamData(id, max)
      PROVE  SpentWithinGrant'
  <2>1. currentStreamMax(id) \in Nat
    BY LimitTypes
  <2>2. streamMax[id] <= currentStreamMax(id)
    BY <2>1 DEF currentStreamMax, NoLimitWithoutEntry, TypeOK
  <2>3. \A i \in StreamIDs : streamMax[i] <= streamMax'[i]
    <3>1. streamMax \in [StreamIDs -> Nat]
      BY DEF TypeOK
    <3>2. \/ streamMax' = streamMax
          \/ /\ streamMax' = [streamMax EXCEPT ![id] = max]
             /\ ~lowers(max, currentStreamMax(id))
      BY <1>6 DEF raiseMaxStreamData
    <3> QED BY <2>1, <2>2, <3>1, <3>2 DEF lowers
  <2>4. streamMax' \in [StreamIDs -> Nat]
    BY TypeStep DEF TypeOK
  <2>5. UNCHANGED <<dataSent, streamSent, maxData, opened, maxStreams>>
    BY <1>6 DEF raiseMaxStreamData, UnchangedByReadLoop
  <2> QED BY <2>3, <2>4, <2>5 DEF SpentWithinGrant, TypeOK
<1>7. ASSUME NEW kind \in Kinds, NEW max \in Nat, raiseMaxStreams(kind, max)
      PROVE  SpentWithinGrant'
  <2>1. \A k \in Kinds : maxStreams[k] <= maxStreams'[k]
    <3>1. maxStreams \in [Kinds -> Nat]
      BY DEF TypeOK
    <3>2. \/ maxStreams' = maxStreams
          \/ /\ maxStreams' = [maxStreams EXCEPT ![kind] = max]
             /\ ~lowers(max, maxStreams[kind])
      BY <1>7 DEF raiseMaxStreams
    <3> QED BY <3>1, <3>2 DEF lowers
  <2>2. maxStreams' \in [Kinds -> Nat]
    BY TypeStep DEF TypeOK
  <2>3. UNCHANGED <<dataSent, streamSent, maxData, streamMax, opened>>
    BY <1>7 DEF raiseMaxStreams, UnchangedByReadLoop
  <2> QED BY <2>1, <2>2, <2>3 DEF SpentWithinGrant, TypeOK
<1>8. ASSUME NEW id \in StreamIDs, acceptPeerStream(id)
      PROVE  SpentWithinGrant'
  <2>1. ensureStreamSendLimit(id) \/ UNCHANGED <<hasMax, streamMax>>
    BY <1>8 DEF acceptPeerStream, trackSendStream
  <2>2. streamMax' \in [StreamIDs -> Nat]
    BY TypeStep DEF TypeOK
  <2>3. \A i \in StreamIDs : streamMax[i] <= streamMax'[i]
    BY <2>1, EnsureEffect DEF TypeOK
  <2> QED
    BY <1>8, <2>2, <2>3
       DEF acceptPeerStream, UnchangedByReadLoop, SpentWithinGrant, TypeOK
<1> QED
  BY LoudCases, <1>1, <1>2, <1>3, <1>4, <1>5, <1>6, <1>7, <1>8

(* A finite number of streams is open.                                     *)
LEMMA OurStreamsFinite ==
    ASSUME TypeOK, NEW kind
    PROVE  IsFiniteSet(OurStreams(kind)) /\ Cardinality(OurStreams(kind)) \in Nat
<1>1. IsFiniteSet(StreamIDs)
  BY FS_Interval, ConstantsAssumption DEF StreamIDs
<1>2. OurStreams(kind) \subseteq StreamIDs
  BY DEF OurStreams, TypeOK
<1> QED
  BY <1>1, <1>2, FS_Subset, FS_CardinalityType

(* An open that is granted adds one stream to its kind and none to the     *)
(* other; a refused one and every other step leave our streams as they are.*)
LEMMA OurStreamsStep ==
    ASSUME TypeOK, OurIDsBelowCounter, [Next]_vars
    PROVE  \/ /\ createdStreamCounter' = createdStreamCounter
              /\ opened' = opened
              /\ \A id \in sendable' \ sendable : ~isOurStream(id)
              /\ sendable \subseteq sendable'
              /\ \A kind \in Kinds : OurStreams(kind)' = OurStreams(kind)
           \/ \E kind \in Kinds, id \in StreamIDs :
              /\ createdStreamCounter' = createdStreamCounter + 4
              /\ opened' = IF active THEN [opened EXCEPT ![kind] = @ + 1] ELSE opened
              /\ sendable' = sendable \cup {id}
              /\ id < createdStreamCounter'
              /\ \A k \in Kinds : k # kind => OurStreams(k)' = OurStreams(k)
              /\ Cardinality(OurStreams(kind)') = Cardinality(OurStreams(kind)) + 1
              /\ UNCHANGED <<maxData, maxStreams, streamData, wireVars>>
<1> USE DEF limitVars, spentVars, wireVars
<1>1. CASE Quiet
  BY <1>1, QuietFrame DEF OurStreams
<1>2. ASSUME NEW g \in Goroutines, allocLocalStream(g),
             active /\ noStreamCredit(callKind[g])
      PROVE  /\ createdStreamCounter' = createdStreamCounter
             /\ opened' = opened /\ sendable' = sendable
             /\ \A kind \in Kinds : OurStreams(kind)' = OurStreams(kind)
  BY <1>2 DEF allocLocalStream, refusedOpen, OurStreams
<1>3. ASSUME NEW g \in Goroutines, allocLocalStream(g),
             ~(active /\ noStreamCredit(callKind[g]))
      PROVE  \E kind \in Kinds, id \in StreamIDs :
              /\ createdStreamCounter' = createdStreamCounter + 4
              /\ opened' = IF active THEN [opened EXCEPT ![kind] = @ + 1] ELSE opened
              /\ sendable' = sendable \cup {id}
              /\ id < createdStreamCounter'
              /\ \A k \in Kinds : k # kind => OurStreams(k)' = OurStreams(k)
              /\ Cardinality(OurStreams(kind)') = Cardinality(OurStreams(kind)) + 1
              /\ UNCHANGED <<maxData, maxStreams, streamData, wireVars>>
  <2>1. PICK kind \in Kinds : kind = callKind[g]
    BY DEF TypeOK
  <2>2. PICK id \in StreamIDs :
        /\ id = nextStreamID(kind)
        /\ isOurStream(id)
        /\ isBidirectionalStream(id) <=> kind = "bidi"
        /\ createdStreamCounter <= id /\ id < createdStreamCounter + 4
    <3>1. createdStreamCounter < 4 * MaxOpens
      BY <1>3 DEF allocLocalStream
    <3> QED BY <3>1, NextStreamID
  <2>3. /\ createdStreamCounter' = createdStreamCounter + 4
        /\ opened' = IF active THEN [opened EXCEPT ![kind] = @ + 1] ELSE opened
        /\ sendable' = sendable \cup {id}
        /\ UNCHANGED <<maxData, maxStreams, streamData, wireVars>>
    BY <1>3, <2>1, <2>2 DEF allocLocalStream
  <2>4. id \notin sendable
    <3>1. id \in Nat /\ createdStreamCounter \in Nat
      BY CounterNat DEF StreamIDs
    <3> QED BY <2>2, <3>1 DEF OurIDsBelowCounter
  <2>5. OurStreams(kind)' = OurStreams(kind) \cup {id}
    BY <2>2, <2>3 DEF OurStreams
  <2>6. \A k \in Kinds : k # kind => OurStreams(k)' = OurStreams(k)
    BY <2>1, <2>2, <2>3 DEF OurStreams, Kinds
  <2>7. Cardinality(OurStreams(kind)') = Cardinality(OurStreams(kind)) + 1
    <3>1. id \notin OurStreams(kind) /\ IsFiniteSet(OurStreams(kind))
      BY <2>4, OurStreamsFinite DEF OurStreams
    <3> QED BY <2>5, <3>1, FS_AddElement
  <2>8. id < createdStreamCounter'
    BY <2>2, <2>3
  <2> QED BY <2>1, <2>2, <2>3, <2>6, <2>7, <2>8
<1>4. ASSUME NEW g \in Goroutines, reserveSendData(g) \/ refundSendData(g)
      PROVE  /\ UNCHANGED <<createdStreamCounter, opened, sendable>>
             /\ \A kind \in Kinds : OurStreams(kind)' = OurStreams(kind)
  BY <1>4 DEF reserveSendData, refundSendData, OurStreams
<1>5. ASSUME \/ \E max \in Nat : raiseMaxData(max)
             \/ \E id \in StreamIDs, max \in Nat : raiseMaxStreamData(id, max)
             \/ \E kind \in Kinds, max \in Nat : raiseMaxStreams(kind, max)
      PROVE  /\ UNCHANGED <<createdStreamCounter, opened, sendable>>
             /\ \A kind \in Kinds : OurStreams(kind)' = OurStreams(kind)
  BY <1>5 DEF raiseMaxData, raiseMaxStreamData, raiseMaxStreams,
              UnchangedByReadLoop, OurStreams
<1>6. ASSUME NEW id \in StreamIDs, acceptPeerStream(id)
      PROVE  /\ UNCHANGED <<createdStreamCounter, opened>>
             /\ sendable' = sendable \cup {id} /\ ~isOurStream(id)
             /\ \A kind \in Kinds : OurStreams(kind)' = OurStreams(kind)
  <2>1. /\ UNCHANGED <<createdStreamCounter, opened>>
        /\ sendable' = sendable \cup {id} /\ ~isOurStream(id)
    BY <1>6 DEF acceptPeerStream, UnchangedByReadLoop
  <2> QED BY <2>1 DEF OurStreams
<1>7. CASE \E g \in Goroutines : allocLocalStream(g)
  BY <1>2, <1>3, <1>7
<1>8. CASE Quiet \/ ~\E g \in Goroutines : allocLocalStream(g)
  <2>1. ASSUME UNCHANGED <<createdStreamCounter, opened, sendable>>
        PROVE  /\ \A id \in sendable' \ sendable : ~isOurStream(id)
               /\ sendable \subseteq sendable'
    BY <2>1
  <2> QED BY LoudCases, QuietFrame, <1>1, <1>4, <1>5, <1>6, <1>8, <2>1
<1> QED
  BY <1>7, <1>8

(* opened counts our streams, whose IDs are below the counter.             *)
LEMMA OpensStep ==
    TypeOK /\ ActiveOnceGranted /\ OpensCounted /\ OurIDsBelowCounter
        /\ [Next]_vars => OpensCounted' /\ OurIDsBelowCounter'
<1> SUFFICES ASSUME TypeOK, ActiveOnceGranted, OpensCounted,
                    OurIDsBelowCounter, [Next]_vars
             PROVE  OpensCounted' /\ OurIDsBelowCounter'
  OBVIOUS
<1>0. createdStreamCounter \in Nat /\ StreamIDs \subseteq Nat
  BY CounterNat DEF StreamIDs
<1>1. OurIDsBelowCounter'
  <2>1. \A id \in sendable : id \in Nat /\ (isOurStream(id) => id < createdStreamCounter)
    BY <1>0 DEF OurIDsBelowCounter, TypeOK
  <2>2. CASE /\ createdStreamCounter' = createdStreamCounter
             /\ \A id \in sendable' \ sendable : ~isOurStream(id)
    BY <2>1, <2>2 DEF OurIDsBelowCounter, isOurStream
  <2>3. CASE \E id \in StreamIDs :
             /\ createdStreamCounter' = createdStreamCounter + 4
             /\ sendable' = sendable \cup {id}
             /\ id < createdStreamCounter'
    <3> SUFFICES ASSUME NEW i \in sendable', isOurStream(i)
                 PROVE  i < createdStreamCounter'
      BY DEF OurIDsBelowCounter
    <3>1. PICK id \in StreamIDs :
             /\ createdStreamCounter' = createdStreamCounter + 4
             /\ sendable' = sendable \cup {id}
             /\ id < createdStreamCounter'
      BY <2>3
    <3>2. CASE i = id
      BY <3>1, <3>2
    <3>3. CASE i \in sendable
      <4>1. i \in Nat /\ i < createdStreamCounter
        BY <2>1, <3>3
      <4> QED BY <1>0, <3>1, <4>1
    <3> QED BY <3>1, <3>2, <3>3
  <2> QED BY <2>2, <2>3, OurStreamsStep
<1>2. OpensCounted'
  <2> SUFFICES ASSUME ~InMemory, NEW k \in Kinds
               PROVE  opened'[k] = Cardinality(OurStreams(k)')
    BY DEF OpensCounted
  <2>1. active /\ opened[k] = Cardinality(OurStreams(k)) /\ opened \in [Kinds -> Nat]
    BY DEF ActiveOnceGranted, OpensCounted, TypeOK
  <2>2. CASE opened' = opened /\ OurStreams(k)' = OurStreams(k)
    BY <2>1, <2>2
  <2>3. ASSUME NEW kind \in Kinds,
               opened' = IF active THEN [opened EXCEPT ![kind] = @ + 1] ELSE opened,
               \A j \in Kinds : j # kind => OurStreams(j)' = OurStreams(j),
               Cardinality(OurStreams(kind)') = Cardinality(OurStreams(kind)) + 1
        PROVE  opened'[k] = Cardinality(OurStreams(k)')
    BY <2>1, <2>3
  <2> QED BY <2>2, <2>3, OurStreamsStep
<1> QED BY <1>1, <1>2

-----------------------------------------------------------------------------
(* Charges match the wire.                                                 *)

(* What goroutines hold is a function HeldFunctions covers.                *)
LEMMA HeldTypes ==
    ASSUME TypeOK
    PROVE  Held \in HeldFunctions /\ \A id \in StreamIDs : HeldOn(id) \in HeldFunctions
<1>1. 0 \in 0 .. MaxWrite
  BY ConstantsAssumption
<1>2. Held \in HeldFunctions
  BY <1>1 DEF Held, HeldFunctions, TypeOK
<1> QED
  BY <1>1, <1>2 DEF HeldOn, HeldFunctions

(* The same after the step.                                                *)
LEMMA HeldTypesPrimed ==
    ASSUME TypeOK'
    PROVE  Held' \in HeldFunctions
           /\ \A id \in StreamIDs : HeldOn(id)' \in HeldFunctions
<1>1. 0 \in 0 .. MaxWrite
  BY ConstantsAssumption
<1>2. Held' \in HeldFunctions
  BY <1>1 DEF Held, HeldFunctions, TypeOK
<1> QED
  BY <1>1, <1>2 DEF HeldOn, HeldFunctions

(* The sums of held bytes are natural numbers after the step.              *)
LEMMA TotalPrimed ==
    ASSUME TypeOK'
    PROVE  /\ Total(Held)' \in Nat
           /\ \A id \in StreamIDs : Total(HeldOn(id))' \in Nat
<1>1. /\ Total(Held)' = Total(Held')
      /\ \A id \in StreamIDs : Total(HeldOn(id))' = Total(HeldOn(id)')
  BY DEF Total
<1> QED
  BY <1>1, HeldTypesPrimed, TotalType

(* What a goroutine charges, or settles, moves every sum by the same       *)
(* number of bytes: from held0 to held1, on its own stream only.           *)
LEMMA HeldMoves ==
    ASSUME NEW f \in HeldFunctions, NEW h \in HeldFunctions, NEW g \in Goroutines,
           f[g] = 0, \A j \in Goroutines : j # g => h[j] = f[j]
    PROVE  Total(h) = Total(f) + h[g] /\ Total(f) \in Nat /\ h[g] \in Nat
<1>1. h = [f EXCEPT ![g] = h[g]]
  BY DEF HeldFunctions
<1>2. h[g] \in 0 .. MaxWrite /\ h[g] \in Nat
  BY ConstantsAssumption DEF HeldFunctions
<1> QED
  BY <1>1, <1>2, TotalUpdate, TotalType

(* Steps after which every goroutine holds what it held.                   *)
LEMMA HeldKept ==
    ASSUME TypeOK, TypeOK', NEW G \in SUBSET Goroutines,
           \A j \in Goroutines \ G : pc'[j] = pc[j] /\ callID'[j] = callID[j]
                                     /\ callLen'[j] = callLen[j],
           \A j \in G : /\ pc[j] \notin {"send", "refund"} \/ callLen[j] = 0
                        /\ pc'[j] \notin {"send", "refund"} \/ callLen'[j] = 0
    PROVE  Held' = Held /\ \A id \in StreamIDs : HeldOn(id)' = HeldOn(id)
<1>1. \A j \in Goroutines : Held'[j] = Held[j]
  BY DEF Held
<1>2. \A id \in StreamIDs : \A j \in Goroutines : HeldOn(id)'[j] = HeldOn(id)[j]
  <2> SUFFICES ASSUME NEW id \in StreamIDs, NEW j \in Goroutines
               PROVE  HeldOn(id)'[j] = HeldOn(id)[j]
    OBVIOUS
  <2>1. HeldOn(id)[j] = IF callID[j] = id THEN Held[j] ELSE 0
    BY DEF HeldOn
  <2>2. HeldOn(id)'[j] = IF callID'[j] = id THEN Held'[j] ELSE 0
    BY DEF HeldOn
  <2>3. CASE j \in G
    <3>1. Held[j] = 0
      BY <2>3 DEF Held
    <3> QED BY <2>1, <2>2, <3>1, <1>1
  <2>4. CASE j \notin G
    BY <2>1, <2>2, <2>4, <1>1
  <2> QED BY <2>3, <2>4
<1> QED
  BY <1>1, <1>2 DEF Held, HeldOn

(* A step that moves no byte keeps charges and wire in agreement.          *)
LEMMA ChargeKept ==
    ASSUME ChargeMatchesWire, Held' = Held,
           \A id \in StreamIDs : HeldOn(id)' = HeldOn(id),
           UNCHANGED <<dataSent, streamSent, wireData, wireStream>>
    PROVE  ChargeMatchesWire'
<1>1. /\ Total(Held)' = Total(Held)
      /\ \A id \in StreamIDs : Total(HeldOn(id))' = Total(HeldOn(id))
  BY DEF Total
<1> QED
  BY <1>1 DEF ChargeMatchesWire

(* One goroutine moves from holding nothing to holding n bytes on its      *)
(* stream, or back: seen from the side on which it holds nothing.          *)
LEMMA HeldByOne ==
    ASSUME TypeOK, TypeOK', NEW g \in Goroutines,
           \A j \in Goroutines : j # g => pc'[j] = pc[j] /\ callID'[j] = callID[j]
                                          /\ callLen'[j] = callLen[j]
    PROVE  /\ Held[g] = 0 =>
              /\ Total(Held)' = Total(Held) + Held'[g]
              /\ \A id \in StreamIDs :
                     Total(HeldOn(id))' = Total(HeldOn(id))
                                          + (IF callID'[g] = id THEN Held'[g] ELSE 0)
           /\ Held'[g] = 0 =>
              /\ Total(Held) = Total(Held)' + Held[g]
              /\ \A id \in StreamIDs :
                     Total(HeldOn(id)) = Total(HeldOn(id))'
                                         + (IF callID[g] = id THEN Held[g] ELSE 0)
<1>1. /\ Held \in HeldFunctions /\ Held' \in HeldFunctions
      /\ \A id \in StreamIDs : HeldOn(id) \in HeldFunctions /\ HeldOn(id)' \in HeldFunctions
  <2>1. Held \in HeldFunctions /\ \A id \in StreamIDs : HeldOn(id) \in HeldFunctions
    BY HeldTypes
  <2>2. Held' \in HeldFunctions /\ \A id \in StreamIDs : HeldOn(id)' \in HeldFunctions
    BY HeldTypesPrimed
  <2> QED BY <2>1, <2>2
<1>2. \A j \in Goroutines : j # g => Held'[j] = Held[j]
  BY DEF Held
<1>3. \A id \in StreamIDs, j \in Goroutines :
          /\ HeldOn(id)[j] = IF callID[j] = id THEN Held[j] ELSE 0
          /\ HeldOn(id)'[j] = IF callID'[j] = id THEN Held'[j] ELSE 0
  BY DEF HeldOn
<1>4. /\ Total(Held)' = Total(Held')
      /\ \A id \in StreamIDs : Total(HeldOn(id))' = Total(HeldOn(id)')
  BY DEF Total
<1>5. ASSUME Held[g] = 0
      PROVE  /\ Total(Held)' = Total(Held) + Held'[g]
             /\ \A id \in StreamIDs :
                    Total(HeldOn(id))' = Total(HeldOn(id))
                                         + (IF callID'[g] = id THEN Held'[g] ELSE 0)
  <2>1. Total(Held') = Total(Held) + Held'[g]
    BY <1>1, <1>2, <1>5, HeldMoves
  <2>2. ASSUME NEW id \in StreamIDs
        PROVE  Total(HeldOn(id)') = Total(HeldOn(id)) + HeldOn(id)'[g]
    <3>1. HeldOn(id)[g] = 0 /\ \A j \in Goroutines : j # g => HeldOn(id)'[j] = HeldOn(id)[j]
      BY <1>2, <1>3, <1>5
    <3> QED BY <1>1, <3>1, HeldMoves
  <2> QED BY <1>3, <1>4, <2>1, <2>2
<1>6. ASSUME Held'[g] = 0
      PROVE  /\ Total(Held) = Total(Held)' + Held[g]
             /\ \A id \in StreamIDs :
                    Total(HeldOn(id)) = Total(HeldOn(id))'
                                        + (IF callID[g] = id THEN Held[g] ELSE 0)
  <2>1. Total(Held) = Total(Held') + Held[g]
    BY <1>1, <1>2, <1>6, HeldMoves
  <2>2. ASSUME NEW id \in StreamIDs
        PROVE  Total(HeldOn(id)) = Total(HeldOn(id)') + HeldOn(id)[g]
    <3>1. HeldOn(id)'[g] = 0 /\ \A j \in Goroutines : j # g => HeldOn(id)[j] = HeldOn(id)'[j]
      BY <1>2, <1>3, <1>6
    <3> QED BY <1>1, <3>1, HeldMoves
  <2> QED BY <1>3, <1>4, <2>1, <2>2
<1> QED
  BY <1>5, <1>6

(* Reserve, capsule write, failed write and refund keep them too.          *)
LEMMA ChargeStep ==
    TypeOK /\ ActiveOnceGranted /\ ChargeMatchesWire /\ [Next]_vars
        => ChargeMatchesWire'
<1> SUFFICES ASSUME TypeOK, ~InMemory, active, ChargeMatchesWire, [Next]_vars
             PROVE  ChargeMatchesWire'
  BY DEF ActiveOnceGranted, ChargeMatchesWire
<1>t. TypeOK'
  BY TypeStep
<1> USE DEF limitVars, spentVars, wireVars, callVars, Goto
<1>1. ASSUME NEW g \in Goroutines,
             \/ \E kind \in Kinds : OpenStream(g, kind)
             \/ allocLocalStream(g)
             \/ \E id \in StreamIDs, n \in 0 .. MaxWrite : Write(g, id, n)
             \/ \E id \in StreamIDs : Close(g, id)
             \/ markClosed(g)
             \/ writeFinCapsule(g)
      PROVE  ChargeMatchesWire'
  <2>1. UNCHANGED <<dataSent, streamSent, wireData, wireStream>>
    BY <1>1 DEF OpenStream, allocLocalStream, refusedOpen, Write, Close,
                markClosed, writeFinCapsule
  <2>2. /\ pc[g] \notin {"send", "refund"} /\ pc'[g] \notin {"send", "refund"}
        /\ \A j \in Goroutines \ {g} : /\ pc'[j] = pc[j]
                                       /\ callID'[j] = callID[j]
                                       /\ callLen'[j] = callLen[j]
    BY <1>1 DEF OpenStream, allocLocalStream, Write, mayCall, Close, markClosed,
                writeFinCapsule, Return, TypeOK
  <2>3. Held' = Held /\ \A id \in StreamIDs : HeldOn(id)' = HeldOn(id)
    BY <1>t, <2>2, HeldKept, {g} \in SUBSET Goroutines
  <2> QED BY <2>1, <2>3, ChargeKept
<1>2. ASSUME UNCHANGED callVars,
             UNCHANGED <<dataSent, streamSent, wireData, wireStream>>
      PROVE  ChargeMatchesWire'
  BY <1>2, ChargeKept DEF Held, HeldOn
<1>3. ASSUME \/ \E max \in Nat : raiseMaxData(max)
             \/ \E id \in StreamIDs, max \in Nat : raiseMaxStreamData(id, max)
             \/ \E kind \in Kinds, max \in Nat : raiseMaxStreams(kind, max)
             \/ \E id \in StreamIDs : acceptPeerStream(id)
             \/ SessionClose \/ ReadLoopEnds \/ ConnectStreamEnds \/ UNCHANGED vars
      PROVE  ChargeMatchesWire'
  BY <1>2, <1>3
     DEF raiseMaxData, raiseMaxStreamData, raiseMaxStreams, acceptPeerStream,
         UnchangedByReadLoop, SessionClose, ReadLoopEnds, ConnectStreamEnds, vars
<1>4. ASSUME NEW g \in Goroutines, writeStreamCapsuleFails(g)
      PROVE  ChargeMatchesWire'
  <2>1. /\ UNCHANGED <<dataSent, streamSent, wireData, wireStream, callID, callLen>>
        /\ pc[g] = "send" /\ pc' = [pc EXCEPT ![g] = "refund"]
    BY <1>4 DEF writeStreamCapsuleFails
  <2>2. Held' = Held
    BY <2>1 DEF Held, TypeOK
  <2>3. \A id \in StreamIDs : HeldOn(id)' = HeldOn(id)
    BY <2>1, <2>2 DEF HeldOn
  <2> QED BY <2>1, <2>2, <2>3, ChargeKept
<1>5. ASSUME NEW g \in Goroutines, reserveSendData(g)
      PROVE  ChargeMatchesWire'
  <2>0. /\ callID[g] \in StreamIDs /\ callLen[g] \in Nat /\ pc[g] = "reserve"
        /\ UNCHANGED <<wireData, wireStream>>
    BY <1>5, ConstantsAssumption DEF reserveSendData, TypeOK
  <2>1. CASE /\ callLen[g] = 0
             /\ pc' = [pc EXCEPT ![g] = "send"]
             /\ UNCHANGED <<dataSent, streamSent, callKind, callID, callLen>>
    <3>1. Held' = Held /\ \A id \in StreamIDs : HeldOn(id)' = HeldOn(id)
      <4>1. Held' = Held
        BY <2>0, <2>1 DEF Held, TypeOK
      <4> QED BY <2>1, <4>1 DEF HeldOn
    <3> QED BY <2>0, <2>1, <3>1, ChargeKept
  <2>2. CASE Return(g) /\ UNCHANGED <<dataSent, streamSent>>
    <3>1. /\ pc'[g] = "idle"
          /\ \A j \in Goroutines \ {g} : /\ pc'[j] = pc[j]
                                         /\ callID'[j] = callID[j]
                                         /\ callLen'[j] = callLen[j]
      BY <2>2 DEF Return, TypeOK
    <3>2. Held' = Held /\ \A id \in StreamIDs : HeldOn(id)' = HeldOn(id)
      BY <1>t, <2>0, <3>1, HeldKept, {g} \in SUBSET Goroutines
    <3> QED BY <2>0, <2>2, <3>2, ChargeKept
  <2>3. CASE /\ pc' = [pc EXCEPT ![g] = "send"]
             /\ dataSent' = dataSent + callLen[g]
             /\ streamSent' = [streamSent EXCEPT ![callID[g]] = @ + callLen[g]]
             /\ UNCHANGED <<callKind, callID, callLen>>
    <3>1. \A j \in Goroutines : j # g => /\ pc'[j] = pc[j]
                                         /\ callID'[j] = callID[j]
                                         /\ callLen'[j] = callLen[j]
      BY <2>3 DEF TypeOK
    <3>2. Held[g] = 0 /\ Held'[g] = callLen[g]
      BY <2>0, <2>3 DEF Held, TypeOK
    <3>3. /\ Total(Held)' = Total(Held) + callLen[g]
          /\ \A id \in StreamIDs :
                 Total(HeldOn(id))' = Total(HeldOn(id))
                                      + (IF callID[g] = id THEN callLen[g] ELSE 0)
      BY <1>t, <2>3, <3>1, <3>2, HeldByOne
    <3>4. /\ Total(Held) \in Nat
          /\ \A id \in StreamIDs : Total(HeldOn(id)) \in Nat
      BY HeldTypes, TotalType
    <3>5. dataSent' = wireData' + Total(Held)'
      BY <2>0, <2>3, <3>3, <3>4 DEF ChargeMatchesWire, TypeOK
    <3>6. ASSUME NEW id \in StreamIDs
          PROVE  streamSent'[id] = wireStream'[id] + Total(HeldOn(id))'
      <4>1. /\ streamSent[id] = wireStream[id] + Total(HeldOn(id))
            /\ wireStream[id] \in Nat /\ streamSent \in [StreamIDs -> Nat]
        BY DEF ChargeMatchesWire, TypeOK
      <4> QED BY <2>0, <2>3, <3>3, <3>4, <4>1
    <3> QED BY <3>5, <3>6 DEF ChargeMatchesWire
  <2> QED
    BY <1>5, <2>0, <2>1, <2>2, <2>3 DEF reserveSendData
<1>6. ASSUME NEW g \in Goroutines, writeStreamCapsule(g) \/ refundSendData(g)
      PROVE  ChargeMatchesWire'
  <2> DEFINE n == callLen[g]
  <2>0. callID[g] \in StreamIDs /\ n \in Nat /\ pc[g] \in {"send", "refund"}
    <3>1. pc[g] \in {"send", "refund"}
      BY <1>6 DEF writeStreamCapsule, refundSendData
    <3>2. callID[g] \in StreamIDs /\ n \in Nat
      BY ConstantsAssumption DEF TypeOK
    <3> QED BY <3>1, <3>2
  <2>1. /\ pc'[g] = "idle"
        /\ \A j \in Goroutines : j # g => /\ pc'[j] = pc[j]
                                          /\ callID'[j] = callID[j]
                                          /\ callLen'[j] = callLen[j]
    BY <1>6 DEF writeStreamCapsule, refundSendData, Return, TypeOK
  <2>2. Held[g] = n /\ Held'[g] = 0
    BY <2>0, <2>1 DEF Held
  <2>3. /\ Total(Held) = Total(Held)' + n
        /\ \A id \in StreamIDs :
               Total(HeldOn(id)) = Total(HeldOn(id))'
                                   + (IF callID[g] = id THEN n ELSE 0)
    BY <1>t, <2>1, <2>2, HeldByOne
  <2>4. /\ Total(Held)' \in Nat
        /\ \A id \in StreamIDs : Total(HeldOn(id))' \in Nat
    BY <1>t, TotalPrimed
  <2>5. CASE writeStreamCapsule(g)
    <3>1. /\ wireData' = wireData + n
          /\ wireStream' = [wireStream EXCEPT ![callID[g]] = @ + n]
          /\ UNCHANGED <<dataSent, streamSent>>
      BY <2>5 DEF writeStreamCapsule
    <3>2. dataSent' = wireData' + Total(Held)'
      BY <2>0, <2>3, <2>4, <3>1 DEF ChargeMatchesWire, TypeOK
    <3>3. ASSUME NEW id \in StreamIDs
          PROVE  streamSent'[id] = wireStream'[id] + Total(HeldOn(id))'
      <4>1. /\ streamSent[id] = wireStream[id] + Total(HeldOn(id))
            /\ wireStream \in [StreamIDs -> Nat]
        BY DEF ChargeMatchesWire, TypeOK
      <4> QED BY <2>0, <2>3, <2>4, <3>1, <4>1
    <3> QED BY <3>2, <3>3 DEF ChargeMatchesWire
  <2>6. CASE refundSendData(g)
    <3>1. /\ dataSent = wireData + Total(Held)
          /\ streamSent[callID[g]] = wireStream[callID[g]] + Total(HeldOn(callID[g]))
          /\ wireData \in Nat /\ wireStream \in [StreamIDs -> Nat]
          /\ dataSent \in Nat /\ streamSent \in [StreamIDs -> Nat]
      BY <2>0 DEF ChargeMatchesWire, TypeOK
    <3>2. dataSent >= n /\ streamSent[callID[g]] >= n
      BY <2>0, <2>3, <2>4, <3>1
    <3>3. /\ dataSent' = dataSent - n
          /\ streamSent' = [streamSent EXCEPT ![callID[g]] = @ - n]
          /\ UNCHANGED <<wireData, wireStream>>
      <4>1. CASE n = 0
        BY <2>6, <4>1, <3>1 DEF refundSendData
      <4>2. CASE n # 0
        BY <2>6, <4>2, <3>2 DEF refundSendData, refunded
      <4> QED BY <4>1, <4>2
    <3>4. dataSent' = wireData' + Total(Held)'
      BY <2>0, <2>3, <2>4, <3>1, <3>3
    <3>5. ASSUME NEW id \in StreamIDs
          PROVE  streamSent'[id] = wireStream'[id] + Total(HeldOn(id))'
      <4>1. streamSent[id] = wireStream[id] + Total(HeldOn(id))
        BY DEF ChargeMatchesWire
      <4> QED BY <2>0, <2>3, <2>4, <3>1, <3>3, <4>1
    <3> QED BY <3>4, <3>5 DEF ChargeMatchesWire
  <2> QED BY <1>6, <2>5, <2>6
<1> QED
  BY NextCases, <1>1, <1>3, <1>4, <1>5, <1>6

-----------------------------------------------------------------------------
(* The invariant holds.                                                    *)

(* The inductive invariant holds initially.                                *)
LEMMA InvInit == Init => IInv
<1> SUFFICES ASSUME Init PROVE IInv
  OBVIOUS
<1>1. TypeOK
  BY TypeInit
<1>2. ActiveOnceGranted
  BY DEF Init, ActiveOnceGranted, adoptPeerSendLimits
<1>3. NoLimitWithoutEntry /\ OurIDsBelowCounter
  BY DEF Init, NoLimitWithoutEntry, OurIDsBelowCounter
<1>4. SpentWithinGrant
  <2>1. maxData \in Nat /\ maxStreams \in [Kinds -> Nat]
    BY <1>1 DEF TypeOK
  <2> QED BY <2>1 DEF Init, SpentWithinGrant
<1>5. OpensCounted
  <2>1. \A kind \in Kinds : OurStreams(kind) = {}
    BY DEF Init, OurStreams
  <2>2. \A kind \in Kinds : Cardinality(OurStreams(kind)) = 0
    BY <2>1, FS_EmptySet
  <2> QED BY <2>2 DEF Init, OpensCounted
<1>6. ChargeMatchesWire
  <2>1. Total([g \in Goroutines |-> 0]) = 0
    <3> DEFINE Z == [g \in Goroutines |-> 0]
               B == {b \in Goroutines \X (1 .. MaxWrite) : b[2] <= Z[b[1]]}
    <3>1. MaxWrite \in Nat
      BY ConstantsAssumption
    <3>2. B = {}
      BY <3>1
    <3>3. Total(Z) = Cardinality(B)
      BY DEF Total
    <3> QED BY <3>2, <3>3, FS_EmptySet
  <2>2. Held = [g \in Goroutines |-> 0]
    BY DEF Init, Held
  <2>3. \A id \in StreamIDs : HeldOn(id) = [g \in Goroutines |-> 0]
    BY <2>2 DEF HeldOn
  <2> QED BY <2>1, <2>2, <2>3 DEF Init, ChargeMatchesWire
<1> QED
  BY <1>1, <1>2, <1>3, <1>4, <1>5, <1>6 DEF IInv

(* The inductive invariant is preserved by every step.                     *)
LEMMA InvStep == IInv /\ [Next]_vars => IInv'
  BY TypeStep, ActiveStep, NoLimitStep, SpentStep, OpensStep, ChargeStep DEF IInv

(* Hence it holds always.                                                  *)
LEMMA Invariance == Spec => []IInv
<1>1. Init => IInv
  BY InvInit
<1>2. IInv /\ [Next]_vars => IInv'
  BY InvStep
<1> QED
  BY <1>1, <1>2, PTL DEF Spec

(* The peer was sent no more than is charged.                              *)
LEMMA WireBelowCharge ==
    ASSUME IInv, ~InMemory
    PROVE  wireData <= dataSent /\ \A id \in StreamIDs : wireStream[id] <= streamSent[id]
<1>1. /\ Total(Held) \in Nat
      /\ \A id \in StreamIDs : Total(HeldOn(id)) \in Nat
  BY HeldTypes, TotalType DEF IInv
<1>2. wireData \in Nat /\ wireStream \in [StreamIDs -> Nat]
  BY DEF IInv, TypeOK
<1> QED
  BY <1>1, <1>2 DEF IInv, ChargeMatchesWire

(* The same after the step.                                                *)
LEMMA WireBelowChargePrimed ==
    ASSUME IInv', ~InMemory
    PROVE  wireData' <= dataSent'
           /\ \A id \in StreamIDs : wireStream'[id] <= streamSent'[id]
<1>1. /\ Total(Held)' \in Nat
      /\ \A id \in StreamIDs : Total(HeldOn(id))' \in Nat
  BY TotalPrimed DEF IInv
<1>2. wireData' \in Nat /\ wireStream' \in [StreamIDs -> Nat]
  BY DEF IInv, TypeOK
<1> QED
  BY <1>1, <1>2 DEF IInv, ChargeMatchesWire

(* What the code records as spent is what the peer was sent plus what      *)
(* calls in progress hold (reserveSendData, refundSendData and Write).     *)
THEOREM ChargesExact == Spec => []ChargeMatchesWire
<1>1. IInv => ChargeMatchesWire
  BY DEF IInv
<1> QED
  BY <1>1, Invariance, PTL

(* The peer is never sent stream payload beyond its grant (Write, and      *)
(* reserveSendData before it).                                             *)
THEOREM SentWithinGrant == Spec => []WireWithinGrant
<1>1. IInv => WireWithinGrant
  <2> SUFFICES ASSUME IInv, ~InMemory
               PROVE  /\ wireData <= maxData
                      /\ \A id \in StreamIDs : wireStream[id] <= streamMax[id]
    BY DEF WireWithinGrant
  <2>1. /\ dataSent <= maxData
        /\ \A id \in StreamIDs : streamSent[id] <= streamMax[id]
    BY DEF IInv, SpentWithinGrant
  <2>2. /\ wireData \in Nat /\ dataSent \in Nat /\ maxData \in Nat
        /\ wireStream \in [StreamIDs -> Nat] /\ streamSent \in [StreamIDs -> Nat]
        /\ streamMax \in [StreamIDs -> Nat]
    BY DEF IInv, TypeOK
  <2> QED BY <2>1, <2>2, WireBelowCharge
<1> QED
  BY <1>1, Invariance, PTL

(* No more streams of a kind are opened than the peer granted              *)
(* (allocLocalStream).                                                     *)
THEOREM OpenedWithinGrant == Spec => []OpensWithinGrant
<1>1. IInv => OpensWithinGrant
  BY DEF IInv, SpentWithinGrant, OpensCounted, OpensWithinGrant
<1> QED
  BY <1>1, Invariance, PTL

(* Stream IDs leave no gap and are not reused (nextStreamID, called under  *)
(* limits.mu after the credit check of allocLocalStream).                  *)
THEOREM DenseIDs == Spec => []IDsDense
<1>1. Init => IDsDense
  <2> SUFFICES ASSUME Init PROVE IDsDense
    OBVIOUS
  <2>1. OurStreams("uni") = {} /\ OurStreams("bidi") = {}
    BY DEF Init, OurStreams
  <2> QED BY <2>1, FS_EmptySet DEF Init, IDsDense
<1>2. IInv /\ IDsDense /\ [Next]_vars => IDsDense'
  <2> SUFFICES ASSUME IInv, IDsDense, [Next]_vars PROVE IDsDense'
    OBVIOUS
  <2>1. /\ TypeOK /\ OurIDsBelowCounter
        /\ createdStreamCounter \in Nat
        /\ Cardinality(OurStreams("uni")) \in Nat
        /\ Cardinality(OurStreams("bidi")) \in Nat
    BY CounterNat, OurStreamsFinite DEF IInv
  <2>2. CASE /\ createdStreamCounter' = createdStreamCounter
             /\ \A kind \in Kinds : OurStreams(kind)' = OurStreams(kind)
    BY <2>2 DEF IDsDense, Kinds
  <2>3. ASSUME NEW kind \in Kinds,
               createdStreamCounter' = createdStreamCounter + 4,
               \A k \in Kinds : k # kind => OurStreams(k)' = OurStreams(k),
               Cardinality(OurStreams(kind)') = Cardinality(OurStreams(kind)) + 1
        PROVE  IDsDense'
    <3>1. CASE kind = "uni"
      BY <2>1, <2>3, <3>1 DEF IDsDense, Kinds
    <3>2. CASE kind = "bidi"
      BY <2>1, <2>3, <3>2 DEF IDsDense, Kinds
    <3> QED BY <3>1, <3>2 DEF Kinds
  <2> QED BY <2>1, <2>2, <2>3, OurStreamsStep
<1> QED
  BY <1>1, <1>2, Invariance, PTL DEF Spec

-----------------------------------------------------------------------------
(* FIN is the last of a stream.                                            *)

InCall(g) == pc[g] \notin {"idle", "opening"}

Writing(g) == pc[g] \in {"reserve", "send", "refund"}

(* On a stream whose calls do not overlap one goroutine is in a call.      *)
LoneCaller ==
    \A g, h \in Goroutines :
        InCall(g) /\ InCall(h) /\ callID[g] = callID[h] /\ callID[g] \in SerialIDs => g = h

(* So no Write is under way once closed is set, and it is set before FIN.  *)
ClosedFirst ==
    /\ \A g \in Goroutines : Writing(g) /\ callID[g] \in SerialIDs => ~closed[callID[g]]
    /\ \A g \in Goroutines : pc[g] = "fin" => closed[callID[g]]
    /\ \A id \in wireFin : closed[id]

SerialInv == LoneCaller /\ ClosedFirst

(* A call that returns or only moves on leaves the others alone.           *)
LEMMA SerialOther ==
    ASSUME TypeOK, SerialInv, NEW g \in Goroutines, UNCHANGED <<closed, wireFin>>,
           \A h \in Goroutines \ {g} : pc'[h] = pc[h] /\ callID'[h] = callID[h],
           \/ pc'[g] \in {"idle", "opening"}
           \/ /\ callID'[g] = callID[g] /\ Writing(g)
              /\ pc'[g] \in {"send", "refund"}
    PROVE  SerialInv'
<1> USE DEF InCall, Writing
<1>1. LoneCaller'
  BY DEF SerialInv, LoneCaller
<1>2. ClosedFirst'
  BY DEF SerialInv, ClosedFirst
<1> QED
  BY <1>1, <1>2 DEF SerialInv

LEMMA SerialStep == TypeOK /\ SerialInv /\ [Next]_vars => SerialInv'
<1> SUFFICES ASSUME TypeOK, SerialInv, [Next]_vars PROVE SerialInv'
  OBVIOUS
<1> USE DEF limitVars, spentVars, callVars, wireVars, connVars, Goto, Return
<1>1. ASSUME NEW g \in Goroutines,
             \/ \E kind \in Kinds : OpenStream(g, kind)
             \/ allocLocalStream(g) \/ reserveSendData(g) \/ writeStreamCapsule(g)
             \/ writeStreamCapsuleFails(g) \/ refundSendData(g)
      PROVE  SerialInv'
  <2>1. UNCHANGED <<closed, wireFin>>
    BY <1>1 DEF OpenStream, allocLocalStream, reserveSendData, writeStreamCapsule,
                writeStreamCapsuleFails, refundSendData
  <2>2. \A h \in Goroutines \ {g} : pc'[h] = pc[h] /\ callID'[h] = callID[h]
    BY <1>1 DEF OpenStream, allocLocalStream, reserveSendData, writeStreamCapsule,
                writeStreamCapsuleFails, refundSendData, TypeOK
  <2>3. \/ pc'[g] \in {"idle", "opening"}
        \/ callID'[g] = callID[g] /\ Writing(g) /\ pc'[g] \in {"send", "refund"}
    BY <1>1 DEF OpenStream, allocLocalStream, reserveSendData, writeStreamCapsule,
                writeStreamCapsuleFails, refundSendData, TypeOK, Writing
  <2> QED BY <2>1, <2>2, <2>3, SerialOther
<1>2. ASSUME NEW g \in Goroutines, NEW id \in StreamIDs,
             Close(g, id) \/ \E n \in 0 .. MaxWrite : Write(g, id, n)
      PROVE  SerialInv'
  <2>1. /\ UNCHANGED <<closed, wireFin>> /\ ~closed[id] /\ mayCall(g, id)
        /\ pc'[g] \in {"reserve", "mark"} /\ callID'[g] = id
    BY <1>2 DEF Close, Write, writable, TypeOK
  <2>2. \A h \in Goroutines \ {g} : pc'[h] = pc[h] /\ callID'[h] = callID[h]
    BY <1>2 DEF Close, Write, TypeOK
  <2>3. id \in SerialIDs => \A h \in Goroutines : InCall(h) => callID[h] # id
    BY <2>1 DEF mayCall, InCall
  <2>4. LoneCaller'
    BY <2>1, <2>2, <2>3 DEF SerialInv, LoneCaller, InCall
  <2>5. ClosedFirst'
    BY <2>1, <2>2 DEF SerialInv, ClosedFirst, Writing
  <2> QED BY <2>4, <2>5 DEF SerialInv
<1>3. ASSUME NEW g \in Goroutines, markClosed(g)
      PROVE  SerialInv'
  <2>1. /\ pc[g] = "mark" /\ pc'[g] = "fin" /\ UNCHANGED <<callID, wireFin>>
        /\ \A h \in Goroutines \ {g} : pc'[h] = pc[h]
        /\ closed'[callID[g]] /\ callID[g] \in StreamIDs
        /\ \A id \in StreamIDs \ {callID[g]} : closed'[id] = closed[id]
    BY <1>3 DEF markClosed, TypeOK
  <2>2. LoneCaller'
    BY <2>1 DEF SerialInv, LoneCaller, InCall
  <2>3. \A h \in Goroutines : Writing(h) /\ callID[h] \in SerialIDs => callID[h] # callID[g]
    <3>1. InCall(g) /\ \A h \in Goroutines : Writing(h) => InCall(h) /\ h # g
      BY <2>1 DEF InCall, Writing
    <3> QED BY <3>1 DEF SerialInv, LoneCaller
  <2>4. callID \in [Goroutines -> StreamIDs] /\ wireFin \subseteq StreamIDs
    BY DEF TypeOK
  <2>5. \A h \in Goroutines : Writing(h)' /\ callID[h] \in SerialIDs => ~closed'[callID[h]]
    <3> SUFFICES ASSUME NEW h \in Goroutines, Writing(h)', callID[h] \in SerialIDs
                 PROVE  ~closed'[callID[h]]
      OBVIOUS
    <3>1. Writing(h)
      BY <2>1 DEF Writing
    <3>2. callID[h] # callID[g] /\ ~closed[callID[h]] /\ callID[h] \in StreamIDs
      BY <2>3, <2>4, <3>1 DEF SerialInv, ClosedFirst
    <3> QED BY <2>1, <3>2
  <2>6. \A h \in Goroutines : pc'[h] = "fin" => closed'[callID[h]]
    BY <2>1, <2>4 DEF SerialInv, ClosedFirst
  <2>7. \A id \in wireFin : closed'[id]
    BY <2>1, <2>4 DEF SerialInv, ClosedFirst
  <2>8. ClosedFirst'
    BY <2>1, <2>5, <2>6, <2>7 DEF ClosedFirst
  <2> QED BY <2>2, <2>8 DEF SerialInv
<1>4. ASSUME NEW g \in Goroutines, writeFinCapsule(g)
      PROVE  SerialInv'
  <2>1. /\ pc[g] = "fin" /\ pc'[g] = "idle" /\ UNCHANGED closed
        /\ \A h \in Goroutines \ {g} : pc'[h] = pc[h] /\ callID'[h] = callID[h]
        /\ wireFin' \subseteq wireFin \cup {callID[g]}
    BY <1>4 DEF writeFinCapsule, TypeOK
  <2>2. LoneCaller'
    BY <2>1 DEF SerialInv, LoneCaller, InCall
  <2>3. ClosedFirst'
    BY <2>1 DEF SerialInv, ClosedFirst, Writing
  <2> QED BY <2>2, <2>3 DEF SerialInv
<1>5. ASSUME UNCHANGED <<pc, callID, closed, wireFin>>
      PROVE  SerialInv'
  BY <1>5 DEF SerialInv, LoneCaller, ClosedFirst, InCall, Writing
<1>6. ASSUME \/ \E max \in Nat : raiseMaxData(max)
             \/ \E id \in StreamIDs, max \in Nat : raiseMaxStreamData(id, max)
             \/ \E kind \in Kinds, max \in Nat : raiseMaxStreams(kind, max)
             \/ \E id \in StreamIDs : acceptPeerStream(id)
             \/ SessionClose \/ ReadLoopEnds \/ ConnectStreamEnds \/ UNCHANGED vars
      PROVE  UNCHANGED <<pc, callID, closed, wireFin>>
  BY <1>6 DEF raiseMaxData, raiseMaxStreamData, raiseMaxStreams, acceptPeerStream,
              UnchangedByReadLoop, SessionClose, ReadLoopEnds, ConnectStreamEnds, vars
<1> QED
  BY NextCases, <1>1, <1>2, <1>3, <1>4, <1>5, <1>6

(* No payload follows a FIN, on a stream whose calls do not overlap: Close *)
(* sets closed before it writes the FIN, and Write looks at it before it   *)
(* reserves credit (Write and Close, stream.go).                           *)
THEOREM FinLast == Spec => FinIsLast
<1>1. Init => SerialInv
  BY DEF Init, SerialInv, LoneCaller, ClosedFirst, InCall, Writing
<1>2. TypeOK /\ SerialInv /\ [Next]_vars => SerialInv'
  BY SerialStep
<1>3. TypeOK /\ SerialInv /\ [Next]_vars =>
         [\A id \in wireFin \cap SerialIDs : wireStream'[id] = wireStream[id]]_vars
  <2> SUFFICES ASSUME TypeOK, SerialInv, [Next]_vars,
                      NEW id \in wireFin \cap SerialIDs
               PROVE  wireStream'[id] = wireStream[id]
    OBVIOUS
  <2> USE DEF limitVars, spentVars, callVars, wireVars, connVars
  <2>1. ASSUME NEW g \in Goroutines, writeStreamCapsule(g)
        PROVE  wireStream'[id] = wireStream[id]
    <3>1. /\ Writing(g)
          /\ wireStream' = [wireStream EXCEPT ![callID[g]] = @ + callLen[g]]
      BY <2>1 DEF writeStreamCapsule, Writing
    <3>2. closed[id]
      BY DEF SerialInv, ClosedFirst
    <3>3. callID[g] # id
      BY <3>1, <3>2 DEF SerialInv, ClosedFirst
    <3> QED BY <3>1, <3>3 DEF TypeOK
  <2>2. (~\E g \in Goroutines : writeStreamCapsule(g)) => wireStream' = wireStream
    BY NextCases
       DEF OpenStream, allocLocalStream, Write, reserveSendData, writeStreamCapsuleFails,
           refundSendData, Close, markClosed, writeFinCapsule, raiseMaxData,
           raiseMaxStreamData, raiseMaxStreams, acceptPeerStream, UnchangedByReadLoop,
           SessionClose, ReadLoopEnds, ConnectStreamEnds, vars
  <2> QED BY <2>1, <2>2
<1> QED
  BY <1>1, <1>2, <1>3, TypeCorrect, PTL DEF Spec, FinIsLast

-----------------------------------------------------------------------------
(* Refinement of Credit.                                                   *)

(* Tracking a stream does not change the limit in force on any stream.     *)
LEMMA EnsureKeepsLimits ==
    ASSUME TypeOK, NEW id \in StreamIDs, streamData' = streamData,
           ensureStreamSendLimit(id) \/ UNCHANGED <<hasMax, streamMax>>
    PROVE  \A i \in StreamIDs : currentStreamMax(i)' = currentStreamMax(i)
<1>1. \A i \in StreamIDs : initialStreamSendLimit(i)' = initialStreamSendLimit(i)
  BY DEF initialStreamSendLimit
<1>2. CASE UNCHANGED <<hasMax, streamMax>>
  BY <1>1, <1>2 DEF currentStreamMax
<1>3. CASE /\ id \notin hasMax
           /\ hasMax' = hasMax \cup {id}
           /\ streamMax' = [streamMax EXCEPT ![id] = initialStreamSendLimit(id)]
  BY <1>1, <1>3 DEF currentStreamMax, TypeOK
<1> QED
  BY <1>2, <1>3 DEF ensureStreamSendLimit

(* The initial state maps to an initial state of Credit.                   *)
LEMMA CreditInit == Init /\ ~InMemory => C!Init
<1> SUFFICES ASSUME Init, ~InMemory PROVE C!Init
  OBVIOUS
<1>1. TypeOK
  BY TypeInit
<1>2. \A id \in StreamIDs : currentStreamMax(id) \in Nat
  BY <1>1, LimitTypes
<1>3. \A kind \in Kinds : Cardinality(OurStreams(kind)) = 0
  <2>1. \A kind \in Kinds : OurStreams(kind) = {}
    BY DEF Init, OurStreams
  <2> QED BY <2>1, FS_EmptySet
<1>4. maxData \in Nat /\ maxStreams \in [Kinds -> Nat]
  BY <1>1 DEF TypeOK
<1>5. wireData = 0 /\ wireStream = [id \in StreamIDs |-> 0]
  BY DEF Init
<1> QED
  BY <1>2, <1>3, <1>4, <1>5 DEF C!Init

(* Every step maps to a step of Credit or to a stutter.                    *)
LEMMA CreditStep ==
    ASSUME IInv, IInv', ~InMemory, [Next]_vars
    PROVE  C!Next \/ UNCHANGED <<C!grants, C!used>>
<1> USE DEF limitVars, spentVars, wireVars
<1>0. TypeOK /\ OurIDsBelowCounter /\ active
  BY DEF IInv, ActiveOnceGranted
<1>1. ASSUME UNCHANGED <<maxData, maxStreams, wireData, wireStream>>,
             \A id \in StreamIDs : currentStreamMax(id)' = currentStreamMax(id),
             \A kind \in Kinds : OurStreams(kind)' = OurStreams(kind)
      PROVE  UNCHANGED <<C!grants, C!used>>
  BY <1>1 DEF C!grants, C!used
<1>2. ASSUME UNCHANGED <<hasMax, streamMax, streamData>>
      PROVE  \A id \in StreamIDs : currentStreamMax(id)' = currentStreamMax(id)
  BY <1>2 DEF currentStreamMax, initialStreamSendLimit
<1>3. ASSUME UNCHANGED sendable
      PROVE  \A kind \in Kinds : OurStreams(kind)' = OurStreams(kind)
  BY <1>3 DEF OurStreams
<1>4. ASSUME NEW g \in Goroutines, writeStreamCapsule(g)
      PROVE  C!Next \/ UNCHANGED <<C!grants, C!used>>
  <2>0. /\ callID[g] \in StreamIDs /\ callLen[g] \in Nat
        /\ wireData \in Nat /\ wireStream \in [StreamIDs -> Nat]
    BY <1>0, ConstantsAssumption DEF TypeOK
  <2>1. /\ wireData' = wireData + callLen[g]
        /\ wireStream' = [wireStream EXCEPT ![callID[g]] = @ + callLen[g]]
        /\ UNCHANGED <<maxData, maxStreams, hasMax, streamMax, streamData, sendable>>
    BY <1>4 DEF writeStreamCapsule
  <2>2. CASE callLen[g] = 0
    BY <1>1, <1>2, <1>3, <2>0, <2>1, <2>2
  <2>3. CASE callLen[g] # 0
    <3>1. wireData' <= maxData /\ wireStream'[callID[g]] <= streamMax[callID[g]]
      <4>1. /\ wireData' <= dataSent'
            /\ wireStream'[callID[g]] <= streamSent'[callID[g]]
        BY <2>0, WireBelowChargePrimed
      <4>2. /\ dataSent' <= maxData'
            /\ streamSent'[callID[g]] <= streamMax'[callID[g]]
        BY <2>0 DEF IInv, SpentWithinGrant
      <4>3. /\ dataSent' \in Nat /\ streamSent' \in [StreamIDs -> Nat]
            /\ maxData' \in Nat /\ streamMax' \in [StreamIDs -> Nat]
            /\ wireData' \in Nat /\ wireStream' \in [StreamIDs -> Nat]
        BY DEF IInv, TypeOK
      <4> QED BY <2>0, <2>1, <4>1, <4>2, <4>3
    <3>2. streamMax[callID[g]] <= currentStreamMax(callID[g])
      <4>1. currentStreamMax(callID[g]) \in Nat
        BY <1>0, <2>0, LimitTypes
      <4> QED
        BY <2>0, <4>1 DEF IInv, currentStreamMax, NoLimitWithoutEntry, TypeOK
    <3>3. /\ wireStream'[callID[g]] \in Nat /\ streamMax[callID[g]] \in Nat
          /\ currentStreamMax(callID[g]) \in Nat
      BY <1>0, <2>0, LimitTypes DEF IInv, TypeOK
    <3>4. wireStream'[callID[g]] <= currentStreamMax(callID[g])
      BY <3>1, <3>2, <3>3
    <3>5. /\ \A id \in StreamIDs : currentStreamMax(id)' = currentStreamMax(id)
          /\ \A kind \in Kinds : OurStreams(kind)' = OurStreams(kind)
      BY <1>2, <1>3, <2>1
    <3>6. C!Send(callID[g])
      <4>1. wireData' > wireData /\ callLen[g] = wireData' - wireData
        BY <2>0, <2>1, <2>3
      <4>2. wireStream' = [wireStream EXCEPT ![callID[g]] = @ + (wireData' - wireData)]
        BY <2>1, <4>1
      <4>3. /\ [id \in StreamIDs |-> currentStreamMax(id)]'
                 = [id \in StreamIDs |-> currentStreamMax(id)]
            /\ [kind \in Kinds |-> Cardinality(OurStreams(kind))]'
                 = [kind \in Kinds |-> Cardinality(OurStreams(kind))]
        BY <3>5
      <4>4. wireStream'[callID[g]] <=
                [id \in StreamIDs |-> currentStreamMax(id)][callID[g]]
        BY <2>0, <3>4
      <4> QED
        BY <2>1, <3>1, <4>1, <4>2, <4>3, <4>4 DEF C!Send, C!grants
    <3> QED BY <2>0, <3>6 DEF C!Next
  <2> QED BY <2>2, <2>3
<1>5. ASSUME NEW g \in Goroutines, allocLocalStream(g)
      PROVE  C!Next \/ UNCHANGED <<C!grants, C!used>>
  <2>1. PICK kind \in Kinds : kind = callKind[g]
    BY <1>0 DEF TypeOK
  <2>2. PICK id \in StreamIDs : id = nextStreamID(kind)
    BY <1>0, <1>5, NextStreamID DEF allocLocalStream
  <2>3. \A i \in StreamIDs : currentStreamMax(i)' = currentStreamMax(i)
    <3>1. /\ ensureStreamSendLimit(id) \/ UNCHANGED <<hasMax, streamMax>>
          /\ streamData' = streamData
      BY <1>5, <2>1, <2>2 DEF allocLocalStream, refusedOpen
    <3> QED BY <1>0, <3>1, EnsureKeepsLimits
  <2>4. UNCHANGED <<maxData, maxStreams, wireData, wireStream>>
    BY <1>5 DEF allocLocalStream
  <2>5. ASSUME \A k \in Kinds : OurStreams(k)' = OurStreams(k)
        PROVE  UNCHANGED <<C!grants, C!used>>
    BY <1>1, <2>3, <2>4, <2>5
  <2>6. ASSUME NEW k \in Kinds,
               \A j \in Kinds : j # k => OurStreams(j)' = OurStreams(j),
               Cardinality(OurStreams(k)') = Cardinality(OurStreams(k)) + 1
        PROVE  C!Next
    <3> DEFINE count == [j \in Kinds |-> Cardinality(OurStreams(j))]
    <3>1. count' = [count EXCEPT ![k] = @ + 1]
      BY <2>6
    <3>2. count'[k] <= maxStreams[k]
      <4>1. count'[k] = opened'[k] /\ opened'[k] <= maxStreams'[k]
        BY DEF IInv, OpensCounted, SpentWithinGrant
      <4> QED BY <2>4, <4>1
    <3>3. [i \in StreamIDs |-> currentStreamMax(i)]'
             = [i \in StreamIDs |-> currentStreamMax(i)]
      BY <2>3
    <3>4. C!Open(k)
      BY <2>4, <3>1, <3>2, <3>3 DEF C!Open, C!grants
    <3> QED BY <3>4 DEF C!Next
  <2> QED BY <1>0, <2>5, <2>6, OurStreamsStep
<1>6. ASSUME NEW max \in Nat, raiseMaxData(max)
      PROVE  C!Next
  <2>1. maxData' >= maxData
    <3>1. maxData \in Nat
      BY <1>0 DEF TypeOK
    <3>2. maxData' = maxData \/ (maxData' = max /\ ~lowers(max, maxData))
      BY <1>6 DEF raiseMaxData
    <3> QED BY <3>1, <3>2 DEF lowers
  <2>2. UNCHANGED <<maxStreams, hasMax, streamMax, streamData, sendable, wireData, wireStream>>
    BY <1>6 DEF raiseMaxData, UnchangedByReadLoop
  <2>3. /\ \A id \in StreamIDs : currentStreamMax(id)' = currentStreamMax(id)
        /\ \A id \in StreamIDs : currentStreamMax(id) \in Nat
        /\ \A kind \in Kinds : OurStreams(kind)' = OurStreams(kind)
        /\ maxStreams \in [Kinds -> Nat]
    BY <1>0, <1>2, <1>3, <2>2, LimitTypes DEF TypeOK
  <2>4. C!Raise
    BY <2>1, <2>2, <2>3 DEF C!Raise, C!used
  <2> QED BY <2>4 DEF C!Next
<1>7. ASSUME NEW id \in StreamIDs, NEW max \in Nat, raiseMaxStreamData(id, max)
      PROVE  C!Next
  <2>1. UNCHANGED <<maxData, maxStreams, streamData, sendable, wireData, wireStream>>
    BY <1>7 DEF raiseMaxStreamData, UnchangedByReadLoop
  <2>2. \A i \in StreamIDs : currentStreamMax(i) \in Nat
    BY <1>0, LimitTypes
  <2>3. \A i \in StreamIDs : currentStreamMax(i)' >= currentStreamMax(i)
    <3>1. \A i \in StreamIDs : initialStreamSendLimit(i)' = initialStreamSendLimit(i)
      BY <2>1 DEF initialStreamSendLimit
    <3>2. \/ UNCHANGED <<hasMax, streamMax>>
          \/ /\ hasMax' = hasMax \cup {id}
             /\ streamMax' = [streamMax EXCEPT ![id] = max]
             /\ ~lowers(max, currentStreamMax(id))
      BY <1>7 DEF raiseMaxStreamData
    <3>3. CASE UNCHANGED <<hasMax, streamMax>>
      BY <2>1, <2>2, <3>3, <1>2
    <3>4. CASE /\ hasMax' = hasMax \cup {id}
               /\ streamMax' = [streamMax EXCEPT ![id] = max]
               /\ ~lowers(max, currentStreamMax(id))
      <4>1. streamMax \in [StreamIDs -> Nat]
        BY <1>0 DEF TypeOK
      <4>2. currentStreamMax(id)' = max /\ max >= currentStreamMax(id)
        BY <2>2, <3>4, <4>1 DEF currentStreamMax, lowers
      <4>3. \A i \in StreamIDs : i # id => currentStreamMax(i)' = currentStreamMax(i)
        BY <3>1, <3>4, <4>1 DEF currentStreamMax
      <4> QED BY <2>2, <4>2, <4>3
    <3> QED BY <3>2, <3>3, <3>4
  <2>4. /\ \A kind \in Kinds : OurStreams(kind)' = OurStreams(kind)
        /\ maxStreams \in [Kinds -> Nat] /\ maxData \in Nat
    BY <1>0, <1>3, <2>1 DEF TypeOK
  <2>5. C!Raise
    BY <2>1, <2>3, <2>4 DEF C!Raise, C!used
  <2> QED BY <2>5 DEF C!Next
<1>8. ASSUME NEW kind \in Kinds, NEW max \in Nat, raiseMaxStreams(kind, max)
      PROVE  C!Next
  <2>1. UNCHANGED <<maxData, hasMax, streamMax, streamData, sendable, wireData, wireStream>>
    BY <1>8 DEF raiseMaxStreams, UnchangedByReadLoop
  <2>2. \A k \in Kinds : maxStreams'[k] >= maxStreams[k]
    <3>1. maxStreams \in [Kinds -> Nat]
      BY <1>0 DEF TypeOK
    <3>2. \/ maxStreams' = maxStreams
          \/ /\ maxStreams' = [maxStreams EXCEPT ![kind] = max]
             /\ ~lowers(max, maxStreams[kind])
      BY <1>8 DEF raiseMaxStreams
    <3> QED BY <3>1, <3>2 DEF lowers
  <2>3. /\ \A id \in StreamIDs : currentStreamMax(id)' = currentStreamMax(id)
        /\ \A id \in StreamIDs : currentStreamMax(id) \in Nat
        /\ \A k \in Kinds : OurStreams(k)' = OurStreams(k)
        /\ maxData \in Nat
    BY <1>0, <1>2, <1>3, <2>1, LimitTypes DEF TypeOK
  <2>4. C!Raise
    BY <2>1, <2>2, <2>3 DEF C!Raise, C!used
  <2> QED BY <2>4 DEF C!Next
<1>9. ASSUME NEW id \in StreamIDs, acceptPeerStream(id)
      PROVE  UNCHANGED <<C!grants, C!used>>
  <2>1. /\ ensureStreamSendLimit(id) \/ UNCHANGED <<hasMax, streamMax>>
        /\ UNCHANGED <<maxData, maxStreams, streamData, wireData, wireStream>>
    BY <1>9 DEF acceptPeerStream, trackSendStream, UnchangedByReadLoop
  <2>2. \A i \in StreamIDs : currentStreamMax(i)' = currentStreamMax(i)
    BY <1>0, <2>1, EnsureKeepsLimits
  <2>3. \A kind \in Kinds : OurStreams(kind)' = OurStreams(kind)
    <3>1. sendable' = sendable \cup {id} /\ ~isOurStream(id)
      BY <1>9 DEF acceptPeerStream
    <3> QED BY <3>1 DEF OurStreams
  <2> QED BY <1>1, <2>1, <2>2, <2>3
<1>10. ASSUME \/ \E g \in Goroutines :
                   \/ \E kind \in Kinds : OpenStream(g, kind)
                   \/ \E id \in StreamIDs, n \in 0 .. MaxWrite : Write(g, id, n)
                   \/ reserveSendData(g)
                   \/ writeStreamCapsuleFails(g)
                   \/ refundSendData(g)
                   \/ \E id \in StreamIDs : Close(g, id)
                   \/ markClosed(g)
                   \/ writeFinCapsule(g)
              \/ SessionClose \/ ReadLoopEnds \/ ConnectStreamEnds \/ UNCHANGED vars
       PROVE  UNCHANGED <<C!grants, C!used>>
  <2>1. UNCHANGED <<maxData, maxStreams, hasMax, streamMax, streamData, sendable,
                    wireData, wireStream>>
    BY <1>10 DEF OpenStream, Write, reserveSendData, writeStreamCapsuleFails,
                 refundSendData, Close, markClosed, writeFinCapsule,
                 SessionClose,
         ReadLoopEnds, UnchangedByReadLoop, ConnectStreamEnds, vars
  <2> QED BY <1>1, <1>2, <1>3, <2>1
<1> QED
  BY NextCases, <1>4, <1>5, <1>6, <1>7, <1>8, <1>9, <1>10

(* A session that adopted the peer's SETTINGS implements Credit: the peer  *)
(* sees only growing grants and only traffic within them (flow.go, and     *)
(* Write and OpenStream that use it).                                      *)
THEOREM RefinesCredit ==
    ASSUME ~InMemory
    PROVE  Spec => ImplementsCredit
<1>1. Init => C!Init
  BY CreditInit
<1>2. IInv /\ IInv' /\ [Next]_vars => [C!Next]_<<C!grants, C!used>>
  BY CreditStep
<1>3. Spec => []IInv
  BY Invariance
<1> QED
  BY <1>1, <1>2, <1>3, PTL DEF Spec, ImplementsCredit, C!Spec

=============================================================================
