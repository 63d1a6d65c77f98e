------------------------ MODULE SessionStreams_proofs ------------------------
(***************************************************************************)
(* Proofs about SessionStreams, for either side, any capacity of the accept*)
(* channels, any buffer limit, any capsules and any bounds.                *)
(***************************************************************************)
EXTENDS SessionStreams, SequenceTheorems, FiniteSetTheorems, TLAPS

-----------------------------------------------------------------------------
(* The inductive invariant: what the read loop, the maps and the open      *)
(* calls know of each other.                                               *)

(* The loop has a capsule and its payload is not in a buffer yet.          *)
Pending == {"lookup", "insert", "track", "enqueue", "look", "write"}

(* The loop has the half that the capsule is for, and it is in its map.    *)
Located == {"track", "enqueue", "look", "write", "finish", "delete"}

(* The maps are keyed by the IDs of the streams in them; what the loop     *)
(* holds is the stream of its capsule.                                     *)
MapsKeyed ==
    /\ \A id \in StreamIDs : entry[id] # 0 => halves[entry[id]].id = id
    /\ loop \in Located => cur = entry[cap.id] /\ cur # 0
    /\ loop = "insert" => /\ cur # 0 /\ entry[cap.id] = 0
                          /\ halves[cur].id = cap.id /\ ~isOurStream(cap.id)

(* IDs of ours are handed out once, and a stream of ours that can receive  *)
(* is in its map from before the peer can know it.                         *)
OursOpened ==
    /\ \A id \in told : isOurStream(id) /\ id < createdStreamCounter
    /\ \A id \in told : isBidirectionalStream(id) => entry[id] # 0
    /\ opening # -1 => /\ isOurStream(opening) /\ opening < createdStreamCounter
                       /\ opening \notin told /\ opening \in tracked
    /\ \A h \in Halves : isOurStream(halves[h].id) =>
          halves[h].id \in told /\ isBidirectionalStream(halves[h].id)
    /\ loop = "lookup" /\ isOurStream(cap.id) =>
          cap.id \in early \/ (cap.id \in told /\ isBidirectionalStream(cap.id))

(* A stream of the peer's leaves its map only after its FIN.               *)
PeersFound ==
    /\ loop \in Pending \cup {"finish", "delete"} /\ cap.fin => cap.id \in fins
    /\ loop \in {"finish", "delete"} => cap.fin
    /\ loop = "delete" => ~isBidirectionalStream(cap.id)
    /\ \A h \in Halves :
          LET id == halves[h].id
          IN  \/ entry[id] # 0
              \/ loop = "insert" /\ cap.id = id
              \/ id \in fins /\ (loop = "lookup" /\ cap.id = id => id \in afterFin)

(* A half is on its way to the application only with its send limit.       *)
SendLimitsSet ==
    /\ loop = "enqueue" /\ isBidirectionalStream(cap.id) => cap.id \in tracked
    /\ \A k \in Kinds : \A i \in 1 .. Len(incoming[k]) :
          isBidirectionalStream(halves[incoming[k][i]].id) =>
              halves[incoming[k][i]].id \in tracked

(* The buffer of a half that is not closed is closed by the FIN.           *)
ClosedByFin ==
    /\ \A h \in closing : halves[h].closed
    /\ \A h \in Halves :
          halves[h].bufClosed /\ ~halves[h].closed =>
              /\ halves[h].id \in fins
              /\ loop \in Pending /\ cap.id = halves[h].id => cap.id \in afterFin
    /\ fault # "none" => loop \in {"return", "ended"} /\ cur # 0

ControlInv ==
    /\ MapsKeyed /\ OursOpened /\ PeersFound /\ SendLimitsSet /\ ClosedByFin
    /\ OneStreamPerID /\ TrackedBeforeHeld /\ RepliesFindTheirStream
    /\ ClosedPipeHasCause

-----------------------------------------------------------------------------
(* The inductive invariant of the payload.                                 *)

(* The payload of an ID that the loop still carries.                       *)
pending(id) == IF loop \in Pending /\ cap.id = id THEN Len(cap.data) ELSE 0

(* The half that the next payload of its ID goes to, and gets: Close has   *)
(* not come before the loop looked.                                        *)
Fed(h) ==
    /\ loop \notin {"return", "ended"}
    /\ h = entry[halves[h].id] \/ (loop = "insert" /\ h = cur)
    /\ ~halves[h].closed \/ (loop = "write" /\ h = cur)

(* The half holds a run of the bytes of its ID, behind the first b ...     *)
RunFrom(h, b) ==
    /\ \A i \in 1 .. Len(halves[h].got) : halves[h].got[i] = b + i
    /\ \A i \in 1 .. Len(halves[h].data) :
          halves[h].data[i] = b + Len(halves[h].got) + i

total(h) == Len(halves[h].got) + Len(halves[h].data)

(* ... and up to the last one that the loop has delivered.                 *)
HoldsFrom(h, b) ==
    /\ RunFrom(h, b)
    /\ halves[h].id \notin misused => b = 0
    /\ Fed(h) => b + total(h) + pending(halves[h].id) = sent[halves[h].id]

InOrder == \A h \in Halves : \E b \in Nat : HoldsFrom(h, b)

(* The payload under way is the last that was sent on its ID.              *)
PayloadIsLast ==
    loop \in Pending =>
        /\ Len(cap.data) <= sent[cap.id]
        /\ \A i \in 1 .. Len(cap.data) :
              cap.data[i] = sent[cap.id] - Len(cap.data) + i

(* No payload of an ID without a stream was passed over, except where the  *)
(* peer used the ID against the protocol.                                  *)
NothingSkipped ==
    \A id \in StreamIDs :
        id \notin misused /\ (\A h \in Halves : halves[h].id # id) =>
            sent[id] = IF loop = "lookup" THEN pending(id) ELSE 0

(* FIN comes behind the last byte, and EOF behind FIN.                     *)
FinIsLast ==
    \A h \in Halves :
        /\ halves[h].bufClosed /\ ~halves[h].closed /\ halves[h].id \notin misused =>
              total(h) = sent[halves[h].id]
        /\ halves[h].eof => halves[h].bufClosed /\ halves[h].data = <<>>

PayloadInv == InOrder /\ PayloadIsLast /\ NothingSkipped /\ FinIsLast

-----------------------------------------------------------------------------
(* Helpers.                                                                *)

(* Appending to a sequence of halves.                                      *)
LEMMA Grown ==
    ASSUME NEW s \in Seq(Half), NEW r \in Half
    PROVE  /\ Append(s, r) \in Seq(Half)
           /\ Len(s) \in Nat /\ DOMAIN s = 1 .. Len(s)
           /\ Len(Append(s, r)) = Len(s) + 1
           /\ DOMAIN Append(s, r) = 1 .. Len(s) + 1
           /\ Append(s, r)[Len(s) + 1] = r
           /\ \A i \in 1 .. Len(s) : Append(s, r)[i] = s[i]
<1>1. Len(s) \in Nat /\ DOMAIN s = 1 .. Len(s)
  BY LenProperties
<1>2. /\ Append(s, r) \in Seq(Half) /\ Len(Append(s, r)) = Len(s) + 1
      /\ \A i \in 1 .. Len(s) : Append(s, r)[i] = s[i]
      /\ Append(s, r)[Len(s) + 1] = r
  BY AppendProperties
<1> QED BY <1>1, <1>2, LenProperties

(* Replacing one half in a sequence of halves.                             *)
LEMMA Changed ==
    ASSUME NEW s \in Seq(Half), NEW h \in DOMAIN s, NEW r \in Half
    PROVE  /\ [s EXCEPT ![h] = r] \in Seq(Half)
           /\ Len([s EXCEPT ![h] = r]) = Len(s)
           /\ DOMAIN [s EXCEPT ![h] = r] = DOMAIN s
           /\ [s EXCEPT ![h] = r][h] = r
           /\ \A i \in DOMAIN s : i # h => [s EXCEPT ![h] = r][i] = s[i]
<1>1. Len(s) \in Nat /\ DOMAIN s = 1 .. Len(s) /\ s \in [1 .. Len(s) -> Half]
  BY LenProperties
<1>2. /\ [s EXCEPT ![h] = r] \in Seq(Half) /\ Len([s EXCEPT ![h] = r]) = Len(s)
      /\ \A j \in 1 .. Len(s) :
            [s EXCEPT ![h] = r][j] = IF j = h THEN r ELSE s[j]
  BY <1>1, ExceptSeq
<1> QED BY <1>1, <1>2

(* A new half is one.                                                      *)
LEMMA NewHalf ==
    ASSUME NEW id \in StreamIDs
    PROVE  /\ newReceiveStream(id) \in Half
           /\ newReceiveStream(id).id = id
           /\ newReceiveStream(id).data = <<>> /\ newReceiveStream(id).got = <<>>
           /\ ~newReceiveStream(id).closed /\ ~newReceiveStream(id).bufClosed
           /\ ~newReceiveStream(id).eof
  BY EmptySeq DEF newReceiveStream, Half

(* The disjuncts of Next, as one fact to split on.                         *)
LEMMA NextCases ==
    ASSUME [Next]_vars
    PROVE  \/ checkStop \/ lookup \/ insert \/ trackSendStream \/ enqueueIncoming
           \/ look \/ writeBuffer \/ finishReceive \/ delete \/ deferredClose
           \/ \E id \in PeerIDs, c \in Capsules : parse(id, c[1], c[2])
           \/ parseFails
           \/ opened \/ SessionClose \/ concurrentMapAccess \/ UNCHANGED vars
           \/ \E kind \in Kinds : OpenStream(kind) \/ AcceptStream(kind)
           \/ \E h \in Halves :
                 Read(h) \/ readReturns(h) \/ Close(h) \/ closeBuffer(h)
  BY DEF Next, LoopStep, PeerStep, AppStep, Halves

-----------------------------------------------------------------------------
(* What a step does to the halves.                                         *)

(* A half appears, as new as newReceiveStream makes it.                    *)
Appears(id) ==
    /\ id \in StreamIDs
    /\ halves' \in Seq(Half) /\ Len(halves') = Len(halves) + 1
    /\ DOMAIN halves' = 1 .. Len(halves) + 1
    /\ halves'[Len(halves) + 1] = newReceiveStream(id)
    /\ \A i \in Halves : halves'[i] = halves[i]

(* One half changes and keeps its ID.                                      *)
Changes(h) ==
    /\ h \in Halves
    /\ halves' \in Seq(Half) /\ Len(halves') = Len(halves)
    /\ DOMAIN halves' = Halves
    /\ halves'[h].id = halves[h].id
    /\ \A i \in Halves : i # h => halves'[i] = halves[i]

(* The fields of a half of which only some change.                         *)
KeepsFlags(h) ==
    /\ halves'[h].closed = halves[h].closed
    /\ halves'[h].bufClosed = halves[h].bufClosed
    /\ halves'[h].eof = halves[h].eof

KeepsPayload(h) ==
    halves'[h].data = halves[h].data /\ halves'[h].got = halves[h].got

(* The types the steps below need.                                         *)
LEMMA TypeFacts ==
    ASSUME TypeOK
    PROVE  /\ halves \in Seq(Half) /\ Len(halves) \in Nat
           /\ Halves = 1 .. Len(halves)
           /\ \A h \in Halves :
                 /\ halves[h] \in Half /\ halves[h].id \in StreamIDs
                 /\ halves[h].closed \in BOOLEAN /\ halves[h].bufClosed \in BOOLEAN
                 /\ halves[h].eof \in BOOLEAN
                 /\ halves[h].data \in Seq(Nat) /\ halves[h].got \in Seq(Nat)
                 /\ Len(halves[h].data) \in Nat /\ Len(halves[h].got) \in Nat
           /\ cap.id \in StreamIDs /\ cap.fin \in BOOLEAN
           /\ cap.data \in Seq(Nat) /\ Len(cap.data) \in Nat
           /\ cur \in 0 .. Len(halves)
<1>1. halves \in Seq(Half) /\ Len(halves) \in Nat /\ Halves = 1 .. Len(halves)
  BY LenProperties DEF TypeOK, Halves
<1>2. ASSUME NEW h \in Halves PROVE halves[h] \in Half
  BY <1>1, ElementOfSeq
<1>3. ASSUME NEW r \in Half
      PROVE  /\ r.id \in StreamIDs /\ r.closed \in BOOLEAN /\ r.bufClosed \in BOOLEAN
             /\ r.eof \in BOOLEAN /\ r.data \in Seq(Nat) /\ r.got \in Seq(Nat)
             /\ Len(r.data) \in Nat /\ Len(r.got) \in Nat
  BY LenProperties DEF Half
<1>4. /\ cap.id \in StreamIDs /\ cap.fin \in BOOLEAN
      /\ cap.data \in Seq(Nat) /\ Len(cap.data) \in Nat
  BY LenProperties DEF TypeOK
<1>5. cur \in 0 .. Len(halves)
  BY DEF TypeOK
<1> QED BY <1>1, <1>2, <1>3, <1>4, <1>5

(* A half that appears.                                                    *)
LEMMA AppearsBy ==
    ASSUME TypeOK, NEW id \in StreamIDs,
           halves' = Append(halves, newReceiveStream(id))
    PROVE  Appears(id)
<1>1. newReceiveStream(id) \in Half
  BY NewHalf
<1>2. halves \in Seq(Half) /\ Halves = 1 .. Len(halves)
  BY TypeFacts
<1> QED BY <1>1, <1>2, Grown DEF Appears

(* A half that changes.                                                    *)
LEMMA ChangesBy ==
    ASSUME TypeOK, NEW h \in Halves, NEW r \in Half, r.id = halves[h].id,
           halves' = [halves EXCEPT ![h] = r]
    PROVE  Changes(h) /\ halves'[h] = r
<1>1. halves \in Seq(Half) /\ h \in DOMAIN halves
  BY TypeFacts DEF Halves
<1> QED BY <1>1, Changed DEF Changes, Halves

(* The buffer takes the payload.                                           *)
LEMMA WriteChanges ==
    ASSUME TypeOK, writeBuffer, bufferError = "none", cur # 0
    PROVE  /\ Changes(cur) /\ KeepsFlags(cur)
           /\ halves'[cur].data = halves[cur].data \o cap.data
           /\ halves'[cur].got = halves[cur].got
<1> DEFINE r == [halves[cur] EXCEPT !.data = @ \o cap.data]
<1>1. cur \in Halves /\ halves[cur] \in Half /\ cap.data \in Seq(Nat)
  BY TypeFacts
<1>2. halves[cur].data \o cap.data \in Seq(Nat)
  BY <1>1, TypeFacts, ConcatProperties
<1>3. r \in Half /\ r.id = halves[cur].id /\ r.got = halves[cur].got
      /\ r.data = halves[cur].data \o cap.data /\ r.closed = halves[cur].closed
      /\ r.bufClosed = halves[cur].bufClosed /\ r.eof = halves[cur].eof
  BY <1>1, <1>2 DEF Half
<1>4. halves' = [halves EXCEPT ![cur] = r]
  BY DEF writeBuffer
<1> HIDE DEF r
<1>5. Changes(cur) /\ halves'[cur] = r
  BY <1>1, <1>3, <1>4, ChangesBy
<1> QED BY <1>3, <1>5 DEF KeepsFlags

(* FIN or Close closes the buffer.                                         *)
LEMMA CloseBufferChanges ==
    ASSUME TypeOK, NEW h \in Halves,
           halves' = [halves EXCEPT ![h].bufClosed = TRUE]
    PROVE  /\ Changes(h) /\ KeepsPayload(h)
           /\ halves'[h].closed = halves[h].closed /\ halves'[h].eof = halves[h].eof
           /\ halves'[h].bufClosed
<1> DEFINE r == [halves[h] EXCEPT !.bufClosed = TRUE]
<1>1. halves[h] \in Half
  BY TypeFacts
<1>2. r \in Half /\ r.id = halves[h].id /\ r.got = halves[h].got
      /\ r.data = halves[h].data /\ r.closed = halves[h].closed
      /\ r.bufClosed = TRUE /\ r.eof = halves[h].eof
  BY <1>1 DEF Half
<1>3. halves' = [halves EXCEPT ![h] = r]
  OBVIOUS
<1> HIDE DEF r
<1>4. Changes(h) /\ halves'[h] = r
  BY <1>2, <1>3, ChangesBy
<1> QED BY <1>2, <1>4 DEF KeepsPayload

(* Close sets the flag.                                                    *)
LEMMA CloseChanges ==
    ASSUME TypeOK, NEW h \in Halves, Close(h)
    PROVE  /\ Changes(h) /\ KeepsPayload(h)
           /\ halves'[h].closed /\ halves'[h].eof = halves[h].eof
           /\ halves'[h].bufClosed = halves[h].bufClosed
<1> DEFINE r == [halves[h] EXCEPT !.closed = TRUE]
<1>1. halves[h] \in Half
  BY TypeFacts
<1>2. r \in Half /\ r.id = halves[h].id /\ r.got = halves[h].got
      /\ r.data = halves[h].data /\ r.closed = TRUE
      /\ r.bufClosed = halves[h].bufClosed /\ r.eof = halves[h].eof
  BY <1>1 DEF Half
<1>3. halves' = [halves EXCEPT ![h] = r]
  BY DEF Close
<1> HIDE DEF r
<1>4. Changes(h) /\ halves'[h] = r
  BY <1>2, <1>3, ChangesBy
<1> QED BY <1>2, <1>4 DEF KeepsPayload

(* Taking the first n of a sequence of numbers.                            *)
LEMMA Split ==
    ASSUME NEW s \in Seq(Nat), NEW n \in 1 .. Len(s)
    PROVE  /\ SubSeq(s, 1, n) \in Seq(Nat) /\ Len(SubSeq(s, 1, n)) = n
           /\ \A i \in 1 .. n : SubSeq(s, 1, n)[i] = s[i]
           /\ SubSeq(s, n + 1, Len(s)) \in Seq(Nat)
           /\ Len(SubSeq(s, n + 1, Len(s))) = Len(s) - n
           /\ \A i \in 1 .. Len(s) - n : SubSeq(s, n + 1, Len(s))[i] = s[n + i]
<1>1. Len(s) \in Nat /\ n \in Nat /\ n <= Len(s) /\ 1 <= n
  BY LenProperties
<1>2. \A i \in 1 .. n : s[i] \in Nat
  BY <1>1, ElementOfSeq
<1>3. \A i \in n + 1 .. Len(s) : s[i] \in Nat
  BY <1>1, ElementOfSeq
<1>4. SubSeq(s, 1, n) \in Seq(Nat) /\ Len(SubSeq(s, 1, n)) = n
      /\ \A i \in 1 .. n : SubSeq(s, 1, n)[i] = s[1 + i - 1]
  BY <1>1, <1>2, SubSeqProperties
<1>5. SubSeq(s, n + 1, Len(s)) \in Seq(Nat)
  BY <1>1, <1>3, SubSeqProperties
<1>6. /\ Len(SubSeq(s, n + 1, Len(s))) = Len(s) - n
      /\ \A i \in 1 .. Len(s) - n : SubSeq(s, n + 1, Len(s))[i] = s[n + 1 + i - 1]
  BY <1>1, <1>3, SubSeqProperties
<1>7. \A i \in 1 .. n : 1 + i - 1 = i
  BY <1>1
<1>8. \A i \in 1 .. Len(s) - n : n + 1 + i - 1 = n + i
  BY <1>1
<1> QED BY <1>4, <1>5, <1>6, <1>7, <1>8

(* A reader takes the first n bytes of the buffer ...                      *)
Takes(h, n) ==
    /\ n \in 1 .. Len(halves[h].data)
    /\ halves'[h].got = halves[h].got \o SubSeq(halves[h].data, 1, n)
    /\ halves'[h].data = SubSeq(halves[h].data, n + 1, Len(halves[h].data))
    /\ KeepsFlags(h)

(* ... or the end of the stream.                                           *)
TakesEof(h) ==
    /\ halves[h].data = <<>> /\ halves[h].bufClosed
    /\ KeepsPayload(h)
    /\ halves'[h].closed = halves[h].closed
    /\ halves'[h].bufClosed = halves[h].bufClosed

LEMMA ReadChanges ==
    ASSUME TypeOK, NEW h \in Halves, readReturns(h)
    PROVE  Changes(h) /\ (TakesEof(h) \/ \E n \in 1 .. Len(halves[h].data) : Takes(h, n))
<1>1. halves[h] \in Half /\ halves[h].data \in Seq(Nat) /\ halves[h].got \in Seq(Nat)
      /\ halves \in Seq(Half) /\ h \in DOMAIN halves
  BY TypeFacts DEF Halves
<1>2. ASSUME NEW n \in 1 .. Len(halves[h].data),
             halves' = [halves EXCEPT
                          ![h].got = @ \o SubSeq(halves[h].data, 1, n),
                          ![h].data = SubSeq(@, n + 1, Len(@))]
      PROVE  Changes(h) /\ Takes(h, n)
  <2> DEFINE first == SubSeq(halves[h].data, 1, n)
             rest  == SubSeq(halves[h].data, n + 1, Len(halves[h].data))
             all   == halves[h].got \o first
             r     == [halves[h] EXCEPT !.got = all, !.data = rest]
  <2>1. first \in Seq(Nat) /\ rest \in Seq(Nat)
    BY <1>1, Split
  <2>2. all \in Seq(Nat)
    BY <1>1, <2>1, ConcatProperties
  <2>3. halves' = [halves EXCEPT ![h] = r]
    BY <1>1, <1>2 DEF Half
  <2> HIDE DEF first, rest, all
  <2>4. r \in Half /\ r.id = halves[h].id /\ r.got = all
        /\ r.data = rest /\ r.closed = halves[h].closed
        /\ r.bufClosed = halves[h].bufClosed /\ r.eof = halves[h].eof
    BY <1>1, <2>1, <2>2 DEF Half
  <2> HIDE DEF r
  <2>5. Changes(h) /\ halves'[h] = r
    BY <2>3, <2>4, ChangesBy
  <2> QED BY <2>4, <2>5 DEF Takes, KeepsFlags, first, rest, all
<1>3. ASSUME halves[h].data = <<>>, halves[h].bufClosed,
             halves' = [halves EXCEPT ![h].eof = TRUE]
      PROVE  Changes(h) /\ TakesEof(h)
  <2> DEFINE r == [halves[h] EXCEPT !.eof = TRUE]
  <2>1. r \in Half /\ r.id = halves[h].id /\ r.got = halves[h].got
        /\ r.data = halves[h].data /\ r.closed = halves[h].closed
        /\ r.bufClosed = halves[h].bufClosed
    BY <1>1 DEF Half
  <2>2. halves' = [halves EXCEPT ![h] = r]
    BY <1>3
  <2> HIDE DEF r
  <2>3. Changes(h) /\ halves'[h] = r
    BY <2>1, <2>2, ChangesBy
  <2> QED BY <1>3, <2>1, <2>3 DEF TakesEof, KeepsPayload
<1> QED BY <1>2, <1>3 DEF readReturns

(* The steps by what they do to the halves: nothing, ...                   *)
HalvesKept ==
    \/ checkStop \/ insert \/ trackSendStream \/ enqueueIncoming \/ look \/ delete
    \/ deferredClose \/ parseFails \/ SessionClose \/ concurrentMapAccess
    \/ UNCHANGED vars
    \/ \E id \in PeerIDs, c \in Capsules : parse(id, c[1], c[2])
    \/ \E kind \in Kinds : OpenStream(kind) \/ AcceptStream(kind)
    \/ \E h \in Halves : Read(h)

LEMMA KeptHalves ==
    ASSUME HalvesKept
    PROVE  halves' = halves
  BY DEF HalvesKept, checkStop, insert, trackSendStream, enqueueIncoming, look,
     delete, deferredClose, parseFails, SessionClose, concurrentMapAccess, vars,
     mapVars, parse, OpenStream, AcceptStream, Read

(* ... or a change of one that its ID and a set closed flag survive, or a  *)
(* new one at the end.                                                     *)
LEMMA HalvesStep ==
    ASSUME TypeOK, MapsKeyed, [Next]_vars
    PROVE  \/ halves' = halves
           \/ \E id \in StreamIDs : Appears(id)
           \/ \E h \in Halves : Changes(h) /\ (halves[h].closed => halves'[h].closed)
<1>1. ASSUME HalvesKept PROVE halves' = halves
  BY <1>1, KeptHalves
<1>2. CASE lookup
  <2>1. CASE halves' = Append(halves, newReceiveStream(cap.id))
    BY <2>1, AppearsBy, TypeFacts
  <2> QED BY <1>2, <2>1 DEF lookup
<1>3. CASE opened
  <2>1. CASE halves' = Append(halves, newReceiveStream(opening))
    <3>1. opening \in StreamIDs
      BY <1>3 DEF opened, TypeOK
    <3> QED BY <2>1, <3>1, AppearsBy
  <2> QED BY <1>3, <2>1 DEF opened
<1>4. CASE writeBuffer
  <2>1. cur # 0 /\ cur \in Halves
    BY <1>4, TypeFacts DEF writeBuffer, MapsKeyed, Located
  <2>2. CASE bufferError = "none"
    BY <1>4, <2>1, <2>2, WriteChanges DEF KeepsFlags
  <2> QED BY <1>4, <2>2 DEF writeBuffer
<1>5. CASE finishReceive
  <2>1. cur # 0 /\ cur \in Halves
    BY <1>5, TypeFacts DEF finishReceive, MapsKeyed, Located
  <2> QED BY <1>5, <2>1, CloseBufferChanges DEF finishReceive
<1>6. ASSUME NEW h \in Halves, readReturns(h) \/ Close(h) \/ closeBuffer(h)
      PROVE  Changes(h) /\ (halves[h].closed => halves'[h].closed)
  <2>1. CASE readReturns(h)
    BY <2>1, ReadChanges DEF Takes, TakesEof, KeepsFlags
  <2>2. CASE Close(h)
    BY <2>2, CloseChanges
  <2>3. CASE closeBuffer(h)
    BY <2>3, CloseBufferChanges DEF closeBuffer
  <2> QED BY <1>6, <2>1, <2>2, <2>3
<1> QED
  BY NextCases, <1>1, <1>2, <1>3, <1>4, <1>5, <1>6 DEF HalvesKept

(* In short: halves are never lost, and keep their IDs.                    *)
LEMMA HalvesStay ==
    ASSUME TypeOK, MapsKeyed, [Next]_vars
    PROVE  /\ halves' \in Seq(Half) /\ Len(halves') \in Nat
           /\ Len(halves) <= Len(halves')
           /\ Halves' = 1 .. Len(halves') /\ Halves \subseteq Halves'
           /\ \A h \in Halves : /\ halves'[h].id = halves[h].id
                                /\ halves[h].closed => halves'[h].closed
<1>1. halves \in Seq(Half) /\ Len(halves) \in Nat /\ Halves = 1 .. Len(halves)
  BY TypeFacts
<1>2. CASE halves' = halves
  BY <1>1, <1>2 DEF Halves
<1>3. ASSUME NEW id \in StreamIDs, Appears(id)
      PROVE  /\ halves' \in Seq(Half) /\ Len(halves) <= Len(halves')
             /\ \A h \in Halves : halves'[h] = halves[h]
  BY <1>1, <1>3 DEF Appears
<1>4. ASSUME NEW h \in Halves, Changes(h), halves[h].closed => halves'[h].closed
      PROVE  /\ halves' \in Seq(Half) /\ Len(halves) <= Len(halves')
             /\ \A i \in Halves : /\ halves'[i].id = halves[i].id
                                  /\ halves[i].closed => halves'[i].closed
  BY <1>1, <1>4 DEF Changes
<1>5. /\ halves' \in Seq(Half) /\ Len(halves) <= Len(halves')
      /\ \A h \in Halves : /\ halves'[h].id = halves[h].id
                           /\ halves[h].closed => halves'[h].closed
  BY <1>1, <1>2, <1>3, <1>4, HalvesStep
<1>6. Len(halves') \in Nat /\ Halves' = 1 .. Len(halves')
  BY <1>5, LenProperties DEF Halves
<1> QED BY <1>1, <1>5, <1>6

-----------------------------------------------------------------------------
(* Type correctness.                                                       *)

(* TypeOK in three parts: the halves, what refers to them, and the rest.   *)
HalfTypes ==
    /\ halves \in Seq(Half)
    /\ \A h \in Halves : maxBytes > 0 => Len(halves[h].data) <= maxBytes

IndexTypes ==
    /\ entry \in [StreamIDs -> 0 .. Len(halves)]
    /\ incoming \in [Kinds -> Seq(Halves)]
    /\ \A k \in Kinds : Len(incoming[k]) <= QueueCap
    /\ held \subseteq Halves /\ reading \subseteq held /\ closing \subseteq held
    /\ cur \in 0 .. Len(halves)

LoopPlaces ==
    {"check", "parse", "lookup", "insert", "track", "enqueue", "look",
     "write", "finish", "delete", "return", "ended"}

ValueTypes ==
    /\ tracked \subseteq StreamIDs /\ told \subseteq tracked
    /\ opening \in StreamIDs \cup {-1}
    /\ createdStreamCounter \in {4 * i : i \in 0 .. MaxOpens}
    /\ done \in BOOLEAN /\ crashed \in BOOLEAN
    /\ loop \in LoopPlaces
    /\ cap \in [id : StreamIDs, data : Seq(Nat), fin : BOOLEAN]
    /\ capsules \in 0 .. MaxCapsules /\ sent \in [StreamIDs -> Nat]
    /\ UNION {fins, early, afterFin, discarded} \subseteq StreamIDs
    /\ fault \in {"none", "closedPipe", "full"}

LEMMA TypeParts == TypeOK <=> HalfTypes /\ IndexTypes /\ ValueTypes
  BY DEF TypeOK, HalfTypes, IndexTypes, ValueTypes, LoopPlaces

(* The buffer limit is kept.                                               *)
LEMMA HalfTypesStep ==
    ASSUME TypeOK, MapsKeyed, [Next]_vars
    PROVE  HalfTypes'
<1>1. halves' \in Seq(Half)
  BY HalvesStay
<1>2. \A h \in Halves : maxBytes > 0 => Len(halves[h].data) <= maxBytes
  BY DEF TypeOK
<1> SUFFICES \A h \in Halves' : maxBytes > 0 => Len(halves'[h].data) <= maxBytes
  BY <1>1 DEF HalfTypes
<1>3. CASE halves' = halves
  BY <1>2, <1>3 DEF Halves
<1>4. ASSUME NEW id \in StreamIDs, Appears(id)
      PROVE  \A h \in Halves' : maxBytes > 0 => Len(halves'[h].data) <= maxBytes
  <2>1. newReceiveStream(id).data = <<>> /\ Len(<<>>) = 0 /\ maxBytes \in Int
    BY NewHalf, StreamsAssumption
  <2>2. Halves' = 1 .. Len(halves) + 1 /\ Halves = 1 .. Len(halves) /\ Len(halves) \in Nat
    BY <1>4, TypeFacts DEF Appears, Halves
  <2>3. \A h \in Halves' : h \in Halves \/ h = Len(halves) + 1
    BY <2>2
  <2> QED BY <1>2, <1>4, <2>1, <2>3 DEF Appears
<1>5. ASSUME NEW h \in Halves, Changes(h),
             maxBytes > 0 => Len(halves'[h].data) <= maxBytes
      PROVE  \A i \in Halves' : maxBytes > 0 => Len(halves'[i].data) <= maxBytes
  <2>1. Halves' = Halves
    BY <1>5 DEF Changes, Halves
  <2> QED BY <1>2, <1>5, <2>1 DEF Changes
<1>6. CASE HalvesKept
  BY <1>3, <1>6, KeptHalves
<1>7. CASE lookup
  <2>1. CASE halves' = Append(halves, newReceiveStream(cap.id))
    BY <1>4, <2>1, AppearsBy, TypeFacts
  <2> QED BY <1>3, <1>7, <2>1 DEF lookup
<1>8. CASE opened
  <2>1. CASE halves' = Append(halves, newReceiveStream(opening))
    <3>1. opening \in StreamIDs
      BY <1>8 DEF opened, TypeOK
    <3> QED BY <1>4, <2>1, <3>1, AppearsBy
  <2> QED BY <1>3, <1>8, <2>1 DEF opened
<1>9. CASE writeBuffer
  <2>1. cur # 0 /\ cur \in Halves
    BY <1>9, TypeFacts DEF writeBuffer, MapsKeyed, Located
  <2>2. CASE bufferError = "none"
    <3>1. Changes(cur) /\ halves'[cur].data = halves[cur].data \o cap.data
      BY <1>9, <2>1, <2>2, WriteChanges
    <3>2. halves[cur].data \in Seq(Nat) /\ cap.data \in Seq(Nat)
      BY <2>1, TypeFacts
    <3>3. Len(halves'[cur].data) = Len(halves[cur].data) + Len(cap.data)
      BY <3>1, <3>2, ConcatProperties
    <3>4. Len(halves[cur].data) \in Nat /\ Len(cap.data) \in Nat /\ maxBytes \in Int
      BY <3>2, LenProperties, StreamsAssumption
    <3>5. ~(maxBytes > 0 /\ Len(halves[cur].data) + Len(cap.data) > maxBytes)
      BY <2>2, Zenon DEF bufferError
    <3>6. maxBytes > 0 => Len(halves'[cur].data) <= maxBytes
      <4> DEFINE a == Len(halves[cur].data)
                 b == Len(cap.data)
                 c == Len(halves'[cur].data)
      <4>1. a \in Nat /\ b \in Nat /\ c = a + b /\ maxBytes \in Int
            /\ ~(maxBytes > 0 /\ a + b > maxBytes)
        BY <3>3, <3>4, <3>5
      <4> HIDE DEF a, b, c
      <4>2. maxBytes > 0 => c <= maxBytes
        BY <4>1
      <4> QED BY <4>2 DEF c
    <3> QED BY <1>5, <2>1, <3>1, <3>6
  <2> QED BY <1>3, <1>9, <2>2 DEF writeBuffer
<1>10. ASSUME NEW h \in Halves, halves' = [halves EXCEPT ![h].bufClosed = TRUE]
       PROVE  \A i \in Halves' : maxBytes > 0 => Len(halves'[i].data) <= maxBytes
  BY <1>2, <1>5, <1>10, CloseBufferChanges DEF KeepsPayload
<1>11. CASE finishReceive
  <2>1. cur # 0 /\ cur \in Halves
    BY <1>11, TypeFacts DEF finishReceive, MapsKeyed, Located
  <2> QED BY <1>10, <1>11, <2>1 DEF finishReceive
<1>12. ASSUME NEW h \in Halves, closeBuffer(h)
       PROVE  \A i \in Halves' : maxBytes > 0 => Len(halves'[i].data) <= maxBytes
  BY <1>10, <1>12 DEF closeBuffer
<1>13. ASSUME NEW h \in Halves, Close(h)
       PROVE  \A i \in Halves' : maxBytes > 0 => Len(halves'[i].data) <= maxBytes
  BY <1>2, <1>5, <1>13, CloseChanges DEF KeepsPayload
<1>14. ASSUME NEW h \in Halves, readReturns(h)
       PROVE  \A i \in Halves' : maxBytes > 0 => Len(halves'[i].data) <= maxBytes
  <2>1. CASE TakesEof(h)
    BY <1>2, <1>5, <1>14, <2>1, ReadChanges DEF TakesEof, KeepsPayload
  <2>2. ASSUME NEW n \in 1 .. Len(halves[h].data), Takes(h, n)
        PROVE  Len(halves'[h].data) <= Len(halves[h].data)
    <3>1. halves[h].data \in Seq(Nat) /\ Len(halves[h].data) \in Nat
      BY TypeFacts
    <3>2. Len(halves'[h].data) = Len(halves[h].data) - n
      BY <2>2, <3>1, Split DEF Takes
    <3> QED BY <3>1, <3>2
  <2>3. halves'[h].data \in Seq(Nat) /\ Len(halves'[h].data) \in Nat
        /\ Len(halves[h].data) \in Nat /\ maxBytes \in Int /\ Changes(h)
    <3>1. halves' \in Seq(Half) /\ h \in 1 .. Len(halves')
      BY HalvesStay
    <3>2. halves'[h] \in Half
      BY <3>1, ElementOfSeq
    <3>3. halves'[h].data \in Seq(Nat)
      BY <3>2 DEF Half
    <3> QED BY <1>14, <3>3, LenProperties, ReadChanges, TypeFacts, StreamsAssumption
  <2>4. CASE \E n \in 1 .. Len(halves[h].data) : Takes(h, n)
    <3>1. Len(halves'[h].data) <= Len(halves[h].data)
      BY <2>2, <2>4
    <3>2. maxBytes > 0 => Len(halves'[h].data) <= maxBytes
      BY <1>2, <2>3, <3>1
    <3> QED BY <1>5, <2>3, <3>2
  <2> QED BY <1>14, <2>1, <2>4, ReadChanges
<1> QED
  BY NextCases, <1>6, <1>7, <1>8, <1>9, <1>11, <1>12, <1>13, <1>14 DEF HalvesKept

(* A sequence over a set is one over any larger set.                       *)
LEMMA SeqMonotone ==
    ASSUME NEW S, NEW T, S \subseteq T, NEW s \in Seq(S)
    PROVE  s \in Seq(T)
<1>1. Len(s) \in Nat /\ s \in [1 .. Len(s) -> S]
  BY LenProperties
<1>2. s \in [1 .. Len(s) -> T]
  BY <1>1
<1> QED BY <1>1, <1>2, SeqDef

(* References to halves stay references to halves.                         *)
LEMMA IndexTypesStep ==
    ASSUME TypeOK, MapsKeyed, [Next]_vars
    PROVE  IndexTypes'
<1>0. /\ Len(halves) \in Nat /\ Halves = 1 .. Len(halves)
      /\ Len(halves') \in Nat /\ Halves' = 1 .. Len(halves')
      /\ Len(halves) <= Len(halves') /\ Halves \subseteq Halves'
      /\ cap.id \in StreamIDs
  BY TypeFacts, HalvesStay
<1>1. entry \in [StreamIDs -> 0 .. Len(halves')] /\ cur \in 0 .. Len(halves')
  BY <1>0 DEF TypeOK
<1>2. \A k \in Kinds : /\ incoming[k] \in Seq(Halves) /\ incoming[k] \in Seq(Halves')
                       /\ Len(incoming[k]) \in Nat /\ Len(incoming[k]) <= QueueCap
  BY <1>0, SeqMonotone, LenProperties DEF TypeOK
<1>3. incoming \in [Kinds -> Seq(Halves')]
  BY <1>2 DEF TypeOK
<1>4. held \subseteq Halves' /\ reading \subseteq held /\ closing \subseteq held
  BY <1>0 DEF TypeOK
<1>5. QueueCap \in Nat \ {0} /\ kindOf(cap.id) \in Kinds
  BY StreamsAssumption DEF kindOf, Kinds
<1>6. ASSUME UNCHANGED <<incoming, held, reading, closing>>,
             entry' \in [StreamIDs -> 0 .. Len(halves')], cur' \in 0 .. Len(halves')
      PROVE  IndexTypes'
  BY <1>2, <1>3, <1>4, <1>6 DEF IndexTypes
<1>7. CASE \/ checkStop \/ trackSendStream \/ look \/ writeBuffer \/ finishReceive
           \/ deferredClose \/ parseFails \/ SessionClose \/ concurrentMapAccess
           \/ UNCHANGED vars
           \/ \E id \in PeerIDs, c \in Capsules : parse(id, c[1], c[2])
           \/ \E kind \in Kinds : OpenStream(kind)
  <2>1. UNCHANGED <<incoming, held, reading, closing, entry>> /\ (cur' = cur \/ cur' = 0)
    BY <1>7 DEF checkStop, trackSendStream, look, writeBuffer, finishReceive,
       deferredClose, parseFails, SessionClose, concurrentMapAccess, vars, parse,
       OpenStream, loopFrame, appFrame, appVars, mapVars, loopVars
  <2>2. cur' \in 0 .. Len(halves')
    BY <1>0, <1>1, <2>1
  <2> QED BY <1>1, <1>6, <2>1, <2>2
<1>8. CASE lookup
  <2>1. UNCHANGED <<incoming, held, reading, closing, entry>>
    BY <1>8 DEF lookup, loopFrame, appVars
  <2>2. CASE cur' = Len(halves) + 1 /\ halves' = Append(halves, newReceiveStream(cap.id))
    <3>1. Len(halves') = Len(halves) + 1
      BY <1>0, <2>2, AppearsBy DEF Appears
    <3> QED BY <1>0, <1>1, <1>6, <2>1, <2>2, <3>1
  <2>3. CASE cur' = cur \/ cur' = entry[cap.id]
    BY <1>0, <1>1, <1>6, <2>1, <2>3
  <2> QED BY <1>8, <2>2, <2>3 DEF lookup
<1>9. CASE insert \/ delete
  <2>1. UNCHANGED <<incoming, held, reading, closing, cur>>
    BY <1>9 DEF insert, delete, loopFrame, appVars
  <2>2. entry' = [entry EXCEPT ![cap.id] = cur] \/ entry' = [entry EXCEPT ![cap.id] = 0]
    BY <1>9 DEF insert, delete
  <2>3. 0 \in 0 .. Len(halves')
    BY <1>0
  <2>4. entry' \in [StreamIDs -> 0 .. Len(halves')]
    BY <1>1, <2>2, <2>3
  <2> QED BY <1>1, <1>6, <2>1, <2>4
<1>10. CASE enqueueIncoming
  <2>1. UNCHANGED <<held, reading, closing, entry, cur>>
    BY <1>10 DEF enqueueIncoming, loopFrame, appVars, mapVars
  <2>2. CASE UNCHANGED incoming
    BY <1>1, <1>6, <2>1, <2>2
  <2>3. CASE /\ Len(incoming[kindOf(cap.id)]) < QueueCap
             /\ incoming' = [incoming EXCEPT ![kindOf(cap.id)] = Append(@, cur)]
    <3> DEFINE k == kindOf(cap.id)
               old == incoming[k]
               new == Append(old, cur)
    <3>1. old \in Seq(Halves') /\ Len(old) \in Nat /\ Len(old) < QueueCap /\ k \in Kinds
      BY <1>2, <1>5, <2>3
    <3>2. cur \in Halves'
      BY <1>0, <1>1, <1>10 DEF enqueueIncoming, MapsKeyed, Located
    <3>3. incoming' = [incoming EXCEPT ![k] = new]
      BY <2>3
    <3> HIDE DEF k, old
    <3>4. new \in Seq(Halves') /\ Len(new) = Len(old) + 1
      BY <3>1, <3>2, AppendProperties
    <3> HIDE DEF new
    <3>5. Len(new) <= QueueCap
      BY <1>5, <3>1, <3>4
    <3>6. incoming' \in [Kinds -> Seq(Halves')]
      BY <1>3, <3>1, <3>3, <3>4
    <3>7. \A j \in Kinds : incoming'[j] = IF j = k THEN new ELSE incoming[j]
      BY <1>3, <3>1, <3>3
    <3>8. \A j \in Kinds : Len(incoming'[j]) <= QueueCap
      BY <1>2, <3>5, <3>7
    <3> QED BY <1>1, <1>4, <2>1, <3>6, <3>8 DEF IndexTypes
  <2> QED BY <1>10, <2>2, <2>3 DEF enqueueIncoming
<1>11. CASE opened
  <2>1. UNCHANGED <<incoming, reading, closing, cur>>
    BY <1>11 DEF opened, appFrame, loopVars
  <2>2. CASE UNCHANGED <<entry, held>>
    BY <1>1, <1>6, <2>1, <2>2
  <2>3. CASE /\ halves' = Append(halves, newReceiveStream(opening))
             /\ entry' = [entry EXCEPT ![opening] = Len(halves) + 1]
             /\ held' = held \cup {Len(halves) + 1}
    <3>1. opening \in StreamIDs
      BY <1>11 DEF opened, TypeOK
    <3>2. Len(halves') = Len(halves) + 1
      BY <2>3, <3>1, AppearsBy DEF Appears
    <3>3. Len(halves) + 1 \in 0 .. Len(halves') /\ Len(halves) + 1 \in Halves'
      BY <1>0, <3>2
    <3>4. entry' \in [StreamIDs -> 0 .. Len(halves')]
      BY <1>1, <2>3, <3>1, <3>3
    <3>5. held' \subseteq Halves' /\ reading' \subseteq held' /\ closing' \subseteq held'
      BY <1>4, <2>1, <2>3, <3>3
    <3> QED BY <1>1, <1>2, <1>3, <2>1, <3>4, <3>5 DEF IndexTypes
  <2> QED BY <1>11, <2>2, <2>3 DEF opened
<1>12. ASSUME NEW kind \in Kinds, AcceptStream(kind) PROVE IndexTypes'
  <2> DEFINE old == incoming[kind]
             new == Tail(old)
  <2>1. UNCHANGED <<reading, closing, entry, cur, halves>> /\ old # <<>>
        /\ held' = held \cup {Head(old)} /\ incoming' = [incoming EXCEPT ![kind] = new]
    BY <1>12 DEF AcceptStream, appFrame, loopVars, mapVars
  <2>2. old \in Seq(Halves') /\ Len(old) \in Nat /\ Len(old) <= QueueCap
    BY <1>2
  <2> HIDE DEF old
  <2>3. Head(old) \in Halves' /\ new \in Seq(Halves') /\ Len(new) = Len(old) - 1
    BY <2>1, <2>2, HeadTailProperties
  <2> HIDE DEF new
  <2>4. Len(new) <= QueueCap
    BY <1>5, <2>2, <2>3
  <2>5. incoming' \in [Kinds -> Seq(Halves')]
    BY <1>3, <2>1, <2>3
  <2>6. \A j \in Kinds : incoming'[j] = IF j = kind THEN new ELSE incoming[j]
    BY <1>3, <2>1
  <2>7. \A j \in Kinds : Len(incoming'[j]) <= QueueCap
    BY <1>2, <2>4, <2>6
  <2>8. held' \subseteq Halves' /\ reading' \subseteq held' /\ closing' \subseteq held'
    BY <1>4, <2>1, <2>3
  <2> QED BY <1>1, <2>1, <2>5, <2>7, <2>8 DEF IndexTypes
<1>13. ASSUME NEW h \in Halves, Read(h) \/ readReturns(h) \/ Close(h) \/ closeBuffer(h)
       PROVE  IndexTypes'
  <2>1. UNCHANGED <<incoming, held, entry, cur>>
    BY <1>13 DEF Read, readReturns, Close, closeBuffer, appFrame, loopVars, mapVars
  <2>2. reading' \subseteq held /\ closing' \subseteq held
    BY <1>4, <1>13 DEF Read, readReturns, Close, closeBuffer
  <2> QED BY <1>1, <1>2, <1>3, <1>4, <2>1, <2>2 DEF IndexTypes
<1> QED
  BY NextCases, <1>7, <1>8, <1>9, <1>10, <1>11, <1>12, <1>13

(* The other variables.                                                    *)
LEMMA ValueTypesStep ==
    ASSUME TypeOK, OursOpened, [Next]_vars
    PROVE  ValueTypes'
<1> USE DEF LoopPlaces
<1>0. ValueTypes
  BY TypeParts
<1>1. cap.id \in StreamIDs /\ <<>> \in Seq(Nat) /\ 0 \in StreamIDs
      /\ noCapsule \in [id : StreamIDs, data : Seq(Nat), fin : BOOLEAN]
  BY <1>0, StreamsAssumption, EmptySeq DEF ValueTypes, StreamIDs, noCapsule
<1>2. CASE \/ checkStop \/ insert \/ trackSendStream \/ look \/ finishReceive \/ delete
           \/ deferredClose \/ enqueueIncoming
  BY <1>0, <1>1, <1>2 DEF ValueTypes, checkStop, insert, trackSendStream, look,
     finishReceive, delete, deferredClose, enqueueIncoming, loopFrame, appVars,
     openVars, peerVars, mapVars, afterInsert, afterEnqueue, afterData
<1>3. CASE parseFails \/ SessionClose \/ concurrentMapAccess \/ UNCHANGED vars
  BY <1>0, <1>3 DEF ValueTypes, parseFails, SessionClose, concurrentMapAccess, vars,
     loopFrame, appFrame, appVars, openVars, peerVars, mapVars, loopVars
<1>4. CASE lookup
  BY <1>0, <1>1, <1>4 DEF ValueTypes, lookup, loopFrame, appVars, openVars, peerVars
<1>5. CASE writeBuffer
  BY <1>0, <1>5 DEF ValueTypes, writeBuffer, loopFrame, appVars, openVars, peerVars,
     bufferError, afterData
<1>6. ASSUME NEW id \in PeerIDs, NEW c \in Capsules, parse(id, c[1], c[2])
      PROVE  ValueTypes'
  <2>1. id \in StreamIDs /\ c[1] \in Nat /\ c[2] \in BOOLEAN /\ MaxCapsules \in Nat
    BY StreamsAssumption
  <2>2. sent[id] \in Nat
    BY <1>0, <2>1 DEF ValueTypes
  <2>3. [i \in 1 .. c[1] |-> sent[id] + i] \in Seq(Nat)
    <3>1. [i \in 1 .. c[1] |-> sent[id] + i] \in [1 .. c[1] -> Nat]
      BY <2>1, <2>2
    <3> QED BY <2>1, <3>1, SeqDef
  <2>4. cap' \in [id : StreamIDs, data : Seq(Nat), fin : BOOLEAN]
    BY <1>6, <2>1, <2>3 DEF parse
  <2>5. sent' \in [StreamIDs -> Nat] /\ capsules' \in 0 .. MaxCapsules
    BY <1>0, <1>6, <2>1, <2>2 DEF parse, ValueTypes
  <2>6. UNION {fins', early', afterFin', discarded'} \subseteq StreamIDs
    BY <1>0, <1>6, <2>1 DEF parse, ValueTypes
  <2>7. loop' \in LoopPlaces
        /\ UNCHANGED <<tracked, told, opening, createdStreamCounter, done, crashed, fault>>
    BY <1>6 DEF parse, loopFrame, appVars, openVars, mapVars
  <2> QED BY <1>0, <2>4, <2>5, <2>6, <2>7 DEF ValueTypes
<1>7. ASSUME NEW kind \in Kinds, OpenStream(kind) PROVE ValueTypes'
  <2>1. PICK i \in 0 .. MaxOpens : createdStreamCounter = 4 * i
    BY <1>0 DEF ValueTypes
  <2>2. MaxOpens \in Nat /\ createdStreamCounter < 4 * MaxOpens
    BY <1>7, StreamsAssumption DEF OpenStream
  <2>3. i + 1 \in 0 .. MaxOpens /\ createdStreamCounter' = 4 * (i + 1)
    BY <1>7, <2>1, <2>2 DEF OpenStream
  <2>4. \A d \in 0 .. 3 : createdStreamCounter + d \in StreamIDs
    BY <2>1, <2>2 DEF StreamIDs
  <2>5. opening' \in StreamIDs /\ tracked' = tracked \cup {opening'}
    BY <1>7, <2>1, <2>4 DEF OpenStream
  <2>6. UNCHANGED <<told, done, crashed, loop, cap, capsules, sent, fins, early,
                    afterFin, discarded, fault>>
    BY <1>7 DEF OpenStream, toldAtOnce, appFrame, peerVars, loopVars
  <2> QED BY <1>0, <2>3, <2>5, <2>6 DEF ValueTypes
<1>8. ASSUME NEW kind \in Kinds, AcceptStream(kind) PROVE ValueTypes'
  BY <1>0, <1>8 DEF ValueTypes, AcceptStream, appFrame, openVars, peerVars, mapVars,
     loopVars
<1>9. ASSUME NEW h \in Halves, Read(h) \/ readReturns(h) \/ Close(h) \/ closeBuffer(h)
      PROVE  ValueTypes'
  BY <1>0, <1>9 DEF ValueTypes, Read, readReturns, Close, closeBuffer, appFrame,
     openVars, peerVars, mapVars, loopVars
<1>10. CASE opened
  BY <1>0, <1>10 DEF OursOpened, ValueTypes, opened, appFrame, peerVars, loopVars
<1> QED
  BY NextCases, <1>2, <1>3, <1>4, <1>5, <1>6, <1>7, <1>8, <1>9, <1>10

-----------------------------------------------------------------------------
(* The maps, the read loop and the open calls.                             *)

(* The steps by what they do to the read loop's variables and to entry.    *)
LoopKept == UNCHANGED <<loop, cap, cur, discarded, fault>>

AppKept == UNCHANGED <<told, opening, createdStreamCounter, held, closing>>

PeerKept == UNCHANGED <<fins, early, afterFin, sent>>

(* Steps of the application and of the runtime.                            *)
LEMMA AppSteps ==
    ASSUME \/ SessionClose \/ concurrentMapAccess \/ UNCHANGED vars \/ opened
           \/ \E kind \in Kinds : OpenStream(kind) \/ AcceptStream(kind)
           \/ \E h \in Halves :
                 Read(h) \/ readReturns(h) \/ Close(h) \/ closeBuffer(h)
    PROVE  LoopKept /\ PeerKept /\ (UNCHANGED entry \/ opened)
  BY DEF SessionClose, concurrentMapAccess, vars, opened, OpenStream, AcceptStream,
     Read, readReturns, Close, closeBuffer, appFrame, mapVars, loopVars, peerVars,
     LoopKept, PeerKept

(* Steps of the read loop.                                                 *)
LEMMA LoopSteps ==
    ASSUME \/ checkStop \/ lookup \/ insert \/ trackSendStream \/ enqueueIncoming
           \/ look \/ writeBuffer \/ finishReceive \/ delete \/ deferredClose
           \/ parseFails
           \/ \E id \in PeerIDs, c \in Capsules : parse(id, c[1], c[2])
    PROVE  AppKept
  BY DEF checkStop, lookup, insert, trackSendStream, enqueueIncoming, look, writeBuffer,
     finishReceive, delete, deferredClose, parseFails, parse, loopFrame, appVars,
     openVars, AppKept

(* What has been told, tracked, finished or misused stays so.              *)
LEMMA SetsGrow ==
    ASSUME [Next]_vars
    PROVE  /\ told \subseteq told' /\ tracked \subseteq tracked' /\ fins \subseteq fins'
           /\ early \subseteq early' /\ afterFin \subseteq afterFin'
<1>1. CASE \/ checkStop \/ lookup \/ insert \/ trackSendStream \/ enqueueIncoming
           \/ look \/ writeBuffer \/ finishReceive \/ delete \/ deferredClose
           \/ parseFails
  BY <1>1 DEF checkStop, lookup, insert, trackSendStream, enqueueIncoming, look,
     writeBuffer, finishReceive, delete, deferredClose, parseFails, loopFrame, appVars,
     mapVars, peerVars
<1>2. ASSUME NEW id \in PeerIDs, NEW c \in Capsules, parse(id, c[1], c[2])
      PROVE  /\ told \subseteq told' /\ tracked \subseteq tracked' /\ fins \subseteq fins'
             /\ early \subseteq early' /\ afterFin \subseteq afterFin'
  BY <1>2 DEF parse, loopFrame, appVars, mapVars
<1>3. CASE SessionClose \/ concurrentMapAccess \/ UNCHANGED vars \/ opened
  BY <1>3 DEF SessionClose, concurrentMapAccess, vars, opened, appFrame, appVars,
     mapVars, peerVars
<1>4. ASSUME NEW kind \in Kinds, OpenStream(kind) \/ AcceptStream(kind)
      PROVE  /\ told \subseteq told' /\ tracked \subseteq tracked' /\ fins \subseteq fins'
             /\ early \subseteq early' /\ afterFin \subseteq afterFin'
  BY <1>4 DEF OpenStream, AcceptStream, toldAtOnce, appFrame, mapVars, peerVars
<1>5. ASSUME NEW h \in Halves, Read(h) \/ readReturns(h) \/ Close(h) \/ closeBuffer(h)
      PROVE  /\ told \subseteq told' /\ tracked \subseteq tracked' /\ fins \subseteq fins'
             /\ early \subseteq early' /\ afterFin \subseteq afterFin'
  BY <1>5 DEF Read, readReturns, Close, closeBuffer, appFrame, mapVars, peerVars
<1> QED BY NextCases, <1>1, <1>2, <1>3, <1>4, <1>5

(* The ID being opened has no stream yet.                                  *)
LEMMA OpeningIsNew ==
    ASSUME TypeOK, MapsKeyed, OursOpened, opening # -1
    PROVE  /\ opening \in StreamIDs /\ entry[opening] = 0
           /\ \A h \in Halves : halves[h].id # opening
<1>1. opening \in StreamIDs /\ isOurStream(opening) /\ opening \notin told
  BY DEF TypeOK, OursOpened
<1>2. \A h \in Halves : halves[h].id # opening
  BY <1>1 DEF OursOpened
<1>3. entry[opening] # 0 => entry[opening] \in Halves
  BY <1>1, TypeFacts DEF TypeOK
<1> QED BY <1>1, <1>2, <1>3 DEF MapsKeyed

(* A new half is the read loop's, for its capsule, or that of an open call.*)
ByLoop(h) ==
    /\ lookup /\ ~found(cap.id) /\ ~isOurStream(cap.id)
    /\ loop = "lookup" /\ loop' = "insert" /\ cur' = h /\ cap' = cap
    /\ UNCHANGED <<entry, tracked, incoming>> /\ PeerKept /\ AppKept
    /\ halves'[h] = newReceiveStream(cap.id) /\ halves'[h].id = cap.id

ByOpen(h) ==
    /\ opened /\ opening # -1 /\ isBidirectionalStream(opening)
    /\ entry' = [entry EXCEPT ![opening] = h] /\ held' = held \cup {h}
    /\ told' = told \cup {opening} /\ opening' = -1
    /\ UNCHANGED <<tracked, createdStreamCounter, closing, incoming>>
    /\ LoopKept /\ PeerKept
    /\ halves'[h] = newReceiveStream(opening) /\ halves'[h].id = opening

LEMMA NewHalves ==
    ASSUME TypeOK, MapsKeyed, OursOpened, [Next]_vars, NEW h \in Halves', h \notin Halves
    PROVE  /\ h = Len(halves) + 1
           /\ \A g \in Halves : halves'[g] = halves[g]
           /\ Halves' = Halves \cup {h}
           /\ ByLoop(h) \/ ByOpen(h)
<1>0. Halves = 1 .. Len(halves) /\ Len(halves) \in Nat /\ cap.id \in StreamIDs
  BY TypeFacts
<1>1. ASSUME NEW id \in StreamIDs, Appears(id)
      PROVE  /\ h = Len(halves) + 1 /\ Halves' = Halves \cup {h}
             /\ \A g \in Halves : halves'[g] = halves[g]
             /\ halves'[h] = newReceiveStream(id) /\ halves'[h].id = id
  <2>1. Halves' = 1 .. Len(halves) + 1
    BY <1>1 DEF Appears, Halves
  <2>2. h = Len(halves) + 1 /\ Halves' = Halves \cup {h}
    BY <1>0, <2>1
  <2> QED BY <1>1, <2>2, NewHalf DEF Appears
<1>2. ASSUME halves' = halves PROVE FALSE
  BY <1>2 DEF Halves
<1>3. ASSUME NEW i \in Halves, Changes(i) PROVE FALSE
  BY <1>3 DEF Changes, Halves
<1>4. CASE lookup
  <2>1. halves' = Append(halves, newReceiveStream(cap.id))
    BY <1>2, <1>4 DEF lookup
  <2>2. Appears(cap.id)
    BY <1>0, <2>1, AppearsBy
  <2>3. /\ h = Len(halves) + 1 /\ Halves' = Halves \cup {h}
        /\ \A g \in Halves : halves'[g] = halves[g]
        /\ halves'[h] = newReceiveStream(cap.id) /\ halves'[h].id = cap.id
    BY <1>0, <1>1, <2>2
  <2>4. /\ loop = "lookup" /\ ~found(cap.id) /\ ~isOurStream(cap.id)
        /\ loop' = "insert" /\ cur' = h
    BY <1>2, <1>4, <2>3 DEF lookup
  <2>5. UNCHANGED <<cap, entry, tracked, incoming>> /\ PeerKept /\ AppKept
    BY <1>4, LoopSteps DEF lookup, peerVars, PeerKept
  <2> QED BY <1>4, <2>3, <2>4, <2>5 DEF ByLoop
<1>5. CASE opened
  <2>1. halves' = Append(halves, newReceiveStream(opening)) /\ isBidirectionalStream(opening)
        /\ opening # -1 /\ opening \in StreamIDs
    BY <1>2, <1>5 DEF opened, TypeOK
  <2>2. Appears(opening)
    BY <2>1, AppearsBy
  <2>3. /\ h = Len(halves) + 1 /\ Halves' = Halves \cup {h}
        /\ \A g \in Halves : halves'[g] = halves[g]
        /\ halves'[h] = newReceiveStream(opening) /\ halves'[h].id = opening
    BY <1>1, <2>1, <2>2
  <2>4. /\ entry' = [entry EXCEPT ![opening] = h] /\ held' = held \cup {h}
        /\ told' = told \cup {opening} /\ opening' = -1
        /\ UNCHANGED <<tracked, createdStreamCounter, closing, incoming>>
    BY <1>5, <2>1, <2>3 DEF opened
  <2>5. LoopKept /\ PeerKept
    BY <1>5, AppSteps
  <2> QED BY <1>5, <2>1, <2>3, <2>4, <2>5 DEF ByOpen
<1>6. CASE HalvesKept
  BY <1>2, <1>6, KeptHalves
<1>7. CASE writeBuffer
  <2>1. cur # 0 /\ cur \in Halves
    BY <1>7, TypeFacts DEF writeBuffer, MapsKeyed, Located
  <2> QED BY <1>2, <1>3, <1>7, <2>1, WriteChanges DEF writeBuffer
<1>8. CASE finishReceive
  <2>1. cur # 0 /\ cur \in Halves
    BY <1>8, TypeFacts DEF finishReceive, MapsKeyed, Located
  <2> QED BY <1>3, <1>8, <2>1, CloseBufferChanges DEF finishReceive
<1>9. ASSUME NEW i \in Halves, readReturns(i) \/ Close(i) \/ closeBuffer(i)
      PROVE  FALSE
  <2>1. CASE closeBuffer(i)
    BY <1>3, <2>1, CloseBufferChanges DEF closeBuffer
  <2> QED BY <1>3, <1>9, <2>1, ReadChanges, CloseChanges
<1> QED
  BY NextCases, <1>4, <1>5, <1>6, <1>7, <1>8, <1>9 DEF HalvesKept

(* Facts about references that every step below starts from.               *)
LEMMA References ==
    ASSUME TypeOK
    PROVE  /\ \A id \in StreamIDs : entry[id] # 0 => entry[id] \in Halves
           /\ cur # 0 => cur \in Halves
           /\ entry \in [StreamIDs -> 0 .. Len(halves)] /\ cap.id \in StreamIDs
           /\ held \subseteq Halves /\ closing \subseteq held
           /\ \A k \in Kinds : incoming[k] \in Seq(Halves) /\ Len(incoming[k]) \in Nat
           /\ \A k \in Kinds : \A i \in 1 .. Len(incoming[k]) : incoming[k][i] \in Halves
<1>1. Halves = 1 .. Len(halves) /\ Len(halves) \in Nat /\ cap.id \in StreamIDs
  BY TypeFacts
<1>2. entry \in [StreamIDs -> 0 .. Len(halves)] /\ cur \in 0 .. Len(halves)
  BY DEF TypeOK
<1>3. \A k \in Kinds : incoming[k] \in Seq(Halves)
  BY DEF TypeOK
<1>4. \A k \in Kinds : Len(incoming[k]) \in Nat
  BY <1>3, LenProperties
<1>5. \A k \in Kinds : \A i \in 1 .. Len(incoming[k]) : incoming[k][i] \in Halves
  BY <1>3, ElementOfSeq
<1> QED BY <1>1, <1>2, <1>3, <1>4, <1>5 DEF TypeOK

(* Every step keeps the maps keyed.                                        *)
LEMMA MapsKeyedStep ==
    ASSUME TypeOK, MapsKeyed, OursOpened, [Next]_vars
    PROVE  MapsKeyed'
<1> USE DEF Located
<1>0. /\ \A h \in Halves : halves'[h].id = halves[h].id
      /\ \A id \in StreamIDs : entry[id] # 0 => entry[id] \in Halves
      /\ cur # 0 => cur \in Halves
      /\ entry \in [StreamIDs -> 0 .. Len(halves)] /\ cap.id \in StreamIDs
  BY HalvesStay, References
<1>1. \A id \in StreamIDs : entry[id] # 0 => halves'[entry[id]].id = id
  BY <1>0 DEF MapsKeyed
<1>2. ASSUME UNCHANGED <<entry, cap, cur>>,
             loop' \in Located => loop \in Located,
             loop' = "insert" => loop = "insert"
      PROVE  MapsKeyed'
  BY <1>0, <1>1, <1>2 DEF MapsKeyed
<1>3. CASE \/ look \/ writeBuffer \/ finishReceive \/ trackSendStream
           \/ enqueueIncoming \/ deferredClose \/ parseFails
  <2>1. UNCHANGED <<entry, cap, cur>> /\ loop' # "insert"
        /\ (loop \in Located \/ loop' \notin Located)
    BY <1>3 DEF look, writeBuffer, finishReceive, trackSendStream, enqueueIncoming,
       deferredClose, parseFails, mapVars, afterData, afterEnqueue
  <2> QED BY <1>2, <2>1
<1>4. CASE \/ SessionClose \/ concurrentMapAccess \/ UNCHANGED vars
           \/ \E kind \in Kinds : OpenStream(kind) \/ AcceptStream(kind)
           \/ \E h \in Halves : Read(h) \/ readReturns(h) \/ Close(h) \/ closeBuffer(h)
  <2>1. UNCHANGED <<loop, entry, cap, cur>>
    BY <1>4 DEF SessionClose, concurrentMapAccess, vars, OpenStream, AcceptStream,
       Read, readReturns, Close, closeBuffer, appFrame, mapVars, loopVars
  <2> QED BY <1>2, <2>1
<1>5. CASE checkStop
  <2>1. entry' = entry /\ loop' \in {"return", "parse"}
    BY <1>5 DEF checkStop, mapVars
  <2> QED BY <1>1, <2>1 DEF MapsKeyed
<1>6. ASSUME NEW id \in PeerIDs, NEW c \in Capsules, parse(id, c[1], c[2])
      PROVE  MapsKeyed'
  <2>1. entry' = entry /\ loop' = "lookup"
    BY <1>6 DEF parse, mapVars
  <2> QED BY <1>1, <2>1 DEF MapsKeyed
<1>7. CASE lookup
  <2>1. entry' = entry /\ cap' = cap
    BY <1>7 DEF lookup
  <2>2. CASE found(cap.id) /\ cur' = entry[cap.id] /\ loop' = "look"
    BY <1>0, <1>1, <2>1, <2>2 DEF MapsKeyed, found
  <2>3. CASE loop' = "check"
    BY <1>1, <2>1, <2>3 DEF MapsKeyed
  <2>4. CASE /\ ~found(cap.id) /\ ~isOurStream(cap.id)
             /\ halves' = Append(halves, newReceiveStream(cap.id))
             /\ cur' = Len(halves) + 1 /\ loop' = "insert"
    <3>1. Appears(cap.id) /\ newReceiveStream(cap.id).id = cap.id
      BY <1>0, <2>4, AppearsBy, NewHalf
    <3>2. halves'[cur'].id = cap.id /\ cur' # 0
      BY <2>4, <3>1, TypeFacts DEF Appears
    <3> QED BY <1>1, <2>1, <2>4, <3>2 DEF MapsKeyed, found
  <2> QED BY <1>7, <2>2, <2>3, <2>4 DEF lookup
<1>8. CASE insert
  <2>1. /\ loop = "insert" /\ loop' \in Located /\ UNCHANGED <<cap, cur>>
        /\ entry' = [entry EXCEPT ![cap.id] = cur]
    BY <1>8 DEF insert, afterInsert
  <2>2. cur # 0 /\ halves[cur].id = cap.id
    BY <2>1 DEF MapsKeyed
  <2>3. \A id \in StreamIDs : entry'[id] = IF id = cap.id THEN cur ELSE entry[id]
    BY <1>0, <2>1
  <2>4. halves'[cur].id = cap.id
    BY <1>0, <2>2
  <2> QED BY <1>0, <1>1, <2>1, <2>2, <2>3, <2>4 DEF MapsKeyed
<1>9. CASE delete
  <2>1. loop' = "check" /\ entry' = [entry EXCEPT ![cap.id] = 0]
    BY <1>9 DEF delete
  <2>2. \A id \in StreamIDs : entry'[id] = IF id = cap.id THEN 0 ELSE entry[id]
    BY <1>0, <2>1
  <2> QED BY <1>1, <2>1, <2>2 DEF MapsKeyed
<1>10. CASE opened
  <2>1. opening # -1 /\ UNCHANGED <<loop, cap, cur>>
    BY <1>10 DEF opened, appFrame, loopVars
  <2>2. opening \in StreamIDs /\ entry[opening] = 0 /\ isOurStream(opening)
    BY <2>1, OpeningIsNew DEF OursOpened
  <2>3. CASE UNCHANGED entry
    BY <1>2, <2>1, <2>3
  <2>4. CASE /\ halves' = Append(halves, newReceiveStream(opening))
             /\ entry' = [entry EXCEPT ![opening] = Len(halves) + 1]
    <3>1. Appears(opening) /\ newReceiveStream(opening).id = opening
      BY <2>2, <2>4, AppearsBy, NewHalf
    <3>2. \A id \in StreamIDs : entry'[id] = IF id = opening THEN Len(halves) + 1
                                                            ELSE entry[id]
      BY <1>0, <2>4
    <3>3. \A id \in StreamIDs : entry'[id] # 0 => halves'[entry'[id]].id = id
      BY <1>1, <2>2, <3>1, <3>2 DEF Appears
    <3>4. loop \in Located \/ loop = "insert" => cap.id # opening
      BY <2>2 DEF MapsKeyed
    <3> QED BY <1>0, <2>1, <3>2, <3>3, <3>4 DEF MapsKeyed
  <2> QED BY <1>10, <2>3, <2>4 DEF opened
<1> QED
  BY NextCases, <1>3, <1>4, <1>5, <1>6, <1>7, <1>8, <1>9, <1>10

(* What an ID of the code's own open calls is.                             *)
LEMMA OpenedIDs ==
    ASSUME TypeOK, NEW kind \in Kinds, OpenStream(kind)
    PROVE  /\ createdStreamCounter \in Nat /\ createdStreamCounter' \in Nat
           /\ opening' >= createdStreamCounter /\ opening' < createdStreamCounter'
           /\ createdStreamCounter' > createdStreamCounter /\ opening' \in Nat
           /\ isOurStream(opening')
<1>1. PICK i \in 0 .. MaxOpens : createdStreamCounter = 4 * i
  BY DEF TypeOK
<1>2. i \in Nat /\ IsServer \in BOOLEAN
  BY StreamsAssumption
<1>3. createdStreamCounter' = createdStreamCounter + 4
      /\ opening' = createdStreamCounter + (IF kind = "uni" THEN 2 ELSE 0)
                                         + (IF IsServer THEN 1 ELSE 0)
  BY DEF OpenStream
<1>4. CASE IsServer
  <2>1. opening' = 4 * i + 2 + 1 \/ opening' = 4 * i + 0 + 1
    BY <1>1, <1>3, <1>4
  <2>2. opening' % 2 = 1
    BY <1>2, <2>1
  <2> QED BY <1>1, <1>2, <1>3, <1>4, <2>1, <2>2 DEF isOurStream
<1>5. CASE ~IsServer
  <2>1. opening' = 4 * i + 2 + 0 \/ opening' = 4 * i + 0 + 0
    BY <1>1, <1>3, <1>5
  <2>2. opening' % 2 = 0
    BY <1>2, <2>1
  <2> QED BY <1>1, <1>2, <1>3, <1>5, <2>1, <2>2 DEF isOurStream
<1> QED BY <1>2, <1>4, <1>5

(* Every step keeps the promises about our own streams.                    *)
LEMMA OursOpenedStep ==
    ASSUME TypeOK, MapsKeyed, OursOpened, PeersFound, [Next]_vars
    PROVE  OursOpened'
<1>0. /\ \A h \in Halves : halves'[h].id = halves[h].id
      /\ Halves \subseteq Halves'
      /\ entry \in [StreamIDs -> 0 .. Len(halves)] /\ cap.id \in StreamIDs
      /\ told \subseteq StreamIDs /\ told \subseteq tracked
      /\ told \subseteq told' /\ tracked \subseteq tracked' /\ early \subseteq early'
      /\ cur # 0 => cur \in Halves
  BY HalvesStay, References, SetsGrow DEF TypeOK
(* Halves of ours: the read loop makes none, and an open call a known one.  *)
<1>1. ASSUME NEW h \in Halves', isOurStream(halves'[h].id)
      PROVE  halves'[h].id \in told' /\ isBidirectionalStream(halves'[h].id)
  <2>1. CASE h \in Halves
    BY <1>0, <1>1, <2>1 DEF OursOpened
  <2>2. CASE h \notin Halves
    BY <1>1, <2>2, NewHalves DEF ByLoop, ByOpen
  <2> QED BY <2>1, <2>2
<1>2. ASSUME UNCHANGED <<told, opening, createdStreamCounter>>,
             \A id \in told : isBidirectionalStream(id) => entry'[id] # 0,
             loop' = "lookup" => loop = "lookup" /\ cap' = cap
      PROVE  OursOpened'
  BY <1>0, <1>1, <1>2 DEF OursOpened
<1>3. CASE \/ checkStop \/ look \/ writeBuffer \/ finishReceive \/ trackSendStream
           \/ enqueueIncoming \/ deferredClose \/ parseFails \/ lookup
  <2>1. UNCHANGED <<entry, told, opening, createdStreamCounter>> /\ loop' # "lookup"
    BY <1>3 DEF checkStop, look, writeBuffer, finishReceive, trackSendStream,
       enqueueIncoming, deferredClose, parseFails, lookup, mapVars, afterData,
       afterEnqueue, loopFrame, appVars, openVars
  <2> QED BY <1>2, <2>1 DEF OursOpened
<1>4. CASE \/ SessionClose \/ concurrentMapAccess \/ UNCHANGED vars
           \/ \E kind \in Kinds : AcceptStream(kind)
           \/ \E h \in Halves : Read(h) \/ readReturns(h) \/ Close(h) \/ closeBuffer(h)
  <2>1. UNCHANGED <<loop, entry, cap, told, opening, createdStreamCounter>>
    BY <1>4 DEF SessionClose, concurrentMapAccess, vars, AcceptStream, Read,
       readReturns, Close, closeBuffer, appFrame, mapVars, loopVars, appVars, openVars
  <2> QED BY <1>2, <2>1 DEF OursOpened
<1>5. CASE insert
  <2>1. /\ UNCHANGED <<told, opening, createdStreamCounter>> /\ loop' # "lookup"
        /\ entry' = [entry EXCEPT ![cap.id] = cur] /\ loop = "insert"
    BY <1>5 DEF insert, afterInsert, loopFrame, appVars, openVars
  <2>2. cur # 0
    BY <2>1 DEF MapsKeyed
  <2>3. \A id \in told : isBidirectionalStream(id) => entry'[id] # 0
    BY <1>0, <2>1, <2>2 DEF OursOpened
  <2> QED BY <1>2, <2>1, <2>3
<1>6. CASE delete
  <2>1. /\ UNCHANGED <<told, opening, createdStreamCounter>> /\ loop' # "lookup"
        /\ entry' = [entry EXCEPT ![cap.id] = 0] /\ loop = "delete"
    BY <1>6 DEF delete, loopFrame, appVars, openVars
  <2>2. ~isBidirectionalStream(cap.id)
    BY <2>1 DEF PeersFound
  <2>3. \A id \in told : isBidirectionalStream(id) => entry'[id] # 0
    BY <1>0, <2>1, <2>2 DEF OursOpened
  <2> QED BY <1>2, <2>1, <2>3
<1>7. ASSUME NEW id \in PeerIDs, NEW c \in Capsules, parse(id, c[1], c[2])
      PROVE  OursOpened'
  <2>1. /\ UNCHANGED <<entry, told, opening, createdStreamCounter>> /\ cap'.id = id
        /\ early' = IF isOurStream(id) /\ (id \notin told \/ ~isBidirectionalStream(id))
                    THEN early \cup {id} ELSE early
    BY <1>7 DEF parse, mapVars, loopFrame, appVars, openVars
  <2>2. isOurStream(cap'.id) =>
          cap'.id \in early' \/ (cap'.id \in told' /\ isBidirectionalStream(cap'.id))
    BY <2>1
  <2> QED BY <1>0, <1>1, <2>1, <2>2 DEF OursOpened
<1>8. ASSUME NEW kind \in Kinds, OpenStream(kind) PROVE OursOpened'
  <2>1. /\ UNCHANGED <<entry, told, loop, cap, early>>
        /\ tracked' = tracked \cup {opening'}
    BY <1>8 DEF OpenStream, toldAtOnce, appFrame, loopVars, peerVars
  <2>2. /\ createdStreamCounter \in Nat /\ createdStreamCounter' \in Nat
        /\ opening' >= createdStreamCounter /\ opening' < createdStreamCounter'
        /\ createdStreamCounter' > createdStreamCounter /\ opening' \in Nat
        /\ isOurStream(opening')
    BY <1>8, OpenedIDs
  <2>3. \A id \in told : id \in Nat /\ isOurStream(id) /\ id < createdStreamCounter
    BY <1>0, StreamsAssumption DEF StreamIDs, OursOpened
  <2>4. opening' \notin told
    BY <2>2, <2>3
  <2>5. \A id \in told : id < createdStreamCounter'
    BY <2>2, <2>3
  <2> QED BY <1>0, <1>1, <2>1, <2>2, <2>3, <2>4, <2>5 DEF OursOpened
<1>9. CASE opened
  <2>1. /\ opening # -1 /\ UNCHANGED <<loop, cap, createdStreamCounter, early>>
        /\ told' = told \cup {opening} /\ opening' = -1
    BY <1>9 DEF opened, appFrame, loopVars, peerVars
  <2>2. opening \in StreamIDs /\ isOurStream(opening) /\ opening < createdStreamCounter
    BY <2>1, OpeningIsNew DEF OursOpened
  <2>3. \A id \in told' : isOurStream(id) /\ id < createdStreamCounter'
    BY <2>1, <2>2 DEF OursOpened
  <2>4. \A id \in told' : isBidirectionalStream(id) => entry'[id] # 0
    <3>1. CASE ~isBidirectionalStream(opening)
      <4>1. entry' = entry
        BY <1>9, <3>1 DEF opened
      <4> QED BY <2>1, <3>1, <4>1 DEF OursOpened
    <3>2. CASE isBidirectionalStream(opening)
      <4>1. entry' = [entry EXCEPT ![opening] = Len(halves) + 1]
        BY <1>9, <3>2 DEF opened
      <4>2. Len(halves) + 1 # 0
        BY TypeFacts
      <4>3. \A id \in StreamIDs : entry'[id] = IF id = opening THEN Len(halves) + 1
                                                              ELSE entry[id]
        BY <1>0, <2>2, <4>1
      <4> QED BY <1>0, <2>1, <2>2, <4>2, <4>3 DEF OursOpened
    <3> QED BY <3>1, <3>2
  <2> QED BY <1>1, <2>1, <2>3, <2>4 DEF OursOpened
<1> QED
  BY NextCases, <1>3, <1>4, <1>5, <1>6, <1>7, <1>8, <1>9

(* Every step keeps the promises about the peer's streams.                 *)
LEMMA PeersFoundStep ==
    ASSUME TypeOK, MapsKeyed, OursOpened, PeersFound, [Next]_vars
    PROVE  PeersFound'
<1> USE DEF Pending
<1>0. /\ \A h \in Halves : halves'[h].id = halves[h].id /\ halves[h].id \in StreamIDs
      /\ Halves \subseteq Halves'
      /\ entry \in [StreamIDs -> 0 .. Len(halves)] /\ cap.id \in StreamIDs
      /\ fins \subseteq fins' /\ afterFin \subseteq afterFin'
      /\ cap.fin \in BOOLEAN
  BY HalvesStay, References, SetsGrow, TypeFacts
<1> DEFINE Known(h) == LET id == halves[h].id
                       IN  \/ entry[id] # 0
                           \/ loop = "insert" /\ cap.id = id
                           \/ id \in fins /\ (loop = "lookup" /\ cap.id = id => id \in afterFin)
<1>1. \A h \in Halves : Known(h)
  BY DEF PeersFound
<1>2. ASSUME NEW h \in Halves', h \notin Halves PROVE Known(h)'
  <2>1. CASE ByLoop(h)
    BY <2>1 DEF ByLoop
  <2>2. CASE ByOpen(h)
    <3>1. opening # -1 /\ entry' = [entry EXCEPT ![opening] = h] /\ halves'[h].id = opening
      BY <2>2 DEF ByOpen
    <3>2. opening \in StreamIDs
      BY <3>1, OpeningIsNew
    <3>3. h = Len(halves) + 1 /\ Len(halves) \in Nat
      BY <1>2, NewHalves, TypeFacts
    <3> QED BY <1>0, <3>1, <3>2, <3>3
  <2> QED BY <1>2, <2>1, <2>2, NewHalves
<1>3. ASSUME UNCHANGED cap, fins' = fins, loop' # "lookup",
             \A id \in StreamIDs : entry[id] # 0 => entry'[id] # 0,
             loop = "insert" => loop' = "insert" \/ entry'[cap.id] # 0
      PROVE  \A h \in Halves' : Known(h)'
  <2>1. ASSUME NEW h \in Halves PROVE Known(h)'
    BY <1>0, <1>1, <1>3
  <2> QED BY <1>2, <2>1
<1>4. CASE \/ look \/ writeBuffer \/ finishReceive \/ trackSendStream \/ enqueueIncoming
           \/ deferredClose \/ parseFails \/ lookup
  <2>1. UNCHANGED <<entry, cap, fins>> /\ loop' # "lookup" /\ loop # "insert"
        /\ (loop' \in Pending \cup {"finish", "delete"}
               => loop \in Pending \cup {"finish", "delete"})
    BY <1>4 DEF look, writeBuffer, finishReceive, trackSendStream, enqueueIncoming,
       deferredClose, parseFails, lookup, mapVars, afterData, afterEnqueue, peerVars
  <2>2. loop' \in {"finish", "delete"} => cap.fin
    BY <1>4 DEF look, writeBuffer, finishReceive, trackSendStream, enqueueIncoming,
       deferredClose, parseFails, lookup, afterData, afterEnqueue, PeersFound
  <2>3. loop' = "delete" => ~isBidirectionalStream(cap.id)
    BY <1>4 DEF look, writeBuffer, finishReceive, trackSendStream, enqueueIncoming,
       deferredClose, parseFails, lookup, afterData, afterEnqueue
  <2>4. \A h \in Halves' : Known(h)'
    BY <1>3, <2>1
  <2>5. cap'.fin /\ loop' \in Pending \cup {"finish", "delete"} => cap'.id \in fins'
    BY <2>1 DEF PeersFound
  <2> QED BY <2>1, <2>2, <2>3, <2>4, <2>5 DEF PeersFound
<1>5. CASE insert
  <2>1. UNCHANGED <<cap, fins>> /\ loop = "insert" /\ loop' \in {"track", "enqueue"}
        /\ entry' = [entry EXCEPT ![cap.id] = cur]
    BY <1>5 DEF insert, afterInsert, peerVars
  <2>2. cur # 0
    BY <2>1 DEF MapsKeyed
  <2>3. \A id \in StreamIDs : entry'[id] = IF id = cap.id THEN cur ELSE entry[id]
    BY <1>0, <2>1
  <2>4. \A h \in Halves' : Known(h)'
    BY <1>0, <1>3, <2>1, <2>2, <2>3
  <2> QED BY <2>1, <2>4 DEF PeersFound
<1>6. CASE delete
  <2>1. UNCHANGED <<cap, fins, halves>> /\ loop = "delete" /\ loop' = "check"
        /\ entry' = [entry EXCEPT ![cap.id] = 0]
    BY <1>6 DEF delete, peerVars
  <2>2. cap.id \in fins
    BY <2>1 DEF PeersFound
  <2>3. \A id \in StreamIDs : entry'[id] = IF id = cap.id THEN 0 ELSE entry[id]
    BY <1>0, <2>1
  <2>4. ASSUME NEW h \in Halves PROVE Known(h)'
    BY <1>0, <1>1, <2>1, <2>2, <2>3
  <2>5. Halves' = Halves
    BY <2>1 DEF Halves
  <2> QED BY <2>1, <2>4, <2>5 DEF PeersFound
<1>7. CASE checkStop
  <2>1. UNCHANGED <<entry, fins, halves>> /\ loop = "check" /\ loop' \in {"return", "parse"}
    BY <1>7 DEF checkStop, peerVars, mapVars
  <2>2. Halves' = Halves
    BY <2>1 DEF Halves
  <2>3. ASSUME NEW h \in Halves PROVE Known(h)'
    BY <1>1, <2>1
  <2> QED BY <2>1, <2>2, <2>3 DEF PeersFound
<1>8. ASSUME NEW id \in PeerIDs, NEW c \in Capsules, parse(id, c[1], c[2])
      PROVE  PeersFound'
  <2>1. /\ UNCHANGED <<entry, halves>> /\ cap'.id = id /\ cap'.fin = c[2]
        /\ loop = "parse" /\ loop' = "lookup"
        /\ fins' = (IF c[2] THEN fins \cup {id} ELSE fins)
        /\ afterFin' = (IF id \in fins THEN afterFin \cup {id} ELSE afterFin)
    BY <1>8 DEF parse, mapVars
  <2>2. Halves' = Halves
    BY <2>1 DEF Halves
  <2>3. ASSUME NEW h \in Halves PROVE Known(h)'
    BY <1>0, <1>1, <2>1
  <2>4. c[2] => id \in fins'
    BY <2>1
  <2> QED BY <2>1, <2>2, <2>3, <2>4 DEF PeersFound
<1>9. CASE \/ SessionClose \/ concurrentMapAccess \/ UNCHANGED vars \/ opened
           \/ \E kind \in Kinds : OpenStream(kind) \/ AcceptStream(kind)
           \/ \E h \in Halves : Read(h) \/ readReturns(h) \/ Close(h) \/ closeBuffer(h)
  <2>1. UNCHANGED <<loop, cap, fins, afterFin>> /\ (entry' = entry \/ opened)
    BY <1>9, AppSteps DEF LoopKept, PeerKept
  <2>2. \A id \in StreamIDs : entry[id] # 0 => entry'[id] # 0
    <3>1. CASE entry' = entry
      BY <3>1
    <3>2. CASE opened
      <4>1. opening \in StreamIDs /\ entry[opening] = 0
        BY <3>2, OpeningIsNew DEF opened
      <4>2. entry' = entry \/ entry' = [entry EXCEPT ![opening] = Len(halves) + 1]
        BY <3>2 DEF opened
      <4> QED BY <1>0, <4>1, <4>2
    <3> QED BY <2>1, <3>1, <3>2
  <2>3. ASSUME NEW h \in Halves PROVE Known(h)'
    BY <1>0, <1>1, <2>1, <2>2
  <2>4. \A h \in Halves' : Known(h)'
    BY <1>2, <2>3
  <2> QED BY <2>1, <2>4 DEF PeersFound
<1> QED
  BY NextCases, <1>4, <1>5, <1>6, <1>7, <1>8, <1>9

(* A second stream for an ID needs a peer that went on after its FIN.      *)
LEMMA OneStreamStep ==
    ASSUME TypeOK, MapsKeyed, OursOpened, PeersFound, OneStreamPerID, [Next]_vars
    PROVE  OneStreamPerID'
<1>0. /\ \A h \in Halves : halves'[h].id = halves[h].id
      /\ afterFin \subseteq afterFin'
  BY HalvesStay, SetsGrow
<1>1. ASSUME NEW g \in Halves, NEW h \in Halves', h \notin Halves,
             halves[g].id = halves'[h].id
      PROVE  halves'[h].id \in afterFin'
  <2>1. CASE ByLoop(h)
    <3>1. /\ loop = "lookup" /\ entry[cap.id] = 0 /\ halves'[h].id = cap.id
          /\ halves[g].id = cap.id
      BY <1>1, <2>1 DEF ByLoop, found
    <3>2. cap.id \in afterFin
      BY <3>1 DEF PeersFound
    <3> QED BY <1>0, <3>1, <3>2
  <2>2. CASE ByOpen(h)
    BY <1>1, <2>2, OpeningIsNew DEF ByOpen
  <2> QED BY <1>1, <2>1, <2>2, NewHalves
<1> SUFFICES ASSUME NEW g \in Halves', NEW h \in Halves', g # h,
                    halves'[g].id = halves'[h].id
             PROVE  halves'[h].id \in afterFin'
  BY DEF OneStreamPerID
<1>2. CASE g \in Halves /\ h \in Halves
  BY <1>0, <1>2 DEF OneStreamPerID
<1>3. CASE g \in Halves /\ h \notin Halves
  BY <1>0, <1>1, <1>3
<1>4. CASE g \notin Halves /\ h \in Halves
  BY <1>0, <1>1, <1>4
<1>5. CASE g \notin Halves /\ h \notin Halves
  BY <1>5, NewHalves
<1> QED BY <1>2, <1>3, <1>4, <1>5

(* A half reaches the application only with its send limit.                *)
LEMMA TrackedStep ==
    ASSUME TypeOK, MapsKeyed, OursOpened, SendLimitsSet, TrackedBeforeHeld, [Next]_vars
    PROVE  SendLimitsSet' /\ TrackedBeforeHeld'
<1>0. /\ \A h \in Halves : halves'[h].id = halves[h].id
      /\ tracked \subseteq tracked' /\ held \subseteq Halves /\ cap.id \in StreamIDs
      /\ \A k \in Kinds : incoming[k] \in Seq(Halves) /\ Len(incoming[k]) \in Nat
      /\ \A k \in Kinds : \A i \in 1 .. Len(incoming[k]) : incoming[k][i] \in Halves
      /\ cur # 0 => cur \in Halves
  BY HalvesStay, References, SetsGrow
<1> DEFINE Limited(h) == isBidirectionalStream(halves[h].id) => halves[h].id \in tracked
<1>1. ASSUME NEW h \in Halves, Limited(h) PROVE Limited(h)'
  BY <1>0, <1>1
<1>2. /\ \A h \in held : Limited(h)'
      /\ \A k \in Kinds : \A i \in 1 .. Len(incoming[k]) : Limited(incoming[k][i])
  BY <1>0, <1>1 DEF TrackedBeforeHeld, SendLimitsSet
<1>3. \A k \in Kinds : \A i \in 1 .. Len(incoming[k]) :
         isBidirectionalStream(halves'[incoming[k][i]].id) =>
             halves'[incoming[k][i]].id \in tracked'
  BY <1>0, <1>2
<1>4. ASSUME UNCHANGED <<incoming, held>>,
             loop' = "enqueue" /\ isBidirectionalStream(cap'.id) => cap'.id \in tracked'
      PROVE  SendLimitsSet' /\ TrackedBeforeHeld'
  BY <1>2, <1>3, <1>4 DEF SendLimitsSet, TrackedBeforeHeld
<1>5. CASE \/ checkStop \/ look \/ writeBuffer \/ finishReceive \/ delete
           \/ deferredClose \/ parseFails \/ lookup
           \/ \E id \in PeerIDs, c \in Capsules : parse(id, c[1], c[2])
  <2>1. UNCHANGED <<incoming, held>> /\ loop' # "enqueue"
    BY <1>5 DEF checkStop, look, writeBuffer, finishReceive, delete, deferredClose,
       parseFails, lookup, parse, loopFrame, appVars, afterData
  <2> QED BY <1>4, <2>1
<1>6. CASE insert \/ trackSendStream
  <2>1. UNCHANGED <<incoming, held, cap>>
        /\ (loop' = "enqueue" /\ isBidirectionalStream(cap.id) => cap.id \in tracked')
    BY <1>6 DEF insert, trackSendStream, afterInsert, loopFrame, appVars
  <2> QED BY <1>4, <2>1
<1>7. CASE \/ SessionClose \/ concurrentMapAccess \/ UNCHANGED vars
           \/ \E kind \in Kinds : OpenStream(kind)
           \/ \E h \in Halves : Read(h) \/ readReturns(h) \/ Close(h) \/ closeBuffer(h)
  <2>1. UNCHANGED <<incoming, held, cap, loop>>
    BY <1>7 DEF SessionClose, concurrentMapAccess, vars, OpenStream, Read, readReturns,
       Close, closeBuffer, appFrame, appVars, loopVars
  <2> QED BY <1>0, <1>4, <2>1 DEF SendLimitsSet
<1>8. CASE opened
  <2>1. UNCHANGED <<incoming, cap, loop, tracked>> /\ opening # -1
    BY <1>8 DEF opened, appFrame, loopVars
  <2>2. CASE UNCHANGED held
    BY <1>0, <1>4, <2>1, <2>2 DEF SendLimitsSet
  <2>3. CASE /\ held' = held \cup {Len(halves) + 1}
             /\ halves' = Append(halves, newReceiveStream(opening))
    <3>1. opening \in StreamIDs /\ opening \in tracked'
      BY <2>1, OpeningIsNew DEF OursOpened
    <3>2. halves'[Len(halves) + 1].id = opening
      BY <2>3, <3>1, AppearsBy, NewHalf DEF Appears
    <3>3. TrackedBeforeHeld'
      BY <1>2, <2>3, <3>1, <3>2 DEF TrackedBeforeHeld
    <3> QED BY <1>0, <1>3, <2>1, <3>3 DEF SendLimitsSet
  <2> QED BY <1>8, <2>2, <2>3 DEF opened
<1>9. CASE enqueueIncoming
  <2>1. UNCHANGED <<held, cap, halves, tracked>> /\ loop = "enqueue" /\ loop' # "enqueue"
    BY <1>9 DEF enqueueIncoming, afterEnqueue, loopFrame, appVars, mapVars
  <2>2. CASE UNCHANGED incoming
    BY <1>4, <2>1, <2>2
  <2>3. CASE incoming' = [incoming EXCEPT ![kindOf(cap.id)] = Append(@, cur)]
    <3> DEFINE k == kindOf(cap.id)
               old == incoming[k]
               new == Append(old, cur)
    <3>1. k \in Kinds /\ incoming' = [incoming EXCEPT ![k] = new]
      BY <2>3 DEF kindOf, Kinds
    <3>2. old \in Seq(Halves) /\ Len(old) \in Nat /\ \A i \in 1 .. Len(old) : Limited(old[i])
      BY <1>0, <1>2, <3>1
    <3>3. cur \in Halves /\ Limited(cur)
      BY <1>0, <2>1 DEF MapsKeyed, SendLimitsSet, Located
    <3>4. \A j \in Kinds : incoming'[j] = IF j = k THEN new ELSE incoming[j]
      BY <3>1 DEF TypeOK
    <3> HIDE DEF k, old
    <3>5. Len(new) = Len(old) + 1 /\ new[Len(old) + 1] = cur
          /\ \A i \in 1 .. Len(old) : new[i] = old[i]
      BY <3>2, <3>3, AppendProperties
    <3> HIDE DEF new, Limited
    <3>6. \A i \in 1 .. Len(new) : Limited(new[i])
      BY <3>2, <3>3, <3>5
    <3>7. \A j \in Kinds : \A i \in 1 .. Len(incoming'[j]) : Limited(incoming'[j][i])
      BY <1>2, <3>4, <3>6
    <3> QED BY <1>2, <2>1, <3>7 DEF SendLimitsSet, TrackedBeforeHeld, Limited
  <2> QED BY <1>9, <2>2, <2>3 DEF enqueueIncoming
<1>10. ASSUME NEW kind \in Kinds, AcceptStream(kind)
       PROVE  SendLimitsSet' /\ TrackedBeforeHeld'
  <2> DEFINE old == incoming[kind]
             new == Tail(old)
  <2>1. /\ UNCHANGED <<loop, cap, halves, tracked>> /\ old # <<>>
        /\ held' = held \cup {Head(old)} /\ incoming' = [incoming EXCEPT ![kind] = new]
    BY <1>10 DEF AcceptStream, appFrame, loopVars, mapVars
  <2>2. old \in Seq(Halves) /\ Len(old) \in Nat /\ \A i \in 1 .. Len(old) : Limited(old[i])
    BY <1>0, <1>2
  <2>3. \A j \in Kinds : incoming'[j] = IF j = kind THEN new ELSE incoming[j]
    BY <2>1 DEF TypeOK
  <2> HIDE DEF old
  <2>4. Len(new) = Len(old) - 1 /\ Head(old) = old[1] /\ Len(old) > 0
        /\ \A i \in 1 .. Len(new) : new[i] = old[i + 1]
    BY <2>1, <2>2, HeadTailProperties, EmptySeq
  <2> HIDE DEF new, Limited
  <2>5. Limited(Head(old)) /\ \A i \in 1 .. Len(new) : Limited(new[i])
    <3>1. 1 \in 1 .. Len(old) /\ \A i \in 1 .. Len(new) : i + 1 \in 1 .. Len(old)
      BY <2>2, <2>4
    <3> QED BY <2>2, <2>4, <3>1
  <2>6. \A j \in Kinds : \A i \in 1 .. Len(incoming'[j]) : Limited(incoming'[j][i])
    BY <1>2, <2>3, <2>5
  <2>7. \A h \in held' : Limited(h)
    BY <2>1, <2>5 DEF TrackedBeforeHeld, Limited
  <2> QED BY <2>1, <2>6, <2>7 DEF SendLimitsSet, TrackedBeforeHeld, Limited
<1> QED
  BY NextCases, <1>5, <1>6, <1>7, <1>8, <1>9, <1>10

(* The buffer of a half that is not closed is closed only by a FIN.        *)
LEMMA BufferClosedBy ==
    ASSUME TypeOK, MapsKeyed, OursOpened, ClosedByFin, [Next]_vars,
           NEW h \in Halves', halves'[h].bufClosed, ~halves'[h].closed
    PROVE  /\ h \in Halves /\ ~halves[h].closed
           /\ halves[h].bufClosed \/ (finishReceive /\ h = cur)
<1>1. h \in Halves
  <2>1. CASE h \notin Halves
    <3>1. ByLoop(h) \/ ByOpen(h)
      BY <2>1, NewHalves
    <3>2. CASE ByLoop(h)
      BY <3>2, NewHalf, TypeFacts DEF ByLoop
    <3>3. CASE ByOpen(h)
      BY <3>3, NewHalf, OpeningIsNew DEF ByOpen
    <3> QED BY <3>1, <3>2, <3>3
  <2> QED BY <2>1
<1>2. ~halves[h].closed
  BY <1>1, HalvesStay
<1>3. ASSUME halves'[h] = halves[h] PROVE halves[h].bufClosed
  BY <1>3
<1>4. CASE HalvesKept
  BY <1>1, <1>2, <1>3, <1>4, KeptHalves
<1>5. CASE lookup
  <2>1. CASE halves' = Append(halves, newReceiveStream(cap.id))
    BY <1>1, <1>2, <1>3, <2>1, AppearsBy, TypeFacts DEF Appears
  <2> QED BY <1>1, <1>2, <1>3, <1>5, <2>1 DEF lookup
<1>6. CASE opened
  <2>1. CASE halves' = Append(halves, newReceiveStream(opening))
    <3>1. opening \in StreamIDs
      BY <1>6, OpeningIsNew DEF opened
    <3> QED BY <1>1, <1>2, <1>3, <2>1, <3>1, AppearsBy DEF Appears
  <2> QED BY <1>1, <1>2, <1>3, <1>6, <2>1 DEF opened
<1>7. CASE writeBuffer
  <2>1. cur # 0 /\ cur \in Halves
    BY <1>7, TypeFacts DEF writeBuffer, MapsKeyed, Located
  <2>2. CASE bufferError = "none"
    <3>1. Changes(cur) /\ KeepsFlags(cur)
      BY <1>7, <2>1, <2>2, WriteChanges
    <3> QED BY <1>1, <1>2, <3>1 DEF Changes, KeepsFlags
  <2> QED BY <1>1, <1>2, <1>7, <2>2 DEF writeBuffer
<1>8. CASE finishReceive
  <2>1. cur # 0 /\ cur \in Halves
    BY <1>8, TypeFacts DEF finishReceive, MapsKeyed, Located
  <2>2. Changes(cur)
    BY <1>8, <2>1, CloseBufferChanges DEF finishReceive
  <2> QED BY <1>1, <1>2, <1>8, <2>2 DEF Changes
<1>9. ASSUME NEW i \in Halves, readReturns(i) \/ Close(i) PROVE halves[h].bufClosed
  <2>1. CASE readReturns(i)
    <3>1. Changes(i) /\ halves'[i].bufClosed = halves[i].bufClosed
      BY <2>1, ReadChanges DEF Takes, TakesEof, KeepsFlags
    <3> QED BY <1>1, <3>1 DEF Changes
  <2>2. CASE Close(i)
    BY <1>1, <2>2, CloseChanges DEF Changes
  <2> QED BY <1>9, <2>1, <2>2
<1>10. ASSUME NEW i \in Halves, closeBuffer(i) PROVE halves[h].bufClosed
  <2>1. Changes(i) /\ halves[i].closed
    BY <1>10, CloseBufferChanges DEF closeBuffer, ClosedByFin
  <2> QED BY <1>1, <1>2, <2>1 DEF Changes
<1> QED
  BY NextCases, <1>1, <1>2, <1>4, <1>5, <1>6, <1>7, <1>8, <1>9, <1>10 DEF HalvesKept

(* A capsule whose payload is under way was so before, or was just parsed. *)
LEMMA PendingStep ==
    ASSUME [Next]_vars, loop' \in Pending
    PROVE  \/ loop \in Pending /\ cap' = cap
           \/ \E id \in PeerIDs, c \in Capsules : parse(id, c[1], c[2])
<1> USE DEF Pending
<1>1. CASE \/ checkStop \/ lookup \/ insert \/ trackSendStream \/ enqueueIncoming
           \/ look \/ writeBuffer \/ finishReceive \/ delete \/ deferredClose
           \/ parseFails
  BY <1>1 DEF checkStop, lookup, insert, trackSendStream, enqueueIncoming, look,
     writeBuffer, finishReceive, delete, deferredClose, parseFails, afterData
<1>2. CASE \/ SessionClose \/ concurrentMapAccess \/ UNCHANGED vars \/ opened
           \/ \E kind \in Kinds : OpenStream(kind) \/ AcceptStream(kind)
           \/ \E h \in Halves : Read(h) \/ readReturns(h) \/ Close(h) \/ closeBuffer(h)
  BY <1>2, AppSteps DEF LoopKept
<1> QED BY NextCases, <1>1, <1>2

(* A fault of the buffer is the last thing the loop does.                  *)
LEMMA FaultStep ==
    ASSUME TypeOK, MapsKeyed, ClosedByFin, [Next]_vars
    PROVE  /\ fault' # "none" => loop' \in {"return", "ended"} /\ cur' # 0
           /\ fault' # "none" => \/ fault' = fault /\ cap' = cap /\ cur' = cur /\ cur # 0
                                 \/ writeBuffer
<1>1. CASE \/ checkStop \/ lookup \/ insert \/ trackSendStream \/ enqueueIncoming
           \/ look \/ finishReceive \/ delete \/ parseFails
           \/ \E id \in PeerIDs, c \in Capsules : parse(id, c[1], c[2])
  <2>1. loop \notin {"return", "ended"} /\ fault' = fault
    BY <1>1 DEF checkStop, lookup, insert, trackSendStream, enqueueIncoming, look,
       finishReceive, delete, parseFails, parse
  <2> QED BY <2>1 DEF ClosedByFin
<1>2. CASE writeBuffer
  <2>1. cur # 0 /\ cur' = cur /\ (fault' # "none" => loop' = "return")
    BY <1>2 DEF writeBuffer, MapsKeyed, Located
  <2> QED BY <1>2, <2>1
<1>3. CASE deferredClose
  BY <1>3 DEF deferredClose, ClosedByFin
<1>4. CASE \/ SessionClose \/ concurrentMapAccess \/ UNCHANGED vars \/ opened
           \/ \E kind \in Kinds : OpenStream(kind) \/ AcceptStream(kind)
           \/ \E h \in Halves : Read(h) \/ readReturns(h) \/ Close(h) \/ closeBuffer(h)
  BY <1>4, AppSteps DEF LoopKept, ClosedByFin
<1> QED BY NextCases, <1>1, <1>2, <1>3, <1>4

LEMMA ClosedByFinStep ==
    ASSUME TypeOK, MapsKeyed, OursOpened, PeersFound, ClosedByFin, [Next]_vars
    PROVE  ClosedByFin'
<1>0. /\ \A h \in Halves : /\ halves'[h].id = halves[h].id
                           /\ halves[h].closed => halves'[h].closed
      /\ fins \subseteq fins' /\ afterFin \subseteq afterFin'
      /\ closing \subseteq Halves /\ cap.id \in StreamIDs
  BY HalvesStay, References, SetsGrow
<1>1. \A h \in closing' : halves'[h].closed
  <2>1. closing' \subseteq closing \/ \E h \in Halves : Close(h) /\ closing' = closing \cup {h}
    <3>1. CASE \/ checkStop \/ lookup \/ insert \/ trackSendStream \/ enqueueIncoming
               \/ look \/ writeBuffer \/ finishReceive \/ delete \/ deferredClose
               \/ parseFails
               \/ \E id \in PeerIDs, c \in Capsules : parse(id, c[1], c[2])
      BY <3>1, LoopSteps DEF AppKept
    <3>2. CASE \/ SessionClose \/ concurrentMapAccess \/ UNCHANGED vars \/ opened
               \/ \E kind \in Kinds : OpenStream(kind) \/ AcceptStream(kind)
      BY <3>2 DEF SessionClose, concurrentMapAccess, vars, opened, OpenStream,
         AcceptStream, appVars
    <3>3. ASSUME NEW h \in Halves, Read(h) \/ readReturns(h) \/ Close(h) \/ closeBuffer(h)
          PROVE  closing' \subseteq closing \/ (Close(h) /\ closing' = closing \cup {h})
      BY <3>3 DEF Read, readReturns, Close, closeBuffer
    <3> QED BY NextCases, <3>1, <3>2, <3>3
  <2> QED BY <1>0, <2>1, CloseChanges DEF ClosedByFin
<1>2. ASSUME NEW h \in Halves', halves'[h].bufClosed, ~halves'[h].closed
      PROVE  /\ halves'[h].id \in fins'
             /\ loop' \in Pending /\ cap'.id = halves'[h].id => cap'.id \in afterFin'
  <2>1. /\ h \in Halves /\ ~halves[h].closed
        /\ halves[h].bufClosed \/ (finishReceive /\ h = cur)
    BY <1>2, BufferClosedBy
  <2>2. CASE finishReceive /\ h = cur
    <3>1. loop = "finish" /\ loop' \notin Pending
      BY <2>2 DEF finishReceive, Pending
    <3>2. halves[h].id = cap.id /\ cap.id \in fins
      BY <1>0, <2>2, <3>1 DEF MapsKeyed, Located, PeersFound, Pending
    <3> QED BY <1>0, <2>1, <3>1, <3>2
  <2>3. CASE halves[h].bufClosed
    <3>1. /\ halves[h].id \in fins
          /\ loop \in Pending /\ cap.id = halves[h].id => cap.id \in afterFin
      BY <2>1, <2>3 DEF ClosedByFin
    <3>2. ASSUME NEW id \in PeerIDs, NEW c \in Capsules, parse(id, c[1], c[2])
          PROVE  cap'.id \in fins => cap'.id \in afterFin'
      BY <3>2 DEF parse
    <3> QED BY <1>0, <2>1, <3>1, <3>2, PendingStep
  <2> QED BY <2>1, <2>2, <2>3
<1> QED BY <1>1, <1>2, FaultStep DEF ClosedByFin

(* Data is rejected only where the peer used an ID of ours too early.      *)
LEMMA RepliesStep ==
    ASSUME TypeOK, OursOpened, RepliesFindTheirStream, [Next]_vars
    PROVE  RepliesFindTheirStream'
<1>1. CASE lookup
  <2>1. \/ discarded' = discarded
        \/ /\ discarded' = discarded \cup {cap.id} /\ loop = "lookup"
           /\ ~found(cap.id) /\ isOurStream(cap.id)
    BY <1>1 DEF lookup
  <2>2. loop = "lookup" /\ isOurStream(cap.id) /\ ~found(cap.id) => cap.id \in early
    BY DEF OursOpened, found
  <2> QED BY <2>1, <2>2, SetsGrow DEF RepliesFindTheirStream
<1>2. CASE \/ checkStop \/ insert \/ trackSendStream \/ enqueueIncoming
           \/ look \/ writeBuffer \/ finishReceive \/ delete \/ deferredClose
           \/ parseFails
           \/ \E id \in PeerIDs, c \in Capsules : parse(id, c[1], c[2])
  <2>1. discarded' = discarded
    BY <1>2 DEF checkStop, insert, trackSendStream, enqueueIncoming, look, writeBuffer,
       finishReceive, delete, deferredClose, parseFails, parse
  <2> QED BY <2>1, SetsGrow DEF RepliesFindTheirStream
<1>3. CASE \/ SessionClose \/ concurrentMapAccess \/ UNCHANGED vars \/ opened
           \/ \E kind \in Kinds : OpenStream(kind) \/ AcceptStream(kind)
           \/ \E h \in Halves : Read(h) \/ readReturns(h) \/ Close(h) \/ closeBuffer(h)
  BY <1>3, AppSteps, SetsGrow DEF LoopKept, RepliesFindTheirStream
<1> QED BY NextCases, <1>1, <1>2, <1>3

(* The closed pipe has its cause.                                          *)
LEMMA ClosedPipeStep ==
    ASSUME TypeOK, MapsKeyed, ClosedByFin, ClosedPipeHasCause, [Next]_vars
    PROVE  ClosedPipeHasCause'
<1> SUFFICES ASSUME fault' = "closedPipe"
             PROVE  halves'[cur'].closed \/ cap'.id \in afterFin'
  BY DEF ClosedPipeHasCause
<1>0. /\ \A h \in Halves : halves[h].closed => halves'[h].closed
      /\ afterFin \subseteq afterFin' /\ (cur # 0 => cur \in Halves)
      /\ cap.id \in StreamIDs
  BY HalvesStay, SetsGrow, References
<1>1. CASE fault' = fault /\ cap' = cap /\ cur' = cur /\ cur # 0
  BY <1>0, <1>1 DEF ClosedPipeHasCause
<1>2. CASE writeBuffer
  <2>1. /\ loop = "write" /\ fault' = bufferError /\ UNCHANGED <<cap, cur>>
    BY <1>2 DEF writeBuffer
  <2>2. halves[cur].bufClosed
    BY <2>1 DEF bufferError
  <2>3. cur # 0 /\ halves[cur].id = cap.id
    BY <1>0, <2>1 DEF MapsKeyed, Located
  <2>4. halves[cur].closed \/ cap.id \in afterFin
    BY <1>0, <2>1, <2>2, <2>3 DEF ClosedByFin, Pending
  <2> QED BY <1>0, <2>1, <2>3, <2>4
<1> QED BY <1>1, <1>2, FaultStep

(* The types and the control invariant, together inductive.                *)
StreamsInv == TypeOK /\ ControlInv

LEMMA StreamsInit == Init => StreamsInv
<1> SUFFICES ASSUME Init PROVE StreamsInv
  OBVIOUS
<1>1. <<>> \in Seq(Half) /\ <<>> \in Seq(Nat) /\ Len(<<>>) = 0 /\ DOMAIN <<>> = {}
      /\ 0 \in 0 .. 0 /\ 1 .. 0 = {}
  BY EmptySeq, LenProperties
<1>2. Halves = {} /\ Len(halves) = 0
  BY <1>1 DEF Init, Halves
<1>3. HalfTypes
  BY <1>1, <1>2 DEF Init, HalfTypes
<1>4. IndexTypes
  <2>1. <<>> \in Seq(Halves)
    BY EmptySeq
  <2> QED BY <1>1, <1>2, <2>1, StreamsAssumption DEF Init, IndexTypes
<1>5. ValueTypes
  <2>1. noCapsule \in [id : StreamIDs, data : Seq(Nat), fin : BOOLEAN]
    BY <1>1, StreamsAssumption DEF noCapsule, StreamIDs
  <2>2. 0 \in {4 * i : i \in 0 .. MaxOpens} /\ 0 \in 0 .. MaxCapsules
    <3>1. 0 \in 0 .. MaxOpens /\ 0 = 4 * 0
      BY StreamsAssumption
    <3> QED BY <3>1, StreamsAssumption
  <2> QED BY <2>1, <2>2 DEF Init, ValueTypes, LoopPlaces
<1>6. \A k \in Kinds : Len(incoming[k]) = 0
  BY <1>1 DEF Init
<1>7. MapsKeyed /\ OursOpened /\ PeersFound
  BY <1>2 DEF Init, MapsKeyed, OursOpened, PeersFound, Located, Pending
<1>8. SendLimitsSet /\ ClosedByFin
  BY <1>1, <1>2, <1>6 DEF Init, SendLimitsSet, ClosedByFin
<1>9. OneStreamPerID /\ TrackedBeforeHeld /\ RepliesFindTheirStream /\ ClosedPipeHasCause
  BY <1>2 DEF Init, OneStreamPerID, TrackedBeforeHeld, RepliesFindTheirStream,
     ClosedPipeHasCause
<1> QED
  BY <1>3, <1>4, <1>5, <1>7, <1>8, <1>9, TypeParts DEF StreamsInv, ControlInv

LEMMA StreamsStep == StreamsInv /\ [Next]_vars => StreamsInv'
<1> SUFFICES ASSUME StreamsInv, [Next]_vars PROVE StreamsInv'
  OBVIOUS
<1>1. /\ TypeOK /\ MapsKeyed /\ OursOpened /\ PeersFound /\ SendLimitsSet
      /\ ClosedByFin /\ OneStreamPerID /\ TrackedBeforeHeld
      /\ RepliesFindTheirStream /\ ClosedPipeHasCause
  BY DEF StreamsInv, ControlInv
<1>2. TypeOK'
  <2>1. HalfTypes' /\ IndexTypes' /\ ValueTypes'
    BY <1>1, HalfTypesStep, IndexTypesStep, ValueTypesStep
  <2> QED BY <2>1 DEF TypeOK, HalfTypes, IndexTypes, ValueTypes, LoopPlaces
<1>3. MapsKeyed' /\ OursOpened' /\ PeersFound' /\ ClosedByFin'
  BY <1>1, MapsKeyedStep, OursOpenedStep, PeersFoundStep, ClosedByFinStep
<1>4. SendLimitsSet' /\ TrackedBeforeHeld' /\ OneStreamPerID'
  BY <1>1, TrackedStep, OneStreamStep
<1>5. RepliesFindTheirStream' /\ ClosedPipeHasCause'
  BY <1>1, RepliesStep, ClosedPipeStep
<1> QED BY <1>2, <1>3, <1>4, <1>5 DEF StreamsInv, ControlInv

LEMMA StreamsAlways == Spec => []StreamsInv
  BY StreamsInit, StreamsStep, PTL DEF Spec

(* Every reachable state is well typed: among others, no receive buffer    *)
(* holds more than its limit and no accept channel more than its capacity. *)
THEOREM TypeCorrect == Spec => []TypeOK
<1>1. StreamsInv => TypeOK
  BY DEF StreamsInv
<1> QED BY <1>1, StreamsAlways, PTL

(* A peer that keeps to the protocol gets one stream per ID (readLoop).    *)
THEOREM OneStream == Spec => []OneStreamPerID
<1>1. StreamsInv => OneStreamPerID
  BY DEF StreamsInv, ControlInv
<1> QED BY <1>1, StreamsAlways, PTL

(* A stream has its send limit before the application holds it             *)
(* (trackSendStream before enqueueIncomingStream).                         *)
THEOREM SendLimitFirst == Spec => []TrackedBeforeHeld
<1>1. StreamsInv => TrackedBeforeHeld
  BY DEF StreamsInv, ControlInv
<1> QED BY <1>1, StreamsAlways, PTL

(* Data on a stream that we opened finds it in its map (OpenStream).       *)
THEOREM RepliesFound == Spec => []RepliesFindTheirStream
<1>1. StreamsInv => RepliesFindTheirStream
  BY DEF StreamsInv, ControlInv
<1> QED BY <1>1, StreamsAlways, PTL

(* Only Close or a peer that went on after FIN makes the buffer end the    *)
(* session with a closed pipe (receiveStreamData).                         *)
THEOREM ClosedPipeExplained == Spec => []ClosedPipeHasCause
<1>1. StreamsInv => ClosedPipeHasCause
  BY DEF StreamsInv, ControlInv
<1> QED BY <1>1, StreamsAlways, PTL

(* With the open calls serialised, the goroutines of a session conflict in *)
(* the map of bidirectional streams and in no other (session.go).          *)
THEOREM RaceOnlyInStreams == Spec => []OnlyStreamsRace
<1>1. StreamsInv => OnlyStreamsRace
  <2> SUFFICES ASSUME StreamsInv, NEW a \in Accesses, NEW b \in Accesses, Conflict(a, b)
               PROVE  a.map = "streams"
    BY DEF OnlyStreamsRace
  <2>1. TypeOK /\ MapsKeyed /\ OursOpened /\ PeersFound
    BY DEF StreamsInv, ControlInv
  <2>2. ASSUME NEW x \in Accesses, x.by = "opener"
        PROVE  x.map = "streams" \/ x.map = "sendStreams"
    <3>1. opening # -1 /\ x = Access("opener", mapOf(opening), TRUE)
      BY <2>2 DEF Accesses, Access
    <3>2. isOurStream(opening)
      BY <2>1, <3>1 DEF OursOpened
    <3> QED BY <3>1, <3>2 DEF Access, mapOf
  <2>3. ASSUME NEW x \in Accesses, x.by = "loop"
        PROVE  x.map = "streams" \/ x.map = "receiveStreams"
    <3>1. CASE loop = "lookup" /\ x = Access("loop", lookedIn(cap.id), FALSE)
      BY <3>1 DEF Access, lookedIn
    <3>2. CASE /\ loop \in {"insert", "delete"}
               /\ x = Access("loop", mapOf(cap.id), TRUE)
      <4>1. loop = "insert" => ~isOurStream(cap.id)
        BY <2>1 DEF MapsKeyed
      <4>2. loop = "delete" => ~isBidirectionalStream(cap.id) /\ cur \in Halves
                               /\ halves[cur].id = cap.id
        BY <2>1, References DEF MapsKeyed, PeersFound, Located
      <4>3. isOurStream(cap.id) => isBidirectionalStream(cap.id)
        BY <2>1, <3>2, <4>1, <4>2 DEF OursOpened
      <4> QED BY <3>2, <4>3 DEF Access, mapOf
    <3> QED BY <2>3, <3>1, <3>2 DEF Accesses, Access
  <2>4. \A x \in Accesses : x.by \in {"opener", "loop"}
    BY DEF Accesses, Access
  <2>5. a.by # b.by /\ a.map = b.map
    BY DEF Conflict
  <2>6. CASE a.by = "opener" /\ b.by = "loop"
    <3>1. a.map = "streams" \/ a.map = "sendStreams"
      BY <2>2, <2>6
    <3>2. b.map = "streams" \/ b.map = "receiveStreams"
      BY <2>3, <2>6
    <3> QED BY <2>5, <3>1, <3>2
  <2>7. CASE a.by = "loop" /\ b.by = "opener"
    <3>1. b.map = "streams" \/ b.map = "sendStreams"
      BY <2>2, <2>7
    <3>2. a.map = "streams" \/ a.map = "receiveStreams"
      BY <2>3, <2>7
    <3> QED BY <2>5, <3>1, <3>2
  <2> QED BY <2>4, <2>5, <2>6, <2>7
<1> QED BY <1>1, StreamsAlways, PTL

-----------------------------------------------------------------------------
(* The payload.                                                            *)

(* Lengths are numbers, also after a step.                                 *)
LEMMA Lengths ==
    ASSUME StreamsInv, NEW h \in Halves
    PROVE  /\ halves[h].data \in Seq(Nat) /\ halves[h].got \in Seq(Nat)
           /\ Len(halves[h].data) \in Nat /\ Len(halves[h].got) \in Nat
           /\ total(h) \in Nat /\ halves[h].id \in StreamIDs
           /\ sent[halves[h].id] \in Nat /\ pending(halves[h].id) \in Nat
           /\ Len(cap.data) \in Nat
<1>1. TypeOK
  BY DEF StreamsInv
<1>2. /\ halves[h].data \in Seq(Nat) /\ halves[h].got \in Seq(Nat)
      /\ Len(halves[h].data) \in Nat /\ Len(halves[h].got) \in Nat
      /\ halves[h].id \in StreamIDs /\ Len(cap.data) \in Nat
  BY <1>1, TypeFacts
<1>3. sent[halves[h].id] \in Nat
  BY <1>1, <1>2 DEF TypeOK
<1>4. total(h) \in Nat
  <2>1. \A m, n \in Nat : m + n \in Nat
    OBVIOUS
  <2> QED BY <1>2, <2>1, Zenon DEF total
<1>5. pending(halves[h].id) \in Nat
  BY <1>2 DEF pending
<1> QED BY <1>2, <1>3, <1>4, <1>5

(* A reader moves bytes across the border of got and data.                 *)
LEMMA TakesKeeps ==
    ASSUME StreamsInv, NEW h \in Halves, NEW n \in 1 .. Len(halves[h].data), Takes(h, n)
    PROVE  /\ total(h)' = total(h)
           /\ \A b \in Nat : RunFrom(h, b) => RunFrom(h, b)'
<1> DEFINE d  == halves[h].data
           g  == halves[h].got
           d1 == SubSeq(d, 1, n)
           d2 == SubSeq(d, n + 1, Len(d))
<1>1. /\ d \in Seq(Nat) /\ g \in Seq(Nat) /\ Len(d) \in Nat /\ Len(g) \in Nat
      /\ n \in 1 .. Len(d)
  BY Lengths
<1>2. halves'[h].got = g \o d1 /\ halves'[h].data = d2
  BY DEF Takes
<1> HIDE DEF d, g
<1>3. /\ d1 \in Seq(Nat) /\ Len(d1) = n /\ \A i \in 1 .. n : d1[i] = d[i]
      /\ d2 \in Seq(Nat) /\ Len(d2) = Len(d) - n
      /\ \A i \in 1 .. Len(d) - n : d2[i] = d[n + i]
  BY <1>1, Split
<1> HIDE DEF d1, d2
<1>4. /\ Len(g \o d1) = Len(g) + Len(d1)
      /\ \A i \in 1 .. Len(g) + Len(d1) :
            (g \o d1)[i] = IF i <= Len(g) THEN g[i] ELSE d1[i - Len(g)]
  BY <1>1, <1>3, ConcatProperties
<1>5. Len(halves'[h].got) = Len(g) + n /\ Len(halves'[h].data) = Len(d) - n
  BY <1>2, <1>3, <1>4
<1>6. total(h)' = total(h)
  <2>1. total(h) = Len(g) + Len(d)
    BY DEF total, g, d
  <2>2. total(h)' = (Len(g) + n) + (Len(d) - n)
    BY <1>5 DEF total
  <2> QED BY <1>1, <2>1, <2>2
<1>7. ASSUME NEW b \in Nat, RunFrom(h, b) PROVE RunFrom(h, b)'
  <2>1. /\ \A i \in 1 .. Len(g) : g[i] = b + i
        /\ \A i \in 1 .. Len(d) : d[i] = b + Len(g) + i
    BY <1>7 DEF RunFrom, g, d
  <2>2. ASSUME NEW i \in 1 .. Len(g) + n PROVE (g \o d1)[i] = b + i
    <3>0. i \in Int /\ n \in Int
      BY <1>1
    <3>1. (g \o d1)[i] = IF i <= Len(g) THEN g[i] ELSE d1[i - Len(g)]
      BY <1>3, <1>4
    <3>2. CASE i <= Len(g)
      BY <1>1, <2>1, <3>0, <3>1, <3>2
    <3>3. CASE ~(i <= Len(g))
      <4>1. i - Len(g) \in 1 .. n /\ i - Len(g) \in 1 .. Len(d)
        BY <1>1, <3>0, <3>3
      <4>2. (g \o d1)[i] = d[i - Len(g)]
        BY <1>3, <3>1, <3>3, <4>1
      <4>3. d[i - Len(g)] = b + Len(g) + (i - Len(g))
        BY <2>1, <4>1
      <4> QED BY <1>1, <3>0, <4>2, <4>3
    <3> QED BY <3>2, <3>3
  <2>3. ASSUME NEW i \in 1 .. Len(d) - n PROVE d2[i] = b + (Len(g) + n) + i
    <3>1. n + i \in 1 .. Len(d)
      BY <1>1
    <3>2. d2[i] = b + Len(g) + (n + i)
      BY <1>3, <2>1, <3>1
    <3> QED BY <1>1, <3>2
  <2> QED BY <1>2, <1>5, <2>2, <2>3 DEF RunFrom
<1> QED BY <1>6, <1>7

(* What a step does to the bytes of a half: nothing that breaks a run,     *)
(* unless the loop writes to it.                                           *)
LEMMA RunStep ==
    ASSUME StreamsInv, [Next]_vars, NEW h \in Halves,
           ~(writeBuffer /\ bufferError = "none" /\ h = cur)
    PROVE  /\ total(h)' = total(h)
           /\ \A b \in Nat : RunFrom(h, b) => RunFrom(h, b)'
           /\ halves[h].data = <<>> => halves'[h].data = <<>>
<1>0. TypeOK /\ MapsKeyed
  BY DEF StreamsInv, ControlInv
<1>1. ASSUME KeepsPayload(h)
      PROVE  /\ total(h)' = total(h)
             /\ \A b \in Nat : RunFrom(h, b) => RunFrom(h, b)'
             /\ halves[h].data = <<>> => halves'[h].data = <<>>
  BY <1>1 DEF KeepsPayload, total, RunFrom
<1>2. ASSUME NEW i \in Halves, i # h, Changes(i) PROVE KeepsPayload(h)
  BY <1>2 DEF Changes, KeepsPayload
<1>3. CASE HalvesKept
  <2>1. halves' = halves
    BY <1>3, KeptHalves
  <2> QED BY <1>1, <2>1 DEF KeepsPayload
<1>4. ASSUME NEW id \in StreamIDs, Appears(id) PROVE KeepsPayload(h)
  BY <1>4 DEF Appears, KeepsPayload
<1>5. CASE lookup
  <2>1. CASE halves' = Append(halves, newReceiveStream(cap.id))
    BY <1>0, <1>1, <1>4, <2>1, AppearsBy, TypeFacts
  <2> QED BY <1>1, <1>5, <2>1 DEF lookup, KeepsPayload
<1>6. CASE opened
  <2>1. CASE halves' = Append(halves, newReceiveStream(opening))
    <3>1. opening \in StreamIDs
      BY <1>0, <1>6 DEF opened, TypeOK
    <3> QED BY <1>0, <1>1, <1>4, <2>1, <3>1, AppearsBy
  <2> QED BY <1>1, <1>6, <2>1 DEF opened, KeepsPayload
<1>7. CASE writeBuffer
  <2>1. cur # 0 /\ cur \in Halves
    BY <1>0, <1>7, TypeFacts DEF writeBuffer, MapsKeyed, Located
  <2>2. CASE bufferError = "none"
    <3>1. Changes(cur)
      BY <1>0, <1>7, <2>1, <2>2, WriteChanges
    <3> QED BY <1>1, <1>2, <1>7, <2>1, <2>2, <3>1
  <2>3. CASE halves' = halves
    BY <1>1, <2>3 DEF KeepsPayload
  <2> QED BY <1>7, <2>2, <2>3 DEF writeBuffer
<1>8. ASSUME NEW i \in Halves, Changes(i), KeepsPayload(i) PROVE KeepsPayload(h)
  BY <1>2, <1>8
<1>9. CASE finishReceive
  <2>1. cur # 0 /\ cur \in Halves
    BY <1>0, <1>9, TypeFacts DEF finishReceive, MapsKeyed, Located
  <2>2. Changes(cur) /\ KeepsPayload(cur)
    BY <1>0, <1>9, <2>1, CloseBufferChanges DEF finishReceive
  <2> QED BY <1>1, <1>8, <2>1, <2>2
<1>10. ASSUME NEW i \in Halves, Close(i) \/ closeBuffer(i) PROVE KeepsPayload(h)
  <2>1. Changes(i) /\ KeepsPayload(i)
    BY <1>0, <1>10, CloseChanges, CloseBufferChanges DEF closeBuffer
  <2> QED BY <1>8, <2>1
<1>11. ASSUME NEW i \in Halves, readReturns(i)
       PROVE  /\ total(h)' = total(h)
              /\ \A b \in Nat : RunFrom(h, b) => RunFrom(h, b)'
              /\ halves[h].data = <<>> => halves'[h].data = <<>>
  <2>1. Changes(i) /\ (TakesEof(i) \/ \E n \in 1 .. Len(halves[i].data) : Takes(i, n))
    BY <1>0, <1>11, ReadChanges
  <2>2. CASE i # h
    BY <1>1, <1>2, <2>1, <2>2
  <2>3. CASE i = h /\ TakesEof(i)
    BY <1>1, <2>3 DEF TakesEof
  <2>4. CASE i = h /\ \E n \in 1 .. Len(halves[i].data) : Takes(i, n)
    <3>1. PICK n \in 1 .. Len(halves[h].data) : Takes(h, n)
      BY <2>4
    <3>2. Len(<<>>) = 0 /\ 1 .. 0 = {}
      OBVIOUS
    <3>3. halves[h].data # <<>>
      BY <3>1, <3>2
    <3> QED BY <3>1, <3>3, TakesKeeps
  <2> QED BY <2>1, <2>2, <2>3, <2>4
<1> QED
  BY NextCases, <1>1, <1>3, <1>5, <1>6, <1>7, <1>9, <1>10, <1>11 DEF HalvesKept

(* The loop's write continues the run of the half it has.                  *)
LEMMA WriteContinues ==
    ASSUME StreamsInv, PayloadIsLast, writeBuffer, bufferError = "none",
           NEW b \in Nat, RunFrom(cur, b),
           b + total(cur) + Len(cap.data) = sent[cap.id]
    PROVE  RunFrom(cur, b)' /\ total(cur)' = total(cur) + Len(cap.data)
<1> DEFINE d == halves[cur].data
           g == halves[cur].got
           p == cap.data
           n == sent[cap.id]
<1>0. TypeOK /\ MapsKeyed
  BY DEF StreamsInv, ControlInv
<1>1. loop = "write" /\ UNCHANGED cur
  BY DEF writeBuffer
<1>2. cur # 0 /\ cur \in Halves
  BY <1>0, <1>1, References DEF MapsKeyed, Located
<1>3. /\ d \in Seq(Nat) /\ g \in Seq(Nat) /\ Len(d) \in Nat /\ Len(g) \in Nat
      /\ p \in Seq(Nat) /\ Len(p) \in Nat
  BY <1>0, <1>2, Lengths, TypeFacts
<1>4. halves'[cur].data = d \o p /\ halves'[cur].got = g
  BY <1>0, <1>2, WriteChanges
<1>5. /\ \A i \in 1 .. Len(g) : g[i] = b + i
      /\ \A i \in 1 .. Len(d) : d[i] = b + Len(g) + i
  BY DEF RunFrom
<1>6. \A i \in 1 .. Len(p) : p[i] = n - Len(p) + i
  BY <1>1 DEF PayloadIsLast, Pending
<1>7. b + (Len(g) + Len(d)) + Len(p) = n
  BY DEF total
<1>8. total(cur) = Len(g) + Len(d)
  BY DEF total
<1>9. total(cur)' = Len(g) + Len(d \o p)
  BY <1>1, <1>4 DEF total
<1>10. ASSUME /\ \A i \in 1 .. Len(g) : g[i] = b + i
              /\ \A i \in 1 .. Len(d \o p) : (d \o p)[i] = b + Len(g) + i
       PROVE  RunFrom(cur, b)'
  BY <1>1, <1>4, <1>10 DEF RunFrom
<1> HIDE DEF d, g, p, n
<1>11. /\ Len(d \o p) = Len(d) + Len(p)
       /\ \A i \in 1 .. Len(d) + Len(p) :
             (d \o p)[i] = IF i <= Len(d) THEN d[i] ELSE p[i - Len(d)]
  BY <1>3, ConcatProperties
<1>12. ASSUME NEW i \in 1 .. Len(d \o p) PROVE (d \o p)[i] = b + Len(g) + i
  <2>0. i \in Int /\ i \in 1 .. Len(d) + Len(p)
    BY <1>3, <1>11
  <2>1. (d \o p)[i] = IF i <= Len(d) THEN d[i] ELSE p[i - Len(d)]
    BY <1>11, <2>0
  <2>2. CASE i <= Len(d)
    BY <1>3, <1>5, <2>0, <2>1, <2>2
  <2>3. CASE ~(i <= Len(d))
    <3>1. i - Len(d) \in 1 .. Len(p)
      BY <1>3, <2>0, <2>3
    <3>2. (d \o p)[i] = n - Len(p) + (i - Len(d))
      BY <1>6, <2>1, <2>3, <3>1
    <3> QED BY <1>3, <1>7, <2>0, <3>2
  <2> QED BY <2>2, <2>3
<1>13. RunFrom(cur, b)'
  BY <1>5, <1>10, <1>12
<1>14. total(cur)' = total(cur) + Len(p)
  BY <1>3, <1>8, <1>9, <1>11
<1> QED BY <1>13, <1>14 DEF p

(* sent changes only when a capsule is parsed.                             *)
LEMMA SentStep ==
    ASSUME [Next]_vars
    PROVE  \/ sent' = sent
           \/ \E id \in PeerIDs, c \in Capsules : parse(id, c[1], c[2])
<1>1. CASE \/ checkStop \/ lookup \/ insert \/ trackSendStream \/ enqueueIncoming
           \/ look \/ writeBuffer \/ finishReceive \/ delete \/ deferredClose
           \/ parseFails
  BY <1>1 DEF checkStop, lookup, insert, trackSendStream, enqueueIncoming, look,
     writeBuffer, finishReceive, delete, deferredClose, parseFails, peerVars
<1>2. CASE \/ SessionClose \/ concurrentMapAccess \/ UNCHANGED vars \/ opened
           \/ \E kind \in Kinds : OpenStream(kind) \/ AcceptStream(kind)
           \/ \E h \in Halves : Read(h) \/ readReturns(h) \/ Close(h) \/ closeBuffer(h)
  BY <1>2, AppSteps DEF PeerKept
<1> QED BY NextCases, <1>1, <1>2

(* What parsing a capsule does.                                            *)
LEMMA Parsed ==
    ASSUME StreamsInv, NEW id \in PeerIDs, NEW c \in Capsules, parse(id, c[1], c[2])
    PROVE  /\ loop = "parse" /\ loop' = "lookup"
           /\ id \in StreamIDs /\ cap'.id = id /\ Len(cap'.data) = c[1] /\ c[1] \in Nat
           /\ sent[id] \in Nat /\ sent'[id] = sent[id] + c[1]
           /\ \A j \in StreamIDs : j # id => sent'[j] = sent[j]
           /\ \A i \in 1 .. c[1] : cap'.data[i] = sent[id] + i
           /\ id \in fins => id \in afterFin'
           /\ UNCHANGED <<halves, entry, cur>>
<1>1. id \in StreamIDs /\ c[1] \in Nat
  BY StreamsAssumption
<1>2. sent \in [StreamIDs -> Nat]
  BY DEF StreamsInv, TypeOK
<1>3. /\ loop = "parse" /\ loop' = "lookup" /\ cap'.id = id
      /\ cap'.data = [i \in 1 .. c[1] |-> sent[id] + i]
      /\ sent' = [sent EXCEPT ![id] = @ + c[1]]
      /\ afterFin' = (IF id \in fins THEN afterFin \cup {id} ELSE afterFin)
      /\ UNCHANGED <<halves, entry, cur>>
  BY DEF parse, mapVars
<1>4. Len(cap'.data) = c[1]
  <2>1. cap'.data \in [1 .. c[1] -> Nat]
    BY <1>1, <1>2, <1>3
  <2>2. cap'.data \in Seq(Nat)
    BY <1>1, <2>1, SeqDef
  <2>3. DOMAIN cap'.data = 1 .. Len(cap'.data) /\ Len(cap'.data) \in Nat
    BY <2>2, LenProperties
  <2>4. 1 .. Len(cap'.data) = 1 .. c[1]
    BY <2>1, <2>3
  <2> QED BY <1>1, <2>3, <2>4
<1> QED BY <1>1, <1>2, <1>3, <1>4

LEMMA PayloadIsLastStep ==
    ASSUME StreamsInv, PayloadIsLast, [Next]_vars
    PROVE  PayloadIsLast'
<1> SUFFICES ASSUME loop' \in Pending
             PROVE  /\ Len(cap'.data) <= sent'[cap'.id]
                    /\ \A i \in 1 .. Len(cap'.data) :
                          cap'.data[i] = sent'[cap'.id] - Len(cap'.data) + i
  BY DEF PayloadIsLast
<1>1. ASSUME NEW id \in PeerIDs, NEW c \in Capsules, parse(id, c[1], c[2])
      PROVE  /\ Len(cap'.data) <= sent'[cap'.id]
             /\ \A i \in 1 .. Len(cap'.data) :
                   cap'.data[i] = sent'[cap'.id] - Len(cap'.data) + i
  <2> DEFINE n == c[1]
             s == sent[id]
  <2>1. /\ cap'.id = id /\ Len(cap'.data) = n /\ n \in Nat /\ s \in Nat
        /\ sent'[id] = s + n /\ \A i \in 1 .. n : cap'.data[i] = s + i
    BY <1>1, Parsed
  <2> HIDE DEF n, s
  <2>2. n <= s + n /\ \A i \in 1 .. n : s + i = s + n - n + i
    BY <2>1
  <2> QED BY <2>1, <2>2
<1>2. CASE loop \in Pending /\ cap' = cap /\ sent' = sent
  BY <1>2 DEF PayloadIsLast
<1>3. ASSUME loop \in Pending, NEW id \in PeerIDs, NEW c \in Capsules,
             parse(id, c[1], c[2])
      PROVE  FALSE
  BY <1>3 DEF Pending, parse
<1> QED BY <1>1, <1>2, <1>3, PendingStep, SentStep

(* Only the lookup itself leaves "lookup", and with a stream for the       *)
(* capsule unless its ID was misused.                                      *)
LEMMA LookupStep ==
    ASSUME StreamsInv, [Next]_vars, loop = "lookup"
    PROVE  \/ loop' = "lookup" /\ cap' = cap
           \/ loop' # "lookup" /\ \E h \in Halves' : halves'[h].id = cap.id
           \/ loop' # "lookup" /\ cap.id \in misused'
<1>0. TypeOK /\ MapsKeyed /\ OursOpened /\ RepliesFindTheirStream /\ RepliesFindTheirStream'
  BY RepliesStep DEF StreamsInv, ControlInv
<1>1. CASE lookup
  <2>1. CASE found(cap.id) /\ loop' = "look"
    <3>1. entry[cap.id] # 0 /\ cap.id \in StreamIDs
      BY <1>0, <2>1, References DEF found
    <3>2. entry[cap.id] \in Halves /\ halves[entry[cap.id]].id = cap.id
      BY <1>0, <3>1, References DEF MapsKeyed
    <3>3. entry[cap.id] \in Halves' /\ halves'[entry[cap.id]].id = cap.id
      BY <1>0, <3>2, HalvesStay
    <3> QED BY <2>1, <3>3
  <2>2. CASE halves' = Append(halves, newReceiveStream(cap.id)) /\ loop' = "insert"
    <3>1. Appears(cap.id) /\ newReceiveStream(cap.id).id = cap.id
      BY <1>0, <2>2, AppearsBy, NewHalf, TypeFacts
    <3>2. Len(halves) + 1 \in Halves' /\ halves'[Len(halves) + 1].id = cap.id
      BY <1>0, <3>1, TypeFacts DEF Appears, Halves
    <3> QED BY <2>2, <3>2
  <2>3. CASE discarded' = discarded \cup {cap.id} /\ loop' = "check"
    BY <1>0, <2>3 DEF RepliesFindTheirStream, misused
  <2> QED BY <1>1, <2>1, <2>2, <2>3 DEF lookup
<1>2. CASE \/ checkStop \/ insert \/ trackSendStream \/ enqueueIncoming
           \/ look \/ writeBuffer \/ finishReceive \/ delete \/ deferredClose
           \/ parseFails
           \/ \E id \in PeerIDs, c \in Capsules : parse(id, c[1], c[2])
  BY <1>2 DEF checkStop, insert, trackSendStream, enqueueIncoming, look, writeBuffer,
     finishReceive, delete, deferredClose, parseFails, parse
<1>3. CASE \/ SessionClose \/ concurrentMapAccess \/ UNCHANGED vars \/ opened
           \/ \E kind \in Kinds : OpenStream(kind) \/ AcceptStream(kind)
           \/ \E h \in Halves : Read(h) \/ readReturns(h) \/ Close(h) \/ closeBuffer(h)
  BY <1>3, AppSteps DEF LoopKept
<1> QED BY NextCases, <1>1, <1>2, <1>3

LEMMA MisusedGrows ==
    ASSUME [Next]_vars
    PROVE  misused \subseteq misused'
  BY SetsGrow DEF misused

LEMMA NothingSkippedStep ==
    ASSUME StreamsInv, NothingSkipped, [Next]_vars
    PROVE  NothingSkipped'
<1> SUFFICES ASSUME NEW id \in StreamIDs, id \notin misused',
                    \A h \in Halves' : halves'[h].id # id
             PROVE  sent'[id] = IF loop' = "lookup" THEN pending(id)' ELSE 0
  BY DEF NothingSkipped
<1>0. TypeOK /\ MapsKeyed
  BY DEF StreamsInv, ControlInv
<1>1. id \notin misused /\ \A h \in Halves : halves[h].id # id
  BY <1>0, MisusedGrows, HalvesStay
<1>2. sent[id] = IF loop = "lookup" THEN pending(id) ELSE 0
  BY <1>1 DEF NothingSkipped
<1>3. ASSUME NEW j \in PeerIDs, NEW c \in Capsules, parse(j, c[1], c[2])
      PROVE  sent'[id] = IF loop' = "lookup" THEN pending(id)' ELSE 0
  <2>1. /\ loop = "parse" /\ loop' = "lookup" /\ cap'.id = j /\ Len(cap'.data) = c[1]
        /\ c[1] \in Nat /\ sent[j] \in Nat /\ sent'[j] = sent[j] + c[1]
        /\ \A i \in StreamIDs : i # j => sent'[i] = sent[i]
    BY <1>3, Parsed
  <2>2. sent[id] = 0
    BY <1>2, <2>1
  <2>3. pending(id)' = IF id = j THEN c[1] ELSE 0
    BY <2>1 DEF pending, Pending
  <2>4. CASE id = j
    <3>1. sent'[id] = 0 + c[1]
      BY <2>1, <2>2, <2>4
    <3> QED BY <2>1, <2>3, <2>4, <3>1
  <2>5. CASE id # j
    BY <2>1, <2>2, <2>3, <2>5
  <2> QED BY <2>4, <2>5
<1>4. CASE sent' = sent
  <2>1. CASE loop = "lookup"
    <3>1. pending(id) = IF cap.id = id THEN Len(cap.data) ELSE 0
      BY <2>1 DEF pending, Pending
    <3>2. CASE loop' = "lookup" /\ cap' = cap
      <4>1. pending(id)' = pending(id)
        BY <2>1, <3>2 DEF pending
      <4> QED BY <1>2, <1>4, <2>1, <3>2, <4>1
    <3>3. CASE loop' # "lookup" /\ cap.id # id
      BY <1>2, <1>4, <2>1, <3>1, <3>3
    <3> QED BY <2>1, <3>2, <3>3, LookupStep
  <2>2. CASE loop # "lookup"
    <3>1. CASE loop' # "lookup"
      BY <1>2, <1>4, <2>2, <3>1
    <3>2. CASE loop' = "lookup"
      <4>1. PICK j \in PeerIDs, c \in Capsules : parse(j, c[1], c[2])
        <5>1. CASE \/ checkStop \/ lookup \/ insert \/ trackSendStream \/ enqueueIncoming
                   \/ look \/ writeBuffer \/ finishReceive \/ delete \/ deferredClose
                   \/ parseFails
          BY <3>2, <5>1 DEF checkStop, lookup, insert, trackSendStream,
             enqueueIncoming, look, writeBuffer, finishReceive, delete, deferredClose,
             parseFails, afterInsert, afterEnqueue, afterData
        <5>2. CASE \/ SessionClose \/ concurrentMapAccess \/ UNCHANGED vars \/ opened
                   \/ \E kind \in Kinds : OpenStream(kind) \/ AcceptStream(kind)
                   \/ \E h \in Halves :
                         Read(h) \/ readReturns(h) \/ Close(h) \/ closeBuffer(h)
          BY <2>2, <3>2, <5>2, AppSteps DEF LoopKept
        <5> QED BY NextCases, <5>1, <5>2
      <4> QED BY <1>3, <4>1
    <3> QED BY <3>1, <3>2
  <2> QED BY <2>1, <2>2
<1> QED BY <1>3, <1>4, SentStep

(* A half that gets the payloads of its ID got them before.                *)
LEMMA FedStep ==
    ASSUME StreamsInv, [Next]_vars, NEW h \in Halves, Fed(h)'
    PROVE  Fed(h)
<1>0. /\ TypeOK /\ MapsKeyed /\ OursOpened
      /\ halves'[h].id = halves[h].id /\ (halves[h].closed => halves'[h].closed)
      /\ entry \in [StreamIDs -> 0 .. Len(halves)] /\ cap.id \in StreamIDs
      /\ halves[h].id \in StreamIDs
  BY HalvesStay, References, TypeFacts DEF StreamsInv, ControlInv
<1>1. /\ loop' \notin {"return", "ended"}
      /\ h = entry'[halves[h].id] \/ (loop' = "insert" /\ h = cur')
      /\ ~halves'[h].closed \/ (loop' = "write" /\ h = cur')
  BY <1>0 DEF Fed
<1>2. ASSUME loop' = "write", h = cur', ~(loop = "write" /\ h = cur)
      PROVE  ~halves[h].closed
  <2>1. CASE \/ checkStop \/ lookup \/ insert \/ trackSendStream \/ enqueueIncoming
             \/ writeBuffer \/ finishReceive \/ delete \/ deferredClose
             \/ parseFails \/ \E id \in PeerIDs, c \in Capsules : parse(id, c[1], c[2])
    BY <1>2, <2>1 DEF checkStop, lookup, insert, trackSendStream, enqueueIncoming,
       writeBuffer, finishReceive, delete, deferredClose, parseFails, parse, afterData,
       afterInsert, afterEnqueue
  <2>2. CASE look
    <3>1. afterData # "write"
      BY DEF afterData
    <3> QED BY <1>2, <2>2, <3>1 DEF look
  <2>3. CASE \/ SessionClose \/ concurrentMapAccess \/ UNCHANGED vars \/ opened
             \/ \E kind \in Kinds : OpenStream(kind) \/ AcceptStream(kind)
             \/ \E i \in Halves : Read(i) \/ readReturns(i) \/ Close(i) \/ closeBuffer(i)
    BY <1>2, <2>3, AppSteps DEF LoopKept
  <2> QED BY NextCases, <2>1, <2>2, <2>3
<1>3. ~halves[h].closed \/ (loop = "write" /\ h = cur)
  BY <1>0, <1>1, <1>2
<1>4. /\ loop \notin {"return", "ended"}
      /\ h = entry[halves[h].id] \/ (loop = "insert" /\ h = cur)
  <2>1. CASE \/ checkStop \/ trackSendStream \/ enqueueIncoming \/ look
             \/ writeBuffer \/ finishReceive \/ deferredClose
             \/ parseFails \/ \E id \in PeerIDs, c \in Capsules : parse(id, c[1], c[2])
    <3>1. loop # "return" \/ loop' \in {"return", "ended"}
      BY <2>1 DEF checkStop, trackSendStream, enqueueIncoming, look,
       writeBuffer, finishReceive, deferredClose, parseFails, parse
    <3>2. loop # "ended" /\ entry' = entry /\ loop' # "insert"
      BY <2>1 DEF checkStop, trackSendStream, enqueueIncoming, look,
       writeBuffer, finishReceive, deferredClose, parseFails, parse, afterData,
       afterEnqueue, mapVars
    <3> QED BY <1>1, <3>1, <3>2
  <2>2. CASE lookup
    <3>1. loop = "lookup" /\ entry' = entry
          /\ (loop' # "insert" \/ cur' = Len(halves) + 1)
      BY <2>2 DEF lookup
    <3>2. h # Len(halves) + 1
      BY <1>0, TypeFacts
    <3> QED BY <1>1, <3>1, <3>2
  <2>3. CASE insert
    <3>1. loop = "insert" /\ loop' # "insert" /\ entry' = [entry EXCEPT ![cap.id] = cur]
      BY <2>3 DEF insert, afterInsert
    <3> QED BY <1>0, <1>1, <3>1
  <2>4. CASE delete
    <3>1. loop = "delete" /\ loop' # "insert" /\ entry' = [entry EXCEPT ![cap.id] = 0]
      BY <2>4 DEF delete
    <3>2. h # 0
      BY <1>0, TypeFacts
    <3> QED BY <1>0, <1>1, <3>1, <3>2
  <2>5. CASE opened
    <3>1. LoopKept
      BY <2>5, AppSteps
    <3>2. opening \in StreamIDs
      BY <1>0, <2>5, OpeningIsNew DEF opened
    <3>3. entry' = entry \/ entry' = [entry EXCEPT ![opening] = Len(halves) + 1]
      BY <2>5 DEF opened
    <3>4. h # Len(halves) + 1
      BY <1>0, TypeFacts
    <3>5. h = entry'[halves[h].id] => h = entry[halves[h].id]
      BY <1>0, <3>2, <3>3, <3>4
    <3> QED BY <1>1, <3>1, <3>5 DEF LoopKept
  <2>6. CASE \/ SessionClose \/ concurrentMapAccess \/ UNCHANGED vars
             \/ \E kind \in Kinds : OpenStream(kind) \/ AcceptStream(kind)
             \/ \E i \in Halves : Read(i) \/ readReturns(i) \/ Close(i) \/ closeBuffer(i)
    <3>1. UNCHANGED <<loop, entry, cur>>
      BY <2>6 DEF SessionClose, concurrentMapAccess, vars, OpenStream, AcceptStream,
         Read, readReturns, Close, closeBuffer, appFrame, mapVars, loopVars
    <3> QED BY <1>1, <3>1
  <2> QED BY NextCases, <2>1, <2>2, <2>3, <2>4, <2>5, <2>6
<1> QED BY <1>3, <1>4 DEF Fed

(* What is under way for the ID of a half that gets it: a step takes it    *)
(* up, delivers it, or leaves the half alone.                              *)
LEMMA DueStep ==
    ASSUME StreamsInv, [Next]_vars, NEW h \in Halves, Fed(h), Fed(h)',
           sent' = sent, ~(writeBuffer /\ bufferError = "none" /\ h = cur)
    PROVE  pending(halves[h].id)' = pending(halves[h].id)
<1> DEFINE id == halves[h].id
<1>0. /\ TypeOK /\ MapsKeyed
      /\ loop' \notin {"return", "ended"}
      /\ h = entry[id] \/ (loop = "insert" /\ h = cur)
      /\ h # 0
  BY TypeFacts DEF StreamsInv, ControlInv, Fed
<1>1. ASSUME loop \in Located, cap.id = id PROVE h = cur
  BY <1>0, <1>1 DEF MapsKeyed, Located
<1>2. halves'[h].id = id
  BY <1>0, HalvesStay
<1>3. ASSUME cap' = cap, loop \in Pending <=> loop' \in Pending
      PROVE  pending(id)' = pending(id)
  BY <1>2, <1>3 DEF pending
<1>4. ASSUME cap.id # id \/ loop \notin Pending, cap'.id # id \/ loop' \notin Pending
      PROVE  pending(id)' = pending(id)
  BY <1>2, <1>4 DEF pending
<1>5. CASE \/ insert \/ trackSendStream \/ enqueueIncoming \/ finishReceive \/ delete
           \/ deferredClose \/ parseFails
  BY <1>0, <1>3, <1>5 DEF insert, trackSendStream, enqueueIncoming, finishReceive,
     delete, deferredClose, parseFails, afterInsert, afterEnqueue, Pending
<1>6. CASE checkStop
  BY <1>4, <1>6 DEF checkStop, Pending
<1>7. CASE lookup
  <2>1. CASE loop' \in {"look", "insert"}
    BY <1>3, <1>7, <2>1 DEF lookup, Pending
  <2>2. CASE ~found(cap.id) /\ loop' = "check"
    <3>1. cap.id # id
      BY <1>0, <1>7, <2>2 DEF lookup, found
    <3> QED BY <1>4, <2>2, <3>1 DEF Pending
  <2> QED BY <1>7, <2>1, <2>2 DEF lookup
<1>8. CASE look
  <2>1. CASE loop' = "write"
    BY <1>3, <1>8, <2>1 DEF look, Pending
  <2>2. CASE loop' # "write"
    <3>1. loop' \in {"finish", "check"} /\ loop = "look" /\ UNCHANGED halves /\ cap' = cap
      BY <1>8, <2>2 DEF look, afterData, mapVars
    <3>2. halves[cur].closed
      BY <1>8, <2>2 DEF look
    <3>3. ~halves[h].closed
      BY <3>1 DEF Fed
    <3>4. cap.id # id
      BY <1>1, <3>1, <3>2, <3>3 DEF Located
    <3> QED BY <1>4, <3>1, <3>4 DEF Pending
  <2> QED BY <2>1, <2>2
<1>9. CASE writeBuffer
  <2>1. loop = "write" /\ cap' = cap /\ bufferError = "none"
    BY <1>0, <1>9 DEF writeBuffer
  <2>2. cap.id # id
    BY <1>1, <1>9, <2>1 DEF Located
  <2> QED BY <1>4, <2>1, <2>2
<1>10. ASSUME NEW j \in PeerIDs, NEW c \in Capsules, parse(j, c[1], c[2])
       PROVE  pending(id)' = pending(id)
  <2>1. /\ loop = "parse" /\ loop' = "lookup" /\ cap'.id = j /\ Len(cap'.data) = c[1]
        /\ c[1] \in Nat /\ sent[j] \in Nat /\ sent'[j] = sent[j] + c[1]
    BY <1>10, Parsed
  <2>2. c[1] = 0
    BY <2>1
  <2> QED BY <1>2, <2>1, <2>2 DEF pending, Pending
<1>11. CASE \/ SessionClose \/ concurrentMapAccess \/ UNCHANGED vars \/ opened
            \/ \E kind \in Kinds : OpenStream(kind) \/ AcceptStream(kind)
            \/ \E i \in Halves : Read(i) \/ readReturns(i) \/ Close(i) \/ closeBuffer(i)
  <2>1. UNCHANGED <<loop, cap>>
    BY <1>11, AppSteps DEF LoopKept
  <2> QED BY <1>3, <2>1
<1> QED
  BY NextCases, <1>5, <1>6, <1>7, <1>8, <1>9, <1>10, <1>11

(* A new half starts where its ID stands: at its first byte unless the ID  *)
(* was misused.                                                            *)
LEMMA NewHalfHolds ==
    ASSUME StreamsInv, PayloadIsLast, NothingSkipped, [Next]_vars,
           NEW h \in Halves', h \notin Halves
    PROVE  \E b \in Nat : HoldsFrom(h, b)'
<1>0. TypeOK /\ MapsKeyed /\ OursOpened /\ PeersFound
  BY DEF StreamsInv, ControlInv
<1>a. PICK id : id = halves'[h].id
  OBVIOUS
<1> DEFINE n == pending(id)
           s == sent[id]
<1>1. /\ halves'[h].got = <<>> /\ halves'[h].data = <<>> /\ id \in StreamIDs
      /\ ~halves'[h].closed
  <2>1. CASE ByLoop(h)
    BY <1>0, <1>a, <2>1, NewHalf, TypeFacts DEF ByLoop
  <2>2. CASE ByOpen(h)
    BY <1>0, <1>a, <2>2, NewHalf, OpeningIsNew DEF ByOpen
  <2> QED BY <1>0, <2>1, <2>2, NewHalves
<1>2. sent' = sent /\ misused' = misused /\ pending(id)' = pending(id)
  <2>1. CASE ByLoop(h)
    BY <2>1 DEF ByLoop, PeerKept, misused, pending, Pending
  <2>2. CASE ByOpen(h)
    BY <2>2 DEF ByOpen, LoopKept, PeerKept, misused, pending
  <2> QED BY <1>0, <2>1, <2>2, NewHalves
<1>3. s \in Nat /\ n \in Nat /\ n <= s
  <2>1. s \in Nat /\ Len(cap.data) \in Nat
    BY <1>0, <1>1, TypeFacts DEF TypeOK
  <2>2. CASE loop \in Pending /\ cap.id = id
    BY <2>1, <2>2 DEF PayloadIsLast, pending
  <2>3. CASE ~(loop \in Pending /\ cap.id = id)
    <3>1. pending(id) = 0
      BY <2>3 DEF pending
    <3> QED BY <2>1, <3>1
  <2> QED BY <2>2, <2>3
<1>4. ASSUME id \notin misused PROVE s = n
  <2>1. CASE ByLoop(h)
    <3>1. loop = "lookup" /\ id = cap.id /\ entry[cap.id] = 0
      BY <1>a, <2>1 DEF ByLoop, found
    <3>2. \A g \in Halves : halves[g].id # id
      BY <1>0, <1>4, <3>1 DEF PeersFound, misused
    <3> QED BY <1>1, <1>4, <3>1, <3>2 DEF NothingSkipped
  <2>2. CASE ByOpen(h)
    <3>1. id = opening /\ opening # -1
      BY <1>a, <2>2 DEF ByOpen
    <3>2. \A g \in Halves : halves[g].id # id
      BY <1>0, <3>1, OpeningIsNew
    <3>3. ASSUME loop \in Pending, cap.id = id, loop # "lookup" PROVE FALSE
      <4>1. cur # 0 /\ halves[cur].id = cap.id
        BY <1>0, <3>3, References DEF MapsKeyed, Located, Pending
      <4> QED BY <1>0, <3>2, <3>3, <4>1, References
    <3>4. loop # "lookup" => n = 0
      BY <3>3 DEF pending
    <3> QED BY <1>1, <1>4, <3>2, <3>4 DEF NothingSkipped
  <2> QED BY <1>0, <2>1, <2>2, NewHalves
<1>5. Len(<<>>) = 0 /\ 1 .. 0 = {} /\ 0 + 0 = 0
  OBVIOUS
<1>6. total(h)' = 0
  BY <1>1, <1>5 DEF total
<1>7. PICK b \in Nat : b + 0 + n = s /\ (s = n => b = 0)
  <2> HIDE DEF s, n
  <2>1. s - n \in Nat /\ s - n + 0 + n = s /\ (s = n => s - n = 0)
    BY <1>3
  <2> QED BY <2>1
<1>8. RunFrom(h, b)'
  BY <1>1, <1>5 DEF RunFrom
<1>9. id \notin misused' => b = 0
  BY <1>2, <1>4, <1>7
<1>10. b + total(h)' + pending(id)' = sent'[id]
  BY <1>2, <1>6, <1>7
<1>11. HoldsFrom(h, b)'
  BY <1>a, <1>8, <1>9, <1>10 DEF HoldsFrom
<1> QED BY <1>11

LEMMA InOrderStep ==
    ASSUME StreamsInv, PayloadInv, [Next]_vars
    PROVE  InOrder'
<1> SUFFICES ASSUME NEW h \in Halves' PROVE \E b \in Nat : HoldsFrom(h, b)'
  BY DEF InOrder
<1>0. TypeOK /\ MapsKeyed /\ PayloadIsLast /\ NothingSkipped /\ StreamsInv'
  BY StreamsStep DEF StreamsInv, ControlInv, PayloadInv
<1>1. CASE h \notin Halves
  BY <1>0, <1>1, NewHalfHolds
<1>2. CASE h \in Halves
  <2> DEFINE id == halves[h].id
  <2>1. PICK b \in Nat : HoldsFrom(h, b)
    BY <1>2 DEF PayloadInv, InOrder
  <2>2. /\ RunFrom(h, b) /\ (id \notin misused => b = 0)
        /\ Fed(h) => b + total(h) + pending(id) = sent[id]
    BY <2>1 DEF HoldsFrom
  <2>3. halves'[h].id = id /\ id \in StreamIDs /\ misused \subseteq misused'
    BY <1>0, <1>2, HalvesStay, TypeFacts, MisusedGrows
  <2>4. total(h) \in Nat /\ pending(id) \in Nat /\ sent[id] \in Nat /\ Len(cap.data) \in Nat
    BY <1>2, Lengths
  <2>5. ASSUME RunFrom(h, b)',
               Fed(h)' => b + total(h)' + pending(id)' = sent'[id]
        PROVE  HoldsFrom(h, b)'
    BY <2>2, <2>3, <2>5 DEF HoldsFrom
  <2>6. CASE writeBuffer /\ bufferError = "none" /\ h = cur
    <3>1. loop = "write" /\ UNCHANGED <<cap, cur>> /\ sent' = sent /\ loop' = afterData
      BY <2>6 DEF writeBuffer, peerVars
    <3>2. id = cap.id /\ h = entry[id]
      BY <1>0, <1>2, <2>6, <3>1, References DEF MapsKeyed, Located
    <3>3. Fed(h)
      BY <2>6, <3>1, <3>2 DEF Fed
    <3>4. pending(id) = Len(cap.data)
      BY <3>1, <3>2 DEF pending, Pending
    <3>5. b + total(h) + Len(cap.data) = sent[cap.id]
      BY <2>2, <3>2, <3>3, <3>4
    <3>6. RunFrom(h, b)' /\ total(h)' = total(h) + Len(cap.data)
      <4>1. RunFrom(cur, b)' /\ total(cur)' = total(cur) + Len(cap.data)
        BY <1>0, <2>2, <2>6, <3>5, WriteContinues
      <4>2. cur' = h
        BY <2>6, <3>1
      <4> QED BY <2>6, <3>1, <4>1, <4>2 DEF RunFrom, total
    <3>7. pending(id)' = 0
      BY <3>1 DEF pending, Pending, afterData
    <3>8. b + total(h)' + pending(id)' = sent'[id]
      <4> DEFINE t == total(h)
                 n == Len(cap.data)
                 s == sent[cap.id]
      <4>1. t \in Nat /\ n \in Nat /\ total(h)' = t + n /\ b + t + n = s
            /\ sent'[id] = s /\ pending(id)' = 0
        BY <2>4, <3>1, <3>2, <3>5, <3>6, <3>7
      <4> HIDE DEF t, n, s, id
      <4> QED BY <4>1
    <3> QED BY <2>5, <3>6, <3>8
  <2>7. CASE ~(writeBuffer /\ bufferError = "none" /\ h = cur)
    <3>1. RunFrom(h, b)' /\ total(h)' = total(h)
      BY <1>2, <2>2, <2>7, RunStep
    <3>2. ASSUME Fed(h)' PROVE b + total(h)' + pending(id)' = sent'[id]
      <4>1. Fed(h)
        BY <1>2, <3>2, FedStep
      <4>2. b + total(h) + pending(id) = sent[id]
        BY <2>2, <4>1
      <4>3. CASE sent' = sent
        <5>1. pending(id)' = pending(id)
          BY <1>2, <2>3, <2>7, <3>2, <4>1, <4>3, DueStep
        <5> QED BY <3>1, <4>2, <4>3, <5>1
      <4>4. ASSUME NEW j \in PeerIDs, NEW c \in Capsules, parse(j, c[1], c[2])
            PROVE  b + total(h)' + pending(id)' = sent'[id]
        <5>1. /\ loop = "parse" /\ loop' = "lookup" /\ cap'.id = j
              /\ Len(cap'.data) = c[1] /\ c[1] \in Nat /\ sent'[j] = sent[j] + c[1]
              /\ \A i \in StreamIDs : i # j => sent'[i] = sent[i]
          BY <4>4, Parsed
        <5>2. pending(id) = 0 /\ pending(id)' = IF id = j THEN c[1] ELSE 0
          BY <2>3, <5>1 DEF pending, Pending
        <5> DEFINE t == total(h)
                   n == c[1]
                   s == sent[id]
        <5>3. t \in Nat /\ n \in Nat /\ b + t + 0 = s /\ total(h)' = t
          BY <2>4, <3>1, <4>2, <5>1, <5>2
        <5>4. CASE id = j
          <6>1. sent'[id] = s + n /\ pending(id)' = n
            BY <5>1, <5>2, <5>4
          <6> HIDE DEF t, n, s, id
          <6> QED BY <5>3, <6>1
        <5>5. CASE id # j
          <6>1. sent'[id] = s /\ pending(id)' = 0
            BY <2>3, <5>1, <5>2, <5>5
          <6> HIDE DEF t, n, s, id
          <6> QED BY <5>3, <6>1
        <5> QED BY <5>4, <5>5
      <4> QED BY <4>3, <4>4, SentStep
    <3> QED BY <2>5, <3>1, <3>2
  <2> QED BY <2>6, <2>7
<1> QED BY <1>1, <1>2

(* A half that is at its end stays there.                                  *)
LEMMA EofBy ==
    ASSUME StreamsInv, FinIsLast, [Next]_vars, NEW h \in Halves', halves'[h].eof
    PROVE  halves'[h].bufClosed /\ halves'[h].data = <<>>
<1>0. TypeOK /\ MapsKeyed /\ OursOpened
  BY DEF StreamsInv, ControlInv
<1>1. h \in Halves
  <2>1. CASE ByLoop(h)
    BY <1>0, <2>1, NewHalf, TypeFacts DEF ByLoop
  <2>2. CASE ByOpen(h)
    BY <1>0, <2>2, NewHalf, OpeningIsNew DEF ByOpen
  <2> QED BY <1>0, <2>1, <2>2, NewHalves
<1>3. ASSUME NEW i \in Halves, Changes(i), i # h PROVE halves'[h] = halves[h]
  BY <1>1, <1>3 DEF Changes
<1>5. CASE HalvesKept
  <2>1. halves' = halves
    BY <1>5, KeptHalves
  <2> QED BY <1>1, <2>1 DEF FinIsLast
<1>6. CASE lookup
  <2>1. CASE halves' = Append(halves, newReceiveStream(cap.id))
    <3>1. halves'[h] = halves[h]
      BY <1>0, <1>1, <2>1, AppearsBy, TypeFacts DEF Appears
    <3> QED BY <1>1, <3>1 DEF FinIsLast
  <2> QED BY <1>1, <1>6, <2>1 DEF lookup, FinIsLast
<1>7. CASE opened
  <2>1. CASE halves' = Append(halves, newReceiveStream(opening))
    <3>1. opening \in StreamIDs
      BY <1>0, <1>7 DEF opened, TypeOK
    <3>2. halves'[h] = halves[h]
      BY <1>0, <1>1, <2>1, <3>1, AppearsBy DEF Appears
    <3> QED BY <1>1, <3>2 DEF FinIsLast
  <2> QED BY <1>1, <1>7, <2>1 DEF opened, FinIsLast
<1>8. CASE writeBuffer
  <2>1. cur # 0 /\ cur \in Halves
    BY <1>0, <1>8, TypeFacts DEF writeBuffer, MapsKeyed, Located
  <2>2. CASE bufferError = "none"
    <3>1. Changes(cur) /\ KeepsFlags(cur)
      BY <1>0, <1>8, <2>1, <2>2, WriteChanges
    <3>2. ~halves[cur].bufClosed
      BY <2>2 DEF bufferError
    <3>3. h # cur
      BY <1>1, <3>1, <3>2 DEF KeepsFlags, FinIsLast
    <3>4. halves'[h] = halves[h]
      BY <1>1, <3>1, <3>3 DEF Changes
    <3> QED BY <1>1, <3>4 DEF FinIsLast
  <2>3. CASE halves' = halves
    BY <1>1, <2>3 DEF FinIsLast
  <2> QED BY <1>8, <2>2, <2>3 DEF writeBuffer
<1>9. ASSUME NEW i \in Halves, Changes(i), KeepsPayload(i),
             halves'[i].eof = halves[i].eof, halves[i].bufClosed => halves'[i].bufClosed
      PROVE  halves'[h].bufClosed /\ halves'[h].data = <<>>
  BY <1>1, <1>3, <1>9 DEF KeepsPayload, FinIsLast
<1>10. CASE finishReceive
  <2>1. cur # 0 /\ cur \in Halves
    BY <1>0, <1>10, TypeFacts DEF finishReceive, MapsKeyed, Located
  <2> QED BY <1>0, <1>9, <1>10, <2>1, CloseBufferChanges DEF finishReceive
<1>11. ASSUME NEW i \in Halves, Close(i) \/ closeBuffer(i)
       PROVE  halves'[h].bufClosed /\ halves'[h].data = <<>>
  <2>1. CASE Close(i)
    BY <1>0, <1>9, <2>1, CloseChanges
  <2>2. CASE closeBuffer(i)
    BY <1>0, <1>9, <2>2, CloseBufferChanges DEF closeBuffer
  <2> QED BY <1>11, <2>1, <2>2
<1>12. ASSUME NEW i \in Halves, readReturns(i)
       PROVE  halves'[h].bufClosed /\ halves'[h].data = <<>>
  <2>1. Changes(i) /\ (TakesEof(i) \/ \E n \in 1 .. Len(halves[i].data) : Takes(i, n))
    BY <1>0, <1>12, ReadChanges
  <2>2. CASE i # h
    BY <1>1, <1>3, <2>1, <2>2 DEF FinIsLast
  <2>3. CASE i = h /\ TakesEof(i)
    BY <2>3 DEF TakesEof, KeepsPayload
  <2>4. ASSUME i = h, NEW n \in 1 .. Len(halves[i].data), Takes(i, n) PROVE FALSE
    <3>1. halves[h].eof
      BY <2>4 DEF Takes, KeepsFlags
    <3>2. halves[h].data = <<>> /\ Len(<<>>) = 0 /\ 1 .. 0 = {}
      BY <1>1, <3>1 DEF FinIsLast
    <3> QED BY <2>4, <3>2
  <2> QED BY <2>1, <2>2, <2>3, <2>4
<1> QED
  BY NextCases, <1>5, <1>6, <1>7, <1>8, <1>10, <1>11, <1>12 DEF HalvesKept

LEMMA FinIsLastStep ==
    ASSUME StreamsInv, PayloadInv, [Next]_vars
    PROVE  FinIsLast'
<1>0. TypeOK /\ MapsKeyed /\ OursOpened /\ PeersFound /\ ClosedByFin /\ FinIsLast /\ InOrder
  BY DEF StreamsInv, ControlInv, PayloadInv
<1>1. ASSUME NEW h \in Halves', halves'[h].bufClosed, ~halves'[h].closed,
             halves'[h].id \notin misused'
      PROVE  total(h)' = sent'[halves'[h].id]
  <2>1. /\ h \in Halves /\ ~halves[h].closed
        /\ halves[h].bufClosed \/ (finishReceive /\ h = cur)
    BY <1>0, <1>1, BufferClosedBy
  <2>2. halves'[h].id = halves[h].id /\ halves[h].id \notin misused
        /\ halves[h].id \in StreamIDs
    BY <1>0, <1>1, <2>1, HalvesStay, MisusedGrows, TypeFacts
  <2>3. CASE finishReceive /\ h = cur
    <3>1. loop = "finish" /\ sent' = sent
      BY <2>3 DEF finishReceive, peerVars
    <3>2. halves[h].id = cap.id /\ h = entry[halves[h].id]
      BY <1>0, <2>3, <3>1, References DEF MapsKeyed, Located
    <3>3. Fed(h)
      BY <2>1, <3>1, <3>2 DEF Fed
    <3>4. PICK b \in Nat : HoldsFrom(h, b)
      BY <1>0, <2>1 DEF InOrder
    <3>5. b = 0 /\ pending(halves[h].id) = 0
          /\ b + total(h) + pending(halves[h].id) = sent[halves[h].id]
      BY <2>2, <3>1, <3>3, <3>4 DEF HoldsFrom, pending, Pending
    <3>6. total(h) \in Nat
      BY <2>1, Lengths
    <3>7. total(h) = sent[halves[h].id]
      BY <3>5, <3>6
    <3>8. total(h)' = total(h)
      <4>1. ~writeBuffer
        BY <3>1 DEF writeBuffer
      <4> QED BY <2>1, <4>1, RunStep
    <3> QED BY <2>2, <3>1, <3>7, <3>8
  <2>4. CASE halves[h].bufClosed
    <3>1. total(h) = sent[halves[h].id] /\ halves[h].id \in fins
      BY <1>0, <2>1, <2>2, <2>4 DEF FinIsLast, ClosedByFin
    <3>2. ~(writeBuffer /\ bufferError = "none" /\ h = cur)
      BY <2>4 DEF bufferError
    <3>3. total(h)' = total(h)
      BY <2>1, <3>2, RunStep
    <3>4. ASSUME NEW j \in PeerIDs, NEW c \in Capsules, parse(j, c[1], c[2])
          PROVE  sent'[halves[h].id] = sent[halves[h].id]
      <4>1. /\ \A i \in StreamIDs : i # j => sent'[i] = sent[i]
            /\ j \in fins => j \in afterFin'
        BY <3>4, Parsed
      <4>2. halves[h].id # j
        BY <1>1, <2>2, <3>1, <4>1 DEF misused
      <4> QED BY <2>2, <4>1, <4>2
    <3>5. sent'[halves[h].id] = sent[halves[h].id]
      BY <3>4, SentStep
    <3> QED BY <2>2, <3>1, <3>3, <3>5
  <2> QED BY <2>1, <2>3, <2>4
<1>2. ASSUME NEW h \in Halves', halves'[h].eof
      PROVE  halves'[h].bufClosed /\ halves'[h].data = <<>>
  BY <1>0, <1>2, EofBy
<1> QED BY <1>1, <1>2 DEF FinIsLast

(* What readers get on every stream of the session is what the peer sent   *)
(* on it, in order, without a gap and to the end (readLoop, stream.go).    *)
THEOREM StreamsReadInOrder == Spec => []ReadInOrder
<1>1. Init => PayloadInv
  <2> SUFFICES ASSUME Init PROVE PayloadInv
    OBVIOUS
  <2>1. Halves = {} /\ loop = "check" /\ sent = [id \in StreamIDs |-> 0]
    <3>1. DOMAIN <<>> = {}
      BY EmptySeq, LenProperties
    <3> QED BY <3>1 DEF Init, Halves
  <2>2. InOrder /\ FinIsLast
    BY <2>1 DEF InOrder, FinIsLast
  <2>3. PayloadIsLast
    BY <2>1 DEF PayloadIsLast, Pending
  <2>4. NothingSkipped
    BY <2>1 DEF NothingSkipped
  <2> QED BY <2>2, <2>3, <2>4 DEF PayloadInv
<1>2. StreamsInv /\ PayloadInv /\ [Next]_vars => PayloadInv'
  BY InOrderStep, PayloadIsLastStep, NothingSkippedStep, FinIsLastStep DEF PayloadInv
<1>3. StreamsInv /\ PayloadInv => ReadInOrder
  <2> SUFFICES ASSUME StreamsInv, PayloadInv, NEW h \in Halves
               PROVE  LET all == halves[h].got \o halves[h].data
                          id  == halves[h].id
                      IN  /\ \A i \in DOMAIN all :
                                all[i] = i + (IF id \in misused THEN all[1] - 1 ELSE 0)
                          /\ halves[h].eof /\ ~halves[h].closed /\ id \notin misused =>
                                id \in fins /\ Len(halves[h].got) = sent[id]
    BY DEF ReadInOrder
  <2> DEFINE g   == halves[h].got
             d   == halves[h].data
             all == g \o d
             id  == halves[h].id
  <2>1. PICK b \in Nat : HoldsFrom(h, b)
    BY DEF PayloadInv, InOrder
  <2>2. g \in Seq(Nat) /\ d \in Seq(Nat) /\ Len(g) \in Nat /\ Len(d) \in Nat
    BY Lengths
  <2>3. /\ \A i \in 1 .. Len(g) : g[i] = b + i
        /\ \A i \in 1 .. Len(d) : d[i] = b + Len(g) + i
        /\ id \notin misused => b = 0
    BY <2>1 DEF HoldsFrom, RunFrom
  <2>4. halves[h].eof /\ ~halves[h].closed /\ id \notin misused =>
           id \in fins /\ Len(g) = sent[id]
    <3>1. SUFFICES ASSUME halves[h].eof, ~halves[h].closed, id \notin misused
                   PROVE  id \in fins /\ Len(g) = sent[id]
      OBVIOUS
    <3>2. halves[h].bufClosed /\ d = <<>> /\ total(h) = sent[id]
      BY <3>1 DEF PayloadInv, FinIsLast
    <3>3. id \in fins
      BY <3>1, <3>2 DEF StreamsInv, ControlInv, ClosedByFin
    <3>4. Len(d) = 0
      BY <3>2, EmptySeq
    <3>5. total(h) = Len(g) + Len(d)
      BY DEF total
    <3> HIDE DEF g, d
    <3> QED BY <2>2, <3>2, <3>3, <3>4, <3>5
  <2> HIDE DEF g, d, id
  <2>5. /\ all \in Seq(Nat) /\ Len(all) = Len(g) + Len(d)
        /\ \A i \in 1 .. Len(g) + Len(d) :
              all[i] = IF i <= Len(g) THEN g[i] ELSE d[i - Len(g)]
    BY <2>2, ConcatProperties
  <2> HIDE DEF all
  <2>6. DOMAIN all = 1 .. Len(g) + Len(d)
    BY <2>5, LenProperties
  <2>7. ASSUME NEW i \in 1 .. Len(g) + Len(d) PROVE all[i] = b + i
    <3>0. i \in Int
      BY <2>2
    <3>1. CASE i <= Len(g)
      BY <2>2, <2>3, <2>5, <3>0, <3>1
    <3>2. CASE ~(i <= Len(g))
      <4>1. i - Len(g) \in 1 .. Len(d)
        BY <2>2, <3>0, <3>2
      <4>2. all[i] = b + Len(g) + (i - Len(g))
        BY <2>3, <2>5, <3>2, <4>1
      <4> QED BY <2>2, <3>0, <4>2
    <3> QED BY <3>1, <3>2
  <2>8. ASSUME NEW i \in DOMAIN all
        PROVE  all[i] = i + (IF id \in misused THEN all[1] - 1 ELSE 0)
    <3>1. i \in Int /\ 1 \in 1 .. Len(g) + Len(d) /\ i \in 1 .. Len(g) + Len(d)
      BY <2>2, <2>6
    <3>2. all[i] = b + i /\ all[1] = b + 1
      BY <2>7, <3>1
    <3> QED BY <2>3, <3>1, <3>2
  <2> QED BY <2>4, <2>8 DEF all, g, d, id
<1> QED
  BY <1>1, <1>2, <1>3, StreamsAlways, PTL DEF Spec

=============================================================================
