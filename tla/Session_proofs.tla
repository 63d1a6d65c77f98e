---------------------------- MODULE Session_proofs ----------------------------
(***************************************************************************)
(* Proofs about Session, for any number of goroutines that close or accept,*)
(* any capacity of the accept channels and any number of capsules.         *)
(***************************************************************************)
EXTENDS Session, SequenceTheorems, TLAPS

(* The labels of the program counters.                                     *)
Labels ==
    {"idle", "writeClose", "setErr", "check", "parse", "enqueue", "remoteErr",
     "flowErr", "errorReason", "finReason", "close", "stop", "datagrams", "log",
     "done", "ended"}

-----------------------------------------------------------------------------
(* The shape of a step.                                                    *)

(* An actor outside the body of Close moves to another place outside it.   *)
Outside(a) ==
    /\ UNCHANGED closeVars
    /\ pc[a] \notin Body
    /\ \E l \in Labels \ Body : Goto(a, l) /\ (l = "parse" => ~stop)

(* What the read loop does outside the body, apart from parsing.           *)
LoopOutside ==
    checkStop \/ readFin \/ readError \/ setLoopErr \/ enqueueIncoming \/ enqueueGivesUp

CallerOutside(g) ==
    Close(g) \/ CloseWithError(g) \/ writeCloseCapsule(g) \/ setLocalErr(g)

(* The disjuncts of Next, as one fact to split on.                         *)
LEMMA NextCases ==
    ASSUME [Next]_vars
    PROVE  \/ LoopOutside
           \/ PeerCapsule
           \/ \E a \in Actors : CloseBody(a)
           \/ \E g \in Callers : CallerOutside(g)
           \/ \E a \in Acceptors : Acceptor(a)
           \/ \E how \in {"fin", "reset"} : PeerEnds(how)
           \/ UNCHANGED vars
<1>1. Loop \in Actors /\ Callers \subseteq Actors
  BY DEF Actors
<1> QED
  BY <1>1 DEF Next, LoopStep, Caller, LoopOutside, CallerOutside

(* A capsule is parsed in one way, whatever it is.                         *)
LEMMA ParsedCases ==
    ASSUME PeerCapsule
    PROVE  /\ pc[Loop] = "parse" /\ wire = "open" /\ capsules' = capsules + 1
           /\ late' = IF done THEN late + 1 ELSE late
           /\ UNCHANGED <<closeVars, errVars, acceptVars, wire>>
           /\ \/ /\ \E l \in Labels \ (Body \cup {"parse", "enqueue"}) : Goto(Loop, l)
                 /\ UNCHANGED newVars
              \/ /\ Goto(Loop, "enqueue") /\ newKind' \in Kinds
                 /\ opened' = [opened EXCEPT ![newKind'] = opened[newKind'] + 1]
           /\ \E l \in Labels \ (Body \cup {"parse"}) : Goto(Loop, l)
<1>1. CASE \E kind \in Kinds : parseNewStream(kind)
  BY <1>1 DEF parseNewStream, Parsed, Labels, Body
<1>2. CASE ~\E kind \in Kinds : parseNewStream(kind)
  BY <1>2 DEF PeerCapsule, parseHandled, parseCloseSession,
              parseBadCloseSession, parseFlowControlError, parseShortLimit,
              parseStreamFault, Parsed, returnFromLoop, Labels, Body
<1> QED BY <1>1, <1>2

(* The read loop's other steps outside the body.                           *)
LEMMA LoopOutsideCases ==
    ASSUME LoopOutside
    PROVE  /\ Outside(Loop)
           /\ UNCHANGED <<accepting, accepted, peerVars, newVars>>
<1> USE DEF Outside, Labels, Body, returnFromLoop
<1>1. CASE checkStop
  BY <1>1 DEF checkStop, mustStop, acceptVars
<1>2. CASE readFin \/ readError
  BY <1>2 DEF readFin, readError, acceptVars
<1>3. CASE setLoopErr
  BY <1>3 DEF setLoopErr, acceptVars
<1>4. CASE enqueueIncoming
  BY <1>4 DEF enqueueIncoming
<1>5. CASE enqueueGivesUp
  BY <1>5 DEF enqueueGivesUp, acceptVars
<1> QED BY <1>1, <1>2, <1>3, <1>4, <1>5 DEF LoopOutside

(* A caller's steps outside the body.                                      *)
LEMMA CallerOutsideCases ==
    ASSUME NEW g \in Callers, CallerOutside(g)
    PROVE  /\ Outside(g)
           /\ UNCHANGED <<acceptVars, peerVars, newVars>>
<1> USE DEF Outside, Labels, Body
<1>1. CASE Close(g)
  BY <1>1 DEF Close
<1>2. CASE CloseWithError(g)
  BY <1>2 DEF CloseWithError
<1>3. CASE writeCloseCapsule(g)
  BY <1>3 DEF writeCloseCapsule
<1>4. CASE setLocalErr(g)
  BY <1>4 DEF setLocalErr
<1> QED BY <1>1, <1>2, <1>3, <1>4 DEF CallerOutside

-----------------------------------------------------------------------------
(* Type correctness.                                                       *)

(* The initial state is well typed.                                        *)
LEMMA TypeInit == Init => TypeOK
<1> SUFFICES ASSUME Init PROVE TypeOK
  OBVIOUS
<1>1. 0 \in 0 .. QueueCap
  BY SessionAssumption
<1>2. incoming \in [Kinds -> 0 .. QueueCap]
  BY <1>1 DEF Init
<1>3. opened \in [Kinds -> Nat] /\ accepted \in [Kinds -> Nat]
  BY DEF Init
<1>4. accepting \in [Acceptors -> Kinds \cup {"none"}] /\ newKind \in Kinds
  BY DEF Init, Kinds
<1>5. logged \in Seq({"wt_close_session", "error", "local_close", "connect_fin"})
  <2>1. logged = <<>>
    BY DEF Init
  <2> QED BY <2>1
<1> QED
  BY <1>2, <1>3, <1>4, <1>5 DEF Init, TypeOK

(* The types of what the end of the session does not touch, and of the     *)
(* rest, kept apart because few steps touch both.                          *)
AcceptTypes ==
    /\ incoming \in [Kinds -> 0 .. QueueCap]
    /\ opened \in [Kinds -> Nat] /\ accepted \in [Kinds -> Nat]
    /\ accepting \in [Acceptors -> Kinds \cup {"none"}]

EndTypes ==
    /\ stop \in BOOLEAN /\ done \in BOOLEAN /\ datagramsClosed \in BOOLEAN
    /\ once \in {"new", "running", "spent"}
    /\ closeErr \in {"nil", "local", "remote", "flow"}
    /\ closeReason \in {"", "connect_fin", "error"}
    /\ logged \in Seq({"wt_close_session", "error", "local_close", "connect_fin"})
    /\ pc \in [Actors -> Labels]
    /\ newKind \in Kinds
    /\ wire \in {"open", "fin", "reset"}
    /\ capsules \in Nat /\ late \in Nat

(* Together they are TypeOK.                                               *)
LEMMA TypeParts == TypeOK <=> AcceptTypes /\ EndTypes
  BY DEF TypeOK, AcceptTypes, EndTypes, Labels

(* Enqueueing keeps within the capacity of the channel, accepting takes    *)
(* what is there.                                                          *)
LEMMA AcceptTypesStep == AcceptTypes /\ EndTypes /\ [Next]_vars => AcceptTypes'
<1> SUFFICES ASSUME AcceptTypes, EndTypes, [Next]_vars PROVE AcceptTypes'
  OBVIOUS
<1>0. QueueCap \in Nat
  BY SessionAssumption
<1>1. ASSUME UNCHANGED <<acceptVars, newVars>> PROVE AcceptTypes'
  BY <1>1 DEF acceptVars, newVars, AcceptTypes
<1>2. CASE LoopOutside
  <2>1. CASE enqueueIncoming
    <3>1. newKind \in Kinds /\ incoming[newKind] + 1 \in 0 .. QueueCap
      <4>1. newKind \in Kinds /\ incoming[newKind] < QueueCap
        BY <2>1 DEF enqueueIncoming, roomIn, EndTypes
      <4>2. incoming[newKind] \in 0 .. QueueCap
        BY <4>1 DEF AcceptTypes
      <4> QED BY <1>0, <4>1, <4>2
    <3> QED BY <2>1, <3>1 DEF enqueueIncoming, AcceptTypes, newVars
  <2>2. CASE ~enqueueIncoming
    BY <1>1, <1>2, <2>2 DEF LoopOutside, checkStop, readFin, readError, setLoopErr,
                            enqueueGivesUp
  <2> QED BY <2>1, <2>2
<1>3. CASE PeerCapsule
  <2>1. opened' \in [Kinds -> Nat] /\ UNCHANGED acceptVars
    BY <1>3, ParsedCases DEF AcceptTypes, newVars
  <2> QED BY <2>1 DEF AcceptTypes, acceptVars
<1>4. ASSUME NEW a \in Actors, CloseBody(a) PROVE AcceptTypes'
  BY <1>1, <1>4 DEF CloseBody, closeOnceDo, storeStop, closeDatagramDelivery,
                    logSessionEnd, closeDone
<1>5. ASSUME NEW g \in Callers, CallerOutside(g) PROVE AcceptTypes'
  BY <1>1, <1>5, CallerOutsideCases
<1>6. ASSUME NEW a \in Acceptors, Acceptor(a) PROVE AcceptTypes'
  <2>1. CASE acceptTakes(a)
    <3>1. /\ accepting[a] \in Kinds /\ incoming[accepting[a]] - 1 \in 0 .. QueueCap
          /\ accepted[accepting[a]] + 1 \in Nat
      BY <1>0, <2>1 DEF acceptTakes, AcceptTypes
    <3> QED BY <2>1, <3>1 DEF acceptTakes, AcceptTypes, newVars
  <2>2. CASE ~acceptTakes(a)
    <3>1. /\ \E k \in Kinds \cup {"none"} : accepting' = [accepting EXCEPT ![a] = k]
          /\ UNCHANGED <<incoming, opened, accepted>>
      BY <1>6, <2>2 DEF Acceptor, AcceptStream, acceptGivesUp, acceptContextDone, newVars
    <3> QED BY <3>1 DEF AcceptTypes
  <2> QED BY <2>1, <2>2
<1>7. ASSUME NEW how \in {"fin", "reset"}, PeerEnds(how) PROVE AcceptTypes'
  BY <1>1, <1>7 DEF PeerEnds
<1>8. CASE UNCHANGED vars
  BY <1>1, <1>8 DEF vars
<1> QED
  BY NextCases, <1>2, <1>3, <1>4, <1>5, <1>6, <1>7, <1>8

(* The state of the end keeps its types.                                   *)
LEMMA EndTypesStep == AcceptTypes /\ EndTypes /\ [Next]_vars => EndTypes'
<1> SUFFICES ASSUME EndTypes, [Next]_vars PROVE EndTypes'
  OBVIOUS
<1> USE DEF closeVars, errVars, peerVars, newVars
<1>0. ASSUME NEW a \in Actors, NEW l \in Labels, Goto(a, l)
      PROVE  pc' \in [Actors -> Labels]
  BY <1>0 DEF Goto, EndTypes
<1>1. Loop \in Actors /\ Callers \subseteq Actors
  BY DEF Actors
<1>2. CASE LoopOutside
  <2>1. /\ pc' \in [Actors -> Labels] /\ UNCHANGED closeVars
        /\ UNCHANGED <<peerVars, newVars>>
    BY <1>0, <1>1, <1>2, LoopOutsideCases DEF Outside
  <2>2. /\ closeErr' \in {"nil", "local", "remote", "flow"}
        /\ closeReason' \in {"", "connect_fin", "error"}
    BY <1>2 DEF LoopOutside, checkStop, readFin, readError, setLoopErr,
                enqueueIncoming, enqueueGivesUp, setCloseErr, setCloseReason, EndTypes
  <2> QED BY <2>1, <2>2 DEF EndTypes
<1>3. CASE PeerCapsule
  <2>1. /\ pc' \in [Actors -> Labels] /\ UNCHANGED <<closeVars, errVars, wire>>
        /\ newKind' \in Kinds
    BY <1>0, <1>1, <1>3, ParsedCases DEF EndTypes
  <2>2. capsules' \in Nat /\ late' \in Nat
    <3>1. capsules' = capsules + 1 /\ late' = IF done THEN late + 1 ELSE late
      BY <1>3, ParsedCases
    <3>2. capsules \in Nat /\ late \in Nat
      BY DEF EndTypes
    <3> QED BY <3>1, <3>2
  <2> QED BY <2>1, <2>2 DEF EndTypes
<1>4. ASSUME NEW a \in Actors, CloseBody(a) PROVE EndTypes'
  <2>1. /\ \E l \in Labels : Goto(a, l)
        /\ UNCHANGED <<errVars, peerVars, newVars>>
    BY <1>4 DEF CloseBody, closeOnceDo, enterOnce, Return, storeStop,
                closeDatagramDelivery, logSessionEnd, closeDone, Labels
  <2>2. pc' \in [Actors -> Labels]
    BY <1>0, <2>1
  <2>3. stop' \in BOOLEAN /\ done' \in BOOLEAN /\ datagramsClosed' \in BOOLEAN
    BY <1>4, Zenon DEF CloseBody, closeOnceDo, storeStop, closeDatagramDelivery,
                       logSessionEnd, closeDone, EndTypes
  <2>4. once' \in {"new", "running", "spent"}
    BY <1>4 DEF CloseBody, closeOnceDo, enterOnce, storeStop, closeDatagramDelivery,
                logSessionEnd, closeDone, EndTypes
  <2>5. endReason \in {"wt_close_session", "error", "local_close", "connect_fin"}
    BY DEF endReason, EndTypes
  <2>6. logged' \in Seq({"wt_close_session", "error", "local_close", "connect_fin"})
    <3>1. Append(logged, endReason)
            \in Seq({"wt_close_session", "error", "local_close", "connect_fin"})
      BY <2>5, AppendProperties DEF EndTypes
    <3>2. logged' = logged \/ logged' = Append(logged, endReason)
      BY <1>4 DEF CloseBody, closeOnceDo, storeStop, closeDatagramDelivery,
                  logSessionEnd, closeDone
    <3> QED BY <3>1, <3>2 DEF EndTypes
  <2> QED BY <2>1, <2>2, <2>3, <2>4, <2>6 DEF EndTypes
<1>5. ASSUME NEW g \in Callers, CallerOutside(g) PROVE EndTypes'
  <2>1. /\ pc' \in [Actors -> Labels] /\ UNCHANGED closeVars
        /\ UNCHANGED <<peerVars, newVars>>
    BY <1>0, <1>1, <1>5, CallerOutsideCases DEF Outside, EndTypes
  <2>2. /\ closeErr' \in {"nil", "local", "remote", "flow"}
        /\ closeReason' \in {"", "connect_fin", "error"}
    BY <1>5 DEF CallerOutside, Close, CloseWithError, writeCloseCapsule, setLocalErr,
                setCloseErr, EndTypes
  <2> QED BY <2>1, <2>2 DEF EndTypes
<1>6. ASSUME NEW a \in Acceptors, Acceptor(a) PROVE EndTypes'
  <2>1. UNCHANGED <<closeVars, errVars, peerVars, pc, newVars>>
    BY <1>6 DEF Acceptor, AcceptStream, acceptTakes, acceptGivesUp, acceptContextDone
  <2> QED BY <2>1 DEF EndTypes
<1>7. ASSUME NEW how \in {"fin", "reset"}, PeerEnds(how) PROVE EndTypes'
  BY <1>7 DEF PeerEnds, EndTypes
<1>8. CASE UNCHANGED vars
  BY <1>8 DEF vars, EndTypes
<1> QED
  BY NextCases, <1>2, <1>3, <1>4, <1>5, <1>6, <1>7, <1>8

(* Every variable stays in its type; no accept channel holds more than its *)
(* capacity (enqueueIncomingStream, session.go).                           *)
THEOREM TypeCorrect == Spec => []TypeOK
<1>1. TypeOK /\ [Next]_vars => TypeOK'
  <2>1. TypeOK' <=> AcceptTypes' /\ EndTypes'
    BY DEF TypeOK, AcceptTypes, EndTypes, Labels
  <2> QED BY <2>1, TypeParts, AcceptTypesStep, EndTypesStep
<1> QED
  BY <1>1, TypeInit, PTL DEF Spec

-----------------------------------------------------------------------------
(* The end of the session.                                                 *)

(* Steps outside the body leave what is known of the body as it was.       *)
LEMMA OutsideKeeps ==
    ASSUME EndTypes, OneInBody, BodySoFar, NEW a \in Actors, Outside(a)
    PROVE  OneInBody' /\ BodySoFar'
<1>1. PICK l \in Labels \ Body : pc' = [pc EXCEPT ![a] = l]
  BY DEF Outside, Goto
<1>2. /\ \A b \in Actors : pc'[b] = pc[b] \/ (b = a /\ pc'[b] \notin Body)
      /\ UNCHANGED <<stop, done, once, datagramsClosed, logged>>
  BY <1>1 DEF Outside, EndTypes, closeVars
<1>3. OneInBody'
  BY <1>2 DEF OneInBody
<1>4. BodySoFar'
  BY <1>2 DEF BodySoFar, Body
<1> QED BY <1>3, <1>4

(* Steps that move no closer.                                              *)
LEMMA StillKeeps ==
    ASSUME OneInBody, BodySoFar, UNCHANGED <<closeVars, pc>>
    PROVE  OneInBody' /\ BodySoFar'
  BY DEF OneInBody, BodySoFar, closeVars

(* The body of Close runs once, from its first statement to its last.      *)
LEMMA BodyKeeps ==
    ASSUME EndTypes, OneInBody, BodySoFar, NEW a \in Actors, CloseBody(a)
    PROVE  OneInBody' /\ BodySoFar'
<1> USE DEF Goto, Body
<1>0. pc \in [Actors -> Labels]
  BY DEF EndTypes
<1>1. CASE closeOnceDo(a)
  <2>1. CASE once = "new"
    <3>1. /\ once' = "running" /\ pc' = [pc EXCEPT ![a] = "stop"]
          /\ UNCHANGED <<stop, done, datagramsClosed, logged>>
      BY <1>1, <2>1 DEF closeOnceDo, enterOnce
    <3>2. ~done /\ logged = <<>> /\ \A b \in Actors : pc[b] \notin Body
      BY <2>1 DEF BodySoFar, OneInBody
    <3>3. \A b \in Actors : pc'[b] = IF b = a THEN "stop" ELSE pc[b]
      BY <1>0, <3>1
    <3>4. OneInBody'
      BY <3>1, <3>2, <3>3 DEF OneInBody
    <3>5. BodySoFar'
      BY <3>1, <3>2, <3>3 DEF BodySoFar
    <3> QED BY <3>4, <3>5
  <2>2. CASE once # "new"
    <3>1. Outside(a)
      BY <1>1, <2>2 DEF closeOnceDo, enterOnce, Return, Outside, Labels, closeVars
    <3> QED BY <3>1, OutsideKeeps
  <2> QED BY <2>1, <2>2
<1>2. ASSUME pc[a] \in Body
      PROVE  once = "running" /\ ~done /\ \A b \in Actors : b # a => pc[b] \notin Body
  BY <1>2 DEF OneInBody, BodySoFar
<1>3. CASE storeStop(a)
  <2>1. /\ stop' = TRUE /\ UNCHANGED <<done, once, datagramsClosed, logged>>
        /\ pc[a] = "stop"
        /\ \A b \in Actors : pc'[b] = IF b = a THEN "datagrams" ELSE pc[b]
    BY <1>0, <1>3 DEF storeStop
  <2>2. OneInBody'
    BY <1>2, <2>1 DEF OneInBody
  <2>3. BodySoFar'
    BY <1>2, <2>1 DEF BodySoFar
  <2> QED BY <2>2, <2>3
<1>4. CASE closeDatagramDelivery(a)
  <2>1. /\ datagramsClosed' = TRUE /\ UNCHANGED <<done, once, stop, logged>>
        /\ pc[a] = "datagrams"
        /\ \A b \in Actors : pc'[b] = IF b = a THEN "log" ELSE pc[b]
    BY <1>0, <1>4 DEF closeDatagramDelivery
  <2>2. OneInBody'
    BY <1>2, <2>1 DEF OneInBody
  <2>3. BodySoFar'
    BY <1>2, <2>1 DEF BodySoFar
  <2> QED BY <2>2, <2>3
<1>5. CASE logSessionEnd(a)
  <2>1. /\ logged' = Append(logged, endReason)
        /\ UNCHANGED <<done, once, stop, datagramsClosed>>
        /\ pc[a] = "log"
        /\ \A b \in Actors : pc'[b] = IF b = a THEN "done" ELSE pc[b]
    BY <1>0, <1>5 DEF logSessionEnd
  <2>2. logged = <<>> /\ stop /\ datagramsClosed
    BY <2>1 DEF BodySoFar
  <2>3. Len(logged') = 1
    <3>1. logged' = <<endReason>>
      BY <2>1, <2>2
    <3> QED BY <3>1
  <2>4. OneInBody'
    BY <1>2, <2>1 DEF OneInBody
  <2>5. BodySoFar'
    BY <1>2, <2>1, <2>2, <2>3 DEF BodySoFar
  <2> QED BY <2>4, <2>5
<1>6. CASE closeDone(a)
  <2>1. /\ done' = TRUE /\ once' = "spent" /\ UNCHANGED <<stop, datagramsClosed, logged>>
        /\ pc[a] = "done"
        /\ \A b \in Actors : b # a => pc'[b] = pc[b]
        /\ pc'[a] \in {"ended", "idle"}
    BY <1>0, <1>6 DEF closeDone, Return
  <2>2. stop /\ datagramsClosed /\ Len(logged) = 1
    BY <2>1 DEF BodySoFar
  <2>3. \A b \in Actors : pc'[b] \notin Body
    BY <1>2, <2>1
  <2>4. OneInBody'
    BY <2>1, <2>3 DEF OneInBody
  <2>5. BodySoFar'
    BY <2>1, <2>2, <2>3 DEF BodySoFar
  <2> QED BY <2>4, <2>5
<1> QED
  BY <1>1, <1>3, <1>4, <1>5, <1>6 DEF CloseBody

(* A late capsule is the last one: before the next the loop looks at stop. *)
LEMMA LateStep ==
    ASSUME EndTypes, BodySoFar, LateIsLast, [Next]_vars
    PROVE  LateIsLast'
<1>0. Loop \in Actors /\ Callers \subseteq Actors /\ Loop \notin Callers
      /\ pc \in [Actors -> Labels] /\ late \in 0 .. 1
  BY SessionAssumption DEF Actors, EndTypes, LateIsLast
<1>1. ASSUME late' = late, done => done', pc'[Loop] = "parse" => pc[Loop] = "parse" \/ ~stop
      PROVE  LateIsLast'
  <2>1. ASSUME late = 1 PROVE done' /\ pc'[Loop] # "parse"
    BY <1>1, <2>1 DEF LateIsLast, BodySoFar
  <2> QED BY <1>0, <1>1, <2>1 DEF LateIsLast
<1>2. ASSUME NEW a \in Actors, Outside(a), late' = late PROVE LateIsLast'
  <2>1. pc'[Loop] = "parse" => pc[Loop] = "parse" \/ ~stop
    BY <1>0, <1>2 DEF Outside, Goto
  <2> QED BY <1>1, <1>2, <2>1 DEF Outside, closeVars
<1>3. CASE LoopOutside
  BY <1>0, <1>2, <1>3, LoopOutsideCases DEF peerVars
<1>4. CASE PeerCapsule
  <2>1. /\ pc[Loop] = "parse" /\ pc'[Loop] # "parse" /\ done' = done
        /\ late' = IF done THEN late + 1 ELSE late
    BY <1>0, <1>4, ParsedCases DEF Goto, closeVars
  <2>2. late = 0
    BY <1>0, <2>1 DEF LateIsLast
  <2> QED BY <2>1, <2>2 DEF LateIsLast
<1>5. ASSUME NEW a \in Actors, CloseBody(a) PROVE LateIsLast'
  <2>1. late' = late /\ (done => done')
    BY <1>5 DEF CloseBody, closeOnceDo, storeStop, closeDatagramDelivery, logSessionEnd,
                closeDone, peerVars
  <2>2. pc'[Loop] = "parse" => pc[Loop] = "parse"
    BY <1>0, <1>5 DEF CloseBody, closeOnceDo, enterOnce, Return, storeStop,
                      closeDatagramDelivery, logSessionEnd, closeDone, Goto
  <2> QED BY <1>1, <2>1, <2>2
<1>6. ASSUME NEW g \in Callers, CallerOutside(g) PROVE LateIsLast'
  BY <1>0, <1>2, <1>6, CallerOutsideCases DEF peerVars
<1>7. ASSUME UNCHANGED <<closeVars, pc, late>> PROVE LateIsLast'
  BY <1>1, <1>7 DEF closeVars
<1>8. ASSUME NEW a \in Acceptors, Acceptor(a) PROVE LateIsLast'
  BY <1>7, <1>8 DEF Acceptor, AcceptStream, acceptTakes, acceptGivesUp,
                    acceptContextDone, peerVars
<1> QED
  BY NextCases, <1>3, <1>4, <1>5, <1>6, <1>7, <1>8 DEF PeerEnds, vars, peerVars

(* The streams of the peer: parsing makes one, queueing and accepting move *)
(* it on, and giving up drops it on the way to the end.                    *)
LEMMA DropStep ==
    ASSUME AcceptTypes, EndTypes, OneInBody, BodySoFar, DropIsLast, [Next]_vars
    PROVE  DropIsLast'
<1>0. /\ Loop \in Actors /\ Callers \subseteq Actors /\ Loop \notin Callers
      /\ pc \in [Actors -> Labels]
      /\ \A k \in Kinds : opened[k] \in Nat /\ accepted[k] \in Nat /\ incoming[k] \in Nat
  <2>1. QueueCap \in Nat /\ Loop \notin Callers
    BY SessionAssumption
  <2>2. \A k \in Kinds : incoming[k] \in 0 .. QueueCap
    BY DEF AcceptTypes
  <2>3. \A k \in Kinds : incoming[k] \in Nat
    BY <2>1, <2>2
  <2> QED BY <2>1, <2>3 DEF Actors, EndTypes, AcceptTypes
<1>1. ASSUME \A k \in Kinds : Missing(k)' = Missing(k),
             newKind' = newKind, done => done',
             pc'[Loop] = "enqueue" <=> pc[Loop] = "enqueue",
             done /\ pc[Loop] \in {"close", "ended"} => pc'[Loop] \in {"close", "ended"}
      PROVE  DropIsLast'
  BY <1>1 DEF DropIsLast
<1>2. ASSUME UNCHANGED <<incoming, accepted, opened>>
      PROVE  \A k \in Kinds : Missing(k)' = Missing(k)
  BY <1>2 DEF Missing
<1>3. CASE LoopOutside
  <2>1. CASE enqueueIncoming
    <3>1. /\ pc[Loop] = "enqueue" /\ newKind \in Kinds /\ newKind' = newKind
          /\ incoming' = [incoming EXCEPT ![newKind] = incoming[newKind] + 1]
          /\ UNCHANGED <<accepted, opened>>
          /\ pc'[Loop] # "enqueue"
      BY <1>0, <2>1 DEF enqueueIncoming, newVars, EndTypes, returnFromLoop, Goto
    <3>2. \A k \in Kinds : incoming'[k] = IF k = newKind THEN incoming[k] + 1 ELSE incoming[k]
      BY <3>1 DEF AcceptTypes
    <3>3. \A k \in Kinds : Missing(k)' = 0
      BY <1>0, <3>1, <3>2 DEF Missing, DropIsLast
    <3> QED BY <3>1, <3>3 DEF DropIsLast
  <2>2. CASE enqueueGivesUp
    <3>1. /\ pc[Loop] = "enqueue" /\ done /\ done' /\ pc'[Loop] = "close"
          /\ UNCHANGED <<incoming, accepted, opened>>
      BY <1>0, <2>2 DEF enqueueGivesUp, enqueueReleased, returnFromLoop, Goto, acceptVars,
                        newVars, closeVars
    <3> QED BY <1>2, <3>1 DEF DropIsLast
  <2>3. CASE checkStop \/ readFin \/ readError \/ setLoopErr
    <3>1. /\ UNCHANGED <<incoming, accepted, opened, newKind, done>>
          /\ pc[Loop] \notin {"enqueue", "close", "ended"}
          /\ pc'[Loop] # "enqueue"
      BY <1>0, <2>3 DEF checkStop, readFin, readError, setLoopErr, returnFromLoop, Goto,
                        acceptVars, newVars, closeVars
    <3> QED BY <1>1, <1>2, <3>1
  <2> QED BY <1>3, <2>1, <2>2, <2>3 DEF LoopOutside
<1>4. CASE PeerCapsule
  <2>1. /\ pc[Loop] = "parse" /\ pc'[Loop] \in Labels
        /\ UNCHANGED <<incoming, accepted, done>>
    BY <1>0, <1>4, ParsedCases DEF Goto, acceptVars, closeVars
  <2>2. \A k \in Kinds : Missing(k) = 0
    BY <2>1 DEF DropIsLast
  <2>3. CASE /\ \E l \in Labels \ (Body \cup {"parse", "enqueue"}) : Goto(Loop, l)
             /\ UNCHANGED newVars
    <3>1. pc'[Loop] # "enqueue"
      BY <1>0, <2>3 DEF Goto
    <3> QED BY <1>1, <1>2, <2>1, <2>3, <3>1 DEF newVars
  <2>4. CASE /\ Goto(Loop, "enqueue") /\ newKind' \in Kinds
             /\ opened' = [opened EXCEPT ![newKind'] = opened[newKind'] + 1]
    <3>1. /\ newKind' \in Kinds /\ pc'[Loop] = "enqueue"
          /\ opened' = [opened EXCEPT ![newKind'] = opened[newKind'] + 1]
      BY <1>0, <2>4 DEF Goto
    <3>2. \A k \in Kinds : opened'[k] = IF k = newKind' THEN opened[k] + 1 ELSE opened[k]
      BY <3>1 DEF AcceptTypes
    <3>3. \A k \in Kinds : Missing(k)' = IF k = newKind' THEN 1 ELSE 0
      BY <1>0, <2>1, <2>2, <3>2 DEF Missing
    <3> QED BY <3>1, <3>3 DEF DropIsLast
  <2> QED BY <1>4, <2>3, <2>4, ParsedCases
<1>5. ASSUME NEW a \in Actors, CloseBody(a) PROVE DropIsLast'
  <2>1. UNCHANGED <<incoming, accepted, opened, newKind>> /\ (done => done')
    BY <1>5 DEF CloseBody, closeOnceDo, storeStop, closeDatagramDelivery, logSessionEnd,
                closeDone, acceptVars, newVars
  <2>2. pc'[Loop] = "enqueue" <=> pc[Loop] = "enqueue"
    BY <1>0, <1>5 DEF CloseBody, closeOnceDo, enterOnce, Return, storeStop,
                      closeDatagramDelivery, logSessionEnd, closeDone, Goto
  <2>3. ASSUME done, pc[Loop] \in {"close", "ended"} PROVE pc'[Loop] \in {"close", "ended"}
    <3>1. once = "spent"
      BY <2>3 DEF BodySoFar
    <3> QED BY <1>0, <1>5, <2>3, <3>1 DEF CloseBody, closeOnceDo, enterOnce, Return,
               storeStop, closeDatagramDelivery, logSessionEnd, closeDone, Goto
  <2> QED BY <1>1, <1>2, <2>1, <2>2, <2>3
<1>6. ASSUME NEW g \in Callers, CallerOutside(g) PROVE DropIsLast'
  <2>1. /\ UNCHANGED <<incoming, accepted, opened, newKind, done>>
        /\ pc'[Loop] = pc[Loop]
    BY <1>0, <1>6, CallerOutsideCases DEF Outside, Goto, acceptVars, newVars, closeVars
  <2> QED BY <1>1, <1>2, <2>1
<1>7. ASSUME NEW a \in Acceptors, Acceptor(a) PROVE DropIsLast'
  <2>1. UNCHANGED <<done, pc, newKind, opened>>
    BY <1>7 DEF Acceptor, AcceptStream, acceptTakes, acceptGivesUp, acceptContextDone,
                newVars, closeVars
  <2>2. \A k \in Kinds : Missing(k)' = Missing(k)
    <3>1. CASE acceptTakes(a)
      <4> DEFINE j == accepting[a]
      <4>1. /\ incoming' = [incoming EXCEPT ![j] = incoming[j] - 1]
            /\ accepted' = [accepted EXCEPT ![j] = accepted[j] + 1]
        BY <3>1 DEF acceptTakes
      <4> HIDE DEF j
      <4>2. \A k \in Kinds :
              /\ incoming'[k] = IF k = j THEN incoming[k] - 1 ELSE incoming[k]
              /\ accepted'[k] = IF k = j THEN accepted[k] + 1 ELSE accepted[k]
        BY <4>1 DEF AcceptTypes
      <4> QED BY <1>0, <2>1, <4>2 DEF Missing
    <3>2. CASE ~acceptTakes(a)
      BY <1>2, <1>7, <2>1, <3>2 DEF Acceptor, AcceptStream, acceptGivesUp, acceptContextDone
    <3> QED BY <3>1, <3>2
  <2> QED BY <1>1, <2>1, <2>2
<1>8. CASE \E how \in {"fin", "reset"} : PeerEnds(how)
  BY <1>1, <1>2, <1>8 DEF PeerEnds, acceptVars, newVars, closeVars
<1>9. CASE UNCHANGED vars
  BY <1>1, <1>2, <1>9 DEF vars, acceptVars, newVars, closeVars
<1> QED
  BY NextCases, <1>3, <1>4, <1>5, <1>6, <1>7, <1>8, <1>9

(* The inductive invariant of the end of a session holds always.           *)
LEMMA Invariance == Spec => []CloseInv
<1>1. Init => CloseInv
  <2> SUFFICES ASSUME Init PROVE CloseInv
    OBVIOUS
  <2>1. \A a \in Actors : pc[a] \in {"check", "idle"}
    BY DEF Init
  <2>2. OneInBody /\ BodySoFar
    BY <2>1 DEF Init, OneInBody, BodySoFar, Body
  <2>3. late = 0
    BY DEF Init
  <2>4. LateIsLast
    BY <2>3, 0 \in 0 .. 1 DEF LateIsLast
  <2>5. \A k \in Kinds : Missing(k) = 0
    <3>1. \A k \in Kinds : opened[k] = 0 /\ accepted[k] = 0 /\ incoming[k] = 0
      BY DEF Init
    <3> QED BY <3>1 DEF Missing
  <2>6. pc[Loop] # "enqueue"
    BY <2>1 DEF Actors
  <2>7. DropIsLast
    BY <2>5, <2>6 DEF DropIsLast
  <2> QED BY <2>2, <2>4, <2>7, TypeInit DEF CloseInv
<1>2. CloseInv /\ [Next]_vars => CloseInv'
  <2> SUFFICES ASSUME CloseInv, [Next]_vars PROVE CloseInv'
    OBVIOUS
  <2>1. AcceptTypes /\ EndTypes /\ OneInBody /\ BodySoFar /\ LateIsLast /\ DropIsLast
    BY TypeParts DEF CloseInv
  <2>2. TypeOK'
    <3>1. TypeOK' <=> AcceptTypes' /\ EndTypes'
      BY DEF TypeOK, AcceptTypes, EndTypes, Labels
    <3> QED BY <2>1, <3>1, AcceptTypesStep, EndTypesStep
  <2>3. OneInBody' /\ BodySoFar'
    <3>1. Loop \in Actors /\ Callers \subseteq Actors
      BY DEF Actors
    <3>2. CASE LoopOutside
      BY <2>1, <3>1, <3>2, LoopOutsideCases, OutsideKeeps
    <3>3. CASE PeerCapsule
      <4>1. Outside(Loop)
        BY <3>3, ParsedCases DEF Outside, Body
      <4> QED BY <2>1, <3>1, <4>1, OutsideKeeps
    <3>4. ASSUME NEW a \in Actors, CloseBody(a) PROVE OneInBody' /\ BodySoFar'
      BY <2>1, <3>4, BodyKeeps
    <3>5. ASSUME NEW g \in Callers, CallerOutside(g) PROVE OneInBody' /\ BodySoFar'
      BY <2>1, <3>1, <3>5, CallerOutsideCases, OutsideKeeps
    <3>6. ASSUME NEW a \in Acceptors, Acceptor(a) PROVE OneInBody' /\ BodySoFar'
      BY <2>1, <3>6, StillKeeps DEF Acceptor, AcceptStream, acceptTakes, acceptGivesUp,
                                    acceptContextDone
    <3>7. CASE \E how \in {"fin", "reset"} : PeerEnds(how)
      BY <2>1, <3>7, StillKeeps DEF PeerEnds
    <3>8. CASE UNCHANGED vars
      BY <2>1, <3>8, StillKeeps DEF vars
    <3> QED BY NextCases, <3>2, <3>3, <3>4, <3>5, <3>6, <3>7, <3>8
  <2>4. LateIsLast'
    BY <2>1, LateStep
  <2>5. DropIsLast'
    BY <2>1, DropStep
  <2> QED BY <2>2, <2>3, <2>4, <2>5 DEF CloseInv
<1> QED
  BY <1>1, <1>2, PTL DEF Spec

(* done is never closed twice, however many goroutines and the read loop   *)
(* close the session at once (Close, session.go).                          *)
THEOREM ClosedOnce == Spec => []DoneClosedOnce
<1>1. CloseInv => DoneClosedOnce
  BY DEF CloseInv, OneInBody, BodySoFar, DoneClosedOnce, Body
<1> QED
  BY <1>1, Invariance, PTL

(* Whoever sees done sees a session stopped, its datagram delivery closed  *)
(* and its end logged once (Close, session.go).                            *)
THEOREM EndedAtDone == Spec => []DoneMeansEnded
<1>1. CloseInv => DoneMeansEnded
  BY DEF CloseInv, BodySoFar, DoneMeansEnded
<1> QED
  BY <1>1, Invariance, PTL

(* The read loop parses at most one capsule after done was closed          *)
(* (readLoop, session.go).                                                 *)
THEOREM AtMostOneLate == Spec => []OneLateCapsule
<1>1. CloseInv => OneLateCapsule
  BY DEF CloseInv, LateIsLast, OneLateCapsule
<1> QED
  BY <1>1, Invariance, PTL

(* No stream of the peer's is lost while the session is open, for any      *)
(* capacity of the accept channels and any number of acceptors; at the end *)
(* at most one is, the one the read loop holds (enqueueIncomingStream,     *)
(* AcceptStream, session.go).                                              *)
THEOREM StreamsKept == Spec => []NoStreamDropped
<1>1. CloseInv => NoStreamDropped
  <2> SUFFICES ASSUME CloseInv PROVE NoStreamDropped
    OBVIOUS
  <2>1. DropIsLast
    BY DEF CloseInv
  <2> QED BY <2>1 DEF DropIsLast, NoStreamDropped
<1> QED
  BY <1>1, Invariance, PTL

(* The first error of the session stands (setCloseErr, session.go): both    *)
(* writers of closeErr go through setCloseErr, and no other step writes it.*)
THEOREM ErrorStands == Spec => FirstErrorStands
<1>1. [Next]_vars => [closeErr # "nil" => closeErr' = closeErr]_vars
  <2> SUFFICES ASSUME [Next]_vars PROVE closeErr # "nil" => closeErr' = closeErr
    OBVIOUS
  <2>1. CASE LoopOutside
    BY <2>1 DEF LoopOutside, checkStop, readFin, readError, setLoopErr, enqueueIncoming,
                enqueueGivesUp, setCloseErr, setCloseReason, errVars
  <2>2. CASE PeerCapsule
    BY <2>2 DEF PeerCapsule, parseHandled, parseNewStream, parseCloseSession,
                parseBadCloseSession, parseFlowControlError, parseShortLimit,
                parseStreamFault, Parsed, errVars
  <2>3. ASSUME NEW a \in Actors, CloseBody(a) PROVE closeErr' = closeErr
    BY <2>3 DEF CloseBody, closeOnceDo, storeStop, closeDatagramDelivery,
                logSessionEnd, closeDone, errVars
  <2>4. ASSUME NEW g \in Callers, CallerOutside(g)
        PROVE  closeErr # "nil" => closeErr' = closeErr
    BY <2>4 DEF CallerOutside, Close, CloseWithError, writeCloseCapsule, setLocalErr,
                setCloseErr, errVars
  <2>5. ASSUME NEW a \in Acceptors, Acceptor(a) PROVE closeErr' = closeErr
    BY <2>5 DEF Acceptor, AcceptStream, acceptTakes, acceptGivesUp,
                acceptContextDone, errVars
  <2>6. CASE \E how \in {"fin", "reset"} : PeerEnds(how)
    BY <2>6 DEF PeerEnds, errVars
  <2>7. CASE UNCHANGED vars
    BY <2>7 DEF vars, errVars
  <2> QED BY NextCases, <2>1, <2>2, <2>3, <2>4, <2>5, <2>6, <2>7
<1> QED
  BY <1>1, PTL DEF Spec, FirstErrorStands

=============================================================================
