------------------------------- MODULE Session -------------------------------
(***************************************************************************)
(* The life of a Session (session.go): the read loop, the application      *)
(* goroutines that accept streams and end the session with Close or        *)
(* CloseWithError, and the peer, which sends capsules and ends the CONNECT *)
(* stream.  closeOnce, closeErrMu, the accept channels and done are what   *)
(* they meet on; every statement between two of them is a step.            *)
(*                                                                         *)
(* A capsule is what the read loop does with it.  What it does inside a    *)
(* stream, the datagram buffer or the send limits is in ReceiveStream,     *)
(* DatagramBuffer and SendLimits; here only success or failure counts.     *)
(***************************************************************************)
EXTENDS Integers, Sequences

CONSTANTS
    Callers,       \* goroutines that call Close or CloseWithError
    Acceptors,     \* goroutines that call AcceptStream, AcceptUnidirectionalStream
    Loop,          \* the read loop's goroutine
    QueueCap,      \* capacity of an accept channel, 16 in the code
    MaxCapsules    \* bound: capsules the peer sends

ASSUME SessionAssumption ==
    /\ Loop \notin Callers
    /\ QueueCap \in Nat \ {0}
    /\ MaxCapsules \in Nat

Actors == Callers \cup {Loop}
Kinds  == {"uni", "bidi"}

VARIABLES
    stop, done,          \* Session.stop; done is closed
    once,                \* closeOnce: "new", "running", "spent"
    datagramsClosed,     \* datagramBuffer.closed
    closeErr,            \* "nil", or whose error it is
    closeReason,         \* "", "connect_fin", "error"
    logged,              \* reasons logSessionEnd printed, in order
    incoming,            \* how many streams each accept channel holds
    pc,                  \* where Callers and the read loop are
    newKind,             \* kind of the stream the read loop enqueues
    accepting,           \* what each acceptor waits for, or "none"
    wire,                \* peer's half of the CONNECT stream: open, fin, reset
    capsules,            \* capsules parsed
    opened, accepted,    \* history: streams the peer opened, and Accept* returned
    late                 \* history: capsules parsed after done was closed

closeVars  == <<stop, done, once, datagramsClosed, logged>>
errVars    == <<closeErr, closeReason>>
acceptVars == <<incoming, accepting, accepted>>
newVars    == <<newKind, opened>>
peerVars   == <<wire, capsules, late>>
vars == <<closeVars, errVars, acceptVars, peerVars, pc, newVars>>

Init ==
    /\ stop = FALSE /\ done = FALSE
    /\ once = "new"
    /\ datagramsClosed = FALSE
    /\ closeErr = "nil" /\ closeReason = ""
    /\ logged = <<>>
    /\ incoming = [k \in Kinds |-> 0]
    /\ pc = [a \in Actors |-> IF a = Loop THEN "check" ELSE "idle"]
    /\ newKind = "bidi"
    /\ accepting = [a \in Acceptors |-> "none"]
    /\ wire = "open"
    /\ capsules = 0
    /\ opened = [k \in Kinds |-> 0]
    /\ accepted = [k \in Kinds |-> 0]
    /\ late = 0

Goto(a, label) == pc' = [pc EXCEPT ![a] = label]

-----------------------------------------------------------------------------
(* Close, by any actor.  closeOnce makes later callers wait for the first. *)

Return(a) == Goto(a, IF a = Loop THEN "ended" ELSE "idle")

(* Fault: a flag looked at and set in two steps instead of a sync.Once.    *)
enterOnce_flag(a) ==
    \/ ~stop /\ Goto(a, "stop") /\ UNCHANGED once
    \/ stop /\ Return(a) /\ UNCHANGED once

enterOnce(a) ==
    \/ once = "new" /\ once' = "running" /\ Goto(a, "stop")
    \/ once = "spent" /\ Return(a) /\ UNCHANGED once

closeOnceDo(a) ==
    /\ pc[a] = "close"
    /\ enterOnce(a)
    /\ UNCHANGED <<stop, done, datagramsClosed, logged>>
    /\ UNCHANGED <<errVars, acceptVars, peerVars, newVars>>

(* Fault: the datagram delivery is left open.                              *)
storeStop_keepsDatagrams(a) ==
    /\ pc[a] = "stop"
    /\ stop' = TRUE
    /\ Goto(a, "log")
    /\ UNCHANGED <<done, once, datagramsClosed, logged>>
    /\ UNCHANGED <<errVars, acceptVars, peerVars, newVars>>

storeStop(a) ==
    /\ pc[a] = "stop"
    /\ stop' = TRUE
    /\ Goto(a, "datagrams")
    /\ UNCHANGED <<done, once, datagramsClosed, logged>>
    /\ UNCHANGED <<errVars, acceptVars, peerVars, newVars>>

closeDatagramDelivery(a) ==
    /\ pc[a] = "datagrams"
    /\ datagramsClosed' = TRUE
    /\ Goto(a, "log")
    /\ UNCHANGED <<stop, done, once, logged>>
    /\ UNCHANGED <<errVars, acceptVars, peerVars, newVars>>

(* A SessionCloseError prints wt_close_session, another error prints error. *)
endReason ==
    CASE closeErr \in {"local", "remote"} -> "wt_close_session"
      [] closeErr = "flow" -> "error"
      [] OTHER -> IF closeReason = "" THEN "local_close" ELSE closeReason

logSessionEnd(a) ==
    /\ pc[a] = "log"
    /\ logged' = Append(logged, endReason)
    /\ Goto(a, "done")
    /\ UNCHANGED <<stop, done, once, datagramsClosed>>
    /\ UNCHANGED <<errVars, acceptVars, peerVars, newVars>>

closeDone(a) ==
    /\ pc[a] = "done"
    /\ done' = TRUE
    /\ once' = "spent"
    /\ Return(a)
    /\ UNCHANGED <<stop, datagramsClosed, logged>>
    /\ UNCHANGED <<errVars, acceptVars, peerVars, newVars>>

-----------------------------------------------------------------------------
(* The application ends the session.                                       *)

(* Fault: the last error wins.                                             *)
setCloseErr_last(e) == closeErr' = e /\ UNCHANGED closeReason

setCloseErr(e) ==
    /\ closeErr' = IF closeErr = "nil" THEN e ELSE closeErr
    /\ UNCHANGED closeReason

setCloseReason(r) ==
    /\ closeReason' = IF closeReason = "" THEN r ELSE closeReason
    /\ UNCHANGED closeErr

Close(g) ==
    /\ pc[g] = "idle"
    /\ Goto(g, "close")
    /\ UNCHANGED <<closeVars, errVars, acceptVars, peerVars, newVars>>

(* CloseWithError looks at stop before it writes.  A message it refuses as *)
(* too long changes nothing.                                               *)
CloseWithError(g) ==
    /\ pc[g] = "idle"
    /\ ~stop
    /\ Goto(g, "writeClose")
    /\ UNCHANGED <<closeVars, errVars, acceptVars, peerVars, newVars>>

(* The capsule is written and flushed, or the CONNECT stream refuses it.   *)
writeCloseCapsule(g) ==
    /\ pc[g] = "writeClose"
    /\ Goto(g, "setErr") \/ Goto(g, "idle")
    /\ UNCHANGED <<closeVars, errVars, acceptVars, peerVars, newVars>>

setLocalErr(g) ==
    /\ pc[g] = "setErr"
    /\ setCloseErr("local")
    /\ Goto(g, "close")
    /\ UNCHANGED <<closeVars, acceptVars, peerVars, newVars>>

-----------------------------------------------------------------------------
(* The read loop.                                                          *)

(* Fault: the loop returns without Close.                                  *)
returnFromLoop_noDefer == Goto(Loop, "ended")

(* Every return of the loop runs the deferred Close.                       *)
returnFromLoop == Goto(Loop, "close")

(* Fault: the loop does not look at stop.                                  *)
mustStop_never == FALSE

mustStop == stop

checkStop ==
    /\ pc[Loop] = "check"
    /\ IF mustStop THEN returnFromLoop ELSE Goto(Loop, "parse")
    /\ UNCHANGED <<closeVars, errVars, acceptVars, peerVars, newVars>>

(* One capsule parsed and the loop sent on.                                *)
Parsed(goOn) ==
    /\ pc[Loop] = "parse"
    /\ wire = "open"
    /\ capsules < MaxCapsules
    /\ capsules' = capsules + 1
    /\ late' = IF done THEN late + 1 ELSE late
    /\ goOn
    /\ UNCHANGED <<closeVars, errVars, acceptVars, wire>>

(* PADDING, WT_DRAIN_SESSION, DATAGRAM, data that its stream takes, a      *)
(* raised limit, a capsule type the session does not use.                  *)
parseHandled == Parsed(Goto(Loop, "check")) /\ UNCHANGED newVars

parseNewStream(kind) ==
    /\ Parsed(Goto(Loop, "enqueue"))
    /\ newKind' = kind
    /\ opened' = [opened EXCEPT ![kind] = @ + 1]

(* WT_CLOSE_SESSION, well-formed or not, and a limit that goes down.       *)
parseCloseSession == Parsed(Goto(Loop, "remoteErr")) /\ UNCHANGED newVars

parseBadCloseSession == Parsed(Goto(Loop, "errorReason")) /\ UNCHANGED newVars

parseFlowControlError == Parsed(Goto(Loop, "flowErr")) /\ UNCHANGED newVars

(* A limit capsule too short for its fields reads as io.EOF, which the     *)
(* loop takes for the end of the CONNECT stream.                           *)
parseShortLimit == Parsed(Goto(Loop, "finReason")) /\ UNCHANGED newVars

(* A stream ID that cannot be read, or stream data its buffer refuses:     *)
(* the loop returns and sets no reason.                                    *)
parseStreamFault == Parsed(returnFromLoop) /\ UNCHANGED newVars

(* A FIN, or a reset with NO_ERROR.                                        *)
isCleanConnectTeardown == wire = "fin"

(* The clean end, between capsules or inside one; in the middle of a       *)
(* stream ID it sets no reason.                                            *)
readFin ==
    /\ pc[Loop] = "parse"
    /\ isCleanConnectTeardown
    /\ setCloseReason("connect_fin") \/ UNCHANGED errVars
    /\ returnFromLoop
    /\ UNCHANGED <<closeVars, acceptVars, peerVars, newVars>>

(* Any other error: between capsules it is a reason, inside one it is not. *)
readError ==
    /\ pc[Loop] = "parse"
    /\ wire # "open" /\ ~isCleanConnectTeardown
    /\ setCloseReason("error") \/ UNCHANGED errVars
    /\ returnFromLoop
    /\ UNCHANGED <<closeVars, acceptVars, peerVars, newVars>>

setLoopErr ==
    /\ \/ pc[Loop] = "remoteErr" /\ setCloseErr("remote")
       \/ pc[Loop] = "flowErr" /\ setCloseErr("flow")
       \/ pc[Loop] = "errorReason" /\ setCloseReason("error")
       \/ pc[Loop] = "finReason" /\ setCloseReason("connect_fin")
    /\ returnFromLoop
    /\ UNCHANGED <<closeVars, acceptVars, peerVars, newVars>>

roomIn(k) == incoming[k] < QueueCap

(* enqueueIncomingStream, enqueueIncomingUniStream: the channel or done.   *)
(* Once queued, the stream takes its first payload and the loop goes on,   *)
(* or refuses it and the loop returns.                                     *)
enqueueIncoming ==
    /\ pc[Loop] = "enqueue"
    /\ roomIn(newKind)
    /\ incoming' = [incoming EXCEPT ![newKind] = @ + 1]
    /\ Goto(Loop, "check") \/ returnFromLoop
    /\ UNCHANGED <<closeVars, errVars, accepting, accepted, peerVars, newVars>>

(* Fault: the send on the channel is not a select.                         *)
enqueueReleased_never == FALSE

(* Fault: the select has a default, so a full channel drops the stream.    *)
enqueueReleased_default == done \/ ~roomIn(newKind)

enqueueReleased == done

enqueueGivesUp ==
    /\ pc[Loop] = "enqueue"
    /\ enqueueReleased
    /\ returnFromLoop
    /\ UNCHANGED <<closeVars, errVars, acceptVars, peerVars, newVars>>

-----------------------------------------------------------------------------
(* AcceptStream and AcceptUnidirectionalStream.                            *)

AcceptStream(a, kind) ==
    /\ accepting[a] = "none"
    /\ accepting' = [accepting EXCEPT ![a] = kind]
    /\ UNCHANGED <<closeVars, errVars, incoming, accepted, peerVars, pc, newVars>>

(* Fault: done is looked at again once the stream is out of the channel.   *)
acceptTakes_rechecks(a) ==
    LET kind == accepting[a]
    IN  /\ kind # "none"
        /\ incoming[kind] > 0
        /\ incoming' = [incoming EXCEPT ![kind] = @ - 1]
        /\ accepted' = [accepted EXCEPT ![kind] = IF done THEN @ ELSE @ + 1]
        /\ accepting' = [accepting EXCEPT ![a] = "none"]
        /\ UNCHANGED <<closeVars, errVars, peerVars, pc, newVars>>

(* A stream in the channel is as good a case of the select as done is.     *)
acceptTakes(a) ==
    LET kind == accepting[a]
    IN  /\ kind # "none"
        /\ incoming[kind] > 0
        /\ incoming' = [incoming EXCEPT ![kind] = @ - 1]
        /\ accepted' = [accepted EXCEPT ![kind] = @ + 1]
        /\ accepting' = [accepting EXCEPT ![a] = "none"]
        /\ UNCHANGED <<closeVars, errVars, peerVars, pc, newVars>>

(* ErrSessionClosed once done is closed, or the caller's context.  Only    *)
(* the first is sure to come.                                              *)
acceptGivesUp(a) ==
    /\ accepting[a] # "none"
    /\ done
    /\ accepting' = [accepting EXCEPT ![a] = "none"]
    /\ UNCHANGED <<closeVars, errVars, incoming, accepted, peerVars, pc, newVars>>

acceptContextDone(a) ==
    /\ accepting[a] # "none"
    /\ accepting' = [accepting EXCEPT ![a] = "none"]
    /\ UNCHANGED <<closeVars, errVars, incoming, accepted, peerVars, pc, newVars>>

-----------------------------------------------------------------------------
(* The peer's half of the CONNECT stream ends.                             *)

PeerEnds(how) ==
    /\ wire = "open"
    /\ wire' = how
    /\ UNCHANGED <<closeVars, errVars, acceptVars>>
    /\ UNCHANGED <<capsules, late, pc, newVars>>

CloseBody(a) ==
    \/ closeOnceDo(a) \/ storeStop(a) \/ closeDatagramDelivery(a)
    \/ logSessionEnd(a) \/ closeDone(a)

PeerCapsule ==
    \/ parseHandled
    \/ \E kind \in Kinds : parseNewStream(kind)
    \/ parseCloseSession
    \/ parseBadCloseSession
    \/ parseFlowControlError
    \/ parseShortLimit
    \/ parseStreamFault

LoopStep ==
    \/ checkStop \/ readFin \/ readError \/ setLoopErr
    \/ enqueueIncoming \/ enqueueGivesUp \/ CloseBody(Loop)

Caller(g) ==
    Close(g) \/ CloseWithError(g) \/ writeCloseCapsule(g) \/ setLocalErr(g)
    \/ CloseBody(g)

Acceptor(a) ==
    \/ \E kind \in Kinds : AcceptStream(a, kind)
    \/ acceptTakes(a) \/ acceptGivesUp(a) \/ acceptContextDone(a)

Next ==
    \/ LoopStep
    \/ PeerCapsule
    \/ \E g \in Callers : Caller(g)
    \/ \E a \in Acceptors : Acceptor(a)
    \/ \E how \in {"fin", "reset"} : PeerEnds(how)

Spec == Init /\ [][Next]_vars

(* Runnable goroutines run, a select with a ready case is served.  Nothing *)
(* makes the peer send, the application call, a context end, or the write  *)
(* of WT_CLOSE_SESSION finish (the peer may not read).                     *)
FairSpec ==
    /\ Spec
    /\ WF_vars(LoopStep)
    /\ \A g \in Callers : WF_vars(setLocalErr(g) \/ CloseBody(g))
    /\ \A a \in Acceptors : WF_vars(acceptTakes(a) \/ acceptGivesUp(a))

-----------------------------------------------------------------------------
(* The properties.                                                         *)

TypeOK ==
    /\ stop \in BOOLEAN /\ done \in BOOLEAN /\ datagramsClosed \in BOOLEAN
    /\ once \in {"new", "running", "spent"}
    /\ closeErr \in {"nil", "local", "remote", "flow"}
    /\ closeReason \in {"", "connect_fin", "error"}
    /\ logged \in Seq({"wt_close_session", "error", "local_close", "connect_fin"})
    /\ incoming \in [Kinds -> 0 .. QueueCap]
    /\ opened \in [Kinds -> Nat] /\ accepted \in [Kinds -> Nat]
    /\ pc \in [Actors -> {"idle", "writeClose", "setErr", "check", "parse",
                          "enqueue", "remoteErr", "flowErr", "errorReason",
                          "finReason", "close", "stop", "datagrams", "log", "done", "ended"}]
    /\ newKind \in Kinds
    /\ accepting \in [Acceptors -> Kinds \cup {"none"}]
    /\ wire \in {"open", "fin", "reset"}
    /\ capsules \in Nat /\ late \in Nat

(* done is never closed twice, which would panic, although the read loop's *)
(* deferred Close races with Close and CloseWithError (closeOnce).         *)
DoneClosedOnce == \A a \in Actors : pc[a] = "done" => ~done

(* Whoever sees Done sees a session that is stopped, whose datagram        *)
(* delivery is closed and whose end was logged once: the order of the      *)
(* statements in Close, for every caller.                                  *)
DoneMeansEnded ==
    done => stop /\ datagramsClosed /\ Len(logged) = 1

(* The streams of the peer that are neither accepted nor queued.           *)
Missing(k) == opened[k] - accepted[k] - incoming[k]

(* No stream the peer opened is lost while the session is open: not when   *)
(* the accept channel is full, not when done, a context and a stream are   *)
(* ready at once in Accept*.  Only the one stream that the read loop holds *)
(* when done closes may be dropped, and none follows it                    *)
(* (enqueueIncomingStream, AcceptStream, session.go).                      *)
NoStreamDropped ==
    /\ \A k \in Kinds : Missing(k) \in 0 .. 1
    /\ \A j, k \in Kinds : Missing(j) = 1 /\ Missing(k) = 1 => j = k
    /\ \A k \in Kinds :
          Missing(k) = 1 => done \/ (pc[Loop] = "enqueue" /\ newKind = k)

(* The read loop parses at most one capsule after done is closed: it is in *)
(* ParseCapsule when Close comes, and looks at stop before the next one.   *)
OneLateCapsule == late <= 1

(* What makes these inductive: who is in the body of Close, what the body  *)
(* has done where they are, and what a late capsule leaves behind.         *)
Body == {"stop", "datagrams", "log", "done"}

OneInBody ==
    /\ once # "running" => \A a \in Actors : pc[a] \notin Body
    /\ \A a, b \in Actors : pc[a] \in Body /\ pc[b] \in Body => a = b

BodySoFar ==
    /\ done <=> once = "spent"
    /\ done => stop /\ datagramsClosed /\ Len(logged) = 1
    /\ once = "new" => logged = <<>>
    /\ \A a \in Actors :
          /\ pc[a] \in {"stop", "datagrams", "log"} => logged = <<>>
          /\ pc[a] \in {"datagrams", "log", "done"} => stop
          /\ pc[a] \in {"log", "done"} => datagramsClosed
          /\ pc[a] = "done" => Len(logged) = 1

LateIsLast ==
    /\ late \in 0 .. 1
    /\ late = 1 => done /\ pc[Loop] # "parse"

(* A dropped stream is the last: the loop gave up because of done and is   *)
(* in its deferred Close, which has nothing left to do.                    *)
DropIsLast ==
    /\ \A k \in Kinds : Missing(k) \in 0 .. 1
    /\ pc[Loop] = "enqueue" => \A k \in Kinds : Missing(k) = 1 <=> k = newKind
    /\ \A j, k \in Kinds : Missing(j) = 1 /\ Missing(k) = 1 => j = k
    /\ pc[Loop] # "enqueue" /\ (\E k \in Kinds : Missing(k) = 1)
          => done /\ pc[Loop] \in {"close", "ended"}

CloseInv == TypeOK /\ OneInBody /\ BodySoFar /\ LateIsLast /\ DropIsLast

(* The cause of the end, once known, stands: a local and a remote error    *)
(* that race do not replace each other (setCloseErr).                      *)
FirstErrorStands == [][closeErr # "nil" => closeErr' = closeErr]_vars

(* A Close that began ends, closing done, also when several goroutines and *)
(* the read loop are in it; it then releases the read loop waiting for     *)
(* room in a full accept channel, and the goroutines in Accept* ("Close    *)
(* stops session-level delivery", session.go).                             *)
CloseReleasesWaiters ==
    /\ \A a \in Actors : pc[a] = "close" ~> done /\ pc[a] \in {"idle", "ended"}
    /\ (done /\ pc[Loop] = "enqueue") ~> pc[Loop] # "enqueue"
    /\ \A a \in Acceptors : (done /\ accepting[a] # "none") ~> accepting[a] = "none"

(* When the peer ends the CONNECT stream the session ends, unless the read *)
(* loop stays blocked for ever on an accept channel that the application   *)
(* leaves full (readLoop, enqueueIncomingStream).                          *)
PeerEndSeen ==
    wire # "open" ~>
        done \/ [](pc[Loop] = "enqueue" /\ incoming[newKind] = QueueCap)

(* "CloseErr returns a SessionCloseError if the session closed with an     *)
(* application error, otherwise nil (clean close or still open)": a caller *)
(* who asks after Done has the answer (session.go).                        *)
CloseErrFinalAtDone == [][done => closeErr' = closeErr]_vars

=============================================================================
