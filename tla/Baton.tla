-------------------------------- MODULE Baton --------------------------------
(***************************************************************************)
(* Devious Baton (internal/baton): a server and a client pass Count batons *)
(* to and fro over one session, each hop adding one to a byte, until the   *)
(* byte wraps to 0.  Run on each side waits for done; three accept loops   *)
(* start a handler for whatever arrives; handlers send the next message,   *)
(* count finished batons and end the exchange with completeOne and fail.   *)
(*                                                                         *)
(* A message is a baton, how far it went, and the stream it came on as its *)
(* receiver names it.  Padding and encoding are left out: what encodeBaton *)
(* writes decodeBaton accepts.  The session is what Session shows of it:   *)
(* open, closed here with the read loop still in its last capsule, ended.  *)
(***************************************************************************)
EXTENDS Integers, FiniteSets

CONSTANTS
    Start,       \* Config.Baton after setup
    Count,       \* Config.Count
    MaxFaults    \* bound: refused streams and writes, and ended contexts

ASSUME BatonAssumption ==
    /\ Start \in 1 .. 255
    /\ Count \in Nat \ {0}
    /\ MaxFaults \in Nat

Sides  == {"server", "client"}
Batons == 1 .. Count

Peer(s) == IF s = "server" THEN "client" ELSE "server"

VARIABLES
    msgs,        \* sent and not yet taken: [b, hop, kind, to, place]
    calls,       \* per side: goroutines of a handler, and Run's own fail
    run,         \* where Run is
    setupNext,   \* setup's loop counter
    sess,        \* Session: "open", "closing", "ended"
    done, err,   \* batonSession.done is closed; batonSession.err
    active,      \* batonSession.active
    crashed,     \* done was closed twice and the process died
    cancelled,   \* the context given to Run ended
    faults       \* refusals and ended contexts so far

netVars  == <<msgs, sess>>
endVars  == <<done, err, crashed>>
envVars  == <<cancelled, faults>>
runVars  == <<run, setupNext>>
vars == <<netVars, endVars, active, envVars, runVars, calls>>

(* The byte after hop hops: baton + 1 "wraps at 256".                      *)
val(hop) == (Start + hop) % 256

Msg(b, hop, kind, to) ==
    [b |-> b, hop |-> hop, kind |-> kind, to |-> to, place |-> "wire"]

Call(b, hop, kind, pc) == [b |-> b, hop |-> hop, kind |-> kind, pc |-> pc]

Init ==
    /\ msgs = {}
    /\ calls = [s \in Sides |-> {}]
    /\ run = [s \in Sides |-> IF s = "server" THEN "setup" ELSE "wait"]
    /\ setupNext = 1
    /\ sess = [s \in Sides |-> "open"]
    /\ done = [s \in Sides |-> FALSE]
    /\ err = [s \in Sides |-> "nil"]
    /\ active = [s \in Sides |-> Count]
    /\ crashed = [s \in Sides |-> FALSE]
    /\ cancelled = [s \in Sides |-> FALSE]
    /\ faults = 0

Replace(s, c, new) == calls' = [calls EXCEPT ![s] = (@ \ {c}) \cup new]
Goto(s, c, pc)     == Replace(s, c, {[c EXCEPT !.pc = pc]})
Return(s, c)       == Replace(s, c, {})

(* An accept loop has no reason to end: cancel(), when Run stops waiting,  *)
(* and the end of the session give it one.                                 *)
accepting(s) == ~cancelled[s] /\ run[s] \in {"setup", "wait"} /\ sess[s] = "open"

(* Opening a stream fails once the session is stopped; it and a write fail *)
(* for want of credit or because the CONNECT stream is broken.             *)
opensStream(kind)   == kind # "peer"
maySend(s, kind)    == opensStream(kind) => sess[s] = "open"
refused(s)          == /\ faults < MaxFaults \/ sess[s] # "open"
                       /\ faults' = IF sess[s] = "open" THEN faults + 1 ELSE faults

-----------------------------------------------------------------------------
(* Run.                                                                    *)

RunFails(s, kind) == calls' = [calls EXCEPT ![s] = @ \cup {Call(0, 0, kind, "fail")}]

InFail(s) == \E c \in calls[s] : c.kind \in {"setup", "context"}

setup ==
    /\ ~crashed["server"]
    /\ run["server"] = "setup"
    /\ \/ /\ setupNext <= Count
          /\ maySend("server", "uni")
          /\ msgs' = msgs \cup {Msg(setupNext, 0, "uni", "client")}
          /\ setupNext' = setupNext + 1
          /\ UNCHANGED <<run, calls, faults>>
       \/ /\ setupNext <= Count
          /\ refused("server")
          /\ RunFails("server", "setup")
          /\ run' = [run EXCEPT !["server"] = "wait"]
          /\ UNCHANGED <<msgs, setupNext>>
       \/ /\ setupNext > Count
          /\ run' = [run EXCEPT !["server"] = "wait"]
          /\ UNCHANGED <<msgs, setupNext, calls, faults>>
    /\ UNCHANGED <<sess, endVars, active, cancelled>>

(* The select of Run.  After fail(ctx.Err()) done is closed, so coming     *)
(* back to the select is going on.                                         *)
contextEnded(s) ==
    /\ ~crashed[s]
    /\ run[s] = "wait" /\ ~InFail(s)
    /\ cancelled[s] /\ ~done[s]
    /\ RunFails(s, "context")
    /\ UNCHANGED <<netVars, endVars, active, envVars, runVars>>

doneSeen(s) ==
    /\ ~crashed[s]
    /\ run[s] = "wait" /\ ~InFail(s)
    /\ done[s]
    /\ run' = [run EXCEPT ![s] = "drain"]
    /\ UNCHANGED <<netVars, endVars, active, envVars, setupNext, calls>>

(* inflight.Wait, sess.Close, return; the caller of Run then ends this     *)
(* side's half of the CONNECT stream.                                      *)
RunReturns(s) ==
    /\ ~crashed[s]
    /\ run[s] = "drain"
    /\ calls[s] = {}
    /\ run' = [run EXCEPT ![s] = "returned"]
    /\ sess' = [sess EXCEPT ![s] = IF @ = "open" THEN "closing" ELSE @]
    /\ UNCHANGED <<msgs, endVars, active, envVars, setupNext, calls>>

-----------------------------------------------------------------------------
(* The accept loops.                                                       *)

(* acceptBidiLoop, acceptUniLoop.  Accept is a select that may take the    *)
(* stream that is there even when the context or the session has ended; it *)
(* may as well return the error, and a loop that ended accepts no more.    *)
acceptLoop(s, m) ==
    /\ ~crashed[s]
    /\ m \in msgs /\ m.to = s /\ m.place = "here"
    /\ m.kind \in {"uni", "peer"}
    /\ msgs' = msgs \ {m}
    /\ calls' = [calls EXCEPT ![s] = @ \cup {Call(m.b, m.hop, m.kind, "handle")}]
    /\ UNCHANGED <<sess, endVars, active, envVars, runVars>>

(* datagramLoop, from the wire to the handler, which only looks; so when    *)
(* the loop ends makes no difference.                                      *)
datagramLoop(s, m) ==
    /\ ~crashed[s]
    /\ m \in msgs /\ m.to = s /\ m.kind = "datagram"
    /\ sess[s] # "ended"
    /\ msgs' = msgs \ {m}
    /\ calls' = [calls EXCEPT ![s] = @ \cup {Call(m.b, m.hop, m.kind, "handle")}]
    /\ UNCHANGED <<sess, endVars, active, envVars, runVars>>

-----------------------------------------------------------------------------
(* The handlers.                                                           *)

(* handleIncoming on a stream this side opened: ReadAll has the reply.     *)
readReply(s, c) ==
    /\ ~crashed[s]
    /\ c \in calls[s] /\ c.pc = "await"
    /\ \E m \in msgs :
          /\ m.to = s /\ m.place = "here" /\ m.kind = "self"
          /\ m.b = c.b /\ m.hop = c.hop
          /\ msgs' = msgs \ {m}
    /\ Goto(s, c, "handle")
    /\ UNCHANGED <<sess, endVars, active, envVars, runVars>>

(* The datagram that copies some messages; failing to send it is logged.   *)
mirror(s, c) ==
    LET wanted == val(c.hop) % 7 = IF s = "server" THEN 0 ELSE 1
    IN  IF wanted /\ sess[s] = "open"
        THEN {Msg(c.b, c.hop, "datagram", Peer(s))} ELSE {}

(* How the peer names the stream that sendNext uses.                       *)
nextKind(from) ==
    CASE from \in {"uni", "datagram"} -> "peer"
      [] from = "peer" -> "self"
      [] from = "self" -> "uni"

(* Fault: nobody waits for the reply on a stream this side opened.         *)
afterSend_untracked(c, next) ==
    IF val(next) = 0 THEN {[c EXCEPT !.pc = "complete"]} ELSE {}

(* What is left of the handler: completeOne after a 0; on a stream it      *)
(* opened, another handler for the reply.                                  *)
afterSend(c, next) ==
    CASE val(next) = 0 -> {[c EXCEPT !.pc = "complete"]}
      [] val(next) # 0 /\ c.kind \in {"uni", "datagram"} ->
            {Call(c.b, next + 1, "self", "await")}
      [] OTHER -> {}

sendNext(s, c) ==
    LET next == c.hop + 1
    IN  /\ maySend(s, c.kind)
        /\ msgs' = msgs \cup mirror(s, c)
                        \cup {Msg(c.b, next, nextKind(c.kind), Peer(s))}
        /\ Replace(s, c, afterSend(c, next))
        /\ UNCHANGED faults

sendNextFails(s, c) ==
    /\ refused(s)
    /\ msgs' = msgs \cup mirror(s, c)
    /\ Goto(s, c, "fail")

afterReceive(s, c) ==
    \/ /\ val(c.hop) = 0
       /\ msgs' = msgs \cup mirror(s, c)
       /\ Goto(s, c, "complete")
       /\ UNCHANGED faults
    \/ /\ val(c.hop) # 0
       /\ sendNext(s, c) \/ sendNextFails(s, c)

handleIncoming(s, c) ==
    /\ ~crashed[s]
    /\ c \in calls[s] /\ c.pc = "handle" /\ c.kind # "datagram"
    /\ afterReceive(s, c)
    /\ UNCHANGED <<sess, endVars, active, cancelled, runVars>>

(* Fault: a datagram moves the baton on.                                   *)
ignoreDatagram_not(s, c) == afterReceive(s, c)

ignoreDatagram(s, c) == Return(s, c) /\ UNCHANGED <<msgs, faults>>

handleDatagram(s, c) ==
    /\ ~crashed[s]
    /\ c \in calls[s] /\ c.pc = "handle" /\ c.kind = "datagram"
    /\ ignoreDatagram(s, c)
    /\ UNCHANGED <<sess, endVars, active, cancelled, runVars>>

-----------------------------------------------------------------------------
(* The end of the exchange: completeOne, fail and finish.                  *)

(* Fault: the last but one ends the exchange.                              *)
lastOne_early(n) == n <= 1

lastOne(n) == n <= 0

(* The stream of a 0 from the peer is closed at the end: no one reads that. *)
completeOne(s, c) ==
    /\ ~crashed[s]
    /\ c \in calls[s] /\ c.pc = "complete"
    /\ active' = [active EXCEPT ![s] = @ - 1]
    /\ IF lastOne(active[s] - 1) THEN Goto(s, c, "look") ELSE Return(s, c)
    /\ UNCHANGED <<netVars, endVars, envVars, runVars>>

fail(s, c) ==
    /\ ~crashed[s]
    /\ c \in calls[s] /\ c.pc = "fail"
    /\ IF done[s] THEN Return(s, c) ELSE Goto(s, c, "setErr")
    /\ UNCHANGED <<netVars, endVars, active, envVars, runVars>>

(* finish: err under its lock, a look at done, close(done).                *)
finishErr(s, c) ==
    /\ ~crashed[s]
    /\ c \in calls[s] /\ c.pc = "setErr"
    /\ err' = [err EXCEPT ![s] =
                  CASE @ # "nil" -> @
                    [] @ = "nil" /\ c.kind = "context" -> "canceled"
                    [] OTHER -> "error"]
    /\ Goto(s, c, "look")
    /\ UNCHANGED <<netVars, done, crashed, active, envVars, runVars>>

finishLook(s, c) ==
    /\ ~crashed[s]
    /\ c \in calls[s] /\ c.pc = "look"
    /\ IF done[s] THEN Return(s, c) ELSE Goto(s, c, "close")
    /\ UNCHANGED <<netVars, endVars, active, envVars, runVars>>

finishClose(s, c) ==
    /\ ~crashed[s]
    /\ c \in calls[s] /\ c.pc = "close"
    /\ crashed' = [crashed EXCEPT ![s] = done[s]]
    /\ done' = [done EXCEPT ![s] = TRUE]
    /\ Return(s, c)
    /\ UNCHANGED <<netVars, err, active, envVars, runVars>>

-----------------------------------------------------------------------------
(* The session and what is around it.                                      *)

(* The read loop; closed here it still handles the capsule it is in.       *)
deliver(s, m) ==
    /\ ~crashed[s]
    /\ m \in msgs /\ m.to = s /\ m.place = "wire" /\ m.kind # "datagram"
    /\ sess[s] # "ended"
    /\ msgs' = (msgs \ {m}) \cup {[m EXCEPT !.place = "here"]}
    /\ sess' = [sess EXCEPT ![s] = IF @ = "closing" THEN "ended" ELSE @]
    /\ UNCHANGED <<endVars, active, envVars, runVars, calls>>

dropDatagram(s, m) ==
    /\ m \in msgs /\ m.to = s /\ m.kind = "datagram"
    /\ sess[s] # "ended"
    /\ msgs' = msgs \ {m}
    /\ UNCHANGED <<sess, endVars, active, envVars, runVars, calls>>

(* Behind everything the peer sent comes the end of its half.              *)
sessionEnds(s) ==
    /\ ~crashed[s]
    /\ sess[s] # "ended"
    /\ run[Peer(s)] = "returned" \/ crashed[Peer(s)]
    /\ \A m \in msgs : ~(m.to = s /\ m.place = "wire")
    /\ sess' = [sess EXCEPT ![s] = "ended"]
    /\ UNCHANGED <<msgs, endVars, active, envVars, runVars, calls>>

(* The context given to Run ends; later than this it changes nothing.      *)
cancel(s) ==
    /\ ~cancelled[s]
    /\ run[s] \in {"setup", "wait"} /\ ~done[s]
    /\ faults < MaxFaults
    /\ faults' = faults + 1
    /\ cancelled' = [cancelled EXCEPT ![s] = TRUE]
    /\ UNCHANGED <<netVars, endVars, active, runVars, calls>>

Finish(s, c) ==
    \/ completeOne(s, c) \/ fail(s, c)
    \/ finishErr(s, c) \/ finishLook(s, c) \/ finishClose(s, c)

Handler(s, c) ==
    readReply(s, c) \/ handleIncoming(s, c) \/ handleDatagram(s, c) \/ Finish(s, c)

Run(s) == contextEnded(s) \/ doneSeen(s) \/ RunReturns(s)

Next ==
    \/ setup
    \/ \E s \in Sides : Run(s)
    \/ \E s \in Sides, m \in msgs : acceptLoop(s, m)
    \/ \E s \in Sides : \E c \in calls[s] : Handler(s, c)
    \/ \E s \in Sides, m \in msgs : deliver(s, m)
    \/ \E s \in Sides, m \in msgs : datagramLoop(s, m) \/ dropDatagram(s, m)
    \/ \E s \in Sides : sessionEnds(s) \/ cancel(s)

Spec == Init /\ [][Next]_vars

(* Goroutines run, the network delivers, and a loop accepts while it has   *)
(* no reason to end.  Nothing makes a context end or a write fail.         *)
FairSpec ==
    /\ Spec
    /\ WF_vars(setup)
    /\ \A s \in Sides :
          /\ WF_vars(Run(s))
          /\ WF_vars(\E m \in msgs : deliver(s, m))
          /\ WF_vars(\E m \in msgs : accepting(s) /\ acceptLoop(s, m))
          /\ WF_vars(\E c \in calls[s] : Handler(s, c))

-----------------------------------------------------------------------------
(* The properties.                                                         *)

Kinds == {"uni", "peer", "self", "datagram"}

Messages ==
    [b : Batons, hop : Nat, kind : Kinds, to : Sides, place : {"wire", "here"}]

HandlerCalls ==
    [b : Batons, hop : Nat, kind : {"self"}, pc : {"await"}] \cup
    [b : Batons, hop : Nat, kind : Kinds,
     pc : {"handle", "complete", "fail", "setErr", "look", "close"}]

RunCalls ==
    [b : {0}, hop : {0}, kind : {"setup", "context"}, pc : {"fail", "setErr", "look", "close"}]

TypeOK ==
    /\ msgs \subseteq Messages
    /\ calls \in [Sides -> SUBSET (HandlerCalls \cup RunCalls)]
    /\ run \in [Sides -> {"setup", "wait", "drain", "returned"}]
    /\ setupNext \in 1 .. Count + 1
    /\ sess \in [Sides -> {"open", "closing", "ended"}]
    /\ done \in [Sides -> BOOLEAN] /\ crashed \in [Sides -> BOOLEAN]
    /\ err \in [Sides -> {"nil", "error", "canceled"}]
    /\ active \in [Sides -> 0 .. Count]
    /\ cancelled \in [Sides -> BOOLEAN] /\ faults \in 0 .. MaxFaults

(* Who holds a baton: a message that moves it on, or the handler that took *)
(* one and has not sent the next.                                          *)
CarriersAt(b, s) ==
    {m \in msgs : m.b = b /\ m.to = s /\ m.kind # "datagram"}
        \cup {c \in calls[s] : c.b = b /\ c.pc = "handle" /\ c.kind # "datagram"}

Carriers(b) == CarriersAt(b, "server") \cup CarriersAt(b, "client")

WhereIs(b) ==
    LET atClient == CarriersAt(b, "client")
        carriers == CarriersAt(b, "server") \cup atClient
    IN  CASE carriers = {} /\ setupNext <= b -> [place |-> "unsent", hop |-> 0]
          [] carriers = {} /\ setupNext > b  -> [place |-> "gone", hop |-> 0]
          [] Cardinality(carriers) > 1 -> [place |-> "forked", hop |-> 0]
          [] Cardinality(carriers) = 1 ->
                [place |-> IF atClient = {} THEN "server" ELSE "client",
                 hop   |-> (CHOOSE x \in carriers : TRUE).hop]

Ring == INSTANCE BatonRing WITH at <- [b \in Batons |-> WhereIs(b)]

(* Through accept loops, handlers, replies awaited on one's own streams,   *)
(* mirrors and failures each baton goes its way: from the server, to and   *)
(* fro, one hop at a time, from a side that has it, never again after it   *)
(* was gone, and never in two places: "advancing protocol state from       *)
(* [datagrams] would fork the baton chain" (setup, handleIncoming,         *)
(* afterReceive, sendNext, handleDatagram).                                *)
ImplementsRing == Ring!Spec

(* A side that ends its exchange without an error ends it for both: every  *)
(* baton has reached 0, wherever it is (completeOne).                      *)
DoneIsComplete ==
    \A s \in Sides :
        done[s] /\ err[s] = "nil" => setupNext > Count /\
            \A b \in Batons : \A x \in Carriers(b) : val(x.hop) = 0

Disturbed == faults > 0

(* Where no stream or write is refused and no context ends, neither side   *)
(* meets an error: the first side to finish does not pull the session from *)
(* under the other (completeOne, Run).                                     *)
NoSpuriousError == ~Disturbed => \A s \in Sides : err[s] = "nil" /\ ~crashed[s]

(* The exchange comes to an end, at least for the side that finishes       *)
(* first, unless it is disturbed (Run).                                    *)
ExchangeEnds == <>(Disturbed \/ \E s \in Sides : run[s] = "returned")

(* "Stop accepting and wait for in-flight baton handlers to finish writing *)
(* before returning (HTTP/2 panics on Write after the handler returns)"    *)
(* (Run): a side that returned sends nothing.                              *)
NoWriteAfterReturn ==
    [][\A s \in Sides : run[s] = "returned" =>
          \A m \in msgs' \ msgs : m.place = "wire" => m.to = s]_vars

(* "Ignore write failures once the exchange is already done; another baton *)
(* may still be flushing while active has already reached zero" (fail): a  *)
(* failure that comes as the exchange ends does not close done again.      *)
DoneClosedOnce == \A s \in Sides : ~crashed[s]

=============================================================================
