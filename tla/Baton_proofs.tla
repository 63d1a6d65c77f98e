---------------------------- MODULE Baton_proofs ----------------------------
(***************************************************************************)
(* Proofs about Baton, for every first value, number of batons and number  *)
(* of faults.                                                              *)
(***************************************************************************)
EXTENDS Baton, FiniteSetTheorems, TLAPS

-----------------------------------------------------------------------------
(* The inductive invariant.                                                *)

(* A baton has one carrier, on one side, and none before setup sent it.    *)
Alone ==
    \A b \in Batons, s \in Sides :
        /\ \A x, y \in CarriersAt(b, s) : x = y
        /\ CarriersAt(b, s) # {} => CarriersAt(b, Peer(s)) = {} /\ b < setupNext

(* The baton will still come to s, and s will count it...                  *)
Unfinished(s, b) ==
    \/ setupNext <= b
    \/ CarriersAt(b, s) # {}
    \/ \E x \in CarriersAt(b, Peer(s)) : val(x.hop) # 0

(* ... or a handler is about to.                                           *)
Completing(s) == {c \in calls[s] : c.pc = "complete"}

Pending(s, b) == \E c \in Completing(s) : c.b = b

Open(s) == {b \in Batons : Unfinished(s, b) \/ Pending(s, b)}

(* active counts them: no baton twice.                                     *)
CountAt(s) ==
    /\ Cardinality(Open(s)) <= active[s]
    /\ \A b \in Batons : ~(Unfinished(s, b) /\ Pending(s, b))
    /\ \A c, d \in Completing(s) : c.b = d.b => c = d

CountInv == \A s \in Sides : CountAt(s)

Finishing == {"look", "close"}

(* Who goes to finish has an error to report or counted the last baton.    *)
EndInv ==
    \A s \in Sides :
        /\ \A c \in calls[s] : c.pc \in Finishing => err[s] # "nil" \/ active[s] = 0
        /\ done[s] => err[s] # "nil" \/ active[s] = 0
        /\ run[s] \in {"drain", "returned"} => done[s]
        /\ crashed[s] => done[s]

(* Without a fault nobody fails: the session is closed when all is done.   *)
CalmInv ==
    ~Disturbed => \A s \in Sides :
        /\ err[s] = "nil" /\ ~crashed[s] /\ ~cancelled[s]
        /\ \A c \in calls[s] : c.pc \notin {"fail", "setErr"}
        /\ \A c, d \in calls[s] : c.pc \in Finishing /\ d.pc \in Finishing => c = d
        /\ done[s] => \A c \in calls[s] : c.pc \notin Finishing
        /\ sess[s] # "open" => \E t \in Sides : done[t]

BatonInv == TypeOK /\ Alone /\ CountInv /\ EndInv /\ CalmInv

-----------------------------------------------------------------------------
(* What a step is.                                                         *)

LEMMA NextCases ==
    ASSUME [Next]_vars
    PROVE  \/ setup
           \/ \E s \in Sides : contextEnded(s) \/ doneSeen(s) \/ RunReturns(s)
           \/ \E s \in Sides, m \in msgs : acceptLoop(s, m) \/ datagramLoop(s, m)
           \/ \E s \in Sides : \E c \in calls[s] : readReply(s, c)
           \/ \E s \in Sides : \E c \in calls[s] : handleIncoming(s, c)
           \/ \E s \in Sides : \E c \in calls[s] : handleDatagram(s, c)
           \/ \E s \in Sides : \E c \in calls[s] : completeOne(s, c)
           \/ \E s \in Sides : \E c \in calls[s] : fail(s, c)
           \/ \E s \in Sides : \E c \in calls[s] : finishErr(s, c)
           \/ \E s \in Sides : \E c \in calls[s] : finishLook(s, c)
           \/ \E s \in Sides : \E c \in calls[s] : finishClose(s, c)
           \/ \E s \in Sides, m \in msgs : deliver(s, m) \/ dropDatagram(s, m)
           \/ \E s \in Sides : sessionEnds(s) \/ cancel(s)
           \/ UNCHANGED vars
  BY DEF Next, Run, Handler, Finish

(* handleIncoming has three outcomes.                                      *)
LEMMA HandleCases ==
    ASSUME TypeOK, NEW s \in Sides, NEW c \in calls[s], handleIncoming(s, c)
    PROVE  /\ ~crashed[s] /\ c.pc = "handle" /\ c.kind \in {"uni", "peer", "self"}
           /\ c \in HandlerCalls
           /\ UNCHANGED <<sess, endVars, active, cancelled, runVars>>
           /\ \/ /\ val(c.hop) = 0 /\ msgs' = msgs \cup mirror(s, c)
                 /\ Goto(s, c, "complete") /\ UNCHANGED faults
              \/ /\ val(c.hop) # 0 /\ maySend(s, c.kind)
                 /\ msgs' = msgs \cup mirror(s, c)
                                 \cup {Msg(c.b, c.hop + 1, nextKind(c.kind), Peer(s))}
                 /\ Replace(s, c, afterSend(c, c.hop + 1)) /\ UNCHANGED faults
              \/ /\ val(c.hop) # 0 /\ refused(s) /\ msgs' = msgs \cup mirror(s, c)
                 /\ Goto(s, c, "fail")
  <1>1. c \in HandlerCalls \cup RunCalls
    BY DEF TypeOK
  <1>2. c.pc = "handle" /\ c.kind # "datagram"
    BY DEF handleIncoming
  <1>3. c \in HandlerCalls /\ c.kind \in {"uni", "peer", "self"}
    BY <1>1, <1>2 DEF HandlerCalls, RunCalls, Kinds
  <1> QED
    BY <1>2, <1>3 DEF handleIncoming, afterReceive, sendNext, sendNextFails

-----------------------------------------------------------------------------
(* The types.                                                              *)

LEMMA Made ==
    /\ \A b \in Batons, hop \in Nat, kind \in Kinds, to \in Sides :
          /\ Msg(b, hop, kind, to) \in Messages /\ Msg(b, hop, kind, to).b = b
          /\ Msg(b, hop, kind, to).hop = hop /\ Msg(b, hop, kind, to).kind = kind
          /\ Msg(b, hop, kind, to).to = to
    /\ \A b \in Batons, hop \in Nat, kind \in Kinds :
          /\ Call(b, hop, kind, "handle") \in HandlerCalls
          /\ Call(b, hop, kind, "handle").b = b /\ Call(b, hop, kind, "handle").hop = hop
          /\ Call(b, hop, kind, "handle").kind = kind
          /\ Call(b, hop, kind, "handle").pc = "handle"
    /\ \A b \in Batons, hop \in Nat :
          /\ Call(b, hop, "self", "await") \in HandlerCalls
          /\ Call(b, hop, "self", "await").pc = "await"
    /\ \A kind \in {"setup", "context"} :
          Call(0, 0, kind, "fail") \in RunCalls /\ Call(0, 0, kind, "fail").pc = "fail"
  BY DEF Msg, Call, Messages, HandlerCalls, RunCalls, Kinds

(* A message is no call.                                                   *)
LEMMA Disjoint == Messages \cap (HandlerCalls \cup RunCalls) = {}
  <1> SUFFICES ASSUME NEW m \in Messages, NEW c \in HandlerCalls \cup RunCalls, m = c
               PROVE  FALSE
    OBVIOUS
  <1>1. "place" \in DOMAIN m
    BY DEF Messages
  <1>2. "place" \notin DOMAIN c
    BY DEF HandlerCalls, RunCalls
  <1> QED
    BY <1>1, <1>2

(* A call that goes on.                                                    *)
LEMMA Moved ==
    ASSUME NEW c \in HandlerCalls \cup RunCalls
    PROVE  /\ \A pc : /\ [c EXCEPT !.pc = pc].b = c.b /\ [c EXCEPT !.pc = pc].hop = c.hop
                      /\ [c EXCEPT !.pc = pc].kind = c.kind /\ [c EXCEPT !.pc = pc].pc = pc
           /\ c \in HandlerCalls =>
                 \A pc \in {"handle", "complete", "fail", "setErr", "look", "close"} :
                    [c EXCEPT !.pc = pc] \in HandlerCalls
           /\ c \in RunCalls => \A pc \in {"fail", "setErr", "look", "close"} :
                    [c EXCEPT !.pc = pc] \in RunCalls
  BY DEF HandlerCalls, RunCalls, Kinds

LEMMA NextKinds == \A kind \in {"uni", "peer", "self"} :
                      nextKind(kind) \in {"uni", "peer", "self"}
  BY DEF nextKind

LEMMA Peers == \A s \in Sides : /\ Peer(s) \in Sides /\ Peer(s) # s /\ Peer(Peer(s)) = s
                                /\ Sides = {s, Peer(s)}
  BY DEF Sides, Peer

LEMMA Mirrors ==
    ASSUME NEW s \in Sides, NEW c \in HandlerCalls
    PROVE  mirror(s, c) \subseteq Messages /\ \A m \in mirror(s, c) : m.kind = "datagram"
  <1>1. c.b \in Batons /\ c.hop \in Nat /\ Peer(s) \in Sides
    BY Peers DEF HandlerCalls
  <1>2. Msg(c.b, c.hop, "datagram", Peer(s)) \in Messages
    BY <1>1, Made DEF Kinds
  <1>3. Msg(c.b, c.hop, "datagram", Peer(s)).kind = "datagram"
    BY DEF Msg
  <1> QED
    BY <1>2, <1>3 DEF mirror

(* What is left of a handler that sent.                                    *)
LEMMA AfterSend ==
    ASSUME NEW c \in HandlerCalls, c.pc = "handle", NEW next \in Nat
    PROVE  /\ afterSend(c, next) \subseteq HandlerCalls
           /\ IF val(next) = 0 THEN afterSend(c, next) = {[c EXCEPT !.pc = "complete"]}
              ELSE \A d \in afterSend(c, next) : d.pc = "await"
  <1>1. c.b \in Batons
    BY DEF HandlerCalls
  <1>2. [c EXCEPT !.pc = "complete"] \in HandlerCalls
    BY Moved
  <1>3. /\ Call(c.b, next + 1, "self", "await") \in HandlerCalls
        /\ Call(c.b, next + 1, "self", "await").pc = "await"
    BY <1>1, Made
  <1> QED
    BY <1>2, <1>3 DEF afterSend

(* Messages and calls.                                                     *)
LEMMA MsgsKept ==
    ASSUME TypeOK, [Next]_vars
    PROVE  msgs' \subseteq Messages
  <1>1. msgs \subseteq Messages
    BY DEF TypeOK
  <1>2. CASE setup
    <2>1. setupNext \in Nat \ {0} /\ (setupNext <= Count => setupNext \in Batons)
      BY BatonAssumption DEF TypeOK, Batons
    <2>2. setupNext \in Batons => Msg(setupNext, 0, "uni", "client") \in Messages
      BY Made DEF Kinds, Sides
    <2> QED
      BY <1>1, <1>2, <2>1, <2>2 DEF setup
  <1>3. ASSUME NEW s \in Sides, contextEnded(s) \/ doneSeen(s) \/ RunReturns(s)
        PROVE  msgs' = msgs
    BY <1>3 DEF contextEnded, doneSeen, RunReturns, netVars
  <1>4. ASSUME NEW s \in Sides, NEW m \in msgs, acceptLoop(s, m) \/ datagramLoop(s, m)
        PROVE  msgs' \subseteq msgs
    BY <1>4 DEF acceptLoop, datagramLoop
  <1>5. ASSUME NEW s \in Sides, NEW c \in calls[s], readReply(s, c)
        PROVE  msgs' \subseteq msgs
    BY <1>5 DEF readReply
  <1>6. ASSUME NEW s \in Sides, NEW c \in calls[s], handleIncoming(s, c)
        PROVE  msgs' \subseteq Messages
    <2>1. c \in HandlerCalls /\ c.kind \in {"uni", "peer", "self"}
      BY <1>6, HandleCases
    <2>2. mirror(s, c) \subseteq Messages
      BY <2>1, Mirrors
    <2>3. c.b \in Batons /\ c.hop + 1 \in Nat /\ nextKind(c.kind) \in Kinds /\ Peer(s) \in Sides
      BY <2>1, NextKinds, Peers DEF HandlerCalls, Kinds
    <2>4. Msg(c.b, c.hop + 1, nextKind(c.kind), Peer(s)) \in Messages
      BY <2>3, Made
    <2> QED
      BY <1>1, <1>6, <2>2, <2>4, HandleCases
  <1>7. ASSUME NEW s \in Sides, NEW c \in calls[s],
               \/ handleDatagram(s, c) \/ completeOne(s, c) \/ fail(s, c) \/ finishErr(s, c)
               \/ finishLook(s, c) \/ finishClose(s, c)
        PROVE  msgs' = msgs
    BY <1>7 DEF handleDatagram, ignoreDatagram, completeOne, fail, finishErr, finishLook,
                finishClose, netVars
  <1>8. ASSUME NEW s \in Sides, NEW m \in msgs, deliver(s, m) \/ dropDatagram(s, m)
        PROVE  msgs' \subseteq Messages
    <2>1. [m EXCEPT !.place = "here"] \in Messages
      BY <1>1 DEF Messages
    <2> QED
      BY <1>1, <1>8, <2>1 DEF deliver, dropDatagram
  <1>9. ASSUME NEW s \in Sides, sessionEnds(s) \/ cancel(s)
        PROVE  msgs' = msgs
    BY <1>9 DEF sessionEnds, cancel, netVars
  <1>10. CASE UNCHANGED vars
    BY <1>1, <1>10 DEF vars, netVars
  <1> QED
    BY NextCases, <1>1, <1>2, <1>3, <1>4, <1>5, <1>6, <1>7, <1>8, <1>9, <1>10

(* Only the calls of one side change.                                      *)
CallsSet == SUBSET (HandlerCalls \cup RunCalls)

LEMMA Replaced ==
    ASSUME calls \in [Sides -> CallsSet], NEW s \in Sides, NEW gone, NEW new,
           calls' = [calls EXCEPT ![s] = (@ \ gone) \cup new]
    PROVE  /\ calls'[s] = (calls[s] \ gone) \cup new
           /\ calls'[Peer(s)] = calls[Peer(s)]
           /\ new \in CallsSet => calls' \in [Sides -> CallsSet]
  <1>1. s \in DOMAIN calls /\ Peer(s) # s /\ Peer(s) \in DOMAIN calls
    BY Peers
  <1>2. calls'[s] = (calls[s] \ gone) \cup new /\ calls'[Peer(s)] = calls[Peer(s)]
    BY <1>1
  <1>3. new \in CallsSet => (calls[s] \ gone) \cup new \in CallsSet
    BY DEF CallsSet
  <1> QED
    BY <1>2, <1>3

LEMMA CallsTyped == ASSUME TypeOK PROVE calls \in [Sides -> CallsSet]
  BY DEF TypeOK, CallsSet

(* Run adds a call of its own, and a message that is taken one of a        *)
(* handler.                                                                *)
LEMMA Started ==
    ASSUME TypeOK, NEW s \in Sides, NEW d \in HandlerCalls \cup RunCalls,
           calls' = [calls EXCEPT ![s] = @ \cup {d}]
    PROVE  /\ calls'[s] = calls[s] \cup {d} /\ calls'[Peer(s)] = calls[Peer(s)]
           /\ calls' \in [Sides -> CallsSet]
  <1>1. calls \in [Sides -> CallsSet]
    BY CallsTyped
  <1>2. calls' = [calls EXCEPT ![s] = (@ \ {}) \cup {d}]
    BY <1>1
  <1>3. {d} \in CallsSet
    BY DEF CallsSet
  <1>4. /\ calls'[s] = (calls[s] \ {}) \cup {d} /\ calls'[Peer(s)] = calls[Peer(s)]
        /\ calls' \in [Sides -> CallsSet]
    BY <1>1, <1>2, <1>3, Replaced
  <1> QED
    BY <1>4

LEMMA Went ==
    ASSUME TypeOK, NEW s \in Sides, NEW c \in calls[s], NEW pc, Goto(s, c, pc),
           \/ pc \in {"fail", "setErr", "look", "close"}
           \/ c \in HandlerCalls /\ pc \in {"handle", "complete"}
    PROVE  /\ calls'[s] = (calls[s] \ {c}) \cup {[c EXCEPT !.pc = pc]}
           /\ calls'[Peer(s)] = calls[Peer(s)]
           /\ calls' \in [Sides -> CallsSet]
           /\ LET d == [c EXCEPT !.pc = pc]
              IN  d.b = c.b /\ d.hop = c.hop /\ d.kind = c.kind /\ d.pc = pc
  <1>1. calls \in [Sides -> CallsSet] /\ c \in HandlerCalls \cup RunCalls
    BY CallsTyped DEF TypeOK
  <1> DEFINE d == [c EXCEPT !.pc = pc]
  <1>2. d \in HandlerCalls \cup RunCalls
    BY <1>1, Moved
  <1>3. d.b = c.b /\ d.hop = c.hop /\ d.kind = c.kind /\ d.pc = pc
    BY <1>1, Moved
  <1>4. calls' = [calls EXCEPT ![s] = (@ \ {c}) \cup {d}]
    BY DEF Goto, Replace
  <1> HIDE DEF d
  <1>5. {d} \in CallsSet
    BY <1>2 DEF CallsSet
  <1>6. /\ calls'[s] = (calls[s] \ {c}) \cup {d} /\ calls'[Peer(s)] = calls[Peer(s)]
        /\ calls' \in [Sides -> CallsSet]
    BY <1>1, <1>4, <1>5, Replaced
  <1> QED
    BY <1>3, <1>6 DEF d

LEMMA Ended ==
    ASSUME TypeOK, NEW s \in Sides, NEW c \in calls[s], Return(s, c)
    PROVE  /\ calls'[s] = calls[s] \ {c} /\ calls'[Peer(s)] = calls[Peer(s)]
           /\ calls' \in [Sides -> CallsSet]
  <1>1. calls \in [Sides -> CallsSet] /\ {} \in CallsSet
    BY CallsTyped DEF CallsSet
  <1>2. calls' = [calls EXCEPT ![s] = (@ \ {c}) \cup {}]
    BY DEF Return, Replace
  <1>3. calls'[s] = (calls[s] \ {c}) \cup {}
    BY <1>1, <1>2, Replaced
  <1> QED
    BY <1>1, <1>2, <1>3, Replaced

(* Which calls each step touches.                                          *)
LEMMA CallsTaken ==
    ASSUME TypeOK, NEW s \in Sides, NEW m \in msgs, acceptLoop(s, m) \/ datagramLoop(s, m)
    PROVE  LET d == Call(m.b, m.hop, m.kind, "handle")
           IN  /\ calls'[s] = calls[s] \cup {d} /\ calls'[Peer(s)] = calls[Peer(s)]
               /\ calls' \in [Sides -> CallsSet]
               /\ d.b = m.b /\ d.hop = m.hop /\ d.kind = m.kind /\ d.pc = "handle"
  <1> DEFINE d == Call(m.b, m.hop, m.kind, "handle")
  <1>1. m.b \in Batons /\ m.hop \in Nat /\ m.kind \in Kinds
    BY DEF TypeOK, Messages
  <1>2. /\ d \in HandlerCalls
        /\ d.b = m.b /\ d.hop = m.hop /\ d.kind = m.kind /\ d.pc = "handle"
    BY <1>1, Made
  <1>3. calls' = [calls EXCEPT ![s] = @ \cup {d}]
    BY DEF acceptLoop, datagramLoop
  <1> HIDE DEF d
  <1>4. /\ calls'[s] = calls[s] \cup {d} /\ calls'[Peer(s)] = calls[Peer(s)]
        /\ calls' \in [Sides -> CallsSet]
    BY <1>2, <1>3, Started
  <1> QED
    BY <1>2, <1>4 DEF d

LEMMA CallsFailed ==
    ASSUME TypeOK, NEW s \in Sides, NEW kind \in {"setup", "context"}, RunFails(s, kind)
    PROVE  LET d == Call(0, 0, kind, "fail")
           IN  /\ calls'[s] = calls[s] \cup {d} /\ calls'[Peer(s)] = calls[Peer(s)]
               /\ calls' \in [Sides -> CallsSet]
               /\ d.pc = "fail"
  <1> DEFINE d == Call(0, 0, kind, "fail")
  <1>1. d \in RunCalls /\ d.pc = "fail"
    BY Made
  <1>2. calls' = [calls EXCEPT ![s] = @ \cup {d}]
    BY DEF RunFails
  <1> HIDE DEF d
  <1>3. /\ calls'[s] = calls[s] \cup {d} /\ calls'[Peer(s)] = calls[Peer(s)]
        /\ calls' \in [Sides -> CallsSet]
    BY <1>1, <1>2, Started
  <1> QED
    BY <1>1, <1>3 DEF d

LEMMA CallsSent ==
    ASSUME TypeOK, NEW s \in Sides, NEW c \in calls[s], c \in HandlerCalls, c.pc = "handle",
           Replace(s, c, afterSend(c, c.hop + 1))
    PROVE  /\ calls'[s] = (calls[s] \ {c}) \cup afterSend(c, c.hop + 1)
           /\ calls'[Peer(s)] = calls[Peer(s)]
           /\ calls' \in [Sides -> CallsSet]
           /\ c.b \in Batons /\ c.hop + 1 \in Nat
  <1>1. calls \in [Sides -> CallsSet] /\ c.b \in Batons /\ c.hop + 1 \in Nat
    BY CallsTyped DEF HandlerCalls
  <1>2. afterSend(c, c.hop + 1) \in CallsSet
    BY <1>1, AfterSend DEF CallsSet
  <1>3. calls' = [calls EXCEPT ![s] = (@ \ {c}) \cup afterSend(c, c.hop + 1)]
    BY DEF Replace
  <1> QED
    BY <1>1, <1>2, <1>3, Replaced

LEMMA CallsKept ==
    ASSUME TypeOK, [Next]_vars
    PROVE  calls' \in [Sides -> CallsSet]
  <1>1. calls \in [Sides -> CallsSet] /\ \A s \in Sides : calls[s] \in CallsSet
    BY CallsTyped
  <1>2. CASE setup
    <2>1. calls' = calls \/ RunFails("server", "setup")
      BY <1>2 DEF setup
    <2> QED
      BY <1>1, <2>1, CallsFailed DEF Sides
  <1>3. ASSUME NEW s \in Sides, contextEnded(s) \/ doneSeen(s) \/ RunReturns(s)
        PROVE  calls' \in [Sides -> CallsSet]
    <2>1. calls' = calls \/ RunFails(s, "context")
      BY <1>3 DEF contextEnded, doneSeen, RunReturns
    <2> QED
      BY <1>1, <2>1, CallsFailed
  <1>4. ASSUME NEW s \in Sides, NEW m \in msgs, acceptLoop(s, m) \/ datagramLoop(s, m)
        PROVE  calls' \in [Sides -> CallsSet]
    BY <1>4, CallsTaken
  <1>5. ASSUME NEW s \in Sides, NEW c \in calls[s], readReply(s, c)
        PROVE  calls' \in [Sides -> CallsSet]
    <2>1. c \in HandlerCalls /\ Goto(s, c, "handle")
      BY <1>1, <1>5 DEF readReply, CallsSet, RunCalls
    <2> QED
      BY <2>1, Went
  <1>6. ASSUME NEW s \in Sides, NEW c \in calls[s], handleIncoming(s, c)
        PROVE  calls' \in [Sides -> CallsSet]
    <2>1. c \in HandlerCalls /\ c.pc = "handle"
      BY <1>6, HandleCases
    <2>2. \/ Goto(s, c, "complete") \/ Goto(s, c, "fail")
          \/ Replace(s, c, afterSend(c, c.hop + 1))
      BY <1>6, HandleCases
    <2> QED
      BY <2>1, <2>2, Went, CallsSent
  <1>7. ASSUME NEW s \in Sides, NEW c \in calls[s],
               \/ handleDatagram(s, c) \/ completeOne(s, c) \/ fail(s, c) \/ finishErr(s, c)
               \/ finishLook(s, c) \/ finishClose(s, c)
        PROVE  calls' \in [Sides -> CallsSet]
    <2>1. \/ Return(s, c)
          \/ \E pc \in {"setErr", "look", "close"} : Goto(s, c, pc)
      BY <1>7 DEF handleDatagram, ignoreDatagram, completeOne, fail, finishErr, finishLook,
                  finishClose
    <2> QED
      BY <2>1, Went, Ended
  <1>8. ASSUME NEW s \in Sides, NEW m \in msgs, deliver(s, m) \/ dropDatagram(s, m)
        PROVE  calls' = calls
    BY <1>8 DEF deliver, dropDatagram
  <1>9. ASSUME NEW s \in Sides, sessionEnds(s) \/ cancel(s)
        PROVE  calls' = calls
    BY <1>9 DEF sessionEnds, cancel
  <1>10. CASE UNCHANGED vars
    BY <1>1, <1>10 DEF vars
  <1> QED
    BY NextCases, <1>1, <1>2, <1>3, <1>4, <1>5, <1>6, <1>7, <1>8, <1>9, <1>10

(* What is open is finite, and to count one there must be one.             *)
LEMMA OpenFinite ==
    ASSUME NEW s
    PROVE  IsFiniteSet(Open(s)) /\ Cardinality(Open(s)) \in Nat
  <1>1. IsFiniteSet(Batons)
    BY BatonAssumption, FS_Interval DEF Batons
  <1>2. Open(s) \subseteq Batons
    BY DEF Open
  <1> QED
    BY <1>1, <1>2, FS_Subset, FS_CardinalityType

LEMMA SomeLeft ==
    ASSUME TypeOK, CountInv, NEW s \in Sides, NEW c \in Completing(s)
    PROVE  /\ active[s] \in 1 .. Count
           /\ c \in HandlerCalls /\ c.b \in Batons /\ c.b \in Open(s)
  <1>1. c \in calls[s] /\ c.pc = "complete"
    BY DEF Completing
  <1>2. c \in HandlerCalls /\ c.b \in Batons
    BY <1>1 DEF TypeOK, HandlerCalls, RunCalls
  <1>3. c.b \in Open(s)
    BY <1>2 DEF Open, Pending
  <1>4. IsFiniteSet(Open(s)) /\ Cardinality(Open(s)) \in Nat
    BY OpenFinite
  <1>5. Cardinality(Open(s)) # 0
    BY <1>3, <1>4, FS_EmptySet
  <1>6. active[s] \in 0 .. Count /\ Cardinality(Open(s)) <= active[s]
    BY DEF TypeOK, CountInv, CountAt
  <1> QED
    BY <1>2, <1>3, <1>4, <1>5, <1>6, BatonAssumption

LEMMA Refused ==
    ASSUME TypeOK, NEW s \in Sides, refused(s)
    PROVE  faults' \in 0 .. MaxFaults
  BY BatonAssumption DEF TypeOK, refused

(* The variables that are neither messages nor calls.                      *)
RestTypes ==
    /\ run \in [Sides -> {"setup", "wait", "drain", "returned"}]
    /\ setupNext \in 1 .. Count + 1
    /\ sess \in [Sides -> {"open", "closing", "ended"}]
    /\ done \in [Sides -> BOOLEAN] /\ crashed \in [Sides -> BOOLEAN]
    /\ err \in [Sides -> {"nil", "error", "canceled"}]
    /\ active \in [Sides -> 0 .. Count]
    /\ cancelled \in [Sides -> BOOLEAN] /\ faults \in 0 .. MaxFaults

LEMMA TypeParts == TypeOK <=> msgs \subseteq Messages /\ calls \in [Sides -> CallsSet] /\ RestTypes
  BY DEF TypeOK, CallsSet, RestTypes

LEMMA RestKept ==
    ASSUME TypeOK, CountInv, [Next]_vars
    PROVE  RestTypes'
  <1>1. RestTypes
    BY TypeParts
  <1>2. CASE setup
    <2>1. UNCHANGED <<sess, done, err, crashed, active, cancelled>>
      BY <1>2 DEF setup, endVars
    <2>2. run' \in [Sides -> {"setup", "wait", "drain", "returned"}]
      BY <1>1, <1>2 DEF setup, RestTypes
    <2>3. setupNext' \in 1 .. Count + 1
      BY <1>1, <1>2, BatonAssumption DEF setup, RestTypes
    <2>4. faults' \in 0 .. MaxFaults
      <3>1. faults' = faults \/ refused("server")
        BY <1>2 DEF setup
      <3> QED
        BY <1>1, <3>1, Refused DEF RestTypes, Sides
    <2> QED
      BY <1>1, <2>1, <2>2, <2>3, <2>4 DEF RestTypes
  <1>3. ASSUME NEW s \in Sides, contextEnded(s) \/ doneSeen(s) \/ RunReturns(s)
        PROVE  RestTypes'
    BY <1>1, <1>3 DEF contextEnded, doneSeen, RunReturns, RestTypes, netVars, endVars, envVars,
                      runVars
  <1>4. ASSUME NEW s \in Sides, NEW m \in msgs, acceptLoop(s, m) \/ datagramLoop(s, m)
        PROVE  RestTypes'
    BY <1>1, <1>4 DEF acceptLoop, datagramLoop, RestTypes, endVars, envVars, runVars
  <1>5. ASSUME NEW s \in Sides, NEW c \in calls[s], readReply(s, c)
        PROVE  RestTypes'
    BY <1>1, <1>5 DEF readReply, RestTypes, endVars, envVars, runVars
  <1>6. ASSUME NEW s \in Sides, NEW c \in calls[s], handleIncoming(s, c)
        PROVE  RestTypes'
    <2>1. UNCHANGED <<sess, endVars, active, cancelled, runVars>>
      BY <1>6, HandleCases
    <2>2. faults' = faults \/ refused(s)
      BY <1>6, HandleCases
    <2>3. faults' \in 0 .. MaxFaults
      BY <1>1, <2>2, Refused DEF RestTypes
    <2> QED
      BY <1>1, <2>1, <2>3 DEF RestTypes, endVars, runVars
  <1>7. ASSUME NEW s \in Sides, NEW c \in calls[s], completeOne(s, c)
        PROVE  RestTypes'
    <2>1. active[s] \in 1 .. Count
      BY <1>7, SomeLeft DEF completeOne, Completing
    <2>2. active[s] - 1 \in 0 .. Count
      BY <2>1, BatonAssumption
    <2>3. active' \in [Sides -> 0 .. Count]
      BY <1>1, <1>7, <2>2 DEF completeOne, RestTypes
    <2> QED
      BY <1>1, <1>7, <2>3 DEF completeOne, RestTypes, netVars, endVars, envVars, runVars
  <1>8. ASSUME NEW s \in Sides, NEW c \in calls[s],
               \/ handleDatagram(s, c) \/ fail(s, c) \/ finishLook(s, c)
        PROVE  RestTypes'
    BY <1>1, <1>8 DEF handleDatagram, ignoreDatagram, fail, finishLook, RestTypes, netVars,
                      endVars, envVars, runVars
  <1>9. ASSUME NEW s \in Sides, NEW c \in calls[s], finishErr(s, c) \/ finishClose(s, c)
        PROVE  RestTypes'
    BY <1>1, <1>9 DEF finishErr, finishClose, RestTypes, netVars, envVars, runVars
  <1>10. ASSUME NEW s \in Sides, NEW m \in msgs, deliver(s, m) \/ dropDatagram(s, m)
         PROVE  RestTypes'
    BY <1>1, <1>10 DEF deliver, dropDatagram, RestTypes, endVars, envVars, runVars
  <1>11. ASSUME NEW s \in Sides, sessionEnds(s) \/ cancel(s)
         PROVE  RestTypes'
    <2>1. CASE sessionEnds(s)
      BY <1>1, <2>1 DEF sessionEnds, RestTypes, endVars, envVars, runVars
    <2>2. CASE cancel(s)
      <3>1. faults' \in 0 .. MaxFaults
        BY <1>1, <2>2, BatonAssumption DEF cancel, RestTypes
      <3>2. cancelled' \in [Sides -> BOOLEAN]
        BY <1>1, <2>2 DEF cancel, RestTypes
      <3> QED
        BY <1>1, <2>2, <3>1, <3>2 DEF cancel, RestTypes, netVars, endVars, runVars
    <2> QED
      BY <1>11, <2>1, <2>2
  <1>12. CASE UNCHANGED vars
    BY <1>1, <1>12 DEF vars, RestTypes, netVars, endVars, envVars, runVars
  <1> QED
    BY NextCases, <1>2, <1>3, <1>4, <1>5, <1>6, <1>7, <1>8, <1>9, <1>10, <1>11, <1>12

LEMMA TypeKept ==
    ASSUME TypeOK, CountInv, [Next]_vars
    PROVE  TypeOK'
  <1>1. msgs' \subseteq Messages /\ calls' \in [Sides -> CallsSet] /\ RestTypes'
    BY MsgsKept, CallsKept, RestKept
  <1> QED
    BY <1>1 DEF TypeOK, CallsSet, RestTypes

-----------------------------------------------------------------------------
(* What a step does to the batons.                                         *)

Still == \A b \in Batons, s \in Sides : CarriersAt(b, s)' = CarriersAt(b, s)

Elsewhere(b0) ==
    \A b \in Batons \ {b0}, s \in Sides : CarriersAt(b, s)' = CarriersAt(b, s)

(* Another carrier on the same side, after the same hops.                  *)
Kept(b, s) ==
    /\ Elsewhere(b) /\ CarriersAt(b, Peer(s))' = {}
    /\ \E x \in CarriersAt(b, s) : \E y : CarriersAt(b, s)' = {y} /\ y.hop = x.hop

Dropped(b, s) ==
    /\ Elsewhere(b) /\ CarriersAt(b, s) # {}
    /\ CarriersAt(b, s)' = {} /\ CarriersAt(b, Peer(s))' = {}

(* One hop, by a message that is 0 or not.                                 *)
Passed(b, s, zero) ==
    /\ Elsewhere(b) /\ CarriersAt(b, s)' = {}
    /\ \E x \in CarriersAt(b, s) : \E y :
          /\ val(x.hop) # 0 /\ y.hop = x.hop + 1 /\ (zero <=> val(y.hop) = 0)
          /\ CarriersAt(b, Peer(s))' = {y}

Played(b) ==
    /\ b = setupNext /\ Elsewhere(b) /\ setupNext' = b + 1
    /\ CarriersAt(b, "server")' = {}
    /\ \E y : y.hop = 0 /\ CarriersAt(b, "client")' = {y}

SameCompleting == \A s \in Sides : Completing(s)' = Completing(s)

(* The handler of b at s goes to completeOne.                              *)
Completes(b, s) ==
    /\ Completing(Peer(s))' = Completing(Peer(s))
    /\ \E d : d.b = b /\ Completing(s)' = Completing(s) \cup {d}

Counts(s) ==
    /\ active' = [active EXCEPT ![s] = @ - 1]
    /\ Completing(Peer(s))' = Completing(Peer(s))
    /\ \E c \in Completing(s) : Completing(s)' = Completing(s) \ {c}

Effects ==
    \/ Still /\ SameCompleting /\ UNCHANGED <<setupNext, active>>
    \/ (\E b \in Batons : Played(b)) /\ SameCompleting /\ UNCHANGED active
    \/ /\ UNCHANGED <<setupNext, active>>
       /\ \E b \in Batons, s \in Sides :
             \/ Kept(b, s) /\ SameCompleting
             \/ Dropped(b, s) /\ (SameCompleting \/ Completes(b, s))
             \/ Passed(b, s, FALSE) /\ SameCompleting
             \/ Passed(b, s, TRUE) /\ Completes(b, s)
    \/ Still /\ UNCHANGED setupNext /\ \E s \in Sides : Counts(s)

(* Who carries a baton.                                                    *)
CarriesMsg(m, b, s) == m.b = b /\ m.to = s /\ m.kind # "datagram"

CarriesCall(c, b) == c.b = b /\ c.pc = "handle" /\ c.kind # "datagram"

LEMMA CarrierParts ==
    \A b, s : CarriersAt(b, s) = {m \in msgs : CarriesMsg(m, b, s)}
                                    \cup {c \in calls[s] : CarriesCall(c, b)}
  BY DEF CarriersAt, CarriesMsg, CarriesCall

LEMMA CarrierParts2 ==
    \A b, s : CarriersAt(b, s)' = {m \in msgs' : CarriesMsg(m, b, s)}
                                    \cup {c \in calls'[s] : CarriesCall(c, b)}
  BY DEF CarriersAt, CarriesMsg, CarriesCall

(* Nothing that carries comes or goes.                                     *)
LEMMA StillWhen ==
    ASSUME \A b \in Batons, s \in Sides :
              /\ \A m : CarriesMsg(m, b, s) => (m \in msgs' <=> m \in msgs)
              /\ \A c : CarriesCall(c, b) => (c \in calls'[s] <=> c \in calls[s])
    PROVE  Still
  <1> SUFFICES ASSUME NEW b \in Batons, NEW s \in Sides
               PROVE  CarriersAt(b, s)' = CarriersAt(b, s)
    BY DEF Still
  <1>1. {m \in msgs' : CarriesMsg(m, b, s)} = {m \in msgs : CarriesMsg(m, b, s)}
    OBVIOUS
  <1>2. {c \in calls'[s] : CarriesCall(c, b)} = {c \in calls[s] : CarriesCall(c, b)}
    OBVIOUS
  <1> QED
    BY <1>1, <1>2, CarrierParts, CarrierParts2

LEMMA StillUnchanged ==
    ASSUME UNCHANGED <<msgs, calls>>
    PROVE  Still /\ SameCompleting
  BY DEF Still, SameCompleting, CarriersAt, Completing

(* The calls of one side change, and none that carries does; none that     *)
(* completes.                                                              *)
LEMMA StillAt ==
    ASSUME NEW s \in Sides, calls'[Peer(s)] = calls[Peer(s)], NEW gone, NEW new,
           calls'[s] = (calls[s] \ gone) \cup new,
           \A c \in gone \cup new : c.pc # "handle" \/ c.kind = "datagram",
           \A m : m.kind # "datagram" => (m \in msgs' <=> m \in msgs)
    PROVE  /\ Still
           /\ (\A c \in gone \cup new : c.pc # "complete") => SameCompleting
  <1>1. Sides = {s, Peer(s)}
    BY Peers
  <1>2. ASSUME NEW b \in Batons, NEW t \in Sides
        PROVE  /\ \A m : CarriesMsg(m, b, t) => (m \in msgs' <=> m \in msgs)
               /\ \A c : CarriesCall(c, b) => (c \in calls'[t] <=> c \in calls[t])
    <2>1. CASE t = s
      BY <2>1 DEF CarriesMsg, CarriesCall
    <2>2. CASE t = Peer(s)
      BY <2>2 DEF CarriesMsg, CarriesCall
    <2> QED
      BY <1>1, <2>1, <2>2
  <1>3. ASSUME \A c \in gone \cup new : c.pc # "complete", NEW t \in Sides
        PROVE  Completing(t)' = Completing(t)
    <2>1. CASE t = s
      BY <1>3, <2>1 DEF Completing
    <2>2. CASE t = Peer(s)
      BY <2>2 DEF Completing
    <2> QED
      BY <1>1, <2>1, <2>2
  <1> QED
    BY <1>2, <1>3, StillWhen DEF SameCompleting

(* One carrier of b goes and another comes.                                *)
LEMMA ElsewhereWhen ==
    ASSUME NEW b0,
           \A b \in Batons \ {b0}, s \in Sides :
              /\ \A m : CarriesMsg(m, b, s) => (m \in msgs' <=> m \in msgs)
              /\ \A c : CarriesCall(c, b) => (c \in calls'[s] <=> c \in calls[s])
    PROVE  Elsewhere(b0)
  <1> SUFFICES ASSUME NEW b \in Batons \ {b0}, NEW s \in Sides
               PROVE  CarriersAt(b, s)' = CarriersAt(b, s)
    BY DEF Elsewhere
  <1>1. {m \in msgs' : CarriesMsg(m, b, s)} = {m \in msgs : CarriesMsg(m, b, s)}
    OBVIOUS
  <1>2. {c \in calls'[s] : CarriesCall(c, b)} = {c \in calls[s] : CarriesCall(c, b)}
    OBVIOUS
  <1> QED
    BY <1>1, <1>2, CarrierParts, CarrierParts2

LEMMA Exchange ==
    ASSUME Alone, NEW b \in Batons, NEW s \in Sides, NEW x \in CarriersAt(b, s), NEW N, NEW C,
           x.b = b,
           \A m : m.kind # "datagram" =>
                     (m \in msgs' <=> (m \in msgs /\ m # x) \/ m \in N),
           \A c : c.pc = "handle" /\ c.kind # "datagram" =>
                     (c \in calls'[s] <=> (c \in calls[s] /\ c # x) \/ c \in C),
           calls'[Peer(s)] = calls[Peer(s)],
           \A m \in N : m.b = b /\ m.kind # "datagram",
           \A c \in C : CarriesCall(c, b)
    PROVE  /\ Elsewhere(b)
           /\ CarriersAt(b, s)' = {m \in N : m.to = s} \cup C
           /\ CarriersAt(b, Peer(s))' = {m \in N : m.to = Peer(s)}
  <1>1. Sides = {s, Peer(s)}
    BY Peers
  <1>2. \A y \in CarriersAt(b, s) : y = x
    BY DEF Alone
  <1>3. CarriersAt(b, Peer(s)) = {}
    BY DEF Alone
  <1>4. ASSUME NEW b1 \in Batons \ {b}, NEW t \in Sides
        PROVE  /\ \A m : CarriesMsg(m, b1, t) => (m \in msgs' <=> m \in msgs)
               /\ \A c : CarriesCall(c, b1) => (c \in calls'[t] <=> c \in calls[t])
    <2>1. \A m : CarriesMsg(m, b1, t) => (m \in msgs' <=> m \in msgs)
      BY DEF CarriesMsg
    <2>2. CASE t = s
      BY <2>1, <2>2 DEF CarriesCall
    <2>3. CASE t = Peer(s)
      BY <2>1, <2>3
    <2> QED
      BY <1>1, <2>2, <2>3
  <1>5. Elsewhere(b)
    BY <1>4, ElsewhereWhen
  <1>6. \A y : y \in CarriersAt(b, s)' <=> y \in {m \in N : m.to = s} \cup C
    <2>1. \A m : CarriesMsg(m, b, s) => (m \in msgs' <=> m \in N)
      <3>1. \A m \in msgs : CarriesMsg(m, b, s) => m = x
        BY <1>2, CarrierParts
      <3> QED
        BY <3>1 DEF CarriesMsg
    <2>2. \A c : CarriesCall(c, b) => (c \in calls'[s] <=> c \in C)
      <3>1. \A c \in calls[s] : CarriesCall(c, b) => c = x
        BY <1>2, CarrierParts
      <3> QED
        BY <3>1 DEF CarriesCall
    <2>3. \A m \in N : CarriesMsg(m, b, s) <=> m.to = s
      BY DEF CarriesMsg
    <2>4. \A y : y \in CarriersAt(b, s)' <=> \/ y \in msgs' /\ CarriesMsg(y, b, s)
                                             \/ y \in calls'[s] /\ CarriesCall(y, b)
      BY CarrierParts2
    <2> QED
      BY <2>1, <2>2, <2>3, <2>4
  <1>7. \A y : y \in CarriersAt(b, Peer(s))' <=> y \in {m \in N : m.to = Peer(s)}
    <2>1. \A m \in msgs : ~CarriesMsg(m, b, Peer(s))
      BY <1>3, CarrierParts
    <2>2. \A c \in calls[Peer(s)] : ~CarriesCall(c, b)
      BY <1>3, CarrierParts
    <2>3. \A m : CarriesMsg(m, b, Peer(s)) => (m \in msgs' <=> m \in N)
      BY <2>1 DEF CarriesMsg
    <2>4. \A m \in N : CarriesMsg(m, b, Peer(s)) <=> m.to = Peer(s)
      BY DEF CarriesMsg
    <2>5. \A y : y \in CarriersAt(b, Peer(s))' <=>
             \/ y \in msgs' /\ CarriesMsg(y, b, Peer(s))
             \/ y \in calls'[Peer(s)] /\ CarriesCall(y, b)
      BY CarrierParts2
    <2> QED
      BY <2>2, <2>3, <2>4, <2>5
  <1> QED
    BY <1>5, <1>6, <1>7

(* A message that carries, and a handler.                                  *)
LEMMA MsgCarries ==
    ASSUME TypeOK, NEW s \in Sides, NEW m \in msgs, m.to = s, m.kind # "datagram"
    PROVE  /\ m \in CarriersAt(m.b, s) /\ m.b \in Batons /\ m.hop \in Nat /\ m \in Messages
           /\ \A t \in Sides : m \notin calls[t]
  <1>1. m \in Messages /\ m.b \in Batons /\ m.hop \in Nat
    BY DEF TypeOK, Messages
  <1>2. \A t \in Sides : calls[t] \subseteq HandlerCalls \cup RunCalls
    BY DEF TypeOK
  <1> QED
    BY <1>1, <1>2, Disjoint DEF CarriersAt

LEMMA CallCarries ==
    ASSUME TypeOK, NEW s \in Sides, NEW c \in calls[s], c.pc = "handle", c.kind # "datagram"
    PROVE  /\ c \in CarriersAt(c.b, s) /\ c.b \in Batons /\ c.hop \in Nat
           /\ c \in HandlerCalls /\ c \notin msgs
  <1>1. c \in HandlerCalls /\ c.b \in Batons /\ c.hop \in Nat
    BY DEF TypeOK, HandlerCalls, RunCalls
  <1> QED
    BY <1>1, Disjoint DEF CarriersAt, TypeOK

LEMMA SameCompletingWhen ==
    ASSUME NEW s \in Sides, calls'[Peer(s)] = calls[Peer(s)],
           \A c : c.pc = "complete" => (c \in calls'[s] <=> c \in calls[s])
    PROVE  SameCompleting
  <1>1. Sides = {s, Peer(s)}
    BY Peers
  <1>2. Completing(s)' = Completing(s) /\ Completing(Peer(s))' = Completing(Peer(s))
    BY DEF Completing
  <1> QED
    BY <1>1, <1>2 DEF SameCompleting

LEMMA SetupEffects ==
    ASSUME TypeOK, Alone, setup
    PROVE  Effects
  <1>1. active' = active
    BY DEF setup
  <1>2. CASE /\ setupNext <= Count /\ setupNext' = setupNext + 1 /\ UNCHANGED calls
             /\ msgs' = msgs \cup {Msg(setupNext, 0, "uni", "client")}
    <2>1. PICK b \in Batons : b = setupNext
      BY <1>2 DEF TypeOK, Batons
    <2> DEFINE m == Msg(b, 0, "uni", "client")
    <2>2. m.b = b /\ m.hop = 0 /\ m.kind = "uni" /\ m.to = "client"
      BY DEF Msg
    <2>3. msgs' = msgs \cup {m} /\ setupNext' = b + 1 /\ calls' = calls
      BY <1>2, <2>1
    <2>4. \A s \in Sides : CarriersAt(b, s) = {}
      BY <2>1 DEF Alone, TypeOK
    <2> HIDE DEF m
    <2>5. Elsewhere(b)
      BY <2>2, <2>3, ElsewhereWhen DEF CarriesMsg
    <2>6. \A s \in Sides : \A y :
             y \in CarriersAt(b, s)' <=> y \in CarriersAt(b, s) \/ (y = m /\ s = "client")
      <3> SUFFICES ASSUME NEW s \in Sides, NEW y
                   PROVE  y \in CarriersAt(b, s)' <=>
                             y \in CarriersAt(b, s) \/ (y = m /\ s = "client")
        OBVIOUS
      <3>1. CarriesMsg(m, b, s) <=> s = "client"
        BY <2>2 DEF CarriesMsg
      <3>2. y \in CarriersAt(b, s)' <=> \/ y \in msgs' /\ CarriesMsg(y, b, s)
                                        \/ y \in calls'[s] /\ CarriesCall(y, b)
        BY CarrierParts2
      <3>3. y \in CarriersAt(b, s) <=> \/ y \in msgs /\ CarriesMsg(y, b, s)
                                       \/ y \in calls[s] /\ CarriesCall(y, b)
        BY CarrierParts
      <3> QED
        BY <2>3, <3>1, <3>2, <3>3
    <2>7. CarriersAt(b, "server")' = {} /\ CarriersAt(b, "client")' = {m}
      BY <2>4, <2>6 DEF Sides
    <2>8. Played(b)
      <3>1. \E y : y.hop = 0 /\ CarriersAt(b, "client")' = {y}
        BY <2>2, <2>7
      <3> QED
        BY <2>1, <2>3, <2>5, <2>7, <3>1 DEF Played
    <2>9. SameCompleting
      BY <2>3 DEF SameCompleting, Completing
    <2> QED
      BY <1>1, <2>8, <2>9 DEF Effects
  <1>3. CASE RunFails("server", "setup") /\ UNCHANGED <<msgs, setupNext>>
    <2> DEFINE d == Call(0, 0, "setup", "fail")
    <2>1. "server" \in Sides /\ d.pc = "fail"
      BY Made DEF Sides
    <2>2. /\ calls'["server"] = calls["server"] \cup {d}
          /\ calls'[Peer("server")] = calls[Peer("server")]
      BY <1>3, <2>1, CallsFailed
    <2> HIDE DEF d
    <2>3. calls'["server"] = (calls["server"] \ {}) \cup {d}
      BY <2>2
    <2>4. \A c \in {} \cup {d} : c.pc = "fail"
      BY <2>1
    <2>5. Still /\ SameCompleting
      BY <1>3, <2>1, <2>2, <2>3, <2>4, StillAt
    <2> QED
      BY <1>1, <1>3, <2>5 DEF Effects
  <1>4. CASE UNCHANGED <<msgs, setupNext, calls>>
    BY <1>1, <1>4, StillUnchanged DEF Effects
  <1> QED
    BY <1>2, <1>3, <1>4 DEF setup

(* A message becomes a handler, is delivered, or answers one.              *)
LEMMA AcceptEffects ==
    ASSUME TypeOK, Alone, NEW s \in Sides, NEW m \in msgs, acceptLoop(s, m)
    PROVE  Kept(m.b, s) /\ SameCompleting /\ m.b \in Batons
  <1> DEFINE d == Call(m.b, m.hop, m.kind, "handle")
             b == m.b
             N == {}
             C == {d}
  <1>1. m.to = s /\ m.kind \in {"uni", "peer"} /\ msgs' = msgs \ {m}
    BY DEF acceptLoop
  <1>2. m \in CarriersAt(b, s) /\ b \in Batons /\ m \notin calls[s]
    BY <1>1, MsgCarries
  <1>3. /\ calls'[s] = calls[s] \cup {d} /\ calls'[Peer(s)] = calls[Peer(s)]
        /\ d.b = m.b /\ d.hop = m.hop /\ d.kind = m.kind /\ d.pc = "handle"
    BY CallsTaken
  <1> HIDE DEF d
  <1>4. SameCompleting
    BY <1>3, SameCompletingWhen
  <1>5. \A x : x.kind # "datagram" => (x \in msgs' <=> (x \in msgs /\ x # m) \/ x \in N)
    BY <1>1
  <1>6. \A c : c.pc = "handle" /\ c.kind # "datagram" =>
                  (c \in calls'[s] <=> (c \in calls[s] /\ c # m) \/ c \in C)
    BY <1>2, <1>3
  <1>7. \A c \in C : CarriesCall(c, b)
    BY <1>1, <1>3 DEF CarriesCall
  <1>7a. \A x \in N : x.b = b /\ x.kind # "datagram"
    OBVIOUS
  <1> HIDE DEF b, N, C
  <1>8. /\ Elsewhere(b) /\ CarriersAt(b, s)' = {x \in N : x.to = s} \cup C
        /\ CarriersAt(b, Peer(s))' = {x \in N : x.to = Peer(s)}
    <2>1. m.b = b
      BY DEF b
    <2> QED
      BY <1>2, <1>3, <1>5, <1>6, <1>7, <1>7a, <2>1, Exchange
  <1>9. CarriersAt(b, s)' = {d} /\ CarriersAt(b, Peer(s))' = {}
    BY <1>8 DEF N, C
  <1>10. Kept(b, s)
    BY <1>2, <1>3, <1>8, <1>9 DEF Kept
  <1> QED
    BY <1>2, <1>4, <1>10 DEF b

LEMMA ReplyEffects ==
    ASSUME TypeOK, Alone, NEW s \in Sides, NEW c \in calls[s], readReply(s, c)
    PROVE  Kept(c.b, s) /\ SameCompleting /\ c.b \in Batons
  <1> DEFINE d == [c EXCEPT !.pc = "handle"]
             b == c.b
             N == {}
             C == {d}
  <1>1. PICK m \in msgs : /\ m.to = s /\ m.kind = "self" /\ m.b = c.b /\ m.hop = c.hop
                          /\ msgs' = msgs \ {m}
    BY DEF readReply
  <1>2. m \in CarriersAt(b, s) /\ b \in Batons /\ m \notin calls[s]
    BY <1>1, MsgCarries
  <1>3. c.pc = "await" /\ c.kind = "self" /\ c \in HandlerCalls
    BY DEF readReply, TypeOK, HandlerCalls, RunCalls
  <1>4. /\ calls'[s] = (calls[s] \ {c}) \cup {d} /\ calls'[Peer(s)] = calls[Peer(s)]
        /\ d.b = c.b /\ d.hop = c.hop /\ d.kind = c.kind /\ d.pc = "handle"
    BY <1>3, Went DEF readReply
  <1> HIDE DEF d
  <1>5. SameCompleting
    BY <1>3, <1>4, SameCompletingWhen
  <1>6. \A x : x.kind # "datagram" => (x \in msgs' <=> (x \in msgs /\ x # m) \/ x \in N)
    BY <1>1
  <1>7. \A x : x.pc = "handle" /\ x.kind # "datagram" =>
                  (x \in calls'[s] <=> (x \in calls[s] /\ x # m) \/ x \in C)
    BY <1>2, <1>3, <1>4
  <1>8. \A x \in C : CarriesCall(x, b)
    BY <1>3, <1>4 DEF CarriesCall
  <1>9. m.b = b /\ d.hop = m.hop
    BY <1>1, <1>4
  <1>9a. \A x \in N : x.b = b /\ x.kind # "datagram"
    OBVIOUS
  <1> HIDE DEF b, N, C
  <1>10. /\ Elsewhere(b) /\ CarriersAt(b, s)' = {x \in N : x.to = s} \cup C
         /\ CarriersAt(b, Peer(s))' = {x \in N : x.to = Peer(s)}
    BY <1>2, <1>4, <1>6, <1>7, <1>8, <1>9, <1>9a, Exchange
  <1>11. CarriersAt(b, s)' = {d} /\ CarriersAt(b, Peer(s))' = {}
    BY <1>10 DEF N, C
  <1>12. Kept(b, s)
    BY <1>2, <1>9, <1>10, <1>11 DEF Kept
  <1> QED
    BY <1>2, <1>5, <1>12 DEF b

LEMMA DeliverEffects ==
    ASSUME TypeOK, Alone, NEW s \in Sides, NEW m \in msgs, deliver(s, m)
    PROVE  Kept(m.b, s) /\ SameCompleting /\ m.b \in Batons
  <1> DEFINE n == [m EXCEPT !.place = "here"]
             b == m.b
             N == {n}
             C == {}
  <1>1. m.to = s /\ m.kind # "datagram" /\ msgs' = (msgs \ {m}) \cup {n} /\ calls' = calls
    BY DEF deliver
  <1>2. m \in CarriersAt(b, s) /\ b \in Batons /\ m \notin calls[s] /\ m \in Messages
    BY <1>1, MsgCarries
  <1>3. n.b = m.b /\ n.hop = m.hop /\ n.kind = m.kind /\ n.to = m.to
    BY <1>2 DEF Messages
  <1> HIDE DEF n
  <1>4. SameCompleting
    BY <1>1 DEF SameCompleting, Completing
  <1>5. \A x : x.kind # "datagram" => (x \in msgs' <=> (x \in msgs /\ x # m) \/ x \in N)
    BY <1>1
  <1>6. \A c : c.pc = "handle" /\ c.kind # "datagram" =>
                  (c \in calls'[s] <=> (c \in calls[s] /\ c # m) \/ c \in C)
    BY <1>1, <1>2
  <1>7. \A x \in N : x.b = b /\ x.kind # "datagram" /\ x.to = s
    BY <1>1, <1>3
  <1>8. m.b = b /\ calls'[Peer(s)] = calls[Peer(s)]
    BY <1>1
  <1>8a. \A c \in C : CarriesCall(c, b)
    OBVIOUS
  <1> HIDE DEF b, N, C
  <1>9. /\ Elsewhere(b) /\ CarriersAt(b, s)' = {x \in N : x.to = s} \cup C
        /\ CarriersAt(b, Peer(s))' = {x \in N : x.to = Peer(s)}
    BY <1>2, <1>5, <1>6, <1>7, <1>8, <1>8a, Exchange
  <1>10. CarriersAt(b, s)' = {n} /\ CarriersAt(b, Peer(s))' = {}
    BY <1>7, <1>9, Peers DEF N, C
  <1>11. Kept(b, s)
    BY <1>2, <1>3, <1>9, <1>10 DEF Kept
  <1> QED
    BY <1>2, <1>4, <1>11 DEF b

(* A handler sends the baton on, has a 0, or fails.                        *)
LEMMA HandleEffects ==
    ASSUME TypeOK, Alone, NEW s \in Sides, NEW c \in calls[s], handleIncoming(s, c)
    PROVE  /\ c.b \in Batons
           /\ \/ Dropped(c.b, s) /\ (SameCompleting \/ Completes(c.b, s))
              \/ Passed(c.b, s, FALSE) /\ SameCompleting
              \/ Passed(c.b, s, TRUE) /\ Completes(c.b, s)
  <1> DEFINE b == c.b
             next == c.hop + 1
  <1>1. /\ c.pc = "handle" /\ c.kind \in {"uni", "peer", "self"} /\ c \in HandlerCalls
        /\ mirror(s, c) \subseteq Messages /\ \A m \in mirror(s, c) : m.kind = "datagram"
    BY HandleCases, Mirrors
  <1>2. c \in CarriersAt(b, s) /\ b \in Batons /\ c.hop \in Nat /\ c \notin msgs /\ next \in Nat
    BY <1>1, CallCarries
  <1>3. CASE msgs' = msgs \cup mirror(s, c) /\ (Goto(s, c, "complete") \/ Goto(s, c, "fail"))
    <2>1. PICK pc \in {"complete", "fail"} : Goto(s, c, pc)
      BY <1>3
    <2> DEFINE d == [c EXCEPT !.pc = pc]
               N == {}
               C == {}
    <2>2. /\ calls'[s] = (calls[s] \ {c}) \cup {d} /\ calls'[Peer(s)] = calls[Peer(s)]
          /\ d.b = b /\ d.pc = pc
      BY <1>1, <2>1, Went
    <2> HIDE DEF d
    <2>3. \A x : x.kind # "datagram" => (x \in msgs' <=> (x \in msgs /\ x # c) \/ x \in N)
      BY <1>1, <1>2, <1>3
    <2>4. \A x : x.pc = "handle" /\ x.kind # "datagram" =>
                    (x \in calls'[s] <=> (x \in calls[s] /\ x # c) \/ x \in C)
      BY <2>2
    <2>5. /\ c.b = b /\ \A x \in N : x.b = b /\ x.kind # "datagram"
          /\ \A x \in C : CarriesCall(x, b)
      OBVIOUS
    <2> HIDE DEF b, N, C
    <2>6. /\ Elsewhere(b) /\ CarriersAt(b, s)' = {x \in N : x.to = s} \cup C
          /\ CarriersAt(b, Peer(s))' = {x \in N : x.to = Peer(s)}
      BY <1>2, <2>2, <2>3, <2>4, <2>5, Exchange
    <2>7. Dropped(b, s)
      BY <1>2, <2>6 DEF Dropped, N, C
    <2>8. CASE pc = "fail"
      <3>1. SameCompleting
        BY <1>1, <2>2, <2>8, SameCompletingWhen
      <3> QED
        BY <1>2, <2>7, <3>1 DEF b
    <2>9. CASE pc = "complete"
      <3>1. Completing(Peer(s))' = Completing(Peer(s))
        BY <2>2 DEF Completing
      <3>2. Completing(s)' = Completing(s) \cup {d}
        BY <1>1, <2>2, <2>9 DEF Completing
      <3>3. Completes(b, s)
        BY <2>2, <3>1, <3>2 DEF Completes
      <3> QED
        BY <1>2, <2>7, <3>3 DEF b
    <2> QED
      BY <2>8, <2>9
  <1>4. CASE /\ val(c.hop) # 0
             /\ msgs' = msgs \cup mirror(s, c)
                             \cup {Msg(c.b, next, nextKind(c.kind), Peer(s))}
             /\ Replace(s, c, afterSend(c, next))
    <2> DEFINE m == Msg(c.b, next, nextKind(c.kind), Peer(s))
               rest == afterSend(c, next)
               N == {m}
               C == {}
    <2>1. nextKind(c.kind) \in {"uni", "peer", "self"}
      BY <1>1, NextKinds
    <2>2. m.b = b /\ m.hop = next /\ m.kind # "datagram" /\ m.to = Peer(s)
      BY <2>1 DEF Msg
    <2>3. calls'[s] = (calls[s] \ {c}) \cup rest /\ calls'[Peer(s)] = calls[Peer(s)]
      BY <1>1, <1>4, CallsSent
    <2>4. IF val(next) = 0 THEN rest = {[c EXCEPT !.pc = "complete"]}
          ELSE \A d \in rest : d.pc = "await"
      BY <1>1, <1>2, AfterSend
    <2>5. [c EXCEPT !.pc = "complete"].pc = "complete" /\ [c EXCEPT !.pc = "complete"].b = b
      BY <1>1, Moved
    <2>6. \A d \in rest : d.pc # "handle"
      BY <2>4, <2>5
    <2>7. msgs' = msgs \cup mirror(s, c) \cup {m}
      BY <1>4
    <2>8. c.b = b /\ next = c.hop + 1
      OBVIOUS
    <2> HIDE DEF m, rest, b, next
    <2>9. \A x : x.kind # "datagram" => (x \in msgs' <=> (x \in msgs /\ x # c) \/ x \in N)
      BY <1>1, <1>2, <2>2, <2>7
    <2>10. \A x : x.pc = "handle" /\ x.kind # "datagram" =>
                     (x \in calls'[s] <=> (x \in calls[s] /\ x # c) \/ x \in C)
      BY <2>3, <2>6
    <2>11. /\ \A x \in N : x.b = b /\ x.kind # "datagram"
           /\ \A x \in C : CarriesCall(x, b)
      BY <2>2
    <2> HIDE DEF N, C
    <2>12. /\ Elsewhere(b) /\ CarriersAt(b, s)' = {x \in N : x.to = s} \cup C
           /\ CarriersAt(b, Peer(s))' = {x \in N : x.to = Peer(s)}
      BY <1>2, <2>3, <2>8, <2>9, <2>10, <2>11, Exchange
    <2>13. CarriersAt(b, s)' = {} /\ CarriersAt(b, Peer(s))' = {m}
      BY <2>2, <2>12, Peers DEF N, C
    <2>14. Passed(b, s, val(next) = 0)
      BY <1>2, <1>4, <2>2, <2>8, <2>12, <2>13 DEF Passed
    <2>15. CASE val(next) = 0
      <3> DEFINE d == [c EXCEPT !.pc = "complete"]
      <3>1. d.pc = "complete" /\ d.b = b /\ calls'[s] = (calls[s] \ {c}) \cup {d}
        BY <2>3, <2>4, <2>5, <2>15
      <3> HIDE DEF d
      <3>2. Completing(Peer(s))' = Completing(Peer(s))
        BY <2>3 DEF Completing
      <3>3. Completing(s)' = Completing(s) \cup {d}
        BY <1>1, <3>1 DEF Completing
      <3>4. Completes(b, s)
        BY <3>1, <3>2, <3>3 DEF Completes
      <3>5. Passed(b, s, TRUE)
        BY <2>14, <2>15 DEF Passed
      <3> QED
        BY <1>2, <2>8, <3>4, <3>5
    <2>16. CASE val(next) # 0
      <3>1. SameCompleting
        BY <1>1, <2>3, <2>4, <2>16, SameCompletingWhen
      <3>2. Passed(b, s, FALSE)
        BY <2>14, <2>16 DEF Passed
      <3> QED
        BY <1>2, <2>8, <3>1, <3>2
    <2> QED
      BY <2>15, <2>16
  <1> QED
    BY <1>3, <1>4, HandleCases

LEMMA EffectsHold ==
    ASSUME TypeOK, Alone, [Next]_vars
    PROVE  Effects
  <1>1. CASE setup
    BY <1>1, SetupEffects
  <1>2. ASSUME NEW s \in Sides, contextEnded(s) \/ doneSeen(s) \/ RunReturns(s)
        PROVE  Effects
    <2>1. UNCHANGED <<msgs, setupNext, active>>
      BY <1>2 DEF contextEnded, doneSeen, RunReturns, netVars, runVars
    <2>2. CASE calls' = calls
      BY <2>1, <2>2, StillUnchanged DEF Effects
    <2>3. CASE RunFails(s, "context")
      <3> DEFINE d == Call(0, 0, "context", "fail")
      <3>1. /\ calls'[s] = calls[s] \cup {d} /\ calls'[Peer(s)] = calls[Peer(s)]
            /\ d.pc = "fail"
        BY <2>3, CallsFailed
      <3> HIDE DEF d
      <3>2. calls'[s] = (calls[s] \ {}) \cup {d} /\ \A c \in {} \cup {d} : c.pc = "fail"
        BY <3>1
      <3>3. Still /\ SameCompleting
        BY <2>1, <3>1, <3>2, StillAt
      <3> QED
        BY <2>1, <3>3 DEF Effects
    <2> QED
      BY <1>2, <2>2, <2>3 DEF contextEnded, doneSeen, RunReturns
  <1>3. ASSUME NEW s \in Sides, NEW m \in msgs, acceptLoop(s, m)
        PROVE  Effects
    <2>1. UNCHANGED <<setupNext, active>>
      BY <1>3 DEF acceptLoop, runVars
    <2> QED
      BY <1>3, <2>1, AcceptEffects DEF Effects
  <1>4. ASSUME NEW s \in Sides, NEW m \in msgs, datagramLoop(s, m)
        PROVE  Effects
    <2> DEFINE d == Call(m.b, m.hop, m.kind, "handle")
    <2>1. /\ UNCHANGED <<setupNext, active>> /\ m.kind = "datagram" /\ msgs' = msgs \ {m}
      BY <1>4 DEF datagramLoop, runVars
    <2>2. /\ calls'[s] = calls[s] \cup {d} /\ calls'[Peer(s)] = calls[Peer(s)]
          /\ d.kind = m.kind /\ d.pc = "handle"
      BY <1>4, CallsTaken
    <2> HIDE DEF d
    <2>3. ASSUME NEW b \in Batons, NEW t \in Sides
          PROVE  /\ \A x : CarriesMsg(x, b, t) => (x \in msgs' <=> x \in msgs)
                 /\ \A c : CarriesCall(c, b) => (c \in calls'[t] <=> c \in calls[t])
      <3>1. \A x : CarriesMsg(x, b, t) => (x \in msgs' <=> x \in msgs)
        BY <2>1 DEF CarriesMsg
      <3>2. \A c : CarriesCall(c, b) => c # d
        BY <2>1, <2>2 DEF CarriesCall
      <3>3. t = s \/ t = Peer(s)
        BY Peers
      <3> QED
        BY <2>2, <3>1, <3>2, <3>3
    <2>4. Still
      BY <2>3, StillWhen
    <2>5. Still /\ SameCompleting
      <3>1. SameCompleting
        BY <2>2, SameCompletingWhen
      <3> QED
        BY <2>4, <3>1
    <2> QED
      BY <2>1, <2>5 DEF Effects
  <1>5. ASSUME NEW s \in Sides, NEW c \in calls[s], readReply(s, c)
        PROVE  Effects
    <2>1. UNCHANGED <<setupNext, active>>
      BY <1>5 DEF readReply, runVars
    <2> QED
      BY <1>5, <2>1, ReplyEffects DEF Effects
  <1>6. ASSUME NEW s \in Sides, NEW c \in calls[s], handleIncoming(s, c)
        PROVE  Effects
    <2>1. UNCHANGED <<setupNext, active>>
      BY <1>6 DEF handleIncoming, runVars
    <2> QED
      BY <1>6, <2>1, HandleEffects DEF Effects
  <1>7. ASSUME NEW s \in Sides, NEW c \in calls[s], handleDatagram(s, c)
        PROVE  Effects
    <2>1. /\ UNCHANGED <<setupNext, active, msgs>> /\ Return(s, c)
          /\ c.kind = "datagram" /\ c.pc = "handle"
      BY <1>7 DEF handleDatagram, ignoreDatagram, runVars
    <2>2. calls'[s] = calls[s] \ {c} /\ calls'[Peer(s)] = calls[Peer(s)]
      BY <2>1, Ended
    <2>3. /\ calls'[s] = (calls[s] \ {c}) \cup {}
          /\ \A d \in {c} \cup {} : d.kind = "datagram" /\ d.pc # "complete"
      BY <2>1, <2>2
    <2>4. Still /\ SameCompleting
      BY <2>1, <2>2, <2>3, StillAt
    <2> QED
      BY <2>1, <2>4 DEF Effects
  <1>8. ASSUME NEW s \in Sides, NEW c \in calls[s], completeOne(s, c)
        PROVE  Effects
    <2>1. /\ UNCHANGED <<setupNext, msgs>> /\ c.pc = "complete"
          /\ active' = [active EXCEPT ![s] = @ - 1]
          /\ Return(s, c) \/ Goto(s, c, "look")
      BY <1>8 DEF completeOne, netVars, runVars
    <2>2. PICK new : /\ calls'[s] = (calls[s] \ {c}) \cup new /\ calls'[Peer(s)] = calls[Peer(s)]
                     /\ \A d \in new : d.pc = "look"
      <3>1. CASE Return(s, c)
        <4> DEFINE none == {}
        <4>1. /\ calls'[s] = (calls[s] \ {c}) \cup none /\ calls'[Peer(s)] = calls[Peer(s)]
              /\ \A d \in none : d.pc = "look"
          BY <3>1, Ended
        <4> HIDE DEF none
        <4> QED
          BY <4>1
      <3>2. CASE Goto(s, c, "look")
        <4> DEFINE d == [c EXCEPT !.pc = "look"]
        <4>1. /\ calls'[s] = (calls[s] \ {c}) \cup {d} /\ calls'[Peer(s)] = calls[Peer(s)]
              /\ d.pc = "look"
          BY <3>2, Went
        <4> HIDE DEF d
        <4> QED
          BY <4>1
      <3> QED
        BY <2>1, <3>1, <3>2
    <2>3. \A d \in {c} \cup new : d.pc # "handle"
      BY <2>1, <2>2
    <2>4. Still
      BY <2>1, <2>2, <2>3, StillAt
    <2>5. c \in Completing(s) /\ Completing(s)' = Completing(s) \ {c}
      BY <2>1, <2>2 DEF Completing
    <2>6. Completing(Peer(s))' = Completing(Peer(s))
      BY <2>2 DEF Completing
    <2>7. Counts(s)
      BY <2>1, <2>5, <2>6 DEF Counts
    <2> QED
      BY <2>1, <2>4, <2>7 DEF Effects
  <1>9. ASSUME NEW s \in Sides, NEW c \in calls[s],
               fail(s, c) \/ finishErr(s, c) \/ finishLook(s, c) \/ finishClose(s, c)
        PROVE  Effects
    <2>1. /\ UNCHANGED <<setupNext, active, msgs>> /\ c.pc \in {"fail", "setErr", "look", "close"}
          /\ Return(s, c) \/ \E pc \in {"setErr", "look", "close"} : Goto(s, c, pc)
      BY <1>9 DEF fail, finishErr, finishLook, finishClose, netVars, runVars
    <2>2. PICK new : /\ calls'[s] = (calls[s] \ {c}) \cup new /\ calls'[Peer(s)] = calls[Peer(s)]
                     /\ \A d \in new : d.pc \in {"setErr", "look", "close"}
      <3>1. CASE Return(s, c)
        <4> DEFINE none == {}
        <4>1. /\ calls'[s] = (calls[s] \ {c}) \cup none /\ calls'[Peer(s)] = calls[Peer(s)]
              /\ \A d \in none : d.pc \in {"setErr", "look", "close"}
          BY <3>1, Ended
        <4> HIDE DEF none
        <4> QED
          BY <4>1
      <3>2. ASSUME NEW pc \in {"setErr", "look", "close"}, Goto(s, c, pc)
            PROVE  \E new : /\ calls'[s] = (calls[s] \ {c}) \cup new
                            /\ calls'[Peer(s)] = calls[Peer(s)]
                            /\ \A d \in new : d.pc \in {"setErr", "look", "close"}
        <4> DEFINE d == [c EXCEPT !.pc = pc]
        <4>1. /\ calls'[s] = (calls[s] \ {c}) \cup {d} /\ calls'[Peer(s)] = calls[Peer(s)]
              /\ d.pc = pc
          BY <3>2, Went
        <4> HIDE DEF d
        <4> QED
          BY <4>1
      <3> QED
        BY <2>1, <3>1, <3>2
    <2>3. \A d \in {c} \cup new : d.pc # "handle" /\ d.pc # "complete"
      BY <2>1, <2>2
    <2>4. Still /\ SameCompleting
      BY <2>1, <2>2, <2>3, StillAt
    <2> QED
      BY <2>1, <2>4 DEF Effects
  <1>10. ASSUME NEW s \in Sides, NEW m \in msgs, deliver(s, m)
         PROVE  Effects
    <2>1. UNCHANGED <<setupNext, active>>
      BY <1>10 DEF deliver, runVars
    <2> QED
      BY <1>10, <2>1, DeliverEffects DEF Effects
  <1>11. ASSUME NEW s \in Sides, NEW m \in msgs, dropDatagram(s, m)
         PROVE  Effects
    <2>1. /\ UNCHANGED <<setupNext, active, calls>> /\ m.kind = "datagram"
          /\ msgs' = msgs \ {m}
      BY <1>11 DEF dropDatagram, runVars
    <2>2. \A x : x.kind # "datagram" => (x \in msgs' <=> x \in msgs)
      BY <2>1
    <2>3. Still
      BY <2>1, <2>2, StillWhen DEF CarriesMsg
    <2>4. SameCompleting
      BY <2>1 DEF SameCompleting, Completing
    <2> QED
      BY <2>1, <2>3, <2>4 DEF Effects
  <1>12. ASSUME NEW s \in Sides, sessionEnds(s) \/ cancel(s)
         PROVE  Effects
    <2>1. UNCHANGED <<msgs, calls, setupNext, active>>
      BY <1>12 DEF sessionEnds, cancel, netVars, runVars
    <2> QED
      BY <2>1, StillUnchanged DEF Effects
  <1>13. CASE UNCHANGED vars
    <2>1. UNCHANGED <<msgs, calls, setupNext, active>>
      BY <1>13 DEF vars, netVars, runVars
    <2> QED
      BY <2>1, StillUnchanged DEF Effects
  <1> QED
    BY NextCases, <1>1, <1>2, <1>3, <1>4, <1>5, <1>6, <1>7, <1>8, <1>9, <1>10, <1>11, <1>12, <1>13

-----------------------------------------------------------------------------
(* A baton has one carrier.                                                *)

LEMMA AloneKept ==
    ASSUME TypeOK, Alone, [Next]_vars
    PROVE  Alone'
  <1>1. Effects
    BY EffectsHold
  <1>2. ASSUME Still, setupNext' = setupNext
        PROVE  Alone'
    <2> SUFFICES ASSUME NEW b \in Batons, NEW s \in Sides
                 PROVE  /\ \A x, y \in CarriersAt(b, s)' : x = y
                        /\ CarriersAt(b, s)' # {} =>
                              CarriersAt(b, Peer(s))' = {} /\ b < setupNext'
      BY DEF Alone
    <2>1. CarriersAt(b, s)' = CarriersAt(b, s) /\ CarriersAt(b, Peer(s))' = CarriersAt(b, Peer(s))
      BY <1>2, Peers DEF Still
    <2> QED
      BY <1>2, <2>1 DEF Alone
  <1>3. ASSUME NEW b0 \in Batons, Elsewhere(b0), setupNext' \in {setupNext, setupNext + 1},
               \A s \in Sides :
                  /\ \A x, y \in CarriersAt(b0, s)' : x = y
                  /\ CarriersAt(b0, s)' # {} => CarriersAt(b0, Peer(s))' = {} /\ b0 < setupNext'
        PROVE  Alone'
    <2> SUFFICES ASSUME NEW b \in Batons, NEW s \in Sides
                 PROVE  /\ \A x, y \in CarriersAt(b, s)' : x = y
                        /\ CarriersAt(b, s)' # {} =>
                              CarriersAt(b, Peer(s))' = {} /\ b < setupNext'
      BY DEF Alone
    <2>1. CASE b = b0
      BY <1>3, <2>1
    <2>2. CASE b # b0
      <3>1. /\ CarriersAt(b, s)' = CarriersAt(b, s)
            /\ CarriersAt(b, Peer(s))' = CarriersAt(b, Peer(s))
        BY <1>3, <2>2, Peers DEF Elsewhere
      <3>2. b < setupNext => b < setupNext'
        BY <1>3 DEF TypeOK, Batons
      <3> QED
        BY <3>1, <3>2 DEF Alone
    <2> QED
      BY <2>1, <2>2
  <1>4. ASSUME NEW b \in Batons, Played(b)
        PROVE  Alone'
    <2>1. b < setupNext'
      BY <1>4 DEF Played, Batons
    <2>2. PICK y : CarriersAt(b, "client")' = {y} /\ CarriersAt(b, "server")' = {}
      BY <1>4 DEF Played
    <2>3. \A s \in Sides :
                  /\ \A x, z \in CarriersAt(b, s)' : x = z
                  /\ CarriersAt(b, s)' # {} => CarriersAt(b, Peer(s))' = {} /\ b < setupNext'
      BY <2>1, <2>2 DEF Sides, Peer
    <2> QED
      BY <1>3, <1>4, <2>3 DEF Played
  <1>5. ASSUME NEW b \in Batons, NEW s \in Sides, setupNext' = setupNext,
               Kept(b, s) \/ Dropped(b, s) \/ \E zero \in BOOLEAN : Passed(b, s, zero)
        PROVE  Alone'
    <2>1. b < setupNext
      BY <1>5 DEF Alone, Kept, Dropped, Passed
    <2>2. Peer(s) \in Sides /\ Peer(Peer(s)) = s /\ Sides = {s, Peer(s)}
      BY Peers
    <2>3. Elsewhere(b)
      BY <1>5 DEF Kept, Dropped, Passed
    <2>4. \E y : \/ CarriersAt(b, s)' = {y} /\ CarriersAt(b, Peer(s))' = {}
                 \/ CarriersAt(b, s)' = {} /\ CarriersAt(b, Peer(s))' = {y}
                 \/ CarriersAt(b, s)' = {} /\ CarriersAt(b, Peer(s))' = {}
      BY <1>5 DEF Kept, Dropped, Passed
    <2>5. \A t \in Sides :
                  /\ \A x, z \in CarriersAt(b, t)' : x = z
                  /\ CarriersAt(b, t)' # {} => CarriersAt(b, Peer(t))' = {} /\ b < setupNext'
      <3>1. \A t \in Sides : t = s \/ t = Peer(s)
        BY <2>2
      <3> QED
        BY <1>5, <2>1, <2>2, <2>4, <3>1
    <2> QED
      BY <1>3, <1>5, <2>3, <2>5
  <1> QED
    BY <1>1, <1>2, <1>4, <1>5 DEF Effects

-----------------------------------------------------------------------------
(* Every side counts every baton at most once.                             *)

(* No step brings a finished baton back.                                   *)
LEMMA StaysFinished ==
    ASSUME TypeOK, Alone, Effects, NEW t \in Sides, NEW b \in Batons, Unfinished(t, b)'
    PROVE  Unfinished(t, b)
  <1>1. b \in Int /\ setupNext \in Int /\ Peer(t) \in Sides /\ Peer(Peer(t)) = t
    BY Peers DEF TypeOK, Batons
  <1>2. \/ setupNext' <= b
        \/ CarriersAt(b, t)' # {}
        \/ \E x \in CarriersAt(b, Peer(t))' : val(x.hop) # 0
    BY DEF Unfinished
  <1>3. ASSUME CarriersAt(b, t)' = CarriersAt(b, t),
               CarriersAt(b, Peer(t))' = CarriersAt(b, Peer(t)),
               setupNext' \in {setupNext, setupNext + 1}
        PROVE  Unfinished(t, b)
    BY <1>1, <1>2, <1>3 DEF Unfinished
  <1>4. ASSUME NEW b0, Elsewhere(b0), b # b0, setupNext' \in {setupNext, setupNext + 1}
        PROVE  Unfinished(t, b)
    BY <1>1, <1>3, <1>4 DEF Elsewhere
  <1>5. CASE Still /\ setupNext' = setupNext
    BY <1>1, <1>3, <1>5 DEF Still
  <1>6. ASSUME NEW b0 \in Batons, Played(b0)
        PROVE  Unfinished(t, b)
    <2>1. CASE b = b0
      BY <1>1, <1>6, <2>1 DEF Played, Unfinished
    <2>2. CASE b # b0
      BY <1>4, <1>6, <2>2 DEF Played
    <2> QED
      BY <2>1, <2>2
  <1>7. ASSUME NEW b0 \in Batons, NEW s \in Sides, setupNext' = setupNext,
               Kept(b0, s) \/ Dropped(b0, s) \/ \E zero \in BOOLEAN : Passed(b0, s, zero)
        PROVE  Unfinished(t, b)
    <2>1. CASE b # b0
      BY <1>4, <1>7, <2>1 DEF Kept, Dropped, Passed
    <2>2. CASE b = b0 /\ t = s
      BY <1>7, <2>2 DEF Kept, Dropped, Passed, Unfinished
    <2>3. CASE b = b0 /\ t = Peer(s)
      <3>1. Peer(t) = s
        BY <2>3, Peers
      <3>2. CASE Kept(b0, s)
        <4>0. PICK x \in CarriersAt(b, s) : \E y : CarriersAt(b, s)' = {y} /\ y.hop = x.hop
          BY <2>3, <3>2 DEF Kept
        <4>1. PICK y : CarriersAt(b, s)' = {y} /\ y.hop = x.hop
          BY <4>0
        <4>2. CarriersAt(b, t)' = {}
          BY <2>3, <3>2 DEF Kept
        <4>3. val(x.hop) # 0 \/ setupNext <= b
          BY <1>2, <1>7, <3>1, <4>1, <4>2
        <4> QED
          BY <3>1, <4>1, <4>3 DEF Unfinished
      <3>3. CASE Dropped(b0, s)
        BY <1>2, <1>7, <2>3, <3>1, <3>3 DEF Dropped, Unfinished
      <3>4. CASE \E zero \in BOOLEAN : Passed(b0, s, zero)
        <4>1. \E x \in CarriersAt(b, s) : val(x.hop) # 0
          BY <2>3, <3>4 DEF Passed
        <4> QED
          BY <3>1, <4>1 DEF Unfinished
      <3> QED
        BY <1>7, <3>2, <3>3, <3>4
    <2> QED
      BY <2>1, <2>2, <2>3, Peers
  <1> QED
    BY <1>5, <1>6, <1>7 DEF Effects

(* A handler that goes to completeOne has finished the baton.              *)
LEMMA FinishesIt ==
    ASSUME TypeOK, Alone, NEW b \in Batons, NEW s \in Sides, setupNext' = setupNext,
           Dropped(b, s) \/ Passed(b, s, TRUE)
    PROVE  Unfinished(s, b) /\ ~Unfinished(s, b)'
  <1>1. CarriersAt(b, s) # {}
    BY DEF Dropped, Passed
  <1>2. b < setupNext /\ b \in Int /\ setupNext \in Int
    BY <1>1 DEF Alone, TypeOK, Batons
  <1>3. CarriersAt(b, s)' = {} /\ \A y \in CarriersAt(b, Peer(s))' : val(y.hop) = 0
    BY DEF Dropped, Passed
  <1> QED
    BY <1>1, <1>2, <1>3 DEF Unfinished

LEMMA FewerOpen ==
    ASSUME NEW s, Open(s)' \subseteq Open(s)
    PROVE  Cardinality(Open(s)') <= Cardinality(Open(s)) /\ Cardinality(Open(s)') \in Nat
  <1>1. IsFiniteSet(Open(s)) /\ Cardinality(Open(s)) \in Nat
    BY OpenFinite
  <1> QED
    BY <1>1, FS_Subset, FS_CardinalityType

(* A side where no handler comes to completeOne or leaves it.              *)
LEMMA CountSame ==
    ASSUME TypeOK, CountInv, NEW t \in Sides, Completing(t)' = Completing(t),
           active'[t] = active[t], \A b \in Batons : Unfinished(t, b)' => Unfinished(t, b)
    PROVE  CountAt(t)'
  <1>1. \A b \in Batons : Pending(t, b)' <=> Pending(t, b)
    BY DEF Pending
  <1>2. Open(t)' \subseteq Open(t)
    BY <1>1 DEF Open
  <1>3. /\ Cardinality(Open(t)') <= Cardinality(Open(t)) /\ Cardinality(Open(t)') \in Nat
        /\ Cardinality(Open(t)) \in Nat
    BY <1>2, FewerOpen, OpenFinite
  <1>4. CountAt(t) /\ active[t] \in Int
    BY DEF CountInv, TypeOK
  <1>5. Cardinality(Open(t)') <= active'[t]
    BY <1>3, <1>4 DEF CountAt
  <1> QED
    BY <1>1, <1>4, <1>5 DEF CountAt

LEMMA CountKept ==
    ASSUME TypeOK, Alone, CountInv, [Next]_vars
    PROVE  CountInv'
  <1>1. Effects
    BY EffectsHold
  <1>2. \A t \in Sides, b \in Batons : Unfinished(t, b)' => Unfinished(t, b)
    BY <1>1, StaysFinished
  <1>3. CASE SameCompleting /\ UNCHANGED active
    BY <1>2, <1>3, CountSame DEF SameCompleting, CountInv
  <1>4. ASSUME NEW b \in Batons, NEW s \in Sides, Completes(b, s),
               UNCHANGED <<setupNext, active>>, Dropped(b, s) \/ Passed(b, s, TRUE)
        PROVE  CountInv'
    <2>1. Unfinished(s, b) /\ ~Unfinished(s, b)'
      BY <1>4, FinishesIt
    <2>2. CountAt(Peer(s))'
      BY <1>2, <1>4, CountSame, Peers DEF Completes
    <2>3. PICK d : d.b = b /\ Completing(s)' = Completing(s) \cup {d}
      BY <1>4 DEF Completes
    <2>4. CountAt(s) /\ active[s] \in Int
      BY DEF CountInv, TypeOK
    <2>5. \A b1 \in Batons : Pending(s, b1)' <=> Pending(s, b1) \/ b1 = b
      BY <2>3 DEF Pending
    <2>6. Open(s)' \subseteq Open(s)
      BY <1>2, <2>1, <2>5 DEF Open
    <2>7. /\ Cardinality(Open(s)') <= Cardinality(Open(s)) /\ Cardinality(Open(s)') \in Nat
          /\ Cardinality(Open(s)) \in Nat
      BY <2>6, FewerOpen, OpenFinite
    <2>8. Cardinality(Open(s)') <= active'[s]
      BY <1>4, <2>4, <2>7 DEF CountAt
    <2>9. \A b1 \in Batons : ~(Unfinished(s, b1)' /\ Pending(s, b1)')
      BY <1>2, <2>1, <2>4, <2>5 DEF CountAt
    <2>10. \A c \in Completing(s) : c.b # b
      BY <2>1, <2>4 DEF CountAt, Pending
    <2>11. \A c, e \in Completing(s)' : c.b = e.b => c = e
      BY <2>3, <2>4, <2>10 DEF CountAt
    <2>12. CountAt(s)'
      BY <2>8, <2>9, <2>11 DEF CountAt
    <2> QED
      BY <2>2, <2>12, Peers DEF CountInv
  <1>5. ASSUME NEW s \in Sides, Counts(s), UNCHANGED setupNext
        PROVE  CountInv'
    <2>1. /\ active'[s] = active[s] - 1 /\ active'[Peer(s)] = active[Peer(s)]
          /\ active[s] \in Int
      BY <1>5, Peers DEF Counts, TypeOK
    <2>2. CountAt(Peer(s))'
      BY <1>2, <1>5, <2>1, CountSame, Peers DEF Counts
    <2>3. PICK c \in Completing(s) : Completing(s)' = Completing(s) \ {c}
      BY <1>5 DEF Counts
    <2>4. CountAt(s) /\ c.b \in Batons /\ c.b \in Open(s)
      BY SomeLeft DEF CountInv
    <2>5. \A b \in Batons : Pending(s, b)' => Pending(s, b) /\ b # c.b
      BY <2>3, <2>4 DEF Pending, CountAt
    <2>6. ~Unfinished(s, c.b)
      BY <2>4 DEF CountAt, Pending
    <2>7. Open(s)' \subseteq Open(s) \ {c.b}
      BY <1>2, <2>5, <2>6 DEF Open
    <2>8. IsFiniteSet(Open(s)) /\ Cardinality(Open(s)) \in Nat
      BY OpenFinite
    <2>9. /\ IsFiniteSet(Open(s) \ {c.b})
          /\ Cardinality(Open(s) \ {c.b}) = Cardinality(Open(s)) - 1
      BY <2>4, <2>8, FS_RemoveElement
    <2>10. /\ Cardinality(Open(s)') <= Cardinality(Open(s) \ {c.b})
           /\ Cardinality(Open(s)') \in Nat
      BY <2>7, <2>9, FS_Subset, FS_CardinalityType
    <2>11. Cardinality(Open(s)') <= active'[s]
      BY <2>1, <2>4, <2>8, <2>9, <2>10 DEF CountAt
    <2>12. CountAt(s)'
      BY <1>2, <2>3, <2>4, <2>5, <2>11 DEF CountAt
    <2> QED
      BY <2>2, <2>12, Peers DEF CountInv
  <1> QED
    BY <1>1, <1>3, <1>4, <1>5 DEF Effects

-----------------------------------------------------------------------------
(* The end of the exchange.                                                *)

(* A side that counted all of them knows that all have reached 0.          *)
LEMMA AllCounted ==
    ASSUME TypeOK, CountInv, NEW t \in Sides, active[t] = 0
    PROVE  /\ setupNext > Count
           /\ \A b \in Batons, s \in Sides : \A x \in CarriersAt(b, s) : val(x.hop) = 0
           /\ Completing(t) = {}
  <1>1. IsFiniteSet(Open(t)) /\ Cardinality(Open(t)) \in Nat /\ Cardinality(Open(t)) <= 0
    BY OpenFinite DEF CountInv, CountAt
  <1>2. Open(t) = {}
    BY <1>1, FS_EmptySet
  <1>3. \A b \in Batons : ~Unfinished(t, b)
    BY <1>2 DEF Open
  <1>4. Count \in Batons /\ setupNext \in Int
    BY BatonAssumption DEF Batons, TypeOK
  <1>5. setupNext > Count
    BY <1>3, <1>4, BatonAssumption DEF Unfinished
  <1>6. \A b \in Batons, s \in Sides : \A x \in CarriersAt(b, s) : val(x.hop) = 0
    BY <1>3, Peers DEF Unfinished
  <1>7. Completing(t) = {}
    BY SomeLeft
  <1> QED
    BY <1>5, <1>6, <1>7

(* The steps that leave the end of the exchange alone.                     *)
LEMMA EndOther ==
    ASSUME EndInv, UNCHANGED <<done, err, crashed, active>>,
           \A s \in Sides : \A c \in calls'[s] : c.pc \in Finishing => c \in calls[s],
           \A s \in Sides : run'[s] \in {"drain", "returned"} =>
                               run[s] \in {"drain", "returned"} \/ done[s]
    PROVE  EndInv'
  <1> SUFFICES ASSUME NEW s \in Sides
               PROVE  /\ \A c \in calls'[s] : c.pc \in Finishing =>
                            err'[s] # "nil" \/ active'[s] = 0
                      /\ done'[s] => err'[s] # "nil" \/ active'[s] = 0
                      /\ run'[s] \in {"drain", "returned"} => done'[s]
                      /\ crashed'[s] => done'[s]
    BY DEF EndInv
  <1> QED
    BY DEF EndInv

(* The steps that start, move or end calls before they go to finish.       *)
LEMMA NoFinish ==
    ASSUME TypeOK, [Next]_vars,
           ~\E s \in Sides : \E c \in calls[s] :
               completeOne(s, c) \/ finishErr(s, c) \/ finishLook(s, c) \/ finishClose(s, c)
    PROVE  /\ UNCHANGED <<done, err, crashed, active>>
           /\ \A s \in Sides : \A c \in calls'[s] : c.pc \in Finishing => c \in calls[s]
           /\ \A s \in Sides : run'[s] \in {"drain", "returned"} =>
                                  run[s] \in {"drain", "returned"} \/ done[s]
  <1> DEFINE G == \A s \in Sides : \A c \in calls'[s] : c.pc \in Finishing => c \in calls[s]
             R == \A s \in Sides : run'[s] \in {"drain", "returned"} =>
                                      run[s] \in {"drain", "returned"} \/ done[s]
             U == UNCHANGED <<done, err, crashed, active>>
  <1>1. ASSUME NEW s \in Sides, NEW kind \in {"setup", "context"}, RunFails(s, kind)
        PROVE  G
    <2> DEFINE d == Call(0, 0, kind, "fail")
    <2>1. /\ calls'[s] = calls[s] \cup {d} /\ calls'[Peer(s)] = calls[Peer(s)] /\ d.pc = "fail"
      BY <1>1, CallsFailed
    <2> HIDE DEF d
    <2> QED
      BY <2>1, Peers DEF Finishing
  <1>2. CASE setup
    <2>1. U
      BY <1>2 DEF setup, endVars
    <2>2. run' = run \/ run' = [run EXCEPT !["server"] = "wait"]
      BY <1>2 DEF setup
    <2>3. R
      BY <2>2 DEF TypeOK
    <2>4. calls' = calls \/ RunFails("server", "setup")
      BY <1>2 DEF setup
    <2>5. G
      BY <1>1, <2>4 DEF Sides
    <2> QED
      BY <2>1, <2>3, <2>5
  <1>3. ASSUME NEW s \in Sides, contextEnded(s) \/ doneSeen(s) \/ RunReturns(s)
        PROVE  U /\ G /\ R
    <2>1. U
      BY <1>3 DEF contextEnded, doneSeen, RunReturns, endVars
    <2>2. /\ calls' = calls \/ RunFails(s, "context")
          /\ \/ run' = run
             \/ done[s] /\ run' = [run EXCEPT ![s] = "drain"]
             \/ run[s] = "drain" /\ run' = [run EXCEPT ![s] = "returned"]
      BY <1>3 DEF contextEnded, doneSeen, RunReturns, runVars
    <2>3. G
      BY <1>1, <2>2
    <2>4. R
      BY <2>2 DEF TypeOK
    <2> QED
      BY <2>1, <2>3, <2>4
  <1>4. ASSUME NEW s \in Sides, NEW m \in msgs, acceptLoop(s, m) \/ datagramLoop(s, m)
        PROVE  U /\ G /\ R
    <2>1. U /\ run' = run
      BY <1>4 DEF acceptLoop, datagramLoop, endVars, runVars
    <2> DEFINE d == Call(m.b, m.hop, m.kind, "handle")
    <2>2. /\ calls'[s] = calls[s] \cup {d} /\ calls'[Peer(s)] = calls[Peer(s)]
          /\ d.pc = "handle"
      BY <1>4, CallsTaken
    <2> HIDE DEF d
    <2>3. G
      BY <2>2, Peers DEF Finishing
    <2> QED
      BY <2>1, <2>3
  <1>5. ASSUME NEW s \in Sides, NEW c \in calls[s],
               readReply(s, c) \/ handleDatagram(s, c) \/ fail(s, c)
        PROVE  U /\ G /\ R
    <2>1. U /\ run' = run
      BY <1>5 DEF readReply, handleDatagram, fail, endVars, runVars
    <2>2. \/ Return(s, c) \/ Goto(s, c, "setErr")
          \/ Goto(s, c, "handle") /\ c.pc = "await"
      BY <1>5 DEF readReply, handleDatagram, ignoreDatagram, fail
    <2>3. CASE Return(s, c)
      <3>1. G
        BY <2>3, Ended, Peers
      <3> QED
        BY <2>1, <3>1
    <2>4. ASSUME NEW pc \in {"setErr", "handle"}, Goto(s, c, pc), pc = "handle" => c.pc = "await"
          PROVE  G
      <3> DEFINE d == [c EXCEPT !.pc = pc]
      <3>1. pc = "handle" => c \in HandlerCalls
        BY <2>4 DEF TypeOK, RunCalls
      <3>2. /\ calls'[s] = (calls[s] \ {c}) \cup {d} /\ calls'[Peer(s)] = calls[Peer(s)]
            /\ d.pc = pc
        BY <2>4, <3>1, Went
      <3> HIDE DEF d
      <3> QED
        BY <3>2, Peers DEF Finishing
    <2> QED
      BY <2>1, <2>2, <2>3, <2>4
  <1>6. ASSUME NEW s \in Sides, NEW c \in calls[s], handleIncoming(s, c)
        PROVE  U /\ G /\ R
    <2>1. U /\ run' = run /\ c \in HandlerCalls /\ c.pc = "handle"
      BY <1>6, HandleCases DEF endVars, runVars
    <2>2. \/ Goto(s, c, "complete") \/ Goto(s, c, "fail")
          \/ Replace(s, c, afterSend(c, c.hop + 1))
      BY <1>6, HandleCases
    <2>3. ASSUME NEW pc \in {"complete", "fail"}, Goto(s, c, pc)
          PROVE  G
      <3> DEFINE d == [c EXCEPT !.pc = pc]
      <3>1. /\ calls'[s] = (calls[s] \ {c}) \cup {d} /\ calls'[Peer(s)] = calls[Peer(s)]
            /\ d.pc = pc
        BY <2>1, <2>3, Went
      <3> HIDE DEF d
      <3> QED
        BY <3>1, Peers DEF Finishing
    <2>4. CASE Replace(s, c, afterSend(c, c.hop + 1))
      <3> DEFINE new == afterSend(c, c.hop + 1)
      <3>1. /\ calls'[s] = (calls[s] \ {c}) \cup new /\ calls'[Peer(s)] = calls[Peer(s)]
            /\ c.hop + 1 \in Nat
        BY <2>1, <2>4, CallsSent
      <3>2. [c EXCEPT !.pc = "complete"].pc = "complete"
        BY <2>1, Moved
      <3>3. \A d \in new : d.pc \in {"complete", "await"}
        BY <2>1, <3>1, <3>2, AfterSend
      <3> HIDE DEF new
      <3>4. G
        BY <3>1, <3>3, Peers DEF Finishing
      <3> QED
        BY <2>1, <3>4
    <2> QED
      BY <2>1, <2>2, <2>3, <2>4
  <1>7. ASSUME NEW s \in Sides, NEW m \in msgs, deliver(s, m) \/ dropDatagram(s, m)
        PROVE  U /\ G /\ R
    BY <1>7 DEF deliver, dropDatagram, endVars, runVars
  <1>8. ASSUME NEW s \in Sides, sessionEnds(s) \/ cancel(s)
        PROVE  U /\ G /\ R
    BY <1>8 DEF sessionEnds, cancel, endVars, runVars
  <1>9. CASE UNCHANGED vars
    BY <1>9 DEF vars, endVars, runVars
  <1> QED
    BY NextCases, <1>2, <1>3, <1>4, <1>5, <1>6, <1>7, <1>8, <1>9

(* Where a call that finishes goes.                                        *)
LEMMA FinishCases ==
    ASSUME TypeOK, CountInv, NEW s \in Sides, NEW c \in calls[s],
           completeOne(s, c) \/ finishErr(s, c) \/ finishLook(s, c) \/ finishClose(s, c)
    PROVE  /\ UNCHANGED <<run, sess, cancelled, faults>>
           /\ \A t \in Sides \ {s} :
                 /\ calls'[t] = calls[t] /\ done'[t] = done[t] /\ err'[t] = err[t]
                 /\ crashed'[t] = crashed[t] /\ active'[t] = active[t]
           /\ \/ /\ completeOne(s, c) /\ UNCHANGED <<done, err, crashed>>
                 /\ c.pc = "complete" /\ active[s] >= 1
                 /\ \/ calls'[s] = calls[s] \ {c}
                    \/ /\ active'[s] = 0
                       /\ \E d : d.pc = "look" /\ calls'[s] = (calls[s] \ {c}) \cup {d}
              \/ /\ finishErr(s, c) /\ UNCHANGED <<done, active, crashed>>
                 /\ c.pc = "setErr" /\ err'[s] # "nil"
                 /\ \E d : d.pc = "look" /\ calls'[s] = (calls[s] \ {c}) \cup {d}
              \/ /\ finishLook(s, c) /\ UNCHANGED <<done, err, active, crashed>>
                 /\ c.pc = "look"
                 /\ \/ calls'[s] = calls[s] \ {c}
                    \/ /\ ~done[s]
                       /\ \E d : d.pc = "close" /\ calls'[s] = (calls[s] \ {c}) \cup {d}
              \/ /\ finishClose(s, c) /\ UNCHANGED <<err, active>>
                 /\ c.pc = "close" /\ done'[s] /\ crashed'[s] = done[s]
                 /\ calls'[s] = calls[s] \ {c}
  <1>1. UNCHANGED <<run, sess, cancelled, faults>>
    BY DEF completeOne, finishErr, finishLook, finishClose, netVars, envVars, runVars
  <1>2. \A t \in Sides \ {s} :
           /\ done'[t] = done[t] /\ err'[t] = err[t]
           /\ crashed'[t] = crashed[t] /\ active'[t] = active[t]
    BY DEF completeOne, finishErr, finishLook, finishClose, endVars, TypeOK
  <1>3. ASSUME NEW pc \in {"look", "close"}, Goto(s, c, pc)
        PROVE  /\ calls'[Peer(s)] = calls[Peer(s)]
               /\ \E d : d.pc = pc /\ calls'[s] = (calls[s] \ {c}) \cup {d}
    <2> DEFINE d == [c EXCEPT !.pc = pc]
    <2>1. /\ calls'[s] = (calls[s] \ {c}) \cup {d} /\ calls'[Peer(s)] = calls[Peer(s)]
          /\ d.pc = pc
      BY <1>3, Went
    <2> HIDE DEF d
    <2> QED
      BY <2>1
  <1>4. ASSUME Return(s, c)
        PROVE  calls'[Peer(s)] = calls[Peer(s)] /\ calls'[s] = calls[s] \ {c}
    BY <1>4, Ended
  <1>5. Return(s, c) \/ Goto(s, c, "look") \/ Goto(s, c, "close")
    BY DEF completeOne, finishErr, finishLook, finishClose
  <1>6. \A t \in Sides \ {s} : calls'[t] = calls[t]
    BY <1>3, <1>4, <1>5, Peers
  <1>7. CASE completeOne(s, c)
    <2>1. c.pc = "complete" /\ UNCHANGED <<done, err, crashed>>
      BY <1>7 DEF completeOne, endVars
    <2>2. active[s] \in 1 .. Count
      BY <2>1, SomeLeft DEF Completing
    <2>3. active'[s] = active[s] - 1
      BY <1>7 DEF completeOne, TypeOK
    <2>4. Return(s, c) \/ (active[s] - 1 <= 0 /\ Goto(s, c, "look"))
      BY <1>7 DEF completeOne, lastOne
    <2>5. active[s] >= 1 /\ (active[s] - 1 <= 0 => active'[s] = 0)
      BY <2>2, <2>3, BatonAssumption
    <2> QED
      BY <1>1, <1>2, <1>3, <1>4, <1>6, <1>7, <2>1, <2>4, <2>5
  <1>8. CASE finishErr(s, c)
    <2>1. c.pc = "setErr" /\ UNCHANGED <<done, active, crashed>> /\ Goto(s, c, "look")
      BY <1>8 DEF finishErr
    <2>2. err'[s] # "nil"
      BY <1>8 DEF finishErr, TypeOK
    <2> QED
      BY <1>1, <1>2, <1>3, <1>6, <1>8, <2>1, <2>2
  <1>9. CASE finishLook(s, c)
    <2>1. /\ c.pc = "look" /\ UNCHANGED <<done, err, active, crashed>>
          /\ Return(s, c) \/ (~done[s] /\ Goto(s, c, "close"))
      BY <1>9 DEF finishLook, endVars
    <2> QED
      BY <1>1, <1>2, <1>3, <1>4, <1>6, <1>9, <2>1
  <1>10. CASE finishClose(s, c)
    <2>1. c.pc = "close" /\ UNCHANGED <<err, active>> /\ Return(s, c)
      BY <1>10 DEF finishClose
    <2>2. done'[s] /\ crashed'[s] = done[s]
      BY <1>10 DEF finishClose, TypeOK
    <2> QED
      BY <1>1, <1>2, <1>4, <1>6, <1>10, <2>1, <2>2
  <1> QED
    BY <1>7, <1>8, <1>9, <1>10

LEMMA EndKept ==
    ASSUME TypeOK, CountInv, EndInv, [Next]_vars
    PROVE  EndInv'
  <1>1. ASSUME NEW s \in Sides, NEW c \in calls[s],
               completeOne(s, c) \/ finishErr(s, c) \/ finishLook(s, c) \/ finishClose(s, c)
        PROVE  EndInv'
    <2> SUFFICES ASSUME NEW t \in Sides
                 PROVE  /\ \A d \in calls'[t] : d.pc \in Finishing =>
                              err'[t] # "nil" \/ active'[t] = 0
                        /\ done'[t] => err'[t] # "nil" \/ active'[t] = 0
                        /\ run'[t] \in {"drain", "returned"} => done'[t]
                        /\ crashed'[t] => done'[t]
      BY DEF EndInv
    <2>1. run' = run
      BY <1>1, FinishCases
    <2>2. CASE t # s
      <3>1. /\ calls'[t] = calls[t] /\ done'[t] = done[t] /\ err'[t] = err[t]
            /\ crashed'[t] = crashed[t] /\ active'[t] = active[t]
        BY <1>1, <2>2, FinishCases
      <3> QED
        BY <2>1, <3>1 DEF EndInv
    <2>3. CASE t = s
      <3>1. CASE completeOne(s, c)
        <4>1. /\ UNCHANGED <<done, err, crashed>> /\ active[s] >= 1
              /\ \/ calls'[s] = calls[s] \ {c}
                 \/ active'[s] = 0
          BY <3>1, FinishCases DEF completeOne, finishErr, finishLook, finishClose
        <4>2. active[s] # 0
          BY <4>1 DEF TypeOK
        <4> QED
          BY <2>1, <2>3, <4>1, <4>2 DEF EndInv
      <3>2. CASE finishErr(s, c)
        <4>1. UNCHANGED <<done, crashed>> /\ err'[s] # "nil"
          BY <3>2, FinishCases DEF completeOne, finishErr, finishLook, finishClose
        <4> QED
          BY <2>1, <2>3, <4>1 DEF EndInv
      <3>3. CASE finishLook(s, c)
        <4>1. UNCHANGED <<done, err, active, crashed>> /\ c.pc = "look"
          BY <3>3, FinishCases DEF completeOne, finishErr, finishLook, finishClose
        <4>2. err[s] # "nil" \/ active[s] = 0
          BY <4>1 DEF EndInv, Finishing
        <4> QED
          BY <2>1, <2>3, <4>1, <4>2 DEF EndInv
      <3>4. CASE finishClose(s, c)
        <4>1. UNCHANGED <<err, active>> /\ c.pc = "close" /\ done'[s]
          BY <3>4, FinishCases DEF completeOne, finishErr, finishLook, finishClose
        <4>2. err[s] # "nil" \/ active[s] = 0
          BY <4>1 DEF EndInv, Finishing
        <4> QED
          BY <2>1, <2>3, <4>1, <4>2 DEF EndInv
      <3> QED
        BY <1>1, <3>1, <3>2, <3>3, <3>4
    <2> QED
      BY <2>2, <2>3
  <1>2. CASE ~\E s \in Sides : \E c \in calls[s] :
               completeOne(s, c) \/ finishErr(s, c) \/ finishLook(s, c) \/ finishClose(s, c)
    BY <1>2, NoFinish, EndOther
  <1> QED
    BY <1>1, <1>2

-----------------------------------------------------------------------------
(* An exchange without faults.                                             *)

(* Once the session is closed there is nothing left to send.               *)
LEMMA NothingToSend ==
    ASSUME TypeOK, CountInv, EndInv, CalmInv, ~Disturbed,
           NEW s \in Sides, sess[s] # "open"
    PROVE  /\ setupNext > Count
           /\ \A b \in Batons, t \in Sides : \A x \in CarriersAt(b, t) : val(x.hop) = 0
  <1>1. PICK t \in Sides : done[t]
    BY DEF CalmInv
  <1>2. active[t] = 0
    BY <1>1 DEF CalmInv, EndInv
  <1> QED
    BY <1>2, AllCounted

LEMMA FaultsCount ==
    ASSUME TypeOK, [Next]_vars
    PROVE  /\ faults \in Nat /\ faults' \in {faults, faults + 1}
           /\ faults' = faults => cancelled' = cancelled
           /\ \A s \in Sides : refused(s) /\ faults' = faults => sess[s] # "open"
  <1>1. faults \in Nat
    BY BatonAssumption DEF TypeOK
  <1>2. \A s \in Sides : refused(s) => faults' \in {faults, faults + 1}
    BY DEF refused
  <1>3. \A s \in Sides : refused(s) /\ faults' = faults => sess[s] # "open"
    BY <1>1 DEF refused
  <1> DEFINE G == /\ faults' \in {faults, faults + 1}
                  /\ faults' = faults => cancelled' = cancelled
  <1>4. setup => G
    BY <1>2 DEF setup, Sides
  <1>5. ASSUME NEW s \in Sides, contextEnded(s) \/ doneSeen(s) \/ RunReturns(s)
        PROVE  G
    BY <1>5 DEF contextEnded, doneSeen, RunReturns, envVars
  <1>6. ASSUME NEW s \in Sides, NEW m \in msgs,
               acceptLoop(s, m) \/ datagramLoop(s, m) \/ deliver(s, m) \/ dropDatagram(s, m)
        PROVE  G
    BY <1>6 DEF acceptLoop, datagramLoop, deliver, dropDatagram, envVars
  <1>7. ASSUME NEW s \in Sides, NEW c \in calls[s], handleIncoming(s, c)
        PROVE  G
    BY <1>2, <1>7, HandleCases
  <1>8. ASSUME NEW s \in Sides, NEW c \in calls[s],
               \/ readReply(s, c) \/ handleDatagram(s, c) \/ completeOne(s, c) \/ fail(s, c)
               \/ finishErr(s, c) \/ finishLook(s, c) \/ finishClose(s, c)
        PROVE  G
    BY <1>8 DEF readReply, handleDatagram, ignoreDatagram, completeOne, fail, finishErr,
                finishLook, finishClose, envVars
  <1>9. ASSUME NEW s \in Sides, sessionEnds(s) \/ cancel(s)
        PROVE  G
    BY <1>1, <1>9 DEF sessionEnds, cancel, envVars
  <1>10. UNCHANGED vars => G
    BY DEF vars, envVars
  <1> QED
    BY NextCases, <1>1, <1>3, <1>4, <1>5, <1>6, <1>7, <1>8, <1>9, <1>10

(* The session of a side ends only when one of them is done.               *)
LEMMA SessionEnding ==
    ASSUME TypeOK, EndInv, [Next]_vars, NEW s \in Sides, sess'[s] # "open"
    PROVE  sess[s] # "open" \/ \E t \in Sides : done[t]
  <1> DEFINE G == sess[s] # "open" \/ \E t \in Sides : done[t]
  <1>1. CASE sess' = sess
    BY <1>1
  <1>2. ASSUME NEW t \in Sides, RunReturns(t)
        PROVE  G
    <2>1. done[t]
      BY <1>2 DEF RunReturns, EndInv
    <2> QED
      BY <2>1
  <1>3. ASSUME NEW t \in Sides, NEW m \in msgs, deliver(t, m)
        PROVE  G
    BY <1>3 DEF deliver, TypeOK
  <1>4. ASSUME NEW t \in Sides, sessionEnds(t)
        PROVE  G
    <2>1. run[Peer(t)] = "returned" \/ crashed[Peer(t)]
      BY <1>4 DEF sessionEnds
    <2>2. done[Peer(t)] /\ Peer(t) \in Sides
      BY <2>1, Peers DEF EndInv
    <2> QED
      BY <2>2
  <1>5. \/ sess' = sess
        \/ \E t \in Sides : RunReturns(t) \/ sessionEnds(t)
        \/ \E t \in Sides, m \in msgs : deliver(t, m)
    <2>1. setup => sess' = sess
      BY DEF setup
    <2>2. \A t \in Sides : contextEnded(t) \/ doneSeen(t) \/ cancel(t) => sess' = sess
      BY DEF contextEnded, doneSeen, cancel, netVars
    <2>3. \A t \in Sides, m \in msgs :
             acceptLoop(t, m) \/ datagramLoop(t, m) \/ dropDatagram(t, m) => sess' = sess
      BY DEF acceptLoop, datagramLoop, dropDatagram
    <2>4. \A t \in Sides : \A c \in calls[t] :
             (\/ readReply(t, c) \/ handleIncoming(t, c) \/ handleDatagram(t, c)
              \/ completeOne(t, c) \/ fail(t, c)
              \/ finishErr(t, c) \/ finishLook(t, c) \/ finishClose(t, c)) => sess' = sess
      BY DEF readReply, handleIncoming, handleDatagram, completeOne, fail, finishErr,
             finishLook, finishClose, netVars
    <2>5. UNCHANGED vars => sess' = sess
      BY DEF vars, netVars
    <2> QED
      BY NextCases, <2>1, <2>2, <2>3, <2>4, <2>5
  <1> QED
    BY <1>1, <1>2, <1>3, <1>4, <1>5

(* Nobody goes to fail.                                                    *)
LEMMA NobodyFails ==
    ASSUME TypeOK, CountInv, EndInv, CalmInv, [Next]_vars, ~Disturbed, faults' = faults,
           NEW t \in Sides, NEW d \in calls'[t]
    PROVE  d.pc \notin {"fail", "setErr"}
  <1> DEFINE Failing == {"fail", "setErr"}
  <1>1. \A s \in Sides : \A c \in calls[s] : c.pc \notin Failing
    BY DEF CalmInv
  <1> HIDE DEF Failing
  <1>2. CASE calls' = calls
    BY <1>1, <1>2 DEF Failing
  <1>3. CASE setup
    <2>1. calls' = calls \/ (setupNext <= Count /\ refused("server"))
      BY <1>3 DEF setup
    <2>2. refused("server") => sess["server"] # "open"
      BY FaultsCount DEF Sides
    <2>3. sess["server"] # "open" => setupNext > Count
      BY NothingToSend DEF Sides
    <2>4. ~(setupNext <= Count /\ setupNext > Count)
      BY BatonAssumption DEF TypeOK
    <2> QED
      BY <1>2, <2>1, <2>2, <2>3, <2>4
  <1>4. ASSUME NEW s \in Sides, contextEnded(s) \/ doneSeen(s) \/ RunReturns(s)
        PROVE  calls' = calls
    <2>1. ~cancelled[s]
      BY DEF CalmInv
    <2> QED
      BY <1>4, <2>1 DEF contextEnded, doneSeen, RunReturns
  <1>5. ASSUME NEW s \in Sides, NEW m \in msgs, acceptLoop(s, m) \/ datagramLoop(s, m)
        PROVE  d.pc \notin Failing
    <2> DEFINE e == Call(m.b, m.hop, m.kind, "handle")
    <2>1. /\ calls'[s] = calls[s] \cup {e} /\ calls'[Peer(s)] = calls[Peer(s)]
          /\ e.pc = "handle"
      BY <1>5, CallsTaken
    <2> HIDE DEF e
    <2>2. e.pc \notin Failing
      BY <2>1 DEF Failing
    <2> QED
      BY <1>1, <2>1, <2>2, Peers
  <1>6. ASSUME NEW s \in Sides, NEW c \in calls[s], Return(s, c)
        PROVE  d.pc \notin Failing
    <2>1. calls'[s] = calls[s] \ {c} /\ calls'[Peer(s)] = calls[Peer(s)]
      BY <1>6, Ended
    <2> QED
      BY <1>1, <2>1, Peers
  <1>7. ASSUME NEW s \in Sides, NEW c \in calls[s], NEW pc \in {"handle", "complete", "look", "close"},
               Goto(s, c, pc), pc \in {"handle", "complete"} => c.pc \in {"await", "handle"}
        PROVE  d.pc \notin Failing
    <2> DEFINE e == [c EXCEPT !.pc = pc]
    <2>1. pc \in {"handle", "complete"} => c \in HandlerCalls
      BY <1>7 DEF TypeOK, RunCalls
    <2>2. /\ calls'[s] = (calls[s] \ {c}) \cup {e} /\ calls'[Peer(s)] = calls[Peer(s)]
          /\ e.pc = pc
      BY <1>7, <2>1, Went
    <2> HIDE DEF e
    <2>3. e.pc \notin Failing
      BY <2>2 DEF Failing
    <2> QED
      BY <1>1, <2>2, <2>3, Peers
  <1>8. ASSUME NEW s \in Sides, NEW c \in calls[s], handleIncoming(s, c)
        PROVE  d.pc \notin Failing
    <2>1. c \in HandlerCalls /\ c.pc = "handle" /\ c.kind \in {"uni", "peer", "self"}
      BY <1>8, HandleCases
    <2>2. \/ Goto(s, c, "complete")
          \/ Replace(s, c, afterSend(c, c.hop + 1))
          \/ val(c.hop) # 0 /\ refused(s)
      BY <1>8, HandleCases
    <2>3. ~(val(c.hop) # 0 /\ refused(s))
      <3>1. c.b \in Batons /\ c \in CarriersAt(c.b, s)
        BY <2>1 DEF CarriersAt, HandlerCalls
      <3> QED
        BY <3>1, FaultsCount, NothingToSend
    <2>4. CASE Goto(s, c, "complete")
      BY <1>7, <2>1, <2>4
    <2>5. CASE Replace(s, c, afterSend(c, c.hop + 1))
      <3> DEFINE new == afterSend(c, c.hop + 1)
      <3>1. /\ calls'[s] = (calls[s] \ {c}) \cup new /\ calls'[Peer(s)] = calls[Peer(s)]
            /\ c.hop + 1 \in Nat
        BY <2>1, <2>5, CallsSent
      <3>2. [c EXCEPT !.pc = "complete"].pc = "complete"
        BY <2>1, Moved
      <3>3. \A e \in new : e.pc \in {"complete", "await"}
        BY <2>1, <3>1, <3>2, AfterSend
      <3> HIDE DEF new
      <3>4. \A e \in new : e.pc \notin Failing
        BY <3>3 DEF Failing
      <3> QED
        BY <1>1, <3>1, <3>4, Peers
    <2> QED
      BY <2>2, <2>3, <2>4, <2>5
  <1>9. ASSUME NEW s \in Sides, NEW c \in calls[s],
               \/ readReply(s, c) \/ handleDatagram(s, c) \/ completeOne(s, c) \/ fail(s, c)
               \/ finishErr(s, c) \/ finishLook(s, c) \/ finishClose(s, c)
        PROVE  d.pc \notin Failing
    <2>1. ~fail(s, c) /\ ~finishErr(s, c)
      BY <1>1 DEF fail, finishErr, Failing
    <2>2. \/ Return(s, c)
          \/ Goto(s, c, "handle") /\ c.pc = "await"
          \/ Goto(s, c, "look") \/ Goto(s, c, "close")
      BY <1>9, <2>1 DEF readReply, handleDatagram, ignoreDatagram, completeOne, finishLook,
                        finishClose
    <2> QED
      BY <1>6, <1>7, <2>2
  <1>10. ASSUME NEW s \in Sides, NEW m \in msgs, deliver(s, m) \/ dropDatagram(s, m)
         PROVE  calls' = calls
    BY <1>10 DEF deliver, dropDatagram
  <1>11. ASSUME NEW s \in Sides, sessionEnds(s) \/ cancel(s)
         PROVE  calls' = calls
    BY <1>11 DEF sessionEnds, cancel
  <1>12. UNCHANGED vars => calls' = calls
    BY DEF vars
  <1>13. d.pc \notin Failing
    BY NextCases, <1>2, <1>3, <1>4, <1>5, <1>8, <1>9, <1>10, <1>11, <1>12 DEF Failing
  <1> QED
    BY <1>13 DEF Failing

LEMMA CalmKept ==
    ASSUME TypeOK, CountInv, EndInv, CalmInv, [Next]_vars
    PROVE  CalmInv'
  <1>1. SUFFICES ASSUME ~Disturbed', NEW t \in Sides
                 PROVE  /\ err'[t] = "nil" /\ ~crashed'[t] /\ ~cancelled'[t]
                        /\ \A c \in calls'[t] : c.pc \notin {"fail", "setErr"}
                        /\ \A c, d \in calls'[t] :
                              c.pc \in Finishing /\ d.pc \in Finishing => c = d
                        /\ done'[t] => \A c \in calls'[t] : c.pc \notin Finishing
                        /\ sess'[t] # "open" => \E u \in Sides : done'[u]
    BY DEF CalmInv, Disturbed
  <1>2. faults' = faults /\ ~Disturbed /\ cancelled' = cancelled
    BY <1>1, FaultsCount DEF Disturbed
  <1>3. \A c \in calls'[t] : c.pc \notin {"fail", "setErr"}
    BY <1>2, NobodyFails
  <1> DEFINE One(u) == \A c, d \in calls[u] : c.pc \in Finishing /\ d.pc \in Finishing => c = d
             Over(u) == done[u] => \A c \in calls[u] : c.pc \notin Finishing
  <1>4. \A u \in Sides : /\ err[u] = "nil" /\ ~crashed[u] /\ ~cancelled[u]
                         /\ One(u) /\ Over(u)
                         /\ \A c \in calls[u] : c.pc # "setErr"
                         /\ sess[u] # "open" => \E v \in Sides : done[v]
    BY <1>2 DEF CalmInv
  <1>5. /\ err'[t] = "nil" /\ ~crashed'[t]
        /\ \A c, d \in calls'[t] : c.pc \in Finishing /\ d.pc \in Finishing => c = d
        /\ done'[t] => \A c \in calls'[t] : c.pc \notin Finishing
        /\ \A u \in Sides : done[u] => done'[u]
    <2>1. CASE ~\E s \in Sides : \E c \in calls[s] :
                 completeOne(s, c) \/ finishErr(s, c) \/ finishLook(s, c) \/ finishClose(s, c)
      <3>1. /\ UNCHANGED <<done, err, crashed>>
            /\ \A c \in calls'[t] : c.pc \in Finishing => c \in calls[t]
        BY <2>1, NoFinish
      <3> QED
        BY <1>4, <3>1
    <2>2. ASSUME NEW s \in Sides, NEW c \in calls[s],
                 completeOne(s, c) \/ finishErr(s, c) \/ finishLook(s, c) \/ finishClose(s, c)
          PROVE  <1>5!:
      <3>1. \A u \in Sides \ {s} :
               /\ calls'[u] = calls[u] /\ done'[u] = done[u] /\ err'[u] = err[u]
               /\ crashed'[u] = crashed[u]
        BY <2>2, FinishCases
      <3>2. /\ err'[s] = "nil" /\ ~crashed'[s]
            /\ \A x, y \in calls'[s] : x.pc \in Finishing /\ y.pc \in Finishing => x = y
            /\ done'[s] => \A x \in calls'[s] : x.pc \notin Finishing
            /\ done[s] => done'[s]
        <4>1. CASE completeOne(s, c)
          <5>1. /\ UNCHANGED <<done, err, crashed>> /\ active[s] >= 1
                /\ \/ calls'[s] = calls[s] \ {c}
                   \/ \E d : d.pc = "look" /\ calls'[s] = (calls[s] \ {c}) \cup {d}
            BY <4>1, FinishCases DEF completeOne, finishErr, finishLook, finishClose
          <5>2. active[s] # 0
            BY <5>1 DEF TypeOK
          <5>3. ~done[s] /\ \A x \in calls[s] : x.pc \notin Finishing
            BY <1>4, <5>2 DEF EndInv
          <5> QED
            BY <1>4, <5>1, <5>3
        <4>2. ~finishErr(s, c)
          BY <1>4 DEF finishErr
        <4>3. CASE finishLook(s, c)
          <5>1. /\ UNCHANGED <<done, err, crashed>> /\ c.pc = "look"
                /\ \/ calls'[s] = calls[s] \ {c}
                   \/ ~done[s] /\ \E d : calls'[s] = (calls[s] \ {c}) \cup {d}
            BY <4>3, FinishCases DEF completeOne, finishErr, finishLook, finishClose
          <5>2. \A x \in calls[s] \ {c} : x.pc \notin Finishing
            BY <1>4, <5>1 DEF Finishing
          <5> QED
            BY <1>4, <5>1, <5>2
        <4>4. CASE finishClose(s, c)
          <5>1. /\ UNCHANGED err /\ c.pc = "close" /\ done'[s] /\ crashed'[s] = done[s]
                /\ calls'[s] = calls[s] \ {c}
            BY <4>4, FinishCases DEF completeOne, finishErr, finishLook, finishClose
          <5>2. c.pc \in Finishing
            BY <5>1 DEF Finishing
          <5>3. ~done[s] /\ \A x \in calls[s] \ {c} : x.pc \notin Finishing
            BY <1>4, <5>2
          <5> QED
            BY <1>4, <5>1, <5>3
        <4> QED
          BY <2>2, <4>1, <4>2, <4>3, <4>4
      <3>3. CASE t = s
        BY <3>1, <3>2, <3>3
      <3>4. CASE t # s
        BY <1>4, <3>1, <3>2, <3>4
      <3> QED
        BY <3>3, <3>4
    <2> QED
      BY <2>1, <2>2
  <1>6. sess'[t] # "open" => \E u \in Sides : done'[u]
    BY <1>4, <1>5, SessionEnding
  <1> QED
    BY <1>2, <1>3, <1>4, <1>5, <1>6

-----------------------------------------------------------------------------
(* The invariant, and what follows from it.                                *)

LEMMA InvInit ==
    ASSUME Init
    PROVE  BatonInv
  <1>1. \A b, s : s \in Sides => CarriersAt(b, s) = {}
    BY DEF Init, CarriersAt
  <1>2. \A s \in Sides : calls[s] = {} /\ Completing(s) = {}
    BY DEF Init, Completing
  <1>3. TypeOK
    BY BatonAssumption DEF Init, TypeOK
  <1>4. Alone
    BY <1>1 DEF Alone
  <1>5. CountInv
    <2> SUFFICES ASSUME NEW s \in Sides
                 PROVE  CountAt(s)
      BY DEF CountInv
    <2>1. IsFiniteSet(Batons) /\ Cardinality(Batons) = Count
      BY BatonAssumption, FS_Interval DEF Batons
    <2>2. Open(s) \subseteq Batons
      BY DEF Open
    <2>3. Cardinality(Open(s)) <= Count
      BY <2>1, <2>2, FS_Subset
    <2>4. active[s] = Count
      BY DEF Init
    <2>5. \A b \in Batons : ~Pending(s, b)
      BY <1>2 DEF Pending
    <2> QED
      BY <1>2, <2>3, <2>4, <2>5 DEF CountAt
  <1>6. EndInv
    BY <1>2 DEF Init, EndInv
  <1>7. CalmInv
    BY <1>2 DEF Init, CalmInv
  <1> QED
    BY <1>3, <1>4, <1>5, <1>6, <1>7 DEF BatonInv

LEMMA Invariance == Spec => []BatonInv
  <1>1. BatonInv /\ [Next]_vars => BatonInv'
    <2> SUFFICES ASSUME BatonInv, [Next]_vars
                 PROVE  BatonInv'
      OBVIOUS
    <2>1. TypeOK /\ Alone /\ CountInv /\ EndInv /\ CalmInv
      BY DEF BatonInv
    <2>2. TypeOK' /\ Alone' /\ CountInv' /\ EndInv' /\ CalmInv'
      BY <2>1, TypeKept, AloneKept, CountKept, EndKept, CalmKept
    <2> QED
      BY <2>2 DEF BatonInv
  <1> QED
    BY InvInit, <1>1, PTL DEF Spec

(* Every variable stays in its type: the values a handler may be in, the   *)
(* messages there are, and 0 .. Count for active, which is never counted   *)
(* below 0 (completeOne).                                                  *)
THEOREM TypeCorrect == Spec => []TypeOK
  <1>1. BatonInv => TypeOK
    BY DEF BatonInv
  <1> QED
    BY <1>1, Invariance, PTL

(* A side that ends without an error ends it for both, however many batons *)
(* there are and wherever they start (completeOne, finish).                *)
THEOREM DoneComplete == Spec => []DoneIsComplete
  <1>1. BatonInv => DoneIsComplete
    <2> SUFFICES ASSUME BatonInv, NEW s \in Sides, done[s], err[s] = "nil"
                 PROVE  setupNext > Count /\
                           \A b \in Batons : \A x \in Carriers(b) : val(x.hop) = 0
      BY DEF DoneIsComplete
    <2>1. TypeOK /\ CountInv /\ active[s] = 0
      BY DEF BatonInv, EndInv
    <2>2. /\ setupNext > Count
          /\ \A b \in Batons, t \in Sides : \A x \in CarriersAt(b, t) : val(x.hop) = 0
      BY <2>1, AllCounted
    <2> QED
      BY <2>2 DEF Carriers, Sides
  <1> QED
    BY <1>1, Invariance, PTL

(* Undisturbed, no side meets an error or closes done twice: whoever is    *)
(* done first and closes the session leaves the other nothing to send      *)
(* (Run, completeOne, fail, finish).                                       *)
THEOREM NoErrorByItself == Spec => []NoSpuriousError
  <1>1. BatonInv => NoSpuriousError
    BY DEF BatonInv, CalmInv, NoSpuriousError
  <1> QED
    BY <1>1, Invariance, PTL

-----------------------------------------------------------------------------
(* The refinement.                                                         *)

(* WhereIs, of the carriers at each side.                                  *)
Place(atServer, atClient, next, b) ==
    CASE atServer \cup atClient = {} /\ next <= b -> [place |-> "unsent", hop |-> 0]
      [] atServer \cup atClient = {} /\ next > b  -> [place |-> "gone", hop |-> 0]
      [] Cardinality(atServer \cup atClient) > 1 -> [place |-> "forked", hop |-> 0]
      [] Cardinality(atServer \cup atClient) = 1 ->
            [place |-> IF atClient = {} THEN "server" ELSE "client",
             hop   |-> (CHOOSE x \in atServer \cup atClient : TRUE).hop]

LEMMA Places ==
    /\ \A b : WhereIs(b) =
          Place(CarriersAt(b, "server"), CarriersAt(b, "client"), setupNext, b)
    /\ \A b : WhereIs(b)' =
          Place(CarriersAt(b, "server")', CarriersAt(b, "client")', setupNext', b)
  BY DEF WhereIs, Place

LEMMA PlaceNone ==
    ASSUME NEW next \in Int, NEW b \in Int, NEW none, none = {}
    PROVE  Place(none, none, next, b) = IF next <= b THEN Ring!Unsent ELSE Ring!Gone
  <1>1. /\ none \cup none = none
        /\ Cardinality(none) = 0 /\ ~(Cardinality(none) > 1) /\ Cardinality(none) # 1
    BY FS_EmptySet
  <1>2. ASSUME next <= b
        PROVE  Place(none, none, next, b) = Ring!Unsent
    <2>1. ~(next > b)
      BY <1>2
    <2> QED
      BY <1>1, <1>2, <2>1 DEF Place, Ring!Unsent
  <1>3. ASSUME ~(next <= b)
        PROVE  Place(none, none, next, b) = Ring!Gone
    <2>1. next > b
      BY <1>3
    <2> QED
      BY <1>1, <1>3, <2>1 DEF Place, Ring!Gone
  <1> QED
    BY <1>2, <1>3

LEMMA PlaceOne ==
    ASSUME NEW next, NEW b, NEW x, NEW one, NEW none, one = {x}, none = {}
    PROVE  /\ Place(one, none, next, b) = [place |-> "server", hop |-> x.hop]
           /\ Place(none, one, next, b) = [place |-> "client", hop |-> x.hop]
  <1>1. Cardinality(one) = 1 /\ ~(Cardinality(one) > 1)
    BY FS_Singleton
  <1>2. one \cup none = one /\ none \cup one = one /\ one # {}
    OBVIOUS
  <1>3. (CHOOSE y \in one : TRUE) = x
    OBVIOUS
  <1> QED
    BY <1>1, <1>2, <1>3 DEF Place

(* Where a baton is.                                                       *)
LEMMA Lone ==
    ASSUME Alone, NEW b \in Batons, NEW s \in Sides, NEW x \in CarriersAt(b, s)
    PROVE  /\ CarriersAt(b, s) = {x} /\ CarriersAt(b, Peer(s)) = {} /\ b < setupNext
           /\ WhereIs(b) = [place |-> s, hop |-> x.hop]
  <1>1. CarriersAt(b, s) = {x} /\ CarriersAt(b, Peer(s)) = {} /\ b < setupNext
    BY DEF Alone
  <1>2. CASE s = "server"
    <2>1. CarriersAt(b, "server") = {x} /\ CarriersAt(b, "client") = {}
      BY <1>1, <1>2 DEF Peer
    <2>2. WhereIs(b) = Place(CarriersAt(b, "server"), CarriersAt(b, "client"), setupNext, b)
      BY Places
    <2> QED
      BY <1>1, <1>2, <2>1, <2>2, PlaceOne
  <1>3. CASE s = "client"
    <2>1. CarriersAt(b, "server") = {} /\ CarriersAt(b, "client") = {x}
      BY <1>1, <1>3 DEF Peer
    <2>2. WhereIs(b) = Place(CarriersAt(b, "server"), CarriersAt(b, "client"), setupNext, b)
      BY Places
    <2> QED
      BY <1>1, <1>3, <2>1, <2>2, PlaceOne
  <1> QED
    BY <1>1, <1>2, <1>3 DEF Sides

LEMMA LoneNext ==
    ASSUME NEW b, NEW s \in Sides, NEW y,
           CarriersAt(b, s)' = {y}, CarriersAt(b, Peer(s))' = {}
    PROVE  WhereIs(b)' = [place |-> s, hop |-> y.hop]
  <1>1. CASE s = "server"
    <2>1. CarriersAt(b, "server")' = {y} /\ CarriersAt(b, "client")' = {}
      BY <1>1 DEF Peer
    <2>2. WhereIs(b)' = Place(CarriersAt(b, "server")', CarriersAt(b, "client")', setupNext', b)
      BY Places
    <2> QED
      BY <1>1, <2>1, <2>2, PlaceOne
  <1>2. CASE s = "client"
    <2>1. CarriersAt(b, "server")' = {} /\ CarriersAt(b, "client")' = {y}
      BY <1>2 DEF Peer
    <2>2. WhereIs(b)' = Place(CarriersAt(b, "server")', CarriersAt(b, "client")', setupNext', b)
      BY Places
    <2> QED
      BY <1>2, <2>1, <2>2, PlaceOne
  <1> QED
    BY <1>1, <1>2 DEF Sides

(* A baton whose carriers stay is where it was, unless setup just came to  *)
(* it.                                                                     *)
LEMMA Stays ==
    ASSUME Alone, NEW b \in Batons, \A s \in Sides : CarriersAt(b, s)' = CarriersAt(b, s),
           setupNext \in Int, setupNext' \in Int, setupNext <= b <=> setupNext' <= b
    PROVE  WhereIs(b)' = WhereIs(b)
  <1>1. b \in Int
    BY BatonAssumption DEF Batons
  <1>2. CASE \A s \in Sides : CarriersAt(b, s) = {}
    <2>1. /\ CarriersAt(b, "server") = {} /\ CarriersAt(b, "client") = {}
          /\ CarriersAt(b, "server")' = {} /\ CarriersAt(b, "client")' = {}
      BY <1>2 DEF Sides
    <2> QED
      BY <1>1, <2>1, Places, PlaceNone
  <1>3. ASSUME NEW s \in Sides, NEW x \in CarriersAt(b, s)
        PROVE  WhereIs(b)' = WhereIs(b)
    <2>1. /\ CarriersAt(b, s) = {x} /\ CarriersAt(b, Peer(s)) = {}
          /\ WhereIs(b) = [place |-> s, hop |-> x.hop]
      BY <1>3, Lone
    <2>2. CarriersAt(b, s)' = {x} /\ CarriersAt(b, Peer(s))' = {}
      BY <2>1, Peers
    <2> QED
      BY <2>1, <2>2, LoneNext
  <1> QED
    BY <1>2, <1>3

(* A step of the exchange is a step of the ring, or none.                  *)
RingStep ==
    \/ \A b \in Batons : WhereIs(b)' = WhereIs(b)
    \/ \E b \in Batons :
          /\ WhereIs(b)' \in Ring!Moves(WhereIs(b))
          /\ \A c \in Batons \ {b} : WhereIs(c)' = WhereIs(c)

LEMMA StepIsRingStep ==
    ASSUME TypeOK, Alone, CountInv, [Next]_vars
    PROVE  RingStep
  <1>1. Effects
    BY EffectsHold
  <1>2. setupNext \in Int /\ setupNext' \in Int
    <2>1. TypeOK'
      BY TypeKept
    <2> QED
      BY <2>1, BatonAssumption DEF TypeOK
  <1>3. ASSUME Still, setupNext' = setupNext
        PROVE  RingStep
    BY <1>2, <1>3, Stays DEF Still, RingStep
  <1>4. ASSUME NEW b, Elsewhere(b), setupNext' = setupNext
        PROVE  \A c \in Batons \ {b} : WhereIs(c)' = WhereIs(c)
    BY <1>2, <1>4, Stays DEF Elsewhere
  <1>5. ASSUME NEW b \in Batons, Played(b)
        PROVE  RingStep
    <2>1. b = setupNext /\ setupNext' = b + 1 /\ Elsewhere(b) /\ b \in Int
      BY <1>2, <1>5 DEF Played
    <2>2. PICK y : /\ y.hop = 0 /\ CarriersAt(b, "client")' = {y}
                   /\ CarriersAt(b, "server")' = {}
      BY <1>5 DEF Played
    <2>3. WhereIs(b)' = [place |-> "client", hop |-> 0]
      BY <2>2, LoneNext DEF Sides, Peer
    <2>4. CarriersAt(b, "server") = {} /\ CarriersAt(b, "client") = {}
      BY <1>2, <2>1, Lone DEF Sides
    <2>5. WhereIs(b) = Ring!Unsent
      BY <1>2, <2>1, <2>4, Places, PlaceNone
    <2>6. WhereIs(b)' \in Ring!Moves(WhereIs(b))
      BY <2>3, <2>5 DEF Ring!Moves
    <2>7. \A c \in Batons \ {b} : WhereIs(c)' = WhereIs(c)
      <3> SUFFICES ASSUME NEW c \in Batons \ {b}
                   PROVE  WhereIs(c)' = WhereIs(c)
        OBVIOUS
      <3>1. c \in Int /\ c # b
        BY BatonAssumption DEF Batons
      <3>2. setupNext <= c <=> setupNext' <= c
        BY <2>1, <3>1
      <3>3. \A s \in Sides : CarriersAt(c, s)' = CarriersAt(c, s)
        BY <2>1 DEF Elsewhere
      <3> QED
        BY <1>2, <3>2, <3>3, Stays
    <2> QED
      BY <2>6, <2>7 DEF RingStep
  <1>6. ASSUME setupNext' = setupNext, NEW b \in Batons, NEW s \in Sides, Kept(b, s)
        PROVE  RingStep
    <2>1. PICK x \in CarriersAt(b, s) : \E y : CarriersAt(b, s)' = {y} /\ y.hop = x.hop
      BY <1>6 DEF Kept
    <2>2. PICK y : CarriersAt(b, s)' = {y} /\ y.hop = x.hop
      BY <2>1
    <2>3. CarriersAt(b, Peer(s))' = {} /\ Elsewhere(b)
      BY <1>6 DEF Kept
    <2>4. WhereIs(b) = [place |-> s, hop |-> x.hop]
      BY Lone
    <2>5. WhereIs(b)' = [place |-> s, hop |-> y.hop]
      BY <2>2, <2>3, LoneNext
    <2> QED
      BY <1>4, <1>6, <2>2, <2>3, <2>4, <2>5 DEF RingStep
  <1>7. ASSUME NEW s \in Sides, NEW x
        PROVE  LET at == [place |-> s, hop |-> x.hop]
               IN  /\ Ring!Gone \in Ring!Moves(at)
                   /\ val(x.hop) # 0 =>
                         [place |-> Peer(s), hop |-> x.hop + 1] \in Ring!Moves(at)
    <2> DEFINE at == [place |-> s, hop |-> x.hop]
    <2>1. at.place = s /\ at.hop = x.hop
      OBVIOUS
    <2>2. at # Ring!Unsent /\ Ring!InPlay(at)
      BY <2>1 DEF Ring!Unsent, Ring!InPlay, Sides
    <2>3. Ring!Other(at.place) = Peer(s)
      BY <2>1 DEF Ring!Other, Peer
    <2> HIDE DEF at
    <2>4. /\ Ring!Gone \in Ring!Moves(at)
          /\ val(x.hop) # 0 => [place |-> Peer(s), hop |-> x.hop + 1] \in Ring!Moves(at)
      BY <2>1, <2>2, <2>3 DEF Ring!Moves, val
    <2> QED
      BY <2>4 DEF at
  <1>8. ASSUME setupNext' = setupNext, NEW b \in Batons, NEW s \in Sides, Dropped(b, s)
        PROVE  RingStep
    <2>1. PICK x : x \in CarriersAt(b, s)
      BY <1>8 DEF Dropped
    <2>2. WhereIs(b) = [place |-> s, hop |-> x.hop] /\ b < setupNext
      BY <2>1, Lone
    <2>3. CarriersAt(b, "server")' = {} /\ CarriersAt(b, "client")' = {} /\ Elsewhere(b)
      BY <1>8 DEF Dropped, Sides, Peer
    <2>4. b \in Int /\ ~(setupNext' <= b)
      BY <1>2, <1>8, <2>2, BatonAssumption DEF Batons
    <2>5. WhereIs(b)' = Ring!Gone
      BY <1>2, <2>3, <2>4, Places, PlaceNone
    <2>6. WhereIs(b)' \in Ring!Moves(WhereIs(b))
      BY <1>7, <2>2, <2>5
    <2> QED
      BY <1>4, <1>8, <2>3, <2>6 DEF RingStep
  <1>9. ASSUME setupNext' = setupNext, NEW b \in Batons, NEW s \in Sides, NEW zero,
               Passed(b, s, zero)
        PROVE  RingStep
    <2>1. PICK x \in CarriersAt(b, s) : \E y :
             /\ val(x.hop) # 0 /\ y.hop = x.hop + 1 /\ CarriersAt(b, Peer(s))' = {y}
      BY <1>9 DEF Passed
    <2>2. PICK y : y.hop = x.hop + 1 /\ CarriersAt(b, Peer(s))' = {y}
      BY <2>1
    <2>3. CarriersAt(b, s)' = {} /\ Elsewhere(b) /\ Peer(s) \in Sides /\ Peer(Peer(s)) = s
      BY <1>9, Peers DEF Passed
    <2>4. WhereIs(b) = [place |-> s, hop |-> x.hop]
      BY Lone
    <2>5. WhereIs(b)' = [place |-> Peer(s), hop |-> x.hop + 1]
      BY <2>2, <2>3, LoneNext
    <2>6. WhereIs(b)' \in Ring!Moves(WhereIs(b))
      BY <1>7, <2>1, <2>4, <2>5
    <2> QED
      BY <1>4, <1>9, <2>3, <2>6 DEF RingStep
  <1> QED
    BY <1>1, <1>3, <1>5, <1>6, <1>8, <1>9 DEF Effects

(* Every exchange, of any number of batons, with any interleaving and any  *)
(* faults, is one in which each baton is put into play once, is passed to  *)
(* and fro one hop at a time by the side that has it, is never in two      *)
(* places, and never comes back once it is gone (setup, handleIncoming,    *)
(* afterReceive, sendNext, handleDatagram).                                *)
THEOREM RefinesRing == Spec => ImplementsRing
  <1>1. Init => Ring!Init
    <2> SUFFICES ASSUME Init
                 PROVE  \A b \in Batons : WhereIs(b) = Ring!Unsent
      BY DEF Ring!Init
    <2> SUFFICES ASSUME NEW b \in Batons
                 PROVE  WhereIs(b) = Ring!Unsent
      OBVIOUS
    <2>1. CarriersAt(b, "server") = {} /\ CarriersAt(b, "client") = {}
      BY DEF Init, CarriersAt, Sides
    <2>2. b \in Int /\ setupNext \in Int /\ setupNext <= b
      BY BatonAssumption DEF Batons, Init
    <2> QED
      BY <2>1, <2>2, Places, PlaceNone
  <1>2. BatonInv /\ [Next]_vars => [Ring!Next]_([b \in Batons |-> WhereIs(b)])
    <2> SUFFICES ASSUME BatonInv, [Next]_vars
                 PROVE  Ring!Next \/ UNCHANGED [b \in Batons |-> WhereIs(b)]
      OBVIOUS
    <2>1. RingStep
      BY StepIsRingStep DEF BatonInv
    <2> QED
      BY <2>1 DEF RingStep, Ring!Next
  <1> QED
    BY <1>1, <1>2, Invariance, PTL DEF Spec, ImplementsRing, Ring!Spec

=============================================================================
