------------------------------- MODULE Handshake -------------------------------
(***************************************************************************)
(* How a session comes to be: Client.Connect and Server.Upgrade over one   *)
(* HTTP/2 connection of the fork, which keeps the peer's WebTransport      *)
(* SETTINGS and hands a snapshot of them to each session.                  *)
(*                                                                         *)
(* At most one end is foreign: another implementation, which may send      *)
(* SETTINGS again and whatever request or answer it likes.  The value of a *)
(* limit is the number of the SETTINGS frame that set it, 0 if none did.   *)
(* Fields stands for the limits, which the client's connection applies one *)
(* by one while another goroutine may take the snapshot.                   *)
(***************************************************************************)
EXTENDS Integers, Sequences, FiniteSets, FiniteSetsExt, Functions

CONSTANTS
    Fields,        \* the WT_INITIAL_MAX_* limits
    Names,         \* protocol names a caller may offer
    Unencodable,   \* those that are no structured-field string
    MaxOffer,      \* length of Connect's list
    MaxSettings    \* SETTINGS frames a foreign end sends

ASSUME HandshakeAssumption ==
    /\ IsFiniteSet(Fields) /\ Fields # {}
    /\ Unencodable \subseteq Names
    /\ MaxOffer \in Nat
    /\ MaxSettings \in Nat \ {0}

VARIABLES
    foreign,                      \* the end that is another implementation
    offered, call,                \* Connect's list, and where the call is
    capture, clientSession,       \* peerWTSettingsCapture; what Connect returned
    store, applying, acked,       \* the client connection: peerWebTransport,
    allowed, seen, closed,        \*   processSettings, extendedConnectAllowed
    serverFrames, clientFrames,   \* SETTINGS sent by each end
    serverStore, request,         \* the server connection; the CONNECT request
    wanted, serverSession,        \* SelectProtocol's answer; what Upgrade returned
    up, down, lost,               \* the connection
    ackedAtConnect, sentAtConnect \* history: SETTINGS acknowledged by the client,
                                  \*   and sent by it, before its CONNECT

history == <<ackedAtConnect, sentAtConnect>>
clientVars == <<offered, call, capture, clientSession, history>>
clientConn == <<store, applying, acked, allowed, seen, closed>>
serverVars == <<serverStore, request, wanted, serverSession>>
frames == <<serverFrames, clientFrames>>
vars == <<foreign, clientVars, clientConn, serverVars, frames, up, down, lost>>

-----------------------------------------------------------------------------
(* The data.                                                               *)

NoLimits == [f \in Fields |-> 0]

NoProtocol == ""

Malformed == <<"malformed">>   \* a header value that does not parse

Lists(names) == UNION {[1..n -> names] : n \in 0..MaxOffer}

Headers == Lists(Names \ Unencodable) \cup {Malformed}

Setting(n, fields, enable) ==
    [kind |-> "settings", n |-> n, fields |-> fields, enable |-> enable]

ConnectRequest(valid, header) == [kind |-> "connect", valid |-> valid, header |-> header]

End == [kind |-> "end"]

Response(ok, header) == [kind |-> "response", ok |-> ok, header |-> header]

(* apply: the settings of one frame, in a store of the peer's limits.      *)
apply(limits, fields, n) == [f \in Fields |-> IF f \in fields THEN n ELSE limits[f]]

Send(wire, m) == IF lost THEN wire ELSE Append(wire, m)

Session(state, limits, protocol) ==
    [state |-> state, limits |-> limits, protocol |-> protocol]

Init ==
    /\ foreign \in {"none", "client", "server"}
    /\ offered \in IF foreign = "client" THEN {<<>>} ELSE Lists(Names)
    /\ call = IF foreign = "client" THEN "none" ELSE "call"
    /\ capture = [ok |-> FALSE, limits |-> NoLimits]
    /\ clientSession = Session("none", NoLimits, NoProtocol)
    /\ store = NoLimits /\ applying = [n |-> 0, left |-> {}] /\ acked = 0
    /\ allowed = FALSE /\ seen = FALSE /\ closed = FALSE
    /\ serverFrames = <<>>
    /\ clientFrames = <<Setting(1, Fields, FALSE)>>
    /\ serverStore = NoLimits
    /\ request = [state |-> "none", valid |-> FALSE, header |-> <<>>,
                  settings |-> NoLimits, ended |-> FALSE]
    /\ wanted = [kind |-> "none", name |-> NoProtocol]
    /\ serverSession = Session("none", NoLimits, NoProtocol)
    /\ up = clientFrames /\ down = <<>> /\ lost = FALSE
    /\ ackedAtConnect = 0 /\ sentAtConnect = 0

-----------------------------------------------------------------------------
(* The client's connection: its read loop, beside the goroutine of the     *)
(* request.                                                                *)

readLoopFrame == UNCHANGED <<foreign, clientVars, serverVars, frames, up, lost>>

(* processSettings takes wmu and mu for the whole frame...                 *)
processSettings ==
    /\ ~closed /\ applying.n = 0
    /\ down # <<>> /\ Head(down).kind = "settings"
    /\ applying' = [n |-> Head(down).n, left |-> Head(down).fields]
    /\ UNCHANGED <<store, acked, allowed, seen, closed, down>>
    /\ readLoopFrame

(* ... but each setting is applied under the store's own lock only.        *)
applySetting ==
    /\ \E f \in applying.left :
          /\ store' = apply(store, {f}, applying.n)
          /\ applying' = [applying EXCEPT !.left = @ \ {f}]
    /\ UNCHANGED <<acked, allowed, seen, closed, down>>
    /\ readLoopFrame

allowedAfter(enable) == IF seen THEN allowed ELSE enable

(* The end of the frame: seenSettingsChan and the acknowledgement.         *)
settingsDone ==
    /\ applying.n > 0 /\ applying.left = {}
    /\ allowed' = allowedAfter(Head(down).enable)
    /\ seen' = TRUE
    /\ acked' = acked + 1
    /\ applying' = [applying EXCEPT !.n = 0]
    /\ down' = Tail(down)
    /\ UNCHANGED <<store, closed>>
    /\ readLoopFrame

(* Fault: a request that waits for the first SETTINGS is not woken.        *)
wakeWaiting_no == UNCHANGED <<allowed, seen>>

(* "If we have a pending request that wants extended CONNECT, let it       *)
(* continue and fail with the connection error."                           *)
wakeWaiting ==
    /\ allowed' = IF seen THEN allowed ELSE TRUE
    /\ seen' = TRUE

(* cleanup: the read loop ends with the connection.                        *)
cleanup ==
    /\ lost /\ ~closed /\ applying.n = 0
    /\ closed' = TRUE
    /\ wakeWaiting
    /\ UNCHANGED <<store, applying, acked, down>>
    /\ readLoopFrame

-----------------------------------------------------------------------------
(* Client.Connect and writeRequest.                                        *)

connectFrame == UNCHANGED <<foreign, offered, clientConn, serverVars, frames, lost>>

Goto(pc) == call' = pc

(* A bad URL or a name that has no structured-field form: no request.      *)
refuse ==
    /\ call = "call"
    /\ Goto("failed")
    /\ UNCHANGED <<capture, clientSession, history, up, down>>
    /\ connectFrame

roundTrip ==
    /\ call = "call" /\ Range(offered) \cap Unencodable = {}
    /\ Goto("wait")
    /\ UNCHANGED <<capture, clientSession, history, up, down>>
    /\ connectFrame

(* writeRequest waits for the first SETTINGS, then needs the server's      *)
(* consent to extended CONNECT.                                            *)
awaitSettings ==
    /\ call = "wait" /\ seen
    /\ Goto(IF allowed THEN "reserve" ELSE "failed")
    /\ UNCHANGED <<capture, clientSession, history, up, down>>
    /\ connectFrame

afterReserve == IF closed THEN "failed" ELSE "record"

(* awaitOpenSlotForStreamLocked, under mu: not on a closed connection.     *)
reserveStream ==
    /\ call = "reserve" /\ applying.n = 0
    /\ Goto(afterReserve)
    /\ UNCHANGED <<capture, clientSession, history, up, down>>
    /\ connectFrame

(* recordPeerWebTransportSettings, with neither mu nor wmu.                *)
recordPeerWebTransportSettings ==
    /\ call = "record"
    /\ capture' = [ok |-> TRUE, limits |-> store]
    /\ Goto("write")
    /\ UNCHANGED <<clientSession, history, up, down>>
    /\ connectFrame

(* encodeAndWriteHeaders, under wmu.                                       *)
writeHeaders ==
    /\ call = "write" /\ applying.n = 0
    /\ \/ closed /\ Goto("failed") /\ UNCHANGED <<up, history>>
       \/ /\ ~closed
          /\ up' = Send(up, ConnectRequest(TRUE, offered))
          /\ ackedAtConnect' = acked /\ sentAtConnect' = Len(clientFrames)
          /\ Goto("response")
    /\ UNCHANGED <<capture, clientSession, down>>
    /\ connectFrame

(* The connection failed before the response: RoundTrip's error.           *)
roundTripFails ==
    /\ call = "response" /\ closed
    /\ Goto("failed")
    /\ UNCHANGED <<capture, clientSession, history, up, down>>
    /\ connectFrame

(* parseSelectedProtocolHeader: no header is the empty name.               *)
parseSelectedProtocolHeader(h) == IF h = <<>> THEN NoProtocol ELSE h[1]

(* Fault: the CONNECT stream is left open.                                 *)
closeStream_no == UNCHANGED up

(* pw.Close and res.Body.Close.                                            *)
closeStream == up' = Send(up, End)

(* Fault: the peer's limits as they are when the response arrives.         *)
peerSettings_now == store

peerSettings == capture.limits

(* The rest of Connect: the status, the header, the session.               *)
response ==
    /\ call = "response"
    /\ ~closed /\ applying.n = 0
    /\ down # <<>> /\ Head(down).kind = "response"
    /\ down' = Tail(down)
    /\ LET res == Head(down)
       IN \/ /\ ~res.ok \/ res.header = Malformed
             /\ Goto("failed") /\ closeStream /\ UNCHANGED clientSession
          \/ /\ res.ok /\ res.header # Malformed
             /\ Goto("session") /\ UNCHANGED up
             /\ clientSession' = Session("open", peerSettings,
                                         parseSelectedProtocolHeader(res.header))
    /\ UNCHANGED <<capture, history>>
    /\ connectFrame

-----------------------------------------------------------------------------
(* The server's connection and Server.Upgrade.                             *)

serverFrame == UNCHANGED <<foreign, clientVars, clientConn, clientFrames, lost>>

(* serve: the initial SETTINGS, with every limit and extended CONNECT.     *)
sendSettings ==
    /\ foreign # "server" /\ serverFrames = <<>> /\ ~lost
    /\ serverFrames' = <<Setting(1, Fields, TRUE)>>
    /\ down' = Append(down, serverFrames'[1])
    /\ UNCHANGED <<serverVars, up>>
    /\ serverFrame

(* The snapshot goes into the request's context.                           *)
newWriterAndRequest(m) ==
    [request EXCEPT !.state = "pending", !.valid = m.valid, !.header = m.header,
                    !.settings = serverStore]

(* The serve goroutine: processSettings applies a frame whole.             *)
serverReads ==
    /\ up # <<>> /\ up' = Tail(up)
    /\ LET m == Head(up)
       IN CASE m.kind = "settings" ->
                 /\ serverStore' = apply(serverStore, m.fields, m.n)
                 /\ UNCHANGED request
            [] m.kind = "connect" ->
                 /\ request' = newWriterAndRequest(m)
                 /\ UNCHANGED serverStore
            [] m.kind = "end" ->
                 /\ request' = [request EXCEPT !.ended = TRUE]
                 /\ UNCHANGED serverStore
    /\ UNCHANGED <<wanted, serverSession, serverFrames, down>>
    /\ serverFrame

(* make([]string, len(list)) and append: as many empty names come first.   *)
parseAvailableProtocolsHeader(h) == [i \in DOMAIN h |-> NoProtocol] \o h

(* SelectProtocol is the application's: it has none, wants a name, names   *)
(* one whatever was offered, or fails.                                     *)
Policies ==
    [kind : {"wants", "names"}, name : Names] \cup [kind : {"nil", "error"}, name : {NoProtocol}]

SelectProtocol(policy, available) ==
    IF policy.kind = "wants" /\ policy.name \notin Range(available) THEN NoProtocol ELSE policy.name

(* Fault: any name the application selects is answered.                    *)
mustBeOffered_no(protocol, available) == TRUE

mustBeOffered(protocol, available) == protocol = NoProtocol \/ protocol \in Range(available)

(* The checks of Upgrade, all before the first byte of the answer.         *)
accepts(policy) ==
    /\ request.valid
    /\ \/ policy.kind = "nil"
       \/ /\ policy.kind # "error" /\ request.header # Malformed
          /\ LET available == parseAvailableProtocolsHeader(request.header)
             IN mustBeOffered(SelectProtocol(policy, available), available)

encodeSelectedProtocolHeader(protocol) == IF protocol = NoProtocol THEN <<>> ELSE <<protocol>>

(* Fault: the limits as they are when the handler runs.                    *)
requestSettings_now == serverStore

requestSettings == request.settings

(* Upgrade in the request's handler, which answers 400 if it fails.        *)
Upgrade ==
    /\ foreign # "server" /\ request.state = "pending"
    /\ \E policy \in Policies :
          LET protocol == SelectProtocol(policy, parseAvailableProtocolsHeader(request.header))
          IN /\ wanted' = policy
             /\ \/ /\ accepts(policy)
                   /\ serverSession' = Session("open", requestSettings, protocol)
                   /\ down' = Send(down, Response(TRUE, encodeSelectedProtocolHeader(protocol)))
                \/ /\ ~accepts(policy)
                   /\ UNCHANGED serverSession
                   /\ down' = Send(down, Response(FALSE, <<>>))
    /\ request' = [request EXCEPT !.state = "answered"]
    /\ UNCHANGED <<serverStore, serverFrames, up>>
    /\ serverFrame

(* The session's read loop meets the end of the request body.              *)
sessionEnds ==
    /\ serverSession.state = "open" /\ request.ended
    /\ serverSession' = [serverSession EXCEPT !.state = "ended"]
    /\ UNCHANGED <<serverStore, request, wanted, serverFrames, up, down>>
    /\ serverFrame

-----------------------------------------------------------------------------
(* Foreign ends and the connection.                                        *)

foreignServerSettings ==
    /\ foreign = "server" /\ Len(serverFrames) < MaxSettings /\ ~lost
    /\ \E fields \in SUBSET Fields, enable \in BOOLEAN :
          serverFrames' =
             Append(serverFrames, Setting(Len(serverFrames) + 1, fields, enable))
    /\ down' = Append(down, serverFrames'[Len(serverFrames')])
    /\ UNCHANGED <<serverVars, up>>
    /\ serverFrame

foreignAnswer ==
    /\ foreign = "server" /\ request.state = "pending"
    /\ \E ok \in BOOLEAN, h \in {h \in Headers : Len(h) <= 1} :
          /\ down' = Send(down, Response(ok, h))
          /\ serverSession' = Session(IF ok THEN "open" ELSE "none", request.settings, NoProtocol)
    /\ request' = [request EXCEPT !.state = "answered"]
    /\ UNCHANGED <<serverStore, wanted, serverFrames, up>>
    /\ serverFrame

foreignClientFrame ==
    /\ UNCHANGED <<foreign, offered, call, capture, clientSession, ackedAtConnect>>
    /\ UNCHANGED <<clientConn, serverVars, serverFrames, down, lost>>

foreignClientSettings ==
    /\ foreign = "client" /\ Len(clientFrames) < MaxSettings /\ ~lost
    /\ \E fields \in SUBSET Fields :
          clientFrames' =
             Append(clientFrames, Setting(Len(clientFrames) + 1, fields, FALSE))
    /\ up' = Append(up, clientFrames'[Len(clientFrames')])
    /\ UNCHANGED sentAtConnect
    /\ foreignClientFrame

Sent(kind) == \E i \in DOMAIN up : up[i].kind = kind

foreignRequest ==
    /\ foreign = "client" /\ request.state = "none" /\ ~Sent("connect") /\ ~lost
    /\ \E valid \in BOOLEAN, h \in Headers : up' = Append(up, ConnectRequest(valid, h))
    /\ sentAtConnect' = Len(clientFrames)
    /\ UNCHANGED clientFrames
    /\ foreignClientFrame

foreignEnd ==
    /\ foreign = "client" /\ ~lost /\ ~request.ended /\ ~Sent("end")
    /\ request.state # "none" \/ Sent("connect")
    /\ up' = Append(up, End)
    /\ UNCHANGED <<clientFrames, sentAtConnect>>
    /\ foreignClientFrame

connectionLost ==
    /\ ~lost /\ lost' = TRUE
    /\ up' = <<>>
    /\ down' = IF applying.n = 0 THEN <<>> ELSE <<Head(down)>>
    /\ UNCHANGED <<foreign, clientVars, clientConn, serverVars, frames>>

serverSeesLoss ==
    /\ lost /\ ~request.ended
    /\ request' = [request EXCEPT !.ended = TRUE]
    /\ UNCHANGED <<serverStore, wanted, serverSession, serverFrames, up, down>>
    /\ serverFrame

ReadLoop == processSettings \/ applySetting \/ settingsDone \/ cleanup

ConnectStep ==
    \/ roundTrip \/ awaitSettings \/ reserveStream \/ recordPeerWebTransportSettings
    \/ writeHeaders \/ roundTripFails \/ response

ServerStep == sendSettings \/ serverReads \/ Upgrade \/ sessionEnds \/ serverSeesLoss

Next ==
    \/ ReadLoop \/ refuse \/ ConnectStep \/ ServerStep
    \/ foreignServerSettings \/ foreignAnswer
    \/ foreignClientSettings \/ foreignRequest \/ foreignEnd
    \/ connectionLost

Spec == Init /\ [][Next]_vars

(* Goroutines that can run do run and the network delivers or is seen to   *)
(* be lost; SelectProtocol returns.  Foreign ends promise nothing.         *)
FairSpec ==
    /\ Spec
    /\ WF_vars(ReadLoop) /\ WF_vars(ConnectStep)
    /\ WF_vars(sendSettings) /\ WF_vars(serverReads) /\ WF_vars(Upgrade)
    /\ WF_vars(sessionEnds) /\ WF_vars(serverSeesLoss)

-----------------------------------------------------------------------------
(* The properties.                                                         *)

Limits == [Fields -> Nat]

(* What a header holds once parsed, and what is on the two wires.          *)
Parsed == Seq(Names) \cup {Malformed}

SettingsFrames ==
    [kind : {"settings"}, n : Nat \ {0}, fields : SUBSET Fields, enable : BOOLEAN]

ToServer ==
    SettingsFrames \cup [kind : {"connect"}, valid : BOOLEAN, header : Parsed] \cup {End}

ToClient == SettingsFrames \cup [kind : {"response"}, ok : BOOLEAN, header : Parsed]

TypeOK ==
    /\ foreign \in {"none", "client", "server"} /\ offered \in Lists(Names)
    /\ call \in {"none", "call", "wait", "reserve", "record", "write", "response",
                 "session", "failed"}
    /\ capture \in [ok : BOOLEAN, limits : Limits]
    /\ call \in {"write", "response", "session"} => capture.ok
    /\ clientSession \in [state : {"none", "open"}, limits : Limits,
                          protocol : Names \cup {NoProtocol}]
    /\ clientSession.state = "open" <=> call = "session"
    /\ store \in Limits /\ acked \in 0..Len(serverFrames)
    /\ applying \in [n : 0..Len(serverFrames), left : SUBSET Fields]
    /\ allowed \in BOOLEAN /\ seen \in BOOLEAN /\ closed \in BOOLEAN
    /\ serverFrames \in Seq(SettingsFrames) /\ clientFrames \in Seq(SettingsFrames)
    /\ serverStore \in Limits
    /\ request \in [state : {"none", "pending", "answered"}, valid : BOOLEAN,
                    header : Parsed, settings : Limits, ended : BOOLEAN]
    /\ wanted \in Policies \cup {[kind |-> "none", name |-> NoProtocol]}
    /\ serverSession \in [state : {"none", "open", "ended"}, limits : Limits,
                          protocol : Names \cup {NoProtocol}]
    /\ up \in Seq(ToServer) /\ down \in Seq(ToClient) /\ lost \in BOOLEAN
    /\ ackedAtConnect \in 0..Len(serverFrames) /\ sentAtConnect \in 0..Len(clientFrames)

(* The limits after the first n of an end's SETTINGS frames.               *)
limitsAfter(settings, n) ==
    [f \in Fields |-> Max({0} \cup {k \in 1..n : f \in settings[k].fields})]

(* A client session starts from limits the server has announced: not older *)
(* than its first SETTINGS, though no other lock orders the two, and not   *)
(* newer than those the client acknowledged before CONNECT went out.  With *)
(* a server that sends SETTINGS once it is exactly that frame, which has   *)
(* to allow extended CONNECT: neither a later one nor the wake-up by a     *)
(* lost connection stands in for it (recordPeerWebTransportSettings,       *)
(* writeRequest, cleanup).                                                 *)
SnapshotInWindow ==
    clientSession.state = "open" =>
        /\ serverFrames[1].enable
        /\ \A f \in Fields :
            /\ clientSession.limits[f] >= limitsAfter(serverFrames, 1)[f]
            /\ clientSession.limits[f] <= limitsAfter(serverFrames, ackedAtConnect)[f]

(* A server session's limits are the client's at its CONNECT, whole,       *)
(* however many SETTINGS follow before the handler runs                    *)
(* (newWriterAndRequest and Upgrade).                                      *)
ServerLimitsAtConnect ==
    serverSession.state # "none" =>
        serverSession.limits = limitsAfter(clientFrames, sentAtConnect)

(* Two ends of this package that both have a session have the same         *)
(* protocol, and it is none or one of Connect's list, whatever the         *)
(* application selected.  One that the application wants and the client    *)
(* offered is granted, in spite of the empty names in front of the list    *)
(* (Upgrade, parseAvailableProtocolsHeader, parseSelectedProtocolHeader).  *)
ProtocolAgreed ==
    /\ foreign = "none" /\ clientSession.state = "open" =>
          /\ serverSession.state # "none"
          /\ clientSession.protocol = serverSession.protocol
          /\ clientSession.protocol \in Range(offered) \cup {NoProtocol}
    /\ serverSession.state # "none" /\ wanted.kind = "wants"
          /\ wanted.name \in Range(request.header) =>
             serverSession.protocol = wanted.name

(* Connect returns when the server is of this package, also if the         *)
(* connection is lost while it waits for SETTINGS or for the response; it  *)
(* has no deadline of its own (Connect, writeRequest, cleanup).            *)
ConnectReturns == foreign = "none" /\ call = "wait" ~> call \in {"session", "failed"}

(* A Connect that fails leaves no session behind at the server: it closes  *)
(* both halves of the CONNECT stream (Connect's error paths).              *)
FailedConnectEnds == call = "failed" ~> serverSession.state # "open"

=============================================================================
