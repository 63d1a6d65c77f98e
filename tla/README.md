# A TLA+ model of webtransport-h2-go

The repository implements WebTransport sessions over one HTTP/2 extended
CONNECT stream. This directory holds TLA+ models of the library, of the way a
session is set up and of its two applications, TLC configurations that check
them on small instances, and TLAPS proofs that hold for every instance. Nothing
in it is generated; line numbers in `PROJECT.json` lead from each definition to
the code it stands for.

## 1. The system

| Component | Code | State | Operations |
| --- | --- | --- | --- |
| Session | `session.go` | `stop`, `done`, `closeOnce`, `closeErr`, `closeReason`, two accept channels of 16, maps of streams | `readLoop`, `Close`, `CloseWithError`, `Done`, `CloseErr`, `Open*`, `Accept*`, `Flush`, `SendDatagram`, `ReceiveDatagram` |
| Send flow control | `flow.go` | the peer's limits, what was spent, `active` | adopt SETTINGS, `allocLocalStream`, `reserveSendData`, `refundSendData`, `raiseMax*` |
| Send half | `stream.go` | `closed` (no lock) | `Write`, `WritePadding`, `Close` |
| Receive half | `stream.go` | `closed` (no lock), byte buffer with a condition variable | `receiveStreamData`, `finishReceive`, `Read`, `Close` |
| Datagrams | `datagram.go` | queue, byte count, a one-token channel | `write`, `read`, `close` |
| Handshake | `client.go`, `server.go` | the request body's pipe | `Connect`, `Upgrade`, protocol selection |
| SETTINGS store | `third_party/net/http2` (fork) | the peer's `SETTINGS_WT_*` per connection, the snapshot of a request | apply, acknowledge, snapshot for the session |
| Devious baton | `internal/baton` | `active`, `done`, `err`, a `WaitGroup` of handlers | `Run`, `setup`, accept loops, handlers, `completeOne`, `fail`, `finish` |
| Echo | `internal/echo`, `cmd/echo` | a `WaitGroup` of three loops, goroutines in no group | loops, `echoBidi`, `echoUni`, `RunClient`, the end of the command |
| Commands | `cmd`, `internal/serve`, `internal/tlsx` | none | flags, TLS, HTTP set-up |

**How they interact.** One goroutine per session, the read loop, parses
capsules from the CONNECT stream and calls into everything else: it raises
limits, creates and feeds streams, delivers datagrams, and ends the session.
Application goroutines open, accept, read, write and close concurrently with it.
They meet on: `limits.mu` (flow control), `writeMu` (capsule writes), each
stream buffer's mutex and condition variable, the datagram buffer's mutex and
its `notify` channel, the two accept channels, `done`, `closeOnce` and
`closeErrMu`. The `closed` flags of both stream halves and the maps of streams
have no lock (the code says `TODO: Lock`).

**What is hard.** Credit is checked and charged in one critical section and
spent in another, with failure in between. Limits for a stream may arrive before
the stream. Readers decide to wait under a lock and wait outside it. The session
is ended by up to three parties at once, each of which may be the one that
records the cause. The read loop can block on the application, and then reads
nothing, not even the peer's end. The baton application starts handlers from three
accept loops while `Run` waits for them, and any of them may end the exchange. The
read loop hands a stream out before it has stored the stream's first payload,
and shares maps without a lock with goroutines that open streams. The peer's
limits are applied one by one while another goroutine takes the snapshot with
which the session will live. The echo handler returns without waiting for the
goroutines that echo streams.
`PROJECT.json` lists these hazards by line.

**What correct means.** Flow control: the peer is never sent more than it
granted and no credit leaks. Stream IDs: dense, unique, with a limit installed
before anyone can write. Buffers: order kept, no byte or datagram lost, limits
respected, EOF only at the end, waiting readers woken. Session: `done` closed
once and only after everything else, first cause kept, every waiter released.
Baton: one chain per baton, each side counts each baton once, success only when
every baton has reached 0. Streams: every ID is one stream, and a stream gets its
own bytes, all of them. Handshake: both sessions of a CONNECT have the limits and
the protocol of that CONNECT, and a failed one leaves nothing open. Echo: the
answer is the payload or an error, and every goroutine and handler ends.

## 2. Modules

| Module | Stands for |
| --- | --- |
| `Credit` | what the peer may rely on: grants only grow, use never exceeds them |
| `SendLimits` | `flow.go`, `OpenStream`/`OpenUnidirectionalStream`, `SendStream.Write`/`Close` |
| `MCSendLimits` | SETTINGS snapshots and symmetry for TLC |
| `SendLimits_proofs` | proofs about `SendLimits`, including that it implements `Credit` |
| `ReceiveStream` | `ReceiveStream` and `streamReceiveBuffer` |
| `ReceiveStream_proofs` | proofs about `ReceiveStream` |
| `DatagramBuffer` | `datagramReceiveBuffer` and `ReceiveDatagram` |
| `DatagramBuffer_proofs` | proofs about `DatagramBuffer` |
| `Session` | `readLoop`, `Close`, `CloseWithError`, `Accept*`, causes of the end |
| `Session_proofs` | proofs about `Session` |
| `SessionStreams` | the stream capsules of `readLoop`, the maps of streams, `Open*`, `Accept*` and the receive halves of one session together |
| `MCSessionStreams` | the peer's capsules for TLC |
| `SessionStreams_proofs` | proofs about `SessionStreams` |
| `Handshake` | `Client.Connect`, `Server.Upgrade` and the WebTransport SETTINGS of the HTTP/2 fork between them |
| `Handshake_proofs` | proofs about `Handshake` |
| `BatonRing` | what an exchange of batons is: each put into play once, passed to and fro, gone for good |
| `Baton` | `internal/baton/session.go` on both sides of one session |
| `Baton_proofs` | proofs about `Baton`, including that it implements `BatonRing` |
| `Echo` | `internal/echo` on both sides of one session, and how `cmd/echo` ends it |
| `Echo_proofs` | proofs about `Echo` |

In the modules of the library a block under one mutex, one channel operation, one
atomic access, or one access to an unlocked flag is one action, and each goroutine
has a program counter between them. The applications use the library in coarser
steps where nobody can tell the difference; their paragraphs below say where. Definitions
carry the names of the Go functions and fields. Operators whose name ends in an
underscore and a word, marked `Fault:` in their comment, are deliberate errors
placed beside the definition they distort; no specification uses them. They
show that each property notices a plausible bug.

**SendLimits.** The state is `sendLimits` field by field (the pairs and triples
of fields as functions), `createdStreamCounter`, the streams the application can
write on, and for each goroutine the call it is in. `Write` is four steps: look
at `closed`, `reserveSendData`, the capsule under `writeMu`, and on failure
`refundSendData`. History variables record what the peer was sent. Go's maps
read as zero without an entry, so `streamMax` is total and `hasMax` is its key
set. Amounts are natural numbers: every counter is bounded by a limit that
arrived in a 62-bit varint or a 32-bit setting (this is `SpentWithinGrant`), so
`uint64` does not wrap, and subtraction is guarded exactly as in the code.
`InMemory` stands for any session made without a SETTINGS snapshot. A capsule is
written or it is not: one cut off in the middle leaves a CONNECT stream on which
nothing can follow.

**ReceiveStream.** One stream. The read loop parses a capsule, looks at
`closed`, writes the buffer and finishes on FIN, each in a step; `Close` sets the
flag and closes the buffer in two. `sync.Cond` is modelled by its wait set:
`Wait` enters it before unlocking, `Signal` removes any one, `Broadcast` all. A
byte is its position in what the peer sent. Here the peer sends nothing after FIN;
what the session makes of such data is in `SessionStreams`.

**DatagramBuffer.** `notify` is the number of tokens in the channel. A datagram
is its arrival number and length. The sum of the lengths in the queue is the
number of its bytes (`BytesIn`), which the provers can reason about without
induction.

In both buffers `overlap` records that two goroutines were in the blocking call
at once. Order and accounting are stated for all behaviours; "the reader is
woken" is stated while calls have not overlapped, because with overlap it is not
true of this code (see the observations in section 3).

**Session.** What a capsule does to the loop is one of: handled, new stream, close
(well-formed or not), flow-control error, short limit capsule, stream fault. What
handling does inside a stream, the datagram buffer or the limits is in the other
modules. `closeOnce` is `sync.Once`: the first caller runs the body, later ones
wait until it is over. `closeErr` keeps whose error it is, not its code and text.
`select` with several ready cases picks any. An accept channel is the number of
streams in it: that a channel keeps their order is Go's promise, that none is lost
on the way to it or out of it is the code's. `opened` counts the streams from the
moment their first capsule is parsed.

**SessionStreams.** The receive halves are numbered in the order they are made;
`entry` is the maps `streams` and `receiveStreams` together (an ID is in one of
them). The read loop's way through a stream capsule is one control state per
access: look up, insert, track the send limit, enqueue, look at `closed`, write,
finish, delete. A goroutine whose control state accesses a map is inside that
access until its next step; two accesses of one map of which one writes may
stop the process, as the Go runtime does (`concurrentMapAccess`), or go unnoticed.
`Open*` is one at a time, as both applications hold a lock around it.
The peer may name any ID, also ours before we opened it or one it has finished;
`early` and `afterFin` remember the IDs misused that way. The session's own end is
one step here, and buffers are one step per locked block: `Session` and
`ReceiveStream` have the details.

**Handshake.** The value of a limit is the number of the SETTINGS frame that set it.
On the client the read loop takes a frame under `wmu` and `mu`, applies its
settings one by one under the store's own lock, then closes `seenSettingsChan` and
acknowledges. `Connect` runs beside it: wait for the first SETTINGS, reserve
a stream (`mu`), record the snapshot (no lock but the store's), write the headers
(`wmu`), take the response. On the server one goroutine reads frames in order and
puts the snapshot in the request; `Upgrade` is one step of the handler, since it
looks at nothing but the request. `parseAvailableProtocolsHeader` is modelled with
the empty names it puts in front. `SelectProtocol` is any policy: none, the
echo handler's, a name that was not offered, an error. One of the two ends may be
foreign: another implementation, which may send SETTINGS again, refuse extended
CONNECT, send a malformed header or any answer. `ackedAtConnect` and
`sentAtConnect` remember how many SETTINGS were acknowledged and sent when CONNECT
was written. `RoundTripOpt` may try again on another connection when the one it
picked is closed (`transport.go:611-641`, `transport.go:712`). Here such a `Connect`
fails at once. It had recorded and written nothing, because a body that cannot be
rewound is not sent twice, so a second attempt is the model from its start on a new
connection.

**Echo.** One exchange in one of the three modes. The payload is there or not, and
too large for the receive buffers or not. The reader's goroutine of `ReadAll`, the
server's three loops and its echoing goroutine have control states of their own.
The server's capsules stay in the `ResponseWriter`'s buffer until `Flush` or the
end of the handler; a write after that panics. `patient` is a context without
deadline. A read loop queues a stream and stores its payload in one step, where the
session does one after the other (`SessionStreams` has the two steps): the reads of
both sides wait for FIN, which comes after both. A `Write` does not block: the
network takes what is written.

**Baton.** A server and a client. A message is a baton, its number of hops and the
kind of stream as its receiver names it (`uni`, `peer`, `self`, `datagram`); its
value is `(Start + hop) % 256`, so the mirror rule (`%7`) and the wrap are the
code's own. A handler is a record in `calls[side]`, and the non-empty `calls` are
what `inflight.Wait` waits for; `Run`'s own call of `fail` is one too. `finish` is
three steps (the error under its lock, the look at `done`, the close), and a
second close crashes the side. Of the session the module keeps what `Session`
shows: open, closed here with the read loop still in one capsule, ended; streams
can be opened only while it is open, writes on accepted streams may still work
after. An accept loop is not a process of its own: it may take any stream that
has arrived, and once the context or the session has ended nothing obliges it to.
The capacity of the accept channels (16) exceeds the batons of the instance.
Sending the next baton (the mirrored datagram, the open, the write with its FIN, the
flush, and `track` of the reply's handler) is one step, and a message arrives with
its FIN: the handler that sends touches nothing another handler reads until the
message is there, and the receiver decodes it only at FIN. A send that fails
half-way is one that sent nothing, so the receiver's handler that would wait for
the missing FIN does not appear. The FIN that the receiver of a
0 writes on the peer's stream is left out, since the peer has closed that half.
`WhereIs` maps this to `BatonRing`: a baton is where its message goes, or with the
handler that took it and has not sent the next.

## 3. Runs

All runs take less than three minutes with two workers. Deadlock checking is
off where the system may really stop: a session that ended, a peer that sends
no more, the bounds reached.

| Run | Instance | Shows |
| --- | --- | --- |
| `sendlimits_credit` | 2 goroutines, 4 stream IDs, writes of 0 to 2 bytes, snapshot of 2 session bytes and 1 or 2 per stream, grants 1 and 3 | exact charges, nothing beyond the grant, `Credit` implemented, FIN last on a stream with serial calls |
| `sendlimits_opens` | 2 goroutines, 8 IDs, counts granted 0/1, raised to 1 or refused (3 exceeds the instance's `maxStreamCount`) | stream counts within the grant, IDs without gaps or reuse |
| `datagram` | 2 readers, 4 datagrams of 0 to 2 bytes, buffer of 3 | FIFO, byte count, no lost wakeup, calls return |
| `receive_stream` | 2 readers, reads of 1 or 2, payloads of 0 to 2 bytes, 4 bytes sent, buffer of 3 | prefix order, EOF complete, every reader released, calls return |
| `session` | 1 caller, 1 acceptor, the read loop, channels of 2, 3 capsules | orderly single end, no stream lost while the session is open, one late capsule at most, first error stands, Close completes and releases waiters, the peer's end is seen |
| `session_streams` | IDs 0 to 3, so one of each kind and side, 2 capsules (one byte, or empty with FIN), 1 open, 1 reader, 1 close, buffer of 1, channels of 1 | one stream per ID, bytes in order and complete at EOF, the send limit before the stream, replies find their stream, causes of a closed pipe, the one map that is raced for, readers released by FIN and by Close |
| `echo` | every mode, small and large payload, with and without deadline | no incomplete echo is taken for the answer, the echo arrives, the client ends, its reader is released, the handler returns, when a late write panics |
| `handshake` | 2 limits, offers of up to 2 of 3 names (one not encodable), every policy, foreign ends with up to 2 SETTINGS | both snapshots, the agreed protocol, consent, Connect returns, a failed Connect ends the server's session |
| `baton` | 2 batons from 253 (four hops: uni, peer, self, uni), mirrors both ways, one refusal or ended context | `BatonRing` implemented, so no baton forks, success means complete, no error without a cause, an undisturbed exchange ends |

Why these bounds are enough to be interesting. Two bytes of credit against two
writers of up to two bytes makes both limits bind, in both orders, with a refund
in between; the grants include one that lowers a limit and one above the stream
count's ceiling. Eight IDs are two opens of each kind. Buffers of three bytes
fill up both by one large and by several small items. Three capsules fill a
channel of two and block the loop on the third. In `session` the read loop's
deferred `Close` is the second closer beside the caller. From 253 each of the
three ways to send the next baton is used, the client mirrors the first message
and the server the last; two batons are what it takes for one to fail or finish
while the other moves.

In `session_streams` two capsules on one ID are what it takes for data behind a
new stream, behind FIN or behind a close; with three capsules the invariants hold
too (3.9 million states). In `handshake` a second SETTINGS frame is the one that
can be half applied at the snapshot, acknowledged before CONNECT, or late.

The `violation` runs each show one place where code and comment disagree:

| Run | Comment | What happens |
| --- | --- | --- |
| `session_err_final` | `session.go:146` on `CloseErr` | a `WT_CLOSE_SESSION` being parsed during a local `Close` changes `CloseErr` after `done` |
| `baton_late_write` | `baton/session.go:91` "Stop accepting and wait for in-flight baton handlers" | a stream accepted after `inflight.Wait` returned starts a handler that writes |
| `baton_double_close` | `baton/session.go:323` "Ignore write failures once the exchange is already done" | two failures at once both find `done` open and both close it, which panics |

More observations came with the model and have no run of their own.

* Receive half: `Close` between the look at `closed` and the buffer write makes
  the write fail, which ends the session, where `stream.go:99` says "Discard data
  if stream is closed" (`ClosedPipeHasCause` names the causes).
* Datagrams: `close` leaves one token, which wakes one of several waiting readers.
* Session: the loop blocked on a full accept channel never reads the peer's end,
  where `session.go:141` says `Done` is closed when the peer ended the session
  (`PeerEndSeen` states the exception). `Session.Close` wakes no reader of a stream.
* Maps: `OpenStream` and the read loop may access `streams` at the same time, which
  can stop the process; `openMu` in the applications does not help, the read
  loop does not take it.
* A capsule behind the FIN of a unidirectional stream opens a second stream with
  that ID; entries of bidirectional streams are never removed.
* Echo: a client that gives up while its echo is under way can make the server
  panic, since the echoing goroutine writes after the handler returned.
* Handshake: the client's snapshot may hold a half applied SETTINGS frame, or miss
  one acknowledged before CONNECT went out, where `webtransport_settings.go:149-152`
  speaks of the limits "acknowledged immediately before CONNECT is sent". A
  server that sends SETTINGS once, like this one, is not concerned.
  `SETTINGS_WT_ENABLED` is stored and never looked at. `Connect` accepts a
  `WT-Protocol` it did not offer. `SelectProtocol` gets as many empty names as
  there are protocols in front of the list (`server.go:80`), so "the first one" is
  none.

Also: any
`WT_MAX_*` capsule sets `active` in a session that never saw SETTINGS
(`flow.go:25` says it stays inactive); `DatagramReceiveBufferSize` is copied at
construction, so assigning it does nothing; a stream fault sets no reason and is
logged as `local_close`; the baton side that ends last may miss the last 0,
because its accept loop may see the end of the session first;
`CloseErr` may return a `FlowControlError` (`session.go:385`), which its comment
does not mention, and a `WT_MAX_*` capsule shorter than its fields is recorded
as `connect_fin` (`session.go:391`) because its read ends in `io.EOF`.

**Fairness.** Weak fairness of goroutines that are runnable or in a `select`
with a ready case: Go's scheduler runs every runnable goroutine, and a channel
case that stays ready is taken when no other case is. The network of `Baton`
and `Echo` delivers what was written, that of `Handshake` delivers or is seen to be
lost. In `Echo` the timer of `context.WithTimeout` fires, and in `Handshake`
the application's `SelectProtocol` returns and a server of this package sends its
SETTINGS. Nothing is assumed of foreign peers, of the
application's calls, of other contexts, or of the write of `WT_CLOSE_SESSION`, which
may block on HTTP/2 flow control for ever.

## 4. Proofs

Every safety property that a passing run checks is also a theorem, proved with
TLAPS for every value of the constants under the one named assumption of its
module about them (their types; in `SendLimits` also that the goroutines are
finitely many). Each rests on an inductive invariant; the parts of it that are not
themselves properties are what the code relies on without saying so.

* `SendLimits_proofs`. The inductive invariant `IInv` joins the types with:
  a session with a snapshot stays active; an ID without an entry has limit zero;
  charges stay within grants; `opened` counts our streams; their IDs lie below
  the counter; charges equal wire plus held bytes. The last is needed because
  `WireWithinGrant` alone says nothing of bytes reserved and not yet sent; with
  it a capsule write moves bytes from held to wire and changes no sum. From
  `IInv`: `TypeCorrect`, `ChargesExact`, `SentWithinGrant`, `OpenedWithinGrant`,
  `DenseIDs`. `RefinesCredit` shows, step by step, that a session with a
  snapshot implements `Credit` under the mapping `C`: a capsule maps to a raised
  grant, a capsule written to use, everything else to a stutter. `FinLast`, an
  action property, needs `SerialInv`: on a stream whose calls do not overlap one
  goroutine is in a call, so none is between its look at `closed` and its capsule
  when another sets `closed`, which precedes every FIN.
* `DatagramBuffer_proofs`. `TypeCorrect`; `Fifo` (what was taken is what was
  returned followed by the queue); `NoWakeupLost`, by the invariant that
  without overlap at most one reader is in a call; `SpaceExact`, by two lemmas
  on `BytesIn`: `Append` adds the bytes of one datagram, and `Tail` takes away the
  head's, the others shifting by a bijection.
* `ReceiveStream_proofs`. `ReadsExact` by `StreamInv`: what readers got and what is
  buffered is the beginning of the stream; until the half is closed only the payload
  under way is missing; a buffer closed while the half is not has seen FIN and the
  loop has nothing left; EOF is final. `ReadsWhatWasSent` is not inductive because
  it says nothing of the payload the loop carries between two locks.
* `Session_proofs`. `TypeCorrect`; `ClosedOnce` and `EndedAtDone` by the
  invariant that `closeOnce` is running exactly while one actor is in the body,
  and that what the body has done so far follows from where that actor is;
  `AtMostOneLate` by adding that a loop that parsed a late capsule will find
  `stop` set; `StreamsKept` by adding that a loop that gave up a stream did so
  because of `done` and is in its deferred `Close`, which finds `closeOnce` spent, so it
  never parses again (`DropIsLast`); `ErrorStands`.
* `SessionStreams_proofs`. `ControlInv` says what the read loop, the maps and the
  open calls know of each other: maps are keyed by their streams' IDs and the loop
  holds the stream of its capsule (`MapsKeyed`); a stream of ours is in its map
  before the peer can know its ID (`OursOpened`); a stream of the peer's leaves it
  only after its FIN (`PeersFound`); a half on its way to the application has its
  send limit (`SendLimitsSet`); an open half's buffer is closed only by FIN
  (`ClosedByFin`). From it `OneStream`, `SendLimitFirst`, `RepliesFound`,
  `ClosedPipeExplained` and `RaceOnlyInStreams`. `StreamsReadInOrder` adds
  `PayloadInv`: every half holds a run of its ID's bytes up to what the loop still
  carries, starting at the first unless the peer misused the ID. That exception is
  not a weakness of the proof: a second stream with the same ID begins in the middle.
* `Echo_proofs`. `EchoInv`: FIN is sent behind the data in both directions
  (`RequestInv`, `ReplyInv`), the client that takes FIN for the end has the data
  (`ReaderInv`), and without a deadline or a lost connection the session ends only
  when the echoing goroutine is through or can get no further (`EndInv`). From it
  `NeverMismatch` and `PanicExplained`.
* `Handshake_proofs`. `After(frames, n, f, v)` says that `v` is the limit `f` after the
  first `n` SETTINGS. `ConnInv`: the wire holds the frames after the acknowledged ones,
  and the store is the limits after them except where the frame in hand is already
  applied. `CallInv`: the snapshot is not older than the first SETTINGS and not newer
  than the store when CONNECT is written. `UpInv` and `RequestInv`: CONNECT lies
  behind exactly the SETTINGS sent before it, and there is one request.
  `ProtocolInv`: header, answer and sessions agree. From them `SnapshotSound`,
  `ServerLimitsSound` and `ProtocolSound`, for any number of SETTINGS frames, limits
  and names.
* `Baton_proofs`. What a step does to the batons is one of a few effects
  (`Effects`): nothing, put into play, taken over by another carrier on the same side,
  dropped, passed on, counted. From them `Alone` (one carrier, on one side, none before
  `setup` came to it) and `CountInv`: `active` is at least the number of batons that
  will still come to a side or that a handler is about to count, and no baton is
  both or counted twice. So `active = 0` means that everything has reached 0,
  although a side sees only half of the hops. `EndInv` (whoever is in `finish` has an
  error or counted the last), `CalmInv` (without a fault at most one call is in
  `finish`, and the session is closed only when a side is done, so nobody has
  anything left to send). From these `DoneComplete` and `NoErrorByItself`, for any
  number of batons and any first value, and `RefinesRing`: each effect is a step of
  `BatonRing` or a stutter.

`TypeCorrect` is proved for all eight modules, so the type invariants are not among
the runs' properties.

Only model-checked: the properties under fairness (`ReadersReturn`, `ReadReturns`,
`CloseReleasesWaiters`, `PeerEndSeen`, `ReadersReleased`, `EchoArrives`, `ClientEnds`,
`HandlerReturnsAtEnd`, `ConnectReturns`, `FailedConnectEnds`, `ExchangeEnds`), which
TLAPS does not reach because they rest on `ENABLED`. The three properties of the
`violation` runs are false and have no theorem.

## 5. Not modelled

* Capsule and varint encoding and structured fields (libraries), log texts,
  `WritePadding` (it only writes), TLS certificates and flags.
* The HTTP/2 fork beyond the WebTransport SETTINGS and what orders them against a
  request: it is upstream code. Limits on concurrent HTTP/2 streams are left out:
  the clients of this repository make one request per connection.
* Invalid values of a setting, which end the connection, are the lost connection.
* Of the baton application the query parsing (its ranges are the assumption on
  `Start` and `Count`) and the commands around `Run`; the selftest waits for
  the second `Run` without its timeout.
* `Session`, `ReceiveStream`, `DatagramBuffer` and `SendLimits` are not composed into
  one specification: `SessionStreams` joins the first two in a coarser grain, the
  applications use what the modules show of the library.

## 6. Plan

Done: all components that keep state, and the proofs of every safety property of
the runs. Left:

1. The baton selftest around `Run`: two sides that each may wait for the other.
2. The safety lemmas behind the liveness properties as theorems of their own, such
   as what a side of `Baton` that has not finished is waiting for.
