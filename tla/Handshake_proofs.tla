---------------------------- MODULE Handshake_proofs ----------------------------
(***************************************************************************)
(* Proofs about Handshake, for every set of limits and names and every     *)
(* number of SETTINGS frames.                                              *)
(***************************************************************************)
EXTENDS Handshake, SequenceTheorems, TLAPS

-----------------------------------------------------------------------------
(* The inductive invariant.                                                *)

(* v is the value of the limit f after the first n of the frames.          *)
After(settings, n, f, v) ==
    /\ v \in 0..n
    /\ v > 0 => f \in settings[v].fields
    /\ \A k \in v + 1..n : f \notin settings[k].fields

IsSettings(m) == m.kind = "settings"

(* The wire holds the SETTINGS after the first r, in order and complete.   *)
InTurn(wire, settings, r) ==
    /\ \A i \in 1..Len(wire) : IsSettings(wire[i]) =>
          wire[i].n \in r + 1..Len(settings) /\ wire[i] = settings[wire[i].n]
    /\ \A i, j \in 1..Len(wire) :
          i < j /\ IsSettings(wire[i]) /\ IsSettings(wire[j]) => wire[i].n < wire[j].n
    /\ \A k \in r + 1..Len(settings) :
          \E i \in 1..Len(wire) : IsSettings(wire[i]) /\ wire[i].n = k

(* The frame the client's read loop is in.                                 *)
Busy == applying.n # 0

Applied == IF Busy THEN serverFrames[acked + 1].fields \ applying.left ELSE {}

(* The client's connection: what it has read, applied and acknowledged.    *)
ConnInv ==
    /\ ~lost => InTurn(down, serverFrames, acked)
    /\ lost => (down # <<>> <=> Busy) /\ Len(down) <= 1
    /\ Busy => /\ ~closed /\ applying.n = acked + 1
               /\ down # <<>> /\ Head(down) = serverFrames[acked + 1]
               /\ applying.left \subseteq serverFrames[acked + 1].fields
    /\ ~Busy => applying.left = {}
    /\ \A f \in Applied : store[f] = acked + 1
    /\ \A f \in Fields \ Applied : After(serverFrames, acked, f, store[f])
    /\ ~seen => acked = 0
    /\ seen /\ ~closed => acked >= 1 /\ allowed = serverFrames[1].enable

Consent == acked >= 1 /\ serverFrames[1].enable

NotOlder(limits) == \A f \in Fields : f \in serverFrames[1].fields => limits[f] >= 1

NotNewer(limits) ==
    \A f \in Fields : \E v \in 0..ackedAtConnect :
        After(serverFrames, ackedAtConnect, f, v) /\ limits[f] <= v

(* Connect: the snapshot is taken when the server has consented, and from  *)
(* then on the store only grows.                                           *)
CallInv ==
    /\ call = "reserve" /\ ~closed => Consent
    /\ call \in {"record", "write", "response", "session"} => Consent
    /\ call \in {"write", "response", "session"} => NotOlder(capture.limits)
    /\ call = "write" => \A f \in Fields : capture.limits[f] <= store[f]
    /\ call \in {"response", "session"} => NotNewer(capture.limits)
    /\ clientSession.state = "open" => clientSession.limits = capture.limits

IsConnect(m) == m.kind = "connect"

NoConnect == \A i \in 1..Len(up) : ~IsConnect(up[i])

(* The way to the server: CONNECT comes behind the SETTINGS that were sent *)
(* before it.                                                              *)
UpInv ==
    /\ lost => up = <<>>
    /\ ~lost => \E r \in 0..Len(clientFrames) :
                   /\ InTurn(up, clientFrames, r)
                   /\ \A f \in Fields : After(clientFrames, r, f, serverStore[f])
                   /\ NoConnect \/ r <= sentAtConnect
    /\ \A i, j \in 1..Len(up) : IsConnect(up[i]) /\ IsSettings(up[j]) =>
          IF j < i THEN up[j].n <= sentAtConnect ELSE up[j].n > sentAtConnect
    /\ \A i, j \in 1..Len(up) : IsConnect(up[i]) /\ IsConnect(up[j]) => i = j

(* There is one request, and its limits go into the session.               *)
RequestInv ==
    /\ request.state # "none" => NoConnect
    /\ foreign = "client" <=> call = "none"
    /\ call \in {"call", "wait", "reserve", "record", "write"} =>
          NoConnect /\ request.state = "none"
    /\ request.state # "none" =>
          \A f \in Fields : After(clientFrames, sentAtConnect, f, request.settings[f])
    /\ serverSession.state # "none" =>
          request.state = "answered" /\ serverSession.limits = request.settings

ServerInv == UpInv /\ RequestInv

(* A client of this package: the request carries its list.  A server of    *)
(* another implementation has no SelectProtocol.                           *)
OfferInv ==
    /\ foreign # "client" =>
          /\ \A i \in 1..Len(up) : IsConnect(up[i]) => up[i].header = offered
          /\ request.state # "none" => request.header = offered
    /\ foreign = "server" => wanted.kind = "none"

IsConsent(m) == m.kind = "response" /\ m.ok

(* Two ends of this package: what the server has answered is what it has,  *)
(* and it was offered.                                                     *)
AnswerInv ==
    foreign = "none" =>
        /\ \A i \in 1..Len(down) : IsConsent(down[i]) =>
              /\ serverSession.state # "none"
              /\ down[i].header = encodeSelectedProtocolHeader(serverSession.protocol)
        /\ serverSession.state # "none" =>
              serverSession.protocol \in Range(offered) \cup {NoProtocol}

ProtocolInv == OfferInv /\ AnswerInv /\ ProtocolAgreed

HandshakeInv == TypeOK /\ ConnInv /\ CallInv /\ ServerInv /\ ProtocolInv

-----------------------------------------------------------------------------
(* Sequences read from the front and written at the end.                   *)

LEMMA TailAt ==
    ASSUME NEW S, NEW s \in Seq(S), s # <<>>
    PROVE  /\ Len(s) \in Nat \ {0} /\ Head(s) = s[1] /\ Head(s) \in S
           /\ Tail(s) \in Seq(S) /\ Len(Tail(s)) = Len(s) - 1
           /\ \A i \in 1..Len(s) - 1 : Tail(s)[i] = s[i + 1]
  OBVIOUS

LEMMA AppendAt ==
    ASSUME NEW S, NEW s \in Seq(S), NEW e \in S
    PROVE  /\ Append(s, e) \in Seq(S) /\ Len(s) \in Nat
           /\ Len(Append(s, e)) = Len(s) + 1
           /\ \A i \in 1..Len(s) : Append(s, e)[i] = s[i]
           /\ Append(s, e)[Len(s) + 1] = e
  BY AppendProperties, LenProperties

-----------------------------------------------------------------------------
(* The value of a limit.                                                   *)

(* It is the one limitsAfter names.                                        *)
LEMMA AfterIsMax ==
    ASSUME NEW settings, NEW n \in Nat, NEW f \in Fields, NEW v, After(settings, n, f, v)
    PROVE  limitsAfter(settings, n)[f] = v
  <1> DEFINE K == {0} \cup {k \in 1..n : f \in settings[k].fields}
  <1>1. limitsAfter(settings, n)[f] = Max(K)
    BY DEF limitsAfter
  <1>2. v \in K
    BY DEF After
  <1>3. \A k \in K : v >= k
    BY DEF After
  <1>4. \A k \in K : k \in Int
    OBVIOUS
  <1> HIDE DEF K
  <1>5. \A x \in K : (\A k \in K : x >= k) => x = v
    BY <1>2, <1>3, <1>4
  <1>6. Max(K) = v
    BY <1>2, <1>3, <1>5 DEF Max
  <1> QED
    BY <1>1, <1>6

(* It changes with the next frame ...                                      *)
LEMMA AfterNext ==
    ASSUME NEW settings, NEW n \in Nat, NEW f, NEW v, After(settings, n, f, v)
    PROVE  After(settings, n + 1, f, IF f \in settings[n + 1].fields THEN n + 1 ELSE v)
  BY DEF After

(* ... and depends on the first frames only.                               *)
LEMMA AfterSame ==
    ASSUME NEW settings, NEW more, NEW n \in Nat, NEW f, NEW v, After(settings, n, f, v),
           \A k \in 1..n : more[k] = settings[k]
    PROVE  After(more, n, f, v)
  <1>1. v \in 0..n
    BY DEF After
  <1>2. v > 0 => more[v] = settings[v]
    BY <1>1
  <1>3. \A k \in v + 1..n : k \in 1..n
    BY <1>1
  <1> QED
    BY <1>1, <1>2, <1>3 DEF After

-----------------------------------------------------------------------------
(* SETTINGS on a wire.                                                     *)

LEMMA InTurnRead ==
    ASSUME NEW S, NEW wire \in Seq(S), wire # <<>>, NEW T, NEW settings \in Seq(T),
           NEW r \in Nat, InTurn(wire, settings, r), IsSettings(Head(wire))
    PROVE  /\ Head(wire).n = r + 1 /\ r + 1 <= Len(settings)
           /\ Head(wire) = settings[r + 1]
           /\ InTurn(Tail(wire), settings, r + 1)
  <1> DEFINE rest == Tail(wire)
             L == Len(wire)
             N == Len(settings)
  <1>1. /\ L \in Nat \ {0} /\ N \in Nat /\ Head(wire) = wire[1] /\ Len(rest) = L - 1
        /\ \A i \in 1..L - 1 : rest[i] = wire[i + 1]
    BY TailAt, LenProperties
  <1>2. /\ \A i \in 1..L : IsSettings(wire[i]) =>
              wire[i].n \in r + 1..N /\ wire[i] = settings[wire[i].n]
        /\ \A i, j \in 1..L :
              i < j /\ IsSettings(wire[i]) /\ IsSettings(wire[j]) => wire[i].n < wire[j].n
        /\ \A k \in r + 1..N : \E i \in 1..L : IsSettings(wire[i]) /\ wire[i].n = k
    BY DEF InTurn
  <1> HIDE DEF rest, L, N
  <1>3. wire[1].n \in r + 1..N /\ wire[1] = settings[wire[1].n]
    BY <1>1, <1>2
  <1>4. wire[1].n = r + 1 /\ r + 1 <= N
    <2>1. r + 1 \in r + 1..N
      BY <1>1, <1>3
    <2>2. PICK i \in 1..L : IsSettings(wire[i]) /\ wire[i].n = r + 1
      BY <1>2, <2>1
    <2>3. CASE i = 1
      BY <2>1, <2>2, <2>3
    <2>4. CASE i # 1
      <3>1. 1 \in 1..L /\ 1 < i
        BY <1>1, <2>4
      <3>2. wire[1].n < wire[i].n
        BY <1>1, <1>2, <2>2, <3>1
      <3> QED
        BY <1>1, <1>3, <2>2, <3>2
    <2> QED
      BY <2>3, <2>4
  <1>5. \A i \in 1..L - 1 : i + 1 \in 1..L /\ rest[i] = wire[i + 1]
    BY <1>1
  <1>6. \A i \in 1..L - 1 : IsSettings(rest[i]) =>
           rest[i].n \in r + 1 + 1..N /\ rest[i] = settings[rest[i].n]
    <2> SUFFICES ASSUME NEW i \in 1..L - 1, IsSettings(rest[i])
                 PROVE  rest[i].n \in r + 1 + 1..N /\ rest[i] = settings[rest[i].n]
      OBVIOUS
    <2>1. i + 1 \in 1..L /\ 1 \in 1..L /\ 1 < i + 1 /\ rest[i] = wire[i + 1]
      BY <1>1, <1>5
    <2>2. wire[i + 1].n \in r + 1..N /\ wire[i + 1] = settings[wire[i + 1].n]
      BY <1>2, <2>1
    <2>3. wire[1].n < wire[i + 1].n
      BY <1>1, <1>2, <2>1
    <2> QED
      BY <1>1, <1>4, <2>1, <2>2, <2>3
  <1>7. \A i, j \in 1..L - 1 :
           i < j /\ IsSettings(rest[i]) /\ IsSettings(rest[j]) => rest[i].n < rest[j].n
    <2> SUFFICES ASSUME NEW i \in 1..L - 1, NEW j \in 1..L - 1,
                        i < j, IsSettings(rest[i]), IsSettings(rest[j])
                 PROVE  rest[i].n < rest[j].n
      OBVIOUS
    <2>1. /\ i + 1 \in 1..L /\ j + 1 \in 1..L /\ i + 1 < j + 1
          /\ rest[i] = wire[i + 1] /\ rest[j] = wire[j + 1]
      BY <1>1, <1>5
    <2> QED
      BY <1>2, <2>1
  <1>8. \A k \in r + 1 + 1..N : \E i \in 1..L - 1 : IsSettings(rest[i]) /\ rest[i].n = k
    <2> SUFFICES ASSUME NEW k \in r + 1 + 1..N
                 PROVE  \E i \in 1..L - 1 : IsSettings(rest[i]) /\ rest[i].n = k
      OBVIOUS
    <2>1. k \in r + 1..N /\ k # r + 1
      BY <1>1
    <2>2. PICK i \in 1..L : IsSettings(wire[i]) /\ wire[i].n = k
      BY <1>2, <2>1
    <2>3. i # 1
      BY <1>4, <2>1, <2>2
    <2>4. i - 1 \in 1..L - 1 /\ i - 1 + 1 = i
      BY <1>1, <2>3
    <2>5. rest[i - 1] = wire[i]
      BY <1>5, <2>4
    <2> QED
      BY <2>2, <2>4, <2>5
  <1>9. InTurn(rest, settings, r + 1)
    BY <1>1, <1>6, <1>7, <1>8 DEF InTurn, N
  <1> QED
    BY <1>1, <1>3, <1>4, <1>9 DEF rest, N

LEMMA InTurnSkip ==
    ASSUME NEW S, NEW wire \in Seq(S), wire # <<>>, NEW settings, NEW r \in Nat,
           InTurn(wire, settings, r), ~IsSettings(Head(wire))
    PROVE  InTurn(Tail(wire), settings, r)
  <1> DEFINE rest == Tail(wire)
             L == Len(wire)
  <1>1. /\ L \in Nat \ {0} /\ Head(wire) = wire[1] /\ Len(rest) = L - 1
        /\ \A i \in 1..L - 1 : rest[i] = wire[i + 1]
    BY TailAt
  <1>2. /\ \A i \in 1..L : IsSettings(wire[i]) =>
              wire[i].n \in r + 1..Len(settings) /\ wire[i] = settings[wire[i].n]
        /\ \A i, j \in 1..L :
              i < j /\ IsSettings(wire[i]) /\ IsSettings(wire[j]) => wire[i].n < wire[j].n
        /\ \A k \in r + 1..Len(settings) :
              \E i \in 1..L : IsSettings(wire[i]) /\ wire[i].n = k
    BY DEF InTurn
  <1> HIDE DEF rest, L
  <1>3. \A i \in 1..L - 1 : i + 1 \in 1..L /\ rest[i] = wire[i + 1]
    BY <1>1
  <1>4. \A i \in 1..L - 1 : IsSettings(rest[i]) =>
           rest[i].n \in r + 1..Len(settings) /\ rest[i] = settings[rest[i].n]
    BY <1>2, <1>3
  <1>5. \A i, j \in 1..L - 1 :
           i < j /\ IsSettings(rest[i]) /\ IsSettings(rest[j]) => rest[i].n < rest[j].n
    <2> SUFFICES ASSUME NEW i \in 1..L - 1, NEW j \in 1..L - 1,
                        i < j, IsSettings(rest[i]), IsSettings(rest[j])
                 PROVE  rest[i].n < rest[j].n
      OBVIOUS
    <2>1. /\ i + 1 \in 1..L /\ j + 1 \in 1..L /\ i + 1 < j + 1
          /\ rest[i] = wire[i + 1] /\ rest[j] = wire[j + 1]
      BY <1>1, <1>3
    <2> QED
      BY <1>2, <2>1
  <1>6. \A k \in r + 1..Len(settings) :
           \E i \in 1..L - 1 : IsSettings(rest[i]) /\ rest[i].n = k
    <2> SUFFICES ASSUME NEW k \in r + 1..Len(settings)
                 PROVE  \E i \in 1..L - 1 : IsSettings(rest[i]) /\ rest[i].n = k
      OBVIOUS
    <2>1. PICK i \in 1..L : IsSettings(wire[i]) /\ wire[i].n = k
      BY <1>2
    <2>2. i # 1
      BY <1>1, <2>1
    <2>3. i - 1 \in 1..L - 1 /\ i - 1 + 1 = i
      BY <1>1, <2>2
    <2>4. rest[i - 1] = wire[i]
      BY <1>3, <2>3
    <2> QED
      BY <2>1, <2>3, <2>4
  <1>7. InTurn(rest, settings, r)
    BY <1>1, <1>4, <1>5, <1>6 DEF InTurn
  <1> QED
    BY <1>7 DEF rest

LEMMA InTurnOther ==
    ASSUME NEW S, NEW wire \in Seq(S), NEW m \in S, NEW settings, NEW r \in Nat,
           InTurn(wire, settings, r), ~IsSettings(m)
    PROVE  InTurn(Append(wire, m), settings, r)
  <1> DEFINE long == Append(wire, m)
             L == Len(wire)
  <1>1. /\ L \in Nat /\ Len(long) = L + 1 /\ long[L + 1] = m
        /\ \A i \in 1..L : long[i] = wire[i]
    BY AppendAt
  <1>2. /\ \A i \in 1..L : IsSettings(wire[i]) =>
              wire[i].n \in r + 1..Len(settings) /\ wire[i] = settings[wire[i].n]
        /\ \A i, j \in 1..L :
              i < j /\ IsSettings(wire[i]) /\ IsSettings(wire[j]) => wire[i].n < wire[j].n
        /\ \A k \in r + 1..Len(settings) :
              \E i \in 1..L : IsSettings(wire[i]) /\ wire[i].n = k
    BY DEF InTurn
  <1> HIDE DEF long, L
  <1>3. \A i \in 1..L + 1 : IsSettings(long[i]) => i \in 1..L /\ long[i] = wire[i]
    BY <1>1
  <1>4. \A i \in 1..L : i \in 1..L + 1 /\ long[i] = wire[i]
    BY <1>1
  <1>5. InTurn(long, settings, r)
    BY <1>1, <1>2, <1>3, <1>4 DEF InTurn
  <1> QED
    BY <1>5 DEF long

LEMMA InTurnSent ==
    ASSUME NEW S, NEW wire \in Seq(S), NEW T, NEW settings \in Seq(T), NEW m \in S \cap T,
           NEW r \in Nat, r <= Len(settings),
           InTurn(wire, settings, r), IsSettings(m), m.n = Len(settings) + 1
    PROVE  InTurn(Append(wire, m), Append(settings, m), r)
  <1> DEFINE long == Append(wire, m)
             more == Append(settings, m)
             L == Len(wire)
             N == Len(settings)
  <1>1. /\ L \in Nat /\ Len(long) = L + 1 /\ long[L + 1] = m
        /\ \A i \in 1..L : long[i] = wire[i]
    BY AppendAt
  <1>2. /\ N \in Nat /\ Len(more) = N + 1 /\ more[N + 1] = m
        /\ \A i \in 1..N : more[i] = settings[i]
    BY AppendAt
  <1>3. /\ \A i \in 1..L : IsSettings(wire[i]) =>
              wire[i].n \in r + 1..N /\ wire[i] = settings[wire[i].n]
        /\ \A i, j \in 1..L :
              i < j /\ IsSettings(wire[i]) /\ IsSettings(wire[j]) => wire[i].n < wire[j].n
        /\ \A k \in r + 1..N :
              \E i \in 1..L : IsSettings(wire[i]) /\ wire[i].n = k
    BY DEF InTurn
  <1>4. m.n = N + 1 /\ r <= N
    OBVIOUS
  <1> HIDE DEF long, more, L, N
  <1>5. \A i \in 1..L : i \in 1..L + 1 /\ long[i] = wire[i]
    BY <1>1
  <1>6. \A i \in 1..L + 1 : i = L + 1 \/ i \in 1..L
    BY <1>1
  <1>7. \A i \in 1..L + 1 : IsSettings(long[i]) =>
           long[i].n \in r + 1..N + 1 /\ long[i] = more[long[i].n]
    <2> SUFFICES ASSUME NEW i \in 1..L + 1, IsSettings(long[i])
                 PROVE  long[i].n \in r + 1..N + 1 /\ long[i] = more[long[i].n]
      OBVIOUS
    <2>1. CASE i = L + 1
      BY <1>1, <1>2, <1>4, <2>1
    <2>2. CASE i \in 1..L
      <3>1. long[i] = wire[i] /\ wire[i].n \in r + 1..N /\ wire[i] = settings[wire[i].n]
        BY <1>1, <1>3, <2>2
      <3>2. wire[i].n \in 1..N /\ wire[i].n \in r + 1..N + 1
        BY <1>2, <3>1
      <3> QED
        BY <1>2, <3>1, <3>2
    <2> QED
      BY <1>6, <2>1, <2>2
  <1>8. \A i, j \in 1..L + 1 :
           i < j /\ IsSettings(long[i]) /\ IsSettings(long[j]) => long[i].n < long[j].n
    <2> SUFFICES ASSUME NEW i \in 1..L + 1, NEW j \in 1..L + 1,
                        i < j, IsSettings(long[i]), IsSettings(long[j])
                 PROVE  long[i].n < long[j].n
      OBVIOUS
    <2>1. i \in 1..L /\ long[i] = wire[i]
      BY <1>1, <1>5
    <2>2. CASE j = L + 1
      <3>1. wire[i].n \in r + 1..N
        BY <1>3, <2>1
      <3> QED
        BY <1>1, <1>2, <1>4, <2>1, <2>2, <3>1
    <2>3. CASE j \in 1..L
      BY <1>3, <1>5, <2>1, <2>3
    <2> QED
      BY <1>6, <2>2, <2>3
  <1>9. \A k \in r + 1..N + 1 :
           \E i \in 1..L + 1 : IsSettings(long[i]) /\ long[i].n = k
    <2> SUFFICES ASSUME NEW k \in r + 1..N + 1
                 PROVE  \E i \in 1..L + 1 : IsSettings(long[i]) /\ long[i].n = k
      OBVIOUS
    <2>1. CASE k = N + 1
      <3>1. L + 1 \in 1..L + 1
        BY <1>1
      <3> QED
        BY <1>1, <1>4, <2>1, <3>1
    <2>2. CASE k \in r + 1..N
      BY <1>3, <1>5, <2>2
    <2> QED
      BY <1>2, <2>1, <2>2
  <1>10. InTurn(long, more, r)
    BY <1>1, <1>2, <1>7, <1>8, <1>9 DEF InTurn
  <1> QED
    BY <1>10 DEF long, more

-----------------------------------------------------------------------------
(* What a step is.                                                         *)

LEMMA NextCases ==
    ASSUME [Next]_vars
    PROVE  \/ processSettings \/ applySetting \/ settingsDone \/ cleanup
           \/ refuse \/ roundTrip \/ awaitSettings \/ reserveStream
           \/ recordPeerWebTransportSettings \/ writeHeaders \/ roundTripFails \/ response
           \/ sendSettings \/ serverReads \/ Upgrade \/ sessionEnds \/ serverSeesLoss
           \/ foreignServerSettings \/ foreignAnswer
           \/ foreignClientSettings \/ foreignRequest \/ foreignEnd
           \/ connectionLost \/ UNCHANGED vars
  BY DEF Next, ReadLoop, ConnectStep, ServerStep

-----------------------------------------------------------------------------
(* Types, one group of variables at a time.                                *)

LEMMA Typed ==
    /\ Lists(Names) \subseteq Seq(Names) /\ Headers \subseteq Parsed
    /\ \A n \in Nat \ {0}, fields \in SUBSET Fields, enable \in BOOLEAN :
          /\ Setting(n, fields, enable) \in SettingsFrames
          /\ Setting(n, fields, enable).n = n
          /\ Setting(n, fields, enable).fields = fields
          /\ Setting(n, fields, enable).enable = enable
          /\ IsSettings(Setting(n, fields, enable))
    /\ \A b \in BOOLEAN, h \in Parsed :
          /\ ConnectRequest(b, h) \in ToServer /\ ConnectRequest(b, h).kind = "connect"
          /\ ConnectRequest(b, h).header = h
          /\ Response(b, h) \in ToClient /\ Response(b, h).kind = "response"
          /\ Response(b, h).ok = b /\ Response(b, h).header = h
    /\ End \in ToServer /\ End.kind = "end"
    /\ SettingsFrames \subseteq ToServer /\ SettingsFrames \subseteq ToClient
    /\ NoLimits \in Limits
    /\ \A limits \in Limits, fields \in SUBSET Fields, n \in Nat :
          apply(limits, fields, n) \in Limits
    /\ <<>> \in Parsed
  <1>1. Lists(Names) \subseteq Seq(Names)
    BY HandshakeAssumption DEF Lists
  <1>2. Headers \subseteq Parsed
    <2>1. Lists(Names \ Unencodable) \subseteq Lists(Names)
      BY HandshakeAssumption DEF Lists
    <2> QED
      BY <1>1, <2>1 DEF Headers, Parsed
  <1>3. \A n \in Nat \ {0}, fields \in SUBSET Fields, enable \in BOOLEAN :
          /\ Setting(n, fields, enable) \in SettingsFrames
          /\ Setting(n, fields, enable).n = n
          /\ Setting(n, fields, enable).fields = fields
          /\ Setting(n, fields, enable).enable = enable
          /\ IsSettings(Setting(n, fields, enable))
    BY DEF Setting, SettingsFrames, IsSettings
  <1>4. \A b \in BOOLEAN, h \in Parsed :
          /\ ConnectRequest(b, h) \in ToServer /\ ConnectRequest(b, h).kind = "connect"
          /\ ConnectRequest(b, h).header = h
    BY DEF ConnectRequest, ToServer
  <1>5. \A b \in BOOLEAN, h \in Parsed :
          /\ Response(b, h) \in ToClient /\ Response(b, h).kind = "response"
          /\ Response(b, h).ok = b /\ Response(b, h).header = h
    BY DEF Response, ToClient
  <1>6. End \in ToServer /\ End.kind = "end"
    BY DEF End, ToServer
  <1>7. SettingsFrames \subseteq ToServer /\ SettingsFrames \subseteq ToClient
    BY DEF ToServer, ToClient
  <1>8. NoLimits \in Limits
    BY DEF NoLimits, Limits
  <1>9. \A limits \in Limits, fields \in SUBSET Fields, n \in Nat :
          apply(limits, fields, n) \in Limits
    BY DEF apply, Limits
  <1>10. <<>> \in Parsed
    BY DEF Parsed
  <1> QED
    BY <1>1, <1>2, <1>3, <1>4, <1>5, <1>6, <1>7, <1>8, <1>9, <1>10

(* What a message is.                                                      *)
LEMMA MessageKinds ==
    /\ \A m \in SettingsFrames :
          /\ IsSettings(m) /\ m.n \in Nat \ {0} /\ m.fields \in SUBSET Fields
          /\ m.enable \in BOOLEAN
    /\ \A m \in ToServer :
          \/ IsSettings(m) /\ m \in SettingsFrames
          \/ m.kind = "connect" /\ m.valid \in BOOLEAN /\ m.header \in Parsed
          \/ m.kind = "end"
    /\ \A m \in ToClient :
          \/ IsSettings(m) /\ m \in SettingsFrames
          \/ m.kind = "response" /\ m.ok \in BOOLEAN /\ m.header \in Parsed
  <1>1. \A m \in SettingsFrames :
          /\ IsSettings(m) /\ m.n \in Nat \ {0} /\ m.fields \in SUBSET Fields
          /\ m.enable \in BOOLEAN
    BY DEF SettingsFrames, IsSettings
  <1>2. \A m \in ToServer :
          \/ IsSettings(m) /\ m \in SettingsFrames
          \/ m.kind = "connect" /\ m.valid \in BOOLEAN /\ m.header \in Parsed
          \/ m.kind = "end"
    BY <1>1 DEF ToServer, End
  <1>3. \A m \in ToClient :
          \/ IsSettings(m) /\ m \in SettingsFrames
          \/ m.kind = "response" /\ m.ok \in BOOLEAN /\ m.header \in Parsed
    BY <1>1 DEF ToClient
  <1> QED
    BY <1>1, <1>2, <1>3

(* SETTINGS are numbered, recorded and sent.                               *)
LEMMA ServerSettingsSent ==
    ASSUME TypeOK, sendSettings \/ foreignServerSettings
    PROVE  /\ ~lost
           /\ \E m \in SettingsFrames :
                 /\ m.n = Len(serverFrames) + 1
                 /\ serverFrames' = Append(serverFrames, m) /\ down' = Append(down, m)
           /\ UNCHANGED <<foreign, clientVars, clientConn, serverVars, clientFrames, up, lost>>
  <1>1. serverFrames \in Seq(SettingsFrames) /\ Len(serverFrames) \in Nat
    BY LenProperties DEF TypeOK
  <1>2. CASE sendSettings
    <2>1. serverFrames = <<>> /\ Len(serverFrames) = 0
      BY <1>2 DEF sendSettings
    <2> DEFINE m == Setting(1, Fields, TRUE)
    <2>2. m \in SettingsFrames /\ m.n = 1
      BY DEF Setting, SettingsFrames
    <2>3. serverFrames' = <<m>> /\ down' = Append(down, serverFrames'[1])
      BY <1>2 DEF sendSettings
    <2> HIDE DEF m
    <2>4. serverFrames'[1] = m /\ Append(serverFrames, m) = <<m>>
      BY <2>1, <2>3
    <2>5. down' = Append(down, m)
      BY <2>3, <2>4
    <2>6. m.n = Len(serverFrames) + 1 /\ serverFrames' = Append(serverFrames, m)
      BY <2>1, <2>2, <2>3, <2>4
    <2>7. /\ ~lost
          /\ UNCHANGED <<foreign, clientVars, clientConn, serverVars, clientFrames, up, lost>>
      BY <1>2 DEF sendSettings, serverFrame
    <2> QED
      BY <2>2, <2>5, <2>6, <2>7
  <1>3. CASE foreignServerSettings
    <2>1. PICK fields \in SUBSET Fields, enable \in BOOLEAN :
             serverFrames' = Append(serverFrames, Setting(Len(serverFrames) + 1, fields, enable))
      BY <1>3 DEF foreignServerSettings
    <2> DEFINE m == Setting(Len(serverFrames) + 1, fields, enable)
    <2>2. m \in SettingsFrames /\ m.n = Len(serverFrames) + 1
      BY <1>1, Typed
    <2>3. serverFrames' = Append(serverFrames, m) /\ down' = Append(down, serverFrames'[Len(serverFrames')])
      BY <1>3, <2>1 DEF foreignServerSettings
    <2> HIDE DEF m
    <2>4. Len(serverFrames') = Len(serverFrames) + 1 /\ serverFrames'[Len(serverFrames) + 1] = m
      BY <1>1, <2>2, <2>3, AppendAt
    <2>5. down' = Append(down, m)
      BY <2>3, <2>4
    <2> QED
      BY <1>3, <2>2, <2>3, <2>5 DEF foreignServerSettings, serverFrame
  <1> QED
    BY <1>2, <1>3

LEMMA ClientSettingsSent ==
    ASSUME TypeOK, foreignClientSettings
    PROVE  /\ ~lost /\ foreign = "client"
           /\ \E m \in SettingsFrames :
                 /\ m.n = Len(clientFrames) + 1
                 /\ clientFrames' = Append(clientFrames, m) /\ up' = Append(up, m)
           /\ UNCHANGED <<foreign, clientVars, clientConn, serverVars, serverFrames, down, lost>>
  <1>1. clientFrames \in Seq(SettingsFrames) /\ Len(clientFrames) \in Nat
    BY LenProperties DEF TypeOK
  <1>2. PICK fields \in SUBSET Fields :
           clientFrames' = Append(clientFrames, Setting(Len(clientFrames) + 1, fields, FALSE))
    BY DEF foreignClientSettings
  <1> DEFINE m == Setting(Len(clientFrames) + 1, fields, FALSE)
  <1>3. m \in SettingsFrames /\ m.n = Len(clientFrames) + 1
    BY <1>1 DEF Setting, SettingsFrames
  <1>4. clientFrames' = Append(clientFrames, m) /\ up' = Append(up, clientFrames'[Len(clientFrames')])
    BY <1>2 DEF foreignClientSettings
  <1> HIDE DEF m
  <1>5. Len(clientFrames') = Len(clientFrames) + 1 /\ clientFrames'[Len(clientFrames) + 1] = m
    BY <1>1, <1>3, <1>4, AppendAt
  <1>6. up' = Append(up, m)
    BY <1>4, <1>5
  <1> QED
    BY <1>3, <1>4, <1>6 DEF foreignClientSettings, foreignClientFrame, clientVars, history

(* The messages a server takes from its wire.                              *)
LEMMA ServerReadsCases ==
    ASSUME TypeOK, serverReads
    PROVE  /\ up # <<>> /\ up' = Tail(up)
           /\ \/ /\ IsSettings(Head(up)) /\ Head(up) \in SettingsFrames
                 /\ serverStore' = apply(serverStore, Head(up).fields, Head(up).n)
                 /\ UNCHANGED request
              \/ /\ IsConnect(Head(up)) /\ Head(up).header \in Parsed
                 /\ Head(up).valid \in BOOLEAN
                 /\ request' = newWriterAndRequest(Head(up)) /\ UNCHANGED serverStore
              \/ /\ Head(up).kind = "end"
                 /\ request' = [request EXCEPT !.ended = TRUE] /\ UNCHANGED serverStore
           /\ UNCHANGED <<foreign, clientVars, clientConn, frames, wanted, serverSession, down,
                          lost>>
  <1>1. up # <<>> /\ up' = Tail(up) /\ up \in Seq(ToServer)
    BY DEF serverReads, TypeOK
  <1>2. Head(up) \in ToServer
    BY <1>1, TailAt
  <1>3. UNCHANGED <<foreign, clientVars, clientConn, frames, wanted, serverSession, down, lost>>
    BY DEF serverReads, serverFrame, frames
  <1>4. CASE IsSettings(Head(up)) /\ Head(up) \in SettingsFrames
    BY <1>1, <1>3, <1>4 DEF serverReads, IsSettings
  <1>5. CASE IsConnect(Head(up)) /\ Head(up).valid \in BOOLEAN /\ Head(up).header \in Parsed
    BY <1>1, <1>3, <1>5 DEF serverReads, IsConnect
  <1>6. CASE Head(up).kind = "end"
    BY <1>1, <1>3, <1>6 DEF serverReads
  <1> QED
    BY <1>2, <1>4, <1>5, <1>6, MessageKinds DEF IsConnect

(* The types, by component.                                                *)
TypeClient ==
    /\ foreign \in {"none", "client", "server"} /\ offered \in Lists(Names)
    /\ call \in {"none", "call", "wait", "reserve", "record", "write", "response",
                 "session", "failed"}
    /\ capture \in [ok : BOOLEAN, limits : Limits]
    /\ call \in {"write", "response", "session"} => capture.ok
    /\ clientSession \in [state : {"none", "open"}, limits : Limits,
                          protocol : Names \cup {NoProtocol}]
    /\ clientSession.state = "open" <=> call = "session"

TypeConn ==
    /\ store \in Limits /\ acked \in 0..Len(serverFrames)
    /\ applying \in [n : 0..Len(serverFrames), left : SUBSET Fields]
    /\ allowed \in BOOLEAN /\ seen \in BOOLEAN /\ closed \in BOOLEAN
    /\ ackedAtConnect \in 0..Len(serverFrames)

TypeServer ==
    /\ serverStore \in Limits
    /\ request \in [state : {"none", "pending", "answered"}, valid : BOOLEAN,
                    header : Parsed, settings : Limits, ended : BOOLEAN]
    /\ wanted \in Policies \cup {[kind |-> "none", name |-> NoProtocol]}
    /\ serverSession \in [state : {"none", "open", "ended"}, limits : Limits,
                          protocol : Names \cup {NoProtocol}]

TypeWires ==
    /\ serverFrames \in Seq(SettingsFrames) /\ clientFrames \in Seq(SettingsFrames)
    /\ up \in Seq(ToServer) /\ down \in Seq(ToClient) /\ lost \in BOOLEAN
    /\ sentAtConnect \in 0..Len(clientFrames)

LEMMA TypeParts == TypeOK <=> TypeClient /\ TypeConn /\ TypeServer /\ TypeWires
  BY DEF TypeOK, TypeClient, TypeConn, TypeServer, TypeWires

(* What the server answers.                                                *)
LEMMA AnswerTyped ==
    /\ \A p \in Names \cup {NoProtocol} : encodeSelectedProtocolHeader(p) \in Parsed
    /\ \A h \in Parsed : h # Malformed =>
          parseSelectedProtocolHeader(h) \in Names \cup {NoProtocol}
    /\ \A policy \in Policies :
          policy.name \in Names \cup {NoProtocol}
  <1>1. \A p \in Names \cup {NoProtocol} : encodeSelectedProtocolHeader(p) \in Parsed
    <2> SUFFICES ASSUME NEW p \in Names \cup {NoProtocol}
                 PROVE  encodeSelectedProtocolHeader(p) \in Parsed
      OBVIOUS
    <2>1. CASE p = NoProtocol
      BY <2>1, Typed DEF encodeSelectedProtocolHeader
    <2>2. CASE p # NoProtocol
      <3>1. <<p>> \in Seq(Names)
        BY <2>2
      <3> QED
        BY <2>2, <3>1 DEF encodeSelectedProtocolHeader, Parsed
    <2> QED
      BY <2>1, <2>2
  <1>2. \A h \in Parsed : h # Malformed =>
          parseSelectedProtocolHeader(h) \in Names \cup {NoProtocol}
    <2> SUFFICES ASSUME NEW h \in Parsed, h # Malformed
                 PROVE  parseSelectedProtocolHeader(h) \in Names \cup {NoProtocol}
      OBVIOUS
    <2>1. h \in Seq(Names)
      BY DEF Parsed
    <2>2. h # <<>> => h[1] \in Names
      BY <2>1, TailAt
    <2> QED
      BY <2>2 DEF parseSelectedProtocolHeader
  <1>3. \A policy \in Policies : policy.name \in Names \cup {NoProtocol}
    BY DEF Policies
  <1> QED
    BY <1>1, <1>2, <1>3

LEMMA UpgradeCases ==
    ASSUME TypeOK, Upgrade
    PROVE  /\ foreign # "server" /\ request.state = "pending"
           /\ request' = [request EXCEPT !.state = "answered"]
           /\ UNCHANGED <<foreign, clientVars, clientConn, frames, lost, serverStore, up>>
           /\ \E policy \in Policies, protocol \in Names \cup {NoProtocol} :
                 /\ wanted' = policy
                 /\ protocol = SelectProtocol(policy,
                                              parseAvailableProtocolsHeader(request.header))
                 /\ \/ /\ accepts(policy)
                       /\ serverSession' = Session("open", request.settings, protocol)
                       /\ down' = Send(down, Response(TRUE, encodeSelectedProtocolHeader(protocol)))
                    \/ /\ UNCHANGED serverSession
                       /\ down' = Send(down, Response(FALSE, <<>>))
  <1>1. /\ foreign # "server" /\ request.state = "pending"
        /\ request' = [request EXCEPT !.state = "answered"]
        /\ UNCHANGED <<foreign, clientVars, clientConn, frames, lost, serverStore, up>>
    BY DEF Upgrade, serverFrame, frames
  <1> DEFINE chosen(policy) ==
                SelectProtocol(policy, parseAvailableProtocolsHeader(request.header))
  <1>2. PICK policy \in Policies :
           /\ wanted' = policy
           /\ \/ /\ accepts(policy)
                 /\ serverSession' = Session("open", request.settings, chosen(policy))
                 /\ down' = Send(down, Response(TRUE, encodeSelectedProtocolHeader(chosen(policy))))
              \/ /\ UNCHANGED serverSession
                 /\ down' = Send(down, Response(FALSE, <<>>))
    BY DEF Upgrade, requestSettings
  <1>3. chosen(policy) \in Names \cup {NoProtocol}
    BY AnswerTyped DEF SelectProtocol
  <1> QED
    BY <1>1, <1>2, <1>3

LEMMA SentToClient ==
    ASSUME TypeOK, NEW b \in BOOLEAN, NEW h \in Parsed, down' = Send(down, Response(b, h))
    PROVE  down' \in Seq(ToClient)
  <1>1. Response(b, h) \in ToClient /\ down \in Seq(ToClient)
    BY Typed DEF TypeOK
  <1> QED
    BY <1>1, AppendAt DEF Send

(* The types of Connect.                                                   *)
LEMMA ClientTypeKept ==
    ASSUME TypeOK, ConnInv, CallInv, ServerInv, ProtocolInv, [Next]_vars
    PROVE  TypeClient'
  <1>1. CASE processSettings
    BY <1>1, TypeParts DEF processSettings, readLoopFrame, history,
       clientVars, clientConn, serverVars, frames, TypeClient
  <1>2. CASE applySetting
    BY <1>2, TypeParts DEF applySetting, readLoopFrame, history, clientVars,
       clientConn, serverVars, frames, TypeClient
  <1>3. CASE settingsDone
    BY <1>3, TypeParts DEF settingsDone, allowedAfter, readLoopFrame, history,
       clientVars, clientConn, serverVars, frames, TypeClient
  <1>4. CASE cleanup
    BY <1>4, TypeParts DEF cleanup, wakeWaiting, readLoopFrame, history,
       clientVars, clientConn, serverVars, frames, TypeClient
  <1>5. CASE refuse
    BY <1>5, TypeParts DEF refuse, Goto, connectFrame, history, clientVars,
       clientConn, serverVars, frames, TypeClient
  <1>6. CASE roundTrip
    BY <1>6, TypeParts DEF roundTrip, Goto, connectFrame, history, clientVars,
       clientConn, serverVars, frames, TypeClient
  <1>7. CASE awaitSettings
    BY <1>7, TypeParts DEF awaitSettings, Goto, connectFrame, history,
       clientVars, clientConn, serverVars, frames, TypeClient
  <1>8. CASE reserveStream
    BY <1>8, TypeParts DEF reserveStream, Goto, afterReserve, connectFrame,
       history, clientVars, clientConn, serverVars, frames, TypeClient
  <1>9. CASE recordPeerWebTransportSettings
    BY <1>9, TypeParts DEF recordPeerWebTransportSettings, Goto, connectFrame,
       history, clientVars, clientConn, serverVars, frames, TypeClient,
       TypeConn
  <1>10. CASE writeHeaders
    BY <1>10, TypeParts DEF writeHeaders, Goto, Send, connectFrame, history,
       clientVars, clientConn, serverVars, frames, TypeClient
  <1>11. CASE roundTripFails
    BY <1>11, TypeParts DEF roundTripFails, Goto, connectFrame, history,
       clientVars, clientConn, serverVars, frames, TypeClient
  <1>12. CASE response
    <2>1. /\ call = "response" /\ down # <<>> /\ Head(down).kind = "response"
          /\ UNCHANGED <<foreign, offered, capture>>
      BY <1>12 DEF response, connectFrame
    <2>2. down \in Seq(ToClient)
      BY DEF TypeOK
    <2>3. Head(down) \in ToClient
      BY <2>1, <2>2, TailAt
    <2>4. Head(down).header \in Parsed
      BY <2>1, <2>3, MessageKinds DEF IsSettings
    <2>5. CASE Goto("failed") /\ UNCHANGED clientSession
      BY <2>1, <2>5, TypeParts DEF Goto, TypeClient
    <2>6. CASE /\ Head(down).header # Malformed /\ Goto("session")
               /\ clientSession' = Session("open", peerSettings,
                                           parseSelectedProtocolHeader(Head(down).header))
      <3>1. parseSelectedProtocolHeader(Head(down).header) \in Names \cup {NoProtocol}
        BY <2>4, <2>6, AnswerTyped
      <3> QED
        BY <2>1, <2>6, <3>1, TypeParts DEF Goto, TypeClient, Session, peerSettings
    <2> QED
      BY <1>12, <2>5, <2>6 DEF response
  <1>13. CASE sendSettings
    <2>1. UNCHANGED <<foreign, offered, call, capture, clientSession>>
      BY <1>13, ServerSettingsSent DEF history, clientVars, clientConn,
         serverVars, frames
    <2> QED
      BY <2>1, TypeParts DEF TypeClient
  <1>14. CASE serverReads
    <2>1. UNCHANGED <<foreign, offered, call, capture, clientSession>>
      BY <1>14, ServerReadsCases DEF history, clientVars, clientConn,
         serverVars, frames
    <2> QED
      BY <2>1, TypeParts DEF TypeClient
  <1>15. CASE Upgrade
    <2>1. UNCHANGED <<foreign, offered, call, capture, clientSession>>
      BY <1>15, UpgradeCases DEF history, clientVars, clientConn, serverVars,
         frames
    <2> QED
      BY <2>1, TypeParts DEF TypeClient
  <1>16. CASE sessionEnds
    BY <1>16, TypeParts DEF sessionEnds, serverFrame, history, clientVars,
       clientConn, serverVars, frames, TypeClient
  <1>17. CASE serverSeesLoss
    BY <1>17, TypeParts DEF serverSeesLoss, serverFrame, history, clientVars,
       clientConn, serverVars, frames, TypeClient
  <1>18. CASE foreignServerSettings
    <2>1. UNCHANGED <<foreign, offered, call, capture, clientSession>>
      BY <1>18, ServerSettingsSent DEF history, clientVars, clientConn,
         serverVars, frames
    <2> QED
      BY <2>1, TypeParts DEF TypeClient
  <1>19. CASE foreignAnswer
    BY <1>19, TypeParts DEF foreignAnswer, Send, serverFrame, history,
       clientVars, clientConn, serverVars, frames, TypeClient
  <1>20. CASE foreignClientSettings
    <2>1. UNCHANGED <<foreign, offered, call, capture, clientSession>>
      BY <1>20, ClientSettingsSent DEF history, clientVars, clientConn,
         serverVars, frames
    <2> QED
      BY <2>1, TypeParts DEF TypeClient
  <1>21. CASE foreignRequest
    BY <1>21, TypeParts DEF foreignRequest, foreignClientFrame, history,
       clientVars, clientConn, serverVars, frames, TypeClient
  <1>22. CASE foreignEnd
    BY <1>22, TypeParts DEF foreignEnd, foreignClientFrame, history,
       clientVars, clientConn, serverVars, frames, TypeClient
  <1>23. CASE connectionLost
    BY <1>23, TypeParts DEF connectionLost, history, clientVars, clientConn,
       serverVars, frames, TypeClient
  <1>24. CASE UNCHANGED vars
    BY <1>24, TypeParts DEF TypeClient, vars, history, clientVars, clientConn,
       serverVars, frames
  <1> QED
    BY NextCases, <1>1, <1>2, <1>3, <1>4, <1>5, <1>6, <1>7, <1>8, <1>9, <1>10,
       <1>11, <1>12, <1>13, <1>14, <1>15, <1>16, <1>17, <1>18, <1>19, <1>20,
       <1>21, <1>22, <1>23, <1>24

(* The types of the client's connection.                                   *)
LEMMA ConnTypeKept ==
    ASSUME TypeOK, ConnInv, CallInv, ServerInv, ProtocolInv, [Next]_vars
    PROVE  TypeConn'
  <1>1. CASE processSettings
    <2>1. /\ ~Busy /\ down # <<>> /\ IsSettings(Head(down))
          /\ applying' = [n |-> Head(down).n, left |-> Head(down).fields]
          /\ UNCHANGED <<store, acked, allowed, seen, closed, serverFrames, ackedAtConnect>>
      BY <1>1 DEF processSettings, Busy, IsSettings, readLoopFrame, frames, clientVars, history
    <2>2. ~lost /\ InTurn(down, serverFrames, acked)
      BY <2>1 DEF ConnInv
    <2>3. down \in Seq(ToClient) /\ serverFrames \in Seq(SettingsFrames) /\ acked \in Nat
      BY DEF TypeOK
    <2>4. Head(down).n = acked + 1 /\ acked + 1 <= Len(serverFrames)
      BY <2>1, <2>2, <2>3, InTurnRead
    <2>5. Head(down).fields \in SUBSET Fields
      BY <2>1, <2>3, TailAt, MessageKinds DEF IsSettings
    <2>6. Head(down).n \in 0..Len(serverFrames)
      BY <2>3, <2>4, LenProperties
    <2> QED
      BY <2>1, <2>5, <2>6, TypeParts DEF TypeConn
  <1>2. CASE applySetting
    <2>1. PICK f \in applying.left :
             /\ store' = apply(store, {f}, applying.n)
             /\ applying' = [applying EXCEPT !.left = @ \ {f}]
      BY <1>2 DEF applySetting
    <2>2. UNCHANGED <<acked, allowed, seen, closed, serverFrames, ackedAtConnect>>
      BY <1>2 DEF applySetting, readLoopFrame, frames, clientVars, history
    <2>3. f \in Fields /\ applying.n \in Nat /\ store \in Limits
      BY TypeParts DEF TypeConn
    <2>4. store' \in Limits
      BY <2>1, <2>3, Typed
    <2>5. applying' \in [n : 0..Len(serverFrames), left : SUBSET Fields]
      BY <2>1, TypeParts DEF TypeConn
    <2> QED
      BY <2>2, <2>4, <2>5, TypeParts DEF TypeConn
  <1>3. CASE settingsDone
    <2>1. /\ applying.n > 0 /\ acked' = acked + 1 /\ seen' = TRUE
          /\ applying' = [applying EXCEPT !.n = 0] /\ down' = Tail(down)
          /\ allowed' = IF seen THEN allowed ELSE Head(down).enable
          /\ UNCHANGED <<store, closed, serverFrames, ackedAtConnect>>
      BY <1>3 DEF settingsDone, allowedAfter, readLoopFrame, frames, clientVars, history
    <2>2. /\ serverFrames \in Seq(SettingsFrames) /\ Len(serverFrames) \in Nat
          /\ acked \in 0..Len(serverFrames) /\ applying.n \in 0..Len(serverFrames)
      BY LenProperties DEF TypeOK
    <2>3. applying.n = acked + 1 /\ Head(down) = serverFrames[acked + 1]
      BY <2>1, <2>2 DEF ConnInv, Busy
    <2>4. acked + 1 \in 1..Len(serverFrames)
      BY <2>2, <2>3
    <2>5. Head(down).enable \in BOOLEAN
      BY <2>2, <2>3, <2>4, ElementOfSeq, MessageKinds
    <2>6. allowed' \in BOOLEAN
      BY <2>1, <2>5, TypeParts DEF TypeConn
    <2>7. acked' \in 0..Len(serverFrames')
      BY <2>1, <2>2, <2>4
    <2>8. applying' \in [n : 0..Len(serverFrames), left : SUBSET Fields]
      BY <2>1, <2>2, TypeParts DEF TypeConn
    <2> QED
      BY <2>1, <2>6, <2>7, <2>8, TypeParts DEF TypeConn
  <1>4. CASE cleanup
    BY <1>4, TypeParts DEF cleanup, wakeWaiting, readLoopFrame, history,
       clientVars, clientConn, serverVars, frames, TypeConn
  <1>5. CASE refuse
    BY <1>5, TypeParts DEF refuse, Goto, connectFrame, history, clientVars,
       clientConn, serverVars, frames, TypeConn
  <1>6. CASE roundTrip
    BY <1>6, TypeParts DEF roundTrip, Goto, connectFrame, history, clientVars,
       clientConn, serverVars, frames, TypeConn
  <1>7. CASE awaitSettings
    BY <1>7, TypeParts DEF awaitSettings, Goto, connectFrame, history,
       clientVars, clientConn, serverVars, frames, TypeConn
  <1>8. CASE reserveStream
    BY <1>8, TypeParts DEF reserveStream, Goto, afterReserve, connectFrame,
       history, clientVars, clientConn, serverVars, frames, TypeConn
  <1>9. CASE recordPeerWebTransportSettings
    BY <1>9, TypeParts DEF recordPeerWebTransportSettings, Goto, connectFrame,
       history, clientVars, clientConn, serverVars, frames, TypeConn
  <1>10. CASE writeHeaders
    BY <1>10, TypeParts DEF writeHeaders, Goto, Send, connectFrame, history,
       clientVars, clientConn, serverVars, frames, TypeConn
  <1>11. CASE roundTripFails
    BY <1>11, TypeParts DEF roundTripFails, Goto, connectFrame, history,
       clientVars, clientConn, serverVars, frames, TypeConn
  <1>12. CASE response
    BY <1>12, TypeParts DEF response, Goto, closeStream, Send, peerSettings,
       connectFrame, history, clientVars, clientConn, serverVars, frames,
       TypeConn
  <1>13. CASE sendSettings
    <2>1. UNCHANGED <<store, acked, applying, allowed, seen, closed, ackedAtConnect>>
      BY <1>13, ServerSettingsSent DEF clientConn, clientVars, history
    <2>2. PICK m \in SettingsFrames : serverFrames' = Append(serverFrames, m)
      BY <1>13, ServerSettingsSent
    <2>3. serverFrames \in Seq(SettingsFrames)
      BY DEF TypeOK
    <2>4. Len(serverFrames) \in Nat /\ Len(serverFrames') = Len(serverFrames) + 1
      BY <2>2, <2>3, AppendAt
    <2>5. \A k \in 0..Len(serverFrames) : k \in 0..Len(serverFrames')
      BY <2>4
    <2> QED
      BY <2>1, <2>5, TypeParts DEF TypeConn
  <1>14. CASE serverReads
    <2>1. UNCHANGED <<store, acked, applying, allowed, seen, closed, serverFrames, ackedAtConnect>>
      BY <1>14, ServerReadsCases DEF history, clientVars, clientConn,
         serverVars, frames
    <2> QED
      BY <2>1, TypeParts DEF TypeConn
  <1>15. CASE Upgrade
    <2>1. UNCHANGED <<store, acked, applying, allowed, seen, closed, serverFrames, ackedAtConnect>>
      BY <1>15, UpgradeCases DEF history, clientVars, clientConn, serverVars,
         frames
    <2> QED
      BY <2>1, TypeParts DEF TypeConn
  <1>16. CASE sessionEnds
    BY <1>16, TypeParts DEF sessionEnds, serverFrame, history, clientVars,
       clientConn, serverVars, frames, TypeConn
  <1>17. CASE serverSeesLoss
    BY <1>17, TypeParts DEF serverSeesLoss, serverFrame, history, clientVars,
       clientConn, serverVars, frames, TypeConn
  <1>18. CASE foreignServerSettings
    <2>1. UNCHANGED <<store, acked, applying, allowed, seen, closed, ackedAtConnect>>
      BY <1>18, ServerSettingsSent DEF clientConn, clientVars, history
    <2>2. PICK m \in SettingsFrames : serverFrames' = Append(serverFrames, m)
      BY <1>18, ServerSettingsSent
    <2>3. serverFrames \in Seq(SettingsFrames)
      BY DEF TypeOK
    <2>4. Len(serverFrames) \in Nat /\ Len(serverFrames') = Len(serverFrames) + 1
      BY <2>2, <2>3, AppendAt
    <2>5. \A k \in 0..Len(serverFrames) : k \in 0..Len(serverFrames')
      BY <2>4
    <2> QED
      BY <2>1, <2>5, TypeParts DEF TypeConn
  <1>19. CASE foreignAnswer
    BY <1>19, TypeParts DEF foreignAnswer, Send, serverFrame, history,
       clientVars, clientConn, serverVars, frames, TypeConn
  <1>20. CASE foreignClientSettings
    <2>1. UNCHANGED <<store, acked, applying, allowed, seen, closed, serverFrames, ackedAtConnect>>
      BY <1>20, ClientSettingsSent DEF history, clientVars, clientConn,
         serverVars, frames
    <2> QED
      BY <2>1, TypeParts DEF TypeConn
  <1>21. CASE foreignRequest
    BY <1>21, TypeParts DEF foreignRequest, foreignClientFrame, history,
       clientVars, clientConn, serverVars, frames, TypeConn
  <1>22. CASE foreignEnd
    BY <1>22, TypeParts DEF foreignEnd, foreignClientFrame, history,
       clientVars, clientConn, serverVars, frames, TypeConn
  <1>23. CASE connectionLost
    BY <1>23, TypeParts DEF connectionLost, history, clientVars, clientConn,
       serverVars, frames, TypeConn
  <1>24. CASE UNCHANGED vars
    BY <1>24, TypeParts DEF TypeConn, vars, history, clientVars, clientConn,
       serverVars, frames
  <1> QED
    BY NextCases, <1>1, <1>2, <1>3, <1>4, <1>5, <1>6, <1>7, <1>8, <1>9, <1>10,
       <1>11, <1>12, <1>13, <1>14, <1>15, <1>16, <1>17, <1>18, <1>19, <1>20,
       <1>21, <1>22, <1>23, <1>24

(* The types of the server.                                                *)
LEMMA ServerTypeKept ==
    ASSUME TypeOK, ConnInv, CallInv, ServerInv, ProtocolInv, [Next]_vars
    PROVE  TypeServer'
  <1>1. CASE processSettings
    BY <1>1, TypeParts DEF processSettings, readLoopFrame, history,
       clientVars, clientConn, serverVars, frames, TypeServer
  <1>2. CASE applySetting
    BY <1>2, TypeParts DEF applySetting, readLoopFrame, history, clientVars,
       clientConn, serverVars, frames, TypeServer
  <1>3. CASE settingsDone
    BY <1>3, TypeParts DEF settingsDone, allowedAfter, readLoopFrame, history,
       clientVars, clientConn, serverVars, frames, TypeServer
  <1>4. CASE cleanup
    BY <1>4, TypeParts DEF cleanup, wakeWaiting, readLoopFrame, history,
       clientVars, clientConn, serverVars, frames, TypeServer
  <1>5. CASE refuse
    BY <1>5, TypeParts DEF refuse, Goto, connectFrame, history, clientVars,
       clientConn, serverVars, frames, TypeServer
  <1>6. CASE roundTrip
    BY <1>6, TypeParts DEF roundTrip, Goto, connectFrame, history, clientVars,
       clientConn, serverVars, frames, TypeServer
  <1>7. CASE awaitSettings
    BY <1>7, TypeParts DEF awaitSettings, Goto, connectFrame, history,
       clientVars, clientConn, serverVars, frames, TypeServer
  <1>8. CASE reserveStream
    BY <1>8, TypeParts DEF reserveStream, Goto, afterReserve, connectFrame,
       history, clientVars, clientConn, serverVars, frames, TypeServer
  <1>9. CASE recordPeerWebTransportSettings
    BY <1>9, TypeParts DEF recordPeerWebTransportSettings, Goto, connectFrame,
       history, clientVars, clientConn, serverVars, frames, TypeServer
  <1>10. CASE writeHeaders
    BY <1>10, TypeParts DEF writeHeaders, Goto, Send, connectFrame, history,
       clientVars, clientConn, serverVars, frames, TypeServer
  <1>11. CASE roundTripFails
    BY <1>11, TypeParts DEF roundTripFails, Goto, connectFrame, history,
       clientVars, clientConn, serverVars, frames, TypeServer
  <1>12. CASE response
    BY <1>12, TypeParts DEF response, Goto, closeStream, Send, peerSettings,
       connectFrame, history, clientVars, clientConn, serverVars, frames,
       TypeServer
  <1>13. CASE sendSettings
    <2>1. UNCHANGED <<serverStore, request, wanted, serverSession>>
      BY <1>13, ServerSettingsSent DEF history, clientVars, clientConn,
         serverVars, frames
    <2> QED
      BY <2>1, TypeParts DEF TypeServer
  <1>14. CASE serverReads
    <2>1. UNCHANGED <<wanted, serverSession>>
      BY <1>14, ServerReadsCases
    <2>2. serverStore' \in Limits
      BY <1>14, ServerReadsCases, Typed, MessageKinds, TypeParts DEF TypeServer
    <2>3. CASE UNCHANGED request
      BY <2>1, <2>2, <2>3, TypeParts DEF TypeServer
    <2>4. CASE /\ Head(up).header \in Parsed /\ Head(up).valid \in BOOLEAN
               /\ request' = newWriterAndRequest(Head(up))
      BY <2>1, <2>2, <2>4, TypeParts DEF TypeServer, newWriterAndRequest
    <2>5. CASE request' = [request EXCEPT !.ended = TRUE]
      BY <2>1, <2>2, <2>5, TypeParts DEF TypeServer
    <2> QED
      BY <1>14, <2>3, <2>4, <2>5, ServerReadsCases
  <1>15. CASE Upgrade
    <2>1. UNCHANGED serverStore /\ request' = [request EXCEPT !.state = "answered"]
      BY <1>15, UpgradeCases
    <2>2. PICK policy \in Policies, protocol \in Names \cup {NoProtocol} :
             /\ wanted' = policy
             /\ \/ serverSession' = Session("open", request.settings, protocol)
                \/ UNCHANGED serverSession
      BY <1>15, UpgradeCases
    <2>3. request' \in [state : {"none", "pending", "answered"}, valid : BOOLEAN,
                       header : Parsed, settings : Limits, ended : BOOLEAN]
      BY <2>1, TypeParts DEF TypeServer
    <2>4. request.settings \in Limits
      BY TypeParts DEF TypeServer
    <2>5. serverSession' \in [state : {"none", "open", "ended"}, limits : Limits,
                             protocol : Names \cup {NoProtocol}]
      BY <2>2, <2>4, TypeParts DEF TypeServer, Session
    <2> QED
      BY <2>1, <2>2, <2>3, <2>5, TypeParts DEF TypeServer
  <1>16. CASE sessionEnds
    BY <1>16, TypeParts DEF sessionEnds, serverFrame, history, clientVars,
       clientConn, serverVars, frames, TypeServer
  <1>17. CASE serverSeesLoss
    BY <1>17, TypeParts DEF serverSeesLoss, serverFrame, history, clientVars,
       clientConn, serverVars, frames, TypeServer
  <1>18. CASE foreignServerSettings
    <2>1. UNCHANGED <<serverStore, request, wanted, serverSession>>
      BY <1>18, ServerSettingsSent DEF history, clientVars, clientConn,
         serverVars, frames
    <2> QED
      BY <2>1, TypeParts DEF TypeServer
  <1>19. CASE foreignAnswer
    <2>1. UNCHANGED <<serverStore, wanted>> /\ request' = [request EXCEPT !.state = "answered"]
      BY <1>19 DEF foreignAnswer
    <2>2. PICK state \in {"open", "none"} :
             serverSession' = Session(state, request.settings, NoProtocol)
      BY <1>19 DEF foreignAnswer
    <2>3. request' \in [state : {"none", "pending", "answered"}, valid : BOOLEAN,
                       header : Parsed, settings : Limits, ended : BOOLEAN]
      BY <2>1, TypeParts DEF TypeServer
    <2>4. request.settings \in Limits
      BY TypeParts DEF TypeServer
    <2>5. serverSession' \in [state : {"none", "open", "ended"}, limits : Limits,
                             protocol : Names \cup {NoProtocol}]
      BY <2>2, <2>4 DEF Session
    <2> QED
      BY <2>1, <2>3, <2>5, TypeParts DEF TypeServer
  <1>20. CASE foreignClientSettings
    <2>1. UNCHANGED <<serverStore, request, wanted, serverSession>>
      BY <1>20, ClientSettingsSent DEF history, clientVars, clientConn,
         serverVars, frames
    <2> QED
      BY <2>1, TypeParts DEF TypeServer
  <1>21. CASE foreignRequest
    BY <1>21, TypeParts DEF foreignRequest, foreignClientFrame, history,
       clientVars, clientConn, serverVars, frames, TypeServer
  <1>22. CASE foreignEnd
    BY <1>22, TypeParts DEF foreignEnd, foreignClientFrame, history,
       clientVars, clientConn, serverVars, frames, TypeServer
  <1>23. CASE connectionLost
    BY <1>23, TypeParts DEF connectionLost, history, clientVars, clientConn,
       serverVars, frames, TypeServer
  <1>24. CASE UNCHANGED vars
    BY <1>24, TypeParts DEF TypeServer, vars, history, clientVars, clientConn,
       serverVars, frames
  <1> QED
    BY NextCases, <1>1, <1>2, <1>3, <1>4, <1>5, <1>6, <1>7, <1>8, <1>9, <1>10,
       <1>11, <1>12, <1>13, <1>14, <1>15, <1>16, <1>17, <1>18, <1>19, <1>20,
       <1>21, <1>22, <1>23, <1>24

(* The types of the wires.                                                 *)
LEMMA WiresTypeKept ==
    ASSUME TypeOK, ConnInv, CallInv, ServerInv, ProtocolInv, [Next]_vars
    PROVE  TypeWires'
  <1>1. CASE processSettings
    BY <1>1, TypeParts DEF processSettings, readLoopFrame, history,
       clientVars, clientConn, serverVars, frames, TypeWires
  <1>2. CASE applySetting
    BY <1>2, TypeParts DEF applySetting, readLoopFrame, history, clientVars,
       clientConn, serverVars, frames, TypeWires
  <1>3. CASE settingsDone
    <2>1. UNCHANGED <<serverFrames, clientFrames, up, lost, sentAtConnect>>
          /\ down' = Tail(down) /\ applying.n > 0
      BY <1>3 DEF settingsDone, readLoopFrame, frames, clientVars, history
    <2>2. down # <<>> /\ down \in Seq(ToClient)
      BY <2>1 DEF ConnInv, Busy, TypeOK
    <2>3. down' \in Seq(ToClient)
      BY <2>1, <2>2, TailAt
    <2> QED
      BY <2>1, <2>3, TypeParts DEF TypeWires
  <1>4. CASE cleanup
    BY <1>4, TypeParts DEF cleanup, wakeWaiting, readLoopFrame, history,
       clientVars, clientConn, serverVars, frames, TypeWires
  <1>5. CASE refuse
    BY <1>5, TypeParts DEF refuse, Goto, connectFrame, history, clientVars,
       clientConn, serverVars, frames, TypeWires
  <1>6. CASE roundTrip
    BY <1>6, TypeParts DEF roundTrip, Goto, connectFrame, history, clientVars,
       clientConn, serverVars, frames, TypeWires
  <1>7. CASE awaitSettings
    BY <1>7, TypeParts DEF awaitSettings, Goto, connectFrame, history,
       clientVars, clientConn, serverVars, frames, TypeWires
  <1>8. CASE reserveStream
    BY <1>8, TypeParts DEF reserveStream, Goto, afterReserve, connectFrame,
       history, clientVars, clientConn, serverVars, frames, TypeWires
  <1>9. CASE recordPeerWebTransportSettings
    BY <1>9, TypeParts DEF recordPeerWebTransportSettings, Goto, connectFrame,
       history, clientVars, clientConn, serverVars, frames, TypeWires
  <1>10. CASE writeHeaders
    <2>1. UNCHANGED <<serverFrames, clientFrames, down, lost>>
      BY <1>10 DEF writeHeaders, Goto, Send, connectFrame, history, clientVars,
         clientConn, serverVars, frames
    <2>2. up \in Seq(ToServer) /\ clientFrames \in Seq(SettingsFrames)
      BY DEF TypeOK
    <2>3. up' \in Seq(ToServer)
      <3>1. offered \in Parsed
        BY Typed DEF TypeOK, Parsed
      <3>2. ConnectRequest(TRUE, offered) \in ToServer
        BY <3>1, Typed
      <3>3. up' = up \/ up' = Append(up, ConnectRequest(TRUE, offered))
        BY <1>10 DEF writeHeaders, Send
      <3> QED
        BY <2>2, <3>2, <3>3, AppendAt
    <2>4. sentAtConnect' \in 0..Len(clientFrames)
      <3>1. sentAtConnect' = sentAtConnect \/ sentAtConnect' = Len(clientFrames)
        BY <1>10 DEF writeHeaders, foreignClientFrame, connectFrame, history
      <3>2. Len(clientFrames) \in 0..Len(clientFrames)
        BY <2>2, LenProperties
      <3> QED
        BY <3>1, <3>2, TypeParts DEF TypeWires
    <2> QED
      BY <2>1, <2>3, <2>4, TypeParts DEF TypeWires
  <1>11. CASE roundTripFails
    BY <1>11, TypeParts DEF roundTripFails, Goto, connectFrame, history,
       clientVars, clientConn, serverVars, frames, TypeWires
  <1>12. CASE response
    <2>1. UNCHANGED <<serverFrames, clientFrames, lost, sentAtConnect>>
          /\ down # <<>> /\ down' = Tail(down)
      BY <1>12 DEF response, connectFrame, frames, history
    <2>2. up \in Seq(ToServer) /\ down \in Seq(ToClient)
      BY DEF TypeOK
    <2>3. up' = up \/ up' = Append(up, End)
      BY <1>12 DEF response, closeStream, Send
    <2>4. End \in ToServer
      BY Typed
    <2>5. up' \in Seq(ToServer)
      BY <2>2, <2>3, <2>4, AppendAt
    <2>6. down' \in Seq(ToClient)
      BY <2>1, <2>2, TailAt
    <2> QED
      BY <2>1, <2>5, <2>6, TypeParts DEF TypeWires
  <1>13. CASE sendSettings
    <2>1. UNCHANGED <<clientFrames, up, lost, sentAtConnect>>
      BY <1>13, ServerSettingsSent DEF clientVars, history
    <2>2. PICK m \in SettingsFrames :
             serverFrames' = Append(serverFrames, m) /\ down' = Append(down, m)
      BY <1>13, ServerSettingsSent
    <2>3. serverFrames \in Seq(SettingsFrames) /\ down \in Seq(ToClient) /\ m \in ToClient
      BY Typed DEF TypeOK
    <2>4. serverFrames' \in Seq(SettingsFrames) /\ down' \in Seq(ToClient)
      BY <2>2, <2>3, AppendAt
    <2> QED
      BY <2>1, <2>4, TypeParts DEF TypeWires
  <1>14. CASE serverReads
    <2>1. UNCHANGED <<serverFrames, clientFrames, down, lost, sentAtConnect>>
          /\ up # <<>> /\ up' = Tail(up)
      BY <1>14, ServerReadsCases DEF clientVars, history, frames
    <2>2. up \in Seq(ToServer)
      BY DEF TypeOK
    <2>3. up' \in Seq(ToServer)
      BY <2>1, <2>2, TailAt
    <2> QED
      BY <2>1, <2>3, TypeParts DEF TypeWires
  <1>15. CASE Upgrade
    <2>1. UNCHANGED <<serverFrames, clientFrames, up, lost, sentAtConnect>>
      BY <1>15, UpgradeCases DEF clientVars, history, frames
    <2>2. PICK protocol \in Names \cup {NoProtocol} :
             \/ down' = Send(down, Response(TRUE, encodeSelectedProtocolHeader(protocol)))
             \/ down' = Send(down, Response(FALSE, <<>>))
      BY <1>15, UpgradeCases
    <2>3. encodeSelectedProtocolHeader(protocol) \in Parsed /\ <<>> \in Parsed
      BY AnswerTyped, Typed
    <2>4. CASE down' = Send(down, Response(TRUE, encodeSelectedProtocolHeader(protocol)))
      <3>1. down' \in Seq(ToClient)
        BY <2>3, <2>4, SentToClient
      <3> QED
        BY <2>1, <3>1, TypeParts DEF TypeWires
    <2>5. CASE down' = Send(down, Response(FALSE, <<>>))
      <3>1. down' \in Seq(ToClient)
        BY <2>3, <2>5, SentToClient
      <3> QED
        BY <2>1, <3>1, TypeParts DEF TypeWires
    <2> QED
      BY <2>2, <2>4, <2>5
  <1>16. CASE sessionEnds
    BY <1>16, TypeParts DEF sessionEnds, serverFrame, history, clientVars,
       clientConn, serverVars, frames, TypeWires
  <1>17. CASE serverSeesLoss
    BY <1>17, TypeParts DEF serverSeesLoss, serverFrame, history, clientVars,
       clientConn, serverVars, frames, TypeWires
  <1>18. CASE foreignServerSettings
    <2>1. UNCHANGED <<clientFrames, up, lost, sentAtConnect>>
      BY <1>18, ServerSettingsSent DEF clientVars, history
    <2>2. PICK m \in SettingsFrames :
             serverFrames' = Append(serverFrames, m) /\ down' = Append(down, m)
      BY <1>18, ServerSettingsSent
    <2>3. serverFrames \in Seq(SettingsFrames) /\ down \in Seq(ToClient) /\ m \in ToClient
      BY Typed DEF TypeOK
    <2>4. serverFrames' \in Seq(SettingsFrames) /\ down' \in Seq(ToClient)
      BY <2>2, <2>3, AppendAt
    <2> QED
      BY <2>1, <2>4, TypeParts DEF TypeWires
  <1>19. CASE foreignAnswer
    <2>1. UNCHANGED <<serverFrames, clientFrames, up, lost, sentAtConnect>>
      BY <1>19 DEF foreignAnswer, serverFrame, clientVars, history
    <2>2. PICK ok \in BOOLEAN, h \in Headers : down' = Send(down, Response(ok, h))
      BY <1>19 DEF foreignAnswer
    <2>3. h \in Parsed
      BY Typed
    <2>4. down' \in Seq(ToClient)
      BY <2>2, <2>3, SentToClient
    <2> QED
      BY <2>1, <2>4, TypeParts DEF TypeWires
  <1>20. CASE foreignClientSettings
    <2>1. UNCHANGED <<serverFrames, down, lost, sentAtConnect>>
      BY <1>20, ClientSettingsSent DEF clientVars, history
    <2>2. PICK m \in SettingsFrames :
             clientFrames' = Append(clientFrames, m) /\ up' = Append(up, m)
      BY <1>20, ClientSettingsSent
    <2>3. clientFrames \in Seq(SettingsFrames) /\ up \in Seq(ToServer) /\ m \in ToServer
      BY Typed DEF TypeOK
    <2>4. /\ clientFrames' \in Seq(SettingsFrames) /\ up' \in Seq(ToServer)
          /\ Len(clientFrames) \in Nat /\ Len(clientFrames') = Len(clientFrames) + 1
      BY <2>2, <2>3, AppendAt
    <2>5. sentAtConnect' \in 0..Len(clientFrames')
      BY <2>1, <2>4, TypeParts DEF TypeWires
    <2> QED
      BY <2>1, <2>4, <2>5, TypeParts DEF TypeWires
  <1>21. CASE foreignRequest
    <2>1. UNCHANGED <<serverFrames, clientFrames, down, lost>>
      BY <1>21 DEF foreignRequest, foreignClientFrame, history, clientVars,
         clientConn, serverVars, frames
    <2>2. up \in Seq(ToServer) /\ clientFrames \in Seq(SettingsFrames)
      BY DEF TypeOK
    <2>3. up' \in Seq(ToServer)
      <3>1. PICK valid \in BOOLEAN, h \in Headers : up' = Append(up, ConnectRequest(valid, h))
        BY <1>21 DEF foreignRequest
      <3>2. ConnectRequest(valid, h) \in ToServer
        BY Typed
      <3> QED
        BY <2>2, <3>1, <3>2, AppendAt
    <2>4. sentAtConnect' \in 0..Len(clientFrames)
      <3>1. sentAtConnect' = sentAtConnect \/ sentAtConnect' = Len(clientFrames)
        BY <1>21 DEF foreignRequest, foreignClientFrame, connectFrame, history
      <3>2. Len(clientFrames) \in 0..Len(clientFrames)
        BY <2>2, LenProperties
      <3> QED
        BY <3>1, <3>2, TypeParts DEF TypeWires
    <2> QED
      BY <2>1, <2>3, <2>4, TypeParts DEF TypeWires
  <1>22. CASE foreignEnd
    <2>1. UNCHANGED <<serverFrames, clientFrames, down, lost>>
      BY <1>22 DEF foreignEnd, foreignClientFrame, history, clientVars,
         clientConn, serverVars, frames
    <2>2. up \in Seq(ToServer) /\ clientFrames \in Seq(SettingsFrames)
      BY DEF TypeOK
    <2>3. up' \in Seq(ToServer)
      BY <1>22, <2>2, Typed, AppendAt DEF foreignEnd
    <2>4. sentAtConnect' \in 0..Len(clientFrames)
      <3>1. sentAtConnect' = sentAtConnect \/ sentAtConnect' = Len(clientFrames)
        BY <1>22 DEF foreignEnd, foreignClientFrame, connectFrame, history
      <3>2. Len(clientFrames) \in 0..Len(clientFrames)
        BY <2>2, LenProperties
      <3> QED
        BY <3>1, <3>2, TypeParts DEF TypeWires
    <2> QED
      BY <2>1, <2>3, <2>4, TypeParts DEF TypeWires
  <1>23. CASE connectionLost
    <2>1. UNCHANGED <<serverFrames, clientFrames, sentAtConnect>> /\ lost' = TRUE /\ up' = <<>>
          /\ (down' = <<>> \/ (applying.n # 0 /\ down' = <<Head(down)>>))
      BY <1>23 DEF connectionLost, frames, clientVars, history
    <2>2. down \in Seq(ToClient)
      BY DEF TypeOK
    <2>3. applying.n # 0 => Head(down) \in ToClient
      BY <2>2, TailAt DEF ConnInv, Busy
    <2>4. down' \in Seq(ToClient)
      <3>1. CASE down' = <<>>
        BY <3>1
      <3>2. CASE applying.n # 0 /\ down' = <<Head(down)>>
        BY <2>3, <3>2
      <3> QED
        BY <2>1, <3>1, <3>2
    <2> QED
      BY <2>1, <2>4, TypeParts DEF TypeWires
  <1>24. CASE UNCHANGED vars
    BY <1>24, TypeParts DEF TypeWires, vars, history, clientVars, clientConn,
       serverVars, frames
  <1> QED
    BY NextCases, <1>1, <1>2, <1>3, <1>4, <1>5, <1>6, <1>7, <1>8, <1>9, <1>10,
       <1>11, <1>12, <1>13, <1>14, <1>15, <1>16, <1>17, <1>18, <1>19, <1>20,
       <1>21, <1>22, <1>23, <1>24

LEMMA TypeKept ==
    ASSUME TypeOK, ConnInv, CallInv, ServerInv, ProtocolInv, [Next]_vars
    PROVE  TypeOK'
  <1>1. TypeClient' /\ TypeConn' /\ TypeServer' /\ TypeWires'
    BY ClientTypeKept, ConnTypeKept, ServerTypeKept, WiresTypeKept
  <1> QED
    BY <1>1 DEF TypeOK, TypeClient, TypeConn, TypeServer, TypeWires

-----------------------------------------------------------------------------
(* The client's connection.                                                *)

LEMMA ConnFrame ==
    ASSUME ConnInv,
           UNCHANGED <<lost, down, serverFrames, acked, applying, closed, store, seen, allowed>>
    PROVE  ConnInv'
  BY DEF ConnInv, Busy, Applied

(* An answer goes behind what is on the wire.                              *)
LEMMA ConnAnswer ==
    ASSUME TypeOK, ConnInv, NEW b \in BOOLEAN, NEW h \in Parsed,
           down' = Send(down, Response(b, h)),
           UNCHANGED <<lost, serverFrames, acked, applying, closed, store, seen, allowed>>
    PROVE  ConnInv'
  <1>1. CASE lost
    <2>1. down' = down
      BY <1>1 DEF Send
    <2> QED
      BY <2>1, ConnFrame
  <1>2. CASE ~lost
    <2> DEFINE m == Response(b, h)
    <2>1. /\ m \in ToClient /\ ~IsSettings(m) /\ down \in Seq(ToClient) /\ acked \in Nat
          /\ down' = Append(down, m)
      BY <1>2, Typed DEF TypeOK, IsSettings, Send
    <2> HIDE DEF m
    <2>2. InTurn(down', serverFrames', acked')
      BY <1>2, <2>1, InTurnOther DEF ConnInv
    <2>3. down # <<>> => down' # <<>> /\ Head(down') = Head(down)
      BY <2>1, HeadTailAppend, AppendProperties
    <2>4. Busy => down # <<>>
      BY DEF ConnInv
    <2> QED
      BY <1>2, <2>2, <2>3, <2>4 DEF ConnInv, Busy, Applied
  <1> QED
    BY <1>1, <1>2

LEMMA ConnSent ==
    ASSUME TypeOK, ConnInv, sendSettings \/ foreignServerSettings
    PROVE  ConnInv'
  <1>1. ~lost /\ UNCHANGED <<lost, acked, applying, closed, store, seen, allowed>>
    BY ServerSettingsSent DEF clientConn
  <1>2. PICK m \in SettingsFrames :
           /\ m.n = Len(serverFrames) + 1
           /\ serverFrames' = Append(serverFrames, m) /\ down' = Append(down, m)
    BY ServerSettingsSent
  <1>3. /\ serverFrames \in Seq(SettingsFrames) /\ down \in Seq(ToClient)
        /\ m \in ToClient /\ IsSettings(m)
        /\ Len(serverFrames) \in Nat /\ acked \in 0..Len(serverFrames)
        /\ applying.n \in 0..Len(serverFrames)
    BY Typed, MessageKinds, LenProperties DEF TypeOK
  <1>4. InTurn(down', serverFrames', acked')
    <2>1. InTurn(down, serverFrames, acked) /\ m \in ToClient \cap SettingsFrames
      BY <1>1, <1>3 DEF ConnInv
    <2>2. acked \in Nat /\ acked <= Len(serverFrames)
      BY <1>3
    <2>3. InTurn(Append(down, m), Append(serverFrames, m), acked)
      BY <1>2, <1>3, <2>1, <2>2, InTurnSent
    <2> QED
      BY <1>1, <1>2, <2>3
  <1>5. \A k \in 1..Len(serverFrames) : serverFrames'[k] = serverFrames[k]
    BY <1>2, <1>3, AppendAt
  <1>6. Busy => acked + 1 \in 1..Len(serverFrames) /\ applying.n = acked + 1
    BY <1>3 DEF ConnInv, Busy
  <1>7. Busy => serverFrames'[acked + 1] = serverFrames[acked + 1]
    BY <1>5, <1>6
  <1>8. down # <<>> => down' # <<>> /\ Head(down') = Head(down)
    BY <1>2, <1>3, HeadTailAppend, AppendProperties
  <1>9. Busy' = Busy /\ Applied' = Applied
    BY <1>1, <1>7 DEF Busy, Applied
  <1>10. \A f \in Fields \ Applied : After(serverFrames', acked, f, store[f])
    <2>1. acked \in Nat /\ \A k \in 1..acked : serverFrames'[k] = serverFrames[k]
      BY <1>3, <1>5
    <2> QED
      BY <2>1, AfterSame DEF ConnInv
  <1>11. acked >= 1 => serverFrames'[1] = serverFrames[1]
    BY <1>3, <1>5
  <1>12. Busy => down # <<>>
    BY DEF ConnInv
  <1> QED
    BY <1>1, <1>4, <1>7, <1>8, <1>9, <1>10, <1>11, <1>12 DEF ConnInv

(* What the client has read, applied and acknowledged.                     *)
LEMMA ConnKept ==
    ASSUME TypeOK, ConnInv, CallInv, ServerInv, ProtocolInv, [Next]_vars
    PROVE  ConnInv'
  <1>1. CASE processSettings
    <2>1. /\ ~closed /\ ~Busy /\ down # <<>> /\ IsSettings(Head(down))
          /\ applying' = [n |-> Head(down).n, left |-> Head(down).fields]
          /\ UNCHANGED <<lost, down, serverFrames, acked, closed, store, seen, allowed>>
      BY <1>1 DEF processSettings, Busy, IsSettings, readLoopFrame, frames
    <2>2. ~lost /\ InTurn(down, serverFrames, acked)
      BY <2>1 DEF ConnInv
    <2>3. down \in Seq(ToClient) /\ serverFrames \in Seq(SettingsFrames) /\ acked \in Nat
      BY DEF TypeOK
    <2>4. Head(down).n = acked + 1 /\ Head(down) = serverFrames[acked + 1]
      BY <2>1, <2>2, <2>3, InTurnRead
    <2>5. Applied = {}
      BY <2>1 DEF Applied
    <2>6. Busy' /\ Applied' = {}
      BY <2>1, <2>3, <2>4 DEF Busy, Applied
    <2> QED
      BY <2>1, <2>2, <2>4, <2>5, <2>6 DEF ConnInv
  <1>2. CASE applySetting
    <2>1. PICK g \in applying.left :
             /\ store' = apply(store, {g}, applying.n)
             /\ applying' = [applying EXCEPT !.left = @ \ {g}]
      BY <1>2 DEF applySetting
    <2>2. UNCHANGED <<lost, down, serverFrames, acked, closed, seen, allowed>>
      BY <1>2 DEF applySetting, readLoopFrame, frames
    <2>3. Busy
      BY <2>1 DEF ConnInv
    <2>4. /\ applying.n = acked + 1 /\ g \in serverFrames[acked + 1].fields
          /\ applying.left \subseteq serverFrames[acked + 1].fields
      BY <2>1, <2>3 DEF ConnInv
    <2>5. applying'.n = applying.n /\ applying'.left = applying.left \ {g}
      BY <2>1 DEF TypeOK
    <2>6. Busy' /\ Applied' = Applied \cup {g}
      BY <2>1, <2>2, <2>3, <2>4, <2>5 DEF Busy, Applied
    <2>7. g \in Fields
      BY <2>1 DEF TypeOK
    <2>8. /\ store'[g] = acked + 1
          /\ \A f \in Fields \ {g} : store'[f] = store[f]
      BY <2>1, <2>4, <2>7 DEF apply
    <2>9. Applied \subseteq Fields
      <3>1. serverFrames \in Seq(SettingsFrames) /\ acked + 1 \in 1..Len(serverFrames)
        BY <2>4 DEF TypeOK, ConnInv, Busy
      <3>2. serverFrames[acked + 1] \in SettingsFrames
        BY <3>1, ElementOfSeq
      <3> QED
        BY <3>2, MessageKinds DEF Applied
    <2>10. \A f \in Applied' : store'[f] = acked' + 1
      BY <2>2, <2>6, <2>8, <2>9 DEF ConnInv
    <2>11. \A f \in Fields \ Applied' : After(serverFrames', acked', f, store'[f])
      BY <2>2, <2>6, <2>8 DEF ConnInv
    <2> QED
      BY <2>2, <2>3, <2>4, <2>5, <2>6, <2>10, <2>11 DEF ConnInv
  <1>3. CASE settingsDone
    <2>1. /\ applying.n > 0 /\ applying.left = {} /\ acked' = acked + 1 /\ seen' = TRUE
          /\ applying' = [applying EXCEPT !.n = 0] /\ down' = Tail(down)
          /\ allowed' = IF seen THEN allowed ELSE Head(down).enable
          /\ UNCHANGED <<lost, serverFrames, closed, store>>
      BY <1>3 DEF settingsDone, allowedAfter, readLoopFrame, frames
    <2>2. /\ serverFrames \in Seq(SettingsFrames) /\ down \in Seq(ToClient) /\ acked \in Nat
          /\ applying.n \in Nat
      BY DEF TypeOK
    <2>3. Busy
      BY <2>1, <2>2 DEF Busy
    <2>4. /\ ~closed /\ down # <<>> /\ Head(down) = serverFrames[acked + 1]
          /\ applying.n = acked + 1 /\ acked + 1 \in 1..Len(serverFrames)
      BY <2>2, <2>3 DEF ConnInv, TypeOK
    <2>5. IsSettings(Head(down))
      BY <2>2, <2>4, ElementOfSeq, MessageKinds
    <2>6. applying'.n = 0 /\ applying'.left = {}
      BY <2>1 DEF TypeOK
    <2>7. ~Busy' /\ Applied' = {}
      BY <2>6 DEF Busy, Applied
    <2>8. ~lost => InTurn(down', serverFrames', acked')
      BY <2>1, <2>2, <2>4, <2>5, InTurnRead DEF ConnInv
    <2>9. lost => down' = <<>> /\ Len(down') <= 1
      <3>1. lost => Len(down) <= 1
        BY DEF ConnInv
      <3>2. Len(down) \in Nat \ {0} /\ Len(down') = Len(down) - 1 /\ down' \in Seq(ToClient)
        BY <2>1, <2>2, <2>4, TailAt
      <3>3. lost => Len(down') = 0
        BY <3>1, <3>2
      <3> QED
        BY <3>2, <3>3, EmptySeq
    <2>10. \A f \in Fields : After(serverFrames, acked + 1, f, store[f])
      <3> SUFFICES ASSUME NEW f \in Fields
                   PROVE  After(serverFrames, acked + 1, f, store[f])
        OBVIOUS
      <3>1. Applied = serverFrames[acked + 1].fields
        BY <2>1, <2>3 DEF Applied
      <3>2. CASE f \in Applied
        <4>1. store[f] = acked + 1
          BY <3>2 DEF ConnInv
        <4> QED
          BY <2>2, <3>1, <3>2, <4>1 DEF After
      <3>3. CASE f \notin Applied
        <4>1. After(serverFrames, acked, f, store[f])
          BY <3>3 DEF ConnInv
        <4> QED
          BY <2>2, <3>1, <3>3, <4>1, AfterNext
      <3> QED
        BY <3>2, <3>3
    <2>11. acked' >= 1
      BY <2>1, <2>2
    <2>12. allowed' = serverFrames[1].enable
      <3>1. CASE seen
        BY <2>1, <2>4, <3>1 DEF ConnInv
      <3>2. CASE ~seen
        <4>1. acked + 1 = 1
          BY <3>2 DEF ConnInv
        <4> QED
          BY <2>1, <2>4, <3>2, <4>1
      <3> QED
        BY <3>1, <3>2
    <2> QED
      BY <2>1, <2>6, <2>7, <2>8, <2>9, <2>10, <2>11, <2>12 DEF ConnInv
  <1>4. CASE cleanup
    <2>1. /\ lost /\ ~Busy /\ closed' = TRUE /\ seen' = TRUE
          /\ UNCHANGED <<lost, down, serverFrames, acked, applying, store>>
      BY <1>4 DEF cleanup, wakeWaiting, Busy, readLoopFrame, frames
    <2>2. ~Busy' /\ Applied' = Applied
      BY <2>1 DEF Busy, Applied
    <2> QED
      BY <2>1, <2>2 DEF ConnInv
  <1>5. CASE refuse
    <2>1. UNCHANGED <<lost, down, serverFrames, acked, applying, closed, store, seen, allowed>>
      BY <1>5 DEF refuse, Goto, connectFrame, history, clientVars, clientConn,
         serverVars, frames
    <2> QED
      BY <2>1, ConnFrame
  <1>6. CASE roundTrip
    <2>1. UNCHANGED <<lost, down, serverFrames, acked, applying, closed, store, seen, allowed>>
      BY <1>6 DEF roundTrip, Goto, connectFrame, history, clientVars,
         clientConn, serverVars, frames
    <2> QED
      BY <2>1, ConnFrame
  <1>7. CASE awaitSettings
    <2>1. UNCHANGED <<lost, down, serverFrames, acked, applying, closed, store, seen, allowed>>
      BY <1>7 DEF awaitSettings, Goto, connectFrame, history, clientVars,
         clientConn, serverVars, frames
    <2> QED
      BY <2>1, ConnFrame
  <1>8. CASE reserveStream
    <2>1. UNCHANGED <<lost, down, serverFrames, acked, applying, closed, store, seen, allowed>>
      BY <1>8 DEF reserveStream, Goto, afterReserve, connectFrame, history,
         clientVars, clientConn, serverVars, frames
    <2> QED
      BY <2>1, ConnFrame
  <1>9. CASE recordPeerWebTransportSettings
    <2>1. UNCHANGED <<lost, down, serverFrames, acked, applying, closed, store, seen, allowed>>
      BY <1>9 DEF recordPeerWebTransportSettings, Goto, connectFrame, history,
         clientVars, clientConn, serverVars, frames
    <2> QED
      BY <2>1, ConnFrame
  <1>10. CASE writeHeaders
    <2>1. UNCHANGED <<lost, down, serverFrames, acked, applying, closed, store, seen, allowed>>
      BY <1>10 DEF writeHeaders, Goto, Send, connectFrame, history, clientVars,
         clientConn, serverVars, frames
    <2> QED
      BY <2>1, ConnFrame
  <1>11. CASE roundTripFails
    <2>1. UNCHANGED <<lost, down, serverFrames, acked, applying, closed, store, seen, allowed>>
      BY <1>11 DEF roundTripFails, Goto, connectFrame, history, clientVars,
         clientConn, serverVars, frames
    <2> QED
      BY <2>1, ConnFrame
  <1>12. CASE response
    <2>1. /\ ~Busy /\ down # <<>> /\ Head(down).kind = "response" /\ down' = Tail(down)
          /\ UNCHANGED <<lost, serverFrames, acked, applying, closed, store, seen, allowed>>
      BY <1>12 DEF response, Busy, connectFrame, clientConn, frames
    <2>2. ~lost
      BY <2>1 DEF ConnInv
    <2>3. down \in Seq(ToClient) /\ acked \in Nat /\ ~IsSettings(Head(down))
      BY <2>1 DEF TypeOK, IsSettings
    <2>4. InTurn(down', serverFrames', acked')
      BY <2>1, <2>2, <2>3, InTurnSkip DEF ConnInv
    <2>5. ~Busy' /\ Applied' = Applied
      BY <2>1 DEF Busy, Applied
    <2> QED
      BY <2>1, <2>2, <2>4, <2>5 DEF ConnInv
  <1>13. CASE sendSettings
    BY <1>13, ConnSent
  <1>14. CASE serverReads
    <2>1. UNCHANGED <<lost, down, serverFrames, acked, applying, closed, store, seen, allowed>>
      BY <1>14, ServerReadsCases DEF history, clientVars, clientConn,
         serverVars, frames
    <2> QED
      BY <2>1, ConnFrame
  <1>15. CASE Upgrade
    <2>1. UNCHANGED <<lost, serverFrames, acked, applying, closed, store, seen, allowed>>
      BY <1>15, UpgradeCases DEF clientConn, frames
    <2>2. PICK protocol \in Names \cup {NoProtocol} :
             \/ down' = Send(down, Response(TRUE, encodeSelectedProtocolHeader(protocol)))
             \/ down' = Send(down, Response(FALSE, <<>>))
      BY <1>15, UpgradeCases
    <2>3. encodeSelectedProtocolHeader(protocol) \in Parsed /\ <<>> \in Parsed
      BY AnswerTyped, Typed
    <2>4. PICK b \in BOOLEAN, h \in Parsed : down' = Send(down, Response(b, h))
      BY <2>2, <2>3
    <2> QED
      BY <2>1, <2>4, ConnAnswer
  <1>16. CASE sessionEnds
    <2>1. UNCHANGED <<lost, down, serverFrames, acked, applying, closed, store, seen, allowed>>
      BY <1>16 DEF sessionEnds, serverFrame, history, clientVars, clientConn,
         serverVars, frames
    <2> QED
      BY <2>1, ConnFrame
  <1>17. CASE serverSeesLoss
    <2>1. UNCHANGED <<lost, down, serverFrames, acked, applying, closed, store, seen, allowed>>
      BY <1>17 DEF serverSeesLoss, serverFrame, history, clientVars, clientConn,
         serverVars, frames
    <2> QED
      BY <2>1, ConnFrame
  <1>18. CASE foreignServerSettings
    BY <1>18, ConnSent
  <1>19. CASE foreignAnswer
    <2>1. UNCHANGED <<lost, serverFrames, acked, applying, closed, store, seen, allowed>>
      BY <1>19 DEF foreignAnswer, serverFrame, clientConn
    <2>2. PICK ok \in BOOLEAN, h \in Headers : down' = Send(down, Response(ok, h))
      BY <1>19 DEF foreignAnswer
    <2>3. h \in Parsed
      BY Typed
    <2> QED
      BY <2>1, <2>2, <2>3, ConnAnswer
  <1>20. CASE foreignClientSettings
    <2>1. UNCHANGED <<lost, down, serverFrames, acked, applying, closed, store, seen, allowed>>
      BY <1>20, ClientSettingsSent DEF history, clientVars, clientConn,
         serverVars, frames
    <2> QED
      BY <2>1, ConnFrame
  <1>21. CASE foreignRequest
    <2>1. UNCHANGED <<lost, down, serverFrames, acked, applying, closed, store, seen, allowed>>
      BY <1>21 DEF foreignRequest, foreignClientFrame, history, clientVars,
         clientConn, serverVars, frames
    <2> QED
      BY <2>1, ConnFrame
  <1>22. CASE foreignEnd
    <2>1. UNCHANGED <<lost, down, serverFrames, acked, applying, closed, store, seen, allowed>>
      BY <1>22 DEF foreignEnd, foreignClientFrame, history, clientVars,
         clientConn, serverVars, frames
    <2> QED
      BY <2>1, ConnFrame
  <1>23. CASE connectionLost
    <2>1. /\ lost' = TRUE /\ down' = IF applying.n = 0 THEN <<>> ELSE <<Head(down)>>
          /\ UNCHANGED <<serverFrames, acked, applying, closed, store, seen, allowed>>
      BY <1>23 DEF connectionLost, clientConn, frames
    <2>2. Busy' = Busy /\ Applied' = Applied
      BY <2>1 DEF Busy, Applied
    <2>3. CASE Busy
      <3>1. down' = <<Head(down)>>
        BY <2>1, <2>3 DEF Busy
      <3>2. Len(down') = 1 /\ down' # <<>> /\ Head(down') = Head(down)
        BY <3>1
      <3> QED
        BY <2>1, <2>2, <2>3, <3>2 DEF ConnInv
    <2>4. CASE ~Busy
      <3>1. down' = <<>> /\ Len(down') = 0
        BY <2>1, <2>4 DEF Busy
      <3> QED
        BY <2>1, <2>2, <2>4, <3>1 DEF ConnInv
    <2> QED
      BY <2>3, <2>4
  <1>24. CASE UNCHANGED vars
    BY <1>24, ConnFrame DEF vars, history, clientVars, clientConn, serverVars, frames
  <1> QED
    BY NextCases, <1>1, <1>2, <1>3, <1>4, <1>5, <1>6, <1>7, <1>8, <1>9, <1>10,
       <1>11, <1>12, <1>13, <1>14, <1>15, <1>16, <1>17, <1>18, <1>19, <1>20,
       <1>21, <1>22, <1>23, <1>24

-----------------------------------------------------------------------------
(* Connect.                                                                *)

LEMMA CallFrame ==
    ASSUME CallInv, UNCHANGED <<call, closed, acked, serverFrames, capture, store,
                                ackedAtConnect, clientSession>>
    PROVE  CallInv'
  BY DEF CallInv, Consent, NotOlder, NotNewer

(* A call that ended, or has not begun, promises nothing.                  *)
LEMMA CallElsewhere ==
    ASSUME TypeOK', call' \in {"none", "call", "wait", "failed"}
    PROVE  CallInv'
  BY DEF TypeOK, CallInv

LEMMA CallSent ==
    ASSUME TypeOK, CallInv, sendSettings \/ foreignServerSettings
    PROVE  CallInv'
  <1>1. UNCHANGED <<call, closed, acked, capture, store, ackedAtConnect, clientSession>>
    BY ServerSettingsSent DEF clientConn, clientVars, history
  <1>2. PICK m \in SettingsFrames : serverFrames' = Append(serverFrames, m)
    BY ServerSettingsSent
  <1>3. /\ serverFrames \in Seq(SettingsFrames) /\ Len(serverFrames) \in Nat
        /\ acked \in 0..Len(serverFrames) /\ ackedAtConnect \in 0..Len(serverFrames)
    BY LenProperties DEF TypeOK
  <1>4. \A k \in 1..Len(serverFrames) : serverFrames'[k] = serverFrames[k]
    BY <1>2, <1>3, AppendAt
  <1>5. acked >= 1 => serverFrames'[1] = serverFrames[1]
    BY <1>3, <1>4
  <1>6. Consent => Consent'
    BY <1>1, <1>5 DEF Consent
  <1>7. Consent /\ NotOlder(capture.limits) => NotOlder(capture.limits)'
    BY <1>1, <1>5 DEF Consent, NotOlder
  <1>8. NotNewer(capture.limits) => NotNewer(capture.limits)'
    <2>1. ackedAtConnect \in Nat /\ \A k \in 1..ackedAtConnect : serverFrames'[k] = serverFrames[k]
      BY <1>3, <1>4
    <2>2. \A f, v : After(serverFrames, ackedAtConnect, f, v)
                       => After(serverFrames', ackedAtConnect, f, v)
      BY <2>1, AfterSame
    <2> QED
      BY <1>1, <2>2 DEF NotNewer
  <1> QED
    BY <1>1, <1>6, <1>7, <1>8 DEF CallInv

(* Consent and the snapshot.                                               *)
LEMMA CallKept ==
    ASSUME TypeOK, ConnInv, CallInv, ServerInv, ProtocolInv, [Next]_vars
    PROVE  CallInv'
  <1>1. CASE processSettings
    <2>1. UNCHANGED <<call, closed, acked, serverFrames, capture, store, ackedAtConnect, clientSession>>
      BY <1>1 DEF processSettings, readLoopFrame, history, clientVars,
         clientConn, serverVars, frames
    <2> QED
      BY <2>1, CallFrame
  <1>2. CASE applySetting
    <2>1. PICK g \in applying.left : store' = apply(store, {g}, applying.n)
      BY <1>2 DEF applySetting
    <2>2. UNCHANGED <<call, closed, acked, serverFrames, capture, ackedAtConnect, clientSession>>
      BY <1>2 DEF applySetting, readLoopFrame, frames, clientVars, history
    <2>3. Busy /\ applying.n = acked + 1 /\ g \notin Applied /\ g \in Fields
      BY <2>1 DEF ConnInv, Applied, TypeOK
    <2>4. store[g] \in 0..acked /\ acked \in Nat
      BY <2>3 DEF ConnInv, After, TypeOK
    <2>5. \A f \in Fields : store[f] \in Nat /\ capture.limits[f] \in Nat
      BY DEF TypeOK, Limits
    <2>6. store'[g] = acked + 1 /\ \A f \in Fields \ {g} : store'[f] = store[f]
      BY <2>1, <2>3 DEF apply
    <2>7. (\A f \in Fields : capture.limits[f] <= store[f])
             => \A f \in Fields : capture.limits[f] <= store'[f]
      BY <2>4, <2>5, <2>6
    <2> QED
      BY <2>2, <2>7 DEF CallInv, Consent, NotOlder, NotNewer
  <1>3. CASE settingsDone
    <2>1. /\ acked' = acked + 1
          /\ UNCHANGED <<call, closed, serverFrames, capture, store, ackedAtConnect, clientSession>>
      BY <1>3 DEF settingsDone, readLoopFrame, frames, clientVars, history
    <2>2. Consent => Consent'
      BY <2>1 DEF Consent, TypeOK
    <2> QED
      BY <2>1, <2>2 DEF CallInv, NotOlder, NotNewer
  <1>4. CASE cleanup
    <2>1. /\ closed' = TRUE
          /\ UNCHANGED <<call, acked, serverFrames, capture, store, ackedAtConnect, clientSession>>
      BY <1>4 DEF cleanup, readLoopFrame, frames, clientVars, history
    <2> QED
      BY <2>1 DEF CallInv, Consent, NotOlder, NotNewer
  <1>5. CASE refuse
    BY <1>5, TypeKept, CallElsewhere DEF refuse, Goto
  <1>6. CASE roundTrip
    BY <1>6, TypeKept, CallElsewhere DEF roundTrip, Goto
  <1>7. CASE awaitSettings
    <2>1. /\ seen /\ UNCHANGED <<closed, acked, serverFrames>>
          /\ \/ call' = "failed"
             \/ allowed /\ call' = "reserve"
          /\ UNCHANGED <<clientSession, capture>> /\ call = "wait"
      BY <1>7 DEF awaitSettings, Goto, connectFrame, clientConn, frames
    <2>2. CASE call' = "failed"
      BY <2>2, TypeKept, CallElsewhere
    <2>3. CASE allowed /\ call' = "reserve"
      <3>1. ~closed => Consent
        BY <2>1, <2>3 DEF ConnInv, Consent
      <3>2. ~closed' => Consent'
        BY <2>1, <3>1 DEF Consent
      <3>3. clientSession'.state # "open"
        BY <2>1 DEF TypeOK
      <3> QED
        BY <2>3, <3>2, <3>3 DEF CallInv
    <2> QED
      BY <2>1, <2>2, <2>3
  <1>8. CASE reserveStream
    <2>1. /\ call = "reserve" /\ UNCHANGED <<closed, acked, serverFrames, clientSession>>
          /\ \/ call' = "failed"
             \/ ~closed /\ call' = "record"
      BY <1>8 DEF reserveStream, afterReserve, Goto, connectFrame, clientConn, frames
    <2>2. CASE call' = "failed"
      BY <2>2, TypeKept, CallElsewhere
    <2>3. CASE ~closed /\ call' = "record"
      <3>1. Consent'
        BY <2>1, <2>3 DEF CallInv, Consent
      <3>2. clientSession'.state # "open"
        BY <2>1 DEF TypeOK
      <3> QED
        BY <2>3, <3>1, <3>2 DEF CallInv
    <2> QED
      BY <2>1, <2>2, <2>3
  <1>9. CASE recordPeerWebTransportSettings
    <2>1. /\ call = "record" /\ call' = "write" /\ capture' = [ok |-> TRUE, limits |-> store]
          /\ UNCHANGED <<closed, acked, serverFrames, store, clientSession>>
      BY <1>9 DEF recordPeerWebTransportSettings, Goto, connectFrame, clientConn, frames
    <2>2. Consent /\ acked \in Nat
      BY <2>1 DEF CallInv, TypeOK
    <2>3. \A f \in Fields : store[f] \in Nat
      BY DEF TypeOK, Limits
    <2>4. NotOlder(store)
      <3> SUFFICES ASSUME NEW f \in Fields, f \in serverFrames[1].fields
                   PROVE  store[f] >= 1
        BY DEF NotOlder
      <3>1. CASE f \in Applied
        BY <2>2, <3>1 DEF ConnInv
      <3>2. CASE f \notin Applied
        <4>1. After(serverFrames, acked, f, store[f])
          BY <3>2 DEF ConnInv
        <4>2. 1 \in 1..acked
          BY <2>2 DEF Consent
        <4>3. store[f] # 0
          BY <4>1, <4>2 DEF After
        <4> QED
          BY <2>3, <4>3
      <3> QED
        BY <3>1, <3>2
    <2>5. capture'.limits = store
      BY <2>1
    <2>6. Consent' /\ NotOlder(capture.limits)'
      BY <2>1, <2>2, <2>4, <2>5 DEF Consent, NotOlder
    <2>7. \A f \in Fields : capture'.limits[f] <= store'[f]
      BY <2>1, <2>3, <2>5
    <2>8. clientSession'.state # "open"
      BY <2>1 DEF TypeOK
    <2> QED
      BY <2>1, <2>6, <2>7, <2>8 DEF CallInv
  <1>10. CASE writeHeaders
    <2>1. /\ call = "write" /\ ~Busy
          /\ UNCHANGED <<closed, acked, serverFrames, store, capture, clientSession>>
          /\ \/ call' = "failed"
             \/ call' = "response" /\ ackedAtConnect' = acked
      BY <1>10 DEF writeHeaders, Busy, Goto, connectFrame, clientConn, frames
    <2>2. CASE call' = "failed"
      BY <2>2, TypeKept, CallElsewhere
    <2>3. CASE call' = "response" /\ ackedAtConnect' = acked
      <3>1. Consent' /\ NotOlder(capture.limits)'
        BY <2>1 DEF CallInv, Consent, NotOlder
      <3>2. \A f \in Fields : After(serverFrames, acked, f, store[f]) /\ store[f] \in 0..acked
        BY <2>1 DEF ConnInv, Applied, After
      <3>3. \A f \in Fields : capture.limits[f] <= store[f]
        BY <2>1 DEF CallInv
      <3>4. NotNewer(capture.limits)'
        BY <2>1, <2>3, <3>2, <3>3 DEF NotNewer
      <3>5. clientSession'.state # "open"
        BY <2>1 DEF TypeOK
      <3> QED
        BY <2>3, <3>1, <3>4, <3>5 DEF CallInv
    <2> QED
      BY <2>1, <2>2, <2>3
  <1>11. CASE roundTripFails
    BY <1>11, TypeKept, CallElsewhere DEF roundTripFails, Goto
  <1>12. CASE response
    <2>1. /\ call = "response" /\ UNCHANGED <<closed, acked, serverFrames, capture, ackedAtConnect>>
          /\ \/ call' = "failed"
             \/ /\ call' = "session"
                /\ \E p : clientSession' = Session("open", capture.limits, p)
      BY <1>12 DEF response, Goto, peerSettings, connectFrame, clientConn, frames, history
    <2>2. CASE call' = "failed"
      BY <2>2, TypeKept, CallElsewhere
    <2>3. CASE call' = "session" /\ \E p : clientSession' = Session("open", capture.limits, p)
      <3>1. Consent' /\ NotOlder(capture.limits)' /\ NotNewer(capture.limits)'
        BY <2>1 DEF CallInv, Consent, NotOlder, NotNewer
      <3>2. clientSession'.limits = capture'.limits
        BY <2>1, <2>3 DEF Session
      <3> QED
        BY <2>3, <3>1, <3>2 DEF CallInv
    <2> QED
      BY <2>1, <2>2, <2>3
  <1>13. CASE sendSettings
    BY <1>13, CallSent
  <1>14. CASE serverReads
    <2>1. UNCHANGED <<call, closed, acked, serverFrames, capture, store, ackedAtConnect, clientSession>>
      BY <1>14, ServerReadsCases DEF history, clientVars, clientConn,
         serverVars, frames
    <2> QED
      BY <2>1, CallFrame
  <1>15. CASE Upgrade
    <2>1. UNCHANGED <<call, closed, acked, serverFrames, capture, store, ackedAtConnect, clientSession>>
      BY <1>15, UpgradeCases DEF history, clientVars, clientConn, serverVars,
         frames
    <2> QED
      BY <2>1, CallFrame
  <1>16. CASE sessionEnds
    <2>1. UNCHANGED <<call, closed, acked, serverFrames, capture, store, ackedAtConnect, clientSession>>
      BY <1>16 DEF sessionEnds, serverFrame, history, clientVars, clientConn,
         serverVars, frames
    <2> QED
      BY <2>1, CallFrame
  <1>17. CASE serverSeesLoss
    <2>1. UNCHANGED <<call, closed, acked, serverFrames, capture, store, ackedAtConnect, clientSession>>
      BY <1>17 DEF serverSeesLoss, serverFrame, history, clientVars, clientConn,
         serverVars, frames
    <2> QED
      BY <2>1, CallFrame
  <1>18. CASE foreignServerSettings
    BY <1>18, CallSent
  <1>19. CASE foreignAnswer
    <2>1. UNCHANGED <<call, closed, acked, serverFrames, capture, store, ackedAtConnect, clientSession>>
      BY <1>19 DEF foreignAnswer, Send, serverFrame, history, clientVars,
         clientConn, serverVars, frames
    <2> QED
      BY <2>1, CallFrame
  <1>20. CASE foreignClientSettings
    <2>1. UNCHANGED <<call, closed, acked, serverFrames, capture, store, ackedAtConnect, clientSession>>
      BY <1>20, ClientSettingsSent DEF history, clientVars, clientConn,
         serverVars, frames
    <2> QED
      BY <2>1, CallFrame
  <1>21. CASE foreignRequest
    <2>1. UNCHANGED <<call, closed, acked, serverFrames, capture, store, ackedAtConnect, clientSession>>
      BY <1>21 DEF foreignRequest, foreignClientFrame, history, clientVars,
         clientConn, serverVars, frames
    <2> QED
      BY <2>1, CallFrame
  <1>22. CASE foreignEnd
    <2>1. UNCHANGED <<call, closed, acked, serverFrames, capture, store, ackedAtConnect, clientSession>>
      BY <1>22 DEF foreignEnd, foreignClientFrame, history, clientVars,
         clientConn, serverVars, frames
    <2> QED
      BY <2>1, CallFrame
  <1>23. CASE connectionLost
    <2>1. UNCHANGED <<call, closed, acked, serverFrames, capture, store, ackedAtConnect, clientSession>>
      BY <1>23 DEF connectionLost, history, clientVars, clientConn, serverVars,
         frames
    <2> QED
      BY <2>1, CallFrame
  <1>24. CASE UNCHANGED vars
    BY <1>24, CallFrame DEF vars, history, clientVars, clientConn, serverVars, frames
  <1> QED
    BY NextCases, <1>1, <1>2, <1>3, <1>4, <1>5, <1>6, <1>7, <1>8, <1>9, <1>10,
       <1>11, <1>12, <1>13, <1>14, <1>15, <1>16, <1>17, <1>18, <1>19, <1>20,
       <1>21, <1>22, <1>23, <1>24

-----------------------------------------------------------------------------
(* The way to the server.                                                  *)

LEMMA UpFrame ==
    ASSUME UpInv, UNCHANGED <<lost, up, clientFrames, serverStore, sentAtConnect>>
    PROVE  UpInv' /\ (NoConnect' <=> NoConnect)
  BY DEF UpInv, NoConnect

(* Neither SETTINGS nor CONNECT.                                           *)
LEMMA UpOther ==
    ASSUME TypeOK, UpInv, ~lost, NEW m \in ToServer, ~IsSettings(m), ~IsConnect(m),
           up' = Append(up, m), UNCHANGED <<lost, clientFrames, serverStore, sentAtConnect>>
    PROVE  UpInv' /\ (NoConnect' <=> NoConnect)
  <1> DEFINE L == Len(up)
  <1>1. up \in Seq(ToServer) /\ clientFrames \in Seq(SettingsFrames)
    BY DEF TypeOK
  <1>2. /\ L \in Nat /\ Len(up') = L + 1 /\ up'[L + 1] = m
        /\ \A i \in 1..L : up'[i] = up[i]
    BY <1>1, AppendAt
  <1>3. PICK r \in 0..Len(clientFrames) :
           /\ InTurn(up, clientFrames, r)
           /\ \A f \in Fields : After(clientFrames, r, f, serverStore[f])
           /\ NoConnect \/ r <= sentAtConnect
    BY DEF UpInv
  <1>4. r \in Nat
    BY <1>1, LenProperties
  <1>5. InTurn(up', clientFrames, r)
    BY <1>1, <1>3, <1>4, InTurnOther
  <1>6. /\ \A i, j \in 1..L : IsConnect(up[i]) /\ IsSettings(up[j]) =>
              IF j < i THEN up[j].n <= sentAtConnect ELSE up[j].n > sentAtConnect
        /\ \A i, j \in 1..L : IsConnect(up[i]) /\ IsConnect(up[j]) => i = j
    BY DEF UpInv
  <1>7. NoConnect <=> \A i \in 1..L : ~IsConnect(up[i])
    BY DEF NoConnect
  <1> HIDE DEF L
  <1>8. \A i \in 1..L + 1 : IsConnect(up'[i]) \/ IsSettings(up'[i]) => i \in 1..L /\ up'[i] = up[i]
    BY <1>2
  <1>9. \A i \in 1..L : i \in 1..L + 1 /\ up'[i] = up[i]
    BY <1>2
  <1>10. (NoConnect' <=> NoConnect)
    BY <1>2, <1>7, <1>8, <1>9 DEF NoConnect
  <1>11. \A i, j \in 1..Len(up') : IsConnect(up'[i]) /\ IsSettings(up'[j]) =>
           IF j < i THEN up'[j].n <= sentAtConnect ELSE up'[j].n > sentAtConnect
    BY <1>2, <1>6, <1>8
  <1>12. \A i, j \in 1..Len(up') : IsConnect(up'[i]) /\ IsConnect(up'[j]) => i = j
    BY <1>2, <1>6, <1>8
  <1> QED
    BY <1>3, <1>5, <1>10, <1>11, <1>12 DEF UpInv

(* CONNECT is sent behind every SETTINGS so far.                           *)
LEMMA UpConnect ==
    ASSUME TypeOK, UpInv, ~lost, NoConnect, NEW m \in ToServer, IsConnect(m),
           up' = Append(up, m), sentAtConnect' = Len(clientFrames),
           UNCHANGED <<lost, clientFrames, serverStore>>
    PROVE  UpInv'
  <1> DEFINE L == Len(up)
             N == Len(clientFrames)
  <1>1. up \in Seq(ToServer) /\ clientFrames \in Seq(SettingsFrames) /\ N \in Nat
    BY LenProperties DEF TypeOK
  <1>2. /\ L \in Nat /\ Len(up') = L + 1 /\ up'[L + 1] = m
        /\ \A i \in 1..L : up'[i] = up[i]
    BY <1>1, AppendAt
  <1>3. PICK r \in 0..N :
           /\ InTurn(up, clientFrames, r)
           /\ \A f \in Fields : After(clientFrames, r, f, serverStore[f])
    BY DEF UpInv
  <1>4. ~IsSettings(m)
    BY DEF IsSettings, IsConnect
  <1>5. InTurn(up', clientFrames, r)
    BY <1>1, <1>3, <1>4, InTurnOther
  <1>6. \A j \in 1..L : IsSettings(up[j]) => up[j].n \in r + 1..N
    BY <1>3 DEF InTurn
  <1>7. \A i \in 1..L : ~IsConnect(up[i])
    BY DEF NoConnect
  <1>8. sentAtConnect' = N
    OBVIOUS
  <1> HIDE DEF L, N
  <1>9. \A i \in 1..L + 1 : i = L + 1 \/ i \in 1..L
    BY <1>2
  <1>10. \A i \in 1..L + 1 : IsConnect(up'[i]) => i = L + 1
    BY <1>2, <1>7, <1>9
  <1>11. \A j \in 1..L + 1 : IsSettings(up'[j]) => j < L + 1 /\ up'[j].n <= N
    <2> SUFFICES ASSUME NEW j \in 1..L + 1, IsSettings(up'[j])
                 PROVE  j < L + 1 /\ up'[j].n <= N
      OBVIOUS
    <2>1. j \in 1..L /\ up'[j] = up[j]
      BY <1>2, <1>4, <1>9
    <2>2. up[j].n \in r + 1..N
      BY <1>6, <2>1
    <2> QED
      BY <1>1, <1>2, <2>1, <2>2
  <1>12. \A i, j \in 1..Len(up') : IsConnect(up'[i]) /\ IsSettings(up'[j]) =>
           IF j < i THEN up'[j].n <= sentAtConnect' ELSE up'[j].n > sentAtConnect'
    BY <1>2, <1>8, <1>10, <1>11
  <1>13. \A i, j \in 1..Len(up') : IsConnect(up'[i]) /\ IsConnect(up'[j]) => i = j
    BY <1>2, <1>10
  <1>14. r <= sentAtConnect'
    BY <1>1, <1>8
  <1> QED
    BY <1>3, <1>5, <1>12, <1>13, <1>14 DEF UpInv, N

(* More SETTINGS from a foreign client.                                    *)
LEMMA UpSettings ==
    ASSUME TypeOK, UpInv, foreignClientSettings
    PROVE  UpInv' /\ (NoConnect' <=> NoConnect)
  <1>1. ~lost /\ UNCHANGED <<lost, serverStore, sentAtConnect>>
    BY ClientSettingsSent DEF serverVars, clientVars, history
  <1>2. PICK m \in SettingsFrames :
           /\ m.n = Len(clientFrames) + 1
           /\ clientFrames' = Append(clientFrames, m) /\ up' = Append(up, m)
    BY ClientSettingsSent
  <1> DEFINE L == Len(up)
             N == Len(clientFrames)
  <1>3. /\ up \in Seq(ToServer) /\ clientFrames \in Seq(SettingsFrames) /\ N \in Nat
        /\ m \in ToServer /\ IsSettings(m) /\ ~IsConnect(m) /\ sentAtConnect \in 0..N
    BY Typed, MessageKinds, LenProperties DEF TypeOK, IsSettings, IsConnect
  <1>4. /\ L \in Nat /\ Len(up') = L + 1 /\ up'[L + 1] = m
        /\ \A i \in 1..L : up'[i] = up[i]
    BY <1>2, <1>3, AppendAt
  <1>5. Len(clientFrames') = N + 1 /\ \A k \in 1..N : clientFrames'[k] = clientFrames[k]
    BY <1>2, <1>3, AppendAt
  <1>6. PICK r \in 0..N :
           /\ InTurn(up, clientFrames, r)
           /\ \A f \in Fields : After(clientFrames, r, f, serverStore[f])
           /\ NoConnect \/ r <= sentAtConnect
    BY <1>1 DEF UpInv
  <1>7. m.n = N + 1
    BY <1>2
  <1>8. /\ \A i, j \in 1..L : IsConnect(up[i]) /\ IsSettings(up[j]) =>
              IF j < i THEN up[j].n <= sentAtConnect ELSE up[j].n > sentAtConnect
        /\ \A i, j \in 1..L : IsConnect(up[i]) /\ IsConnect(up[j]) => i = j
    BY DEF UpInv
  <1>9. NoConnect <=> \A i \in 1..L : ~IsConnect(up[i])
    BY DEF NoConnect
  <1>10. InTurn(up', clientFrames', r)
    <2>1. r \in Nat /\ r <= Len(clientFrames) /\ m \in ToServer \cap SettingsFrames
      BY <1>3
    <2> QED
      BY <1>2, <1>3, <1>6, <2>1, InTurnSent
  <1> HIDE DEF L, N
  <1>11. \A i \in 1..L + 1 : i = L + 1 \/ i \in 1..L
    BY <1>4
  <1>12. \A i \in 1..L : i \in 1..L + 1 /\ up'[i] = up[i]
    BY <1>4
  <1>13. \A i \in 1..L + 1 : IsConnect(up'[i]) => i \in 1..L /\ up'[i] = up[i]
    BY <1>3, <1>4, <1>11
  <1>14. (NoConnect' <=> NoConnect)
    BY <1>4, <1>9, <1>12, <1>13 DEF NoConnect
  <1>15. \A f \in Fields : After(clientFrames', r, f, serverStore[f])
    <2>1. r \in Nat /\ \A k \in 1..r : clientFrames'[k] = clientFrames[k]
      BY <1>3, <1>5
    <2> QED
      BY <1>6, <2>1, AfterSame
  <1>16. \A i, j \in 1..L + 1 : IsConnect(up'[i]) /\ IsSettings(up'[j]) =>
           IF j < i THEN up'[j].n <= sentAtConnect ELSE up'[j].n > sentAtConnect
    <2> SUFFICES ASSUME NEW i \in 1..L + 1, NEW j \in 1..L + 1,
                        IsConnect(up'[i]), IsSettings(up'[j])
                 PROVE  IF j < i THEN up'[j].n <= sentAtConnect ELSE up'[j].n > sentAtConnect
      OBVIOUS
    <2>1. i \in 1..L /\ up'[i] = up[i]
      BY <1>13
    <2>2. CASE j = L + 1
      <3>1. ~(j < i) /\ up'[j].n = N + 1
        BY <1>4, <1>7, <2>1, <2>2
      <3> QED
        BY <1>3, <3>1
    <2>3. CASE j \in 1..L
      BY <1>8, <1>12, <2>1, <2>3
    <2> QED
      BY <1>11, <2>2, <2>3
  <1>17. \A i, j \in 1..L + 1 : IsConnect(up'[i]) /\ IsConnect(up'[j]) => i = j
    BY <1>8, <1>13
  <1>18. r \in 0..Len(clientFrames')
    BY <1>3, <1>5
  <1> QED
    BY <1>1, <1>4, <1>6, <1>10, <1>14, <1>15, <1>16, <1>17, <1>18 DEF UpInv

(* The server reads: what the front of the wire says of the rest.          *)
LEMMA UpRead ==
    ASSUME TypeOK, UpInv, up # <<>>, up' = Tail(up), UNCHANGED <<lost, clientFrames, sentAtConnect>>
    PROVE  /\ ~lost
           /\ \A i, j \in 1..Len(up') : IsConnect(up'[i]) /\ IsSettings(up'[j]) =>
                 IF j < i THEN up'[j].n <= sentAtConnect ELSE up'[j].n > sentAtConnect
           /\ \A i, j \in 1..Len(up') : IsConnect(up'[i]) /\ IsConnect(up'[j]) => i = j
           /\ IsConnect(Head(up)) => NoConnect' /\ ~NoConnect
           /\ ~IsConnect(Head(up)) => (NoConnect' <=> NoConnect)
           /\ IsConnect(Head(up)) =>
                 \A j \in 1..Len(up) : IsSettings(up[j]) => up[j].n > sentAtConnect
           /\ IsSettings(Head(up)) => NoConnect \/ Head(up).n <= sentAtConnect
  <1> DEFINE L == Len(up)
  <1>1. up \in Seq(ToServer)
    BY DEF TypeOK
  <1>2. /\ L \in Nat \ {0} /\ Head(up) = up[1] /\ Len(up') = L - 1
        /\ \A i \in 1..L - 1 : up'[i] = up[i + 1]
    BY <1>1, TailAt
  <1>3. ~lost
    BY DEF UpInv
  <1>4. /\ \A i, j \in 1..L : IsConnect(up[i]) /\ IsSettings(up[j]) =>
              IF j < i THEN up[j].n <= sentAtConnect ELSE up[j].n > sentAtConnect
        /\ \A i, j \in 1..L : IsConnect(up[i]) /\ IsConnect(up[j]) => i = j
    BY DEF UpInv
  <1>5. NoConnect <=> \A i \in 1..L : ~IsConnect(up[i])
    BY DEF NoConnect
  <1> HIDE DEF L
  <1>6. \A i \in 1..L - 1 : i + 1 \in 1..L /\ up'[i] = up[i + 1]
    BY <1>2
  <1>7. \A i, j \in 1..L - 1 : IsConnect(up'[i]) /\ IsSettings(up'[j]) =>
           IF j < i THEN up'[j].n <= sentAtConnect ELSE up'[j].n > sentAtConnect
    <2> SUFFICES ASSUME NEW i \in 1..L - 1, NEW j \in 1..L - 1,
                        IsConnect(up'[i]), IsSettings(up'[j])
                 PROVE  IF j < i THEN up'[j].n <= sentAtConnect ELSE up'[j].n > sentAtConnect
      OBVIOUS
    <2>1. /\ i + 1 \in 1..L /\ j + 1 \in 1..L /\ up'[i] = up[i + 1] /\ up'[j] = up[j + 1]
          /\ (j < i <=> j + 1 < i + 1)
      BY <1>2, <1>6
    <2> QED
      BY <1>4, <2>1
  <1>8. \A i, j \in 1..L - 1 : IsConnect(up'[i]) /\ IsConnect(up'[j]) => i = j
    <2> SUFFICES ASSUME NEW i \in 1..L - 1, NEW j \in 1..L - 1,
                        IsConnect(up'[i]), IsConnect(up'[j])
                 PROVE  i = j
      OBVIOUS
    <2>1. i + 1 \in 1..L /\ j + 1 \in 1..L /\ up'[i] = up[i + 1] /\ up'[j] = up[j + 1]
      BY <1>6
    <2>2. i + 1 = j + 1
      BY <1>4, <2>1
    <2> QED
      BY <1>2, <2>2
  <1>9. 1 \in 1..L
    BY <1>2
  <1>10. IsConnect(up[1]) => NoConnect' /\ ~NoConnect
    <2> SUFFICES ASSUME IsConnect(up[1]) PROVE NoConnect' /\ ~NoConnect
      OBVIOUS
    <2>1. ~NoConnect
      BY <1>5, <1>9
    <2>2. ASSUME NEW i \in 1..L - 1, IsConnect(up'[i]) PROVE FALSE
      <3>1. i + 1 \in 1..L /\ IsConnect(up[i + 1]) /\ i + 1 # 1
        BY <1>2, <1>6, <2>2
      <3> QED
        BY <1>4, <1>9, <3>1
    <2> QED
      BY <1>2, <2>1, <2>2 DEF NoConnect
  <1>11. ~IsConnect(up[1]) => (NoConnect' <=> NoConnect)
    <2> SUFFICES ASSUME ~IsConnect(up[1]) PROVE (NoConnect' <=> NoConnect)
      OBVIOUS
    <2>1. NoConnect' <=> \A i \in 1..L - 1 : ~IsConnect(up'[i])
      BY <1>2 DEF NoConnect
    <2>2. NoConnect => NoConnect'
      BY <1>5, <1>6, <2>1
    <2>3. ASSUME NoConnect', NEW i \in 1..L, IsConnect(up[i]) PROVE FALSE
      <3>1. i # 1
        BY <2>3
      <3>2. i - 1 \in 1..L - 1 /\ i - 1 + 1 = i
        BY <1>2, <3>1
      <3>3. up'[i - 1] = up[i]
        BY <1>6, <3>2
      <3> QED
        BY <2>1, <2>3, <3>2, <3>3
    <2>4. NoConnect' => NoConnect
      BY <1>5, <2>3
    <2> QED
      BY <2>2, <2>4
  <1>12. IsConnect(up[1]) => \A j \in 1..L : IsSettings(up[j]) => up[j].n > sentAtConnect
    <2> SUFFICES ASSUME IsConnect(up[1]), NEW j \in 1..L, IsSettings(up[j])
                 PROVE  up[j].n > sentAtConnect
      OBVIOUS
    <2>1. ~(j < 1)
      BY <1>2
    <2> QED
      BY <1>4, <1>9, <2>1
  <1>13. IsSettings(up[1]) => NoConnect \/ up[1].n <= sentAtConnect
    <2> SUFFICES ASSUME IsSettings(up[1]), NEW i \in 1..L, IsConnect(up[i])
                 PROVE  up[1].n <= sentAtConnect
      BY <1>5
    <2>1. i # 1
      BY DEF IsSettings, IsConnect
    <2>2. 1 < i
      BY <1>2, <2>1
    <2> QED
      BY <1>4, <1>9, <2>2
  <1> QED
    BY <1>2, <1>3, <1>7, <1>8, <1>10, <1>11, <1>12, <1>13 DEF L

LEMMA UpReads ==
    ASSUME TypeOK, UpInv, serverReads
    PROVE  /\ UpInv'
           /\ IF IsConnect(Head(up))
              THEN /\ NoConnect' /\ ~NoConnect
                   /\ \A f \in Fields : After(clientFrames, sentAtConnect, f, serverStore[f])
              ELSE NoConnect' <=> NoConnect
  <1>1. /\ up # <<>> /\ up' = Tail(up) /\ UNCHANGED <<lost, clientFrames, sentAtConnect>>
    BY ServerReadsCases DEF frames, clientVars, history
  <1>2. /\ up \in Seq(ToServer) /\ clientFrames \in Seq(SettingsFrames)
        /\ Len(clientFrames) \in Nat /\ sentAtConnect \in 0..Len(clientFrames)
    BY LenProperties DEF TypeOK
  <1>3. /\ ~lost
        /\ \A i, j \in 1..Len(up') : IsConnect(up'[i]) /\ IsSettings(up'[j]) =>
              IF j < i THEN up'[j].n <= sentAtConnect' ELSE up'[j].n > sentAtConnect'
        /\ \A i, j \in 1..Len(up') : IsConnect(up'[i]) /\ IsConnect(up'[j]) => i = j
    BY <1>1, UpRead
  <1>4. PICK r \in 0..Len(clientFrames) :
           /\ InTurn(up, clientFrames, r)
           /\ \A f \in Fields : After(clientFrames, r, f, serverStore[f])
           /\ NoConnect \/ r <= sentAtConnect
    BY <1>3 DEF UpInv
  <1>5. r \in Nat
    BY <1>2
  <1>6. CASE IsSettings(Head(up))
    <2>1. ~IsConnect(Head(up))
      BY <1>6 DEF IsSettings, IsConnect
    <2>2. (NoConnect' <=> NoConnect) /\ (NoConnect \/ Head(up).n <= sentAtConnect)
      BY <1>1, <1>6, <2>1, UpRead
    <2>3. /\ Head(up).n = r + 1 /\ r + 1 <= Len(clientFrames)
          /\ Head(up) = clientFrames[r + 1] /\ InTurn(up', clientFrames, r + 1)
      BY <1>1, <1>2, <1>4, <1>5, <1>6, InTurnRead
    <2>4. serverStore' = apply(serverStore, clientFrames[r + 1].fields, r + 1)
      BY <1>6, <2>1, <2>3, ServerReadsCases DEF IsSettings
    <2>5. \A f \in Fields : After(clientFrames, r + 1, f, serverStore'[f])
      <3> SUFFICES ASSUME NEW f \in Fields
                   PROVE  After(clientFrames, r + 1, f, serverStore'[f])
        OBVIOUS
      <3>1. serverStore'[f] = IF f \in clientFrames[r + 1].fields THEN r + 1 ELSE serverStore[f]
        BY <2>4 DEF apply
      <3>2. After(clientFrames, r, f, serverStore[f])
        BY <1>4
      <3> QED
        BY <1>5, <3>1, <3>2, AfterNext
    <2>6. r + 1 \in 0..Len(clientFrames')
      BY <1>1, <1>2, <1>5, <2>3
    <2>7. NoConnect' \/ r + 1 <= sentAtConnect'
      BY <1>1, <2>2, <2>3
    <2>8. InTurn(up', clientFrames', r + 1)
      BY <1>1, <2>3
    <2>9. \A f \in Fields : After(clientFrames', r + 1, f, serverStore'[f])
      BY <1>1, <2>5
    <2>10. UpInv'
      BY <1>1, <1>3, <2>6, <2>7, <2>8, <2>9 DEF UpInv
    <2> QED
      BY <2>1, <2>2, <2>10
  <1>7. CASE ~IsSettings(Head(up))
    <2>1. serverStore' = serverStore
      BY <1>7, ServerReadsCases
    <2>2. InTurn(up', clientFrames', r)
      BY <1>1, <1>2, <1>4, <1>5, <1>7, InTurnSkip
    <2>3. CASE IsConnect(Head(up))
      <3>1. /\ NoConnect' /\ ~NoConnect
            /\ \A j \in 1..Len(up) : IsSettings(up[j]) => up[j].n > sentAtConnect
        BY <1>1, <2>3, UpRead
      <3>2. r = sentAtConnect
        <4>1. r <= sentAtConnect
          BY <1>4, <3>1
        <4>2. ASSUME r < sentAtConnect PROVE FALSE
          <5>1. sentAtConnect \in r + 1..Len(clientFrames)
            BY <1>2, <1>5, <4>2
          <5>2. PICK i \in 1..Len(up) : IsSettings(up[i]) /\ up[i].n = sentAtConnect
            BY <1>4, <5>1 DEF InTurn
          <5>3. up[i].n > sentAtConnect
            BY <3>1, <5>2
          <5> QED
            BY <1>2, <5>2, <5>3
        <4> QED
          BY <1>2, <1>5, <4>1, <4>2
      <3>3. UpInv'
        BY <1>1, <1>3, <1>4, <2>1, <2>2, <3>1 DEF UpInv
      <3> QED
        BY <1>4, <2>3, <3>1, <3>2, <3>3
    <2>4. CASE ~IsConnect(Head(up))
      <3>1. NoConnect' <=> NoConnect
        BY <1>1, <2>4, UpRead
      <3>2. UpInv'
        BY <1>1, <1>3, <1>4, <2>1, <2>2, <3>1 DEF UpInv
      <3> QED
        BY <2>4, <3>1, <3>2
    <2> QED
      BY <2>3, <2>4
  <1> QED
    BY <1>6, <1>7

(* The way to the server.                                                  *)
LEMMA UpKept ==
    ASSUME TypeOK, ConnInv, CallInv, ServerInv, ProtocolInv, [Next]_vars
    PROVE  UpInv'
  <1>1. CASE processSettings
    <2>1. UNCHANGED <<lost, up, clientFrames, serverStore, sentAtConnect>>
      BY <1>1 DEF processSettings, readLoopFrame, history, clientVars,
         clientConn, serverVars, frames
    <2> QED
      BY <2>1, UpFrame DEF ServerInv
  <1>2. CASE applySetting
    <2>1. UNCHANGED <<lost, up, clientFrames, serverStore, sentAtConnect>>
      BY <1>2 DEF applySetting, readLoopFrame, history, clientVars, clientConn,
         serverVars, frames
    <2> QED
      BY <2>1, UpFrame DEF ServerInv
  <1>3. CASE settingsDone
    <2>1. UNCHANGED <<lost, up, clientFrames, serverStore, sentAtConnect>>
      BY <1>3 DEF settingsDone, allowedAfter, readLoopFrame, history,
         clientVars, clientConn, serverVars, frames
    <2> QED
      BY <2>1, UpFrame DEF ServerInv
  <1>4. CASE cleanup
    <2>1. UNCHANGED <<lost, up, clientFrames, serverStore, sentAtConnect>>
      BY <1>4 DEF cleanup, wakeWaiting, readLoopFrame, history, clientVars,
         clientConn, serverVars, frames
    <2> QED
      BY <2>1, UpFrame DEF ServerInv
  <1>5. CASE refuse
    <2>1. UNCHANGED <<lost, up, clientFrames, serverStore, sentAtConnect>>
      BY <1>5 DEF refuse, Goto, connectFrame, history, clientVars, clientConn,
         serverVars, frames
    <2> QED
      BY <2>1, UpFrame DEF ServerInv
  <1>6. CASE roundTrip
    <2>1. UNCHANGED <<lost, up, clientFrames, serverStore, sentAtConnect>>
      BY <1>6 DEF roundTrip, Goto, connectFrame, history, clientVars,
         clientConn, serverVars, frames
    <2> QED
      BY <2>1, UpFrame DEF ServerInv
  <1>7. CASE awaitSettings
    <2>1. UNCHANGED <<lost, up, clientFrames, serverStore, sentAtConnect>>
      BY <1>7 DEF awaitSettings, Goto, connectFrame, history, clientVars,
         clientConn, serverVars, frames
    <2> QED
      BY <2>1, UpFrame DEF ServerInv
  <1>8. CASE reserveStream
    <2>1. UNCHANGED <<lost, up, clientFrames, serverStore, sentAtConnect>>
      BY <1>8 DEF reserveStream, Goto, afterReserve, connectFrame, history,
         clientVars, clientConn, serverVars, frames
    <2> QED
      BY <2>1, UpFrame DEF ServerInv
  <1>9. CASE recordPeerWebTransportSettings
    <2>1. UNCHANGED <<lost, up, clientFrames, serverStore, sentAtConnect>>
      BY <1>9 DEF recordPeerWebTransportSettings, Goto, connectFrame, history,
         clientVars, clientConn, serverVars, frames
    <2> QED
      BY <2>1, UpFrame DEF ServerInv
  <1>10. CASE writeHeaders
    <2>1. call = "write" /\ UNCHANGED <<lost, clientFrames, serverStore>>
      BY <1>10 DEF writeHeaders, connectFrame, frames, serverVars
    <2>2. CASE UNCHANGED <<up, sentAtConnect>>
      BY <2>1, <2>2, UpFrame DEF ServerInv
    <2>3. CASE /\ up' = Send(up, ConnectRequest(TRUE, offered))
               /\ sentAtConnect' = Len(clientFrames)
      <3>1. offered \in Parsed
        BY Typed DEF TypeOK, Parsed
      <3> DEFINE m == ConnectRequest(TRUE, offered)
      <3>2. m \in ToServer /\ IsConnect(m)
        BY <3>1, Typed DEF IsConnect
      <3> HIDE DEF m
      <3>3. NoConnect
        BY <2>1 DEF ServerInv, RequestInv
      <3>4. CASE lost
        <4>1. up' = up /\ up = <<>>
          BY <2>3, <3>4 DEF Send, ServerInv, UpInv
        <4> QED
          BY <2>1, <3>4, <4>1 DEF UpInv
      <3>5. CASE ~lost
        <4>1. up' = Append(up, m)
          BY <2>3, <3>5 DEF Send, m
        <4> QED
          BY <2>1, <2>3, <3>2, <3>3, <3>5, <4>1, UpConnect DEF ServerInv
      <3> QED
        BY <3>4, <3>5
    <2> QED
      BY <1>10, <2>2, <2>3 DEF writeHeaders, history
  <1>11. CASE roundTripFails
    <2>1. UNCHANGED <<lost, up, clientFrames, serverStore, sentAtConnect>>
      BY <1>11 DEF roundTripFails, Goto, connectFrame, history, clientVars,
         clientConn, serverVars, frames
    <2> QED
      BY <2>1, UpFrame DEF ServerInv
  <1>12. CASE response
    <2>1. UNCHANGED <<lost, clientFrames, serverStore, sentAtConnect>>
      BY <1>12 DEF response, connectFrame, frames, serverVars, history
    <2>2. up' = up \/ (~lost /\ up' = Append(up, End))
      BY <1>12 DEF response, closeStream, Send
    <2>3. End \in ToServer /\ ~IsSettings(End) /\ ~IsConnect(End)
      BY Typed DEF IsSettings, IsConnect
    <2> QED
      BY <2>1, <2>2, <2>3, UpFrame, UpOther DEF ServerInv
  <1>13. CASE sendSettings
    <2>1. UNCHANGED <<lost, up, clientFrames, serverStore, sentAtConnect>>
      BY <1>13, ServerSettingsSent DEF history, clientVars, clientConn,
         serverVars, frames
    <2> QED
      BY <2>1, UpFrame DEF ServerInv
  <1>14. CASE serverReads
    BY <1>14, UpReads DEF ServerInv
  <1>15. CASE Upgrade
    <2>1. UNCHANGED <<lost, up, clientFrames, serverStore, sentAtConnect>>
      BY <1>15, UpgradeCases DEF history, clientVars, clientConn, serverVars,
         frames
    <2> QED
      BY <2>1, UpFrame DEF ServerInv
  <1>16. CASE sessionEnds
    <2>1. UNCHANGED <<lost, up, clientFrames, serverStore, sentAtConnect>>
      BY <1>16 DEF sessionEnds, serverFrame, history, clientVars, clientConn,
         serverVars, frames
    <2> QED
      BY <2>1, UpFrame DEF ServerInv
  <1>17. CASE serverSeesLoss
    <2>1. UNCHANGED <<lost, up, clientFrames, serverStore, sentAtConnect>>
      BY <1>17 DEF serverSeesLoss, serverFrame, history, clientVars, clientConn,
         serverVars, frames
    <2> QED
      BY <2>1, UpFrame DEF ServerInv
  <1>18. CASE foreignServerSettings
    <2>1. UNCHANGED <<lost, up, clientFrames, serverStore, sentAtConnect>>
      BY <1>18, ServerSettingsSent DEF history, clientVars, clientConn,
         serverVars, frames
    <2> QED
      BY <2>1, UpFrame DEF ServerInv
  <1>19. CASE foreignAnswer
    <2>1. UNCHANGED <<lost, up, clientFrames, serverStore, sentAtConnect>>
      BY <1>19 DEF foreignAnswer, Send, serverFrame, history, clientVars,
         clientConn, serverVars, frames
    <2> QED
      BY <2>1, UpFrame DEF ServerInv
  <1>20. CASE foreignClientSettings
    BY <1>20, UpSettings DEF ServerInv
  <1>21. CASE foreignRequest
    <2>1. /\ ~lost /\ UNCHANGED <<lost, clientFrames, serverStore>>
          /\ sentAtConnect' = Len(clientFrames)
      BY <1>21 DEF foreignRequest, foreignClientFrame, serverVars
    <2>2. PICK valid \in BOOLEAN, h \in Headers : up' = Append(up, ConnectRequest(valid, h))
      BY <1>21 DEF foreignRequest
    <2> DEFINE m == ConnectRequest(valid, h)
    <2>3. m \in ToServer /\ IsConnect(m)
      BY Typed DEF IsConnect
    <2>4. up' = Append(up, m)
      BY <2>2
    <2> HIDE DEF m
    <2>5. NoConnect
      <3>1. ~Sent("connect") /\ up \in Seq(ToServer)
        BY <1>21 DEF foreignRequest, TypeOK
      <3>2. DOMAIN up = 1..Len(up)
        BY <3>1, LenProperties
      <3> QED
        BY <3>1, <3>2 DEF Sent, NoConnect, IsConnect
    <2> QED
      BY <2>1, <2>3, <2>4, <2>5, UpConnect DEF ServerInv
  <1>22. CASE foreignEnd
    <2>1. ~lost /\ up' = Append(up, End)
          /\ UNCHANGED <<lost, clientFrames, serverStore, sentAtConnect>>
      BY <1>22 DEF foreignEnd, foreignClientFrame, serverVars
    <2>2. End \in ToServer /\ ~IsSettings(End) /\ ~IsConnect(End)
      BY Typed DEF IsSettings, IsConnect
    <2> QED
      BY <2>1, <2>2, UpOther DEF ServerInv
  <1>23. CASE connectionLost
    <2>1. lost' = TRUE /\ up' = <<>>
      BY <1>23 DEF connectionLost
    <2>2. Len(up') = 0
      BY <2>1
    <2> QED
      BY <2>1, <2>2 DEF UpInv
  <1>24. CASE UNCHANGED vars
    BY <1>24, UpFrame DEF ServerInv, vars, history, clientVars, clientConn, serverVars, frames
  <1> QED
    BY NextCases, <1>1, <1>2, <1>3, <1>4, <1>5, <1>6, <1>7, <1>8, <1>9, <1>10,
       <1>11, <1>12, <1>13, <1>14, <1>15, <1>16, <1>17, <1>18, <1>19, <1>20,
       <1>21, <1>22, <1>23, <1>24

-----------------------------------------------------------------------------
(* The request and the server's session.                                   *)

(* The request and its limits.                                             *)
LEMMA RequestKept ==
    ASSUME TypeOK, ConnInv, CallInv, ServerInv, ProtocolInv, [Next]_vars
    PROVE  RequestInv'
  <1>1. CASE processSettings
    <2>1. UNCHANGED <<request, up, foreign, clientFrames, sentAtConnect, serverSession, call>>
      BY <1>1 DEF processSettings, readLoopFrame, history, clientVars,
         clientConn, serverVars, frames
    <2> QED
      BY <2>1 DEF ServerInv, RequestInv, NoConnect
  <1>2. CASE applySetting
    <2>1. UNCHANGED <<request, up, foreign, clientFrames, sentAtConnect, serverSession, call>>
      BY <1>2 DEF applySetting, readLoopFrame, history, clientVars, clientConn,
         serverVars, frames
    <2> QED
      BY <2>1 DEF ServerInv, RequestInv, NoConnect
  <1>3. CASE settingsDone
    <2>1. UNCHANGED <<request, up, foreign, clientFrames, sentAtConnect, serverSession, call>>
      BY <1>3 DEF settingsDone, allowedAfter, readLoopFrame, history,
         clientVars, clientConn, serverVars, frames
    <2> QED
      BY <2>1 DEF ServerInv, RequestInv, NoConnect
  <1>4. CASE cleanup
    <2>1. UNCHANGED <<request, up, foreign, clientFrames, sentAtConnect, serverSession, call>>
      BY <1>4 DEF cleanup, wakeWaiting, readLoopFrame, history, clientVars,
         clientConn, serverVars, frames
    <2> QED
      BY <2>1 DEF ServerInv, RequestInv, NoConnect
  <1>5. CASE refuse
    <2>1. UNCHANGED <<request, up, foreign, clientFrames, sentAtConnect, serverSession>>
      BY <1>5 DEF refuse, Goto, connectFrame, history, clientVars, clientConn,
         serverVars, frames
    <2>2. call \in {"call"} /\ call' \in {"failed"}
      BY <1>5 DEF refuse, Goto
    <2> QED
      BY <2>1, <2>2 DEF ServerInv, RequestInv, NoConnect
  <1>6. CASE roundTrip
    <2>1. UNCHANGED <<request, up, foreign, clientFrames, sentAtConnect, serverSession>>
      BY <1>6 DEF roundTrip, Goto, connectFrame, history, clientVars,
         clientConn, serverVars, frames
    <2>2. call \in {"call"} /\ call' \in {"wait"}
      BY <1>6 DEF roundTrip, Goto
    <2> QED
      BY <2>1, <2>2 DEF ServerInv, RequestInv, NoConnect
  <1>7. CASE awaitSettings
    <2>1. UNCHANGED <<request, up, foreign, clientFrames, sentAtConnect, serverSession>>
      BY <1>7 DEF awaitSettings, Goto, connectFrame, history, clientVars,
         clientConn, serverVars, frames
    <2>2. call \in {"wait"} /\ call' \in {"reserve", "failed"}
      BY <1>7 DEF awaitSettings, Goto
    <2> QED
      BY <2>1, <2>2 DEF ServerInv, RequestInv, NoConnect
  <1>8. CASE reserveStream
    <2>1. UNCHANGED <<request, up, foreign, clientFrames, sentAtConnect, serverSession>>
      BY <1>8 DEF reserveStream, Goto, afterReserve, connectFrame, history,
         clientVars, clientConn, serverVars, frames
    <2>2. call \in {"reserve"} /\ call' \in {"record", "failed"}
      BY <1>8 DEF reserveStream, Goto, afterReserve
    <2> QED
      BY <2>1, <2>2 DEF ServerInv, RequestInv, NoConnect
  <1>9. CASE recordPeerWebTransportSettings
    <2>1. UNCHANGED <<request, up, foreign, clientFrames, sentAtConnect, serverSession>>
      BY <1>9 DEF recordPeerWebTransportSettings, Goto, connectFrame, history,
         clientVars, clientConn, serverVars, frames
    <2>2. call \in {"record"} /\ call' \in {"write"}
      BY <1>9 DEF recordPeerWebTransportSettings, Goto
    <2> QED
      BY <2>1, <2>2 DEF ServerInv, RequestInv, NoConnect
  <1>10. CASE writeHeaders
    <2>1. /\ call = "write" /\ call' \in {"failed", "response"}
          /\ UNCHANGED <<request, foreign, serverSession>>
      BY <1>10 DEF writeHeaders, Goto, connectFrame, serverVars
    <2>2. request.state = "none" /\ serverSession.state = "none" /\ foreign # "client"
      BY <2>1 DEF ServerInv, RequestInv
    <2> QED
      BY <2>1, <2>2 DEF RequestInv
  <1>11. CASE roundTripFails
    <2>1. UNCHANGED <<request, up, foreign, clientFrames, sentAtConnect, serverSession>>
      BY <1>11 DEF roundTripFails, Goto, connectFrame, history, clientVars,
         clientConn, serverVars, frames
    <2>2. call \in {"response"} /\ call' \in {"failed"}
      BY <1>11 DEF roundTripFails, Goto
    <2> QED
      BY <2>1, <2>2 DEF ServerInv, RequestInv, NoConnect
  <1>12. CASE response
    <2>1. /\ call = "response" /\ call' \in {"failed", "session"}
          /\ UNCHANGED <<request, foreign, lost, clientFrames, serverStore, sentAtConnect, serverSession>>
      BY <1>12 DEF response, Goto, connectFrame, frames, serverVars, history
    <2>2. up' = up \/ (~lost /\ up' = Append(up, End))
      BY <1>12 DEF response, closeStream, Send
    <2>3. End \in ToServer /\ ~IsSettings(End) /\ ~IsConnect(End)
      BY Typed DEF IsSettings, IsConnect
    <2>4. NoConnect' <=> NoConnect
      BY <2>1, <2>2, <2>3, UpFrame, UpOther DEF ServerInv
    <2> QED
      BY <2>1, <2>4 DEF ServerInv, RequestInv
  <1>13. CASE sendSettings
    <2>1. UNCHANGED <<request, up, foreign, clientFrames, sentAtConnect, serverSession, call>>
      BY <1>13, ServerSettingsSent DEF history, clientVars, clientConn,
         serverVars, frames
    <2> QED
      BY <2>1 DEF ServerInv, RequestInv, NoConnect
  <1>14. CASE serverReads
    <2>1. UNCHANGED <<foreign, call, clientFrames, sentAtConnect, serverSession>>
      BY <1>14, ServerReadsCases DEF clientVars, history, frames
    <2>2. CASE IsConnect(Head(up))
      <3>1. /\ NoConnect' /\ ~NoConnect
            /\ \A f \in Fields : After(clientFrames, sentAtConnect, f, serverStore[f])
        BY <1>14, <2>2, UpReads DEF ServerInv
      <3>2. request' = newWriterAndRequest(Head(up))
        BY <1>14, <2>2, ServerReadsCases DEF IsConnect, IsSettings
      <3>3. request'.state = "pending" /\ request'.settings = serverStore
        BY <3>2 DEF newWriterAndRequest, TypeOK
      <3>4. /\ request.state = "none" /\ serverSession.state = "none"
            /\ call \notin {"call", "wait", "reserve", "record", "write"}
        BY <3>1 DEF ServerInv, RequestInv
      <3> QED
        BY <2>1, <3>1, <3>3, <3>4 DEF ServerInv, RequestInv
    <2>3. CASE ~IsConnect(Head(up))
      <3>1. NoConnect' <=> NoConnect
        BY <1>14, <2>3, UpReads DEF ServerInv
      <3>2. request'.state = request.state /\ request'.settings = request.settings
        BY <1>14, <2>3, ServerReadsCases DEF TypeOK
      <3> QED
        BY <2>1, <3>1, <3>2 DEF ServerInv, RequestInv
    <2> QED
      BY <2>2, <2>3
  <1>15. CASE Upgrade
    <2>1. /\ request.state = "pending" /\ request' = [request EXCEPT !.state = "answered"]
          /\ UNCHANGED <<up, foreign, call, clientFrames, sentAtConnect>>
      BY <1>15, UpgradeCases DEF clientVars, history, frames
    <2>2. \/ \E p : serverSession' = Session("open", request.settings, p)
          \/ UNCHANGED serverSession
      BY <1>15, UpgradeCases
    <2>3. request'.state = "answered" /\ request'.settings = request.settings
      BY <2>1 DEF TypeOK
    <2>4. serverSession.state = "none" /\ call \notin {"call", "wait", "reserve", "record", "write"}
      BY <2>1 DEF ServerInv, RequestInv
    <2>5. serverSession'.state # "none" => serverSession'.limits = request'.settings
      BY <2>2, <2>3, <2>4 DEF Session
    <2> QED
      BY <2>1, <2>3, <2>4, <2>5 DEF ServerInv, RequestInv, NoConnect
  <1>16. CASE sessionEnds
    <2>1. /\ serverSession.state = "open"
          /\ serverSession' = [serverSession EXCEPT !.state = "ended"]
          /\ UNCHANGED <<request, up, foreign, call, clientFrames, sentAtConnect>>
      BY <1>16 DEF sessionEnds, serverFrame, clientVars, history
    <2>2. serverSession'.limits = serverSession.limits
      BY <2>1 DEF TypeOK
    <2> QED
      BY <2>1, <2>2 DEF ServerInv, RequestInv, NoConnect
  <1>17. CASE serverSeesLoss
    <2>1. /\ request' = [request EXCEPT !.ended = TRUE]
          /\ UNCHANGED <<serverSession, up, foreign, call, clientFrames, sentAtConnect>>
      BY <1>17 DEF serverSeesLoss, serverFrame, clientVars, history
    <2>2. request'.state = request.state /\ request'.settings = request.settings
      BY <2>1 DEF TypeOK
    <2> QED
      BY <2>1, <2>2 DEF ServerInv, RequestInv, NoConnect
  <1>18. CASE foreignServerSettings
    <2>1. UNCHANGED <<request, up, foreign, clientFrames, sentAtConnect, serverSession, call>>
      BY <1>18, ServerSettingsSent DEF history, clientVars, clientConn,
         serverVars, frames
    <2> QED
      BY <2>1 DEF ServerInv, RequestInv, NoConnect
  <1>19. CASE foreignAnswer
    <2>1. /\ request.state = "pending" /\ request' = [request EXCEPT !.state = "answered"]
          /\ UNCHANGED <<up, foreign, call, clientFrames, sentAtConnect>>
      BY <1>19 DEF foreignAnswer, serverFrame, clientVars, history
    <2>2. \E state, p : serverSession' = Session(state, request.settings, p)
      BY <1>19 DEF foreignAnswer
    <2>3. request'.state = "answered" /\ request'.settings = request.settings
      BY <2>1 DEF TypeOK
    <2>4. call \notin {"call", "wait", "reserve", "record", "write"}
      BY <2>1 DEF ServerInv, RequestInv
    <2>5. serverSession'.limits = request'.settings
      BY <2>2, <2>3 DEF Session
    <2> QED
      BY <2>1, <2>3, <2>4, <2>5 DEF ServerInv, RequestInv, NoConnect
  <1>20. CASE foreignClientSettings
    <2>1. UNCHANGED <<request, foreign, call, sentAtConnect, serverSession>>
      BY <1>20, ClientSettingsSent DEF clientVars, serverVars, history
    <2>2. NoConnect' <=> NoConnect
      BY <1>20, UpSettings DEF ServerInv
    <2>3. PICK m \in SettingsFrames : clientFrames' = Append(clientFrames, m)
      BY <1>20, ClientSettingsSent
    <2>4. /\ clientFrames \in Seq(SettingsFrames) /\ Len(clientFrames) \in Nat
          /\ sentAtConnect \in 0..Len(clientFrames)
      BY LenProperties DEF TypeOK
    <2>5. sentAtConnect \in Nat /\ \A k \in 1..sentAtConnect : clientFrames'[k] = clientFrames[k]
      BY <2>3, <2>4, AppendAt
    <2>6. request.state # "none" =>
             \A f \in Fields : After(clientFrames', sentAtConnect, f, request.settings[f])
      BY <2>5, AfterSame DEF ServerInv, RequestInv
    <2> QED
      BY <2>1, <2>2, <2>6 DEF ServerInv, RequestInv
  <1>21. CASE foreignRequest
    <2>1. /\ foreign = "client" /\ request.state = "none"
          /\ UNCHANGED <<request, foreign, call, serverSession>>
      BY <1>21 DEF foreignRequest, foreignClientFrame, serverVars
    <2>2. call = "none" /\ serverSession.state = "none"
      BY <2>1 DEF ServerInv, RequestInv
    <2> QED
      BY <2>1, <2>2 DEF RequestInv
  <1>22. CASE foreignEnd
    <2>1. ~lost /\ up' = Append(up, End)
          /\ UNCHANGED <<request, foreign, call, serverSession, lost, clientFrames, serverStore,
                         sentAtConnect>>
      BY <1>22 DEF foreignEnd, foreignClientFrame, serverVars
    <2>2. End \in ToServer /\ ~IsSettings(End) /\ ~IsConnect(End)
      BY Typed DEF IsSettings, IsConnect
    <2>3. NoConnect' <=> NoConnect
      BY <2>1, <2>2, UpOther DEF ServerInv
    <2> QED
      BY <2>1, <2>3 DEF ServerInv, RequestInv
  <1>23. CASE connectionLost
    <2>1. up' = <<>> /\ UNCHANGED <<request, foreign, call, serverSession, clientFrames, sentAtConnect>>
      BY <1>23 DEF connectionLost, clientVars, serverVars, history, frames
    <2>2. Len(up') = 0
      BY <2>1
    <2>3. NoConnect'
      BY <2>2 DEF NoConnect
    <2> QED
      BY <2>1, <2>3 DEF ServerInv, RequestInv
  <1>24. CASE UNCHANGED vars
    BY <1>24 DEF ServerInv, RequestInv, NoConnect, vars, history, clientVars, clientConn, serverVars, frames
  <1> QED
    BY NextCases, <1>1, <1>2, <1>3, <1>4, <1>5, <1>6, <1>7, <1>8, <1>9, <1>10,
       <1>11, <1>12, <1>13, <1>14, <1>15, <1>16, <1>17, <1>18, <1>19, <1>20,
       <1>21, <1>22, <1>23, <1>24

-----------------------------------------------------------------------------
(* The protocol.                                                           *)

(* The empty names in front of the list add nothing but the empty name.    *)
LEMMA Available ==
    ASSUME NEW h \in Seq(Names)
    PROVE  /\ Range(parseAvailableProtocolsHeader(h)) \subseteq Range(h) \cup {NoProtocol}
           /\ Range(h) \subseteq Range(parseAvailableProtocolsHeader(h))
  <1> DEFINE T == Names \cup {NoProtocol}
             a == [i \in DOMAIN h |-> NoProtocol]
  <1>1. DOMAIN h = 1..Len(h) /\ Len(h) \in Nat /\ h \in Seq(T)
    BY LenProperties
  <1>2. a \in Seq(T) /\ DOMAIN a = 1..Len(h)
    BY <1>1
  <1>3. Range(a) \subseteq {NoProtocol}
    BY DEF Range
  <1>4. parseAvailableProtocolsHeader(h) = a \o h
    BY DEF parseAvailableProtocolsHeader
  <1> HIDE DEF a, T
  <1>5. Range(a \o h) = Range(a) \cup Range(h)
    BY <1>1, <1>2, RangeConcatenation
  <1> QED
    BY <1>3, <1>4, <1>5

(* What the server answers is what the client reads.                       *)
LEMMA AnswerRead ==
    ASSUME NEW p
    PROVE  parseSelectedProtocolHeader(encodeSelectedProtocolHeader(p)) = p
  BY DEF parseSelectedProtocolHeader, encodeSelectedProtocolHeader

LEMMA OfferFrame ==
    ASSUME OfferInv, UNCHANGED <<foreign, offered, up, request, wanted>>
    PROVE  OfferInv'
  BY DEF OfferInv

(* A message other than CONNECT, or the list itself.                       *)
LEMMA OfferSent ==
    ASSUME TypeOK, OfferInv, NEW m \in ToServer, ~IsConnect(m) \/ m.header = offered,
           up' = Append(up, m), UNCHANGED <<foreign, offered, request, wanted>>
    PROVE  OfferInv'
  <1> DEFINE L == Len(up)
  <1>1. /\ up \in Seq(ToServer) /\ L \in Nat /\ Len(up') = L + 1
        /\ \A i \in 1..L : up'[i] = up[i]
        /\ up'[L + 1] = m
    BY AppendAt DEF TypeOK
  <1>2. foreign # "client" => \A i \in 1..L : IsConnect(up[i]) => up[i].header = offered
    BY DEF OfferInv
  <1> HIDE DEF L
  <1>3. foreign # "client" =>
           \A i \in 1..Len(up') : IsConnect(up'[i]) => up'[i].header = offered
    BY <1>1, <1>2
  <1> QED
    BY <1>3 DEF OfferInv

(* The request carries the client's list.                                  *)
LEMMA OfferKept ==
    ASSUME TypeOK, ConnInv, CallInv, ServerInv, ProtocolInv, [Next]_vars
    PROVE  OfferInv'
  <1>1. CASE processSettings
    <2>1. UNCHANGED <<foreign, offered, up, request, wanted>>
      BY <1>1 DEF processSettings, readLoopFrame, history, clientVars,
         clientConn, serverVars, frames
    <2> QED
      BY <2>1, OfferFrame DEF ProtocolInv
  <1>2. CASE applySetting
    <2>1. UNCHANGED <<foreign, offered, up, request, wanted>>
      BY <1>2 DEF applySetting, readLoopFrame, history, clientVars, clientConn,
         serverVars, frames
    <2> QED
      BY <2>1, OfferFrame DEF ProtocolInv
  <1>3. CASE settingsDone
    <2>1. UNCHANGED <<foreign, offered, up, request, wanted>>
      BY <1>3 DEF settingsDone, allowedAfter, readLoopFrame, history,
         clientVars, clientConn, serverVars, frames
    <2> QED
      BY <2>1, OfferFrame DEF ProtocolInv
  <1>4. CASE cleanup
    <2>1. UNCHANGED <<foreign, offered, up, request, wanted>>
      BY <1>4 DEF cleanup, wakeWaiting, readLoopFrame, history, clientVars,
         clientConn, serverVars, frames
    <2> QED
      BY <2>1, OfferFrame DEF ProtocolInv
  <1>5. CASE refuse
    <2>1. UNCHANGED <<foreign, offered, up, request, wanted>>
      BY <1>5 DEF refuse, Goto, connectFrame, history, clientVars, clientConn,
         serverVars, frames
    <2> QED
      BY <2>1, OfferFrame DEF ProtocolInv
  <1>6. CASE roundTrip
    <2>1. UNCHANGED <<foreign, offered, up, request, wanted>>
      BY <1>6 DEF roundTrip, Goto, connectFrame, history, clientVars,
         clientConn, serverVars, frames
    <2> QED
      BY <2>1, OfferFrame DEF ProtocolInv
  <1>7. CASE awaitSettings
    <2>1. UNCHANGED <<foreign, offered, up, request, wanted>>
      BY <1>7 DEF awaitSettings, Goto, connectFrame, history, clientVars,
         clientConn, serverVars, frames
    <2> QED
      BY <2>1, OfferFrame DEF ProtocolInv
  <1>8. CASE reserveStream
    <2>1. UNCHANGED <<foreign, offered, up, request, wanted>>
      BY <1>8 DEF reserveStream, Goto, afterReserve, connectFrame, history,
         clientVars, clientConn, serverVars, frames
    <2> QED
      BY <2>1, OfferFrame DEF ProtocolInv
  <1>9. CASE recordPeerWebTransportSettings
    <2>1. UNCHANGED <<foreign, offered, up, request, wanted>>
      BY <1>9 DEF recordPeerWebTransportSettings, Goto, connectFrame, history,
         clientVars, clientConn, serverVars, frames
    <2> QED
      BY <2>1, OfferFrame DEF ProtocolInv
  <1>10. CASE writeHeaders
    <2>1. UNCHANGED <<foreign, offered, request, wanted>>
      BY <1>10 DEF writeHeaders, connectFrame, serverVars
    <2>2. up' = up \/ up' = Append(up, ConnectRequest(TRUE, offered))
      BY <1>10 DEF writeHeaders, Send
    <2>3. offered \in Parsed
      BY Typed DEF TypeOK, Parsed
    <2>4. /\ ConnectRequest(TRUE, offered) \in ToServer
          /\ ConnectRequest(TRUE, offered).header = offered
      BY <2>3, Typed
    <2> QED
      BY <2>1, <2>2, <2>4, OfferFrame, OfferSent DEF ProtocolInv
  <1>11. CASE roundTripFails
    <2>1. UNCHANGED <<foreign, offered, up, request, wanted>>
      BY <1>11 DEF roundTripFails, Goto, connectFrame, history, clientVars,
         clientConn, serverVars, frames
    <2> QED
      BY <2>1, OfferFrame DEF ProtocolInv
  <1>12. CASE response
    <2>1. UNCHANGED <<foreign, offered, request, wanted>>
      BY <1>12 DEF response, connectFrame, serverVars
    <2>2. up' = up \/ up' = Append(up, End)
      BY <1>12 DEF response, closeStream, Send
    <2>3. End \in ToServer /\ ~IsConnect(End)
      BY Typed DEF IsConnect
    <2> QED
      BY <2>1, <2>2, <2>3, OfferFrame, OfferSent DEF ProtocolInv
  <1>13. CASE sendSettings
    <2>1. UNCHANGED <<foreign, offered, up, request, wanted>>
      BY <1>13, ServerSettingsSent DEF history, clientVars, clientConn,
         serverVars, frames
    <2> QED
      BY <2>1, OfferFrame DEF ProtocolInv
  <1>14. CASE serverReads
    <2>1. UNCHANGED <<foreign, offered, wanted>> /\ up # <<>> /\ up' = Tail(up)
      BY <1>14, ServerReadsCases DEF clientVars
    <2> DEFINE L == Len(up)
    <2>2. /\ L \in Nat \ {0} /\ Head(up) = up[1] /\ Len(up') = L - 1
          /\ \A i \in 1..L - 1 : up'[i] = up[i + 1]
      BY <2>1, TailAt DEF TypeOK
    <2>3. foreign # "client" => \A i \in 1..L : IsConnect(up[i]) => up[i].header = offered
      BY DEF ProtocolInv, OfferInv
    <2>4. CASE IsConnect(Head(up))
      <3>1. request' = newWriterAndRequest(Head(up))
        BY <1>14, <2>4, ServerReadsCases DEF IsConnect, IsSettings
      <3>2. request'.header = up[1].header
        BY <2>2, <3>1 DEF newWriterAndRequest, TypeOK
      <3> HIDE DEF L
      <3>3. foreign # "client" =>
               /\ \A i \in 1..Len(up') : IsConnect(up'[i]) => up'[i].header = offered
               /\ request'.header = offered
        BY <2>2, <2>3, <2>4, <3>2
      <3> QED
        BY <2>1, <3>3 DEF ProtocolInv, OfferInv
    <2>5. CASE ~IsConnect(Head(up))
      <3>1. request'.state = request.state /\ request'.header = request.header
        BY <1>14, <2>5, ServerReadsCases DEF TypeOK
      <3> HIDE DEF L
      <3>2. foreign # "client" =>
               \A i \in 1..Len(up') : IsConnect(up'[i]) => up'[i].header = offered
        BY <2>2, <2>3
      <3> QED
        BY <2>1, <3>1, <3>2 DEF ProtocolInv, OfferInv
    <2> QED
      BY <2>4, <2>5
  <1>15. CASE Upgrade
    <2>1. /\ foreign # "server" /\ request.state = "pending"
          /\ request' = [request EXCEPT !.state = "answered"]
          /\ UNCHANGED <<foreign, offered, up>>
      BY <1>15, UpgradeCases DEF clientVars
    <2>2. request'.header = request.header
      BY <2>1 DEF TypeOK
    <2> QED
      BY <2>1, <2>2 DEF ProtocolInv, OfferInv
  <1>16. CASE sessionEnds
    <2>1. UNCHANGED <<foreign, offered, up, request, wanted>>
      BY <1>16 DEF sessionEnds, serverFrame, history, clientVars, clientConn,
         serverVars, frames
    <2> QED
      BY <2>1, OfferFrame DEF ProtocolInv
  <1>17. CASE serverSeesLoss
    <2>1. /\ request' = [request EXCEPT !.ended = TRUE]
          /\ UNCHANGED <<foreign, offered, up, wanted>>
      BY <1>17 DEF serverSeesLoss, serverFrame, clientVars
    <2>2. request'.state = request.state /\ request'.header = request.header
      BY <2>1 DEF TypeOK
    <2> QED
      BY <2>1, <2>2 DEF ProtocolInv, OfferInv
  <1>18. CASE foreignServerSettings
    <2>1. UNCHANGED <<foreign, offered, up, request, wanted>>
      BY <1>18, ServerSettingsSent DEF history, clientVars, clientConn,
         serverVars, frames
    <2> QED
      BY <2>1, OfferFrame DEF ProtocolInv
  <1>19. CASE foreignAnswer
    <2>1. /\ request.state = "pending" /\ request' = [request EXCEPT !.state = "answered"]
          /\ UNCHANGED <<foreign, offered, up, wanted>>
      BY <1>19 DEF foreignAnswer, serverFrame, clientVars
    <2>2. request'.header = request.header
      BY <2>1 DEF TypeOK
    <2> QED
      BY <2>1, <2>2 DEF ProtocolInv, OfferInv
  <1>20. CASE foreignClientSettings
    <2>1. foreign = "client" /\ foreign' = "client"
      BY <1>20, ClientSettingsSent
    <2> QED
      BY <2>1 DEF OfferInv
  <1>21. CASE foreignRequest
    <2>1. foreign = "client" /\ foreign' = "client"
      BY <1>21 DEF foreignRequest, foreignClientFrame
    <2> QED
      BY <2>1 DEF OfferInv
  <1>22. CASE foreignEnd
    <2>1. foreign = "client" /\ foreign' = "client"
      BY <1>22 DEF foreignEnd, foreignClientFrame
    <2> QED
      BY <2>1 DEF OfferInv
  <1>23. CASE connectionLost
    <2>1. up' = <<>> /\ UNCHANGED <<foreign, offered, request, wanted>>
      BY <1>23 DEF connectionLost, clientVars, serverVars
    <2>2. Len(up') = 0
      BY <2>1
    <2> QED
      BY <2>1, <2>2 DEF ProtocolInv, OfferInv
  <1>24. CASE UNCHANGED vars
    BY <1>24, OfferFrame DEF ProtocolInv, vars, history, clientVars, clientConn, serverVars, frames
  <1> QED
    BY NextCases, <1>1, <1>2, <1>3, <1>4, <1>5, <1>6, <1>7, <1>8, <1>9, <1>10,
       <1>11, <1>12, <1>13, <1>14, <1>15, <1>16, <1>17, <1>18, <1>19, <1>20,
       <1>21, <1>22, <1>23, <1>24

LEMMA AnswerFrame ==
    ASSUME AnswerInv, UNCHANGED <<foreign, down, serverSession, offered>>
    PROVE  AnswerInv'
  BY DEF AnswerInv

(* The wire loses messages from the front, or all but the first.           *)
LEMMA AnswerTaken ==
    ASSUME TypeOK, AnswerInv, down # <<>>, down' = Tail(down),
           UNCHANGED <<foreign, serverSession, offered>>
    PROVE  AnswerInv'
  <1> DEFINE L == Len(down)
             Q(m) == /\ serverSession.state # "none"
                     /\ m.header = encodeSelectedProtocolHeader(serverSession.protocol)
  <1>1. /\ L \in Nat \ {0} /\ Len(down') = L - 1
        /\ \A i \in 1..L - 1 : down'[i] = down[i + 1]
    BY TailAt DEF TypeOK
  <1>2. foreign = "none" => \A i \in 1..L : IsConsent(down[i]) => Q(down[i])
    BY DEF AnswerInv
  <1> HIDE DEF L, Q
  <1>3. foreign = "none" => \A i \in 1..Len(down') : IsConsent(down'[i]) => Q(down'[i])
    BY <1>1, <1>2
  <1> QED
    BY <1>3 DEF AnswerInv, Q

LEMMA AnswerLost ==
    ASSUME TypeOK, AnswerInv, down' = <<>> \/ (down # <<>> /\ down' = <<Head(down)>>),
           UNCHANGED <<foreign, serverSession, offered>>
    PROVE  AnswerInv'
  <1>1. CASE down' = <<>>
    <2>1. Len(down') = 0
      BY <1>1
    <2> QED
      BY <2>1 DEF AnswerInv
  <1>2. CASE down # <<>> /\ down' = <<Head(down)>>
    <2>1. Len(down) \in Nat \ {0} /\ Head(down) = down[1]
      BY <1>2, TailAt DEF TypeOK
    <2>2. Len(down') = 1 /\ down'[1] = down[1]
      BY <1>2, <2>1
    <2> QED
      BY <2>1, <2>2 DEF AnswerInv
  <1> QED
    BY <1>1, <1>2

(* Something else is sent behind the answer.                               *)
LEMMA AnswerOther ==
    ASSUME TypeOK, AnswerInv, NEW m \in ToClient, ~IsConsent(m),
           down' = down \/ down' = Append(down, m),
           UNCHANGED <<foreign, serverSession, offered>>
    PROVE  AnswerInv'
  <1> DEFINE L == Len(down)
             Q(x) == /\ serverSession.state # "none"
                     /\ x.header = encodeSelectedProtocolHeader(serverSession.protocol)
  <1>1. CASE down' = down
    BY <1>1, AnswerFrame
  <1>2. CASE down' = Append(down, m)
    <2>1. /\ L \in Nat /\ Len(down') = L + 1
          /\ \A i \in 1..L : down'[i] = down[i]
          /\ down'[L + 1] = m
      BY <1>2, AppendAt DEF TypeOK
    <2>2. foreign = "none" => \A i \in 1..L : IsConsent(down[i]) => Q(down[i])
      BY DEF AnswerInv
    <2> HIDE DEF L, Q
    <2>3. foreign = "none" => \A i \in 1..Len(down') : IsConsent(down'[i]) => Q(down'[i])
      BY <2>1, <2>2
    <2> QED
      BY <2>3 DEF AnswerInv, Q
  <1> QED
    BY <1>1, <1>2

(* The server consents once, to what was offered.                          *)
LEMMA AnswerGiven ==
    ASSUME TypeOK, AnswerInv, serverSession.state = "none",
           NEW m \in ToClient, m.header = encodeSelectedProtocolHeader(serverSession'.protocol),
           down' = down \/ down' = Append(down, m),
           serverSession'.state # "none",
           foreign = "none" => serverSession'.protocol \in Range(offered) \cup {NoProtocol},
           UNCHANGED <<foreign, offered>>
    PROVE  AnswerInv'
  <1> DEFINE L == Len(down)
  <1>1. L \in Nat
    BY LenProperties DEF TypeOK
  <1>2. \/ Len(down') = L /\ \A i \in 1..L : down'[i] = down[i]
        \/ /\ Len(down') = L + 1 /\ down'[L + 1] = m
           /\ \A i \in 1..L : down'[i] = down[i]
    <2>1. down \in Seq(ToClient)
      BY DEF TypeOK
    <2>2. CASE down' = down
      BY <2>2
    <2>3. CASE down' = Append(down, m)
      BY <2>1, <2>3, AppendAt
    <2> QED
      BY <2>2, <2>3
  <1>3. foreign = "none" => \A i \in 1..L : ~IsConsent(down[i])
    BY DEF AnswerInv
  <1> HIDE DEF L
  <1>4. foreign = "none" => \A i \in 1..Len(down') : IsConsent(down'[i]) => down'[i] = m
    BY <1>1, <1>2, <1>3
  <1> QED
    BY <1>4 DEF AnswerInv

(* What Upgrade accepts was offered, and what the application wants it     *)
(* gets.                                                                   *)
LEMMA AcceptsOffered ==
    ASSUME TypeOK, NEW policy \in Policies, accepts(policy), NEW protocol,
           protocol = SelectProtocol(policy, parseAvailableProtocolsHeader(request.header))
    PROVE  /\ protocol \in Range(request.header) \cup {NoProtocol}
           /\ policy.kind = "wants" /\ policy.name \in Range(request.header) =>
                 protocol = policy.name
  <1> DEFINE available == parseAvailableProtocolsHeader(request.header)
  <1>1. CASE policy.kind = "nil"
    <2>1. policy.name = NoProtocol
      BY <1>1 DEF Policies
    <2> QED
      BY <1>1, <2>1 DEF SelectProtocol
  <1>2. CASE policy.kind # "nil"
    <2>1. request.header # Malformed /\ mustBeOffered(protocol, available)
      BY <1>2 DEF accepts
    <2>2. request.header \in Seq(Names)
      BY <2>1 DEF TypeOK, Parsed
    <2>3. /\ Range(available) \subseteq Range(request.header) \cup {NoProtocol}
          /\ Range(request.header) \subseteq Range(available)
      BY <2>2, Available
    <2>4. protocol = SelectProtocol(policy, available)
      OBVIOUS
    <2> HIDE DEF available
    <2> QED
      BY <2>1, <2>3, <2>4 DEF mustBeOffered, SelectProtocol
  <1> QED
    BY <1>1, <1>2

(* The server's answer is its protocol.                                    *)
LEMMA AnswerKept ==
    ASSUME TypeOK, ConnInv, CallInv, ServerInv, ProtocolInv, [Next]_vars
    PROVE  AnswerInv'
  <1>1. CASE processSettings
    <2>1. UNCHANGED <<foreign, down, serverSession, offered>>
      BY <1>1 DEF processSettings, readLoopFrame, history, clientVars,
         clientConn, serverVars, frames
    <2> QED
      BY <2>1, AnswerFrame DEF ProtocolInv
  <1>2. CASE applySetting
    <2>1. UNCHANGED <<foreign, down, serverSession, offered>>
      BY <1>2 DEF applySetting, readLoopFrame, history, clientVars, clientConn,
         serverVars, frames
    <2> QED
      BY <2>1, AnswerFrame DEF ProtocolInv
  <1>3. CASE settingsDone
    <2>1. /\ applying.n > 0 /\ down' = Tail(down)
          /\ UNCHANGED <<foreign, serverSession, offered>>
      BY <1>3 DEF settingsDone, readLoopFrame, clientVars, serverVars
    <2>2. down # <<>>
      BY <2>1 DEF ConnInv, Busy, TypeOK
    <2> QED
      BY <2>1, <2>2, AnswerTaken DEF ProtocolInv
  <1>4. CASE cleanup
    <2>1. UNCHANGED <<foreign, down, serverSession, offered>>
      BY <1>4 DEF cleanup, wakeWaiting, readLoopFrame, history, clientVars,
         clientConn, serverVars, frames
    <2> QED
      BY <2>1, AnswerFrame DEF ProtocolInv
  <1>5. CASE refuse
    <2>1. UNCHANGED <<foreign, down, serverSession, offered>>
      BY <1>5 DEF refuse, Goto, connectFrame, history, clientVars, clientConn,
         serverVars, frames
    <2> QED
      BY <2>1, AnswerFrame DEF ProtocolInv
  <1>6. CASE roundTrip
    <2>1. UNCHANGED <<foreign, down, serverSession, offered>>
      BY <1>6 DEF roundTrip, Goto, connectFrame, history, clientVars,
         clientConn, serverVars, frames
    <2> QED
      BY <2>1, AnswerFrame DEF ProtocolInv
  <1>7. CASE awaitSettings
    <2>1. UNCHANGED <<foreign, down, serverSession, offered>>
      BY <1>7 DEF awaitSettings, Goto, connectFrame, history, clientVars,
         clientConn, serverVars, frames
    <2> QED
      BY <2>1, AnswerFrame DEF ProtocolInv
  <1>8. CASE reserveStream
    <2>1. UNCHANGED <<foreign, down, serverSession, offered>>
      BY <1>8 DEF reserveStream, Goto, afterReserve, connectFrame, history,
         clientVars, clientConn, serverVars, frames
    <2> QED
      BY <2>1, AnswerFrame DEF ProtocolInv
  <1>9. CASE recordPeerWebTransportSettings
    <2>1. UNCHANGED <<foreign, down, serverSession, offered>>
      BY <1>9 DEF recordPeerWebTransportSettings, Goto, connectFrame, history,
         clientVars, clientConn, serverVars, frames
    <2> QED
      BY <2>1, AnswerFrame DEF ProtocolInv
  <1>10. CASE writeHeaders
    <2>1. UNCHANGED <<foreign, down, serverSession, offered>>
      BY <1>10 DEF writeHeaders, Goto, Send, connectFrame, history, clientVars,
         clientConn, serverVars, frames
    <2> QED
      BY <2>1, AnswerFrame DEF ProtocolInv
  <1>11. CASE roundTripFails
    <2>1. UNCHANGED <<foreign, down, serverSession, offered>>
      BY <1>11 DEF roundTripFails, Goto, connectFrame, history, clientVars,
         clientConn, serverVars, frames
    <2> QED
      BY <2>1, AnswerFrame DEF ProtocolInv
  <1>12. CASE response
    <2>1. /\ down # <<>> /\ down' = Tail(down)
          /\ UNCHANGED <<foreign, serverSession, offered>>
      BY <1>12 DEF response, connectFrame, serverVars
    <2> QED
      BY <2>1, AnswerTaken DEF ProtocolInv
  <1>13. CASE sendSettings
    <2>1. UNCHANGED <<foreign, serverSession, offered>>
      BY <1>13, ServerSettingsSent DEF clientVars, serverVars
    <2>2. PICK m \in SettingsFrames : down' = Append(down, m)
      BY <1>13, ServerSettingsSent
    <2>3. m \in ToClient /\ ~IsConsent(m)
      BY <2>2, Typed, MessageKinds DEF IsSettings, IsConsent
    <2> QED
      BY <2>1, <2>2, <2>3, AnswerOther DEF ProtocolInv
  <1>14. CASE serverReads
    <2>1. UNCHANGED <<foreign, down, serverSession, offered>>
      BY <1>14, ServerReadsCases DEF history, clientVars, clientConn,
         serverVars, frames
    <2> QED
      BY <2>1, AnswerFrame DEF ProtocolInv
  <1>15. CASE Upgrade
    <2>1. request.state = "pending" /\ UNCHANGED <<foreign, offered>>
      BY <1>15, UpgradeCases DEF clientVars
    <2>2. serverSession.state = "none"
      BY <2>1 DEF ServerInv, RequestInv
    <2>3. PICK policy \in Policies, protocol \in Names \cup {NoProtocol} :
             /\ protocol = SelectProtocol(policy,
                                          parseAvailableProtocolsHeader(request.header))
             /\ \/ /\ accepts(policy)
                   /\ serverSession' = Session("open", request.settings, protocol)
                   /\ down' = Send(down, Response(TRUE, encodeSelectedProtocolHeader(protocol)))
                \/ /\ UNCHANGED serverSession
                   /\ down' = Send(down, Response(FALSE, <<>>))
      BY <1>15, UpgradeCases
    <2>4. CASE UNCHANGED serverSession /\ down' = Send(down, Response(FALSE, <<>>))
      <3>1. Response(FALSE, <<>>) \in ToClient /\ ~IsConsent(Response(FALSE, <<>>))
        BY Typed DEF IsConsent
      <3>2. down' = down \/ down' = Append(down, Response(FALSE, <<>>))
        BY <2>4 DEF Send
      <3> QED
        BY <2>1, <2>4, <3>1, <3>2, AnswerOther DEF ProtocolInv
    <2>5. CASE /\ accepts(policy)
               /\ serverSession' = Session("open", request.settings, protocol)
               /\ down' = Send(down, Response(TRUE, encodeSelectedProtocolHeader(protocol)))
      <3> DEFINE m == Response(TRUE, encodeSelectedProtocolHeader(protocol))
      <3>1. encodeSelectedProtocolHeader(protocol) \in Parsed
        BY AnswerTyped
      <3>2. m \in ToClient /\ m.header = encodeSelectedProtocolHeader(protocol)
        BY <3>1, Typed
      <3>3. down' = down \/ down' = Append(down, m)
        BY <2>5 DEF Send
      <3>4. serverSession'.state = "open" /\ serverSession'.protocol = protocol
        BY <2>5 DEF Session
      <3>5. protocol \in Range(request.header) \cup {NoProtocol}
        BY <2>3, <2>5, AcceptsOffered
      <3>6. foreign = "none" => request.header = offered
        BY <2>1 DEF ProtocolInv, OfferInv
      <3> HIDE DEF m
      <3>7. foreign = "none" => serverSession'.protocol \in Range(offered) \cup {NoProtocol}
        BY <3>4, <3>5, <3>6
      <3> QED
        BY <2>1, <2>2, <3>2, <3>3, <3>4, <3>7, AnswerGiven DEF ProtocolInv
    <2> QED
      BY <2>3, <2>4, <2>5
  <1>16. CASE sessionEnds
    <2>1. /\ serverSession.state = "open"
          /\ serverSession' = [serverSession EXCEPT !.state = "ended"]
          /\ UNCHANGED <<foreign, down, offered>>
      BY <1>16 DEF sessionEnds, serverFrame, clientVars
    <2>2. serverSession'.state = "ended" /\ serverSession'.protocol = serverSession.protocol
      BY <2>1 DEF TypeOK
    <2> QED
      BY <2>1, <2>2 DEF ProtocolInv, AnswerInv
  <1>17. CASE serverSeesLoss
    <2>1. UNCHANGED <<foreign, down, serverSession, offered>>
      BY <1>17 DEF serverSeesLoss, serverFrame, history, clientVars, clientConn,
         serverVars, frames
    <2> QED
      BY <2>1, AnswerFrame DEF ProtocolInv
  <1>18. CASE foreignServerSettings
    <2>1. UNCHANGED <<foreign, serverSession, offered>>
      BY <1>18, ServerSettingsSent DEF clientVars, serverVars
    <2>2. PICK m \in SettingsFrames : down' = Append(down, m)
      BY <1>18, ServerSettingsSent
    <2>3. m \in ToClient /\ ~IsConsent(m)
      BY <2>2, Typed, MessageKinds DEF IsSettings, IsConsent
    <2> QED
      BY <2>1, <2>2, <2>3, AnswerOther DEF ProtocolInv
  <1>19. CASE foreignAnswer
    <2>1. foreign = "server" /\ foreign' = "server"
      BY <1>19 DEF foreignAnswer, serverFrame
    <2> QED
      BY <2>1 DEF AnswerInv
  <1>20. CASE foreignClientSettings
    <2>1. UNCHANGED <<foreign, down, serverSession, offered>>
      BY <1>20, ClientSettingsSent DEF history, clientVars, clientConn,
         serverVars, frames
    <2> QED
      BY <2>1, AnswerFrame DEF ProtocolInv
  <1>21. CASE foreignRequest
    <2>1. UNCHANGED <<foreign, down, serverSession, offered>>
      BY <1>21 DEF foreignRequest, foreignClientFrame, history, clientVars,
         clientConn, serverVars, frames
    <2> QED
      BY <2>1, AnswerFrame DEF ProtocolInv
  <1>22. CASE foreignEnd
    <2>1. UNCHANGED <<foreign, down, serverSession, offered>>
      BY <1>22 DEF foreignEnd, foreignClientFrame, history, clientVars,
         clientConn, serverVars, frames
    <2> QED
      BY <2>1, AnswerFrame DEF ProtocolInv
  <1>23. CASE connectionLost
    <2>1. /\ down' = IF applying.n = 0 THEN <<>> ELSE <<Head(down)>>
          /\ UNCHANGED <<foreign, serverSession, offered>>
      BY <1>23 DEF connectionLost, clientVars, serverVars
    <2>2. applying.n # 0 => down # <<>>
      BY DEF ConnInv, Busy
    <2> QED
      BY <2>1, <2>2, AnswerLost DEF ProtocolInv
  <1>24. CASE UNCHANGED vars
    BY <1>24, AnswerFrame DEF ProtocolInv, vars, history, clientVars, clientConn, serverVars, frames
  <1> QED
    BY NextCases, <1>1, <1>2, <1>3, <1>4, <1>5, <1>6, <1>7, <1>8, <1>9, <1>10,
       <1>11, <1>12, <1>13, <1>14, <1>15, <1>16, <1>17, <1>18, <1>19, <1>20,
       <1>21, <1>22, <1>23, <1>24

LEMMA AgreedFrame ==
    ASSUME ProtocolAgreed,
           UNCHANGED <<foreign, clientSession, serverSession, wanted, request, offered>>
    PROVE  ProtocolAgreed'
  BY DEF ProtocolAgreed

(* The request's header, once there is a session, and the protocol stay.   *)
LEMMA AgreedSame ==
    ASSUME ProtocolAgreed,
           UNCHANGED <<foreign, clientSession, wanted, offered>>,
           serverSession'.state # "none" <=> serverSession.state # "none",
           serverSession'.protocol = serverSession.protocol,
           serverSession.state # "none" => request'.header = request.header
    PROVE  ProtocolAgreed'
  BY DEF ProtocolAgreed

(* The two ends agree.                                                     *)
LEMMA AgreedKept ==
    ASSUME TypeOK, ConnInv, CallInv, ServerInv, ProtocolInv, [Next]_vars
    PROVE  ProtocolAgreed'
  <1>1. CASE processSettings
    <2>1. UNCHANGED <<foreign, clientSession, serverSession, wanted, request, offered>>
      BY <1>1 DEF processSettings, readLoopFrame, history, clientVars,
         clientConn, serverVars, frames
    <2> QED
      BY <2>1, AgreedFrame DEF ProtocolInv
  <1>2. CASE applySetting
    <2>1. UNCHANGED <<foreign, clientSession, serverSession, wanted, request, offered>>
      BY <1>2 DEF applySetting, readLoopFrame, history, clientVars, clientConn,
         serverVars, frames
    <2> QED
      BY <2>1, AgreedFrame DEF ProtocolInv
  <1>3. CASE settingsDone
    <2>1. UNCHANGED <<foreign, clientSession, serverSession, wanted, request, offered>>
      BY <1>3 DEF settingsDone, allowedAfter, readLoopFrame, history,
         clientVars, clientConn, serverVars, frames
    <2> QED
      BY <2>1, AgreedFrame DEF ProtocolInv
  <1>4. CASE cleanup
    <2>1. UNCHANGED <<foreign, clientSession, serverSession, wanted, request, offered>>
      BY <1>4 DEF cleanup, wakeWaiting, readLoopFrame, history, clientVars,
         clientConn, serverVars, frames
    <2> QED
      BY <2>1, AgreedFrame DEF ProtocolInv
  <1>5. CASE refuse
    <2>1. UNCHANGED <<foreign, clientSession, serverSession, wanted, request, offered>>
      BY <1>5 DEF refuse, Goto, connectFrame, history, clientVars, clientConn,
         serverVars, frames
    <2> QED
      BY <2>1, AgreedFrame DEF ProtocolInv
  <1>6. CASE roundTrip
    <2>1. UNCHANGED <<foreign, clientSession, serverSession, wanted, request, offered>>
      BY <1>6 DEF roundTrip, Goto, connectFrame, history, clientVars,
         clientConn, serverVars, frames
    <2> QED
      BY <2>1, AgreedFrame DEF ProtocolInv
  <1>7. CASE awaitSettings
    <2>1. UNCHANGED <<foreign, clientSession, serverSession, wanted, request, offered>>
      BY <1>7 DEF awaitSettings, Goto, connectFrame, history, clientVars,
         clientConn, serverVars, frames
    <2> QED
      BY <2>1, AgreedFrame DEF ProtocolInv
  <1>8. CASE reserveStream
    <2>1. UNCHANGED <<foreign, clientSession, serverSession, wanted, request, offered>>
      BY <1>8 DEF reserveStream, Goto, afterReserve, connectFrame, history,
         clientVars, clientConn, serverVars, frames
    <2> QED
      BY <2>1, AgreedFrame DEF ProtocolInv
  <1>9. CASE recordPeerWebTransportSettings
    <2>1. UNCHANGED <<foreign, clientSession, serverSession, wanted, request, offered>>
      BY <1>9 DEF recordPeerWebTransportSettings, Goto, connectFrame, history,
         clientVars, clientConn, serverVars, frames
    <2> QED
      BY <2>1, AgreedFrame DEF ProtocolInv
  <1>10. CASE writeHeaders
    <2>1. UNCHANGED <<foreign, clientSession, serverSession, wanted, request, offered>>
      BY <1>10 DEF writeHeaders, Goto, Send, connectFrame, history, clientVars,
         clientConn, serverVars, frames
    <2> QED
      BY <2>1, AgreedFrame DEF ProtocolInv
  <1>11. CASE roundTripFails
    <2>1. UNCHANGED <<foreign, clientSession, serverSession, wanted, request, offered>>
      BY <1>11 DEF roundTripFails, Goto, connectFrame, history, clientVars,
         clientConn, serverVars, frames
    <2> QED
      BY <2>1, AgreedFrame DEF ProtocolInv
  <1>12. CASE response
    <2>1. UNCHANGED <<foreign, serverSession, wanted, request, offered>> /\ down # <<>>
      BY <1>12 DEF response, connectFrame, serverVars
    <2>2. \/ UNCHANGED clientSession
          \/ /\ IsConsent(Head(down))
             /\ clientSession' = Session("open", peerSettings,
                                         parseSelectedProtocolHeader(Head(down).header))
      BY <1>12 DEF response, IsConsent
    <2>3. CASE UNCHANGED clientSession
      BY <2>1, <2>3, AgreedFrame DEF ProtocolInv
    <2>4. CASE /\ IsConsent(Head(down))
               /\ clientSession' = Session("open", peerSettings,
                                           parseSelectedProtocolHeader(Head(down).header))
      <3>1. Len(down) \in Nat \ {0} /\ Head(down) = down[1]
        BY <2>1, TailAt DEF TypeOK
      <3>2. foreign = "none" =>
               /\ serverSession.state # "none"
               /\ Head(down).header = encodeSelectedProtocolHeader(serverSession.protocol)
               /\ serverSession.protocol \in Range(offered) \cup {NoProtocol}
        BY <2>4, <3>1 DEF ProtocolInv, AnswerInv
      <3>3. clientSession'.protocol = parseSelectedProtocolHeader(Head(down).header)
        BY <2>4 DEF Session
      <3>4. foreign = "none" => clientSession'.protocol = serverSession.protocol
        BY <3>2, <3>3, AnswerRead
      <3> QED
        BY <2>1, <3>2, <3>4 DEF ProtocolInv, ProtocolAgreed
    <2> QED
      BY <2>2, <2>3, <2>4
  <1>13. CASE sendSettings
    <2>1. UNCHANGED <<foreign, clientSession, serverSession, wanted, request, offered>>
      BY <1>13, ServerSettingsSent DEF history, clientVars, clientConn,
         serverVars, frames
    <2> QED
      BY <2>1, AgreedFrame DEF ProtocolInv
  <1>14. CASE serverReads
    <2>1. UNCHANGED <<foreign, clientSession, serverSession, wanted, offered>>
      BY <1>14, ServerReadsCases DEF clientVars
    <2>2. serverSession.state # "none" => request'.header = request.header
      <3>1. CASE IsConnect(Head(up))
        <4>1. ~NoConnect
          BY <1>14, <3>1, UpReads DEF ServerInv
        <4> QED
          BY <4>1 DEF ServerInv, RequestInv
      <3>2. CASE ~IsConnect(Head(up))
        BY <1>14, <3>2, ServerReadsCases DEF TypeOK
      <3> QED
        BY <3>1, <3>2
    <2> QED
      BY <2>1, <2>2, AgreedSame DEF ProtocolInv
  <1>15. CASE Upgrade
    <2>1. /\ request.state = "pending"
          /\ request' = [request EXCEPT !.state = "answered"]
          /\ UNCHANGED <<foreign, clientSession, offered>>
      BY <1>15, UpgradeCases DEF clientVars
    <2>2. serverSession.state = "none" /\ request'.header = request.header
      BY <2>1 DEF ServerInv, RequestInv, TypeOK
    <2>3. ~(foreign = "none" /\ clientSession.state = "open")
      BY <2>2 DEF ProtocolInv, ProtocolAgreed
    <2>4. PICK policy \in Policies, protocol \in Names \cup {NoProtocol} :
             /\ wanted' = policy
             /\ protocol = SelectProtocol(policy,
                                          parseAvailableProtocolsHeader(request.header))
             /\ \/ /\ accepts(policy)
                   /\ serverSession' = Session("open", request.settings, protocol)
                \/ UNCHANGED serverSession
      BY <1>15, UpgradeCases
    <2>5. CASE UNCHANGED serverSession
      BY <2>1, <2>2, <2>3, <2>5 DEF ProtocolAgreed
    <2>6. CASE accepts(policy) /\ serverSession' = Session("open", request.settings, protocol)
      <3>1. serverSession'.protocol = protocol
        BY <2>6 DEF Session
      <3>2. policy.kind = "wants" /\ policy.name \in Range(request.header) =>
               protocol = policy.name
        BY <2>4, <2>6, AcceptsOffered
      <3> QED
        BY <2>1, <2>2, <2>3, <2>4, <3>1, <3>2 DEF ProtocolAgreed
    <2> QED
      BY <2>4, <2>5, <2>6
  <1>16. CASE sessionEnds
    <2>1. /\ serverSession.state = "open"
          /\ serverSession' = [serverSession EXCEPT !.state = "ended"]
          /\ UNCHANGED <<foreign, clientSession, wanted, offered, request>>
      BY <1>16 DEF sessionEnds, serverFrame, clientVars
    <2>2. serverSession'.state = "ended" /\ serverSession'.protocol = serverSession.protocol
      BY <2>1 DEF TypeOK
    <2> QED
      BY <2>1, <2>2, AgreedSame DEF ProtocolInv
  <1>17. CASE serverSeesLoss
    <2>1. /\ request' = [request EXCEPT !.ended = TRUE]
          /\ UNCHANGED <<foreign, clientSession, wanted, offered, serverSession>>
      BY <1>17 DEF serverSeesLoss, serverFrame, clientVars
    <2>2. request'.header = request.header
      BY <2>1 DEF TypeOK
    <2> QED
      BY <2>1, <2>2, AgreedSame DEF ProtocolInv
  <1>18. CASE foreignServerSettings
    <2>1. UNCHANGED <<foreign, clientSession, serverSession, wanted, request, offered>>
      BY <1>18, ServerSettingsSent DEF history, clientVars, clientConn,
         serverVars, frames
    <2> QED
      BY <2>1, AgreedFrame DEF ProtocolInv
  <1>19. CASE foreignAnswer
    <2>1. foreign = "server" /\ UNCHANGED <<foreign, wanted>>
      BY <1>19 DEF foreignAnswer, serverFrame
    <2>2. wanted.kind = "none"
      BY <2>1 DEF ProtocolInv, OfferInv
    <2> QED
      BY <2>1, <2>2 DEF ProtocolAgreed
  <1>20. CASE foreignClientSettings
    <2>1. UNCHANGED <<foreign, clientSession, serverSession, wanted, request, offered>>
      BY <1>20, ClientSettingsSent DEF history, clientVars, clientConn,
         serverVars, frames
    <2> QED
      BY <2>1, AgreedFrame DEF ProtocolInv
  <1>21. CASE foreignRequest
    <2>1. UNCHANGED <<foreign, clientSession, serverSession, wanted, request, offered>>
      BY <1>21 DEF foreignRequest, foreignClientFrame, history, clientVars,
         clientConn, serverVars, frames
    <2> QED
      BY <2>1, AgreedFrame DEF ProtocolInv
  <1>22. CASE foreignEnd
    <2>1. UNCHANGED <<foreign, clientSession, serverSession, wanted, request, offered>>
      BY <1>22 DEF foreignEnd, foreignClientFrame, history, clientVars,
         clientConn, serverVars, frames
    <2> QED
      BY <2>1, AgreedFrame DEF ProtocolInv
  <1>23. CASE connectionLost
    <2>1. UNCHANGED <<foreign, clientSession, serverSession, wanted, request, offered>>
      BY <1>23 DEF connectionLost, history, clientVars, clientConn, serverVars,
         frames
    <2> QED
      BY <2>1, AgreedFrame DEF ProtocolInv
  <1>24. CASE UNCHANGED vars
    BY <1>24, AgreedFrame DEF ProtocolInv, vars, history, clientVars, clientConn, serverVars, frames
  <1> QED
    BY NextCases, <1>1, <1>2, <1>3, <1>4, <1>5, <1>6, <1>7, <1>8, <1>9, <1>10,
       <1>11, <1>12, <1>13, <1>14, <1>15, <1>16, <1>17, <1>18, <1>19, <1>20,
       <1>21, <1>22, <1>23, <1>24

-----------------------------------------------------------------------------
(* The theorems.                                                           *)

LEMMA Initially ==
    ASSUME Init
    PROVE  HandshakeInv
  <1> DEFINE m == Setting(1, Fields, FALSE)
  <1>1. /\ m \in SettingsFrames /\ m.n = 1 /\ m.fields = Fields /\ IsSettings(m)
        /\ m \in ToServer /\ ~IsConnect(m)
    <2>1. m \in SettingsFrames /\ m.n = 1 /\ m.fields = Fields /\ m.kind = "settings"
      BY DEF Setting, SettingsFrames
    <2> QED
      BY <2>1, Typed DEF IsSettings, IsConnect
  <1>2. clientFrames = <<m>> /\ up = <<m>> /\ down = <<>> /\ serverFrames = <<>>
    BY DEF Init
  <1> HIDE DEF m
  <1>3. /\ clientFrames \in Seq(SettingsFrames) /\ serverFrames \in Seq(SettingsFrames)
        /\ up \in Seq(ToServer) /\ down \in Seq(ToClient)
        /\ Len(clientFrames) = 1 /\ Len(serverFrames) = 0 /\ Len(up) = 1 /\ Len(down) = 0
        /\ up[1] = m /\ clientFrames[1] = m
    BY <1>1, <1>2
  <1>4. Init /\ NoLimits \in Limits /\ <<>> \in Lists(Names) /\ <<>> \in Parsed
    <2>1. <<>> \in [1..0 -> Names] /\ 0 \in 0..MaxOffer
      BY HandshakeAssumption
    <2> QED
      BY <2>1, Typed DEF Lists
  <1>5. TypeClient
    BY <1>4 DEF Init, TypeClient, Session
  <1>6. TypeConn
    <2>1. /\ store = NoLimits /\ applying = [n |-> 0, left |-> {}] /\ acked = 0
          /\ allowed = FALSE /\ seen = FALSE /\ closed = FALSE /\ ackedAtConnect = 0
      BY DEF Init
    <2>2. 0 \in 0..Len(serverFrames)
      BY <1>3
    <2> QED
      BY <1>4, <2>1, <2>2 DEF TypeConn
  <1>7. TypeServer
    BY <1>4 DEF Init, TypeServer, Session
  <1>8. TypeWires
    <2>1. lost = FALSE /\ sentAtConnect = 0
      BY DEF Init
    <2>2. 0 \in 0..Len(clientFrames)
      BY <1>3
    <2> QED
      BY <1>3, <2>1, <2>2 DEF TypeWires
  <1>9. TypeOK
    BY <1>5, <1>6, <1>7, <1>8, TypeParts
  <1>10. ConnInv
    <2>1. /\ applying = [n |-> 0, left |-> {}] /\ acked = 0 /\ ~lost /\ ~seen
          /\ \A f \in Fields : store[f] = 0
      BY DEF Init, NoLimits
    <2>2. ~Busy /\ Applied = {} /\ applying.left = {}
      BY <2>1 DEF Busy, Applied
    <2>3. InTurn(down, serverFrames, acked)
      BY <1>3, <2>1 DEF InTurn
    <2>4. \A f \in Fields : After(serverFrames, acked, f, store[f])
      BY <2>1 DEF After
    <2> QED
      BY <2>1, <2>2, <2>3, <2>4 DEF ConnInv
  <1>11. CallInv
    <2>1. call \in {"none", "call"} /\ clientSession.state = "none"
      BY DEF Init, Session
    <2> QED
      BY <2>1 DEF CallInv
  <1>12. NoConnect
    BY <1>1, <1>3 DEF NoConnect
  <1>13. UpInv
    <2>1. ~lost /\ \A f \in Fields : serverStore[f] = 0
      BY DEF Init, NoLimits
    <2>2. InTurn(up, clientFrames, 0)
      BY <1>1, <1>3 DEF InTurn
    <2>3. \A f \in Fields : After(clientFrames, 0, f, serverStore[f])
      BY <2>1 DEF After
    <2>4. 0 \in 0..Len(clientFrames)
      BY <1>3
    <2> QED
      BY <1>12, <2>1, <2>2, <2>3, <2>4 DEF UpInv, NoConnect
  <1>14. RequestInv
    <2>1. /\ request.state = "none" /\ serverSession.state = "none"
          /\ foreign = "client" <=> call = "none"
      BY DEF Init, Session
    <2> QED
      BY <1>12, <2>1 DEF RequestInv
  <1>15. ProtocolInv
    <2>1. /\ request.state = "none" /\ serverSession.state = "none" /\ wanted.kind = "none"
          /\ clientSession.state = "none"
      BY DEF Init, Session
    <2>2. OfferInv
      BY <1>12, <2>1 DEF OfferInv, NoConnect
    <2>3. AnswerInv
      BY <1>3, <2>1 DEF AnswerInv
    <2>4. ProtocolAgreed
      BY <2>1 DEF ProtocolAgreed
    <2> QED
      BY <2>2, <2>3, <2>4 DEF ProtocolInv
  <1> QED
    BY <1>9, <1>10, <1>11, <1>13, <1>14, <1>15 DEF HandshakeInv, ServerInv

LEMMA Invariance == Spec => []HandshakeInv
  <1>1. Init => HandshakeInv
    BY Initially
  <1>2. HandshakeInv /\ [Next]_vars => HandshakeInv'
    <2> SUFFICES ASSUME TypeOK, ConnInv, CallInv, ServerInv, ProtocolInv, [Next]_vars
                 PROVE  HandshakeInv'
      BY DEF HandshakeInv
    <2>1. TypeOK' /\ ConnInv' /\ CallInv'
      BY TypeKept, ConnKept, CallKept
    <2>2. ServerInv'
      BY UpKept, RequestKept DEF ServerInv
    <2>3. ProtocolInv'
      BY OfferKept, AnswerKept, AgreedKept DEF ProtocolInv
    <2> QED
      BY <2>1, <2>2, <2>3 DEF HandshakeInv
  <1> QED
    BY <1>1, <1>2, PTL DEF Spec

(* Every variable keeps its type, whatever a foreign end sends: what is on *)
(* the wires can be parsed, the counters stay within the frames sent, and  *)
(* Connect has a snapshot before it writes (Connect, Upgrade).             *)
THEOREM TypeCorrect == Spec => []TypeOK
  <1>1. HandshakeInv => TypeOK
    BY DEF HandshakeInv
  <1> QED
    BY <1>1, Invariance, PTL

(* A client session starts from limits not older than the server's first   *)
(* SETTINGS and not newer than those acknowledged before its CONNECT,      *)
(* though recordPeerWebTransportSettings takes neither mu nor wmu.         *)
THEOREM SnapshotSound == Spec => []SnapshotInWindow
  <1>1. HandshakeInv => SnapshotInWindow
    <2> SUFFICES ASSUME TypeOK, CallInv, clientSession.state = "open"
                 PROVE  /\ serverFrames[1].enable
                        /\ \A f \in Fields :
                            /\ clientSession.limits[f] >= limitsAfter(serverFrames, 1)[f]
                            /\ clientSession.limits[f] <=
                                  limitsAfter(serverFrames, ackedAtConnect)[f]
      BY DEF HandshakeInv, SnapshotInWindow
    <2>1. call = "session"
      BY DEF TypeOK
    <2>2. /\ Consent /\ clientSession.limits = capture.limits
          /\ NotOlder(capture.limits) /\ NotNewer(capture.limits)
      BY <2>1 DEF CallInv
    <2>3. /\ ackedAtConnect \in Nat
          /\ \A f \in Fields : capture.limits[f] \in Nat
      BY LenProperties DEF TypeOK, Limits
    <2>4. ASSUME NEW f \in Fields
          PROVE  /\ capture.limits[f] >= limitsAfter(serverFrames, 1)[f]
                 /\ capture.limits[f] <= limitsAfter(serverFrames, ackedAtConnect)[f]
      <3> DEFINE first == IF f \in serverFrames[1].fields THEN 1 ELSE 0
      <3>1. After(serverFrames, 1, f, first)
        BY DEF After
      <3>2. limitsAfter(serverFrames, 1)[f] = first
        BY <3>1, AfterIsMax
      <3>3. capture.limits[f] >= first
        BY <2>2, <2>3 DEF NotOlder
      <3>4. PICK v \in 0..ackedAtConnect :
               After(serverFrames, ackedAtConnect, f, v) /\ capture.limits[f] <= v
        BY <2>2 DEF NotNewer
      <3>5. limitsAfter(serverFrames, ackedAtConnect)[f] = v
        BY <2>3, <3>4, AfterIsMax
      <3> QED
        BY <3>2, <3>3, <3>4, <3>5
    <2> QED
      BY <2>2, <2>4 DEF Consent
  <1> QED
    BY <1>1, Invariance, PTL

(* A server session's limits are the client's at its CONNECT, whole,       *)
(* however late the handler runs (newWriterAndRequest, Upgrade).           *)
THEOREM ServerLimitsSound == Spec => []ServerLimitsAtConnect
  <1>1. HandshakeInv => ServerLimitsAtConnect
    <2> SUFFICES ASSUME TypeOK, RequestInv, serverSession.state # "none"
                 PROVE  serverSession.limits = limitsAfter(clientFrames, sentAtConnect)
      BY DEF HandshakeInv, ServerInv, ServerLimitsAtConnect
    <2>1. /\ serverSession.limits = request.settings
          /\ \A f \in Fields : After(clientFrames, sentAtConnect, f, request.settings[f])
      BY DEF RequestInv
    <2>2. sentAtConnect \in Nat /\ serverSession.limits \in Limits
      BY LenProperties DEF TypeOK
    <2>3. \A f \in Fields :
             limitsAfter(clientFrames, sentAtConnect)[f] = serverSession.limits[f]
      BY <2>1, <2>2, AfterIsMax
    <2>4. DOMAIN limitsAfter(clientFrames, sentAtConnect) = Fields
      BY DEF limitsAfter
    <2>5. limitsAfter(clientFrames, sentAtConnect) =
             [f \in Fields |-> limitsAfter(clientFrames, sentAtConnect)[f]]
      BY DEF limitsAfter
    <2>6. serverSession.limits = [f \in Fields |-> serverSession.limits[f]]
      BY <2>2 DEF Limits
    <2> QED
      BY <2>3, <2>5, <2>6
  <1> QED
    BY <1>1, Invariance, PTL

(* Two ends of this package agree on the protocol, it was offered or is    *)
(* none, and what the application wants of the offer it gets (Connect,     *)
(* Upgrade).                                                               *)
THEOREM ProtocolSound == Spec => []ProtocolAgreed
  <1>1. HandshakeInv => ProtocolAgreed
    BY DEF HandshakeInv, ProtocolInv
  <1> QED
    BY <1>1, Invariance, PTL

=============================================================================
