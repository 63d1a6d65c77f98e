----------------------------- MODULE MCSendLimits -----------------------------
(* Small instances of SendLimits.                                          *)
EXTENDS SendLimits, TLC

CONSTANT SettingsChoice   \* which SETTINGS snapshot the run's peer sends

Snapshot(data, uni, bidi, sdUni, sdLocal, sdRemote) ==
    [maxData    |-> data,
     maxStreams |-> ("uni" :> uni @@ "bidi" :> bidi),
     streamData |-> ("uni" :> sdUni @@ "local" :> sdLocal @@ "remote" :> sdRemote)]

(* "credit": two bytes for the session and two for a stream we open, so    *)
(* two Writes of one or two bytes compete for either.  "streams": no uni   *)
(* stream before the peer raises the count, and the three per-stream       *)
(* values told apart.                                                      *)
MCPeerSettings ==
    CASE SettingsChoice = "credit"  -> {Snapshot(2, 1, 1, 1, 1, 2)}
      [] SettingsChoice = "streams" -> {Snapshot(1, 0, 1, 1, 2, 0)}

Symmetry == Permutations(Goroutines)

=============================================================================
