--------------------------- MODULE MCSessionStreams ---------------------------
(* What SendStream sends: data, and a FIN without data.                    *)
EXTENDS SessionStreams

MCCapsules == {<<1, FALSE>>, <<0, TRUE>>}

=============================================================================
