------------------------------- MODULE Credit -------------------------------
(***************************************************************************)
(* What the peer of a session is promised about flow control, seen from    *)
(* the capsules alone: grants only grow, and stream payload and opened     *)
(* streams stay within the grants known when they are spent.  A payload    *)
(* byte is charged to the session and to its stream at once.               *)
(***************************************************************************)
EXTENDS Integers

CONSTANTS Streams, Kinds

VARIABLES
    dataGrant, dataUsed,        \* payload bytes of the whole session
    streamGrant, streamUsed,    \* payload bytes of each stream
    openGrant, openUsed         \* streams of each kind

grants == <<dataGrant, streamGrant, openGrant>>
used   == <<dataUsed, streamUsed, openUsed>>

Init ==
    /\ dataGrant \in Nat
    /\ streamGrant \in [Streams -> Nat]
    /\ openGrant \in [Kinds -> Nat]
    /\ dataUsed = 0
    /\ streamUsed = [id \in Streams |-> 0]
    /\ openUsed = [k \in Kinds |-> 0]

Raise ==
    /\ dataGrant' >= dataGrant
    /\ \A id \in Streams : streamGrant'[id] >= streamGrant[id]
    /\ \A k \in Kinds : openGrant'[k] >= openGrant[k]
    /\ UNCHANGED used

Send(id) ==
    /\ dataUsed' > dataUsed
    /\ dataUsed' <= dataGrant
    /\ streamUsed' = [streamUsed EXCEPT ![id] = @ + (dataUsed' - dataUsed)]
    /\ streamUsed'[id] <= streamGrant[id]
    /\ UNCHANGED <<grants, openUsed>>

Open(k) ==
    /\ openUsed' = [openUsed EXCEPT ![k] = @ + 1]
    /\ openUsed'[k] <= openGrant[k]
    /\ UNCHANGED <<grants, dataUsed, streamUsed>>

Next == Raise \/ (\E id \in Streams : Send(id)) \/ (\E k \in Kinds : Open(k))

Spec == Init /\ [][Next]_<<grants, used>>

=============================================================================
