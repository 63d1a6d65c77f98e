------------------------------ MODULE BatonRing ------------------------------
(***************************************************************************)
(* What a devious-baton exchange is, without streams, handlers and races:  *)
(* the server puts each baton into play once, the two sides pass it to and *)
(* fro adding one per hop, and once its value is 0 or a side failed it is  *)
(* gone for good.  A baton is at one side at a time.                       *)
(***************************************************************************)
EXTENDS Integers

CONSTANTS Batons, Start

VARIABLE at   \* of each baton: "unsent", "gone", or the side it is with or
              \* on its way to, and the hops it has made

Unsent == [place |-> "unsent", hop |-> 0]
Gone   == [place |-> "gone", hop |-> 0]

InPlay(x) == x.place \in {"server", "client"}

Other(s) == IF s = "server" THEN "client" ELSE "server"

(* The server puts it into play; a side passes it on unless it is 0; it    *)
(* leaves at 0 or when its holder cannot send.                             *)
Moves(x) ==
    IF x = Unsent THEN {[place |-> "client", hop |-> 0]}
    ELSE IF InPlay(x)
    THEN {Gone} \cup (IF (Start + x.hop) % 256 = 0 THEN {}
                      ELSE {[place |-> Other(x.place), hop |-> x.hop + 1]})
    ELSE {}

Init == at = [b \in Batons |-> Unsent]

Next ==
    \E b \in Batons :
        /\ at'[b] \in Moves(at[b])
        /\ \A c \in Batons \ {b} : at'[c] = at[c]

Spec == Init /\ [][Next]_at

=============================================================================
