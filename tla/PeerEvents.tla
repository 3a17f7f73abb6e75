----------------------------- MODULE PeerEvents -----------------------------
(***************************************************************************)
(* What the events of an endpoint (tx5/src/ep.rs, EndpointEvent) promise   *)
(* to the application about one peer connection: it is announced first,    *)
(* its messages follow, and nothing follows the announcement of its end.   *)
(* An announcement that the application did not make room for may be       *)
(* missing, and so may either end of the story.                            *)
(***************************************************************************)
EXTENDS Naturals

CONSTANT Peers

VARIABLE told   \* the kind of the last event of a peer, and its number

Nothing == [kind |-> "nothing", n |-> 0]
Init == told = [p \in Peers |-> Nothing]

Tells(p, k) == told' = [told EXCEPT ![p] = [kind |-> k, n |-> @.n + 1]]

Connected(p) == told[p] = Nothing /\ Tells(p, "Connected")
Message(p) == told[p].kind # "Disconnected" /\ Tells(p, "Message")
Disconnected(p) == told[p].kind # "Disconnected" /\ Tells(p, "Disconnected")

Next == \E p \in Peers : Connected(p) \/ Message(p) \/ Disconnected(p)

Spec == Init /\ [][Next]_told
=============================================================================
