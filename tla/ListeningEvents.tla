--------------------------- MODULE ListeningEvents ---------------------------
(***************************************************************************)
(* What an endpoint promises the application about a signal server that it *)
(* listens at (tx5/src/ep.rs, EndpointEvent): its address opens and closes *)
(* by turns, whichever connection to the server stands behind it.          *)
(***************************************************************************)
EXTENDS Naturals

CONSTANT Urls

VARIABLE told   \* the kind of the last event of an address, and its number

Init == told = [u \in Urls |-> [kind |-> "Closed", n |-> 0]]

Turns(u, from, to) ==
  /\ told[u].kind = from
  /\ told' = [told EXCEPT ![u] = [kind |-> to, n |-> @.n + 1]]

Next == \E u \in Urls : Turns(u, "Closed", "Open") \/ Turns(u, "Open", "Closed")

Spec == Init /\ [][Next]_told
=============================================================================
