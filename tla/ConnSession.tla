---------------------------- MODULE ConnSession ----------------------------
(***************************************************************************)
(* What a pair of connection ends promises: each connection of an end is   *)
(* bound to at most one connection of its peer, and delivers messages of   *)
(* that one only, in the order they were sent, none of them twice.         *)
(***************************************************************************)
EXTENDS Naturals, Sequences

CONSTANTS Ends, MaxGen, MaxMsgs
VARIABLES
  gen,    \* the connections an end has made
  bound,  \* the peer's connection the last one is bound to, 0 if none
  sent,   \* messages each connection of an end was given
  got     \* the numbers of the messages the last one delivered

vars == << gen, bound, sent, got >>
Peer(e) == CHOOSE o \in Ends : o # e

Init ==
  /\ gen = [e \in Ends |-> 0] /\ bound = [e \in Ends |-> 0]
  /\ sent = [e \in Ends |-> [g \in 1..MaxGen |-> 0]]
  /\ got = [e \in Ends |-> << >>]

Begin(e) ==
  /\ gen' = [gen EXCEPT ![e] = @ + 1]
  /\ bound' = [bound EXCEPT ![e] = 0]
  /\ got' = [got EXCEPT ![e] = << >>]
  /\ UNCHANGED sent

(* The peer's connection exists, and is not the newest one bound elsewhere. *)
Bind(e) ==
  /\ gen[e] > 0 /\ bound[e] = 0
  /\ \E g \in 1..gen[Peer(e)] :
       /\ g = gen[Peer(e)] => bound[Peer(e)] \in {0, gen[e]}
       /\ bound' = [bound EXCEPT ![e] = g]
  /\ UNCHANGED << gen, sent, got >>

Send(e) ==
  /\ gen[e] > 0
  /\ sent' = [sent EXCEPT ![e][gen[e]] = @ + 1]
  /\ UNCHANGED << gen, bound, got >>

Last(s) == IF s = << >> THEN 0 ELSE s[Len(s)]
Receive(e) ==
  /\ bound[e] # 0
  /\ \E n \in (Last(got[e]) + 1)..sent[Peer(e)][bound[e]] :
       got' = [got EXCEPT ![e] = Append(@, n)]
  /\ UNCHANGED << gen, bound, sent >>

Next == \E e \in Ends : Begin(e) \/ Bind(e) \/ Send(e) \/ Receive(e)
Spec == Init /\ [][Next]_vars
=============================================================================
