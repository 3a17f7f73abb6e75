------------------------------ MODULE MCFramed ------------------------------
(***************************************************************************)
(* Instances of Framed.  One pair of ends sends both ways; or two pairs    *)
(* share a host, whose semaphore serves both.                              *)
(***************************************************************************)
EXTENDS FramedProps, TLC

CONSTANTS a, b, a2, b2, ha, hb

PairEnds == {a, b}
PairPeer == (a :> b) @@ (b :> a)
PairHost == (a :> ha) @@ (b :> hb)

(* a and a2 are the ends on host ha, their remotes b and b2 are on hb,     *)
(* which receives no large message.                                        *)
TwoEnds == {a, b, a2, b2}
TwoPeer == (a :> b) @@ (b :> a) @@ (a2 :> b2) @@ (b2 :> a2)
TwoHost == (a :> ha) @@ (a2 :> ha) @@ (b :> hb) @@ (b2 :> hb)

MCBytes == (1..3) \X (1..3)

SmallAndLarge == [e \in PairEnds |-> {1, 3}]
TwoEach       == [e \in PairEnds |-> 2]
TwoAndOne     == [e \in PairEnds |-> IF e = a THEN 2 ELSE 1]
RemotesLarge  == [e \in TwoEnds |-> IF e \in {b, b2} THEN {2, 3} ELSE {}]
RemotesSend   == [e \in TwoEnds |-> IF e \in {b, b2} THEN 2 ELSE 0]

(* The runs stop only when every message was sent and everything drained,  *)
(* but for the sends and the permit requests that an interrupted           *)
(* connection leaves waiting.                                              *)
Finished ==
  \A e \in Ends :
    /\ wire[e] = << >> /\ cmdq[e] = << >> /\ msgq[e] = << >>
    /\ \/ pc[e] = "idle" /\ (Len(sent[e]) = MaxMsgs[e] \/ task[e] = "dropped")
       \/ pc[e] = "requested" /\ (Interrupted(e) \/ Starved(Host[Peer[e]]))
    /\ waiter[e].at = "none" \/ Starved(Host[e])

MCSpec == Init /\ [][Next \/ (Finished /\ UNCHANGED vars)]_vars /\ Fairness
=============================================================================
