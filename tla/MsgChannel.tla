----------------------------- MODULE MsgChannel -----------------------------
(***************************************************************************)
(* What the owners of FramedConns see: from every end a channel of whole   *)
(* messages to the opposite one.  Messages are delivered once, unchanged   *)
(* and in the order of the sends.  The delivery only skips messages whose  *)
(* send was given up, though such a message may still be delivered, and    *)
(* any once the connection lost something of that end.  What was not       *)
(* delivered when the connection broke is never delivered.                 *)
(***************************************************************************)
EXTENDS Naturals, Sequences

CONSTANTS Ends,      \* the sending ends
          Message    \* the messages of each end

VARIABLES sent,    \* the messages sent by an end
          gaveup,  \* the numbers of those whose send did not succeed
          recvd,   \* the messages delivered
          last,    \* how far the delivery has got in `sent`
          lossy    \* whether something of that end was lost

chanVars == << sent, gaveup, recvd, last, lossy >>

Init ==
  /\ sent   = [e \in Ends |-> << >>]
  /\ gaveup = [e \in Ends |-> {}]
  /\ recvd  = [e \in Ends |-> << >>]
  /\ last   = [e \in Ends |-> 0]
  /\ lossy  = [e \in Ends |-> FALSE]

Send(e) ==
  /\ \E m \in Message[e] : sent' = [sent EXCEPT ![e] = Append(@, m)]
  /\ UNCHANGED << gaveup, recvd, last, lossy >>

(* Only the send in progress, the last one, is given up. *)
GiveUp(e) ==
  /\ sent[e] # << >>
  /\ gaveup' = [gaveup EXCEPT ![e] = @ \cup {Len(sent[e])}]
  /\ UNCHANGED << sent, recvd, last, lossy >>

Lose(e) ==
  /\ lossy' = [lossy EXCEPT ![e] = TRUE]
  /\ UNCHANGED << sent, gaveup, recvd, last >>

Deliver(e) ==
  /\ \E k \in last[e] + 1..Len(sent[e]) :
       /\ lossy[e] \/ last[e] + 1..k - 1 \subseteq gaveup[e]
       /\ recvd' = [recvd EXCEPT ![e] = Append(@, sent[e][k])]
       /\ last' = [last EXCEPT ![e] = k]
  /\ UNCHANGED << sent, gaveup, lossy >>

Next == \E e \in Ends : Send(e) \/ GiveUp(e) \/ Lose(e) \/ Deliver(e)

Spec == Init /\ [][Next]_chanVars
=============================================================================
