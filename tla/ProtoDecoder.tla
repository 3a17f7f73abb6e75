---------------------------- MODULE ProtoDecoder ----------------------------
(***************************************************************************)
(* The decoder of proto.rs against a remote peer that may send anything:   *)
(* every frame, in every order, well formed or not.  The local side calls  *)
(* it the way FramedConn does: it reports a permit request of its own with *)
(* sent_remote_permit_request, and each request the decoder reported is    *)
(* answered at most once, in any order, with sent_remote_permit_grant and  *)
(* a permit of the size that was asked for.                                *)
(***************************************************************************)
EXTENDS Proto

CONSTANTS RemoteFrames,  \* what the remote may send
          Lengths        \* the lengths that headers are made of

(* A header has 29 bits for the length: no frame can carry a larger one.   *)
ASSUME RemoteFramesAssumption ==
  /\ RemoteFrames \subseteq Frame
  /\ \A f \in RemoteFrames : f.len <= MAX_PAYLOAD
  /\ Lengths \subseteq 0..MAX_PAYLOAD

VARIABLES dec,       \* the decoder
          out,       \* the result of the last call of decode
          pending,   \* sizes of the reported requests not answered yet
          asked      \* size of the last reported request (history)

vars == << dec, out, pending, asked >>

Init ==
  /\ dec = NewDecoder
  /\ out = Idle
  /\ pending = << >>
  /\ asked = 0

(* A frame arrives.  A reported request starts a task that acquires the    *)
(* permit for it.                                                          *)
Decode(f) ==
  /\ dec' = DecoderAfter(dec, f)
  /\ out' = ResultOf(dec, f)
  /\ IF out'.what = "RemotePermitRequest"
     THEN pending' = Append(pending, out'.len) /\ asked' = out'.len
     ELSE UNCHANGED << pending, asked >>

(* One of those tasks got its permit and the grant is about to be sent. *)
SentGrant(i) ==
  /\ dec' = AfterGrant(dec, pending[i])
  /\ pending' = SubSeq(pending, 1, i - 1) \o
                SubSeq(pending, i + 1, Len(pending))
  /\ UNCHANGED << out, asked >>

(* A large message of ours is about to ask the remote for a permit. *)
SentRequest ==
  /\ dec' = AfterRequest(dec, 1)
  /\ UNCHANGED << out, pending, asked >>

Next ==
  \/ \E f \in RemoteFrames : Decode(f)
  \/ \E i \in 1..Len(pending) : SentGrant(i)
  \/ SentRequest

Spec == Init /\ [][Next]_vars

----------------------------------------------------------------------------
TypeOK ==
  /\ dec \in Decoder
  /\ out \in Result
  /\ pending \in Seq(Nat)
  /\ asked \in Nat

(* Whatever the remote sends, the bytes kept for an incomplete message are *)
(* covered by the permit that the decoder holds at that moment             *)
(* (priv_decode checks the chunk against want_size, drops the permit only  *)
(* with the buffer).                                                       *)
BufferedWithinPermit == Len(dec.incoming) <= dec.held

(* One connection never has two unanswered permit requests, and while one  *)
(* is unanswered the decoder waits in RemoteAwaitingPermit, so the grant   *)
(* that FramedConn reports can only fail on a decoder that already failed. *)
OneOutstandingRequest ==
  /\ Len(pending) <= 1
  /\ pending # << >> =>
       dec.state = "RemoteAwaitingPermit" /\ dec.awaiting = pending[1]

(* A permit is held exactly while a chunked message is being put together: *)
(* no path back to Ready keeps it, and no other state acquires one.        *)
PermitOnlyWhileChunking ==
  dec.held > 0 => dec.state = "ReceiveChunked" /\ dec.held = dec.want_size

(* A header decodes to what it was encoded from, over all its 29 bits and  *)
(* for the permits that the decoder deals with (proto.rs:57-123): no bit   *)
(* of the length reaches the three of the kind.                            *)
HeadersRoundTrip ==
  \A kind \in Kinds : \A len \in Lengths \cup {dec.held, dec.awaiting} :
    HeaderRoundTrip(kind, len)

(* A message put together from chunks has exactly the size for which the   *)
(* permit was requested, however the remote cut it.                        *)
MessageHasRequestedSize ==
  [][dec.state = "ReceiveChunked" /\ dec'.state = "Ready" =>
       out'.what = "Message" /\ Len(out'.body) = asked]_vars
=============================================================================
