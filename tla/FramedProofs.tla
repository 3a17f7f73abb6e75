----------------------------- MODULE FramedProofs -----------------------------
(***************************************************************************)
(* Proofs about Framed, for any number of connections and hosts, any       *)
(* limit, any message sizes and any capacities.                            *)
(*                                                                         *)
(* PermitInv follows a permit from the request to the decoder.  StreamInv  *)
(* says of a connection that lost and cancelled nothing that what lies     *)
(* between its ends is a legal continuation of what the decoder has seen.  *)
(* PermitAccounting follows as every step changes what one end holds and   *)
(* what is free by the same amount.  GrantInv weighs the frames of large   *)
(* messages against what was granted.  ChanInv says which message a frame  *)
(* is a part of, and that what is skipped was given up, or the connection  *)
(* lost a frame of its end.                                                *)
(***************************************************************************)
EXTENDS FramedInv, TLAPS, FiniteSetTheorems

----------------------------------------------------------------------------
(* The decoder: the lemmas that DecoderProofs also rests on.               *)

LEMMA NewDecoderType == NewDecoder \in Decoder
BY DEF NewDecoder, Decoder, DecodeState

LEMMA DecoderAfterType ==
  ASSUME NEW d \in Decoder, NEW f \in Frame
  PROVE  DecoderAfter(d, f) \in Decoder
<1>1. CASE f.kind = "MultipartMessage"
  <2>1. d.incoming \o f.body \in Seq(Byte)
    BY DEF Decoder, Frame
  <2>2. [d EXCEPT !.incoming = d.incoming \o f.body] \in Decoder
    BY <2>1 DEF Decoder
  <2>3. [d EXCEPT !.state = "Ready", !.incoming = << >>, !.held = 0] \in Decoder
    <3>1. << >> \in Seq(Byte)
      OBVIOUS
    <3> QED
      BY <3>1 DEF Decoder, DecodeState
  <2>4. [d EXCEPT !.did_error = TRUE] \in Decoder
    BY DEF Decoder
  <2> QED
    BY <1>1, <2>2, <2>3, <2>4 DEF DecoderAfter, AfterChunk,
           AfterRemoteRequest, AfterRemoteGrant
<1>2. CASE f.kind # "MultipartMessage"
  BY <1>2 DEF DecoderAfter, AfterChunk, AfterRemoteRequest, AfterRemoteGrant,
         Decoder, DecodeState, Frame
<1> QED
  BY <1>1, <1>2

LEMMA ResultOfType ==
  ASSUME NEW d \in Decoder, NEW f \in Frame
  PROVE  ResultOf(d, f) \in Result
<1>1. d.incoming \o f.body \in Seq(Byte)
  BY DEF Decoder, Frame
<1> QED
  BY <1>1 DEF ResultOf, Assembled, Outcome, Err, Idle, Result, Decoder, Frame

LEMMA AfterGrantType ==
  ASSUME NEW d \in Decoder, NEW n \in Nat
  PROVE  AfterGrant(d, n) \in Decoder
BY DEF AfterGrant, Decoder, DecodeState

LEMMA AfterRequestType ==
  ASSUME NEW d \in Decoder, NEW k \in Nat
  PROVE  AfterRequest(d, k) \in Decoder
BY DEF AfterRequest, Decoder, DecodeState

LEMMA NewDecoderConsistent == Consistent(NewDecoder)
BY DEF NewDecoder, Consistent

(* No frame, well formed or not, makes a decoder inconsistent. *)
LEMMA DecoderAfterConsistent ==
  ASSUME NEW d \in Decoder, NEW f \in Frame, Consistent(d)
  PROVE  Consistent(DecoderAfter(d, f))
<1>1. CASE ~ Accepts(d, f)
  BY <1>1 DEF DecoderAfter, AfterChunk, AfterRemoteRequest, AfterRemoteGrant,
         Consistent, Decoder
<1>2. CASE Accepts(d, f) /\ f.kind = "MultipartMessage"
  <2>1. /\ d.state = "ReceiveChunked"
        /\ Len(d.incoming \o f.body) <= d.want_size
    BY <1>2 DEF Accepts, AcceptsChunk, AcceptsRequest, Decoder, Frame
  <2>2. CASE Completes(d, f)
    BY <1>2, <2>2 DEF DecoderAfter, AfterChunk, AfterRemoteRequest,
           AfterRemoteGrant, Consistent, Decoder
  <2>3. CASE ~ Completes(d, f)
    BY <1>2, <2>1, <2>3 DEF DecoderAfter, AfterChunk, AfterRemoteRequest,
           AfterRemoteGrant, Consistent, Decoder
  <2> QED
    BY <2>2, <2>3
<1>3. CASE Accepts(d, f) /\ f.kind # "MultipartMessage"
  BY <1>3 DEF DecoderAfter, AfterChunk, AfterRemoteRequest, AfterRemoteGrant,
         Accepts, AcceptsChunk, AcceptsRequest,
         Consistent, Decoder
<1> QED
  BY <1>1, <1>2, <1>3

LEMMA AfterGrantConsistent ==
  ASSUME NEW d \in Decoder, Consistent(d), MayGrant(d)
  PROVE  Consistent(AfterGrant(d, d.awaiting))
BY DEF AfterGrant, MayGrant, Consistent, Decoder

LEMMA AfterRequestConsistent ==
  ASSUME NEW d \in Decoder, NEW k \in Nat, Consistent(d)
  PROVE  Consistent(AfterRequest(d, k))
BY DEF AfterRequest, Consistent, Decoder

LEMMA AfterRequestKeeps ==
  ASSUME NEW d \in Decoder, NEW k \in Nat, MayRequest(d)
  PROVE  /\ ~ AfterRequest(d, k).did_error
         /\ AfterRequest(d, k).state = d.state
         /\ AfterRequest(d, k).awaiting = d.awaiting
BY DEF AfterRequest, MayRequest, Decoder

----------------------------------------------------------------------------
(* Types.                                                                  *)

LEMMA FrameTypes ==
  ASSUME NEW m \in Seq(Byte), NEW n \in Nat
  PROVE  /\ VersionFrame \in Frame /\ NoFrame \in Frame
         /\ CompleteFrame(m) \in Frame /\ ChunkFrame(m) \in Frame
         /\ RequestFrame(n) \in Frame /\ GrantFrame(n) \in Frame
<1>1. << >> \in Seq(Byte)
  OBVIOUS
<1> QED
  BY <1>1 DEF Frame, Kinds, VersionFrame, NoFrame, CompleteFrame, ChunkFrame,
              RequestFrame, GrantFrame

LEMMA QueuedPermitType ==
  ASSUME NEW q \in Seq(Cmd)
  PROVE  QueuedPermit(q) \in Nat
<1>1. CASE \E i \in 1..Len(q) : q[i].cmd = "RemotePermit"
  <2>1. PICK i \in 1..Len(q) :
          /\ i = CHOOSE j \in 1..Len(q) : q[j].cmd = "RemotePermit"
          /\ q[i].cmd = "RemotePermit"
    BY <1>1
  <2>2. q[i] \in Cmd
    OBVIOUS
  <2>3. q[i].len \in Nat
    BY <2>1, <2>2 DEF Cmd
  <2> QED
    BY <1>1, <2>1, <2>3 DEF QueuedPermit
<1>2. CASE ~ \E i \in 1..Len(q) : q[i].cmd = "RemotePermit"
  BY <1>2 DEF QueuedPermit
<1> QED
  BY <1>1, <1>2

(* Only a complete message changes what the decoder holds: it drops all.   *)
LEMMA HeldShrinks ==
  ASSUME NEW d \in Decoder, NEW f \in Frame
  PROVE  DecoderAfter(d, f).held \in {d.held, 0}
<1>1. CASE f.kind = "MultipartMessage"
  BY <1>1 DEF DecoderAfter, AfterChunk, AfterRemoteRequest, AfterRemoteGrant,
         Decoder
<1>2. CASE f.kind # "MultipartMessage"
  BY <1>2 DEF DecoderAfter, AfterChunk, AfterRemoteRequest, AfterRemoteGrant,
         Decoder
<1> QED
  BY <1>1, <1>2

LEMMA NextChunkType ==
  ASSUME NEW m \in Seq(Byte), NEW c \in Nat
  PROVE  NextChunk(m, c) \in Seq(Byte)
<1> DEFINE left == Len(m) - c
           amt  == IF MaxChunk < left THEN MaxChunk ELSE left
<1>1. amt \in Int /\ c + amt <= Len(m)
  BY MaxChunkAssumption
<1>2. NextChunk(m, c) = SubSeq(m, c + 1, c + amt)
  BY DEF NextChunk
<1>3. SubSeq(m, c + 1, c + amt) \in Seq(Byte)
  BY <1>1
<1> QED
  BY <1>2, <1>3

LEMMA PushType ==
  ASSUME wire \in [Ends -> Seq(Frame)],
         NEW e \in Ends, NEW f \in Frame, Push(e, f)
  PROVE  wire' \in [Ends -> Seq(Frame)]
<1>1. Peer[e] \in Ends
  BY FramedAssumption
<1>2. Append(wire[Peer[e]], f) \in Seq(Frame)
  BY <1>1
<1> QED
  BY <1>1, <1>2 DEF Push

LEMMA CutType ==
  ASSUME wire \in [Ends -> Seq(Frame)],
         NEW e \in Ends, NEW k \in 0..Len(wire[e]), Cut(e, k)
  PROVE  wire' \in [Ends -> Seq(Frame)]
<1>1. Peer[e] \in Ends
  BY FramedAssumption
<1>2. PICK j \in 0..Len(wire[Peer[e]]) :
        wire' = [wire EXCEPT ![e] = SubSeq(@, 1, k),
                             ![Peer[e]] = SubSeq(@, 1, j)]
  BY DEF Cut
<1>3. Peer[e] # e
  BY FramedAssumption
<1>4. /\ SubSeq(wire[e], 1, k) \in Seq(Frame)
      /\ SubSeq(wire[Peer[e]], 1, j) \in Seq(Frame)
  BY <1>1
<1> QED
  BY <1>1, <1>2, <1>3, <1>4

LEMMA StopType ==
  ASSUME TypeOK, NEW e \in Ends, NEW why \in TaskAt, Stop(e, why)
  PROVE  /\ task' \in [Ends -> TaskAt] /\ cmdq' \in [Ends -> Seq(Cmd)]
         /\ hold' \in [Ends -> Frame] /\ dec' \in [Ends -> Decoder]
         /\ avail' \in [Hosts -> Nat]
<1>1. QueuedPermit(cmdq[e]) \in Nat /\ dec[e].held \in Nat
  BY QueuedPermitType DEF TypeOK, Decoder
<1>2. Host[e] \in Hosts
  BY FramedAssumption
<1>3. avail' \in [Hosts -> Nat]
  <2>1. TaskPermits(e) \in Nat
    BY <1>1 DEF TaskPermits
  <2>2. avail \in [Hosts -> Nat]
    BY DEF TypeOK
  <2>3. avail' = [avail EXCEPT ![Host[e]] = @ + TaskPermits(e)]
    BY DEF Stop, Released
  <2>4. avail[Host[e]] + TaskPermits(e) \in Nat
    BY <1>2, <2>1, <2>2
  <2> QED
    BY <2>2, <2>3, <2>4
<1>4. NoFrame \in Frame /\ NewDecoder \in Decoder /\ << >> \in Seq(Cmd)
  BY NewDecoderType DEF NoFrame, Frame
<1> QED
  BY <1>3, <1>4 DEF TypeOK, Stop

LEMMA NotifyType ==
  ASSUME TypeOK, NEW e \in Ends, NEW k, NEW at, NEW next \in SenderAt,
         Notify(e, k, at, next)
  PROVE  pc' \in [Ends -> SenderAt]
BY DEF TypeOK, Notify

LEMMA SenderType ==
  ASSUME TypeOK, NEW e \in Ends,
         Sender(e) \/ SendStart(e) \/ SendCancel(e)
  PROVE  TypeOK'
<1> USE DEF TypeOK, senderVars, cmdVars, permitVars, appVars
<1>1. CASE New(e)
  <2>1. VersionFrame \in Frame
    BY DEF VersionFrame, Frame, Kinds
  <2> QED
    BY <1>1, <2>1, PushType DEF New, SenderAt, TaskAt
<1>2. CASE NewFail(e)
  BY <1>2 DEF NewFail, SenderAt, TaskAt
<1>3. CASE SendStart(e)
  <2>1. PICK n \in Sizes[e] :
          LET m == Body(Len(sent[e]) + 1, n) IN
          /\ msg' = [msg EXCEPT ![e] = m]
          /\ sent' = [sent EXCEPT ![e] = Append(@, m)]
          /\ pc' = [pc EXCEPT ![e] = IF NeedsPermit(m) THEN "await" ELSE "one"]
    BY <1>3 DEF SendStart
  <2> DEFINE m == Body(Len(sent[e]) + 1, n)
  <2>2. Len(sent[e]) + 1 \in 1..MaxMsgs[e]
    <3>1. MaxMsgs[e] \in Nat /\ Len(sent[e]) \in Nat
      BY FramedAssumption
    <3> QED
      BY <1>3, <3>1 DEF SendStart
  <2>3. m \in Seq(Byte)
    BY <2>2, BodyAssumption
  <2>4. msg' = [msg EXCEPT ![e] = m] /\ sent' = [sent EXCEPT ![e] = Append(@, m)]
    BY <2>1
  <2> HIDE DEF m
  <2>5. sent' \in [Ends -> Seq(Seq(Byte))] /\ msg' \in [Ends -> Seq(Byte)]
    BY <2>3, <2>4
  <2>6. pc' \in [Ends -> SenderAt]
    BY <2>1 DEF SenderAt
  <2> QED
    BY <1>3, <2>5, <2>6 DEF SendStart
<1>4. CASE SendOne(e)
  <2>1. CompleteFrame(msg[e]) \in Frame
    BY FrameTypes
  <2> QED
    BY <1>4, <2>1, PushType DEF SendOne, SenderAt
<1>5. CASE SendAwaitPermit(e)
  <2>1. [cmd |-> "AwaitPermit", id |-> Len(sent[e])] \in Cmd
    BY DEF Cmd
  <2> QED
    BY <1>5, <2>1 DEF SendAwaitPermit, SenderAt
<1>6. CASE SendPermitRequest(e)
  <2>1. RequestFrame(Len(msg[e])) \in Frame
    BY FrameTypes
  <2> QED
    BY <1>6, <2>1, PushType DEF SendPermitRequest, SenderAt
<1>7. CASE SendChunk(e)
  <2> DEFINE c == NextChunk(msg[e], cur[e])
  <2>1. c \in Seq(Byte)
    BY NextChunkType
  <2>2. ChunkFrame(c) \in Frame /\ Len(c) \in Nat
    BY <2>1, FrameTypes
  <2>3. /\ Push(e, ChunkFrame(c))
        /\ cur' = [cur EXCEPT ![e] = @ + Len(c)]
        /\ pc' = [pc EXCEPT ![e] = IF cur[e] + Len(c) = Len(msg[e])
                                   THEN "idle" ELSE "chunks"]
    BY <1>7 DEF SendChunk
  <2> HIDE DEF c
  <2>4. wire' \in [Ends -> Seq(Frame)]
    BY <2>2, <2>3, PushType
  <2>5. cur' \in [Ends -> Nat] /\ pc' \in [Ends -> SenderAt]
    BY <2>2, <2>3 DEF SenderAt
  <2> QED
    BY <1>7, <2>4, <2>5 DEF SendChunk
<1>8. CASE GiveUp(e)
  BY <1>8 DEF GiveUp, SenderAt
<1> QED
  BY <1>1, <1>2, <1>3, <1>4, <1>5, <1>6, <1>7, <1>8
     DEF Sender, SendFail, SendCancel

LEMMA ReceiverType ==
  ASSUME TypeOK, NEW e \in Ends, Receiver(e) \/ ConnClose(e)
  PROVE  TypeOK'
<1> USE DEF TypeOK, senderVars, cmdVars, permitVars, appVars
<1>1. CASE RecvTask(e)
  <2>1. Head(wire[e]) \in Frame /\ Tail(wire[e]) \in Seq(Frame)
    BY <1>1 DEF RecvTask
  <2>2. [cmd |-> "Recv", frame |-> Head(wire[e])] \in Cmd
    BY <2>1 DEF Cmd
  <2>3. cmdq' \in [Ends -> Seq(Cmd)]
    <3>1. /\ cmdq \in [Ends -> Seq(Cmd)]
          /\ cmdq' = [cmdq EXCEPT
               ![e] = Append(@, [cmd |-> "Recv", frame |-> Head(wire[e])])]
      BY <1>1 DEF RecvTask
    <3> QED
      BY ONLY <2>2, <3>1, SMT
  <2>4. wire' \in [Ends -> Seq(Frame)]
    BY <1>1, <2>1 DEF RecvTask
  <2> QED
    BY <1>1, <2>3, <2>4 DEF RecvTask
<1>2. CASE RecvTaskClose(e)
  <2>1. [cmd |-> "Close"] \in Cmd
    BY DEF Cmd
  <2>2. cmdq' \in [Ends -> Seq(Cmd)]
    <3>1. /\ cmdq \in [Ends -> Seq(Cmd)]
          /\ cmdq' = [cmdq EXCEPT ![e] = Append(@, [cmd |-> "Close"])]
      BY <1>2 DEF RecvTaskClose
    <3> QED
      BY ONLY <2>1, <3>1, SMT
  <2> QED
    BY <1>2, <2>2 DEF RecvTaskClose
<1>3. CASE RecvTaskStop(e)
  <2>1. wire' \in [Ends -> Seq(Frame)]
    <3>1. wire \in [Ends -> Seq(Frame)] /\ Cut(e, 0) /\ 0 \in 0..Len(wire[e])
      BY <1>3 DEF RecvTaskStop
    <3> HIDE DEF TypeOK
    <3> QED
      BY <3>1, CutType
  <2>2. link' \in [Ends -> {"open", "closed"}]
    BY <1>3 DEF RecvTaskStop
  <2> QED
    BY <1>3, <2>1, <2>2 DEF RecvTaskStop
<1>4. CASE ConnClose(e)
  BY <1>4, CutType DEF ConnClose
<1> QED
  BY <1>1, <1>2, <1>3, <1>4 DEF Receiver

LEMMA CmdRecvType ==
  ASSUME TypeOK, NEW e \in Ends, CmdRecv(e)
  PROVE  TypeOK'
<1> DEFINE f == Head(cmdq[e]).frame
           r == ResultOf(dec[e], f)
           d == DecoderAfter(dec[e], f)
<1>1. Head(cmdq[e]) \in Cmd /\ Head(cmdq[e]).cmd = "Recv"
      /\ Tail(cmdq[e]) \in Seq(Cmd)
  BY DEF CmdRecv, TakesCmd, TypeOK
<1>2. f \in Frame
  BY <1>1 DEF Cmd
<1>3. dec[e] \in Decoder /\ d \in Decoder /\ r \in Result
  BY <1>2, DecoderAfterType, ResultOfType DEF TypeOK
<1>4. d.held \in {dec[e].held, 0}
  BY <1>2, <1>3, HeldShrinks
<1>5. /\ dec' = [dec EXCEPT ![e] = d]
      /\ avail' = Released(e, dec[e].held - d.held)
      /\ task' = task \/ task' = [task EXCEPT ![e] = "deliver"]
      /\ hold' = hold \/ hold' = [hold EXCEPT ![e] = CompleteFrame(r.body)]
      /\ \/ waiter' = waiter
         \/ waiter' = [waiter EXCEPT ![e] = [at |-> "spawned", len |-> r.len]]
      /\ pc' = pc \/ Notify(e, r.notify, "requested", "chunks")
      /\ cmdq' = [cmdq EXCEPT ![e] = Tail(@)]
      /\ UNCHANGED << msg, cur, sent, gaveup, link, wire, semq, appVars >>
  BY DEF CmdRecv
<1> HIDE DEF f, r, d
<1>6. CompleteFrame(r.body) \in Frame /\ r.len \in Nat
  BY <1>3, FrameTypes DEF Result
<1>7. avail' \in [Hosts -> Nat]
  <2>1. dec[e].held - d.held \in Nat
    BY <1>3, <1>4 DEF Decoder
  <2>2. Host[e] \in Hosts
    BY FramedAssumption
  <2> QED
    BY <1>5, <2>1, <2>2 DEF Released, TypeOK
<1>8. pc' \in [Ends -> SenderAt]
  BY <1>5, NotifyType DEF TypeOK, SenderAt
<1>9. task' \in [Ends -> TaskAt] /\ hold' \in [Ends -> Frame]
  <2>1. /\ task' = task \/ task' = [task EXCEPT ![e] = "deliver"]
        /\ hold' = hold \/ hold' = [hold EXCEPT ![e] = CompleteFrame(r.body)]
    BY <1>5
  <2>2. task \in [Ends -> TaskAt] /\ hold \in [Ends -> Frame]
    BY DEF TypeOK
  <2>3. task' \in [Ends -> TaskAt]
    BY <2>1, <2>2 DEF TaskAt
  <2>4. hold' \in [Ends -> Frame]
    BY <1>6, <2>1, <2>2
  <2> QED
    BY <2>3, <2>4
<1>10. /\ dec' \in [Ends -> Decoder] /\ cmdq' \in [Ends -> Seq(Cmd)]
       /\ waiter' \in [Ends -> [at : {"none", "spawned", "queued", "acquired"},
                                len : Nat]]
  <2>1. /\ dec' = [dec EXCEPT ![e] = d] /\ cmdq' = [cmdq EXCEPT ![e] = Tail(@)]
        /\ \/ waiter' = waiter
           \/ waiter' = [waiter EXCEPT ![e] = [at |-> "spawned", len |-> r.len]]
    BY <1>5
  <2>2. [at |-> "spawned", len |-> r.len] \in
          [at : {"none", "spawned", "queued", "acquired"}, len : Nat]
    BY <1>6
  <2>3. waiter' \in [Ends -> [at : {"none", "spawned", "queued", "acquired"},
                             len : Nat]]
    BY <2>1, <2>2 DEF TypeOK
  <2>4. dec' \in [Ends -> Decoder] /\ cmdq' \in [Ends -> Seq(Cmd)]
    BY <1>1, <1>3, <2>1 DEF TypeOK
  <2> QED
    BY <2>3, <2>4
<1> QED
  BY <1>5, <1>7, <1>8, <1>9, <1>10 DEF TypeOK, appVars

LEMMA CmdTaskType ==
  ASSUME TypeOK, NEW e \in Ends, CmdTask(e)
  PROVE  TypeOK'
<1> USE DEF senderVars, cmdVars, permitVars, appVars
<1>1. CASE \/ CmdRecvError(e) \/ CmdAwaitPermitError(e) \/ CmdClose(e)
  <2>1. PICK why \in TaskAt :
          /\ Stop(e, why)
          /\ UNCHANGED << senderVars, link, wire, waiter, semq, appVars >>
    BY <1>1 DEF CmdRecvError, CmdAwaitPermitError, CmdClose, TaskAt
  <2> QED
    BY <2>1, StopType DEF TypeOK
<1>2. CASE CmdRecv(e)
  BY <1>2, CmdRecvType
<1>3. CASE CmdDeliver(e)
  <2>1. hold[e].body \in Seq(Byte) /\ NoFrame \in Frame
    BY DEF TypeOK, Frame, NoFrame
  <2> QED
    BY <1>3, <2>1 DEF TypeOK, CmdDeliver, TaskAt
<1>4. ASSUME CmdAwaitPermit(e) \/ CmdRemotePermit(e)
      PROVE  cmdq[e] # << >> /\ Head(cmdq[e]) \in Cmd /\ Tail(cmdq[e]) \in Seq(Cmd)
  BY <1>4 DEF CmdAwaitPermit, CmdRemotePermit, TakesCmd, TypeOK
<1>5. CASE CmdAwaitPermit(e)
  <2>1. Head(cmdq[e]).id \in Nat
    BY <1>4, <1>5 DEF CmdAwaitPermit, TakesCmd, Cmd
  <2>2. AfterRequest(dec[e], Head(cmdq[e]).id) \in Decoder
    BY <2>1, AfterRequestType DEF TypeOK
  <2>3. pc' \in [Ends -> SenderAt]
    BY <1>5, NotifyType DEF CmdAwaitPermit, SenderAt
  <2> QED
    BY <1>4, <1>5, <2>2, <2>3 DEF CmdAwaitPermit, TypeOK
<1>6. CASE CmdRemotePermit(e)
  <2>1. Head(cmdq[e]).len \in Nat
    BY <1>4, <1>6 DEF CmdRemotePermit, TakesCmd, Cmd
  <2>2. /\ AfterGrant(dec[e], Head(cmdq[e]).len) \in Decoder
        /\ GrantFrame(Head(cmdq[e]).len) \in Frame
    BY <2>1, AfterGrantType DEF TypeOK, GrantFrame, Frame, Kinds
  <2>3. avail' \in [Hosts -> Nat]
    <3>1. dec[e].held \in Nat /\ Host[e] \in Hosts
      BY FramedAssumption DEF TypeOK, Decoder
    <3>2. avail \in [Hosts -> Nat]
      BY DEF TypeOK
    <3>3. avail' = [avail EXCEPT ![Host[e]] = @ + dec[e].held]
      BY <1>6 DEF CmdRemotePermit, Released
    <3> QED
      BY ONLY <3>1, <3>2, <3>3, SMT
  <2> QED
    BY <1>4, <1>6, <2>2, <2>3 DEF CmdRemotePermit, TypeOK, TaskAt
<1>7. CASE CmdSendGrant(e)
  <2>1. NoFrame \in Frame /\ hold[e] \in Frame
    BY DEF TypeOK, NoFrame, Frame
  <2>2. wire' \in [Ends -> Seq(Frame)]
    BY <1>7, <2>1, PushType DEF CmdSendGrant, TypeOK
  <2> QED
    BY <1>7, <2>1, <2>2 DEF CmdSendGrant, TypeOK, TaskAt
<1> QED
  BY <1>1, <1>2, <1>3, <1>5, <1>6, <1>7 DEF CmdTask

LEMMA WaiterType ==
  ASSUME TypeOK, NEW e \in Ends, Waiter(e)
  PROVE  TypeOK'
<1> USE DEF TypeOK, senderVars, cmdVars, appVars
<1>1. Host[e] \in Hosts
  BY FramedAssumption
<1>2. CASE WaiterPoll(e)
  <2>1. Append(semq[Host[e]], e) \in Seq(Ends)
    BY <1>1
  <2>2. /\ waiter' = [waiter EXCEPT ![e].at = "queued"]
        /\ semq' = [semq EXCEPT ![Host[e]] = Append(@, e)]
    BY <1>2 DEF WaiterPoll
  <2>3. semq' \in [Hosts -> Seq(Ends)]
    BY <1>1, <2>1, <2>2
  <2>4. waiter' \in [Ends -> [at : {"none", "spawned", "queued", "acquired"},
                             len : Nat]]
    BY <2>2
  <2> QED
    BY <1>2, <2>3, <2>4 DEF WaiterPoll
<1>3. CASE WaiterAcquire(e)
  <2>1. /\ waiter' = [waiter EXCEPT ![e].at = "acquired"]
        /\ semq' = [semq EXCEPT ![Host[e]] = Tail(@)]
        /\ avail' = [avail EXCEPT ![Host[e]] = @ - waiter[e].len]
        /\ semq[Host[e]] # << >> /\ waiter[e].len <= avail[Host[e]]
    BY <1>3 DEF WaiterAcquire
  <2>2. Tail(semq[Host[e]]) \in Seq(Ends)
    BY <1>1, <2>1
  <2>3. waiter[e].len \in Nat /\ avail[Host[e]] \in Nat
    BY <1>1
  <2>4. avail[Host[e]] - waiter[e].len \in Nat
    BY ONLY <2>1, <2>3, SMT
  <2>5. semq' \in [Hosts -> Seq(Ends)] /\ avail' \in [Hosts -> Nat]
    BY <1>1, <2>1, <2>2, <2>4
  <2>6. waiter' \in [Ends -> [at : {"none", "spawned", "queued", "acquired"},
                             len : Nat]]
    BY <2>1
  <2> QED
    BY <1>3, <2>5, <2>6 DEF WaiterAcquire
<1>4. CASE WaiterSend(e)
  <2>1. [cmd |-> "RemotePermit", len |-> waiter[e].len] \in Cmd
    BY DEF Cmd
  <2> QED
    BY <1>4, <2>1 DEF WaiterSend, NoWaiter
<1>5. CASE WaiterGone(e)
  <2>1. /\ waiter' = [waiter EXCEPT ![e] = NoWaiter]
        /\ avail' = [avail EXCEPT ![Host[e]] = @ + waiter[e].len]
    BY <1>5 DEF WaiterGone, Released
  <2>2. NoWaiter \in [at : {"none", "spawned", "queued", "acquired"}, len : Nat]
    BY DEF NoWaiter
  <2>3. waiter[e].len \in Nat /\ avail[Host[e]] \in Nat
    BY <1>1
  <2>4. avail[Host[e]] + waiter[e].len \in Nat
    BY ONLY <2>3, SMT
  <2>5. avail' \in [Hosts -> Nat]
    BY <1>1, <2>1, <2>4
  <2>6. waiter' \in [Ends -> [at : {"none", "spawned", "queued", "acquired"},
                             len : Nat]]
    BY <1>1, <2>1, <2>2
  <2> QED
    BY <1>5, <2>5, <2>6 DEF WaiterGone
<1> QED
  BY <1>2, <1>3, <1>4, <1>5 DEF Waiter

LEMMA OwnerType ==
  ASSUME TypeOK, NEW e \in Ends, OwnerRecv(e) \/ Drop(e)
  PROVE  TypeOK'
<1> USE DEF senderVars, cmdVars, permitVars
<1>1. CASE OwnerRecv(e)
  <2>1. /\ msgq \in [Ends -> Seq(Seq(Byte))] /\ recvd \in [Ends -> Seq(Seq(Byte))]
        /\ msgq[e] # << >>
        /\ recvd' = [recvd EXCEPT ![e] = Append(@, Head(msgq[e]))]
        /\ msgq' = [msgq EXCEPT ![e] = Tail(@)]
    BY <1>1 DEF OwnerRecv, TypeOK
  <2>2. Head(msgq[e]) \in Seq(Byte) /\ Tail(msgq[e]) \in Seq(Seq(Byte))
    BY <2>1
  <2>3. recvd' \in [Ends -> Seq(Seq(Byte))] /\ msgq' \in [Ends -> Seq(Seq(Byte))]
    BY <2>1, <2>2
  <2> QED
    BY <1>1, <2>3 DEF OwnerRecv, TypeOK
<1>2. CASE Drop(e)
  <2>1. /\ Stop(e, "dropped") /\ "dropped" \in TaskAt
        /\ Cut(e, 0) /\ 0 \in 0..Len(wire[e])
    BY <1>2 DEF Drop, TaskAt, TypeOK
  <2>2. wire' \in [Ends -> Seq(Frame)]
    BY <2>1, CutType DEF TypeOK
  <2>3. /\ task' \in [Ends -> TaskAt] /\ cmdq' \in [Ends -> Seq(Cmd)]
        /\ hold' \in [Ends -> Frame] /\ dec' \in [Ends -> Decoder]
        /\ avail' \in [Hosts -> Nat]
    BY <2>1, StopType
  <2>4. /\ link' = [link EXCEPT ![e] = "closed"]
        /\ msgq' = [msgq EXCEPT ![e] = << >>]
        /\ UNCHANGED << senderVars, waiter, semq, recvd, lossy >>
    BY <1>2 DEF Drop
  <2> QED
    BY <2>2, <2>3, <2>4 DEF TypeOK
<1> QED
  BY <1>1, <1>2

(* A frame is lost: nothing but the wire changes.                          *)
LEMMA WithoutOne ==
  ASSUME NEW S, NEW w \in Seq(S), NEW i \in 1..Len(w)
  PROVE  /\ Without(w, i) \in Seq(S) /\ Len(Without(w, i)) = Len(w) - 1
         /\ \A j \in 1..Len(w) - 1 :
              Without(w, i)[j] = IF j < i THEN w[j] ELSE w[j + 1]
<1> DEFINE a == SubSeq(w, 1, i - 1)
           b == SubSeq(w, i + 1, Len(w))
<1>1. /\ a \in Seq(S) /\ Len(a) = i - 1 /\ \A j \in 1..i - 1 : a[j] = w[j]
      /\ b \in Seq(S) /\ Len(b) = Len(w) - i
      /\ \A j \in 1..Len(w) - i : b[j] = w[i + j]
      /\ i \in Nat \ {0} /\ Len(w) \in Nat /\ i <= Len(w)
  OBVIOUS
<1> HIDE DEF a, b
<1>2. /\ a \o b \in Seq(S) /\ Len(a \o b) = Len(a) + Len(b)
      /\ \A j \in 1..Len(a) : (a \o b)[j] = a[j]
      /\ \A j \in Len(a) + 1..Len(a) + Len(b) : (a \o b)[j] = b[j - Len(a)]
  <2>1. a \in Seq(S) /\ b \in Seq(S)
    BY <1>1
  <2> QED
    BY ONLY <2>1
<1>3. ASSUME NEW j \in 1..Len(w) - 1
      PROVE  (a \o b)[j] = IF j < i THEN w[j] ELSE w[j + 1]
  <2>1. CASE j < i
    BY <1>1, <1>2, <2>1
  <2>2. CASE ~ (j < i)
    <3>1. /\ j - (i - 1) \in 1..Len(w) - i /\ i + (j - (i - 1)) = j + 1
          /\ j \in i..Len(w) - 1
      BY <1>1, <2>2
    <3>2. (a \o b)[j] = b[j - (i - 1)]
      BY <1>1, <1>2, <3>1
    <3> QED
      BY <1>1, <2>2, <3>1, <3>2
  <2> QED
    BY <2>1, <2>2
<1>4. Len(a \o b) = Len(w) - 1
  BY <1>1, <1>2
<1> QED
  BY <1>2, <1>3, <1>4 DEF Without, a, b

LEMMA LosesOne ==
  ASSUME TypeOK, NEW e \in Ends, Lose(e)
  PROVE  /\ UNCHANGED << senderVars, link, cmdVars, permitVars, msgq, recvd >>
         /\ \A o \in Ends : o # Peer[e] => wire'[o] = wire[o]
         /\ \E i \in 1..Len(wire[Peer[e]]) :
              wire'[Peer[e]] = Without(wire[Peer[e]], i)
         /\ lossy'[e] /\ \A o \in Ends : o # e => lossy'[o] = lossy[o]
<1>1. wire \in [Ends -> Seq(Frame)] /\ lossy \in [Ends -> BOOLEAN]
      /\ Peer[e] \in Ends
  BY FramedAssumption DEF TypeOK
<1> QED
  BY <1>1 DEF Lose

LEMMA LoseType ==
  ASSUME TypeOK, NEW e \in Ends, Lose(e)
  PROVE  TypeOK'
<1> DEFINE p == Peer[e]
<1>1. p \in Ends /\ wire \in [Ends -> Seq(Frame)] /\ wire[p] \in Seq(Frame)
  BY FramedAssumption DEF TypeOK
<1>2. PICK i \in 1..Len(wire[p]) : wire' = [wire EXCEPT ![p] = Without(@, i)]
  BY DEF Lose
<1>3. Without(wire[p], i) \in Seq(Frame)
  BY <1>1, WithoutOne
<1>4. wire' \in [Ends -> Seq(Frame)]
  BY <1>1, <1>2, <1>3
<1>5. lossy' \in [Ends -> BOOLEAN]
  BY DEF Lose, TypeOK
<1>6. UNCHANGED << senderVars, link, cmdVars, permitVars, msgq, recvd >>
  BY LosesOne
<1> QED
  BY <1>4, <1>5, <1>6 DEF TypeOK, senderVars, cmdVars, permitVars

(* Every variable of Framed keeps its type, the free permits of a host in  *)
(* particular never go below zero.                                         *)
THEOREM FramedTypeOK == Spec => []TypeOK
<1>1. Init => TypeOK
  <2>1. NoFrame \in Frame /\ NewDecoder \in Decoder
    BY NewDecoderType DEF NoFrame, Frame
  <2> QED
    BY <2>1, FramedAssumption
       DEF Init, TypeOK, SenderAt, TaskAt, NoWaiter
<1>2. TypeOK /\ [Next]_vars => TypeOK'
  <2> SUFFICES ASSUME TypeOK, [Next]_vars
               PROVE  TypeOK'
    OBVIOUS
  <2>1. ASSUME NEW e \in Ends, Steps(e) \/ Lose(e)
        PROVE  TypeOK'
    BY <2>1, SenderType, ReceiverType, CmdTaskType, WaiterType, OwnerType,
       LoseType DEF Steps
  <2>2. CASE UNCHANGED vars
    BY <2>2 DEF vars, senderVars, cmdVars, permitVars, appVars, TypeOK
  <2> QED
    BY <2>1, <2>2 DEF Next, Steps
<1> QED
  BY <1>1, <1>2, PTL DEF Spec

----------------------------------------------------------------------------
LEMMA QueueAppendOther ==
  ASSUME NEW q \in Seq(Cmd), NEW c \in Cmd, c.cmd # "RemotePermit",
         NEW d, NEW w, PermitQueueOK(q, d, w)
  PROVE  PermitQueueOK(Append(q, c), d, w)
BY DEF PermitQueueOK

LEMMA QueueAppendPermit ==
  ASSUME NEW q \in Seq(Cmd), NEW n \in Nat, NEW d, Awaits(d, n),
         NEW w, w.at # "none", PermitQueueOK(q, d, w)
  PROVE  PermitQueueOK(Append(q, [cmd |-> "RemotePermit", len |-> n]), d,
                       NoWaiter)
<1> DEFINE c == [cmd |-> "RemotePermit", len |-> n]
<1>1. \A i \in 1..Len(q) : q[i].cmd # "RemotePermit"
  BY DEF PermitQueueOK
<1>2. c.cmd = "RemotePermit" /\ c.len = n
  OBVIOUS
<1> HIDE DEF c
<1>3. /\ Len(Append(q, c)) = Len(q) + 1
      /\ Append(q, c)[Len(q) + 1] = c
      /\ \A i \in 1..Len(q) : Append(q, c)[i] = q[i]
  OBVIOUS
<1>4. PermitQueueOK(Append(q, c), d, NoWaiter)
  BY <1>1, <1>2, <1>3 DEF PermitQueueOK, NoWaiter
<1> QED
  BY <1>4 DEF c

LEMMA QueueTail ==
  ASSUME NEW q \in Seq(Cmd), q # << >>, NEW d, NEW w, PermitQueueOK(q, d, w)
  PROVE  PermitQueueOK(Tail(q), d, w)
<1>1. /\ Len(Tail(q)) = Len(q) - 1
      /\ \A i \in 1..Len(Tail(q)) : Tail(q)[i] = q[i + 1] /\ i + 1 \in 1..Len(q)
  OBVIOUS
<1> QED
  BY <1>1 DEF PermitQueueOK

(* When the permit is taken out of the queue none is left.                 *)
LEMMA QueueTailAfterPermit ==
  ASSUME NEW q \in Seq(Cmd), q # << >>, NEW d, NEW w, PermitQueueOK(q, d, w),
         Head(q).cmd = "RemotePermit", NEW d2, NEW w2
  PROVE  PermitQueueOK(Tail(q), d2, w2)
<1>1. /\ Len(Tail(q)) = Len(q) - 1 /\ 1 \in 1..Len(q) /\ Head(q) = q[1]
      /\ \A i \in 1..Len(Tail(q)) :
            Tail(q)[i] = q[i + 1] /\ i + 1 \in 1..Len(q) /\ i + 1 # 1
  OBVIOUS
<1>2. \A i \in 1..Len(Tail(q)) : Tail(q)[i].cmd # "RemotePermit"
  BY <1>1 DEF PermitQueueOK
<1> QED
  BY <1>2 DEF PermitQueueOK

(* A decoder that does not wait for a permit has none in its queue.        *)
LEMMA QueueWithoutPermit ==
  ASSUME NEW q \in Seq(Cmd), NEW d, NEW w, PermitQueueOK(q, d, w),
         d.state # "RemoteAwaitingPermit", NEW d2, NEW w2
  PROVE  PermitQueueOK(q, d2, w2)
BY DEF PermitQueueOK, Awaits

LEMMA QueueEmpty ==
  ASSUME NEW d, NEW w
  PROVE  PermitQueueOK(<< >>, d, w)
BY DEF PermitQueueOK

(* What an action does not touch of an end keeps that end's invariant.     *)
LEMMA EndUntouched ==
  ASSUME NEW e \in Ends, EndOK(e),
         /\ pc'[e] = pc[e] /\ task'[e] = task[e] /\ cmdq'[e] = cmdq[e]
         /\ dec'[e] = dec[e] /\ waiter'[e] = waiter[e]
  PROVE  EndOK(e)'
BY DEF EndOK, Running, Consistent, PermitQueueOK, Awaits

LEMMA StoppedEnd ==
  ASSUME TypeOK, NEW e \in Ends, EndOK(e), pc'[e] = pc[e], task[e] # "new",
         waiter' = waiter, NEW why \in {"failed", "closed", "dropped"},
         Stop(e, why)
  PROVE  EndOK(e)'
<1>1. /\ task'[e] = why /\ cmdq'[e] = << >> /\ dec'[e] = NewDecoder
  BY DEF TypeOK, Stop
<1>2. Consistent(NewDecoder) /\ ~ NewDecoder.did_error
  BY NewDecoderConsistent DEF NewDecoder
<1>3. PermitQueueOK(<< >>, NewDecoder, waiter[e])
  BY QueueEmpty
<1> QED
  BY <1>1, <1>2, <1>3 DEF EndOK, Running, Consistent, PermitQueueOK, Awaits

LEMMA InitPermitInv == Init => PermitInv
<1> SUFFICES ASSUME Init, NEW e \in Ends
             PROVE  EndOK(e)
  BY DEF PermitInv
<1>1. Consistent(NewDecoder) /\ ~ NewDecoder.did_error
  BY NewDecoderConsistent DEF NewDecoder
<1>2. PermitQueueOK(<< >>, NewDecoder, NoWaiter)
  BY QueueEmpty
<1> QED
  BY <1>1, <1>2 DEF Init, EndOK, Running, NoWaiter

(* The sender, the receive task and the owner: their commands are never    *)
(* permits, and they leave the decoder alone.                              *)
LEMMA SenderPermitInv ==
  ASSUME TypeOK, NEW e \in Ends, EndOK(e),
         Sender(e) \/ SendStart(e) \/ SendCancel(e)
  PROVE  EndOK(e)'
<1> USE DEF senderVars, cmdVars, permitVars, appVars
<1>1. CASE New(e) \/ NewFail(e)
  <2>1. /\ pc[e] = "new" /\ pc'[e] = "idle"
        /\ task'[e] = "run" \/ task'[e] = "closed"
        /\ cmdq' = cmdq /\ dec' = dec /\ waiter' = waiter
    BY <1>1 DEF New, NewFail, TypeOK
  <2>2. cmdq[e] = << >> /\ dec[e] = NewDecoder /\ waiter[e].at = "none"
    BY <2>1 DEF EndOK, Running
  <2>3. Consistent(NewDecoder) /\ ~ NewDecoder.did_error
    BY NewDecoderConsistent DEF NewDecoder
  <2>4. PermitQueueOK(<< >>, NewDecoder, waiter[e])
    BY QueueEmpty
  <2> QED
    BY <2>1, <2>2, <2>3, <2>4
       DEF EndOK, Running, Consistent, PermitQueueOK, Awaits
<1>2. CASE SendAwaitPermit(e)
  <2> DEFINE c == [cmd |-> "AwaitPermit", id |-> Len(sent[e])]
  <2>1. /\ cmdq'[e] = Append(cmdq[e], c) /\ c \in Cmd /\ c.cmd # "RemotePermit"
        /\ pc[e] = "await" /\ pc'[e] = "registering" /\ Running(e)
        /\ task' = task /\ dec' = dec /\ waiter' = waiter
    BY <1>2 DEF SendAwaitPermit, TypeOK, Cmd
  <2> HIDE DEF c
  <2>2. cmdq[e] \in Seq(Cmd)
    BY DEF TypeOK
  <2>3. PermitQueueOK(cmdq'[e], dec[e], waiter[e])
    BY <2>1, <2>2, QueueAppendOther DEF EndOK
  <2> QED
    BY <2>1, <2>3 DEF EndOK, Running, Consistent, PermitQueueOK, Awaits
<1>3. CASE \/ SendOne(e) \/ SendPermitRequest(e) \/ SendChunk(e)
           \/ SendFail(e) \/ SendStart(e) \/ SendCancel(e)
  <2>1. /\ pc[e] # "new" /\ pc'[e] # "new"
        /\ task' = task /\ cmdq' = cmdq /\ dec' = dec /\ waiter' = waiter
    BY <1>3 DEF SendOne, SendPermitRequest, SendChunk, SendFail, SendStart,
                SendCancel, GiveUp, TypeOK
  <2> QED
    BY <2>1 DEF EndOK, Running, Consistent, PermitQueueOK, Awaits
<1> QED
  BY <1>1, <1>2, <1>3 DEF Sender

LEMMA ReceiverPermitInv ==
  ASSUME TypeOK, NEW e \in Ends, EndOK(e),
         Receiver(e) \/ ConnClose(e) \/ OwnerRecv(e)
  PROVE  EndOK(e)'
<1> USE DEF senderVars, cmdVars, permitVars, appVars
<1>1. ASSUME NEW c \in Cmd, c.cmd # "RemotePermit", Running(e),
             cmdq' = [cmdq EXCEPT ![e] = Append(@, c)],
             pc' = pc, task' = task, dec' = dec, waiter' = waiter
      PROVE  EndOK(e)'
  <2>1. cmdq[e] \in Seq(Cmd) /\ cmdq'[e] = Append(cmdq[e], c)
    BY <1>1 DEF TypeOK
  <2>2. PermitQueueOK(cmdq'[e], dec[e], waiter[e])
    BY <1>1, <2>1, QueueAppendOther DEF EndOK
  <2> QED
    BY <1>1, <2>2 DEF EndOK, Running, Consistent, PermitQueueOK, Awaits
<1>2. CASE RecvTask(e)
  <2> DEFINE c == [cmd |-> "Recv", frame |-> Head(wire[e])]
  <2>1. c \in Cmd /\ c.cmd # "RemotePermit"
    BY <1>2 DEF RecvTask, TypeOK, Cmd
  <2>2. /\ cmdq' = [cmdq EXCEPT ![e] = Append(@, c)] /\ Running(e)
        /\ pc' = pc /\ task' = task /\ dec' = dec /\ waiter' = waiter
    BY <1>2 DEF RecvTask
  <2> QED
    BY <1>1, <2>1, <2>2
<1>3. CASE RecvTaskClose(e)
  <2> DEFINE c == [cmd |-> "Close"]
  <2>1. c \in Cmd /\ c.cmd # "RemotePermit"
    BY DEF Cmd
  <2>2. /\ cmdq' = [cmdq EXCEPT ![e] = Append(@, c)] /\ Running(e)
        /\ pc' = pc /\ task' = task /\ dec' = dec /\ waiter' = waiter
    BY <1>3 DEF RecvTaskClose
  <2> QED
    BY <1>1, <2>1, <2>2
<1>4. CASE RecvTaskStop(e) \/ ConnClose(e) \/ OwnerRecv(e)
  <2>1. pc' = pc /\ task' = task /\ cmdq' = cmdq /\ dec' = dec /\ waiter' = waiter
    BY <1>4 DEF RecvTaskStop, ConnClose, OwnerRecv
  <2> QED
    BY <2>1, EndUntouched
<1> QED
  BY <1>2, <1>3, <1>4 DEF Receiver

(* The detached task: the permit leaves it exactly when it enters the      *)
(* queue.                                                                  *)
LEMMA WaiterPermitInv ==
  ASSUME TypeOK, NEW e \in Ends, EndOK(e), Waiter(e)
  PROVE  EndOK(e)'
<1> USE DEF senderVars, cmdVars, appVars
<1>1. CASE WaiterPoll(e) \/ WaiterAcquire(e)
  <2>1. /\ pc' = pc /\ task' = task /\ cmdq' = cmdq /\ dec' = dec
        /\ waiter[e].at # "none" /\ waiter'[e].at # "none"
        /\ waiter'[e].len = waiter[e].len
    BY <1>1 DEF WaiterPoll, WaiterAcquire, TypeOK
  <2> QED
    BY <2>1 DEF EndOK, Running, Consistent, PermitQueueOK, Awaits
<1>2. CASE WaiterSend(e)
  <2> DEFINE n == waiter[e].len
  <2>1. /\ waiter[e].at # "none" /\ Running(e) /\ n \in Nat
        /\ cmdq[e] \in Seq(Cmd)
        /\ cmdq'[e] = Append(cmdq[e], [cmd |-> "RemotePermit", len |-> n])
        /\ waiter'[e] = NoWaiter
        /\ pc' = pc /\ task' = task /\ dec' = dec
    BY <1>2 DEF WaiterSend, TypeOK
  <2>2. Awaits(dec[e], n)
    BY <2>1 DEF EndOK
  <2>3. PermitQueueOK(cmdq'[e], dec[e], NoWaiter)
    BY <2>1, <2>2, QueueAppendPermit DEF EndOK
  <2> QED
    BY <2>1, <2>3 DEF EndOK, Running, Consistent, PermitQueueOK, Awaits, NoWaiter
<1>3. CASE WaiterGone(e)
  <2>1. /\ ~ Running(e) /\ waiter'[e] = NoWaiter
        /\ pc' = pc /\ task' = task /\ cmdq' = cmdq /\ dec' = dec
    BY <1>3 DEF WaiterGone, TypeOK
  <2>2. cmdq[e] = << >>
    BY <2>1 DEF EndOK
  <2>3. PermitQueueOK(<< >>, dec[e], NoWaiter)
    BY QueueEmpty
  <2> QED
    BY <2>1, <2>2, <2>3
       DEF EndOK, Running, Consistent, PermitQueueOK, Awaits, NoWaiter
<1> QED
  BY <1>1, <1>2, <1>3 DEF Waiter

(* What the decoder takes moves it out of RemoteAwaitingPermit only with   *)
(* the permit, and a request is only taken when none is under way.         *)
LEMMA AcceptedFrame ==
  ASSUME NEW d \in Decoder, NEW f \in Frame, ResultOf(d, f).what # "Err"
  PROVE  /\ ~ DecoderAfter(d, f).did_error
         /\ d.state = "RemoteAwaitingPermit" =>
              /\ DecoderAfter(d, f).state = d.state
              /\ DecoderAfter(d, f).awaiting = d.awaiting
         /\ ResultOf(d, f).what = "RemotePermitRequest" =>
              /\ d.state # "RemoteAwaitingPermit"
              /\ Awaits(DecoderAfter(d, f), ResultOf(d, f).len)
<1>1. Accepts(d, f)
  BY DEF ResultOf, Assembled, Err, Outcome
<1>2. CASE f.kind = "MultipartMessage"
  BY <1>1, <1>2 DEF Accepts, AcceptsChunk, AcceptsRequest, DecoderAfter,
         AfterChunk, ResultOf, Assembled, Outcome, Idle, Decoder
<1>3. CASE f.kind # "MultipartMessage"
  BY <1>1, <1>3
     DEF Accepts, AcceptsChunk, AcceptsRequest, DecoderAfter, AfterChunk,
            AfterRemoteRequest, AfterRemoteGrant,
            ResultOf, Assembled, Outcome, Idle, Decoder, Awaits
<1> QED
  BY <1>2, <1>3

LEMMA CmdRecvPermitInv ==
  ASSUME TypeOK, NEW e \in Ends, EndOK(e), CmdRecv(e)
  PROVE  EndOK(e)'
<1> DEFINE f == Head(cmdq[e]).frame
           r == ResultOf(dec[e], f)
           d == DecoderAfter(dec[e], f)
<1>1. /\ task[e] = "run" /\ cmdq[e] # << >> /\ cmdq[e] \in Seq(Cmd)
      /\ Head(cmdq[e]) \in Cmd /\ Head(cmdq[e]).cmd = "Recv"
  BY DEF CmdRecv, TakesCmd, TypeOK
<1>2. f \in Frame /\ dec[e] \in Decoder
  BY <1>1 DEF Cmd, TypeOK
<1>3. /\ r.what # "Err" /\ dec'[e] = d /\ cmdq'[e] = Tail(cmdq[e])
      /\ task'[e] = "run" \/ task'[e] = "deliver"
      /\ \/ r.what = "RemotePermitRequest"
            /\ waiter'[e] = [at |-> "spawned", len |-> r.len]
         \/ waiter'[e] = waiter[e]
      /\ pc' = pc \/ Notify(e, r.notify, "requested", "chunks")
  BY <1>1 DEF CmdRecv, TypeOK
<1>4. Consistent(d) /\ ~ d.did_error
  BY <1>2, <1>3, DecoderAfterConsistent, AcceptedFrame DEF EndOK
<1>5. pc[e] # "new" /\ pc'[e] # "new"
  BY <1>1, <1>3 DEF EndOK, Notify, TypeOK
<1>6. PermitQueueOK(Tail(cmdq[e]), dec[e], waiter[e])
  BY <1>1, QueueTail DEF EndOK
<1>7. Tail(cmdq[e]) \in Seq(Cmd)
  BY <1>1
<1> HIDE DEF f
<1>8. CASE dec[e].state = "RemoteAwaitingPermit"
  <2>1. d.state = dec[e].state /\ d.awaiting = dec[e].awaiting
    BY <1>2, <1>3, <1>8, AcceptedFrame
  <2>2. waiter'[e] = waiter[e]
    BY <1>2, <1>3, <1>8, AcceptedFrame
  <2> HIDE DEF r, d
  <2>3. Running(e) /\ Running(e)'
    BY <1>1, <1>3 DEF Running
  <2>4. waiter'[e].at # "none" => Awaits(d, waiter'[e].len)
    BY <2>1, <2>2, <2>3 DEF EndOK, Awaits
  <2>5. PermitQueueOK(cmdq'[e], d, waiter'[e])
    BY <1>3, <1>6, <2>1, <2>2 DEF PermitQueueOK, Awaits
  <2> QED
    BY <1>3, <1>4, <1>5, <2>3, <2>4, <2>5
       DEF EndOK, Consistent, PermitQueueOK, Awaits, Running
<1>9. CASE dec[e].state # "RemoteAwaitingPermit"
  <2>1. waiter[e].at = "none"
    BY <1>1, <1>9 DEF EndOK, Running, Awaits
  <2>2. r.what = "RemotePermitRequest" => Awaits(d, r.len)
    BY <1>2, <1>3, AcceptedFrame
  <2> HIDE DEF r, d
  <2>3. Running(e)'
    BY <1>3 DEF Running
  <2>4. waiter'[e].at # "none" => Awaits(d, waiter'[e].len)
    BY <1>3, <2>1, <2>2
  <2>5. PermitQueueOK(cmdq'[e], d, waiter'[e])
    BY <1>3, <1>6, <1>7, <1>9, QueueWithoutPermit
  <2> QED
    BY <1>3, <1>4, <1>5, <2>3, <2>4, <2>5
       DEF EndOK, Consistent, PermitQueueOK, Awaits, Running
<1> QED
  BY <1>8, <1>9

LEMMA CmdTaskPermitInv ==
  ASSUME TypeOK, NEW e \in Ends, EndOK(e), CmdTask(e)
  PROVE  EndOK(e)'
<1> USE DEF senderVars, permitVars, appVars
<1>1. CASE CmdRecvError(e) \/ CmdAwaitPermitError(e) \/ CmdClose(e)
  <2>1. PICK why \in {"failed", "closed", "dropped"} : Stop(e, why)
    BY <1>1 DEF CmdRecvError, CmdAwaitPermitError, CmdClose
  <2>2. pc' = pc /\ waiter' = waiter /\ task[e] # "new"
    BY <1>1 DEF CmdRecvError, CmdAwaitPermitError, CmdClose, TakesCmd
  <2> QED
    BY <2>1, <2>2, StoppedEnd
<1>2. CASE CmdRecv(e)
  BY <1>2, CmdRecvPermitInv
<1>3. CASE CmdDeliver(e) \/ CmdSendGrant(e)
  <2>1. /\ pc' = pc /\ cmdq' = cmdq /\ dec' = dec /\ waiter' = waiter
        /\ Running(e) /\ task'[e] = "run"
    BY <1>3 DEF CmdDeliver, CmdSendGrant, Running, TypeOK
  <2> QED
    BY <2>1 DEF EndOK, Running, Consistent, PermitQueueOK, Awaits
<1>4. CASE CmdAwaitPermit(e)
  <2> DEFINE k == Head(cmdq[e]).id
  <2>1. /\ task[e] = "run" /\ cmdq[e] # << >> /\ cmdq[e] \in Seq(Cmd)
        /\ Head(cmdq[e]) \in Cmd /\ Head(cmdq[e]).cmd = "AwaitPermit"
    BY <1>4 DEF CmdAwaitPermit, TakesCmd, TypeOK
  <2>2. k \in Nat /\ dec[e] \in Decoder
    BY <2>1 DEF Cmd, TypeOK
  <2>3. /\ MayRequest(dec[e]) /\ dec'[e] = AfterRequest(dec[e], k)
        /\ cmdq'[e] = Tail(cmdq[e]) /\ task' = task /\ waiter' = waiter
        /\ Notify(e, k, "registering", "registered")
    BY <1>4 DEF CmdAwaitPermit, TypeOK
  <2>4. /\ Consistent(dec'[e]) /\ ~ dec'[e].did_error
        /\ dec'[e].state = dec[e].state /\ dec'[e].awaiting = dec[e].awaiting
    <3> DEFINE d == AfterRequest(dec[e], k)
    <3>1. /\ ~ d.did_error
          /\ d.state = dec[e].state /\ d.awaiting = dec[e].awaiting
      BY <2>2, <2>3, AfterRequestKeeps
    <3>2. Consistent(dec[e])
      BY DEF EndOK
    <3>3. Consistent(d)
      BY <2>2, <3>2, AfterRequestConsistent
    <3>4. dec'[e] = d
      BY <2>3
    <3> HIDE DEF d
    <3> QED
      BY <3>1, <3>3, <3>4 DEF Consistent
  <2>5. pc[e] # "new" /\ pc'[e] # "new"
    BY <2>1, <2>3 DEF EndOK, Notify, TypeOK
  <2>6. PermitQueueOK(Tail(cmdq[e]), dec[e], waiter[e])
    BY <2>1, QueueTail DEF EndOK
  <2> QED
    BY <2>1, <2>3, <2>4, <2>5, <2>6
       DEF EndOK, Running, Consistent, PermitQueueOK, Awaits
<1>5. CASE CmdRemotePermit(e)
  <2> DEFINE n == Head(cmdq[e]).len
  <2>1. /\ task[e] = "run" /\ cmdq[e] # << >> /\ cmdq[e] \in Seq(Cmd)
        /\ Head(cmdq[e]).cmd = "RemotePermit" /\ dec[e] \in Decoder
    BY <1>5 DEF CmdRemotePermit, TakesCmd, TypeOK
  <2>2. /\ MayGrant(dec[e]) /\ dec'[e] = AfterGrant(dec[e], n)
        /\ cmdq'[e] = Tail(cmdq[e]) /\ task'[e] = "grant"
        /\ waiter' = waiter /\ pc' = pc
    BY <1>5 DEF CmdRemotePermit, TypeOK
  <2>3. Awaits(dec[e], n) /\ waiter[e].at = "none"
    <3>1. 1 \in 1..Len(cmdq[e]) /\ cmdq[e][1] = Head(cmdq[e])
      BY <2>1
    <3> QED
      BY <2>1, <3>1 DEF EndOK, PermitQueueOK
  <2>4. Consistent(dec'[e]) /\ ~ dec'[e].did_error
    <3>1. n = dec[e].awaiting
      BY <2>3 DEF Awaits
    <3>2. Consistent(AfterGrant(dec[e], n))
      BY <2>1, <2>2, <3>1, AfterGrantConsistent DEF EndOK
    <3> QED
      BY <2>1, <2>2, <3>2 DEF AfterGrant, MayGrant, Decoder, Consistent
  <2>5. PermitQueueOK(Tail(cmdq[e]), dec'[e], waiter'[e])
    BY <2>1, QueueTailAfterPermit DEF EndOK
  <2> QED
    BY <2>1, <2>2, <2>3, <2>4, <2>5
       DEF EndOK, Running, Consistent, PermitQueueOK, Awaits
<1> QED
  BY <1>1, <1>2, <1>3, <1>4, <1>5 DEF CmdTask

LEMMA DropPermitInv ==
  ASSUME TypeOK, NEW e \in Ends, EndOK(e), Drop(e)
  PROVE  EndOK(e)'
<1>1. /\ pc' = pc /\ waiter' = waiter /\ Stop(e, "dropped")
      /\ pc[e] = "idle"
  BY DEF Drop, senderVars
<1>2. task[e] # "new"
  BY <1>1 DEF EndOK
<1> QED
  BY <1>1, <1>2, StoppedEnd

(* A step of one end leaves the tasks of the others alone.                 *)
LEMMA OtherEnds ==
  ASSUME TypeOK, NEW e \in Ends, NEW o \in Ends, o # e, Steps(e)
  PROVE  /\ pc'[o] = pc[o] /\ task'[o] = task[o] /\ cmdq'[o] = cmdq[o]
         /\ dec'[o] = dec[o] /\ waiter'[o] = waiter[o]
<1> USE DEF TypeOK, senderVars, cmdVars, permitVars, appVars
<1>1. CASE Sender(e) \/ SendStart(e) \/ SendCancel(e)
  BY <1>1 DEF Sender, New, NewFail, SendOne, SendAwaitPermit, SendChunk,
              SendPermitRequest, SendFail, GiveUp, SendStart, SendCancel
<1>2. CASE Receiver(e) \/ ConnClose(e) \/ OwnerRecv(e)
  BY <1>2 DEF Receiver, RecvTask, RecvTaskClose, RecvTaskStop, ConnClose,
              OwnerRecv
<1>3. CASE CmdRecv(e)
  <2>1. /\ pc \in [Ends -> SenderAt] /\ task \in [Ends -> TaskAt]
        /\ cmdq \in [Ends -> Seq(Cmd)] /\ dec \in [Ends -> Decoder]
    OBVIOUS
  <2>2. PICK at, next, where, d :
          /\ pc' = pc \/ pc' = [pc EXCEPT ![e] = next]
          /\ task' = task \/ task' = [task EXCEPT ![e] = at]
          /\ waiter' = waiter \/ waiter' = [waiter EXCEPT ![e] = where]
          /\ dec' = [dec EXCEPT ![e] = d]
          /\ cmdq' = [cmdq EXCEPT ![e] = Tail(@)]
    BY <1>3 DEF CmdRecv, Notify
  <2> QED
    BY <2>1, <2>2
<1>4. CASE CmdTask(e) /\ ~ CmdRecv(e)
  BY <1>4 DEF CmdTask, CmdRecvError, CmdDeliver, CmdAwaitPermit,
              CmdAwaitPermitError, CmdRemotePermit, CmdSendGrant, CmdClose,
              Notify, Stop
<1>5. CASE Waiter(e)
  BY <1>5 DEF Waiter, WaiterPoll, WaiterAcquire, WaiterSend, WaiterGone
<1>6. CASE Drop(e)
  BY <1>6 DEF Drop, Stop
<1> QED
  BY <1>1, <1>2, <1>3, <1>4, <1>5, <1>6 DEF Steps

LEMMA NextPermitInv == TypeOK /\ PermitInv /\ [Next]_vars => PermitInv'
<1> SUFFICES ASSUME TypeOK, PermitInv, [Next]_vars, NEW o \in Ends
             PROVE  EndOK(o)'
  BY DEF PermitInv
<1>1. EndOK(o)
  BY DEF PermitInv
<1>2. ASSUME NEW e \in Ends, Steps(e)
      PROVE  EndOK(o)'
  <2>1. CASE e = o
    BY <1>1, <1>2, <2>1, SenderPermitInv, ReceiverPermitInv, WaiterPermitInv,
       CmdTaskPermitInv, DropPermitInv DEF Steps
  <2>2. CASE e # o
    BY <1>1, <1>2, <2>2, OtherEnds, EndUntouched
  <2> QED
    BY <2>1, <2>2
<1>3. CASE UNCHANGED vars \/ \E e \in Ends : Lose(e)
  <2>1. /\ pc' = pc /\ task' = task /\ cmdq' = cmdq /\ dec' = dec
        /\ waiter' = waiter
    BY <1>3, LosesOne DEF vars, senderVars, cmdVars, permitVars, appVars
  <2> QED
    BY <1>1, <2>1, EndUntouched
<1> QED
  BY <1>2, <1>3 DEF Next, Steps

(* The invariant about permits, from which the theorems below follow.      *)
THEOREM FramedInvariant == Spec => []PermitInv
<1> QED
  BY InitPermitInv, NextPermitInv, FramedTypeOK, PTL DEF Spec

(* Every permit on its way answers the one request its decoder waits with, *)
(* on any number of connections, with sends cancelled, connections cut and *)
(* tasks gone at any moment (framed.rs:111-181).                           *)
THEOREM PermitsAnswerRequests == Spec => []PermitAnswersRequest
<1>1. PermitInv => PermitAnswersRequest
  BY DEF PermitInv, EndOK, PermitAnswersRequest
<1> QED
  BY <1>1, FramedInvariant, PTL

(* No end ever keeps more of an incomplete message than the permit that    *)
(* its decoder holds (proto.rs:331-355, framed.rs:154-181).                *)
THEOREM BuffersWithinPermits == Spec => []BufferedWithinPermit
<1>1. TypeOK /\ PermitInv => BufferedWithinPermit
  BY DEF TypeOK, PermitInv, EndOK, Consistent, BufferedWithinPermit, Decoder
<1> QED
  BY <1>1, FramedInvariant, FramedTypeOK, PTL

----------------------------------------------------------------------------
----------------------------------------------------------------------------
(* What the commands and the connection do to a stream.                    *)

LEMMA StreamShape ==
  ASSUME NEW q \in Seq(Cmd), NEW w \in Seq(Frame)
  PROVE  /\ StreamOf(q, w) \in Seq(Cmd)
         /\ Len(StreamOf(q, w)) = Len(q) + Len(w)
         /\ \A i \in 1..Len(q) : StreamOf(q, w)[i] = q[i]
         /\ \A i \in Len(q) + 1..Len(q) + Len(w) :
              /\ StreamOf(q, w)[i] = RecvCmd(w[i - Len(q)])
              /\ StreamOf(q, w)[i].cmd = "Recv"
              /\ StreamOf(q, w)[i].frame = w[i - Len(q)]
<1> DEFINE r == [i \in 1..Len(w) |-> RecvCmd(w[i])]
<1>1. \A i \in 1..Len(w) : RecvCmd(w[i]) \in Cmd
  BY DEF RecvCmd, Cmd
<1>2. r \in Seq(Cmd) /\ Len(r) = Len(w) /\ \A i \in 1..Len(w) : r[i] = RecvCmd(w[i])
  BY <1>1
<1>3. StreamOf(q, w) = q \o r
  BY DEF StreamOf
<1> HIDE DEF r
<1>4. /\ q \o r \in Seq(Cmd) /\ Len(q \o r) = Len(q) + Len(w)
      /\ \A i \in 1..Len(q) : (q \o r)[i] = q[i]
      /\ \A i \in Len(q) + 1..Len(q) + Len(w) : (q \o r)[i] = r[i - Len(q)]
  BY <1>2
<1>5. \A i \in Len(q) + 1..Len(q) + Len(w) : i - Len(q) \in 1..Len(w)
  OBVIOUS
<1> QED
  BY <1>2, <1>3, <1>4, <1>5 DEF RecvCmd

LEMMA SeqExt ==
  ASSUME NEW S, NEW s \in Seq(S), NEW t \in Seq(S), Len(s) = Len(t),
         \A i \in 1..Len(s) : s[i] = t[i]
  PROVE  s = t
OBVIOUS

LEMMA ShapeHolds ==
  ASSUME NEW q \in Seq(Cmd), NEW w \in Seq(Frame)
  PROVE  Shape(StreamOf(q, w), q, w)
BY StreamShape DEF Shape

LEMMA StreamGrows ==
  ASSUME NEW q \in Seq(Cmd), NEW w \in Seq(Frame), NEW f \in Frame
  PROVE  StreamOf(q, Append(w, f)) = Append(StreamOf(q, w), RecvCmd(f))
<1> DEFINE S == StreamOf(q, w)
           v == Append(w, f)
           T == StreamOf(q, v)
           A == Append(S, RecvCmd(f))
<1>1. /\ v \in Seq(Frame) /\ Len(v) = Len(w) + 1 /\ v[Len(w) + 1] = f
      /\ \A i \in 1..Len(w) : v[i] = w[i]
  OBVIOUS
<1> HIDE DEF v
<1>2. Shape(S, q, w) /\ Shape(T, q, v) /\ RecvCmd(f) \in Cmd
  BY <1>1, ShapeHolds DEF RecvCmd, Cmd
<1> HIDE DEF S, T
<1>3. S \in Seq(Cmd) /\ T \in Seq(Cmd) /\ Len(q) \in Nat /\ Len(w) \in Nat
  BY <1>2 DEF Shape
<1>4. /\ A \in Seq(Cmd) /\ Len(A) = Len(S) + 1 /\ A[Len(S) + 1] = RecvCmd(f)
      /\ \A i \in 1..Len(S) : A[i] = S[i]
  BY <1>2, <1>3
<1> HIDE DEF A
<1>5. ASSUME NEW i \in 1..Len(T)
      PROVE  T[i] = A[i]
  <2>1. CASE i \in 1..Len(q)
    BY <1>1, <1>2, <1>3, <1>4, <2>1 DEF Shape
  <2>2. CASE i \in Len(q) + 1..Len(q) + Len(w)
    <3>1. /\ i - Len(q) \in 1..Len(w) /\ i \in 1..Len(S)
          /\ i \in Len(q) + 1..Len(q) + Len(v)
      BY <1>1, <1>2, <1>3, <2>2 DEF Shape
    <3>2. T[i] = RecvCmd(v[i - Len(q)]) /\ S[i] = RecvCmd(w[i - Len(q)])
      BY <1>2, <2>2, <3>1 DEF Shape
    <3>3. v[i - Len(q)] = w[i - Len(q)] /\ A[i] = S[i]
      BY <1>1, <1>4, <3>1
    <3> QED
      BY <3>2, <3>3
  <2>3. CASE i = Len(q) + Len(w) + 1
    <3>1. i - Len(q) = Len(w) + 1 /\ i \in Len(q) + 1..Len(q) + Len(v)
      BY <1>1, <1>3, <2>3
    <3> QED
      BY <1>1, <1>2, <1>3, <1>4, <2>3, <3>1 DEF Shape
  <2>4. Len(T) = Len(q) + (Len(w) + 1)
    BY <1>1, <1>2 DEF Shape
  <2>5. i \in 1..Len(q) \/ i \in Len(q) + 1..Len(q) + Len(w) \/ i = Len(q) + Len(w) + 1
    <3>1. \A k, l \in Nat : \A j \in 1..(k + (l + 1)) :
            j \in 1..k \/ j \in k + 1..k + l \/ j = k + l + 1
      BY ONLY SMT
    <3> QED
      BY <1>3, <2>4, <3>1
  <2> QED
    BY <2>1, <2>2, <2>3, <2>5
<1>6. Len(T) = Len(A)
  BY <1>1, <1>2, <1>3, <1>4 DEF Shape
<1>7. T = A
  BY <1>3, <1>4, <1>5, <1>6, SeqExt
<1> QED
  BY <1>7 DEF A, S, T, v

(* The receive task moves a frame within the stream.                       *)
LEMMA StreamMoves ==
  ASSUME NEW q \in Seq(Cmd), NEW w \in Seq(Frame), w # << >>
  PROVE  StreamOf(Append(q, RecvCmd(Head(w))), Tail(w)) = StreamOf(q, w)
<1> DEFINE S == StreamOf(q, w)
           p == Append(q, RecvCmd(Head(w)))
           v == Tail(w)
           T == StreamOf(p, v)
<1>1. /\ Head(w) \in Frame /\ Head(w) = w[1] /\ v \in Seq(Frame)
      /\ Len(v) = Len(w) - 1 /\ Len(w) \in Nat \ {0}
      /\ \A i \in 1..Len(v) : v[i] = w[i + 1]
  OBVIOUS
<1>2. RecvCmd(Head(w)) \in Cmd
  BY <1>1 DEF RecvCmd, Cmd
<1>3. /\ p \in Seq(Cmd) /\ Len(p) = Len(q) + 1 /\ p[Len(q) + 1] = RecvCmd(w[1])
      /\ \A i \in 1..Len(q) : p[i] = q[i]
  BY <1>1, <1>2
<1> HIDE DEF p, v
<1>4. Shape(S, q, w) /\ Shape(T, p, v)
  BY <1>1, <1>3, ShapeHolds
<1> HIDE DEF S, T
<1>5. S \in Seq(Cmd) /\ T \in Seq(Cmd) /\ Len(q) \in Nat /\ Len(S) = Len(T)
  BY <1>1, <1>3, <1>4 DEF Shape
<1>6. ASSUME NEW i \in 1..Len(S)
      PROVE  S[i] = T[i]
  <2>1. CASE i \in 1..Len(q)
    <3>1. i \in 1..Len(p)
      BY <1>3, <1>5, <2>1
    <3> QED
      BY <1>3, <1>4, <2>1, <3>1 DEF Shape
  <2>2. CASE i = Len(q) + 1
    <3>1. i \in 1..Len(p) /\ i \in Len(q) + 1..Len(q) + Len(w) /\ i - Len(q) = 1
      BY <1>1, <1>3, <1>5, <2>2
    <3> QED
      BY <1>3, <1>4, <2>2, <3>1 DEF Shape
  <2>3. CASE i \in Len(q) + 2..Len(q) + Len(w)
    <3>1. /\ i \in Len(p) + 1..Len(p) + Len(v)
          /\ i \in Len(q) + 1..Len(q) + Len(w)
          /\ i - Len(p) \in 1..Len(v) /\ i - Len(p) + 1 = i - Len(q)
      BY <1>1, <1>3, <1>5, <2>3
    <3>2. T[i] = RecvCmd(v[i - Len(p)]) /\ S[i] = RecvCmd(w[i - Len(q)])
      BY <1>4, <3>1 DEF Shape
    <3>3. v[i - Len(p)] = w[i - Len(q)]
      BY <1>1, <3>1
    <3> QED
      BY <3>2, <3>3
  <2> QED
    BY <1>1, <1>4, <1>5, <2>1, <2>2, <2>3 DEF Shape
<1>7. S = T
  BY <1>5, <1>6, SeqExt
<1> QED
  BY <1>7 DEF S, T, p, v

LEMMA StreamTaken ==
  ASSUME NEW q \in Seq(Cmd), q # << >>, NEW w \in Seq(Frame)
  PROVE  /\ StreamOf(Tail(q), w) = Tail(StreamOf(q, w))
         /\ StreamOf(q, w) # << >> /\ Head(StreamOf(q, w)) = Head(q)
<1> DEFINE S == StreamOf(q, w)
           p == Tail(q)
           T == StreamOf(p, w)
<1>1. /\ p \in Seq(Cmd) /\ Len(p) = Len(q) - 1
      /\ Len(q) \in Nat \ {0} /\ Head(q) = q[1]
      /\ \A i \in 1..Len(p) : p[i] = q[i + 1]
  OBVIOUS
<1> HIDE DEF p
<1>2. Shape(S, q, w) /\ Shape(T, p, w)
  BY <1>1, ShapeHolds
<1> HIDE DEF S, T
<1>3. /\ S \in Seq(Cmd) /\ T \in Seq(Cmd) /\ Len(w) \in Nat
      /\ Len(T) = Len(S) - 1 /\ Len(S) # 0 /\ S[1] = Head(q)
  BY <1>1, <1>2 DEF Shape
<1>4. ASSUME NEW i \in 1..Len(T)
      PROVE  T[i] = S[i + 1]
  <2>1. CASE i \in 1..Len(p)
    <3>1. i + 1 \in 1..Len(q)
      BY <1>1, <2>1
    <3> QED
      BY <1>1, <1>2, <2>1, <3>1 DEF Shape
  <2>2. CASE i \in Len(p) + 1..Len(p) + Len(w)
    <3>1. /\ i + 1 \in Len(q) + 1..Len(q) + Len(w)
          /\ i - Len(p) = (i + 1) - Len(q)
      BY <1>1, <1>3, <2>2
    <3> QED
      BY <1>2, <2>2, <3>1 DEF Shape
  <2> QED
    BY <1>1, <1>2, <1>3, <2>1, <2>2 DEF Shape
<1>5. S # << >> /\ Head(S) = S[1]
  BY <1>3
<1>6. /\ Tail(S) \in Seq(Cmd) /\ Len(Tail(S)) = Len(S) - 1
      /\ \A i \in 1..Len(Tail(S)) : Tail(S)[i] = S[i + 1]
  BY <1>3, <1>5
<1>7. T = Tail(S)
  BY <1>3, <1>4, <1>6, SeqExt
<1> QED
  BY <1>3, <1>5, <1>7 DEF S, T, p

(* A sequence whose frames are, in order, the first ones of another.       *)
LEMMA Embedded ==
  ASSUME NEW S \in Seq(Cmd), NEW T \in Seq(Cmd),
         NEW g \in [Recvs(T) -> Recvs(S)],
         \A i \in Recvs(T) : T[i].frame = S[g[i]].frame,
         \A i, j \in Recvs(T) : j < i <=> g[j] < g[i],
         \A i \in Recvs(T) : \A k \in Recvs(S) :
           k < g[i] => \E j \in Recvs(T) : g[j] = k
  PROVE  /\ Frames(T) \subseteq Frames(S) /\ Items(T) \subseteq Items(S)
         /\ \A d : Legal(S, d) => Legal(T, d)
         /\ (\A k \in Recvs(S) : \E j \in Recvs(T) : g[j] = k) =>
              Frames(T) = Frames(S)
<1>1. Frames(T) \subseteq Frames(S)
  BY DEF Frames
<1>2. ASSUME NEW i \in Recvs(T)
      PROVE  Before(T, i) = Before(S, g[i])
  <2>1. Before(T, i) \subseteq Before(S, g[i])
    BY DEF Before
  <2>2. Before(S, g[i]) \subseteq Before(T, i)
    <3> SUFFICES ASSUME NEW k \in Recvs(S), k < g[i]
                 PROVE  S[k].frame \in Before(T, i)
      BY DEF Before
    <3>1. PICK j \in Recvs(T) : g[j] = k
      OBVIOUS
    <3> QED
      BY <3>1 DEF Before
  <2> QED
    BY <2>1, <2>2
<1>3. ASSUME NEW d, Legal(S, d)
      PROVE  Legal(T, d)
  BY <1>2, <1>3 DEF Legal
<1>4. ASSUME \A k \in Recvs(S) : \E j \in Recvs(T) : g[j] = k
      PROVE  Frames(S) \subseteq Frames(T)
  BY <1>4 DEF Frames
<1>5. Items(T) \subseteq Items(S)
  BY <1>2 DEF Items
<1> QED
  BY <1>1, <1>3, <1>4, <1>5

(* A command that is no frame joins the command channel.                   *)
LEMMA StreamOtherCmd ==
  ASSUME NEW q \in Seq(Cmd), NEW w \in Seq(Frame), NEW c \in Cmd, c.cmd # "Recv"
  PROVE  /\ Frames(StreamOf(Append(q, c), w)) = Frames(StreamOf(q, w))
         /\ Items(StreamOf(Append(q, c), w)) \subseteq Items(StreamOf(q, w))
         /\ \A d : Legal(StreamOf(q, w), d) => Legal(StreamOf(Append(q, c), w), d)
<1> DEFINE S == StreamOf(q, w)
           p == Append(q, c)
           T == StreamOf(p, w)
<1>1. /\ p \in Seq(Cmd) /\ Len(p) = Len(q) + 1 /\ p[Len(q) + 1] = c
      /\ \A i \in 1..Len(q) : p[i] = q[i]
  OBVIOUS
<1> HIDE DEF p
<1>2. Shape(S, q, w) /\ Shape(T, p, w)
  BY <1>1, ShapeHolds
<1> HIDE DEF S, T
<1>3. /\ S \in Seq(Cmd) /\ T \in Seq(Cmd) /\ Len(T) = Len(S) + 1
      /\ Len(q) \in Nat /\ Len(w) \in Nat /\ Len(S) = Len(q) + Len(w)
  BY <1>1, <1>2 DEF Shape
<1>4. T[Len(q) + 1].cmd # "Recv"
  BY <1>1, <1>2, <1>3 DEF Shape
<1>5. \A i \in 1..Len(q) : T[i] = S[i]
  BY <1>1, <1>2, <1>3 DEF Shape
<1>6. ASSUME NEW i \in Len(q) + 2..Len(T)
      PROVE  T[i] = S[i - 1]
  <2>1. /\ i \in Len(p) + 1..Len(p) + Len(w) /\ i - 1 \in Len(q) + 1..Len(q) + Len(w)
        /\ i - Len(p) = (i - 1) - Len(q)
    BY <1>1, <1>3
  <2>2. T[i] = RecvCmd(w[i - Len(p)]) /\ S[i - 1] = RecvCmd(w[(i - 1) - Len(q)])
    BY <1>2, <2>1 DEF Shape
  <2> QED
    BY <2>1, <2>2
<1> DEFINE at(i) == IF i <= Len(q) THEN i ELSE i - 1
           g == [i \in Recvs(T) |-> at(i)]
<1>7. ASSUME NEW i \in Recvs(T)
      PROVE  /\ i \in Int /\ i # Len(q) + 1
             /\ at(i) \in Recvs(S) /\ T[i].frame = S[at(i)].frame
  <2>1. i \in 1..Len(T) /\ T[i].cmd = "Recv"
    BY DEF Recvs
  <2>2. i \in Int /\ i # Len(q) + 1
    BY <1>3, <1>4, <2>1
  <2>3. CASE i <= Len(q)
    BY <1>3, <1>5, <2>1, <2>2, <2>3 DEF Recvs
  <2>4. CASE ~ (i <= Len(q))
    <3>1. i \in Len(q) + 2..Len(T) /\ i - 1 \in 1..Len(S)
      BY <1>3, <2>1, <2>2, <2>4
    <3>2. T[i] = S[i - 1]
      BY <1>6, <3>1
    <3> QED
      BY <2>1, <2>2, <2>4, <3>1, <3>2 DEF Recvs
  <2> QED
    BY <2>3, <2>4
<1>8. ASSUME NEW k \in Recvs(S)
      PROVE  \E j \in Recvs(T) : at(j) = k
  <2>1. CASE k <= Len(q)
    <3>1. k \in Recvs(T) /\ at(k) = k
      BY <1>3, <1>5, <2>1 DEF Recvs
    <3> QED
      BY <3>1
  <2>2. CASE ~ (k <= Len(q))
    <3>1. k + 1 \in Len(q) + 2..Len(T) /\ k = (k + 1) - 1
      BY <1>3, <2>2 DEF Recvs
    <3>2. k + 1 \in Recvs(T) /\ at(k + 1) = k
      BY <1>3, <1>6, <2>2, <3>1 DEF Recvs
    <3> QED
      BY <3>2
  <2> QED
    BY <2>1, <2>2
<1>9. ASSUME NEW i \in Recvs(T), NEW j \in Recvs(T)
      PROVE  j < i <=> at(j) < at(i)
  BY <1>3, <1>7
<1>10. /\ g \in [Recvs(T) -> Recvs(S)]
       /\ \A i \in Recvs(T) : g[i] = at(i)
  BY <1>7
<1> HIDE DEF at, g
<1>11. /\ \A i \in Recvs(T) : T[i].frame = S[g[i]].frame
       /\ \A i, j \in Recvs(T) : j < i <=> g[j] < g[i]
       /\ \A k \in Recvs(S) : \E j \in Recvs(T) : g[j] = k
  BY <1>7, <1>8, <1>9, <1>10
<1>12. \A i \in Recvs(T) : \A k \in Recvs(S) :
          k < g[i] => \E j \in Recvs(T) : g[j] = k
  BY <1>11
<1>13. /\ Frames(T) = Frames(S) /\ Items(T) \subseteq Items(S)
       /\ \A d : Legal(S, d) => Legal(T, d)
  BY <1>3, <1>10, <1>11, <1>12, Embedded
<1> QED
  BY <1>13 DEF S, T, p

(* The connection is cut: the last frames are lost.                        *)
LEMMA StreamCut ==
  ASSUME NEW q \in Seq(Cmd), NEW w \in Seq(Frame), NEW k \in 0..Len(w)
  PROVE  /\ Frames(StreamOf(q, SubSeq(w, 1, k))) \subseteq Frames(StreamOf(q, w))
         /\ Items(StreamOf(q, SubSeq(w, 1, k))) \subseteq Items(StreamOf(q, w))
         /\ \A d : Legal(StreamOf(q, w), d) =>
                     Legal(StreamOf(q, SubSeq(w, 1, k)), d)
<1> DEFINE S == StreamOf(q, w)
           v == SubSeq(w, 1, k)
           T == StreamOf(q, v)
<1>1. /\ v \in Seq(Frame) /\ Len(v) = k /\ k \in Nat /\ k <= Len(w)
      /\ \A i \in 1..k : v[i] = w[i]
  OBVIOUS
<1> HIDE DEF v
<1>2. Shape(S, q, w) /\ Shape(T, q, v)
  BY <1>1, ShapeHolds
<1> HIDE DEF S, T
<1>3. /\ S \in Seq(Cmd) /\ T \in Seq(Cmd) /\ Len(T) <= Len(S)
      /\ Len(q) \in Nat /\ Len(w) \in Nat /\ Len(S) = Len(q) + Len(w)
      /\ Len(T) = Len(q) + k
  BY <1>1, <1>2 DEF Shape
<1>4. ASSUME NEW i \in 1..Len(T)
      PROVE  T[i] = S[i]
  <2>1. CASE i \in 1..Len(q)
    BY <1>2, <2>1 DEF Shape
  <2>2. CASE i \in Len(q) + 1..Len(q) + k
    <3>1. /\ i - Len(q) \in 1..k /\ i \in Len(q) + 1..Len(q) + Len(w)
          /\ i \in Len(q) + 1..Len(q) + Len(v)
      BY <1>1, <1>3, <2>2
    <3>2. T[i] = RecvCmd(v[i - Len(q)]) /\ S[i] = RecvCmd(w[i - Len(q)])
      BY <1>2, <3>1 DEF Shape
    <3> QED
      BY <1>1, <3>1, <3>2
  <2> QED
    BY <1>1, <1>3, <2>1, <2>2
<1> DEFINE g == [i \in Recvs(T) |-> i]
<1>5. \A i \in Recvs(T) : i \in 1..Len(T) /\ i \in Recvs(S) /\ g[i] = i
  BY <1>3, <1>4 DEF Recvs
<1>6. g \in [Recvs(T) -> Recvs(S)]
  BY <1>5
<1> HIDE DEF g
<1>7. /\ \A i \in Recvs(T) : T[i].frame = S[g[i]].frame
      /\ \A i, j \in Recvs(T) : j < i <=> g[j] < g[i]
  BY <1>4, <1>5
<1>8. ASSUME NEW i \in Recvs(T), NEW j \in Recvs(S), j < g[i]
      PROVE  \E o \in Recvs(T) : g[o] = j
  <2>1. j \in Recvs(T)
    BY <1>3, <1>4, <1>5, <1>8 DEF Recvs
  <2> QED
    BY <1>5, <2>1
<1>9. /\ Frames(T) \subseteq Frames(S) /\ Items(T) \subseteq Items(S)
      /\ \A d : Legal(S, d) => Legal(T, d)
  BY <1>3, <1>6, <1>7, <1>8, Embedded
<1> QED
  BY <1>9 DEF S, T, v

(* The command task takes a command that is no frame.                      *)
LEMMA TailOtherCmd ==
  ASSUME NEW S \in Seq(Cmd), S # << >>, Head(S).cmd # "Recv"
  PROVE  /\ Frames(Tail(S)) = Frames(S) /\ Items(Tail(S)) \subseteq Items(S)
         /\ \A d : Legal(S, d) => Legal(Tail(S), d)
<1> DEFINE T == Tail(S)
<1>1. /\ T \in Seq(Cmd) /\ Len(T) = Len(S) - 1 /\ Head(S) = S[1]
      /\ Len(S) \in Nat /\ \A i \in 1..Len(T) : T[i] = S[i + 1]
  OBVIOUS
<1> HIDE DEF T
<1> DEFINE g == [i \in Recvs(T) |-> i + 1]
<1>2. \A i \in Recvs(T) : i \in 1..Len(T) /\ i + 1 \in Recvs(S) /\ g[i] = i + 1
  BY <1>1 DEF Recvs
<1>3. g \in [Recvs(T) -> Recvs(S)]
  BY <1>2
<1> HIDE DEF g
<1>4. /\ \A i \in Recvs(T) : T[i].frame = S[g[i]].frame
      /\ \A i, j \in Recvs(T) : j < i <=> g[j] < g[i]
  BY <1>1, <1>2
<1>5. ASSUME NEW j \in Recvs(S)
      PROVE  \E o \in Recvs(T) : g[o] = j
  <2>1. j # 1
    BY <1>1 DEF Recvs
  <2>2. j - 1 \in Recvs(T) /\ (j - 1) + 1 = j
    BY <1>1, <2>1 DEF Recvs
  <2> QED
    BY <1>2, <2>2
<1>6. \A k \in Recvs(S) : \E j \in Recvs(T) : g[j] = k
  BY <1>5
<1>7. \A i \in Recvs(T) : \A k \in Recvs(S) :
        k < g[i] => \E j \in Recvs(T) : g[j] = k
  BY <1>6
<1>8. /\ Frames(T) = Frames(S) /\ Items(T) \subseteq Items(S)
      /\ \A d : Legal(S, d) => Legal(T, d)
  BY <1>1, <1>3, <1>4, <1>6, <1>7, Embedded
<1> QED
  BY <1>8 DEF T

(* The command task takes a frame.                                         *)
LEMMA TailFrame ==
  ASSUME NEW S \in Seq(Cmd), S # << >>, Head(S).cmd = "Recv"
  PROVE  /\ Frames(S) = {Head(S).frame} \cup Frames(Tail(S))
         /\ << Head(S).frame, {} >> \in Items(S)
         /\ \A x \in Items(Tail(S)) :
              << x[1], {Head(S).frame} \cup x[2] >> \in Items(S)
         /\ \A d : Legal(S, d) =>
              /\ Fits({}, Head(S).frame, d)
              /\ \A i \in Recvs(Tail(S)) :
                   Fits({Head(S).frame} \cup Before(Tail(S), i),
                        Tail(S)[i].frame, d)
<1> DEFINE T == Tail(S)
           f == Head(S).frame
<1>1. /\ T \in Seq(Cmd) /\ Len(T) = Len(S) - 1 /\ f = S[1].frame
      /\ Len(S) \in Nat /\ \A i \in 1..Len(T) : T[i] = S[i + 1]
  OBVIOUS
<1>2. 1 \in Recvs(S)
  BY <1>1 DEF Recvs
<1> HIDE DEF T, f
<1>3. \A i \in Recvs(T) :
        i \in 1..Len(T) /\ i + 1 \in Recvs(S) /\ T[i].frame = S[i + 1].frame
  BY <1>1 DEF Recvs
<1>4. \A j \in Recvs(S) : j # 1 =>
        j - 1 \in Recvs(T) /\ T[j - 1].frame = S[j].frame /\ j \in Int
  <2> SUFFICES ASSUME NEW j \in Recvs(S), j # 1
               PROVE  j - 1 \in Recvs(T) /\ T[j - 1].frame = S[j].frame /\ j \in Int
    OBVIOUS
  <2>1. j - 1 \in 1..Len(T) /\ (j - 1) + 1 = j
    BY <1>1 DEF Recvs
  <2>2. T[j - 1] = S[j]
    BY <1>1, <2>1
  <2> QED
    BY <2>1, <2>2 DEF Recvs
<1>5. Frames(S) = {f} \cup Frames(T)
  <2>1. Frames(S) \subseteq {f} \cup Frames(T)
    <3>1. ASSUME NEW j \in Recvs(S)
          PROVE  S[j].frame = f \/ \E k \in Recvs(T) : S[j].frame = T[k].frame
      BY <1>1, <1>4
    <3> QED
      BY <3>1 DEF Frames
  <2>2. {f} \cup Frames(T) \subseteq Frames(S)
    <3>1. \E j \in Recvs(S) : S[j].frame = f
      BY <1>1, <1>2
    <3>2. ASSUME NEW k \in Recvs(T)
          PROVE  \E j \in Recvs(S) : S[j].frame = T[k].frame
      BY <1>3
    <3> QED
      BY <3>1, <3>2 DEF Frames
  <2> QED
    BY <2>1, <2>2
<1>6. Before(S, 1) = {}
  BY DEF Before, Recvs
<1>7. ASSUME NEW i \in Recvs(T)
      PROVE  Before(S, i + 1) = {f} \cup Before(T, i)
  <2>0. i \in Int /\ 1 < i + 1
    BY <1>3
  <2>1. ASSUME NEW j \in Recvs(S), j < i + 1
        PROVE  S[j].frame \in {f} \cup Before(T, i)
    <3>1. CASE j = 1
      BY <1>1, <3>1
    <3>2. CASE j # 1
      <4>1. j - 1 \in Recvs(T) /\ T[j - 1].frame = S[j].frame /\ j - 1 < i
        BY <1>4, <2>0, <2>1, <3>2
      <4> QED
        BY <4>1 DEF Before
    <3> QED
      BY <3>1, <3>2
  <2>2. Before(S, i + 1) \subseteq {f} \cup Before(T, i)
    BY <2>1 DEF Before
  <2>3. f \in Before(S, i + 1)
    BY <1>1, <1>2, <2>0 DEF Before
  <2>4. ASSUME NEW j \in Recvs(T), j < i
        PROVE  T[j].frame \in Before(S, i + 1)
    <3>1. j + 1 \in Recvs(S) /\ j + 1 < i + 1 /\ T[j].frame = S[j + 1].frame
      BY <1>3, <2>0, <2>4
    <3> QED
      BY <3>1 DEF Before
  <2>5. Before(T, i) \subseteq Before(S, i + 1)
    BY <2>4 DEF Before
  <2> QED
    BY <2>2, <2>3, <2>5
<1>8. ASSUME NEW d, Legal(S, d)
      PROVE  /\ Fits({}, f, d)
             /\ \A i \in Recvs(T) : Fits({f} \cup Before(T, i), T[i].frame, d)
  <2>1. Fits(Before(S, 1), S[1].frame, d)
    BY <1>2, <1>8 DEF Legal
  <2>2. ASSUME NEW i \in Recvs(T)
        PROVE  Fits({f} \cup Before(T, i), T[i].frame, d)
    <3>1. Fits(Before(S, i + 1), S[i + 1].frame, d)
      BY <1>3, <1>8 DEF Legal
    <3> QED
      BY <1>3, <1>7, <3>1
  <2> QED
    BY <1>1, <1>6, <2>1, <2>2
<1>9. << f, {} >> \in Items(S)
  BY <1>1, <1>2, <1>6 DEF Items
<1>10. ASSUME NEW i \in Recvs(T)
       PROVE  << T[i].frame, {f} \cup Before(T, i) >> \in Items(S)
  BY <1>3, <1>7 DEF Items
<1>11. \A x \in Items(T) : << x[1], {f} \cup x[2] >> \in Items(S)
  BY <1>10 DEF Items
<1> QED
  BY <1>5, <1>8, <1>9, <1>11 DEF T, f

(* A frame joins the stream.                                               *)
LEMMA AppendFrame ==
  ASSUME NEW S \in Seq(Cmd), NEW f \in Frame
  PROVE  /\ Frames(Append(S, RecvCmd(f))) = Frames(S) \cup {f}
         /\ Items(Append(S, RecvCmd(f))) = Items(S) \cup {<< f, Frames(S) >>}
         /\ \A d : Legal(S, d) /\ Fits(Frames(S), f, d) =>
                     Legal(Append(S, RecvCmd(f)), d)
<1> DEFINE T == Append(S, RecvCmd(f))
           n == Len(S) + 1
<1>0. RecvCmd(f) \in Cmd /\ RecvCmd(f).cmd = "Recv" /\ RecvCmd(f).frame = f
  BY DEF RecvCmd, Cmd
<1>1. /\ T \in Seq(Cmd) /\ Len(T) = n /\ Len(S) \in Nat
      /\ T[n].cmd = "Recv" /\ T[n].frame = f
      /\ \A i \in 1..Len(S) : T[i] = S[i]
  BY <1>0
<1> HIDE DEF T
<1>2. Recvs(T) = Recvs(S) \cup {n}
  BY <1>1 DEF Recvs
<1>3. \A i \in Recvs(S) : i \in 1..Len(S) /\ T[i].frame = S[i].frame
  BY <1>1 DEF Recvs
<1>4. Frames(T) = Frames(S) \cup {f}
  BY <1>1, <1>2, <1>3 DEF Frames
<1>5. Before(T, n) = Frames(S)
  BY <1>1, <1>2, <1>3 DEF Before, Frames
<1>6. ASSUME NEW i \in Recvs(S)
      PROVE  Before(T, i) = Before(S, i)
  BY <1>1, <1>2, <1>3 DEF Before
<1>7. ASSUME NEW d, Legal(S, d), Fits(Frames(S), f, d)
      PROVE  Legal(T, d)
  BY <1>1, <1>2, <1>3, <1>5, <1>6, <1>7 DEF Legal
<1>8. Items(T) = Items(S) \cup {<< f, Frames(S) >>}
  BY <1>1, <1>2, <1>3, <1>5, <1>6 DEF Items
<1> QED
  BY <1>4, <1>7, <1>8 DEF T

(* The decoder takes the next frame of a legal stream, unless it is a      *)
(* grant that nobody waits for, and the stream stays legal.                *)
LEMMA FitsAccepted ==
  ASSUME NEW d \in Decoder, NEW f \in Frame, ~ d.did_error, Fits({}, f, d),
         f.kind = "PermitGrant" => d.want_remote_grant
  PROVE  Accepts(d, f)
<1>1. f.kind \in Kinds
  BY DEF Fits, Frame
<1>2. d.state \in DecodeState
  BY DEF Decoder
<1>3. CASE IsChunk(f)
  <2>1. /\ d.state = "ReceiveChunked" /\ f.len = Len(f.body) /\ f.len # 0
        /\ Off(f) = Len(d.incoming) /\ Off(f) + f.len <= d.want_size
        /\ Off(f) \in Nat
    BY <1>3 DEF Fits, ChunkFits, Til
  <2>2. Len(d.incoming) \in Nat /\ f.len \in Nat /\ d.want_size \in Nat
    BY DEF Decoder, Frame
  <2>3. f.len + Len(d.incoming) <= d.want_size
    <3>1. Len(d.incoming) + f.len <= d.want_size
      BY ONLY <2>1, Zenon
    <3> QED
      BY ONLY <2>2, <3>1
  <2> QED
    BY <1>3, <2>1, <2>3 DEF IsChunk, Accepts, AcceptsChunk
<1>4. CASE ~ IsChunk(f)
  BY <1>1, <1>2, <1>4 DEF IsChunk, Kinds, DecodeState, Fits, Completed, Accepts,
                          AcceptsRequest
<1> QED
  BY <1>3, <1>4

(* What counts in a decoder for the frames that follow.                    *)
LEMMA FitsSame ==
  ASSUME NEW d, NEW d2, d2.state = d.state, d2.want_size = d.want_size,
         d2.incoming = d.incoming
  PROVE  /\ \A B, g : Fits(B, g, d) => Fits(B, g, d2)
         /\ \A S : Legal(S, d) => Legal(S, d2)
<1>1. ASSUME NEW B, NEW g, Fits(B, g, d)
      PROVE  Fits(B, g, d2)
  BY <1>1 DEF Fits, ChunkFits, Completed
<1> QED
  BY <1>1 DEF Legal

LEMMA FitsAfterChunk ==
  ASSUME NEW d \in Decoder, NEW f \in Frame, NEW g \in Frame,
         NEW B \in SUBSET Frame, Consistent(d), IsChunk(f),
         Fits({}, f, d), Fits({f} \cup B, g, d), Accepts(d, f)
  PROVE  Fits(B, g, DecoderAfter(d, f))
<1> DEFINE D == DecoderAfter(d, f)
<1>1. /\ d.state = "ReceiveChunked" /\ f.len = Len(f.body) /\ f.len # 0
      /\ Off(f) = Len(d.incoming) /\ Til(f) <= d.want_size
      /\ Til(f) = Len(d.incoming) + Len(f.body)
  BY DEF Fits, ChunkFits, Til
<1>2. /\ Len(d.incoming) \in Nat /\ f.len \in Nat /\ g.len \in Nat
      /\ d.want_size \in Nat
      /\ f.kind = "MultipartMessage"
  BY DEF Decoder, Frame, IsChunk
<1>3. D = AfterChunk(d, f)
  BY <1>2 DEF DecoderAfter
<1>4. Completes(d, f) <=> Til(f) = d.want_size
  BY <1>1 DEF Completes
<1>5. IsChunk(g) => /\ Til(f) <= Off(g) /\ g.len # 0 /\ Off(g) \in Nat
                    /\ Off(g) + g.len <= d.want_size
  BY DEF Fits, ChunkFits, Til
<1>6. CASE Completes(d, f)
  <2>1. D.state = "Ready"
    BY <1>3, <1>6 DEF AfterChunk, Decoder
  <2>2. ~ IsChunk(g)
    BY <1>2, <1>4, <1>5, <1>6
  <2>3. g.kind # "Version"
    BY <1>1 DEF Fits
  <2> QED
    BY <2>1, <2>2, <2>3 DEF Fits, Completed
<1>7. CASE ~ Completes(d, f)
  <2>1. /\ D.state = "ReceiveChunked" /\ D.want_size = d.want_size
        /\ D.incoming = d.incoming \o f.body
    BY <1>1, <1>3, <1>7 DEF AfterChunk, Decoder
  <2>2. Len(D.incoming) = Til(f)
    BY <1>1, <2>1 DEF Decoder, Frame
  <2>3. Completed({f} \cup B, d) => Completed(B, D)
    BY <1>1, <1>4, <1>7, <2>1 DEF Completed
  <2>4. IsChunk(g) => ChunkFits(B, g, D)
    <3> SUFFICES ASSUME IsChunk(g)
                 PROVE  ChunkFits(B, g, D)
      OBVIOUS
    <3>1. ChunkFits({f} \cup B, g, d)
      BY DEF Fits
    <3>2. Off(g) # Len(d.incoming)
      <4>1. Til(f) = Len(d.incoming) + f.len /\ Til(f) <= Off(g) /\ Off(g) \in Nat
        BY <1>1, <1>5
      <4>2. f.len \in Nat /\ f.len # 0 /\ Len(d.incoming) \in Nat
        BY <1>1, <1>2
      <4> QED
        BY ONLY <4>1, <4>2
    <3>3. Off(g) = Til(f) \/ \E h \in B : IsChunk(h) /\ Til(h) = Off(g)
      BY <3>1, <3>2 DEF ChunkFits
    <3> QED
      BY <1>5, <2>1, <2>2, <3>1, <3>3 DEF ChunkFits
  <2>5. g.kind # "Version"
    BY <1>1 DEF Fits
  <2> QED
    BY <2>1, <2>3, <2>4, <2>5 DEF Fits, IsChunk
<1> QED
  BY <1>6, <1>7

LEMMA FitsAfter ==
  ASSUME NEW d \in Decoder, NEW f \in Frame, NEW g \in Frame,
         NEW B \in SUBSET Frame, Consistent(d),
         Fits({}, f, d), Fits({f} \cup B, g, d), Accepts(d, f)
  PROVE  Fits(B, g, DecoderAfter(d, f))
<1> DEFINE D == DecoderAfter(d, f)
<1>1. CASE IsChunk(f)
  BY <1>1, FitsAfterChunk
<1>2. CASE f.kind = "Version"
  <2>1. D = [d EXCEPT !.state = "Ready"] /\ d.state = "NeedVersion"
    BY <1>2 DEF DecoderAfter, Accepts
  <2>2. D.state = "Ready"
    BY <2>1 DEF Decoder
  <2>3. g.kind # "Version" /\ ~ IsChunk(g)
    BY <2>1 DEF Fits, ChunkFits
  <2> QED
    BY <2>2, <2>3 DEF Fits, Completed
<1>3. CASE f.kind = "CompleteMessage"
  <2>1. D = d /\ d.state = "Ready"
    BY <1>3 DEF DecoderAfter, Accepts
  <2>2. g.kind # "Version" /\ ~ IsChunk(g)
    BY <2>1 DEF Fits, ChunkFits
  <2> QED
    BY <2>1, <2>2 DEF Fits, Completed
<1>4. CASE f.kind = "PermitRequest"
  <2>1. g.kind = "PermitGrant"
    BY <1>4 DEF Fits
  <2>2. D.state = "RemoteAwaitingPermit"
    BY <1>4 DEF DecoderAfter, Accepts, AfterRemoteRequest, Decoder
  <2> QED
    BY <2>1, <2>2 DEF Fits, IsChunk
<1>5. CASE f.kind = "PermitGrant"
  <2>1. D = AfterRemoteGrant(d)
    BY <1>5 DEF DecoderAfter
  <2>2. D.state = d.state /\ D.want_size = d.want_size /\ D.incoming = d.incoming
    BY <2>1 DEF AfterRemoteGrant, Decoder
  <2>3. Fits(B, g, d)
    <3>1. Completed({f} \cup B, d) => Completed(B, d)
      BY <1>5 DEF Completed, IsChunk
    <3>2. ChunkFits({f} \cup B, g, d) => ChunkFits(B, g, d)
      BY <1>5 DEF ChunkFits, IsChunk
    <3>3. g.kind # "Version"
      BY DEF Fits
    <3>4. d.state = "NeedVersion" =>
            g.kind = "Version" \/ \E h \in B : h.kind = "Version"
      BY <1>5 DEF Fits
    <3> QED
      BY <3>1, <3>2, <3>3, <3>4 DEF Fits
  <2> QED
    BY <2>2, <2>3, FitsSame
<1>6. f.kind \in Kinds
  BY DEF Fits, Frame
<1> QED
  BY <1>1, <1>2, <1>3, <1>4, <1>5, <1>6 DEF Kinds, IsChunk

(* A decoder that waits to grant a permit has nothing but grants to take,  *)
(* before it grants and right after.                                       *)
LEMMA FitsWaiting ==
  ASSUME NEW d \in Decoder, d.state = "RemoteAwaitingPermit", NEW f \in Frame,
         NEW B, Fits(B, f, d)
  PROVE  /\ f.kind = "PermitGrant"
         /\ \A n \in Nat : Fits(B, f, AfterGrant(d, n))
<1>1. f.kind = "PermitGrant"
  BY DEF Fits, ChunkFits, Frame, Kinds, IsChunk
<1>2. ASSUME NEW n \in Nat
      PROVE  AfterGrant(d, n).state # "NeedVersion"
  BY DEF AfterGrant, Decoder
<1> QED
  BY <1>1, <1>2 DEF Fits, IsChunk

----------------------------------------------------------------------------
(* The oneshot of a send on its way through the command channel.           *)

LEMMA AwaitAppend ==
  ASSUME NEW q \in Seq(Cmd), NEW c \in Cmd, c.cmd # "AwaitPermit",
         NEW at, NEW k, AwaitOK(q, at, k)
  PROVE  AwaitOK(Append(q, c), at, k)
<1>1. /\ Len(Append(q, c)) = Len(q) + 1 /\ Append(q, c)[Len(q) + 1] = c
      /\ \A i \in 1..Len(q) : Append(q, c)[i] = q[i]
  OBVIOUS
<1>2. Awaitings(Append(q, c)) = Awaitings(q)
  BY <1>1 DEF Awaitings
<1>3. \A i \in Awaitings(q) : Append(q, c)[i] = q[i]
  BY <1>1 DEF Awaitings
<1> QED
  BY <1>2, <1>3 DEF AwaitOK

LEMMA AwaitAsked ==
  ASSUME NEW q \in Seq(Cmd), NEW at, at # "registering", NEW k, NEW n \in Nat,
         AwaitOK(q, at, k)
  PROVE  AwaitOK(Append(q, [cmd |-> "AwaitPermit", id |-> n]), "registering", n)
<1> DEFINE c == [cmd |-> "AwaitPermit", id |-> n]
           p == Append(q, c)
<1>1. c \in Cmd /\ c.cmd = "AwaitPermit" /\ c.id = n
  BY DEF Cmd
<1> HIDE DEF c
<1>2. /\ Len(p) = Len(q) + 1 /\ p[Len(q) + 1] = c
      /\ \A i \in 1..Len(q) : p[i] = q[i]
  BY <1>1
<1> HIDE DEF p
<1>3. Awaitings(q) = {}
  BY DEF AwaitOK
<1>4. Awaitings(p) = {Len(q) + 1}
  BY <1>1, <1>2, <1>3 DEF Awaitings
<1>5. AwaitOK(p, "registering", n)
  BY <1>1, <1>2, <1>4 DEF AwaitOK
<1> QED
  BY <1>5 DEF p, c

LEMMA AwaitTail ==
  ASSUME NEW q \in Seq(Cmd), q # << >>, NEW at, NEW k, AwaitOK(q, at, k)
  PROVE  IF Head(q).cmd = "AwaitPermit"
         THEN /\ at = "registering" /\ Head(q).id = k
              /\ AwaitOK(Tail(q), "registered", k)
         ELSE AwaitOK(Tail(q), at, k)
<1> DEFINE p == Tail(q)
<1>1. /\ Len(p) = Len(q) - 1 /\ Head(q) = q[1] /\ 1 \in 1..Len(q)
      /\ \A i \in 1..Len(p) : p[i] = q[i + 1] /\ i + 1 \in 1..Len(q)
      /\ \A i \in 1..Len(q) : i # 1 => i - 1 \in 1..Len(p) /\ (i - 1) + 1 = i
  OBVIOUS
<1> HIDE DEF p
<1>2. \A i \in Awaitings(p) :
        /\ i + 1 \in Awaitings(q) /\ p[i] = q[i + 1] /\ i \in Int
  BY <1>1 DEF Awaitings
<1>3. \A i \in Awaitings(q) : i # 1 => i - 1 \in Awaitings(p)
  BY <1>1 DEF Awaitings
<1>4. CASE Head(q).cmd = "AwaitPermit"
  <2>1. 1 \in Awaitings(q)
    BY <1>1, <1>4 DEF Awaitings
  <2>2. at = "registering" /\ Head(q).id = k
    BY <1>1, <2>1 DEF AwaitOK
  <2>3. ASSUME NEW i \in Awaitings(p)
        PROVE  FALSE
    <3>1. i + 1 = 1 /\ i \in 1..Len(p)
      BY <1>2, <2>1 DEF AwaitOK, Awaitings
    <3> QED
      BY <3>1
  <2>4. AwaitOK(p, "registered", k)
    BY <2>3 DEF AwaitOK
  <2> QED
    BY <1>4, <2>2, <2>4 DEF p
<1>5. CASE Head(q).cmd # "AwaitPermit"
  <2>1. 1 \notin Awaitings(q)
    BY <1>1, <1>5 DEF Awaitings
  <2>2. at = "registering" => Awaitings(p) # {}
    BY <1>3, <2>1 DEF AwaitOK
  <2>3. ASSUME NEW i \in Awaitings(p)
        PROVE  /\ at = "registering" /\ p[i].id = k
               /\ \A j \in Awaitings(p) : j = i
    <3>1. at = "registering" /\ p[i].id = k
      BY <1>2 DEF AwaitOK
    <3>2. ASSUME NEW j \in Awaitings(p)
          PROVE  j = i
      <4>1. j + 1 = i + 1 /\ j \in Int /\ i \in Int
        BY <1>2 DEF AwaitOK
      <4> QED
        BY <4>1
    <3> QED
      BY <3>1, <3>2
  <2>4. AwaitOK(p, at, k)
    BY <2>2, <2>3 DEF AwaitOK
  <2> QED
    BY <1>5, <2>4 DEF p
<1> QED
  BY <1>4, <1>5

LEMMA AwaitMove ==
  ASSUME NEW q, NEW at, NEW k, NEW at2, NEW k2, AwaitOK(q, at, k),
         at # "registering", at2 # "registering"
  PROVE  AwaitOK(q, at2, k2)
BY DEF AwaitOK

----------------------------------------------------------------------------
(* How the two ends of a connection stay together.                         *)

(* The receiving end takes a frame.                                        *)
LEMMA PairTakes ==
  ASSUME NEW d \in Decoder, NEW f \in Frame, NEW G \in SUBSET Frame,
         NEW at, NEW n \in Nat, NEW c \in Nat, at = "chunks" => c < n,
         NEW granted, PairOK(at, n, c, {f} \cup G, d, FALSE, granted),
         Consistent(d), Fits({}, f, d), Accepts(d, f)
  PROVE  PairOK(at, n, c, G, DecoderAfter(d, f), FALSE, granted)
<1> DEFINE D == DecoderAfter(d, f)
<1>1. f.kind \in Kinds /\ d.state \in DecodeState
  BY DEF Fits, Frame, Decoder
<1>2. d.state = "NeedVersion" => f.kind = "Version"
  BY DEF Fits
<1>3. D.state # "NeedVersion"
  <2>1. CASE IsChunk(f)
    BY <1>2, <2>1 DEF DecoderAfter, AfterChunk, Decoder, IsChunk
  <2>2. CASE f.kind = "Version"
    BY <2>2 DEF DecoderAfter, Decoder
  <2>3. CASE ~ IsChunk(f) /\ f.kind # "Version"
    BY <1>2, <2>3 DEF DecoderAfter, AfterRemoteRequest, AfterRemoteGrant,
                      Decoder, IsChunk
  <2> QED
    BY <2>1, <2>2, <2>3
<1>4. at # "new"
  BY DEF PairOK
<1>5. ASSUME d.state = "ReceiveChunked"
      PROVE  IsChunk(f) \/ f.kind = "PermitGrant"
  BY <1>1, <1>5 DEF Fits, Completed, Kinds, IsChunk
<1>6. ASSUME f.kind = "PermitGrant"
      PROVE  /\ D.state = d.state /\ D.want_size = d.want_size
             /\ D.incoming = d.incoming /\ D.awaiting = d.awaiting
  BY <1>6 DEF DecoderAfter, AfterRemoteGrant, Decoder
<1>7. ASSUME IsChunk(f)
      PROVE  /\ d.state = "ReceiveChunked" /\ f.len # 0 /\ f.len \in Nat
             /\ Til(f) = Len(d.incoming) + f.len /\ Len(d.incoming) \in Nat
             /\ IF Til(f) = d.want_size
                THEN D.state = "Ready"
                ELSE /\ D.state = d.state /\ D.want_size = d.want_size
                     /\ Len(D.incoming) = Til(f)
  <2>1. /\ d.state = "ReceiveChunked" /\ f.len # 0 /\ f.len = Len(f.body)
        /\ Off(f) = Len(d.incoming)
    BY <1>7 DEF Fits, ChunkFits
  <2>2. Til(f) = Len(d.incoming) + Len(f.body)
    BY <2>1 DEF Til
  <2>3. D = AfterChunk(d, f)
    BY <1>7 DEF DecoderAfter, IsChunk
  <2>4. CASE Completes(d, f)
    <3>1. D.state = "Ready" /\ Til(f) = d.want_size
      BY <2>2, <2>3, <2>4 DEF AfterChunk, Completes, Decoder
    <3> QED
      BY <2>1, <2>2, <3>1 DEF Decoder, Frame
  <2>5. CASE ~ Completes(d, f)
    <3>1. /\ D.state = d.state /\ D.want_size = d.want_size
          /\ D.incoming = d.incoming \o f.body
      BY <2>3, <2>5 DEF AfterChunk, Decoder
    <3>2. Til(f) # d.want_size
      BY <2>2, <2>5 DEF Completes
    <3>3. Len(D.incoming) = Til(f)
      BY <2>2, <3>1 DEF Decoder, Frame
    <3> QED
      BY <2>1, <2>2, <3>1, <3>2, <3>3 DEF Decoder, Frame
  <2> QED
    BY <2>4, <2>5
<1>8. D.state = "ReceiveChunked" => d.state = "ReceiveChunked"
  <2>1. CASE IsChunk(f)
    BY <1>7, <2>1
  <2>2. CASE ~ IsChunk(f)
    BY <2>2 DEF DecoderAfter, AfterRemoteRequest, AfterRemoteGrant, Decoder,
                IsChunk
  <2> QED
    BY <2>1, <2>2
<1>9. ASSUME Settled({f} \cup G, d)
      PROVE  Settled(G, D)
  <2>1. f.kind # "PermitRequest" /\ \A g \in G : g.kind # "PermitRequest"
    BY <1>9 DEF Settled
  <2>2. D.state # "RemoteAwaitingPermit"
    <3>1. CASE IsChunk(f)
      BY <1>7, <3>1
    <3>2. CASE ~ IsChunk(f)
      BY <1>9, <2>1, <3>2 DEF Settled, DecoderAfter, AfterRemoteGrant, Decoder,
                              IsChunk
    <3> QED
      BY <3>1, <3>2
  <2>3. ASSUME D.state = "ReceiveChunked"
        PROVE  \E g \in G : IsChunk(g) /\ Til(g) = D.want_size
    <3>1. PICK g \in {f} \cup G : IsChunk(g) /\ Til(g) = d.want_size
      BY <1>8, <1>9, <2>3 DEF Settled, Completed
    <3>2. g # f
      BY <1>7, <2>3, <3>1
    <3>3. D.want_size = d.want_size
      BY <1>5, <1>6, <1>7, <1>8, <2>3
    <3> QED
      BY <3>1, <3>2, <3>3
  <2> QED
    BY <2>1, <2>2, <2>3 DEF Settled, Completed
<1>10. ASSUME Asked({f} \cup G, n)
       PROVE  Asked(G, n) \/ Awaits(D, n)
  <2>1. CASE f.kind = "PermitRequest"
    <3>1. f.len = n
      BY <1>10, <2>1 DEF Asked
    <3> QED
      BY <2>1, <3>1 DEF DecoderAfter, AfterRemoteRequest, Decoder, Awaits
  <2>2. CASE f.kind # "PermitRequest"
    BY <1>10, <2>2 DEF Asked
  <2> QED
    BY <2>1, <2>2
<1>11. ASSUME Awaits(d, n)
       PROVE  Awaits(D, n)
  <2>1. f.kind = "PermitGrant"
    BY <1>11, FitsWaiting DEF Awaits
  <2> QED
    BY <1>6, <1>11, <2>1 DEF Awaits
<1>12. ASSUME Fresh({f} \cup G, d, n)
       PROVE  Fresh(G, D, n)
  <2>1. f.kind = "PermitGrant"
    BY <1>5, <1>12 DEF Fresh
  <2> QED
    BY <1>6, <1>12, <2>1 DEF Fresh
<1>13. ASSUME Chunking({f} \cup G, d, n, c), c < n
       PROVE  Chunking(G, D, n, c)
  <2>1. CASE f.kind = "PermitGrant"
    BY <1>6, <1>13, <2>1 DEF Chunking, IsChunk
  <2>2. CASE IsChunk(f)
    <3>1. Til(f) <= c /\ d.want_size = n /\ \A g \in G : IsChunk(g) => Til(g) <= c
      BY <1>13, <2>2 DEF Chunking
    <3>2. Til(f) # n /\ c # Len(d.incoming)
      <4>1. Til(f) = Len(d.incoming) + f.len /\ f.len # 0 /\ f.len \in Nat
            /\ Len(d.incoming) \in Nat
        BY <1>7, <2>2
      <4> QED
        BY <1>13, <3>1, <4>1
    <3>3. D.state = "ReceiveChunked" /\ D.want_size = n /\ Len(D.incoming) = Til(f)
      BY <1>7, <2>2, <3>1, <3>2
    <3>4. PICK g \in {f} \cup G : IsChunk(g) /\ Til(g) = c
      BY <1>13, <3>2 DEF Chunking
    <3> QED
      BY <3>1, <3>3, <3>4 DEF Chunking
  <2> QED
    BY <1>5, <1>13, <2>1, <2>2 DEF Chunking
<1> HIDE DEF D
<1>14. PairOK(at, n, c, G, D, FALSE, granted)
  BY <1>3, <1>4, <1>9, <1>10, <1>11, <1>12, <1>13 DEF PairOK
<1> QED
  BY <1>14 DEF D

(* The sending end hands a frame to the connection.                        *)
LEMMA PairNew ==
  ASSUME NEW d, NEW n, NEW c, NEW F, NEW granting, NEW granted,
         PairOK("new", n, c, F, d, granting, granted)
  PROVE  /\ Fits(F, VersionFrame, d)
         /\ PairOK("idle", n, c, F \cup {VersionFrame}, d, granting, granted)
<1> DEFINE f == VersionFrame
<1>1. f.kind = "Version"
  BY DEF VersionFrame
<1> HIDE DEF f
<1>2. d.state = "NeedVersion" /\ F = {} /\ ~ granting
  BY DEF PairOK
<1>3. Fits(F, f, d)
  BY <1>1, <1>2 DEF Fits, IsChunk
<1>4. Settled(F \cup {f}, d)
  BY <1>1, <1>2 DEF Settled, Completed
<1>5. PairOK("idle", n, c, F \cup {f}, d, granting, granted)
  BY <1>1, <1>2, <1>4 DEF PairOK
<1> QED
  BY <1>3, <1>5 DEF f

LEMMA PairOne ==
  ASSUME NEW d, NEW n, NEW c, NEW F, NEW granting, NEW granted, NEW m,
         PairOK("one", n, c, F, d, granting, granted)
  PROVE  /\ Fits(F, CompleteFrame(m), d)
         /\ PairOK("idle", n, c, F \cup {CompleteFrame(m)}, d, granting, granted)
BY DEF PairOK, CompleteFrame, Fits, Settled, Completed, IsChunk

LEMMA PairAsks ==
  ASSUME NEW d, NEW n, NEW c, NEW F, NEW granting, NEW granted, ~ granted,
         PairOK("registered", n, c, F, d, granting, granted)
  PROVE  /\ Fits(F, RequestFrame(n), d)
         /\ PairOK("requested", n, c, F \cup {RequestFrame(n)}, d, granting, granted)
<1> DEFINE f == RequestFrame(n)
<1>1. f.kind = "PermitRequest" /\ f.len = n
  BY DEF RequestFrame
<1> HIDE DEF f
<1>2. /\ ~ granting /\ Settled(F, d)
      /\ d.state = "NeedVersion" => \E g \in F : g.kind = "Version"
  BY DEF PairOK
<1>3. Fits(F, f, d)
  BY <1>1, <1>2 DEF Fits, Settled, IsChunk
<1>4. Asked(F \cup {f}, n)
  BY <1>1, <1>2 DEF Settled, Asked
<1>5. PairOK("requested", n, c, F \cup {f}, d, granting, granted)
  BY <1>2, <1>4 DEF PairOK
<1> QED
  BY <1>3, <1>5 DEF f

LEMMA NextChunkShape ==
  ASSUME NEW m \in Seq(Byte), NEW c \in Nat, c < Len(m),
         \A i \in 1..Len(m) : m[i][2] = i
  PROVE  LET s == NextChunk(m, c) IN
         /\ s \in Seq(Byte) /\ Len(s) \in Nat \ {0} /\ c + Len(s) <= Len(m)
         /\ s[1][2] = c + 1
<1> DEFINE left == Len(m) - c
           amt  == IF MaxChunk < left THEN MaxChunk ELSE left
           s    == SubSeq(m, c + 1, c + amt)
<1>1. amt \in Nat \ {0} /\ c + amt <= Len(m)
  BY MaxChunkAssumption
<1>2. NextChunk(m, c) = s
  BY DEF NextChunk
<1> HIDE DEF amt
<1>3. s \in Seq(Byte) /\ Len(s) = amt /\ s[1] = m[c + 1] /\ c + 1 \in 1..Len(m)
  BY <1>1
<1>4. s[1][2] = c + 1
  BY <1>3
<1> QED
  BY <1>1, <1>2, <1>3, <1>4

LEMMA PairChunk ==
  ASSUME NEW d \in Decoder, NEW S \in Seq(Cmd), Legal(S, d),
         NEW m \in Seq(Byte), NEW c \in Nat, c < Len(m),
         \A i \in 1..Len(m) : m[i][2] = i,
         NEW granting, NEW granted,
         PairOK("chunks", Len(m), c, Frames(S), d, granting, granted)
  PROVE  LET s == NextChunk(m, c)
             f == ChunkFrame(s)
         IN  /\ Fits(Frames(S), f, d)
             /\ PairOK(IF c + Len(s) = Len(m) THEN "idle" ELSE "chunks", Len(m),
                       c + Len(s), Frames(S) \cup {f}, d, granting, granted)
<1> DEFINE s == NextChunk(m, c)
           f == ChunkFrame(s)
           F == Frames(S)
           n == Len(m)
           k == Len(s)
<1>1. /\ s \in Seq(Byte) /\ k \in Nat \ {0} /\ c + k <= n
      /\ s[1][2] = c + 1
  BY NextChunkShape
<1>2. f.kind = "MultipartMessage" /\ f.len = k /\ f.body = s
  BY DEF ChunkFrame
<1>3. n \in Nat
  OBVIOUS
<1> HIDE DEF s, f, n, k
<1>4. Off(f) = c /\ Til(f) = c + k /\ IsChunk(f)
  BY <1>1, <1>2 DEF Off, Til, IsChunk
<1>5. /\ d.state = "ReceiveChunked" /\ d.want_size = n
      /\ \A g \in F : IsChunk(g) => Til(g) <= c
      /\ c = Len(d.incoming) \/ \E g \in F : IsChunk(g) /\ Til(g) = c
      /\ ~ granting
  BY DEF PairOK, Chunking, n
<1>6. ASSUME NEW g \in F
      PROVE  \E i \in Recvs(S) :
               g = S[i].frame /\ Fits(Before(S, i), g, d) /\ Before(S, i) \subseteq F
  BY DEF Legal, Frames, Before
<1>7. ASSUME NEW g \in F
      PROVE  g.kind # "PermitRequest"
  <2> SUFFICES ASSUME g.kind = "PermitRequest"
               PROVE  FALSE
    OBVIOUS
  <2>1. PICK h \in F : IsChunk(h) /\ Til(h) = n
    <3>1. PICK i \in Recvs(S) :
            Fits(Before(S, i), g, d) /\ Before(S, i) \subseteq F
      BY <1>6
    <3> QED
      BY <1>5, <3>1 DEF Fits, Completed
  <2>2. n <= c /\ c < n
    BY <1>5, <2>1 DEF n
  <2> QED
    BY <1>3, <2>2
<1>8. Len(d.incoming) <= c
  <2>1. CASE c = Len(d.incoming)
    BY <2>1
  <2>2. CASE \E g \in F : IsChunk(g) /\ Til(g) = c
    <3>1. PICK g \in F : IsChunk(g) /\ Til(g) = c
      BY <2>2
    <3>2. PICK i \in Recvs(S) : g = S[i].frame /\ Fits(Before(S, i), g, d)
      BY <1>6
    <3>3. Len(d.incoming) <= Off(g) /\ Off(g) \in Nat
      BY <3>1, <3>2 DEF Fits, ChunkFits
    <3>4. g.len \in Nat
      <4>1. S[i] \in Cmd /\ S[i].cmd = "Recv"
        BY <3>2 DEF Recvs
      <4> QED
        BY <3>2, <4>1 DEF Cmd, Frame
    <3>5. c = Off(g) + g.len /\ Len(d.incoming) \in Nat
      BY <3>1 DEF Til, Decoder
    <3> QED
      BY ONLY <3>3, <3>4, <3>5
  <2> QED
    BY <1>5, <2>1, <2>2
<1>9. ChunkFits(F, f, d)
  <2>1. f.len = Len(f.body) /\ f.len # 0 /\ Off(f) \in Nat
    BY <1>1, <1>2, <1>4 DEF k
  <2>2. Len(d.incoming) <= Off(f) /\ Til(f) <= d.want_size
    BY <1>1, <1>4, <1>5, <1>8
  <2>3. /\ Off(f) = Len(d.incoming) \/ \E g \in F : IsChunk(g) /\ Til(g) = Off(f)
        /\ \A g \in F : IsChunk(g) => Til(g) <= Off(f)
    BY <1>4, <1>5
  <2> QED
    BY <1>5, <2>1, <2>2, <2>3 DEF ChunkFits
<1>10. Fits(F, f, d)
  BY <1>2, <1>5, <1>7, <1>9 DEF Fits
<1>11. CASE c + k = n
  <2>1. Settled(F \cup {f}, d)
    BY <1>2, <1>4, <1>5, <1>7, <1>11 DEF Settled, Completed
  <2>2. PairOK("idle", n, c + k, F \cup {f}, d, granting, granted)
    BY <1>5, <2>1 DEF PairOK
  <2> QED
    BY <1>10, <1>11, <2>2 DEF s, f, n, k
<1>12. CASE c + k # n
  <2>1. Chunking(F \cup {f}, d, n, c + k)
    <3>1. ASSUME NEW g \in F \cup {f}, IsChunk(g)
          PROVE  Til(g) <= c + k
      <4>1. CASE g = f
        BY <1>1, <1>4, <4>1
      <4>2. CASE g \in F
        <5>1. Til(g) <= c
          BY <1>5, <3>1, <4>2
        <5>2. Til(g) \in Int
          <6>1. PICK i \in Recvs(S) : g = S[i].frame /\ Fits(Before(S, i), g, d)
            BY <1>6, <4>2
          <6>2. S[i] \in Cmd /\ S[i].cmd = "Recv"
            BY <6>1 DEF Recvs
          <6>3. g.len \in Nat /\ Off(g) \in Nat
            BY <3>1, <6>1, <6>2 DEF Cmd, Frame, Fits, ChunkFits
          <6> QED
            BY <6>3 DEF Til
        <5> QED
          BY <1>1, <5>1, <5>2
      <4> QED
        BY <4>1, <4>2
    <3> QED
      BY <1>4, <1>5, <3>1 DEF Chunking
  <2>2. PairOK("chunks", n, c + k, F \cup {f}, d, granting, granted)
    BY <1>5, <2>1 DEF PairOK
  <2> QED
    BY <1>10, <1>12, <2>2 DEF s, f, n, k
<1> QED
  BY <1>11, <1>12

(* Between two messages it does not matter where the sender is.            *)
LEMMA PairMoves ==
  ASSUME NEW d, NEW n, NEW c, NEW F, NEW granting, NEW granted, NEW at, NEW at2,
         NEW n2, NEW c2, PairOK(at, n, c, F, d, granting, granted),
         at \notin {"new", "requested", "chunks"},
         at2 \notin {"new", "requested", "chunks"}
  PROVE  PairOK(at2, n2, c2, F, d, granting, granted)
BY DEF PairOK

(* The grant arrives: the chunks may follow.                               *)
LEMMA PairGranted ==
  ASSUME NEW d, NEW n, NEW F, NEW granting,
         PairOK("requested", n, 0, F, d, granting, TRUE)
  PROVE  PairOK("chunks", n, 0, F, d, granting, FALSE)
<1>1. ~ granting /\ Fresh(F, d, n)
  BY DEF PairOK
<1>2. Chunking(F, d, n, 0)
  BY <1>1 DEF Fresh, Chunking
<1> QED
  BY <1>1, <1>2 DEF PairOK, Fresh

(* The receiving end gets the permit, then tells the sender.               *)
LEMMA PairPermits ==
  ASSUME NEW d \in Decoder, NEW S \in Seq(Cmd), Legal(S, d), Consistent(d),
         NEW at, NEW n, NEW c, NEW granted,
         d.state = "RemoteAwaitingPermit", ~ d.did_error, NEW k,
         PairOK(at, n, c, Frames(S), d, FALSE, granted)
  PROVE  /\ PairOK(at, n, c, Frames(S), AfterGrant(d, k), TRUE, granted)
         /\ at = "requested" /\ ~ granted
<1> DEFINE F == Frames(S)
           D == AfterGrant(d, k)
<1>1. D.state = "ReceiveChunked" /\ D.want_size = d.awaiting /\ D.incoming = << >>
  BY DEF AfterGrant, MayGrant, Consistent, Decoder
<1>2. \A f \in F : f.kind = "PermitGrant"
  BY DEF Legal, Frames, Fits, Recvs, Cmd, FitsWaiting, Frame, Kinds, ChunkFits,
         IsChunk
<1>3. at = "requested" /\ ~ granted /\ Awaits(d, n)
  BY <1>2 DEF PairOK, Settled, Asked, Fresh, Chunking, Awaits
<1>4. Fresh(F, D, n)
  BY <1>1, <1>2, <1>3 DEF Fresh, Awaits, IsChunk
<1>5. PairOK(at, n, c, F, D, TRUE, granted)
  BY <1>1, <1>3, <1>4 DEF PairOK
<1> QED
  BY <1>3, <1>5

LEMMA PairTells ==
  ASSUME NEW at, NEW n, NEW c, NEW F, NEW d, NEW granted,
         PairOK(at, n, c, F, d, TRUE, granted)
  PROVE  /\ at = "requested" /\ ~ granted
         /\ PairOK(at, n, c, F, d, FALSE, TRUE)
<1>1. at = "requested"
  BY DEF PairOK
<1>2. ~ granted /\ Fresh(F, d, n)
  BY <1>1 DEF PairOK
<1> QED
  BY <1>1, <1>2 DEF PairOK, Fresh

----------------------------------------------------------------------------
(* The steps.                                                              *)

LEMMA PeerFacts ==
  ASSUME NEW e \in Ends
  PROVE  Peer[e] \in Ends /\ Peer[e] # e /\ Peer[Peer[e]] = e
BY FramedAssumption

LEMMA StreamType ==
  ASSUME TypeOK, NEW e \in Ends
  PROVE  /\ cmdq[e] \in Seq(Cmd) /\ wire[e] \in Seq(Frame)
         /\ Stream(e) \in Seq(Cmd) /\ Frames(Stream(e)) \subseteq Frame
<1>1. cmdq[e] \in Seq(Cmd) /\ wire[e] \in Seq(Frame)
  BY DEF TypeOK
<1>2. Stream(e) \in Seq(Cmd)
  BY <1>1, StreamShape DEF Stream
<1>3. ASSUME NEW i \in Recvs(Stream(e))
      PROVE  Stream(e)[i].frame \in Frame
  <2>1. Stream(e)[i] \in Cmd /\ Stream(e)[i].cmd = "Recv"
    BY <1>2 DEF Recvs
  <2> QED
    BY <2>1 DEF Cmd
<1> QED
  BY <1>1, <1>2, <1>3 DEF Frames

LEMMA OthersSame ==
  ASSUME TypeOK, NEW e \in Ends, NEW o \in Ends, o # e, Steps(e)
  PROVE  Same(o)
<1> USE DEF senderVars, cmdVars, permitVars, appVars
<1>1. /\ pc'[o] = pc[o] /\ task'[o] = task[o] /\ cmdq'[o] = cmdq[o]
      /\ dec'[o] = dec[o]
  BY OtherEnds DEF Steps
<1>2. /\ msg \in [Ends -> Seq(Byte)] /\ cur \in [Ends -> Nat]
      /\ sent \in [Ends -> Seq(Seq(Byte))] /\ hold \in [Ends -> Frame]
      /\ link \in [Ends -> {"open", "closed"}]
      /\ gaveup \in [Ends -> SUBSET Nat] /\ msgq \in [Ends -> Seq(Seq(Byte))]
      /\ recvd \in [Ends -> Seq(Seq(Byte))]
  BY DEF TypeOK
<1>3. CASE Sender(e) \/ SendStart(e) \/ SendCancel(e)
  <2>1. hold' = hold /\ link' = link /\ msgq' = msgq /\ recvd' = recvd
    BY <1>3 DEF Sender, New, NewFail, SendOne, SendAwaitPermit, SendChunk,
                SendPermitRequest, SendFail, GiveUp, SendStart, SendCancel
  <2>2. msg'[o] = msg[o] /\ sent'[o] = sent[o]
    BY <1>2, <1>3
       DEF Sender, New, NewFail, SendOne, SendAwaitPermit, SendChunk,
           SendPermitRequest, SendFail, GiveUp, SendStart, SendCancel
  <2>3. cur'[o] = cur[o] /\ gaveup'[o] = gaveup[o]
    BY <1>2, <1>3
       DEF Sender, New, NewFail, SendOne, SendAwaitPermit, SendChunk,
           SendPermitRequest, SendFail, GiveUp, SendStart, SendCancel
  <2> QED
    BY <1>1, <2>1, <2>2, <2>3 DEF Same
<1>4. CASE Receiver(e) \/ ConnClose(e) \/ OwnerRecv(e)
  BY <1>1, <1>2, <1>4 DEF Receiver, RecvTask, RecvTaskClose, RecvTaskStop,
                          ConnClose, OwnerRecv, Same
<1>5. CASE CmdTask(e)
  <2>1. /\ msg' = msg /\ cur' = cur /\ sent' = sent /\ link' = link
        /\ gaveup' = gaveup /\ recvd' = recvd
    BY <1>5 DEF CmdTask, CmdRecv, CmdRecvError, CmdDeliver, CmdAwaitPermit,
                CmdAwaitPermitError, CmdRemotePermit, CmdSendGrant, CmdClose
  <2>2. hold'[o] = hold[o]
    <3>1. hold' = hold \/ \E h : hold' = [hold EXCEPT ![e] = h]
      BY <1>5 DEF CmdTask, CmdRecv, CmdRecvError, CmdDeliver, CmdAwaitPermit,
                CmdAwaitPermitError, CmdRemotePermit, CmdSendGrant, CmdClose,
                Stop
    <3> QED
      BY <1>2, <3>1
  <2>3. msgq'[o] = msgq[o]
    BY <1>2, <1>5
       DEF CmdTask, CmdRecv, CmdRecvError, CmdDeliver, CmdAwaitPermit,
           CmdAwaitPermitError, CmdRemotePermit, CmdSendGrant, CmdClose
  <2> QED
    BY <1>1, <2>1, <2>2, <2>3 DEF Same
<1>6. CASE Waiter(e)
  BY <1>1, <1>6 DEF Waiter, WaiterPoll, WaiterAcquire, WaiterSend, WaiterGone,
                    Same
<1>7. CASE Drop(e)
  BY <1>1, <1>2, <1>7 DEF Drop, Stop, Same
<1> QED
  BY <1>3, <1>4, <1>5, <1>6, <1>7 DEF Steps

LEMMA StepLosesNone ==
  ASSUME NEW e \in Ends, Steps(e)
  PROVE  lossy' = lossy
<1> USE DEF appVars
<1>1. CASE Sender(e) \/ SendStart(e) \/ SendCancel(e)
  BY <1>1 DEF Sender, New, NewFail, SendOne, SendAwaitPermit, SendChunk,
              SendPermitRequest, SendFail, GiveUp, SendStart, SendCancel
<1>2. CASE Receiver(e) \/ ConnClose(e) \/ OwnerRecv(e) \/ Drop(e)
  BY <1>2 DEF Receiver, RecvTask, RecvTaskClose, RecvTaskStop, ConnClose,
              OwnerRecv, Drop
<1>3. CASE CmdTask(e)
  BY <1>3 DEF CmdTask, CmdRecv, CmdRecvError, CmdDeliver, CmdAwaitPermit,
              CmdAwaitPermitError, CmdRemotePermit, CmdSendGrant, CmdClose
<1>4. CASE Waiter(e)
  BY <1>4 DEF Waiter, WaiterPoll, WaiterAcquire, WaiterSend, WaiterGone
<1> QED
  BY <1>1, <1>2, <1>3, <1>4 DEF Steps

(* Only the stream to an end and the one from it change.                   *)
LEMMA OtherWires ==
  ASSUME TypeOK, NEW e \in Ends, NEW o \in Ends, o # e, o # Peer[e], Steps(e)
  PROVE  wire'[o] = wire[o]
<1> USE DEF senderVars, cmdVars, permitVars, appVars
<1>1. wire \in [Ends -> Seq(Frame)] /\ Peer[e] \in Ends
  BY PeerFacts DEF TypeOK
<1>2. ASSUME NEW f, Push(e, f)
      PROVE  wire'[o] = wire[o]
  BY <1>1, <1>2 DEF Push
<1>3. ASSUME NEW k, Cut(e, k)
      PROVE  wire'[o] = wire[o]
  BY <1>1, <1>3 DEF Cut
<1>4. CASE Sender(e) \/ SendStart(e) \/ SendCancel(e)
  BY <1>2, <1>4 DEF Sender, New, NewFail, SendOne, SendAwaitPermit, SendChunk,
                    SendPermitRequest, SendFail, GiveUp, SendStart, SendCancel
<1>5. CASE Receiver(e) \/ ConnClose(e) \/ OwnerRecv(e) \/ Drop(e)
  BY <1>1, <1>3, <1>5 DEF Receiver, RecvTask, RecvTaskClose, RecvTaskStop,
                          ConnClose, OwnerRecv, Drop
<1>6. CASE CmdTask(e)
  BY <1>2, <1>6 DEF CmdTask, CmdRecv, CmdRecvError, CmdDeliver, CmdAwaitPermit,
                CmdAwaitPermitError, CmdRemotePermit, CmdSendGrant, CmdClose
<1>7. CASE Waiter(e)
  BY <1>7 DEF Waiter, WaiterPoll, WaiterAcquire, WaiterSend, WaiterGone
<1> QED
  BY <1>4, <1>5, <1>6, <1>7 DEF Steps

LEMMA LegalKept ==
  ASSUME NEW o \in Ends, LegalEnd(o), task'[o] = task[o], dec'[o] = dec[o],
         Stream(o)' = Stream(o)
  PROVE  LegalEnd(o)'
BY DEF LegalEnd, Alive

LEMMA OwnKept ==
  ASSUME NEW o \in Ends, OwnEnd(o), Same(o), Granted(o)' => Granted(o)
  PROVE  OwnEnd(o)'
BY DEF OwnEnd, OwnOK, Alive, Same

LEMMA PairKept ==
  ASSUME NEW o \in Ends, PairEnd(o),
         pc'[o] = pc[o], msg'[o] = msg[o], cur'[o] = cur[o], link'[o] = link[o],
         link'[Peer[o]] = link[Peer[o]], dec'[Peer[o]] = dec[Peer[o]],
         task'[Peer[o]] = "grant" <=> task[Peer[o]] = "grant",
         Frames(Stream(Peer[o]))' = Frames(Stream(Peer[o])),
         Granted(o)' <=> Granted(o)
  PROVE  PairEnd(o)'
BY DEF PairEnd, Pair, PairOK

LEMMA StreamSame ==
  ASSUME NEW o \in Ends, cmdq'[o] = cmdq[o], wire'[o] = wire[o]
  PROVE  /\ Stream(o)' = Stream(o) /\ Frames(Stream(o))' = Frames(Stream(o))
         /\ Granted(o)' <=> Granted(o)
<1>1. Stream(o)' = Stream(o)
  BY DEF Stream
<1> QED
  BY <1>1 DEF Granted

(* The two ends of the connection of the acting end e.                     *)
LEMMA AtTheTwoEnds ==
  ASSUME NEW e \in Ends,
         LegalEnd(e)', OwnEnd(e)', PairEnd(e)',
         LegalEnd(Peer[e])', OwnEnd(Peer[e])', PairEnd(Peer[e])'
  PROVE  StreamAt(e)'
BY DEF StreamAt

LEMMA BothEnds ==
  ASSUME NEW e \in Ends, StreamAt(e)
  PROVE  /\ LegalEnd(e) /\ OwnEnd(e) /\ PairEnd(e)
         /\ LegalEnd(Peer[e]) /\ OwnEnd(Peer[e]) /\ PairEnd(Peer[e])
BY DEF StreamAt

(* A step that leaves the stream of the other end as it is.                *)
LEMMA LocalStep ==
  ASSUME TypeOK, NEW e \in Ends, StreamAt(e), Steps(e),
         wire'[Peer[e]] = wire[Peer[e]],
         LegalEnd(e)', OwnEnd(e)', PairEnd(e)', PairEnd(Peer[e])'
  PROVE  StreamAt(e)'
<1> DEFINE p == Peer[e]
<1>1. p \in Ends /\ p # e
  BY PeerFacts
<1>2. Same(p)
  BY <1>1, OthersSame
<1>3. LegalEnd(p) /\ OwnEnd(p)
  BY <1>1, BothEnds
<1>4. cmdq'[p] = cmdq[p]
  BY <1>2 DEF Same
<1>5. Stream(p)' = Stream(p) /\ (Granted(p)' <=> Granted(p))
  BY <1>1, <1>4, StreamSame
<1>6. LegalEnd(p)'
  BY <1>1, <1>2, <1>3, <1>5, LegalKept DEF Same
<1>7. OwnEnd(p)'
  BY <1>1, <1>2, <1>3, <1>5, OwnKept
<1> QED
  BY <1>6, <1>7, AtTheTwoEnds

(* A step after which the own side of the connection is closed.            *)
LEMMA ClosedStep ==
  ASSUME TypeOK, NEW e \in Ends, StreamAt(e), Steps(e), link'[e] = "closed",
         \/ wire'[Peer[e]] = wire[Peer[e]]
         \/ \E j \in 0..Len(wire[Peer[e]]) :
              wire'[Peer[e]] = SubSeq(wire[Peer[e]], 1, j),
         LegalEnd(e)'
  PROVE  StreamAt(e)'
<1> DEFINE p == Peer[e]
<1>1. p \in Ends /\ p # e /\ Peer[p] = e
  BY PeerFacts
<1>2. OwnEnd(e)' /\ PairEnd(e)'
  BY DEF OwnEnd, PairEnd
<1>3. PairEnd(p)'
  BY <1>1 DEF PairEnd
<1>4. CASE wire'[p] = wire[p]
  BY <1>2, <1>3, <1>4, LocalStep
<1>5. CASE \E j \in 0..Len(wire[p]) : wire'[p] = SubSeq(wire[p], 1, j)
  <2>1. PICK j \in 0..Len(wire[p]) : wire'[p] = SubSeq(wire[p], 1, j)
    BY <1>5
  <2>2. Same(p)
    BY <1>1, OthersSame
  <2>3. Stream(p)' = StreamOf(cmdq[p], SubSeq(wire[p], 1, j))
    BY <2>1, <2>2 DEF Stream, Same
  <2>4. cmdq[p] \in Seq(Cmd) /\ wire[p] \in Seq(Frame)
    BY <1>1, StreamType
  <2>5. /\ Frames(Stream(p)') \subseteq Frames(Stream(p))
        /\ \A d : Legal(Stream(p), d) => Legal(Stream(p)', d)
    BY <2>3, <2>4, StreamCut DEF Stream
  <2>6. LegalEnd(p) /\ OwnEnd(p)
    BY <1>1, BothEnds
  <2>7. task'[p] = task[p] /\ dec'[p] = dec[p]
    BY <2>2 DEF Same
  <2>8. LegalEnd(p)'
    BY <2>5, <2>6, <2>7 DEF LegalEnd, Alive
  <2>9. Granted(p)' => Granted(p)
    BY <2>5 DEF Granted
  <2>10. OwnEnd(p)'
    BY <1>1, <2>2, <2>6, <2>9, OwnKept
  <2> QED
    BY <1>2, <1>3, <2>8, <2>10, AtTheTwoEnds
<1> QED
  BY <1>4, <1>5

(* A frame is handed to the connection.                                    *)
LEMMA PushStreams ==
  ASSUME TypeOK, NEW e \in Ends, NEW f \in Frame, Push(e, f), cmdq' = cmdq
  PROVE  /\ Stream(e)' = Stream(e) /\ (Granted(e)' <=> Granted(e))
         /\ link[Peer[e]] = "open" =>
              /\ Stream(Peer[e])' = Append(Stream(Peer[e]), RecvCmd(f))
              /\ Frames(Stream(Peer[e]))' = Frames(Stream(Peer[e])) \cup {f}
              /\ Granted(Peer[e])' <=>
                   Granted(Peer[e]) \/ f.kind = "PermitGrant"
         /\ link[Peer[e]] # "open" => wire' = wire
<1> DEFINE p == Peer[e]
<1>1. p \in Ends /\ p # e /\ wire \in [Ends -> Seq(Frame)]
  BY PeerFacts DEF TypeOK
<1>2. wire'[e] = wire[e]
  BY <1>1 DEF Push
<1>3. Stream(e)' = Stream(e) /\ (Granted(e)' <=> Granted(e))
  BY <1>2, StreamSame
<1>4. ASSUME link[p] = "open"
      PROVE  /\ Stream(p)' = Append(Stream(p), RecvCmd(f))
             /\ Frames(Stream(p))' = Frames(Stream(p)) \cup {f}
             /\ Granted(p)' <=> Granted(p) \/ f.kind = "PermitGrant"
  <2>1. wire'[p] = Append(wire[p], f)
    BY <1>1, <1>4 DEF Push
  <2>2. cmdq[p] \in Seq(Cmd) /\ wire[p] \in Seq(Frame) /\ Stream(p) \in Seq(Cmd)
    BY <1>1, StreamType
  <2>3. Stream(p)' = StreamOf(cmdq[p], Append(wire[p], f))
    BY <2>1 DEF Stream
  <2>4. Stream(p)' = Append(Stream(p), RecvCmd(f))
    BY <2>2, <2>3, StreamGrows DEF Stream
  <2>5. Frames(Stream(p)') = Frames(Stream(p)) \cup {f}
    BY <2>2, <2>4, AppendFrame
  <2>6. Granted(p)' <=> Granted(p) \/ f.kind = "PermitGrant"
    BY <2>5 DEF Granted
  <2> QED
    BY <2>4, <2>5, <2>6
<1>5. link[p] # "open" => wire' = wire
  BY DEF Push
<1> QED
  BY <1>3, <1>4, <1>5

(* The sender sends a frame.                                               *)
LEMMA SenderPushes ==
  ASSUME TypeOK, NEW e \in Ends, StreamAt(e), Steps(e),
         NEW f \in Frame, f.kind # "PermitGrant", Push(e, f),
         cmdq' = cmdq, dec' = dec, link' = link, hold' = hold, sent' = sent,
         task' = task \/ (task[e] = "new" /\ task' = [task EXCEPT ![e] = "run"]),
         msg' = msg,
         pc'[e] \notin {"new", "registering"}, pc[e] # "registering",
         dec[e].want_remote_grant => pc'[e] \in {"registered", "requested"},
         pc'[e] \in {"registered", "requested"} => dec[e].want_remote_grant,
         ~ Granted(e),
         SendOK(pc'[e], msg[e], cur'[e]),
         link[Peer[e]] = "open" =>
           /\ Fits(Frames(Stream(Peer[e])), f, dec[Peer[e]])
           /\ PairOK(pc'[e], Len(msg[e]), cur'[e],
                     Frames(Stream(Peer[e])) \cup {f}, dec[Peer[e]],
                     task[Peer[e]] = "grant", Granted(e))
  PROVE  StreamAt(e)'
<1> DEFINE p == Peer[e]
<1>1. p \in Ends /\ p # e /\ Peer[p] = e
  BY PeerFacts
<1>2. Same(p)
  BY <1>1, OthersSame
<1>3. link[e] = "open" /\ link'[e] = "open"
  BY DEF Push
<1>4. OwnOK(e) /\ LegalEnd(e) /\ LegalEnd(p) /\ OwnEnd(p) /\ PairEnd(p)
  BY <1>1, <1>3, BothEnds DEF OwnEnd
<1>5. /\ task'[e] \in {"new", "run", "deliver", "grant"}
      /\ task'[e] = "grant" <=> task[e] = "grant"
  BY <1>4 DEF OwnOK, Alive, TypeOK
<1>6. Stream(e)' = Stream(e) /\ (Granted(e)' <=> Granted(e))
  BY PushStreams
<1>7. LegalEnd(e)'
  BY <1>4, <1>6 DEF LegalEnd, OwnOK, Alive
<1>8. AwaitOK(cmdq[e], pc'[e], Len(sent[e]))
  BY <1>4, AwaitMove DEF OwnOK
<1>9. OwnOK(e)'
  BY <1>4, <1>5, <1>6, <1>8 DEF OwnOK, Alive
<1>10. CASE link[p] = "open"
  <2>1. /\ Stream(p)' = Append(Stream(p), RecvCmd(f))
        /\ Frames(Stream(p))' = Frames(Stream(p)) \cup {f}
        /\ (Granted(p)' <=> Granted(p))
    BY <1>10, PushStreams
  <2>2. Stream(p) \in Seq(Cmd)
    BY <1>1, StreamType
  <2>3. LegalEnd(p)'
    <3>1. Alive(p)' => Legal(Stream(p), dec[p])
      BY <1>2, <1>4 DEF LegalEnd, Alive, Same
    <3>2. Alive(p)' => Legal(Stream(p)', dec[p])
      BY <1>10, <2>1, <2>2, <3>1, AppendFrame
    <3> QED
      BY <1>2, <3>2 DEF LegalEnd, Same
  <2>4. OwnEnd(p)'
    BY <1>1, <1>2, <1>4, <2>1, OwnKept
  <2>5. Pair(e, p)'
    BY <1>2, <1>6, <1>10, <2>1 DEF Pair, Same, PairOK
  <2>6. Frames(Stream(e))' = Frames(Stream(e))
    BY <1>6
  <2>7. PairEnd(p)'
    BY <1>1, <1>2, <1>4, <1>5, <2>1, <2>6, PairKept DEF Same
  <2>8. OwnEnd(e)' /\ PairEnd(e)'
    BY <1>9, <2>5 DEF OwnEnd, PairEnd
  <2> QED
    BY <1>7, <2>3, <2>4, <2>7, <2>8, AtTheTwoEnds
<1>11. CASE link[p] # "open"
  <2>1. wire' = wire
    BY <1>11, PushStreams
  <2>2. link'[p] # "open"
    BY <1>11
  <2>3. OwnEnd(e)' /\ PairEnd(e)' /\ PairEnd(p)'
    BY <1>9, <2>2 DEF OwnEnd, PairEnd
  <2> QED
    BY <1>7, <2>1, <2>3, LocalStep
<1> QED
  BY <1>10, <1>11

LEMMA OpenEnd ==
  ASSUME NEW d \in Ends, StreamAt(d), NEW e \in {d, Peer[d]}, link[e] = "open"
  PROVE  /\ OwnOK(e) /\ Alive(e) /\ Legal(Stream(e), dec[e])
         /\ link[Peer[e]] = "open" => Pair(e, Peer[e])
BY DEF StreamAt, OwnEnd, OwnOK, LegalEnd, PairEnd

LEMMA NewStream ==
  ASSUME TypeOK, PermitInv, NEW e \in Ends, StreamAt(e), New(e)
  PROVE  StreamAt(e)'
<1> DEFINE p == Peer[e]
           f == VersionFrame
<1>1. /\ f \in Frame /\ f.kind = "Version"
  BY DEF VersionFrame, Frame, Kinds
<1>2. /\ Push(e, f) /\ pc[e] = "new" /\ pc'[e] = "idle"
      /\ task' = [task EXCEPT ![e] = "run"]
      /\ cmdq' = cmdq /\ dec' = dec /\ link' = link /\ hold' = hold
      /\ sent' = sent /\ msg' = msg /\ cur' = cur
  BY DEF New, TypeOK
<1>3. OwnOK(e) /\ (link[p] = "open" => Pair(e, p))
  BY <1>2, OpenEnd DEF Push
<1>4. task[e] = "new"
  BY <1>2 DEF PermitInv, EndOK
<1> HIDE DEF f
<1>5. /\ ~ Granted(e) /\ ~ dec[e].want_remote_grant
      /\ SendOK(pc'[e], msg[e], cur'[e])
  BY <1>2, <1>3 DEF OwnOK, SendOK
<1>6. ASSUME link[p] = "open"
      PROVE  /\ Fits(Frames(Stream(p)), f, dec[p])
             /\ PairOK(pc'[e], Len(msg[e]), cur'[e], Frames(Stream(p)) \cup {f},
                       dec[p], task[p] = "grant", Granted(e))
  BY <1>2, <1>3, <1>6, PairNew DEF Pair, f
<1>7. Steps(e)
  BY DEF Steps, Sender
<1> QED
  BY <1>1, <1>2, <1>4, <1>5, <1>6, <1>7, SenderPushes

LEMMA SendOneStream ==
  ASSUME TypeOK, NEW e \in Ends, StreamAt(e), SendOne(e)
  PROVE  StreamAt(e)'
<1> DEFINE p == Peer[e]
           f == CompleteFrame(msg[e])
<1>1. /\ f \in Frame /\ f.kind = "CompleteMessage"
  BY FrameTypes DEF CompleteFrame, TypeOK
<1>2. /\ Push(e, f) /\ pc[e] = "one" /\ pc'[e] = "idle" /\ task' = task
      /\ cmdq' = cmdq /\ dec' = dec /\ link' = link /\ hold' = hold
      /\ sent' = sent /\ msg' = msg /\ cur' = cur
  BY DEF SendOne, TypeOK, cmdVars
<1>3. OwnOK(e) /\ (link[p] = "open" => Pair(e, p))
  BY <1>2, OpenEnd DEF Push
<1> HIDE DEF f
<1>4. /\ ~ Granted(e) /\ ~ dec[e].want_remote_grant
      /\ SendOK(pc'[e], msg[e], cur'[e])
  BY <1>2, <1>3 DEF OwnOK, SendOK
<1>5. ASSUME link[p] = "open"
      PROVE  /\ Fits(Frames(Stream(p)), f, dec[p])
             /\ PairOK(pc'[e], Len(msg[e]), cur'[e], Frames(Stream(p)) \cup {f},
                       dec[p], task[p] = "grant", Granted(e))
  <2>1. PairOK("one", Len(msg[e]), cur[e], Frames(Stream(p)), dec[p],
               task[p] = "grant", Granted(e))
    BY <1>2, <1>3, <1>5 DEF Pair
  <2>2. /\ Fits(Frames(Stream(p)), CompleteFrame(msg[e]), dec[p])
        /\ PairOK("idle", Len(msg[e]), cur[e],
                  Frames(Stream(p)) \cup {CompleteFrame(msg[e])}, dec[p],
                  task[p] = "grant", Granted(e))
    BY <2>1, PairOne
  <2> QED
    BY <1>2, <2>2 DEF f
<1>6. Steps(e)
  BY DEF Steps, Sender
<1> QED
  BY <1>1, <1>2, <1>4, <1>5, <1>6, SenderPushes

LEMMA SendPermitRequestStream ==
  ASSUME TypeOK, NEW e \in Ends, StreamAt(e), SendPermitRequest(e)
  PROVE  StreamAt(e)'
<1> DEFINE p == Peer[e]
           f == RequestFrame(Len(msg[e]))
<1>1. /\ f \in Frame /\ f.kind = "PermitRequest"
  <2>1. Len(msg[e]) \in Nat /\ << >> \in Seq(Byte)
    BY DEF TypeOK
  <2> QED
    BY <2>1 DEF RequestFrame, Frame, Kinds
<1>2. /\ Push(e, f) /\ pc[e] = "registered" /\ pc'[e] = "requested"
      /\ task' = task /\ cmdq' = cmdq /\ dec' = dec /\ link' = link
      /\ hold' = hold /\ sent' = sent /\ msg' = msg /\ cur' = cur
  BY DEF SendPermitRequest, TypeOK, cmdVars
<1>3. OwnOK(e) /\ (link[p] = "open" => Pair(e, p))
  BY <1>2, OpenEnd DEF Push
<1> HIDE DEF f
<1>4. /\ ~ Granted(e) /\ dec[e].want_remote_grant
      /\ SendOK(pc'[e], msg[e], cur'[e])
  BY <1>2, <1>3 DEF OwnOK, SendOK
<1>5. ASSUME link[p] = "open"
      PROVE  /\ Fits(Frames(Stream(p)), f, dec[p])
             /\ PairOK(pc'[e], Len(msg[e]), cur'[e], Frames(Stream(p)) \cup {f},
                       dec[p], task[p] = "grant", Granted(e))
  BY <1>2, <1>3, <1>4, <1>5, PairAsks DEF Pair, f
<1>6. Steps(e)
  BY DEF Steps, Sender
<1> QED
  BY <1>1, <1>2, <1>4, <1>5, <1>6, SenderPushes

LEMMA SendChunkStream ==
  ASSUME TypeOK, NEW e \in Ends, StreamAt(e), SendChunk(e)
  PROVE  StreamAt(e)'
<1> DEFINE p == Peer[e]
           s == NextChunk(msg[e], cur[e])
           f == ChunkFrame(s)
           k == Len(s)
<1>1. msg[e] \in Seq(Byte) /\ cur[e] \in Nat /\ s \in Seq(Byte)
  BY NextChunkType DEF TypeOK
<1>2. f \in Frame /\ f.kind = "MultipartMessage"
  BY <1>1, FrameTypes DEF ChunkFrame
<1>3. /\ Push(e, f) /\ pc[e] = "chunks"
      /\ pc'[e] = IF cur[e] + k = Len(msg[e]) THEN "idle" ELSE "chunks"
      /\ cur'[e] = cur[e] + k
      /\ task' = task /\ cmdq' = cmdq /\ dec' = dec /\ link' = link
      /\ hold' = hold /\ sent' = sent /\ msg' = msg
  BY DEF SendChunk, TypeOK, cmdVars
<1>4. OwnOK(e) /\ (link[p] = "open" => Pair(e, p))
  BY <1>3, OpenEnd DEF Push
<1>5. /\ cur[e] < Len(msg[e]) /\ \A i \in 1..Len(msg[e]) : msg[e][i][2] = i
      /\ ~ Granted(e) /\ ~ dec[e].want_remote_grant
  BY <1>3, <1>4 DEF OwnOK, SendOK
<1>6. k \in Nat \ {0} /\ cur[e] + k <= Len(msg[e])
  BY <1>1, <1>5, NextChunkShape
<1>7. ASSUME link[p] = "open"
      PROVE  /\ Fits(Frames(Stream(p)), f, dec[p])
             /\ PairOK(pc'[e], Len(msg[e]), cur'[e], Frames(Stream(p)) \cup {f},
                       dec[p], task[p] = "grant", Granted(e))
  <2>1. p \in Ends /\ Stream(p) \in Seq(Cmd) /\ dec[p] \in Decoder
    BY PeerFacts, StreamType DEF TypeOK
  <2>2. Legal(Stream(p), dec[p])
    BY <1>7, <2>1, OpenEnd
  <2>3. PairOK("chunks", Len(msg[e]), cur[e], Frames(Stream(p)), dec[p],
               task[p] = "grant", Granted(e))
    BY <1>3, <1>4, <1>7 DEF Pair
  <2>4. /\ Fits(Frames(Stream(p)), f, dec[p])
        /\ PairOK(IF cur[e] + k = Len(msg[e]) THEN "idle" ELSE "chunks",
                  Len(msg[e]), cur[e] + k, Frames(Stream(p)) \cup {f}, dec[p],
                  task[p] = "grant", Granted(e))
    BY <1>1, <1>5, <2>1, <2>2, <2>3, PairChunk
  <2> HIDE DEF f, k
  <2> QED
    BY <1>3, <2>4
<1> HIDE DEF f, k
<1>8. SendOK(pc'[e], msg[e], cur'[e])
  <2>1. cur[e] + k # Len(msg[e]) => cur[e] + k < Len(msg[e])
    <3>1. cur[e] \in Nat /\ k \in Nat /\ Len(msg[e]) \in Nat
      BY <1>1, <1>6
    <3> QED
      BY ONLY <1>6, <3>1
  <2>2. pc'[e] = "chunks" => cur'[e] < Len(msg[e])
    BY <1>3, <2>1
  <2>3. pc'[e] \in {"idle", "chunks"}
    BY <1>3
  <2> QED
    BY <1>5, <2>2, <2>3 DEF SendOK
<1>9. Steps(e)
  BY DEF Steps, Sender
<1>10. /\ pc'[e] \notin {"new", "registering", "registered", "requested"}
       /\ pc[e] # "registering"
  BY <1>3
<1> QED
  BY <1>2, <1>3, <1>5, <1>7, <1>8, <1>9, <1>10, SenderPushes

(* The connection of an end is closed, or closes.                          *)
LEMMA ClosedStream ==
  ASSUME TypeOK, PermitInv, CanCancel = {}, NEW e \in Ends, StreamAt(e),
         \/ NewFail(e) \/ SendFail(e) \/ SendCancel(e)
         \/ RecvTaskStop(e) \/ ConnClose(e) \/ Drop(e)
  PROVE  StreamAt(e)'
<1> DEFINE p == Peer[e]
<1> USE DEF senderVars, cmdVars, permitVars, appVars
<1>1. p \in Ends /\ p # e
  BY PeerFacts
<1>2. link \in [Ends -> {"open", "closed"}] /\ wire \in [Ends -> Seq(Frame)]
      /\ task \in [Ends -> TaskAt]
  BY DEF TypeOK
<1>3. Steps(e)
  BY DEF Steps, Sender, Receiver
<1>4. LegalEnd(e)
  BY BothEnds
<1>5. CASE NewFail(e)
  <2>1. link'[e] = "closed" /\ wire' = wire /\ task'[e] = "closed"
    BY <1>2, <1>5 DEF NewFail
  <2>2. LegalEnd(e)'
    BY <2>1 DEF LegalEnd, Alive
  <2> QED
    BY <1>3, <2>1, <2>2, ClosedStep
<1>6. CASE SendFail(e)
  <2>1. link[e] = "closed"
    <3> SUFFICES ASSUME link[e] = "open"
                 PROVE  FALSE
      BY <1>2
    <3>1. OwnOK(e) /\ Alive(e)
      BY OpenEnd
    <3>2. task[e] # "new"
      BY <1>6 DEF SendFail, PermitInv, EndOK
    <3> QED
      BY <1>6, <3>1, <3>2 DEF SendFail, Running, Alive
  <2>2. /\ link' = link /\ wire' = wire /\ task' = task /\ dec' = dec
        /\ cmdq' = cmdq
    BY <1>6 DEF SendFail, GiveUp
  <2>3. Stream(e)' = Stream(e)
    BY <2>2, StreamSame
  <2>4. LegalEnd(e)'
    BY <1>4, <2>2, <2>3, LegalKept
  <2> QED
    BY <1>3, <2>1, <2>2, <2>4, ClosedStep
<1>7. CASE SendCancel(e)
  BY <1>7 DEF SendCancel
<1>8. ASSUME NEW k, Cut(e, k)
      PROVE  /\ wire'[e] = SubSeq(wire[e], 1, k)
             /\ \E j \in 0..Len(wire[p]) : wire'[p] = SubSeq(wire[p], 1, j)
  BY <1>1, <1>2, <1>8 DEF Cut
<1>9. CASE RecvTaskStop(e)
  <2>1. link'[e] = "closed" /\ Cut(e, 0) /\ task'[e] \in {"failed", "closed"}
    BY <1>2, <1>9 DEF RecvTaskStop
  <2>2. LegalEnd(e)'
    BY <2>1 DEF LegalEnd, Alive
  <2> QED
    BY <1>3, <1>8, <2>1, <2>2, ClosedStep
<1>10. CASE Drop(e)
  <2>1. link'[e] = "closed" /\ Cut(e, 0) /\ task'[e] = "dropped"
    BY <1>2, <1>10 DEF Drop, Stop
  <2>2. LegalEnd(e)'
    BY <2>1 DEF LegalEnd, Alive
  <2> QED
    BY <1>3, <1>8, <2>1, <2>2, ClosedStep
<1>11. CASE ConnClose(e)
  <2>1. /\ link'[e] = "closed" /\ task' = task /\ dec' = dec /\ cmdq' = cmdq
    BY <1>2, <1>11 DEF ConnClose
  <2>2. PICK k \in 0..Len(wire[e]) : Cut(e, k)
    BY <1>11 DEF ConnClose
  <2>3. wire'[e] = SubSeq(wire[e], 1, k)
    BY <1>8, <2>2
  <2>4. Stream(e)' = StreamOf(cmdq[e], SubSeq(wire[e], 1, k))
    BY <2>1, <2>3 DEF Stream
  <2>5. cmdq[e] \in Seq(Cmd) /\ wire[e] \in Seq(Frame)
    BY StreamType
  <2>6. \A d : Legal(Stream(e), d) => Legal(Stream(e)', d)
    BY <2>4, <2>5, StreamCut DEF Stream
  <2>7. LegalEnd(e)'
    BY <1>4, <2>1, <2>6 DEF LegalEnd, Alive
  <2> QED
    BY <1>3, <1>8, <2>1, <2>2, <2>7, ClosedStep
<1> QED
  BY <1>5, <1>6, <1>7, <1>9, <1>10, <1>11

(* A step after which the same frames wait at the end.                     *)
LEMMA QuietStep ==
  ASSUME TypeOK, NEW e \in Ends, StreamAt(e), Steps(e),
         wire'[Peer[e]] = wire[Peer[e]], link'[e] = link[e],
         Frames(Stream(e)') = Frames(Stream(e)),
         \A d : Legal(Stream(e), d) => Legal(Stream(e)', d),
         /\ dec'[e].state = dec[e].state /\ dec'[e].want_size = dec[e].want_size
         /\ dec'[e].incoming = dec[e].incoming
         /\ dec'[e].awaiting = dec[e].awaiting,
         Alive(e)' => Alive(e),
         task'[e] = "grant" <=> task[e] = "grant",
         \/ pc'[e] = pc[e] /\ msg'[e] = msg[e] /\ cur'[e] = cur[e]
         \/ /\ pc[e] \notin {"new", "requested", "chunks"}
            /\ pc'[e] \notin {"new", "requested", "chunks"},
         OwnEnd(e)'
  PROVE  StreamAt(e)'
<1> DEFINE p == Peer[e]
<1>1. p \in Ends /\ p # e /\ Peer[p] = e
  BY PeerFacts
<1>2. Same(p) /\ cmdq'[p] = cmdq[p]
  BY <1>1, OthersSame DEF Same
<1>3. LegalEnd(e) /\ PairEnd(e) /\ PairEnd(p)
  BY <1>1, BothEnds
<1>4. Granted(e)' <=> Granted(e)
  BY DEF Granted
<1>5. Stream(p)' = Stream(p) /\ (Granted(p)' <=> Granted(p))
  BY <1>1, <1>2, StreamSame
<1>6. LegalEnd(e)'
  BY <1>3, FitsSame DEF LegalEnd
<1>7. ASSUME link'[e] = "open", link'[p] = "open"
      PROVE  Pair(e, p)'
  <2>1. PairOK(pc[e], Len(msg[e]), cur[e], Frames(Stream(p)), dec[p],
               task[p] = "grant", Granted(e))
    BY <1>2, <1>3, <1>7 DEF PairEnd, Pair, Same
  <2>2. PairOK(pc'[e], Len(msg'[e]), cur'[e], Frames(Stream(p)), dec[p],
               task[p] = "grant", Granted(e))
    BY <2>1, PairMoves
  <2> QED
    BY <1>2, <1>4, <1>5, <2>2 DEF Pair, Same, PairOK
<1>8. ASSUME link'[e] = "open", link'[p] = "open"
      PROVE  Pair(p, e)'
  <2>1. PairOK(pc[p], Len(msg[p]), cur[p], Frames(Stream(e)), dec[e],
               task[e] = "grant", Granted(p))
    BY <1>1, <1>2, <1>3, <1>8 DEF PairEnd, Pair, Same
  <2>2. PairOK(pc[p], Len(msg[p]), cur[p], Frames(Stream(e)), dec'[e],
               task'[e] = "grant", Granted(p)')
    BY <1>5, <2>1 DEF PairOK, Settled, Completed, Asked, Awaits, Fresh, Chunking
  <2> QED
    BY <1>2, <2>2 DEF Pair, Same
<1>9. PairEnd(e)' /\ PairEnd(p)'
  BY <1>1, <1>7, <1>8 DEF PairEnd
<1> QED
  BY <1>6, <1>9, LocalStep

LEMMA SendStartStream ==
  ASSUME TypeOK, NEW e \in Ends, StreamAt(e), SendStart(e)
  PROVE  StreamAt(e)'
<1> USE DEF senderVars, cmdVars, permitVars, appVars
<1>1. PICK n \in Sizes[e] :
        LET m == Body(Len(sent[e]) + 1, n) IN
        /\ msg' = [msg EXCEPT ![e] = m]
        /\ pc' = [pc EXCEPT ![e] = IF NeedsPermit(m) THEN "await" ELSE "one"]
  BY DEF SendStart
<1> DEFINE m == Body(Len(sent[e]) + 1, n)
<1>2. /\ pc[e] = "idle" /\ msg'[e] = m /\ cur'[e] = 0
      /\ pc'[e] = IF NeedsPermit(m) THEN "await" ELSE "one"
      /\ link' = link /\ wire' = wire /\ cmdq' = cmdq /\ task' = task
      /\ hold' = hold /\ dec' = dec
  BY <1>1 DEF SendStart, TypeOK
<1>3. n \in Nat
  BY FramedAssumption
<1>4. /\ Len(m) = n /\ \A i \in 1..Len(m) : m[i][2] = i
      /\ NeedsPermit(m) => Len(m) > 0
  BY <1>3, MaxChunkAssumption DEF Body, NeedsPermit
<1> HIDE DEF m
<1>5. SendOK(pc'[e], msg'[e], cur'[e])
  BY <1>2, <1>4 DEF SendOK
<1>6. Stream(e)' = Stream(e) /\ (Granted(e)' <=> Granted(e))
  BY <1>2, StreamSame
<1>7. OwnEnd(e)'
  <2> SUFFICES ASSUME link[e] = "open"
               PROVE  OwnOK(e)'
    BY <1>2 DEF OwnEnd
  <2>1. OwnOK(e)
    BY OpenEnd
  <2>2. AwaitOK(cmdq[e], pc'[e], Len(sent'[e]))
    BY <1>2, <2>1, AwaitMove DEF OwnOK
  <2>3. ~ dec[e].want_remote_grant /\ ~ Granted(e)
    BY <1>2, <2>1 DEF OwnOK
  <2> QED
    BY <1>2, <1>5, <1>6, <2>1, <2>2, <2>3 DEF OwnOK, Alive
<1>8. Steps(e)
  BY DEF Steps
<1>9. /\ pc[e] \notin {"new", "requested", "chunks"}
      /\ pc'[e] \notin {"new", "requested", "chunks"}
  BY <1>2
<1>10. Alive(e)' => Alive(e)
  BY <1>2 DEF Alive
<1> QED
  BY <1>2, <1>6, <1>7, <1>8, <1>9, <1>10, QuietStep

(* A command that is no frame joins the command channel.                   *)
LEMMA OtherCmdStream ==
  ASSUME TypeOK, NEW e \in Ends, StreamAt(e),
         SendAwaitPermit(e) \/ RecvTaskClose(e) \/ WaiterSend(e)
  PROVE  StreamAt(e)'
<1> USE DEF senderVars, cmdVars, permitVars, appVars
<1>1. cmdq[e] \in Seq(Cmd) /\ wire[e] \in Seq(Frame)
  BY StreamType
<1>2. Steps(e)
  BY DEF Steps, Sender, Receiver, Waiter
<1>3. /\ link' = link /\ wire' = wire /\ task' = task /\ hold' = hold
      /\ dec' = dec /\ msg' = msg /\ cur' = cur /\ sent' = sent
  BY DEF SendAwaitPermit, RecvTaskClose, WaiterSend
<1>4. Alive(e)' => Alive(e)
  BY <1>3 DEF Alive
<1>5. ASSUME NEW c \in Cmd, c.cmd # "Recv", cmdq'[e] = Append(cmdq[e], c)
      PROVE  /\ Frames(Stream(e)') = Frames(Stream(e))
             /\ \A d : Legal(Stream(e), d) => Legal(Stream(e)', d)
             /\ Granted(e)' <=> Granted(e)
  <2>1. Stream(e)' = StreamOf(Append(cmdq[e], c), wire[e])
    BY <1>3, <1>5 DEF Stream
  <2>2. /\ Frames(Stream(e)') = Frames(Stream(e))
        /\ \A d : Legal(Stream(e), d) => Legal(Stream(e)', d)
    BY <1>1, <1>5, <2>1, StreamOtherCmd DEF Stream
  <2> QED
    BY <2>2 DEF Granted
<1>6. ASSUME NEW c \in Cmd, c.cmd # "Close", cmdq'[e] = Append(cmdq[e], c),
             OwnOK(e)
      PROVE  \A i \in 1..Len(cmdq'[e]) : cmdq'[e][i].cmd # "Close"
  <2>1. \A i \in 1..Len(cmdq[e]) : cmdq[e][i].cmd # "Close"
    BY <1>6 DEF OwnOK
  <2> QED
    BY <1>1, <1>6, <2>1
<1>7. CASE SendAwaitPermit(e)
  <2> DEFINE c == [cmd |-> "AwaitPermit", id |-> Len(sent[e])]
  <2>1. Len(sent[e]) \in Nat
    BY DEF TypeOK
  <2>2. c \in Cmd /\ c.cmd = "AwaitPermit"
    BY <2>1 DEF Cmd
  <2>3. /\ cmdq'[e] = Append(cmdq[e], c)
        /\ pc[e] = "await" /\ pc'[e] = "registering"
    BY <1>7 DEF SendAwaitPermit, TypeOK
  <2>4. /\ Frames(Stream(e)') = Frames(Stream(e))
        /\ \A d : Legal(Stream(e), d) => Legal(Stream(e)', d)
        /\ Granted(e)' <=> Granted(e)
    BY <1>5, <2>2, <2>3
  <2>5. OwnEnd(e)'
    <3> SUFFICES ASSUME link[e] = "open"
                 PROVE  OwnOK(e)'
      BY <1>3 DEF OwnEnd
    <3>1. OwnOK(e)
      BY OpenEnd
    <3>2. AwaitOK(cmdq[e], "await", Len(sent[e]))
      BY <2>3, <3>1 DEF OwnOK
    <3>3. AwaitOK(cmdq'[e], pc'[e], Len(sent'[e]))
      BY <1>1, <1>3, <2>1, <2>3, <3>2, AwaitAsked
    <3>4. \A i \in 1..Len(cmdq'[e]) : cmdq'[e][i].cmd # "Close"
      BY <1>6, <2>2, <2>3, <3>1
    <3>5. SendOK(pc'[e], msg[e], cur[e])
      BY <2>3, <3>1 DEF OwnOK, SendOK
    <3>6. ~ dec[e].want_remote_grant /\ ~ Granted(e)
      BY <2>3, <3>1 DEF OwnOK
    <3> QED
      BY <1>3, <2>3, <2>4, <3>1, <3>3, <3>4, <3>5, <3>6 DEF OwnOK, Alive
  <2>6. /\ pc[e] \notin {"new", "requested", "chunks"}
        /\ pc'[e] \notin {"new", "requested", "chunks"}
    BY <2>3
  <2> QED
    BY <1>2, <1>3, <1>4, <2>4, <2>5, <2>6, QuietStep
<1>8. CASE RecvTaskClose(e)
  <2> DEFINE c == [cmd |-> "Close"]
  <2>1. c \in Cmd /\ c.cmd # "Recv" /\ cmdq'[e] = Append(cmdq[e], c)
    BY <1>8 DEF Cmd, RecvTaskClose, TypeOK
  <2>2. link'[e] = "closed"
    BY <1>8 DEF RecvTaskClose
  <2>3. LegalEnd(e)
    BY BothEnds
  <2>4. \A d : Legal(Stream(e), d) => Legal(Stream(e)', d)
    BY <1>5, <2>1
  <2>5. LegalEnd(e)'
    BY <1>3, <1>4, <2>3, <2>4 DEF LegalEnd
  <2> QED
    BY <1>2, <1>3, <2>2, <2>5, ClosedStep
<1>9. CASE WaiterSend(e)
  <2> DEFINE c == [cmd |-> "RemotePermit", len |-> waiter[e].len]
  <2>1. c \in Cmd
    BY DEF TypeOK, Cmd
  <2>2. /\ c.cmd = "RemotePermit" /\ cmdq'[e] = Append(cmdq[e], c)
        /\ pc' = pc
    BY <1>9 DEF WaiterSend, TypeOK
  <2>3. /\ Frames(Stream(e)') = Frames(Stream(e))
        /\ \A d : Legal(Stream(e), d) => Legal(Stream(e)', d)
        /\ Granted(e)' <=> Granted(e)
    BY <1>5, <2>1, <2>2
  <2>4. OwnEnd(e)'
    <3> SUFFICES ASSUME link[e] = "open"
                 PROVE  OwnOK(e)'
      BY <1>3 DEF OwnEnd
    <3>1. OwnOK(e)
      BY OpenEnd
    <3>2. AwaitOK(cmdq'[e], pc[e], Len(sent[e]))
      BY <1>1, <2>1, <2>2, <3>1, AwaitAppend DEF OwnOK
    <3>3. \A i \in 1..Len(cmdq'[e]) : cmdq'[e][i].cmd # "Close"
      BY <1>6, <2>1, <2>2, <3>1
    <3> QED
      BY <1>3, <2>2, <2>3, <3>1, <3>2, <3>3 DEF OwnOK, Alive
  <2> QED
    BY <1>2, <1>3, <1>4, <2>2, <2>3, <2>4, QuietStep
<1> QED
  BY <1>7, <1>8, <1>9

LEMMA RecvTaskStream ==
  ASSUME TypeOK, NEW e \in Ends, StreamAt(e), RecvTask(e)
  PROVE  StreamAt(e)'
<1> USE DEF senderVars, cmdVars, permitVars, appVars
<1> DEFINE c == RecvCmd(Head(wire[e]))
<1>1. cmdq[e] \in Seq(Cmd) /\ wire[e] \in Seq(Frame) /\ wire[e] # << >>
  BY StreamType DEF RecvTask
<1>2. c \in Cmd /\ c.cmd = "Recv"
  BY <1>1 DEF RecvCmd, Cmd
<1>3. /\ cmdq'[e] = Append(cmdq[e], c) /\ wire'[e] = Tail(wire[e])
      /\ wire'[Peer[e]] = wire[Peer[e]]
      /\ link' = link /\ task' = task /\ hold' = hold /\ dec' = dec
      /\ pc' = pc /\ msg' = msg /\ cur' = cur /\ sent' = sent
  BY PeerFacts DEF RecvTask, TypeOK, RecvCmd
<1>4. Stream(e)' = Stream(e)
  BY <1>1, <1>3, StreamMoves DEF Stream
<1>5. Granted(e)' <=> Granted(e)
  BY <1>4 DEF Granted
<1> HIDE DEF c
<1>6. OwnEnd(e)'
  <2> SUFFICES ASSUME link[e] = "open"
               PROVE  OwnOK(e)'
    BY <1>3 DEF OwnEnd
  <2>1. OwnOK(e)
    BY OpenEnd
  <2>2. AwaitOK(cmdq'[e], pc[e], Len(sent[e]))
    BY <1>1, <1>2, <1>3, <2>1, AwaitAppend DEF OwnOK
  <2>3. \A i \in 1..Len(cmdq[e]) : cmdq[e][i].cmd # "Close"
    BY <2>1 DEF OwnOK
  <2>4. \A i \in 1..Len(cmdq'[e]) : cmdq'[e][i].cmd # "Close"
    BY <1>1, <1>2, <1>3, <2>3
  <2> QED
    BY <1>3, <1>5, <2>1, <2>2, <2>4 DEF OwnOK, Alive
<1>7. Steps(e)
  BY DEF Steps, Receiver
<1>8. Alive(e)' => Alive(e)
  BY <1>3 DEF Alive
<1> QED
  BY <1>3, <1>4, <1>6, <1>7, <1>8, QuietStep

(* Nothing changes that the streams depend on.                             *)
LEMMA OtherStream ==
  ASSUME TypeOK, NEW e \in Ends, StreamAt(e),
         \/ CmdDeliver(e) \/ OwnerRecv(e)
         \/ WaiterPoll(e) \/ WaiterAcquire(e) \/ WaiterGone(e)
  PROVE  StreamAt(e)'
<1> USE DEF senderVars, cmdVars, permitVars, appVars
<1>1. /\ pc' = pc /\ msg' = msg /\ cur' = cur /\ sent' = sent /\ link' = link
      /\ cmdq' = cmdq /\ dec' = dec /\ wire' = wire
  BY DEF CmdDeliver, OwnerRecv, WaiterPoll, WaiterAcquire, WaiterGone
<1>2. \/ task'[e] = task[e] /\ hold'[e] = hold[e]
      \/ task[e] = "deliver" /\ task'[e] = "run"
  BY DEF CmdDeliver, OwnerRecv, WaiterPoll, WaiterAcquire, WaiterGone, TypeOK
<1>3. Stream(e)' = Stream(e) /\ (Granted(e)' <=> Granted(e))
  BY <1>1, StreamSame
<1>4. OwnEnd(e)'
  <2> SUFFICES ASSUME link[e] = "open"
               PROVE  OwnOK(e)'
    BY <1>1 DEF OwnEnd
  <2>1. OwnOK(e)
    BY OpenEnd
  <2> QED
    BY <1>1, <1>2, <1>3, <2>1 DEF OwnOK, Alive
<1>5. Steps(e)
  BY DEF Steps, CmdTask, Waiter
<1>6. (Alive(e)' => Alive(e)) /\ (task'[e] = "grant" <=> task[e] = "grant")
  BY <1>2 DEF Alive
<1> QED
  BY <1>1, <1>3, <1>4, <1>5, <1>6, QuietStep

LEMMA TakenStream ==
  ASSUME TypeOK, NEW e \in Ends, cmdq[e] # << >>,
         cmdq'[e] = Tail(cmdq[e]), wire'[e] = wire[e]
  PROVE  /\ Stream(e) # << >> /\ Head(Stream(e)) = Head(cmdq[e])
         /\ Stream(e)' = Tail(Stream(e))
         /\ Head(cmdq[e]) \in Cmd /\ Tail(Stream(e)) \in Seq(Cmd)
<1>1. cmdq[e] \in Seq(Cmd) /\ wire[e] \in Seq(Frame) /\ Stream(e) \in Seq(Cmd)
  BY StreamType
<1>2. Stream(e)' = StreamOf(Tail(cmdq[e]), wire[e])
  BY DEF Stream
<1>3. /\ Stream(e) # << >> /\ Head(Stream(e)) = Head(cmdq[e])
      /\ Stream(e)' = Tail(Stream(e))
  BY <1>1, <1>2, StreamTaken DEF Stream
<1> QED
  BY <1>1, <1>3

LEMMA NextFrame ==
  ASSUME TypeOK, NEW e \in Ends, StreamAt(e), TakesCmd(e, "Recv")
  PROVE  LET f == Head(cmdq[e]).frame IN
         /\ f \in Frame /\ f \in Frames(Stream(e)) /\ Fits({}, f, dec[e])
<1> DEFINE f == Head(cmdq[e]).frame
           S == Stream(e)
<1>1. /\ task[e] = "run" /\ cmdq[e] # << >> /\ cmdq[e] \in Seq(Cmd)
      /\ Head(cmdq[e]) \in Cmd /\ Head(cmdq[e]).cmd = "Recv"
      /\ wire[e] \in Seq(Frame) /\ S \in Seq(Cmd)
  BY StreamType DEF TakesCmd
<1>2. S # << >> /\ Head(S) = Head(cmdq[e])
  BY <1>1, StreamTaken DEF Stream
<1>3. Legal(S, dec[e])
  BY <1>1, BothEnds DEF LegalEnd, Alive
<1>4. /\ Fits({}, Head(S).frame, dec[e])
      /\ Frames(S) = {Head(S).frame} \cup Frames(Tail(S))
  BY <1>1, <1>2, <1>3, TailFrame
<1>5. f \in Frame
  BY <1>1 DEF Cmd
<1> QED
  BY <1>2, <1>4, <1>5

(* On an open connection the command task never stops.                     *)
LEMMA StopsClosed ==
  ASSUME TypeOK, PermitInv, NEW e \in Ends, StreamAt(e),
         CmdRecvError(e) \/ CmdAwaitPermitError(e) \/ CmdClose(e)
  PROVE  link[e] = "closed"
<1> SUFFICES ASSUME link[e] = "open"
             PROVE  FALSE
  BY DEF TypeOK
<1>1. OwnOK(e)
  BY OpenEnd
<1>2. dec[e] \in Decoder /\ ~ dec[e].did_error /\ cmdq[e] \in Seq(Cmd)
  BY DEF TypeOK, PermitInv, EndOK
<1>3. CASE CmdRecvError(e)
  <2> DEFINE f == Head(cmdq[e]).frame
  <2>1. /\ TakesCmd(e, "Recv") /\ ResultOf(dec[e], f).what = "Err"
    BY <1>3 DEF CmdRecvError
  <2>2. f \in Frame /\ f \in Frames(Stream(e)) /\ Fits({}, f, dec[e])
    BY <2>1, NextFrame
  <2>3. f.kind = "PermitGrant" => dec[e].want_remote_grant
    BY <1>1, <2>2 DEF OwnOK, Granted
  <2>4. Accepts(dec[e], f)
    BY <1>2, <2>2, <2>3, FitsAccepted
  <2> HIDE DEF f
  <2>5. ResultOf(dec[e], f).what # "Err"
    BY <2>4 DEF ResultOf, Outcome, Idle
  <2> QED
    BY <2>1, <2>5
<1>4. CASE CmdAwaitPermitError(e)
  <2>1. /\ cmdq[e] # << >> /\ Head(cmdq[e]).cmd = "AwaitPermit"
        /\ ~ MayRequest(dec[e])
    BY <1>4 DEF CmdAwaitPermitError, TakesCmd
  <2>2. pc[e] = "registering"
    BY <1>1, <1>2, <2>1, AwaitTail DEF OwnOK
  <2> QED
    BY <1>1, <1>2, <2>1, <2>2 DEF OwnOK, MayRequest
<1>5. CASE CmdClose(e)
  <2>1. cmdq[e] # << >> /\ Head(cmdq[e]).cmd = "Close"
    BY <1>5 DEF CmdClose, TakesCmd
  <2>2. 1 \in 1..Len(cmdq[e]) /\ cmdq[e][1] = Head(cmdq[e])
    BY <1>2, <2>1
  <2> QED
    BY <1>1, <2>1, <2>2 DEF OwnOK
<1> QED
  BY <1>3, <1>4, <1>5

LEMMA StopsStream ==
  ASSUME TypeOK, PermitInv, NEW e \in Ends, StreamAt(e),
         CmdRecvError(e) \/ CmdAwaitPermitError(e) \/ CmdClose(e)
  PROVE  StreamAt(e)'
<1>1. link[e] = "closed"
  BY StopsClosed
<1>2. /\ link' = link /\ wire' = wire
      /\ task'[e] = "failed" \/ task'[e] = "closed"
  BY DEF CmdRecvError, CmdAwaitPermitError, CmdClose, Stop, TypeOK
<1>3. LegalEnd(e)'
  BY <1>2 DEF LegalEnd, Alive
<1>4. Steps(e)
  BY DEF Steps, CmdTask
<1> QED
  BY <1>1, <1>2, <1>3, <1>4, ClosedStep

LEMMA CmdAwaitPermitStream ==
  ASSUME TypeOK, NEW e \in Ends, StreamAt(e), CmdAwaitPermit(e)
  PROVE  StreamAt(e)'
<1> USE DEF senderVars, cmdVars, permitVars, appVars
<1> DEFINE k == Head(cmdq[e]).id
           S == Stream(e)
<1>1. /\ cmdq[e] # << >> /\ Head(cmdq[e]).cmd = "AwaitPermit"
      /\ task[e] = "run" /\ MayRequest(dec[e])
      /\ dec'[e] = AfterRequest(dec[e], k)
      /\ cmdq'[e] = Tail(cmdq[e])
      /\ pc'[e] = IF pc[e] = "registering" /\ k = Len(sent[e])
                  THEN "registered" ELSE pc[e]
      /\ link' = link /\ wire' = wire /\ task' = task /\ hold' = hold
      /\ msg' = msg /\ cur' = cur /\ sent' = sent
  BY DEF CmdAwaitPermit, TakesCmd, Notify, TypeOK
<1>2. /\ S # << >> /\ Head(S) = Head(cmdq[e]) /\ Stream(e)' = Tail(S)
      /\ S \in Seq(Cmd) /\ cmdq[e] \in Seq(Cmd) /\ dec[e] \in Decoder
  BY <1>1, TakenStream, StreamType DEF TypeOK
<1>3. /\ Frames(Stream(e)') = Frames(S)
      /\ \A d : Legal(S, d) => Legal(Stream(e)', d)
  BY <1>1, <1>2, TailOtherCmd
<1>4. Granted(e)' <=> Granted(e)
  BY <1>3 DEF Granted
<1>5. /\ dec'[e].state = dec[e].state /\ dec'[e].want_size = dec[e].want_size
      /\ dec'[e].incoming = dec[e].incoming
      /\ dec'[e].awaiting = dec[e].awaiting
      /\ dec'[e].want_remote_grant /\ dec'[e].notify = k
  BY <1>1, <1>2 DEF AfterRequest, Decoder
<1> HIDE DEF S, k
<1>6. OwnEnd(e)'
  <2> SUFFICES ASSUME link[e] = "open"
               PROVE  OwnOK(e)'
    BY <1>1 DEF OwnEnd
  <2>1. OwnOK(e)
    BY OpenEnd
  <2>2. /\ pc[e] = "registering" /\ k = Len(sent[e])
        /\ AwaitOK(Tail(cmdq[e]), "registered", k)
    BY <1>1, <1>2, <2>1, AwaitTail DEF OwnOK, k
  <2>3. pc'[e] = "registered"
    BY <1>1, <2>2
  <2>4. \A i \in 1..Len(cmdq'[e]) : cmdq'[e][i].cmd # "Close"
    <3>1. \A i \in 1..Len(cmdq[e]) : cmdq[e][i].cmd # "Close"
      BY <2>1 DEF OwnOK
    <3> QED
      BY <1>1, <1>2, <3>1
  <2>5. SendOK("registered", msg[e], cur[e]) /\ ~ Granted(e)
    BY <2>1, <2>2 DEF OwnOK, SendOK
  <2> QED
    BY <1>1, <1>4, <1>5, <2>1, <2>2, <2>3, <2>4, <2>5 DEF OwnOK, Alive
<1>7. Steps(e)
  BY DEF Steps, CmdTask
<1>8. \/ pc'[e] = pc[e]
      \/ pc[e] = "registering" /\ pc'[e] = "registered"
  BY <1>1
<1>9. Alive(e)' => Alive(e)
  BY <1>1 DEF Alive
<1>10. /\ wire'[Peer[e]] = wire[Peer[e]] /\ link'[e] = link[e]
       /\ task'[e] = task[e] /\ msg'[e] = msg[e] /\ cur'[e] = cur[e]
  BY <1>1
<1> QED
  BY <1>3, <1>5, <1>6, <1>7, <1>8, <1>9, <1>10, QuietStep DEF S

LEMMA CmdRemotePermitStream ==
  ASSUME TypeOK, PermitInv, NEW e \in Ends, StreamAt(e), CmdRemotePermit(e)
  PROVE  StreamAt(e)'
<1> USE DEF senderVars, cmdVars, permitVars, appVars
<1> DEFINE k == Head(cmdq[e]).len
           S == Stream(e)
           p == Peer[e]
<1>1. /\ cmdq[e] # << >> /\ Head(cmdq[e]).cmd = "RemotePermit"
      /\ task[e] = "run" /\ MayGrant(dec[e])
      /\ dec'[e] = AfterGrant(dec[e], k) /\ hold'[e] = GrantFrame(k)
      /\ cmdq'[e] = Tail(cmdq[e]) /\ task'[e] = "grant"
      /\ link' = link /\ wire' = wire /\ pc' = pc
      /\ msg' = msg /\ cur' = cur /\ sent' = sent
  BY DEF CmdRemotePermit, TakesCmd, TypeOK
<1>2. /\ S # << >> /\ Head(S) = Head(cmdq[e]) /\ Stream(e)' = Tail(S)
      /\ S \in Seq(Cmd) /\ cmdq[e] \in Seq(Cmd) /\ dec[e] \in Decoder
      /\ Head(cmdq[e]) \in Cmd /\ Tail(S) \in Seq(Cmd)
  BY <1>1, TakenStream, StreamType DEF TypeOK
<1>3. k \in Nat
  BY <1>1, <1>2 DEF Cmd
<1>4. /\ Frames(Stream(e)') = Frames(S)
      /\ \A d : Legal(S, d) => Legal(Stream(e)', d)
  BY <1>1, <1>2, TailOtherCmd
<1>5. Granted(e)' <=> Granted(e)
  BY <1>4 DEF Granted
<1>6. /\ dec[e].state = "RemoteAwaitingPermit" /\ ~ dec[e].did_error
      /\ Consistent(dec[e])
  BY <1>1 DEF MayGrant, PermitInv, EndOK
<1>7. Legal(S, dec[e])
  BY <1>1, BothEnds DEF LegalEnd, Alive
<1>8. LegalEnd(e)'
  <2>1. Legal(Stream(e)', dec[e])
    BY <1>4, <1>7
  <2>2. ASSUME NEW i \in Recvs(Tail(S))
        PROVE  Fits(Before(Tail(S), i), Tail(S)[i].frame, AfterGrant(dec[e], k))
    <3>1. Tail(S)[i].frame \in Frame
      BY <1>2 DEF Recvs, Cmd
    <3>2. Fits(Before(Tail(S), i), Tail(S)[i].frame, dec[e])
      BY <1>2, <2>1 DEF Legal
    <3> QED
      BY <1>2, <1>3, <1>6, <3>1, <3>2, FitsWaiting
  <2>3. Legal(Stream(e)', dec'[e])
    BY <1>1, <1>2, <2>2 DEF Legal
  <2> QED
    BY <2>3 DEF LegalEnd
<1>9. p \in Ends /\ p # e /\ Peer[p] = e
  BY PeerFacts
<1>10. Same(p) /\ cmdq'[p] = cmdq[p]
  BY <1>9, OthersSame DEF Same, Steps, CmdTask
<1>11. /\ Frames(Stream(p))' = Frames(Stream(p))
       /\ Granted(p)' <=> Granted(p)
  BY <1>1, <1>9, <1>10, StreamSame
<1>12. PairEnd(e) /\ PairEnd(p)
  BY <1>9, BothEnds
<1>13. PairEnd(e)'
  BY <1>1, <1>5, <1>10, <1>11, <1>12, PairKept DEF Same
<1>14. PairEnd(p)'
  <2> SUFFICES ASSUME link'[e] = "open", link'[p] = "open"
               PROVE  Pair(p, e)'
    BY <1>9 DEF PairEnd
  <2>1. PairOK(pc[p], Len(msg[p]), cur[p], Frames(S), dec[e], FALSE, Granted(p))
    BY <1>1, <1>9, <1>12 DEF PairEnd, Pair
  <2>2. PairOK(pc[p], Len(msg[p]), cur[p], Frames(S), AfterGrant(dec[e], k), TRUE,
               Granted(p))
    BY <1>2, <1>6, <1>7, <2>1, PairPermits
  <2> QED
    BY <1>1, <1>4, <1>10, <1>11, <2>2 DEF Pair, Same, PairOK
<1>15. OwnEnd(e)'
  <2> SUFFICES ASSUME link[e] = "open"
               PROVE  OwnOK(e)'
    BY <1>1 DEF OwnEnd
  <2>1. OwnOK(e)
    BY OpenEnd
  <2>2. AwaitOK(Tail(cmdq[e]), pc[e], Len(sent[e]))
    BY <1>1, <1>2, <2>1, AwaitTail DEF OwnOK
  <2>3. \A i \in 1..Len(cmdq'[e]) : cmdq'[e][i].cmd # "Close"
    <3>1. \A i \in 1..Len(cmdq[e]) : cmdq[e][i].cmd # "Close"
      BY <2>1 DEF OwnOK
    <3> QED
      BY <1>1, <1>2, <3>1
  <2>4. /\ dec'[e].want_remote_grant <=> dec[e].want_remote_grant
        /\ dec'[e].notify = dec[e].notify
    BY <1>1, <1>2 DEF AfterGrant, Decoder
  <2>5. hold'[e].kind = "PermitGrant"
    BY <1>1 DEF GrantFrame
  <2> QED
    BY <1>1, <1>5, <2>1, <2>2, <2>3, <2>4, <2>5 DEF OwnOK, Alive
<1>16. Steps(e)
  BY DEF Steps, CmdTask
<1> QED
  BY <1>1, <1>8, <1>13, <1>14, <1>15, <1>16, LocalStep

(* A grant joins the frames that wait.                                     *)
LEMMA GrantJoins ==
  ASSUME NEW at, at # "new", NEW n, NEW c, NEW F, NEW d, NEW granting,
         NEW granted, NEW g, g.kind = "PermitGrant",
         PairOK(at, n, c, F, d, granting, granted)
  PROVE  /\ PairOK(at, n, c, F \cup {g}, d, granting, granted)
         /\ (\A f \in F : f.kind # "PermitGrant") => Fits(F, g, d)
<1>1. \A f \in F \cup {g} : IsChunk(f) => f \in F
  BY DEF IsChunk
<1>2. /\ Settled(F, d) => Settled(F \cup {g}, d)
      /\ Asked(F, n) => Asked(F \cup {g}, n)
      /\ Fresh(F, d, n) => Fresh(F \cup {g}, d, n)
      /\ Chunking(F, d, n, c) => Chunking(F \cup {g}, d, n, c)
  BY <1>1 DEF Settled, Asked, Fresh, Chunking, Completed
<1>3. PairOK(at, n, c, F \cup {g}, d, granting, granted)
  BY <1>2 DEF PairOK
<1>4. (\A f \in F : f.kind # "PermitGrant") => Fits(F, g, d)
  BY DEF Fits, IsChunk, PairOK
<1> QED
  BY <1>3, <1>4

LEMMA CmdSendGrantStream ==
  ASSUME TypeOK, PermitInv, NEW e \in Ends, StreamAt(e), CmdSendGrant(e)
  PROVE  StreamAt(e)'
<1> USE DEF senderVars, cmdVars, permitVars, appVars
<1> DEFINE p == Peer[e]
           g == hold[e]
<1>1. p \in Ends /\ p # e /\ Peer[p] = e
  BY PeerFacts
<1>2. /\ Push(e, g) /\ task[e] = "grant" /\ task'[e] = "run" /\ g \in Frame
      /\ cmdq' = cmdq /\ dec' = dec /\ link' = link /\ pc' = pc
      /\ sent' = sent /\ msg' = msg /\ cur' = cur /\ link[e] = "open"
  BY DEF CmdSendGrant, Push, TypeOK
<1>3. Steps(e)
  BY DEF Steps, CmdTask
<1>4. Same(p)
  BY <1>1, <1>3, OthersSame
<1>5. OwnOK(e) /\ LegalEnd(e) /\ LegalEnd(p) /\ OwnEnd(p) /\ PairEnd(p)
  BY <1>1, <1>2, BothEnds DEF OwnEnd
<1>6. g.kind = "PermitGrant"
  BY <1>2, <1>5 DEF OwnOK
<1> HIDE DEF g
<1>7. Stream(e)' = Stream(e) /\ (Granted(e)' <=> Granted(e))
  BY <1>2, PushStreams
<1>8. LegalEnd(e)'
  BY <1>2, <1>5, <1>7 DEF LegalEnd, Alive
<1>9. OwnEnd(e)'
  BY <1>2, <1>5, <1>7 DEF OwnEnd, OwnOK, Alive
<1>10. CASE link[p] # "open"
  <2>1. wire' = wire
    BY <1>2, <1>10, PushStreams
  <2>2. PairEnd(e)' /\ PairEnd(p)'
    BY <1>1, <1>2, <1>10 DEF PairEnd
  <2> QED
    BY <1>3, <1>8, <1>9, <2>1, <2>2, LocalStep
<1>11. CASE link[p] = "open"
  <2> DEFINE F == Frames(Stream(p))
  <2>1. /\ Stream(p)' = Append(Stream(p), RecvCmd(g))
        /\ Frames(Stream(p))' = F \cup {g}
        /\ Granted(p)'
    BY <1>2, <1>6, <1>11, PushStreams
  <2>2. PairOK(pc[p], Len(msg[p]), cur[p], Frames(Stream(e)), dec[e], TRUE,
               Granted(p))
    BY <1>1, <1>2, <1>5, <1>11 DEF PairEnd, Pair
  <2>3. /\ pc[p] = "requested" /\ ~ Granted(p)
        /\ PairOK(pc[p], Len(msg[p]), cur[p], Frames(Stream(e)), dec[e], FALSE,
                  TRUE)
    BY <2>2, PairTells
  <2>4. PairEnd(p)'
    <3>1. PairOK(pc[p], Len(msg[p]), cur[p], Frames(Stream(e))', dec[e], FALSE,
                 TRUE)
      BY <1>7, <2>3
    <3> QED
      BY <1>1, <1>2, <1>4, <2>1, <3>1 DEF PairEnd, Pair, Same, PairOK
  <2>5. OwnEnd(p)'
    BY <1>4, <1>5, <2>3 DEF OwnEnd, OwnOK, Alive, Same
  <2>6. pc[e] # "new"
    BY <1>2 DEF PermitInv, EndOK
  <2>7. PairOK(pc[e], Len(msg[e]), cur[e], F, dec[p], task[p] = "grant",
               Granted(e))
    BY <1>2, <1>11, OpenEnd DEF Pair
  <2>8. /\ PairOK(pc[e], Len(msg[e]), cur[e], F \cup {g}, dec[p],
                  task[p] = "grant", Granted(e))
        /\ Fits(F, g, dec[p])
    <3>1. \A f \in F : f.kind # "PermitGrant"
      BY <2>3 DEF Granted
    <3> HIDE DEF F
    <3> QED
      BY <1>6, <2>6, <2>7, <3>1, GrantJoins
  <2>9. PairEnd(e)'
    <3>1. PairOK(pc[e], Len(msg[e]), cur[e], Frames(Stream(p))', dec[p],
                 task[p] = "grant", Granted(e))
      BY <2>1, <2>8
    <3> QED
      BY <1>2, <1>4, <1>7, <3>1 DEF PairEnd, Pair, Same, PairOK
  <2>10. LegalEnd(p)'
    <3>1. Stream(p) \in Seq(Cmd)
      BY <1>1, StreamType
    <3>2. Alive(p) => Legal(Append(Stream(p), RecvCmd(g)), dec[p])
      BY <1>2, <1>5, <2>8, <3>1, AppendFrame DEF LegalEnd
    <3> QED
      BY <1>4, <2>1, <3>2 DEF LegalEnd, Alive, Same
  <2> QED
    BY <1>3, <1>8, <1>9, <2>4, <2>5, <2>9, <2>10, AtTheTwoEnds
<1> QED
  BY <1>10, <1>11

(* The command task takes a frame.  What it takes it for, and what changes *)
(* at its end.                                                             *)
LEMMA TakesFrame ==
  ASSUME TypeOK, NEW e \in Ends, CmdRecv(e)
  PROVE  LET f == Head(cmdq[e]).frame IN
         /\ TakesCmd(e, "Recv") /\ task[e] = "run" /\ cmdq[e] # << >>
         /\ Head(cmdq[e]).cmd = "Recv" /\ Accepts(dec[e], f)
         /\ dec'[e] = DecoderAfter(dec[e], f)
         /\ cmdq'[e] = Tail(cmdq[e])
         /\ task'[e] \in {"run", "deliver"}
         /\ link' = link /\ wire' = wire /\ msg' = msg /\ cur' = cur
         /\ sent' = sent
         /\ pc'[e] = IF /\ f.kind = "PermitGrant" /\ pc[e] = "requested"
                        /\ dec[e].notify = Len(sent[e])
                     THEN "chunks" ELSE pc[e]
<1> DEFINE f == Head(cmdq[e]).frame
           r == ResultOf(dec[e], f)
<1>1. /\ TakesCmd(e, "Recv") /\ task[e] = "run" /\ cmdq[e] # << >>
      /\ Head(cmdq[e]).cmd = "Recv" /\ r.what # "Err"
      /\ dec'[e] = DecoderAfter(dec[e], f) /\ cmdq'[e] = Tail(cmdq[e])
      /\ task'[e] \in {"run", "deliver"}
      /\ link' = link /\ wire' = wire /\ msg' = msg /\ cur' = cur
      /\ sent' = sent
  BY DEF CmdRecv, TakesCmd, TypeOK
<1>2. Accepts(dec[e], f)
  BY <1>1 DEF ResultOf, Err, Outcome
<1>3. f \in Frame
  <2>1. Head(cmdq[e]) \in Cmd
    BY <1>1 DEF TypeOK
  <2> QED
    BY <1>1, <2>1 DEF Cmd
<1>4. /\ r.what = "RemotePermitGrant" <=> f.kind = "PermitGrant"
      /\ f.kind = "PermitGrant" => r.notify = dec[e].notify
  BY <1>2, <1>3 DEF ResultOf, Outcome, Idle, Frame, Kinds, Accepts
<1>5. pc' = IF r.what = "RemotePermitGrant"
            THEN [pc EXCEPT ![e] = IF @ = "requested" /\ r.notify = Len(sent[e])
                                   THEN "chunks" ELSE @]
            ELSE pc
  BY DEF CmdRecv, Notify
<1> HIDE DEF r, f
<1>6. pc'[e] = IF /\ f.kind = "PermitGrant" /\ pc[e] = "requested"
                  /\ dec[e].notify = Len(sent[e])
               THEN "chunks" ELSE pc[e]
  BY <1>4, <1>5 DEF TypeOK
<1> QED
  BY <1>1, <1>2, <1>6 DEF f

(* The rest of the stream is legal for the decoder that took the frame.    *)
LEMMA TakenLegal ==
  ASSUME TypeOK, PermitInv, NEW e \in Ends, StreamAt(e), CmdRecv(e)
  PROVE  LET f == Head(cmdq[e]).frame IN
         /\ f \in Frame /\ Fits({}, f, dec[e])
         /\ Frames(Stream(e)) = {f} \cup Frames(Stream(e)')
         /\ Frames(Stream(e)') \subseteq Frame
         /\ \A g \in Frames(Stream(e)') :
              f.kind = "PermitGrant" => g.kind # "PermitGrant"
         /\ LegalEnd(e)'
<1> DEFINE f == Head(cmdq[e]).frame
           S == Stream(e)
           T == Tail(S)
<1>1. /\ TakesCmd(e, "Recv") /\ task[e] = "run" /\ cmdq[e] # << >>
      /\ Head(cmdq[e]).cmd = "Recv" /\ Accepts(dec[e], f)
      /\ dec'[e] = DecoderAfter(dec[e], f) /\ cmdq'[e] = Tail(cmdq[e])
      /\ wire' = wire
  BY TakesFrame
<1>2. f \in Frame /\ Fits({}, f, dec[e])
  BY <1>1, NextFrame
<1>3. /\ S # << >> /\ Head(S) = Head(cmdq[e]) /\ Stream(e)' = T
      /\ S \in Seq(Cmd) /\ T \in Seq(Cmd)
  BY <1>1, TakenStream, StreamType
<1>4. Legal(S, dec[e])
  BY <1>1, BothEnds DEF LegalEnd, Alive
<1> HIDE DEF S
<1>5. /\ Frames(S) = {f} \cup Frames(T)
      /\ \A i \in Recvs(T) : Fits({f} \cup Before(T, i), T[i].frame, dec[e])
  <2>1. Head(S).cmd = "Recv" /\ Head(S).frame = f
    BY <1>1, <1>3
  <2> HIDE DEF T, f
  <2> QED
    BY <1>3, <1>4, <2>1, TailFrame DEF T
<1>6. ASSUME NEW i \in Recvs(T)
      PROVE  T[i].frame \in Frame
  BY <1>3 DEF Recvs, Cmd
<1>7. Frames(T) \subseteq Frame
  BY <1>6 DEF Frames
<1>8. dec[e] \in Decoder /\ Consistent(dec[e])
  BY DEF TypeOK, PermitInv, EndOK
<1>9. ASSUME NEW i \in Recvs(T)
      PROVE  /\ Fits(Before(T, i), T[i].frame, DecoderAfter(dec[e], f))
             /\ f.kind = "PermitGrant" => T[i].frame.kind # "PermitGrant"
  <2>1. Before(T, i) \in SUBSET Frame
    BY <1>6 DEF Before
  <2>2. Fits({f} \cup Before(T, i), T[i].frame, dec[e])
    BY <1>5, <1>9
  <2> HIDE DEF f, T
  <2>3. Fits(Before(T, i), T[i].frame, DecoderAfter(dec[e], f))
    BY <1>1, <1>2, <1>6, <1>8, <1>9, <2>1, <2>2, FitsAfter
  <2>4. f.kind = "PermitGrant" => T[i].frame.kind # "PermitGrant"
    BY <2>2 DEF Fits
  <2> QED
    BY <2>3, <2>4
<1>10. LegalEnd(e)'
  BY <1>1, <1>3, <1>9 DEF LegalEnd, Legal
<1>11. \A g \in Frames(T) : f.kind = "PermitGrant" => g.kind # "PermitGrant"
  BY <1>9 DEF Frames
<1> QED
  BY <1>2, <1>3, <1>5, <1>7, <1>10, <1>11 DEF S

LEMMA CmdRecvStream ==
  ASSUME TypeOK, PermitInv, NEW e \in Ends, StreamAt(e), CmdRecv(e)
  PROVE  StreamAt(e)'
<1> DEFINE f == Head(cmdq[e]).frame
           S == Stream(e)
           p == Peer[e]
<1>1. /\ task[e] = "run" /\ cmdq[e] # << >> /\ Head(cmdq[e]).cmd = "Recv"
      /\ Accepts(dec[e], f) /\ dec'[e] = DecoderAfter(dec[e], f)
      /\ cmdq'[e] = Tail(cmdq[e]) /\ task'[e] \in {"run", "deliver"}
      /\ link' = link /\ wire' = wire /\ msg' = msg /\ cur' = cur
      /\ sent' = sent
      /\ pc'[e] = IF /\ f.kind = "PermitGrant" /\ pc[e] = "requested"
                     /\ dec[e].notify = Len(sent[e])
                  THEN "chunks" ELSE pc[e]
  BY TakesFrame
<1>2. /\ f \in Frame /\ Fits({}, f, dec[e])
      /\ Frames(S) = {f} \cup Frames(S')
      /\ Frames(S') \subseteq Frame
      /\ \A g \in Frames(S') : f.kind = "PermitGrant" => g.kind # "PermitGrant"
      /\ LegalEnd(e)'
  BY TakenLegal
<1>3. p \in Ends /\ p # e /\ Peer[p] = e
  BY PeerFacts
<1>4. Steps(e)
  BY DEF Steps, CmdTask
<1>5. Same(p) /\ cmdq'[p] = cmdq[p]
  BY <1>3, <1>4, OthersSame DEF Same
<1>6. /\ Frames(Stream(p))' = Frames(Stream(p))
      /\ Granted(p)' <=> Granted(p)
  BY <1>1, <1>3, <1>5, StreamSame
<1>7. dec[e] \in Decoder /\ Consistent(dec[e]) /\ cmdq[e] \in Seq(Cmd)
      /\ cur \in [Ends -> Nat] /\ msg \in [Ends -> Seq(Byte)]
  BY DEF TypeOK, PermitInv, EndOK
<1>8. /\ f.kind = "PermitGrant" => Granted(e) /\ ~ Granted(e)'
      /\ f.kind # "PermitGrant" => (Granted(e)' <=> Granted(e))
  BY <1>2 DEF Granted
<1>9. IF f.kind = "PermitGrant"
      THEN ~ dec'[e].want_remote_grant
      ELSE /\ dec'[e].want_remote_grant = dec[e].want_remote_grant
           /\ dec'[e].notify = dec[e].notify
  <2> HIDE DEF f
  <2>1. CASE f.kind = "PermitGrant"
    BY <1>1, <1>7, <2>1 DEF DecoderAfter, AfterRemoteGrant, Decoder
  <2>2. CASE f.kind # "PermitGrant"
    BY <1>1, <1>2, <1>7, <2>2
       DEF DecoderAfter, AfterChunk, AfterRemoteRequest, Decoder, Fits, Frame,
           Kinds
  <2> QED
    BY <2>1, <2>2
<1> HIDE DEF f, S
<1>10. ASSUME link[e] = "open", f.kind = "PermitGrant"
       PROVE  pc[e] = "requested" /\ pc'[e] = "chunks" /\ cur[e] = 0
  BY <1>1, <1>8, <1>10, OpenEnd DEF OwnOK, SendOK
<1>11. OwnEnd(e)'
  <2> SUFFICES ASSUME link[e] = "open"
               PROVE  OwnOK(e)'
    BY <1>1 DEF OwnEnd
  <2>1. OwnOK(e)
    BY OpenEnd
  <2>2. AwaitOK(Tail(cmdq[e]), pc[e], Len(sent[e]))
    BY <1>1, <1>7, <2>1, AwaitTail DEF OwnOK
  <2>3. \A i \in 1..Len(cmdq'[e]) : cmdq'[e][i].cmd # "Close"
    <3>1. \A i \in 1..Len(cmdq[e]) : cmdq[e][i].cmd # "Close"
      BY <2>1 DEF OwnOK
    <3> QED
      BY <1>1, <1>7, <3>1
  <2>4. CASE f.kind = "PermitGrant"
    <3>1. pc[e] = "requested" /\ pc'[e] = "chunks" /\ ~ Granted(e)'
      BY <1>8, <1>10, <2>4
    <3>2. AwaitOK(Tail(cmdq[e]), "chunks", Len(sent[e]))
      BY <2>2, <3>1, AwaitMove
    <3>3. SendOK("chunks", msg[e], cur[e])
      BY <1>7, <2>1, <3>1 DEF OwnOK, SendOK
    <3> QED
      BY <1>1, <1>9, <2>1, <2>3, <2>4, <3>1, <3>2, <3>3 DEF OwnOK, Alive
  <2>5. CASE f.kind # "PermitGrant"
    BY <1>1, <1>8, <1>9, <2>1, <2>2, <2>3, <2>5 DEF OwnOK, Alive
  <2> QED
    BY <2>4, <2>5
<1>12. PairEnd(e) /\ PairEnd(p)
  BY <1>3, BothEnds
<1>13. PairEnd(e)'
  <2>1. CASE link[e] = "open" /\ f.kind = "PermitGrant"
    <3> SUFFICES ASSUME link[p] = "open"
                 PROVE  Pair(e, p)'
      BY <1>1, <1>3 DEF PairEnd
    <3>1. pc[e] = "requested" /\ pc'[e] = "chunks" /\ cur[e] = 0
      BY <1>10, <2>1
    <3>2. PairOK("requested", Len(msg[e]), 0, Frames(Stream(p)), dec[p],
                 task[p] = "grant", TRUE)
      BY <1>8, <1>12, <2>1, <3>1 DEF PairEnd, Pair, PairOK
    <3>3. PairOK("chunks", Len(msg[e]), 0, Frames(Stream(p)), dec[p],
                 task[p] = "grant", FALSE)
      BY <3>2, PairGranted
    <3> QED
      BY <1>1, <1>5, <1>6, <1>8, <2>1, <3>1, <3>3 DEF Pair, PairOK, Same
  <2>2. CASE f.kind # "PermitGrant"
    <3>1. pc'[e] = pc[e] /\ (Granted(e)' <=> Granted(e))
      BY <1>1, <1>8, <2>2
    <3> QED
      BY <1>1, <1>5, <1>6, <1>12, <3>1, PairKept DEF Same
  <2>3. CASE link[e] # "open"
    BY <1>1, <2>3 DEF PairEnd
  <2> QED
    BY <2>1, <2>2, <2>3
<1>14. PairEnd(p)'
  <2> SUFFICES ASSUME link[e] = "open", link[p] = "open"
               PROVE  Pair(p, e)'
    BY <1>1, <1>3 DEF PairEnd
  <2>1. PairOK(pc[p], Len(msg[p]), cur[p], {f} \cup Frames(S'), dec[e], FALSE,
               Granted(p))
    BY <1>1, <1>2, <1>3, <1>12 DEF PairEnd, Pair, PairOK, S
  <2>2. /\ Len(msg[p]) \in Nat /\ cur[p] \in Nat
        /\ pc[p] = "chunks" => cur[p] < Len(msg[p])
    BY <1>3, <1>7, OpenEnd DEF OwnOK, SendOK
  <2>3. PairOK(pc[p], Len(msg[p]), cur[p], Frames(S'), DecoderAfter(dec[e], f),
               FALSE, Granted(p))
    BY <1>1, <1>2, <1>7, <2>1, <2>2, PairTakes
  <2> QED
    BY <1>1, <1>5, <1>6, <2>3 DEF Pair, PairOK, Same, S
<1>15. LegalEnd(e)' /\ wire'[p] = wire[p]
  BY <1>1, <1>2
<1> QED
  BY <1>4, <1>11, <1>13, <1>14, <1>15, LocalStep

LEMMA InitStreamInv == Init => StreamInv
<1> SUFFICES ASSUME Init, NEW e \in Ends
             PROVE  LegalEnd(e) /\ OwnEnd(e) /\ PairEnd(e)
  BY PeerFacts DEF StreamInv, StreamAt
<1>1. ASSUME NEW o \in Ends
      PROVE  /\ Stream(o) = << >> /\ Frames(Stream(o)) = {} /\ ~ Granted(o)
             /\ Recvs(Stream(o)) = {}
  <2>1. Stream(o) = << >>
    <3>1. cmdq[o] = << >> /\ wire[o] = << >>
      BY <1>1 DEF Init
    <3>2. StreamOf(<< >>, << >>) = << >>
      BY DEF StreamOf
    <3> QED
      BY <3>1, <3>2 DEF Stream
  <2>2. Recvs(Stream(o)) = {}
    BY <2>1 DEF Recvs
  <2> QED
    BY <2>1, <2>2 DEF Frames, Granted
<1>2. LegalEnd(e)
  BY <1>1 DEF LegalEnd, Legal
<1>3. OwnEnd(e)
  <2>1. AwaitOK(<< >>, "new", Len(sent[e]))
    BY DEF AwaitOK, Awaitings
  <2>2. SendOK("new", << >>, 0)
    BY DEF SendOK
  <2> QED
    BY <1>1, <2>1, <2>2 DEF Init, OwnEnd, OwnOK, Alive, NewDecoder
<1>4. PairEnd(e)
  <2>1. Peer[e] \in Ends
    BY PeerFacts
  <2> QED
    BY <1>1, <2>1 DEF Init, PairEnd, Pair, PairOK, Settled, Completed, NewDecoder
<1> QED
  BY <1>2, <1>3, <1>4

LEMMA StepStreamAt ==
  ASSUME CanCancel = {}, TypeOK, PermitInv, NEW e \in Ends, StreamAt(e), Steps(e)
  PROVE  StreamAt(e)'
<1>1. CASE Sender(e) \/ SendStart(e) \/ SendCancel(e)
  BY <1>1, NewStream, SendOneStream, SendPermitRequestStream, SendChunkStream,
     ClosedStream, SendStartStream, OtherCmdStream DEF Sender
<1>2. CASE Receiver(e) \/ ConnClose(e) \/ Drop(e)
  BY <1>2, RecvTaskStream, OtherCmdStream, ClosedStream DEF Receiver
<1>3. CASE CmdTask(e)
  BY <1>3, CmdRecvStream, StopsStream, OtherStream, CmdAwaitPermitStream,
     CmdRemotePermitStream, CmdSendGrantStream DEF CmdTask
<1>4. CASE Waiter(e) \/ OwnerRecv(e)
  BY <1>4, OtherStream, OtherCmdStream DEF Waiter
<1> QED
  BY <1>1, <1>2, <1>3, <1>4 DEF Steps

(* A connection that a step has nothing to do with.                        *)
LEMMA StreamElsewhere ==
  ASSUME NEW o \in Ends, StreamAt(o),
         \A x \in {o, Peer[o]} : Same(x) /\ wire'[x] = wire[x]
  PROVE  StreamAt(o)'
<1> SUFFICES ASSUME NEW x \in {o, Peer[o]}
             PROVE  LegalEnd(x)' /\ OwnEnd(x)' /\ PairEnd(x)'
  BY DEF StreamAt
<1> DEFINE p == Peer[x]
<1>1. x \in Ends /\ p \in {o, Peer[o]} /\ p \in Ends
  BY PeerFacts
<1>2. LegalEnd(x) /\ OwnEnd(x) /\ PairEnd(x)
  BY DEF StreamAt
<1>3. Same(x) /\ wire'[x] = wire[x] /\ Same(p) /\ wire'[p] = wire[p]
  BY <1>1
<1>4. cmdq'[x] = cmdq[x] /\ cmdq'[p] = cmdq[p]
  BY <1>3 DEF Same
<1>5. /\ Stream(x)' = Stream(x) /\ (Granted(x)' <=> Granted(x))
      /\ Frames(Stream(p))' = Frames(Stream(p))
  BY <1>1, <1>3, <1>4, StreamSame
<1>6. LegalEnd(x)'
  BY <1>1, <1>2, <1>3, <1>5, LegalKept DEF Same
<1>7. OwnEnd(x)'
  BY <1>1, <1>2, <1>3, <1>5, OwnKept
<1>8. PairEnd(x)'
  BY <1>1, <1>2, <1>3, <1>5, PairKept DEF Same
<1> QED
  BY <1>6, <1>7, <1>8

LEMMA NextStreamInv ==
  ASSUME CanCancel = {}
  PROVE  TypeOK /\ PermitInv /\ StreamInv /\ [Next]_vars => StreamInv'
<1> SUFFICES ASSUME TypeOK, PermitInv, StreamInv, [Next]_vars,
                    NEW o \in Ends, Intact(o)'
             PROVE  StreamAt(o)'
  BY DEF StreamInv
<1> DEFINE p == Peer[o]
<1>1. p \in Ends /\ p # o /\ Peer[p] = o
  BY PeerFacts
<1>2. ASSUME Intact(o)
      PROVE  StreamAt(o) /\ StreamAt(p)
  BY <1>1, <1>2 DEF StreamInv, Intact
<1>3. ASSUME NEW e \in Ends, Steps(e)
      PROVE  StreamAt(o)'
  <2>1. StreamAt(o) /\ StreamAt(p)
    <3>1. lossy' = lossy
      BY <1>3, StepLosesNone
    <3> QED
      BY <1>2, <3>1 DEF Intact
  <2>2. CASE e = o
    BY <1>3, <2>1, <2>2, StepStreamAt
  <2>3. CASE e = p
    <3>1. StreamAt(p)'
      BY <1>1, <1>3, <2>1, <2>3, StepStreamAt
    <3> QED
      BY <1>1, <3>1 DEF StreamAt
  <2>4. CASE e # o /\ e # p
    <3>1. o # Peer[e] /\ p # Peer[e]
      BY <1>1, <2>4, PeerFacts
    <3>2. Same(o) /\ wire'[o] = wire[o] /\ Same(p) /\ wire'[p] = wire[p]
      BY <1>1, <1>3, <2>4, <3>1, OthersSame, OtherWires
    <3> QED
      BY <2>1, <3>2, StreamElsewhere
  <2> QED
    BY <2>2, <2>3, <2>4
<1>4. ASSUME NEW e \in Ends, Lose(e)
      PROVE  StreamAt(o)'
  <2>1. lossy'[e] /\ \A x \in Ends : x # e => lossy'[x] = lossy[x]
    BY <1>4, LosesOne
  <2>2. e # o /\ e # p /\ StreamAt(o)
    BY <1>1, <1>2, <2>1 DEF Intact
  <2>3. o # Peer[e] /\ p # Peer[e]
    BY <1>1, <2>2, PeerFacts
  <2>4. Same(o) /\ wire'[o] = wire[o] /\ Same(p) /\ wire'[p] = wire[p]
    BY <1>1, <1>4, <2>3, LosesOne DEF Same, senderVars, cmdVars
  <2> QED
    BY <2>2, <2>4, StreamElsewhere
<1>5. CASE UNCHANGED vars
  <2>1. /\ Same(o) /\ wire'[o] = wire[o] /\ Same(p) /\ wire'[p] = wire[p]
        /\ lossy' = lossy
    BY <1>5 DEF vars, senderVars, cmdVars, appVars, Same
  <2>2. StreamAt(o)
    BY <1>2, <2>1 DEF Intact
  <2> QED
    BY <2>1, <2>2, StreamElsewhere
<1> QED
  BY <1>3, <1>4, <1>5 DEF Next, Steps

(* What waits for an end is legal for its decoder, and agrees with where   *)
(* the send of the other end is, while the connection loses no frame: the  *)
(* invariant behind the two theorems below, about each connection on its   *)
(* own.  It needs that no send is cancelled: the send after a cancelled    *)
(* one starts while the remote still expects the rest of that one          *)
(* (send_inner, framed.rs:264-310, dropped by the timeout of ep.rs).       *)
THEOREM StreamsAreLegal ==
  ASSUME CanCancel = {}
  PROVE  Spec => []StreamInv
<1>1. TypeOK /\ PermitInv /\ StreamInv /\ [Next]_vars => StreamInv'
  BY NextStreamInv
<1> QED
  BY <1>1, InitStreamInv, FramedTypeOK, FramedInvariant, PTL DEF Spec

(* The two ends never make each other's decoder fail on an open            *)
(* connection that lost none of their frames, however the two directions,  *)
(* their permits and their grants interleave, and whatever other           *)
(* connections lose (framed.rs:88-181, proto.rs:171-355).  Frames are lost *)
(* when the connection switches to the relay (conn.rs:616-636), and then a *)
(* decoder may well refuse the next one.                                   *)
THEOREM NoProtocolErrors ==
  ASSUME CanCancel = {}
  PROVE  Spec => []NoProtocolError
<1>1. TypeOK /\ StreamInv => NoProtocolError
  <2> SUFFICES ASSUME TypeOK, StreamInv, NEW e \in Ends, task[e] = "failed",
                      link[e] # "closed", Intact(e)
               PROVE  FALSE
    BY DEF NoProtocolError
  <2>1. link[e] = "open" /\ StreamAt(e)
    BY DEF TypeOK, StreamInv
  <2> QED
    BY <2>1, OpenEnd DEF Alive
<1> QED
  BY <1>1, StreamsAreLegal, FramedTypeOK, PTL

(* A remote that waits to grant a permit hears nothing but the one grant   *)
(* it is owed in turn, as long as the connection loses no frame            *)
(* (framed.rs:111-181, 264-310).                                           *)
THEOREM WaitingRemotesAreQuiet ==
  ASSUME CanCancel = {}
  PROVE  Spec => []WaitingRemoteIsQuiet
<1>1. TypeOK /\ PermitInv /\ StreamInv => WaitingRemoteIsQuiet
  <2> SUFFICES ASSUME TypeOK, PermitInv, StreamInv, NEW e \in Ends,
                      dec[e].state = "RemoteAwaitingPermit", Intact(e)
               PROVE  /\ Len(wire[e]) <= 1
                      /\ \A i \in 1..Len(wire[e]) :
                           wire[e][i].kind = "PermitGrant"
    BY DEF WaitingRemoteIsQuiet
  <2>1. Legal(Stream(e), dec[e])
    <3>1. Running(e)
      BY DEF PermitInv, EndOK, NewDecoder
    <3> QED
      BY <3>1 DEF StreamInv, StreamAt, LegalEnd, Alive, Running
  <2>2. cmdq[e] \in Seq(Cmd) /\ wire[e] \in Seq(Frame) /\ dec[e] \in Decoder
        /\ Stream(e) \in Seq(Cmd)
    BY StreamType DEF TypeOK
  <2> DEFINE c == Len(cmdq[e])
             S == Stream(e)
  <2>3. /\ c \in Nat /\ Len(wire[e]) \in Nat /\ Len(S) = c + Len(wire[e])
        /\ \A i \in 1..Len(wire[e]) :
             /\ c + i \in Recvs(S) /\ S[c + i].frame = wire[e][i]
             /\ wire[e][i] \in Frame
    <3>1. /\ Len(S) = c + Len(wire[e])
          /\ \A i \in c + 1..c + Len(wire[e]) : S[i] = RecvCmd(wire[e][i - c])
      BY <2>2, StreamShape DEF Stream
    <3> HIDE DEF S
    <3>2. c \in Nat /\ Len(wire[e]) \in Nat
      BY <2>2
    <3>3. ASSUME NEW i \in 1..Len(wire[e])
          PROVE  c + i \in 1..Len(S) /\ S[c + i] = RecvCmd(wire[e][i])
      <4> HIDE DEF c
      <4>1. /\ i \in Nat /\ c + i \in 1..(c + Len(wire[e]))
            /\ c + i \in c + 1..c + Len(wire[e]) /\ (c + i) - c = i
        BY ONLY <3>2, <3>3
      <4> QED
        BY <3>1, <4>1
    <3>4. ASSUME NEW i \in 1..Len(wire[e])
          PROVE  /\ c + i \in Recvs(S) /\ S[c + i].frame = wire[e][i]
                 /\ wire[e][i] \in Frame
      <4>1. c + i \in 1..Len(S) /\ S[c + i] = RecvCmd(wire[e][i])
        BY <3>3
      <4>2. S[c + i].cmd = "Recv" /\ S[c + i].frame = wire[e][i]
        BY <4>1 DEF RecvCmd
      <4>3. wire[e][i] \in Frame
        BY <2>2
      <4> HIDE DEF c
      <4> QED
        BY <4>1, <4>2, <4>3 DEF Recvs
    <3> QED
      BY <2>2, <3>1, <3>2, <3>4
  <2>4. ASSUME NEW i \in 1..Len(wire[e])
        PROVE  /\ Fits(Before(S, c + i), wire[e][i], dec[e])
               /\ wire[e][i].kind = "PermitGrant"
    <3>1. Fits(Before(S, c + i), wire[e][i], dec[e])
      BY <2>1, <2>3 DEF Legal
    <3> QED
      BY <2>2, <2>3, <3>1, FitsWaiting
  <2>5. ASSUME Len(wire[e]) > 1
        PROVE  FALSE
    <3>1. 1 \in 1..Len(wire[e]) /\ 2 \in 1..Len(wire[e]) /\ c + 1 < c + 2
      BY <2>3, <2>5
    <3>2. wire[e][1] \in Before(S, c + 2)
      BY <2>3, <3>1 DEF Before
    <3> QED
      BY <2>4, <3>1, <3>2 DEF Fits
  <2> QED
    BY <2>3, <2>4, <2>5
<1> QED
  BY <1>1, StreamsAreLegal, FramedInvariant, FramedTypeOK, PTL

----------------------------------------------------------------------------
(* The permits of a host.                                                  *)

LEMMA UnitsFinite ==
  ASSUME NEW S, IsFiniteSet(S), NEW n, \A e \in S : n[e] \in Nat
  PROVE  IsFiniteSet(Units(n, S)) /\ Total(n, S) \in Nat
<1> DEFINE U(e) == {e} \X (1..n[e])
           W == {U(e) : e \in S}
<1>1. \A T \in W : IsFiniteSet(T)
  <2>1. ASSUME NEW e \in S
        PROVE  IsFiniteSet(U(e))
    <3>1. IsFiniteSet({e})
      BY FS_Singleton
    <3>2. n[e] \in Int
      OBVIOUS
    <3>3. IsFiniteSet(1..n[e])
      BY <3>2, FS_Interval
    <3> QED
      BY <3>1, <3>3, FS_Product
  <2> QED
    BY <2>1
<1>2. IsFiniteSet(W)
  <2> DEFINE g == [e \in S |-> U(e)]
  <2>1. g \in Surjection(S, W)
    BY DEF Surjection
  <2> QED
    BY <2>1, FS_Surjection
<1>3. IsFiniteSet(UNION W)
  BY <1>1, <1>2, FS_UNION
<1>4. Units(n, S) = UNION W
  BY DEF Units
<1> QED
  BY <1>3, <1>4, FS_CardinalityType DEF Total

(* One summand apart.                                                      *)
LEMMA TotalApart ==
  ASSUME NEW S, IsFiniteSet(S), NEW n, \A e \in S : n[e] \in Nat, NEW o \in S
  PROVE  Total(n, S) = Total(n, S \ {o}) + n[o]
<1> DEFINE A == Units(n, S \ {o})
           B == {o} \X (1..n[o])
<1>1. IsFiniteSet(A) /\ Cardinality(A) \in Nat
  <2>1. IsFiniteSet(S \ {o}) /\ \A e \in S \ {o} : n[e] \in Nat
    BY FS_RemoveElement
  <2> QED
    BY <2>1, UnitsFinite DEF Total
<1>2. n[o] \in Nat /\ IsFiniteSet({o}) /\ Cardinality({o}) = 1
  BY FS_Singleton
<1>3. IsFiniteSet(1..n[o]) /\ Cardinality(1..n[o]) = n[o]
  <2>1. Cardinality(1..n[o]) = IF 1 > n[o] THEN 0 ELSE n[o] - 1 + 1
    BY <1>2, FS_Interval
  <2>2. IsFiniteSet(1..n[o])
    BY <1>2, FS_Interval
  <2> QED
    BY <1>2, <2>1, <2>2
<1>4. IsFiniteSet(B) /\ Cardinality(B) = n[o]
  <2>1. IsFiniteSet(B) /\ Cardinality(B) = Cardinality({o}) * Cardinality(1..n[o])
    BY <1>2, <1>3, FS_Product
  <2> HIDE DEF B
  <2> QED
    BY <1>2, <1>3, <2>1
<1>5. Units(n, S) = A \cup B /\ A \cap B = {}
  BY DEF Units
<1>6. Cardinality(A \cup B) = Cardinality(A) + Cardinality(B) - Cardinality(A \cap B)
  <2> HIDE DEF A, B
  <2> QED
    BY <1>1, <1>4, FS_Union
<1>7. Cardinality(A \cap B) = 0
  BY <1>5, FS_EmptySet
<1> HIDE DEF A, B
<1>8. Cardinality(A \cup B) = Cardinality(A) + n[o]
  BY <1>1, <1>2, <1>4, <1>6, <1>7
<1> QED
  BY <1>5, <1>8 DEF Total, A

LEMMA TotalSame ==
  ASSUME NEW S, NEW n, NEW m, \A e \in S : n[e] = m[e]
  PROVE  Total(n, S) = Total(m, S)
<1>1. Units(n, S) = Units(m, S)
  BY DEF Units
<1> QED
  BY <1>1 DEF Total

LEMMA TotalGrows ==
  ASSUME NEW S, IsFiniteSet(S), NEW n, NEW m,
         \A e \in S : n[e] \in Nat /\ m[e] \in Nat /\ n[e] <= m[e]
  PROVE  Total(n, S) <= Total(m, S)
<1>1. Units(n, S) \subseteq Units(m, S)
  BY DEF Units
<1>2. IsFiniteSet(Units(m, S))
  BY UnitsFinite
<1> QED
  BY <1>1, <1>2, FS_Subset DEF Total

LEMMA PermitFound ==
  ASSUME NEW q, OnePermit(q), NEW i \in 1..Len(q), IsPermit(q[i])
  PROVE  QueuedPermit(q) = q[i].len
BY DEF QueuedPermit, OnePermit, IsPermit

LEMMA PermitNotFound ==
  ASSUME NEW q, \A i \in 1..Len(q) : ~ IsPermit(q[i])
  PROVE  QueuedPermit(q) = 0
BY DEF QueuedPermit, IsPermit

LEMMA PermitStays ==
  ASSUME NEW q \in Seq(Cmd), OnePermit(q), NEW c \in Cmd, ~ IsPermit(c)
  PROVE  QueuedPermit(Append(q, c)) = QueuedPermit(q)
<1> DEFINE r == Append(q, c)
<1>1. /\ Len(r) = Len(q) + 1 /\ r[Len(q) + 1] = c /\ Len(q) \in Nat
      /\ \A i \in 1..Len(q) : r[i] = q[i] /\ i \in 1..Len(r)
      /\ \A i \in 1..Len(r) : i \in 1..Len(q) \/ i = Len(q) + 1
  OBVIOUS
<1> HIDE DEF r
<1>2. \A i \in 1..Len(r) : IsPermit(r[i]) => i \in 1..Len(q) /\ r[i] = q[i]
  BY <1>1
<1>3. OnePermit(r)
  BY <1>2 DEF OnePermit
<1>4. CASE \E i \in 1..Len(q) : IsPermit(q[i])
  <2>1. PICK i \in 1..Len(q) : IsPermit(q[i])
    BY <1>4
  <2>2. QueuedPermit(q) = q[i].len
    BY <2>1, PermitFound
  <2>3. i \in 1..Len(r) /\ IsPermit(r[i]) /\ r[i] = q[i]
    BY <1>1, <2>1
  <2>4. QueuedPermit(r) = r[i].len
    BY <1>3, <2>3, PermitFound
  <2> QED
    BY <2>2, <2>3, <2>4 DEF r
<1>5. CASE ~ \E i \in 1..Len(q) : IsPermit(q[i])
  <2>1. QueuedPermit(q) = 0 /\ QueuedPermit(r) = 0
    BY <1>2, <1>5, PermitNotFound
  <2> QED
    BY <2>1 DEF r
<1> QED
  BY <1>4, <1>5

LEMMA PermitJoins ==
  ASSUME NEW q \in Seq(Cmd), \A i \in 1..Len(q) : ~ IsPermit(q[i]),
         NEW n \in Nat
  PROVE  QueuedPermit(Append(q, [cmd |-> "RemotePermit", len |-> n])) = n
<1> DEFINE c == [cmd |-> "RemotePermit", len |-> n]
           r == Append(q, c)
<1>1. c.len = n /\ IsPermit(c)
  BY DEF IsPermit
<1> HIDE DEF c
<1>2. /\ Len(r) = Len(q) + 1 /\ r[Len(q) + 1] = c
      /\ Len(q) + 1 \in 1..Len(r)
      /\ \A i \in 1..Len(r) : i = Len(q) + 1 \/ (i \in 1..Len(q) /\ r[i] = q[i])
  OBVIOUS
<1> HIDE DEF r
<1>3. OnePermit(r)
  BY <1>2 DEF OnePermit
<1>4. QueuedPermit(r) = n
  BY <1>1, <1>2, <1>3, PermitFound
<1> QED
  BY <1>4 DEF r, c

LEMMA PermitTail ==
  ASSUME NEW q \in Seq(Cmd), q # << >>, OnePermit(q)
  PROVE  IF IsPermit(Head(q))
         THEN QueuedPermit(q) = Head(q).len /\ QueuedPermit(Tail(q)) = 0
         ELSE QueuedPermit(Tail(q)) = QueuedPermit(q)
<1> DEFINE t == Tail(q)
<1>1. /\ Len(t) = Len(q) - 1 /\ 1 \in 1..Len(q) /\ Head(q) = q[1]
      /\ \A i \in 1..Len(t) :
           t[i] = q[i + 1] /\ i + 1 \in 1..Len(q) /\ i + 1 # 1
      /\ \A i \in 1..Len(q) : i # 1 => i - 1 \in 1..Len(t) /\ (i - 1) + 1 = i
      /\ \A i, j \in 1..Len(t) : i + 1 = j + 1 => i = j
  OBVIOUS
<1> HIDE DEF t
<1>2. OnePermit(t)
  BY <1>1 DEF OnePermit
<1>3. CASE IsPermit(Head(q))
  <2>1. QueuedPermit(q) = Head(q).len
    BY <1>1, <1>3, PermitFound
  <2>2. \A i \in 1..Len(t) : ~ IsPermit(t[i])
    BY <1>1, <1>3 DEF OnePermit
  <2>3. QueuedPermit(t) = 0
    BY <2>2, PermitNotFound
  <2> QED
    BY <1>3, <2>1, <2>3 DEF t
<1>4. CASE ~ IsPermit(Head(q)) /\ \E i \in 1..Len(q) : IsPermit(q[i])
  <2>1. PICK i \in 1..Len(q) : IsPermit(q[i])
    BY <1>4
  <2>2. QueuedPermit(q) = q[i].len
    BY <2>1, PermitFound
  <2>3. i - 1 \in 1..Len(t) /\ t[i - 1] = q[i]
    BY <1>1, <1>4, <2>1
  <2>4. QueuedPermit(t) = q[i].len
    BY <1>2, <2>1, <2>3, PermitFound
  <2> QED
    BY <1>4, <2>2, <2>4 DEF t
<1>5. CASE \A i \in 1..Len(q) : ~ IsPermit(q[i])
  <2>1. QueuedPermit(q) = 0 /\ QueuedPermit(t) = 0 /\ ~ IsPermit(Head(q))
    BY <1>1, <1>5, PermitNotFound
  <2> QED
    BY <2>1 DEF t
<1> QED
  BY <1>3, <1>4, <1>5

LEMMA OneQueuedPermit ==
  ASSUME NEW e \in Ends, EndOK(e)
  PROVE  /\ OnePermit(cmdq[e])
         /\ Running(e) /\ waiter[e].at # "none" =>
              \A i \in 1..Len(cmdq[e]) : ~ IsPermit(cmdq[e][i])
         /\ \A i \in 1..Len(cmdq[e]) : waiter[e].at # "none" =>
              ~ IsPermit(cmdq[e][i])
BY DEF EndOK, PermitQueueOK, OnePermit, IsPermit

LEMMA BalancedQuiet ==
  ASSUME TypeOK, NEW e \in Ends, avail' = avail,
         waiter'[e].at = "acquired" <=> waiter[e].at = "acquired",
         waiter'[e].at = "acquired" => waiter'[e].len = waiter[e].len,
         QueuedPermit(cmdq'[e]) = QueuedPermit(cmdq[e]),
         dec'[e].held = dec[e].held
  PROVE  Balanced(e)
<1>1. avail \in [Hosts -> Nat]
  BY DEF TypeOK
<1>2. Taken(e)' = Taken(e)
  BY DEF Taken
<1> QED
  BY <1>1, <1>2 DEF Balanced

(* What an end that stops gives back.                                      *)
LEMMA BalancedStop ==
  ASSUME TypeOK, NEW e \in Ends, NEW why, Stop(e, why), waiter' = waiter
  PROVE  Balanced(e)
<1>1. /\ cmdq'[e] = << >> /\ dec'[e] = NewDecoder
      /\ avail' = [avail EXCEPT ![Host[e]] = @ + TaskPermits(e)]
      /\ Host[e] \in Hosts
  BY FramedAssumption DEF Stop, Released, TypeOK
<1>2. QueuedPermit(<< >>) = 0
  BY PermitNotFound
<1>3. QueuedPermit(cmdq[e]) \in Nat /\ dec[e].held \in Nat
      /\ avail \in [Hosts -> Nat] /\ waiter[e].len \in Nat
  BY QueuedPermitType DEF TypeOK, Decoder
<1> DEFINE w == IF waiter[e].at = "acquired" THEN waiter[e].len ELSE 0
<1>4. w \in Nat
  BY <1>3
<1>5. Taken(e) = w + QueuedPermit(cmdq[e]) + dec[e].held
  BY DEF Taken
<1>6. Taken(e)' = w + 0 + 0
  BY <1>1, <1>2 DEF Taken, NewDecoder
<1>7. avail'[Host[e]] = avail[Host[e]] + (QueuedPermit(cmdq[e]) + dec[e].held)
  BY <1>1, <1>3 DEF TaskPermits
<1> HIDE DEF w
<1>8. avail[Host[e]] \in Nat
  BY <1>1, <1>3
<1>9. avail'[Host[e]] + Taken(e)' = avail[Host[e]] + Taken(e)
  BY <1>3, <1>4, <1>5, <1>6, <1>7, <1>8
<1>10. avail' = [avail EXCEPT ![Host[e]] = avail'[Host[e]]]
  BY <1>1, <1>3
<1> QED
  BY <1>9, <1>10 DEF Balanced

LEMMA BalancedSender ==
  ASSUME TypeOK, NEW e \in Ends, EndOK(e),
         \/ Sender(e) \/ SendStart(e) \/ SendCancel(e)
         \/ Receiver(e) \/ ConnClose(e) \/ OwnerRecv(e)
  PROVE  Balanced(e)
<1> USE DEF senderVars, cmdVars, permitVars, appVars
<1>1. cmdq \in [Ends -> Seq(Cmd)] /\ wire[e] \in Seq(Frame)
      /\ Len(sent[e]) \in Nat
  BY DEF TypeOK
<1>2. avail' = avail /\ waiter' = waiter /\ dec' = dec
  BY DEF Sender, New, NewFail, SendOne, SendAwaitPermit, SendChunk,
         SendPermitRequest, SendFail, GiveUp, SendStart, SendCancel, Receiver,
         RecvTask, RecvTaskClose, RecvTaskStop, ConnClose, OwnerRecv
<1>3. cmdq'[e] = cmdq[e] \/ \E c \in Cmd : ~ IsPermit(c) /\ cmdq'[e] = Append(cmdq[e], c)
  <2>1. CASE SendAwaitPermit(e)
    <3> DEFINE c == [cmd |-> "AwaitPermit", id |-> Len(sent[e])]
    <3>1. c \in Cmd /\ ~ IsPermit(c)
      BY <1>1 DEF Cmd, IsPermit
    <3>2. cmdq'[e] = Append(cmdq[e], c)
      BY <1>1, <2>1 DEF SendAwaitPermit
    <3> QED
      BY <3>1, <3>2
  <2>2. CASE RecvTask(e)
    <3> DEFINE c == [cmd |-> "Recv", frame |-> Head(wire[e])]
    <3>1. c \in Cmd /\ ~ IsPermit(c)
      BY <1>1, <2>2 DEF Cmd, IsPermit, RecvTask
    <3>2. cmdq'[e] = Append(cmdq[e], c)
      BY <1>1, <2>2 DEF RecvTask
    <3> QED
      BY <3>1, <3>2
  <2>3. CASE RecvTaskClose(e)
    <3> DEFINE c == [cmd |-> "Close"]
    <3>1. c \in Cmd /\ ~ IsPermit(c)
      BY DEF Cmd, IsPermit
    <3>2. cmdq'[e] = Append(cmdq[e], c)
      BY <1>1, <2>3 DEF RecvTaskClose
    <3> QED
      BY <3>1, <3>2
  <2>4. CASE ~ (SendAwaitPermit(e) \/ RecvTask(e) \/ RecvTaskClose(e))
    BY <2>4
       DEF Sender, New, NewFail, SendOne, SendChunk,
           SendPermitRequest, SendFail, GiveUp, SendStart, SendCancel,
           Receiver, RecvTaskStop, ConnClose, OwnerRecv
  <2> QED
    BY <2>1, <2>2, <2>3, <2>4
<1>4. QueuedPermit(cmdq'[e]) = QueuedPermit(cmdq[e])
  BY <1>1, <1>3, OneQueuedPermit, PermitStays
<1> QED
  BY <1>2, <1>4, BalancedQuiet

LEMMA BalancedCmdRecv ==
  ASSUME TypeOK, NEW e \in Ends, EndOK(e), CmdRecv(e)
  PROVE  Balanced(e)
<1> DEFINE f == Head(cmdq[e]).frame
           r == ResultOf(dec[e], f)
           d == DecoderAfter(dec[e], f)
           h == Host[e]
<1>1. /\ task[e] = "run" /\ cmdq[e] # << >> /\ cmdq[e] \in Seq(Cmd)
      /\ Head(cmdq[e]) \in Cmd /\ Head(cmdq[e]).cmd = "Recv"
      /\ avail \in [Hosts -> Nat]
  BY DEF CmdRecv, TakesCmd, TypeOK
<1>2. h \in Hosts
  BY FramedAssumption
<1>3. f \in Frame /\ dec[e] \in Decoder
  BY <1>1 DEF Cmd, TypeOK
<1>4. /\ r.what # "Err" /\ dec'[e] = d /\ cmdq'[e] = Tail(cmdq[e])
      /\ avail' = [avail EXCEPT ![h] = @ + (dec[e].held - d.held)]
      /\ \/ r.what = "RemotePermitRequest" /\ waiter'[e].at = "spawned"
         \/ waiter'[e] = waiter[e]
  BY <1>1 DEF CmdRecv, Released, TypeOK
<1> HIDE DEF f
<1>5. r.what = "RemotePermitRequest" => waiter[e].at = "none"
  <2>1. r.what = "RemotePermitRequest" => dec[e].state # "RemoteAwaitingPermit"
    BY <1>3, <1>4, AcceptedFrame
  <2> HIDE DEF r
  <2> QED
    BY <1>1, <2>1 DEF EndOK, Running, Awaits
<1>6. d.held \in Nat /\ dec[e].held \in Nat
  <2>1. d.held \in {dec[e].held, 0}
    BY <1>3, HeldShrinks
  <2> QED
    BY <1>3, <2>1 DEF Decoder
<1> HIDE DEF d, r
<1>7. QueuedPermit(Tail(cmdq[e])) = QueuedPermit(cmdq[e])
  BY <1>1, OneQueuedPermit, PermitTail DEF IsPermit
<1> DEFINE w == IF waiter[e].at = "acquired" THEN waiter[e].len ELSE 0
           k == QueuedPermit(cmdq[e])
<1>8. w \in Nat /\ k \in Nat
  BY <1>1, QueuedPermitType DEF TypeOK
<1>9. Taken(e) = w + k + dec[e].held
  BY DEF Taken
<1>10. Taken(e)' = w + k + d.held
  BY <1>4, <1>5, <1>7 DEF Taken
<1>11. avail'[h] = avail[h] + (dec[e].held - d.held) /\ avail[h] \in Nat
  BY <1>1, <1>4, <1>2
<1> HIDE DEF w, k
<1>12. avail'[h] + Taken(e)' = avail[h] + Taken(e)
  BY <1>6, <1>8, <1>9, <1>10, <1>11
<1>13. avail' = [avail EXCEPT ![h] = avail'[h]]
  BY <1>1, <1>4, <1>2
<1> QED
  BY <1>12, <1>13 DEF Balanced

LEMMA BalancedCmdTask ==
  ASSUME TypeOK, NEW e \in Ends, EndOK(e), CmdTask(e) \/ Drop(e)
  PROVE  Balanced(e)
<1> USE DEF senderVars, cmdVars, permitVars, appVars
<1>1. cmdq \in [Ends -> Seq(Cmd)] /\ dec \in [Ends -> Decoder]
      /\ avail \in [Hosts -> Nat] /\ Host[e] \in Hosts
      /\ waiter[e].len \in Nat /\ OnePermit(cmdq[e])
      /\ QueuedPermit(cmdq[e]) \in Nat
  BY FramedAssumption, QueuedPermitType, OneQueuedPermit DEF TypeOK
<1>2. CASE CmdRecv(e)
  BY <1>2, BalancedCmdRecv
<1>3. CASE CmdRecvError(e) \/ CmdAwaitPermitError(e) \/ CmdClose(e) \/ Drop(e)
  BY <1>3, BalancedStop DEF CmdRecvError, CmdAwaitPermitError, CmdClose, Drop
<1>4. CASE CmdDeliver(e) \/ CmdSendGrant(e)
  BY <1>4, BalancedQuiet DEF CmdDeliver, CmdSendGrant
<1>5. CASE CmdAwaitPermit(e)
  <2>1. /\ cmdq[e] # << >> /\ ~ IsPermit(Head(cmdq[e]))
        /\ cmdq'[e] = Tail(cmdq[e]) /\ avail' = avail /\ waiter' = waiter
        /\ \E k : dec'[e] = AfterRequest(dec[e], k)
    BY <1>1, <1>5 DEF CmdAwaitPermit, TakesCmd, IsPermit
  <2>2. dec'[e].held = dec[e].held
    BY <1>1, <2>1 DEF AfterRequest, Decoder
  <2>3. QueuedPermit(cmdq'[e]) = QueuedPermit(cmdq[e])
    BY <1>1, <2>1, PermitTail
  <2> QED
    BY <2>1, <2>2, <2>3, BalancedQuiet
<1>6. CASE CmdRemotePermit(e)
  <2> DEFINE n == Head(cmdq[e]).len
             h == Host[e]
             w == IF waiter[e].at = "acquired" THEN waiter[e].len ELSE 0
  <2>1. /\ cmdq[e] # << >> /\ IsPermit(Head(cmdq[e])) /\ MayGrant(dec[e])
        /\ cmdq'[e] = Tail(cmdq[e]) /\ waiter' = waiter
        /\ avail' = [avail EXCEPT ![h] = @ + dec[e].held]
        /\ dec'[e] = AfterGrant(dec[e], n)
    BY <1>1, <1>6 DEF CmdRemotePermit, TakesCmd, IsPermit, Released
  <2>2. dec'[e].held = n
    BY <1>1, <2>1 DEF AfterGrant, Decoder
  <2>3. QueuedPermit(cmdq'[e]) = 0 /\ QueuedPermit(cmdq[e]) = n
    BY <1>1, <2>1, PermitTail
  <2>4. w \in Nat /\ n \in Nat /\ dec[e].held \in Nat /\ avail[h] \in Nat
    BY <1>1, <2>3 DEF Decoder
  <2>5. Taken(e) = w + n + dec[e].held
    BY <2>3 DEF Taken
  <2>6. Taken(e)' = w + 0 + n
    BY <2>1, <2>2, <2>3 DEF Taken
  <2>7. avail'[h] = avail[h] + dec[e].held
    BY <1>1, <2>1
  <2> HIDE DEF w, n
  <2>8. avail'[h] + Taken(e)' = avail[h] + Taken(e)
    BY <2>4, <2>5, <2>6, <2>7
  <2>9. avail' = [avail EXCEPT ![h] = avail'[h]]
    BY <1>1, <2>1
  <2> QED
    BY <2>8, <2>9 DEF Balanced
<1> QED
  BY <1>2, <1>3, <1>4, <1>5, <1>6 DEF CmdTask

LEMMA BalancedWaiter ==
  ASSUME TypeOK, NEW e \in Ends, EndOK(e), Waiter(e)
  PROVE  Balanced(e)
<1> USE DEF senderVars, cmdVars, permitVars, appVars
<1> DEFINE h == Host[e]
           n == waiter[e].len
           k == QueuedPermit(cmdq[e]) + dec[e].held
<1>1. cmdq \in [Ends -> Seq(Cmd)] /\ avail \in [Hosts -> Nat] /\ h \in Hosts
      /\ waiter[e].len \in Nat
      /\ waiter \in [Ends -> [at : {"none", "spawned", "queued", "acquired"},
                              len : Nat]]
  BY FramedAssumption DEF TypeOK
<1>2. QueuedPermit(cmdq[e]) \in Nat /\ dec[e].held \in Nat /\ n \in Nat
      /\ avail[h] \in Nat
  BY <1>1, QueuedPermitType DEF TypeOK, Decoder
<1>3. CASE WaiterPoll(e)
  <2>1. /\ waiter[e].at = "spawned" /\ waiter'[e].at = "queued"
        /\ cmdq' = cmdq /\ dec' = dec /\ avail' = avail
    BY <1>1, <1>3 DEF WaiterPoll
  <2> QED
    BY <2>1, BalancedQuiet
<1>4. CASE WaiterAcquire(e)
  <2>1. /\ waiter[e].at = "queued" /\ waiter'[e].at = "acquired"
        /\ waiter'[e].len = n /\ cmdq' = cmdq /\ dec' = dec
        /\ avail' = [avail EXCEPT ![h] = @ - n]
    BY <1>1, <1>4 DEF WaiterAcquire
  <2>2. Taken(e) = 0 + QueuedPermit(cmdq[e]) + dec[e].held
    BY <2>1 DEF Taken
  <2>3. Taken(e)' = n + QueuedPermit(cmdq[e]) + dec[e].held
    BY <2>1 DEF Taken
  <2>4. avail'[h] = avail[h] - n /\ avail' = [avail EXCEPT ![h] = avail'[h]]
    BY <1>1, <2>1
  <2>5. avail'[h] + Taken(e)' = avail[h] + Taken(e)
    BY <1>2, <2>2, <2>3, <2>4
  <2> QED
    BY <2>4, <2>5 DEF Balanced
<1>5. CASE WaiterSend(e)
  <2>1. /\ waiter[e].at = "acquired" /\ Running(e) /\ waiter'[e] = NoWaiter
        /\ dec' = dec /\ avail' = avail
        /\ cmdq'[e] = Append(cmdq[e], [cmd |-> "RemotePermit", len |-> n])
    BY <1>1, <1>5 DEF WaiterSend
  <2>2. \A i \in 1..Len(cmdq[e]) : ~ IsPermit(cmdq[e][i])
    BY <2>1, OneQueuedPermit
  <2>3. QueuedPermit(cmdq'[e]) = n /\ QueuedPermit(cmdq[e]) = 0
    <3> HIDE DEF n
    <3>1. QueuedPermit(cmdq[e]) = 0
      BY <2>2, PermitNotFound
    <3>2. cmdq[e] \in Seq(Cmd) /\ n \in Nat
      BY <1>1, <1>2
    <3>3. QueuedPermit(Append(cmdq[e], [cmd |-> "RemotePermit", len |-> n])) = n
      BY <2>2, <3>2, PermitJoins
    <3> QED
      BY <2>1, <3>1, <3>3
  <2>4. Taken(e) = n + 0 + dec[e].held
    BY <2>1, <2>3 DEF Taken
  <2>5. Taken(e)' = 0 + n + dec[e].held
    BY <2>1, <2>3 DEF Taken, NoWaiter
  <2>6. Taken(e)' = Taken(e)
    BY <1>2, <2>4, <2>5
  <2> QED
    BY <1>1, <2>1, <2>6 DEF Balanced
<1>6. CASE WaiterGone(e)
  <2>1. /\ waiter[e].at = "acquired" /\ waiter'[e] = NoWaiter
        /\ cmdq' = cmdq /\ dec' = dec
        /\ avail' = [avail EXCEPT ![h] = @ + n]
    BY <1>1, <1>6 DEF WaiterGone, Released
  <2>2. Taken(e) = n + QueuedPermit(cmdq[e]) + dec[e].held
    BY <2>1 DEF Taken
  <2>3. Taken(e)' = 0 + QueuedPermit(cmdq[e]) + dec[e].held
    BY <2>1 DEF Taken, NoWaiter
  <2>4. avail'[h] = avail[h] + n /\ avail' = [avail EXCEPT ![h] = avail'[h]]
    BY <1>1, <2>1
  <2>5. avail'[h] + Taken(e)' = avail[h] + Taken(e)
    BY <1>2, <2>2, <2>3, <2>4
  <2> QED
    BY <2>4, <2>5 DEF Balanced
<1> QED
  BY <1>3, <1>4, <1>5, <1>6 DEF Waiter

LEMMA TakenType ==
  ASSUME TypeOK, NEW e \in Ends
  PROVE  Taken(e) \in Nat
BY QueuedPermitType DEF Taken, TypeOK, Decoder

LEMMA InitPermitAccounting == Init => PermitAccounting
<1> SUFFICES ASSUME Init, NEW h \in Hosts
             PROVE  avail[h] + Total([e \in Ends |-> Taken(e)], EndsOf(h)) = Limit
  BY DEF PermitAccounting
<1> DEFINE n == [e \in Ends |-> Taken(e)]
<1>1. ASSUME NEW e \in Ends
      PROVE  n[e] = 0
  <2>1. QueuedPermit(<< >>) = 0
    BY PermitNotFound
  <2> QED
    BY <2>1 DEF Init, Taken, NoWaiter, NewDecoder
<1>2. Units(n, EndsOf(h)) = {}
  <2>1. \A e \in EndsOf(h) : {e} \X (1..n[e]) = {}
    BY <1>1 DEF EndsOf
  <2> HIDE DEF n
  <2> QED
    BY <2>1 DEF Units
<1>3. Total(n, EndsOf(h)) = 0
  BY <1>2, FS_EmptySet DEF Total
<1>4. avail[h] = Limit /\ Limit \in Nat
  BY FramedAssumption DEF Init
<1> HIDE DEF n
<1>5. avail[h] + Total(n, EndsOf(h)) = Limit
  BY <1>3, <1>4
<1> QED
  BY <1>5 DEF n

LEMMA BalancedStep ==
  ASSUME TypeOK, TypeOK', PermitAccounting, NEW e \in Ends, Balanced(e),
         \A o \in Ends : o # e => Taken(o)' = Taken(o)
  PROVE  PermitAccounting'
<1> SUFFICES ASSUME NEW h \in Hosts
             PROVE  avail'[h] + Total([o \in Ends |-> Taken(o)'], EndsOf(h)) = Limit
  BY DEF PermitAccounting
<1> DEFINE n == [o \in Ends |-> Taken(o)]
           m == [o \in Ends |-> Taken(o)']
           S == EndsOf(h)
<1>1. S \subseteq Ends /\ IsFiniteSet(S)
  BY FiniteEnds, FS_Subset DEF EndsOf
<1>2. ASSUME NEW o \in Ends
      PROVE  n[o] \in Nat /\ m[o] \in Nat /\ (o # e => m[o] = n[o])
  <2>1. Taken(o) \in Nat
    BY TakenType
  <2>2. Taken(o)' \in Nat
    <3>1. cmdq'[o] \in Seq(Cmd) /\ dec'[o] \in Decoder /\ waiter'[o].len \in Nat
      BY DEF TypeOK
    <3>2. QueuedPermit(cmdq'[o]) \in Nat
      BY <3>1, QueuedPermitType
    <3>3. dec'[o].held \in Nat
      BY <3>1 DEF Decoder
    <3> QED
      BY <3>1, <3>2, <3>3 DEF Taken
  <2> QED
    BY <2>1, <2>2
<1>3. avail[h] + Total(n, S) = Limit /\ avail[h] \in Nat /\ Limit \in Nat
  BY FramedAssumption DEF PermitAccounting, TypeOK
<1>4. m[e] = Taken(e)' /\ n[e] = Taken(e)
  OBVIOUS
<1>5. avail \in [Hosts -> Nat] /\ avail' \in [Hosts -> Nat]
  BY DEF TypeOK
<1> HIDE DEF n, m
<1>6. CASE e \in S
  <2>1. Host[e] = h
    BY <1>6 DEF EndsOf
  <2>2. Total(n, S) = Total(n, S \ {e}) + n[e]
    BY <1>1, <1>2, <1>6, TotalApart
  <2>3. Total(m, S) = Total(m, S \ {e}) + m[e]
    BY <1>1, <1>2, <1>6, TotalApart
  <2>4. Total(m, S \ {e}) = Total(n, S \ {e})
    BY <1>1, <1>2, TotalSame
  <2>5. avail'[h] + m[e] = avail[h] + n[e]
    BY <1>4, <2>1 DEF Balanced
  <2>6. Total(n, S \ {e}) \in Nat
    <3>1. IsFiniteSet(S \ {e}) /\ \A o \in S \ {e} : n[o] \in Nat
      BY <1>1, <1>2, FS_RemoveElement
    <3> QED
      BY <3>1, UnitsFinite
  <2>7. n[e] \in Nat /\ m[e] \in Nat /\ avail'[h] \in Nat
    BY <1>2, <1>5
  <2>8. avail'[h] + Total(m, S) = Limit
    <3> HIDE DEF S
    <3> QED
      BY ONLY <1>3, <2>2, <2>3, <2>4, <2>5, <2>6, <2>7
  <2> QED
    BY <2>8 DEF m
<1>7. CASE e \notin S
  <2>1. Host[e] # h
    BY <1>7 DEF EndsOf
  <2>2. avail'[h] = avail[h]
    <3>1. avail' = [avail EXCEPT ![Host[e]] = avail'[Host[e]]]
      BY DEF Balanced
    <3> QED
      BY <1>5, <2>1, <3>1
  <2>3. Total(m, S) = Total(n, S)
    BY <1>1, <1>2, <1>7, TotalSame
  <2>4. avail'[h] + Total(m, S) = Limit
    BY <1>3, <2>2, <2>3
  <2> QED
    BY <2>4 DEF m
<1> QED
  BY <1>6, <1>7

LEMMA NextPermitAccounting ==
  TypeOK /\ TypeOK' /\ PermitInv /\ PermitAccounting /\ [Next]_vars
    => PermitAccounting'
<1> SUFFICES ASSUME TypeOK, TypeOK', PermitInv, PermitAccounting, [Next]_vars
             PROVE  PermitAccounting'
  OBVIOUS
<1>1. ASSUME NEW e \in Ends, Steps(e)
      PROVE  PermitAccounting'
  <2>1. Balanced(e)
    <3>1. EndOK(e)
      BY DEF PermitInv
    <3> QED
      BY <1>1, <3>1, BalancedSender, BalancedCmdTask, BalancedWaiter DEF Steps
  <2>2. ASSUME NEW o \in Ends, o # e
        PROVE  Taken(o)' = Taken(o)
    <3>1. cmdq'[o] = cmdq[o] /\ dec'[o] = dec[o] /\ waiter'[o] = waiter[o]
      BY <1>1, <2>2, OtherEnds DEF Steps
    <3> QED
      BY <3>1 DEF Taken
  <2> QED
    BY <2>1, <2>2, BalancedStep
<1>2. CASE UNCHANGED vars \/ \E e \in Ends : Lose(e)
  <2>1. cmdq' = cmdq /\ dec' = dec /\ waiter' = waiter /\ avail' = avail
    BY <1>2, LosesOne DEF vars, cmdVars, permitVars
  <2> QED
    BY <2>1 DEF PermitAccounting, Total, Units, Taken
<1> QED
  BY <1>1, <1>2 DEF Next, Steps

(* Permits are neither lost nor made, on any number of connections, with   *)
(* sends cancelled, connections cut and tasks gone at any moment: what is  *)
(* free and what the connections of a host hold adds up to the limit       *)
(* (framed.rs:111-181, proto.rs:343-348).                                  *)
THEOREM PermitsAreConserved == Spec => []PermitAccounting
<1> QED
  BY InitPermitAccounting, NextPermitAccounting, FramedTypeOK, FramedInvariant,
     PTL DEF Spec

(* The memory for incomplete messages of all the connections of an         *)
(* endpoint together never exceeds incoming_message_bytes_max              *)
(* (framed.rs:32-34, tx5/src/config.rs:37-38).                             *)
THEOREM ReconstructionStaysBounded == Spec => []ReconstructionBytesBounded
<1>1. TypeOK /\ PermitInv /\ PermitAccounting => ReconstructionBytesBounded
  <2> SUFFICES ASSUME TypeOK, PermitInv, PermitAccounting, NEW h \in Hosts
               PROVE  Total([e \in Ends |-> Len(dec[e].incoming)], EndsOf(h)) <= Limit
    BY DEF ReconstructionBytesBounded
  <2> DEFINE n == [e \in Ends |-> Len(dec[e].incoming)]
             m == [e \in Ends |-> Taken(e)]
             S == EndsOf(h)
  <2>1. S \subseteq Ends /\ IsFiniteSet(S)
    BY FiniteEnds, FS_Subset DEF EndsOf
  <2>2. ASSUME NEW e \in Ends
        PROVE  n[e] \in Nat /\ m[e] \in Nat /\ n[e] <= m[e]
    <3>1. dec[e] \in Decoder /\ waiter[e].len \in Nat
          /\ QueuedPermit(cmdq[e]) \in Nat /\ Consistent(dec[e])
      BY QueuedPermitType DEF TypeOK, PermitInv, EndOK
    <3>2. n[e] \in Nat /\ n[e] <= dec[e].held /\ dec[e].held \in Nat
      BY <3>1 DEF Consistent, Decoder
    <3>3. m[e] \in Nat /\ dec[e].held <= m[e]
      BY <3>1, <3>2 DEF Taken
    <3> HIDE DEF n, m
    <3> QED
      BY <3>2, <3>3
  <2>3. avail[h] + Total(m, S) = Limit /\ avail[h] \in Nat /\ Limit \in Nat
    BY FramedAssumption DEF PermitAccounting, TypeOK
  <2> HIDE DEF n, m, S
  <2>4. Total(n, S) <= Total(m, S) /\ Total(n, S) \in Nat /\ Total(m, S) \in Nat
    BY <2>1, <2>2, TotalGrows, UnitsFinite
  <2>5. Total(n, S) <= Limit
    BY <2>3, <2>4
  <2> QED
    BY <2>5 DEF n, S
<1> QED
  BY <1>1, PermitsAreConserved, FramedTypeOK, FramedInvariant, PTL

----------------------------------------------------------------------------
----------------------------------------------------------------------------
(* Weights of sequences of frames.                                         *)

LEMMA WeighedFrames ==
  ASSUME NEW q \in Seq(Frame), NEW w \in [Frame -> Nat]
  PROVE  /\ [i \in 1..Len(q) |-> w[q[i]]] \in Seq(Nat)
         /\ Len([i \in 1..Len(q) |-> w[q[i]]]) = Len(q)
         /\ \A i \in 1..Len(q) :
              w[q[i]] \in Nat /\ [j \in 1..Len(q) |-> w[q[j]]][i] = w[q[i]]
         /\ IsFiniteSet(1..Len(q)) /\ Len(q) \in Nat
         /\ OnWire(w, q) = Total([i \in 1..Len(q) |-> w[q[i]]], 1..Len(q))
<1> DEFINE s == [i \in 1..Len(q) |-> w[q[i]]]
<1>1. \A i \in 1..Len(q) : w[q[i]] \in Nat
  OBVIOUS
<1>2. s \in Seq(Nat) /\ Len(s) = Len(q)
  BY <1>1
<1>3. Len(q) \in Nat /\ 1 \in Int /\ Len(q) \in Int
  OBVIOUS
<1>4. IsFiniteSet(1..Len(q))
  BY <1>3, FS_Interval
<1> QED
  BY <1>1, <1>2, <1>3, <1>4 DEF OnWire, SumOf

LEMMA OnWireType ==
  ASSUME NEW q \in Seq(Frame), NEW w \in [Frame -> Nat]
  PROVE  OnWire(w, q) \in Nat
<1> DEFINE s == [i \in 1..Len(q) |-> w[q[i]]]
<1>1. IsFiniteSet(1..Len(q)) /\ \A i \in 1..Len(q) : s[i] \in Nat
  BY WeighedFrames
<1> HIDE DEF s
<1>2. Total(s, 1..Len(q)) \in Nat
  BY <1>1, UnitsFinite
<1> QED
  BY <1>2, WeighedFrames DEF s

LEMMA OnWireEmpty ==
  ASSUME NEW w
  PROVE  OnWire(w, << >>) = 0
<1> DEFINE s == [i \in 1..Len(<< >>) |-> w[<< >>[i]]]
<1>1. s = << >> /\ 1..Len(s) = {}
  OBVIOUS
<1>2. Units(s, 1..Len(s)) = {}
  BY <1>1 DEF Units
<1>3. Cardinality({}) = 0
  BY FS_EmptySet
<1> QED
  BY <1>2, <1>3 DEF OnWire, SumOf, Total

LEMMA OnWireLess ==
  ASSUME NEW q \in Seq(Frame), NEW v \in [Frame -> Nat], NEW w \in [Frame -> Nat],
         \A f \in Frame : v[f] <= w[f]
  PROVE  OnWire(v, q) <= OnWire(w, q)
<1> DEFINE s == [i \in 1..Len(q) |-> v[q[i]]]
           t == [i \in 1..Len(q) |-> w[q[i]]]
           S == 1..Len(q)
<1>1. /\ OnWire(v, q) = Total(s, S) /\ OnWire(w, q) = Total(t, S)
      /\ IsFiniteSet(S)
      /\ \A i \in S : s[i] \in Nat /\ t[i] \in Nat /\ s[i] = v[q[i]] /\ t[i] = w[q[i]]
  BY WeighedFrames
<1>2. \A i \in S : s[i] <= t[i]
  BY <1>1
<1> HIDE DEF s, t, S
<1> QED
  BY <1>1, <1>2, TotalGrows

LEMMA OnWireAppend ==
  ASSUME NEW q \in Seq(Frame), NEW f \in Frame, NEW w \in [Frame -> Nat]
  PROVE  OnWire(w, Append(q, f)) = OnWire(w, q) + w[f]
<1> DEFINE r == Append(q, f)
           s == [i \in 1..Len(q) |-> w[q[i]]]
           t == [i \in 1..Len(r) |-> w[r[i]]]
           n == Len(r)
           S == 1..n
<1>1. /\ r \in Seq(Frame) /\ Len(r) = Len(q) + 1 /\ Len(q) \in Nat
      /\ r[Len(r)] = f /\ \A i \in 1..Len(q) : r[i] = q[i]
  OBVIOUS
<1>2. OnWire(w, q) = Total(s, 1..Len(q)) /\ \A i \in 1..Len(q) : s[i] = w[q[i]]
  BY WeighedFrames
<1>3. /\ OnWire(w, r) = Total(t, S) /\ IsFiniteSet(S)
      /\ \A i \in S : t[i] \in Nat /\ t[i] = w[r[i]]
  <2> HIDE DEF r
  <2> QED
    BY <1>1, WeighedFrames
<1> HIDE DEF r, s, t
<1>4. S \ {n} = 1..Len(q) /\ n \in S
  BY <1>1
<1>5. Total(t, S) = Total(t, S \ {n}) + t[n]
  <2>1. IsFiniteSet(S) /\ n \in S /\ \A i \in S : t[i] \in Nat
    BY <1>3, <1>4
  <2> HIDE DEF S, n
  <2> QED
    BY ONLY <2>1, TotalApart
<1>6. Total(t, 1..Len(q)) = Total(s, 1..Len(q))
  <2>1. ASSUME NEW i \in 1..Len(q)
        PROVE  t[i] = s[i]
    <3>1. i \in S /\ r[i] = q[i]
      BY <1>1
    <3> HIDE DEF S
    <3> QED
      BY <1>2, <1>3, <3>1
  <2> QED
    BY <2>1, TotalSame
<1>7. t[n] = w[f] /\ t[n] \in Nat
  <2> HIDE DEF S
  <2> QED
    BY <1>1, <1>3, <1>4
<1> QED
  <2> HIDE DEF S
  <2> QED
    BY <1>2, <1>3, <1>4, <1>5, <1>6, <1>7 DEF r

(* The same summands, each under the number after its own.                 *)
LEMMA TotalShift ==
  ASSUME NEW n \in Nat, NEW s, NEW t,
         \A i \in 1..n : t[i] \in Nat /\ s[i + 1] = t[i]
  PROVE  Total(s, 2..n + 1) = Total(t, 1..n)
<1> DEFINE A == Units(t, 1..n)
           B == Units(s, 2..n + 1)
           g == [x \in A |-> << x[1] + 1, x[2] >>]
<1>1. \A x : x \in A <=> \E i \in 1..n : \E k \in 1..t[i] : x = << i, k >>
  BY DEF Units
<1>2. \A x : x \in B <=> \E i \in 2..n + 1 : \E k \in 1..s[i] : x = << i, k >>
  BY DEF Units
<1>3. IsFiniteSet(A)
  <2>1. 1 \in Int /\ n \in Int
    OBVIOUS
  <2>2. IsFiniteSet(1..n)
    BY <2>1, FS_Interval
  <2> QED
    BY <2>2, UnitsFinite
<1> HIDE DEF A, B
<1>4. \A x \in A : g[x] \in B
  <2> SUFFICES ASSUME NEW i \in 1..n, NEW k \in 1..t[i], << i, k >> \in A
               PROVE  << i + 1, k >> \in B
    BY <1>1
  <2>1. i + 1 \in 2..n + 1 /\ k \in 1..s[i + 1]
    OBVIOUS
  <2> QED
    BY <1>2, <2>1
<1>5. \A x, y \in A : g[x] = g[y] => x = y
  <2> SUFFICES ASSUME NEW i \in 1..n, NEW k \in 1..t[i],
                      NEW j \in 1..n, NEW l \in 1..t[j],
                      << i, k >> \in A, << j, l >> \in A,
                      << i + 1, k >> = << j + 1, l >>
               PROVE  << i, k >> = << j, l >>
    BY <1>1
  <2>1. i = j /\ k = l
    OBVIOUS
  <2> QED
    BY <2>1
<1>6. ASSUME NEW y \in B
      PROVE  \E x \in A : g[x] = y
  <2> PICK i \in 2..n + 1 : \E k \in 1..s[i] : y = << i, k >>
    <3> HIDE DEF g
    <3> QED
      BY <1>2
  <2> PICK k \in 1..s[i] : y = << i, k >>
    <3> HIDE DEF g
    <3> QED
      OBVIOUS
  <2>1. i - 1 \in 1..n /\ k \in 1..t[i - 1] /\ i - 1 + 1 = i
    <3>1. i - 1 \in 1..n /\ i - 1 + 1 = i
      OBVIOUS
    <3>2. s[i - 1 + 1] = t[i - 1]
      BY <3>1
    <3> QED
      BY <3>1, <3>2
  <2>2. << i - 1, k >> \in A
    BY <1>1, <2>1
  <2>3. g[<< i - 1, k >>] = y
    BY <2>1, <2>2
  <2> QED
    BY <2>2, <2>3
<1>7. g \in Bijection(A, B)
  <2>1. g \in [A -> B]
    BY <1>4
  <2> HIDE DEF g
  <2>2. g \in Injection(A, B)
    BY <1>5, <2>1 DEF Injection, IsInjective
  <2>3. g \in Surjection(A, B)
    BY <1>6, <2>1 DEF Surjection
  <2> QED
    BY <2>2, <2>3 DEF Bijection
<1>8. Cardinality(B) = Cardinality(A)
  <2> HIDE DEF g
  <2> QED
    BY <1>3, <1>7, FS_Bijection DEF ExistsBijection
<1> QED
  BY <1>8 DEF Total, A, B

LEMMA OnWireTail ==
  ASSUME NEW q \in Seq(Frame), q # << >>, NEW w \in [Frame -> Nat]
  PROVE  OnWire(w, q) = w[Head(q)] + OnWire(w, Tail(q))
<1> DEFINE r == Tail(q)
           t == [i \in 1..Len(q) |-> w[q[i]]]
           s == [i \in 1..Len(r) |-> w[r[i]]]
           n == Len(r)
           S == 1..Len(q)
<1>1. /\ r \in Seq(Frame) /\ n \in Nat /\ Len(q) = n + 1 /\ Head(q) = q[1]
      /\ \A i \in 1..n : r[i] = q[i + 1]
  OBVIOUS
<1>2. /\ OnWire(w, q) = Total(t, S) /\ IsFiniteSet(S)
      /\ \A i \in S : t[i] \in Nat /\ t[i] = w[q[i]]
  BY WeighedFrames
<1>3. OnWire(w, r) = Total(s, 1..n) /\ \A i \in 1..n : s[i] \in Nat /\ s[i] = w[r[i]]
  <2> HIDE DEF r
  <2> QED
    BY <1>1, WeighedFrames
<1> HIDE DEF r, s, t
<1>4. S \ {1} = 2..n + 1 /\ 1 \in S
  BY <1>1
<1>5. Total(t, S) = Total(t, 2..n + 1) + t[1]
  <2> HIDE DEF S
  <2>1. IsFiniteSet(S) /\ (\A i \in S : t[i] \in Nat) /\ 1 \in S
    BY <1>2, <1>4
  <2>2. \A o \in S : Total(t, S) = Total(t, S \ {o}) + t[o]
    BY <2>1, TotalApart
  <2>3. Total(t, S) = Total(t, S \ {1}) + t[1]
    BY <2>1, <2>2
  <2> QED
    BY <1>4, <2>3
<1>6. Total(t, 2..n + 1) = Total(s, 1..n)
  <2>1. \A i \in 1..n : s[i] \in Nat /\ t[i + 1] = s[i]
    BY <1>1, <1>2, <1>3
  <2> QED
    BY <1>1, <2>1, TotalShift
<1>7. Total(s, 1..n) \in Nat /\ t[1] \in Nat /\ t[1] = w[Head(q)]
  <2>1. OnWire(w, r) \in Nat
    BY <1>1, OnWireType
  <2> QED
    BY <1>1, <1>2, <1>3, <1>4, <2>1
<1> QED
  BY <1>2, <1>3, <1>5, <1>6, <1>7 DEF r

LEMMA OnWireCut ==
  ASSUME NEW q \in Seq(Frame), NEW k \in 0..Len(q), NEW w \in [Frame -> Nat]
  PROVE  OnWire(w, SubSeq(q, 1, k)) <= OnWire(w, q)
<1> DEFINE r == SubSeq(q, 1, k)
           s == [i \in 1..Len(r) |-> w[r[i]]]
           t == [i \in 1..Len(q) |-> w[q[i]]]
<1>1. /\ r \in Seq(Frame) /\ Len(r) = k /\ k \in Nat
      /\ \A i \in 1..k : r[i] = q[i] /\ i \in 1..Len(q)
  OBVIOUS
<1>2. /\ OnWire(w, q) = Total(t, 1..Len(q)) /\ IsFiniteSet(1..Len(q))
      /\ \A i \in 1..Len(q) : t[i] \in Nat /\ t[i] = w[q[i]]
  BY WeighedFrames
<1>3. OnWire(w, r) = Total(s, 1..k) /\ \A i \in 1..k : s[i] = w[r[i]]
  <2> HIDE DEF r
  <2> QED
    BY <1>1, WeighedFrames
<1> HIDE DEF r, s, t
<1>4. Total(s, 1..k) = Total(t, 1..k)
  <2>1. \A i \in 1..k : s[i] = t[i]
    BY <1>1, <1>2, <1>3
  <2> QED
    BY <2>1, TotalSame
<1>5. Total(t, 1..k) <= Total(t, 1..Len(q))
  <2>1. Units(t, 1..k) \subseteq Units(t, 1..Len(q))
    BY <1>1 DEF Units
  <2>2. IsFiniteSet(Units(t, 1..Len(q)))
    BY <1>2, UnitsFinite
  <2> QED
    BY <2>1, <2>2, FS_Subset DEF Total
<1> QED
  BY <1>2, <1>3, <1>4, <1>5 DEF r

LEMMA TotalEmbeds ==
  ASSUME NEW n \in Nat, NEW m \in Nat, NEW s, NEW t, NEW h \in [1..n -> 1..m],
         \A i \in 1..m : t[i] \in Nat, \A i \in 1..n : s[i] = t[h[i]],
         \A i, j \in 1..n : h[i] = h[j] => i = j
  PROVE  Total(s, 1..n) <= Total(t, 1..m)
<1> DEFINE A == Units(s, 1..n)
           B == Units(t, 1..m)
           g == [x \in A |-> << h[x[1]], x[2] >>]
<1>1. \A x : x \in A <=> \E i \in 1..n : \E k \in 1..s[i] : x = << i, k >>
  BY DEF Units
<1>2. \A i \in 1..m : \A k \in 1..t[i] : << i, k >> \in B
  BY DEF Units
<1>3. IsFiniteSet(B)
  <2>1. 1 \in Int /\ m \in Int
    OBVIOUS
  <2>2. IsFiniteSet(1..m)
    BY <2>1, FS_Interval
  <2> QED
    BY <2>2, UnitsFinite
<1> HIDE DEF A, B
<1>4. \A x \in A : g[x] \in B
  <2> SUFFICES ASSUME NEW i \in 1..n, NEW k \in 1..s[i], << i, k >> \in A
               PROVE  << h[i], k >> \in B
    BY <1>1
  <2>1. h[i] \in 1..m /\ s[i] = t[h[i]]
    OBVIOUS
  <2> QED
    BY <1>2, <2>1
<1>5. \A x, y \in A : g[x] = g[y] => x = y
  <2> SUFFICES ASSUME NEW i \in 1..n, NEW k \in 1..s[i],
                      NEW j \in 1..n, NEW l \in 1..s[j],
                      << i, k >> \in A, << j, l >> \in A,
                      << h[i], k >> = << h[j], l >>
               PROVE  << i, k >> = << j, l >>
    BY <1>1
  <2> QED
    OBVIOUS
<1>6. g \in Injection(A, B)
  <2>1. g \in [A -> B]
    BY <1>4
  <2> HIDE DEF g
  <2> QED
    BY <1>5, <2>1 DEF Injection, IsInjective
<1>7. Cardinality(A) <= Cardinality(B)
  <2> HIDE DEF g
  <2> QED
    BY <1>3, <1>6, FS_Injection
<1> QED
  BY <1>7 DEF Total, A, B

LEMMA OnWireWithout ==
  ASSUME NEW q \in Seq(Frame), NEW k \in 1..Len(q), NEW w \in [Frame -> Nat]
  PROVE  OnWire(w, Without(q, k)) <= OnWire(w, q)
<1> DEFINE r == Without(q, k)
           n == Len(q) - 1
           s == [i \in 1..Len(r) |-> w[r[i]]]
           t == [i \in 1..Len(q) |-> w[q[i]]]
           h == [i \in 1..n |-> IF i < k THEN i ELSE i + 1]
<1>1. /\ r \in Seq(Frame) /\ Len(r) = n
      /\ \A i \in 1..n : r[i] = IF i < k THEN q[i] ELSE q[i + 1]
  BY WithoutOne
<1>2. n \in Nat /\ Len(q) \in Nat /\ h \in [1..n -> 1..Len(q)]
  OBVIOUS
<1>3. \A i, j \in 1..n : h[i] = h[j] => i = j
  OBVIOUS
<1>4. /\ OnWire(w, q) = Total(t, 1..Len(q))
      /\ \A i \in 1..Len(q) : t[i] \in Nat /\ t[i] = w[q[i]]
  BY WeighedFrames
<1>5. OnWire(w, r) = Total(s, 1..n) /\ \A i \in 1..n : s[i] = w[r[i]]
  <2> HIDE DEF r
  <2> QED
    BY <1>1, WeighedFrames
<1>6. \A i \in 1..n : h[i] \in 1..Len(q) /\ r[i] = q[h[i]]
  <2> HIDE DEF r
  <2> QED
    BY <1>1, <1>2
<1> HIDE DEF r, s, t, h, n
<1>7. \A i \in 1..n : s[i] = t[h[i]]
  BY <1>4, <1>5, <1>6
<1>8. Total(s, 1..n) <= Total(t, 1..Len(q))
  BY <1>2, <1>3, <1>4, <1>7, TotalEmbeds
<1> QED
  BY <1>4, <1>5, <1>8 DEF r

----------------------------------------------------------------------------
(* What the steps do to the weight of what is on its way to an end.        *)

LEMMA WeightTypes ==
  /\ Bytes \in Weights /\ Requests \in Weights /\ Grants \in Weights
  /\ \A n : Others(n) \in Weights
  /\ \A n : \A f \in Frame : Others(n)[f] <= Requests[f]
<1>1. Bytes \in Weights
  BY DEF Bytes, Weights, ChunkBytes, Frame
<1>2. Requests \in Weights /\ Grants \in Weights
  BY DEF Requests, Grants, Weights
<1>3. \A n : Others(n) \in Weights
  BY DEF Others, Weights
<1>4. \A n : \A f \in Frame : Others(n)[f] <= Requests[f]
  BY DEF Others, Requests
<1> QED
  BY <1>1, <1>2, <1>3, <1>4

LEMMA FrameOfType ==
  ASSUME NEW c \in Cmd
  PROVE  /\ FrameOf(c) \in Frame
         /\ c.cmd = "Recv" => FrameOf(c) = c.frame
         /\ \A w \in Weights : c.cmd # "Recv" => w[FrameOf(c)] = 0
<1>1. NoFrame \in Frame /\ NoFrame.kind = "Invalid"
  <2>1. << >> \in Seq(Byte) /\ 0 \in Nat
    OBVIOUS
  <2>2. NoFrame \in Frame
    BY <2>1, FrameTypes
  <2> QED
    BY <2>2 DEF NoFrame
<1>2. c.cmd = "Recv" => c.frame \in Frame
  BY DEF Cmd
<1> QED
  BY <1>1, <1>2 DEF FrameOf, Weights

LEMMA FramesOfShape ==
  ASSUME NEW q \in Seq(Cmd)
  PROVE  /\ FramesOf(q) \in Seq(Frame)
         /\ \A c \in Cmd : FramesOf(Append(q, c)) = Append(FramesOf(q), FrameOf(c))
         /\ q # << >> =>
              /\ FramesOf(q) # << >> /\ Head(FramesOf(q)) = FrameOf(Head(q))
              /\ FramesOf(Tail(q)) = Tail(FramesOf(q))
<1> DEFINE F(s) == [i \in 1..Len(s) |-> FrameOf(s[i])]
<1>1. \A s \in Seq(Cmd) : /\ F(s) \in Seq(Frame) /\ Len(F(s)) = Len(s)
                          /\ \A i \in 1..Len(s) : F(s)[i] = FrameOf(s[i])
  <2> SUFFICES ASSUME NEW s \in Seq(Cmd)
               PROVE  F(s) \in Seq(Frame)
    OBVIOUS
  <2>1. \A i \in 1..Len(s) : FrameOf(s[i]) \in Frame
    BY FrameOfType
  <2> QED
    BY <2>1
<1>2. \A s : FramesOf(s) = F(s)
  BY DEF FramesOf
<1> HIDE DEF F
<1>3. ASSUME NEW c \in Cmd
      PROVE  F(Append(q, c)) = Append(F(q), FrameOf(c))
  <2>1. FrameOf(c) \in Frame
    BY FrameOfType
  <2>2. /\ Append(q, c) \in Seq(Cmd) /\ Len(Append(q, c)) = Len(q) + 1
        /\ \A i \in 1..Len(q) : Append(q, c)[i] = q[i]
        /\ Append(q, c)[Len(q) + 1] = c
    OBVIOUS
  <2>3. /\ F(q) \in Seq(Frame) /\ Len(F(q)) = Len(q)
        /\ F(Append(q, c)) \in Seq(Frame) /\ Len(F(Append(q, c))) = Len(q) + 1
        /\ \A i \in 1..Len(q) + 1 : F(Append(q, c))[i] = FrameOf(Append(q, c)[i])
        /\ \A i \in 1..Len(q) : F(q)[i] = FrameOf(q[i])
    BY <1>1, <2>2
  <2>4. /\ Append(F(q), FrameOf(c)) \in Seq(Frame)
        /\ Len(Append(F(q), FrameOf(c))) = Len(q) + 1
        /\ \A i \in 1..Len(q) : Append(F(q), FrameOf(c))[i] = F(q)[i]
        /\ Append(F(q), FrameOf(c))[Len(q) + 1] = FrameOf(c)
    BY <2>1, <2>3
  <2>5. \A i \in 1..Len(q) + 1 : i \in 1..Len(q) \/ i = Len(q) + 1
    OBVIOUS
  <2>6. \A i \in 1..Len(q) + 1 :
          F(Append(q, c))[i] = Append(F(q), FrameOf(c))[i]
    BY <2>2, <2>3, <2>4, <2>5
  <2> DEFINE l == F(Append(q, c))
             r == Append(F(q), FrameOf(c))
  <2>7. l \in Seq(Frame) /\ r \in Seq(Frame) /\ Len(l) = Len(r)
        /\ \A i \in 1..Len(l) : l[i] = r[i]
    BY <2>3, <2>4, <2>6
  <2> HIDE DEF l, r
  <2>8. l = r
    BY <2>7, SeqExt
  <2> QED
    BY <2>8 DEF l, r
<1>4. ASSUME q # << >>
      PROVE  /\ F(q) # << >> /\ Head(F(q)) = FrameOf(Head(q))
             /\ F(Tail(q)) = Tail(F(q))
  <2>1. /\ Tail(q) \in Seq(Cmd) /\ Len(Tail(q)) = Len(q) - 1 /\ Head(q) = q[1]
        /\ Len(q) \in Nat \ {0}
        /\ \A i \in 1..Len(q) - 1 : Tail(q)[i] = q[i + 1] /\ i + 1 \in 1..Len(q)
    BY <1>4
  <2>2. /\ F(q) \in Seq(Frame) /\ Len(F(q)) = Len(q)
        /\ \A i \in 1..Len(q) : F(q)[i] = FrameOf(q[i])
        /\ F(Tail(q)) \in Seq(Frame) /\ Len(F(Tail(q))) = Len(q) - 1
        /\ \A i \in 1..Len(q) - 1 : F(Tail(q))[i] = FrameOf(Tail(q)[i])
    BY <1>1, <2>1
  <2>3. F(q) # << >> /\ Head(F(q)) = F(q)[1] /\ 1 \in 1..Len(q)
    BY <2>1, <2>2
  <2>4. /\ Tail(F(q)) \in Seq(Frame) /\ Len(Tail(F(q))) = Len(q) - 1
        /\ \A i \in 1..Len(q) - 1 : Tail(F(q))[i] = F(q)[i + 1]
    BY <2>2, <2>3
  <2> DEFINE l == F(Tail(q))
             r == Tail(F(q))
  <2>5. l \in Seq(Frame) /\ r \in Seq(Frame) /\ Len(l) = Len(r)
        /\ \A i \in 1..Len(l) : l[i] = r[i]
    BY <2>1, <2>2, <2>4
  <2> HIDE DEF l, r
  <2>6. l = r
    BY <2>5, SeqExt
  <2> QED
    BY <2>1, <2>2, <2>3, <2>6 DEF l, r
<1> QED
  BY <1>1, <1>2, <1>3, <1>4

LEMMA FramesOfEmpty == FramesOf(<< >>) = << >>
BY DEF FramesOf

LEMMA LoadType ==
  ASSUME TypeOK, NEW e \in Ends, NEW w \in Weights
  PROVE  /\ OnWire(w, wire[e]) \in Nat /\ OnWire(w, FramesOf(cmdq[e])) \in Nat
         /\ Load(w, e) \in Nat /\ w \in [Frame -> Nat]
<1>1. wire[e] \in Seq(Frame) /\ cmdq[e] \in Seq(Cmd) /\ w \in [Frame -> Nat]
  BY DEF TypeOK, Weights
<1>2. FramesOf(cmdq[e]) \in Seq(Frame)
  BY <1>1, FramesOfShape
<1>3. OnWire(w, wire[e]) \in Nat /\ OnWire(w, FramesOf(cmdq[e])) \in Nat
  BY <1>1, <1>2, OnWireType
<1> QED
  BY <1>1, <1>3 DEF Load, Weight

LEMMA LoadSame ==
  ASSUME NEW w, NEW e \in Ends, wire'[e] = wire[e], cmdq'[e] = cmdq[e]
  PROVE  Load(w, e)' = Load(w, e)
BY DEF Load

(* A frame is handed to the connection of end e.                           *)
LEMMA LoadPush ==
  ASSUME TypeOK, NEW e \in Ends, NEW f \in Frame, Push(e, f), cmdq' = cmdq,
         NEW w \in Weights
  PROVE  /\ Load(w, e)' = Load(w, e)
         /\ \/ Load(w, Peer[e])' = Load(w, Peer[e])
            \/ Load(w, Peer[e])' = Load(w, Peer[e]) + w[f]
<1> DEFINE p == Peer[e]
<1>1. p \in Ends /\ p # e /\ wire \in [Ends -> Seq(Frame)]
  BY PeerFacts DEF TypeOK
<1>2. wire'[e] = wire[e] /\ (wire'[p] = wire[p] \/ wire'[p] = Append(wire[p], f))
  BY <1>1 DEF Push
<1>3. Load(w, e)' = Load(w, e)
  BY <1>2, LoadSame
<1>4. CASE wire'[p] = wire[p]
  BY <1>1, <1>3, <1>4, LoadSame
<1>5. CASE wire'[p] = Append(wire[p], f)
  <2>1. wire[p] \in Seq(Frame) /\ w \in [Frame -> Nat]
    BY <1>1, LoadType
  <2>2. OnWire(w, Append(wire[p], f)) = OnWire(w, wire[p]) + w[f]
    BY <2>1, OnWireAppend
  <2>3. /\ OnWire(w, wire[p]) \in Nat /\ OnWire(w, FramesOf(cmdq[p])) \in Nat
        /\ w[f] \in Nat
    BY <1>1, <2>1, LoadType
  <2>4. Load(w, p)' = OnWire(w, wire'[p]) + OnWire(w, FramesOf(cmdq[p]))
    BY DEF Load, Weight
  <2> QED
    BY <1>3, <1>5, <2>2, <2>3, <2>4 DEF Load, Weight
<1> QED
  BY <1>2, <1>4, <1>5

(* The command task takes the first command.                               *)
LEMMA LoadTaken ==
  ASSUME TypeOK, NEW e \in Ends, cmdq[e] # << >>, cmdq'[e] = Tail(cmdq[e]),
         wire'[e] = wire[e], NEW w \in Weights
  PROVE  /\ Load(w, e) = w[FrameOf(Head(cmdq[e]))] + Load(w, e)'
         /\ w[FrameOf(Head(cmdq[e]))] \in Nat /\ Load(w, e)' \in Nat
<1> DEFINE q == FramesOf(cmdq[e])
<1>1. /\ cmdq[e] \in Seq(Cmd) /\ w \in [Frame -> Nat]
      /\ OnWire(w, wire[e]) \in Nat
  BY LoadType DEF TypeOK
<1>2. /\ q \in Seq(Frame) /\ q # << >> /\ Head(q) = FrameOf(Head(cmdq[e]))
      /\ FramesOf(Tail(cmdq[e])) = Tail(q)
  BY <1>1, FramesOfShape
<1>3. Load(w, e)' = OnWire(w, wire[e]) + OnWire(w, Tail(q))
  BY <1>2 DEF Load, Weight
<1> HIDE DEF q
<1>4. OnWire(w, q) = w[Head(q)] + OnWire(w, Tail(q))
  BY <1>1, <1>2, OnWireTail
<1>5. w[Head(q)] \in Nat /\ OnWire(w, Tail(q)) \in Nat
  <2>1. Head(q) \in Frame /\ Tail(q) \in Seq(Frame)
    BY <1>2
  <2> QED
    BY <1>1, <2>1, OnWireType
<1> QED
  BY <1>1, <1>2, <1>3, <1>4, <1>5 DEF Load, Weight, q

(* Another command joins the channel.                                      *)
LEMMA LoadJoins ==
  ASSUME TypeOK, NEW e \in Ends, NEW c \in Cmd, c.cmd # "Recv",
         cmdq'[e] = Append(cmdq[e], c), wire'[e] = wire[e], NEW w \in Weights
  PROVE  Load(w, e)' = Load(w, e)
<1> DEFINE q == FramesOf(cmdq[e])
<1>1. cmdq[e] \in Seq(Cmd) /\ w \in [Frame -> Nat] /\ OnWire(w, q) \in Nat
  BY LoadType DEF TypeOK
<1>2. q \in Seq(Frame) /\ FramesOf(Append(cmdq[e], c)) = Append(q, FrameOf(c))
  BY <1>1, FramesOfShape
<1>3. FrameOf(c) \in Frame /\ w[FrameOf(c)] = 0
  BY FrameOfType
<1>4. Load(w, e)' = OnWire(w, wire[e]) + OnWire(w, Append(q, FrameOf(c)))
  BY <1>2 DEF Load, Weight
<1>5. OnWire(w, Append(q, FrameOf(c))) = OnWire(w, q)
  <2> HIDE DEF q
  <2>1. OnWire(w, Append(q, FrameOf(c))) = OnWire(w, q) + w[FrameOf(c)]
    BY <1>1, <1>2, <1>3, OnWireAppend
  <2> QED
    BY <1>1, <1>3, <2>1
<1> QED
  BY <1>4, <1>5 DEF Load, Weight

(* The receive task passes a frame on.                                     *)
LEMMA LoadMoves ==
  ASSUME TypeOK, NEW e \in Ends, wire[e] # << >>,
         cmdq'[e] = Append(cmdq[e], [cmd |-> "Recv", frame |-> Head(wire[e])]),
         wire'[e] = Tail(wire[e]), NEW w \in Weights
  PROVE  Load(w, e)' = Load(w, e)
<1> DEFINE q == FramesOf(cmdq[e])
           f == Head(wire[e])
           c == [cmd |-> "Recv", frame |-> f]
<1>1. /\ cmdq[e] \in Seq(Cmd) /\ wire[e] \in Seq(Frame) /\ w \in [Frame -> Nat]
      /\ OnWire(w, q) \in Nat /\ OnWire(w, wire[e]) \in Nat
  BY LoadType DEF TypeOK
<1>2. f \in Frame /\ c \in Cmd /\ FrameOf(c) = f /\ Tail(wire[e]) \in Seq(Frame)
  BY <1>1 DEF Cmd, FrameOf
<1>3. q \in Seq(Frame) /\ FramesOf(cmdq'[e]) = Append(q, f)
  <2>1. \A x \in Cmd : FramesOf(Append(cmdq[e], x)) = Append(q, FrameOf(x))
    BY <1>1, FramesOfShape
  <2>2. FramesOf(Append(cmdq[e], c)) = Append(q, FrameOf(c))
    BY <1>2, <2>1
  <2> QED
    BY <1>1, <1>2, <2>2, FramesOfShape
<1> HIDE DEF f, q
<1>4. OnWire(w, Append(q, f)) = OnWire(w, q) + w[f]
  BY <1>1, <1>2, <1>3, OnWireAppend
<1>5. OnWire(w, wire[e]) = w[f] + OnWire(w, Tail(wire[e]))
  BY <1>1, OnWireTail DEF f
<1>6. OnWire(w, Tail(wire[e])) \in Nat /\ w[f] \in Nat
  BY <1>1, <1>2, OnWireType
<1>7. Load(w, e)' = OnWire(w, Tail(wire[e])) + OnWire(w, Append(q, f))
  BY <1>3 DEF Load, Weight
<1>8. Load(w, e) = OnWire(w, wire[e]) + OnWire(w, q)
  BY DEF Load, Weight, q
<1> QED
  BY <1>1, <1>4, <1>5, <1>6, <1>7, <1>8

(* Some of what was on its way is lost.                                    *)
LEMMA LoadCut ==
  ASSUME TypeOK, NEW e \in Ends, cmdq'[e] = cmdq[e] \/ cmdq'[e] = << >>,
         \/ wire'[e] = wire[e]
         \/ \E k \in 0..Len(wire[e]) : wire'[e] = SubSeq(wire[e], 1, k),
         NEW w \in Weights
  PROVE  Load(w, e)' <= Load(w, e)
<1>1. /\ wire[e] \in Seq(Frame) /\ w \in [Frame -> Nat]
      /\ OnWire(w, wire[e]) \in Nat /\ OnWire(w, FramesOf(cmdq[e])) \in Nat
  BY LoadType DEF TypeOK
<1>2. OnWire(w, wire'[e]) \in Nat /\ OnWire(w, wire'[e]) <= OnWire(w, wire[e])
  <2>1. CASE wire'[e] = wire[e]
    BY <1>1, <2>1
  <2>2. ASSUME NEW k \in 0..Len(wire[e]), wire'[e] = SubSeq(wire[e], 1, k)
        PROVE  /\ OnWire(w, wire'[e]) \in Nat
               /\ OnWire(w, wire'[e]) <= OnWire(w, wire[e])
    <3>1. SubSeq(wire[e], 1, k) \in Seq(Frame)
      BY <1>1
    <3> QED
      BY <1>1, <2>2, <3>1, OnWireType, OnWireCut
  <2> QED
    BY <2>1, <2>2
<1>3. /\ OnWire(w, FramesOf(cmdq'[e])) \in Nat
      /\ OnWire(w, FramesOf(cmdq'[e])) <= OnWire(w, FramesOf(cmdq[e]))
  <2>1. CASE cmdq'[e] = cmdq[e]
    BY <1>1, <2>1
  <2>2. CASE cmdq'[e] = << >>
    <3>1. OnWire(w, FramesOf(cmdq'[e])) = 0
      BY <2>2, FramesOfEmpty, OnWireEmpty
    <3> QED
      BY <1>1, <3>1
  <2> QED
    BY <2>1, <2>2
<1>4. Load(w, e)' = OnWire(w, wire'[e]) + OnWire(w, FramesOf(cmdq'[e]))
  BY DEF Load, Weight
<1> QED
  BY <1>1, <1>2, <1>3, <1>4 DEF Load, Weight

LEMMA WeightType ==
  ASSUME NEW r \in Seq(Frame), NEW q \in Seq(Cmd), NEW w \in Weights
  PROVE  Weight(w, r, q) \in Nat
<1>1. FramesOf(q) \in Seq(Frame) /\ w \in [Frame -> Nat]
  BY FramesOfShape DEF Weights
<1>2. OnWire(w, r) \in Nat /\ OnWire(w, FramesOf(q)) \in Nat
  BY <1>1, OnWireType
<1> QED
  BY <1>2 DEF Weight

(* The numbers that GrantOK relates are natural, before and after a step.  *)
LEMMA LedgerTypes ==
  ASSUME TypeOK, TypeOK', NEW a \in Ends
  PROVE  /\ \A w \in Weights : /\ Weight(w, wire[a], cmdq[a]) \in Nat
                               /\ Weight(w, wire'[a], cmdq'[a]) \in Nat
         /\ Len(dec[a].incoming) \in Nat /\ Len(dec'[a].incoming) \in Nat
         /\ dec[a].held \in Nat /\ dec'[a].held \in Nat
         /\ cur[a] \in Nat /\ cur'[a] \in Nat
         /\ Len(msg[a]) \in Nat /\ Len(msg'[a]) \in Nat
         /\ dec[a].want_remote_grant \in BOOLEAN
         /\ dec'[a].want_remote_grant \in BOOLEAN
<1>1. /\ wire[a] \in Seq(Frame) /\ cmdq[a] \in Seq(Cmd) /\ dec[a] \in Decoder
      /\ cur[a] \in Nat /\ msg[a] \in Seq(Byte)
  BY DEF TypeOK
<1>2. /\ wire'[a] \in Seq(Frame) /\ cmdq'[a] \in Seq(Cmd) /\ dec'[a] \in Decoder
      /\ cur'[a] \in Nat /\ msg'[a] \in Seq(Byte)
  BY DEF TypeOK
<1>3. \A w \in Weights : /\ Weight(w, wire[a], cmdq[a]) \in Nat
                         /\ Weight(w, wire'[a], cmdq'[a]) \in Nat
  BY <1>1, <1>2, WeightType
<1>4. \A d \in Decoder : /\ Len(d.incoming) \in Nat /\ d.held \in Nat
                          /\ d.want_remote_grant \in BOOLEAN
  BY DEF Decoder
<1>5. Len(msg[a]) \in Nat /\ Len(msg'[a]) \in Nat
  BY <1>1, <1>2
<1> QED
  BY <1>1, <1>2, <1>3, <1>4, <1>5

LEMMA CoveredKept ==
  ASSUME TypeOK, TypeOK', NEW b \in Ends, Load(Bytes, b)' <= Load(Bytes, b),
         dec'[b].incoming = dec[b].incoming, dec'[b].held = dec[b].held
  PROVE  \A n \in Nat : Covered(b, n) => Covered(b, n)'
<1> SUFFICES ASSUME NEW n \in Nat, Covered(b, n)
             PROVE  Covered(b, n)'
  OBVIOUS
<1> DEFINE w == Weight(Bytes, wire[b], cmdq[b])
           v == Weight(Bytes, wire'[b], cmdq'[b])
<1>1. w \in Nat /\ v \in Nat
  BY WeightTypes, LedgerTypes
<1>2. v <= w /\ w + Len(dec[b].incoming) + n <= dec[b].held
  BY DEF Covered, Load
<1>3. Len(dec[b].incoming) \in Nat /\ dec[b].held \in Nat
  BY LedgerTypes
<1> HIDE DEF w, v
<1>4. v + Len(dec'[b].incoming) + n <= dec'[b].held
  BY <1>1, <1>2, <1>3
<1> QED
  BY <1>4 DEF Covered, Load, v

(* For the messages from end a to end b, a step moves nothing on but chunks *)
(* into the buffer.                                                        *)
LEMMA GrantCovers ==
  ASSUME TypeOK, TypeOK', NEW a \in Ends, NEW b \in Ends, GrantOK(a, b),
         Load(Grants, a)' <= Load(Grants, a),
         Load(Requests, b)' <= Load(Requests, b),
         \A n : Load(Others(n), b)' <= Load(Others(n), b),
         Alive(a)' => /\ Alive(a)
                      /\ dec'[a].want_remote_grant = dec[a].want_remote_grant,
         Alive(b)' => /\ Alive(b)
                      /\ \A n \in Nat : Covered(b, n) => Covered(b, n)',
         dec'[b].state = "RemoteAwaitingPermit" =>
           /\ dec[b].state = "RemoteAwaitingPermit"
           /\ dec'[b].awaiting = dec[b].awaiting,
         task'[b] = "grant" => task[b] = "grant",
         task'[a] = "grant" => hold'[a].kind = "PermitGrant",
         \/ pc'[a] = pc[a] /\ msg'[a] = msg[a] /\ cur'[a] = cur[a]
         \/ pc'[a] \notin {"registered", "requested", "chunks"}
  PROVE  GrantOK(a, b)'
<1> DEFINE W(w, e)  == Weight(w, wire[e], cmdq[e])
           WW(w, e) == Weight(w, wire'[e], cmdq'[e])
           n == Len(msg[a])
<1>1. /\ W(Grants, a) \in Nat /\ WW(Grants, a) \in Nat
      /\ W(Bytes, b) \in Nat /\ WW(Bytes, b) \in Nat
      /\ W(Requests, b) \in Nat /\ WW(Requests, b) \in Nat
      /\ W(Others(n), b) \in Nat /\ WW(Others(n), b) \in Nat
  BY WeightTypes, LedgerTypes
<1>2. /\ WW(Grants, a) <= W(Grants, a)
      /\ WW(Requests, b) <= W(Requests, b)
      /\ WW(Others(n), b) <= W(Others(n), b)
  BY DEF Load
<1>3. /\ Len(dec[b].incoming) \in Nat /\ Len(dec'[b].incoming) \in Nat
      /\ dec[b].held \in Nat /\ dec'[b].held \in Nat
      /\ cur[a] \in Nat /\ Len(msg[a]) \in Nat
  BY LedgerTypes
<1> HIDE DEF W, WW
<1>4. Rest(a) \in Nat /\ Rest(a)' \in Nat /\ Rest(a)' <= Rest(a)
  BY <1>3 DEF Rest
<1>5. Alive(b)' => Covered(b, Rest(a))'
  <2> SUFFICES ASSUME Alive(b)'
               PROVE  Covered(b, Rest(a))'
    OBVIOUS
  <2>1. W(Bytes, b) + Len(dec[b].incoming) + Rest(a) <= dec[b].held
    BY DEF GrantOK, Covered, Load, W
  <2>2. W(Bytes, b) + Len(dec[b].incoming) + Rest(a)' <= dec[b].held
    <3>1. \A x, y, r, s, z \in Nat : s <= r /\ x + y + r <= z => x + y + s <= z
      BY ONLY SMT
    <3> QED
      BY ONLY <1>1, <1>3, <1>4, <2>1, <3>1
  <2>3. Covered(b, Rest(a)')
    BY <2>2 DEF Covered, Load, W
  <2>4. \A k \in Nat : Covered(b, k) => Covered(b, k)'
    OBVIOUS
  <2>5. \A k \in Nat : Covered(b, k) =>
          WW(Bytes, b) + Len(dec'[b].incoming) + k <= dec'[b].held
    BY <2>4 DEF Covered, Load, WW
  <2>6. WW(Bytes, b) + Len(dec'[b].incoming) + Rest(a)' <= dec'[b].held
    BY <1>4, <2>3, <2>5
  <2> QED
    BY <2>6 DEF Covered, Load, WW
<1>6. Alive(a)' =>
        Due(a, b)' <= One(dec'[a].want_remote_grant /\ pc'[a] # "registered")
  <2> SUFFICES ASSUME Alive(a)'
               PROVE  Due(a, b)'
                        <= One(dec'[a].want_remote_grant /\ pc'[a] # "registered")
    OBVIOUS
  <2>1. W(Requests, b) + One(dec[b].state = "RemoteAwaitingPermit")
          + One(task[b] = "grant") + W(Grants, a)
          <= One(dec[a].want_remote_grant /\ pc[a] # "registered")
    BY DEF GrantOK, Due, Load, W
  <2>2. WW(Requests, b) + One(dec'[b].state = "RemoteAwaitingPermit")
          + One(task'[b] = "grant") + WW(Grants, a)
          <= One(dec'[a].want_remote_grant /\ pc'[a] # "registered")
    <3>1. /\ One(dec'[b].state = "RemoteAwaitingPermit")
               <= One(dec[b].state = "RemoteAwaitingPermit")
          /\ One(task'[b] = "grant") <= One(task[b] = "grant")
          /\ One(dec[a].want_remote_grant /\ pc[a] # "registered")
               <= One(dec'[a].want_remote_grant /\ pc'[a] # "registered")
      BY DEF One
    <3>2. \A x : One(x) \in Nat
      BY DEF One
    <3> DEFINE x == One(dec[b].state = "RemoteAwaitingPermit")
               y == One(task[b] = "grant")
               z == One(dec[a].want_remote_grant /\ pc[a] # "registered")
               u == One(dec'[b].state = "RemoteAwaitingPermit")
               v == One(task'[b] = "grant")
               t == One(dec'[a].want_remote_grant /\ pc'[a] # "registered")
               q == W(Requests, b)
               r == W(Grants, a)
               qq == WW(Requests, b)
               rr == WW(Grants, a)
    <3>3. /\ x \in Nat /\ y \in Nat /\ z \in Nat /\ u \in Nat /\ v \in Nat /\ t \in Nat
          /\ u <= x /\ v <= y /\ z <= t
          /\ q + x + y + r <= z
      BY <2>1, <3>1, <3>2
    <3>4. /\ q \in Nat /\ r \in Nat /\ qq \in Nat /\ rr \in Nat
          /\ qq <= q /\ rr <= r
      BY <1>1, <1>2
    <3> HIDE DEF x, y, z, u, v, t, q, r, qq, rr
    <3>5. qq + u + v + rr <= t
      BY ONLY <3>3, <3>4
    <3> QED
      BY <3>5 DEF u, v, t, qq, rr
  <2> QED
    BY <2>2 DEF Due, Load, WW
<1>7. Alive(a)' /\ pc'[a] = "registered" => dec'[a].want_remote_grant
  BY DEF GrantOK
<1>8. Alive(a)' /\ Alive(b)' /\ pc'[a] = "requested" => Answered(a, b)'
  <2> SUFFICES ASSUME Alive(a)', Alive(b)', pc'[a] = "requested"
               PROVE  Answered(a, b)'
    OBVIOUS
  <2>1. pc[a] = "requested" /\ msg'[a] = msg[a] /\ Answered(a, b)
    BY DEF GrantOK
  <2>2. task'[b] = "grant" \/ WW(Grants, a) > 0 =>
          WW(Bytes, b) + Len(dec'[b].incoming) + n <= dec'[b].held
    <3>1. task[b] = "grant" \/ W(Grants, a) > 0 => Covered(b, n)
      BY <2>1 DEF Answered, Load, W
    <3>2. \A k \in Nat : Covered(b, k) => Covered(b, k)'
      OBVIOUS
    <3>3. \A k \in Nat : Covered(b, k) =>
            WW(Bytes, b) + Len(dec'[b].incoming) + k <= dec'[b].held
      BY <3>2 DEF Covered, Load, WW
    <3>4. task'[b] = "grant" \/ WW(Grants, a) > 0 => Covered(b, n)
      BY <1>1, <1>2, <3>1
    <3> QED
      BY <1>3, <3>3, <3>4
  <2>3. WW(Others(n), b) = 0
    <3>1. W(Others(n), b) = 0
      BY <2>1 DEF Answered, Load, W
    <3> QED
      BY <1>1, <1>2, <3>1
  <2>4. dec'[b].state = "RemoteAwaitingPermit" => dec'[b].awaiting = n
    BY <2>1 DEF Answered
  <2> QED
    BY <2>1, <2>2, <2>3, <2>4 DEF Answered, Covered, Load, WW
<1> QED
  BY <1>5, <1>6, <1>7, <1>8 DEF GrantOK

(* A step that, for the messages from end a to end b, moves nothing on.    *)
LEMMA GrantKept ==
  ASSUME TypeOK, TypeOK', NEW a \in Ends, NEW b \in Ends, GrantOK(a, b),
         Load(Grants, a)' <= Load(Grants, a),
         Load(Bytes, b)' <= Load(Bytes, b),
         Load(Requests, b)' <= Load(Requests, b),
         \A n : Load(Others(n), b)' <= Load(Others(n), b),
         Alive(a)' => /\ Alive(a)
                      /\ dec'[a].want_remote_grant = dec[a].want_remote_grant,
         Alive(b)' => /\ Alive(b)
                      /\ dec'[b].incoming = dec[b].incoming
                      /\ dec'[b].held = dec[b].held,
         dec'[b].state = "RemoteAwaitingPermit" =>
           /\ dec[b].state = "RemoteAwaitingPermit"
           /\ dec'[b].awaiting = dec[b].awaiting,
         task'[b] = "grant" => task[b] = "grant",
         task'[a] = "grant" => hold'[a].kind = "PermitGrant",
         \/ pc'[a] = pc[a] /\ msg'[a] = msg[a] /\ cur'[a] = cur[a]
         \/ pc'[a] \notin {"registered", "requested", "chunks"}
  PROVE  GrantOK(a, b)'
<1>1. Alive(b)' => \A n \in Nat : Covered(b, n) => Covered(b, n)'
  BY CoveredKept
<1> QED
  BY <1>1, GrantCovers

LEMMA GrantAtTheTwoEnds ==
  ASSUME TypeOK, TypeOK', GrantInv, NEW e \in Ends, Steps(e),
         GrantOK(e, Peer[e])', GrantOK(Peer[e], e)'
  PROVE  GrantInv'
<1>1. ASSUME NEW o \in Ends
      PROVE  GrantOK(o, Peer[o])'
  <2> DEFINE p == Peer[o]
  <2>1. p \in Ends /\ Peer[p] = o
    BY PeerFacts
  <2>2. CASE o = e
    BY <2>2
  <2>3. CASE o = Peer[e]
    <3>1. p = e
      BY <2>3, PeerFacts
    <3> QED
      BY <2>3, <3>1
  <2>4. CASE o # e /\ o # Peer[e]
    <3>1. p # e /\ p # Peer[e]
      BY <2>1, <2>4, PeerFacts
    <3>2. Same(o) /\ wire'[o] = wire[o] /\ Same(p) /\ wire'[p] = wire[p]
      BY <2>1, <2>4, <3>1, OthersSame, OtherWires
    <3>3. \A w : Load(w, o)' = Load(w, o) /\ Load(w, p)' = Load(w, p)
      BY <2>1, <3>2, LoadSame DEF Same
    <3>4. /\ Load(Grants, o)' <= Load(Grants, o)
          /\ Load(Bytes, p)' <= Load(Bytes, p)
          /\ Load(Requests, p)' <= Load(Requests, p)
          /\ \A n : Load(Others(n), p)' <= Load(Others(n), p)
      <4>1. \A w \in Weights : Load(w, o) \in Nat /\ Load(w, p) \in Nat
        BY <2>1, LoadType
      <4> QED
        BY <3>3, <4>1, WeightTypes
    <3>5. GrantOK(o, p)
      BY DEF GrantInv
    <3>6. /\ task'[o] = "grant" => hold'[o].kind = "PermitGrant"
          /\ Alive(o)' => Alive(o)
          /\ Alive(p)' => Alive(p)
          /\ task'[p] = "grant" => task[p] = "grant"
      BY <3>2, <3>5 DEF Same, GrantOK, Alive
    <3>7. /\ dec'[o] = dec[o] /\ dec'[p] = dec[p]
          /\ pc'[o] = pc[o] /\ msg'[o] = msg[o] /\ cur'[o] = cur[o]
      BY <3>2 DEF Same
    <3> QED
      BY <2>1, <3>4, <3>5, <3>6, <3>7, GrantKept
  <2> QED
    BY <2>2, <2>3, <2>4
<1> QED
  BY <1>1 DEF GrantInv

(* The messages that the acting end e sends, and those that it receives.   *)
LEMMA SenderKept ==
  ASSUME TypeOK, TypeOK', GrantInv, NEW e \in Ends, Steps(e),
         Load(Grants, e)' <= Load(Grants, e),
         Load(Bytes, Peer[e])' <= Load(Bytes, Peer[e]),
         Load(Requests, Peer[e])' <= Load(Requests, Peer[e]),
         \A n : Load(Others(n), Peer[e])' <= Load(Others(n), Peer[e]),
         Alive(e)' => /\ Alive(e)
                      /\ dec'[e].want_remote_grant = dec[e].want_remote_grant,
         task'[e] = "grant" => hold'[e].kind = "PermitGrant",
         \/ pc'[e] = pc[e] /\ msg'[e] = msg[e] /\ cur'[e] = cur[e]
         \/ pc'[e] \notin {"registered", "requested", "chunks"}
  PROVE  GrantOK(e, Peer[e])'
<1> DEFINE p == Peer[e]
<1>1. p \in Ends /\ p # e
  BY PeerFacts
<1>2. Same(p)
  BY <1>1, OthersSame
<1>3. dec'[p] = dec[p] /\ task'[p] = task[p] /\ (Alive(p)' => Alive(p))
  BY <1>2 DEF Same, Alive
<1>4. GrantOK(e, p)
  BY DEF GrantInv
<1> QED
  BY <1>1, <1>3, <1>4, GrantKept

LEMMA ReceiverKept ==
  ASSUME TypeOK, TypeOK', GrantInv, NEW e \in Ends, Steps(e),
         Load(Grants, Peer[e])' <= Load(Grants, Peer[e]),
         Load(Bytes, e)' <= Load(Bytes, e),
         Load(Requests, e)' <= Load(Requests, e),
         \A n : Load(Others(n), e)' <= Load(Others(n), e),
         Alive(e)' => /\ Alive(e)
                      /\ dec'[e].incoming = dec[e].incoming
                      /\ dec'[e].held = dec[e].held,
         dec'[e].state = "RemoteAwaitingPermit" =>
           /\ dec[e].state = "RemoteAwaitingPermit"
           /\ dec'[e].awaiting = dec[e].awaiting,
         task'[e] = "grant" => task[e] = "grant"
  PROVE  GrantOK(Peer[e], e)'
<1> DEFINE p == Peer[e]
<1>1. p \in Ends /\ p # e /\ Peer[p] = e
  BY PeerFacts
<1>2. Same(p)
  BY <1>1, OthersSame
<1>3. GrantOK(p, e)
  BY <1>1 DEF GrantInv
<1>4. /\ dec'[p] = dec[p] /\ (Alive(p)' => Alive(p))
      /\ pc'[p] = pc[p] /\ msg'[p] = msg[p] /\ cur'[p] = cur[p]
      /\ task'[p] = "grant" => hold'[p].kind = "PermitGrant"
  BY <1>2, <1>3 DEF Same, Alive, GrantOK
<1> QED
  BY <1>1, <1>3, <1>4, GrantKept

(* A step that moves nothing on, in either direction.                      *)
LEMMA GrantQuiet ==
  ASSUME TypeOK, TypeOK', GrantInv, NEW e \in Ends, Steps(e),
         \A w \in Weights : /\ Load(w, e)' <= Load(w, e)
                            /\ Load(w, Peer[e])' <= Load(w, Peer[e]),
         Alive(e)' =>
           /\ Alive(e)
           /\ dec'[e].want_remote_grant = dec[e].want_remote_grant
           /\ dec'[e].incoming = dec[e].incoming /\ dec'[e].held = dec[e].held,
         dec'[e].state = "RemoteAwaitingPermit" =>
           /\ dec[e].state = "RemoteAwaitingPermit"
           /\ dec'[e].awaiting = dec[e].awaiting,
         task'[e] = "grant" => task[e] = "grant" /\ hold'[e] = hold[e],
         \/ pc'[e] = pc[e] /\ msg'[e] = msg[e] /\ cur'[e] = cur[e]
         \/ pc'[e] \notin {"registered", "requested", "chunks"}
  PROVE  GrantInv'
<1>1. /\ Load(Grants, e)' <= Load(Grants, e)
      /\ Load(Bytes, e)' <= Load(Bytes, e)
      /\ Load(Requests, e)' <= Load(Requests, e)
      /\ \A n : Load(Others(n), e)' <= Load(Others(n), e)
  BY WeightTypes
<1>2. /\ Load(Grants, Peer[e])' <= Load(Grants, Peer[e])
      /\ Load(Bytes, Peer[e])' <= Load(Bytes, Peer[e])
      /\ Load(Requests, Peer[e])' <= Load(Requests, Peer[e])
      /\ \A n : Load(Others(n), Peer[e])' <= Load(Others(n), Peer[e])
  BY WeightTypes
<1>3. task'[e] = "grant" => hold'[e].kind = "PermitGrant"
  BY DEF GrantInv, GrantOK
<1>4. GrantOK(e, Peer[e])'
  BY <1>1, <1>2, <1>3, SenderKept
<1>5. GrantOK(Peer[e], e)'
  BY <1>1, <1>2, ReceiverKept
<1> QED
  BY <1>4, <1>5, GrantAtTheTwoEnds

(* Of what is on its way to the two ends of a step, nothing is added.      *)
LEMMA LoadsLocal ==
  ASSUME TypeOK, NEW e \in Ends, Steps(e),
         cmdq'[e] = cmdq[e] \/ cmdq'[e] = << >>,
         wire' = wire \/ \E k \in 0..Len(wire[e]) : Cut(e, k),
         NEW w \in Weights
  PROVE  Load(w, e)' <= Load(w, e) /\ Load(w, Peer[e])' <= Load(w, Peer[e])
<1> DEFINE p == Peer[e]
<1>1. p \in Ends /\ p # e /\ wire \in [Ends -> Seq(Frame)]
  BY PeerFacts DEF TypeOK
<1>2. cmdq'[p] = cmdq[p]
  BY <1>1, OthersSame DEF Same
<1>3. /\ \/ wire'[e] = wire[e]
         \/ \E k \in 0..Len(wire[e]) : wire'[e] = SubSeq(wire[e], 1, k)
      /\ \/ wire'[p] = wire[p]
         \/ \E k \in 0..Len(wire[p]) : wire'[p] = SubSeq(wire[p], 1, k)
  <2>1. CASE wire' = wire
    BY <2>1
  <2>2. ASSUME NEW k \in 0..Len(wire[e]), Cut(e, k)
        PROVE  /\ wire'[e] = SubSeq(wire[e], 1, k)
               /\ \E j \in 0..Len(wire[p]) : wire'[p] = SubSeq(wire[p], 1, j)
    BY <1>1, <2>2 DEF Cut
  <2> QED
    BY <2>1, <2>2
<1>4. Load(w, e)' <= Load(w, e)
  BY <1>3, LoadCut
<1>5. Load(w, p)' <= Load(w, p)
  BY <1>1, <1>2, <1>3, LoadCut
<1> QED
  BY <1>4, <1>5

LEMMA LoadsPeer ==
  ASSUME TypeOK, NEW e \in Ends, Steps(e), wire'[Peer[e]] = wire[Peer[e]],
         NEW w \in Weights
  PROVE  Load(w, Peer[e])' <= Load(w, Peer[e])
<1>1. Peer[e] \in Ends /\ Peer[e] # e
  BY PeerFacts
<1>2. cmdq'[Peer[e]] = cmdq[Peer[e]]
  BY <1>1, OthersSame DEF Same
<1> QED
  BY <1>1, <1>2, LoadCut

LEMMA GrantSender ==
  ASSUME TypeOK, TypeOK', PermitInv, GrantInv, NEW e \in Ends, Steps(e),
         \/ New(e) \/ NewFail(e) \/ SendStart(e) \/ SendOne(e)
         \/ SendAwaitPermit(e) \/ SendFail(e) \/ SendCancel(e)
  PROVE  GrantInv'
<1> USE DEF senderVars, cmdVars, permitVars, appVars
<1> DEFINE p == Peer[e]
<1>1. p \in Ends /\ p # e /\ wire \in [Ends -> Seq(Frame)]
      /\ cmdq \in [Ends -> Seq(Cmd)] /\ pc \in [Ends -> SenderAt]
      /\ task \in [Ends -> TaskAt]
  BY PeerFacts DEF TypeOK
<1>2. dec' = dec /\ hold' = hold
  BY DEF New, NewFail, SendStart, SendOne, SendAwaitPermit, SendFail,
         SendCancel, GiveUp
<1>3. pc'[e] \notin {"registered", "requested", "chunks"}
  BY <1>1 DEF New, NewFail, SendStart, SendOne, SendAwaitPermit, SendFail,
              SendCancel, GiveUp
<1>4. /\ Alive(e)' => Alive(e)
      /\ task'[e] = "grant" => task[e] = "grant"
  <2>1. CASE New(e) \/ NewFail(e)
    <3>1. task[e] = "new" /\ (task'[e] = "run" \/ task'[e] = "closed")
      BY <1>1, <2>1 DEF New, NewFail, PermitInv, EndOK
    <3> QED
      BY <3>1 DEF Alive
  <2>2. CASE ~ (New(e) \/ NewFail(e))
    <3>1. task' = task
      BY <2>2 DEF SendStart, SendOne, SendAwaitPermit, SendFail, SendCancel,
                  GiveUp
    <3> QED
      BY <3>1 DEF Alive
  <2> QED
    BY <2>1, <2>2
<1>5. ASSUME NEW w \in Weights
      PROVE  Load(w, e)' <= Load(w, e) /\ Load(w, p)' <= Load(w, p)
  <2>0. Load(w, e) \in Nat /\ Load(w, p) \in Nat
    BY <1>1, LoadType
  <2>1. CASE NewFail(e) \/ SendStart(e) \/ SendFail(e) \/ SendCancel(e)
    <3>1. wire' = wire /\ cmdq' = cmdq
      BY <2>1 DEF NewFail, SendStart, SendFail, SendCancel, GiveUp
    <3> QED
      BY <3>1, LoadsLocal
  <2>2. CASE SendAwaitPermit(e)
    <3> DEFINE c == [cmd |-> "AwaitPermit", id |-> Len(sent[e])]
    <3>1. wire' = wire /\ cmdq'[e] = Append(cmdq[e], c)
      BY <1>1, <2>2 DEF SendAwaitPermit
    <3>2. c \in Cmd /\ c.cmd # "Recv"
      BY DEF Cmd, TypeOK
    <3> HIDE DEF c
    <3>3. Load(w, e)' = Load(w, e)
      BY <3>1, <3>2, LoadJoins
    <3> QED
      BY <2>0, <3>1, <3>3, LoadsPeer
  <2>3. ASSUME NEW f \in Frame, Push(e, f), cmdq' = cmdq,
               f.kind \in {"Version", "CompleteMessage"}
        PROVE  Load(w, e)' <= Load(w, e) /\ Load(w, p)' <= Load(w, p)
    <3>1. w[f] = 0
      BY <2>3 DEF Weights
    <3>2. /\ Load(w, e)' = Load(w, e)
          /\ Load(w, p)' = Load(w, p) \/ Load(w, p)' = Load(w, p) + w[f]
      BY <2>3, LoadPush
    <3> QED
      BY <2>0, <3>1, <3>2
  <2>4. CASE New(e)
    <3>1. Push(e, VersionFrame) /\ cmdq' = cmdq
      BY <2>4 DEF New
    <3>2. VersionFrame \in Frame /\ VersionFrame.kind = "Version"
      BY DEF VersionFrame, Frame, Kinds
    <3> QED
      BY <2>3, <3>1, <3>2
  <2>5. CASE SendOne(e)
    <3>1. Push(e, CompleteFrame(msg[e])) /\ cmdq' = cmdq
      BY <2>5 DEF SendOne
    <3>2. /\ CompleteFrame(msg[e]) \in Frame
          /\ CompleteFrame(msg[e]).kind = "CompleteMessage"
      BY FrameTypes DEF CompleteFrame, TypeOK
    <3> QED
      BY <2>3, <3>1, <3>2
  <2> QED
    BY <2>1, <2>2, <2>4, <2>5
<1> QED
  BY <1>2, <1>3, <1>4, <1>5, GrantQuiet

LEMMA GrantReceiver ==
  ASSUME TypeOK, TypeOK', GrantInv, NEW e \in Ends, Steps(e),
         \/ Receiver(e) \/ ConnClose(e) \/ OwnerRecv(e) \/ Waiter(e)
         \/ CmdDeliver(e)
  PROVE  GrantInv'
<1> USE DEF senderVars, cmdVars, permitVars, appVars
<1> DEFINE p == Peer[e]
<1>1. p \in Ends /\ p # e /\ wire \in [Ends -> Seq(Frame)]
      /\ cmdq \in [Ends -> Seq(Cmd)] /\ task \in [Ends -> TaskAt]
  BY PeerFacts DEF TypeOK
<1>2. dec' = dec /\ pc' = pc /\ msg' = msg /\ cur' = cur
  BY DEF Receiver, RecvTask, RecvTaskClose, RecvTaskStop, ConnClose, OwnerRecv,
         Waiter, WaiterPoll, WaiterAcquire, WaiterSend, WaiterGone, CmdDeliver
<1>3. /\ Alive(e)' => Alive(e)
      /\ task'[e] = "grant" => task[e] = "grant" /\ hold'[e] = hold[e]
  <2>1. CASE CmdDeliver(e)
    BY <1>1, <2>1 DEF CmdDeliver, Alive
  <2>2. CASE ~ CmdDeliver(e)
    <3>1. task' = task /\ hold' = hold
      BY <2>2 DEF Receiver, RecvTask, RecvTaskClose, RecvTaskStop, ConnClose,
         OwnerRecv, Waiter, WaiterPoll, WaiterAcquire, WaiterSend, WaiterGone
    <3> QED
      BY <3>1 DEF Alive
  <2> QED
    BY <2>1, <2>2
<1>4. ASSUME NEW w \in Weights
      PROVE  Load(w, e)' <= Load(w, e) /\ Load(w, p)' <= Load(w, p)
  <2>0. Load(w, e) \in Nat /\ Load(w, p) \in Nat
    BY <1>1, LoadType
  <2>1. CASE \/ OwnerRecv(e) \/ WaiterPoll(e) \/ WaiterAcquire(e)
             \/ WaiterGone(e) \/ CmdDeliver(e)
    <3>1. wire' = wire /\ cmdq' = cmdq
      BY <2>1 DEF OwnerRecv, WaiterPoll, WaiterAcquire, WaiterGone, CmdDeliver
    <3> QED
      BY <3>1, LoadsLocal
  <2>2. CASE RecvTaskStop(e) \/ ConnClose(e)
    <3>1. cmdq' = cmdq /\ \E k \in 0..Len(wire[e]) : Cut(e, k)
      <4>1. wire[e] \in Seq(Frame) /\ 0 \in 0..Len(wire[e])
        BY <1>1
      <4> QED
        BY <2>2, <4>1 DEF RecvTaskStop, ConnClose
    <3> QED
      BY <3>1, LoadsLocal
  <2>3. ASSUME NEW c \in Cmd, c.cmd # "Recv", wire' = wire,
               cmdq'[e] = Append(cmdq[e], c)
        PROVE  Load(w, e)' <= Load(w, e) /\ Load(w, p)' <= Load(w, p)
    <3>1. Load(w, e)' = Load(w, e)
      BY <2>3, LoadJoins
    <3> QED
      BY <2>0, <2>3, <3>1, LoadsPeer
  <2>4. CASE RecvTaskClose(e)
    <3>1. wire' = wire /\ cmdq'[e] = Append(cmdq[e], [cmd |-> "Close"])
      BY <1>1, <2>4 DEF RecvTaskClose
    <3>2. [cmd |-> "Close"] \in Cmd
      BY DEF Cmd
    <3> QED
      BY <2>3, <3>1, <3>2
  <2>5. CASE WaiterSend(e)
    <3> DEFINE c == [cmd |-> "RemotePermit", len |-> waiter[e].len]
    <3>1. wire' = wire /\ cmdq'[e] = Append(cmdq[e], c)
      BY <1>1, <2>5 DEF WaiterSend
    <3>2. c \in Cmd /\ c.cmd # "Recv"
      BY DEF Cmd, TypeOK
    <3> HIDE DEF c
    <3> QED
      BY <2>3, <3>1, <3>2
  <2>6. CASE RecvTask(e)
    <3>1. /\ wire[e] # << >> /\ wire'[e] = Tail(wire[e]) /\ wire'[p] = wire[p]
          /\ cmdq'[e] =
               Append(cmdq[e], [cmd |-> "Recv", frame |-> Head(wire[e])])
      BY <1>1, <2>6 DEF RecvTask
    <3>2. Load(w, e)' = Load(w, e)
      BY <3>1, LoadMoves
    <3> QED
      BY <2>0, <3>1, <3>2, LoadsPeer
  <2> QED
    BY <2>1, <2>2, <2>4, <2>5, <2>6 DEF Receiver, Waiter
<1> QED
  BY <1>2, <1>3, <1>4, GrantQuiet

LEMMA GrantStops ==
  ASSUME TypeOK, TypeOK', GrantInv, NEW e \in Ends, Steps(e),
         \/ CmdRecvError(e) \/ CmdAwaitPermitError(e) \/ CmdClose(e) \/ Drop(e)
  PROVE  GrantInv'
<1> USE DEF senderVars, cmdVars, permitVars, appVars
<1>1. /\ cmdq \in [Ends -> Seq(Cmd)] /\ task \in [Ends -> TaskAt]
      /\ dec \in [Ends -> Decoder] /\ wire[e] \in Seq(Frame)
  BY DEF TypeOK
<1>2. pc' = pc /\ msg' = msg /\ cur' = cur
  BY DEF CmdRecvError, CmdAwaitPermitError, CmdClose, Drop
<1>3. /\ cmdq'[e] = << >> /\ dec'[e] = NewDecoder
      /\ task'[e] \in {"failed", "closed", "dropped"}
  BY <1>1 DEF CmdRecvError, CmdAwaitPermitError, CmdClose, Drop, Stop
<1>4. wire' = wire \/ \E k \in 0..Len(wire[e]) : Cut(e, k)
  <2>1. 0 \in 0..Len(wire[e])
    BY <1>1
  <2> QED
    BY <2>1 DEF CmdRecvError, CmdAwaitPermitError, CmdClose, Drop
<1>5. \A w \in Weights : /\ Load(w, e)' <= Load(w, e)
                         /\ Load(w, Peer[e])' <= Load(w, Peer[e])
  BY <1>3, <1>4, LoadsLocal
<1>6. ~ Alive(e)' /\ task'[e] # "grant"
      /\ dec'[e].state # "RemoteAwaitingPermit"
  BY <1>3 DEF Alive, NewDecoder
<1> QED
  BY <1>2, <1>5, <1>6, GrantQuiet

(* Frames of one kind in the weights of another.                           *)
LEMMA FrameWeights ==
  ASSUME NEW f \in Frame, NEW n
  PROVE  /\ Grants[f] = IF f.kind = "PermitGrant" THEN 1 ELSE 0
         /\ Requests[f] = IF f.kind = "PermitRequest" THEN 1 ELSE 0
         /\ Bytes[f] = IF f.kind = "MultipartMessage" THEN f.len ELSE 0
         /\ Others(n)[f] =
              IF f.kind = "PermitRequest" /\ f.len # n THEN 1 ELSE 0
BY DEF Grants, Requests, Bytes, Others, ChunkBytes

(* The own side of GrantOK, in numbers.                                    *)
LEMMA OthersLess ==
  ASSUME TypeOK, NEW p \in Ends, NEW n
  PROVE  Load(Others(n), p) <= Load(Requests, p)
<1>1. /\ wire[p] \in Seq(Frame) /\ FramesOf(cmdq[p]) \in Seq(Frame)
      /\ Others(n) \in Weights /\ Requests \in Weights
      /\ Others(n) \in [Frame -> Nat] /\ Requests \in [Frame -> Nat]
      /\ \A f \in Frame : Others(n)[f] <= Requests[f]
  BY FramesOfShape, WeightTypes DEF TypeOK, Weights
<1>2. /\ OnWire(Others(n), wire[p]) <= OnWire(Requests, wire[p])
      /\ OnWire(Others(n), FramesOf(cmdq[p])) <= OnWire(Requests, FramesOf(cmdq[p]))
  BY <1>1, OnWireLess
<1>3. /\ OnWire(Others(n), wire[p]) \in Nat /\ OnWire(Requests, wire[p]) \in Nat
      /\ OnWire(Others(n), FramesOf(cmdq[p])) \in Nat
      /\ OnWire(Requests, FramesOf(cmdq[p])) \in Nat
  BY <1>1, OnWireType
<1> QED
  BY <1>2, <1>3 DEF Load, Weight

(* The request goes out: the only one, and nothing answers an older one.   *)
LEMMA GrantAsks ==
  ASSUME TypeOK, TypeOK', GrantInv, NEW e \in Ends, Steps(e), SendPermitRequest(e)
  PROVE  GrantInv'
<1> USE DEF senderVars, cmdVars, permitVars, appVars
<1> DEFINE p == Peer[e]
           n == Len(msg[e])
           f == RequestFrame(n)
<1>1. p \in Ends /\ p # e /\ n \in Nat
  BY PeerFacts DEF TypeOK
<1>2. /\ f \in Frame /\ Grants[f] = 0 /\ Bytes[f] = 0 /\ Requests[f] = 1
      /\ Others(n)[f] = 0
  <2>1. f \in Frame /\ f.kind = "PermitRequest" /\ f.len = n
    BY <1>1, FrameTypes DEF RequestFrame, TypeOK
  <2> HIDE DEF f, n
  <2> QED
    BY <2>1, FrameWeights
<1>3. /\ Push(e, f) /\ cmdq' = cmdq /\ dec' = dec /\ task' = task /\ hold' = hold
      /\ msg' = msg /\ cur' = cur /\ pc[e] = "registered"
      /\ pc'[e] = "requested"
  BY DEF SendPermitRequest, TypeOK
<1> HIDE DEF f
<1>4. ASSUME NEW w \in Weights
      PROVE  /\ Load(w, e)' = Load(w, e) /\ Load(w, e) \in Nat
             /\ \/ Load(w, p)' = Load(w, p)
                \/ Load(w, p)' = Load(w, p) + w[f]
             /\ Load(w, p) \in Nat
  BY <1>1, <1>2, <1>3, LoadPush, LoadType
<1>5. /\ Load(Grants, p)' = Load(Grants, p) /\ Load(Bytes, p)' = Load(Bytes, p)
      /\ \A k : k = n => /\ Load(Others(k), p)' = Load(Others(k), p)
                         /\ Load(Others(k), p) \in Nat
      /\ Load(Requests, p)' <= Load(Requests, p) + 1
      /\ Load(Grants, e)' = Load(Grants, e)
      /\ Load(Requests, p)' \in Nat /\ Load(Requests, p) \in Nat
      /\ Load(Grants, e) \in Nat
  <2> HIDE DEF n
  <2> QED
    BY <1>2, <1>4, WeightTypes
<1>6. GrantOK(p, e)'
  <2>1. /\ Load(Grants, p)' <= Load(Grants, p)
        /\ Load(Bytes, e)' <= Load(Bytes, e)
        /\ Load(Requests, e)' <= Load(Requests, e)
        /\ \A k : Load(Others(k), e)' <= Load(Others(k), e)
    BY <1>4, <1>5, WeightTypes
  <2>2. Alive(e)' => Alive(e)
    BY <1>3 DEF Alive
  <2> QED
    BY <1>3, <2>1, <2>2, ReceiverKept
<1>7. GrantOK(e, p) /\ (Alive(e)' => Alive(e)) /\ (Alive(p)' => Alive(p))
  BY <1>3 DEF GrantInv, Alive
<1>8. Alive(e) => /\ dec[e].want_remote_grant
                  /\ Load(Requests, p) = 0 /\ Load(Grants, e) = 0
                  /\ dec[p].state # "RemoteAwaitingPermit" /\ task[p] # "grant"
  <2> SUFFICES ASSUME Alive(e)
               PROVE  /\ Load(Requests, p) = 0 /\ Load(Grants, e) = 0
                      /\ dec[p].state # "RemoteAwaitingPermit"
                      /\ task[p] # "grant"
    BY <1>3, <1>7 DEF GrantOK
  <2>1. Load(Requests, p) + One(dec[p].state = "RemoteAwaitingPermit")
          + One(task[p] = "grant") + Load(Grants, e) <= 0
    BY <1>3, <1>7 DEF GrantOK, Due, One
  <2>2. \A x : One(x) \in Nat
    BY DEF One
  <2>3. /\ Load(Requests, p) = 0 /\ Load(Grants, e) = 0
        /\ One(dec[p].state = "RemoteAwaitingPermit") = 0
        /\ One(task[p] = "grant") = 0
    BY ONLY <1>5, <2>1, <2>2
  <2> QED
    BY <2>3 DEF One
<1>9. Alive(p)' => Covered(p, Rest(e))'
  <2>1. Rest(e) = 0 /\ Rest(e)' = 0
    BY <1>3 DEF Rest
  <2>2. Alive(p) => Covered(p, 0)
    BY <1>7, <2>1 DEF GrantOK
  <2>3. Load(Bytes, p)' <= Load(Bytes, p)
    BY <1>4, <1>5, WeightTypes
  <2>4. Covered(p, 0) => Covered(p, 0)'
    BY <1>1, <1>3, <2>3, CoveredKept
  <2> QED
    BY <1>7, <2>1, <2>2, <2>4 DEF Covered
<1>10. ASSUME Alive(e)'
       PROVE  Due(e, p)' <= 1
  <2>1. /\ One(dec'[p].state = "RemoteAwaitingPermit") = 0
        /\ One(task'[p] = "grant") = 0
    BY <1>3, <1>7, <1>8, <1>10 DEF One
  <2>2. Load(Requests, p)' <= 1 /\ Load(Grants, e)' = 0
    BY <1>5, <1>7, <1>8, <1>10
  <2>3. Load(Requests, p)' + One(dec'[p].state = "RemoteAwaitingPermit")
          + One(task'[p] = "grant") + Load(Grants, e)' <= 1
    BY <1>5, <2>1, <2>2
  <2> QED
    BY <2>3 DEF Due
<1>11. ASSUME Alive(e)'
       PROVE  Answered(e, p)'
  <2>1. /\ task'[p] # "grant" /\ dec'[p].state # "RemoteAwaitingPermit"
        /\ Load(Grants, e)' = 0
    BY <1>3, <1>5, <1>7, <1>8, <1>11
  <2>2. \A k : k = n => Load(Others(k), p)' = 0
    <3>1. \A k : Load(Others(k), p) <= Load(Requests, p)
      BY <1>1, OthersLess
    <3> QED
      BY <1>5, <1>7, <1>8, <1>11, <3>1
  <2>3. ~ (Load(Grants, e)' > 0)
    BY <2>1
  <2> QED
    BY <1>3, <2>1, <2>2, <2>3 DEF Answered, Load
<1>12. GrantOK(e, p)'
  <2>1. Alive(e)' =>
          Due(e, p)' <= One(dec'[e].want_remote_grant /\ pc'[e] # "registered")
    BY <1>3, <1>7, <1>8, <1>10 DEF One
  <2>2. task'[e] = "grant" => hold'[e].kind = "PermitGrant"
    BY <1>3, <1>7 DEF GrantOK
  <2> QED
    BY <1>3, <1>9, <1>11, <2>1, <2>2 DEF GrantOK
<1> QED
  BY <1>6, <1>12, GrantAtTheTwoEnds

LEMMA ChunkLength ==
  ASSUME NEW m \in Seq(Byte), NEW c \in Nat
  PROVE  /\ NextChunk(m, c) \in Seq(Byte)
         /\ c < Len(m) => c + Len(NextChunk(m, c)) <= Len(m)
         /\ c >= Len(m) => Len(NextChunk(m, c)) = 0
<1> DEFINE left == Len(m) - c
           amt == IF MaxChunk < left THEN MaxChunk ELSE left
<1>1. MaxChunk \in Nat \ {0} /\ Len(m) \in Nat
  BY MaxChunkAssumption
<1>2. NextChunk(m, c) = SubSeq(m, c + 1, c + amt)
  BY DEF NextChunk
<1>3. c < Len(m) => amt \in 1..Len(m) - c
  BY <1>1
<1>4. c >= Len(m) => c + 1 > c + amt /\ amt \in Int
  BY <1>1
<1> HIDE DEF amt
<1>5. CASE c < Len(m)
  <2>1. amt \in Nat /\ c + amt <= Len(m) /\ c + 1 \in 1..Len(m)
    BY <1>1, <1>3, <1>5
  <2>2. SubSeq(m, c + 1, c + amt) \in Seq(Byte)
        /\ Len(SubSeq(m, c + 1, c + amt)) = amt
    BY <1>1, <1>5, <2>1
  <2> QED
    BY <1>1, <1>2, <1>5, <2>1, <2>2
<1>6. CASE c >= Len(m)
  <2>1. SubSeq(m, c + 1, c + amt) = << >>
    BY <1>1, <1>4, <1>6
  <2>2. << >> \in Seq(Byte) /\ Len(<< >>) = 0 /\ ~ (c < Len(m))
    BY <1>1, <1>6
  <2> QED
    BY <1>2, <2>1, <2>2
<1> QED
  BY <1>1, <1>5, <1>6

(* A chunk goes out: what is under way grows by what is left to send less. *)
LEMMA GrantSends ==
  ASSUME TypeOK, TypeOK', GrantInv, NEW e \in Ends, Steps(e), SendChunk(e)
  PROVE  GrantInv'
<1> USE DEF senderVars, cmdVars, permitVars, appVars
<1> DEFINE p == Peer[e]
           c == NextChunk(msg[e], cur[e])
           f == ChunkFrame(c)
<1>1. p \in Ends /\ p # e /\ msg[e] \in Seq(Byte) /\ cur[e] \in Nat
      /\ Len(msg[e]) \in Nat
  BY PeerFacts DEF TypeOK
<1>2. /\ c \in Seq(Byte) /\ Len(c) \in Nat
      /\ cur[e] < Len(msg[e]) => cur[e] + Len(c) <= Len(msg[e])
      /\ cur[e] >= Len(msg[e]) => Len(c) = 0
  <2>1. /\ c \in Seq(Byte)
        /\ cur[e] < Len(msg[e]) => cur[e] + Len(c) <= Len(msg[e])
        /\ cur[e] >= Len(msg[e]) => Len(c) = 0
    BY <1>1, ChunkLength
  <2> HIDE DEF c
  <2> QED
    BY <2>1
<1>3. /\ Push(e, f) /\ cmdq' = cmdq /\ dec' = dec /\ task' = task /\ hold' = hold
      /\ msg' = msg /\ cur'[e] = cur[e] + Len(c) /\ pc[e] = "chunks"
      /\ pc'[e] = IF cur[e] + Len(c) = Len(msg[e]) THEN "idle" ELSE "chunks"
  BY DEF SendChunk, TypeOK
<1>4. /\ f \in Frame /\ Grants[f] = 0 /\ Bytes[f] = Len(c) /\ Requests[f] = 0
      /\ \A n : Others(n)[f] = 0
  <2>1. f \in Frame /\ f.kind = "MultipartMessage" /\ f.len = Len(c)
    BY <1>2, FrameTypes DEF ChunkFrame
  <2> HIDE DEF f, c
  <2> QED
    BY <2>1, FrameWeights
<1> HIDE DEF f, c
<1>5. ASSUME NEW w \in Weights
      PROVE  /\ Load(w, e)' = Load(w, e) /\ Load(w, e) \in Nat
             /\ \/ Load(w, p)' = Load(w, p)
                \/ Load(w, p)' = Load(w, p) + w[f]
             /\ Load(w, p) \in Nat
  BY <1>1, <1>3, <1>4, LoadPush, LoadType
<1>6. /\ Load(Grants, p)' <= Load(Grants, p)
      /\ Load(Requests, p)' = Load(Requests, p) /\ Load(Requests, p) \in Nat
      /\ Load(Grants, e)' = Load(Grants, e) /\ Load(Grants, e) \in Nat
      /\ Load(Bytes, p)' <= Load(Bytes, p) + Len(c)
      /\ Load(Bytes, p) \in Nat /\ Load(Bytes, p)' \in Nat
  BY <1>2, <1>4, <1>5, WeightTypes
<1>7. GrantOK(p, e)'
  <2>1. /\ Load(Bytes, e)' <= Load(Bytes, e)
        /\ Load(Requests, e)' <= Load(Requests, e)
        /\ \A k : Load(Others(k), e)' <= Load(Others(k), e)
    BY <1>5, WeightTypes
  <2>2. Alive(e)' => Alive(e)
    BY <1>3 DEF Alive
  <2> QED
    BY <1>3, <1>6, <2>1, <2>2, ReceiverKept
<1>8. GrantOK(e, p) /\ (Alive(e)' => Alive(e)) /\ (Alive(p)' => Alive(p))
  BY <1>3 DEF GrantInv, Alive
<1>9. Rest(e) \in Nat /\ Rest(e)' \in Nat /\ Rest(e)' + Len(c) <= Rest(e)
  <2>1. CASE cur[e] < Len(msg[e])
    <3>1. Rest(e) = Len(msg[e]) - cur[e]
      BY <1>3, <2>1 DEF Rest
    <3>2. Rest(e)' = Len(msg[e]) - (cur[e] + Len(c))
      <4>1. CASE cur[e] + Len(c) = Len(msg[e])
        <5>1. Rest(e)' = 0
          BY <1>3, <4>1 DEF Rest
        <5> QED
          BY <1>1, <4>1, <5>1
      <4>2. CASE cur[e] + Len(c) # Len(msg[e])
        <5>1. pc'[e] = "chunks" /\ cur'[e] = cur[e] + Len(c) /\ msg' = msg
          BY <1>3, <4>2
        <5>2. cur[e] + Len(c) < Len(msg[e])
          BY <1>1, <1>2, <2>1, <4>2
        <5> QED
          BY <5>1, <5>2 DEF Rest
      <4> QED
        BY <4>1, <4>2
    <3> QED
      BY <1>1, <1>2, <2>1, <3>1, <3>2
  <2>2. CASE ~ (cur[e] < Len(msg[e]))
    <3>1. Rest(e) = 0 /\ Len(c) = 0
      BY <1>1, <1>2, <2>2 DEF Rest
    <3>2. cur'[e] = cur[e]
      BY <1>1, <1>3, <3>1
    <3>3. Rest(e)' = 0
      BY <1>3, <2>2, <3>2 DEF Rest
    <3> QED
      BY <3>1, <3>3
  <2> QED
    BY <2>1, <2>2
<1>10. Alive(p)' => Covered(p, Rest(e))'
  <2> SUFFICES ASSUME Alive(p)'
               PROVE  Covered(p, Rest(e))'
    OBVIOUS
  <2>1. Load(Bytes, p) + Len(dec[p].incoming) + Rest(e) <= dec[p].held
    BY <1>8 DEF GrantOK, Covered
  <2>2. Len(dec[p].incoming) \in Nat /\ dec[p].held \in Nat
    BY <1>1, LedgerTypes
  <2>3. Load(Bytes, p)' + Len(dec[p].incoming) + Rest(e)' <= dec[p].held
    <3> DEFINE x == Load(Bytes, p)
               xx == Load(Bytes, p)'
               y == Len(dec[p].incoming)
               z == dec[p].held
               r == Rest(e)
               rr == Rest(e)'
               l == Len(c)
    <3>1. /\ x \in Nat /\ xx \in Nat /\ y \in Nat /\ z \in Nat
          /\ r \in Nat /\ rr \in Nat /\ l \in Nat
          /\ x + y + r <= z /\ xx <= x + l /\ rr + l <= r
      BY <1>2, <1>6, <1>9, <2>1, <2>2
    <3> HIDE DEF x, xx, y, z, r, rr, l
    <3>2. xx + y + rr <= z
      BY ONLY <3>1
    <3> QED
      BY <3>2 DEF xx, y, z, rr
  <2> QED
    BY <1>3, <2>3 DEF Covered
<1>11. Alive(e)' =>
         Due(e, p)' <= One(dec'[e].want_remote_grant /\ pc'[e] # "registered")
  BY <1>3, <1>6, <1>8 DEF GrantOK, Due
<1>12. GrantOK(e, p)'
  <2>1. task'[e] = "grant" => hold'[e].kind = "PermitGrant"
    BY <1>3, <1>8 DEF GrantOK
  <2>2. pc'[e] # "registered" /\ pc'[e] # "requested"
    BY <1>3
  <2> QED
    BY <1>10, <1>11, <2>1, <2>2 DEF GrantOK
<1> QED
  BY <1>7, <1>12, GrantAtTheTwoEnds

(* The command task learns that its own side is about to ask.              *)
LEMMA GrantAwaits ==
  ASSUME TypeOK, TypeOK', GrantInv, NEW e \in Ends, Steps(e), CmdAwaitPermit(e)
  PROVE  GrantInv'
<1> USE DEF senderVars, cmdVars, permitVars, appVars
<1> DEFINE p == Peer[e]
<1>1. p \in Ends /\ p # e /\ wire' = wire /\ cmdq[e] # << >>
      /\ cmdq[e] \in Seq(Cmd) /\ cmdq'[e] = Tail(cmdq[e])
  BY PeerFacts DEF CmdAwaitPermit, TakesCmd, TypeOK
<1>2. /\ task' = task /\ hold' = hold /\ task[e] = "run"
      /\ msg' = msg /\ cur' = cur
      /\ pc'[e] = pc[e] \/ pc'[e] = "registered"
  BY DEF CmdAwaitPermit, TakesCmd, Notify, TypeOK
<1>3. /\ ~ dec[e].want_remote_grant /\ dec'[e].want_remote_grant
      /\ dec'[e].incoming = dec[e].incoming /\ dec'[e].held = dec[e].held
      /\ dec'[e].state = dec[e].state /\ dec'[e].awaiting = dec[e].awaiting
  <2>1. dec[e] \in Decoder /\ MayRequest(dec[e])
        /\ dec'[e] = AfterRequest(dec[e], Head(cmdq[e]).id)
    BY DEF CmdAwaitPermit, TypeOK
  <2> QED
    BY <2>1 DEF AfterRequest, MayRequest, Decoder
<1>4. dec'[p] = dec[p]
  BY <1>1, OthersSame DEF Same
<1>5. \A w \in Weights : /\ Load(w, e)' <= Load(w, e)
                         /\ Load(w, p)' <= Load(w, p)
                         /\ Load(w, e) \in Nat /\ Load(w, e)' \in Nat
                         /\ Load(w, p) \in Nat /\ Load(w, p)' \in Nat
  <2> TAKE w \in Weights
  <2>1. Load(w, e) \in Nat /\ Load(w, p) \in Nat /\ cmdq'[p] = cmdq[p]
    BY <1>1, LoadType, OthersSame DEF Same
  <2>2. Load(w, p)' = Load(w, p)
    BY <1>1, <2>1, LoadSame
  <2>3. /\ Load(w, e) = w[FrameOf(Head(cmdq[e]))] + Load(w, e)'
        /\ w[FrameOf(Head(cmdq[e]))] \in Nat /\ Load(w, e)' \in Nat
    BY <1>1, LoadTaken
  <2> QED
    BY <2>1, <2>2, <2>3
<1>6. /\ Load(Grants, p)' <= Load(Grants, p) /\ Load(Bytes, e)' <= Load(Bytes, e)
      /\ Load(Requests, e)' <= Load(Requests, e)
      /\ \A n : Load(Others(n), e)' <= Load(Others(n), e)
      /\ Load(Grants, e)' <= Load(Grants, e) /\ Load(Bytes, p)' <= Load(Bytes, p)
      /\ Load(Requests, p)' <= Load(Requests, p)
      /\ \A n : Load(Others(n), p)' <= Load(Others(n), p)
  BY <1>5, WeightTypes
<1>7. GrantOK(p, e)'
  <2>1. Alive(e)' => Alive(e)
    BY <1>2 DEF Alive
  <2> QED
    BY <1>2, <1>3, <1>6, <2>1, ReceiverKept
<1>8. GrantOK(e, p) /\ (Alive(p)' => Alive(p)) /\ Alive(e) /\ Len(msg[e]) \in Nat
  BY <1>2 DEF GrantInv, Alive, TypeOK
<1>9. /\ Load(Requests, p) = 0 /\ Load(Grants, e) = 0
      /\ dec[p].state # "RemoteAwaitingPermit" /\ task[p] # "grant"
  <2>1. Load(Requests, p) + One(dec[p].state = "RemoteAwaitingPermit")
          + One(task[p] = "grant") + Load(Grants, e) <= 0
    BY <1>3, <1>8 DEF GrantOK, Due, One
  <2>2. /\ \A x : One(x) \in Nat
        /\ Load(Requests, p) \in Nat /\ Load(Grants, e) \in Nat
    BY <1>5, WeightTypes DEF One
  <2>3. /\ Load(Requests, p) = 0 /\ Load(Grants, e) = 0
        /\ One(dec[p].state = "RemoteAwaitingPermit") = 0
        /\ One(task[p] = "grant") = 0
    BY ONLY <2>1, <2>2
  <2> QED
    BY <2>3 DEF One
<1>10. Due(e, p)' = 0
  <2>1. /\ Load(Requests, p)' = 0 /\ Load(Grants, e)' = 0
    BY <1>5, <1>6, <1>9, WeightTypes
  <2>2. /\ One(dec'[p].state = "RemoteAwaitingPermit") = 0
        /\ One(task'[p] = "grant") = 0
    BY <1>2, <1>4, <1>9 DEF One
  <2> QED
    BY <2>1, <2>2 DEF Due
<1>11. Alive(p)' => Covered(p, Rest(e))'
  <2> SUFFICES ASSUME Alive(p)'
               PROVE  Covered(p, Rest(e))'
    OBVIOUS
  <2>1. \A n \in Nat : Covered(p, n) => Covered(p, n)'
    BY <1>1, <1>4, <1>6, CoveredKept
  <2>2. Rest(e) \in Nat /\ (Rest(e)' = Rest(e) \/ Rest(e)' = 0)
    BY <1>2, LedgerTypes DEF Rest
  <2>3. Covered(p, Rest(e))
    BY <1>8 DEF GrantOK
  <2>4. Covered(p, 0)
    <3>1. Load(Bytes, p) + Len(dec[p].incoming) + Rest(e) <= dec[p].held
      BY <2>3 DEF Covered
    <3>2. Load(Bytes, p) \in Nat /\ Len(dec[p].incoming) \in Nat /\ dec[p].held \in Nat
      BY <1>1, <1>5, LedgerTypes, WeightTypes
    <3>3. Load(Bytes, p) + Len(dec[p].incoming) + 0 <= dec[p].held
      BY ONLY <2>2, <3>1, <3>2
    <3> QED
      BY <3>3 DEF Covered
  <2>5. \A n \in Nat : Covered(p, n) => Load(Bytes, p)' + Len(dec'[p].incoming) + n <= dec'[p].held
    BY <2>1 DEF Covered
  <2>6. Load(Bytes, p)' + Len(dec'[p].incoming) + Rest(e)' <= dec'[p].held
    BY <2>2, <2>3, <2>4, <2>5
  <2> QED
    BY <2>6 DEF Covered
<1>12. ASSUME Alive(p)', pc'[e] = "requested"
       PROVE  Answered(e, p)'
  <2>1. Answered(e, p)
    BY <1>2, <1>8, <1>12 DEF GrantOK
  <2>2. /\ task'[p] # "grant" /\ dec'[p].state # "RemoteAwaitingPermit"
        /\ ~ (Load(Grants, e)' > 0)
    <3>1. Load(Grants, e)' = 0
      BY <1>5, <1>6, <1>9, WeightTypes
    <3> QED
      BY <1>2, <1>4, <1>9, <3>1
  <2>3. \A n : n = Len(msg[e]) => Load(Others(n), p)' = 0
    <3>1. \A n : Load(Others(n), p)' \in Nat
      BY <1>5, WeightTypes
    <3>2. \A n : n = Len(msg[e]) => Load(Others(n), p) = 0
      BY <2>1 DEF Answered
    <3>3. \A n : Load(Others(n), p) \in Nat
      BY <1>5, WeightTypes
    <3> QED
      BY <1>6, <3>1, <3>2, <3>3
  <2> QED
    BY <1>2, <2>2, <2>3 DEF Answered, Load
<1>13. GrantOK(e, p)'
  <2>1. Due(e, p)' <= One(dec'[e].want_remote_grant /\ pc'[e] # "registered")
    BY <1>10 DEF One
  <2>2. task'[e] # "grant"
    BY <1>2
  <2> QED
    BY <1>3, <1>11, <1>12, <2>1, <2>2 DEF GrantOK
<1> QED
  BY <1>7, <1>13, GrantAtTheTwoEnds

(* What a step that takes a command does to the weights at its two ends.   *)
LEMMA TakenWeights ==
  ASSUME TypeOK, NEW e \in Ends, Steps(e), wire' = wire, cmdq[e] # << >>,
         cmdq'[e] = Tail(cmdq[e]), NEW w \in Weights
  PROVE  LET f == FrameOf(Head(cmdq[e])) IN
         /\ Load(w, e) = w[f] + Load(w, e)' /\ w[f] \in Nat
         /\ Load(w, e)' \in Nat /\ Load(w, e) \in Nat
         /\ Load(w, Peer[e])' = Load(w, Peer[e])
         /\ Load(w, Peer[e]) \in Nat
         /\ Load(w, e)' <= Load(w, e)
<1>1. Peer[e] \in Ends /\ Peer[e] # e
  BY PeerFacts
<1>2. cmdq'[Peer[e]] = cmdq[Peer[e]]
  BY <1>1, OthersSame DEF Same
<1>3. Load(w, Peer[e])' = Load(w, Peer[e]) /\ Load(w, Peer[e]) \in Nat
  BY <1>1, <1>2, LoadSame, LoadType
<1>4. /\ Load(w, e) = w[FrameOf(Head(cmdq[e]))] + Load(w, e)'
      /\ w[FrameOf(Head(cmdq[e]))] \in Nat /\ Load(w, e)' \in Nat
      /\ Load(w, e) \in Nat
  BY LoadTaken, LoadType
<1>5. Load(w, e)' <= Load(w, e)
  BY <1>4
<1> QED
  BY <1>3, <1>4, <1>5

(* The permit for the remote arrives: nothing of an older one is left.     *)
LEMMA GrantPermits ==
  ASSUME TypeOK, TypeOK', PermitInv, GrantInv, NEW e \in Ends, Steps(e),
         CmdRemotePermit(e)
  PROVE  GrantInv'
<1> USE DEF senderVars, cmdVars, permitVars, appVars
<1> DEFINE p == Peer[e]
           k == Head(cmdq[e]).len
<1>1. p \in Ends /\ p # e /\ Peer[p] = e /\ wire' = wire /\ cmdq[e] # << >>
      /\ cmdq[e] \in Seq(Cmd) /\ cmdq'[e] = Tail(cmdq[e])
      /\ Head(cmdq[e]).cmd = "RemotePermit" /\ Head(cmdq[e]) \in Cmd
      /\ Head(cmdq[e]) = cmdq[e][1] /\ 1 \in 1..Len(cmdq[e])
  <2>1. p \in Ends /\ p # e /\ Peer[p] = e
    BY PeerFacts
  <2>2. wire' = wire /\ cmdq[e] # << >> /\ Head(cmdq[e]).cmd = "RemotePermit"
    BY DEF CmdRemotePermit, TakesCmd
  <2>3. cmdq[e] \in Seq(Cmd) /\ cmdq'[e] = Tail(cmdq[e])
    BY DEF CmdRemotePermit, TypeOK
  <2> QED
    BY <2>1, <2>2, <2>3
<1>2. /\ pc' = pc /\ msg' = msg /\ cur' = cur
      /\ task[e] = "run" /\ task'[e] = "grant"
      /\ hold'[e] = GrantFrame(k)
      /\ dec'[e] = AfterGrant(dec[e], k) /\ MayGrant(dec[e])
      /\ dec[e] \in Decoder
  BY DEF CmdRemotePermit, TakesCmd, TypeOK
<1>3. Awaits(dec[e], k) /\ k \in Nat
  <2>1. PermitQueueOK(cmdq[e], dec[e], waiter[e])
    BY DEF PermitInv, EndOK
  <2> QED
    BY <1>1, <2>1 DEF PermitQueueOK, Cmd
<1>4. dec[e].incoming = << >> /\ dec[e].held = 0
  BY <1>3 DEF PermitInv, EndOK, Consistent, Awaits
<1> HIDE DEF k
<1>5. /\ dec'[e].want_remote_grant = dec[e].want_remote_grant
      /\ dec'[e].state = "ReceiveChunked"
      /\ dec'[e].incoming = << >> /\ dec'[e].held = k
  BY <1>2, <1>4 DEF AfterGrant, Decoder
<1>6. Alive(e) /\ Alive(e)' /\ hold'[e].kind = "PermitGrant"
  BY <1>2 DEF Alive, GrantFrame
<1>7. \A w \in Weights : /\ Load(w, e)' <= Load(w, e)
                         /\ Load(w, e) \in Nat /\ Load(w, e)' \in Nat
                         /\ Load(w, p)' = Load(w, p) /\ Load(w, p) \in Nat
                         /\ Load(w, p)' <= Load(w, p)
  <2> TAKE w \in Weights
  <2>1. /\ Load(w, e)' <= Load(w, e)
        /\ Load(w, e) \in Nat /\ Load(w, e)' \in Nat
        /\ Load(w, p)' = Load(w, p) /\ Load(w, p) \in Nat
    BY <1>1, TakenWeights
  <2> QED
    BY <2>1
<1>8. GrantOK(e, p)'
  <2>1. /\ Load(Grants, e)' <= Load(Grants, e) /\ Load(Bytes, p)' <= Load(Bytes, p)
        /\ Load(Requests, p)' <= Load(Requests, p)
        /\ \A n : Load(Others(n), p)' <= Load(Others(n), p)
    BY <1>7, WeightTypes
  <2> QED
    BY <1>2, <1>5, <1>6, <2>1, SenderKept
<1>9. GrantOK(p, e) /\ Same(p)
  BY <1>1, OthersSame DEF GrantInv
<1>10. Load(Bytes, e) = 0 /\ Load(Bytes, e)' = 0 /\ Rest(p) = 0 /\ Rest(p)' = 0
  <2>1. Rest(p) \in Nat /\ Rest(p)' = Rest(p)
    BY <1>1, <1>9, LedgerTypes DEF Rest, Same
  <2>2. Load(Bytes, e) + 0 + Rest(p) <= 0
    BY <1>4, <1>6, <1>9 DEF GrantOK, Covered
  <2>3. Load(Bytes, e) \in Nat /\ Load(Bytes, e)' \in Nat
        /\ Load(Bytes, e)' <= Load(Bytes, e)
    BY <1>7, WeightTypes
  <2> QED
    BY ONLY <2>1, <2>2, <2>3
<1>11. Covered(e, Rest(p))'
  <2>1. Load(Bytes, e)' + Len(dec'[e].incoming) + Rest(p)' <= dec'[e].held
    BY <1>3, <1>5, <1>10
  <2> QED
    BY <2>1 DEF Covered
<1>12. Alive(p)' =>
         Due(p, e)' <= One(dec'[p].want_remote_grant /\ pc'[p] # "registered")
  <2> SUFFICES ASSUME Alive(p)'
               PROVE  Due(p, e)'
                        <= One(dec'[p].want_remote_grant /\ pc'[p] # "registered")
    OBVIOUS
  <2>1. /\ dec'[p] = dec[p] /\ pc'[p] = pc[p] /\ Alive(p)
    BY <1>9 DEF Same, Alive
  <2>2. Load(Requests, e) + One(dec[e].state = "RemoteAwaitingPermit")
          + One(task[e] = "grant") + Load(Grants, p)
          <= One(dec[p].want_remote_grant /\ pc[p] # "registered")
    BY <1>9, <2>1 DEF GrantOK, Due
  <2>3. /\ One(dec[e].state = "RemoteAwaitingPermit") = 1
        /\ One(task[e] = "grant") = 0
        /\ One(dec'[e].state = "RemoteAwaitingPermit") = 0
        /\ One(task'[e] = "grant") = 1
    BY <1>2, <1>3, <1>5 DEF One, Awaits
  <2>4. /\ Load(Requests, e) \in Nat /\ Load(Requests, e)' \in Nat
        /\ Load(Requests, e)' <= Load(Requests, e)
        /\ Load(Grants, p)' = Load(Grants, p) /\ Load(Grants, p) \in Nat
    BY <1>7, WeightTypes
  <2>5. \A x : One(x) \in Nat
    BY DEF One
  <2>6. Load(Requests, e)' + One(dec'[e].state = "RemoteAwaitingPermit")
          + One(task'[e] = "grant") + Load(Grants, p)'
          <= One(dec[p].want_remote_grant /\ pc[p] # "registered")
    BY ONLY <2>2, <2>3, <2>4, <2>5
  <2> QED
    BY <2>1, <2>6 DEF Due
<1>13. ASSUME Alive(p)', pc'[p] = "requested"
       PROVE  Answered(p, e)'
  <2>1. /\ dec'[p] = dec[p] /\ pc'[p] = pc[p] /\ Alive(p) /\ msg'[p] = msg[p]
    BY <1>9, <1>13 DEF Same, Alive
  <2>2. Answered(p, e) /\ Len(msg[p]) \in Nat
    BY <1>1, <1>6, <1>9, <1>13, <2>1, LedgerTypes DEF GrantOK
  <2>3. k = Len(msg[p])
    BY <1>3, <2>2 DEF Answered, Awaits
  <2>4. Load(Bytes, e)' + Len(dec'[e].incoming) + k <= dec'[e].held
    BY <1>3, <1>5, <1>10
  <2>5. \A n : n = Len(msg[p]) => Load(Others(n), e)' = 0
    <3>1. \A n : /\ Load(Others(n), e)' \in Nat /\ Load(Others(n), e) \in Nat
                 /\ Load(Others(n), e)' <= Load(Others(n), e)
      BY <1>7, WeightTypes
    <3>2. \A n : n = Len(msg[p]) => Load(Others(n), e) = 0
      BY <2>2 DEF Answered
    <3> QED
      BY <3>1, <3>2
  <2> QED
    BY <1>5, <2>1, <2>3, <2>4, <2>5 DEF Answered, Covered, Load
<1>14. GrantOK(p, e)'
  <2>1. task'[p] = "grant" => hold'[p].kind = "PermitGrant"
    BY <1>9 DEF GrantOK, Same
  <2>2. Alive(p)' /\ pc'[p] = "registered" => dec'[p].want_remote_grant
    BY <1>9 DEF GrantOK, Same, Alive
  <2> QED
    BY <1>11, <1>12, <1>13, <2>1, <2>2 DEF GrantOK
<1> QED
  BY <1>8, <1>14, GrantAtTheTwoEnds

(* The grant is handed to the connection, or lost with it.                 *)
LEMMA GrantTells ==
  ASSUME TypeOK, TypeOK', GrantInv, NEW e \in Ends, Steps(e), CmdSendGrant(e)
  PROVE  GrantInv'
<1> USE DEF senderVars, cmdVars, permitVars, appVars
<1> DEFINE p == Peer[e]
           f == hold[e]
<1>1. p \in Ends /\ p # e /\ Peer[p] = e /\ f \in Frame
  BY PeerFacts DEF TypeOK
<1>2. /\ pc' = pc /\ msg' = msg /\ cur' = cur /\ dec' = dec /\ cmdq' = cmdq
      /\ task[e] = "grant" /\ task'[e] = "run" /\ Push(e, f)
  BY DEF CmdSendGrant, TypeOK
<1>3. /\ f.kind = "PermitGrant"
  BY <1>2 DEF GrantInv, GrantOK
<1> HIDE DEF f
<1>4. /\ Grants[f] = 1 /\ Bytes[f] = 0 /\ Requests[f] = 0
      /\ \A n : Others(n)[f] = 0
  BY <1>1, <1>3, FrameWeights
<1>5. \A w \in Weights :
        /\ Load(w, e)' = Load(w, e) /\ Load(w, e) \in Nat
        /\ Load(w, p)' = Load(w, p) \/ Load(w, p)' = Load(w, p) + w[f]
        /\ Load(w, p) \in Nat
  BY <1>1, <1>2, LoadPush, LoadType
<1>6. Alive(e) /\ Alive(e)'
  BY <1>2 DEF Alive
<1>7. /\ Load(Grants, e)' <= Load(Grants, e) /\ Load(Bytes, p)' <= Load(Bytes, p)
      /\ Load(Requests, p)' <= Load(Requests, p)
      /\ \A n : Load(Others(n), p)' <= Load(Others(n), p)
      /\ Load(Bytes, e)' <= Load(Bytes, e)
      /\ Load(Requests, e)' = Load(Requests, e) /\ Load(Requests, e) \in Nat
      /\ \A n : Load(Others(n), e)' = Load(Others(n), e)
      /\ Load(Grants, p)' <= Load(Grants, p) + 1
      /\ Load(Grants, p) \in Nat /\ Load(Grants, p)' \in Nat
  BY <1>4, <1>5, WeightTypes
<1>8. GrantOK(e, p)'
  BY <1>2, <1>6, <1>7, SenderKept
<1>9. GrantOK(p, e) /\ Same(p)
  BY <1>1, OthersSame DEF GrantInv
<1>10. \A n \in Nat : Covered(e, n) => Covered(e, n)'
  BY <1>2, <1>7, CoveredKept
<1>11. /\ dec'[p] = dec[p] /\ pc'[p] = pc[p] /\ msg'[p] = msg[p]
       /\ cur'[p] = cur[p] /\ (Alive(p)' <=> Alive(p)) /\ Len(msg[p]) \in Nat
  BY <1>1, <1>9, LedgerTypes DEF Same, Alive
<1>12. Covered(e, Rest(p))'
  <2>1. Rest(p) \in Nat /\ Rest(p)' = Rest(p)
    BY <1>1, <1>11, LedgerTypes DEF Rest
  <2>2. Covered(e, Rest(p))
    BY <1>6, <1>9 DEF GrantOK
  <2>3. \A n \in Nat : Covered(e, n) =>
          Load(Bytes, e)' + Len(dec'[e].incoming) + n <= dec'[e].held
    BY <1>10 DEF Covered
  <2>4. Load(Bytes, e)' + Len(dec'[e].incoming) + Rest(p)' <= dec'[e].held
    BY <2>1, <2>2, <2>3
  <2> QED
    BY <2>4 DEF Covered
<1>13. Alive(p)' =>
         Due(p, e)' <= One(dec'[p].want_remote_grant /\ pc'[p] # "registered")
  <2> SUFFICES ASSUME Alive(p)
               PROVE  Due(p, e)'
                        <= One(dec[p].want_remote_grant /\ pc[p] # "registered")
    BY <1>11
  <2>1. Load(Requests, e) + One(dec[e].state = "RemoteAwaitingPermit")
          + One(task[e] = "grant") + Load(Grants, p)
          <= One(dec[p].want_remote_grant /\ pc[p] # "registered")
    BY <1>9 DEF GrantOK, Due
  <2>2. /\ One(task[e] = "grant") = 1 /\ One(task'[e] = "grant") = 0
        /\ \A x : One(x) \in Nat
    BY <1>2 DEF One
  <2>3. Load(Requests, e)' + One(dec'[e].state = "RemoteAwaitingPermit")
          + One(task'[e] = "grant") + Load(Grants, p)'
          <= One(dec[p].want_remote_grant /\ pc[p] # "registered")
    BY ONLY <1>2, <1>7, <2>1, <2>2
  <2> QED
    BY <2>3 DEF Due
<1>14. ASSUME Alive(p)', pc'[p] = "requested"
       PROVE  Answered(p, e)'
  <2>1. Answered(p, e)
    BY <1>6, <1>9, <1>11, <1>14 DEF GrantOK
  <2>2. Covered(e, Len(msg[p]))
    BY <1>2, <2>1 DEF Answered
  <2>3. \A n \in Nat : Covered(e, n) =>
          Load(Bytes, e)' + Len(dec'[e].incoming) + n <= dec'[e].held
    BY <1>10 DEF Covered
  <2>4. Load(Bytes, e)' + Len(dec'[e].incoming) + Len(msg[p]) <= dec'[e].held
    BY <1>11, <2>2, <2>3
  <2>5. dec[e].state = "RemoteAwaitingPermit" => dec[e].awaiting = Len(msg[p])
    BY <2>1 DEF Answered
  <2>6. \A n : n = Len(msg[p]) => Load(Others(n), e)' = 0
    BY <1>7, <2>1 DEF Answered
  <2> QED
    BY <1>2, <1>11, <2>4, <2>5, <2>6 DEF Answered, Covered, Load
<1>15. GrantOK(p, e)'
  <2>1. task'[p] = "grant" => hold'[p].kind = "PermitGrant"
    BY <1>9 DEF GrantOK, Same
  <2>2. Alive(p)' /\ pc'[p] = "registered" => dec'[p].want_remote_grant
    BY <1>9, <1>11 DEF GrantOK
  <2> QED
    BY <1>12, <1>13, <1>14, <2>1, <2>2 DEF GrantOK
<1> QED
  BY <1>8, <1>15, GrantAtTheTwoEnds

(* What the decoder does with a frame that it takes.                       *)
LEMMA TakenFrame ==
  ASSUME NEW d \in Decoder, NEW f \in Frame, Accepts(d, f), Consistent(d)
  PROVE  LET x == DecoderAfter(d, f) IN
         /\ f.kind = "PermitGrant" =>
              d.want_remote_grant /\ ~ x.want_remote_grant
         /\ f.kind # "PermitGrant" => x.want_remote_grant = d.want_remote_grant
         /\ f.kind # "MultipartMessage" =>
              x.incoming = d.incoming /\ x.held = d.held
         /\ f.kind \notin {"MultipartMessage", "PermitRequest"} =>
              (x.state = "RemoteAwaitingPermit" =>
                 d.state = "RemoteAwaitingPermit" /\ x.awaiting = d.awaiting)
         /\ f.kind = "PermitRequest" =>
              /\ d.state = "Ready"
              /\ x.state = "RemoteAwaitingPermit" /\ x.awaiting = f.len
         /\ f.kind = "MultipartMessage" =>
              /\ x.state # "RemoteAwaitingPermit"
              /\ \/ x.held = d.held /\ Len(x.incoming) = Len(d.incoming) + f.len
                 \/ /\ x.held = 0 /\ x.incoming = << >>
                    /\ Len(d.incoming) + f.len = d.held
<1> DEFINE x == DecoderAfter(d, f)
<1>1. CASE f.kind = "MultipartMessage"
  <2>1. /\ d.state = "ReceiveChunked" /\ f.len = Len(f.body)
        /\ x = AfterChunk(d, f) /\ d.held = d.want_size
    BY <1>1 DEF Accepts, AcceptsChunk, DecoderAfter, Consistent
  <2>2. d.incoming \in Seq(Byte) /\ f.body \in Seq(Byte)
    BY DEF Decoder, Frame
  <2>3. Len(d.incoming \o f.body) = Len(d.incoming) + f.len
    BY <2>1, <2>2
  <2>4. CASE Completes(d, f)
    <3>1. x = [d EXCEPT !.state = "Ready", !.incoming = << >>, !.held = 0]
      BY <2>1, <2>4 DEF AfterChunk
    <3>2. Len(d.incoming) + f.len = d.held
      BY <2>1, <2>4 DEF Completes
    <3> QED
      BY <1>1, <3>1, <3>2 DEF Decoder
  <2>5. CASE ~ Completes(d, f)
    <3>1. x = [d EXCEPT !.incoming = d.incoming \o f.body]
      BY <2>1, <2>5 DEF AfterChunk
    <3>2. /\ x.state = d.state /\ x.held = d.held
          /\ x.incoming = d.incoming \o f.body
          /\ x.want_remote_grant = d.want_remote_grant
      BY <3>1 DEF Decoder
    <3> QED
      BY <1>1, <2>1, <2>3, <3>2
  <2> QED
    BY <2>4, <2>5
<1>2. CASE f.kind # "MultipartMessage"
  BY <1>2 DEF Accepts, AcceptsRequest, DecoderAfter, AfterRemoteRequest,
              AfterRemoteGrant, Decoder
<1> QED
  BY <1>1, <1>2

(* A frame is taken from the command channel.                              *)
LEMMA RecvFacts ==
  ASSUME TypeOK, PermitInv, NEW e \in Ends, Steps(e), CmdRecv(e)
  PROVE  LET f == Head(cmdq[e]).frame IN
         /\ f \in Frame /\ Accepts(dec[e], f) /\ dec[e] \in Decoder
         /\ Consistent(dec[e]) /\ dec'[e] = DecoderAfter(dec[e], f)
         /\ task[e] = "run" /\ task'[e] \in {"run", "deliver"}
         /\ msg' = msg /\ cur' = cur
         /\ f.kind # "PermitGrant" => pc'[e] = pc[e]
         /\ pc'[e] = pc[e] \/ (pc[e] = "requested" /\ pc'[e] = "chunks")
         /\ \A w \in Weights :
              /\ Load(w, e) = w[f] + Load(w, e)' /\ w[f] \in Nat
              /\ Load(w, e)' \in Nat /\ Load(w, e) \in Nat
              /\ Load(w, Peer[e])' = Load(w, Peer[e])
              /\ Load(w, Peer[e]) \in Nat
              /\ Load(w, e)' <= Load(w, e)
              /\ Load(w, Peer[e])' <= Load(w, Peer[e])
<1> USE DEF senderVars, cmdVars, permitVars, appVars
<1> DEFINE c == Head(cmdq[e])
           f == c.frame
<1>1. /\ task[e] = "run" /\ cmdq[e] # << >> /\ c.cmd = "Recv"
      /\ Accepts(dec[e], f) /\ dec'[e] = DecoderAfter(dec[e], f)
      /\ cmdq'[e] = Tail(cmdq[e]) /\ task'[e] \in {"run", "deliver"}
      /\ wire' = wire /\ msg' = msg /\ cur' = cur
      /\ f.kind # "PermitGrant" => pc'[e] = pc[e]
      /\ pc'[e] = pc[e] \/ (pc[e] = "requested" /\ pc'[e] = "chunks")
  BY TakesFrame
<1>2. cmdq[e] \in Seq(Cmd) /\ dec[e] \in Decoder
  BY DEF TypeOK
<1>3. c \in Cmd
  BY <1>1, <1>2
<1>4. f \in Frame /\ FrameOf(c) = f
  BY <1>1, <1>3, FrameOfType DEF Cmd, FrameOf
<1>6. Consistent(dec[e])
  BY DEF PermitInv, EndOK
<1>7. \A w \in Weights :
         /\ Load(w, e) = w[f] + Load(w, e)' /\ w[f] \in Nat
         /\ Load(w, e)' \in Nat /\ Load(w, e) \in Nat
         /\ Load(w, Peer[e])' = Load(w, Peer[e])
         /\ Load(w, Peer[e]) \in Nat
         /\ Load(w, e)' <= Load(w, e)
         /\ Load(w, Peer[e])' <= Load(w, Peer[e])
  <2> TAKE w \in Weights
  <2>1. /\ Load(w, e) = w[f] + Load(w, e)' /\ w[f] \in Nat
        /\ Load(w, e)' \in Nat /\ Load(w, e) \in Nat
        /\ Load(w, Peer[e])' = Load(w, Peer[e])
        /\ Load(w, Peer[e]) \in Nat
        /\ Load(w, e)' <= Load(w, e)
    BY <1>1, <1>2, <1>4, TakenWeights
  <2> QED
    BY <2>1
<1> QED
  BY <1>1, <1>2, <1>4, <1>6, <1>7

(* The messages that the end which takes the frame sends: a grant wakes    *)
(* the send that it was given for.                                         *)
LEMMA RecvSender ==
  ASSUME TypeOK, TypeOK', PermitInv, GrantInv, NEW e \in Ends, Steps(e),
         CmdRecv(e)
  PROVE  GrantOK(e, Peer[e])'
<1> DEFINE p == Peer[e]
           f == Head(cmdq[e]).frame
<1>1. /\ f \in Frame /\ Accepts(dec[e], f) /\ dec[e] \in Decoder
      /\ Consistent(dec[e]) /\ dec'[e] = DecoderAfter(dec[e], f)
      /\ task[e] = "run" /\ task'[e] \in {"run", "deliver"}
      /\ msg' = msg /\ cur' = cur /\ (f.kind # "PermitGrant" => pc'[e] = pc[e])
      /\ pc'[e] = pc[e] \/ (pc[e] = "requested" /\ pc'[e] = "chunks")
  BY RecvFacts
<1>2. \A w \in Weights :
        /\ Load(w, e) = w[f] + Load(w, e)' /\ w[f] \in Nat
        /\ Load(w, e)' \in Nat /\ Load(w, e) \in Nat
        /\ Load(w, p)' = Load(w, p) /\ Load(w, p) \in Nat
        /\ Load(w, e)' <= Load(w, e) /\ Load(w, p)' <= Load(w, p)
  BY RecvFacts
<1> HIDE DEF f
<1>3. /\ f.kind = "PermitGrant" =>
           dec[e].want_remote_grant /\ ~ dec'[e].want_remote_grant
      /\ f.kind # "PermitGrant" =>
           dec'[e].want_remote_grant = dec[e].want_remote_grant
  BY <1>1, TakenFrame
<1>4. /\ Load(Grants, e)' <= Load(Grants, e) /\ Load(Bytes, p)' <= Load(Bytes, p)
      /\ Load(Requests, p)' <= Load(Requests, p)
      /\ \A n : Load(Others(n), p)' <= Load(Others(n), p)
  BY <1>2, WeightTypes
<1>5. Alive(e) /\ Alive(e)' /\ task'[e] # "grant"
  BY <1>1 DEF Alive
<1>6. CASE f.kind # "PermitGrant"
  BY <1>1, <1>3, <1>4, <1>5, <1>6, SenderKept
<1>7. CASE f.kind = "PermitGrant"
  <2>1. p \in Ends /\ p # e
    BY PeerFacts
  <2>2. GrantOK(e, p) /\ Same(p)
    BY <2>1, OthersSame DEF GrantInv
  <2>3. Grants[f] = 1
    BY <1>1, <1>7, FrameWeights
  <2>4. /\ Load(Grants, e) = 1 + Load(Grants, e)' /\ Load(Grants, e)' \in Nat
        /\ Load(Requests, p)' = Load(Requests, p) /\ Load(Requests, p) \in Nat
    BY <1>2, <2>3, WeightTypes
  <2>5. /\ Load(Requests, p) = 0 /\ Load(Grants, e)' = 0
        /\ dec[p].state # "RemoteAwaitingPermit" /\ task[p] # "grant"
        /\ pc[e] # "registered" /\ Load(Grants, e) > 0
    <3>1. Load(Requests, p) + One(dec[p].state = "RemoteAwaitingPermit")
            + One(task[p] = "grant") + Load(Grants, e)
            <= One(dec[e].want_remote_grant /\ pc[e] # "registered")
      BY <1>5, <2>2 DEF GrantOK, Due
    <3>2. /\ \A x : One(x) \in Nat
          /\ One(dec[e].want_remote_grant /\ pc[e] # "registered") <= 1
      BY DEF One
    <3>3. /\ Load(Requests, p) = 0 /\ Load(Grants, e)' = 0 /\ Load(Grants, e) > 0
          /\ One(dec[p].state = "RemoteAwaitingPermit") = 0
          /\ One(task[p] = "grant") = 0
          /\ One(dec[e].want_remote_grant /\ pc[e] # "registered") = 1
      BY ONLY <2>4, <3>1, <3>2
    <3> QED
      BY <3>3 DEF One
  <2>6. /\ dec'[p] = dec[p] /\ task'[p] = task[p] /\ (Alive(p)' <=> Alive(p))
        /\ Len(msg[e]) \in Nat /\ cur[e] \in Nat
    BY <2>2, LedgerTypes DEF Same, Alive
  <2>7. Due(e, p)' = 0
    <3>1. /\ One(dec'[p].state = "RemoteAwaitingPermit") = 0
          /\ One(task'[p] = "grant") = 0
      BY <2>5, <2>6 DEF One
    <3> QED
      BY <2>4, <2>5, <3>1 DEF Due
  <2>8. \A n \in Nat : Covered(p, n) =>
          Load(Bytes, p)' + Len(dec'[p].incoming) + n <= dec'[p].held
    <3>1. \A n \in Nat : Covered(p, n) => Covered(p, n)'
      BY <1>4, <2>1, <2>6, CoveredKept
    <3> QED
      BY <3>1 DEF Covered
  <2>9. Alive(p)' => Covered(p, Rest(e))'
    <3> SUFFICES ASSUME Alive(p)
                 PROVE  Covered(p, Rest(e))'
      BY <2>6
    <3>1. Rest(e) \in Nat /\ Rest(e)' \in Nat
      BY <1>1, <2>6 DEF Rest
    <3>2. CASE pc'[e] = pc[e]
      <4>1. Rest(e)' = Rest(e) /\ Covered(p, Rest(e))
        BY <1>1, <2>2, <3>2 DEF Rest, GrantOK
      <4>2. Load(Bytes, p)' + Len(dec'[p].incoming) + Rest(e)' <= dec'[p].held
        BY <2>8, <3>1, <4>1
      <4> QED
        BY <4>2 DEF Covered
    <3>3. CASE pc[e] = "requested" /\ pc'[e] = "chunks"
      <4>1. Answered(e, p)
        BY <1>5, <2>2, <3>3 DEF GrantOK
      <4>2. Covered(p, Len(msg[e]))
        BY <2>5, <4>1 DEF Answered
      <4>3. Load(Bytes, p)' + Len(dec'[p].incoming) + Len(msg[e]) <= dec'[p].held
        BY <2>6, <2>8, <4>2
      <4>4. Rest(e)' <= Len(msg[e])
        BY <1>1, <2>6 DEF Rest
      <4>5. /\ Load(Bytes, p)' \in Nat /\ Len(dec'[p].incoming) \in Nat
            /\ dec'[p].held \in Nat
        <5>1. Load(Bytes, p)' = Load(Bytes, p) /\ Load(Bytes, p) \in Nat
          BY <1>2, WeightTypes
        <5> QED
          BY <2>1, <5>1, LedgerTypes
      <4>6. Load(Bytes, p)' + Len(dec'[p].incoming) + Rest(e)' <= dec'[p].held
        <5> DEFINE x == Load(Bytes, p)'
                   y == Len(dec'[p].incoming)
                   r == Rest(e)'
                   s == Len(msg[e])
                   z == dec'[p].held
        <5>1. /\ x \in Nat /\ y \in Nat /\ r \in Nat /\ s \in Nat /\ z \in Nat
              /\ x + y + s <= z /\ r <= s
          BY <1>1, <2>6, <3>1, <4>3, <4>4, <4>5
        <5> HIDE DEF x, y, r, s, z
        <5>2. x + y + r <= z
          BY ONLY <5>1
        <5> QED
          BY <5>2 DEF x, y, r, z
      <4> QED
        BY <4>6 DEF Covered
    <3> QED
      BY <1>1, <3>2, <3>3
  <2>10. ASSUME Alive(p)', pc'[e] = "requested"
         PROVE  Answered(e, p)'
    <3>1. Answered(e, p)
      BY <1>1, <1>5, <2>2, <2>6, <2>10 DEF GrantOK
    <3>2. ~ (Load(Grants, e)' > 0)
      BY <2>5
    <3>3. \A n : n = Len(msg[e]) => Load(Others(n), p)' = 0
      <4>1. \A n : Load(Others(n), p)' = Load(Others(n), p)
        BY <1>2, WeightTypes
      <4> QED
        BY <3>1, <4>1 DEF Answered
    <3> QED
      BY <1>1, <2>5, <2>6, <3>2, <3>3 DEF Answered, Load
  <2>11. pc'[e] # "registered"
    BY <1>1, <2>5
  <2>12. Due(e, p)' <= One(dec'[e].want_remote_grant /\ pc'[e] # "registered")
    BY <2>7 DEF One
  <2> QED
    BY <1>5, <2>9, <2>10, <2>11, <2>12 DEF GrantOK
<1> QED
  BY <1>6, <1>7

(* The messages that the end which takes the frame receives: a chunk moves *)
(* from the load of the end into its buffer, a request to its decoder.     *)
LEMMA RecvReceiver ==
  ASSUME TypeOK, TypeOK', PermitInv, GrantInv, NEW e \in Ends, Steps(e),
         CmdRecv(e)
  PROVE  GrantOK(Peer[e], e)'
<1> DEFINE p == Peer[e]
           f == Head(cmdq[e]).frame
<1>1. /\ f \in Frame /\ Accepts(dec[e], f) /\ dec[e] \in Decoder
      /\ Consistent(dec[e]) /\ dec'[e] = DecoderAfter(dec[e], f)
      /\ task[e] = "run" /\ task'[e] \in {"run", "deliver"}
  BY RecvFacts
<1>2. \A w \in Weights :
        /\ Load(w, e) = w[f] + Load(w, e)' /\ w[f] \in Nat
        /\ Load(w, e)' \in Nat /\ Load(w, e) \in Nat
        /\ Load(w, p)' = Load(w, p) /\ Load(w, p) \in Nat
        /\ Load(w, e)' <= Load(w, e) /\ Load(w, p)' <= Load(w, p)
  BY RecvFacts
<1>3. p \in Ends /\ p # e /\ Peer[p] = e
  BY PeerFacts
<1>4. GrantOK(p, e) /\ Same(p)
  BY <1>3, OthersSame DEF GrantInv
<1> HIDE DEF f
<1>5. /\ Load(Grants, p)' <= Load(Grants, p) /\ Load(Bytes, e)' <= Load(Bytes, e)
      /\ Load(Requests, e)' <= Load(Requests, e)
      /\ \A n : Load(Others(n), e)' <= Load(Others(n), e)
  BY <1>2, WeightTypes
<1>6. Alive(e) /\ Alive(e)' /\ task'[e] # "grant" /\ task[e] # "grant"
  BY <1>1 DEF Alive
<1>7. /\ dec'[p] = dec[p] /\ pc'[p] = pc[p] /\ msg'[p] = msg[p]
      /\ cur'[p] = cur[p] /\ (Alive(p)' <=> Alive(p))
      /\ task'[p] = "grant" => hold'[p].kind = "PermitGrant"
  BY <1>4 DEF Same, Alive, GrantOK
<1>8. CASE f.kind \notin {"MultipartMessage", "PermitRequest"}
  <2>1. /\ dec'[e].incoming = dec[e].incoming /\ dec'[e].held = dec[e].held
        /\ dec'[e].state = "RemoteAwaitingPermit" =>
             /\ dec[e].state = "RemoteAwaitingPermit"
             /\ dec'[e].awaiting = dec[e].awaiting
    BY <1>1, <1>8, TakenFrame
  <2> QED
    BY <1>5, <1>6, <2>1, ReceiverKept
<1>9. CASE f.kind = "MultipartMessage"
  <2>1. /\ dec'[e].state # "RemoteAwaitingPermit"
        /\ \/ /\ dec'[e].held = dec[e].held
              /\ Len(dec'[e].incoming) = Len(dec[e].incoming) + f.len
           \/ /\ dec'[e].held = 0 /\ dec'[e].incoming = << >>
              /\ Len(dec[e].incoming) + f.len = dec[e].held
    BY <1>1, <1>9, TakenFrame
  <2>2. Bytes[f] = f.len /\ f.len \in Nat
    BY <1>1, <1>9, FrameWeights DEF Frame
  <2>3. /\ Load(Bytes, e) = f.len + Load(Bytes, e)' /\ Load(Bytes, e)' \in Nat
        /\ Len(dec[e].incoming) \in Nat /\ dec[e].held \in Nat
    BY <1>2, <2>2, WeightTypes, LedgerTypes
  <2>4. ASSUME NEW n \in Nat, Covered(e, n)
        PROVE  Covered(e, n)'
    <3>1. Load(Bytes, e) + Len(dec[e].incoming) + n <= dec[e].held
      BY <2>4 DEF Covered
    <3>2. CASE /\ dec'[e].held = dec[e].held
               /\ Len(dec'[e].incoming) = Len(dec[e].incoming) + f.len
      <4>1. Load(Bytes, e)' + Len(dec'[e].incoming) + n <= dec'[e].held
        BY ONLY <2>2, <2>3, <2>4, <3>1, <3>2
      <4> QED
        BY <4>1 DEF Covered
    <3>3. CASE /\ dec'[e].held = 0 /\ dec'[e].incoming = << >>
               /\ Len(dec[e].incoming) + f.len = dec[e].held
      <4>1. Len(dec'[e].incoming) = 0
        BY <3>3
      <4>2. Load(Bytes, e)' + Len(dec'[e].incoming) + n <= dec'[e].held
        BY ONLY <2>2, <2>3, <2>4, <3>1, <3>3, <4>1
      <4> QED
        BY <4>2 DEF Covered
    <3> QED
      BY <2>1, <3>2, <3>3
  <2>5. \A n \in Nat : Covered(e, n) => Covered(e, n)'
    BY <2>4
  <2> QED
    BY <1>3, <1>4, <1>5, <1>6, <1>7, <2>1, <2>5, GrantCovers
<1>10. CASE f.kind = "PermitRequest"
  <2>1. /\ dec[e].state = "Ready"
        /\ dec'[e].state = "RemoteAwaitingPermit" /\ dec'[e].awaiting = f.len
        /\ dec'[e].incoming = dec[e].incoming /\ dec'[e].held = dec[e].held
    BY <1>1, <1>10, TakenFrame
  <2>2. Requests[f] = 1
    BY <1>1, <1>10, FrameWeights
  <2>3. \A n \in Nat : Covered(e, n) => Covered(e, n)'
    BY <1>5, <2>1, CoveredKept
  <2>4. ASSUME Alive(e)
        PROVE  Covered(e, Rest(p))'
    <3>1. Rest(p) \in Nat /\ Rest(p)' = Rest(p)
      BY <1>3, <1>7, LedgerTypes DEF Rest
    <3>2. Covered(e, Rest(p))
      BY <1>4, <2>4 DEF GrantOK
    <3>3. \A n \in Nat : Covered(e, n) =>
            Load(Bytes, e)' + Len(dec'[e].incoming) + n <= dec'[e].held
      BY <2>3 DEF Covered
    <3>4. Load(Bytes, e)' + Len(dec'[e].incoming) + Rest(p)' <= dec'[e].held
      BY <3>1, <3>2, <3>3
    <3> QED
      BY <3>4 DEF Covered
  <2>5. /\ Load(Requests, e) = 1 + Load(Requests, e)'
        /\ Load(Requests, e)' \in Nat
        /\ Load(Grants, p)' = Load(Grants, p) /\ Load(Grants, p) \in Nat
    BY <1>2, <2>2, WeightTypes
  <2>6. ASSUME Alive(p)
        PROVE  Due(p, e)' <= One(dec[p].want_remote_grant /\ pc[p] # "registered")
    <3>1. Load(Requests, e) + One(dec[e].state = "RemoteAwaitingPermit")
            + One(task[e] = "grant") + Load(Grants, p)
            <= One(dec[p].want_remote_grant /\ pc[p] # "registered")
      BY <1>4, <2>6 DEF GrantOK, Due
    <3>2. /\ One(dec[e].state = "RemoteAwaitingPermit") = 0
          /\ One(dec'[e].state = "RemoteAwaitingPermit") = 1
          /\ One(task[e] = "grant") = 0 /\ One(task'[e] = "grant") = 0
          /\ \A x : One(x) \in Nat
      BY <1>6, <2>1 DEF One
    <3>3. Load(Requests, e)' + One(dec'[e].state = "RemoteAwaitingPermit")
            + One(task'[e] = "grant") + Load(Grants, p)'
            <= One(dec[p].want_remote_grant /\ pc[p] # "registered")
      BY ONLY <2>5, <3>1, <3>2
    <3> QED
      BY <3>3 DEF Due
  <2>7. ASSUME Alive(p), pc[p] = "requested"
        PROVE  Answered(p, e)'
    <3>1. Answered(p, e) /\ Len(msg[p]) \in Nat
      BY <1>3, <1>4, <1>6, <2>7, LedgerTypes DEF GrantOK
    <3>2. Load(Grants, p)' > 0 =>
            Load(Bytes, e)' + Len(dec'[e].incoming) + Len(msg[p]) <= dec'[e].held
      <4>1. Load(Grants, p)' > 0 => Covered(e, Len(msg[p]))
        BY <2>5, <3>1 DEF Answered
      <4>2. \A n \in Nat : Covered(e, n) =>
              Load(Bytes, e)' + Len(dec'[e].incoming) + n <= dec'[e].held
        BY <2>3 DEF Covered
      <4> QED
        BY <3>1, <4>1, <4>2
    <3>3. \A n : n = Len(msg[p]) => Load(Others(n), e)' = 0 /\ Others(n)[f] = 0
      <4>1. \A n : n = Len(msg[p]) => Load(Others(n), e) = 0
        BY <3>1 DEF Answered
      <4>2. \A n : /\ Load(Others(n), e) = Others(n)[f] + Load(Others(n), e)'
                   /\ Others(n)[f] \in Nat /\ Load(Others(n), e)' \in Nat
        BY <1>2, WeightTypes
      <4> TAKE n
      <4> HAVE n = Len(msg[p])
      <4>3. /\ Others(n)[f] + Load(Others(n), e)' = 0
            /\ Others(n)[f] \in Nat /\ Load(Others(n), e)' \in Nat
        BY <4>1, <4>2
      <4> QED
        BY <4>3
    <3>4. f.len = Len(msg[p])
      BY <1>1, <1>10, <3>3, FrameWeights
    <3> QED
      BY <1>6, <1>7, <2>1, <3>2, <3>3, <3>4 DEF Answered, Covered, Load
  <2>8. Alive(p) /\ pc[p] = "registered" => dec[p].want_remote_grant
    BY <1>4 DEF GrantOK
  <2> QED
    BY <1>6, <1>7, <2>4, <2>6, <2>7, <2>8 DEF GrantOK
<1> QED
  BY <1>8, <1>9, <1>10

LEMMA GrantRecv ==
  ASSUME TypeOK, TypeOK', PermitInv, GrantInv, NEW e \in Ends, Steps(e),
         CmdRecv(e)
  PROVE  GrantInv'
BY RecvSender, RecvReceiver, GrantAtTheTwoEnds

(* A new connection: nothing is under way, nothing is asked for.           *)
LEMMA InitGrantInv == Init => GrantInv
<1> SUFFICES ASSUME Init, NEW e \in Ends
             PROVE  GrantOK(e, Peer[e])
  BY DEF GrantInv
<1>1. Peer[e] \in Ends
  BY PeerFacts
<1>2. ASSUME NEW a \in Ends, NEW w
      PROVE  Load(w, a) = 0
  <2>1. wire[a] = << >> /\ cmdq[a] = << >>
    BY DEF Init
  <2>2. OnWire(w, << >>) = 0 /\ FramesOf(<< >>) = << >>
    BY OnWireEmpty, FramesOfEmpty
  <2> QED
    BY <2>1, <2>2 DEF Load, Weight
<1>3. \A a \in Ends : /\ dec[a] = NewDecoder /\ pc[a] = "new" /\ task[a] = "new"
  BY DEF Init
<1>4. /\ NewDecoder.incoming = << >> /\ NewDecoder.held = 0
      /\ NewDecoder.state # "RemoteAwaitingPermit"
      /\ ~ NewDecoder.want_remote_grant
  BY DEF NewDecoder
<1>5. Rest(e) = 0
  BY <1>3 DEF Rest
<1>6. Covered(Peer[e], Rest(e))
  <2>1. Len(<< >>) = 0
    OBVIOUS
  <2> QED
    BY <1>1, <1>2, <1>3, <1>4, <1>5, <2>1 DEF Covered
<1>7. Due(e, Peer[e]) = 0
  <2>1. /\ One(dec[Peer[e]].state = "RemoteAwaitingPermit") = 0
        /\ One(task[Peer[e]] = "grant") = 0
    BY <1>1, <1>3, <1>4 DEF One
  <2> QED
    BY <1>1, <1>2, <2>1 DEF Due
<1>8. One(dec[e].want_remote_grant /\ pc[e] # "registered") \in Nat
  BY DEF One
<1> QED
  BY <1>3, <1>6, <1>7, <1>8 DEF GrantOK

(* What is lost weighs nothing.                                            *)
LEMMA LoseGrantInv ==
  ASSUME TypeOK, TypeOK', GrantInv, NEW e \in Ends, Lose(e)
  PROVE  GrantInv'
<1>1. ASSUME NEW o \in Ends, NEW w \in Weights
      PROVE  Load(w, o)' <= Load(w, o)
  <2>1. /\ wire[o] \in Seq(Frame) /\ w \in [Frame -> Nat]
        /\ wire'[o] \in Seq(Frame)
        /\ OnWire(w, wire[o]) \in Nat /\ OnWire(w, FramesOf(cmdq[o])) \in Nat
    BY LoadType DEF TypeOK
  <2>2. OnWire(w, wire'[o]) \in Nat
    BY <2>1, OnWireType
  <2>3. wire'[o] = wire[o] \/ \E i \in 1..Len(wire[o]) : wire'[o] = Without(wire[o], i)
    BY LosesOne
  <2>4. OnWire(w, wire'[o]) <= OnWire(w, wire[o])
    BY <2>1, <2>2, <2>3, OnWireWithout
  <2>5. Load(w, o)' = OnWire(w, wire'[o]) + OnWire(w, FramesOf(cmdq[o]))
    BY LosesOne DEF Load, Weight, cmdVars
  <2> QED
    BY <2>1, <2>2, <2>4, <2>5 DEF Load, Weight
<1>2. ASSUME NEW o \in Ends
      PROVE  GrantOK(o, Peer[o])'
  <2> DEFINE p == Peer[o]
  <2>1. p \in Ends /\ GrantOK(o, p)
    BY PeerFacts DEF GrantInv
  <2>2. pc' = pc /\ msg' = msg /\ cur' = cur /\ dec' = dec /\ task' = task
        /\ hold' = hold
    BY LosesOne DEF senderVars, cmdVars
  <2>3. /\ Load(Grants, o)' <= Load(Grants, o)
        /\ Load(Bytes, p)' <= Load(Bytes, p)
        /\ Load(Requests, p)' <= Load(Requests, p)
        /\ \A n : Load(Others(n), p)' <= Load(Others(n), p)
    BY <1>1, <2>1, WeightTypes
  <2>4. (task'[o] = "grant" => hold'[o].kind = "PermitGrant")
        /\ (Alive(o)' => Alive(o)) /\ (Alive(p)' => Alive(p))
    BY <2>1, <2>2 DEF GrantOK, Alive
  <2> QED
    BY <2>1, <2>2, <2>3, <2>4, GrantKept
<1> QED
  BY <1>2 DEF GrantInv

LEMMA NextGrantInv ==
  TypeOK /\ TypeOK' /\ PermitInv /\ GrantInv /\ [Next]_vars => GrantInv'
<1> SUFFICES ASSUME TypeOK, TypeOK', PermitInv, GrantInv, [Next]_vars
             PROVE  GrantInv'
  OBVIOUS
<1>1. ASSUME NEW e \in Ends, Steps(e)
      PROVE  GrantInv'
  <2>1. CASE \/ New(e) \/ NewFail(e) \/ SendStart(e) \/ SendOne(e)
             \/ SendAwaitPermit(e) \/ SendFail(e) \/ SendCancel(e)
    BY <1>1, <2>1, GrantSender
  <2>2. CASE SendPermitRequest(e)
    BY <1>1, <2>2, GrantAsks
  <2>3. CASE SendChunk(e)
    BY <1>1, <2>3, GrantSends
  <2>4. CASE \/ Receiver(e) \/ ConnClose(e) \/ OwnerRecv(e) \/ Waiter(e)
             \/ CmdDeliver(e)
    BY <1>1, <2>4, GrantReceiver
  <2>5. CASE \/ CmdRecvError(e) \/ CmdAwaitPermitError(e) \/ CmdClose(e)
             \/ Drop(e)
    BY <1>1, <2>5, GrantStops
  <2>6. CASE CmdAwaitPermit(e)
    BY <1>1, <2>6, GrantAwaits
  <2>7. CASE CmdRemotePermit(e)
    BY <1>1, <2>7, GrantPermits
  <2>8. CASE CmdSendGrant(e)
    BY <1>1, <2>8, GrantTells
  <2>9. CASE CmdRecv(e)
    BY <1>1, <2>9, GrantRecv
  <2> QED
    BY <1>1, <2>1, <2>2, <2>3, <2>4, <2>5, <2>6, <2>7, <2>8, <2>9
       DEF Steps, Sender, CmdTask
<1>2. CASE UNCHANGED vars
  BY <1>2 DEF vars, senderVars, cmdVars, permitVars, appVars, GrantInv, GrantOK,
              Covered, Due, Answered, Load, Rest, Alive
<1>3. ASSUME NEW e \in Ends, Lose(e)
      PROVE  GrantInv'
  BY <1>3, LoseGrantInv
<1> QED
  BY <1>1, <1>2, <1>3 DEF Next, Steps

(* The loads of an end are the sums that ChunksWithinGrant speaks of.      *)
LEMMA LoadOfBytes ==
  ASSUME TypeOK, NEW e \in Ends
  PROVE  Load(Bytes, e) =
           SumOf([i \in 1..Len(wire[e]) |-> ChunkBytes(wire[e][i])])
           + SumOf([i \in 1..Len(cmdq[e]) |-> ChunkBytes(FrameOf(cmdq[e][i]))])
<1>1. wire[e] \in Seq(Frame) /\ cmdq[e] \in Seq(Cmd)
  BY DEF TypeOK
<1>2. \A f \in Frame : Bytes[f] = ChunkBytes(f)
  BY DEF Bytes
<1>3. [i \in 1..Len(wire[e]) |-> Bytes[wire[e][i]]]
        = [i \in 1..Len(wire[e]) |-> ChunkBytes(wire[e][i])]
  <2>1. \A i \in 1..Len(wire[e]) : wire[e][i] \in Frame
    BY <1>1
  <2> QED
    BY <1>2, <2>1
<1>4. /\ Len(FramesOf(cmdq[e])) = Len(cmdq[e])
      /\ \A i \in 1..Len(cmdq[e]) :
           /\ FramesOf(cmdq[e])[i] = FrameOf(cmdq[e][i])
           /\ FrameOf(cmdq[e][i]) \in Frame
  <2>1. FramesOf(cmdq[e]) \in Seq(Frame)
    BY <1>1, FramesOfShape
  <2>2. \A i \in 1..Len(cmdq[e]) : FrameOf(cmdq[e][i]) \in Frame
    BY <1>1, FrameOfType
  <2>3. DOMAIN FramesOf(cmdq[e]) = 1..Len(cmdq[e]) /\ Len(cmdq[e]) \in Nat
    BY <1>1 DEF FramesOf
  <2>4. Len(FramesOf(cmdq[e])) = Len(cmdq[e])
    BY <2>1, <2>3
  <2> QED
    BY <2>2, <2>4 DEF FramesOf
<1>5. [i \in 1..Len(FramesOf(cmdq[e])) |-> Bytes[FramesOf(cmdq[e])[i]]]
        = [i \in 1..Len(cmdq[e]) |-> ChunkBytes(FrameOf(cmdq[e][i]))]
  BY <1>2, <1>4
<1> QED
  BY <1>3, <1>5 DEF Load, Weight, OnWire

(* A remote only sends what it was granted, on every connection and        *)
(* whatever is cancelled, dropped, cut or lost: the permit really bounds   *)
(* what its chunks can take (framed.rs:32-34, 119-181, proto.rs:264-355).  *)
THEOREM ChunksStayWithinGrants == Spec => []ChunksWithinGrant
<1>1. TypeOK /\ GrantInv => ChunksWithinGrant
  <2> SUFFICES ASSUME TypeOK, GrantInv, NEW e \in Ends, Running(e)
               PROVE  SumOf([i \in 1..Len(wire[e]) |-> ChunkBytes(wire[e][i])])
                        + SumOf([i \in 1..Len(cmdq[e]) |->
                                   ChunkBytes(FrameOf(cmdq[e][i]))])
                        + Len(dec[e].incoming) <= dec[e].held
    BY DEF ChunksWithinGrant
  <2> DEFINE p == Peer[e]
  <2>1. p \in Ends /\ Peer[p] = e /\ Alive(e)
    BY PeerFacts DEF Running, Alive
  <2>2. Covered(e, Rest(p))
    BY <2>1 DEF GrantInv, GrantOK
  <2>3. dec[e] \in Decoder /\ msg[p] \in Seq(Byte) /\ cur[p] \in Nat
    BY <2>1 DEF TypeOK
  <2>4. Rest(p) \in Nat /\ Len(dec[e].incoming) \in Nat /\ dec[e].held \in Nat
    BY <2>3 DEF Rest, Decoder
  <2>5. Load(Bytes, e) \in Nat
    BY LoadType, WeightTypes
  <2>6. Load(Bytes, e) + Len(dec[e].incoming) + Rest(p) <= dec[e].held
    BY <2>2 DEF Covered
  <2>7. Load(Bytes, e) + Len(dec[e].incoming) <= dec[e].held
    BY ONLY <2>4, <2>5, <2>6
  <2> QED
    BY <2>7, LoadOfBytes
<1>2. TypeOK /\ TypeOK' /\ PermitInv /\ GrantInv /\ [Next]_vars => GrantInv'
  BY NextGrantInv
<1> QED
  BY <1>1, <1>2, InitGrantInv, FramedTypeOK, FramedInvariant, PTL DEF Spec
----------------------------------------------------------------------------

----------------------------------------------------------------------------
LEMMA PicksBounds ==
  ASSUME NEW m \in Seq(Byte), NEW b \in Seq(Byte), Picks(b, m)
  PROVE  /\ Top(b) \in Nat /\ Top(b) <= Len(m) /\ Len(b) <= Top(b)
         /\ Len(b) = Len(m) => b = m
<1>1. Len(b) \in Nat /\ Len(m) \in Nat
  OBVIOUS
<1>2. CASE b = << >>
  <2>1. Len(b) = 0 /\ Top(b) = 0
    BY <1>2 DEF Top
  <2>2. Len(m) = 0 => m = << >>
    OBVIOUS
  <2> QED
    BY <1>1, <1>2, <2>1, <2>2
<1>3. CASE b # << >>
  <2>1. Len(b) \in 1..Len(b)
    BY <1>3
  <2>2. Top(b) = b[Len(b)][2] /\ b[Len(b)][2] \in Len(b)..Len(m)
    BY <1>3, <2>1 DEF Top, Picks
  <2>3. ASSUME Len(b) = Len(m), NEW i \in 1..Len(b)
        PROVE  b[i] = m[i]
    <3>1. /\ b[i][2] \in i..Len(m) /\ b[i] = m[b[i][2]]
          /\ Len(b) - i <= Top(b) - b[i][2]
      BY DEF Picks
    <3>2. b[i][2] = i
      BY <1>1, <2>2, <2>3, <3>1
    <3> QED
      BY <3>1, <3>2
  <2>4. Len(b) = Len(m) => b = m
    BY <2>3, SeqExt
  <2> QED
    BY <1>1, <2>2, <2>4
<1> QED
  BY <1>2, <1>3

LEMMA PicksMore ==
  ASSUME NEW m \in Seq(Byte), NEW b \in Seq(Byte), Picks(b, m),
         NEW x \in Seq(Byte), x # << >>, NEW o \in Nat, Top(b) <= o,
         o + Len(x) <= Len(m),
         \A i \in 1..Len(x) : x[i] = m[o + i] /\ x[i][2] = o + i
  PROVE  Picks(b \o x, m) /\ Top(b \o x) = o + Len(x)
<1> DEFINE t == b \o x
<1>1. /\ Top(b) \in Nat /\ Len(b) <= Top(b) /\ Len(b) \in Nat
      /\ Len(x) \in Nat \ {0} /\ Len(m) \in Nat
  BY PicksBounds
<1>2. /\ t \in Seq(Byte) /\ Len(t) = Len(b) + Len(x)
      /\ \A i \in 1..Len(b) : t[i] = b[i]
      /\ \A i \in Len(b) + 1..Len(b) + Len(x) : t[i] = x[i - Len(b)]
  BY ONLY b \in Seq(Byte), x \in Seq(Byte)
<1> HIDE DEF t
<1>3. ASSUME NEW i \in Len(b) + 1..Len(b) + Len(x)
      PROVE  /\ t[i] = m[o + (i - Len(b))] /\ t[i][2] = o + (i - Len(b))
             /\ i - Len(b) \in 1..Len(x)
  <2>1. i - Len(b) \in 1..Len(x)
    BY <1>1
  <2> QED
    BY <1>2, <2>1
<1>4. Top(t) = o + Len(x)
  <2>1. Len(t) \in Len(b) + 1..Len(b) + Len(x) /\ Len(t) - Len(b) = Len(x)
        /\ t # << >>
    BY <1>1, <1>2
  <2>2. t[Len(t)][2] = o + Len(x)
    BY <1>3, <2>1
  <2> QED
    BY <2>1, <2>2 DEF Top
<1>5. ASSUME NEW i \in 1..Len(t)
      PROVE  /\ t[i][2] \in i..Len(m) /\ t[i] = m[t[i][2]]
             /\ Len(t) - i <= Top(t) - t[i][2]
  <2>1. CASE i <= Len(b)
    <3>1. i \in 1..Len(b) /\ t[i] = b[i]
      BY <1>1, <1>2, <2>1
    <3>2. /\ b[i][2] \in i..Len(m) /\ b[i] = m[b[i][2]]
          /\ Len(b) - i <= Top(b) - b[i][2]
      BY <3>1 DEF Picks
    <3>3. Len(b) + Len(x) - i <= o + Len(x) - b[i][2]
      BY <1>1, <3>1, <3>2
    <3> QED
      BY <1>2, <1>4, <3>1, <3>2, <3>3
  <2>2. CASE ~ (i <= Len(b))
    <3>1. i \in Len(b) + 1..Len(b) + Len(x)
      BY <1>1, <1>2, <2>2
    <3>2. t[i] = m[o + (i - Len(b))] /\ t[i][2] = o + (i - Len(b))
      BY <1>3, <3>1
    <3>3. /\ o + (i - Len(b)) \in i..Len(m)
          /\ Len(b) + Len(x) - i <= o + Len(x) - (o + (i - Len(b)))
      BY <1>1, <3>1
    <3> QED
      BY <1>2, <1>4, <3>2, <3>3
  <2> QED
    BY <2>1, <2>2
<1>6. Picks(t, m)
  BY <1>5 DEF Picks
<1> QED
  BY <1>4, <1>6 DEF t

(* What a chunk that comes later in a message adds to what is there.       *)
LEMMA ChunkAdds ==
  ASSUME NEW s \in Msgs, NEW d \in Decoder, NEW f \in Frame, IsChunk(f),
         PartOf(s, f), Collects(d, s, Num(f)), Top(d.incoming) <= Off(f)
  PROVE  /\ Num(f) \in 1..Len(s) /\ s[Num(f)] \in Seq(Byte)
         /\ Picks(d.incoming \o f.body, s[Num(f)])
         /\ Top(d.incoming \o f.body) = Til(f)
         /\ Off(f) = Len(d.incoming) => Len(d.incoming) + Len(f.body) = Til(f)
         /\ Len(d.incoming) + Len(f.body) \in Nat
         /\ Len(d.incoming) + Len(f.body) <= Til(f)
         /\ Til(f) \in Nat /\ Til(f) <= Len(s[Num(f)]) /\ Off(f) < Til(f)
         /\ Len(d.incoming) + Len(f.body) = Len(s[Num(f)]) =>
              d.incoming \o f.body = s[Num(f)]
         /\ Len(d.incoming \o f.body) = Len(d.incoming) + Len(f.body)
<1> DEFINE k == Num(f)
           m == s[k]
           o == Off(f)
           t == Til(f)
           b == d.incoming
           x == f.body
<1>1. k \in 1..Len(s) /\ m \in Seq(Byte) /\ b \in Seq(Byte) /\ x \in Seq(Byte)
  BY DEF PartOf, Msgs, Decoder, Frame
<1>2. /\ o \in Nat /\ t <= Len(m) /\ t = o + Len(x) /\ Len(x) # 0
      /\ \A i \in 1..Len(x) : x[i] = m[o + i] /\ x[i][2] = o + i
  BY DEF PartOf, Til
<1>3. Picks(b, m) /\ Top(b) <= o
  BY DEF Collects
<1> HIDE DEF k, m, o, t, b, x
<1>4. x # << >> /\ Len(x) \in Nat /\ Len(b) \in Nat /\ Len(m) \in Nat
  BY <1>1, <1>2
<1>5. Picks(b \o x, m) /\ Top(b \o x) = t
  BY <1>1, <1>2, <1>3, <1>4, PicksMore
<1>6. b \o x \in Seq(Byte) /\ Len(b \o x) = Len(b) + Len(x)
  BY <1>1
<1>7. Len(b) <= Top(b) /\ Top(b) \in Nat
  BY <1>1, <1>3, PicksBounds
<1>8. /\ o = Len(b) => Len(b) + Len(x) = t
      /\ Len(b) + Len(x) \in Nat /\ Len(b) + Len(x) <= t
      /\ t \in Nat /\ o < t
  BY <1>2, <1>3, <1>4, <1>7
<1>9. Len(b) + Len(x) = Len(m) => b \o x = m
  BY <1>1, <1>5, <1>6, PicksBounds
<1> QED
  BY <1>1, <1>2, <1>5, <1>6, <1>8, <1>9 DEF k, m, o, t, b, x

(* A decoder goes on with a message while chunks and grants come.          *)
LEMMA CollectsAfter ==
  ASSUME NEW s \in Msgs, NEW d \in Decoder, NEW f \in Frame, NEW k \in 1..Len(s),
         Accepts(d, f), Collects(d, s, k),
         IsChunk(f) =>
           /\ PartOf(s, f) /\ Num(f) = k /\ Top(d.incoming) <= Off(f)
           /\ Til(f) < Len(s[k])
  PROVE  /\ Collects(DecoderAfter(d, f), s, k)
         /\ ~ IsChunk(f) => DecoderAfter(d, f).incoming = d.incoming
         /\ IsChunk(f) =>
              /\ Top(DecoderAfter(d, f).incoming) = Til(f)
              /\ Off(f) = Len(d.incoming) =>
                   Len(DecoderAfter(d, f).incoming) = Til(f)
<1> DEFINE d2 == DecoderAfter(d, f)
<1>1. d.state = "ReceiveChunked" /\ d.want_size = Len(s[k])
  BY DEF Collects
<1>2. f.kind \in {"MultipartMessage", "PermitGrant"}
  BY <1>1 DEF Accepts, AcceptsRequest, Frame, Kinds
<1>3. CASE f.kind = "PermitGrant"
  <2>1. d2.state = d.state /\ d2.want_size = d.want_size /\ d2.incoming = d.incoming
    BY <1>3 DEF DecoderAfter, AfterRemoteGrant, Decoder
  <2> HIDE DEF d2
  <2>2. Collects(d2, s, k) /\ ~ IsChunk(f)
    BY <1>3, <2>1 DEF Collects, IsChunk
  <2> QED
    BY <2>1, <2>2 DEF d2
<1>4. CASE f.kind = "MultipartMessage"
  <2>0. IsChunk(f)
    BY <1>4 DEF IsChunk
  <2>1. /\ s[k] \in Seq(Byte) /\ Len(d.incoming) + Len(f.body) <= Til(f)
        /\ Picks(d.incoming \o f.body, s[k]) /\ Til(f) \in Nat
        /\ Top(d.incoming \o f.body) = Til(f)
        /\ Len(d.incoming) + Len(f.body) \in Nat
        /\ Off(f) = Len(d.incoming) => Len(d.incoming \o f.body) = Til(f)
    BY <2>0, ChunkAdds
  <2>2. ~ Completes(d, f)
    <3>1. Til(f) < Len(s[k]) /\ Len(s[k]) \in Nat
      BY <2>0, <2>1
    <3> DEFINE n == Len(d.incoming) + Len(f.body)
    <3>2. n \in Nat /\ n <= Til(f) /\ Til(f) \in Nat
      BY <2>1
    <3> HIDE DEF n
    <3>3. n # Len(s[k])
      BY ONLY <3>1, <3>2
    <3> QED
      BY <1>1, <3>3 DEF Completes, n
  <2>3. /\ d2.state = d.state /\ d2.want_size = d.want_size
        /\ d2.incoming = d.incoming \o f.body
    BY <1>4, <2>2 DEF DecoderAfter, AfterChunk, Decoder
  <2> HIDE DEF d2
  <2>4. Collects(d2, s, k)
    BY <1>1, <2>1, <2>3 DEF Collects
  <2> QED
    BY <2>0, <2>1, <2>3, <2>4 DEF d2
<1> QED
  BY <1>2, <1>3, <1>4

(* What is said of a chunk that is the first frame.                        *)
LEMMA FirstChunk ==
  ASSUME NEW s \in Msgs, NEW d \in Decoder, NEW f \in Frame, NEW g, NEW l \in Nat,
         IsChunk(f), Flows({}, f, d, s, g, l)
  PROVE  /\ PartOf(s, f) /\ Collects(d, s, Num(f)) /\ Top(d.incoming) <= Off(f)
         /\ Num(f) \in g \/ Off(f) = Len(d.incoming)
BY DEF Flows, Carries, IsChunk, ChunkFollows

(* The decoder hands out a message with the frame that ends it, and then   *)
(* always, unless the message may be missing.                              *)
LEMMA MessageOfFrame ==
  ASSUME NEW s \in Msgs, NEW d \in Decoder, NEW f \in Frame, NEW g, NEW l \in Nat,
         Accepts(d, f), Flows({}, f, d, s, g, l)
  PROVE  /\ HandsOut(d, f) => Finishes(s, f) /\ ResultOf(d, f).body = s[Num(f)]
         /\ Finishes(s, f) => HandsOut(d, f) \/ Num(f) \in g
<1>1. CASE f.kind = "CompleteMessage"
  <2>1. Finishes(s, f) /\ f.body = s[Num(f)]
    BY <1>1 DEF Flows, Finishes, Carries, IsChunk, PartOf
  <2>2. ResultOf(d, f).what = "Message" /\ ResultOf(d, f).body = f.body
    BY <1>1 DEF ResultOf, Outcome
  <2> QED
    BY <2>1, <2>2 DEF HandsOut
<1>2. CASE f.kind = "MultipartMessage"
  <2>1. IsChunk(f) /\ Carries(f)
    BY <1>2 DEF IsChunk, Carries
  <2>2. /\ PartOf(s, f) /\ Collects(d, s, Num(f)) /\ Top(d.incoming) <= Off(f)
        /\ Num(f) \in g \/ Off(f) = Len(d.incoming)
    BY <2>1, FirstChunk
  <2>3. /\ Len(d.incoming) + Len(f.body) \in Nat /\ Til(f) \in Nat
        /\ Len(d.incoming) + Len(f.body) <= Til(f)
        /\ Til(f) <= Len(s[Num(f)]) /\ Len(s[Num(f)]) \in Nat
        /\ Off(f) = Len(d.incoming) => Len(d.incoming) + Len(f.body) = Til(f)
        /\ Len(d.incoming) + Len(f.body) = Len(s[Num(f)]) =>
             d.incoming \o f.body = s[Num(f)]
    <3>1. /\ s[Num(f)] \in Seq(Byte)
          /\ Len(d.incoming) + Len(f.body) \in Nat /\ Til(f) \in Nat
          /\ Len(d.incoming) + Len(f.body) <= Til(f)
          /\ Til(f) <= Len(s[Num(f)])
          /\ Off(f) = Len(d.incoming) => Len(d.incoming) + Len(f.body) = Til(f)
          /\ Len(d.incoming) + Len(f.body) = Len(s[Num(f)]) =>
               d.incoming \o f.body = s[Num(f)]
      BY <2>1, <2>2, ChunkAdds
    <3>2. Len(s[Num(f)]) \in Nat
      BY ONLY <3>1
    <3> QED
      BY ONLY <3>1, <3>2
  <2>4. Completes(d, f) <=> Len(d.incoming) + Len(f.body) = Len(s[Num(f)])
    BY <2>2 DEF Completes, Collects
  <2>5. Finishes(s, f) <=> Til(f) = Len(s[Num(f)])
    BY <2>1 DEF Finishes
  <2> DEFINE n == Len(d.incoming) + Len(f.body)
             m == Len(s[Num(f)])
  <2>6. n = m => Til(f) = m
    <3>1. n \in Nat /\ n <= Til(f) /\ Til(f) <= m /\ Til(f) \in Nat /\ m \in Nat
      BY <2>3
    <3> HIDE DEF n, m
    <3> QED
      BY ONLY <3>1
  <2>7. /\ Completes(d, f) => Finishes(s, f)
        /\ Finishes(s, f) => Completes(d, f) \/ Num(f) \in g
    <3>1. Off(f) = Len(d.incoming) => n = Til(f)
      BY <2>3
    <3>2. Completes(d, f) <=> n = m
      BY <2>4
    <3>3. Finishes(s, f) <=> Til(f) = m
      BY <2>5
    <3> HIDE DEF n, m
    <3> QED
      BY ONLY <2>2, <2>6, <3>1, <3>2, <3>3
  <2>8. ResultOf(d, f) = IF Completes(d, f)
                         THEN Outcome("Message", d.want_size, Assembled(d, f), 0)
                         ELSE Idle
    BY <1>2 DEF ResultOf
  <2>9. CASE Completes(d, f)
    <3>1. ResultOf(d, f).what = "Message" /\ ResultOf(d, f).body = Assembled(d, f)
      BY <2>8, <2>9 DEF Outcome
    <3>2. Assembled(d, f) = s[Num(f)]
      BY <2>3, <2>4, <2>9 DEF Assembled
    <3> QED
      BY <2>7, <2>9, <3>1, <3>2 DEF HandsOut
  <2>10. CASE ~ Completes(d, f)
    <3>1. ResultOf(d, f).what = "Idle"
      BY <2>8, <2>10 DEF Outcome, Idle
    <3> QED
      BY <2>7, <2>10, <3>1 DEF HandsOut
  <2> QED
    BY <2>9, <2>10
<1>3. CASE ~ Carries(f)
  BY <1>3 DEF Carries, Finishes, ResultOf, Outcome, Idle, Accepts, HandsOut
<1> QED
  BY <1>1, <1>2, <1>3 DEF Carries

LEMMA SettlesTaken ==
  ASSUME NEW s, NEW f, NEW B, NEW g, NEW j, Settles({f} \cup B, s, g, j),
         Finishes(s, f) => Num(f) # j \/ j \in g
  PROVE  Settles(B, s, g, j)
BY DEF Settles

(* The frame h, behind a frame f that the decoder takes.                   *)
LEMMA FlowsTaken ==
  ASSUME NEW s \in Msgs, NEW d \in Decoder, NEW f \in Frame, NEW h \in Frame,
         NEW B, NEW g, NEW l \in Nat, NEW l2 \in Nat, Accepts(d, f),
         Flows({}, f, d, s, g, l), Flows({f} \cup B, h, d, s, g, l),
         l2 = IF HandsOut(d, f) THEN Num(f) ELSE l
  PROVE  Flows(B, h, DecoderAfter(d, f), s, g, l2)
<1> DEFINE d2 == DecoderAfter(d, f)
<1> SUFFICES ASSUME Carries(h)
             PROVE  Flows(B, h, d2, s, g, l2)
  BY DEF Flows
<1>1. /\ PartOf(s, h) /\ l < Num(h)
      /\ \A b \in {f} \cup B : Finishes(s, b) => Num(b) < Num(h)
      /\ Finishes(s, h) => \A j \in l + 1..Num(h) - 1 : Settles({f} \cup B, s, g, j)
      /\ IsChunk(h) => Collects(d, s, Num(h)) /\ ChunkFollows({f} \cup B, h, d, g)
  BY DEF Flows
<1>2. Num(h) \in 1..Len(s) /\ Num(h) \in Nat
  BY <1>1 DEF PartOf, Msgs
<1>3. Finishes(s, f) => l < Num(f) /\ Num(f) \in Nat
  BY DEF Flows, Finishes, PartOf, Msgs
<1>0. /\ HandsOut(d, f) => Finishes(s, f)
      /\ Finishes(s, f) => HandsOut(d, f) \/ Num(f) \in g
  BY MessageOfFrame
<1>4. l2 < Num(h) /\ l <= l2
  BY <1>0, <1>1, <1>3
<1>5. ASSUME Finishes(s, h), NEW j \in l2 + 1..Num(h) - 1
      PROVE  Settles(B, s, g, j)
  <2>1. j \in l + 1..Num(h) - 1
    BY <1>2, <1>4
  <2>2. Finishes(s, f) => Num(f) # j \/ j \in g
    BY <1>0, <1>3
  <2> QED
    BY <1>1, <1>5, <2>1, <2>2, SettlesTaken
<1>6. ASSUME IsChunk(h)
      PROVE  Collects(d2, s, Num(h)) /\ ChunkFollows(B, h, d2, g)
  <2>1. Collects(d, s, Num(h)) /\ ChunkFollows({f} \cup B, h, d, g)
    BY <1>1, <1>6
  <2>2. /\ Til(h) <= Len(s[Num(h)]) /\ Off(h) < Til(h) /\ Off(h) \in Nat
        /\ Len(s[Num(h)]) \in Nat /\ Til(h) \in Nat
    <3>1. Off(h) \in Nat /\ h.len \in Nat /\ h.len # 0 /\ Til(h) <= Len(s[Num(h)])
      BY <1>1, <1>6 DEF PartOf, Frame
    <3>2. Til(h) = Off(h) + h.len
      BY DEF Til
    <3>3. Len(s[Num(h)]) \in Nat
      BY <1>2 DEF Msgs
    <3> QED
      BY <3>1, <3>2, <3>3
  <2>3. CASE IsChunk(f)
    <3>1. /\ PartOf(s, f) /\ Top(d.incoming) <= Off(f)
          /\ Num(f) \in g \/ Off(f) = Len(d.incoming)
          /\ Off(f) < Til(f) /\ Til(f) \in Nat /\ Off(f) \in Nat
      <4>1. /\ PartOf(s, f) /\ Collects(d, s, Num(f)) /\ Top(d.incoming) <= Off(f)
            /\ Num(f) \in g \/ Off(f) = Len(d.incoming)
        BY <2>3, FirstChunk
      <4>2. Off(f) < Til(f) /\ Til(f) \in Nat
        BY <2>3, <4>1, ChunkAdds
      <4> QED
        BY <2>3, <4>1, <4>2 DEF PartOf
    <3>2. Til(f) <= Off(h) /\ Num(f) = Num(h)
      BY <2>1, <2>3 DEF ChunkFollows
    <3>3. Til(f) < Len(s[Num(h)])
      BY <2>2, <3>1, <3>2
    <3>4. /\ Collects(d2, s, Num(h)) /\ Top(d2.incoming) = Til(f)
          /\ Off(f) = Len(d.incoming) => Len(d2.incoming) = Til(f)
      BY <1>2, <2>1, <2>3, <3>1, <3>2, <3>3, CollectsAfter
    <3>5. Off(f) = Len(d.incoming) => Off(h) # Len(d.incoming)
      BY <2>2, <3>1, <3>2
    <3>6. \/ Num(h) \in g \/ Off(h) = Len(d2.incoming)
          \/ \E b \in B : IsChunk(b) /\ Til(b) = Off(h)
      <4>1. \/ Num(h) \in g \/ Off(h) = Len(d.incoming) \/ Off(h) = Til(f)
            \/ \E b \in B : IsChunk(b) /\ Til(b) = Off(h)
        BY <2>1 DEF ChunkFollows
      <4> HIDE DEF d2
      <4> QED
        BY <3>1, <3>2, <3>4, <3>5, <4>1
    <3>7. \A b \in B : IsChunk(b) => Til(b) <= Off(h) /\ Num(b) = Num(h)
      BY <2>1 DEF ChunkFollows
    <3> HIDE DEF d2
    <3> QED
      BY <3>2, <3>4, <3>6, <3>7 DEF ChunkFollows
  <2>4. CASE ~ IsChunk(f)
    <3>1. Collects(d2, s, Num(h)) /\ d2.incoming = d.incoming
      BY <1>2, <2>1, <2>4, CollectsAfter
    <3> HIDE DEF d2
    <3> QED
      BY <2>1, <2>4, <3>1 DEF ChunkFollows
  <2> QED
    BY <2>3, <2>4
<1> HIDE DEF d2
<1> QED
  BY <1>1, <1>4, <1>5, <1>6 DEF Flows

(* The send, when the remote takes a frame of those on their way.          *)
LEMMA SendingTaken ==
  ASSUME NEW s \in Msgs, NEW d \in Decoder, NEW f \in Frame, NEW F, NEW g,
         NEW l \in Nat, NEW l2 \in Nat, NEW at, NEW c \in Nat, NEW comes,
         s # << >> \/ at \in {"new", "idle"},
         at = "chunks" => c < Len(s[Len(s)]),
         Accepts(d, f), Flows({}, f, d, s, g, l),
         Sending({f} \cup F, d, s, g, l, at, c, comes),
         l2 = IF HandsOut(d, f) THEN Num(f) ELSE l
  PROVE  Sending(F, DecoderAfter(d, f), s, g, l2, at, c, comes)
<1> DEFINE d2 == DecoderAfter(d, f)
           n == Over(at, s)
<1>1. n \in Nat /\ Len(s) \in Nat
  BY DEF Over, Msgs
<1>2. Finishes(s, f) => l < Num(f) /\ Num(f) \in Nat /\ Num(f) <= n
  BY DEF Flows, Finishes, PartOf, Msgs, Sending
<1>3. l <= n /\ \A j \in l + 1..n : Settles({f} \cup F, s, g, j)
  BY DEF Sending
<1>0. /\ HandsOut(d, f) => Finishes(s, f)
      /\ Finishes(s, f) => HandsOut(d, f) \/ Num(f) \in g
  BY MessageOfFrame
<1> HIDE DEF n
<1>4. l2 <= n /\ l <= l2
  BY <1>0, <1>1, <1>2, <1>3
<1>5. ASSUME NEW j \in l2 + 1..n
      PROVE  Settles(F, s, g, j)
  <2>1. j \in l + 1..n
    BY <1>1, <1>4
  <2>2. Finishes(s, f) => Num(f) # j \/ j \in g
    BY <1>0, <1>2
  <2> QED
    BY <1>3, <2>1, <2>2, SettlesTaken
<1>6. \A h \in F : Finishes(s, h) => Num(h) <= n
  BY DEF Sending, n
<1>7. ASSUME at \in {"requested", "chunks"}
      PROVE  Len(s) \in 1..Len(s)
  BY <1>1, <1>7
<1>8. ASSUME at = "requested", comes
      PROVE  /\ Collects(d2, s, Len(s)) /\ d2.incoming = << >>
             /\ \A h \in F : ~ IsChunk(h)
  <2>1. /\ Collects(d, s, Len(s)) /\ d.incoming = << >>
        /\ \A h \in {f} \cup F : ~ IsChunk(h)
    BY <1>8 DEF Sending
  <2>2. Collects(d2, s, Len(s)) /\ d2.incoming = d.incoming
    BY <1>7, <1>8, <2>1, CollectsAfter
  <2> HIDE DEF d2
  <2> QED
    BY <2>1, <2>2
<1>9. ASSUME at = "chunks"
      PROVE  /\ Collects(d2, s, Len(s))
             /\ \/ Len(s) \in g \/ c = Len(d2.incoming)
                \/ \E h \in F : IsChunk(h) /\ Til(h) = c
             /\ \A h \in F : IsChunk(h) => Til(h) <= c /\ Num(h) = Len(s)
             /\ Top(d2.incoming) <= c
  <2>1. /\ Collects(d, s, Len(s))
        /\ \/ Len(s) \in g \/ c = Len(d.incoming)
           \/ \E h \in {f} \cup F : IsChunk(h) /\ Til(h) = c
        /\ \A h \in {f} \cup F : IsChunk(h) => Til(h) <= c /\ Num(h) = Len(s)
        /\ Top(d.incoming) <= c
    BY <1>9 DEF Sending
  <2>2. CASE IsChunk(f)
    <3>1. /\ PartOf(s, f) /\ Top(d.incoming) <= Off(f)
          /\ Num(f) \in g \/ Off(f) = Len(d.incoming)
          /\ Off(f) < Til(f) /\ Til(f) \in Nat
      BY <2>2, FirstChunk, ChunkAdds
    <3>2. Til(f) <= c /\ Num(f) = Len(s) /\ Til(f) < Len(s[Len(s)])
      <4>1. Len(s[Len(s)]) \in Nat
        BY <1>7, <1>9 DEF Msgs
      <4> QED
        BY <1>9, <2>1, <2>2, <3>1, <4>1
    <3>3. /\ Collects(d2, s, Len(s)) /\ Top(d2.incoming) = Til(f)
          /\ Off(f) = Len(d.incoming) => Len(d2.incoming) = Til(f)
      BY <1>7, <1>9, <2>1, <2>2, <3>1, <3>2, CollectsAfter
    <3>4. Off(f) = Len(d.incoming) => c # Len(d.incoming)
      <4>1. Off(f) \in Nat
        BY <2>2, <3>1 DEF PartOf
      <4> QED
        BY <3>1, <3>2, <4>1
    <3> HIDE DEF d2
    <3>5. \/ Len(s) \in g \/ c = Len(d.incoming) \/ Til(f) = c
          \/ \E h \in F : IsChunk(h) /\ Til(h) = c
      BY <2>1
    <3>6. \/ Len(s) \in g \/ c = Len(d2.incoming)
          \/ \E h \in F : IsChunk(h) /\ Til(h) = c
      BY <3>1, <3>2, <3>3, <3>4, <3>5
    <3> QED
      BY <2>1, <3>2, <3>3, <3>6
  <2>3. CASE ~ IsChunk(f)
    <3>1. Collects(d2, s, Len(s)) /\ d2.incoming = d.incoming
      BY <1>7, <1>9, <2>1, <2>3, CollectsAfter
    <3> HIDE DEF d2
    <3> QED
      BY <2>1, <2>3, <3>1
  <2> QED
    BY <2>2, <2>3
<1> HIDE DEF d2
<1>10. Sending(F, d2, s, g, l2, at, c, comes)
  BY <1>4, <1>5, <1>6, <1>8, <1>9 DEF Sending, n
<1> QED
  BY <1>10 DEF d2

LEMMA ItemFrames ==
  ASSUME NEW S \in Seq(Cmd)
  PROVE  /\ \A x \in Items(S) : x[1] \in Frames(S) /\ x[2] \subseteq Frames(S)
         /\ \A f \in Frames(S) : \E x \in Items(S) : x[1] = f
         /\ Frames(S) \subseteq Frame
<1>1. ASSUME NEW i \in Recvs(S)
      PROVE  S[i].frame \in Frame
  BY DEF Recvs, Cmd
<1>2. ASSUME NEW i \in Recvs(S)
      PROVE  S[i].frame \in Frames(S) /\ Before(S, i) \subseteq Frames(S)
  BY DEF Frames, Before
<1>3. \A x \in Items(S) : x[1] \in Frames(S) /\ x[2] \subseteq Frames(S)
  BY <1>2 DEF Items
<1>4. ASSUME NEW f \in Frames(S)
      PROVE  \E x \in Items(S) : x[1] = f
  <2>1. PICK i \in Recvs(S) : S[i].frame = f
    BY DEF Frames
  <2>2. << f, Before(S, i) >> \in Items(S)
    BY <2>1 DEF Items
  <2> QED
    BY <2>2
<1>5. Frames(S) \subseteq Frame
  BY <1>1 DEF Frames
<1> QED
  BY <1>3, <1>4, <1>5

(* Some of the frames are left, and more sends are given up.               *)
LEMMA FlowsInSame ==
  ASSUME NEW I, NEW I2, NEW d, NEW d2, NEW s, NEW g, NEW g2, NEW l,
         FlowsIn(I, d, s, g, l), \A x \in I2 : Carries(x[1]) => x \in I,
         g \subseteq g2,
         d.state = "ReceiveChunked" =>
           /\ d2.state = d.state /\ d2.want_size = d.want_size
           /\ d2.incoming = d.incoming
  PROVE  FlowsIn(I2, d2, s, g2, l)
<1> SUFFICES ASSUME NEW x \in I2, Carries(x[1])
             PROVE  Flows(x[2], x[1], d2, s, g2, l)
  BY DEF FlowsIn, Flows
<1>1. Flows(x[2], x[1], d, s, g, l)
  BY DEF FlowsIn
<1>2. \A j : Settles(x[2], s, g, j) => Settles(x[2], s, g2, j)
  BY DEF Settles
<1>3. \A k : Collects(d, s, k) => Collects(d2, s, k) /\ d2.incoming = d.incoming
  BY DEF Collects
<1> QED
  BY <1>1, <1>2, <1>3 DEF Flows, ChunkFollows

LEMMA FramesKnown ==
  ASSUME NEW S \in Seq(Cmd), NEW d, NEW s, NEW g, NEW l,
         FlowsIn(Items(S), d, s, g, l)
  PROVE  /\ Known(Frames(S), s)
         /\ \A f \in Frames(S) : IsChunk(f) => d.state = "ReceiveChunked"
<1> SUFFICES ASSUME NEW f \in Frames(S), Carries(f)
             PROVE  /\ Num(f) \in 1..Len(s)
                    /\ IsChunk(f) => d.state = "ReceiveChunked" /\ Til(f) \in Nat
  BY DEF Known, Carries, IsChunk
<1>1. PICK x \in Items(S) : x[1] = f
  BY ItemFrames
<1>2. Flows(x[2], f, d, s, g, l)
  BY <1>1 DEF FlowsIn
<1>3. PartOf(s, f) /\ (IsChunk(f) => d.state = "ReceiveChunked")
  BY <1>2 DEF Flows, Collects
<1>4. f.len \in Nat
  BY ItemFrames DEF Frame
<1> QED
  BY <1>3, <1>4 DEF PartOf, Til

(* One more message is sent.                                               *)
LEMMA GrownMessages ==
  ASSUME NEW s \in Msgs, NEW m \in Seq(Byte)
  PROVE  /\ Append(s, m) \in Msgs /\ Len(Append(s, m)) = Len(s) + 1
         /\ \A k \in 1..Len(s) : Append(s, m)[k] = s[k]
         /\ Append(s, m)[Len(s) + 1] = m /\ Len(s) \in Nat
BY DEF Msgs

LEMMA FramesSame ==
  ASSUME NEW F, NEW s \in Msgs, NEW s2 \in Msgs, Known(F, s),
         \A k \in 1..Len(s) : s2[k] = s[k]
  PROVE  /\ \A f \in F : Finishes(s2, f) <=> Finishes(s, f)
         /\ \A g, j : Settles(F, s2, g, j) <=> Settles(F, s, g, j)
<1>1. \A f \in F : Finishes(s2, f) <=> Finishes(s, f)
  BY DEF Finishes, Known
<1> QED
  BY <1>1 DEF Settles

LEMMA FlowsInSend ==
  ASSUME NEW S \in Seq(Cmd), NEW d, NEW s \in Msgs, NEW g, NEW l,
         NEW m \in Seq(Byte), FlowsIn(Items(S), d, s, g, l)
  PROVE  FlowsIn(Items(S), d, Append(s, m), g, l)
<1> DEFINE s2 == Append(s, m)
<1>1. /\ s2 \in Msgs /\ Len(s2) = Len(s) + 1 /\ Len(s) \in Nat
      /\ \A k \in 1..Len(s) : s2[k] = s[k]
  BY GrownMessages
<1> HIDE DEF s2
<1> SUFFICES ASSUME NEW x \in Items(S), Carries(x[1])
             PROVE  Flows(x[2], x[1], d, s2, g, l)
  BY DEF FlowsIn, Flows, s2
<1> DEFINE f == x[1]
           B == x[2]
<1>2. Known(B \cup {f}, s)
  BY FramesKnown, ItemFrames DEF Known
<1>3. /\ \A b \in B \cup {f} : Finishes(s2, b) <=> Finishes(s, b)
      /\ \A j : Settles(B, s2, g, j) <=> Settles(B, s, g, j)
  <2>1. Known(B, s)
    BY <1>2 DEF Known
  <2> HIDE DEF f, B
  <2> QED
    BY <1>1, <1>2, <2>1, FramesSame
<1>4. /\ PartOf(s, f) /\ l < Num(f)
      /\ \A b \in B : Finishes(s, b) => Num(b) < Num(f)
      /\ Finishes(s, f) => \A j \in l + 1..Num(f) - 1 : Settles(B, s, g, j)
      /\ IsChunk(f) => Collects(d, s, Num(f)) /\ ChunkFollows(B, f, d, g)
  BY DEF FlowsIn, Flows
<1> HIDE DEF f, B
<1>5. Num(f) \in 1..Len(s)
  BY <1>4 DEF PartOf
<1>6. PartOf(s2, f) /\ (IsChunk(f) => Collects(d, s2, Num(f)))
  BY <1>1, <1>4, <1>5 DEF PartOf, Collects
<1>7. Flows(B, f, d, s2, g, l)
  BY <1>3, <1>4, <1>6 DEF Flows
<1> QED
  BY <1>7 DEF f, B

(* The send goes on, or the remote grants it: nothing is pushed but frames *)
(* without a part of a message.                                            *)
LEMMA SendingMoves ==
  ASSUME NEW F, NEW F2, NEW d, NEW d2, NEW s, NEW g, NEW g2, NEW l, NEW at,
         NEW at2, NEW c, NEW c2, NEW comes, NEW comes2,
         Sending(F, d, s, g, l, at, c, comes),
         F \subseteq F2, \A f \in F2 : Carries(f) => f \in F, g \subseteq g2,
         d2.state = d.state /\ d2.want_size = d.want_size
           /\ d2.incoming = d.incoming,
         at \in {"new", "idle"} <=> at2 \in {"new", "idle"},
         at2 = "requested" /\ comes2 => at = "requested" /\ comes,
         at2 = "chunks" => \/ at = "chunks" /\ c2 = c
                           \/ at = "requested" /\ comes /\ c2 = 0
  PROVE  Sending(F2, d2, s, g2, l, at2, c2, comes2)
<1>1. Over(at2, s) = Over(at, s)
  BY DEF Over
<1>2. \A j : Settles(F, s, g, j) => Settles(F2, s, g2, j)
  BY DEF Settles
<1>3. \A k : Collects(d, s, k) => Collects(d2, s, k)
  BY DEF Collects
<1>4. \A f \in F2 : (IsChunk(f) => f \in F) /\ (Finishes(s, f) => f \in F)
  BY DEF IsChunk, Carries, Finishes
<1>5. ASSUME at2 = "chunks"
      PROVE  /\ Collects(d2, s, Len(s))
             /\ \/ Len(s) \in g2 \/ c2 = Len(d2.incoming)
                \/ \E f \in F2 : IsChunk(f) /\ Til(f) = c2
             /\ \A f \in F2 : IsChunk(f) => Til(f) <= c2 /\ Num(f) = Len(s)
             /\ Top(d2.incoming) <= c2
  <2>1. CASE at = "chunks" /\ c2 = c
    BY <1>3, <1>4, <2>1 DEF Sending
  <2>2. CASE at = "requested" /\ comes /\ c2 = 0
    <3>1. /\ Collects(d, s, Len(s)) /\ d.incoming = << >>
          /\ \A f \in F : ~ IsChunk(f)
      BY <2>2 DEF Sending
    <3>2. Len(d2.incoming) = 0 /\ Top(d2.incoming) = 0
      BY <3>1 DEF Top
    <3> QED
      BY <1>3, <1>4, <2>2, <3>1, <3>2
  <2> QED
    BY <1>5, <2>1, <2>2
<1>6. ASSUME at2 = "requested", comes2
      PROVE  /\ Collects(d2, s, Len(s)) /\ d2.incoming = << >>
             /\ \A f \in F2 : ~ IsChunk(f)
  BY <1>3, <1>4, <1>6 DEF Sending
<1>7. /\ l <= Over(at, s)
      /\ \A f \in F : Finishes(s, f) => Num(f) <= Over(at, s)
      /\ \A j \in l + 1..Over(at, s) : Settles(F, s, g, j)
  BY DEF Sending
<1> QED
  BY <1>1, <1>2, <1>4, <1>5, <1>6, <1>7 DEF Sending

(* A send starts.                                                          *)
LEMMA SendingStarts ==
  ASSUME NEW F, NEW d, NEW s \in Msgs, NEW g, NEW l, NEW c, NEW c2, NEW comes,
         NEW comes2, NEW m \in Seq(Byte), NEW at2 \in {"one", "await"},
         Known(F, s), Sending(F, d, s, g, l, "idle", c, comes)
  PROVE  Sending(F, d, Append(s, m), g, l, at2, c2, comes2)
<1> DEFINE s2 == Append(s, m)
<1>1. /\ s2 \in Msgs /\ Len(s2) = Len(s) + 1 /\ Len(s) \in Nat
      /\ \A k \in 1..Len(s) : s2[k] = s[k]
  BY GrownMessages
<1> HIDE DEF s2
<1>2. Over(at2, s2) = Len(s) /\ Over("idle", s) = Len(s)
  BY <1>1 DEF Over
<1>3. /\ \A f \in F : Finishes(s2, f) <=> Finishes(s, f)
      /\ \A j : Settles(F, s2, g, j) <=> Settles(F, s, g, j)
  BY <1>1, FramesSame
<1>4. Sending(F, d, s2, g, l, at2, c2, comes2)
  BY <1>2, <1>3 DEF Sending
<1> QED
  BY <1>4 DEF s2

(* A send is given up.                                                     *)
LEMMA SendingEnds ==
  ASSUME NEW F, NEW d, NEW s \in Msgs, s # << >>, NEW g, NEW l \in Nat, NEW at,
         at \notin {"new", "idle"}, NEW c, NEW c2, NEW comes, NEW comes2,
         Known(F, s), Sending(F, d, s, g, l, at, c, comes)
  PROVE  Sending(F, d, s, g \cup {Len(s)}, l, "idle", c2, comes2)
<1>1. Over("idle", s) = Len(s) /\ Over(at, s) = Len(s) - 1 /\ Len(s) \in Nat
  BY DEF Over, Msgs
<1>2. \A f \in F : Finishes(s, f) => Num(f) <= Len(s)
  BY DEF Known, Finishes
<1>3. l <= Len(s) - 1 /\ \A j \in l + 1..Len(s) - 1 : Settles(F, s, g, j)
  BY <1>1 DEF Sending
<1>4. ASSUME NEW j \in l + 1..Len(s)
      PROVE  Settles(F, s, g \cup {Len(s)}, j)
  <2>1. CASE j = Len(s)
    BY <2>1 DEF Settles
  <2>2. CASE j # Len(s)
    <3>1. j \in l + 1..Len(s) - 1
      BY <1>1, <2>2
    <3> QED
      BY <1>3, <3>1 DEF Settles
  <2> QED
    BY <2>1, <2>2
<1>5. l <= Len(s)
  BY <1>1, <1>3
<1> QED
  BY <1>1, <1>2, <1>4, <1>5 DEF Sending

(* The message of a send, or a part of it, joins the frames.               *)
LEMMA SendingPushes ==
  ASSUME NEW F, NEW d \in Decoder, NEW s \in Msgs, s # << >>, NEW g,
         NEW l \in Nat, NEW at \in {"one", "chunks"}, NEW c \in Nat, NEW comes,
         NEW f \in Frame, NEW at2, NEW c2 \in Nat, NEW comes2,
         Known(F, s), Sending(F, d, s, g, l, at, c, comes),
         Carries(f), PartOf(s, f), Num(f) = Len(s),
         IsChunk(f) => at = "chunks" /\ Off(f) = c /\ c2 = Til(f),
         at2 = IF Finishes(s, f) THEN "idle" ELSE "chunks"
  PROVE  /\ Flows(F, f, d, s, g, l)
         /\ Sending(F \cup {f}, d, s, g, l, at2, c2, comes2)
<1>1. Over(at, s) = Len(s) - 1 /\ Len(s) \in Nat
  BY DEF Over, Msgs
<1>2. /\ l <= Len(s) - 1
      /\ \A b \in F : Finishes(s, b) => Num(b) <= Len(s) - 1
      /\ \A j \in l + 1..Len(s) - 1 : Settles(F, s, g, j)
  BY <1>1 DEF Sending
<1>3. ASSUME IsChunk(f)
      PROVE  /\ Collects(d, s, Len(s)) /\ Top(d.incoming) <= c
             /\ \/ Len(s) \in g \/ c = Len(d.incoming)
                \/ \E b \in F : IsChunk(b) /\ Til(b) = c
             /\ \A b \in F : IsChunk(b) => Til(b) <= c /\ Num(b) = Len(s)
             /\ Off(f) = c /\ c2 = Til(f) /\ Til(f) = c + f.len
  BY <1>3 DEF Sending, Til
<1>4. Flows(F, f, d, s, g, l)
  <2>1. \A b \in F : Finishes(s, b) => Num(b) < Num(f)
    <3>1. \A b \in F : Finishes(s, b) => Num(b) \in Nat
      BY DEF Known, Finishes
    <3> QED
      BY <1>1, <1>2, <3>1
  <2>2. l < Num(f)
    BY <1>1, <1>2
  <2>3. IsChunk(f) => ChunkFollows(F, f, d, g)
    BY <1>3 DEF ChunkFollows
  <2> QED
    BY <1>2, <1>3, <2>1, <2>2, <2>3 DEF Flows
<1>5. CASE Finishes(s, f)
  <2>1. at2 = "idle" /\ Over(at2, s) = Len(s)
    BY <1>5 DEF Over
  <2>2. \A b \in F \cup {f} : Finishes(s, b) => Num(b) <= Len(s)
    BY <1>1 DEF Known, Finishes
  <2>3. ASSUME NEW j \in l + 1..Len(s)
        PROVE  Settles(F \cup {f}, s, g, j)
    <3>1. CASE j = Len(s)
      BY <1>5, <3>1 DEF Settles
    <3>2. CASE j # Len(s)
      <4>1. j \in l + 1..Len(s) - 1
        BY <1>1, <3>2
      <4> QED
        BY <1>2, <4>1 DEF Settles
    <3> QED
      BY <3>1, <3>2
  <2>4. l <= Len(s)
    BY <1>1, <1>2
  <2>5. Sending(F \cup {f}, d, s, g, l, at2, c2, comes2)
    BY <2>1, <2>2, <2>3, <2>4 DEF Sending
  <2> QED
    BY <1>4, <2>5
<1>6. CASE ~ Finishes(s, f)
  <2>1. at2 = "chunks" /\ Over(at2, s) = Len(s) - 1 /\ IsChunk(f)
    BY <1>1, <1>6 DEF Over, Finishes
  <2>2. \A b \in F \cup {f} : Finishes(s, b) => Num(b) <= Len(s) - 1
    BY <1>2, <1>6
  <2>3. \A j \in l + 1..Len(s) - 1 : Settles(F \cup {f}, s, g, j)
    BY <1>2 DEF Settles
  <2>4. c <= c2
    <3>1. f.len \in Nat /\ c2 = c + f.len
      BY <1>3, <2>1 DEF Frame
    <3> QED
      BY <3>1
  <2>5. \A b \in F \cup {f} : IsChunk(b) => Til(b) <= c2 /\ Num(b) = Len(s)
    <3>1. ASSUME NEW b \in F, IsChunk(b)
          PROVE  Til(b) <= c2 /\ Num(b) = Len(s)
      <4>1. Til(b) \in Nat /\ Til(b) <= c /\ Num(b) = Len(s)
        BY <1>3, <2>1, <3>1 DEF Known, Carries, IsChunk
      <4> QED
        BY <2>4, <4>1
    <3>2. Til(f) <= c2
      BY <1>3, <2>1
    <3> QED
      BY <3>1, <3>2
  <2>6. Top(d.incoming) <= c2
    <3>1. Collects(d, s, Len(s)) /\ Top(d.incoming) <= c
      BY <1>3, <2>1
    <3>2. Len(s) \in 1..Len(s)
      BY <1>1
    <3>3. s[Len(s)] \in Seq(Byte) /\ d.incoming \in Seq(Byte)
      BY <3>2 DEF Decoder, Msgs
    <3>4. Top(d.incoming) \in Nat
      BY <3>1, <3>3, PicksBounds DEF Collects
    <3> QED
      BY <2>4, <3>1, <3>4
  <2>7. Sending(F \cup {f}, d, s, g, l, at2, c2, comes2)
    BY <1>2, <1>3, <2>1, <2>2, <2>3, <2>5, <2>6 DEF Sending
  <2> QED
    BY <1>4, <2>7
<1> QED
  BY <1>5, <1>6

(* The remote grants the permit.                                           *)
LEMMA SendingGrants ==
  ASSUME NEW F, NEW d \in Decoder, NEW s, NEW g, NEW l, NEW at, NEW c,
         NEW comes, NEW comes2, NEW n, MayGrant(d), d.incoming = << >>,
         Sending(F, d, s, g, l, at, c, comes),
         \A f \in F : IsChunk(f) => d.state = "ReceiveChunked",
         at = "requested" /\ comes2 =>
           d.awaiting = Len(s[Len(s)]) /\ s[Len(s)] \in Seq(Byte)
  PROVE  Sending(F, AfterGrant(d, n), s, g, l, at, c, comes2)
<1> DEFINE d2 == AfterGrant(d, n)
<1>1. d.state = "RemoteAwaitingPermit"
  BY DEF MayGrant
<1>2. /\ d2.state = "ReceiveChunked" /\ d2.want_size = d.awaiting
      /\ d2.incoming = << >>
  BY DEF AfterGrant, Decoder
<1> HIDE DEF d2
<1>3. at # "chunks" /\ \A f \in F : ~ IsChunk(f)
  BY <1>1 DEF Sending, Collects
<1>4. ASSUME at = "requested", comes2
      PROVE  Collects(d2, s, Len(s))
  <2>1. s[Len(s)] \in Seq(Byte) /\ d2.want_size = Len(s[Len(s)])
    BY <1>2, <1>4
  <2>2. Len(d2.incoming) = 0
    BY <1>2
  <2> QED
    BY <1>2, <2>1, <2>2 DEF Collects, Picks
<1>5. Sending(F, d2, s, g, l, at, c, comes2)
  BY <1>2, <1>3, <1>4 DEF Sending
<1> QED
  BY <1>5 DEF d2

LEMMA BodyShape ==
  ASSUME NEW k, NEW n \in Nat
  PROVE  /\ Len(Body(k, n)) = n /\ \A i \in 1..n : Body(k, n)[i] = << k, i >>
         /\ n # 0 => NumOf(Body(k, n)) = k
<1>1. Len(Body(k, n)) = n /\ \A i \in 1..n : Body(k, n)[i] = << k, i >>
  BY DEF Body
<1>2. n # 0 => 1 \in 1..n
  OBVIOUS
<1> QED
  BY <1>1, <1>2 DEF NumOf

(* A message that goes in one frame.                                       *)
LEMMA WholePart ==
  ASSUME NEW s \in Msgs, s # << >>, NEW n \in Nat \ {0},
         s[Len(s)] = Body(Len(s), n)
  PROVE  LET f == CompleteFrame(s[Len(s)]) IN
         /\ f \in Frame /\ Carries(f) /\ ~ IsChunk(f)
         /\ PartOf(s, f) /\ Num(f) = Len(s) /\ Finishes(s, f)
<1> DEFINE m == s[Len(s)]
           f == CompleteFrame(m)
<1>1. m \in Seq(Byte) /\ Len(s) \in 1..Len(s)
  BY DEF Msgs
<1>2. Len(m) # 0 /\ NumOf(m) = Len(s)
  BY BodyShape
<1> HIDE DEF m
<1>3. /\ f.kind = "CompleteMessage" /\ f.len = Len(m) /\ f.body = m
      /\ f \in Frame
  BY <1>1, FrameTypes DEF CompleteFrame
<1> HIDE DEF f
<1>4. Carries(f) /\ ~ IsChunk(f) /\ Num(f) = Len(s)
  BY <1>2, <1>3 DEF Carries, IsChunk, Num
<1>5. PartOf(s, f) /\ Finishes(s, f)
  BY <1>1, <1>2, <1>3, <1>4 DEF PartOf, Finishes, m
<1> QED
  BY <1>3, <1>4, <1>5 DEF f, m

(* The next chunk of a message.                                            *)
LEMMA ChunkPart ==
  ASSUME NEW s \in Msgs, s # << >>, NEW n \in Nat,
         s[Len(s)] = Body(Len(s), n), NEW c \in Nat, c < n
  PROVE  LET x == NextChunk(s[Len(s)], c)
             f == ChunkFrame(x) IN
         /\ f \in Frame /\ Carries(f) /\ IsChunk(f)
         /\ PartOf(s, f) /\ Num(f) = Len(s) /\ Off(f) = c
         /\ Til(f) = c + Len(x) /\ c + Len(x) \in Nat
         /\ Finishes(s, f) <=> c + Len(x) = Len(s[Len(s)])
<1> DEFINE m == s[Len(s)]
           x == NextChunk(m, c)
           f == ChunkFrame(x)
           left == Len(m) - c
           amt  == IF MaxChunk < left THEN MaxChunk ELSE left
<1>1. m \in Seq(Byte) /\ Len(s) \in 1..Len(s)
  BY DEF Msgs
<1>2. Len(m) = n /\ \A i \in 1..n : m[i] = << Len(s), i >>
  BY BodyShape
<1> HIDE DEF m
<1>3. amt \in Nat \ {0} /\ c + amt <= Len(m) /\ c + 1 \in 1..Len(m)
  BY <1>2, MaxChunkAssumption
<1>4. x = SubSeq(m, c + 1, c + amt)
  BY DEF NextChunk
<1> HIDE DEF amt, x
<1>5. x \in Seq(Byte) /\ Len(x) = amt /\ x[1] = m[c + 1]
  BY ONLY <1>1, <1>3, <1>4
<1>6. c + 1 \in 1..n
  BY <1>2
<1>7. x[1] = << Len(s), c + 1 >>
  BY <1>2, <1>5, <1>6
<1>8. /\ f.kind = "MultipartMessage" /\ f.len = Len(x) /\ f.body = x
      /\ f \in Frame
  BY <1>5, FrameTypes DEF ChunkFrame
<1> HIDE DEF f
<1>9. Carries(f) /\ IsChunk(f) /\ Num(f) = Len(s)
  BY <1>7, <1>8 DEF Carries, IsChunk, Num, NumOf
<1>10. Off(f) = c /\ Til(f) = c + Len(x) /\ c + Len(x) \in Nat
  <2>1. Off(f) = (c + 1) - 1
    BY <1>7, <1>8 DEF Off
  <2>2. Off(f) = c
    BY <2>1
  <2> QED
    BY <1>3, <1>5, <1>8, <2>2 DEF Til
<1>11. PartOf(s, f)
  <2>1. \A i \in 1..Len(x) : x[i] = m[c + i] /\ c + i \in 1..n
    <3>1. \A i \in 1..amt : c + i \in 1..Len(m)
      BY <1>2, <1>3
    <3>2. \A i \in 1..amt : x[i] = m[c + i]
      <4>1. c + 1 \in 1..Len(m) /\ c + amt \in 1..Len(m) /\ amt \in Nat
        BY <1>2, <1>3
      <4>2. \A i \in 1..amt : x[i] = m[c + 1 + i - 1]
        BY ONLY <1>1, <1>4, <4>1
      <4>3. \A i \in 1..amt : c + 1 + i - 1 = c + i
        BY <4>1
      <4> QED
        BY <4>2, <4>3
    <3> QED
      BY <1>2, <1>5, <3>1, <3>2
  <2>2. \A i \in 1..f.len : f.body[i] = m[Off(f) + i] /\ f.body[i][2] = Off(f) + i
    BY <1>2, <1>8, <1>10, <2>1
  <2>3. Til(f) <= Len(s[Num(f)]) /\ s[Num(f)] = m
    BY <1>3, <1>5, <1>9, <1>10 DEF m
  <2>4. f.len = Len(f.body) /\ f.len # 0 /\ Off(f) \in Nat
    BY <1>3, <1>5, <1>8, <1>10
  <2> QED
    BY <1>1, <1>8, <1>9, <2>2, <2>3, <2>4 DEF PartOf
<1>12. Finishes(s, f) <=> c + Len(x) = Len(m)
  BY <1>9, <1>10 DEF Finishes, m
<1> QED
  BY <1>8, <1>9, <1>10, <1>11, <1>12 DEF f, x, m

----------------------------------------------------------------------------
(* What arrived.                                                           *)
LEMMA InOrderGrows ==
  ASSUME NEW R, NEW s \in Msgs, NEW g, NEW g2, NEW s2, g \subseteq g2,
         s2 = s \/ \E m \in Seq(Byte) : s2 = Append(s, m), InOrder(R, s, g)
  PROVE  InOrder(R, s2, g2)
<1>1. \A k \in 1..Len(s) : s2[k] = s[k] /\ k \in 1..Len(s2)
  BY GrownMessages
<1> QED
  BY <1>1 DEF InOrder

LEMMA InOrderPrefix ==
  ASSUME NEW R \in Msgs, NEW Q \in Msgs, NEW s, NEW g, InOrder(R \o Q, s, g)
  PROVE  InOrder(R, s, g)
<1> DEFINE T == R \o Q
<1>1. Len(R) \in Nat /\ Len(T) = Len(R) + Len(Q) /\ Len(Q) \in Nat
      /\ \A i \in 1..Len(R) : T[i] = R[i]
  BY DEF Msgs
<1> HIDE DEF T
<1>2. InOrder(T, s, g)
  BY DEF T
<1>3. \A i \in 0..Len(R) : UpTo(T, i) = UpTo(R, i)
  BY <1>1 DEF UpTo
<1>4. ASSUME NEW i \in 1..Len(R)
      PROVE  i \in 1..Len(T) /\ T[i] = R[i] /\ UpTo(T, i - 1) = UpTo(R, i - 1)
  <2>1. i \in 1..Len(T) /\ i - 1 \in 0..Len(R)
    BY <1>1
  <2> QED
    BY <1>1, <1>3, <2>1
<1> QED
  BY <1>2, <1>4 DEF InOrder

LEMMA InOrderAppend ==
  ASSUME NEW R \in Msgs, NEW s \in Msgs, NEW g, InOrder(R, s, g),
         NEW k \in 1..Len(s), NumOf(s[k]) = k, UpTo(R, Len(R)) < k,
         UpTo(R, Len(R)) + 1..k - 1 \subseteq g
  PROVE  /\ InOrder(Append(R, s[k]), s, g)
         /\ UpTo(Append(R, s[k]), Len(Append(R, s[k]))) = k
<1> DEFINE m == s[k]
           T == Append(R, m)
<1>0. m \in Seq(Byte)
  BY DEF Msgs
<1>1. /\ Len(R) \in Nat /\ Len(T) = Len(R) + 1 /\ T[Len(R) + 1] = m
      /\ \A i \in 1..Len(R) : T[i] = R[i]
  BY <1>0 DEF Msgs
<1> HIDE DEF T
<1>2. \A i \in 0..Len(R) : UpTo(T, i) = UpTo(R, i)
  BY <1>1 DEF UpTo
<1>3. ASSUME NEW i \in 1..Len(T)
      PROVE  /\ NumOf(T[i]) \in 1..Len(s) /\ T[i] = s[NumOf(T[i])]
             /\ UpTo(T, i - 1) < NumOf(T[i])
             /\ UpTo(T, i - 1) + 1..NumOf(T[i]) - 1 \subseteq g
  <2>1. CASE i \in 1..Len(R)
    <3>1. i - 1 \in 0..Len(R)
      BY <1>1, <2>1
    <3> QED
      BY <1>1, <1>2, <2>1, <3>1 DEF InOrder
  <2>2. CASE i = Len(R) + 1
    <3>1. i - 1 = Len(R) /\ Len(R) \in 0..Len(R)
      BY <1>1, <2>2
    <3>2. T[i] = m /\ UpTo(T, i - 1) = UpTo(R, Len(R))
      BY <1>1, <1>2, <2>2, <3>1
    <3> QED
      BY <3>2
  <2> QED
    BY <1>1, <2>1, <2>2
<1>4. UpTo(T, Len(T)) = k
  BY <1>1 DEF UpTo
<1>5. InOrder(T, s, g) /\ UpTo(T, Len(T)) = k
  BY <1>3, <1>4 DEF InOrder
<1> QED
  BY <1>5 DEF T

LEMMA ItemJoins ==
  ASSUME NEW M, NEW R \in Seq(M), NEW q \in Seq(M), NEW m \in M
  PROVE  /\ R \o (q \o << m >>) = R \o (Append(q, m) \o << >>)
         /\ R \o (q \o << m >>) = Append(R \o (q \o << >>), m)
<1>1. R \o (q \o << m >>) = R \o (Append(q, m) \o << >>)
  <2>1. q \o << m >> = Append(q, m)
    OBVIOUS
  <2>2. Append(q, m) \o << >> = Append(q, m)
    OBVIOUS
  <2> QED
    BY <2>1, <2>2
<1>2. R \o (q \o << m >>) = Append(R \o (q \o << >>), m)
  OBVIOUS
<1> QED
  BY <1>1, <1>2

LEMMA ItemMoves ==
  ASSUME NEW M, NEW R \in Seq(M), NEW q \in Seq(M), NEW h \in Seq(M), q # << >>
  PROVE  Append(R, Head(q)) \o (Tail(q) \o h) = R \o (q \o h)
OBVIOUS

LEMMA MsgJoins ==
  ASSUME NEW R \in Msgs, NEW q \in Msgs, NEW m \in Seq(Byte)
  PROVE  /\ R \o (q \o << m >>) = R \o (Append(q, m) \o << >>)
         /\ R \o (q \o << m >>) = Append(R \o (q \o << >>), m)
<1> DEFINE Joins(x, y, z) ==
             /\ x \o (y \o << z >>) = x \o (Append(y, z) \o << >>)
             /\ x \o (y \o << z >>) = Append(x \o (y \o << >>), z)
<1>1. \A M : \A x, y \in Seq(M), z \in M : Joins(x, y, z)
  BY ItemJoins
<1> HIDE DEF Joins
<1>2. Joins(R, q, m)
  BY <1>1 DEF Msgs
<1> QED
  BY <1>2 DEF Joins

LEMMA MsgMoves ==
  ASSUME NEW R \in Msgs, NEW q \in Msgs, NEW h \in Msgs, q # << >>
  PROVE  Append(R, Head(q)) \o (Tail(q) \o h) = R \o (q \o h)
<1> DEFINE Moves(x, y, z) ==
             y # << >> => Append(x, Head(y)) \o (Tail(y) \o z) = x \o (y \o z)
<1>1. \A M : \A x, y, z \in Seq(M) : Moves(x, y, z)
  BY ItemMoves
<1> HIDE DEF Moves
<1>2. Moves(R, q, h)
  BY <1>1 DEF Msgs
<1> QED
  BY <1>2 DEF Moves

(* What an end has of the messages.                                        *)
LEMMA ArrivedType ==
  ASSUME TypeOK, NEW b \in Ends
  PROVE  /\ Arrived(b) \in Msgs /\ recvd[b] \in Msgs /\ Held(b) \in Msgs
         /\ msgq[b] \in Msgs /\ sent[b] \in Msgs /\ Excused(b) \in SUBSET Nat
<1>1. /\ recvd[b] \in Msgs /\ msgq[b] \in Msgs /\ sent[b] \in Msgs
      /\ gaveup[b] \in SUBSET Nat /\ hold[b].body \in Seq(Byte)
  BY DEF TypeOK, Msgs, Frame
<1>2. Held(b) \in Msgs
  BY <1>1 DEF Held, Msgs
<1>3. msgq[b] \o Held(b) \in Msgs
  BY <1>1, <1>2 DEF Msgs
<1>4. Arrived(b) \in Msgs
  BY <1>1, <1>3 DEF Arrived, Msgs
<1> QED
  BY <1>1, <1>2, <1>4 DEF Excused

LEMMA ChanQuiet ==
  ASSUME TypeOK, NEW a \in Ends, NEW b \in Ends, ChanOK(a, b),
         sent'[a] = sent[a], msg'[a] = msg[a], cur'[a] = cur[a],
         Excused(a)' = Excused(a),
         \/ pc'[a] = pc[a]
         \/ pc[a] = "new" /\ pc'[a] = "idle"
         \/ pc[a] = "await" /\ pc'[a] = "registering"
         \/ pc[a] = "registering" /\ pc'[a] = "registered"
         \/ pc[a] = "registered" /\ pc'[a] = "requested" /\ ~ Comes(a, b)'
         \/ pc[a] = "requested" /\ pc'[a] = "chunks" /\ Comes(a, b),
         Arrived(b)' = Arrived(b) \/ (~ Alive(b)' /\ Arrived(b)' = recvd[b]),
         Alive(b)' =>
           /\ Alive(b)
           /\ \A x \in Items(Stream(b)') : Carries(x[1]) => x \in Items(Stream(b))
           /\ dec'[b].state = dec[b].state /\ dec'[b].want_size = dec[b].want_size
           /\ dec'[b].incoming = dec[b].incoming,
         link'[a] = "open" /\ link'[b] = "open" /\ Alive(b)' =>
           /\ link[a] = "open" /\ link[b] = "open"
           /\ Adds(Stream(b), Stream(b)')
           /\ Comes(a, b)' => Comes(a, b)
  PROVE  ChanOK(a, b)'
<1>1. /\ Arrived(b) \in Msgs /\ recvd[b] \in Msgs /\ msgq[b] \in Msgs
      /\ Held(b) \in Msgs
  BY ArrivedType
<1>2. OwnMessage(a) /\ InOrder(Arrived(b), sent[a], Excused(a))
      /\ FlowOK(a, b) /\ SendingOK(a, b)
  BY DEF ChanOK
<1>3. OwnMessage(a)'
  <2>1. \A k \in 1..Len(sent[a]) :
          k \in 1..MaxMsgs[a] /\ \E n \in Sizes[a] : sent[a][k] = Body(k, n)
    BY <1>2 DEF OwnMessage
  <2>2. /\ pc'[a] \notin {"new", "idle"} =>
             sent[a] # << >> /\ msg[a] = sent[a][Len(sent[a])]
        /\ pc'[a] \in {"await", "registering", "registered", "requested"} =>
             cur[a] = 0 /\ Len(msg[a]) > 0
    BY <1>2 DEF OwnMessage
  <2>3. pc'[a] = "chunks" => cur[a] < Len(msg[a])
    <3>1. pc[a] = "chunks" => cur[a] < Len(msg[a])
      BY <1>2 DEF OwnMessage
    <3>2. pc[a] = "requested" => cur[a] = 0 /\ 0 < Len(msg[a])
      <4>1. msg[a] \in Seq(Byte)
        BY DEF TypeOK
      <4>2. pc[a] = "requested" => cur[a] = 0 /\ Len(msg[a]) > 0
        BY <1>2 DEF OwnMessage
      <4> QED
        BY <4>1, <4>2
    <3> QED
      BY <3>1, <3>2
  <2> QED
    BY <2>1, <2>2, <2>3 DEF OwnMessage
<1>4. InOrder(Arrived(b)', sent[a], Excused(a))
  <2>1. InOrder(recvd[b], sent[a], Excused(a))
    <3>1. msgq[b] \o Held(b) \in Msgs
      BY <1>1 DEF Msgs
    <3> QED
      BY <1>1, <1>2, <3>1, InOrderPrefix DEF Arrived
  <2> QED
    BY <1>2, <2>1
<1>5. FlowOK(a, b)'
  <2> SUFFICES ASSUME Alive(b)'
               PROVE  FlowsIn(Items(Stream(b)'), dec'[b], sent[a], Excused(a),
                              Last(b)')
    BY DEF FlowOK
  <2>1. Last(b)' = Last(b)
    BY DEF Last
  <2>2. FlowsIn(Items(Stream(b)), dec[b], sent[a], Excused(a), Last(b))
    BY <1>2 DEF FlowOK
  <2> QED
    BY <2>1, <2>2, FlowsInSame
<1>6. SendingOK(a, b)'
  <2> SUFFICES ASSUME link'[a] = "open", link'[b] = "open", Alive(b)'
               PROVE  Sending(Frames(Stream(b)'), dec'[b], sent[a], Excused(a),
                              Last(b)', pc'[a], cur[a], Comes(a, b)')
    BY DEF SendingOK
  <2>1. Last(b)' = Last(b)
    BY DEF Last
  <2>2. Sending(Frames(Stream(b)), dec[b], sent[a], Excused(a), Last(b), pc[a],
                cur[a], Comes(a, b))
    BY <1>2 DEF SendingOK
  <2>3. /\ Frames(Stream(b)) \subseteq Frames(Stream(b)')
        /\ \A f \in Frames(Stream(b)') : Carries(f) => f \in Frames(Stream(b))
        /\ dec'[b].state = dec[b].state /\ dec'[b].want_size = dec[b].want_size
        /\ dec'[b].incoming = dec[b].incoming
        /\ Comes(a, b)' => Comes(a, b)
    BY DEF Adds
  <2>4. /\ pc[a] \in {"new", "idle"} <=> pc'[a] \in {"new", "idle"}
        /\ pc'[a] = "requested" /\ Comes(a, b)' => pc[a] = "requested"
        /\ pc'[a] = "chunks" =>
             pc[a] = "chunks" \/ (pc[a] = "requested" /\ Comes(a, b))
    OBVIOUS
  <2>5. pc[a] = "requested" => cur[a] = 0
    BY <1>2 DEF OwnMessage
  <2>6. Sending(Frames(Stream(b)'), dec'[b], sent[a], Excused(a), Last(b), pc'[a],
                cur[a], Comes(a, b)')
    BY <2>2, <2>3, <2>4, <2>5, SendingMoves
  <2> QED
    BY <2>1, <2>6
<1> QED
  BY <1>3, <1>4, <1>5, <1>6 DEF ChanOK

LEMMA ExcusedSame ==
  ASSUME NEW e \in Ends, NEW o \in Ends, Steps(e), gaveup'[o] = gaveup[o]
  PROVE  Excused(o)' = Excused(o)
BY StepLosesNone DEF Excused

(* The messages of the acting end e, and those it receives.                *)
LEMMA SenderRole ==
  ASSUME TypeOK, ChanInv, NEW e \in Ends, NEW p \in Ends, p = Peer[e], Steps(e),
         sent'[e] = sent[e], msg'[e] = msg[e], cur'[e] = cur[e],
         gaveup'[e] = gaveup[e],
         \/ pc'[e] = pc[e]
         \/ pc[e] = "new" /\ pc'[e] = "idle"
         \/ pc[e] = "await" /\ pc'[e] = "registering"
         \/ pc[e] = "registering" /\ pc'[e] = "registered"
         \/ pc[e] = "registered" /\ pc'[e] = "requested" /\ ~ Comes(e, p)'
         \/ pc[e] = "requested" /\ pc'[e] = "chunks" /\ Comes(e, p),
         \A x \in Items(Stream(p)') : Carries(x[1]) => x \in Items(Stream(p)),
         link'[e] = "open" =>
           /\ link[e] = "open" /\ Adds(Stream(p), Stream(p)')
           /\ Alive(e)' => Alive(e) /\ (Granted(e)' => Granted(e))
  PROVE  ChanOK(e, p)'
<1>1. p # e /\ ChanOK(e, p)
  BY PeerFacts DEF ChanInv
<1>2. Same(p)
  BY <1>1, OthersSame
<1>3. /\ Arrived(p)' = Arrived(p) /\ (Alive(p)' <=> Alive(p))
      /\ dec'[p] = dec[p] /\ link'[p] = link[p] /\ task'[p] = task[p]
  BY <1>2 DEF Same, Arrived, Held, Alive
<1>4. link'[e] = "open" => (Comes(e, p)' => Comes(e, p))
  BY <1>3 DEF Comes
<1>5. Excused(e)' = Excused(e)
  BY ExcusedSame
<1> QED
  BY <1>1, <1>3, <1>4, <1>5, ChanQuiet

LEMMA ReceiverRole ==
  ASSUME TypeOK, ChanInv, NEW e \in Ends, NEW p \in Ends, p = Peer[e], Steps(e),
         Arrived(e)' = Arrived(e) \/ (~ Alive(e)' /\ Arrived(e)' = recvd[e]),
         Alive(e)' =>
           /\ Alive(e) /\ Items(Stream(e)') \subseteq Items(Stream(e))
           /\ dec'[e].state = dec[e].state /\ dec'[e].want_size = dec[e].want_size
           /\ dec'[e].incoming = dec[e].incoming,
         link'[e] = "open" /\ Alive(e)' =>
           /\ link[e] = "open" /\ Frames(Stream(e)') = Frames(Stream(e))
           /\ link[p] = "open" /\ (Granted(p)' \/ task'[e] = "grant") =>
                Granted(p) \/ task[e] = "grant"
  PROVE  ChanOK(p, e)'
<1>1. p # e /\ ChanOK(p, e)
  BY PeerFacts DEF ChanInv
<1>2. /\ Same(p) /\ Excused(p)' = Excused(p)
  BY <1>1, OthersSame, ExcusedSame DEF Same
<1>3. /\ sent'[p] = sent[p] /\ msg'[p] = msg[p] /\ cur'[p] = cur[p]
      /\ pc'[p] = pc[p] /\ link'[p] = link[p] /\ (Alive(p)' <=> Alive(p))
  BY <1>2 DEF Same, Alive
<1>4. link'[e] = "open" /\ link[p] = "open" /\ Alive(e)' =>
        /\ Adds(Stream(e), Stream(e)')
        /\ Comes(p, e)' => Comes(p, e)
  BY <1>3 DEF Comes, Adds
<1>5. Alive(e)' =>
        \A x \in Items(Stream(e)') : Carries(x[1]) => x \in Items(Stream(e))
  OBVIOUS
<1> QED
  BY <1>1, <1>2, <1>3, <1>4, <1>5, ChanQuiet

(* The connections that have no part in the step.                          *)
LEMMA ChanAtTheTwoEnds ==
  ASSUME TypeOK, ChanInv, NEW e \in Ends, Steps(e),
         ChanOK(e, Peer[e])', ChanOK(Peer[e], e)'
  PROVE  ChanInv'
<1>1. ASSUME NEW o \in Ends
      PROVE  ChanOK(o, Peer[o])'
  <2> DEFINE p == Peer[o]
  <2>1. p \in Ends /\ Peer[p] = o
    BY PeerFacts
  <2>2. CASE o = e
    BY <2>2
  <2>3. CASE o = Peer[e]
    <3>1. p = e
      BY <2>3, PeerFacts
    <3> QED
      BY <2>3, <3>1
  <2>4. CASE o # e /\ o # Peer[e]
    <3>1. p # e /\ p # Peer[e]
      BY <2>1, <2>4, PeerFacts
    <3>2. /\ Same(o) /\ wire'[o] = wire[o] /\ Same(p) /\ wire'[p] = wire[p]
          /\ Excused(o)' = Excused(o) /\ msgq'[p] = msgq[p] /\ recvd'[p] = recvd[p]
      BY <2>1, <2>4, <3>1, OthersSame, OtherWires, ExcusedSame DEF Same
    <3>3. /\ sent'[o] = sent[o] /\ msg'[o] = msg[o] /\ cur'[o] = cur[o]
          /\ pc'[o] = pc[o] /\ link'[o] = link[o] /\ link'[p] = link[p]
          /\ dec'[p] = dec[p] /\ (Alive(p)' <=> Alive(p))
          /\ Arrived(p)' = Arrived(p) /\ cmdq'[o] = cmdq[o] /\ cmdq'[p] = cmdq[p]
      BY <3>2 DEF Same, Arrived, Held, Alive
    <3>4. /\ Stream(p)' = Stream(p) /\ (Granted(o)' <=> Granted(o))
      BY <2>1, <3>2, <3>3, StreamSame
    <3>5. Comes(o, p)' <=> Comes(o, p)
      BY <3>2, <3>4 DEF Comes, Same, Alive
    <3>6. Adds(Stream(p), Stream(p)')
      BY <3>4 DEF Adds
    <3>7. ChanOK(o, p)
      BY DEF ChanInv
    <3> QED
      BY <2>1, <3>2, <3>3, <3>4, <3>5, <3>6, <3>7, ChanQuiet
  <2> QED
    BY <2>2, <2>3, <2>4
<1> QED
  BY <1>1 DEF ChanInv

LEMMA ChanRoles ==
  ASSUME TypeOK, ChanInv, NEW e \in Ends, NEW p \in Ends, p = Peer[e], Steps(e),
         ChanOK(e, p)', ChanOK(p, e)'
  PROVE  ChanInv'
BY ChanAtTheTwoEnds

LEMMA OnWireOne ==
  ASSUME NEW q \in Seq(Frame), NEW w \in [Frame -> Nat], OnWire(w, q) = 0,
         NEW i \in 1..Len(q)
  PROVE  w[q[i]] = 0
<1> DEFINE s == [j \in 1..Len(q) |-> w[q[j]]]
           S == 1..Len(q)
<1>1. /\ OnWire(w, q) = Total(s, S) /\ IsFiniteSet(S)
      /\ \A j \in S : s[j] \in Nat /\ s[j] = w[q[j]]
  BY WeighedFrames
<1>2. i \in S
  OBVIOUS
<1> HIDE DEF s, S
<1>3. IsFiniteSet(Units(s, S)) /\ Cardinality(Units(s, S)) = 0
  BY <1>1, UnitsFinite DEF Total
<1>4. Units(s, S) = {}
  BY <1>3, FS_EmptySet
<1>5. {i} \X (1..s[i]) = {}
  BY <1>2, <1>4 DEF Units
<1>6. s[i] \in Nat
  BY <1>1, <1>2
<1>7. s[i] = 0
  <2>1. ASSUME s[i] # 0
        PROVE  FALSE
    <3>1. 1 \in 1..s[i]
      BY <1>6, <2>1
    <3>2. << i, 1 >> \in {i} \X (1..s[i])
      BY <3>1
    <3> QED
      BY <1>5, <3>2
  <2> QED
    BY <2>1
<1> QED
  BY <1>1, <1>2, <1>7

LEMMA GrantWeighs ==
  ASSUME TypeOK, NEW e \in Ends, Load(Grants, e) = 0
  PROVE  ~ Granted(e)
<1>1. /\ wire[e] \in Seq(Frame) /\ cmdq[e] \in Seq(Cmd) /\ Grants \in Weights
      /\ Grants \in [Frame -> Nat]
  BY WeightTypes, LoadType DEF TypeOK
<1>2. /\ FramesOf(cmdq[e]) \in Seq(Frame)
      /\ Len(FramesOf(cmdq[e])) = Len(cmdq[e])
      /\ \A i \in 1..Len(cmdq[e]) : FramesOf(cmdq[e])[i] = FrameOf(cmdq[e][i])
  <2>1. FramesOf(cmdq[e]) \in Seq(Frame)
    BY <1>1, FramesOfShape
  <2>2. DOMAIN FramesOf(cmdq[e]) = 1..Len(cmdq[e]) /\ Len(cmdq[e]) \in Nat
    BY <1>1 DEF FramesOf
  <2>3. Len(FramesOf(cmdq[e])) = Len(cmdq[e])
    BY <2>1, <2>2
  <2> QED
    BY <2>1, <2>3 DEF FramesOf
<1>3. OnWire(Grants, wire[e]) = 0 /\ OnWire(Grants, FramesOf(cmdq[e])) = 0
  <2>1. /\ OnWire(Grants, wire[e]) \in Nat
        /\ OnWire(Grants, FramesOf(cmdq[e])) \in Nat
    BY <1>1, LoadType
  <2> QED
    BY <2>1 DEF Load, Weight
<1>4. \A f \in Frame : f.kind = "PermitGrant" => Grants[f] = 1
  BY DEF Grants
<1>5. Shape(Stream(e), cmdq[e], wire[e])
  BY <1>1, ShapeHolds DEF Stream
<1>6. ASSUME NEW f \in Frames(Stream(e)), f.kind = "PermitGrant"
      PROVE  FALSE
  <2>1. PICK i \in 1..Len(Stream(e)) :
          Stream(e)[i].cmd = "Recv" /\ Stream(e)[i].frame = f
    BY DEF Frames, Recvs
  <2>2. i \in 1..Len(cmdq[e]) \/ i \in Len(cmdq[e]) + 1..Len(cmdq[e]) + Len(wire[e])
    <3>1. Len(Stream(e)) = Len(cmdq[e]) + Len(wire[e])
      BY <1>5 DEF Shape
    <3>2. Len(cmdq[e]) \in Nat /\ Len(wire[e]) \in Nat
      BY <1>1
    <3>3. i \in 1..Len(cmdq[e]) + Len(wire[e])
      BY <2>1, <3>1
    <3>4. \A a, b \in Nat : \A x \in 1..a + b : x \in 1..a \/ x \in a + 1..a + b
      OBVIOUS
    <3> QED
      BY <3>2, <3>3, <3>4
  <2>3. CASE i \in 1..Len(cmdq[e])
    <3>1. cmdq[e][i].cmd = "Recv" /\ cmdq[e][i].frame = f
      BY <1>5, <2>1, <2>3 DEF Shape
    <3>2. FramesOf(cmdq[e])[i] = f
      BY <1>2, <2>3, <3>1 DEF FrameOf
    <3>3. i \in 1..Len(FramesOf(cmdq[e]))
      BY <1>2, <2>3
    <3>4. f \in Frame
      BY <1>2, <3>2, <3>3
    <3>5. Grants[f] = 0
      BY <1>1, <1>2, <1>3, <3>2, <3>3, OnWireOne
    <3> QED
      BY <1>4, <1>6, <3>4, <3>5
  <2>4. CASE i \in Len(cmdq[e]) + 1..Len(cmdq[e]) + Len(wire[e])
    <3> DEFINE j == i - Len(cmdq[e])
    <3>1. j \in 1..Len(wire[e])
      <4>1. Len(cmdq[e]) \in Nat /\ Len(wire[e]) \in Nat
        BY <1>1
      <4>2. \A a, b \in Nat : \A x \in a + 1..a + b : x - a \in 1..b
        OBVIOUS
      <4> QED
        BY <2>4, <4>1, <4>2
    <3>2. wire[e][j] = f
      <4>1. Stream(e)[i] = RecvCmd(wire[e][j])
        BY <1>5, <2>4 DEF Shape
      <4>2. RecvCmd(wire[e][j]).frame = wire[e][j]
        BY DEF RecvCmd
      <4> QED
        BY <2>1, <4>1, <4>2
    <3> HIDE DEF j
    <3>3. f \in Frame
      <4>1. \A w \in Seq(Frame) : \A k \in 1..Len(w) : w[k] \in Frame
        OBVIOUS
      <4>2. wire[e][j] \in Frame
        BY <1>1, <3>1, <4>1
      <4> QED
        BY <3>2, <4>2
    <3>4. Grants[f] = 0
      BY <1>1, <1>3, <3>1, <3>2, OnWireOne
    <3> QED
      BY <1>4, <1>6, <3>3, <3>4
  <2> QED
    BY <2>2, <2>3, <2>4
<1> QED
  BY <1>6 DEF Granted

----------------------------------------------------------------------------
(* Nothing comes to the remote, and nothing that its messages depend on.   *)
LEMMA ChanHere ==
  ASSUME TypeOK, ChanInv, NEW e \in Ends, Steps(e),
         wire'[Peer[e]] = wire[Peer[e]], link' = link,
         sent'[e] = sent[e], msg'[e] = msg[e], cur'[e] = cur[e],
         gaveup'[e] = gaveup[e],
         \/ pc'[e] = pc[e]
         \/ pc[e] = "new" /\ pc'[e] = "idle"
         \/ pc[e] = "await" /\ pc'[e] = "registering"
         \/ pc[e] = "registering" /\ pc'[e] = "registered",
         Arrived(e)' = Arrived(e),
         Alive(e)' =>
           /\ Alive(e) /\ Items(Stream(e)') \subseteq Items(Stream(e))
           /\ Frames(Stream(e)') = Frames(Stream(e))
           /\ dec'[e].state = dec[e].state /\ dec'[e].want_size = dec[e].want_size
           /\ dec'[e].incoming = dec[e].incoming
           /\ task'[e] = "grant" => task[e] = "grant"
  PROVE  ChanInv'
<1> DEFINE p == Peer[e]
<1>1. p \in Ends /\ p # e /\ p = Peer[e]
  BY PeerFacts
<1>2. Same(p)
  BY <1>1, OthersSame
<1>3. Stream(p)' = Stream(p) /\ (Granted(p)' <=> Granted(p))
  BY <1>1, <1>2, StreamSame DEF Same
<1>4. Alive(e)' => (Granted(e)' <=> Granted(e))
  BY DEF Granted
<1>5. Adds(Stream(p), Stream(p)')
  BY <1>3 DEF Adds
<1>6. ChanOK(e, p)'
  BY <1>1, <1>3, <1>4, <1>5, SenderRole
<1>7. ChanOK(p, e)'
  BY <1>1, <1>3, ReceiverRole
<1> QED
  BY <1>1, <1>6, <1>7, ChanRoles

(* The steps that only concern the end that takes them.                    *)
LEMMA ChanLocal ==
  ASSUME TypeOK, PermitInv, ChanInv, NEW e \in Ends,
         \/ CmdDeliver(e) \/ OwnerRecv(e) \/ NewFail(e)
         \/ WaiterPoll(e) \/ WaiterAcquire(e) \/ WaiterGone(e)
  PROVE  ChanInv'
<1> USE DEF senderVars, cmdVars, permitVars, appVars
<1>1. /\ Steps(e)
      /\ msg' = msg /\ cur' = cur /\ sent' = sent /\ gaveup' = gaveup
      /\ link' = link /\ cmdq' = cmdq /\ dec' = dec /\ wire' = wire
  <2>1. Steps(e)
    BY DEF Steps, Sender, CmdTask, Waiter
  <2> QED
    BY <2>1 DEF CmdDeliver, OwnerRecv, NewFail, WaiterPoll, WaiterAcquire,
                WaiterGone
<1>2. pc'[e] = pc[e] \/ (pc[e] = "new" /\ pc'[e] = "idle")
  BY DEF CmdDeliver, OwnerRecv, NewFail, WaiterPoll, WaiterAcquire, WaiterGone,
         TypeOK
<1>3. /\ Alive(e)' => Alive(e)
      /\ task'[e] = "grant" => task[e] = "grant"
  BY DEF CmdDeliver, OwnerRecv, NewFail, WaiterPoll, WaiterAcquire, WaiterGone,
         TypeOK, Alive
<1>4. Stream(e)' = Stream(e)
  BY <1>1, StreamSame
<1>5. /\ msgq[e] \in Msgs /\ recvd[e] \in Msgs
      /\ hold[e].body \in Seq(Byte) /\ << >> \in Msgs
  BY DEF TypeOK, Frame, Msgs
<1>6. Arrived(e)' = Arrived(e)
  <2>1. CASE CmdDeliver(e)
    <3>1. /\ recvd'[e] = recvd[e] /\ msgq'[e] = Append(msgq[e], hold[e].body)
          /\ task[e] = "deliver" /\ task'[e] = "run"
      BY <2>1 DEF CmdDeliver, TypeOK
    <3>2. recvd[e] \o (msgq[e] \o << hold[e].body >>)
            = recvd[e] \o (Append(msgq[e], hold[e].body) \o << >>)
      BY <1>5, MsgJoins
    <3> QED
      BY <3>1, <3>2 DEF Arrived, Held
  <2>2. CASE OwnerRecv(e)
    <3>1. /\ recvd'[e] = Append(recvd[e], Head(msgq[e])) /\ msgq[e] # << >>
          /\ msgq'[e] = Tail(msgq[e]) /\ task' = task /\ hold' = hold
      BY <2>2 DEF OwnerRecv, TypeOK
    <3>2. Held(e) \in Msgs /\ Held(e)' = Held(e)
      BY <3>1, ArrivedType DEF Held
    <3>3. Append(recvd[e], Head(msgq[e])) \o (Tail(msgq[e]) \o Held(e))
            = recvd[e] \o (msgq[e] \o Held(e))
      BY <1>5, <3>1, <3>2, MsgMoves
    <3> QED
      BY <3>1, <3>2, <3>3 DEF Arrived
  <2>3. CASE \/ NewFail(e) \/ WaiterPoll(e) \/ WaiterAcquire(e) \/ WaiterGone(e)
    <3>1. NewFail(e) => task'[e] # "deliver" /\ task[e] # "deliver"
      BY DEF NewFail, TypeOK, PermitInv, EndOK
    <3> QED
      BY <2>3, <3>1 DEF NewFail, WaiterPoll, WaiterAcquire, WaiterGone, Arrived,
                        Held
  <2> QED
    BY <2>1, <2>2, <2>3
<1> QED
  BY <1>1, <1>2, <1>3, <1>4, <1>6, ChanHere

(* A command joins the channel, or a frame moves there.                    *)
LEMMA ChanJoins ==
  ASSUME TypeOK, ChanInv, NEW e \in Ends,
         \/ SendAwaitPermit(e) \/ RecvTask(e) \/ RecvTaskClose(e) \/ WaiterSend(e)
  PROVE  ChanInv'
<1> USE DEF senderVars, cmdVars, permitVars, appVars
<1>1. /\ Steps(e) /\ Peer[e] # e
      /\ msg' = msg /\ cur' = cur /\ sent' = sent /\ gaveup' = gaveup
      /\ link' = link /\ dec' = dec /\ task' = task /\ hold' = hold
      /\ msgq' = msgq /\ recvd' = recvd /\ wire'[Peer[e]] = wire[Peer[e]]
  <2>1. Steps(e)
    BY DEF Steps, Sender, Receiver, Waiter
  <2> QED
    BY <2>1, PeerFacts
       DEF SendAwaitPermit, RecvTask, RecvTaskClose, WaiterSend, TypeOK
<1>2. pc'[e] = pc[e] \/ (pc[e] = "await" /\ pc'[e] = "registering")
  BY DEF SendAwaitPermit, RecvTask, RecvTaskClose, WaiterSend, TypeOK
<1>3. Arrived(e)' = Arrived(e) /\ (Alive(e)' <=> Alive(e))
  BY <1>1 DEF Arrived, Held, Alive
<1>4. cmdq[e] \in Seq(Cmd) /\ wire[e] \in Seq(Frame)
  BY StreamType
<1>5. /\ Items(Stream(e)') \subseteq Items(Stream(e))
      /\ Frames(Stream(e)') = Frames(Stream(e))
  <2>1. CASE RecvTask(e)
    <3>1. /\ wire[e] # << >> /\ wire'[e] = Tail(wire[e])
          /\ cmdq'[e] = Append(cmdq[e], RecvCmd(Head(wire[e])))
      BY <2>1 DEF RecvTask, TypeOK, RecvCmd
    <3>2. Stream(e)' = Stream(e)
      BY <1>4, <3>1, StreamMoves DEF Stream
    <3> QED
      BY <3>2
  <2>2. CASE SendAwaitPermit(e) \/ RecvTaskClose(e) \/ WaiterSend(e)
    <3>1. PICK c \in Cmd : c.cmd # "Recv" /\ cmdq'[e] = Append(cmdq[e], c)
      <4>1. CASE SendAwaitPermit(e)
        <5> DEFINE c == [cmd |-> "AwaitPermit", id |-> Len(sent[e])]
        <5>1. Len(sent[e]) \in Nat
          BY DEF TypeOK
        <5>2. c \in Cmd /\ c.cmd # "Recv"
          BY <5>1 DEF Cmd
        <5>3. cmdq'[e] = Append(cmdq[e], c)
          BY <4>1 DEF SendAwaitPermit, TypeOK
        <5> QED
          BY <5>2, <5>3
      <4>2. CASE RecvTaskClose(e)
        <5>1. [cmd |-> "Close"] \in Cmd
          BY DEF Cmd
        <5> QED
          BY <4>2, <5>1 DEF RecvTaskClose, TypeOK
      <4>3. CASE WaiterSend(e)
        <5> DEFINE c == [cmd |-> "RemotePermit", len |-> waiter[e].len]
        <5>1. waiter[e].len \in Nat
          BY DEF TypeOK
        <5>2. c \in Cmd /\ c.cmd # "Recv"
          BY <5>1 DEF Cmd
        <5>3. cmdq'[e] = Append(cmdq[e], c)
          BY <4>3 DEF WaiterSend, TypeOK
        <5> QED
          BY <5>2, <5>3
      <4> QED
        BY <2>2, <4>1, <4>2, <4>3
    <3>2. wire' = wire
      BY <2>2 DEF SendAwaitPermit, RecvTaskClose, WaiterSend
    <3>3. Stream(e)' = StreamOf(Append(cmdq[e], c), wire[e])
      BY <3>1, <3>2 DEF Stream
    <3> QED
      BY <1>4, <3>1, <3>3, StreamOtherCmd DEF Stream
  <2> QED
    BY <2>1, <2>2
<1> QED
  BY <1>1, <1>2, <1>3, <1>5, ChanHere

(* The command task learns of a request of its own end.                    *)
LEMMA ChanAwaits ==
  ASSUME TypeOK, ChanInv, NEW e \in Ends, CmdAwaitPermit(e)
  PROVE  ChanInv'
<1> USE DEF senderVars, cmdVars, permitVars, appVars
<1>1. /\ Steps(e) /\ Peer[e] # e
      /\ msg' = msg /\ cur' = cur /\ sent' = sent /\ gaveup' = gaveup
      /\ link' = link /\ task' = task /\ hold' = hold
      /\ msgq' = msgq /\ recvd' = recvd /\ wire' = wire
      /\ task[e] = "run" /\ cmdq[e] # << >> /\ Head(cmdq[e]).cmd = "AwaitPermit"
      /\ cmdq'[e] = Tail(cmdq[e])
      /\ dec'[e] = AfterRequest(dec[e], Head(cmdq[e]).id)
  BY PeerFacts DEF CmdAwaitPermit, TakesCmd, TypeOK, Steps, CmdTask
<1>2. pc'[e] = pc[e] \/ (pc[e] = "registering" /\ pc'[e] = "registered")
  BY DEF CmdAwaitPermit, Notify, TypeOK
<1>3. Arrived(e)' = Arrived(e) /\ (Alive(e)' <=> Alive(e))
  BY <1>1 DEF Arrived, Held, Alive
<1>4. /\ Stream(e) # << >> /\ Head(Stream(e)) = Head(cmdq[e])
      /\ Stream(e)' = Tail(Stream(e)) /\ Stream(e) \in Seq(Cmd)
  BY <1>1, TakenStream, StreamType
<1>5. /\ Items(Stream(e)') \subseteq Items(Stream(e))
      /\ Frames(Stream(e)') = Frames(Stream(e))
  BY <1>1, <1>4, TailOtherCmd
<1>6. /\ dec'[e].state = dec[e].state /\ dec'[e].want_size = dec[e].want_size
      /\ dec'[e].incoming = dec[e].incoming
  BY <1>1 DEF AfterRequest, TypeOK, Decoder
<1> QED
  BY <1>1, <1>2, <1>3, <1>5, <1>6, ChanHere

(* The command task stops, without a message in its hands.                 *)
LEMMA ChanStops ==
  ASSUME TypeOK, ChanInv, NEW e \in Ends,
         CmdRecvError(e) \/ CmdAwaitPermitError(e) \/ CmdClose(e)
  PROVE  ChanInv'
<1> USE DEF senderVars, cmdVars, permitVars, appVars
<1>1. /\ Steps(e) /\ Peer[e] # e
      /\ pc' = pc /\ msg' = msg /\ cur' = cur /\ sent' = sent /\ gaveup' = gaveup
      /\ link' = link /\ msgq' = msgq /\ recvd' = recvd /\ wire' = wire
      /\ task[e] \in {"run", "grant"} /\ task'[e] \in {"failed", "closed"}
  <2>1. Steps(e)
    BY DEF Steps, CmdTask
  <2> QED
    BY <2>1, PeerFacts
       DEF CmdRecvError, CmdAwaitPermitError, CmdClose, Stop, TakesCmd, TypeOK
<1>2. Arrived(e)' = Arrived(e) /\ ~ Alive(e)'
  BY <1>1 DEF Arrived, Held, Alive
<1> QED
  BY <1>1, <1>2, ChanHere

(* The connection of an end closes, with or without its owner.             *)
LEMMA ChanCuts ==
  ASSUME TypeOK, ChanInv, NEW e \in Ends, Steps(e), link'[e] = "closed",
         NEW k \in 0..Len(wire[e]), Cut(e, k),
         pc'[e] = pc[e], sent'[e] = sent[e], msg'[e] = msg[e], cur'[e] = cur[e],
         gaveup'[e] = gaveup[e],
         Arrived(e)' = Arrived(e) \/ (~ Alive(e)' /\ Arrived(e)' = recvd[e]),
         Alive(e)' => Alive(e) /\ cmdq'[e] = cmdq[e] /\ dec'[e] = dec[e]
  PROVE  ChanInv'
<1> DEFINE p == Peer[e]
<1>1. p \in Ends /\ p # e /\ p = Peer[e]
  BY PeerFacts
<1>2. /\ wire[e] \in Seq(Frame) /\ wire[p] \in Seq(Frame)
      /\ cmdq[e] \in Seq(Cmd) /\ cmdq[p] \in Seq(Cmd)
  BY <1>1, StreamType
<1>3. PICK j \in 0..Len(wire[p]) :
        wire'[e] = SubSeq(wire[e], 1, k) /\ wire'[p] = SubSeq(wire[p], 1, j)
  BY <1>1 DEF Cut, TypeOK
<1>4. Same(p)
  BY <1>1, OthersSame
<1>5. Items(Stream(p)') \subseteq Items(Stream(p))
  <2>1. Stream(p)' = StreamOf(cmdq[p], SubSeq(wire[p], 1, j))
    BY <1>3, <1>4 DEF Stream, Same
  <2> QED
    BY <1>2, <2>1, StreamCut DEF Stream
<1>6. Alive(e)' => Items(Stream(e)') \subseteq Items(Stream(e))
  <2> SUFFICES ASSUME Alive(e)'
               PROVE  Items(Stream(e)') \subseteq Items(Stream(e))
    OBVIOUS
  <2>1. Stream(e)' = StreamOf(cmdq[e], SubSeq(wire[e], 1, k))
    BY <1>3 DEF Stream
  <2> QED
    BY <1>2, <2>1, StreamCut DEF Stream
<1>7. ChanOK(e, p)'
  BY <1>1, <1>5, SenderRole
<1>8. ChanOK(p, e)'
  BY <1>1, <1>6, ReceiverRole
<1> QED
  BY <1>1, <1>7, <1>8, ChanRoles

LEMMA ChanCloses ==
  ASSUME TypeOK, ChanInv, NEW e \in Ends,
         ConnClose(e) \/ RecvTaskStop(e) \/ Drop(e)
  PROVE  ChanInv'
<1> USE DEF senderVars, cmdVars, permitVars, appVars
<1>1. /\ Steps(e) /\ link'[e] = "closed"
      /\ pc' = pc /\ msg' = msg /\ cur' = cur /\ sent' = sent /\ gaveup' = gaveup
      /\ recvd' = recvd
  <2>1. Steps(e)
    BY DEF Steps, Receiver
  <2> QED
    BY <2>1 DEF ConnClose, RecvTaskStop, Drop, TypeOK
<1>2. PICK k \in 0..Len(wire[e]) : Cut(e, k)
  <2>1. 0 \in 0..Len(wire[e])
    BY DEF TypeOK
  <2> QED
    BY <2>1 DEF ConnClose, RecvTaskStop, Drop
<1>3. CASE ConnClose(e) \/ RecvTaskStop(e)
  <2>1. /\ cmdq' = cmdq /\ dec' = dec /\ task' = task /\ hold' = hold
        /\ msgq' = msgq
    BY <1>3 DEF ConnClose, RecvTaskStop
  <2>2. Arrived(e)' = Arrived(e) /\ (Alive(e)' <=> Alive(e))
    BY <1>1, <2>1 DEF Arrived, Held, Alive
  <2> QED
    BY <1>1, <1>2, <2>1, <2>2, ChanCuts
<1>4. CASE Drop(e)
  <2>1. task'[e] = "dropped" /\ msgq'[e] = << >>
    BY <1>4 DEF Drop, Stop, TypeOK
  <2>2. Arrived(e)' = recvd[e] \o (<< >> \o << >>) /\ ~ Alive(e)'
    BY <1>1, <2>1 DEF Arrived, Held, Alive
  <2>3. recvd[e] \o (<< >> \o << >>) = recvd[e]
    <3>1. \A M : \A s \in Seq(M) : s \o (<< >> \o << >>) = s
      OBVIOUS
    <3>2. recvd[e] \in Seq(Seq(Byte))
      BY DEF TypeOK
    <3> QED
      BY <3>1, <3>2
  <2> QED
    BY <1>1, <1>2, <2>2, <2>3, ChanCuts
<1> QED
  BY <1>3, <1>4

----------------------------------------------------------------------------
(* A frame without a part of a message is pushed.                          *)
LEMMA ChanPushes ==
  ASSUME TypeOK, ChanInv, NEW e \in Ends, Steps(e), NEW f \in Frame,
         Push(e, f), ~ Carries(f), cmdq' = cmdq, link' = link, dec' = dec,
         sent'[e] = sent[e], msg'[e] = msg[e], cur'[e] = cur[e],
         gaveup'[e] = gaveup[e],
         \/ pc'[e] = pc[e]
         \/ pc[e] = "new" /\ pc'[e] = "idle"
         \/ pc[e] = "registered" /\ pc'[e] = "requested" /\ ~ Comes(e, Peer[e])',
         Arrived(e)' = Arrived(e), Alive(e)' => Alive(e),
         task'[e] = "grant" \/ f.kind = "PermitGrant" => task[e] = "grant"
  PROVE  ChanInv'
<1> DEFINE p == Peer[e]
           S == Stream(p)
<1>1. p \in Ends /\ p # e /\ p = Peer[e] /\ S \in Seq(Cmd)
  BY PeerFacts, StreamType
<1>2. Stream(e)' = Stream(e) /\ (Granted(e)' <=> Granted(e))
  BY PushStreams
<1>3. Same(p)
  BY <1>1, OthersSame
<1>4. CASE link[p] = "open"
  <2>1. S' = Append(S, RecvCmd(f))
    BY <1>4, PushStreams
  <2>2. /\ Frames(S') = Frames(S) \cup {f}
        /\ Items(S') = Items(S) \cup {<< f, Frames(S) >>}
    BY <1>1, <2>1, AppendFrame
  <2>3. /\ Adds(S, S')
        /\ \A x \in Items(S') : Carries(x[1]) => x \in Items(S)
    <3> HIDE DEF S
    <3> QED
      BY <2>2 DEF Adds
  <2>4. Granted(p)' <=> Granted(p) \/ f.kind = "PermitGrant"
    BY <1>4, PushStreams
  <2>5. ChanOK(e, p)'
    BY <1>1, <1>2, <2>3, SenderRole
  <2>6. ChanOK(p, e)'
    BY <1>1, <1>2, <2>4, ReceiverRole
  <2> QED
    BY <1>1, <2>5, <2>6, ChanRoles
<1>5. CASE link[p] # "open"
  <2>1. wire' = wire
    BY <1>5, PushStreams
  <2>2. S' = S /\ (Granted(p)' <=> Granted(p))
    BY <1>1, <1>3, <2>1, StreamSame DEF Same
  <2>3. Adds(S, S')
    BY <2>2 DEF Adds
  <2>4. ChanOK(e, p)'
    BY <1>1, <1>2, <2>2, <2>3, SenderRole
  <2>5. ChanOK(p, e)'
    BY <1>1, <1>2, <2>2, ReceiverRole
  <2> QED
    BY <1>1, <2>4, <2>5, ChanRoles
<1> QED
  BY <1>4, <1>5

LEMMA ChanTells ==
  ASSUME TypeOK, PermitInv, GrantInv, ChanInv, NEW e \in Ends,
         New(e) \/ SendPermitRequest(e) \/ CmdSendGrant(e)
  PROVE  ChanInv'
<1> USE DEF senderVars, cmdVars, permitVars, appVars
<1> DEFINE p == Peer[e]
<1>1. p \in Ends /\ p # e /\ p = Peer[e]
  BY PeerFacts
<1>2. /\ Steps(e) /\ link' = link /\ dec' = dec /\ cmdq' = cmdq
      /\ sent' = sent /\ msg' = msg /\ cur' = cur /\ gaveup' = gaveup
      /\ msgq' = msgq /\ recvd' = recvd
  <2>1. Steps(e)
    BY DEF Steps, Sender, CmdTask
  <2> QED
    BY <2>1 DEF New, SendPermitRequest, CmdSendGrant
<1>3. CASE New(e)
  <2>1. /\ Push(e, VersionFrame) /\ pc[e] = "new" /\ pc'[e] = "idle"
        /\ task[e] = "new" /\ task'[e] = "run"
    BY <1>3 DEF New, TypeOK, PermitInv, EndOK
  <2>2. VersionFrame \in Frame /\ ~ Carries(VersionFrame)
        /\ VersionFrame.kind # "PermitGrant"
    <3>1. << >> \in Seq(Byte) /\ 0 \in Nat
      OBVIOUS
    <3>2. VersionFrame \in Frame
      BY <3>1, FrameTypes
    <3> QED
      BY <3>2 DEF VersionFrame, Carries
  <2>3. Arrived(e)' = Arrived(e) /\ Alive(e)
    BY <1>2, <2>1 DEF Arrived, Held, Alive
  <2> QED
    BY <1>2, <2>1, <2>2, <2>3, ChanPushes
<1>4. CASE SendPermitRequest(e)
  <2> DEFINE f == RequestFrame(Len(msg[e]))
  <2>1. /\ Push(e, f) /\ pc[e] = "registered" /\ pc'[e] = "requested"
        /\ task' = task /\ hold' = hold
    BY <1>4 DEF SendPermitRequest, TypeOK
  <2>2. f \in Frame /\ ~ Carries(f) /\ f.kind # "PermitGrant"
    <3>1. Len(msg[e]) \in Nat /\ msg[e] \in Seq(Byte)
      BY DEF TypeOK
    <3>2. f \in Frame
      BY <3>1, FrameTypes
    <3> QED
      BY <3>2 DEF RequestFrame, Carries
  <2> HIDE DEF f
  <2>3. Arrived(e)' = Arrived(e) /\ (Alive(e)' <=> Alive(e))
    BY <1>2, <2>1 DEF Arrived, Held, Alive
  <2>4. Alive(e) => task[p] # "grant" /\ Load(Grants, e) = 0
    <3>1. Alive(e) => Due(e, p) <= 0
      BY <2>1 DEF GrantInv, GrantOK, One
    <3>2. /\ Load(Requests, p) \in Nat /\ Load(Grants, e) \in Nat
          /\ One(dec[p].state = "RemoteAwaitingPermit") \in Nat
          /\ One(task[p] = "grant") \in Nat
      <4>1. Requests \in Weights /\ Grants \in Weights
        BY WeightTypes
      <4>2. Load(Requests, p) \in Nat /\ Load(Grants, e) \in Nat
        BY <1>1, <4>1, LoadType
      <4> QED
        BY <4>2 DEF One
    <3>3. Due(e, p) <= 0 => One(task[p] = "grant") = 0 /\ Load(Grants, e) = 0
      <4> DEFINE a == Load(Requests, p)
                 b == One(dec[p].state = "RemoteAwaitingPermit")
                 c == One(task[p] = "grant")
                 d == Load(Grants, e)
      <4>1. a \in Nat /\ b \in Nat /\ c \in Nat /\ d \in Nat
        BY <3>2
      <4>2. Due(e, p) = a + b + c + d
        BY DEF Due
      <4> HIDE DEF a, b, c, d
      <4>3. a + b + c + d <= 0 => c = 0 /\ d = 0
        BY <4>1
      <4> QED
        BY <4>2, <4>3 DEF c, d
    <3> QED
      BY <3>1, <3>3 DEF One
  <2>5. Granted(e)' <=> Granted(e)
    BY <1>2, <2>1, <2>2, PushStreams
  <2>6. ~ Comes(e, p)'
    <3>1. Alive(e) => ~ Granted(e)
      BY <2>4, GrantWeighs
    <3> QED
      BY <2>1, <2>3, <2>4, <2>5, <3>1 DEF Comes
  <2> QED
    BY <1>2, <2>1, <2>2, <2>3, <2>6, ChanPushes
<1>5. CASE CmdSendGrant(e)
  <2>1. /\ Push(e, hold[e]) /\ pc' = pc /\ hold[e] \in Frame
        /\ task[e] = "grant" /\ task'[e] = "run"
    BY <1>5 DEF CmdSendGrant, TypeOK
  <2>2. hold[e].kind = "PermitGrant"
    BY <2>1 DEF GrantInv, GrantOK
  <2>3. ~ Carries(hold[e])
    BY <2>2 DEF Carries
  <2>4. Arrived(e)' = Arrived(e) /\ Alive(e)
    BY <1>2, <2>1 DEF Arrived, Held, Alive
  <2> QED
    BY <1>2, <2>1, <2>3, <2>4, ChanPushes
<1> QED
  BY <1>3, <1>4, <1>5

LEMMA LastType ==
  ASSUME TypeOK, NEW e \in Ends, NEW p \in Ends, ChanOK(e, p)
  PROVE  Last(p) \in Nat
<1>1. Arrived(p) \in Seq(Seq(Byte)) /\ Len(Arrived(p)) \in Nat
  BY ArrivedType DEF Msgs
<1>2. ASSUME Len(Arrived(p)) # 0
      PROVE  NumOf(Arrived(p)[Len(Arrived(p))]) \in Nat
  <2>1. Len(Arrived(p)) \in 1..Len(Arrived(p))
    BY <1>1, <1>2
  <2>2. NumOf(Arrived(p)[Len(Arrived(p))]) \in 1..Len(sent[e])
    BY <2>1 DEF ChanOK, InOrder
  <2> QED
    BY <2>2
<1> QED
  BY <1>2 DEF Last, UpTo

(* What the frames on their way to an end have of the messages.            *)
LEMMA StreamKnown ==
  ASSUME TypeOK, NEW e \in Ends, NEW p \in Ends, ChanOK(e, p), Alive(p)
  PROVE  /\ FlowsIn(Items(Stream(p)), dec[p], sent[e], Excused(e), Last(p))
         /\ Known(Frames(Stream(p)), sent[e])
         /\ \A f \in Frames(Stream(p)) :
              IsChunk(f) => dec[p].state = "ReceiveChunked"
<1>1. FlowsIn(Items(Stream(p)), dec[p], sent[e], Excused(e), Last(p))
  BY DEF ChanOK, FlowOK
<1>2. Stream(p) \in Seq(Cmd)
  BY StreamType
<1> QED
  BY <1>1, <1>2, FramesKnown

LEMMA SendingSame ==
  ASSUME NEW F, NEW d, NEW s, NEW g, NEW l, NEW at, NEW c, NEW comes, NEW comes2,
         comes <=> comes2, Sending(F, d, s, g, l, at, c, comes)
  PROVE  Sending(F, d, s, g, l, at, c, comes2)
BY DEF Sending

(* The sender of an end moves, and nothing else.                           *)
LEMMA SenderMoves ==
  ASSUME TypeOK, ChanInv, NEW e \in Ends, Steps(e),
         link' = link, wire' = wire, cmdq' = cmdq, task' = task, hold' = hold,
         dec' = dec, msgq' = msgq, recvd' = recvd,
         OwnMessage(e)',
         InOrder(Arrived(Peer[e]), sent'[e], Excused(e)'),
         Alive(Peer[e]) =>
           FlowsIn(Items(Stream(Peer[e])), dec[Peer[e]], sent'[e], Excused(e)',
                   Last(Peer[e])),
         link[e] = "open" /\ link[Peer[e]] = "open" /\ Alive(Peer[e]) =>
           Sending(Frames(Stream(Peer[e])), dec[Peer[e]], sent'[e], Excused(e)',
                   Last(Peer[e]), pc'[e], cur'[e], Comes(e, Peer[e]))
  PROVE  ChanInv'
<1> DEFINE p == Peer[e]
<1>1. p \in Ends /\ p # e /\ p = Peer[e]
  BY PeerFacts
<1>2. /\ Arrived(e)' = Arrived(e) /\ (Alive(e)' <=> Alive(e))
      /\ Arrived(p)' = Arrived(p) /\ (Alive(p)' <=> Alive(p))
  BY DEF Arrived, Held, Alive
<1>3. /\ Stream(e)' = Stream(e) /\ (Granted(e)' <=> Granted(e))
      /\ Stream(p)' = Stream(p) /\ (Granted(p)' <=> Granted(p))
  BY <1>1, StreamSame
<1>4. (Comes(e, p)' <=> Comes(e, p)) /\ Last(p)' = Last(p)
  BY <1>2, <1>3 DEF Comes, Last
<1>5. InOrder(Arrived(p)', sent'[e], Excused(e)')
  BY <1>2
<1>6. FlowOK(e, p)'
  BY <1>2, <1>3, <1>4 DEF FlowOK
<1>7. SendingOK(e, p)'
  <2> SUFFICES ASSUME link[e] = "open", link[p] = "open", Alive(p)
               PROVE  Sending(Frames(Stream(p)'), dec[p], sent'[e], Excused(e)',
                              Last(p)', pc'[e], cur'[e], Comes(e, p)')
    BY <1>2 DEF SendingOK
  <2>1. Sending(Frames(Stream(p)), dec[p], sent'[e], Excused(e)', Last(p), pc'[e],
                cur'[e], Comes(e, p))
    OBVIOUS
  <2>2. Sending(Frames(Stream(p)), dec[p], sent'[e], Excused(e)', Last(p), pc'[e],
                cur'[e], Comes(e, p)')
    BY <1>4, <2>1, SendingSame
  <2> QED
    BY <1>3, <1>4, <2>2
<1>8. ChanOK(e, p)'
  BY <1>5, <1>6, <1>7 DEF ChanOK
<1>9. ChanOK(p, e)'
  BY <1>1, <1>2, <1>3, ReceiverRole
<1> QED
  BY <1>1, <1>8, <1>9, ChanRoles

LEMMA ChanStarts ==
  ASSUME TypeOK, ChanInv, NEW e \in Ends, SendStart(e)
  PROVE  ChanInv'
<1> USE DEF senderVars, cmdVars, permitVars, appVars
<1> DEFINE p == Peer[e]
           s == sent[e]
<1>1. p \in Ends /\ p # e /\ ChanOK(e, p)
  BY PeerFacts DEF ChanInv
<1>2. /\ Steps(e) /\ pc[e] = "idle" /\ Len(s) < MaxMsgs[e]
      /\ link' = link /\ wire' = wire /\ cmdq' = cmdq /\ task' = task
      /\ hold' = hold /\ dec' = dec /\ msgq' = msgq /\ recvd' = recvd
      /\ Excused(e)' = Excused(e) /\ cur'[e] = 0
  <2>1. Steps(e)
    BY DEF Steps
  <2> QED
    BY <2>1, ExcusedSame DEF SendStart, TypeOK
<1>3. PICK n \in Sizes[e] :
        /\ msg'[e] = Body(Len(s) + 1, n) /\ sent'[e] = Append(s, msg'[e])
        /\ pc'[e] = IF NeedsPermit(msg'[e]) THEN "await" ELSE "one"
  BY DEF SendStart, TypeOK
<1> DEFINE m == Body(Len(s) + 1, n)
<1>4. /\ s \in Msgs /\ Len(s) \in Nat
      /\ MaxMsgs[e] \in Nat /\ n \in Nat
  BY FramedAssumption DEF TypeOK, Msgs
<1>5. Len(s) + 1 \in 1..MaxMsgs[e]
  BY <1>2, <1>4
<1>6. m \in Seq(Byte) /\ Len(m) = n
  BY <1>4, <1>5, BodyAssumption, BodyShape
<1>7. /\ msg'[e] = m /\ sent'[e] = Append(s, m)
      /\ pc'[e] \in {"one", "await"}
      /\ pc'[e] = "await" => NeedsPermit(m)
  BY <1>3
<1> HIDE DEF m, p, s
<1>8. /\ Append(s, m) \in Msgs /\ Len(Append(s, m)) = Len(s) + 1
      /\ \A k \in 1..Len(s) : Append(s, m)[k] = s[k]
      /\ Append(s, m)[Len(s) + 1] = m
  BY <1>4, <1>6, GrownMessages
<1>9. OwnMessage(e)'
  <2>1. \A k \in 1..Len(s) :
          k \in 1..MaxMsgs[e] /\ \E x \in Sizes[e] : s[k] = Body(k, x)
    BY <1>1 DEF ChanOK, OwnMessage, s
  <2>2. ASSUME NEW k \in 1..Len(sent'[e])
        PROVE  /\ k \in 1..MaxMsgs[e]
               /\ \E x \in Sizes[e] : sent'[e][k] = Body(k, x)
    <3>1. k \in 1..Len(s) \/ k = Len(s) + 1
      <4>1. k \in 1..Len(s) + 1
        BY <1>7, <1>8
      <4> QED
        BY <1>4, <4>1
    <3>2. CASE k \in 1..Len(s)
      BY <1>7, <1>8, <2>1, <3>2
    <3>3. CASE k = Len(s) + 1
      BY <1>3, <1>5, <1>7, <1>8, <3>3 DEF m
    <3> QED
      BY <3>1, <3>2, <3>3
  <2>3. sent'[e] # << >> /\ msg'[e] = sent'[e][Len(sent'[e])]
    BY <1>4, <1>7, <1>8
  <2>4. pc'[e] = "await" => Len(m) > 0
    BY <1>4, <1>6, <1>7, MaxChunkAssumption DEF NeedsPermit
  <2> QED
    BY <1>2, <1>7, <2>2, <2>3, <2>4 DEF OwnMessage
<1>10. InOrder(Arrived(p), Append(s, m), Excused(e))
  <2>1. InOrder(Arrived(p), s, Excused(e))
    BY <1>1 DEF ChanOK, s
  <2> QED
    BY <1>4, <1>6, <2>1, InOrderGrows
<1>11. Alive(p) => /\ FlowsIn(Items(Stream(p)), dec[p], s, Excused(e), Last(p))
                   /\ Known(Frames(Stream(p)), s)
  BY <1>1, StreamKnown DEF s
<1>12. Alive(p) =>
         FlowsIn(Items(Stream(p)), dec[p], Append(s, m), Excused(e), Last(p))
  <2>1. Stream(p) \in Seq(Cmd)
    BY <1>1, StreamType
  <2> QED
    BY <1>4, <1>6, <1>11, <2>1, FlowsInSend
<1>13. link[e] = "open" /\ link[p] = "open" /\ Alive(p) =>
         Sending(Frames(Stream(p)), dec[p], Append(s, m), Excused(e), Last(p),
                 pc'[e], cur'[e], Comes(e, p))
  <2>1. link[e] = "open" /\ link[p] = "open" /\ Alive(p) =>
          Sending(Frames(Stream(p)), dec[p], s, Excused(e), Last(p), "idle",
                  cur[e], Comes(e, p))
    BY <1>1, <1>2 DEF ChanOK, SendingOK, s
  <2> QED
    BY <1>4, <1>6, <1>7, <1>11, <2>1, SendingStarts
<1> QED
  BY <1>2, <1>7, <1>9, <1>10, <1>12, <1>13, SenderMoves DEF p

LEMMA ChanGivesUp ==
  ASSUME TypeOK, ChanInv, NEW e \in Ends, SendFail(e) \/ SendCancel(e)
  PROVE  ChanInv'
<1> USE DEF senderVars, cmdVars, permitVars, appVars
<1> DEFINE p == Peer[e]
           s == sent[e]
           g == Excused(e) \cup {Len(s)}
<1>1. p \in Ends /\ p # e /\ ChanOK(e, p)
  BY PeerFacts DEF ChanInv
<1>2. /\ Steps(e) /\ pc[e] \notin {"new", "idle"} /\ pc'[e] = "idle"
      /\ link' = link /\ wire' = wire /\ cmdq' = cmdq /\ task' = task
      /\ hold' = hold /\ dec' = dec /\ msgq' = msgq /\ recvd' = recvd
      /\ msg' = msg /\ cur' = cur /\ sent' = sent
  <2>1. Steps(e)
    BY DEF Steps, Sender
  <2> QED
    BY <2>1 DEF SendFail, SendCancel, GiveUp, TypeOK
<1>3. s \in Msgs /\ Excused(e) \subseteq g /\ Len(s) \in Nat
  BY DEF TypeOK, Msgs
<1>10. Excused(e)' = g
  <2>1. gaveup'[e] = gaveup[e] \cup {Len(s)}
    BY DEF SendFail, SendCancel, GiveUp, TypeOK
  <2>2. lossy'[e] = lossy[e]
    BY <1>2, StepLosesNone
  <2> QED
    BY <1>3, <2>1, <2>2 DEF Excused
<1>4. OwnMessage(e) /\ s # << >>
  BY <1>1, <1>2 DEF ChanOK, OwnMessage
<1>5. OwnMessage(e)'
  BY <1>2, <1>4 DEF OwnMessage
<1> HIDE DEF p, s, g
<1>6. InOrder(Arrived(p), s, g)
  <2>1. InOrder(Arrived(p), s, Excused(e))
    BY <1>1 DEF ChanOK, s
  <2> QED
    BY <1>3, <2>1, InOrderGrows
<1>7. Alive(p) => /\ FlowsIn(Items(Stream(p)), dec[p], s, Excused(e), Last(p))
                  /\ Known(Frames(Stream(p)), s)
  BY <1>1, StreamKnown DEF s
<1>8. Alive(p) => FlowsIn(Items(Stream(p)), dec[p], s, g, Last(p))
  BY <1>3, <1>7, FlowsInSame
<1>9. link[e] = "open" /\ link[p] = "open" /\ Alive(p) =>
        Sending(Frames(Stream(p)), dec[p], s, g, Last(p), "idle", cur[e],
                Comes(e, p))
  <2>1. link[e] = "open" /\ link[p] = "open" /\ Alive(p) =>
          Sending(Frames(Stream(p)), dec[p], s, Excused(e), Last(p), pc[e],
                  cur[e], Comes(e, p))
    BY <1>1 DEF ChanOK, SendingOK, s
  <2>2. Last(p) \in Nat
    BY <1>1, LastType
  <2> QED
    BY <1>2, <1>3, <1>4, <1>7, <2>1, <2>2, SendingEnds DEF g
<1> QED
  BY <1>2, <1>5, <1>6, <1>8, <1>9, <1>10, SenderMoves DEF p, s

LEMMA FlowsInJoins ==
  ASSUME NEW I, NEW F, NEW f, NEW d, NEW s, NEW g, NEW l,
         FlowsIn(I, d, s, g, l), Flows(F, f, d, s, g, l)
  PROVE  FlowsIn(I \cup {<< f, F >>}, d, s, g, l)
BY DEF FlowsIn

(* A part of the message that an end sends is pushed.                      *)
LEMMA ChanCarries ==
  ASSUME TypeOK, ChanInv, NEW e \in Ends, Steps(e), NEW f \in Frame, Push(e, f),
         link' = link, cmdq' = cmdq, task' = task, hold' = hold, dec' = dec,
         msgq' = msgq, recvd' = recvd, sent' = sent, msg' = msg,
         gaveup' = gaveup, pc[e] \in {"one", "chunks"}, sent[e] # << >>,
         Carries(f), PartOf(sent[e], f), Num(f) = Len(sent[e]),
         IsChunk(f) => pc[e] = "chunks" /\ Off(f) = cur[e] /\ cur'[e] = Til(f),
         cur'[e] \in Nat,
         pc'[e] = IF Finishes(sent[e], f) THEN "idle" ELSE "chunks",
         OwnMessage(e)'
  PROVE  ChanInv'
<1> DEFINE p == Peer[e]
           S == Stream(p)
           s == sent[e]
           g == Excused(e)
<1>1. p \in Ends /\ p # e /\ ChanOK(e, p) /\ p = Peer[e]
  BY PeerFacts DEF ChanInv
<1>2. /\ Arrived(e)' = Arrived(e) /\ (Alive(e)' <=> Alive(e))
      /\ Arrived(p)' = Arrived(p) /\ (Alive(p)' <=> Alive(p))
      /\ Last(p)' = Last(p) /\ Excused(e)' = g
  BY ExcusedSame DEF Arrived, Held, Alive, Last
<1>3. /\ Stream(e)' = Stream(e) /\ (Granted(e)' <=> Granted(e))
      /\ f.kind # "PermitGrant"
  BY PushStreams DEF Carries
<1>4. Comes(e, p)' <=> Comes(e, p)
  BY <1>2, <1>3 DEF Comes
<1>5. OwnMessage(e)' /\ InOrder(Arrived(p)', s, g)
  BY <1>1, <1>2 DEF ChanOK
<1>6. CASE link[p] # "open"
  <2>1. wire' = wire
    BY <1>6, PushStreams
  <2>2. S' = S /\ (Granted(p)' <=> Granted(p))
    BY <1>1, <2>1, StreamSame
  <2>3. FlowOK(e, p)'
    BY <1>1, <1>2, <2>2 DEF ChanOK, FlowOK
  <2>4. SendingOK(e, p)'
    BY <1>6 DEF SendingOK
  <2>5. ChanOK(e, p)'
    BY <1>2, <1>5, <2>3, <2>4 DEF ChanOK
  <2>6. ChanOK(p, e)'
    BY <1>1, <1>2, <1>3, <2>2, ReceiverRole
  <2> QED
    BY <1>1, <2>5, <2>6, ChanRoles
<1>7. CASE link[p] = "open"
  <2>1. S' = Append(S, RecvCmd(f)) /\ (Granted(p)' <=> Granted(p))
    BY <1>3, <1>7, PushStreams
  <2>2. S \in Seq(Cmd)
    BY <1>1, StreamType
  <2>3. /\ Frames(S') = Frames(S) \cup {f}
        /\ Items(S') = Items(S) \cup {<< f, Frames(S) >>}
    BY <2>1, <2>2, AppendFrame
  <2>4. ASSUME Alive(p)
        PROVE  /\ FlowsIn(Items(S'), dec[p], s, g, Last(p))
               /\ Sending(Frames(S'), dec[p], s, g, Last(p), pc'[e], cur'[e],
                          Comes(e, p)')
    <3>1. /\ FlowsIn(Items(S), dec[p], s, g, Last(p))
          /\ Known(Frames(S), s)
      BY <1>1, <2>4, StreamKnown
    <3>2. Sending(Frames(S), dec[p], s, g, Last(p), pc[e], cur[e], Comes(e, p))
      BY <1>1, <1>7, <2>4 DEF ChanOK, SendingOK, Push
    <3>3. /\ Last(p) \in Nat /\ dec[p] \in Decoder /\ s \in Msgs /\ cur[e] \in Nat
      BY <1>1, LastType DEF TypeOK, Msgs
    <3> HIDE DEF S
    <3>4. /\ Flows(Frames(S), f, dec[p], s, g, Last(p))
          /\ Sending(Frames(S) \cup {f}, dec[p], s, g, Last(p), pc'[e], cur'[e],
                     Comes(e, p)')
      BY <3>1, <3>2, <3>3, SendingPushes
    <3>5. FlowsIn(Items(S) \cup {<< f, Frames(S) >>}, dec[p], s, g, Last(p))
      BY <3>1, <3>4, FlowsInJoins
    <3> QED
      BY <2>3, <3>4, <3>5
  <2>5. FlowOK(e, p)'
    BY <1>2, <2>4 DEF FlowOK
  <2>6. SendingOK(e, p)'
    BY <1>2, <2>4 DEF SendingOK
  <2>7. ChanOK(e, p)'
    BY <1>2, <1>5, <2>5, <2>6 DEF ChanOK
  <2>8. ChanOK(p, e)'
    BY <1>1, <1>2, <1>3, <2>1, ReceiverRole
  <2> QED
    BY <1>1, <2>7, <2>8, ChanRoles
<1> QED
  BY <1>6, <1>7

(* The message of a send: the last one of its end.                         *)
LEMMA MessageSent ==
  ASSUME TypeOK, ChanInv, NEW e \in Ends, pc[e] \notin {"new", "idle"}
  PROVE  /\ sent[e] \in Msgs /\ sent[e] # << >> /\ msg[e] = sent[e][Len(sent[e])]
         /\ \E n \in Sizes[e] :
              n \in Nat /\ msg[e] = Body(Len(sent[e]), n) /\ Len(msg[e]) = n
<1>1. OwnMessage(e)
  BY PeerFacts DEF ChanInv, ChanOK
<1>2. /\ sent[e] # << >> /\ msg[e] = sent[e][Len(sent[e])] /\ sent[e] \in Msgs
  BY <1>1 DEF OwnMessage, TypeOK, Msgs
<1>3. Len(sent[e]) \in 1..Len(sent[e])
  BY <1>2 DEF Msgs
<1>4. PICK n \in Sizes[e] : sent[e][Len(sent[e])] = Body(Len(sent[e]), n)
  BY <1>1, <1>3 DEF OwnMessage
<1>5. n \in Nat
  BY FramedAssumption
<1>6. Len(Body(Len(sent[e]), n)) = n
  BY <1>5, BodyShape
<1> QED
  BY <1>2, <1>4, <1>5, <1>6

LEMMA ChanOne ==
  ASSUME TypeOK, ChanInv, NEW e \in Ends, 0 \notin Sizes[e], SendOne(e)
  PROVE  ChanInv'
<1> USE DEF senderVars, cmdVars, permitVars, appVars
<1> DEFINE f == CompleteFrame(msg[e])
           s == sent[e]
<1>1. /\ Steps(e) /\ pc[e] = "one" /\ pc'[e] = "idle" /\ Push(e, f)
      /\ link' = link /\ cmdq' = cmdq /\ task' = task /\ hold' = hold
      /\ dec' = dec /\ msgq' = msgq /\ recvd' = recvd /\ sent' = sent
      /\ msg' = msg /\ gaveup' = gaveup /\ cur' = cur /\ cur[e] \in Nat
  <2>1. Steps(e)
    BY DEF Steps, Sender
  <2> QED
    BY <2>1 DEF SendOne, TypeOK
<1>2. /\ s \in Msgs /\ s # << >> /\ msg[e] = s[Len(s)]
  BY <1>1, MessageSent
<1>3. PICK n \in Nat \ {0} : msg[e] = Body(Len(s), n)
  BY <1>1, MessageSent
<1>4. /\ f \in Frame /\ Carries(f) /\ ~ IsChunk(f)
      /\ PartOf(s, f) /\ Num(f) = Len(s) /\ Finishes(s, f)
  BY <1>2, <1>3, WholePart
<1>5. OwnMessage(e)'
  <2>1. OwnMessage(e)
    BY PeerFacts DEF ChanInv, ChanOK
  <2> QED
    BY <1>1, <2>1 DEF OwnMessage
<1> HIDE DEF f
<1> QED
  BY <1>1, <1>2, <1>4, <1>5, ChanCarries

LEMMA ChanChunk ==
  ASSUME TypeOK, ChanInv, NEW e \in Ends, SendChunk(e)
  PROVE  ChanInv'
<1> USE DEF senderVars, cmdVars, permitVars, appVars
<1> DEFINE s == sent[e]
           c == cur[e]
           x == NextChunk(msg[e], c)
           f == ChunkFrame(x)
<1>1. /\ Steps(e) /\ pc[e] = "chunks" /\ Push(e, f)
      /\ link' = link /\ cmdq' = cmdq /\ task' = task /\ hold' = hold
      /\ dec' = dec /\ msgq' = msgq /\ recvd' = recvd /\ sent' = sent
      /\ msg' = msg /\ gaveup' = gaveup /\ c \in Nat
      /\ cur'[e] = c + Len(x)
      /\ pc'[e] = IF c + Len(x) = Len(msg[e]) THEN "idle" ELSE "chunks"
  <2>1. Steps(e)
    BY DEF Steps, Sender
  <2> QED
    BY <2>1 DEF SendChunk, TypeOK
<1>2. /\ s \in Msgs /\ s # << >> /\ msg[e] = s[Len(s)]
  BY <1>1, MessageSent
<1>3. PICK n \in Nat : msg[e] = Body(Len(s), n) /\ Len(msg[e]) = n
  BY <1>1, MessageSent
<1>4. OwnMessage(e)
  BY PeerFacts DEF ChanInv, ChanOK
<1>5. c < n
  BY <1>1, <1>3, <1>4 DEF OwnMessage
<1>6. /\ f \in Frame /\ Carries(f) /\ IsChunk(f)
      /\ PartOf(s, f) /\ Num(f) = Len(s) /\ Off(f) = c
      /\ Til(f) = c + Len(x) /\ c + Len(x) \in Nat
      /\ Finishes(s, f) <=> c + Len(x) = Len(msg[e])
  <2> DEFINE Good(s2, m2, c2) ==
        LET x2 == NextChunk(m2, c2)
            f2 == ChunkFrame(x2) IN
        /\ f2 \in Frame /\ Carries(f2) /\ IsChunk(f2)
        /\ PartOf(s2, f2) /\ Num(f2) = Len(s2) /\ Off(f2) = c2
        /\ Til(f2) = c2 + Len(x2) /\ c2 + Len(x2) \in Nat
        /\ Finishes(s2, f2) <=> c2 + Len(x2) = Len(m2)
  <2>1. \A s2 \in Msgs, n2 \in Nat, c2 \in Nat :
          s2 # << >> /\ s2[Len(s2)] = Body(Len(s2), n2) /\ c2 < n2 =>
            Good(s2, s2[Len(s2)], c2)
    BY ChunkPart
  <2> HIDE DEF Good
  <2>2. s[Len(s)] = Body(Len(s), n)
    BY <1>2, <1>3
  <2>3. Good(s, s[Len(s)], c)
    BY <1>1, <1>2, <1>5, <2>1, <2>2
  <2>4. Good(s, msg[e], c)
    BY <1>2, <2>3
  <2> QED
    BY <2>4 DEF Good
<1> HIDE DEF f, x
<1>7. OwnMessage(e)'
  <2>1. pc'[e] = "chunks" => cur'[e] < Len(msg[e])
    <3>1. Til(f) <= Len(msg[e])
      BY <1>2, <1>6 DEF PartOf
    <3> QED
      BY <1>1, <1>3, <1>6, <3>1
  <2> QED
    BY <1>1, <1>4, <2>1 DEF OwnMessage
<1> QED
  BY <1>1, <1>2, <1>6, <1>7, ChanCarries

(* The frames behind a frame that the decoder takes.                       *)
LEMMA FlowsInTaken ==
  ASSUME NEW S \in Seq(Cmd), S # << >>, Head(S).cmd = "Recv",
         NEW f \in Frame, f = Head(S).frame, NEW s \in Msgs, NEW d \in Decoder,
         NEW g, NEW l \in Nat, NEW l2 \in Nat, Accepts(d, f),
         FlowsIn(Items(S), d, s, g, l), l2 = IF HandsOut(d, f) THEN Num(f) ELSE l
  PROVE  /\ Flows({}, f, d, s, g, l)
         /\ FlowsIn(Items(Tail(S)), DecoderAfter(d, f), s, g, l2)
<1>1. /\ << f, {} >> \in Items(S)
      /\ \A x \in Items(Tail(S)) : << x[1], {f} \cup x[2] >> \in Items(S)
  BY TailFrame
<1>2. Flows({}, f, d, s, g, l)
  BY <1>1 DEF FlowsIn
<1>3. Tail(S) \in Seq(Cmd)
  OBVIOUS
<1>4. ASSUME NEW x \in Items(Tail(S))
      PROVE  Flows(x[2], x[1], DecoderAfter(d, f), s, g, l2)
  <2> DEFINE h == x[1]
             B == x[2]
  <2>1. h \in Frame
    BY <1>3, ItemFrames
  <2>2. Flows({f} \cup B, h, d, s, g, l)
    <3>1. << h, {f} \cup B >> \in Items(S)
      BY <1>1
    <3> HIDE DEF h, B
    <3>2. \A y \in Items(S) : Flows(y[2], y[1], d, s, g, l)
      BY DEF FlowsIn
    <3> QED
      BY <3>1, <3>2
  <2> HIDE DEF h, B
  <2>3. Flows(B, h, DecoderAfter(d, f), s, g, l2)
    BY <1>2, <2>1, <2>2, FlowsTaken
  <2> QED
    BY <2>3 DEF h, B
<1> QED
  BY <1>2, <1>4 DEF FlowsIn

LEMMA ChanTakes ==
  ASSUME TypeOK, ChanInv, NEW e \in Ends, NEW p \in Ends, p = Peer[e],
         0 \notin Sizes[p], CmdRecv(e)
  PROVE  ChanOK(p, e)'
<1> USE DEF senderVars, cmdVars, permitVars, appVars
<1> DEFINE f == Head(cmdq[e]).frame
           S == Stream(e)
           s == sent[p]
           g == Excused(p)
           d == dec[e]
           R == Arrived(e)
           l == Last(e)
           k == Num(f)
           l2 == IF HandsOut(d, f) THEN k ELSE l
<1>1. /\ p # e /\ ChanOK(p, e) /\ Steps(e)
  BY PeerFacts DEF ChanInv, Steps, CmdTask
<1>2. /\ task[e] = "run" /\ cmdq[e] # << >> /\ Head(cmdq[e]).cmd = "Recv"
      /\ Accepts(d, f) /\ dec'[e] = DecoderAfter(d, f)
      /\ cmdq'[e] = Tail(cmdq[e]) /\ task'[e] \in {"run", "deliver"}
      /\ link' = link /\ wire' = wire
  BY TakesFrame
<1>3. /\ Same(p) /\ Excused(p)' = g /\ Alive(e) /\ Alive(e)'
      /\ recvd' = recvd /\ msgq' = msgq
  BY <1>1, <1>2, OthersSame, ExcusedSame DEF Same, Alive, CmdRecv
<1>4. /\ S # << >> /\ Head(S) = Head(cmdq[e]) /\ S' = Tail(S)
      /\ S \in Seq(Cmd) /\ Head(cmdq[e]) \in Cmd
  BY <1>2, TakenStream, StreamType
<1>5. /\ f \in Frame /\ s \in Msgs /\ d \in Decoder /\ l \in Nat /\ R \in Msgs
      /\ recvd[e] \in Msgs /\ msgq[e] \in Msgs /\ cur[p] \in Nat
  <2>1. f \in Frame
    BY <1>2, <1>4 DEF Cmd
  <2> QED
    BY <1>1, <2>1, ArrivedType, LastType DEF TypeOK
<1>6. FlowsIn(Items(S), d, s, g, l)
  BY <1>1, <1>3, StreamKnown
<1>7. /\ InOrder(R, s, g) /\ OwnMessage(p)
      /\ link[p] = "open" /\ link[e] = "open" =>
           Sending(Frames(S), d, s, g, l, pc[p], cur[p], Comes(p, e))
  BY <1>1, <1>3 DEF ChanOK, SendingOK
<1>8. /\ ResultOf(d, f).what = "Message" =>
           /\ task'[e] = "deliver"
           /\ hold'[e] = CompleteFrame(ResultOf(d, f).body)
      /\ ResultOf(d, f).what # "Message" => task'[e] = task[e]
  BY DEF CmdRecv, TypeOK
<1>9. Comes(p, e)' <=> Comes(p, e)
  <2>1. Granted(p)' <=> Granted(p)
    BY <1>2, <1>3, StreamSame DEF Same
  <2> QED
    BY <1>2, <1>3, <2>1 DEF Comes, Alive, Same
<1>10. R = recvd[e] \o (msgq[e] \o << >>) /\ l = UpTo(R, Len(R))
  BY <1>2 DEF Arrived, Held, Last
<1>11. /\ Frames(S) = {f} \cup Frames(S') /\ Head(S).cmd = "Recv"
       /\ f = Head(S).frame
  BY <1>2, <1>4, TailFrame
<1>12. /\ Arrived(e)' = recvd[e] \o (msgq[e] \o Held(e)')
       /\ Last(e)' = UpTo(Arrived(e)', Len(Arrived(e)'))
       /\ ResultOf(d, f).what = "Message" => Held(e)' = << ResultOf(d, f).body >>
       /\ ResultOf(d, f).what # "Message" => Held(e)' = << >>
  BY <1>2, <1>3, <1>8 DEF Arrived, Last, Held, CompleteFrame
<1> HIDE DEF f, S, s, g, d, R, l
<1>13. Flows({}, f, d, s, g, l)
  <2>1. << f, {} >> \in Items(S)
    BY <1>4, <1>11, TailFrame
  <2> QED
    BY <1>6, <2>1 DEF FlowsIn
<1>14. /\ ResultOf(d, f).what = "Message" <=> HandsOut(d, f)
       /\ HandsOut(d, f) => Finishes(s, f) /\ ResultOf(d, f).body = s[k]
  BY <1>2, <1>5, <1>13, MessageOfFrame DEF HandsOut
<1>15. InOrder(Arrived(e)', s, g) /\ Last(e)' = l2 /\ l2 \in Nat
  <2>1. CASE HandsOut(d, f)
    <3>1. /\ PartOf(s, f) /\ l < k
          /\ \A j \in l + 1..k - 1 : Settles({}, s, g, j)
      BY <1>13, <1>14, <2>1 DEF Flows, Finishes
    <3>2. k \in 1..Len(s) /\ l + 1..k - 1 \subseteq g
      BY <3>1 DEF PartOf, Settles
    <3>3. NumOf(s[k]) = k /\ s[k] \in Seq(Byte)
      <4>1. PICK n \in Sizes[p] : s[k] = Body(k, n)
        BY <1>7, <3>2 DEF OwnMessage, s
      <4>2. n \in Nat /\ n # 0
        BY FramedAssumption
      <4>3. NumOf(Body(k, n)) = k
        BY <4>2, BodyShape
      <4>4. s[k] \in Seq(Byte)
        BY <1>5, <3>2 DEF Msgs
      <4> QED
        BY <4>1, <4>3, <4>4
    <3>4. Arrived(e)' = Append(R, s[k])
      <4>1. recvd[e] \o (msgq[e] \o << s[k] >>)
              = Append(recvd[e] \o (msgq[e] \o << >>), s[k])
        BY <1>5, <3>3, MsgJoins
      <4> QED
        BY <1>10, <1>12, <1>14, <2>1, <4>1
    <3>5. /\ InOrder(Append(R, s[k]), s, g)
          /\ UpTo(Append(R, s[k]), Len(Append(R, s[k]))) = k
      BY <1>5, <1>7, <1>10, <3>1, <3>2, <3>3, InOrderAppend
    <3> QED
      BY <1>12, <2>1, <3>2, <3>4, <3>5
  <2>2. CASE ~ HandsOut(d, f)
    <3>1. Arrived(e)' = R
      BY <1>10, <1>12, <1>14, <2>2
    <3> QED
      BY <1>5, <1>7, <1>10, <1>12, <2>2, <3>1
  <2> QED
    BY <2>1, <2>2
<1>16. FlowsIn(Items(S'), DecoderAfter(d, f), s, g, l2)
  BY <1>2, <1>4, <1>5, <1>6, <1>11, <1>15, FlowsInTaken
<1>17. link[p] = "open" /\ link[e] = "open" =>
         Sending(Frames(S'), DecoderAfter(d, f), s, g, l2, pc[p], cur[p],
                 Comes(p, e)')
  <2> SUFFICES ASSUME link[p] = "open", link[e] = "open"
               PROVE  Sending(Frames(S'), DecoderAfter(d, f), s, g, l2, pc[p],
                              cur[p], Comes(p, e)')
    OBVIOUS
  <2>1. Sending({f} \cup Frames(S'), d, s, g, l, pc[p], cur[p], Comes(p, e))
    BY <1>7, <1>11
  <2>2. /\ s # << >> \/ pc[p] \in {"new", "idle"}
        /\ pc[p] = "chunks" => cur[p] < Len(s[Len(s)])
    BY <1>7 DEF OwnMessage, s
  <2> HIDE DEF l2
  <2>3. Sending(Frames(S'), DecoderAfter(d, f), s, g, l2, pc[p], cur[p],
                Comes(p, e))
    BY <1>2, <1>5, <1>13, <1>15, <2>1, <2>2, SendingTaken DEF l2
  <2> QED
    BY <1>9, <2>3, SendingSame
<1> HIDE DEF l2
<1>18. OwnMessage(p)'
  BY <1>3, <1>7 DEF OwnMessage, Same, s
<1>19. FlowOK(p, e)'
  BY <1>2, <1>3, <1>15, <1>16 DEF FlowOK, Same, S, s, g, d
<1>20. SendingOK(p, e)'
  BY <1>2, <1>3, <1>15, <1>17 DEF SendingOK, Same, S, s, g, d
<1>21. InOrder(Arrived(e)', sent'[p], Excused(p)')
  BY <1>3, <1>15 DEF Same, s
<1> QED
  BY <1>18, <1>19, <1>20, <1>21 DEF ChanOK

(* The command task takes a frame.                                         *)
LEMMA ChanRecv ==
  ASSUME TypeOK, ChanInv, NEW e \in Ends, 0 \notin Sizes[Peer[e]], CmdRecv(e)
  PROVE  ChanInv'
<1> USE DEF senderVars, cmdVars, permitVars, appVars
<1> DEFINE p == Peer[e]
           f == Head(cmdq[e]).frame
           S == Stream(e)
<1>1. p \in Ends /\ p # e /\ p = Peer[e] /\ Steps(e)
  BY PeerFacts DEF Steps, CmdTask
<1>2. /\ task[e] = "run" /\ cmdq[e] # << >> /\ Head(cmdq[e]).cmd = "Recv"
      /\ cmdq'[e] = Tail(cmdq[e]) /\ link' = link /\ wire' = wire
      /\ msg' = msg /\ cur' = cur /\ sent' = sent
      /\ pc'[e] = IF /\ f.kind = "PermitGrant" /\ pc[e] = "requested"
                     /\ dec[e].notify = Len(sent[e])
                  THEN "chunks" ELSE pc[e]
  BY TakesFrame
<1>3. gaveup' = gaveup /\ Same(p)
  BY <1>1, OthersSame DEF CmdRecv
<1>4. /\ S # << >> /\ Head(S) = Head(cmdq[e]) /\ S' = Tail(S) /\ S \in Seq(Cmd)
  BY <1>2, TakenStream, StreamType
<1>5. Frames(S) = {f} \cup Frames(S')
  BY <1>2, <1>4, TailFrame
<1>6. (Granted(e)' => Granted(e)) /\ (f.kind = "PermitGrant" => Granted(e))
  BY <1>5 DEF Granted
<1>7. Stream(p)' = Stream(p)
  BY <1>1, <1>2, <1>3, StreamSame DEF Same
<1>8. Adds(Stream(p), Stream(p)') /\ Alive(e)
  BY <1>2, <1>7 DEF Adds, Alive
<1>9. pc'[e] = pc[e] \/ (pc[e] = "requested" /\ pc'[e] = "chunks" /\ Comes(e, p))
  BY <1>2, <1>6, <1>8 DEF Comes
<1>10. ChanOK(e, p)'
  BY <1>1, <1>2, <1>3, <1>6, <1>7, <1>8, <1>9, SenderRole
<1>11. ChanOK(p, e)'
  BY <1>1, ChanTakes
<1> QED
  BY <1>1, <1>10, <1>11, ChanRoles

(* The permit for the remote's request arrives.                            *)
LEMMA ChanPermits ==
  ASSUME TypeOK, PermitInv, GrantInv, ChanInv, NEW e \in Ends,
         CmdRemotePermit(e)
  PROVE  ChanInv'
<1> USE DEF senderVars, cmdVars, permitVars, appVars
<1> DEFINE p == Peer[e]
           S == Stream(e)
           d == dec[e]
           s == sent[p]
           n == Head(cmdq[e]).len
<1>1. /\ p \in Ends /\ p # e /\ p = Peer[e] /\ e = Peer[p] /\ Steps(e)
      /\ ChanOK(p, e)
  BY PeerFacts DEF Steps, CmdTask, ChanInv
<1>2. /\ task[e] = "run" /\ task'[e] = "grant" /\ cmdq[e] # << >>
      /\ Head(cmdq[e]).cmd = "RemotePermit" /\ MayGrant(d)
      /\ dec'[e] = AfterGrant(d, n) /\ cmdq'[e] = Tail(cmdq[e])
      /\ link' = link /\ wire' = wire /\ pc' = pc /\ msg' = msg /\ cur' = cur
      /\ sent' = sent /\ gaveup' = gaveup /\ msgq' = msgq /\ recvd' = recvd
      /\ lossy' = lossy
  BY DEF CmdRemotePermit, TakesCmd, TypeOK
<1>3. Same(p) /\ Excused(p)' = Excused(p)
  BY <1>1, <1>2, OthersSame DEF Excused
<1>4. /\ S # << >> /\ Head(S) = Head(cmdq[e]) /\ S' = Tail(S) /\ S \in Seq(Cmd)
  BY <1>2, TakenStream, StreamType
<1>5. Frames(S') = Frames(S) /\ Items(S') \subseteq Items(S)
  BY <1>2, <1>4, TailOtherCmd
<1>6. Granted(e)' <=> Granted(e)
  BY <1>5 DEF Granted
<1>7. Stream(p)' = Stream(p)
  BY <1>1, <1>2, <1>3, StreamSame DEF Same
<1>8. Adds(Stream(p), Stream(p)') /\ Alive(e) /\ Alive(e)'
  BY <1>2, <1>7 DEF Adds, Alive
<1>9. ChanOK(e, p)'
  BY <1>1, <1>2, <1>6, <1>7, <1>8, SenderRole
<1>10. Arrived(e)' = Arrived(e) /\ Last(e)' = Last(e)
  BY <1>2 DEF Arrived, Held, Last
<1>11. /\ FlowsIn(Items(S), d, s, Excused(p), Last(e))
       /\ Known(Frames(S), s)
       /\ \A f \in Frames(S) : IsChunk(f) => d.state = "ReceiveChunked"
  BY <1>1, <1>8, StreamKnown
<1>12. /\ OwnMessage(p) /\ InOrder(Arrived(e), s, Excused(p))
       /\ link[p] = "open" /\ link[e] = "open" =>
            Sending(Frames(S), d, s, Excused(p), Last(e), pc[p], cur[p],
                    Comes(p, e))
  BY <1>1, <1>8 DEF ChanOK, SendingOK
<1>13. d \in Decoder /\ d.incoming = << >> /\ d.state = "RemoteAwaitingPermit"
  BY <1>2 DEF TypeOK, PermitInv, EndOK, Consistent, MayGrant
<1>14. pc[p] = "requested" /\ Comes(p, e)' =>
         d.awaiting = Len(s[Len(s)]) /\ s[Len(s)] \in Seq(Byte)
  <2> SUFFICES ASSUME pc[p] = "requested", Comes(p, e)'
               PROVE  d.awaiting = Len(s[Len(s)]) /\ s[Len(s)] \in Seq(Byte)
    OBVIOUS
  <2>1. Alive(p)
    BY <1>3 DEF Comes, Alive, Same
  <2>2. Answered(p, e)
    BY <1>1, <1>8, <2>1 DEF GrantInv, GrantOK
  <2>3. d.awaiting = Len(msg[p])
    BY <1>13, <2>2 DEF Answered
  <2>4. msg[p] = s[Len(s)]
    BY <1>12 DEF OwnMessage
  <2>5. msg[p] \in Seq(Byte)
    BY <1>1 DEF TypeOK
  <2> QED
    BY <2>3, <2>4, <2>5
<1>15. FlowOK(p, e)'
  <2>1. FlowsIn(Items(S'), dec'[e], s, Excused(p), Last(e))
    BY <1>5, <1>11, <1>13, FlowsInSame
  <2> QED
    BY <1>2, <1>3, <1>10, <2>1 DEF FlowOK
<1>16. SendingOK(p, e)'
  <2> SUFFICES ASSUME link[p] = "open", link[e] = "open"
               PROVE  Sending(Frames(S'), dec'[e], s, Excused(p), Last(e), pc[p],
                              cur[p], Comes(p, e)')
    BY <1>2, <1>3, <1>10 DEF SendingOK
  <2>1. Sending(Frames(S), d, s, Excused(p), Last(e), pc[p], cur[p], Comes(p, e))
    BY <1>12
  <2> HIDE DEF S, d, s, n
  <2>2. Sending(Frames(S), AfterGrant(d, n), s, Excused(p), Last(e), pc[p],
                cur[p], Comes(p, e)')
    BY <1>2, <1>11, <1>13, <1>14, <2>1, SendingGrants
  <2> QED
    BY <1>2, <1>5, <2>2
<1>17. OwnMessage(p)' /\ InOrder(Arrived(e)', sent'[p], Excused(p)')
  BY <1>2, <1>3, <1>10, <1>12 DEF OwnMessage
<1>18. ChanOK(p, e)'
  BY <1>15, <1>16, <1>17 DEF ChanOK
<1> QED
  BY <1>1, <1>9, <1>18, ChanRoles

----------------------------------------------------------------------------
(* A frame is lost: everything of its end may be missing from then on.     *)
LEMMA StreamThins ==
  ASSUME NEW q \in Seq(Cmd), NEW w \in Seq(Frame), NEW k \in 1..Len(w)
  PROVE  /\ Thins(Items(StreamOf(q, w)), Items(StreamOf(q, Without(w, k))))
         /\ Frames(StreamOf(q, Without(w, k))) \subseteq Frames(StreamOf(q, w))
<1> DEFINE S == StreamOf(q, w)
           v == Without(w, k)
           T == StreamOf(q, v)
           h(i) == IF i < Len(q) + k THEN i ELSE i + 1
<1>1. /\ v \in Seq(Frame) /\ Len(v) = Len(w) - 1
      /\ \A i \in 1..Len(w) - 1 : v[i] = IF i < k THEN w[i] ELSE w[i + 1]
  BY WithoutOne
<1> HIDE DEF v
<1>2. Shape(S, q, w) /\ Shape(T, q, v)
  BY <1>1, ShapeHolds
<1> HIDE DEF S, T
<1>3. /\ S \in Seq(Cmd) /\ T \in Seq(Cmd) /\ k \in Nat \ {0} /\ k <= Len(w)
      /\ Len(q) \in Nat /\ Len(w) \in Nat /\ Len(S) = Len(q) + Len(w)
      /\ Len(T) = Len(q) + Len(w) - 1
  <2>1. Len(q) \in Nat /\ Len(w) \in Nat
    OBVIOUS
  <2> QED
    BY <1>1, <1>2, <2>1 DEF Shape
<1>4. ASSUME NEW i \in 1..Len(T)
      PROVE  h(i) \in 1..Len(S) /\ T[i] = S[h(i)]
  <2>1. CASE i \in 1..Len(q)
    <3>1. h(i) = i /\ i \in 1..Len(S)
      BY <1>3, <2>1
    <3> QED
      BY <1>2, <2>1, <3>1 DEF Shape
  <2>2. CASE i \in Len(q) + 1..Len(q) + Len(v)
    <3>1. /\ i - Len(q) \in 1..Len(w) - 1 /\ h(i) \in 1..Len(S)
          /\ h(i) \in Len(q) + 1..Len(q) + Len(w)
          /\ h(i) - Len(q) = IF i - Len(q) < k THEN i - Len(q)
                             ELSE i - Len(q) + 1
      BY <1>1, <1>3, <2>2
    <3>2. T[i] = RecvCmd(v[i - Len(q)]) /\ S[h(i)] = RecvCmd(w[h(i) - Len(q)])
      BY <1>2, <2>2, <3>1 DEF Shape
    <3> QED
      BY <1>1, <3>1, <3>2
  <2> QED
    BY <1>1, <1>3, <2>1, <2>2
<1>5. ASSUME NEW i \in Recvs(T)
      PROVE  h(i) \in Recvs(S) /\ T[i].frame = S[h(i)].frame /\ i \in Int
  BY <1>4 DEF Recvs
<1>6. ASSUME NEW i \in Recvs(T), NEW j \in Recvs(T), j < i
      PROVE  h(j) < h(i)
  BY <1>3, <1>5, <1>6
<1>7. ASSUME NEW i \in Recvs(T)
      PROVE  Before(T, i) \subseteq Before(S, h(i))
  <2>1. ASSUME NEW j \in Recvs(T), j < i
        PROVE  T[j].frame \in Before(S, h(i))
    BY <1>5, <1>6, <2>1 DEF Before
  <2> QED
    BY <2>1 DEF Before
<1>8. Thins(Items(S), Items(T))
  <2>1. ASSUME NEW i \in Recvs(T)
        PROVE  << T[i].frame, Before(S, h(i)) >> \in Items(S)
    BY <1>5 DEF Items
  <2> HIDE DEF h
  <2>2. ASSUME NEW i \in Recvs(T)
        PROVE  \E y \in Items(S) : y[1] = T[i].frame /\ Before(T, i) \subseteq y[2]
    BY <1>7, <2>1
  <2> QED
    BY <2>2 DEF Thins, Items
<1>9. Frames(T) \subseteq Frames(S)
  BY <1>5 DEF Frames
<1> QED
  BY <1>8, <1>9 DEF S, T, v

LEMMA FlowsInThin ==
  ASSUME NEW I, NEW J, NEW d, NEW s \in Msgs, NEW g, NEW l \in Nat,
         FlowsIn(I, d, s, g, l), Thins(I, J)
  PROVE  FlowsIn(J, d, s, Nat, l)
<1> SUFFICES ASSUME NEW x \in J, Carries(x[1])
             PROVE  Flows(x[2], x[1], d, s, Nat, l)
  BY DEF FlowsIn, Flows
<1>1. PICK y \in I : y[1] = x[1] /\ x[2] \subseteq y[2]
  BY DEF Thins
<1>2. Flows(y[2], x[1], d, s, g, l)
  BY <1>1 DEF FlowsIn
<1>3. /\ PartOf(s, x[1]) /\ l < Num(x[1])
      /\ \A b \in x[2] : Finishes(s, b) => Num(b) < Num(x[1])
      /\ IsChunk(x[1]) => Collects(d, s, Num(x[1]))
      /\ IsChunk(x[1]) => ChunkFollows(y[2], x[1], d, g)
  BY <1>1, <1>2 DEF Flows
<1>4. Num(x[1]) \in Nat
  BY <1>3 DEF PartOf
<1>5. \A j \in l + 1..Num(x[1]) - 1 : Settles(x[2], s, Nat, j)
  BY DEF Settles
<1>6. IsChunk(x[1]) => ChunkFollows(x[2], x[1], d, Nat)
  BY <1>1, <1>3, <1>4 DEF ChunkFollows
<1> QED
  BY <1>3, <1>5, <1>6 DEF Flows

LEMMA SendingThin ==
  ASSUME NEW F, NEW H, NEW d, NEW s \in Msgs, NEW g, NEW l \in Nat, NEW at, NEW c,
         NEW comes, NEW comes2, H \subseteq F, comes2 => comes,
         Sending(F, d, s, g, l, at, c, comes)
  PROVE  Sending(H, d, s, Nat, l, at, c, comes2)
<1>1. \A j \in l + 1..Over(at, s) : Settles(H, s, Nat, j)
  BY DEF Settles
<1>2. Len(s) \in Nat
  BY DEF Msgs
<1> QED
  BY <1>1, <1>2 DEF Sending

LEMMA LoseChanInv ==
  ASSUME TypeOK, ChanInv, NEW e \in Ends, Lose(e)
  PROVE  ChanInv'
<1> DEFINE p == Peer[e]
<1>1. /\ p \in Ends /\ p # e /\ Peer[p] = e
      /\ \A o \in Ends : Peer[o] \in Ends /\ (Peer[o] = p <=> o = e)
  BY PeerFacts
<1>2. /\ pc' = pc /\ msg' = msg /\ cur' = cur /\ sent' = sent
      /\ gaveup' = gaveup /\ link' = link /\ cmdq' = cmdq /\ task' = task
      /\ hold' = hold /\ dec' = dec /\ msgq' = msgq /\ recvd' = recvd
      /\ \A o \in Ends : o # p => wire'[o] = wire[o]
      /\ lossy'[e] /\ \A o \in Ends : o # e => lossy'[o] = lossy[o]
  BY LosesOne DEF senderVars, cmdVars
<1>3. PICK k \in 1..Len(wire[p]) : wire'[p] = Without(wire[p], k)
  BY LosesOne
<1>4. \A o \in Ends : /\ Arrived(o)' = Arrived(o) /\ Last(o)' = Last(o)
                      /\ (Alive(o)' <=> Alive(o))
  BY <1>2 DEF Arrived, Held, Last, Alive
<1>5. \A o \in Ends : o # p =>
        Stream(o)' = Stream(o) /\ (Granted(o)' <=> Granted(o))
  BY <1>2, StreamSame
<1>6. /\ Thins(Items(Stream(p)), Items(Stream(p)'))
      /\ Frames(Stream(p)') \subseteq Frames(Stream(p))
  <2>1. cmdq[p] \in Seq(Cmd) /\ wire[p] \in Seq(Frame)
    BY <1>1, StreamType
  <2>2. Stream(p)' = StreamOf(cmdq[p], Without(wire[p], k))
    BY <1>2, <1>3 DEF Stream
  <2> QED
    BY <2>1, <2>2, StreamThins DEF Stream
<1>7. \A o \in Ends : Granted(o)' => Granted(o)
  BY <1>5, <1>6 DEF Granted
<1>8. \A o \in Ends : Comes(o, Peer[o])' => Comes(o, Peer[o])
  BY <1>2, <1>4, <1>7 DEF Comes
<1>9. ChanOK(e, p)'
  <2>1. ChanOK(e, p) /\ OwnMessage(e) /\ sent[e] \in Msgs
    BY ArrivedType DEF ChanInv, ChanOK
  <2>2. Excused(e)' = Nat /\ Excused(e) \subseteq Nat
    BY <1>2, ArrivedType DEF Excused
  <2>3. OwnMessage(e)'
    BY <1>2, <2>1 DEF OwnMessage
  <2>4. InOrder(Arrived(p), sent[e], Nat)
    BY <2>1, <2>2, InOrderGrows DEF ChanOK
  <2>5. Last(p) \in Nat
    BY <1>1, <2>1, LastType
  <2>6. Alive(p) => FlowsIn(Items(Stream(p)'), dec[p], sent[e], Nat, Last(p))
    BY <1>6, <2>1, <2>5, FlowsInThin DEF ChanOK, FlowOK
  <2>7. link[e] = "open" /\ link[p] = "open" /\ Alive(p) =>
          Sending(Frames(Stream(p)'), dec[p], sent[e], Nat, Last(p), pc[e],
                  cur[e], Comes(e, p)')
    BY <1>6, <1>8, <2>1, <2>5, SendingThin DEF ChanOK, SendingOK
  <2>8. FlowOK(e, p)'
    BY <1>1, <1>2, <1>4, <2>2, <2>6 DEF FlowOK
  <2>9. SendingOK(e, p)'
    BY <1>1, <1>2, <1>4, <2>2, <2>7 DEF SendingOK
  <2>10. InOrder(Arrived(p)', sent'[e], Excused(e)')
    BY <1>1, <1>2, <1>4, <2>2, <2>4
  <2> QED
    BY <2>3, <2>8, <2>9, <2>10 DEF ChanOK
<1>10. ASSUME NEW o \in Ends, o # e
       PROVE  ChanOK(o, Peer[o])'
  <2> DEFINE r == Peer[o]
  <2>1. r \in Ends /\ r # p /\ ChanOK(o, r)
    BY <1>1, <1>10 DEF ChanInv
  <2>2. /\ Excused(o)' = Excused(o)
        /\ sent'[o] = sent[o] /\ msg'[o] = msg[o] /\ cur'[o] = cur[o]
        /\ pc'[o] = pc[o] /\ link' = link /\ dec' = dec
    BY <1>2, <1>10 DEF Excused
  <2>3. Stream(r)' = Stream(r) /\ Adds(Stream(r), Stream(r)')
    BY <1>5, <2>1 DEF Adds
  <2>4. Arrived(r)' = Arrived(r) /\ (Alive(r)' <=> Alive(r))
    BY <1>4, <2>1
  <2>5. Comes(o, r)' => Comes(o, r)
    BY <1>8
  <2> HIDE DEF r
  <2>6. ChanOK(o, r)'
    BY <2>1, <2>2, <2>3, <2>4, <2>5, ChanQuiet
  <2> QED
    BY <2>6 DEF r
<1>11. \A o \in Ends : ChanOK(o, Peer[o])'
  BY <1>9, <1>10
<1> QED
  BY <1>11 DEF ChanInv

LEMMA InitChanInv == Init => ChanInv
<1> SUFFICES ASSUME Init, NEW e \in Ends
             PROVE  ChanOK(e, Peer[e])
  BY DEF ChanInv
<1> DEFINE p == Peer[e]
<1>1. p \in Ends
  BY PeerFacts
<1>2. /\ sent[e] = << >> /\ pc[e] = "new" /\ recvd[p] = << >> /\ msgq[p] = << >>
      /\ task[p] = "new" /\ dec[p] = NewDecoder
      /\ cmdq[p] = << >> /\ wire[p] = << >>
  BY <1>1 DEF Init
<1>3. Arrived(p) = << >> /\ Len(Arrived(p)) = 0
  <2>1. << >> \o (<< >> \o << >>) = << >>
    OBVIOUS
  <2> QED
    BY <1>2, <2>1 DEF Arrived, Held
<1>4. Frames(Stream(p)) = {} /\ Items(Stream(p)) = {}
  <2>1. StreamOf(<< >>, << >>) = << >>
    BY DEF StreamOf
  <2>2. Recvs(Stream(p)) = {}
    BY <1>2, <2>1 DEF Stream, Recvs
  <2> QED
    BY <2>2 DEF Frames, Items
<1>5. Last(p) = 0
  BY <1>3 DEF Last, UpTo
<1>6. OwnMessage(e)
  BY <1>2 DEF OwnMessage
<1>7. InOrder(Arrived(p), sent[e], Excused(e))
  BY <1>3 DEF InOrder
<1>8. FlowOK(e, p)
  BY <1>4 DEF FlowOK, FlowsIn
<1>9. SendingOK(e, p)
  <2>1. Len(sent[e]) = 0 /\ Over("new", sent[e]) = 0
    BY <1>2 DEF Over
  <2> QED
    BY <1>2, <1>4, <1>5, <2>1 DEF SendingOK, Sending
<1> QED
  BY <1>6, <1>7, <1>8, <1>9 DEF ChanOK

LEMMA NextChanInv ==
  ASSUME \A e \in Ends : 0 \notin Sizes[e],
         TypeOK, PermitInv, GrantInv, ChanInv, [Next]_vars
  PROVE  ChanInv'
<1>1. ASSUME NEW e \in Ends, Steps(e)
      PROVE  ChanInv'
  <2>0. 0 \notin Sizes[e] /\ 0 \notin Sizes[Peer[e]]
    BY PeerFacts
  <2>1. CASE \/ CmdDeliver(e) \/ OwnerRecv(e) \/ NewFail(e)
             \/ WaiterPoll(e) \/ WaiterAcquire(e) \/ WaiterGone(e)
    BY <2>1, ChanLocal
  <2>2. CASE SendAwaitPermit(e) \/ RecvTask(e) \/ RecvTaskClose(e) \/ WaiterSend(e)
    BY <2>2, ChanJoins
  <2>3. CASE CmdAwaitPermit(e)
    BY <2>3, ChanAwaits
  <2>4. CASE CmdRecvError(e) \/ CmdAwaitPermitError(e) \/ CmdClose(e)
    BY <2>4, ChanStops
  <2>5. CASE ConnClose(e) \/ RecvTaskStop(e) \/ Drop(e)
    BY <2>5, ChanCloses
  <2>6. CASE New(e) \/ SendPermitRequest(e) \/ CmdSendGrant(e)
    BY <2>6, ChanTells
  <2>7. CASE SendStart(e)
    BY <2>7, ChanStarts
  <2>8. CASE SendFail(e) \/ SendCancel(e)
    BY <2>8, ChanGivesUp
  <2>9. CASE SendOne(e)
    BY <2>0, <2>9, ChanOne
  <2>10. CASE SendChunk(e)
    BY <2>10, ChanChunk
  <2>11. CASE CmdRecv(e)
    BY <2>0, <2>11, ChanRecv
  <2>12. CASE CmdRemotePermit(e)
    BY <2>12, ChanPermits
  <2>13. CASE Sender(e)
    BY <2>13, <2>1, <2>2, <2>5, <2>6, <2>8, <2>9, <2>10 DEF Sender
  <2>14. CASE Receiver(e) \/ Waiter(e)
    BY <2>14, <2>1, <2>2, <2>5 DEF Receiver, Waiter
  <2>15. CASE CmdTask(e)
    BY <2>15, <2>1, <2>3, <2>4, <2>6, <2>11, <2>12 DEF CmdTask
  <2> QED
    BY <1>1, <2>1, <2>5, <2>7, <2>8, <2>13, <2>14, <2>15 DEF Steps
<1>2. CASE UNCHANGED vars
  <2> SUFFICES ASSUME NEW e \in Ends, NEW p \in Ends, ChanOK(e, p)
               PROVE  ChanOK(e, p)'
    BY PeerFacts DEF ChanInv
  <2> USE <1>2 DEF vars, senderVars, cmdVars, appVars
  <2>1. /\ Arrived(p)' = Arrived(p) /\ (Alive(p)' <=> Alive(p))
        /\ (Alive(e)' <=> Alive(e)) /\ Excused(e)' = Excused(e)
    BY DEF Arrived, Held, Alive, Excused
  <2>2. Stream(p)' = Stream(p) /\ (Granted(e)' <=> Granted(e))
    BY StreamSame
  <2>3. Adds(Stream(p), Stream(p)') /\ (Comes(e, p)' <=> Comes(e, p))
    BY <2>1, <2>2 DEF Adds, Comes
  <2> QED
    BY <2>1, <2>2, <2>3, ChanQuiet
<1>3. ASSUME NEW e \in Ends, Lose(e)
      PROVE  ChanInv'
  BY <1>3, LoseChanInv
<1> QED
  BY <1>1, <1>2, <1>3 DEF Next, Steps

(* Nothing of the channels changes, when the histories do not.             *)
LEMMA ChanStutters ==
  ASSUME sent' = sent, gaveup' = gaveup, recvd' = recvd, lossy' = lossy
  PROVE  UNCHANGED Chan!chanVars
BY DEF Chan!chanVars, LastReceived

LEMMA LastIsReceived ==
  ASSUME NEW p \in Ends
  PROVE  LastReceived(p) = UpTo(recvd[p], Len(recvd[p]))
<1>1. CASE recvd[p] = << >>
  <2>1. Len(<< >>) = 0
    OBVIOUS
  <2> QED
    BY <1>1, <2>1 DEF LastReceived, UpTo
<1>2. CASE recvd[p] # << >>
  <2> QED
    BY <1>2 DEF LastReceived, UpTo, NumOf
<1> QED
  BY <1>1, <1>2

LEMMA InitRefines == Init => Chan!Init
<1> SUFFICES ASSUME Init
             PROVE  Chan!Init
  OBVIOUS
<1>1. \A e \in Ends : Peer[e] \in Ends
  BY PeerFacts
<1>2. \A e \in Ends : recvd[e] = << >>
  BY DEF Init
<1>3. \A e \in Ends : recvd[Peer[e]] = << >> /\ LastReceived(Peer[e]) = 0
  BY <1>1, <1>2 DEF LastReceived
<1> QED
  BY <1>3 DEF Init, Chan!Init

LEMMA StartRefines ==
  ASSUME TypeOK, NEW e \in Ends, SendStart(e)
  PROVE  Chan!Send(e)
<1> USE DEF appVars
<1>1. Len(sent[e]) \in Nat /\ Len(sent[e]) < MaxMsgs[e] /\ MaxMsgs[e] \in Nat
  <2>1. MaxMsgs[e] \in Nat
    BY FramedAssumption
  <2>2. Len(sent[e]) \in Nat
    BY DEF TypeOK
  <2> QED
    BY <2>1, <2>2 DEF SendStart
<1>2. Len(sent[e]) + 1 \in 1..MaxMsgs[e]
  BY <1>1
<1>3. PICK n \in Sizes[e] :
        sent' = [sent EXCEPT ![e] = Append(@, Body(Len(sent[e]) + 1, n))]
  BY DEF SendStart
<1>4. gaveup' = gaveup /\ recvd' = recvd /\ lossy' = lossy
  BY DEF SendStart
<1> DEFINE m == Body(Len(sent[e]) + 1, n)
<1>5. m \in Messages[e]
  BY <1>2 DEF Messages
<1>6. UNCHANGED << gaveup, [x \in Ends |-> recvd[Peer[x]]],
                   [x \in Ends |-> LastReceived(Peer[x])], lossy >>
  BY <1>4 DEF LastReceived
<1>7. \E x \in Messages[e] : sent' = [sent EXCEPT ![e] = Append(@, x)]
  <2> HIDE DEF m
  <2>1. sent' = [sent EXCEPT ![e] = Append(@, m)]
    BY <1>3 DEF m
  <2> QED
    BY <1>5, <2>1
<1> QED
  BY <1>6, <1>7 DEF Chan!Send

LEMMA GiveUpRefines ==
  ASSUME TypeOK, ChanInv, NEW e \in Ends, SendFail(e) \/ SendCancel(e)
  PROVE  Chan!GiveUp(e)
<1> USE DEF appVars
<1>1. pc[e] \notin {"new", "idle"} /\ GiveUp(e)
  BY DEF SendFail, SendCancel
<1>2. sent[e] # << >>
  BY <1>1, MessageSent
<1>3. /\ gaveup' = [gaveup EXCEPT ![e] = @ \cup {Len(sent[e])}]
      /\ sent' = sent /\ recvd' = recvd /\ lossy' = lossy
  BY <1>1 DEF GiveUp
<1> QED
  BY <1>2, <1>3 DEF Chan!GiveUp, LastReceived

(* The owner of an end receives: the remote's channel delivers.            *)
LEMMA RecvRefines ==
  ASSUME TypeOK, ChanInv, NEW e \in Ends, OwnerRecv(e)
  PROVE  Chan!Deliver(Peer[e])
<1> USE DEF senderVars
<1> DEFINE p == Peer[e]
           R == Arrived(e)
           i == Len(recvd[e]) + 1
           s == sent[p]
           k == NumOf(Head(msgq[e]))
           l == LastReceived(e)
<1>1. p \in Ends /\ p # e /\ Peer[p] = e /\ InOrder(R, s, Excused(p))
  BY PeerFacts DEF ChanInv, ChanOK
<1>2. /\ msgq[e] # << >> /\ recvd' = [recvd EXCEPT ![e] = Append(@, Head(msgq[e]))]
      /\ sent' = sent /\ gaveup' = gaveup /\ lossy' = lossy
  BY DEF OwnerRecv, appVars
<1>3. /\ recvd[e] \in Msgs /\ msgq[e] \in Msgs /\ Held(e) \in Msgs
  BY ArrivedType
<1>4. /\ i \in 1..Len(R) /\ R[i] = Head(msgq[e])
      /\ \A j \in 1..Len(recvd[e]) : R[j] = recvd[e][j]
      /\ Len(recvd[e]) \in Nat
  <2>1. \A x, y, z \in Msgs :
          y # << >> =>
            /\ Len(x) + 1 \in 1..Len(x \o (y \o z))
            /\ (x \o (y \o z))[Len(x) + 1] = Head(y)
            /\ \A j \in 1..Len(x) : (x \o (y \o z))[j] = x[j]
            /\ Len(x) \in Nat
    BY DEF Msgs
  <2> QED
    BY <1>2, <1>3, <2>1 DEF Arrived
<1>5. UpTo(R, i - 1) = l
  <2>1. i - 1 = Len(recvd[e])
    BY <1>4
  <2>2. Len(recvd[e]) # 0 => Len(recvd[e]) \in 1..Len(recvd[e])
    BY <1>4
  <2>3. UpTo(R, Len(recvd[e])) = UpTo(recvd[e], Len(recvd[e]))
    BY <1>4, <2>2 DEF UpTo
  <2> QED
    BY <2>1, <2>3, LastIsReceived
<1> HIDE DEF R
<1>6. /\ k \in 1..Len(s) /\ Head(msgq[e]) = s[k] /\ l < k
      /\ lossy[p] \/ l + 1..k - 1 \subseteq gaveup[p]
  BY <1>1, <1>4, <1>5 DEF InOrder, Excused
<1>7. l \in Nat
  <2>1. recvd[e] # << >> => UpTo(recvd[e], Len(recvd[e])) \in Nat
    <3> SUFFICES ASSUME recvd[e] # << >>
                 PROVE  UpTo(recvd[e], Len(recvd[e])) \in Nat
      OBVIOUS
    <3>1. Len(recvd[e]) \in 1..Len(recvd[e]) /\ Len(recvd[e]) # 0
      BY <1>3 DEF Msgs
    <3>2. Len(recvd[e]) \in 1..Len(R)
      BY <1>4, <3>1
    <3>3. NumOf(R[Len(recvd[e])]) \in 1..Len(s)
      BY <1>1, <3>2 DEF InOrder
    <3> QED
      BY <1>4, <3>1, <3>3 DEF UpTo
  <2>2. recvd[e] = << >> => LastReceived(e) = 0
    BY DEF LastReceived
  <2>3. LastReceived(e) = UpTo(recvd[e], Len(recvd[e]))
    BY LastIsReceived
  <2> QED
    BY <2>1, <2>2, <2>3
<1>8. k \in l + 1..Len(s)
  BY <1>6, <1>7
<1>9. recvd'[e] = Append(recvd[e], s[k])
  BY <1>2, <1>6 DEF TypeOK
<1>10. LastReceived(e)' = k
  <2>1. LastReceived(e)' = UpTo(recvd'[e], Len(recvd'[e]))
    <3>1. recvd'[e] # << >> /\ Len(recvd'[e]) # 0
      <4>1. \A M : \A x \in Seq(M), y \in M :
              Append(x, y) # << >> /\ Len(Append(x, y)) # 0
        OBVIOUS
      <4>2. recvd[e] \in Seq(Seq(Byte)) /\ Head(msgq[e]) \in Seq(Byte)
        BY <1>2, <1>3 DEF Msgs
      <4> QED
        BY <1>6, <1>9, <4>1, <4>2
    <3> QED
      BY <3>1 DEF LastReceived, UpTo, NumOf
  <2>2. /\ Len(Append(recvd[e], s[k])) # 0
        /\ Append(recvd[e], s[k])[Len(Append(recvd[e], s[k]))] = s[k]
    BY <1>3 DEF Msgs
  <2> QED
    BY <1>6, <1>9, <2>1, <2>2 DEF UpTo
<1> HIDE DEF l, k, s
<1>11. \A x \in Ends : Peer[x] = e <=> x = p
  BY <1>1, PeerFacts
<1>12. \A x \in Ends : x # p => recvd'[Peer[x]] = recvd[Peer[x]]
                                /\ LastReceived(Peer[x])' = LastReceived(Peer[x])
  BY <1>2, <1>11, PeerFacts DEF LastReceived, TypeOK
<1>13. [x \in Ends |-> recvd'[Peer[x]]]
         = [[x \in Ends |-> recvd[Peer[x]]] EXCEPT ![p] = Append(@, s[k])]
  BY <1>1, <1>9, <1>12
<1>14. [x \in Ends |-> LastReceived(Peer[x])']
         = [[x \in Ends |-> LastReceived(Peer[x])] EXCEPT ![p] = k]
  BY <1>1, <1>10, <1>12
<1>15. [x \in Ends |-> LastReceived(Peer[x])][p] = l
  BY <1>1 DEF l
<1> QED
  BY <1>1, <1>2, <1>6, <1>8, <1>13, <1>14, <1>15 DEF Chan!Deliver, s

(* Every other step leaves the histories alone.                            *)
LEMMA OtherRefines ==
  ASSUME NEW e \in Ends, Steps(e),
         ~ SendStart(e), ~ SendFail(e), ~ SendCancel(e), ~ OwnerRecv(e)
  PROVE  sent' = sent /\ gaveup' = gaveup /\ recvd' = recvd /\ lossy' = lossy
<1> USE DEF senderVars, cmdVars, permitVars, appVars
<1>1. CASE Sender(e)
  BY <1>1 DEF Sender, New, NewFail, SendOne, SendAwaitPermit, SendChunk,
              SendPermitRequest
<1>2. CASE Receiver(e) \/ ConnClose(e) \/ Drop(e)
  BY <1>2 DEF Receiver, RecvTask, RecvTaskClose, RecvTaskStop, ConnClose, Drop
<1>3. CASE CmdTask(e)
  BY <1>3
     DEF CmdTask, CmdRecv, CmdRecvError, CmdDeliver, CmdAwaitPermit,
         CmdAwaitPermitError, CmdRemotePermit, CmdSendGrant, CmdClose
<1>4. CASE Waiter(e)
  BY <1>4 DEF Waiter, WaiterPoll, WaiterAcquire, WaiterSend, WaiterGone
<1> QED
  BY <1>1, <1>2, <1>3, <1>4 DEF Steps

LEMMA LoseRefines ==
  ASSUME TypeOK, NEW e \in Ends, Lose(e)
  PROVE  Chan!Lose(e)
<1>1. sent' = sent /\ gaveup' = gaveup /\ recvd' = recvd
  BY LosesOne DEF senderVars
<1>2. lossy' = [lossy EXCEPT ![e] = TRUE]
  BY DEF Lose
<1> QED
  BY <1>1, <1>2 DEF Chan!Lose, LastReceived

LEMMA NextRefines ==
  ASSUME TypeOK, ChanInv, [Next]_vars
  PROVE  [Chan!Next]_Chan!chanVars
<1>1. ASSUME NEW e \in Ends, Steps(e)
      PROVE  [Chan!Next]_Chan!chanVars
  <2>1. CASE SendStart(e)
    BY <2>1, StartRefines DEF Chan!Next
  <2>2. CASE SendFail(e) \/ SendCancel(e)
    BY <2>2, GiveUpRefines DEF Chan!Next
  <2>3. CASE OwnerRecv(e)
    BY <2>3, RecvRefines, PeerFacts DEF Chan!Next
  <2>4. CASE ~ SendStart(e) /\ ~ SendFail(e) /\ ~ SendCancel(e) /\ ~ OwnerRecv(e)
    BY <1>1, <2>4, OtherRefines, ChanStutters
  <2> QED
    BY <2>1, <2>2, <2>3, <2>4
<1>2. CASE UNCHANGED vars
  <2>1. sent' = sent /\ gaveup' = gaveup /\ recvd' = recvd /\ lossy' = lossy
    BY <1>2 DEF vars, senderVars, appVars
  <2> QED
    BY <2>1, ChanStutters
<1>3. ASSUME NEW e \in Ends, Lose(e)
      PROVE  [Chan!Next]_Chan!chanVars
  BY <1>3, LoseRefines DEF Chan!Next
<1> QED
  BY <1>1, <1>2, <1>3 DEF Next, Steps

(* Whatever is sent, granted, refused, given up, cancelled, lost, closed   *)
(* or dropped, and in whatever order the tasks of the two ends run, the    *)
(* messages that came are in the order of the sends, each whole, and what  *)
(* they skip was given up, or the connection lost a frame of that end      *)
(* (framed.rs:87-185, framed.rs:247-296, proto.rs:298-370,                 *)
(* conn.rs:616-636).  The empty message is left out: it has no first byte  *)
(* to tell its number.                                                     *)
THEOREM MessagesFlowInOrder ==
  ASSUME \A e \in Ends : 0 \notin Sizes[e]
  PROVE  Spec => []ChanInv
<1>1. TypeOK /\ PermitInv /\ GrantInv /\ ChanInv /\ [Next]_vars => ChanInv'
  BY NextChanInv
<1>2. TypeOK /\ TypeOK' /\ PermitInv /\ GrantInv /\ [Next]_vars => GrantInv'
  BY NextGrantInv
<1> QED
  BY <1>1, <1>2, InitChanInv, InitGrantInv, FramedTypeOK, FramedInvariant, PTL
     DEF Spec

(* Two FramedConns implement a channel of whole messages in each           *)
(* direction: delivered at most once, unchanged, in the order of the       *)
(* sends, skipping only messages whose send failed or was cancelled, and   *)
(* any once the connection lost a frame of that end (framed.rs:16-21,      *)
(* framed.rs:223-296, proto.rs:298-370, conn.rs:616-636).  The empty       *)
(* message is left out, for the refinement mapping tells messages apart by *)
(* their first byte.                                                       *)
THEOREM FramedImplementsMsgChannel ==
  ASSUME \A e \in Ends : 0 \notin Sizes[e]
  PROVE  Spec => ImplementsMsgChannel
<1>1. TypeOK /\ ChanInv /\ [Next]_vars => [Chan!Next]_Chan!chanVars
  BY NextRefines
<1> QED
  BY <1>1, InitRefines, FramedTypeOK, MessagesFlowInOrder, PTL
     DEF Spec, ImplementsMsgChannel, Chan!Spec
=============================================================================
