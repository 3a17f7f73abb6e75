------------------------------ MODULE FramedInv ------------------------------
(***************************************************************************)
(* The inductive invariants of Framed that FramedProofs establishes.       *)
(***************************************************************************)
EXTENDS FramedProps

(* What the tasks of an end and its owner do: every step but Lose.         *)
Steps(e) ==
  \/ Sender(e) \/ Receiver(e) \/ CmdTask(e) \/ Waiter(e)
  \/ SendStart(e) \/ SendCancel(e)
  \/ ConnClose(e) \/ OwnerRecv(e) \/ Drop(e)

(* The state of a decoder: the buffer is within the permit while a chunked *)
(* message comes in, and there is neither buffer nor permit otherwise.     *)
Consistent(d) ==
  IF d.state = "ReceiveChunked"
  THEN Len(d.incoming) <= d.want_size /\ d.held = d.want_size
  ELSE d.incoming = << >> /\ d.held = 0
----------------------------------------------------------------------------
(* The invariant behind the permits: per end, the decoder is consistent,   *)
(* a stopped task left nothing behind, and PermitAnswersRequest.           *)
EndOK(e) ==
  /\ Consistent(dec[e]) /\ ~ dec[e].did_error
  /\ ~ Running(e) => cmdq[e] = << >> /\ dec[e] = NewDecoder
  /\ pc[e] = "new" <=> task[e] = "new"
  /\ task[e] = "new" => waiter[e].at = "none"
  /\ Running(e) /\ waiter[e].at # "none" => Awaits(dec[e], waiter[e].len)
  /\ PermitQueueOK(cmdq[e], dec[e], waiter[e])

PermitInv == \A e \in Ends : EndOK(e)
----------------------------------------------------------------------------
(***************************************************************************)
(* The streams of frames.  NoProtocolError and WaitingRemoteIsQuiet are    *)
(* not inductive: StreamInv says what may wait for an end (LegalEnd: every *)
(* frame finds its decoder, after the frames before it, in a state that    *)
(* takes it), what an end on an open connection owes itself (OwnEnd: the   *)
(* decoder waits for a grant exactly while the send does), and how far the *)
(* send of one end and the decoder of the other have got (PairEnd).        *)
(***************************************************************************)

(* The frames that wait for the command task of an end, whether in its     *)
(* command channel, among other commands, or still on the wire.            *)
RecvCmd(f) == [cmd |-> "Recv", frame |-> f]
StreamOf(q, w) == q \o [i \in 1..Len(w) |-> RecvCmd(w[i])]
Stream(e) == StreamOf(cmdq[e], wire[e])

Recvs(S) == {i \in 1..Len(S) : S[i].cmd = "Recv"}
Before(S, i) == {S[j].frame : j \in {k \in Recvs(S) : k < i}}
Frames(S) == {S[i].frame : i \in Recvs(S)}

(* Every frame of a stream, with the frames before it.                     *)
Items(S) == {<< S[i].frame, Before(S, i) >> : i \in Recvs(S)}

(* The bytes of a message are numbered: where a chunk starts and ends.     *)
IsChunk(f) == f.kind = "MultipartMessage"
Off(f) == f.body[1][2] - 1
Til(f) == Off(f) + f.len

(* A frame can be taken after the frames B by a decoder that is now d, but *)
(* for a PermitGrant, that also needs a request of its own side.           *)
ChunkFits(B, f, d) ==
  /\ d.state = "ReceiveChunked"
  /\ f.len = Len(f.body) /\ f.len # 0 /\ Off(f) \in Nat
  /\ Len(d.incoming) <= Off(f) /\ Til(f) <= d.want_size
  /\ Off(f) = Len(d.incoming) \/ \E g \in B : IsChunk(g) /\ Til(g) = Off(f)
  /\ \A g \in B : IsChunk(g) => Til(g) <= Off(f)

Completed(F, d) ==
  d.state = "ReceiveChunked" =>
    \E f \in F : IsChunk(f) /\ Til(f) = d.want_size

Fits(B, f, d) ==
  /\ f.kind # "Invalid"
  /\ f.kind = "Version" => d.state = "NeedVersion" /\ B = {}
  /\ d.state = "NeedVersion" =>
       f.kind = "Version" \/ \E g \in B : g.kind = "Version"
  /\ f.kind \in {"CompleteMessage", "PermitRequest"} =>
       d.state # "RemoteAwaitingPermit" /\ Completed(B, d)
  /\ f.kind = "CompleteMessage" => f.len = Len(f.body)
  /\ IsChunk(f) => ChunkFits(B, f, d)
  /\ f.kind # "PermitGrant" => \A g \in B : g.kind # "PermitRequest"
  /\ f.kind = "PermitGrant" => \A g \in B : g.kind # "PermitGrant"

Legal(S, d) == \A i \in Recvs(S) : Fits(Before(S, i), S[i].frame, d)

(* An end whose connection is open.                                        *)
Alive(e) == task[e] \in {"new", "run", "deliver", "grant"}
Granted(e) == \E f \in Frames(Stream(e)) : f.kind = "PermitGrant"

(* The oneshot of a send that waits to ask is on its way, exactly once.    *)
Awaitings(q) == {i \in 1..Len(q) : q[i].cmd = "AwaitPermit"}
AwaitOK(q, at, k) ==
  /\ \A i \in Awaitings(q) :
       at = "registering" /\ q[i].id = k /\ \A j \in Awaitings(q) : j = i
  /\ at = "registering" => Awaitings(q) # {}

SendOK(at, m, c) ==
  /\ at \in {"await", "registering", "registered", "requested"} =>
       c = 0 /\ Len(m) > 0
  /\ at = "chunks" => c < Len(m)
  /\ \A i \in 1..Len(m) : m[i][2] = i

OwnOK(e) ==
  /\ Alive(e)
  /\ task[e] = "grant" => hold[e].kind = "PermitGrant"
  /\ dec[e].want_remote_grant <=> pc[e] \in {"registered", "requested"}
  /\ dec[e].want_remote_grant => dec[e].notify = Len(sent[e])
  /\ \A i \in 1..Len(cmdq[e]) : cmdq[e][i].cmd # "Close"
  /\ AwaitOK(cmdq[e], pc[e], Len(sent[e]))
  /\ Granted(e) => pc[e] = "requested"
  /\ SendOK(pc[e], msg[e], cur[e])

(* How far the send of n bytes that has got to `at`, with c of them out,   *)
(* is at the other end: what waits there (F), its decoder, whether its     *)
(* command task is about to send the grant, whether that is under way.     *)
Settled(F, d) ==
  /\ \A f \in F : f.kind # "PermitRequest"
  /\ d.state # "RemoteAwaitingPermit"
  /\ Completed(F, d)

Asked(F, n) ==
  /\ \E f \in F : f.kind = "PermitRequest"
  /\ \A f \in F : f.kind = "PermitRequest" => f.len = n

Fresh(F, d, n) ==
  /\ d.state = "ReceiveChunked" /\ d.want_size = n /\ d.incoming = << >>
  /\ \A f \in F : ~ IsChunk(f)

Chunking(F, d, n, c) ==
  /\ d.state = "ReceiveChunked" /\ d.want_size = n
  /\ \A f \in F : IsChunk(f) => Til(f) <= c
  /\ c = Len(d.incoming) \/ \E f \in F : IsChunk(f) /\ Til(f) = c

PairOK(at, n, c, F, d, granting, granted) ==
  /\ at = "new" => d.state = "NeedVersion" /\ F = {}
  /\ at # "new" /\ d.state = "NeedVersion" => \E f \in F : f.kind = "Version"
  /\ at \notin {"requested", "chunks"} => ~ granting /\ Settled(F, d)
  /\ at = "requested" =>
       \/ ~ granting /\ ~ granted /\ (Asked(F, n) \/ Awaits(d, n))
       \/ (granting <=> ~ granted) /\ Fresh(F, d, n)
  /\ at = "chunks" => ~ granting /\ Chunking(F, d, n, c)

Pair(e, p) ==
  PairOK(pc[e], Len(msg[e]), cur[e], Frames(Stream(p)), dec[p],
         task[p] = "grant", Granted(e))

LegalEnd(e) == Alive(e) => Legal(Stream(e), dec[e])
OwnEnd(e)   == link[e] = "open" => OwnOK(e)
PairEnd(e)  == link[e] = "open" /\ link[Peer[e]] = "open" => Pair(e, Peer[e])

(* The two ends of the connection of e, and the connections of which no    *)
(* frame was lost.                                                         *)
StreamAt(e) ==
  \A o \in {e, Peer[e]} : LegalEnd(o) /\ OwnEnd(o) /\ PairEnd(o)

StreamInv == \A e \in Ends : Intact(e) => StreamAt(e)
----------------------------------------------------------------------------
(* The chunks on their way to an end fit in the permit it holds, whatever  *)
(* is cancelled or closed.  Frames are weighed, and the weights summed up  *)
(* over what is on its way to an end (Load): the request of one end, or    *)
(* the answer to it, is in one place at most, so that a grant in a send's  *)
(* reach is for that send, and the permit behind it is not used up.        *)

OnWire(w, q) == SumOf([i \in 1..Len(q) |-> w[q[i]]])
FramesOf(q)  == [i \in 1..Len(q) |-> FrameOf(q[i])]
Weight(w, r, q) == OnWire(w, r) + OnWire(w, FramesOf(q))
Load(w, e)   == Weight(w, wire[e], cmdq[e])

Bytes     == [f \in Frame |-> ChunkBytes(f)]
Requests  == [f \in Frame |-> IF f.kind = "PermitRequest" THEN 1 ELSE 0]
Grants    == [f \in Frame |-> IF f.kind = "PermitGrant" THEN 1 ELSE 0]
Others(n) ==
  [f \in Frame |-> IF f.kind = "PermitRequest" /\ f.len # n THEN 1 ELSE 0]

(* What a send that has its grant still has to put on the wire.            *)
Rest(e) ==
  IF pc[e] = "chunks" /\ cur[e] < Len(msg[e]) THEN Len(msg[e]) - cur[e] ELSE 0

One(x) == IF x THEN 1 ELSE 0

(* The request of end e to end p, or the answer to it, wherever it is.     *)
Due(e, p) ==
  Load(Requests, p) + One(dec[p].state = "RemoteAwaitingPermit")
  + One(task[p] = "grant") + Load(Grants, e)

Covered(p, n) == Load(Bytes, p) + Len(dec[p].incoming) + n <= dec[p].held

(* The grant that a waiting send will get, and the request it answers.     *)
Answered(e, p) ==
  /\ task[p] = "grant" \/ Load(Grants, e) > 0 => Covered(p, Len(msg[e]))
  /\ dec[p].state = "RemoteAwaitingPermit" => dec[p].awaiting = Len(msg[e])
  /\ Load(Others(Len(msg[e])), p) = 0

GrantOK(e, p) ==
  /\ Alive(p) => Covered(p, Rest(e))
  /\ Alive(e) =>
       Due(e, p) <= One(dec[e].want_remote_grant /\ pc[e] # "registered")
  /\ Alive(e) /\ pc[e] = "registered" => dec[e].want_remote_grant
  /\ Alive(e) /\ Alive(p) /\ pc[e] = "requested" => Answered(e, p)
  /\ task[e] = "grant" => hold[e].kind = "PermitGrant"

GrantInv == \A e \in Ends : GrantOK(e, Peer[e])
----------------------------------------------------------------------------
(***************************************************************************)
(* The messages, from the send of an end e to the owner of its remote p.   *)
(*                                                                         *)
(* ChanInv relates what was sent, what may be missing, what the remote     *)
(* has, and the frames in between.  What came (Arrived) is in the order of *)
(* the sends, and what it skips may be missing (Excused).  A frame on its  *)
(* way has a part of a message that was sent, comes after the frames of    *)
(* earlier messages, and the sends it passes over are settled: excused, or *)
(* with their last frame before it (FlowOK).  While both ends are up, the  *)
(* sends that are over are settled, and the one in progress is as far as   *)
(* the decoder and the frames on their way say (SendingOK).                *)
(***************************************************************************)

(* The number of a message, as its bytes tell, and what an owner has of    *)
(* the messages: received, waiting, or in the hands of the command task.   *)
NumOf(m) == m[1][1]
Num(f) == NumOf(f.body)
Held(p) == IF task[p] = "deliver" THEN << hold[p].body >> ELSE << >>
Arrived(p) == recvd[p] \o (msgq[p] \o Held(p))
UpTo(R, i) == IF i = 0 THEN 0 ELSE NumOf(R[i])
Last(p) == UpTo(Arrived(p), Len(Arrived(p)))

(* What the remote of end e may miss: what e gave up, or, once a frame of  *)
(* e was lost, anything.                                                   *)
Excused(e) == IF lossy[e] THEN Nat ELSE gaveup[e]

(* Messages that came, in order, with what is missing excused.             *)
InOrder(R, s, g) ==
  \A i \in 1..Len(R) :
    /\ NumOf(R[i]) \in 1..Len(s) /\ R[i] = s[NumOf(R[i])]
    /\ UpTo(R, i - 1) < NumOf(R[i])
    /\ UpTo(R, i - 1) + 1..NumOf(R[i]) - 1 \subseteq g

(* The frames that have a message, or a part of it; the last of a message, *)
(* and when a sent message j needs no more frames than those of B.         *)
Carries(f) == f.kind \in {"CompleteMessage", "MultipartMessage"}

(* A frame has a message of s, or a part of it, and ends it.               *)
PartOf(s, f) ==
  /\ Num(f) \in 1..Len(s)
  /\ f.len = Len(f.body) /\ f.len # 0
  /\ f.kind = "CompleteMessage" => f.body = s[Num(f)]
  /\ IsChunk(f) =>
       /\ Off(f) \in Nat /\ Til(f) <= Len(s[Num(f)])
       /\ \A i \in 1..f.len : /\ f.body[i] = s[Num(f)][Off(f) + i]
                              /\ f.body[i][2] = Off(f) + i

Finishes(s, f) == Carries(f) /\ (IsChunk(f) => Til(f) = Len(s[Num(f)]))

Settles(B, s, g, j) == j \in g \/ \E b \in B : Finishes(s, b) /\ Num(b) = j

(* The bytes b of a decoder are some of the bytes of m, in their order:    *)
(* all of them when there are as many, for no byte comes twice.            *)
Top(b) == IF b = << >> THEN 0 ELSE b[Len(b)][2]

Picks(b, m) ==
  \A i \in 1..Len(b) :
    /\ b[i][2] \in i..Len(m) /\ b[i] = m[b[i][2]]
    /\ Len(b) - i <= Top(b) - b[i][2]

(* The decoder puts the message k together.                                *)
Collects(d, s, k) ==
  /\ d.state = "ReceiveChunked" /\ d.want_size = Len(s[k])
  /\ Picks(d.incoming, s[k])

(* A chunk is behind what the decoder and the chunks B before it have, and *)
(* goes on where they end, unless its message may be missing.              *)
ChunkFollows(B, f, d, g) ==
  /\ Top(d.incoming) <= Off(f)
  /\ \/ Num(f) \in g
     \/ Off(f) = Len(d.incoming)
     \/ \E b \in B : IsChunk(b) /\ Til(b) = Off(f)
  /\ \A b \in B : IsChunk(b) => Til(b) <= Off(f) /\ Num(b) = Num(f)

(* The frame f after the frames B: it has a part of a message behind the   *)
(* last one that came, l, and what it passes over is settled.              *)
Flows(B, f, d, s, g, l) ==
  Carries(f) =>
    /\ PartOf(s, f)
    /\ l < Num(f)
    /\ \A b \in B : Finishes(s, b) => Num(b) < Num(f)
    /\ Finishes(s, f) => \A j \in l + 1..Num(f) - 1 : Settles(B, s, g, j)
    /\ IsChunk(f) => Collects(d, s, Num(f)) /\ ChunkFollows(B, f, d, g)

FlowsIn(I, d, s, g, l) == \A x \in I : Flows(x[2], x[1], d, s, g, l)

FlowOK(e, p) ==
  Alive(p) =>
    FlowsIn(Items(Stream(p)), dec[p], sent[e], Excused(e), Last(p))

(* How many sends are over.                                                *)
Over(at, s) == IF at \in {"new", "idle"} THEN Len(s) ELSE Len(s) - 1

(* The sends and the frames F on their way, for a sender at `at` that has  *)
(* sent c bytes of its message, and a decoder d.                           *)
Sending(F, d, s, g, l, at, c, comes) ==
  /\ l <= Over(at, s)
  /\ \A f \in F : Finishes(s, f) => Num(f) <= Over(at, s)
  /\ \A j \in l + 1..Over(at, s) : Settles(F, s, g, j)
  /\ at = "requested" /\ comes =>
       /\ Collects(d, s, Len(s)) /\ d.incoming = << >>
       /\ \A f \in F : ~ IsChunk(f)
  /\ at = "chunks" =>
       /\ Collects(d, s, Len(s))
       /\ \/ Len(s) \in g \/ c = Len(d.incoming)
          \/ \E f \in F : IsChunk(f) /\ Til(f) = c
       /\ \A f \in F : IsChunk(f) => Til(f) <= c /\ Num(f) = Len(s)
       /\ Top(d.incoming) <= c

(* The grant that the send of e waits for is there. *)
Comes(e, p) == Alive(e) /\ (task[p] = "grant" \/ Granted(e))

SendingOK(e, p) ==
  link[e] = "open" /\ link[p] = "open" /\ Alive(p) =>
    Sending(Frames(Stream(p)), dec[p], sent[e], Excused(e), Last(p), pc[e],
            cur[e], Comes(e, p))

(* The messages of an end are numbered in the order of the sends, and the  *)
(* last is the one it sends.                                               *)
OwnMessage(e) ==
  /\ \A k \in 1..Len(sent[e]) :
       k \in 1..MaxMsgs[e] /\ \E n \in Sizes[e] : sent[e][k] = Body(k, n)
  /\ pc[e] \notin {"new", "idle"} =>
       sent[e] # << >> /\ msg[e] = sent[e][Len(sent[e])]
  /\ pc[e] = "chunks" => cur[e] < Len(msg[e])
  /\ pc[e] \in {"await", "registering", "registered", "requested"} =>
       cur[e] = 0 /\ Len(msg[e]) > 0

ChanOK(e, p) ==
  /\ OwnMessage(e)
  /\ InOrder(Arrived(p), sent[e], Excused(e))
  /\ FlowOK(e, p) /\ SendingOK(e, p)

ChanInv == \A e \in Ends : ChanOK(e, Peer[e])
----------------------------------------------------------------------------
(* What the proofs say of steps, streams and messages in short.            *)

(* What StreamShape says of one stream, to be used without its definition. *)
Shape(S, q, w) ==
  /\ S \in Seq(Cmd) /\ Len(S) = Len(q) + Len(w)
  /\ \A i \in 1..Len(q) : S[i] = q[i]
  /\ \A i \in Len(q) + 1..Len(q) + Len(w) : S[i] = RecvCmd(w[i - Len(q)])

(* What a step of one end leaves alone at the others.                      *)
Same(o) ==
  /\ pc'[o] = pc[o] /\ msg'[o] = msg[o] /\ cur'[o] = cur[o]
  /\ sent'[o] = sent[o] /\ link'[o] = link[o] /\ cmdq'[o] = cmdq[o]
  /\ task'[o] = task[o] /\ hold'[o] = hold[o] /\ dec'[o] = dec[o]
  /\ gaveup'[o] = gaveup[o] /\ msgq'[o] = msgq[o] /\ recvd'[o] = recvd[o]

(* At most one permit is in a command channel (PermitQueueOK): which one   *)
(* QueuedPermit finds.                                                     *)
IsPermit(c) == c.cmd = "RemotePermit"

OnePermit(q) ==
  \A i, j \in 1..Len(q) : IsPermit(q[i]) /\ IsPermit(q[j]) => i = j

(* What a step does to the permits of an end and of its host.              *)
Balanced(e) ==
  /\ avail' = [avail EXCEPT ![Host[e]] = avail'[Host[e]]]
  /\ avail'[Host[e]] + Taken(e)' = avail[Host[e]] + Taken(e)

(* Only what is about a large message weighs anything.                     *)
Weights ==
  {w \in [Frame -> Nat] :
     \A f \in Frame : f.kind \in {"Invalid", "Version", "CompleteMessage"} =>
                        w[f] = 0}

Msgs == Seq(Seq(Byte))

(* The decoder hands out a message with the frame f.                       *)
HandsOut(d, f) == ResultOf(d, f).what = "Message"

(* The messages of the frames were sent.                                   *)
Known(F, s) ==
  \A f \in F : Carries(f) =>
    Num(f) \in 1..Len(s) /\ (IsChunk(f) => Til(f) \in Nat)

(* The frames of T are those of S and some that carry nothing.             *)
Adds(S, T) ==
  /\ Frames(S) \subseteq Frames(T)
  /\ \A f \in Frames(T) : Carries(f) => f \in Frames(S)

(* The items of J are items of I, with fewer frames before them.           *)
Thins(I, J) == \A x \in J : \E y \in I : y[1] = x[1] /\ x[2] \subseteq y[2]
=============================================================================
