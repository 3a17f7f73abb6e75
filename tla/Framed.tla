------------------------------- MODULE Framed -------------------------------
(***************************************************************************)
(* FramedConn (tx5-connection/src/framed.rs): messages of any size over    *)
(* connections that carry frames of at most MaxChunk payload bytes.  A     *)
(* large message first asks the remote for a permit; the remote takes it   *)
(* from a semaphore that all the connections of its endpoint share, which  *)
(* bounds the memory spent on incomplete messages.                         *)
(*                                                                         *)
(* Each end has a sender (send_inner, under a mutex), a receive task that  *)
(* feeds the command channel, a command task that drives the decoder, and  *)
(* one detached task per permit request of the remote.  An action is what  *)
(* a task does between two awaits.  The connection underneath is that of   *)
(* Conn: a FIFO of bounded capacity per direction that either end may      *)
(* close, and that loses frames of sends that succeeded while it is open,  *)
(* most of all when it switches from webrtc to the relay.                  *)
(***************************************************************************)
EXTENDS Proto

CONSTANTS
  Ends,       \* the ends of the framed connections
  Peer,       \* the opposite end of each end
  Hosts,      \* the endpoints
  Host,       \* the endpoint an end belongs to
  Limit,      \* Config::incoming_message_bytes_max
  Sizes,      \* the message sizes that each end sends
  MaxMsgs,    \* how many messages each end sends (bounds the model)
  WireCap,    \* frames that fit between two ends
  CmdCap,     \* capacity of the command channel (32)
  MsgCap,     \* capacity of the message channel (32)
  CanCancel,  \* ends whose sends may be cancelled (Endpoint::send timeout)
  CanLose,    \* ends of whose frames the connection may lose some
  CanClose    \* ends whose connection may close

ASSUME FramedAssumption ==
  /\ Peer \in [Ends -> Ends]
  /\ \A e \in Ends : Peer[e] # e /\ Peer[Peer[e]] = e
  /\ Host \in [Ends -> Hosts]
  /\ Limit \in Nat
  /\ Sizes \in [Ends -> SUBSET Nat]
  /\ MaxMsgs \in [Ends -> Nat]
  /\ WireCap \in Nat \ {0} /\ CmdCap \in Nat \ {0} /\ MsgCap \in Nat \ {0}
  /\ CanCancel \subseteq Ends /\ CanLose \subseteq Ends /\ CanClose \subseteq Ends

VARIABLES
  pc,      \* where the sender of an end is
  msg,     \* the message it sends
  cur,     \* how much of it went out in chunks
  sent,    \* the messages that sends were started for (history)
  gaveup,  \* numbers of the sends that failed or were cancelled (history)
  link,    \* the end's own view of its connection
  wire,    \* frames on their way to an end
  cmdq,    \* the command channel
  task,    \* where the command task is
  hold,    \* the frame that a blocked command task wants to pass on
  dec,     \* the decoder owned by the command task
  waiter,  \* the detached task that gets a permit for the remote
  semq,    \* the ends that wait for permits of a host, in semaphore order
  avail,   \* the free permits of a host
  msgq,    \* the message channel
  recvd,   \* the messages the owner received (history)
  lossy    \* whether a frame of an end was lost on the way (history)

senderVars == << pc, msg, cur, sent, gaveup >>
cmdVars    == << cmdq, task, hold, dec >>
permitVars == << waiter, semq, avail >>
appVars    == << msgq, recvd, lossy >>
vars == << senderVars, link, wire, cmdVars, permitVars, appVars >>

(* The k-th message that an end sends, of n bytes: no two bytes are equal. *)
Body(k, n) == [i \in 1..n |-> << k, i >>]

NoFrame  == [kind |-> "Invalid", len |-> 0, body |-> << >>]
NoWaiter == [at |-> "none", len |-> 0]

ASSUME BodyAssumption ==
  \A e \in Ends : \A n \in Sizes[e] : \A k \in 1..MaxMsgs[e] :
    Body(k, n) \in Seq(Byte)

Running(e) == task[e] \in {"run", "deliver", "grant"}

Init ==
  /\ pc     = [e \in Ends |-> "new"]
  /\ msg    = [e \in Ends |-> << >>]
  /\ cur    = [e \in Ends |-> 0]
  /\ sent   = [e \in Ends |-> << >>]
  /\ gaveup = [e \in Ends |-> {}]
  /\ link   = [e \in Ends |-> "open"]
  /\ wire   = [e \in Ends |-> << >>]
  /\ cmdq   = [e \in Ends |-> << >>]
  /\ task   = [e \in Ends |-> "new"]
  /\ hold   = [e \in Ends |-> NoFrame]
  /\ dec    = [e \in Ends |-> NewDecoder]
  /\ waiter = [e \in Ends |-> NoWaiter]
  /\ semq   = [h \in Hosts |-> << >>]
  /\ avail  = [h \in Hosts |-> Limit]
  /\ msgq   = [e \in Ends |-> << >>]
  /\ recvd  = [e \in Ends |-> << >>]
  /\ lossy  = [e \in Ends |-> FALSE]

----------------------------------------------------------------------------
(* The connection underneath.                                              *)

(* Conn::send of one frame: it waits for room in the channel to the task   *)
(* of the connection, and succeeds then, whatever becomes of the frame; it *)
(* is lost when the remote end is already closed.                          *)
Push(e, f) ==
  /\ link[e] = "open"
  /\ IF link[Peer[e]] = "open"
     THEN /\ Len(wire[Peer[e]]) < WireCap
          /\ wire' = [wire EXCEPT ![Peer[e]] = Append(@, f)]
     ELSE UNCHANGED wire

(* What a closing end loses: of the frames on their way to it, those that  *)
(* have not reached its receive channel (k of them did), and of the frames *)
(* it sent, those that its own task had not passed on.                     *)
Cut(e, k) ==
  LET p == Peer[e] IN
  \E j \in 0..Len(wire[p]) :
    /\ link[p] = "closed" => j = Len(wire[p])
    /\ wire' = [wire EXCEPT ![e] = SubSeq(@, 1, k), ![p] = SubSeq(@, 1, j)]

Without(w, i) == SubSeq(w, 1, i - 1) \o SubSeq(w, i + 1, Len(w))

(* Frames of end e are lost on a connection that stays open: at the switch *)
(* to the relay the one that the failed webrtc send had taken, and what is *)
(* on the data channel when either end returns Fallback; with go-pion what *)
(* comes before an accepted channel is registered (data_chan.rs 100).  A   *)
(* switch loses a run of frames, an accepted channel its first; here any   *)
(* frame may go, at any time.                                              *)
Lose(e) ==
  LET p == Peer[e] IN
  /\ e \in CanLose /\ link[p] = "open"
  /\ \E i \in 1..Len(wire[p]) :
       wire' = [wire EXCEPT ![p] = Without(@, i)]
  /\ lossy' = [lossy EXCEPT ![e] = TRUE]
  /\ UNCHANGED << senderVars, link, cmdVars, permitVars, msgq, recvd >>

(* The connection of an end closes, because its remote did or on its own.  *)
ConnClose(e) ==
  /\ link[e] = "open"
  /\ e \in CanClose \/ link[Peer[e]] = "closed"
  /\ link' = [link EXCEPT ![e] = "closed"]
  /\ \E k \in 0..Len(wire[e]) : Cut(e, k)
  /\ UNCHANGED << senderVars, cmdVars, permitVars, appVars >>

----------------------------------------------------------------------------
(* FramedConn::new: send the version, then start the tasks. *)
New(e) ==
  /\ pc[e] = "new"
  /\ Push(e, VersionFrame)
  /\ pc' = [pc EXCEPT ![e] = "idle"]
  /\ task' = [task EXCEPT ![e] = "run"]
  /\ UNCHANGED << msg, cur, sent, gaveup, link, cmdq, hold, dec, permitVars, appVars >>

NewFail(e) ==
  /\ pc[e] = "new" /\ link[e] = "closed"
  /\ pc' = [pc EXCEPT ![e] = "idle"]
  /\ task' = [task EXCEPT ![e] = "closed"]
  /\ UNCHANGED << msg, cur, sent, gaveup, link, wire, cmdq, hold, dec, permitVars,
                  appVars >>

----------------------------------------------------------------------------
(* send_inner. *)

(* A message too long for a header is refused before anything happens.     *)
SendStart(e) ==
  /\ pc[e] = "idle" /\ task[e] # "dropped" /\ Len(sent[e]) < MaxMsgs[e]
  /\ \E n \in Sizes[e] :
       LET m == Body(Len(sent[e]) + 1, n) IN
       /\ n <= MAX_PAYLOAD
       /\ msg' = [msg EXCEPT ![e] = m]
       /\ sent' = [sent EXCEPT ![e] = Append(@, m)]
       /\ pc' = [pc EXCEPT ![e] = IF NeedsPermit(m) THEN "await" ELSE "one"]
  /\ cur' = [cur EXCEPT ![e] = 0]
  /\ UNCHANGED << gaveup, link, wire, cmdVars, permitVars, appVars >>

SendOne(e) ==
  /\ pc[e] = "one"
  /\ Push(e, CompleteFrame(msg[e]))
  /\ pc' = [pc EXCEPT ![e] = "idle"]
  /\ UNCHANGED << msg, cur, sent, gaveup, link, cmdVars, permitVars, appVars >>

SendAwaitPermit(e) ==
  /\ pc[e] = "await" /\ Running(e) /\ Len(cmdq[e]) < CmdCap
  /\ cmdq' = [cmdq EXCEPT
       ![e] = Append(@, [cmd |-> "AwaitPermit", id |-> Len(sent[e])])]
  /\ pc' = [pc EXCEPT ![e] = "registering"]
  /\ UNCHANGED << msg, cur, sent, gaveup, link, wire, task, hold, dec, permitVars,
                  appVars >>

(* Faulty variant: the chunks follow the request without a grant. *)
SendPermitRequestUnasked(e) ==
  /\ pc[e] = "registered"
  /\ Push(e, RequestFrame(Len(msg[e])))
  /\ pc' = [pc EXCEPT ![e] = "chunks"]
  /\ UNCHANGED << msg, cur, sent, gaveup, link, cmdVars, permitVars, appVars >>

SendPermitRequest(e) ==
  /\ pc[e] = "registered"
  /\ Push(e, RequestFrame(Len(msg[e])))
  /\ pc' = [pc EXCEPT ![e] = "requested"]
  /\ UNCHANGED << msg, cur, sent, gaveup, link, cmdVars, permitVars, appVars >>

SendChunk(e) ==
  /\ pc[e] = "chunks"
  /\ LET c == NextChunk(msg[e], cur[e]) IN
     /\ Push(e, ChunkFrame(c))
     /\ cur' = [cur EXCEPT ![e] = @ + Len(c)]
     /\ pc' = [pc EXCEPT ![e] = IF cur[e] + Len(c) = Len(msg[e])
                                THEN "idle" ELSE "chunks"]
  /\ UNCHANGED << msg, sent, gaveup, link, cmdVars, permitVars, appVars >>

(* A send fails: the frame cannot be handed to the connection, or the      *)
(* command task is gone, and with it the oneshots the send waits for.      *)
GiveUp(e) ==
  /\ pc' = [pc EXCEPT ![e] = "idle"]
  /\ gaveup' = [gaveup EXCEPT ![e] = @ \cup {Len(sent[e])}]
  /\ UNCHANGED << msg, cur, sent, link, wire, cmdVars, permitVars, appVars >>

(* Faulty variant: the oneshot of a waiting send outlives the task. *)
SendFailDeaf(e) ==
  /\ \/ pc[e] \in {"one", "registered", "chunks"} /\ link[e] = "closed"
     \/ pc[e] \in {"await", "registering"} /\ ~ Running(e)
  /\ GiveUp(e)

SendFail(e) ==
  /\ \/ pc[e] \in {"one", "registered", "chunks"} /\ link[e] = "closed"
     \/ pc[e] \in {"await", "registering", "requested"} /\ ~ Running(e)
  /\ GiveUp(e)

(* Endpoint::send runs into its timeout: the future is dropped wherever it *)
(* waits, the mutex is released.                                           *)
SendCancel(e) ==
  /\ e \in CanCancel
  /\ pc[e] \in {"one", "await", "registering", "registered", "requested",
                "chunks"}
  /\ GiveUp(e)

----------------------------------------------------------------------------
(* The receive task. *)

RecvTask(e) ==
  /\ wire[e] # << >> /\ Running(e) /\ Len(cmdq[e]) < CmdCap
  /\ cmdq' = [cmdq EXCEPT
       ![e] = Append(@, [cmd |-> "Recv", frame |-> Head(wire[e])])]
  /\ wire' = [wire EXCEPT ![e] = Tail(@)]
  /\ UNCHANGED << senderVars, link, task, hold, dec, permitVars, appVars >>

(* The stream ended. *)
RecvTaskClose(e) ==
  /\ wire[e] = << >> /\ link[e] = "closed" /\ Running(e)
  /\ Len(cmdq[e]) < CmdCap
  /\ \A i \in 1..Len(cmdq[e]) : cmdq[e][i].cmd # "Close"
  /\ cmdq' = [cmdq EXCEPT ![e] = Append(@, [cmd |-> "Close"])]
  /\ UNCHANGED << senderVars, link, wire, task, hold, dec, permitVars,
                  appVars >>

(* Nobody takes commands any more: the task ends, its ConnRecv is dropped  *)
(* and the connection, unable to deliver, closes.                          *)
RecvTaskStop(e) ==
  /\ wire[e] # << >> /\ task[e] \in {"failed", "closed"}
  /\ Cut(e, 0)
  /\ link' = [link EXCEPT ![e] = "closed"]
  /\ UNCHANGED << senderVars, cmdVars, permitVars, appVars >>

----------------------------------------------------------------------------
(* The command task.                                                       *)

TakesCmd(e, what) ==
  /\ task[e] = "run" /\ cmdq[e] # << >>
  /\ Head(cmdq[e]).cmd = what

(* The permit in the command channel; an end never has two of them. *)
QueuedPermit(q) ==
  IF \E i \in 1..Len(q) : q[i].cmd = "RemotePermit"
  THEN q[CHOOSE i \in 1..Len(q) : q[i].cmd = "RemotePermit"].len
  ELSE 0

(* Faulty variant: the permit in the command channel is not released. *)
TaskPermitsDecoder(e) == dec[e].held

(* The permits that go back to the semaphore when the command task of an   *)
(* end is dropped, with its command channel and its decoder.               *)
TaskPermits(e) == QueuedPermit(cmdq[e]) + dec[e].held

Released(e, n) == [avail EXCEPT ![Host[e]] = @ + n]

Stop(e, why) ==
  /\ task' = [task EXCEPT ![e] = why]
  /\ cmdq' = [cmdq EXCEPT ![e] = << >>]
  /\ hold' = [hold EXCEPT ![e] = NoFrame]
  /\ dec'  = [dec EXCEPT ![e] = NewDecoder]
  /\ avail' = Released(e, TaskPermits(e))

(* A oneshot reaches send k of an end, if that send still waits for it. *)
Notify(e, k, at, next) ==
  pc' = [pc EXCEPT ![e] = IF @ = at /\ k = Len(sent[e]) THEN next ELSE @]

(* Cmd::Recv of a frame that the decoder refuses. *)
CmdRecvError(e) ==
  /\ TakesCmd(e, "Recv")
  /\ ResultOf(dec[e], Head(cmdq[e]).frame).what = "Err"
  /\ Stop(e, "failed")
  /\ UNCHANGED << senderVars, link, wire, waiter, semq, appVars >>

(* Cmd::Recv of a frame that the decoder takes.  When a chunked message is *)
(* complete its permit is dropped, before the message is passed on.        *)
CmdRecv(e) ==
  /\ TakesCmd(e, "Recv")
  /\ LET f == Head(cmdq[e]).frame
         r == ResultOf(dec[e], f)
         d == DecoderAfter(dec[e], f)
     IN  /\ r.what # "Err"
         /\ dec' = [dec EXCEPT ![e] = d]
         /\ avail' = Released(e, dec[e].held - d.held)
         /\ IF r.what = "Message"
            THEN /\ task' = [task EXCEPT ![e] = "deliver"]
                 /\ hold' = [hold EXCEPT ![e] = CompleteFrame(r.body)]
            ELSE UNCHANGED << task, hold >>
         /\ waiter' = IF r.what = "RemotePermitRequest"
                      THEN [waiter EXCEPT ![e] = [at |-> "spawned",
                                                  len |-> r.len]]
                      ELSE waiter
         /\ IF r.what = "RemotePermitGrant"
            THEN Notify(e, r.notify, "requested", "chunks")
            ELSE UNCHANGED pc
  /\ cmdq' = [cmdq EXCEPT ![e] = Tail(@)]
  /\ UNCHANGED << msg, cur, sent, gaveup, link, wire, semq, appVars >>

(* msg_send.send: waits while the owner does not receive. *)
CmdDeliver(e) ==
  /\ task[e] = "deliver" /\ Len(msgq[e]) < MsgCap
  /\ msgq' = [msgq EXCEPT ![e] = Append(@, hold[e].body)]
  /\ task' = [task EXCEPT ![e] = "run"]
  /\ hold' = [hold EXCEPT ![e] = NoFrame]
  /\ UNCHANGED << senderVars, link, wire, cmdq, dec, permitVars, recvd, lossy >>

CmdAwaitPermit(e) ==
  /\ TakesCmd(e, "AwaitPermit")
  /\ MayRequest(dec[e])
  /\ LET k == Head(cmdq[e]).id IN
     /\ dec' = [dec EXCEPT ![e] = AfterRequest(@, k)]
     /\ Notify(e, k, "registering", "registered")
  /\ cmdq' = [cmdq EXCEPT ![e] = Tail(@)]
  /\ UNCHANGED << msg, cur, sent, gaveup, link, wire, task, hold, permitVars, appVars >>

CmdAwaitPermitError(e) ==
  /\ TakesCmd(e, "AwaitPermit")
  /\ ~ MayRequest(dec[e])
  /\ Stop(e, "failed")
  /\ UNCHANGED << senderVars, link, wire, waiter, semq, appVars >>

(* The permit goes to the decoder, in place of one it may still hold, and  *)
(* the remote is told.                                                     *)
CmdRemotePermit(e) ==
  /\ TakesCmd(e, "RemotePermit")
  /\ MayGrant(dec[e])
  /\ LET n == Head(cmdq[e]).len IN
     /\ dec' = [dec EXCEPT ![e] = AfterGrant(@, n)]
     /\ hold' = [hold EXCEPT ![e] = GrantFrame(n)]
  /\ avail' = Released(e, dec[e].held)
  /\ task' = [task EXCEPT ![e] = "grant"]
  /\ cmdq' = [cmdq EXCEPT ![e] = Tail(@)]
  /\ UNCHANGED << senderVars, link, wire, waiter, semq, appVars >>

CmdSendGrant(e) ==
  /\ task[e] = "grant"
  /\ Push(e, hold[e])
  /\ task' = [task EXCEPT ![e] = "run"]
  /\ hold' = [hold EXCEPT ![e] = NoFrame]
  /\ UNCHANGED << senderVars, link, cmdq, dec, permitVars, appVars >>

(* Cmd::Close, or the grant cannot be sent any more. *)
CmdClose(e) ==
  /\ \/ TakesCmd(e, "Close")
     \/ task[e] = "grant" /\ link[e] = "closed"
  /\ Stop(e, "closed")
  /\ UNCHANGED << senderVars, link, wire, waiter, semq, appVars >>

----------------------------------------------------------------------------
(* The task spawned for a permit request.  It outlives the FramedConn.     *)

(* acquire_many_owned is polled: the task joins the FIFO of the semaphore. *)
WaiterPoll(e) ==
  /\ waiter[e].at = "spawned"
  /\ waiter' = [waiter EXCEPT ![e].at = "queued"]
  /\ semq' = [semq EXCEPT ![Host[e]] = Append(@, e)]
  /\ UNCHANGED << senderVars, link, wire, cmdVars, avail, appVars >>

(* Faulty variant: the permit is taken whatever is left. *)
WaiterAcquireUnlimited(e) ==
  LET h == Host[e] IN
  /\ waiter[e].at = "queued" /\ semq[h] # << >> /\ Head(semq[h]) = e
  /\ waiter' = [waiter EXCEPT ![e].at = "acquired"]
  /\ semq' = [semq EXCEPT ![h] = Tail(@)]
  /\ avail' = [avail EXCEPT ![h] = @ - waiter[e].len]
  /\ UNCHANGED << senderVars, link, wire, cmdVars, appVars >>

WaiterAcquire(e) ==
  LET h == Host[e] IN
  /\ waiter[e].at = "queued" /\ semq[h] # << >> /\ Head(semq[h]) = e
  /\ waiter[e].len <= avail[h]
  /\ waiter' = [waiter EXCEPT ![e].at = "acquired"]
  /\ semq' = [semq EXCEPT ![h] = Tail(@)]
  /\ avail' = [avail EXCEPT ![h] = @ - waiter[e].len]
  /\ UNCHANGED << senderVars, link, wire, cmdVars, appVars >>

WaiterSend(e) ==
  /\ waiter[e].at = "acquired" /\ Running(e) /\ Len(cmdq[e]) < CmdCap
  /\ cmdq' = [cmdq EXCEPT
       ![e] = Append(@, [cmd |-> "RemotePermit", len |-> waiter[e].len])]
  /\ waiter' = [waiter EXCEPT ![e] = NoWaiter]
  /\ UNCHANGED << senderVars, link, wire, task, hold, dec, semq, avail,
                  appVars >>

(* The command task is gone: the permit drops with the failed send. *)
WaiterGone(e) ==
  /\ waiter[e].at = "acquired" /\ ~ Running(e)
  /\ avail' = Released(e, waiter[e].len)
  /\ waiter' = [waiter EXCEPT ![e] = NoWaiter]
  /\ UNCHANGED << senderVars, link, wire, cmdVars, semq, appVars >>

----------------------------------------------------------------------------
(* The owner of the FramedConn.                                            *)

OwnerRecv(e) ==
  /\ msgq[e] # << >>
  /\ recvd' = [recvd EXCEPT ![e] = Append(@, Head(msgq[e]))]
  /\ msgq' = [msgq EXCEPT ![e] = Tail(@)]
  /\ UNCHANGED << senderVars, link, wire, cmdVars, permitVars, lossy >>

(* The owner drops both halves, on its own or because the receiver ended.  *)
Drop(e) ==
  /\ pc[e] = "idle" /\ task[e] # "dropped"
  /\ e \in CanClose \/ (task[e] \in {"failed", "closed"} /\ msgq[e] = << >>)
  /\ Stop(e, "dropped")
  /\ link' = [link EXCEPT ![e] = "closed"]
  /\ Cut(e, 0)
  /\ msgq' = [msgq EXCEPT ![e] = << >>]
  /\ UNCHANGED << senderVars, waiter, semq, recvd, lossy >>

----------------------------------------------------------------------------
Sender(e) ==
  \/ New(e) \/ NewFail(e)
  \/ SendOne(e) \/ SendAwaitPermit(e) \/ SendPermitRequest(e) \/ SendChunk(e)
  \/ SendFail(e)

Receiver(e) == RecvTask(e) \/ RecvTaskClose(e) \/ RecvTaskStop(e)

CmdTask(e) ==
  \/ CmdRecv(e) \/ CmdRecvError(e) \/ CmdDeliver(e)
  \/ CmdAwaitPermit(e) \/ CmdAwaitPermitError(e)
  \/ CmdRemotePermit(e) \/ CmdSendGrant(e) \/ CmdClose(e)

Waiter(e) ==
  WaiterPoll(e) \/ WaiterAcquire(e) \/ WaiterSend(e) \/ WaiterGone(e)

Next ==
  \E e \in Ends :
    \/ Sender(e) \/ Receiver(e) \/ CmdTask(e) \/ Waiter(e)
    \/ SendStart(e) \/ SendCancel(e)
    \/ ConnClose(e) \/ OwnerRecv(e) \/ Drop(e) \/ Lose(e)

Spec == Init /\ [][Next]_vars

(* The runtime polls every task that can make progress, and the owner      *)
(* keeps receiving.  Nothing is assumed of the connection: while it relays *)
(* an end need not notice that its remote closed.                          *)
Fairness ==
  \A e \in Ends :
    /\ WF_vars(Sender(e)) /\ WF_vars(Receiver(e)) /\ WF_vars(CmdTask(e))
    /\ WF_vars(Waiter(e)) /\ WF_vars(OwnerRecv(e))

FairSpec == Spec /\ Fairness

----------------------------------------------------------------------------
Cmd ==
  [cmd : {"Recv"}, frame : Frame] \cup [cmd : {"AwaitPermit"}, id : Nat]
  \cup [cmd : {"RemotePermit"}, len : Nat] \cup [cmd : {"Close"}]

SenderAt == {"new", "idle", "one", "await", "registering", "registered",
             "requested", "chunks"}

TaskAt == {"new", "run", "deliver", "grant", "failed", "closed", "dropped"}

TypeOK ==
  /\ pc \in [Ends -> SenderAt]
  /\ msg \in [Ends -> Seq(Byte)]
  /\ cur \in [Ends -> Nat]
  /\ sent \in [Ends -> Seq(Seq(Byte))]
  /\ gaveup \in [Ends -> SUBSET Nat]
  /\ link \in [Ends -> {"open", "closed"}]
  /\ wire \in [Ends -> Seq(Frame)]
  /\ cmdq \in [Ends -> Seq(Cmd)]
  /\ task \in [Ends -> TaskAt]
  /\ hold \in [Ends -> Frame]
  /\ dec \in [Ends -> Decoder]
  /\ waiter \in [Ends -> [at : {"none", "spawned", "queued", "acquired"},
                          len : Nat]]
  /\ semq \in [Hosts -> Seq(Ends)]
  /\ avail \in [Hosts -> Nat]
  /\ msgq \in [Ends -> Seq(Seq(Byte))]
  /\ recvd \in [Ends -> Seq(Seq(Byte))]
  /\ lossy \in [Ends -> BOOLEAN]

(* The decoder waits to grant n bytes. *)
Awaits(d, n) == d.state = "RemoteAwaitingPermit" /\ d.awaiting = n

PermitQueueOK(q, d, w) ==
  \A i \in 1..Len(q) :
    q[i].cmd = "RemotePermit" =>
      /\ Awaits(d, q[i].len) /\ w.at = "none"
      /\ \A j \in 1..Len(q) : q[j].cmd = "RemotePermit" => j = i

(* Each permit that is on its way answers the one request that its decoder *)
(* waits with: detached tasks that outlive a connection, failed sends and  *)
(* cut connections never leave a second permit, or one of another size,    *)
(* for sent_remote_permit_grant to refuse or to mistake for this one.      *)
PermitAnswersRequest ==
  \A e \in Ends :
    /\ Running(e) /\ waiter[e].at # "none" => Awaits(dec[e], waiter[e].len)
    /\ PermitQueueOK(cmdq[e], dec[e], waiter[e])

(* What an end keeps of an incomplete message never exceeds the permit its *)
(* decoder holds at that moment.                                           *)
BufferedWithinPermit ==
  \A e \in Ends : Len(dec[e].incoming) <= dec[e].held

(* The connection of an end lost no frame, in either direction. *)
Intact(e) == ~ lossy[e] /\ ~ lossy[Peer[e]]

(* The two ends never make each other's decoder fail: as long as no send   *)
(* is cancelled half way and the connection loses no frame, every frame    *)
(* arrives in a state that accepts it, whatever the two directions, their  *)
(* permits and their grants interleave to and wherever the connection is   *)
(* cut.  A decoder that fails ends the connection (framed.rs:95, 147,      *)
(* 161), so it may only do so on one that is closed already, where a       *)
(* second large send does run into InvalidDuplicatePermitRequest, or on    *)
(* one that the switch to the relay took a frame from.                     *)
NoProtocolError ==
  \A e \in Ends : task[e] = "failed" => link[e] = "closed" \/ ~ Intact(e)

(* While a decoder waits to grant a permit, the only frame its remote can  *)
(* have under way is the grant its command task owes in turn: this is why  *)
(* two ends that wait for each other cannot fill the connection and stall. *)
WaitingRemoteIsQuiet ==
  \A e \in Ends :
    dec[e].state = "RemoteAwaitingPermit" /\ Intact(e) =>
      /\ Len(wire[e]) <= 1
      /\ \A i \in 1..Len(wire[e]) : wire[e][i].kind = "PermitGrant"

(* An open connection that does not do its work, for a frame was lost or   *)
(* the remote is gone, and this end has not noticed (conn.rs:616-636, 643, *)
(* 688).                                                                   *)
Interrupted(e) ==
  link[e] = "open" /\ (~ Intact(e) \/ link[Peer[e]] = "closed")
=============================================================================
