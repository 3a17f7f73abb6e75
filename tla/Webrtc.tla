------------------------------- MODULE Webrtc -------------------------------
(***************************************************************************)
(* A WebRTC backend (tx5-connection/src/webrtc/go_pion.rs and              *)
(* libdatachannel.rs): a task that takes commands from one bounded channel *)
(* and tells its owner through another.  The commands come from the owner, *)
(* and from the library: libdatachannel's callbacks put theirs there at    *)
(* once; events of pion go through the queue of one manager thread         *)
(* (tx5-go-pion/src/evt.rs), which knows a data channel from its           *)
(* registration on, then through an unbounded channel per object and a     *)
(* task that forwards them.                                                *)
(*                                                                         *)
(* Nobody waits for room in a bounded channel: a send that finds none      *)
(* closes it, and what is queued is still taken (lib.rs, send_or_close).   *)
(* Both channels are also closed when their owners are dropped.            *)
(*                                                                         *)
(* The libraries are external: how descriptions become a connection, when  *)
(* a channel opens, takes messages, drains its buffer and closes.          *)
(***************************************************************************)
EXTENDS Naturals, Sequences

CONSTANTS
  Backends,   \* which of "go" and "lib"
  Calls,      \* calls of message, numbers from 1 on
  Sizes,      \* sizes of messages
  SendBuffer, \* amount from which on a call waits for the buffer to drain
  CmdCap,     \* capacity of the command channel (1024)
  EvtCap,     \* capacity of the owner's event channel (1024)
  MaxGives,   \* descriptions and candidates the owner passes on (bounds the model)
  MaxIce,     \* candidates the library finds (bounds the model)
  MaxIn       \* messages the other side sends, and candidates (bounds the
              \* model)

ASSUME WebrtcAssumption ==
  /\ Backends \subseteq {"go", "lib"}
  /\ Calls \subseteq Nat \ {0}
  /\ Sizes \subseteq Nat \ {0} /\ SendBuffer \in Nat
  /\ CmdCap \in Nat \ {0} /\ EvtCap \in Nat \ {0}
  /\ MaxGives \in Nat /\ MaxIn \in Nat /\ MaxIce \in Nat

VARIABLES
  backend,  \* which backend this is
  polite,   \* it waits for the offer and the channel of the other side
  task,     \* where its task is
  data,     \* the task has a data channel
  shook,    \* did_handshake
  call,     \* where a call of message is
  cmds, cmdOpen,  \* the command channel
  evts, evtOpen,  \* the event channel
  seen,     \* what the owner has received
  gives,    \* descriptions and candidates the owner passed on
  desc,     \* libdatachannel is about to describe itself
  chan,     \* the library's data channel
  announced,\* the other side's channel was announced
  lost,     \* pion reported the end of the connection
  amount,   \* what the library has buffered
  arrived,  \* messages the other side has sent
  ice,      \* candidates the library has found
  mgr,      \* the manager's queue
  reg,      \* the manager knows the data channel
  peerQ, dataQ,       \* unbounded channels of pion's objects
  peerTask, dataTask  \* the tasks that forward them run

cmdVars == << cmds, cmdOpen >>
evtVars == << evts, evtOpen >>
own == << seen, gives >>
lib == << desc, chan, announced, lost, amount, arrived, ice >>
fwd == << peerQ, dataQ, peerTask, dataTask >>
kind == << backend, polite >>
vars == << kind, task, data, shook, call, cmdVars, evtVars, own, lib, mgr, reg, fwd >>

Given == {"InOffer", "InAnswer", "InIce"}
PeerCmd == {"GeneratedIce", "DataChan", "Close", "Error"}
DataCmd == {"Open", "Message", "Low", "Close", "Error"}
CmdKind == Given \cup PeerCmd \cup DataCmd \cup {"Send", "Offer", "Answer"}
EvtKind == {"Offer", "Answer", "GeneratedIce", "Message", "Ready", "Closed"}
Item(K) == [kind : K, n : Nat]
Gone == {"ended", "stillborn"}

TypeOK ==
  /\ backend \in Backends /\ polite \in BOOLEAN
  /\ task \in {"setup", "loop", "sent"} \cup Gone
  /\ data \in BOOLEAN /\ shook \in BOOLEAN
  /\ call \in [Calls -> {"idle", "waiting", "done", "refused"}]
  /\ cmds \in Seq(Item(CmdKind)) /\ cmdOpen \in BOOLEAN
  /\ evts \in Seq(Item(EvtKind)) /\ evtOpen \in BOOLEAN
  /\ seen \in [ready : BOOLEAN, last : Nat, closed : BOOLEAN, dropped : BOOLEAN]
  /\ gives \in 0..MaxGives
  /\ desc \in {"none", "Offer", "Answer"}
  /\ chan \in {"none", "connecting", "open", "closed"}
  /\ announced \in BOOLEAN /\ lost \in BOOLEAN
  /\ amount \in Nat /\ arrived \in 0..MaxIn /\ ice \in 0..MaxIce
  /\ mgr \in Seq([to : {"peer", "data", "manager"}, kind : CmdKind \cup {"Reg", "Look"}, n : Nat])
  /\ reg \in BOOLEAN
  /\ peerQ \in Seq(Item(PeerCmd)) /\ dataQ \in Seq(Item(DataCmd))
  /\ peerTask \in BOOLEAN /\ dataTask \in BOOLEAN

(* Webrtc::new.                                                            *)
Init ==
  /\ backend \in Backends /\ polite \in BOOLEAN
  /\ task = "setup" /\ data = FALSE /\ shook = FALSE
  /\ call = [m \in Calls |-> "idle"]
  /\ cmds = << >> /\ cmdOpen = TRUE /\ evts = << >> /\ evtOpen = TRUE
  /\ seen = [ready |-> FALSE, last |-> 0, closed |-> FALSE, dropped |-> FALSE]
  /\ gives = 0
  /\ desc = "none" /\ chan = "none" /\ announced = FALSE /\ lost = FALSE
  /\ amount = 0 /\ arrived = 0 /\ ice = 0
  /\ mgr = << >> /\ reg = FALSE
  /\ peerQ = << >> /\ dataQ = << >> /\ peerTask = FALSE /\ dataTask = FALSE

-----------------------------------------------------------------------------
(* Channels.                                                               *)

It(k, n) == [kind |-> k, n |-> n]

CmdFits == cmdOpen /\ Len(cmds) < CmdCap

(* Faulty variant: what finds no room is dropped, and the channel stays.   *)
PushesOrDrops(c) ==
  /\ cmds' = IF CmdFits THEN Append(cmds, c) ELSE cmds
  /\ cmdOpen' = cmdOpen

(* send_or_close on the command channel.                                   *)
Pushes(c) ==
  /\ cmds' = IF CmdFits THEN Append(cmds, c) ELSE cmds
  /\ cmdOpen' = CmdFits

EvtFits == evtOpen /\ Len(evts) < EvtCap

(* The task returns.  What it holds is dropped: its ends of the channels,  *)
(* the answers it owes, the connection, with which goes what the manager   *)
(* still has of it, and the tasks that forward.  Before task_inner of      *)
(* go_pion.rs has begun, nothing closes the event channel.                 *)
EndsSaying(how, es) ==
  /\ task' = how
  /\ cmds' = << >> /\ cmdOpen' = FALSE
  /\ evts' = es /\ evtOpen' = (evtOpen /\ how = "stillborn")
  /\ call' = [m \in Calls |-> IF call[m] = "waiting" THEN "done" ELSE call[m]]
  /\ peerTask' = FALSE /\ dataTask' = FALSE /\ peerQ' = << >> /\ dataQ' = << >>
  /\ mgr' = << >> /\ reg' = FALSE
Ends(how) == EndsSaying(how, evts)

-----------------------------------------------------------------------------
(* The owner.                                                              *)

(* in_offer, in_answer, in_ice.                                            *)
Gives(k) ==
  /\ ~seen.dropped /\ gives < MaxGives
  /\ gives' = gives + 1
  /\ Pushes(It(k, 0))
  /\ UNCHANGED << kind, task, data, shook, call, evtVars, seen, lib, mgr, reg, fwd >>

(* message: the call then waits for the task to drop its answer, and       *)
(* returns Ok whatever became of the message.  A connection makes one call *)
(* at a time.                                                              *)
Message(m) ==
  /\ ~seen.dropped /\ call[m] = "idle"
  /\ \A k \in Calls : k < m => call[k] \in {"done", "refused"}
  /\ Pushes(It("Send", m))
  /\ call' = [call EXCEPT ![m] = IF CmdFits THEN "waiting" ELSE "refused"]
  /\ UNCHANGED << kind, task, data, shook, evtVars, own, lib, mgr, reg, fwd >>

Receives ==
  /\ evts # << >> /\ ~seen.dropped
  /\ evts' = Tail(evts)
  /\ seen' = [seen EXCEPT !.ready = @ \/ Head(evts).kind = "Ready",
                          !.closed = @ \/ Head(evts).kind = "Closed",
                          !.last = IF Head(evts).kind = "Message"
                                   THEN Head(evts).n ELSE @]
  /\ UNCHANGED << kind, task, data, shook, call, cmdVars, evtOpen, gives, lib, mgr, reg, fwd >>

(* The owner is dropped: the task is aborted, the channels are closed.     *)
Drops ==
  /\ ~seen.dropped
  /\ seen' = [seen EXCEPT !.dropped = TRUE]
  /\ Ends("ended")
  /\ UNCHANGED << kind, data, shook, gives, lib >>

-----------------------------------------------------------------------------
(* The task.                                                               *)

(* The impolite side makes the data channel and the offer.                 *)
SetsUp ==
  /\ task = "setup" /\ task' = "loop"
  /\ peerTask' = (backend = "go") /\ dataTask' = (backend = "go" /\ ~polite)
  /\ data' = ~polite
  /\ chan' = IF polite THEN "none" ELSE "connecting"
  /\ mgr' = IF backend = "go" /\ ~polite
              THEN << [to |-> "manager", kind |-> "Reg", n |-> 0] >> ELSE << >>
  /\ evts' = IF backend = "go" /\ ~polite THEN << It("Offer", 0) >> ELSE << >>
  /\ desc' = IF backend = "lib" /\ ~polite THEN "Offer" ELSE "none"
  /\ UNCHANGED << kind, shook, call, cmdVars, evtOpen, own, announced, lost,
                  amount, arrived, ice, reg, peerQ, dataQ >>

(* The library refuses, before or after task_inner of go_pion.rs began.    *)
SetupFails ==
  /\ task = "setup"
  /\ Ends("ended") \/ (backend = "go" /\ Ends("stillborn"))
  /\ UNCHANGED << kind, data, shook, own, lib >>

Takes(k) == task = "loop" /\ cmds # << >> /\ Head(cmds).kind = k
Taken == cmds' = Tail(cmds) /\ cmdOpen' = cmdOpen
Goes == task' = task /\ UNCHANGED << call, reg, fwd >>

Ignores(k) ==
  /\ Takes(k) /\ Taken /\ Goes
  /\ UNCHANGED << kind, data, shook, evtVars, own, lib, mgr >>

Errs(k) == Takes(k) /\ Ends("ended") /\ UNCHANGED << kind, data, shook, own, lib >>

(* Tells the owner, or closes the channel and returns an error.            *)
Tells(k, e) ==
  /\ Takes(k)
  /\ \/ /\ EvtFits /\ evts' = Append(evts, e) /\ evtOpen' = evtOpen
        /\ Taken /\ Goes /\ mgr' = mgr
     \/ ~EvtFits /\ Ends("ended")
  /\ UNCHANGED << kind, data, shook, own, lib >>

(* The first offer makes an answer: pion's is told here, and may then be   *)
(* refused; libdatachannel answers by itself.                              *)
AcceptsOffer ==
  /\ Takes("InOffer") /\ polite /\ ~shook
  /\ shook' = TRUE
  /\ IF backend = "go"
       THEN EvtFits /\ evts' = Append(evts, It("Answer", 0)) /\ desc' = desc
       ELSE evts' = evts /\ desc' = "Answer"
  /\ Taken /\ Goes
  /\ UNCHANGED << kind, data, evtOpen, own, chan, announced, lost, amount, arrived, ice, mgr >>

AnswersInVain ==
  /\ Takes("InOffer") /\ polite /\ ~shook /\ backend = "go" /\ EvtFits
  /\ EndsSaying("ended", Append(evts, It("Answer", 0)))
  /\ UNCHANGED << kind, data, shook, own, lib >>

AcceptsAnswer ==
  /\ Takes("InAnswer") /\ ~polite /\ ~shook
  /\ shook' = TRUE
  /\ Taken /\ Goes
  /\ UNCHANGED << kind, data, evtVars, own, lib, mgr >>

Heeds(k) == ~shook /\ (k = "InOffer" <=> polite)
TakesDescription ==
  \/ AcceptsOffer \/ AcceptsAnswer \/ AnswersInVain
  \/ \E k \in {"InOffer", "InAnswer"} : IF Heeds(k) THEN Errs(k) ELSE Ignores(k)

(* add_ice_candidate; libdatachannel.rs does not forgive a malformed one.  *)
TakesIce == Ignores("InIce") \/ (backend = "lib" /\ Errs("InIce"))

(* Faulty variant: the channel is listened to, but not kept.               *)
OnlyListens ==
  /\ Takes("DataChan") /\ ~data
  /\ data' = data
  /\ dataTask' = (backend = "go")
  /\ Taken /\ task' = task
  /\ UNCHANGED << kind, shook, call, evtVars, own, lib, mgr, reg, peerQ, dataQ, peerTask >>

(* The channel of the other side, unless the library refuses to set its    *)
(* threshold, or there is one: an error in libdatachannel.rs, dropped in   *)
(* go_pion.rs.                                                             *)
TakesDataChan ==
  /\ Takes("DataChan") /\ ~data
  /\ data' = TRUE
  /\ dataTask' = (backend = "go")
  /\ Taken /\ task' = task
  /\ UNCHANGED << kind, shook, call, evtVars, own, lib, mgr, reg, peerQ, dataQ, peerTask >>
RefusesDataChan ==
  IF data /\ backend = "go" THEN Ignores("DataChan") ELSE Errs("DataChan")

(* SendMessage: the message is buffered; the amount is read a moment later.*)
Buffers ==
  /\ Takes("Send") /\ data /\ chan = "open"
  /\ \E size \in Sizes : amount' = amount + size
  /\ task' = "sent"
  /\ UNCHANGED << kind, data, shook, call, cmdVars, evtVars, own, desc, chan,
                  announced, lost, arrived, ice, mgr, reg, fwd >>
SendFails == Errs("Send")

AllAnswered == [m \in Calls |->
  IF call[m] = "waiting" /\ \A i \in 2..Len(cmds) : cmds[i] # It("Send", m)
    THEN "done" ELSE call[m]]

(* Faulty variant: a buffer that is exactly full makes the call wait.      *)
WaitsWhenFull == amount >= SendBuffer

MustWait == amount > SendBuffer

(* Below the threshold the answers of all messages sent so far are         *)
(* dropped, above it this one waits with the others.                       *)
ReadsAmount ==
  /\ task = "sent" /\ task' = "loop" /\ Taken
  /\ call' = IF MustWait THEN call ELSE AllAnswered
  /\ UNCHANGED << kind, data, shook, evtVars, own, lib, mgr, reg, fwd >>

TakesLow ==
  /\ Takes("Low") /\ Taken /\ task' = task
  /\ call' = AllAnswered
  /\ UNCHANGED << kind, data, shook, evtVars, own, lib, mgr, reg, fwd >>

(* Close tells the owner, if it has room, and ends the task in any case.   *)
TakesClose ==
  /\ Takes("Close")
  /\ EndsSaying("ended", IF EvtFits THEN Append(evts, It("Closed", 0)) ELSE evts)
  /\ UNCHANGED << kind, data, shook, own, lib >>

(* recv gives nothing: the channel is closed, and everything was taken.    *)
RunsDry ==
  /\ task = "loop" /\ cmds = << >> /\ ~cmdOpen
  /\ Ends("ended")
  /\ UNCHANGED << kind, data, shook, own, lib >>

Forwards ==
  \/ Tells("Message", It("Message", Head(cmds).n))
  \/ Tells("Open", It("Ready", 0))
  \/ \E k \in {"Offer", "Answer", "GeneratedIce"} : Tells(k, It(k, 0))

TaskStep ==
  \/ SetsUp \/ SetupFails
  \/ TakesDescription \/ TakesIce \/ TakesDataChan \/ RefusesDataChan
  \/ Buffers \/ SendFails \/ ReadsAmount \/ TakesLow \/ Forwards
  \/ TakesClose \/ Errs("Error") \/ RunsDry

-----------------------------------------------------------------------------
(* The libraries.                                                          *)

HasLib == task \in {"loop", "sent"}

(* Of a lost connection only the end of its channel is still heard.        *)
LibUp == HasLib /\ ~lost

(* A callback of libdatachannel (Dch, Pch) puts its command at once; pion's*)
(* goes to the manager (handle_event).                                     *)
Emits(to, k, n) ==
  IF backend = "go"
    THEN mgr' = Append(mgr, [to |-> to, kind |-> k, n |-> n]) /\ UNCHANGED cmdVars
    ELSE Pushes(It(k, n)) /\ mgr' = mgr

Rest == << kind, task, data, shook, call, evtVars, own, reg, fwd >>

(* on_description.                                                         *)
Describes ==
  /\ LibUp /\ desc # "none"
  /\ Pushes(It(desc, 0)) /\ desc' = "none"
  /\ UNCHANGED << Rest, mgr, chan, announced, lost, amount, arrived, ice >>

(* on_candidate, OnICECandidate: at either side, at any time.              *)
FindsIce ==
  /\ LibUp /\ ice < MaxIce /\ ice + arrived < MaxIn /\ ice' = ice + 1
  /\ Emits("peer", "GeneratedIce", 0)
  /\ UNCHANGED << Rest, desc, chan, announced, lost, amount, arrived >>

(* on_data_channel, OnDataChannel: the channel of the impolite side, or    *)
(* one more.                                                               *)
Announces ==
  /\ LibUp /\ shook /\ ~announced /\ announced' = TRUE
  /\ chan' = IF polite THEN "connecting" ELSE chan
  /\ Emits("peer", "DataChan", 0)
  /\ UNCHANGED << Rest, desc, lost, amount, arrived, ice >>

ChanOpens ==
  /\ LibUp /\ shook /\ chan = "connecting" /\ chan' = "open"
  /\ Emits("data", "Open", 0)
  /\ UNCHANGED << Rest, desc, announced, lost, amount, arrived, ice >>

MessageArrives ==
  /\ LibUp /\ chan = "open" /\ ice + arrived < MaxIn /\ arrived' = arrived + 1
  /\ Emits("data", "Message", arrived + 1)
  /\ UNCHANGED << Rest, desc, chan, announced, lost, amount, ice >>

(* The callback comes when the amount falls to the threshold.              *)
Drains ==
  /\ LibUp /\ chan = "open" /\ amount > 0 /\ amount' = amount - 1
  /\ IF amount = SendBuffer + 1 THEN Emits("data", "Low", 0)
                                ELSE UNCHANGED << cmdVars, mgr >>
  /\ UNCHANGED << Rest, desc, chan, announced, lost, arrived, ice >>

(* on_closed, OnClose; on_error, which the glue for pion does not forward. *)
ChanCloses ==
  /\ HasLib /\ chan \in {"connecting", "open"} /\ chan' = "closed"
  /\ Emits("data", "Close", 0) \/ (backend = "lib" /\ Emits("data", "Error", 0))
  /\ UNCHANGED << Rest, desc, announced, lost, amount, arrived, ice >>

(* OnConnectionStateChange: disconnected, closed or failed.  The handler   *)
(* of libdatachannel.rs does not ask for it.                               *)
ConnectionLost ==
  /\ LibUp /\ backend = "go" /\ lost' = TRUE
  /\ Emits("peer", "Close", 0) \/ Emits("peer", "Error", 0)
  /\ UNCHANGED << Rest, desc, chan, announced, amount, arrived, ice >>

LibStep ==
  \/ FindsIce \/ Announces \/ ChanOpens \/ MessageArrives
  \/ ChanCloses \/ ConnectionLost

-----------------------------------------------------------------------------
(* The manager of pion's events.  The registration of a connection is      *)
(* queued before anything else of it.                                      *)

ManagerRest == << kind, task, data, shook, call, cmdVars, evtVars, own, lib, peerTask, dataTask >>
IsFirst(to, k) == mgr # << >> /\ Head(mgr).to = to /\ Head(mgr).kind = k

(* DataChannel::new, on this thread: the channel's registration goes to    *)
(* the end of the queue, behind what has come of it already.               *)
MakesChannel ==
  /\ IsFirst("peer", "DataChan")
  /\ mgr' = << [to |-> "manager", kind |-> "Look", n |-> 0] >> \o Tail(mgr)
            \o IF polite THEN << [to |-> "manager", kind |-> "Reg", n |-> 0] >> ELSE << >>
  /\ UNCHANGED << ManagerRest, reg, peerQ, dataQ >>

(* Faulty variant: only a missed opening is looked for.                    *)
MissedOpening ==
  IF polite /\ chan = "open" THEN << It("Open", 0) >> ELSE << >>

(* What DataChannel::new finds in the state of the channel.                *)
Missed ==
  CASE polite /\ chan = "open" -> << It("Open", 0) >>
    [] polite /\ chan = "closed" -> << It("Close", 0) >>
    [] OTHER -> << >>

Looks ==
  /\ IsFirst("manager", "Look")
  /\ dataQ' = dataQ \o Missed
  /\ peerQ' = Append(peerQ, It("DataChan", 0))
  /\ mgr' = Tail(mgr)
  /\ UNCHANGED << ManagerRest, reg >>

Registers ==
  /\ IsFirst("manager", "Reg")
  /\ reg' = TRUE /\ mgr' = Tail(mgr)
  /\ UNCHANGED << ManagerRest, peerQ, dataQ >>

(* smap: to the object, if the manager knows it.                           *)
Delivers ==
  /\ mgr # << >> /\ mgr' = Tail(mgr)
  /\ LET e == Head(mgr)
         c == It(e.kind, e.n)
     IN \/ /\ e.to = "peer" /\ e.kind # "DataChan"
           /\ peerQ' = Append(peerQ, c) /\ dataQ' = dataQ
        \/ /\ e.to = "data" /\ peerQ' = peerQ
           /\ dataQ' = IF reg THEN Append(dataQ, c) ELSE dataQ
  /\ UNCHANGED << ManagerRest, reg >>

ManagerStep == MakesChannel \/ Looks \/ Registers \/ Delivers

(* The task that forwards the events of a connection ends with the first   *)
(* that ends it, or that finds no room, and closes the channel then.       *)
PeerForwards ==
  /\ peerTask /\ peerQ # << >>
  /\ peerQ' = Tail(peerQ)
  /\ cmds' = IF CmdFits THEN Append(cmds, Head(peerQ)) ELSE cmds
  /\ peerTask' = (CmdFits /\ Head(peerQ).kind \notin {"Close", "Error"})
  /\ cmdOpen' = peerTask'
  /\ UNCHANGED << kind, task, data, shook, call, evtVars, own, lib, mgr, reg, dataQ, dataTask >>

(* spawn_data_chan: the end of a channel is not forwarded, it only closes. *)
DataForwards ==
  /\ dataTask /\ dataQ # << >>
  /\ dataQ' = Tail(dataQ)
  /\ IF Head(dataQ).kind = "Close"
       THEN cmds' = cmds /\ cmdOpen' = FALSE ELSE Pushes(Head(dataQ))
  /\ dataTask' = cmdOpen'
  /\ UNCHANGED << kind, task, data, shook, call, evtVars, own, lib, mgr, reg, peerQ, peerTask >>

-----------------------------------------------------------------------------
OwnerStep ==
  \/ \E k \in Given : Gives(k)
  \/ \E m \in Calls : Message(m)
  \/ Receives \/ Drops

Next ==
  \/ OwnerStep \/ TaskStep \/ LibStep \/ Describes \/ Drains
  \/ ManagerStep \/ PeerForwards \/ DataForwards

(* Tasks and threads run, and an open channel drains its buffer.  Nothing  *)
(* is asked of the owner, or of the network.                               *)
Fairness ==
  /\ WF_vars(TaskStep) /\ WF_vars(ManagerStep)
  /\ WF_vars(PeerForwards) /\ WF_vars(DataForwards)
  /\ WF_vars(Drains)

Spec == Init /\ [][Next]_vars /\ Fairness

-----------------------------------------------------------------------------
(* The owner receives the messages of the channel one after the other, and *)
(* none before Ready: a full channel loses everything that follows, never  *)
(* one message in between.  Only an accepted channel of pion may lose its  *)
(* first messages, those that came before its registration.                *)
MessagesWithoutGap ==
  [][seen'.last # seen.last =>
       /\ seen.ready
       /\ \/ seen'.last = seen.last + 1
          \/ seen.last = 0 /\ backend = "go" /\ polite]_seen

(* A call of message that waits for the buffer comes back, even though the *)
(* amount that makes it wait is read after the message was sent, and the   *)
(* callback that wakes it passes through queues that may close.  (No call  *)
(* waits twice, so in the end none waits at all.)                          *)
SendersReleased == <>[](\A m \in Calls : call[m] # "waiting")

(* When the library says that the connection or its channel is gone, the   *)
(* event channel closes, also when what was said came before the           *)
(* registration, or finds a queue full.  (Neither the loss nor the closing *)
(* is ever undone.)                                                        *)
LossIsTold == <>[](lost \/ chan = "closed" => ~evtOpen)

(* An owner that was told Ready can send: the task has the channel.        *)
ReadyHasChannel == seen.ready => data
=============================================================================
