------------------------------ MODULE Endpoint ------------------------------
(***************************************************************************)
(* The peer connections of an endpoint (tx5/src/ep.rs, tx5/src/peer.rs,    *)
(* tx5/src/peer/maybe_ready.rs).  The map holds one Arc<Peer> per url;     *)
(* calls of send and broadcast hold more of them while they wait and       *)
(* send.  Each peer has a task.  When the last Arc goes, Peer::drop aborts *)
(* the task, which takes effect when the task is polled next; until then   *)
(* a poll that has begun goes on.  A task that returns or is aborted drops *)
(* its guard (DropPeer), which removes the entry of its url from the map,  *)
(* whoever's it is, sets the peer failed and leaves a detached task that   *)
(* tells the application Disconnected.                                     *)
(*                                                                         *)
(* A peer is one incarnation of a connection, numbered in the order of     *)
(* creation.  The backend below and the signal connection are external:    *)
(* an attempt comes to an end (every wait for it has a timeout), messages  *)
(* arrive, and a connection may end at any moment.                         *)
(***************************************************************************)
EXTENDS Naturals, Sequences, FiniteSets

CONSTANTS
  Urls,      \* urls of remote peers
  Senders,   \* calls of Endpoint::send
  Casters,   \* calls of Endpoint::broadcast
  MaxPeers,  \* peers that are ever made (bounds the model)
  MaxMsgs,   \* messages that a connection brings (bounds the model)
  EvtCap,    \* capacity of the event channel (32)
  NoUrl

Peers == 1..MaxPeers
NoPeer == 0
Callers == Senders \cup Casters

ASSUME EndpointAssumption ==
  /\ NoUrl \notin Urls
  /\ Senders \cap Casters = {}
  /\ MaxPeers \in Nat /\ MaxMsgs \in Nat
  /\ EvtCap \in Nat \ {0}

VARIABLES
  map,     \* the peer that the endpoint has for a url
  url,     \* the url of a peer, NoUrl until it is made
  held,    \* the calls that hold an Arc of a peer
  aborted, \* the abort of a peer's task was asked for
  stage,   \* where the task of a peer is
  ready,   \* MaybeReady of a peer
  msgs,    \* messages its connection may still bring
  late,    \* peers whose Disconnected is on its way
  events,  \* the event channel
  told,    \* the last event the application received of a peer, and its number
  call,    \* where a call is, and the peer whose connection it sends over
  open     \* the endpoint is not dropped

handles == << map, held, aborted >>
eventVars == << late, events, told >>
vars == << handles, url, stage, ready, msgs, eventVars, call, open >>

Guarded == {"waiting", "preflight", "announcing", "receiving", "passing"}
Unguarded == {"spawned", "starting", "connecting"}
Leaving == {"dropping", "failing"}
Stage == {"none", "ended"} \cup Guarded \cup Unguarded \cup Leaving

Kind == {"Connected", "Message", "Disconnected"}
Event == [kind : Kind, peer : Peers]
Call == [at : {"idle", "waiting", "retry", "sending", "casting", "done"},
         url : Urls \cup {NoUrl}, via : Peers \cup {NoPeer}]

TypeOK ==
  /\ map \in [Urls -> Peers \cup {NoPeer}]
  /\ url \in [Peers -> Urls \cup {NoUrl}]
  /\ held \in [Peers -> SUBSET Callers]
  /\ aborted \in [Peers -> BOOLEAN]
  /\ stage \in [Peers -> Stage]
  /\ ready \in [Peers -> {"wait", "ready", "failed"}]
  /\ msgs \in [Peers -> 0..MaxMsgs]
  /\ late \in SUBSET Peers
  /\ events \in Seq(Event)
  /\ told \in [Peers -> [kind : Kind \cup {"nothing"}, n : Nat]]
  /\ call \in [Callers -> Call]
  /\ open \in BOOLEAN

Init ==
  /\ map = [u \in Urls |-> NoPeer]
  /\ url = [p \in Peers |-> NoUrl]
  /\ held = [p \in Peers |-> {}]
  /\ aborted = [p \in Peers |-> FALSE]
  /\ stage = [p \in Peers |-> "none"]
  /\ ready = [p \in Peers |-> "wait"]
  /\ msgs = [p \in Peers |-> MaxMsgs]
  /\ late = {} /\ events = << >>
  /\ told = [p \in Peers |-> [kind |-> "nothing", n |-> 0]]
  /\ call = [c \in Callers |-> [at |-> "idle", url |-> NoUrl, via |-> NoPeer]]
  /\ open = TRUE

-----------------------------------------------------------------------------
(* Handles.                                                                *)

InMap(m, p) == \E u \in Urls : m[u] = p
Alive(p) == InMap(map, p) \/ held[p] # {}

(* Faulty variant: nobody aborts the task of a peer that was let go.       *)
NeverAborts(m, h) == aborted

(* Peer::drop of the peers whose last Arc goes as map and handles become m *)
(* and h.                                                                  *)
AbortedAfter(m, h) ==
  [p \in Peers |-> aborted[p] \/ (Alive(p) /\ ~InMap(m, p) /\ h[p] = {})]

HandlesBecome(m, h) ==
  /\ map' = m /\ held' = h /\ aborted' = AbortedAfter(m, h)

WithoutCaller(c) == [p \in Peers |-> held[p] \ {c}]
WithCaller(c, ps) ==
  [p \in Peers |-> IF p \in ps THEN held[p] \cup {c} ELSE held[p]]
Without(u) == [map EXCEPT ![u] = NoPeer]

(* The number of the next peer, if the model allows for one more.          *)
IsNext(p) == url[p] = NoUrl /\ \A q \in 1..(p - 1) : url[q] # NoUrl

(* Peer::new_connect and Peer::new_accept: a peer in the map, its task     *)
(* spawned.                                                                *)
Makes(p, u, first) ==
  /\ IsNext(p)
  /\ url' = [url EXCEPT ![p] = u]
  /\ stage' = [stage EXCEPT ![p] = first]

-----------------------------------------------------------------------------
(* The calls of the application.                                           *)

Goes(c, at, u, via) ==
  call' = [call EXCEPT ![c] = [at |-> at, url |-> u, via |-> via]]
Finishes(c) ==
  /\ HandlesBecome(map, WithoutCaller(c))
  /\ Goes(c, "done", NoUrl, NoPeer)

(* Endpoint::send: the peer in the map, or a new one that connects.        *)
SendToPeer(s, u) ==
  /\ open /\ call[s].at = "idle" /\ map[u] # NoPeer
  /\ HandlesBecome(map, WithCaller(s, {map[u]}))
  /\ Goes(s, "waiting", u, NoPeer)
  /\ UNCHANGED << url, stage, ready, msgs, eventVars, open >>

SendConnects(s, u, p) ==
  /\ open /\ call[s].at = "idle" /\ map[u] = NoPeer
  /\ Makes(p, u, "starting")
  /\ HandlesBecome([map EXCEPT ![u] = p], WithCaller(s, {p}))
  /\ Goes(s, "waiting", u, NoPeer)
  /\ UNCHANGED << ready, msgs, eventVars, open >>

Awaits(s, p) == call[s].at = "waiting" /\ s \in held[p]

(* wait_for_ready returns the connection, or nothing.                      *)
SendFindsReady(s, p) ==
  /\ Awaits(s, p) /\ ready[p] = "ready"
  /\ Goes(s, "sending", call[s].url, p)
  /\ UNCHANGED << handles, url, stage, ready, msgs, eventVars, open >>

SendFindsFailed(s, p) ==
  /\ Awaits(s, p) /\ ready[p] = "failed"
  /\ Goes(s, "retry", call[s].url, NoPeer)
  /\ UNCHANGED << handles, url, stage, ready, msgs, eventVars, open >>

(* peer_if_ready: an incoming connection may have come in the mean time.   *)
IsReady(p) == p # NoPeer /\ ready[p] = "ready"
SendRetries(s) ==
  /\ call[s].at = "retry"
  /\ \/ /\ IsReady(map[call[s].url])
        /\ Goes(s, "sending", call[s].url, map[call[s].url])
        /\ UNCHANGED handles
     \/ ~IsReady(map[call[s].url]) /\ Finishes(s)
  /\ UNCHANGED << url, stage, ready, msgs, eventVars, open >>

(* The backend took the message, or refused it.                            *)
SendEnds(s) ==
  /\ call[s].at = "sending" /\ Finishes(s)
  /\ UNCHANGED << url, stage, ready, msgs, eventVars, open >>

(* The timeout of send, or the application drops the call.                 *)
SendTimesOut(s) ==
  /\ call[s].at = "waiting" /\ Finishes(s)
  /\ UNCHANGED << url, stage, ready, msgs, eventVars, open >>

(* Endpoint::broadcast: a task for every peer in the map holds its Arc.    *)
Broadcast(c) ==
  /\ open /\ call[c].at = "idle"
  /\ HandlesBecome(map, WithCaller(c, {map[u] : u \in Urls} \ {NoPeer}))
  /\ Goes(c, "casting", NoUrl, NoPeer)
  /\ UNCHANGED << url, stage, ready, msgs, eventVars, open >>

LetsGo(c, p) ==
  /\ c \in held[p] /\ call[c].at = "casting"
  /\ HandlesBecome(map, [held EXCEPT ![p] = @ \ {c}])
  /\ UNCHANGED << call, url, stage, ready, msgs, eventVars, open >>
CastEnds(c, p) == ready[p] # "wait" /\ LetsGo(c, p)
CastTimesOut(c, p) == ready[p] = "wait" /\ LetsGo(c, p)

(* Endpoint::close.                                                        *)
Close(u) ==
  /\ open /\ map[u] # NoPeer
  /\ HandlesBecome(Without(u), held)
  /\ UNCHANGED << call, url, stage, ready, msgs, eventVars, open >>

(* EpInner is shared with the tasks that connect, for as long as they do.  *)
(* When the last owner goes, the map goes with it.                         *)
Connecting == {p \in Peers : stage[p] = "connecting"}
InnerAlive == open \/ Connecting # {}
MapDropped == HandlesBecome([u \in Urls |-> NoPeer], held)

(* The endpoint is dropped, which no call of send outlives; the tasks of a *)
(* broadcast do.                                                           *)
DropEndpoint ==
  /\ open /\ \A s \in Senders : call[s].at \in {"idle", "done"}
  /\ open' = FALSE
  /\ IF Connecting = {} THEN MapDropped ELSE UNCHANGED handles
  /\ UNCHANGED << call, url, stage, ready, msgs, eventVars >>

(* accept_peer: an incoming connection becomes a peer, unless the map has  *)
(* one for its url; then it is dropped.                                    *)
AcceptPeer(u, p) ==
  /\ InnerAlive /\ map[u] = NoPeer
  /\ Makes(p, u, "spawned")
  /\ HandlesBecome([map EXCEPT ![u] = p], held)
  /\ UNCHANGED << call, ready, msgs, eventVars, open >>

-----------------------------------------------------------------------------
(* The task of a peer.                                                     *)

(* The task of p goes from one of its awaits to another.                   *)
Moves(p, from, to) == stage[p] = from /\ stage' = [stage EXCEPT ![p] = to]
Only(p, from, to) ==
  /\ Moves(p, from, to)
  /\ UNCHANGED << handles, url, ready, msgs, eventVars, call, open >>

(* The first poll: `task` of an incoming connection, `connect` of an       *)
(* outgoing one, which needs the endpoint.                                 *)
Starts(p) ==
  \/ Only(p, "spawned", "waiting")
  \/ Only(p, "starting", IF InnerAlive THEN "connecting" ELSE "dropping")

(* Faulty variant: a failed attempt returns before the guard exists.       *)
LeavesUnguarded(p, to) ==
  /\ Moves(p, "connecting", IF to = "dropping" THEN "ended" ELSE to)
  /\ UNCHANGED << handles, url, ready, msgs, eventVars, call, open >>

(* connect lets go of the endpoint; then `task` makes the guard.           *)
Leaves(p, to) ==
  /\ Moves(p, "connecting", to)
  /\ IF open \/ Connecting # {p} THEN UNCHANGED handles ELSE MapDropped
  /\ UNCHANGED << url, ready, msgs, eventVars, call, open >>

(* connect and task: an attempt goes through its waits, each of which has  *)
(* a timeout, or returns.                                                  *)
SignalConnects(p) == Leaves(p, "waiting")
SignalFails(p) == Leaves(p, "dropping")
BecomesOpen(p) == Only(p, "waiting", "preflight")
WaitFails(p) == Only(p, "waiting", "dropping")
PreflightFails(p) == Only(p, "preflight", "dropping")

(* MaybeReady::set_ready and set_failed change only what waits.            *)
Settles(p, to) ==
  ready' = [ready EXCEPT ![p] = IF ready[p] = "wait" THEN to ELSE ready[p]]
PreflightPasses(p) ==
  /\ Moves(p, "preflight", "announcing")
  /\ Settles(p, "ready")
  /\ UNCHANGED << handles, url, msgs, eventVars, call, open >>

HasRoom == Len(events) < EvtCap

Puts(k, p) == events' = Append(events, [kind |-> k, peer |-> p])

Announces(p) ==
  /\ HasRoom /\ Moves(p, "announcing", "receiving") /\ Puts("Connected", p)
  /\ UNCHANGED << handles, url, ready, msgs, late, told, call, open >>
AnnounceTimesOut(p) == ~HasRoom /\ Only(p, "announcing", "receiving")

Receives(p) ==
  /\ msgs[p] > 0 /\ Moves(p, "receiving", "passing")
  /\ msgs' = [msgs EXCEPT ![p] = @ - 1]
  /\ UNCHANGED << handles, url, ready, eventVars, call, open >>
PassesOn(p) ==
  /\ HasRoom /\ Moves(p, "passing", "receiving") /\ Puts("Message", p)
  /\ UNCHANGED << handles, url, ready, msgs, late, told, call, open >>

(* Faulty variant: the end is told, and the loop goes on.                  *)
KeepsReceiving(p) ==
  /\ stage[p] = "receiving" /\ late' = late \cup {p}
  /\ UNCHANGED << handles, url, stage, ready, msgs, events, told, call, open >>

(* The backend reports an error.                                           *)
ConnectionEnds(p) == Only(p, "receiving", "dropping")

(* The abort takes effect.  The guard exists from the first poll of `task` *)
(* on; there is none while connect tries.                                  *)
Cancels(p) ==
  /\ aborted[p]
  /\ \/ stage[p] \in Unguarded \ {"connecting"} /\ Only(p, stage[p], "ended")
     \/ Leaves(p, "ended")
     \/ stage[p] \in Guarded /\ Only(p, stage[p], "dropping")

(* DropPeer::drop: first the map, which may let go of another peer.        *)
CleansUp(p) ==
  /\ Moves(p, "dropping", "failing")
  /\ IF InnerAlive THEN HandlesBecome(Without(url[p]), held) ELSE UNCHANGED handles
  /\ UNCHANGED << url, ready, msgs, eventVars, call, open >>

(* Faulty variant: waiters are not told.                                   *)
ForgetsToFail(p) ==
  /\ Moves(p, "failing", "ended")
  /\ late' = late \cup {p}
  /\ UNCHANGED << handles, url, ready, msgs, events, told, call, open >>

(* DropPeer::drop: then the waiters and the application.                   *)
SetsFailed(p) ==
  /\ Moves(p, "failing", "ended")
  /\ Settles(p, "failed")
  /\ late' = late \cup {p}
  /\ UNCHANGED << handles, url, msgs, events, told, call, open >>

-----------------------------------------------------------------------------
(* The detached task that tells the end, and the application.              *)

TellsEnd(p) ==
  /\ p \in late /\ HasRoom
  /\ Puts("Disconnected", p)
  /\ late' = late \ {p}
  /\ UNCHANGED << handles, url, stage, ready, msgs, told, call, open >>
TellTimesOut(p) ==
  /\ p \in late /\ ~HasRoom
  /\ late' = late \ {p}
  /\ UNCHANGED << handles, url, stage, ready, msgs, events, told, call, open >>

(* EndpointRecv::recv.                                                     *)
Recv ==
  /\ events # << >>
  /\ told' = [told EXCEPT ![Head(events).peer] =
                [kind |-> Head(events).kind, n |-> @.n + 1]]
  /\ events' = Tail(events)
  /\ UNCHANGED << handles, url, stage, ready, msgs, late, call, open >>

-----------------------------------------------------------------------------
SendStep(s) ==
  \/ \E u \in Urls : SendToPeer(s, u) \/ \E p \in Peers : SendConnects(s, u, p)
  \/ \E p \in Peers : SendFindsReady(s, p) \/ SendFindsFailed(s, p)
  \/ SendRetries(s) \/ SendEnds(s) \/ SendTimesOut(s)
CastStep(c) ==
  \/ Broadcast(c)
  \/ \E p \in Peers : CastEnds(c, p) \/ CastTimesOut(c, p)
MapStep ==
  \/ \E u \in Urls : Close(u) \/ \E p \in Peers : AcceptPeer(u, p)
  \/ DropEndpoint

Attempts(p) ==
  \/ SignalConnects(p) \/ SignalFails(p) \/ BecomesOpen(p) \/ WaitFails(p)
  \/ PreflightPasses(p) \/ PreflightFails(p)
DropsGuard(p) == CleansUp(p) \/ SetsFailed(p)
Says(p) == Announces(p) \/ AnnounceTimesOut(p)
Tells(p) == TellsEnd(p) \/ TellTimesOut(p)
PeerStep(p) ==
  \/ Starts(p) \/ Attempts(p) \/ Says(p)
  \/ Receives(p) \/ PassesOn(p) \/ ConnectionEnds(p)
  \/ Cancels(p) \/ DropsGuard(p) \/ Tells(p)

Next ==
  \/ \E s \in Senders : SendStep(s)
  \/ \E c \in Casters : CastStep(c)
  \/ \E p \in Peers : PeerStep(p)
  \/ MapStep \/ Recv

(* A task that can go on is polled, and its timers fire.  Nothing is asked *)
(* of the application, of messages, or of the timer of send: an attempt    *)
(* ends by the timeouts of the peer's own task.                            *)
Fairness ==
  /\ \A p \in Peers :
       /\ WF_vars(Starts(p) \/ Attempts(p) \/ Says(p) \/ Cancels(p) \/ DropsGuard(p))
       /\ WF_vars(Tells(p))
  /\ \A s \in Senders :
       WF_vars(\/ \E p \in Peers : SendFindsReady(s, p) \/ SendFindsFailed(s, p)
               \/ SendRetries(s) \/ SendEnds(s))
  /\ \A c \in Casters, p \in Peers : WF_vars(CastEnds(c, p))

Spec == Init /\ [][Next]_vars /\ Fairness

-----------------------------------------------------------------------------
(* A peer whose guard has run is not in the map, so that the next send     *)
(* makes a new one: a dead connection never stays where the endpoint would *)
(* not replace it, and what a Disconnected tells of is out of the map      *)
(* before anybody hears of it.                                             *)
EndedIsForgotten ==
  \A p \in Peers : stage[p] \in {"failing", "ended"} =>
    /\ ~InMap(map, p)
    /\ held[p] # {} => ready[p] # "wait" \/ stage[p] = "failing"

(* The events of each peer keep their order, whatever the detached task,   *)
(* the timeouts and an abort in the middle of a send do to them.           *)
EventOrder == INSTANCE PeerEvents
EventsInOrder == EventOrder!Spec

(* Whoever waits for a peer to become ready is woken without the help of   *)
(* his own timeout, even if the application takes no event.                *)
WaitersWoken ==
  \A s \in Senders : call[s].at = "waiting" ~> call[s].at # "waiting"

(* A peer that is no longer in the map, be it closed or removed by the     *)
(* guard of a predecessor, ends, and its end is told or timed out; and so  *)
(* does every peer of an endpoint that was dropped, although tasks that    *)
(* connect own a part of it.                                               *)
RemovedPeersEnd ==
  \A p \in Peers :
    (url[p] # NoUrl /\ (~InMap(map, p) \/ ~open))
      ~> (stage[p] = "ended" /\ p \notin late)
=============================================================================
