-------------------------------- MODULE Sig --------------------------------
(***************************************************************************)
(* The connections of an endpoint to its signal servers (tx5/src/sig.rs,   *)
(* with EpInner::assert_sig, drop_sig and Endpoint::listen of tx5/src/     *)
(* ep.rs, and `connect` of tx5/src/peer.rs, which asks for one).  The map  *)
(* holds one Arc<Sig> per url.  Its task connects with backoff, says that  *)
(* the address is open if it is to listen, hands incoming connections to   *)
(* the endpoint until the server is lost, says that it is closed, and      *)
(* drops its guard: DropSig takes the entry out of the map and, for a      *)
(* listener, puts a new one there.                                         *)
(*                                                                         *)
(* A sig is one incarnation, numbered in the order of creation.  The       *)
(* server is external: an attempt to reach it succeeds or fails, and it    *)
(* may be lost at any moment.                                              *)
(***************************************************************************)
EXTENDS Naturals, Sequences, FiniteSets

CONSTANTS
  Urls,      \* urls of signal servers
  Listens,   \* calls of Endpoint::listen
  Connects,  \* outgoing peers (peer.rs, connect)
  MaxSigs,   \* sigs that are ever made (bounds the model)
  EvtCap,    \* capacity of the event channel (32)
  NoUrl, NoCall

Sigs == 1..MaxSigs
NoSig == 0

ASSUME SigAssumption ==
  /\ NoUrl \notin Urls /\ NoCall \notin Listens \cup Connects
  /\ Listens \cap Connects = {}
  /\ MaxSigs \in Nat
  /\ EvtCap \in Nat \ {0}

VARIABLES
  map,      \* the sig that the endpoint has for a url
  url,      \* the url of a sig, NoUrl until it is made
  listener, \* it was made to listen
  held,     \* the calls that hold an Arc of a sig, besides the map
  aborted,  \* the abort of its task was asked for
  stage,    \* where its task is
  ready,    \* MaybeReady::Ready
  resp,     \* the call that waits for its address
  events,   \* the event channel
  told,     \* the last event the application received of a url, and its number
  call,     \* where a call of listen or connect is
  open      \* the endpoint is not dropped

handles == << map, held, aborted, resp, call >>
vars == << handles, url, listener, stage, ready, events, told, open >>

Up == {"opening", "accepting"}
Down == {"pausing", "closing"}
Running == {"connecting", "backoff"} \cup Up \cup Down
Stage == {"none", "dropping", "ended"} \cup Running
Event == [kind : {"Open", "Closed"}, sig : Sigs]

TypeOK ==
  /\ map \in [Urls -> Sigs \cup {NoSig}]
  /\ url \in [Sigs -> Urls \cup {NoUrl}]
  /\ listener \in [Sigs -> BOOLEAN]
  /\ held \in [Sigs -> SUBSET Connects]
  /\ aborted \in [Sigs -> BOOLEAN]
  /\ stage \in [Sigs -> Stage]
  /\ ready \in [Sigs -> BOOLEAN]
  /\ resp \in [Sigs -> Listens \cup {NoCall}]
  /\ events \in Seq(Event)
  /\ told \in [Urls -> [kind : {"Open", "Closed"}, n : Nat]]
  /\ call \in [Listens \cup Connects ->
                 {"idle", "waiting", "connecting", "done", "url", "none"}]
  /\ open \in BOOLEAN

Init ==
  /\ map = [u \in Urls |-> NoSig]
  /\ url = [s \in Sigs |-> NoUrl]
  /\ listener = [s \in Sigs |-> FALSE]
  /\ held = [s \in Sigs |-> {}]
  /\ aborted = [s \in Sigs |-> FALSE]
  /\ stage = [s \in Sigs |-> "none"]
  /\ ready = [s \in Sigs |-> FALSE]
  /\ resp = [s \in Sigs |-> NoCall]
  /\ events = << >>
  /\ told = [u \in Urls |-> [kind |-> "Closed", n |-> 0]]
  /\ call = [c \in Listens \cup Connects |-> "idle"]
  /\ open = TRUE

-----------------------------------------------------------------------------
(* Handles.                                                                *)

InMap(m, s) == \E u \in Urls : m[u] = s
Alive(s) == InMap(map, s) \/ held[s] # {}

(* Sig::drop of the sigs whose last Arc goes.                              *)
HandlesBecome(m, h) ==
  /\ map' = m /\ held' = h
  /\ aborted' = [s \in Sigs |->
       aborted[s] \/ (Alive(s) /\ ~InMap(m, s) /\ h[s] = {})]

(* EpInner lives as long as the endpoint, or a peer that still connects.   *)
Owners(c) == {d \in Connects \ {c} : call[d] \in {"waiting", "connecting"}}
InnerAlive == open \/ Owners(NoCall) # {}
NoMap == [u \in Urls |-> NoSig]

IsNext(s) == url[s] = NoUrl /\ \A t \in 1..(s - 1) : url[t] # NoUrl

(* A number is kept for the successor of each listener that is going.      *)
Going == {s \in Sigs : listener[s] /\ stage[s] \in Down \cup {"dropping"}}
Spare == Cardinality({s \in Sigs : url[s] = NoUrl}) > Cardinality(Going)

(* Sig::new.                                                               *)
Makes(s, u, listens) ==
  /\ IsNext(s)
  /\ url' = [url EXCEPT ![s] = u]
  /\ listener' = [listener EXCEPT ![s] = listens]

Answers(c, a) == call' = [call EXCEPT ![c] = a]

-----------------------------------------------------------------------------
(* The calls: assert_sig returns the sig of the map, or a new one.         *)

(* Endpoint::listen: a sig that is there keeps what it was made for, and   *)
(* the channel for the answer is dropped.                                  *)
ListenFinds(l, u) ==
  /\ open /\ call[l] = "idle" /\ map[u] # NoSig
  /\ Answers(l, "none")
  /\ UNCHANGED << map, held, aborted, resp, url, listener, stage, ready,
                  events, told, open >>

ListenMakes(l, u, s) ==
  /\ open /\ call[l] = "idle" /\ map[u] = NoSig
  /\ Spare /\ Makes(s, u, TRUE)
  /\ HandlesBecome([map EXCEPT ![u] = s], held)
  /\ stage' = [stage EXCEPT ![s] = "connecting"]
  /\ resp' = [resp EXCEPT ![s] = l]
  /\ Answers(l, "waiting")
  /\ UNCHANGED << ready, events, told, open >>

(* peer.rs, connect: it holds the sig, and the endpoint, until it is done. *)
ConnectFinds(c, u) ==
  /\ InnerAlive /\ call[c] = "idle" /\ map[u] # NoSig
  /\ HandlesBecome(map, [held EXCEPT ![map[u]] = @ \cup {c}])
  /\ Answers(c, "waiting")
  /\ UNCHANGED << resp, url, listener, stage, ready, events, told, open >>

ConnectMakes(c, u, s) ==
  /\ InnerAlive /\ call[c] = "idle" /\ map[u] = NoSig
  /\ Spare /\ Makes(s, u, FALSE)
  /\ HandlesBecome([map EXCEPT ![u] = s], [held EXCEPT ![s] = @ \cup {c}])
  /\ stage' = [stage EXCEPT ![s] = "connecting"]
  /\ Answers(c, "waiting")
  /\ UNCHANGED << resp, ready, events, told, open >>

(* Sig::ready, then Sig::connect, which may find the server gone.          *)
ConnectAwakes(c, s) ==
  /\ call[c] = "waiting" /\ c \in held[s] /\ ready[s]
  /\ Answers(c, "connecting")
  /\ UNCHANGED << map, held, aborted, resp, url, listener, stage, ready,
                  events, told, open >>

(* The attempt is over, or timed out.                                      *)
ConnectEnds(c) ==
  /\ call[c] \in {"waiting", "connecting"}
  /\ HandlesBecome(IF open \/ Owners(c) # {} THEN map ELSE NoMap,
                   [s \in Sigs |-> held[s] \ {c}])
  /\ Answers(c, "done")
  /\ UNCHANGED << resp, url, listener, stage, ready, events, told, open >>

(* The endpoint is dropped; no call of listen is under way.                *)
DropEndpoint ==
  /\ open /\ \A l \in Listens : call[l] # "waiting"
  /\ open' = FALSE
  /\ HandlesBecome(IF Owners(NoCall) # {} THEN map ELSE NoMap, held)
  /\ UNCHANGED << resp, call, url, listener, stage, ready, events, told >>

-----------------------------------------------------------------------------
(* The task.                                                               *)

Moves(s, from, to) == stage[s] = from /\ stage' = [stage EXCEPT ![s] = to]
Only(s, from, to) ==
  /\ Moves(s, from, to)
  /\ UNCHANGED << handles, url, listener, ready, events, told, open >>

(* connect_loop gives its answer once, to a call that still waits for it.  *)
Responds(s, a) ==
  /\ resp' = [resp EXCEPT ![s] = NoCall]
  /\ call' = IF resp[s] = NoCall THEN call ELSE [call EXCEPT ![resp[s]] = a]

ServerReached(s) ==
  /\ Moves(s, "connecting", IF listener[s] THEN "opening" ELSE "accepting")
  /\ ready' = [ready EXCEPT ![s] = TRUE]
  /\ Responds(s, "url")
  /\ UNCHANGED << map, held, aborted, url, listener, events, told, open >>

(* Faulty variant: a failed attempt keeps the answer for a later one.       *)
KeepsAnswer(s) == Only(s, "connecting", "backoff")

ServerMissed(s) ==
  /\ Moves(s, "connecting", "backoff")
  /\ Responds(s, "none")
  /\ UNCHANGED << map, held, aborted, url, listener, ready, events, told, open >>

(* Faulty variant: the backoff ends with giving up.                        *)
GivesUp(s) == Only(s, "backoff", "ended")

TriesAgain(s) == Only(s, "backoff", "connecting")

HasRoom == Len(events) < EvtCap

Puts(k, s) == events' = Append(events, [kind |-> k, sig |-> s])
SaysOpen(s) ==
  /\ HasRoom /\ Moves(s, "opening", "accepting") /\ Puts("Open", s)
  /\ UNCHANGED << handles, url, listener, ready, told, open >>

(* A server is only lost as long as the model has sigs to spare.           *)
ServerLost(s) == Spare /\ Only(s, "accepting", "pausing")

(* Faulty variant: only the last listener says Closed.                     *)
PausesSilently(s) == Only(s, "pausing", "dropping")

Pauses(s) == Only(s, "pausing", IF listener[s] THEN "closing" ELSE "dropping")
SaysClosed(s) ==
  /\ HasRoom /\ Moves(s, "closing", "dropping") /\ Puts("Closed", s)
  /\ UNCHANGED << handles, url, listener, ready, told, open >>

(* The abort takes effect: the guard finds the sig gone.  Its answer, if   *)
(* it still owes one, is dropped.                                          *)
Cancels(s) ==
  /\ aborted[s] /\ stage[s] \in Running
  /\ Moves(s, stage[s], "ended")
  /\ Responds(s, "none")
  /\ UNCHANGED << map, held, aborted, url, listener, ready, events, told, open >>

(* Faulty variant: the guard of a lost listener only removes it.           *)
RemovesListener(s, t) ==
  /\ stage[s] = "dropping" /\ listener[s] /\ map[url[s]] = s /\ IsNext(t)
  /\ Moves(s, "dropping", "ended")
  /\ HandlesBecome([map EXCEPT ![url[s]] = NoSig], held)
  /\ UNCHANGED << resp, call, url, listener, ready, events, told, open >>

(* drop_sig: the sig leaves the map, and a listener is succeeded at once.  *)
Succeeds(s, t) ==
  /\ stage[s] = "dropping" /\ listener[s] /\ map[url[s]] = s
  /\ Makes(t, url[s], TRUE)
  /\ stage' = [stage EXCEPT ![s] = "ended", ![t] = "connecting"]
  /\ HandlesBecome([map EXCEPT ![url[s]] = t], held)
  /\ UNCHANGED << resp, call, ready, events, told, open >>

Removes(s) ==
  /\ stage[s] = "dropping" /\ ~listener[s] /\ map[url[s]] = s
  /\ Moves(s, "dropping", "ended")
  /\ HandlesBecome([map EXCEPT ![url[s]] = NoSig], held)
  /\ UNCHANGED << resp, call, url, listener, ready, events, told, open >>

(* The map is gone, or has another sig.                                    *)
FindsNothing(s) == Only(s, "dropping", "ended") /\ map[url[s]] # s

(* EndpointRecv::recv.                                                     *)
Recv ==
  /\ events # << >>
  /\ told' = [told EXCEPT ![url[Head(events).sig]] =
                [kind |-> Head(events).kind, n |-> @.n + 1]]
  /\ events' = Tail(events)
  /\ UNCHANGED << handles, url, listener, stage, ready, open >>

-----------------------------------------------------------------------------
ListenStep(l) ==
  \E u \in Urls : ListenFinds(l, u) \/ \E s \in Sigs : ListenMakes(l, u, s)
ConnectStep(c) ==
  \/ \E u \in Urls : ConnectFinds(c, u) \/ \E s \in Sigs : ConnectMakes(c, u, s)
  \/ \E s \in Sigs : ConnectAwakes(c, s)
  \/ ConnectEnds(c)
DropsGuard(s) == Removes(s) \/ FindsNothing(s) \/ \E t \in Sigs : Succeeds(s, t)
SigStep(s) ==
  \/ ServerReached(s) \/ ServerMissed(s) \/ TriesAgain(s) \/ SaysOpen(s)
  \/ ServerLost(s) \/ Pauses(s) \/ SaysClosed(s) \/ Cancels(s) \/ DropsGuard(s)

Next ==
  \/ \E l \in Listens : ListenStep(l)
  \/ \E c \in Connects : ConnectStep(c)
  \/ \E s \in Sigs : SigStep(s)
  \/ DropEndpoint \/ Recv

(* Tasks are polled and timers fire, and the application takes its events  *)
(* (the task waits for room).  Nothing says that a server is ever there:   *)
(* an attempt comes to an end, and every one of them may fail.             *)
Fairness ==
  /\ \A s \in Sigs :
       /\ WF_vars(ServerReached(s) \/ ServerMissed(s)) /\ WF_vars(TriesAgain(s))
       /\ SF_vars(SaysOpen(s) \/ SaysClosed(s))
       /\ WF_vars(Pauses(s)) /\ WF_vars(Cancels(s)) /\ WF_vars(DropsGuard(s))
  /\ \A c \in Connects : WF_vars(ConnectEnds(c))
  /\ WF_vars(Recv)

Spec == Init /\ [][Next]_vars /\ Fairness

-----------------------------------------------------------------------------
(* The application hears of a listening address by turns that it opens and *)
(* that it closes: a successor says nothing before its predecessor has     *)
(* said Closed, although both wait for room in the same channel.           *)
Heard == INSTANCE ListeningEvents
OpensAndClosesByTurns == Heard!Spec

(* Once the endpoint listens at a server, the map has a listener for it    *)
(* until the map itself goes: a lost one is replaced in the same step, and *)
(* a peer that connects in between cannot put its own there.               *)
ListenerStays ==
  [][\A u \in Urls :
       map[u] # NoSig /\ listener[map[u]] =>
         \/ map'[u] # NoSig /\ listener'[map'[u]]
         \/ map' = NoMap /\ ~open']_vars

(* Every call of listen is answered, also when no attempt ever reaches the *)
(* server: the first one that fails drops the answer (connect_loop).       *)
ListenAnswered ==
  \A l \in Listens : call[l] = "waiting" ~> call[l] # "waiting"

(* An endpoint that lost its server listens again, if the server comes     *)
(* back: one that is tried again and again is reached.                     *)
ServersComeBack == \A s \in Sigs : SF_vars(ServerReached(s))
ListensAgain ==
  ServersComeBack =>
    \A s \in Sigs :
      (stage[s] = "pausing" /\ listener[s] /\ open)
        ~> (~open \/ \E t \in Sigs : t > s /\ url[t] = url[s] /\ stage[t] = "accepting")
=============================================================================
