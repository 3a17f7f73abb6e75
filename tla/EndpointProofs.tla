--------------------------- MODULE EndpointProofs ---------------------------
(***************************************************************************)
(* Proofs about Endpoint, for any number of urls, callers, peers and       *)
(* messages and any capacity of the event channel: its state is well       *)
(* typed, a peer whose guard has run is forgotten, and the events of each  *)
(* peer come in order.                                                     *)
(***************************************************************************)
EXTENDS Endpoint, SequenceTheorems, TLAPS

(* The invariant.  The map agrees with the peers' urls, a peer that was    *)
(* not made has no owner, an aborted one has none any more, and the map is *)
(* empty once nobody owns it.                                              *)
CallUrl == \A c \in Callers : call[c].at \in {"waiting", "retry"} => call[c].url \in Urls
MapUrl == \A u \in Urls : map[u] # NoPeer => url[map[u]] = u
Made == \A p \in Peers :
  /\ url[p] = NoUrl <=> stage[p] = "none"
  /\ url[p] = NoUrl => held[p] = {} /\ ~aborted[p]
AbortedIsGone == \A p \in Peers : aborted[p] => ~Alive(p)
MapOwned == ~InnerAlive => \A u \in Urls : map[u] = NoPeer

EndpointInv ==
  /\ TypeOK /\ CallUrl /\ MapUrl /\ Made
  /\ AbortedIsGone /\ MapOwned /\ EndedIsForgotten

LEMMA PeersNat == NoPeer \notin Peers /\ Peers \subseteq Nat /\ NoUrl \notin Urls
  BY EndpointAssumption DEF NoPeer, Peers

-----------------------------------------------------------------------------
(* Types.                                                                  *)

LEMMA HandlesType ==
  ASSUME TypeOK, NEW m \in [Urls -> Peers \cup {NoPeer}],
         NEW h \in [Peers -> SUBSET Callers], HandlesBecome(m, h)
  PROVE  /\ map' = m /\ held' = h
         /\ map' \in [Urls -> Peers \cup {NoPeer}]
         /\ held' \in [Peers -> SUBSET Callers]
         /\ aborted' \in [Peers -> BOOLEAN]
<1>1. AbortedAfter(m, h) \in [Peers -> BOOLEAN]
  BY DEF TypeOK, AbortedAfter
<1> QED BY <1>1 DEF HandlesBecome

LEMMA HeldType ==
  ASSUME TypeOK
  PROVE  /\ \A c : WithoutCaller(c) \in [Peers -> SUBSET Callers]
         /\ \A c \in Callers : \A ps : WithCaller(c, ps) \in [Peers -> SUBSET Callers]
         /\ \A c : \A p : [held EXCEPT ![p] = @ \ {c}] \in [Peers -> SUBSET Callers]
  BY DEF TypeOK, WithoutCaller, WithCaller

LEMMA MapType ==
  ASSUME TypeOK
  PROVE  /\ \A u : Without(u) \in [Urls -> Peers \cup {NoPeer}]
         /\ \A u : \A p \in Peers : [map EXCEPT ![u] = p] \in [Urls -> Peers \cup {NoPeer}]
         /\ [u \in Urls |-> NoPeer] \in [Urls -> Peers \cup {NoPeer}]
  BY DEF TypeOK, Without

LEMMA GoesType ==
  ASSUME TypeOK, NEW c, NEW at \in {"idle", "waiting", "retry", "sending", "casting", "done"},
         NEW u \in Urls \cup {NoUrl}, NEW p \in Peers \cup {NoPeer}, Goes(c, at, u, p)
  PROVE  call' \in [Callers -> Call]
<1>1. [at |-> at, url |-> u, via |-> p] \in Call
  BY DEF Call
<1> QED BY <1>1 DEF TypeOK, Goes

LEMMA PutsType ==
  ASSUME TypeOK, NEW k \in Kind, NEW p \in Peers, Puts(k, p)
  PROVE  events' \in Seq(Event)
<1>1. [kind |-> k, peer |-> p] \in Event
  BY DEF Event
<1> QED BY <1>1 DEF TypeOK, Puts

LEMMA MovesType ==
  ASSUME TypeOK, NEW p, NEW from, NEW to \in Stage, Moves(p, from, to)
  PROVE  stage' \in [Peers -> Stage]
  BY DEF TypeOK, Moves

LEMMA StagesAre == Stage = {"none", "ended", "waiting", "preflight", "announcing",
  "receiving", "passing", "spawned", "starting", "connecting", "dropping", "failing"}
  BY DEF Stage, Guarded, Unguarded, Leaving

LEMMA RecvType ==
  ASSUME TypeOK, Recv
  PROVE  /\ events' \in Seq(Event)
         /\ told' \in [Peers -> [kind : Kind \cup {"nothing"}, n : Nat]]
<1>1. events \in Seq(Event) /\ events # << >>
  BY DEF TypeOK, Recv
<1>2. Head(events) \in Event /\ Tail(events) \in Seq(Event)
  BY <1>1
<1> DEFINE e == Head(events)
<1>3. e.kind \in Kind /\ e.peer \in Peers
  BY <1>2 DEF Event
<1>4. told[e.peer].n \in Nat
  BY <1>3 DEF TypeOK
<1>5. [kind |-> e.kind, n |-> told[e.peer].n + 1] \in [kind : Kind \cup {"nothing"}, n : Nat]
  BY <1>3, <1>4
<1>6. told' = [told EXCEPT ![e.peer] = [kind |-> e.kind, n |-> told[e.peer].n + 1]]
  BY DEF Recv
<1> HIDE DEF e
<1>7. ASSUME NEW t \in [kind : Kind \cup {"nothing"}, n : Nat],
             told' = [told EXCEPT ![e.peer] = t]
      PROVE  told' \in [Peers -> [kind : Kind \cup {"nothing"}, n : Nat]]
  BY <1>3, <1>7 DEF TypeOK
<1>8. events' \in Seq(Event)
  BY <1>2 DEF Recv
<1> QED BY <1>5, <1>6, <1>7, <1>8

-----------------------------------------------------------------------------
(* What the calls do to the type.                                          *)

LEMMA SendType ==
  ASSUME TypeOK, CallUrl, NEW s \in Senders, SendStep(s)
  PROVE  TypeOK'
<1>0. s \in Callers
  BY DEF Callers
<1>1. ASSUME NEW u \in Urls, SendToPeer(s, u) PROVE TypeOK'
  <2>1. call' \in [Callers -> Call]
    BY <1>1, GoesType DEF SendToPeer
  <2>2. map \in [Urls -> Peers \cup {NoPeer}] BY DEF TypeOK
  <2> QED BY <1>0, <1>1, <2>1, <2>2, HandlesType, HeldType DEF SendToPeer, TypeOK, eventVars
<1>2. ASSUME NEW u \in Urls, NEW p \in Peers, SendConnects(s, u, p) PROVE TypeOK'
  <2>1. call' \in [Callers -> Call]
    BY <1>2, GoesType DEF SendConnects
  <2>2. [map EXCEPT ![u] = p] \in [Urls -> Peers \cup {NoPeer}] BY MapType
  <2>3. WithCaller(s, {p}) \in [Peers -> SUBSET Callers] BY <1>0, HeldType
  <2>4. /\ map' \in [Urls -> Peers \cup {NoPeer}] /\ held' \in [Peers -> SUBSET Callers]
        /\ aborted' \in [Peers -> BOOLEAN]
    BY <1>2, <2>2, <2>3, HandlesType DEF SendConnects
  <2>5. url' \in [Peers -> Urls \cup {NoUrl}] /\ stage' \in [Peers -> Stage]
    BY <1>2, StagesAre DEF SendConnects, Makes, TypeOK
  <2> QED BY <1>2, <2>1, <2>4, <2>5 DEF SendConnects, TypeOK, eventVars
<1>3. ASSUME NEW p \in Peers, SendFindsReady(s, p) PROVE TypeOK'
  <2>1. call' \in [Callers -> Call]
    BY <1>0, <1>3, GoesType DEF SendFindsReady, Awaits, CallUrl
  <2> QED BY <1>3, <2>1 DEF SendFindsReady, TypeOK, handles, eventVars
<1>4. ASSUME NEW p \in Peers, SendFindsFailed(s, p) PROVE TypeOK'
  <2>1. call' \in [Callers -> Call]
    BY <1>0, <1>4, GoesType DEF SendFindsFailed, Awaits, CallUrl
  <2> QED BY <1>4, <2>1 DEF SendFindsFailed, TypeOK, handles, eventVars
<1>5. ASSUME Finishes(s), UNCHANGED << url, stage, ready, msgs, eventVars, open >>
      PROVE TypeOK'
  <2>1. call' \in [Callers -> Call]
    BY <1>5, GoesType DEF Finishes
  <2>2. map \in [Urls -> Peers \cup {NoPeer}] /\ WithoutCaller(s) \in [Peers -> SUBSET Callers]
    BY HeldType DEF TypeOK
  <2>3. /\ map' \in [Urls -> Peers \cup {NoPeer}] /\ held' \in [Peers -> SUBSET Callers]
        /\ aborted' \in [Peers -> BOOLEAN]
    BY <1>5, <2>2, HandlesType DEF Finishes
  <2> QED BY <1>5, <2>1, <2>3 DEF TypeOK, eventVars
<1>6. ASSUME SendRetries(s) PROVE TypeOK'
  <2> DEFINE u == call[s].url
  <2>1. u \in Urls
    BY <1>0, <1>6 DEF SendRetries, CallUrl
  <2>2. map[u] \in Peers \cup {NoPeer}
    BY <2>1 DEF TypeOK
  <2> HIDE DEF u
  <2>3. CASE Goes(s, "sending", u, map[u]) /\ UNCHANGED handles
    <3>1. call' \in [Callers -> Call]
      BY <2>1, <2>2, <2>3, GoesType
    <3> QED BY <1>6, <2>3, <3>1 DEF SendRetries, TypeOK, handles, eventVars
  <2> QED BY <1>5, <1>6, <2>3 DEF SendRetries, u
<1> QED
  BY <1>1, <1>2, <1>3, <1>4, <1>5, <1>6 DEF SendStep, SendEnds, SendTimesOut

LEMMA CastType ==
  ASSUME TypeOK, NEW c \in Casters, CastStep(c)
  PROVE  TypeOK'
<1>0. c \in Callers /\ map \in [Urls -> Peers \cup {NoPeer}]
  BY DEF Callers, TypeOK
<1>1. CASE Broadcast(c)
  <2>1. call' \in [Callers -> Call]
    BY <1>1, GoesType DEF Broadcast
  <2> QED BY <1>0, <1>1, <2>1, HandlesType, HeldType DEF Broadcast, TypeOK, eventVars
<1>2. ASSUME NEW p \in Peers, LetsGo(c, p) PROVE TypeOK'
  BY <1>0, <1>2, HandlesType, HeldType DEF LetsGo, TypeOK, eventVars
<1> QED
  BY <1>1, <1>2 DEF CastStep, CastEnds, CastTimesOut

LEMMA MapStepType ==
  ASSUME TypeOK, MapStep
  PROVE  TypeOK'
<1>0. held \in [Peers -> SUBSET Callers]
  BY DEF TypeOK
<1>1. ASSUME NEW u \in Urls, Close(u) PROVE TypeOK'
  BY <1>0, <1>1, HandlesType, MapType DEF Close, TypeOK, eventVars
<1>2. ASSUME NEW u \in Urls, NEW p \in Peers, AcceptPeer(u, p) PROVE TypeOK'
  <2>1. /\ map' \in [Urls -> Peers \cup {NoPeer}] /\ held' \in [Peers -> SUBSET Callers]
        /\ aborted' \in [Peers -> BOOLEAN]
    BY <1>0, <1>2, HandlesType, MapType DEF AcceptPeer
  <2>2. url' \in [Peers -> Urls \cup {NoUrl}] /\ stage' \in [Peers -> Stage]
    BY <1>2, StagesAre DEF AcceptPeer, Makes, TypeOK
  <2> QED BY <1>2, <2>1, <2>2 DEF AcceptPeer, TypeOK, eventVars
<1>3. CASE DropEndpoint
  <2>1. /\ map' \in [Urls -> Peers \cup {NoPeer}] /\ held' \in [Peers -> SUBSET Callers]
        /\ aborted' \in [Peers -> BOOLEAN]
    BY <1>0, <1>3, HandlesType, MapType DEF DropEndpoint, MapDropped, TypeOK, handles
  <2> QED BY <1>3, <2>1 DEF DropEndpoint, TypeOK, eventVars
<1> QED
  BY <1>1, <1>2, <1>3 DEF MapStep

-----------------------------------------------------------------------------
(* What the task of a peer does to the type.                               *)

LEMMA OnlyType ==
  ASSUME TypeOK, NEW p \in Peers, NEW from, NEW to \in Stage, Only(p, from, to)
  PROVE  TypeOK'
<1>1. stage' \in [Peers -> Stage]
  BY MovesType DEF Only
<1> QED BY <1>1 DEF Only, TypeOK, handles, eventVars

LEMMA LeavesType ==
  ASSUME TypeOK, NEW p \in Peers, NEW to \in Stage, Leaves(p, to)
  PROVE  TypeOK'
<1>1. stage' \in [Peers -> Stage]
  BY MovesType DEF Leaves
<1>2. held \in [Peers -> SUBSET Callers]
  BY DEF TypeOK
<1>3. /\ map' \in [Urls -> Peers \cup {NoPeer}] /\ held' \in [Peers -> SUBSET Callers]
      /\ aborted' \in [Peers -> BOOLEAN]
  BY <1>2, HandlesType, MapType DEF Leaves, MapDropped, handles, TypeOK
<1> QED BY <1>1, <1>3 DEF Leaves, TypeOK, eventVars

LEMMA SettlesType ==
  ASSUME TypeOK, NEW p \in Peers, NEW to \in {"ready", "failed"}, Settles(p, to)
  PROVE  ready' \in [Peers -> {"wait", "ready", "failed"}]
  BY DEF TypeOK, Settles

LEMMA PeerStepType ==
  ASSUME TypeOK, NEW p \in Peers, PeerStep(p)
  PROVE  TypeOK'
<1>1. CASE Starts(p)
  <2>1. (IF InnerAlive THEN "connecting" ELSE "dropping") \in Stage
    BY StagesAre
  <2> QED BY <1>1, <2>1, OnlyType, StagesAre DEF Starts
<1>2. CASE SignalConnects(p) \/ SignalFails(p)
  BY <1>2, LeavesType, StagesAre DEF SignalConnects, SignalFails
<1>3. CASE BecomesOpen(p) \/ WaitFails(p) \/ PreflightFails(p) \/ AnnounceTimesOut(p) \/ ConnectionEnds(p)
  BY <1>3, OnlyType, StagesAre
  DEF BecomesOpen, WaitFails, PreflightFails, AnnounceTimesOut, ConnectionEnds
<1>4. CASE PreflightPasses(p)
  <2>1. stage' \in [Peers -> Stage] /\ ready' \in [Peers -> {"wait", "ready", "failed"}]
    BY <1>4, MovesType, SettlesType, StagesAre DEF PreflightPasses
  <2> QED BY <1>4, <2>1 DEF PreflightPasses, TypeOK, handles, eventVars
<1>5. CASE Announces(p)
  <2>1. stage' \in [Peers -> Stage] /\ events' \in Seq(Event)
    BY <1>5, MovesType, PutsType, StagesAre DEF Announces, Kind
  <2> QED BY <1>5, <2>1 DEF Announces, TypeOK, handles
<1>6. CASE Receives(p)
  <2>1. stage' \in [Peers -> Stage]
    BY <1>6, MovesType, StagesAre DEF Receives
  <2>2. msgs[p] \in 0..MaxMsgs /\ msgs[p] > 0 /\ MaxMsgs \in Nat
    BY <1>6, EndpointAssumption DEF Receives, TypeOK
  <2>3. msgs[p] - 1 \in 0..MaxMsgs
    BY <2>2
  <2>4. msgs' \in [Peers -> 0..MaxMsgs]
    BY <1>6, <2>3 DEF Receives, TypeOK
  <2> QED BY <1>6, <2>1, <2>4 DEF Receives, TypeOK, handles, eventVars
<1>7. CASE PassesOn(p)
  <2>1. stage' \in [Peers -> Stage] /\ events' \in Seq(Event)
    BY <1>7, MovesType, PutsType, StagesAre DEF PassesOn, Kind
  <2> QED BY <1>7, <2>1 DEF PassesOn, TypeOK, handles
<1>8. CASE Cancels(p)
  BY <1>8, OnlyType, LeavesType, StagesAre DEF Cancels
<1>9. CASE CleansUp(p)
  <2>1. stage' \in [Peers -> Stage]
    BY <1>9, MovesType, StagesAre DEF CleansUp
  <2>2. held \in [Peers -> SUBSET Callers]
    BY DEF TypeOK
  <2>3. /\ map' \in [Urls -> Peers \cup {NoPeer}] /\ held' \in [Peers -> SUBSET Callers]
        /\ aborted' \in [Peers -> BOOLEAN]
    BY <1>9, <2>2, HandlesType, MapType DEF CleansUp, handles, TypeOK
  <2> QED BY <1>9, <2>1, <2>3 DEF CleansUp, TypeOK, eventVars
<1>10. CASE SetsFailed(p)
  <2>1. stage' \in [Peers -> Stage] /\ ready' \in [Peers -> {"wait", "ready", "failed"}]
    BY <1>10, MovesType, SettlesType, StagesAre DEF SetsFailed
  <2> QED BY <1>10, <2>1 DEF SetsFailed, TypeOK, handles
<1>11. CASE TellsEnd(p)
  <2>1. events' \in Seq(Event)
    BY <1>11, PutsType DEF TellsEnd, Kind
  <2> QED BY <1>11, <2>1 DEF TellsEnd, TypeOK, handles
<1>12. CASE TellTimesOut(p)
  BY <1>12 DEF TellTimesOut, TypeOK, handles
<1> QED
  BY <1>1, <1>2, <1>3, <1>4, <1>5, <1>6, <1>7, <1>8, <1>9, <1>10, <1>11, <1>12
  DEF PeerStep, Attempts, Says, DropsGuard, Tells

LEMMA NextType ==
  ASSUME TypeOK, CallUrl, [Next]_vars
  PROVE  TypeOK'
<1>1. CASE Recv
  BY <1>1, RecvType DEF Recv, TypeOK, handles
<1>2. CASE UNCHANGED vars
  BY <1>2 DEF vars, handles, eventVars, TypeOK
<1> QED
  BY <1>1, <1>2, SendType, CastType, MapStepType, PeerStepType DEF Next

-----------------------------------------------------------------------------
(* The invariant.  All steps but those that make a peer let go of handles, *)
(* or take one of a peer that has some, and move tasks on.                 *)

Fits(m, h) ==
  /\ HandlesBecome(m, h)
  /\ \A u \in Urls : m[u] \in {map[u], NoPeer}
  /\ \A p \in Peers : h[p] # {} => Alive(p)

Advances ==
  /\ url' = url
  /\ \A p \in Peers :
       /\ stage[p] = "none" <=> stage'[p] = "none"
       /\ ready[p] # "wait" => ready'[p] # "wait"

Forgets(m, h) ==
  \A p \in Peers : stage'[p] \in {"failing", "ended"} =>
    \/ stage'[p] = stage[p]
    \/ /\ ~InMap(m, p)
       /\ h[p] # {} => ready'[p] # "wait" \/ stage'[p] = "failing"

LEMMA MapOfPeers ==
  ASSUME TypeOK, NEW u \in Urls
  PROVE  map[u] # NoPeer => map[u] \in Peers /\ InMap(map, map[u])
  BY DEF TypeOK, InMap

LEMMA Stays ==
  ASSUME TypeOK, UNCHANGED handles
  PROVE  Fits(map, held)
<1>1. AbortedAfter(map, held) = aborted
  <2>1. \A p \in Peers : (aborted[p] \/ (Alive(p) /\ ~InMap(map, p) /\ held[p] = {})) = aborted[p]
    BY DEF TypeOK, Alive
  <2>2. aborted = [p \in Peers |-> aborted[p]]
    BY DEF TypeOK
  <2> QED BY <2>1, <2>2 DEF AbortedAfter
<1> QED BY <1>1 DEF Fits, HandlesBecome, handles, Alive

LEMMA LetsGoKeeps ==
  ASSUME EndpointInv, TypeOK', CallUrl', MapOwned', NEW m, NEW h,
         Fits(m, h), Advances, Forgets(m, h)
  PROVE  EndpointInv'
<1>1. /\ map' = m /\ held' = h
      /\ \A p \in Peers : aborted'[p] =
           (aborted[p] \/ (Alive(p) /\ ~InMap(m, p) /\ h[p] = {}))
  BY DEF Fits, HandlesBecome, AbortedAfter
<1>2. ASSUME NEW p \in Peers, InMap(m, p) PROVE InMap(map, p)
  BY <1>2, PeersNat DEF Fits, InMap
<1>3. MapUrl'
  BY <1>1 DEF MapUrl, EndpointInv, Fits, Advances
<1>4. AbortedIsGone'
  <2> SUFFICES ASSUME NEW p \in Peers, aborted'[p] PROVE ~InMap(m, p) /\ h[p] = {}
    BY <1>1 DEF AbortedIsGone, Alive
  <2>1. CASE aborted[p]
    <3>1. ~InMap(map, p) /\ ~Alive(p)
      BY <2>1 DEF EndpointInv, AbortedIsGone, Alive
    <3> QED BY <3>1, <1>2 DEF Fits
  <2> QED BY <1>1, <2>1
<1>5. Made'
  <2> SUFFICES ASSUME NEW p \in Peers
               PROVE  /\ (url[p] = NoUrl <=> stage'[p] = "none")
                      /\ url[p] = NoUrl => h[p] = {} /\ ~aborted'[p]
    BY <1>1 DEF Made, Advances
  <2>1. url[p] = NoUrl => ~InMap(map, p)
    BY PeersNat DEF EndpointInv, MapUrl, InMap
  <2> QED BY <1>1, <2>1 DEF EndpointInv, Made, Advances, Fits, Alive
<1>6. EndedIsForgotten'
  <2> SUFFICES ASSUME NEW p \in Peers, stage'[p] \in {"failing", "ended"}
               PROVE  /\ ~InMap(m, p)
                      /\ h[p] # {} => ready'[p] # "wait" \/ stage'[p] = "failing"
    BY <1>1 DEF EndedIsForgotten
  <2>1. CASE stage'[p] = stage[p]
    <3>1. ~InMap(map, p) /\ (held[p] # {} => ready[p] # "wait" \/ stage[p] = "failing")
      BY <2>1 DEF EndpointInv, EndedIsForgotten
    <3> QED BY <1>2, <2>1, <3>1 DEF Fits, Alive, Advances
  <2> QED BY <2>1 DEF Forgets
<1> QED BY <1>3, <1>4, <1>5, <1>6 DEF EndpointInv

LEMMA MakesKeeps ==
  ASSUME EndpointInv, TypeOK', CallUrl', InnerAlive,
         NEW u \in Urls, NEW p \in Peers, NEW first \in {"starting", "spawned"}, NEW h,
         Makes(p, u, first), HandlesBecome([map EXCEPT ![u] = p], h), map[u] = NoPeer,
         \A q \in Peers : q # p => h[q] = held[q],
         UNCHANGED << ready, open >>
  PROVE  EndpointInv'
<1>1. /\ url[p] = NoUrl /\ stage[p] = "none" /\ ~aborted[p]
      /\ url \in [Peers -> Urls \cup {NoUrl}] /\ stage \in [Peers -> Stage]
      /\ map \in [Urls -> Peers \cup {NoPeer}]
  BY DEF Makes, IsNext, EndpointInv, Made, TypeOK
<1>2. /\ url' = [url EXCEPT ![p] = u] /\ stage' = [stage EXCEPT ![p] = first]
      /\ map' = [map EXCEPT ![u] = p] /\ held' = h
      /\ \A q \in Peers : aborted'[q] =
           (aborted[q] \/ (Alive(q) /\ ~InMap(map', q) /\ h[q] = {}))
  BY DEF Makes, HandlesBecome, AbortedAfter
<1>3. \A q \in Peers : q # p => (InMap(map', q) <=> InMap(map, q))
  BY <1>1, <1>2, PeersNat DEF InMap
<1>4. InMap(map', p)
  BY <1>1, <1>2 DEF InMap
<1>5. MapUrl'
  <2>1. ASSUME NEW v \in Urls, v # u, map[v] # NoPeer PROVE map[v] # p
    BY <1>1, <2>1, PeersNat DEF EndpointInv, MapUrl
  <2> QED BY <1>1, <1>2, <2>1 DEF EndpointInv, MapUrl
<1>6. ASSUME NEW q \in Peers PROVE (aborted'[q] => aborted[q] /\ q # p) \/ (q # p /\ ~InMap(map', q) /\ h[q] = {})
  BY <1>1, <1>2, <1>4
<1>7. AbortedIsGone'
  <2> SUFFICES ASSUME NEW q \in Peers, aborted'[q] PROVE ~InMap(map', q) /\ h[q] = {}
    BY <1>2 DEF AbortedIsGone, Alive
  <2>1. CASE aborted[q] /\ q # p
    BY <1>3, <2>1 DEF EndpointInv, AbortedIsGone, Alive
  <2> QED BY <1>6, <2>1
<1>8. Made'
  <2> SUFFICES ASSUME NEW q \in Peers
               PROVE  /\ (url'[q] = NoUrl <=> stage'[q] = "none")
                      /\ url'[q] = NoUrl => h[q] = {} /\ ~aborted'[q]
    BY <1>2 DEF Made
  <2>1. CASE q = p
    BY <1>1, <1>2, <2>1, PeersNat
  <2>2. CASE q # p
    <3>1. url'[q] = url[q] /\ stage'[q] = stage[q] /\ h[q] = held[q]
      BY <1>1, <1>2, <2>2
    <3>2. url[q] = NoUrl => held[q] = {} /\ ~aborted[q] /\ ~InMap(map, q)
      BY PeersNat DEF EndpointInv, Made, MapUrl, InMap
    <3> QED BY <1>2, <3>1, <3>2 DEF EndpointInv, Made, Alive
  <2> QED BY <2>1, <2>2
<1>9. EndedIsForgotten'
  <2> SUFFICES ASSUME NEW q \in Peers, stage'[q] \in {"failing", "ended"}
               PROVE  /\ ~InMap(map', q)
                      /\ h[q] # {} => ready'[q] # "wait" \/ stage'[q] = "failing"
    BY <1>2 DEF EndedIsForgotten
  <2>1. q # p /\ stage'[q] = stage[q]
    BY <1>1, <1>2
  <2> QED BY <1>3, <2>1 DEF EndpointInv, EndedIsForgotten
<1>10. MapOwned'
  <2>1. \A q \in Connecting : q \in Connecting'
    BY <1>1, <1>2 DEF Connecting
  <2> QED BY <2>1 DEF MapOwned, InnerAlive
<1> QED BY <1>5, <1>7, <1>8, <1>9, <1>10 DEF EndpointInv

LEMMA CallUrlKept ==
  ASSUME TypeOK, CallUrl, [Next]_vars
  PROVE  CallUrl'
<1>1. ASSUME NEW c \in Callers, NEW at, NEW u, NEW p, Goes(c, at, u, p),
             at \in {"waiting", "retry"} => u \in Urls
      PROVE  CallUrl'
  BY <1>1 DEF CallUrl, Goes, TypeOK
<1>2. ASSUME NEW s \in Senders, SendStep(s) PROVE CallUrl'
  <2>1. s \in Callers
    BY DEF Callers
  <2>2. CASE \E u \in Urls : SendToPeer(s, u) \/ \E p \in Peers : SendConnects(s, u, p)
    BY <1>1, <2>1, <2>2 DEF SendToPeer, SendConnects
  <2>3. CASE \E p \in Peers : SendFindsReady(s, p) \/ SendFindsFailed(s, p)
    BY <1>1, <2>1, <2>3 DEF SendFindsReady, SendFindsFailed, Awaits, CallUrl
  <2>4. CASE SendRetries(s) \/ SendEnds(s) \/ SendTimesOut(s)
    BY <1>1, <2>1, <2>4 DEF SendRetries, SendEnds, SendTimesOut, Finishes
  <2> QED BY <1>2, <2>2, <2>3, <2>4 DEF SendStep
<1>3. ASSUME NEW c \in Casters, CastStep(c) PROVE CallUrl'
  <2>1. c \in Callers
    BY DEF Callers
  <2>2. CASE Broadcast(c)
    BY <1>1, <2>1, <2>2 DEF Broadcast
  <2>3. CASE call' = call
    BY <2>3 DEF CallUrl
  <2> QED BY <1>3, <2>2, <2>3 DEF CastStep, CastEnds, CastTimesOut, LetsGo
<1>4. CASE call' = call
  BY <1>4 DEF CallUrl
<1>5. ASSUME NEW p \in Peers, PeerStep(p) PROVE call' = call
  BY <1>5 DEF PeerStep, Starts, Attempts, Says, DropsGuard, Tells, Only, Leaves,
     SignalConnects, SignalFails, BecomesOpen, WaitFails, PreflightPasses, PreflightFails,
     Announces, AnnounceTimesOut, Receives, PassesOn, ConnectionEnds, Cancels,
     CleansUp, SetsFailed, TellsEnd, TellTimesOut
<1> QED
  BY <1>2, <1>3, <1>4, <1>5
  DEF Next, MapStep, Close, AcceptPeer, DropEndpoint, Recv, vars

(* Who owns the map.                                                       *)

LEMMA OwnersSame ==
  ASSUME EndpointInv, UNCHANGED << stage, open >>,
         \A u \in Urls : map'[u] \in {map[u], NoPeer}
  PROVE  MapOwned'
  BY DEF EndpointInv, MapOwned, InnerAlive, Connecting

LEMMA OwnersMove ==
  ASSUME EndpointInv, NEW p \in Peers, NEW from, NEW to, from # "connecting",
         Moves(p, from, to), UNCHANGED open,
         \A u \in Urls : map'[u] \in {map[u], NoPeer}
  PROVE  MapOwned'
<1>1. \A q \in Connecting : q \in Connecting'
  BY DEF Connecting, Moves, EndpointInv, TypeOK
<1> QED BY <1>1 DEF EndpointInv, MapOwned, InnerAlive

LEMMA OnlyKeeps ==
  ASSUME EndpointInv, TypeOK', CallUrl', NEW p \in Peers, NEW from, NEW to,
         Moves(p, from, to), from \notin {"none", "connecting"},
         to \notin {"none", "failing", "ended"}, UNCHANGED << handles, url, open >>,
         \A q \in Peers : ready[q] # "wait" => ready'[q] # "wait"
  PROVE  EndpointInv'
<1>1. Fits(map, held)
  BY Stays DEF EndpointInv
<1>2. MapOwned'
  BY OwnersMove DEF handles
<1>3. stage' = [stage EXCEPT ![p] = to] /\ stage[p] = from /\ stage \in [Peers -> Stage]
  BY DEF Moves, EndpointInv, TypeOK
<1>4. Advances
  BY <1>3 DEF Advances
<1>5. Forgets(map, held)
  BY <1>3 DEF Forgets
<1> QED BY <1>1, <1>2, <1>4, <1>5, LetsGoKeeps

LEMMA LeavesKeeps ==
  ASSUME EndpointInv, TypeOK', CallUrl', NEW p \in Peers,
         NEW to \in {"waiting", "dropping", "ended"}, Leaves(p, to),
         to = "ended" => aborted[p]
  PROVE  EndpointInv'
<1>1. stage' = [stage EXCEPT ![p] = to] /\ stage[p] = "connecting" /\ stage \in [Peers -> Stage]
  BY DEF Leaves, Moves, EndpointInv, TypeOK
<1>2. Advances
  BY <1>1 DEF Advances, Leaves
<1>3. aborted[p] => ~InMap(map, p) /\ held[p] = {}
  BY DEF EndpointInv, AbortedIsGone, Alive
<1>4. CASE open \/ Connecting # {p}
  <2>1. UNCHANGED handles
    BY <1>4 DEF Leaves
  <2>2. Fits(map, held)
    BY <2>1, Stays DEF EndpointInv
  <2>3. Forgets(map, held)
    BY <1>1, <1>3 DEF Forgets
  <2>4. InnerAlive'
    <3>1. CASE open
      BY <3>1 DEF Leaves, InnerAlive
    <3>2. CASE Connecting # {p}
      <4>1. PICK q \in Connecting : q # p
        BY <1>1, <3>2 DEF Connecting
      <4>2. q \in Connecting'
        BY <1>1, <4>1 DEF Connecting
      <4> QED BY <4>2 DEF InnerAlive
    <3> QED BY <1>4, <3>1, <3>2
  <2>5. MapOwned'
    BY <2>4 DEF MapOwned
  <2> QED BY <1>2, <2>2, <2>3, <2>5, LetsGoKeeps
<1>5. CASE ~(open \/ Connecting # {p})
  <2> DEFINE m == [u \in Urls |-> NoPeer]
  <2>1. HandlesBecome(m, held)
    BY <1>5 DEF Leaves, MapDropped
  <2>2. Fits(m, held)
    BY <2>1 DEF Fits, Alive
  <2>3. \A q \in Peers : ~InMap(m, q)
    BY PeersNat DEF InMap
  <2>4. Forgets(m, held)
    BY <1>1, <1>3, <2>3 DEF Forgets
  <2>5. MapOwned'
    BY <2>1 DEF MapOwned, HandlesBecome
  <2> QED BY <1>2, <2>2, <2>4, <2>5, LetsGoKeeps
<1> QED BY <1>4, <1>5

LEMMA HandlesKeep ==
  ASSUME EndpointInv, TypeOK', CallUrl', NEW m, NEW h, Fits(m, h),
         UNCHANGED << url, stage, ready, open >>
  PROVE  EndpointInv'
<1>1. Advances /\ Forgets(m, h)
  BY DEF Advances, Forgets
<1>2. MapOwned'
  BY OwnersSame DEF Fits, HandlesBecome
<1> QED BY <1>1, <1>2, LetsGoKeeps

LEMMA SendKeeps ==
  ASSUME EndpointInv, TypeOK', CallUrl', NEW s \in Senders, SendStep(s)
  PROVE  EndpointInv'
<1>0. s \in Callers /\ TypeOK
  BY DEF Callers, EndpointInv
<1>1. ASSUME NEW u \in Urls, SendToPeer(s, u) PROVE EndpointInv'
  <2>1. Alive(map[u])
    BY <1>1, <1>0, MapOfPeers DEF SendToPeer, Alive
  <2>2. Fits(map, WithCaller(s, {map[u]}))
    BY <1>1, <2>1 DEF SendToPeer, Fits, WithCaller, Alive
  <2> QED BY <1>1, <2>2, HandlesKeep DEF SendToPeer
<1>2. ASSUME NEW u \in Urls, NEW p \in Peers, SendConnects(s, u, p) PROVE EndpointInv'
  <2>1. \A q \in Peers : q # p => WithCaller(s, {p})[q] = held[q]
    BY DEF WithCaller
  <2>2. /\ Makes(p, u, "starting") /\ map[u] = NoPeer /\ InnerAlive
        /\ HandlesBecome([map EXCEPT ![u] = p], WithCaller(s, {p}))
        /\ UNCHANGED << ready, open >>
    BY <1>2 DEF SendConnects, InnerAlive
  <2> QED BY <2>1, <2>2, MakesKeeps
<1>3. ASSUME UNCHANGED << handles, url, stage, ready, open >> PROVE EndpointInv'
  BY <1>0, <1>3, Stays, HandlesKeep
<1>4. ASSUME Finishes(s), UNCHANGED << url, stage, ready, msgs, eventVars, open >>
      PROVE EndpointInv'
  <2>1. Fits(map, WithoutCaller(s))
    BY <1>4 DEF Finishes, Fits, WithoutCaller, Alive
  <2> QED BY <1>4, <2>1, HandlesKeep
<1> QED
  BY <1>1, <1>2, <1>3, <1>4
  DEF SendStep, SendFindsReady, SendFindsFailed, SendRetries, SendEnds, SendTimesOut

LEMMA CastKeeps ==
  ASSUME EndpointInv, TypeOK', CallUrl', NEW c \in Casters, CastStep(c)
  PROVE  EndpointInv'
<1>0. TypeOK
  BY DEF EndpointInv
<1>1. CASE Broadcast(c)
  <2> DEFINE ps == {map[u] : u \in Urls} \ {NoPeer}
  <2>1. \A p \in Peers : p \in ps => Alive(p)
    BY DEF Alive, InMap
  <2>2. Fits(map, WithCaller(c, ps))
    BY <1>1, <2>1 DEF Broadcast, Fits, WithCaller, Alive
  <2> QED BY <1>1, <2>2, HandlesKeep DEF Broadcast
<1>2. ASSUME NEW p \in Peers, LetsGo(c, p) PROVE EndpointInv'
  <2>1. Fits(map, [held EXCEPT ![p] = @ \ {c}])
    BY <1>0, <1>2 DEF LetsGo, Fits, Alive, TypeOK
  <2> QED BY <1>2, <2>1, HandlesKeep DEF LetsGo
<1> QED BY <1>1, <1>2 DEF CastStep, CastEnds, CastTimesOut

LEMMA MapStepKeeps ==
  ASSUME EndpointInv, TypeOK', CallUrl', MapStep
  PROVE  EndpointInv'
<1>0. TypeOK
  BY DEF EndpointInv
<1>1. ASSUME NEW u \in Urls, Close(u) PROVE EndpointInv'
  <2>1. Fits(Without(u), held)
    BY <1>0, <1>1 DEF Close, Fits, Without, Alive, TypeOK
  <2> QED BY <1>1, <2>1, HandlesKeep DEF Close
<1>2. ASSUME NEW u \in Urls, NEW p \in Peers, AcceptPeer(u, p) PROVE EndpointInv'
  BY <1>2, MakesKeeps DEF AcceptPeer
<1>3. CASE DropEndpoint
  <2>1. UNCHANGED << url, stage, ready >>
    BY <1>3 DEF DropEndpoint
  <2>2. CASE Connecting = {}
    <3> DEFINE m == [u \in Urls |-> NoPeer]
    <3>1. HandlesBecome(m, held)
      BY <1>3, <2>2 DEF DropEndpoint, MapDropped
    <3>2. Fits(m, held)
      BY <3>1 DEF Fits, Alive
    <3>3. MapOwned'
      BY <3>1 DEF MapOwned, HandlesBecome
    <3>4. Advances /\ Forgets(m, held)
      BY <2>1 DEF Advances, Forgets
    <3> QED BY <3>2, <3>3, <3>4, LetsGoKeeps
  <2>3. CASE Connecting # {}
    <3>1. Fits(map, held)
      BY <1>0, <1>3, <2>3, Stays DEF DropEndpoint
    <3>2. MapOwned'
      BY <2>1, <2>3 DEF MapOwned, InnerAlive, Connecting
    <3>3. Advances /\ Forgets(map, held)
      BY <2>1 DEF Advances, Forgets
    <3> QED BY <3>1, <3>2, <3>3, LetsGoKeeps
  <2> QED BY <2>2, <2>3
<1> QED BY <1>1, <1>2, <1>3 DEF MapStep

LEMMA EndKeeps ==
  ASSUME EndpointInv, TypeOK', CallUrl', NEW p \in Peers, NEW from,
         Only(p, from, "ended"), from \notin {"none", "connecting"}, aborted[p]
  PROVE  EndpointInv'
<1>1. Fits(map, held)
  BY Stays DEF EndpointInv, Only
<1>2. MapOwned'
  BY OwnersMove DEF handles, Only
<1>3. stage' = [stage EXCEPT ![p] = "ended"] /\ stage[p] = from /\ stage \in [Peers -> Stage]
  BY DEF Only, Moves, EndpointInv, TypeOK
<1>4. Advances
  BY <1>3 DEF Advances, Only
<1>5. ~InMap(map, p) /\ held[p] = {}
  BY DEF EndpointInv, AbortedIsGone, Alive
<1>6. Forgets(map, held)
  BY <1>3, <1>5 DEF Forgets
<1> QED BY <1>1, <1>2, <1>4, <1>6, LetsGoKeeps

LEMMA CancelsKeeps ==
  ASSUME EndpointInv, TypeOK', CallUrl', NEW p \in Peers, Cancels(p)
  PROVE  EndpointInv'
<1>1. aborted[p]
  BY DEF Cancels
<1>2. CASE stage[p] \in Unguarded \ {"connecting"} /\ Only(p, stage[p], "ended")
  BY <1>1, <1>2, EndKeeps DEF Unguarded
<1>3. CASE Leaves(p, "ended")
  BY <1>1, <1>3, LeavesKeeps
<1>4. CASE stage[p] \in Guarded /\ Only(p, stage[p], "dropping")
  <2>1. stage[p] \notin {"none", "connecting"}
    BY <1>4 DEF Guarded
  <2> QED BY <1>4, <2>1, OnlyKeeps DEF Only
<1> QED BY <1>2, <1>3, <1>4 DEF Cancels

LEMMA DropsGuardKeeps ==
  ASSUME EndpointInv, TypeOK', CallUrl', NEW p \in Peers, DropsGuard(p)
  PROVE  EndpointInv'
<1>0. TypeOK
  BY DEF EndpointInv
<1>1. CASE CleansUp(p)
  <2>1. stage' = [stage EXCEPT ![p] = "failing"] /\ stage[p] = "dropping" /\ stage \in [Peers -> Stage]
    BY <1>0, <1>1 DEF CleansUp, Moves, TypeOK
  <2>2. Advances
    BY <1>1, <2>1 DEF CleansUp, Advances
  <2>3. \A u \in Urls : map[u] = p => u = url[p]
    BY PeersNat DEF EndpointInv, MapUrl
  <2>4. PICK m : Fits(m, held) /\ ~InMap(m, p)
    <3>1. CASE InnerAlive
      <4>1. HandlesBecome(Without(url[p]), held)
        BY <1>1, <3>1 DEF CleansUp
      <4>2. Fits(Without(url[p]), held)
        BY <1>0, <4>1 DEF Fits, Without, Alive, TypeOK
      <4>3. ~InMap(Without(url[p]), p)
        BY <1>0, <2>3, PeersNat DEF InMap, Without, TypeOK
      <4> QED BY <4>2, <4>3
    <3>2. CASE ~InnerAlive
      <4>1. Fits(map, held)
        BY <1>0, <1>1, <3>2, Stays DEF CleansUp
      <4>2. ~InMap(map, p)
        BY <3>2, PeersNat DEF EndpointInv, MapOwned, InMap
      <4> QED BY <4>1, <4>2
    <3> QED BY <3>1, <3>2
  <2>5. Forgets(m, held)
    BY <2>1, <2>4 DEF Forgets
  <2>6. MapOwned'
    BY <1>1, <2>4, OwnersMove DEF CleansUp, Fits, HandlesBecome
  <2> QED BY <2>2, <2>4, <2>5, <2>6, LetsGoKeeps
<1>2. CASE SetsFailed(p)
  <2>1. stage' = [stage EXCEPT ![p] = "ended"] /\ stage[p] = "failing" /\ stage \in [Peers -> Stage]
    BY <1>0, <1>2 DEF SetsFailed, Moves, TypeOK
  <2>2. ready'[p] # "wait" /\ \A q \in Peers : ready[q] # "wait" => ready'[q] # "wait"
    BY <1>0, <1>2 DEF SetsFailed, Settles, TypeOK
  <2>3. Advances
    BY <1>2, <2>1, <2>2 DEF SetsFailed, Advances
  <2>4. Fits(map, held)
    BY <1>0, <1>2, Stays DEF SetsFailed
  <2>5. ~InMap(map, p)
    BY <2>1 DEF EndpointInv, EndedIsForgotten
  <2>6. Forgets(map, held)
    BY <2>1, <2>2, <2>5 DEF Forgets
  <2>7. MapOwned'
    BY <1>2, OwnersMove DEF SetsFailed, handles
  <2> QED BY <2>3, <2>4, <2>6, <2>7, LetsGoKeeps
<1> QED BY <1>1, <1>2 DEF DropsGuard

LEMMA PeerStepKeeps ==
  ASSUME EndpointInv, TypeOK', CallUrl', NEW p \in Peers, PeerStep(p)
  PROVE  EndpointInv'
<1>0. TypeOK
  BY DEF EndpointInv
<1>1. CASE Only(p, "spawned", "waiting")
  BY <1>1, OnlyKeeps DEF Only
<1>2. CASE Only(p, "starting", IF InnerAlive THEN "connecting" ELSE "dropping")
  BY <1>2, OnlyKeeps DEF Only
<1>3. CASE SignalConnects(p) \/ SignalFails(p)
  BY <1>3, LeavesKeeps DEF SignalConnects, SignalFails
<1>4. CASE BecomesOpen(p) \/ WaitFails(p) \/ PreflightFails(p) \/ AnnounceTimesOut(p) \/ ConnectionEnds(p)
  BY <1>4, OnlyKeeps DEF BecomesOpen, WaitFails, PreflightFails, AnnounceTimesOut, ConnectionEnds, Only
<1>5. CASE PreflightPasses(p)
  <2>1. \A q \in Peers : ready[q] # "wait" => ready'[q] # "wait"
    BY <1>0, <1>5 DEF PreflightPasses, Settles, TypeOK
  <2> QED BY <1>5, <2>1, OnlyKeeps DEF PreflightPasses
<1>6. CASE Announces(p) \/ Receives(p) \/ PassesOn(p)
  BY <1>6, OnlyKeeps DEF Announces, Receives, PassesOn
<1>7. CASE Tells(p)
  BY <1>0, <1>7, Stays, HandlesKeep DEF Tells, TellsEnd, TellTimesOut
<1> QED
  BY <1>1, <1>2, <1>3, <1>4, <1>5, <1>6, <1>7, CancelsKeeps, DropsGuardKeeps
  DEF PeerStep, Starts, Attempts, Says

LEMMA EndpointInvInit == Init => EndpointInv
<1> SUFFICES ASSUME Init PROVE EndpointInv
  OBVIOUS
<1>1. TypeOK
  <2>1. 0 \in 0..MaxMsgs /\ MaxMsgs \in 0..MaxMsgs
    BY EndpointAssumption
  <2>2. [at |-> "idle", url |-> NoUrl, via |-> NoPeer] \in Call
    BY DEF Call
  <2>3. [kind |-> "nothing", n |-> 0] \in [kind : Kind \cup {"nothing"}, n : Nat]
    OBVIOUS
  <2> QED BY <2>1, <2>2, <2>3, StagesAre DEF Init, TypeOK
<1>2. \A p \in Peers : ~InMap(map, p)
  BY PeersNat DEF Init, InMap
<1> QED
  BY <1>1, <1>2
  DEF Init, EndpointInv, CallUrl, MapUrl, Made, AbortedIsGone, MapOwned, EndedIsForgotten, Alive

LEMMA EndpointInvNext == EndpointInv /\ [Next]_vars => EndpointInv'
<1> SUFFICES ASSUME EndpointInv, [Next]_vars PROVE EndpointInv'
  OBVIOUS
<1>0. TypeOK /\ TypeOK' /\ CallUrl'
  BY NextType, CallUrlKept DEF EndpointInv
<1>1. CASE Recv \/ UNCHANGED vars
  BY <1>0, <1>1, Stays, HandlesKeep DEF Recv, vars
<1> QED
  BY <1>0, <1>1, SendKeeps, CastKeeps, MapStepKeeps, PeerStepKeeps DEF Next

(* The handles and stages of the peers fit each other in every state.      *)
THEOREM EndpointInvHolds == Spec => []EndpointInv
  BY EndpointInvInit, EndpointInvNext, PTL DEF Spec

(* The state of the endpoint is well typed.                                *)
THEOREM EndpointTypeOK == Spec => []TypeOK
<1>1. EndpointInv => TypeOK
  BY DEF EndpointInv
<1> QED BY <1>1, EndpointInvHolds, PTL

(* A peer whose guard has run is in no map, whoever drops or takes handles *)
(* while the guard runs, and leaves nobody waiting.                        *)
THEOREM EndedPeersForgotten == Spec => []EndedIsForgotten
<1>1. EndpointInv => EndedIsForgotten
  BY DEF EndpointInv
<1> QED BY <1>1, EndpointInvHolds, PTL

-----------------------------------------------------------------------------
(* The events of a peer.  What is queued agrees with what was told, with   *)
(* the stage of the task and with the detached task: nothing of a peer is  *)
(* queued before its announcement, which is the first, and nothing is      *)
(* behind a Disconnected, in the queue or still to come.                   *)

Early == {"none", "waiting", "preflight", "announcing"} \cup Unguarded

Queued(i) ==
  LET p == events[i].peer IN
    /\ told[p].kind # "Disconnected"
    /\ stage[p] \notin Early
    /\ \A j \in 1..(i - 1) : events[j].peer = p => events[j].kind # "Disconnected"
    /\ events[i].kind = "Connected" =>
         told[p] = EventOrder!Nothing /\ \A j \in 1..(i - 1) : events[j].peer # p
    /\ events[i].kind = "Disconnected" => stage[p] = "ended" /\ p \notin late

Told(p) ==
  /\ stage[p] \in Early => told[p] = EventOrder!Nothing
  /\ told[p].kind = "Disconnected" => stage[p] = "ended" /\ p \notin late
  /\ p \in late => stage[p] = "ended"

QueueInv ==
  /\ \A i \in 1..Len(events) : Queued(i)
  /\ \A p \in Peers : Told(p)

LEMMA QueuedEvent ==
  ASSUME TypeOK, NEW i \in 1..Len(events)
  PROVE  events[i] \in Event /\ events[i].peer \in Peers /\ events[i].kind \in Kind
<1>1. events[i] \in Event
  BY DEF TypeOK
<1> QED BY <1>1 DEF Event

(* Steps that leave the queue alone and move tasks on.                     *)
MovesOn ==
  \A p \in Peers : /\ stage'[p] \in Early => stage[p] \in Early
                   /\ stage[p] = "ended" => stage'[p] = "ended"

LEMMA QueueStays ==
  ASSUME TypeOK, QueueInv, MovesOn, UNCHANGED << events, told >>,
         \A p \in late' : p \in late \/ (stage[p] = "failing" /\ stage'[p] = "ended")
  PROVE  QueueInv'
<1>1. ASSUME NEW i \in 1..Len(events) PROVE Queued(i)'
  BY <1>1, QueuedEvent DEF Queued, QueueInv, MovesOn
<1>2. ASSUME NEW p \in Peers PROVE Told(p)'
  BY <1>2 DEF Told, QueueInv, MovesOn
<1> QED BY <1>1, <1>2 DEF QueueInv

(* Steps that put an event of p at the end of the queue.                   *)
LEMMA QueueGrows ==
  ASSUME TypeOK, QueueInv, MovesOn, NEW p \in Peers, NEW k \in Kind, Puts(k, p),
         UNCHANGED told, late' \subseteq late, stage'[p] \notin Early,
         told[p].kind # "Disconnected",
         \A i \in 1..Len(events) : events[i].peer = p => events[i].kind # "Disconnected",
         k = "Connected" => /\ told[p] = EventOrder!Nothing
                            /\ \A i \in 1..Len(events) : events[i].peer # p,
         k = "Disconnected" => stage'[p] = "ended" /\ p \notin late'
  PROVE  QueueInv'
<1> DEFINE e == [kind |-> k, peer |-> p]
<1>1. /\ events \in Seq(Event) /\ e \in Event /\ events' = Append(events, e)
      /\ e.kind = k /\ e.peer = p
  BY DEF TypeOK, Event, Puts
<1> HIDE DEF e
<1>2. PICK n \in Nat :
        /\ n = Len(events) /\ Len(events') = n + 1 /\ events'[n + 1] = e
        /\ \A i \in 1..n : events'[i] = events[i]
  BY <1>1
<1>3. ASSUME NEW i \in 1..n PROVE Queued(i)'
  <2>1. events[i].peer \in Peers /\ Queued(i) /\ i \in 1..Len(events)
    BY <1>2, QueuedEvent DEF QueueInv
  <2>2. events'[i] = events[i] /\ \A j \in 1..(i - 1) : events'[j] = events[j]
    BY <1>2
  <2> QED BY <2>1, <2>2 DEF Queued, MovesOn
<1>4. Queued(n + 1)'
  <2>1. (n + 1) - 1 = n
    BY <1>2
  <2>2. \A j \in 1..n : events'[j].peer = p => events'[j].kind # "Disconnected"
    BY <1>2
  <2>3. k = "Connected" => \A j \in 1..n : events'[j].peer # p
    BY <1>2
  <2> QED BY <1>1, <1>2, <2>1, <2>2, <2>3 DEF Queued
<1>5. \A i \in 1..(n + 1) : i = n + 1 \/ i \in 1..n
  BY <1>2
<1>6. ASSUME NEW q \in Peers PROVE Told(q)'
  BY DEF Told, QueueInv, MovesOn
<1> QED BY <1>2, <1>3, <1>4, <1>5, <1>6 DEF QueueInv

LEMMA RecvIs ==
  ASSUME TypeOK, QueueInv, Recv
  PROVE  \E p \in Peers, k \in Kind :
           /\ events[1].peer = p /\ events[1].kind = k
           /\ EventOrder!Tells(p, k)
           /\ told[p].kind # "Disconnected"
           /\ k = "Connected" => told[p] = EventOrder!Nothing
           /\ stage[p] \notin Early
           /\ k = "Disconnected" => stage[p] = "ended" /\ p \notin late
<1>1. events \in Seq(Event) /\ Len(events) \in Nat /\ 1 \in 1..Len(events)
  BY DEF TypeOK, Recv
<1>2. Head(events) = events[1] /\ events[1].peer \in Peers /\ events[1].kind \in Kind
  BY <1>1, QueuedEvent
<1>3. EventOrder!Tells(events[1].peer, events[1].kind)
  BY <1>2 DEF Recv, EventOrder!Tells
<1>4. Queued(1)
  BY <1>1 DEF QueueInv
<1> QED BY <1>2, <1>3, <1>4 DEF Queued

LEMMA QueueShrinks ==
  ASSUME TypeOK, QueueInv, Recv
  PROVE  QueueInv'
<1>1. PICK p \in Peers, k \in Kind :
           /\ events[1].peer = p /\ events[1].kind = k
           /\ EventOrder!Tells(p, k)
           /\ told[p].kind # "Disconnected"
           /\ k = "Connected" => told[p] = EventOrder!Nothing
           /\ stage[p] \notin Early
           /\ k = "Disconnected" => stage[p] = "ended" /\ p \notin late
  BY RecvIs
<1>2. /\ told'[p].kind = k
      /\ \A q \in Peers : q # p => told'[q] = told[q]
  BY <1>1 DEF EventOrder!Tells, TypeOK
<1>3. UNCHANGED << stage, late >> /\ events' = Tail(events)
  BY DEF Recv
<1> DEFINE n == Len(events)
<1>4. /\ n \in Nat /\ n > 0 /\ Len(events') = n - 1
      /\ \A i \in 1..(n - 1) : events'[i] = events[i + 1]
  BY <1>3 DEF TypeOK, Recv
<1>5. \A i \in 1..n : events[i].peer \in Peers /\ Queued(i)
  BY QueuedEvent DEF QueueInv
<1> HIDE DEF n
<1>6. ASSUME NEW i \in 1..(n - 1) PROVE Queued(i)'
  <2> DEFINE e == events[i + 1]
  <2>1. /\ i + 1 \in 1..n /\ (i + 1) - 1 = i /\ 1 \in 1..i
        /\ \A j \in 1..(i - 1) : j + 1 \in 1..i /\ j \in 1..(n - 1)
    BY <1>4
  <2>2. /\ e.peer \in Peers /\ told[e.peer].kind # "Disconnected" /\ stage[e.peer] \notin Early
        /\ \A j \in 1..i : events[j].peer = e.peer => events[j].kind # "Disconnected"
        /\ e.kind = "Connected" =>
             told[e.peer] = EventOrder!Nothing /\ \A j \in 1..i : events[j].peer # e.peer
        /\ e.kind = "Disconnected" => stage[e.peer] = "ended" /\ e.peer \notin late
    BY <1>5, <2>1 DEF Queued
  <2>3. events'[i] = e
    BY <1>4
  <2>4. \A j \in 1..(i - 1) : events'[j] = events[j + 1]
    BY <1>4, <2>1
  <2> HIDE DEF e
  <2>5. \A j \in 1..(i - 1) : events'[j].peer = e.peer => events'[j].kind # "Disconnected"
    BY <2>1, <2>2, <2>4
  <2>6. e.kind = "Connected" => \A j \in 1..(i - 1) : events'[j].peer # e.peer
    BY <2>1, <2>2, <2>4
  <2>7. told'[e.peer].kind # "Disconnected"
    BY <1>1, <1>2, <2>1, <2>2
  <2>8. e.kind = "Connected" => told'[e.peer] = EventOrder!Nothing
    BY <1>1, <1>2, <2>1, <2>2
  <2> QED BY <1>3, <2>2, <2>3, <2>5, <2>6, <2>7, <2>8 DEF Queued
<1>7. ASSUME NEW q \in Peers PROVE Told(q)'
  BY <1>1, <1>2, <1>3 DEF Told, QueueInv
<1> QED BY <1>4, <1>6, <1>7 DEF QueueInv

LEMMA QueueInvInit == Init => QueueInv
  BY DEF Init, QueueInv, Told, EventOrder!Nothing

(* One step of a task.                                                     *)
LEMMA TaskMoves ==
  ASSUME TypeOK, NEW p \in Peers, NEW from \in Stage, NEW to \in Stage, Moves(p, from, to),
         to \in Early => from \in Early, from # "ended"
  PROVE  MovesOn
  BY DEF MovesOn, Moves, TypeOK

LEMMA EarlyIs == Early = {"none", "waiting", "preflight", "announcing",
                          "spawned", "starting", "connecting"}
  BY DEF Early, Unguarded

LEMMA PeerStepQueue ==
  ASSUME TypeOK, QueueInv, NEW p \in Peers, PeerStep(p)
  PROVE  QueueInv'
<1>1. ASSUME NEW from \in Stage, NEW to \in Stage, Moves(p, from, to),
             UNCHANGED eventVars, to \in Early => from \in Early, from # "ended"
      PROVE  QueueInv'
  BY <1>1, TaskMoves, QueueStays DEF eventVars
<1>2. CASE Starts(p)
  BY <1>1, <1>2, StagesAre, EarlyIs DEF Starts, Only
<1>3. CASE Attempts(p)
  BY <1>1, <1>3, StagesAre, EarlyIs
  DEF Attempts, SignalConnects, SignalFails, BecomesOpen, WaitFails, PreflightPasses,
      PreflightFails, Only, Leaves
<1>4. CASE AnnounceTimesOut(p) \/ Receives(p) \/ ConnectionEnds(p) \/ CleansUp(p)
  BY <1>1, <1>4, StagesAre, EarlyIs DEF AnnounceTimesOut, Receives, ConnectionEnds, CleansUp, Only
<1>5. CASE Cancels(p)
  <2>1. stage[p] \in Stage
    BY DEF TypeOK
  <2> QED BY <1>1, <1>5, <2>1, StagesAre, EarlyIs DEF Cancels, Only, Leaves, Guarded, Unguarded
<1>6. CASE Announces(p)
  <2>1. MovesOn
    BY <1>6, TaskMoves, StagesAre, EarlyIs DEF Announces
  <2>2. stage[p] = "announcing" /\ stage'[p] = "receiving"
    BY <1>6 DEF Announces, Moves, TypeOK
  <2>3. told[p] = EventOrder!Nothing
    BY <2>2, EarlyIs DEF QueueInv, Told
  <2>4. \A i \in 1..Len(events) : events[i].peer # p
    BY <2>2, EarlyIs DEF QueueInv, Queued
  <2> QED BY <1>6, <2>1, <2>2, <2>3, <2>4, EarlyIs, QueueGrows
          DEF Announces, Kind, EventOrder!Nothing
<1>7. CASE PassesOn(p)
  <2>1. MovesOn
    BY <1>7, TaskMoves, StagesAre, EarlyIs DEF PassesOn
  <2>2. stage[p] = "passing" /\ stage'[p] = "receiving"
    BY <1>7 DEF PassesOn, Moves, TypeOK
  <2>3. told[p].kind # "Disconnected"
    BY <2>2 DEF QueueInv, Told
  <2>4. \A i \in 1..Len(events) : events[i].peer = p => events[i].kind # "Disconnected"
    BY <2>2 DEF QueueInv, Queued
  <2> QED BY <1>7, <2>1, <2>2, <2>3, <2>4, EarlyIs, QueueGrows DEF PassesOn, Kind
<1>8. CASE SetsFailed(p)
  <2>1. MovesOn
    BY <1>8, TaskMoves, StagesAre, EarlyIs DEF SetsFailed
  <2>2. stage[p] = "failing" /\ stage'[p] = "ended"
    BY <1>8 DEF SetsFailed, Moves, TypeOK
  <2> QED BY <1>8, <2>1, <2>2, QueueStays DEF SetsFailed
<1>9. CASE Tells(p)
  <2>1. MovesOn /\ late' = late \ {p} /\ stage'[p] = stage[p] /\ UNCHANGED told
    BY <1>9 DEF Tells, TellsEnd, TellTimesOut, MovesOn
  <2>2. stage[p] = "ended" /\ p \in late
    BY <1>9 DEF Tells, TellsEnd, TellTimesOut, QueueInv, Told
  <2>3. CASE TellTimesOut(p)
    BY <2>1, <2>3, QueueStays DEF TellTimesOut
  <2>4. CASE TellsEnd(p)
    <3>1. told[p].kind # "Disconnected"
      BY <2>2 DEF QueueInv, Told
    <3>2. \A i \in 1..Len(events) : events[i].peer = p => events[i].kind # "Disconnected"
      BY <2>2 DEF QueueInv, Queued
    <3> QED BY <2>1, <2>2, <2>4, <3>1, <3>2, EarlyIs, QueueGrows DEF TellsEnd, Kind
  <2> QED BY <1>9, <2>3, <2>4 DEF Tells
<1> QED
  BY <1>2, <1>3, <1>4, <1>5, <1>6, <1>7, <1>8, <1>9 DEF PeerStep, Says, DropsGuard

LEMMA MakesMoves ==
  ASSUME TypeOK, Made, NEW p \in Peers, NEW u, NEW first \in {"starting", "spawned"},
         Makes(p, u, first)
  PROVE  MovesOn
<1>1. stage[p] = "none"
  BY DEF Made, Makes, IsNext
<1> QED BY <1>1, EarlyIs DEF MovesOn, Makes, TypeOK

LEMMA QueueInvNext == EndpointInv /\ QueueInv /\ [Next]_vars => QueueInv'
<1> SUFFICES ASSUME EndpointInv, QueueInv, [Next]_vars PROVE QueueInv'
  OBVIOUS
<1>0. TypeOK /\ Made
  BY DEF EndpointInv
<1>1. ASSUME MovesOn, UNCHANGED eventVars PROVE QueueInv'
  BY <1>0, <1>1, QueueStays DEF eventVars
<1>2. ASSUME UNCHANGED << stage, eventVars >> PROVE QueueInv'
  BY <1>1, <1>2 DEF MovesOn
<1>3. ASSUME NEW s \in Senders, SendStep(s) PROVE QueueInv'
  <2>1. ASSUME NEW u \in Urls, NEW p \in Peers, SendConnects(s, u, p) PROVE QueueInv'
    BY <1>0, <1>1, <2>1, MakesMoves DEF SendConnects
  <2> QED BY <1>2, <1>3, <2>1
          DEF SendStep, SendToPeer, SendFindsReady, SendFindsFailed, SendRetries, SendEnds, SendTimesOut
<1>4. ASSUME NEW c \in Casters, CastStep(c) PROVE QueueInv'
  BY <1>2, <1>4 DEF CastStep, Broadcast, CastEnds, CastTimesOut, LetsGo
<1>5. CASE MapStep
  <2>1. ASSUME NEW u \in Urls, NEW p \in Peers, AcceptPeer(u, p) PROVE QueueInv'
    BY <1>0, <1>1, <2>1, MakesMoves DEF AcceptPeer
  <2> QED BY <1>2, <1>5, <2>1 DEF MapStep, Close, DropEndpoint
<1>6. CASE UNCHANGED vars
  BY <1>2, <1>6 DEF vars
<1> QED
  BY <1>0, <1>3, <1>4, <1>5, <1>6, PeerStepQueue, QueueShrinks DEF Next

(* Every step maps to a step of PeerEvents or a stutter.                   *)
LEMMA StepTells == EndpointInv /\ QueueInv /\ [Next]_vars => [EventOrder!Next]_told
<1> SUFFICES ASSUME EndpointInv, QueueInv, [Next]_vars PROVE EventOrder!Next \/ UNCHANGED told
  OBVIOUS
<1>1. CASE Recv
  <2>1. PICK p \in Peers, k \in Kind :
           /\ EventOrder!Tells(p, k)
           /\ told[p].kind # "Disconnected"
           /\ k = "Connected" => told[p] = EventOrder!Nothing
    BY <1>1, RecvIs DEF EndpointInv
  <2> QED BY <2>1 DEF Kind, EventOrder!Next, EventOrder!Connected, EventOrder!Message,
                      EventOrder!Disconnected
<1>2. ASSUME NEW p \in Peers, PeerStep(p) PROVE UNCHANGED told
  BY <1>2 DEF PeerStep, Starts, Attempts, Says, DropsGuard, Tells, Only, Leaves,
     SignalConnects, SignalFails, BecomesOpen, WaitFails, PreflightPasses, PreflightFails,
     Announces, AnnounceTimesOut, Receives, PassesOn, ConnectionEnds, Cancels,
     CleansUp, SetsFailed, TellsEnd, TellTimesOut, eventVars
<1>3. ASSUME NEW s \in Senders, SendStep(s) PROVE UNCHANGED told
  BY <1>3 DEF SendStep, SendToPeer, SendConnects, SendFindsReady, SendFindsFailed,
     SendRetries, SendEnds, SendTimesOut, eventVars
<1>4. ASSUME NEW c \in Casters, CastStep(c) PROVE UNCHANGED told
  BY <1>4 DEF CastStep, Broadcast, CastEnds, CastTimesOut, LetsGo, eventVars
<1>5. CASE MapStep \/ UNCHANGED vars
  BY <1>5 DEF MapStep, Close, AcceptPeer, DropEndpoint, vars, eventVars
<1> QED BY <1>1, <1>2, <1>3, <1>4, <1>5 DEF Next

(* What is queued of a peer continues what the application has heard of it.*)
THEOREM QueueInvHolds == Spec => []QueueInv
  BY EndpointInvHolds, QueueInvInit, QueueInvNext, PTL DEF Spec

(* The application hears of every peer in order: Connected before any      *)
(* message, and nothing behind Disconnected, although the end is told by a *)
(* task of its own and any announcement may time out.                      *)
THEOREM EndpointTellsInOrder == Spec => EventsInOrder
<1>1. Init => EventOrder!Init
  BY DEF Init, EventOrder!Init, EventOrder!Nothing
<1> QED
  BY <1>1, EndpointInvHolds, QueueInvHolds, StepTells, PTL
  DEF Spec, EventsInOrder, EventOrder!Spec
=============================================================================
