----------------------------- MODULE SigProofs -----------------------------
(***************************************************************************)
(* Proofs about Sig, for any number of servers, calls and sigs and any     *)
(* capacity of the event channel: its state is well typed, a listener that *)
(* the map has is only ever replaced by one, and an address is heard to    *)
(* open and to close by turns.                                             *)
(***************************************************************************)
EXTENDS Sig, SequenceTheorems, TLAPS

(* The invariant.  A listener whose task has not ended is the one sig that *)
(* the map has for its url, for as long as the map has an owner.           *)
Live(s) == listener[s] /\ stage[s] \notin {"none", "ended"}

MapUrl == \A u \in Urls : map[u] # NoSig => url[map[u]] = u
Made == \A s \in Sigs :
  /\ url[s] = NoUrl <=> stage[s] = "none"
  /\ url[s] = NoUrl => held[s] = {} /\ ~aborted[s]
AbortedIsGone == \A s \in Sigs : aborted[s] => ~Alive(s)
ListenerIn == InnerAlive => \A s \in Sigs : Live(s) => map[url[s]] = s
OneListener == \A s, t \in Sigs : Live(s) /\ Live(t) /\ url[s] = url[t] => s = t
ListenersSpeak == \A s \in Sigs : stage[s] \in {"opening", "closing"} => listener[s]

SigInv ==
  /\ TypeOK /\ MapUrl /\ Made /\ AbortedIsGone
  /\ ListenerIn /\ OneListener /\ ListenersSpeak

LEMMA SigsNat == NoSig \notin Sigs /\ Sigs \subseteq Nat /\ NoUrl \notin Urls /\ NoCall \notin Listens \cup Connects
  BY SigAssumption DEF NoSig, Sigs

LEMMA StagesAre == Stage = {"none", "dropping", "ended", "connecting", "backoff",
                            "opening", "accepting", "pausing", "closing"}
  BY DEF Stage, Running, Up, Down

CallAt == {"idle", "waiting", "connecting", "done", "url", "none"}

-----------------------------------------------------------------------------
(* Types.                                                                  *)

LEMMA HandlesType ==
  ASSUME TypeOK, NEW m \in [Urls -> Sigs \cup {NoSig}],
         NEW h \in [Sigs -> SUBSET Connects], HandlesBecome(m, h)
  PROVE  /\ map' \in [Urls -> Sigs \cup {NoSig}]
         /\ held' \in [Sigs -> SUBSET Connects]
         /\ aborted' \in [Sigs -> BOOLEAN]
<1>1. [s \in Sigs |-> aborted[s] \/ (Alive(s) /\ ~InMap(m, s) /\ h[s] = {})] \in [Sigs -> BOOLEAN]
  BY DEF TypeOK
<1> QED BY <1>1 DEF HandlesBecome

LEMMA MapType ==
  ASSUME TypeOK
  PROVE  /\ \A u : \A s \in Sigs \cup {NoSig} : [map EXCEPT ![u] = s] \in [Urls -> Sigs \cup {NoSig}]
         /\ NoMap \in [Urls -> Sigs \cup {NoSig}]
         /\ \A c \in Connects : \A s : [held EXCEPT ![s] = @ \cup {c}] \in [Sigs -> SUBSET Connects]
         /\ \A c : [s \in Sigs |-> held[s] \ {c}] \in [Sigs -> SUBSET Connects]
         /\ map \in [Urls -> Sigs \cup {NoSig}] /\ held \in [Sigs -> SUBSET Connects]
  BY DEF TypeOK, NoMap

LEMMA AnswersType ==
  ASSUME TypeOK, NEW c, NEW a \in CallAt, Answers(c, a)
  PROVE  call' \in [Listens \cup Connects -> CallAt]
  BY DEF TypeOK, Answers, CallAt

LEMMA MakesType ==
  ASSUME TypeOK, NEW s, NEW u \in Urls, NEW b \in BOOLEAN, Makes(s, u, b)
  PROVE  url' \in [Sigs -> Urls \cup {NoUrl}] /\ listener' \in [Sigs -> BOOLEAN]
  BY DEF TypeOK, Makes

LEMMA MovesType ==
  ASSUME TypeOK, NEW s, NEW from, NEW to \in Stage, Moves(s, from, to)
  PROVE  stage' \in [Sigs -> Stage]
  BY DEF TypeOK, Moves

LEMMA RespondsType ==
  ASSUME TypeOK, NEW s \in Sigs, NEW a \in CallAt, Responds(s, a)
  PROVE  /\ resp' \in [Sigs -> Listens \cup {NoCall}]
         /\ call' \in [Listens \cup Connects -> CallAt]
  BY DEF TypeOK, Responds, CallAt

LEMMA PutsType ==
  ASSUME TypeOK, NEW k \in {"Open", "Closed"}, NEW s \in Sigs, Puts(k, s)
  PROVE  events' \in Seq(Event)
<1>1. [kind |-> k, sig |-> s] \in Event
  BY DEF Event
<1> QED BY <1>1 DEF TypeOK, Puts

LEMMA OnlyType ==
  ASSUME TypeOK, NEW s, NEW from, NEW to \in Stage, Only(s, from, to)
  PROVE  TypeOK'
<1>1. stage' \in [Sigs -> Stage]
  BY MovesType DEF Only
<1> QED BY <1>1 DEF Only, TypeOK, handles

LEMMA RecvType ==
  ASSUME TypeOK, Recv
  PROVE  TypeOK'
<1>1. events \in Seq(Event) /\ events # << >>
  BY DEF TypeOK, Recv
<1>2. Head(events) \in Event /\ Tail(events) \in Seq(Event)
  BY <1>1
<1> DEFINE u == url[Head(events).sig]
           k == Head(events).kind
<1>3. k \in {"Open", "Closed"}
  BY <1>2 DEF Event
<1>4. told' = [told EXCEPT ![u] = [kind |-> k, n |-> told[u].n + 1]] /\ events' = Tail(events)
  BY DEF Recv
<1> HIDE DEF u, k
<1>5. u \in Urls => told[u].n \in Nat
  BY DEF TypeOK
<1>6. u \in Urls => [kind |-> k, n |-> told[u].n + 1] \in [kind : {"Open", "Closed"}, n : Nat]
  BY <1>3, <1>5
<1>7. ASSUME NEW t, u \in Urls => t \in [kind : {"Open", "Closed"}, n : Nat],
             told' = [told EXCEPT ![u] = t]
      PROVE  told' \in [Urls -> [kind : {"Open", "Closed"}, n : Nat]]
  BY <1>7 DEF TypeOK
<1>8. told' \in [Urls -> [kind : {"Open", "Closed"}, n : Nat]]
  BY <1>4, <1>6, <1>7
<1> QED BY <1>2, <1>4, <1>8 DEF Recv, TypeOK, handles

LEMMA ListenType ==
  ASSUME TypeOK, NEW l \in Listens, ListenStep(l)
  PROVE  TypeOK'
<1>1. ASSUME NEW u \in Urls, ListenFinds(l, u) PROVE TypeOK'
  BY <1>1, AnswersType DEF ListenFinds, CallAt, TypeOK
<1>2. ASSUME NEW u \in Urls, NEW s \in Sigs, ListenMakes(l, u, s) PROVE TypeOK'
  <2>1. /\ map' \in [Urls -> Sigs \cup {NoSig}] /\ held' \in [Sigs -> SUBSET Connects]
        /\ aborted' \in [Sigs -> BOOLEAN]
    BY <1>2, HandlesType, MapType DEF ListenMakes
  <2>2. url' \in [Sigs -> Urls \cup {NoUrl}] /\ listener' \in [Sigs -> BOOLEAN]
    BY <1>2, MakesType DEF ListenMakes
  <2>3. call' \in [Listens \cup Connects -> CallAt]
    BY <1>2, AnswersType DEF ListenMakes, CallAt
  <2> QED BY <1>2, <2>1, <2>2, <2>3, StagesAre DEF ListenMakes, TypeOK, CallAt
<1> QED BY <1>1, <1>2 DEF ListenStep

LEMMA ConnectType ==
  ASSUME TypeOK, NEW c \in Connects, ConnectStep(c)
  PROVE  TypeOK'
<1>1. ASSUME NEW u \in Urls, ConnectFinds(c, u) PROVE TypeOK'
  <2>1. /\ map' \in [Urls -> Sigs \cup {NoSig}] /\ held' \in [Sigs -> SUBSET Connects]
        /\ aborted' \in [Sigs -> BOOLEAN]
    BY <1>1, HandlesType, MapType DEF ConnectFinds
  <2> QED BY <1>1, <2>1, AnswersType DEF ConnectFinds, CallAt, TypeOK
<1>2. ASSUME NEW u \in Urls, NEW s \in Sigs, ConnectMakes(c, u, s) PROVE TypeOK'
  <2>1. /\ map' \in [Urls -> Sigs \cup {NoSig}] /\ held' \in [Sigs -> SUBSET Connects]
        /\ aborted' \in [Sigs -> BOOLEAN]
    BY <1>2, HandlesType, MapType DEF ConnectMakes
  <2>2. url' \in [Sigs -> Urls \cup {NoUrl}] /\ listener' \in [Sigs -> BOOLEAN]
    BY <1>2, MakesType DEF ConnectMakes
  <2>3. call' \in [Listens \cup Connects -> CallAt]
    BY <1>2, AnswersType DEF ConnectMakes, CallAt
  <2> QED BY <1>2, <2>1, <2>2, <2>3, StagesAre DEF ConnectMakes, TypeOK, CallAt
<1>3. ASSUME NEW s \in Sigs, ConnectAwakes(c, s) PROVE TypeOK'
  BY <1>3, AnswersType DEF ConnectAwakes, CallAt, TypeOK
<1>4. CASE ConnectEnds(c)
  <2>1. (IF open \/ Owners(c) # {} THEN map ELSE NoMap) \in [Urls -> Sigs \cup {NoSig}]
    BY MapType
  <2>2. /\ map' \in [Urls -> Sigs \cup {NoSig}] /\ held' \in [Sigs -> SUBSET Connects]
        /\ aborted' \in [Sigs -> BOOLEAN]
    BY <1>4, <2>1, HandlesType, MapType DEF ConnectEnds
  <2> QED BY <1>4, <2>2, AnswersType DEF ConnectEnds, CallAt, TypeOK
<1> QED BY <1>1, <1>2, <1>3, <1>4 DEF ConnectStep

LEMMA DropEndpointType ==
  ASSUME TypeOK, DropEndpoint
  PROVE  TypeOK'
<1>1. (IF Owners(NoCall) # {} THEN map ELSE NoMap) \in [Urls -> Sigs \cup {NoSig}]
  BY MapType
<1>2. /\ map' \in [Urls -> Sigs \cup {NoSig}] /\ held' \in [Sigs -> SUBSET Connects]
      /\ aborted' \in [Sigs -> BOOLEAN]
  BY <1>1, HandlesType, MapType DEF DropEndpoint
<1> QED BY <1>2 DEF DropEndpoint, TypeOK

LEMMA SuccessorUrl ==
  ASSUME TypeOK, Made, NEW s \in Sigs, stage[s] # "none"
  PROVE  url[s] \in Urls
  BY DEF TypeOK, Made

LEMMA SigStepType ==
  ASSUME TypeOK, Made, NEW s \in Sigs, SigStep(s)
  PROVE  TypeOK'
<1>1. CASE ServerReached(s) \/ ServerMissed(s) \/ Cancels(s)
  <2>1. stage' \in [Sigs -> Stage]
    BY <1>1, MovesType, StagesAre DEF ServerReached, ServerMissed, Cancels
  <2>2. /\ resp' \in [Sigs -> Listens \cup {NoCall}]
        /\ call' \in [Listens \cup Connects -> CallAt]
    BY <1>1, RespondsType DEF ServerReached, ServerMissed, Cancels, CallAt
  <2>3. ready' \in [Sigs -> BOOLEAN]
    BY <1>1 DEF ServerReached, ServerMissed, Cancels, TypeOK
  <2> QED BY <1>1, <2>1, <2>2, <2>3 DEF ServerReached, ServerMissed, Cancels, TypeOK, CallAt
<1>2. CASE TriesAgain(s) \/ ServerLost(s) \/ FindsNothing(s)
  BY <1>2, OnlyType, StagesAre DEF TriesAgain, ServerLost, FindsNothing
<1>3. CASE Pauses(s)
  <2>1. (IF listener[s] THEN "closing" ELSE "dropping") \in Stage
    BY StagesAre
  <2> QED BY <1>3, <2>1, OnlyType DEF Pauses
<1>4. CASE SaysOpen(s) \/ SaysClosed(s)
  <2>1. stage' \in [Sigs -> Stage] /\ events' \in Seq(Event)
    BY <1>4, MovesType, PutsType, StagesAre DEF SaysOpen, SaysClosed
  <2> QED BY <1>4, <2>1 DEF SaysOpen, SaysClosed, TypeOK, handles
<1>5. CASE Removes(s)
  <2>1. stage' \in [Sigs -> Stage]
    BY <1>5, MovesType, StagesAre DEF Removes
  <2>2. /\ map' \in [Urls -> Sigs \cup {NoSig}] /\ held' \in [Sigs -> SUBSET Connects]
        /\ aborted' \in [Sigs -> BOOLEAN]
    BY <1>5, HandlesType, MapType DEF Removes
  <2> QED BY <1>5, <2>1, <2>2 DEF Removes, TypeOK
<1>6. ASSUME NEW t \in Sigs, Succeeds(s, t) PROVE TypeOK'
  <2>1. url[s] \in Urls
    BY <1>6, SuccessorUrl DEF Succeeds
  <2>2. url' \in [Sigs -> Urls \cup {NoUrl}] /\ listener' \in [Sigs -> BOOLEAN]
    BY <1>6, <2>1, MakesType DEF Succeeds
  <2>3. /\ map' \in [Urls -> Sigs \cup {NoSig}] /\ held' \in [Sigs -> SUBSET Connects]
        /\ aborted' \in [Sigs -> BOOLEAN]
    BY <1>6, HandlesType, MapType DEF Succeeds
  <2>4. stage' \in [Sigs -> Stage]
    BY <1>6, StagesAre DEF Succeeds, TypeOK
  <2> QED BY <1>6, <2>2, <2>3, <2>4 DEF Succeeds, TypeOK
<1> QED BY <1>1, <1>2, <1>3, <1>4, <1>5, <1>6 DEF SigStep, DropsGuard

LEMMA NextType ==
  ASSUME TypeOK, Made, [Next]_vars
  PROVE  TypeOK'
<1>1. CASE UNCHANGED vars
  BY <1>1 DEF vars, handles, TypeOK
<1> QED
  BY <1>1, ListenType, ConnectType, SigStepType, DropEndpointType, RecvType DEF Next

-----------------------------------------------------------------------------
(* The invariant.  Steps that make no sig let go of handles, or take one   *)
(* of a sig that has some; a listener only leaves the map with its owner.  *)

Fits(m, h) ==
  /\ HandlesBecome(m, h)
  /\ \A u \in Urls : m[u] # map[u] => m[u] = NoSig /\ (InnerAlive' => ~listener[map[u]])
  /\ \A s \in Sigs : h[s] # {} => Alive(s)

Advances ==
  /\ UNCHANGED << url, listener >>
  /\ \A s \in Sigs :
       /\ stage[s] = "none" <=> stage'[s] = "none"
       /\ stage[s] = "ended" => stage'[s] = "ended"
       /\ stage'[s] \in {"opening", "closing"} => listener[s]
  /\ InnerAlive' => InnerAlive

LEMMA Stays ==
  ASSUME TypeOK, UNCHANGED << map, held, aborted >>
  PROVE  Fits(map, held)
<1>1. [s \in Sigs |-> aborted[s] \/ (Alive(s) /\ ~InMap(map, s) /\ held[s] = {})] = aborted
  <2>1. \A s \in Sigs : (aborted[s] \/ (Alive(s) /\ ~InMap(map, s) /\ held[s] = {})) = aborted[s]
    BY DEF TypeOK, Alive
  <2>2. aborted = [s \in Sigs |-> aborted[s]]
    BY DEF TypeOK
  <2> QED BY <2>1, <2>2
<1> QED BY <1>1 DEF Fits, HandlesBecome, Alive

LEMMA LetsGoKeeps ==
  ASSUME SigInv, TypeOK', NEW m, NEW h, Fits(m, h), Advances
  PROVE  SigInv'
<1>1. /\ map' = m /\ held' = h
      /\ \A s \in Sigs : aborted'[s] =
           (aborted[s] \/ (Alive(s) /\ ~InMap(m, s) /\ h[s] = {}))
  BY DEF Fits, HandlesBecome
<1>2. ASSUME NEW s \in Sigs, InMap(m, s) PROVE InMap(map, s)
  BY <1>2, SigsNat DEF Fits, InMap
<1>3. MapUrl'
  BY <1>1 DEF MapUrl, SigInv, Fits, Advances
<1>4. AbortedIsGone'
  <2> SUFFICES ASSUME NEW s \in Sigs, aborted'[s] PROVE ~InMap(m, s) /\ h[s] = {}
    BY <1>1 DEF AbortedIsGone, Alive
  <2>1. CASE aborted[s]
    <3>1. ~InMap(map, s) /\ ~Alive(s)
      BY <2>1 DEF SigInv, AbortedIsGone, Alive
    <3> QED BY <3>1, <1>2 DEF Fits
  <2> QED BY <1>1, <2>1
<1>5. Made'
  <2> SUFFICES ASSUME NEW s \in Sigs
               PROVE  /\ (url[s] = NoUrl <=> stage'[s] = "none")
                      /\ url[s] = NoUrl => h[s] = {} /\ ~aborted'[s]
    BY <1>1 DEF Made, Advances
  <2>1. url[s] = NoUrl => ~InMap(map, s)
    BY SigsNat DEF SigInv, MapUrl, InMap
  <2> QED BY <1>1, <2>1 DEF SigInv, Made, Advances, Fits, Alive
<1>6. \A s \in Sigs : Live(s)' => Live(s) /\ url'[s] = url[s]
  BY DEF Live, Advances
<1>7. OneListener'
  BY <1>6 DEF OneListener, SigInv
<1>8. ListenerIn'
  <2> SUFFICES ASSUME InnerAlive', NEW s \in Sigs, Live(s)' PROVE m[url[s]] = s
    BY <1>1 DEF ListenerIn, Advances
  <2>1. Live(s) /\ map[url[s]] = s /\ listener[s] /\ url[s] \in Urls
    BY <1>6 DEF SigInv, ListenerIn, Advances, Live, TypeOK, Made
  <2> QED BY <2>1 DEF Fits
<1>9. ListenersSpeak'
  BY DEF ListenersSpeak, Advances
<1> QED BY <1>3, <1>4, <1>5, <1>7, <1>8, <1>9 DEF SigInv

(* The sig that the map has for a url, if any, ends as another is made.    *)
Replaces(u, t, b) ==
  /\ stage'[t] = "connecting"
  /\ \A q \in Sigs : q # t =>
       stage'[q] = stage[q] \/ (stage'[q] = "ended" /\ stage[q] # "none")
  /\ map[u] # NoSig => stage'[map[u]] = "ended"
  /\ InnerAlive' => InnerAlive
  /\ b => InnerAlive \/ (map[u] # NoSig /\ Live(map[u]))

LEMMA MakesKeeps ==
  ASSUME SigInv, TypeOK', NEW u \in Urls, NEW t \in Sigs, NEW b \in BOOLEAN, NEW h,
         Makes(t, u, b), HandlesBecome([map EXCEPT ![u] = t], h),
         \A q \in Sigs : q # t => h[q] = held[q], Replaces(u, t, b)
  PROVE  SigInv'
<1>1. /\ url[t] = NoUrl /\ stage[t] = "none" /\ ~aborted[t]
      /\ url \in [Sigs -> Urls \cup {NoUrl}] /\ stage \in [Sigs -> Stage]
      /\ listener \in [Sigs -> BOOLEAN] /\ map \in [Urls -> Sigs \cup {NoSig}]
  BY DEF Makes, IsNext, SigInv, Made, TypeOK
<1>2. /\ url' = [url EXCEPT ![t] = u] /\ listener' = [listener EXCEPT ![t] = b]
      /\ map' = [map EXCEPT ![u] = t] /\ held' = h
      /\ \A q \in Sigs : aborted'[q] =
           (aborted[q] \/ (Alive(q) /\ ~InMap(map', q) /\ h[q] = {}))
  BY DEF Makes, HandlesBecome
<1>3. \A q \in Sigs : q # t => (InMap(map', q) => InMap(map, q))
  BY <1>1, <1>2, SigsNat DEF InMap
<1>4. InMap(map', t)
  BY <1>1, <1>2 DEF InMap
<1>5. MapUrl'
  <2>1. ASSUME NEW v \in Urls, v # u, map[v] # NoSig PROVE map[v] # t
    BY <1>1, <2>1, SigsNat DEF SigInv, MapUrl
  <2> QED BY <1>1, <1>2, <2>1 DEF SigInv, MapUrl
<1>6. AbortedIsGone'
  <2> SUFFICES ASSUME NEW q \in Sigs, aborted'[q] PROVE ~InMap(map', q) /\ h[q] = {}
    BY <1>2 DEF AbortedIsGone, Alive
  <2>1. CASE aborted[q]
    <3>1. q # t /\ ~InMap(map, q) /\ held[q] = {}
      BY <1>1, <2>1 DEF SigInv, AbortedIsGone, Alive
    <3> QED BY <1>3, <3>1
  <2> QED BY <1>2, <2>1
<1>7. Made'
  <2> SUFFICES ASSUME NEW q \in Sigs
               PROVE  /\ (url'[q] = NoUrl <=> stage'[q] = "none")
                      /\ url'[q] = NoUrl => h[q] = {} /\ ~aborted'[q]
    BY <1>2 DEF Made
  <2>1. CASE q = t
    BY <1>1, <1>2, <2>1, SigsNat DEF Replaces
  <2>2. CASE q # t
    <3>1. url'[q] = url[q] /\ h[q] = held[q] /\ (stage'[q] = "none" <=> stage[q] = "none")
      BY <1>1, <1>2, <2>2 DEF Replaces
    <3>2. url[q] = NoUrl => held[q] = {} /\ ~aborted[q] /\ ~InMap(map, q)
      BY SigsNat DEF SigInv, Made, MapUrl, InMap
    <3> QED BY <1>2, <3>1, <3>2 DEF SigInv, Made, Alive
  <2> QED BY <2>1, <2>2
<1>8. ASSUME NEW q \in Sigs, q # t, Live(q)'
      PROVE  Live(q) /\ url'[q] = url[q] /\ stage'[q] = stage[q] /\ url[q] \in Urls
  BY <1>1, <1>2, <1>8 DEF Live, Replaces, SigInv, Made
<1>9. ASSUME NEW q \in Sigs, q # t, Live(q)', InnerAlive PROVE map[url[q]] = q /\ url[q] # u
  <2>1. map[url[q]] = q
    BY <1>8, <1>9 DEF SigInv, ListenerIn
  <2>2. stage'[q] # "ended"
    BY <1>9 DEF Live
  <2> QED BY <2>1, <2>2, SigsNat DEF Replaces
<1>10. ListenerIn'
  <2> SUFFICES ASSUME InnerAlive', NEW q \in Sigs, Live(q)' PROVE map'[url'[q]] = q
    BY DEF ListenerIn
  <2>1. CASE q = t
    BY <1>1, <1>2, <2>1
  <2>2. CASE q # t
    BY <1>1, <1>2, <1>8, <1>9, <2>2 DEF Replaces
  <2> QED BY <2>1, <2>2
<1>11. ASSUME NEW q \in Sigs, q # t, Live(q)', b PROVE url[q] # u
  <2>1. CASE InnerAlive
    BY <1>9, <1>11, <2>1
  <2>2. CASE map[u] # NoSig /\ Live(map[u])
    <3>1. map[u] \in Sigs /\ url[map[u]] = u /\ q # map[u]
      BY <1>1, <1>11, <2>2 DEF SigInv, MapUrl, Replaces, Live
    <3> QED BY <1>8, <1>11, <2>2, <3>1 DEF SigInv, OneListener
  <2> QED BY <1>11, <2>1, <2>2 DEF Replaces
<1>12. OneListener'
  <2> SUFFICES ASSUME NEW q \in Sigs, NEW r \in Sigs, Live(q)', Live(r)', url'[q] = url'[r]
               PROVE  q = r
    BY DEF OneListener
  <2>1. CASE q # t /\ r # t
    BY <1>8, <2>1 DEF SigInv, OneListener
  <2>2. Live(t)' => b
    BY <1>1, <1>2 DEF Live
  <2> QED BY <1>1, <1>2, <1>8, <1>11, <2>1, <2>2
<1>13. ListenersSpeak'
  BY <1>1, <1>2 DEF ListenersSpeak, SigInv, Replaces
<1> QED BY <1>5, <1>6, <1>7, <1>10, <1>12, <1>13 DEF SigInv

LEMMA ListenKeeps ==
  ASSUME SigInv, TypeOK', NEW l \in Listens, ListenStep(l)
  PROVE  SigInv'
<1>0. TypeOK
  BY DEF SigInv
<1>1. ASSUME NEW c, c \notin Connects, NEW a, Answers(c, a), UNCHANGED open
      PROVE  InnerAlive' => InnerAlive
  BY <1>0, <1>1 DEF Answers, InnerAlive, Owners, TypeOK
<1>2. l \notin Connects
  BY SigAssumption
<1>3. ASSUME NEW u \in Urls, ListenFinds(l, u) PROVE SigInv'
  <2>1. Advances
    BY <1>1, <1>2, <1>3 DEF ListenFinds, Advances, SigInv, ListenersSpeak
  <2>2. Fits(map, held)
    BY <1>0, <1>3, Stays DEF ListenFinds
  <2> QED BY <2>1, <2>2, LetsGoKeeps
<1>4. ASSUME NEW u \in Urls, NEW s \in Sigs, ListenMakes(l, u, s) PROVE SigInv'
  <2>1. Replaces(u, s, TRUE)
    BY <1>0, <1>1, <1>2, <1>4 DEF ListenMakes, Replaces, InnerAlive, TypeOK
  <2> QED BY <1>4, <2>1, MakesKeeps DEF ListenMakes
<1> QED BY <1>3, <1>4 DEF ListenStep

LEMMA ConnectKeeps ==
  ASSUME SigInv, TypeOK', NEW c \in Connects, ConnectStep(c)
  PROVE  SigInv'
<1>0. TypeOK
  BY DEF SigInv
<1>1. ASSUME NEW u \in Urls, ConnectFinds(c, u) PROVE SigInv'
  <2>1. Advances
    BY <1>1 DEF ConnectFinds, Advances, SigInv, ListenersSpeak
  <2>2. Alive(map[u])
    BY <1>1 DEF ConnectFinds, Alive, InMap
  <2>3. Fits(map, [held EXCEPT ![map[u]] = @ \cup {c}])
    BY <1>0, <1>1, <2>2 DEF ConnectFinds, Fits, Alive, TypeOK
  <2> QED BY <2>1, <2>3, LetsGoKeeps
<1>2. ASSUME NEW u \in Urls, NEW s \in Sigs, ConnectMakes(c, u, s) PROVE SigInv'
  <2>1. Replaces(u, s, FALSE)
    BY <1>0, <1>2 DEF ConnectMakes, Replaces, TypeOK
  <2>2. \A q \in Sigs : q # s => [held EXCEPT ![s] = @ \cup {c}][q] = held[q]
    BY <1>0 DEF TypeOK
  <2> QED BY <1>2, <2>1, <2>2, MakesKeeps DEF ConnectMakes
<1>3. ASSUME NEW s \in Sigs, ConnectAwakes(c, s) PROVE SigInv'
  <2>1. InnerAlive
    BY <1>3, SigsNat DEF ConnectAwakes, InnerAlive, Owners
  <2>2. Advances
    BY <1>3, <2>1 DEF ConnectAwakes, Advances, SigInv, ListenersSpeak
  <2>3. Fits(map, held)
    BY <1>0, <1>3, Stays DEF ConnectAwakes
  <2> QED BY <2>2, <2>3, LetsGoKeeps
<1>4. CASE ConnectEnds(c)
  <2> DEFINE m == IF open \/ Owners(c) # {} THEN map ELSE NoMap
             h == [s \in Sigs |-> held[s] \ {c}]
  <2>1. InnerAlive
    BY <1>4, SigsNat DEF ConnectEnds, InnerAlive, Owners
  <2>2. InnerAlive' => open \/ Owners(c) # {}
    BY <1>0, <1>4 DEF ConnectEnds, InnerAlive, Owners, Answers, TypeOK
  <2>3. Fits(m, h)
    BY <1>4, <2>2 DEF ConnectEnds, Fits, NoMap, Alive
  <2>4. Advances
    BY <1>4, <2>1 DEF ConnectEnds, Advances, SigInv, ListenersSpeak
  <2> QED BY <2>3, <2>4, LetsGoKeeps
<1> QED BY <1>1, <1>2, <1>3, <1>4 DEF ConnectStep

LEMMA DropKeeps ==
  ASSUME SigInv, TypeOK', DropEndpoint
  PROVE  SigInv'
<1>1. InnerAlive /\ (InnerAlive' => Owners(NoCall) # {})
  BY DEF DropEndpoint, InnerAlive, Owners
<1>2. Fits(IF Owners(NoCall) # {} THEN map ELSE NoMap, held)
  BY <1>1 DEF DropEndpoint, Fits, NoMap, Alive
<1>3. Advances
  BY <1>1 DEF DropEndpoint, Advances, SigInv, ListenersSpeak
<1> QED BY <1>2, <1>3, LetsGoKeeps

LEMMA OwnersSame ==
  ASSUME UNCHANGED << call, open >>
  PROVE  InnerAlive' <=> InnerAlive
  BY DEF InnerAlive, Owners

LEMMA RespondsOwners ==
  ASSUME TypeOK, NEW s \in Sigs, NEW a, Responds(s, a), UNCHANGED open
  PROVE  InnerAlive' <=> InnerAlive
<1>1. resp[s] # NoCall => resp[s] \in Listens /\ resp[s] \notin Connects
  BY SigAssumption DEF TypeOK
<1>2. \A c \in Connects : call'[c] = call[c]
  BY <1>1 DEF Responds, TypeOK
<1> QED BY <1>2 DEF InnerAlive, Owners

LEMMA MovesKeeps ==
  ASSUME SigInv, TypeOK', NEW s \in Sigs, NEW from, NEW to, Moves(s, from, to),
         from \notin {"none", "ended"}, to # "none",
         to \in {"opening", "closing"} => listener[s],
         InnerAlive' => InnerAlive, UNCHANGED << map, held, aborted, url, listener >>
  PROVE  SigInv'
<1>1. Fits(map, held)
  BY Stays DEF SigInv
<1>2. Advances
  BY DEF Advances, Moves, SigInv, TypeOK, ListenersSpeak
<1> QED BY <1>1, <1>2, LetsGoKeeps

LEMMA SigStepKeeps ==
  ASSUME SigInv, TypeOK', NEW s \in Sigs, SigStep(s)
  PROVE  SigInv'
<1>0. TypeOK
  BY DEF SigInv
<1>1. CASE ServerReached(s)
  <2>1. InnerAlive' <=> InnerAlive
    BY <1>0, <1>1, RespondsOwners DEF ServerReached
  <2> QED BY <1>1, <2>1, MovesKeeps DEF ServerReached
<1>2. CASE ServerMissed(s)
  <2>1. InnerAlive' <=> InnerAlive
    BY <1>0, <1>2, RespondsOwners DEF ServerMissed
  <2> QED BY <1>2, <2>1, MovesKeeps DEF ServerMissed
<1>3. CASE Cancels(s)
  <2>1. InnerAlive' <=> InnerAlive
    BY <1>0, <1>3, RespondsOwners DEF Cancels
  <2>2. stage[s] \notin {"none", "ended"}
    BY <1>3 DEF Cancels, Running, Up, Down
  <2> QED BY <1>3, <2>1, <2>2, MovesKeeps DEF Cancels
<1>4. CASE TriesAgain(s) \/ ServerLost(s) \/ Pauses(s) \/ FindsNothing(s)
  <2>1. InnerAlive' <=> InnerAlive
    BY <1>4, OwnersSame DEF TriesAgain, ServerLost, Pauses, FindsNothing, Only, handles
  <2> QED BY <1>4, <2>1, MovesKeeps DEF TriesAgain, ServerLost, Pauses, FindsNothing, Only, handles
<1>5. CASE SaysOpen(s) \/ SaysClosed(s)
  <2>1. InnerAlive' <=> InnerAlive
    BY <1>5, OwnersSame DEF SaysOpen, SaysClosed, handles
  <2> QED BY <1>5, <2>1, MovesKeeps DEF SaysOpen, SaysClosed, handles
<1>6. CASE Removes(s)
  <2>1. InnerAlive' <=> InnerAlive
    BY <1>6, OwnersSame DEF Removes
  <2>2. Fits([map EXCEPT ![url[s]] = NoSig], held)
    BY <1>0, <1>6 DEF Removes, Fits, Alive, TypeOK
  <2>3. Advances
    BY <1>0, <1>6, <2>1 DEF Removes, Advances, Moves, TypeOK, SigInv, ListenersSpeak
  <2> QED BY <2>2, <2>3, LetsGoKeeps
<1>7. ASSUME NEW t \in Sigs, Succeeds(s, t) PROVE SigInv'
  <2>1. InnerAlive' <=> InnerAlive
    BY <1>7, OwnersSame DEF Succeeds
  <2>2. url[s] \in Urls /\ s # t /\ Live(s) /\ map[url[s]] = s
    BY <1>0, <1>7, SuccessorUrl DEF Succeeds, Makes, IsNext, SigInv, Made, Live
  <2>3. Replaces(url[s], t, TRUE)
    BY <1>0, <1>7, <2>1, <2>2, SigsNat DEF Succeeds, Replaces, TypeOK
  <2> QED BY <1>7, <2>2, <2>3, MakesKeeps DEF Succeeds
<1> QED
  BY <1>1, <1>2, <1>3, <1>4, <1>5, <1>6, <1>7 DEF SigStep, DropsGuard

LEMMA SigInvInit == Init => SigInv
<1> SUFFICES ASSUME Init PROVE SigInv
  OBVIOUS
<1>1. TypeOK
  BY StagesAre DEF Init, TypeOK
<1>2. \A s \in Sigs : ~InMap(map, s)
  BY SigsNat DEF Init, InMap
<1> QED
  BY <1>1, <1>2 DEF Init, SigInv, MapUrl, Made, AbortedIsGone, Alive, ListenerIn,
                    OneListener, ListenersSpeak, Live

LEMMA SigInvNext == SigInv /\ [Next]_vars => SigInv'
<1> SUFFICES ASSUME SigInv, [Next]_vars PROVE SigInv'
  OBVIOUS
<1>0. TypeOK /\ TypeOK'
  BY NextType DEF SigInv
<1>1. CASE Recv \/ UNCHANGED vars
  <2>1. Fits(map, held)
    BY <1>0, <1>1, Stays DEF Recv, vars, handles
  <2>2. InnerAlive' <=> InnerAlive
    BY <1>1, OwnersSame DEF Recv, vars, handles
  <2>3. Advances
    BY <1>1, <2>2 DEF Recv, vars, handles, Advances, SigInv, ListenersSpeak
  <2> QED BY <1>0, <2>1, <2>3, LetsGoKeeps
<1> QED
  BY <1>0, <1>1, ListenKeeps, ConnectKeeps, SigStepKeeps, DropKeeps DEF Next

(* The handles and stages of the sigs fit each other in every state.       *)
THEOREM SigInvHolds == Spec => []SigInv
  BY SigInvInit, SigInvNext, PTL DEF Spec

(* The state of the signal connections is well typed.                      *)
THEOREM SigTypeOK == Spec => []TypeOK
<1>1. SigInv => TypeOK
  BY DEF SigInv
<1> QED BY <1>1, SigInvHolds, PTL

-----------------------------------------------------------------------------
(* Once the endpoint listens at a server, a lost listener is replaced by   *)
(* the step that removes it; nothing else takes its place.                 *)
LEMMA StepKeepsListeners ==
  ASSUME SigInv, [Next]_vars, NEW u \in Urls, map[u] # NoSig, listener[map[u]]
  PROVE  (map'[u] # NoSig /\ listener'[map'[u]]) \/ (map' = NoMap /\ ~open')
<1>0. TypeOK /\ map[u] \in Sigs /\ url[map[u]] = u /\ u # NoUrl
  BY SigsNat DEF SigInv, MapUrl, TypeOK
<1>1. ASSUME UNCHANGED << map, listener >>
      PROVE  map'[u] # NoSig /\ listener'[map'[u]]
  BY <1>1
<1>2. ASSUME NEW v \in Urls, v # u, NEW t, NEW b, Makes(t, v, b), map' = [map EXCEPT ![v] = t]
      PROVE  map'[u] # NoSig /\ listener'[map'[u]]
  BY <1>0, <1>2 DEF Makes, IsNext, TypeOK
<1>3. ASSUME NEW l \in Listens, ListenStep(l)
      PROVE  map'[u] # NoSig /\ listener'[map'[u]]
  BY <1>1, <1>2, <1>3 DEF ListenStep, ListenFinds, ListenMakes, HandlesBecome
<1>4. ASSUME NEW c \in Connects, ConnectStep(c)
      PROVE  (map'[u] # NoSig /\ listener'[map'[u]]) \/ (map' = NoMap /\ ~open')
  BY <1>1, <1>2, <1>4
  DEF ConnectStep, ConnectFinds, ConnectMakes, ConnectAwakes, ConnectEnds, HandlesBecome
<1>5. ASSUME NEW s \in Sigs, SigStep(s)
      PROVE  map'[u] # NoSig /\ listener'[map'[u]]
  <2>1. ASSUME NEW t \in Sigs, Succeeds(s, t) PROVE map'[u] # NoSig /\ listener'[map'[u]]
    <3>1. url[s] \in Urls /\ t # NoSig
      BY <1>0, <2>1, SuccessorUrl, SigsNat DEF Succeeds, SigInv
    <3>2. CASE url[s] = u
      BY <1>0, <2>1, <3>1, <3>2 DEF Succeeds, Makes, HandlesBecome, TypeOK
    <3>3. CASE url[s] # u
      BY <1>2, <2>1, <3>1, <3>3 DEF Succeeds, HandlesBecome
    <3> QED BY <3>2, <3>3
  <2>2. CASE Removes(s)
    BY <1>0, <2>2 DEF Removes, HandlesBecome, TypeOK
  <2> QED BY <1>1, <1>5, <2>1, <2>2
          DEF SigStep, ServerReached, ServerMissed, TriesAgain, SaysOpen, ServerLost, Pauses,
              SaysClosed, Cancels, DropsGuard, FindsNothing, Only, handles
<1>6. CASE DropEndpoint
  BY <1>1, <1>6 DEF DropEndpoint, HandlesBecome
<1>7. CASE Recv \/ UNCHANGED vars
  BY <1>1, <1>7 DEF Recv, vars, handles
<1> QED BY <1>3, <1>4, <1>5, <1>6, <1>7 DEF Next

(* A map that lasts never loses its listener for a url: the guard of a     *)
(* lost one puts the successor there in the same step.                     *)
THEOREM ListenersStay == Spec => ListenerStays
<1>1. SigInv /\ [Next]_vars =>
        [\A u \in Urls :
           map[u] # NoSig /\ listener[map[u]] =>
             \/ map'[u] # NoSig /\ listener'[map'[u]]
             \/ map' = NoMap /\ ~open']_vars
  BY StepKeepsListeners
<1> QED BY <1>1, SigInvHolds, PTL DEF Spec, ListenerStays

-----------------------------------------------------------------------------
(* What an address was last said to be, in the queue or else to the        *)
(* application: index 0 stands for what the application was told.          *)

KindAt(u, i) == IF i = 0 THEN told[u].kind ELSE events[i].kind
IsOf(u, i) == i = 0 \/ url[events[i].sig] = u
LastIs(u, k) ==
  \E i \in 0..Len(events) :
    /\ IsOf(u, i) /\ KindAt(u, i) = k
    /\ \A j \in (i + 1)..Len(events) : ~IsOf(u, j)

(* Events of an address take turns, and the last agrees with the stage of  *)
(* the listener, or says Closed if there is none and one may be made.      *)
EventsMade == \A i \in 1..Len(events) : url[events[i].sig] \in Urls
Turning == \A u \in Urls : \A i \in 0..Len(events), j \in 1..Len(events) :
  /\ i < j /\ IsOf(u, i) /\ IsOf(u, j)
  /\ \A k \in (i + 1)..(j - 1) : ~IsOf(u, k)
  => KindAt(u, i) # KindAt(u, j)

Telling == {"accepting", "pausing", "closing"}
Agrees ==
  /\ \A s \in Sigs, u \in Urls : Live(s) /\ url[s] = u =>
       /\ stage[s] \in Telling => LastIs(u, "Open")
       /\ stage[s] \notin Telling => LastIs(u, "Closed")
  /\ InnerAlive =>
       \A u \in Urls : (\A s \in Sigs : Live(s) => url[s] # u) => LastIs(u, "Closed")

HistInv == EventsMade /\ Turning /\ Agrees

UrlsStay == \A s \in Sigs : url[s] # NoUrl => url'[s] = url[s]

LEMMA EventAt ==
  ASSUME TypeOK, NEW i \in 1..Len(events)
  PROVE  events[i].sig \in Sigs /\ events[i].kind \in {"Open", "Closed"}
<1>1. events[i] \in Event
  BY DEF TypeOK
<1> QED BY <1>1 DEF Event

LEMMA SameHistory ==
  ASSUME TypeOK, EventsMade, UrlsStay, UNCHANGED << events, told >>
  PROVE  /\ EventsMade'
         /\ \A u : \A i \in 0..Len(events) :
              (IsOf(u, i)' <=> IsOf(u, i)) /\ KindAt(u, i)' = KindAt(u, i)
         /\ \A u, k : LastIs(u, k) => LastIs(u, k)'
<1>1. \A i \in 1..Len(events) : url'[events[i].sig] = url[events[i].sig]
  BY EventAt, SigsNat DEF EventsMade, UrlsStay
<1>2. EventsMade'
  BY <1>1 DEF EventsMade
<1>3. ASSUME NEW u, NEW i \in 0..Len(events)
      PROVE  (IsOf(u, i)' <=> IsOf(u, i)) /\ KindAt(u, i)' = KindAt(u, i)
  <2>1. i = 0 \/ i \in 1..Len(events)
    BY DEF TypeOK
  <2> QED BY <1>1, <2>1 DEF IsOf, KindAt
<1>4. ASSUME NEW u, NEW k, LastIs(u, k) PROVE LastIs(u, k)'
  <2>1. PICK i \in 0..Len(events) :
          /\ IsOf(u, i) /\ KindAt(u, i) = k
          /\ \A j \in (i + 1)..Len(events) : ~IsOf(u, j)
    BY <1>4 DEF LastIs
  <2>2. \A j \in (i + 1)..Len(events) : j \in 0..Len(events)
    BY DEF TypeOK
  <2>3. Len(events') = Len(events)
    OBVIOUS
  <2>4. IsOf(u, i)' /\ KindAt(u, i)' = k /\ \A j \in (i + 1)..Len(events) : ~IsOf(u, j)'
    BY <1>3, <2>1, <2>2
  <2> QED BY <2>3, <2>4 DEF LastIs
<1> QED BY <1>2, <1>3, <1>4

LEMMA HistoryStays ==
  ASSUME TypeOK, HistInv, UrlsStay, UNCHANGED << events, told >>,
         \A s \in Sigs, u \in Urls : Live(s)' /\ url'[s] = u =>
           \/ Live(s) /\ url[s] = u /\ (stage[s] \in Telling <=> stage'[s] \in Telling)
           \/ stage'[s] \notin Telling /\ LastIs(u, "Closed"),
         InnerAlive' =>
           \A u \in Urls : (\A s \in Sigs : Live(s)' => url'[s] # u) => LastIs(u, "Closed")
  PROVE  HistInv'
<1>1. /\ EventsMade'
      /\ \A u : \A i \in 0..Len(events) :
           (IsOf(u, i)' <=> IsOf(u, i)) /\ KindAt(u, i)' = KindAt(u, i)
      /\ \A u, k : LastIs(u, k) => LastIs(u, k)'
  BY SameHistory DEF HistInv
<1>2. Turning'
  <2> SUFFICES ASSUME NEW u \in Urls, NEW i \in 0..Len(events), NEW j \in 1..Len(events),
                      i < j, IsOf(u, i)', IsOf(u, j)',
                      \A k \in (i + 1)..(j - 1) : ~IsOf(u, k)'
               PROVE  KindAt(u, i)' # KindAt(u, j)'
    BY DEF Turning
  <2>1. j \in 0..Len(events) /\ \A k \in (i + 1)..(j - 1) : k \in 0..Len(events)
    BY DEF TypeOK
  <2>2. IsOf(u, i) /\ IsOf(u, j) /\ \A k \in (i + 1)..(j - 1) : ~IsOf(u, k)
    BY <1>1, <2>1
  <2>3. KindAt(u, i) # KindAt(u, j)
    BY <2>2 DEF HistInv, Turning
  <2> QED BY <1>1, <2>1, <2>3
<1>3. Agrees'
  <2>1. ASSUME NEW s \in Sigs, NEW u \in Urls, Live(s)', url'[s] = u
        PROVE  /\ stage'[s] \in Telling => LastIs(u, "Open")'
               /\ stage'[s] \notin Telling => LastIs(u, "Closed")'
    <3>1. /\ stage'[s] \in Telling => LastIs(u, "Open")
          /\ stage'[s] \notin Telling => LastIs(u, "Closed")
      BY <2>1 DEF HistInv, Agrees
    <3> QED BY <1>1, <3>1
  <2>2. InnerAlive' =>
          \A u \in Urls : (\A s \in Sigs : Live(s)' => url'[s] # u) => LastIs(u, "Closed")'
    BY <1>1
  <2> QED BY <2>1, <2>2 DEF Agrees
<1> QED BY <1>1, <1>2, <1>3 DEF HistInv

LEMMA HistoryGrows ==
  ASSUME TypeOK, EventsMade, Turning, NEW s \in Sigs, NEW u \in Urls, url[s] = u,
         NEW k \in {"Open", "Closed"}, NEW l, l # k, LastIs(u, l), Puts(k, s),
         UNCHANGED << url, told >>
  PROVE  /\ EventsMade' /\ Turning' /\ LastIs(u, k)'
         /\ \A v, q : v # u /\ LastIs(v, q) => LastIs(v, q)'
<1> DEFINE e == [kind |-> k, sig |-> s]
<1>1. /\ events \in Seq(Event) /\ e \in Event /\ events' = Append(events, e)
      /\ e.kind = k /\ e.sig = s
  BY DEF TypeOK, Event, Puts
<1> HIDE DEF e
<1>2. PICK n \in Nat :
        /\ n = Len(events) /\ Len(events') = n + 1 /\ events'[n + 1] = e
        /\ \A i \in 1..n : events'[i] = events[i]
  BY <1>1
<1>3. \A v : \A i \in 0..n : (IsOf(v, i)' <=> IsOf(v, i)) /\ KindAt(v, i)' = KindAt(v, i)
  <2> SUFFICES ASSUME NEW v, NEW i \in 0..n
               PROVE  (IsOf(v, i)' <=> IsOf(v, i)) /\ KindAt(v, i)' = KindAt(v, i)
    OBVIOUS
  <2>1. i = 0 \/ i \in 1..n
    BY <1>2
  <2> QED BY <1>2, <2>1 DEF IsOf, KindAt
<1>4. n + 1 # 0 /\ n + 1 \in 0..(n + 1) /\ n + 1 \in 1..(n + 1)
  BY <1>2
<1>5. KindAt(u, n + 1)' = k /\ \A v : IsOf(v, n + 1)' <=> v = u
  BY <1>1, <1>2, <1>4 DEF KindAt, IsOf
<1>6. EventsMade'
  <2>1. \A i \in 1..(n + 1) : i = n + 1 \/ i \in 1..n
    BY <1>2
  <2> QED BY <1>1, <1>2, <2>1 DEF EventsMade
<1>7. LastIs(u, k)'
  <2>1. (n + 1 + 1)..(n + 1) = {}
    BY <1>2
  <2> QED BY <1>2, <1>4, <1>5, <2>1 DEF LastIs
<1>8. ASSUME NEW v, NEW q, v # u, LastIs(v, q) PROVE LastIs(v, q)'
  <2>1. PICK i \in 0..n : /\ IsOf(v, i) /\ KindAt(v, i) = q
                          /\ \A j \in (i + 1)..n : ~IsOf(v, j)
    BY <1>2, <1>8 DEF LastIs
  <2>2. /\ i \in 0..(n + 1)
        /\ \A j \in (i + 1)..(n + 1) : j = n + 1 \/ (j \in (i + 1)..n /\ j \in 0..n)
    BY <1>2
  <2>3. \A j \in (i + 1)..(n + 1) : ~IsOf(v, j)'
    BY <1>3, <1>5, <1>8, <2>1, <2>2
  <2>4. IsOf(v, i)' /\ KindAt(v, i)' = q
    BY <1>3, <2>1
  <2> QED BY <1>2, <2>2, <2>3, <2>4 DEF LastIs
<1>9. Turning'
  <2> SUFFICES ASSUME NEW v \in Urls, NEW i \in 0..(n + 1), NEW j \in 1..(n + 1),
                      i < j, IsOf(v, i)', IsOf(v, j)',
                      \A m \in (i + 1)..(j - 1) : ~IsOf(v, m)'
               PROVE  KindAt(v, i)' # KindAt(v, j)'
    BY <1>2 DEF Turning
  <2>1. i \in 0..n /\ IsOf(v, i) /\ KindAt(v, i)' = KindAt(v, i)
    BY <1>2, <1>3
  <2>2. CASE j \in 1..n
    <3>1. j \in 0..n /\ \A m \in (i + 1)..(j - 1) : m \in 0..n
      BY <1>2, <2>2
    <3>2. IsOf(v, j) /\ KindAt(v, j)' = KindAt(v, j) /\ \A m \in (i + 1)..(j - 1) : ~IsOf(v, m)
      BY <1>3, <3>1
    <3> QED BY <1>2, <2>1, <2>2, <3>2 DEF Turning
  <2>3. CASE j = n + 1
    <3>1. v = u /\ KindAt(v, j)' = k
      BY <1>5, <2>3
    <3>2. PICK a \in 0..n : /\ IsOf(u, a) /\ KindAt(u, a) = l
                            /\ \A m \in (a + 1)..n : ~IsOf(u, m)
      BY <1>2 DEF LastIs
    <3>3. (j - 1) = n /\ \A m \in (i + 1)..n : m \in 0..n
      BY <1>2, <2>3
    <3>4. \A m \in (i + 1)..n : ~IsOf(u, m)
      BY <1>3, <3>1, <3>3
    <3>5. i = a \/ a \in (i + 1)..n \/ i \in (a + 1)..n
      BY <1>2, <2>1
    <3> QED BY <2>1, <3>1, <3>2, <3>4, <3>5
  <2> QED BY <1>2, <2>2, <2>3
<1> QED BY <1>6, <1>7, <1>8, <1>9

LEMMA HistoryShrinks ==
  ASSUME TypeOK, EventsMade, Turning, Recv
  PROVE  /\ EventsMade' /\ Turning' /\ Heard!Next
         /\ \A v \in Urls : \A q : LastIs(v, q) => LastIs(v, q)'
<1>1. /\ events \in Seq(Event) /\ events' = Tail(events) /\ Head(events) = events[1]
      /\ UNCHANGED url
  BY DEF TypeOK, Recv
<1>2. PICK n \in Nat :
        /\ n = Len(events) /\ n > 0 /\ Len(events') = n - 1
        /\ \A i \in 1..(n - 1) : events'[i] = events[i + 1]
  BY <1>1 DEF Recv
<1>3. PICK u \in Urls : u = url[events[1].sig]
  BY <1>2 DEF EventsMade
<1>4. PICK k \in {"Open", "Closed"} : k = events[1].kind
  BY <1>2, EventAt
<1>5. told' = [told EXCEPT ![u] = [kind |-> k, n |-> @.n + 1]]
  BY <1>1, <1>3, <1>4 DEF Recv
<1>6. \A v \in Urls : told'[v].kind = IF v = u THEN k ELSE told[v].kind
  BY <1>5 DEF TypeOK
<1>7. EventsMade'
  <2>1. \A i \in 1..(n - 1) : i + 1 \in 1..n
    BY <1>2
  <2> QED BY <1>1, <1>2, <2>1 DEF EventsMade
(* The index that an event had before.                                     *)
<1> DEFINE At(v, i) == IF i > 0 THEN i + 1 ELSE IF v = u THEN 1 ELSE 0
<1>8. ASSUME NEW v \in Urls, NEW i \in 0..(n - 1)
      PROVE  (IsOf(v, i)' <=> IsOf(v, At(v, i))) /\ KindAt(v, i)' = KindAt(v, At(v, i))
  <2>1. CASE i = 0
    BY <1>3, <1>4, <1>6, <2>1 DEF IsOf, KindAt
  <2>2. CASE i \in 1..(n - 1)
    <3>1. i > 0 /\ i # 0 /\ i + 1 # 0
      BY <2>2
    <3> QED BY <1>1, <1>2, <2>2, <3>1 DEF IsOf, KindAt
  <2> QED BY <1>2, <2>1, <2>2
<1>9. \A v : v # u => ~IsOf(v, 1)
  BY <1>3 DEF IsOf
<1>10. Turning'
  <2> SUFFICES ASSUME NEW v \in Urls, NEW i \in 0..(n - 1), NEW j \in 1..(n - 1),
                      i < j, IsOf(v, i)', IsOf(v, j)',
                      \A m \in (i + 1)..(j - 1) : ~IsOf(v, m)'
               PROVE  KindAt(v, i)' # KindAt(v, j)'
    BY <1>2 DEF Turning
  <2>1. At(v, j) = j + 1 /\ j + 1 \in 1..n /\ At(v, i) \in 0..n /\ At(v, i) < j + 1
        /\ j \in 0..(n - 1)
    BY <1>2
  <2>2. ASSUME NEW m \in (At(v, i) + 1)..j PROVE ~IsOf(v, m)
    <3>1. CASE m = 1
      <4>1. v # u
        BY <1>2, <2>2, <3>1
      <4> QED BY <1>9, <3>1, <4>1
    <3>2. CASE m # 1
      <4>1. /\ m - 1 \in (i + 1)..(j - 1) /\ m - 1 \in 0..(n - 1) /\ m - 1 > 0
            /\ (m - 1) + 1 = m
        BY <1>2, <2>2, <3>2
      <4> QED BY <1>8, <4>1
    <3> QED BY <3>1, <3>2
  <2>3. (j + 1) - 1 = j
    BY <1>2
  <2>4. IsOf(v, At(v, i)) /\ IsOf(v, j + 1)
    BY <1>8, <2>1
  <2> HIDE DEF At
  <2>5. KindAt(v, At(v, i)) # KindAt(v, j + 1)
    BY <1>2, <2>1, <2>2, <2>3, <2>4 DEF Turning
  <2> QED BY <1>8, <2>1, <2>5
<1>11. ASSUME NEW v \in Urls, NEW q, LastIs(v, q) PROVE LastIs(v, q)'
  <2>1. PICK a \in 0..n : /\ IsOf(v, a) /\ KindAt(v, a) = q
                          /\ \A j \in (a + 1)..n : ~IsOf(v, j)
    BY <1>2, <1>11 DEF LastIs
  <2>2. PICK i \in 0..(n - 1) : At(v, i) = a
    <3>1. CASE a > 1
      <4>1. a - 1 \in 0..(n - 1) /\ a - 1 > 0 /\ (a - 1) + 1 = a
        BY <1>2, <3>1
      <4> QED BY <4>1
    <3>2. CASE a = 1
      <4>1. v = u
        BY <1>9, <2>1, <3>2
      <4>2. 0 \in 0..(n - 1) /\ At(v, 0) = a
        BY <1>2, <3>2, <4>1
      <4> QED BY <4>2
    <3>3. CASE a = 0
      <4>1. 1 \in (a + 1)..n
        BY <1>2, <3>3
      <4>2. v # u
        BY <1>3, <2>1, <4>1 DEF IsOf
      <4>3. 0 \in 0..(n - 1) /\ At(v, 0) = a
        BY <1>2, <3>3, <4>2
      <4> QED BY <4>3
    <3> QED BY <1>2, <3>1, <3>2, <3>3
  <2>3. ASSUME NEW j \in (i + 1)..(n - 1) PROVE ~IsOf(v, j)'
    <3>1. j \in 0..(n - 1) /\ At(v, j) = j + 1 /\ j + 1 \in (a + 1)..n
      BY <1>2, <2>2
    <3> QED BY <1>8, <2>1, <3>1
  <2>4. IsOf(v, i)' /\ KindAt(v, i)' = q
    BY <1>8, <2>1, <2>2
  <2> QED BY <1>2, <2>3, <2>4 DEF LastIs
<1>12. Heard!Next
  <2>1. /\ 0 \in 0..n /\ 1 \in 1..n /\ 0 < 1 /\ (0 + 1)..(1 - 1) = {}
    BY <1>2
  <2>2. IsOf(u, 0) /\ IsOf(u, 1) /\ KindAt(u, 0) = told[u].kind /\ KindAt(u, 1) = k
    BY <1>3, <1>4 DEF IsOf, KindAt
  <2>3. told[u].kind # k
    BY <1>2, <2>1, <2>2 DEF Turning
  <2>4. told[u].kind \in {"Open", "Closed"}
    BY DEF TypeOK
  <2>5. \A from : told[u].kind = from => Heard!Turns(u, from, k)
    BY <1>5 DEF Heard!Turns
  <2>6. CASE k = "Open"
    BY <2>3, <2>4, <2>5, <2>6 DEF Heard!Next
  <2>7. CASE k = "Closed"
    BY <2>3, <2>4, <2>5, <2>7 DEF Heard!Next
  <2> QED BY <2>6, <2>7
<1> QED BY <1>7, <1>10, <1>11, <1>12

-----------------------------------------------------------------------------
(* The steps.                                                              *)

LEMMA OwnerNotBack ==
  ASSUME SigInv, [Next]_vars
  PROVE  InnerAlive' => InnerAlive
<1>0. TypeOK
  BY DEF SigInv
<1>1. ASSUME NEW c, c \notin Connects, NEW a, Answers(c, a), UNCHANGED open
      PROVE  InnerAlive' => InnerAlive
  BY <1>0, <1>1 DEF Answers, InnerAlive, Owners, TypeOK
<1>2. ASSUME NEW l \in Listens, ListenStep(l) PROVE InnerAlive' => InnerAlive
  <2>1. l \notin Connects
    BY SigAssumption
  <2> QED BY <1>1, <1>2, <2>1 DEF ListenStep, ListenFinds, ListenMakes
<1>3. ASSUME NEW c \in Connects, ConnectStep(c) PROVE InnerAlive
  BY <1>3, SigsNat DEF ConnectStep, ConnectFinds, ConnectMakes, ConnectAwakes, ConnectEnds,
                       InnerAlive, Owners
<1>4. ASSUME NEW s \in Sigs, SigStep(s) PROVE InnerAlive' <=> InnerAlive
  <2>1. CASE ServerReached(s) \/ ServerMissed(s) \/ Cancels(s)
    BY <1>0, <2>1, RespondsOwners DEF ServerReached, ServerMissed, Cancels
  <2> QED BY <1>4, <2>1, OwnersSame
          DEF SigStep, TriesAgain, SaysOpen, ServerLost, Pauses, SaysClosed, DropsGuard,
              Removes, Succeeds, FindsNothing, Only, handles
<1>5. CASE DropEndpoint
  BY <1>5 DEF DropEndpoint, InnerAlive, Owners
<1>6. CASE Recv \/ UNCHANGED vars
  BY <1>6, OwnersSame DEF Recv, vars, handles
<1> QED BY <1>2, <1>3, <1>4, <1>5, <1>6 DEF Next

LEMMA QuietHistory ==
  ASSUME SigInv, HistInv, InnerAlive' => InnerAlive,
         UNCHANGED << url, listener, stage, events, told >>
  PROVE  HistInv'
<1>1. \A s \in Sigs : Live(s)' <=> Live(s)
  BY DEF Live
<1> QED BY <1>1, HistoryStays DEF SigInv, UrlsStay, HistInv, Agrees

LEMMA MovesHistory ==
  ASSUME SigInv, HistInv, InnerAlive' => InnerAlive,
         NEW s \in Sigs, NEW from, NEW to, Moves(s, from, to), from \notin {"none", "ended"},
         UNCHANGED << url, listener, events, told >>,
         listener[s] => IF to = "ended" THEN ~InnerAlive
                        ELSE to # "none" /\ (from \in Telling <=> to \in Telling)
  PROVE  HistInv'
<1>1. /\ TypeOK /\ stage[s] = from /\ stage'[s] = to
      /\ \A q \in Sigs : q # s => stage'[q] = stage[q]
  BY DEF SigInv, TypeOK, Moves
<1>2. \A q \in Sigs : Live(q)' => Live(q) /\ (stage[q] \in Telling <=> stage'[q] \in Telling)
  BY <1>1 DEF Live
<1>3. InnerAlive' => \A q \in Sigs : Live(q) => Live(q)'
  BY <1>1 DEF Live
<1>4. InnerAlive' =>
        \A u \in Urls : (\A q \in Sigs : Live(q)' => url'[q] # u) => LastIs(u, "Closed")
  BY <1>3 DEF HistInv, Agrees
<1> QED BY <1>1, <1>2, <1>4, HistoryStays DEF UrlsStay

LEMMA MakesHistory ==
  ASSUME SigInv, HistInv, InnerAlive' => InnerAlive,
         NEW u \in Urls, NEW t \in Sigs, NEW b \in BOOLEAN, Makes(t, u, b), Replaces(u, t, b),
         UNCHANGED << events, told >>,
         b => LastIs(u, "Closed"),
         map[u] # NoSig => (listener[map[u]] => b),
         \A q \in Sigs : q # t => stage'[q] = stage[q] \/ q = map[u]
  PROVE  HistInv'
<1>1. /\ TypeOK /\ url[t] = NoUrl /\ stage[t] = "none"
      /\ url \in [Sigs -> Urls \cup {NoUrl}] /\ listener \in [Sigs -> BOOLEAN]
  BY DEF Makes, IsNext, SigInv, Made, TypeOK
<1>2. /\ url'[t] = u /\ listener'[t] = b /\ stage'[t] = "connecting"
      /\ \A q \in Sigs : q # t => url'[q] = url[q] /\ listener'[q] = listener[q]
  BY <1>1 DEF Makes, Replaces
<1>3. UrlsStay
  BY <1>1, <1>2 DEF UrlsStay
<1>4. ASSUME NEW q \in Sigs, NEW v \in Urls, Live(q)', url'[q] = v
      PROVE  \/ Live(q) /\ url[q] = v /\ (stage[q] \in Telling <=> stage'[q] \in Telling)
             \/ stage'[q] \notin Telling /\ LastIs(v, "Closed")
  <2>1. CASE q = t
    BY <1>2, <1>4, <2>1 DEF Live, Telling
  <2>2. CASE q # t
    BY <1>2, <1>4, <2>2 DEF Live, Replaces
  <2> QED BY <2>1, <2>2
<1>5. ASSUME InnerAlive', NEW v \in Urls, \A q \in Sigs : Live(q)' => url'[q] # v
      PROVE  LastIs(v, "Closed")
  <2>1. b => v # u
    BY <1>2, <1>5 DEF Live
  <2>2. ASSUME NEW q \in Sigs, Live(q), url[q] = v PROVE FALSE
    <3>1. q # t
      BY <1>1, <2>2 DEF Live
    <3>2. CASE stage'[q] = stage[q]
      BY <1>2, <1>5, <2>2, <3>1, <3>2 DEF Live
    <3>3. CASE q = map[u]
      BY <2>1, <2>2, <3>3, SigsNat DEF Live, SigInv, MapUrl
    <3> QED BY <3>1, <3>2, <3>3
  <2> QED BY <1>5, <2>2 DEF HistInv, Agrees
<1> QED BY <1>1, <1>3, <1>4, <1>5, HistoryStays

LEMMA SpeaksHistory ==
  ASSUME SigInv, HistInv, InnerAlive' => InnerAlive, NEW s \in Sigs, NEW from, NEW to,
         NEW k \in {"Open", "Closed"}, Moves(s, from, to), Puts(k, s),
         UNCHANGED << url, listener, told >>,
         \/ from = "opening" /\ to = "accepting" /\ k = "Open"
         \/ from = "closing" /\ to = "dropping" /\ k = "Closed"
  PROVE  HistInv'
<1>1. /\ TypeOK /\ stage[s] = from /\ stage'[s] = to
      /\ \A q \in Sigs : q # s => stage'[q] = stage[q]
  BY DEF SigInv, TypeOK, Moves
<1>2. Live(s) /\ url[s] \in Urls
  BY <1>1, SuccessorUrl DEF SigInv, ListenersSpeak, Live
<1>3. PICK u \in Urls : url[s] = u
  BY <1>2
<1>4. PICK l : l # k /\ LastIs(u, l)
  BY <1>1, <1>2, <1>3 DEF HistInv, Agrees, Telling
<1>5. /\ EventsMade' /\ Turning' /\ LastIs(u, k)'
      /\ \A v, q : v # u /\ LastIs(v, q) => LastIs(v, q)'
  BY <1>1, <1>3, <1>4, HistoryGrows DEF HistInv
<1>6. \A q \in Sigs : Live(q)' <=> Live(q)
  BY <1>1 DEF Live
<1>7. ASSUME NEW q \in Sigs, NEW v \in Urls, Live(q)', url'[q] = v
      PROVE  /\ stage'[q] \in Telling => LastIs(v, "Open")'
             /\ stage'[q] \notin Telling => LastIs(v, "Closed")'
  <2>1. CASE v = u
    <3>1. q = s
      BY <1>2, <1>3, <1>6, <1>7, <2>1 DEF SigInv, OneListener
    <3> QED BY <1>1, <1>5, <2>1, <3>1 DEF Telling
  <2>2. CASE v # u
    <3>1. q # s /\ Live(q) /\ url[q] = v
      BY <1>3, <1>6, <1>7, <2>2
    <3> QED BY <1>1, <1>5, <2>2, <3>1 DEF HistInv, Agrees
  <2> QED BY <2>1, <2>2
<1>8. ASSUME InnerAlive', NEW v \in Urls, \A q \in Sigs : Live(q)' => url'[q] # v
      PROVE  LastIs(v, "Closed")'
  <2>1. v # u
    BY <1>2, <1>3, <1>6, <1>8
  <2>2. LastIs(v, "Closed")
    BY <1>6, <1>8 DEF HistInv, Agrees
  <2> QED BY <1>5, <2>1, <2>2
<1>9. Agrees'
  BY <1>7, <1>8 DEF Agrees
<1> QED BY <1>5, <1>9 DEF HistInv

LEMMA RecvHistory ==
  ASSUME SigInv, HistInv, Recv
  PROVE  HistInv'
<1>1. /\ EventsMade' /\ Turning'
      /\ \A v \in Urls : \A q : LastIs(v, q) => LastIs(v, q)'
  BY HistoryShrinks DEF SigInv, HistInv
<1>2. UNCHANGED << url, listener, stage >> /\ (InnerAlive' <=> InnerAlive)
  BY OwnersSame DEF Recv, handles
<1>3. \A q \in Sigs : Live(q)' <=> Live(q)
  BY <1>2 DEF Live
<1>4. Agrees'
  BY <1>1, <1>2, <1>3 DEF HistInv, Agrees
<1> QED BY <1>1, <1>4 DEF HistInv

LEMMA SigStepHistory ==
  ASSUME SigInv, HistInv, InnerAlive' => InnerAlive, NEW s \in Sigs, SigStep(s)
  PROVE  HistInv'
<1>0. TypeOK
  BY DEF SigInv
<1>1. CASE ServerReached(s) \/ ServerMissed(s) \/ TriesAgain(s) \/ ServerLost(s) \/ Pauses(s)
  BY <1>1, MovesHistory
  DEF ServerReached, ServerMissed, TriesAgain, ServerLost, Pauses, Only, handles, Telling
<1>2. CASE Cancels(s)
  <2>1. stage[s] \notin {"none", "ended"}
    BY <1>2 DEF Cancels, Running, Up, Down
  <2>2. ~InMap(map, s)
    BY <1>2 DEF Cancels, SigInv, AbortedIsGone, Alive
  <2>3. listener[s] => ~InnerAlive
    BY <1>0, <2>1, <2>2, SuccessorUrl DEF SigInv, ListenerIn, Live, InMap
  <2> QED BY <1>2, <2>1, <2>3, MovesHistory DEF Cancels
<1>3. CASE FindsNothing(s)
  <2>1. stage[s] = "dropping"
    BY <1>3 DEF FindsNothing, Only, Moves
  <2>2. listener[s] => ~InnerAlive
    BY <1>3, <2>1 DEF FindsNothing, SigInv, ListenerIn, Live
  <2> QED BY <1>3, <2>2, MovesHistory DEF FindsNothing, Only, handles
<1>4. CASE SaysOpen(s) \/ SaysClosed(s)
  BY <1>4, SpeaksHistory DEF SaysOpen, SaysClosed
<1>5. CASE Removes(s)
  BY <1>5, MovesHistory DEF Removes
<1>6. ASSUME NEW t \in Sigs, Succeeds(s, t) PROVE HistInv'
  <2>1. url[s] \in Urls /\ s # t /\ Live(s) /\ map[url[s]] = s /\ stage[s] = "dropping"
    BY <1>0, <1>6, SuccessorUrl DEF Succeeds, Makes, IsNext, SigInv, Made, Live
  <2>2. PICK u \in Urls : url[s] = u
    BY <2>1
  <2>3. LastIs(u, "Closed")
    BY <2>1, <2>2 DEF HistInv, Agrees, Telling
  <2>4. stage' = [stage EXCEPT ![s] = "ended", ![t] = "connecting"] /\ stage \in [Sigs -> Stage]
    BY <1>0, <1>6 DEF Succeeds, TypeOK
  <2>5. Replaces(u, t, TRUE)
    BY <2>1, <2>2, <2>4, SigsNat DEF Replaces
  <2>6. Makes(t, u, TRUE) /\ UNCHANGED << events, told >>
    BY <1>6, <2>2 DEF Succeeds
  <2>7. map[u] # NoSig => (listener[map[u]] => TRUE)
    OBVIOUS
  <2>8. \A q \in Sigs : q # t => stage'[q] = stage[q] \/ q = map[u]
    BY <2>1, <2>2, <2>4
  <2> QED BY <2>3, <2>5, <2>6, <2>7, <2>8, MakesHistory
<1> QED BY <1>1, <1>2, <1>3, <1>4, <1>5, <1>6 DEF SigStep, DropsGuard

LEMMA HistInvInit == Init => HistInv
<1> SUFFICES ASSUME Init PROVE HistInv
  OBVIOUS
<1>1. Len(events) = 0 /\ 1..0 = {} /\ 0..0 = {0} /\ (0 + 1)..0 = {}
  BY DEF Init
<1>2. \A u \in Urls : LastIs(u, "Closed")
  BY <1>1 DEF Init, LastIs, IsOf, KindAt
<1>3. \A s \in Sigs : ~Live(s)
  BY DEF Init, Live
<1> QED BY <1>1, <1>2, <1>3 DEF HistInv, EventsMade, Turning, Agrees

LEMMA HistInvNext == SigInv /\ HistInv /\ [Next]_vars => HistInv'
<1> SUFFICES ASSUME SigInv, HistInv, [Next]_vars PROVE HistInv'
  OBVIOUS
<1>0. TypeOK /\ (InnerAlive' => InnerAlive)
  BY OwnerNotBack DEF SigInv
<1>1. ASSUME NEW l \in Listens, ListenStep(l) PROVE HistInv'
  <2>1. ASSUME NEW u \in Urls, NEW t \in Sigs, ListenMakes(l, u, t) PROVE HistInv'
    <3>1. InnerAlive /\ map[u] = NoSig
      BY <2>1 DEF ListenMakes, InnerAlive
    <3>2. \A q \in Sigs : Live(q) => url[q] # u
      BY <3>1, SigsNat DEF SigInv, ListenerIn
    <3>3. LastIs(u, "Closed")
      BY <3>1, <3>2 DEF HistInv, Agrees
    <3>4. Replaces(u, t, TRUE) /\ \A q \in Sigs : q # t => stage'[q] = stage[q]
      BY <1>0, <2>1, <3>1 DEF ListenMakes, Replaces, TypeOK
    <3> QED BY <1>0, <2>1, <3>1, <3>3, <3>4, MakesHistory DEF ListenMakes
  <2>2. ASSUME NEW u \in Urls, ListenFinds(l, u) PROVE HistInv'
    BY <1>0, <2>2, QuietHistory DEF ListenFinds
  <2> QED BY <1>1, <2>1, <2>2 DEF ListenStep
<1>2. ASSUME NEW c \in Connects, ConnectStep(c) PROVE HistInv'
  <2>1. ASSUME NEW u \in Urls, NEW t \in Sigs, ConnectMakes(c, u, t) PROVE HistInv'
    <3>1. map[u] = NoSig
      BY <2>1 DEF ConnectMakes
    <3>2. Replaces(u, t, FALSE) /\ \A q \in Sigs : q # t => stage'[q] = stage[q]
      BY <1>0, <2>1, <3>1 DEF ConnectMakes, Replaces, TypeOK
    <3> QED BY <1>0, <2>1, <3>1, <3>2, MakesHistory DEF ConnectMakes
  <2> QED BY <1>0, <1>2, <2>1, QuietHistory
          DEF ConnectStep, ConnectFinds, ConnectAwakes, ConnectEnds
<1>3. CASE DropEndpoint \/ UNCHANGED vars
  BY <1>0, <1>3, QuietHistory DEF DropEndpoint, vars
<1> QED
  BY <1>0, <1>1, <1>2, <1>3, SigStepHistory, RecvHistory DEF Next

(* Every step maps to a step of ListeningEvents or a stutter.              *)
LEMMA StepIsHeard == SigInv /\ HistInv /\ [Next]_vars => [Heard!Next]_told
<1> SUFFICES ASSUME SigInv, HistInv, [Next]_vars PROVE Heard!Next \/ UNCHANGED told
  OBVIOUS
<1>1. CASE Recv
  BY <1>1, HistoryShrinks DEF SigInv, HistInv
<1>2. ASSUME NEW l \in Listens, ListenStep(l) PROVE UNCHANGED told
  BY <1>2 DEF ListenStep, ListenFinds, ListenMakes
<1>3. ASSUME NEW c \in Connects, ConnectStep(c) PROVE UNCHANGED told
  BY <1>3 DEF ConnectStep, ConnectFinds, ConnectMakes, ConnectAwakes, ConnectEnds
<1>4. ASSUME NEW s \in Sigs, SigStep(s) PROVE UNCHANGED told
  BY <1>4 DEF SigStep, ServerReached, ServerMissed, TriesAgain, SaysOpen, ServerLost, Pauses,
              SaysClosed, Cancels, DropsGuard, Removes, Succeeds, FindsNothing, Only
<1>5. CASE DropEndpoint \/ UNCHANGED vars
  BY <1>5 DEF DropEndpoint, vars
<1> QED BY <1>1, <1>2, <1>3, <1>4, <1>5 DEF Next

(* What is queued and heard of a url agrees with the stage of its listener.*)
THEOREM HistInvHolds == Spec => []HistInv
  BY SigInvHolds, HistInvInit, HistInvNext, PTL DEF Spec

(* The application hears that a listening address opens and closes by      *)
(* turns, whichever sig stands behind it.                                  *)
THEOREM SigIsHeardByTurns == Spec => OpensAndClosesByTurns
<1>1. Init => Heard!Init
  BY DEF Init, Heard!Init
<1> QED
  BY <1>1, SigInvHolds, HistInvHolds, StepIsHeard, PTL
  DEF Spec, OpensAndClosesByTurns, Heard!Spec
=============================================================================
