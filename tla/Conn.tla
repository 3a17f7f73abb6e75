-------------------------------- MODULE Conn --------------------------------
(***************************************************************************)
(* A connection (tx5-connection/src/conn.rs): the two ends of it, the      *)
(* signal server between them and the webrtc backend each end may own.     *)
(*                                                                         *)
(* The task of an end (con_task) shakes hands over the signal server, then *)
(* tries webrtc, and when that fails in a way that allows it, relays the   *)
(* messages over the signal server.  An end that is dropped is followed by *)
(* another one for the same peer, made by its owner or by the hub when the *)
(* peer's signals still arrive: `gen` numbers them, and stands for the     *)
(* random nonce of their handshake.                                        *)
(*                                                                         *)
(* A task takes its commands from one channel that the hub, the backend,   *)
(* the timer and the owner fill.  Its order says nothing about commands of *)
(* different sources, so each source has a queue of its own here: sig for  *)
(* the signal server (which delivers in order) together with the hub, chan *)
(* for the data channel.                                                   *)
(*                                                                         *)
(* The backend is visible through its interface only (webrtc.rs): ice      *)
(* candidates decide whether the data channel opens, which is left open.   *)
(***************************************************************************)
EXTENDS Naturals, Sequences

CONSTANTS
  Ends,        \* the two peers
  Polite,      \* the one that awaits the webrtc offer
  ForceRelay,  \* ends with danger_force_signal_relay
  DenyRelay,   \* ends with danger_deny_signal_relay
  Eager,       \* owners may send before the connection is ready
  Misses,      \* ends whose backend (go-pion) misses the first messages of a
               \* channel that it accepts
  Faults,      \* tasks may end and backends may fail for no visible reason
  MaxGen,      \* connections an end makes (bounds the model)
  MaxMsgs,     \* messages a connection sends (bounds the model)
  MaxLost      \* signals that may be lost (bounds the model)

ASSUME ConnAssumption ==
  /\ Polite \in Ends
  /\ \E e \in Ends : e # Polite /\ Ends = {e, Polite}
  /\ Misses \subseteq {Polite}
  /\ ForceRelay \subseteq Ends /\ DenyRelay \subseteq Ends
  /\ Eager \in BOOLEAN /\ Faults \in BOOLEAN
  /\ MaxGen \in Nat /\ MaxMsgs \in Nat /\ MaxLost \in Nat

VARIABLES
  phase,    \* where the task of an end is
  gen,      \* the connections the end has made, and the nonce of the last
  shook,    \* the handshake: a request was answered, an answer was received
  partner,  \* the peer's connection that answered (a history variable)
  ready,    \* the ready semaphore is closed
  rtc,      \* the webrtc backend
  chan,     \* messages on their way to an end over the data channel
  sig,      \* signals on their way to an end
  nsent,    \* messages each connection of an end was given to send
  inbox,    \* what a connection delivered to its owner
  missed,   \* the first messages of its data channel that never reached it
  lost      \* signals lost so far

vars == << phase, gen, shook, partner, ready, rtc, chan, sig,
           nsent, inbox, missed, lost >>
sessionVars == << gen, shook, partner >>
dataVars == << nsent, inbox, missed >>

Gens == 1..MaxGen
None == 0
Other(e) == CHOOSE o \in Ends : o # e

(* n is a nonce, or the number of a message. *)
Signal ==
  [t : {"req", "res"}, from : Gens, n : Gens]
    \cup [t : {"offer", "answer"}, from : Gens, n : {0}]
    \cup [t : {"msg"}, from : Gens, n : 1..MaxMsgs]
Message == [from : Gens, n : 1..MaxMsgs, via : {"rtc", "relay"}]
Backend ==
  [state : {"off", "up", "closed"},
   desc : {"none", "pending", "sent"},   \* the local offer or answer
   remote : Gens \cup {None},            \* whose offer or answer was set
   opened : BOOLEAN]                     \* the data channel was opened
NoBackend == [state |-> "off", desc |-> "none", remote |-> None, opened |-> FALSE]
Strangers == [req |-> FALSE, res |-> FALSE]

TypeOK ==
  /\ phase \in [Ends -> {"none", "new", "handshake", "webrtc", "fallback", "ended"}]
  /\ gen \in [Ends -> 0..MaxGen]
  /\ shook \in [Ends -> [req : BOOLEAN, res : BOOLEAN]]
  /\ partner \in [Ends -> Gens \cup {None}]
  /\ ready \in [Ends -> BOOLEAN]
  /\ rtc \in [Ends -> Backend]
  /\ chan \in [Ends -> Seq(Message)]
  /\ sig \in [Ends -> Seq(Signal)]
  /\ nsent \in [Ends -> [Gens -> 0..MaxMsgs]]
  /\ inbox \in [Ends -> Seq(Message)]
  /\ missed \in [Ends -> Nat]
  /\ lost \in 0..MaxLost
  /\ \A e \in Ends : phase[e] # "webrtc" => rtc[e] = NoBackend /\ chan[e] = << >>

Init ==
  /\ phase = [e \in Ends |-> "none"]
  /\ gen = [e \in Ends |-> 0]
  /\ shook = [e \in Ends |-> Strangers]
  /\ partner = [e \in Ends |-> None]
  /\ ready = [e \in Ends |-> FALSE]
  /\ rtc = [e \in Ends |-> NoBackend]
  /\ chan = [e \in Ends |-> << >>]
  /\ sig = [e \in Ends |-> << >>]
  /\ nsent = [e \in Ends |-> [g \in Gens |-> 0]]
  /\ inbox = [e \in Ends |-> << >>]
  /\ missed = [e \in Ends |-> 0]
  /\ lost = 0

Running(e) == phase[e] \in {"new", "handshake", "webrtc", "fallback"}

-----------------------------------------------------------------------------
(* Signals.                                                                *)

Gets(e, types) == sig[e] # << >> /\ Head(sig[e]).t \in types
First(e) == Head(sig[e])
Took(e) == [sig EXCEPT ![e] = Tail(@)]
Signals(s, e, t, n) ==
  [s EXCEPT ![Other(e)] = Append(@, [t |-> t, from |-> gen[e], n |-> n])]

(* Delivers a message to the owner. *)
Delivers(e, from, n, via) ==
  inbox' = [inbox EXCEPT ![e] = Append(@, [from |-> from, n |-> n, via |-> via])]

(* The task leaves a phase, and with it goes the backend. *)
EndsAs(e, p) ==
  /\ phase' = [phase EXCEPT ![e] = p]
  /\ rtc' = [rtc EXCEPT ![e] = NoBackend]
  /\ chan' = [chan EXCEPT ![e] = << >>]

(* It returns; the semaphore stays as it is. *)
Returns(e) == EndsAs(e, "ended") /\ UNCHANGED ready

(* con_task after a failed webrtc attempt. *)
FallsBack(e) ==
  IF e \in DenyRelay
    THEN Returns(e)
    ELSE EndsAs(e, "fallback") /\ ready' = [ready EXCEPT ![e] = TRUE]

-----------------------------------------------------------------------------
(* The life of a connection.                                               *)

(* Conn::priv_new. *)
Begins(e) ==
  /\ phase[e] = "none" /\ gen[e] < MaxGen
  /\ phase' = [phase EXCEPT ![e] = "new"]
  /\ gen' = [gen EXCEPT ![e] = @ + 1]
  /\ shook' = [shook EXCEPT ![e] = Strangers]
  /\ partner' = [partner EXCEPT ![e] = None]
  /\ ready' = [ready EXCEPT ![e] = FALSE]
  /\ inbox' = [inbox EXCEPT ![e] = << >>]
  /\ missed' = [missed EXCEPT ![e] = 0]
  /\ UNCHANGED << rtc, chan, sig, nsent, lost >>

(* The owner connects, or the hub receives a signal. *)
Connects(e) == Begins(e)
Accepts(e) == sig[e] # << >> /\ Begins(e)

(* The owner drops its handle, which aborts the task. *)
Drops(e) ==
  /\ phase[e] # "none"
  /\ EndsAs(e, "none")
  /\ UNCHANGED << sessionVars, ready, sig, dataVars, lost >>

(* The task ends for a reason of its own: nothing to do for max_idle, the  *)
(* command channel or the owner's closed, the signal client gone.  When    *)
(* the command channel closes during the handshake it goes on to webrtc    *)
(* and ends there, or, without webrtc, in the relay, which is ready first. *)
Closes(e) ==
  /\ Faults /\ Running(e) /\ EndsAs(e, "ended")
  /\ \/ UNCHANGED ready
     \/ /\ phase[e] = "handshake" /\ e \in ForceRelay \ DenyRelay
        /\ ready' = [ready EXCEPT ![e] = TRUE]
  /\ UNCHANGED << sessionVars, sig, dataVars, lost >>

(* The hub finds the connection closed, or does not make another one. *)
SignalDropped(e) ==
  /\ \/ phase[e] = "ended"
     \/ phase[e] = "none" /\ gen[e] = MaxGen
  /\ sig[e] # << >> /\ sig' = Took(e)
  /\ UNCHANGED << phase, sessionVars, ready, rtc, chan, dataVars, lost >>

SignalLost(e) ==
  /\ lost < MaxLost /\ lost' = lost + 1
  /\ sig[e] # << >> /\ sig' = Took(e)
  /\ UNCHANGED << phase, sessionVars, ready, rtc, chan, dataVars >>

-----------------------------------------------------------------------------
(* The handshake.                                                          *)

(* Faulty variant: the peer's request is not waited for. *)
AnswerSuffices(s) == s.res
BothHalves(s) == s.req /\ s.res
(* Both halves are there: webrtc is tried next.  The impolite end starts   *)
(* with an offer.                                                          *)
Proceeds(e, s) ==
  /\ shook' = [shook EXCEPT ![e] = s]
  /\ IF ~BothHalves(s) THEN UNCHANGED << phase, ready, rtc, chan >>
     ELSE IF e \in ForceRelay THEN FallsBack(e)
     ELSE /\ phase' = [phase EXCEPT ![e] = "webrtc"]
          /\ rtc' = [rtc EXCEPT ![e] =
                       [NoBackend EXCEPT !.state = "up",
                          !.desc = IF e = Polite THEN "none" ELSE "pending"]]
          /\ UNCHANGED << ready, chan >>

(* The task starts with a request. *)
Requests(e) ==
  /\ phase[e] = "new"
  /\ phase' = [phase EXCEPT ![e] = "handshake"]
  /\ sig' = Signals(sig, e, "req", gen[e])
  /\ UNCHANGED << sessionVars, ready, rtc, chan, dataVars, lost >>

AnswersRequest(e) ==
  /\ phase[e] = "handshake" /\ Gets(e, {"req"})
  /\ sig' = Signals(Took(e), e, "res", First(e).n)
  /\ Proceeds(e, [shook[e] EXCEPT !.req = TRUE])
  /\ UNCHANGED << gen, partner, dataVars, lost >>

(* Faulty variant: the nonce is not compared. *)
AnyNonce(e) == TRUE
NonceIsMine(e) == First(e).n = gen[e]
TakesAnswer(e) ==
  /\ phase[e] = "handshake" /\ Gets(e, {"res"}) /\ NonceIsMine(e)
  /\ sig' = Took(e)
  /\ partner' = [partner EXCEPT ![e] = First(e).from]
  /\ Proceeds(e, [shook[e] EXCEPT !.res = TRUE])
  /\ UNCHANGED << gen, dataVars, lost >>

RefusesNonce(e) ==
  /\ phase[e] = "handshake" /\ Gets(e, {"res"}) /\ ~NonceIsMine(e)
  /\ sig' = Took(e) /\ Returns(e)
  /\ UNCHANGED << sessionVars, dataVars, lost >>

(* Faulty variant: a message is passed on. *)
HandshakeDelivers(e) ==
  /\ phase[e] = "handshake" /\ Gets(e, {"offer", "answer", "msg"})
  /\ sig' = Took(e)
  /\ Delivers(e, First(e).from, First(e).n, "relay")
  /\ UNCHANGED << phase, sessionVars, ready, rtc, chan, nsent, missed, lost >>
(* Everything else may be from a previous session. *)
HandshakeIgnores(e) ==
  /\ phase[e] = "handshake" /\ Gets(e, {"offer", "answer", "msg"})
  /\ sig' = Took(e)
  /\ UNCHANGED << phase, sessionVars, ready, rtc, chan, dataVars, lost >>

(* Faulty variant: the timeout is missing. *)
NeverTimesOut(e) == FALSE
HandshakeTimesOut(e) ==
  /\ phase[e] \in {"new", "handshake"} /\ Returns(e)
  /\ UNCHANGED << sessionVars, sig, dataVars, lost >>

-----------------------------------------------------------------------------
(* The webrtc attempt: signals of the peer.                                *)

RefusesHandshake(e) ==
  /\ phase[e] = "webrtc" /\ Gets(e, {"req", "res"})
  /\ sig' = Took(e) /\ Returns(e)
  /\ UNCHANGED << sessionVars, dataVars, lost >>

(* Faulty variant: the message is passed on, and that is all. *)
StaysWithRtc(e) ==
  /\ phase[e] = "webrtc" /\ Gets(e, {"msg"})
  /\ sig' = Took(e)
  /\ Delivers(e, First(e).from, First(e).n, "relay")
  /\ UNCHANGED << phase, sessionVars, ready, rtc, chan, nsent, missed, lost >>
(* The peer relays: it does not use webrtc, or not any more. *)
FollowsToRelay(e) ==
  /\ phase[e] = "webrtc" /\ Gets(e, {"msg"})
  /\ sig' = Took(e)
  /\ Delivers(e, First(e).from, First(e).n, "relay")
  /\ FallsBack(e)
  /\ UNCHANGED << sessionVars, nsent, missed, lost >>

(* The backend heeds the first offer of an impolite peer and the first     *)
(* answer of a polite one.                                                 *)
Heeds(e, t) == rtc[e].remote = None /\ (e = Polite) = (t = "offer")
TakesDescription(e) ==
  /\ phase[e] = "webrtc" /\ Gets(e, {"offer", "answer"}) /\ rtc[e].state = "up"
  /\ sig' = Took(e)
  /\ rtc' = IF Heeds(e, First(e).t)
              THEN [rtc EXCEPT ![e].remote = First(e).from,
                               ![e].desc = IF e = Polite THEN "pending" ELSE @]
              ELSE rtc
  /\ UNCHANGED << phase, sessionVars, ready, chan, dataVars, lost >>

(* The backend is closed and refuses it. *)
DescriptionRefused(e) ==
  /\ phase[e] = "webrtc" /\ Gets(e, {"offer", "answer"}) /\ rtc[e].state = "closed"
  /\ sig' = Took(e) /\ FallsBack(e)
  /\ UNCHANGED << sessionVars, dataVars, lost >>

-----------------------------------------------------------------------------
(* The webrtc attempt: events of the backend, and of the channel between   *)
(* two backends.                                                           *)

(* GeneratedOffer and GeneratedAnswer. *)
SendsDescription(e) ==
  /\ phase[e] = "webrtc" /\ rtc[e].desc = "pending"
  /\ rtc' = [rtc EXCEPT ![e].desc = "sent"]
  /\ sig' = Signals(sig, e, IF e = Polite THEN "answer" ELSE "offer", 0)
  /\ UNCHANGED << phase, sessionVars, ready, chan, dataVars, lost >>

(* Both backends live and each was given the other's description. *)
Linked ==
  \A e \in Ends : /\ rtc[e].state = "up"
                  /\ rtc[e].remote # None /\ rtc[e].remote = gen[Other(e)]

LinkOpens(e) ==
  /\ Linked /\ ~rtc[e].opened
  /\ rtc' = [rtc EXCEPT ![e].opened = TRUE]
  /\ UNCHANGED << phase, sessionVars, ready, chan, sig, dataVars, lost >>

LinkBreaks(e) ==
  /\ Faults /\ rtc[e].state = "up"
  /\ rtc' = [rtc EXCEPT ![e].state = "closed"]
  /\ UNCHANGED << phase, sessionVars, ready, chan, sig, dataVars, lost >>

(* The peer's end of the channel is gone, which shows sooner or later. *)
LinkSeenBroken(e) ==
  /\ rtc[e].state = "up" /\ rtc[e].opened /\ ~Linked
  /\ rtc' = [rtc EXCEPT ![e].state = "closed"]
  /\ UNCHANGED << phase, sessionVars, ready, chan, sig, dataVars, lost >>

(* What a broken channel still held may not arrive. *)
LinkLoses(e) ==
  /\ chan[e] # << >> /\ ~Linked
  /\ chan' = [chan EXCEPT ![e] = SubSeq(@, 1, Len(@) - 1)]
  /\ UNCHANGED << phase, sessionVars, ready, rtc, sig, dataVars, lost >>

(* What reaches an accepted channel before go-pion has registered it is    *)
(* dropped (tx5-go-pion/src/data_chan.rs 100): the first messages, if any. *)
LinkMisses(e) ==
  /\ e \in Misses /\ chan[e] # << >> /\ inbox[e] = << >>
  /\ chan' = [chan EXCEPT ![e] = Tail(@)]
  /\ missed' = [missed EXCEPT ![e] = @ + 1]
  /\ UNCHANGED << phase, sessionVars, ready, rtc, sig, nsent, inbox, lost >>

RtcReady(e) ==
  /\ phase[e] = "webrtc" /\ rtc[e].opened /\ ~ready[e]
  /\ ready' = [ready EXCEPT ![e] = TRUE]
  /\ UNCHANGED << phase, sessionVars, rtc, chan, sig, dataVars, lost >>

RtcMessage(e) ==
  /\ phase[e] = "webrtc" /\ ready[e] /\ chan[e] # << >>
  /\ Delivers(e, Head(chan[e]).from, Head(chan[e]).n, "rtc")
  /\ chan' = [chan EXCEPT ![e] = Tail(@)]
  /\ UNCHANGED << phase, sessionVars, ready, rtc, sig, nsent, missed, lost >>

(* Faulty variant: the backend's end is not heeded. *)
CloseUnnoticed(e) == FALSE
(* Closed comes after everything else the backend had to say. *)
RtcClosed(e) ==
  /\ phase[e] = "webrtc" /\ rtc[e].state = "closed"
  /\ chan[e] = << >> /\ (rtc[e].opened => ready[e])
  /\ Returns(e)
  /\ UNCHANGED << sessionVars, sig, dataVars, lost >>

RtcTimesOut(e) ==
  /\ phase[e] = "webrtc" /\ ~ready[e]
  /\ FallsBack(e)
  /\ UNCHANGED << sessionVars, sig, dataVars, lost >>

-----------------------------------------------------------------------------
(* Messages of the owner.                                                  *)

Given(e) == nsent[e][gen[e]]
IsGiven(e) ==
  /\ Running(e) /\ Given(e) < MaxMsgs
  /\ nsent' = [nsent EXCEPT ![e][gen[e]] = @ + 1]

(* During the handshake that is an error. *)
SendsInHandshake(e) ==
  /\ Eager /\ phase[e] = "handshake" /\ IsGiven(e)
  /\ Returns(e)
  /\ UNCHANGED << sessionVars, sig, inbox, missed, lost >>

(* Before the data channel is open it makes the backend stop. *)
SendsTooEarly(e) ==
  /\ Eager /\ phase[e] = "webrtc" /\ ~rtc[e].opened /\ rtc[e].state = "up" /\ IsGiven(e)
  /\ rtc' = [rtc EXCEPT ![e].state = "closed"]
  /\ UNCHANGED << phase, sessionVars, ready, chan, sig, inbox, missed, lost >>

(* A message for a peer that is gone is lost, and so is the one that finds *)
(* the backend closed.                                                     *)
SendsOverRtc(e) ==
  /\ phase[e] = "webrtc" /\ (ready[e] \/ Eager)
  /\ rtc[e].state = "up" /\ rtc[e].opened /\ IsGiven(e)
  /\ chan' = IF Linked
               THEN [chan EXCEPT ![Other(e)] =
                       Append(@, [from |-> gen[e], n |-> Given(e) + 1, via |-> "rtc"])]
               ELSE chan
  /\ UNCHANGED << phase, sessionVars, ready, rtc, sig, inbox, missed, lost >>

SendFindsRtcClosed(e) ==
  /\ phase[e] = "webrtc" /\ (ready[e] \/ Eager)
  /\ rtc[e].state = "closed" /\ IsGiven(e)
  /\ FallsBack(e)
  /\ UNCHANGED << sessionVars, sig, inbox, missed, lost >>

SendsOverRelay(e) ==
  /\ phase[e] = "fallback" /\ IsGiven(e)
  /\ sig' = Signals(sig, e, "msg", Given(e) + 1)
  /\ UNCHANGED << phase, sessionVars, ready, rtc, chan, inbox, missed, lost >>

-----------------------------------------------------------------------------
(* The fallback.                                                           *)

RelayDelivers(e) ==
  /\ phase[e] = "fallback" /\ Gets(e, {"msg"})
  /\ sig' = Took(e)
  /\ Delivers(e, First(e).from, First(e).n, "relay")
  /\ UNCHANGED << phase, sessionVars, ready, rtc, chan, nsent, missed, lost >>

FallbackIgnores(e) ==
  /\ phase[e] = "fallback" /\ Gets(e, {"req", "res", "offer", "answer"})
  /\ sig' = Took(e)
  /\ UNCHANGED << phase, sessionVars, ready, rtc, chan, dataVars, lost >>

-----------------------------------------------------------------------------

Handshake(e) ==
  \/ Requests(e) \/ AnswersRequest(e) \/ TakesAnswer(e) \/ RefusesNonce(e)
  \/ HandshakeIgnores(e) \/ HandshakeTimesOut(e)
Attempt(e) ==
  \/ RefusesHandshake(e) \/ FollowsToRelay(e)
  \/ TakesDescription(e) \/ DescriptionRefused(e) \/ SendsDescription(e)
  \/ RtcReady(e) \/ RtcMessage(e) \/ RtcClosed(e) \/ RtcTimesOut(e)
Fallback(e) == RelayDelivers(e) \/ FallbackIgnores(e)
Owner(e) ==
  \/ Connects(e) \/ Drops(e)
  \/ SendsInHandshake(e) \/ SendsTooEarly(e)
  \/ SendsOverRtc(e) \/ SendFindsRtcClosed(e) \/ SendsOverRelay(e)
Link(e) ==
  \/ LinkOpens(e) \/ LinkBreaks(e) \/ LinkSeenBroken(e)
  \/ LinkLoses(e) \/ LinkMisses(e)
SignalServer(e) == Accepts(e) \/ SignalDropped(e) \/ SignalLost(e)

Next ==
  \E e \in Ends : \/ Handshake(e) \/ Attempt(e) \/ Fallback(e) \/ Closes(e)
                  \/ Owner(e) \/ Link(e) \/ SignalServer(e)

Spec == Init /\ [][Next]_vars

(* The tasks are polled, the hub passes signals on, timers fire and a      *)
(* broken channel is noticed.  Owners and the channel owe nothing else.    *)
Fairness ==
  \A e \in Ends : /\ WF_vars(Handshake(e)) /\ WF_vars(Attempt(e))
                  /\ WF_vars(Fallback(e)) /\ WF_vars(LinkSeenBroken(e))
                  /\ WF_vars(Accepts(e)) /\ WF_vars(SignalDropped(e))
FairSpec == Spec /\ Fairness

-----------------------------------------------------------------------------

(* An end that is past its handshake, and the peer's connection whose      *)
(* answer took it there.                                                   *)
Met(e) == BothHalves(shook[e])
Bound(e) == IF Met(e) THEN partner[e] ELSE None

(* Two ends that are past their handshakes are partners: each holds the    *)
(* answer of the other's present connection, not one of an earlier or a    *)
(* later connection (conn.rs 248-297).                                     *)
SessionsAgree ==
  \A e \in Ends : Met(e) /\ Met(Other(e)) => partner[e] = gen[Other(e)]

(* What the handshake ignores is, as the comment there has it, from a      *)
(* previous session: never from a peer that is past its handshake with     *)
(* this very connection, unless signals were lost (conn.rs 275-277).       *)
IgnoredIsStale ==
  lost = 0 => \A e \in Ends :
    (phase[e] = "handshake" /\ Gets(e, {"offer", "answer", "msg"}))
      => ~(First(e).from = gen[Other(e)] /\ Bound(Other(e)) = gen[e])

(* "close: unexpected handshake msg" ends a connection only when the peer  *)
(* has replaced the connection it was with (conn.rs 449-456).              *)
RefusesOnlyNewcomers ==
  \A e \in Ends :
    (phase[e] = "webrtc" /\ Gets(e, {"req", "res"}))
      => gen[Other(e)] > partner[e]

(* What an owner receives: first the messages that came over the data      *)
(* channel, then the relayed ones.  Messages are missing only at the       *)
(* beginning of a channel that go-pion accepted, where one path took over  *)
(* from the other, or where the signal server lost one                     *)
(* (conn.rs 457-470, 607-627, 652-691; tx5-go-pion/src/data_chan.rs 100).  *)
GapsOnlyAtTheSwitch ==
  \A e \in Ends : \A i \in 1..Len(inbox[e]) :
    LET m == inbox[e][i] IN
      IF i = 1 THEN m.via = "rtc" => m.n = missed[e] + 1
      ELSE LET l == inbox[e][i - 1] IN
             \/ m.via = l.via /\ m.n = l.n + 1
             \/ m.via = "relay" /\ m.n > l.n /\ (l.via = "rtc" \/ lost > 0)

(* A connection delivers messages of the one peer connection it shook      *)
(* hands with, in order and none twice, whatever is lost, restarted or     *)
(* switched: the pair implements ConnSession.  The messages an owner got   *)
(* are those of the partner, so their numbers tell them.                   *)
Session == INSTANCE ConnSession WITH
  bound <- [e \in Ends |-> Bound(e)], sent <- nsent,
  got <- [e \in Ends |->
            [i \in 1..Len(inbox[e]) |->
               IF inbox[e][i].from = partner[e] THEN inbox[e][i].n ELSE None]]
SessionSpec == Session!Spec

(* "Deny using the signal server as a relay if direct connections fail."   *)
(* (tx5/src/config.rs 106-109): nothing reaches such an end through it.    *)
DenyMeansNoRelay ==
  \A e \in DenyRelay : \A i \in 1..Len(inbox[e]) : inbox[e][i].via # "relay"

(* Every connection gets somewhere: it becomes ready, or it ends.          *)
Settles == \A e \in Ends : phase[e] = "new" ~> (ready[e] \/ ~Running(e))

(* An end that uses webrtc with a peer whose connection is over notices:   *)
(* it ends or relays (conn.rs 372-386, 638-645).                           *)
PeerGone(e) == phase[e] = "webrtc" /\ ready[e] /\ ~(phase[Other(e)] = "webrtc" /\ gen[Other(e)] = partner[e])
PartnerLossNoticed == \A e \in Ends : PeerGone(e) ~> phase[e] # "webrtc"
=============================================================================
