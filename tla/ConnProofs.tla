----------------------------- MODULE ConnProofs -----------------------------
(***************************************************************************)
(* What is proved of a connection: its types, that the handshake pairs     *)
(* connections that agree, what is refused and ignored and why, where      *)
(* messages may be missing, and that it implements ConnSession.            *)
(*                                                                         *)
(* HandshakeInv rests on the order of the signals.  Once a connection was  *)
(* answered, its request is behind it: whatever is still on its way from   *)
(* it is its own and no request (Answered).  A connection that answered    *)
(* and was then replaced was the last one to see the request, so its       *)
(* successor sees none and does not get past its handshake with the same   *)
(* peer (Outlived).                                                        *)
(*                                                                         *)
(* PairInv says what that leaves on its way to an end past its handshake,  *)
(* FollowInv which answer or request precedes the rest as long as nothing  *)
(* is lost.  BackendInv, DeliveryInv and SwitchInv follow the messages:    *)
(* for them an action is one of the thirteen effects of Step, on the end   *)
(* that takes it and on the other one.                                     *)
(***************************************************************************)
EXTENDS Conn, SequenceTheorems, TLAPS

(* Each end sends its signals in the order of its connections, and the     *)
(* request of a connection before everything else.                         *)
InOrder ==
  \A e \in Ends : \A i, j \in 1..Len(sig[e]) :
    i < j => /\ sig[e][i].from <= sig[e][j].from
             /\ sig[e][j].t = "req" => sig[e][i].from < sig[e][j].from

FromThePast ==
  \A e \in Ends : \A i \in 1..Len(sig[e]) :
    /\ sig[e][i].from <= gen[Other(e)]
    /\ phase[Other(e)] = "new" => sig[e][i].from < gen[Other(e)]
    /\ sig[e][i].t = "req" => sig[e][i].n = sig[e][i].from
    /\ sig[e][i].t = "res" =>
         /\ sig[e][i].n <= gen[e]
         /\ phase[e] = "new" => sig[e][i].n < gen[e]

(* What an end knows of its handshake follows its phase. *)
Phases ==
  \A e \in Ends :
    /\ shook[e].res <=> partner[e] # None
    /\ phase[e] = "new" => ~shook[e].req /\ ~shook[e].res
    /\ phase[e] # "none" => gen[e] # 0
    /\ partner[e] <= gen[Other(e)]

(* m answers the present connection of e. *)
Answers(e, m) == m.t = "res" /\ m.n = gen[e]
IsAnswered(e) == partner[e] # None \/ \E i \in 1..Len(sig[e]) : Answers(e, sig[e][i])

Answered ==
  \A e \in Ends : IsAnswered(e) =>
    \A i \in 1..Len(sig[Other(e)]) :
      sig[Other(e)][i].t # "req" /\ sig[Other(e)][i].from = gen[e]

Outlived ==
  \A e \in Ends :
    /\ partner[e] \notin {None, gen[Other(e)]} => ~shook[Other(e)].req
    /\ \A i \in 1..Len(sig[e]) :
         Answers(e, sig[e][i]) /\ sig[e][i].from # gen[Other(e)] => ~shook[Other(e)].req

HandshakeInv == InOrder /\ FromThePast /\ Phases /\ Answered /\ Outlived

-----------------------------------------------------------------------------
(* The two ends.                                                           *)

LEMMA OtherEnd ==
  ASSUME NEW e \in Ends
  PROVE  /\ Other(e) \in Ends /\ Other(e) # e /\ Other(Other(e)) = e
         /\ Ends = {e, Other(e)}
<1>1. PICK p \in Ends : p # Polite /\ Ends = {p, Polite}
  BY ConnAssumption
<1>2. \E o \in Ends : o # e
  BY <1>1, ConnAssumption
<1>3. Other(e) \in Ends /\ Other(e) # e
  BY <1>2 DEF Other
<1>4. Ends = {e, Other(e)}
  BY <1>1, <1>3
<1>5. \E o \in Ends : o # Other(e)
  BY <1>3
<1>6. Other(Other(e)) \in Ends /\ Other(Other(e)) # Other(e)
  BY <1>5 DEF Other
<1> QED
  BY <1>3, <1>4, <1>6

(* What holds of an end and of the other one holds of both. *)
LEMMA BothEnds ==
  ASSUME NEW e \in Ends, NEW x \in Ends
  PROVE  x = e \/ (x = Other(e) /\ Other(x) = e)
BY OtherEnd

-----------------------------------------------------------------------------
(* The queues of signals.                                                  *)

LEMMA TakingShifts ==
  ASSUME sig \in [Ends -> Seq(Signal)], NEW e \in Ends, sig[e] # << >>
  PROVE  /\ Took(e) \in [Ends -> Seq(Signal)]
         /\ Took(e)[Other(e)] = sig[Other(e)]
         /\ Len(Took(e)[e]) = Len(sig[e]) - 1
         /\ \A i \in 1..Len(Took(e)[e]) :
              i + 1 \in 1..Len(sig[e]) /\ Took(e)[e][i] = sig[e][i + 1]
         /\ 1 \in 1..Len(sig[e]) /\ First(e) = sig[e][1] /\ First(e) \in Signal
<1>1. sig[e] \in Seq(Signal) /\ Other(e) \in Ends /\ Other(e) # e
  BY OtherEnd
<1>2. Took(e)[e] = Tail(sig[e]) /\ Took(e)[Other(e)] = sig[Other(e)]
  BY <1>1 DEF Took
<1>3. Tail(sig[e]) \in Seq(Signal) /\ Len(Tail(sig[e])) = Len(sig[e]) - 1
  BY <1>1
<1>4. Took(e) \in [Ends -> Seq(Signal)]
  BY <1>3 DEF Took
<1>5. \A i \in 1..Len(Tail(sig[e])) :
         i + 1 \in 1..Len(sig[e]) /\ Tail(sig[e])[i] = sig[e][i + 1]
  BY <1>1
<1>6. 1 \in 1..Len(sig[e]) /\ First(e) = sig[e][1] /\ First(e) \in Signal
  BY <1>1 DEF First
<1> QED
  BY <1>2, <1>3, <1>4, <1>5, <1>6

LEMMA MessageAppends ==
  ASSUME NEW s \in [Ends -> Seq(Signal)], NEW e \in Ends, NEW m \in Signal,
         NEW r, r = [s EXCEPT ![Other(e)] = Append(@, m)]
  PROVE  /\ r \in [Ends -> Seq(Signal)]
         /\ r[e] = s[e]
         /\ Len(r[Other(e)]) = Len(s[Other(e)]) + 1
         /\ \A i \in 1..Len(s[Other(e)]) : r[Other(e)][i] = s[Other(e)][i]
         /\ r[Other(e)][Len(s[Other(e)]) + 1] = m
<1> DEFINE o == Other(e)
<1>1. o \in Ends /\ o # e
  BY OtherEnd
<1>3. s[o] \in Seq(Signal)
  BY <1>1
<1>4. /\ Append(s[o], m) \in Seq(Signal) /\ Len(Append(s[o], m)) = Len(s[o]) + 1
      /\ \A i \in 1..Len(s[o]) : Append(s[o], m)[i] = s[o][i]
      /\ Append(s[o], m)[Len(s[o]) + 1] = m
  BY <1>3
<1>6. /\ r[o] = Append(s[o], m) /\ r[e] = s[e]
      /\ r \in [Ends -> Seq(Signal)]
  BY <1>1, <1>3, <1>4
<1> QED
  BY <1>4, <1>6

LEMMA SignallingAppends ==
  ASSUME NEW s \in [Ends -> Seq(Signal)], NEW e \in Ends,
         NEW t \in {"req", "res", "offer", "answer", "msg"}, NEW n \in Nat,
         [t |-> t, from |-> gen[e], n |-> n] \in Signal
  PROVE  /\ Signals(s, e, t, n) \in [Ends -> Seq(Signal)]
         /\ Signals(s, e, t, n)[e] = s[e]
         /\ Len(Signals(s, e, t, n)[Other(e)]) = Len(s[Other(e)]) + 1
         /\ \A i \in 1..Len(s[Other(e)]) :
              Signals(s, e, t, n)[Other(e)][i] = s[Other(e)][i]
         /\ Signals(s, e, t, n)[Other(e)][Len(s[Other(e)]) + 1]
              = [t |-> t, from |-> gen[e], n |-> n]
<1> DEFINE m == [t |-> t, from |-> gen[e], n |-> n]
           r == Signals(s, e, t, n)
<1>1. m \in Signal /\ r = [s EXCEPT ![Other(e)] = Append(@, m)]
  BY DEF Signals
<1> HIDE DEF m, r
<1>2. /\ r \in [Ends -> Seq(Signal)]
      /\ r[e] = s[e]
      /\ Len(r[Other(e)]) = Len(s[Other(e)]) + 1
      /\ \A i \in 1..Len(s[Other(e)]) : r[Other(e)][i] = s[Other(e)][i]
      /\ r[Other(e)][Len(s[Other(e)]) + 1] = m
  BY <1>1, MessageAppends
<1> QED
  BY <1>2 DEF m, r

-----------------------------------------------------------------------------
(* What the actions do to phase, gen, shook, partner and sig, the state    *)
(* that HandshakeInv is about.                                             *)

DataSignals == {"offer", "answer", "msg"}
Past == {"webrtc", "fallback"}

(* Signals are only taken from e, if at all, and its task goes on or ends. *)
(* As long as it shakes hands it ignores nothing but data.                 *)
Quiet(e) ==
  /\ UNCHANGED sessionVars
  /\ sig' = sig \/ (sig[e] # << >> /\ sig' = Took(e))
  /\ \A x \in Ends : /\ phase'[x] = "new" => phase[x] = "new"
                     /\ phase'[x] # "none" => phase[x] # "none"
                     /\ phase'[x] = "handshake" => phase[x] = "handshake"
                     /\ phase'[x] \in Past => phase[x] \in Past
  /\ lost' = 0 => lost = 0
  /\ lost' = 0 /\ phase'[e] = "handshake" =>
       sig' = sig \/ First(e).t \in DataSignals

(* e sends a signal that is no part of the handshake. *)
SendsData(e) ==
  /\ UNCHANGED << sessionVars, phase, lost >> /\ phase[e] \in Past
  /\ \E t \in {"offer", "answer", "msg"}, n \in 0..MaxMsgs :
       [t |-> t, from |-> gen[e], n |-> n] \in Signal /\ sig' = Signals(sig, e, t, n)

(* e goes on when both halves are there.                                   *)
GoesOn(e) ==
  /\ phase'[e] = "handshake" => ~BothHalves(shook'[e])
  /\ phase'[e] \in Past => BothHalves(shook'[e])
  /\ lost' = lost

(* What follows the signals of the handshake does not matter here. *)
Answering(e) ==
  /\ UNCHANGED << gen, partner >> /\ GoesOn(e)
  /\ phase[e] = "handshake" /\ phase'[e] \notin {"none", "new"}
  /\ \A x \in Ends : x # e => phase'[x] = phase[x]
  /\ Gets(e, {"req"}) /\ sig' = Signals(Took(e), e, "res", First(e).n)
  /\ shook' = [shook EXCEPT ![e] = [shook[e] EXCEPT !.req = TRUE]]

Matching(e) ==
  /\ UNCHANGED gen /\ GoesOn(e)
  /\ phase[e] = "handshake" /\ phase'[e] \notin {"none", "new"}
  /\ \A x \in Ends : x # e => phase'[x] = phase[x]
  /\ Gets(e, {"res"}) /\ NonceIsMine(e) /\ sig' = Took(e)
  /\ partner' = [partner EXCEPT ![e] = First(e).from]
  /\ shook' = [shook EXCEPT ![e] = [shook[e] EXCEPT !.res = TRUE]]

LEMMA StepsAreFew ==
  ASSUME TypeOK, Phases, Next
  PROVE  \E e \in Ends :
           \/ Quiet(e) \/ SendsData(e) \/ Begins(e) \/ Requests(e)
           \/ Answering(e) \/ Matching(e)
<1>1. PICK e \in Ends : \/ Handshake(e) \/ Attempt(e) \/ Fallback(e) \/ Closes(e)
                        \/ Owner(e) \/ Link(e) \/ SignalServer(e)
  BY DEF Next
<1> DEFINE Goal == \/ Quiet(e) \/ SendsData(e) \/ Begins(e) \/ Requests(e)
                   \/ Answering(e) \/ Matching(e)
<1>t. phase \in [Ends -> {"none", "new", "handshake", "webrtc", "fallback", "ended"}]
  BY DEF TypeOK
<1>g. phase[e] # "none" => gen[e] \in Gens
  <2>1. gen \in [Ends -> 0..MaxGen]
    BY DEF TypeOK
  <2> QED
    BY <2>1, ConnAssumption DEF Phases, Gens
<1>2. ASSUME NEW p \in {"none", "ended", "fallback"}, EndsAs(e, p),
             p = "none" \/ phase[e] # "none"
      PROVE  /\ \A x \in Ends :
                  /\ phase'[x] = "new" => phase[x] = "new"
                  /\ phase'[x] # "none" => phase[x] # "none"
                  /\ phase'[x] = "handshake" => phase[x] = "handshake"
                  /\ x # e /\ phase'[x] \in Past => phase[x] \in Past
             /\ phase'[e] = p
             /\ \A x \in Ends : x # e => phase'[x] = phase[x]
  BY <1>2, <1>t DEF EndsAs
<1>3. ASSUME Returns(e), phase[e] # "none"
      PROVE  /\ \A x \in Ends :
                  /\ phase'[x] = "new" => phase[x] = "new"
                  /\ phase'[x] # "none" => phase[x] # "none"
                  /\ phase'[x] = "handshake" => phase[x] = "handshake"
                  /\ x # e /\ phase'[x] \in Past => phase[x] \in Past
             /\ phase'[e] = "ended"
             /\ \A x \in Ends : x # e => phase'[x] = phase[x]
  BY <1>2, <1>3 DEF Returns
<1>4. ASSUME FallsBack(e), phase[e] # "none"
      PROVE  /\ \A x \in Ends :
                  /\ phase'[x] = "new" => phase[x] = "new"
                  /\ phase'[x] # "none" => phase[x] # "none"
                  /\ phase'[x] = "handshake" => phase[x] = "handshake"
                  /\ x # e /\ phase'[x] \in Past => phase[x] \in Past
             /\ phase'[e] \in {"ended", "fallback"}
             /\ \A x \in Ends : x # e => phase'[x] = phase[x]
  BY <1>2, <1>3, <1>4 DEF FallsBack
<1>5. ASSUME NEW s, Proceeds(e, s), phase[e] = "handshake"
      PROVE  /\ phase'[e] \notin {"none", "new"}
             /\ phase'[e] = "handshake" => ~BothHalves(s)
             /\ phase'[e] \in Past => BothHalves(s)
             /\ \A x \in Ends : x # e => phase'[x] = phase[x]
             /\ shook' = [shook EXCEPT ![e] = s]
  BY <1>4, <1>5, <1>t DEF Proceeds, Past
<1>6. CASE Handshake(e)
  <2>1. CASE Requests(e)
    BY <2>1
  <2>2. CASE AnswersRequest(e)
    BY <2>2, <1>5 DEF AnswersRequest, Answering, GoesOn, TypeOK
  <2>3. CASE TakesAnswer(e)
    BY <2>3, <1>5 DEF TakesAnswer, Matching, GoesOn, TypeOK
  <2>4. CASE RefusesNonce(e)
    BY <2>4, <1>3 DEF RefusesNonce, Quiet, Past, DataSignals, Gets
  <2>5. CASE HandshakeIgnores(e)
    BY <2>5 DEF HandshakeIgnores, Quiet, Past, DataSignals, Gets, First
  <2>6. CASE HandshakeTimesOut(e)
    BY <2>6, <1>3 DEF HandshakeTimesOut, Quiet, Past, DataSignals
  <2> QED
    BY <1>6, <2>1, <2>2, <2>3, <2>4, <2>5, <2>6 DEF Handshake
<1>7. CASE Attempt(e)
  <2>1. CASE RefusesHandshake(e)
    BY <2>1, <1>3 DEF RefusesHandshake, Quiet, Past, DataSignals, Gets
  <2>2. CASE FollowsToRelay(e)
    BY <2>2, <1>4 DEF FollowsToRelay, Quiet, Past, DataSignals, Gets
  <2>3. CASE TakesDescription(e)
    BY <2>3 DEF TakesDescription, Quiet, Past, DataSignals, Gets
  <2>4. CASE DescriptionRefused(e)
    BY <2>4, <1>4 DEF DescriptionRefused, Quiet, Past, DataSignals, Gets
  <2>5. CASE SendsDescription(e)
    <3>1. [t |-> IF e = Polite THEN "answer" ELSE "offer", from |-> gen[e], n |-> 0] \in Signal
      BY <1>g, <2>5 DEF SendsDescription, Signal
    <3> QED
      BY <2>5, <3>1, ConnAssumption DEF SendsDescription, SendsData, Past
  <2>6. CASE RtcReady(e) \/ RtcMessage(e)
    BY <2>6 DEF RtcReady, RtcMessage, Quiet, Past, DataSignals, sessionVars
  <2>7. CASE RtcClosed(e) \/ RtcTimesOut(e)
    BY <2>7, <1>3, <1>4 DEF RtcClosed, RtcTimesOut, Quiet, Past, DataSignals
  <2> QED
    BY <1>7, <2>1, <2>2, <2>3, <2>4, <2>5, <2>6, <2>7 DEF Attempt
<1>8. CASE Fallback(e)
  BY <1>8 DEF Fallback, RelayDelivers, FallbackIgnores, Quiet, Past, DataSignals, Gets
<1>9. CASE Closes(e)
  BY <1>9, <1>2 DEF Closes, Quiet, Past, DataSignals, Running
<1>10. CASE Owner(e)
  <2>1. CASE Connects(e)
    BY <2>1 DEF Connects
  <2>2. CASE Drops(e)
    BY <2>2, <1>2 DEF Drops, Quiet, Past, DataSignals
  <2>3. CASE SendsInHandshake(e) \/ SendFindsRtcClosed(e)
    BY <2>3, <1>3, <1>4 DEF SendsInHandshake, SendFindsRtcClosed, Quiet, Past, DataSignals
  <2>4. CASE SendsTooEarly(e) \/ SendsOverRtc(e)
    BY <2>4 DEF SendsTooEarly, SendsOverRtc, Quiet, Past, DataSignals
  <2>5. CASE SendsOverRelay(e)
    <3>1. nsent \in [Ends -> [Gens -> 0..MaxMsgs]]
      BY DEF TypeOK
    <3>2. Given(e) \in 0..MaxMsgs /\ gen[e] \in Gens
      BY <1>g, <2>5, <3>1 DEF Given, SendsOverRelay
    <3>3. Given(e) + 1 \in 1..MaxMsgs
      BY <2>5, <3>2, ConnAssumption DEF SendsOverRelay, IsGiven
    <3>4. [t |-> "msg", from |-> gen[e], n |-> Given(e) + 1] \in Signal
      BY <3>2, <3>3 DEF Signal
    <3> QED
      BY <2>5, <3>3, <3>4, ConnAssumption DEF SendsOverRelay, SendsData, Past
  <2> QED
    BY <1>10, <2>1, <2>2, <2>3, <2>4, <2>5 DEF Owner
<1>11. CASE Link(e)
  BY <1>11 DEF Link, LinkOpens, LinkBreaks, LinkSeenBroken, LinkLoses, LinkMisses, Quiet, Past,
               DataSignals, sessionVars
<1>12. CASE SignalServer(e)
  <2>1. CASE Accepts(e)
    BY <2>1 DEF Accepts
  <2>2. CASE SignalDropped(e)
    BY <2>2 DEF SignalDropped, Quiet, Past
  <2>3. CASE SignalLost(e)
    <3>1. lost \in Nat
      BY ConnAssumption DEF TypeOK
    <3>2. lost' # 0
      BY <2>3, <3>1 DEF SignalLost
    <3> QED
      BY <2>3, <3>2 DEF SignalLost, Quiet
  <2> QED
    BY <1>12, <2>1, <2>2, <2>3 DEF SignalServer
<1> QED
  BY <1>1, <1>6, <1>7, <1>8, <1>9, <1>10, <1>11, <1>12

-----------------------------------------------------------------------------
(* HandshakeInv is inductive.                                              *)

(* The part of the types that these proofs use. *)
Typed ==
  /\ gen \in [Ends -> Nat] /\ partner \in [Ends -> Nat]
  /\ phase \in [Ends -> {"none", "new", "handshake", "webrtc", "fallback", "ended"}]
  /\ shook \in [Ends -> [req : BOOLEAN, res : BOOLEAN]]
  /\ sig \in [Ends -> Seq(Signal)]
  /\ \A e \in Ends : Len(sig[e]) \in Nat
  /\ \A e \in Ends : \A i \in 1..Len(sig[e]) :
       sig[e][i].from \in Nat /\ sig[e][i].from # 0 /\ sig[e][i].n \in Nat

LEMMA TypesHold == TypeOK => Typed
<1> SUFFICES ASSUME TypeOK PROVE Typed
  OBVIOUS
<1>1. gen \in [Ends -> 0..MaxGen] /\ partner \in [Ends -> Gens \cup {None}]
  BY DEF TypeOK
<1>2. 0..MaxGen \subseteq Nat /\ Gens \cup {None} \subseteq Nat
  BY ConnAssumption DEF Gens, None
<1>3. gen \in [Ends -> Nat] /\ partner \in [Ends -> Nat]
  BY <1>1, <1>2
<1>4. sig \in [Ends -> Seq(Signal)]
  BY DEF TypeOK
<1>5. \A e \in Ends : \A i \in 1..Len(sig[e]) : sig[e][i] \in Signal
  BY <1>4
<1>6. \A m \in Signal : m.from \in Nat /\ m.from # 0 /\ m.n \in Nat
  BY ConnAssumption DEF Signal, Gens
<1>7. \A e \in Ends : Len(sig[e]) \in Nat
  BY <1>4
<1>8. /\ phase \in [Ends -> {"none", "new", "handshake", "webrtc", "fallback", "ended"}]
      /\ shook \in [Ends -> [req : BOOLEAN, res : BOOLEAN]]
  BY DEF TypeOK
<1> QED
  BY <1>3, <1>4, <1>5, <1>6, <1>7, <1>8 DEF Typed

LEMMA QuietKeeps ==
  ASSUME Typed, HandshakeInv, NEW e \in Ends, Quiet(e)
  PROVE  HandshakeInv'
<1>u. gen' = gen /\ shook' = shook /\ partner' = partner
  BY DEF Quiet, sessionVars
<1>h. InOrder /\ FromThePast /\ Phases /\ Answered /\ Outlived
  BY DEF HandshakeInv
<1>1. \A x \in Ends : \E d \in {0, 1} :
        /\ Len(sig'[x]) = Len(sig[x]) - d
        /\ \A i \in 1..Len(sig'[x]) : i + d \in 1..Len(sig[x]) /\ sig'[x][i] = sig[x][i + d]
  <2>1. CASE sig' = sig
    BY <2>1 DEF Typed
  <2>2. CASE sig[e] # << >> /\ sig' = Took(e)
    <3>1. TAKE x \in Ends
    <3>2. CASE x = e
      BY <2>2, <3>2, TakingShifts DEF Typed
    <3>3. CASE x # e
      BY <2>2, <3>3, TakingShifts, BothEnds DEF Typed
    <3> QED
      BY <3>2, <3>3
  <2> QED
    BY <2>1, <2>2 DEF Quiet
<1>3. ASSUME NEW x \in Ends, NEW i \in 1..Len(sig'[x])
      PROVE  \E k \in 1..Len(sig[x]) : sig'[x][i] = sig[x][k]
  BY <1>1
<1>4. InOrder'
  <2>1. SUFFICES ASSUME NEW x \in Ends, NEW i \in 1..Len(sig'[x]), NEW j \in 1..Len(sig'[x]), i < j
        PROVE  /\ sig'[x][i].from <= sig'[x][j].from
               /\ sig'[x][j].t = "req" => sig'[x][i].from < sig'[x][j].from
    BY DEF InOrder
  <2>2. PICK k \in 1..Len(sig[x]), l \in 1..Len(sig[x]) :
          k < l /\ sig'[x][i] = sig[x][k] /\ sig'[x][j] = sig[x][l]
    BY <1>1, <2>1 DEF Typed
  <2> QED
    BY <1>h, <2>2 DEF InOrder
<1>5. FromThePast'
  <2>1. SUFFICES ASSUME NEW x \in Ends, NEW i \in 1..Len(sig'[x])
        PROVE  /\ sig'[x][i].from <= gen[Other(x)]
               /\ phase'[Other(x)] = "new" => sig'[x][i].from < gen[Other(x)]
               /\ sig'[x][i].t = "req" => sig'[x][i].n = sig'[x][i].from
               /\ sig'[x][i].t = "res" =>
                    /\ sig'[x][i].n <= gen[x]
                    /\ phase'[x] = "new" => sig'[x][i].n < gen[x]
    BY <1>u DEF FromThePast
  <2>2. PICK k \in 1..Len(sig[x]) : sig'[x][i] = sig[x][k]
    BY <1>3
  <2>3. Other(x) \in Ends
    BY OtherEnd
  <2> QED
    BY <1>h, <2>2, <2>3 DEF FromThePast, Quiet
<1>6. Phases'
  BY <1>h, <1>u DEF Phases, Quiet
<1>7. \A x \in Ends : IsAnswered(x)' => IsAnswered(x)
  <2>1. SUFFICES ASSUME NEW x \in Ends, NEW i \in 1..Len(sig'[x]), Answers(x, sig[x][i])'
        PROVE  \E k \in 1..Len(sig[x]) : Answers(x, sig[x][k])
    BY <1>u DEF IsAnswered
  <2>2. PICK k \in 1..Len(sig[x]) : sig'[x][i] = sig[x][k]
    BY <1>3
  <2> QED
    BY <1>u, <2>1, <2>2 DEF Answers
<1>8. Answered'
  <2>1. SUFFICES ASSUME NEW x \in Ends, IsAnswered(x), NEW i \in 1..Len(sig'[Other(x)])
        PROVE  sig'[Other(x)][i].t # "req" /\ sig'[Other(x)][i].from = gen[x]
    BY <1>7, <1>u DEF Answered
  <2>2. PICK k \in 1..Len(sig[Other(x)]) : sig'[Other(x)][i] = sig[Other(x)][k]
    BY <1>3, OtherEnd
  <2> QED
    BY <1>h, <2>1, <2>2 DEF Answered
<1>9. Outlived'
  <2>1. SUFFICES ASSUME NEW x \in Ends, NEW i \in 1..Len(sig'[x]),
                        Answers(x, sig[x][i])', sig'[x][i].from # gen[Other(x)]
        PROVE  ~shook[Other(x)].req
    BY <1>h, <1>u DEF Outlived
  <2>2. PICK k \in 1..Len(sig[x]) : sig'[x][i] = sig[x][k]
    BY <1>3
  <2>3. Answers(x, sig[x][k]) /\ sig[x][k].from # gen[Other(x)]
    BY <1>u, <2>1, <2>2 DEF Answers
  <2> QED
    BY <1>h, <2>3 DEF Outlived
<1> QED
  BY <1>4, <1>5, <1>6, <1>8, <1>9 DEF HandshakeInv

LEMMA BeginsKeeps ==
  ASSUME Typed, HandshakeInv, NEW e \in Ends, Begins(e)
  PROVE  HandshakeInv'
<1> DEFINE o == Other(e)
<1>o. o \in Ends /\ o # e /\ Other(o) = e /\ \A x \in Ends : x = e \/ x = o
  BY OtherEnd
<1> HIDE DEF o
<1>h. InOrder /\ FromThePast /\ Phases /\ Answered /\ Outlived
  BY DEF HandshakeInv
<1>s. sig' = sig
  BY DEF Begins
<1>u. /\ phase[e] = "none" /\ phase'[e] = "new" /\ phase'[o] = phase[o]
      /\ gen'[e] = gen[e] + 1 /\ gen'[o] = gen[o]
      /\ partner'[e] = 0 /\ partner'[o] = partner[o]
      /\ ~shook'[e].req /\ ~shook'[e].res /\ shook'[o] = shook[o]
  BY <1>o DEF Begins, Strangers, None, Typed
<1>e. \A x \in Ends : Other(x) = IF x = e THEN o ELSE e
  BY <1>o DEF o
<1>n. gen[e] \in Nat /\ gen[o] \in Nat /\ partner[o] \in Nat
  BY <1>o DEF Typed
<1>p. \A i \in 1..Len(sig[e]) : sig[e][i].t = "res" => sig[e][i].n < gen'[e]
  BY <1>h, <1>n, <1>u DEF FromThePast, Typed
<1>q. \A i \in 1..Len(sig[o]) : sig[o][i].from < gen'[e]
  BY <1>h, <1>n, <1>o, <1>u DEF FromThePast, Typed
<1>1. InOrder'
  BY <1>h, <1>s DEF InOrder
<1>2. FromThePast'
  <2>1. SUFFICES ASSUME NEW x \in Ends, NEW i \in 1..Len(sig[x])
        PROVE  /\ sig[x][i].from <= gen'[Other(x)]
               /\ phase'[Other(x)] = "new" => sig[x][i].from < gen'[Other(x)]
               /\ sig[x][i].t = "req" => sig[x][i].n = sig[x][i].from
               /\ sig[x][i].t = "res" =>
                    /\ sig[x][i].n <= gen'[x]
                    /\ phase'[x] = "new" => sig[x][i].n < gen'[x]
    BY <1>s DEF FromThePast
  <2>t. sig[x][i].from \in Nat /\ sig[x][i].n \in Nat
    BY DEF Typed
  <2>2. CASE x = e
    BY <1>h, <1>o, <1>e, <1>u, <1>p, <1>n, <2>2, <2>t DEF FromThePast
  <2>3. CASE x = o
    BY <1>h, <1>o, <1>e, <1>u, <1>q, <1>n, <2>3, <2>t DEF FromThePast
  <2> QED
    BY <1>o, <2>2, <2>3
<1>3. Phases'
  <2>1. SUFFICES ASSUME NEW x \in Ends
        PROVE  /\ shook'[x].res <=> partner'[x] # None
               /\ phase'[x] = "new" => ~shook'[x].req /\ ~shook'[x].res
               /\ phase'[x] # "none" => gen'[x] # 0
               /\ partner'[x] <= gen'[Other(x)]
    BY DEF Phases
  <2> QED
    BY <1>h, <1>o, <1>e, <1>u, <1>n DEF Phases, None
<1>4. ~IsAnswered(e)' /\ (IsAnswered(o)' => IsAnswered(o))
  <2>1. ~IsAnswered(e)'
    BY <1>u, <1>s, <1>p, <1>n DEF IsAnswered, Answers, None, Typed
  <2>2. IsAnswered(o)' => IsAnswered(o)
    BY <1>u, <1>s DEF IsAnswered, Answers
  <2> QED
    BY <2>1, <2>2
<1>5. Answered'
  BY <1>h, <1>o, <1>e, <1>u, <1>s, <1>4 DEF Answered
<1>6. Outlived'
  <2>1. SUFFICES ASSUME NEW x \in Ends
        PROVE  /\ partner'[x] \notin {None, gen'[Other(x)]} => ~shook'[Other(x)].req
               /\ \A i \in 1..Len(sig[x]) :
                    Answers(x, sig[x][i])' /\ sig[x][i].from # gen'[Other(x)] => ~shook'[Other(x)].req
    BY <1>s DEF Outlived
  <2>2. CASE x = e
    BY <1>4, <1>s, <1>u, <2>2 DEF IsAnswered, None
  <2>3. CASE x = o
    BY <1>e, <1>o, <1>u, <2>3
  <2> QED
    BY <1>o, <2>2, <2>3
<1> QED
  BY <1>1, <1>2, <1>3, <1>5, <1>6 DEF HandshakeInv

(* A signal that e sends is its last one, of its present connection. *)
LEMMA SendsDataKeeps ==
  ASSUME Typed, HandshakeInv, NEW e \in Ends, SendsData(e)
  PROVE  HandshakeInv'
<1> DEFINE o == Other(e)
<1>o. o \in Ends /\ o # e /\ Other(o) = e /\ \A x \in Ends : x = e \/ x = o
  BY OtherEnd
<1>h. InOrder /\ FromThePast /\ Phases /\ Answered /\ Outlived
  BY DEF HandshakeInv
<1>u. gen' = gen /\ shook' = shook /\ partner' = partner /\ phase' = phase
  BY DEF SendsData, sessionVars
<1>1. PICK t \in {"offer", "answer", "msg"}, n \in 0..MaxMsgs :
       [t |-> t, from |-> gen[e], n |-> n] \in Signal /\ sig' = Signals(sig, e, t, n)
  BY DEF SendsData
<1> DEFINE m == [t |-> t, from |-> gen[e], n |-> n]
<1>2. /\ sig'[e] = sig[e] /\ Len(sig'[o]) = Len(sig[o]) + 1
      /\ \A i \in 1..Len(sig[o]) : sig'[o][i] = sig[o][i]
      /\ sig'[o][Len(sig[o]) + 1] = m
  <2>1. sig \in [Ends -> Seq(Signal)]
    BY DEF Typed
  <2> DEFINE r == sig'
  <2>2. m \in Signal /\ r = [sig EXCEPT ![o] = Append(@, m)]
    BY <1>1 DEF Signals
  <2> HIDE DEF m, r
  <2>3. /\ r[e] = sig[e] /\ Len(r[o]) = Len(sig[o]) + 1
        /\ \A i \in 1..Len(sig[o]) : r[o][i] = sig[o][i]
        /\ r[o][Len(sig[o]) + 1] = m
    BY <2>1, <2>2, MessageAppends
  <2> QED
    BY <2>3 DEF r
<1>m. m.from = gen[e] /\ m.t \notin {"req", "res"}
  OBVIOUS
<1>e. \A x \in Ends : Other(x) = IF x = e THEN o ELSE e
  BY <1>o
<1>n. gen[e] \in Nat /\ gen[o] \in Nat /\ Len(sig[o]) \in Nat
  BY <1>o DEF Typed
<1> HIDE DEF o, m
<1>3. ASSUME NEW x \in Ends, NEW i \in 1..Len(sig'[x])
      PROVE  (i \in 1..Len(sig[x]) /\ sig'[x][i] = sig[x][i])
             \/ (x = o /\ i = Len(sig[o]) + 1 /\ sig'[x][i] = m)
  <2>1. CASE x = e
    BY <1>2, <1>3, <2>1
  <2>2. CASE x = o
    <3>1. i \in 1..(Len(sig[o]) + 1)
      BY <1>2, <1>3, <2>2
    <3>2. i \in 1..Len(sig[o]) \/ i = Len(sig[o]) + 1
      BY ONLY <1>n, <3>1, SMT
    <3> QED
      BY <1>2, <2>2, <3>2
  <2> QED
    BY <1>o, <2>1, <2>2
<1>4. InOrder'
  <2>1. SUFFICES ASSUME NEW x \in Ends, NEW i \in 1..Len(sig'[x]), NEW j \in 1..Len(sig'[x]), i < j
        PROVE  /\ sig'[x][i].from <= sig'[x][j].from
               /\ sig'[x][j].t = "req" => sig'[x][i].from < sig'[x][j].from
    BY DEF InOrder
  <2>2. i \in 1..Len(sig[x]) /\ sig'[x][i] = sig[x][i]
    BY <1>2, <1>3, <1>n, <2>1
  <2>3. CASE sig'[x][j] = m /\ x = o
    BY <1>h, <1>m, <1>e, <1>o, <2>2, <2>3 DEF FromThePast
  <2>4. CASE j \in 1..Len(sig[x]) /\ sig'[x][j] = sig[x][j]
    BY <1>h, <2>1, <2>2, <2>4 DEF InOrder
  <2> QED
    BY <1>3, <2>3, <2>4
<1>5. FromThePast'
  <2>1. SUFFICES ASSUME NEW x \in Ends, NEW i \in 1..Len(sig'[x])
        PROVE  /\ sig'[x][i].from <= gen[Other(x)]
               /\ phase[Other(x)] = "new" => sig'[x][i].from < gen[Other(x)]
               /\ sig'[x][i].t = "req" => sig'[x][i].n = sig'[x][i].from
               /\ sig'[x][i].t = "res" =>
                    /\ sig'[x][i].n <= gen[x]
                    /\ phase[x] = "new" => sig'[x][i].n < gen[x]
    BY <1>u DEF FromThePast
  <2>2. CASE i \in 1..Len(sig[x]) /\ sig'[x][i] = sig[x][i]
    BY <1>h, <2>2 DEF FromThePast
  <2>3. CASE x = o /\ sig'[x][i] = m
    BY <1>m, <1>n, <1>e, <1>o, <2>3 DEF SendsData, Past
  <2> QED
    BY <1>3, <2>2, <2>3
<1>6. Phases'
  BY <1>h, <1>u DEF Phases
<1>7. \A x \in Ends : IsAnswered(x)' => IsAnswered(x)
  <2>1. SUFFICES ASSUME NEW x \in Ends, NEW i \in 1..Len(sig'[x]), Answers(x, sig[x][i])'
        PROVE  \E k \in 1..Len(sig[x]) : Answers(x, sig[x][k])
    BY <1>u DEF IsAnswered
  <2> QED
    BY <1>3, <1>m, <1>u, <2>1 DEF Answers
<1>8. Answered'
  <2>1. SUFFICES ASSUME NEW x \in Ends, IsAnswered(x), NEW i \in 1..Len(sig'[Other(x)])
        PROVE  sig'[Other(x)][i].t # "req" /\ sig'[Other(x)][i].from = gen[x]
    BY <1>7, <1>u DEF Answered
  <2>2. Other(x) \in Ends /\ (Other(x) = o => x = e)
    BY <1>e, <1>o
  <2> QED
    BY <1>h, <1>3, <1>m, <2>1, <2>2 DEF Answered
<1>9. Outlived'
  <2>1. SUFFICES ASSUME NEW x \in Ends, NEW i \in 1..Len(sig'[x]),
                        Answers(x, sig[x][i])', sig'[x][i].from # gen[Other(x)]
        PROVE  ~shook[Other(x)].req
    BY <1>h, <1>u DEF Outlived
  <2>2. i \in 1..Len(sig[x]) /\ sig'[x][i] = sig[x][i]
    BY <1>3, <1>m, <2>1 DEF Answers
  <2>3. Answers(x, sig[x][i]) /\ sig[x][i].from # gen[Other(x)]
    BY <1>u, <2>1, <2>2 DEF Answers
  <2> QED
    BY <1>h, <2>2, <2>3 DEF Outlived
<1> QED
  BY <1>4, <1>5, <1>6, <1>8, <1>9 DEF HandshakeInv

(* The request of a new connection, which nobody has answered yet. *)
LEMMA RequestsKeeps ==
  ASSUME Typed, HandshakeInv, NEW e \in Ends, gen[e] \in Gens, Requests(e)
  PROVE  HandshakeInv'
<1> DEFINE o == Other(e)
<1>o. o \in Ends /\ o # e /\ Other(o) = e /\ \A x \in Ends : x = e \/ x = o
  BY OtherEnd
<1>h. InOrder /\ FromThePast /\ Phases /\ Answered /\ Outlived
  BY DEF HandshakeInv
<1>u. /\ gen' = gen /\ shook' = shook /\ partner' = partner
      /\ phase[e] = "new" /\ phase'[e] = "handshake" /\ \A x \in Ends : x # e => phase'[x] = phase[x]
  BY DEF Requests, sessionVars, Typed
<1> DEFINE m == [t |-> "req", from |-> gen[e], n |-> gen[e]]
<1>n. gen[e] \in Nat /\ gen[o] \in Nat /\ Len(sig[o]) \in Nat
  BY <1>o DEF Typed
<1>2. /\ sig'[e] = sig[e] /\ Len(sig'[o]) = Len(sig[o]) + 1
      /\ \A i \in 1..Len(sig[o]) : sig'[o][i] = sig[o][i]
      /\ sig'[o][Len(sig[o]) + 1] = m
  <2>1. sig \in [Ends -> Seq(Signal)] /\ sig' = Signals(sig, e, "req", gen[e])
    BY DEF Typed, Requests
  <2>2. m \in Signal
    BY DEF Signal
  <2> QED
    BY <1>n, <2>1, <2>2, SignallingAppends
<1>m. m.from = gen[e] /\ m.n = gen[e] /\ m.t = "req"
  OBVIOUS
<1>e. \A x \in Ends : Other(x) = IF x = e THEN o ELSE e
  BY <1>o
<1> HIDE DEF o, m
<1>3. ASSUME NEW x \in Ends, NEW i \in 1..Len(sig'[x])
      PROVE  (i \in 1..Len(sig[x]) /\ sig'[x][i] = sig[x][i])
             \/ (x = o /\ i = Len(sig[o]) + 1 /\ sig'[x][i] = m)
  BY <1>o, <1>n, <1>2
<1>4. InOrder'
  <2>1. SUFFICES ASSUME NEW x \in Ends, NEW i \in 1..Len(sig'[x]), NEW j \in 1..Len(sig'[x]), i < j
        PROVE  /\ sig'[x][i].from <= sig'[x][j].from
               /\ sig'[x][j].t = "req" => sig'[x][i].from < sig'[x][j].from
    BY DEF InOrder
  <2>2. i \in 1..Len(sig[x]) /\ sig'[x][i] = sig[x][i]
    BY <1>2, <1>3, <1>n, <2>1
  <2>3. CASE sig'[x][j] = m /\ x = o
    BY <1>h, <1>m, <1>e, <1>o, <1>u, <2>2, <2>3 DEF FromThePast
  <2>4. CASE j \in 1..Len(sig[x]) /\ sig'[x][j] = sig[x][j]
    BY <1>h, <2>1, <2>2, <2>4 DEF InOrder
  <2> QED
    BY <1>3, <2>3, <2>4
<1>5. FromThePast'
  <2>1. SUFFICES ASSUME NEW x \in Ends, NEW i \in 1..Len(sig'[x])
        PROVE  /\ sig'[x][i].from <= gen[Other(x)]
               /\ phase'[Other(x)] = "new" => sig'[x][i].from < gen[Other(x)]
               /\ sig'[x][i].t = "req" => sig'[x][i].n = sig'[x][i].from
               /\ sig'[x][i].t = "res" =>
                    /\ sig'[x][i].n <= gen[x]
                    /\ phase'[x] = "new" => sig'[x][i].n < gen[x]
    BY <1>u DEF FromThePast
  <2>e. /\ Other(x) \in Ends
        /\ phase'[Other(x)] = "new" => phase[Other(x)] = "new"
        /\ phase'[x] = "new" => phase[x] = "new"
    BY <1>u, OtherEnd
  <2>2. CASE i \in 1..Len(sig[x]) /\ sig'[x][i] = sig[x][i]
    BY <1>h, <2>2, <2>e DEF FromThePast
  <2>3. CASE x = o /\ sig'[x][i] = m
    BY <1>m, <1>n, <1>e, <1>o, <1>u, <2>3
  <2> QED
    BY <1>3, <2>2, <2>3
<1>6. Phases'
  <2>1. \A x \in Ends : phase'[x] = "new" => phase[x] = "new"
    BY <1>u
  <2>2. \A x \in Ends : phase'[x] # "none" => phase[x] # "none"
    BY <1>u
  <2> QED
    BY <1>h, <1>u, <2>1, <2>2 DEF Phases
<1>7. ~IsAnswered(e)' /\ (IsAnswered(o)' => IsAnswered(o))
  <2>1. partner[e] = None
    BY <1>h, <1>u DEF Phases
  <2>2. \A i \in 1..Len(sig[e]) : ~(sig[e][i].t = "res" /\ sig[e][i].n = gen[e])
    BY <1>h, <1>n, <1>u DEF FromThePast, Typed
  <2>3. ~IsAnswered(e)'
    BY <1>2, <1>u, <2>1, <2>2 DEF IsAnswered, Answers
  <2>4. ASSUME NEW i \in 1..Len(sig'[o]), Answers(o, sig[o][i])'
        PROVE  \E k \in 1..Len(sig[o]) : Answers(o, sig[o][k])
    BY <1>3, <1>m, <1>o, <1>u, <2>4 DEF Answers
  <2>5. IsAnswered(o)' => IsAnswered(o)
    BY <1>u, <2>4 DEF IsAnswered
  <2> QED
    BY <2>3, <2>5
<1>8. Answered'
  <2>1. SUFFICES ASSUME IsAnswered(o), NEW i \in 1..Len(sig[e])
        PROVE  sig[e][i].t # "req" /\ sig[e][i].from = gen[o]
    BY <1>e, <1>o, <1>2, <1>7, <1>u DEF Answered
  <2> QED
    BY <1>e, <1>h, <1>o, <2>1 DEF Answered
<1>9. Outlived'
  <2>1. SUFFICES ASSUME NEW x \in Ends, NEW i \in 1..Len(sig'[x]),
                        Answers(x, sig[x][i])', sig'[x][i].from # gen[Other(x)]
        PROVE  ~shook[Other(x)].req
    BY <1>h, <1>u DEF Outlived
  <2>2. i \in 1..Len(sig[x]) /\ sig'[x][i] = sig[x][i]
    BY <1>3, <1>m, <2>1 DEF Answers
  <2>3. Answers(x, sig[x][i]) /\ sig[x][i].from # gen[Other(x)]
    BY <1>u, <2>1, <2>2 DEF Answers
  <2> QED
    BY <1>h, <2>2, <2>3 DEF Outlived
<1> QED
  BY <1>4, <1>5, <1>6, <1>8, <1>9 DEF HandshakeInv

(* e takes an answer of its present connection: nothing it knows of the    *)
(* peer's connection is new, only that its answer has arrived.             *)
LEMMA MatchingKeeps ==
  ASSUME Typed, HandshakeInv, NEW e \in Ends, Matching(e)
  PROVE  HandshakeInv'
<1> DEFINE o == Other(e)
<1>o. o \in Ends /\ o # e /\ Other(o) = e /\ \A x \in Ends : x = e \/ x = o
  BY OtherEnd
<1>h. InOrder /\ FromThePast /\ Phases /\ Answered /\ Outlived
  BY DEF HandshakeInv
<1>1. /\ sig'[o] = sig[o] /\ Len(sig'[e]) = Len(sig[e]) - 1
      /\ \A i \in 1..Len(sig'[e]) : i + 1 \in 1..Len(sig[e]) /\ sig'[e][i] = sig[e][i + 1]
      /\ 1 \in 1..Len(sig[e]) /\ First(e) = sig[e][1]
  BY TakingShifts DEF Matching, Gets, Typed
<1>u. /\ gen' = gen /\ phase[e] = "handshake" /\ phase'[e] \notin {"none", "new"}
      /\ \A x \in Ends : x # e => phase'[x] = phase[x]
      /\ partner'[e] = sig[e][1].from /\ partner'[o] = partner[o]
      /\ shook'[e].req = shook[e].req /\ shook'[e].res /\ shook'[o] = shook[o]
      /\ sig[e][1].t = "res" /\ sig[e][1].n = gen[e]
  <2>1. sig[e][1].t = "res" /\ sig[e][1].n = gen[e]
    BY <1>1 DEF Matching, Gets, NonceIsMine, First
  <2>2. partner'[e] = sig[e][1].from /\ partner'[o] = partner[o]
    BY <1>o, <1>1 DEF Matching, Typed
  <2>3. shook'[e].req = shook[e].req /\ shook'[e].res /\ shook'[o] = shook[o]
    BY <1>o DEF Matching, Typed
  <2> QED
    BY <2>1, <2>2, <2>3 DEF Matching
<1>e. \A x \in Ends : Other(x) = IF x = e THEN o ELSE e
  BY <1>o
<1> HIDE DEF o
<1>n. /\ gen[e] \in Nat /\ gen[o] \in Nat /\ Len(sig[e]) \in Nat /\ Len(sig[o]) \in Nat
      /\ sig[e][1].from \in Nat /\ sig[e][1].from # 0
  BY <1>o, <1>1 DEF Typed
<1>2. ASSUME NEW x \in Ends
      PROVE  \E d \in {0, 1} :
        /\ Len(sig'[x]) = Len(sig[x]) - d
        /\ \A i \in 1..Len(sig'[x]) : i + d \in 1..Len(sig[x]) /\ sig'[x][i] = sig[x][i + d]
  <2>1. CASE x = e
    BY <1>1, <2>1
  <2>2. CASE x = o
    <3>1. sig'[x] = sig[x] /\ Len(sig[x]) \in Nat
      BY <1>1, <1>n, <2>2
    <3>2. /\ Len(sig'[x]) = Len(sig[x]) - 0
          /\ \A i \in 1..Len(sig'[x]) : i + 0 \in 1..Len(sig[x]) /\ sig'[x][i] = sig[x][i + 0]
      BY ONLY <3>1, SMT
    <3> QED
      BY <3>2
  <2> QED
    BY <1>o, <2>1, <2>2
<1>3. ASSUME NEW x \in Ends, NEW i \in 1..Len(sig'[x])
      PROVE  \E k \in 1..Len(sig[x]) : sig'[x][i] = sig[x][k]
  BY <1>2
<1>4. InOrder'
  <2>1. SUFFICES ASSUME NEW x \in Ends, NEW i \in 1..Len(sig'[x]), NEW j \in 1..Len(sig'[x]), i < j
        PROVE  /\ sig'[x][i].from <= sig'[x][j].from
               /\ sig'[x][j].t = "req" => sig'[x][i].from < sig'[x][j].from
    BY DEF InOrder
  <2>2. PICK k \in 1..Len(sig[x]), l \in 1..Len(sig[x]) :
          k < l /\ sig'[x][i] = sig[x][k] /\ sig'[x][j] = sig[x][l]
    BY <1>2, <2>1 DEF Typed
  <2> QED
    BY <1>h, <2>2 DEF InOrder
<1>5. FromThePast'
  <2>1. SUFFICES ASSUME NEW x \in Ends, NEW i \in 1..Len(sig'[x])
        PROVE  /\ sig'[x][i].from <= gen[Other(x)]
               /\ phase'[Other(x)] = "new" => sig'[x][i].from < gen[Other(x)]
               /\ sig'[x][i].t = "req" => sig'[x][i].n = sig'[x][i].from
               /\ sig'[x][i].t = "res" =>
                    /\ sig'[x][i].n <= gen[x]
                    /\ phase'[x] = "new" => sig'[x][i].n < gen[x]
    BY <1>u DEF FromThePast
  <2>2. PICK k \in 1..Len(sig[x]) : sig'[x][i] = sig[x][k]
    BY <1>3
  <2>e. /\ Other(x) \in Ends
        /\ phase'[Other(x)] = "new" => phase[Other(x)] = "new"
        /\ phase'[x] = "new" => phase[x] = "new"
    BY <1>u, OtherEnd
  <2> QED
    BY <1>h, <2>2, <2>e DEF FromThePast
<1>6. Phases'
  <2>1. SUFFICES ASSUME NEW x \in Ends
        PROVE  /\ shook'[x].res <=> partner'[x] # None
               /\ phase'[x] = "new" => ~shook'[x].req /\ ~shook'[x].res
               /\ phase'[x] # "none" => gen[x] # 0
               /\ partner'[x] <= gen[Other(x)]
    BY <1>u DEF Phases
  <2>2. sig[e][1].from <= gen[o]
    BY <1>e, <1>h, <1>1 DEF FromThePast
  <2>3. CASE x = e
    BY <1>e, <1>h, <1>n, <1>u, <2>2, <2>3 DEF Phases, None
  <2>4. CASE x = o
    BY <1>e, <1>h, <1>o, <1>u, <2>4 DEF Phases
  <2> QED
    BY <1>o, <2>3, <2>4
<1>7. \A x \in Ends : IsAnswered(x)' => IsAnswered(x)
  <2>1. IsAnswered(e)
    BY <1>1, <1>u DEF IsAnswered, Answers
  <2>2. IsAnswered(o)' => IsAnswered(o)
    BY <1>1, <1>u DEF IsAnswered, Answers
  <2> QED
    BY <1>o, <2>1, <2>2
<1>8. Answered'
  <2>1. SUFFICES ASSUME NEW x \in Ends, IsAnswered(x), NEW i \in 1..Len(sig'[Other(x)])
        PROVE  sig'[Other(x)][i].t # "req" /\ sig'[Other(x)][i].from = gen[x]
    BY <1>7, <1>u DEF Answered
  <2>2. PICK k \in 1..Len(sig[Other(x)]) : sig'[Other(x)][i] = sig[Other(x)][k]
    BY <1>3, OtherEnd
  <2> QED
    BY <1>h, <2>1, <2>2 DEF Answered
<1>9. Outlived'
  <2>0. \A x \in Ends : shook'[x].req = shook[x].req
    BY <1>o, <1>u
  <2>1. ASSUME NEW x \in Ends, NEW i \in 1..Len(sig'[x]),
               Answers(x, sig[x][i])', sig'[x][i].from # gen[Other(x)]
        PROVE  ~shook[Other(x)].req
    <3>1. PICK k \in 1..Len(sig[x]) : sig'[x][i] = sig[x][k]
      BY <1>3
    <3>2. Answers(x, sig[x][k]) /\ sig[x][k].from # gen[Other(x)]
      BY <1>u, <2>1, <3>1 DEF Answers
    <3> QED
      BY <1>h, <3>2 DEF Outlived
  <2>2. ASSUME NEW x \in Ends, partner'[x] \notin {None, gen[Other(x)]}
        PROVE  ~shook[Other(x)].req
    <3>1. CASE x = e
      <4>1. Answers(e, sig[e][1]) /\ sig[e][1].from # gen[o]
        BY <1>e, <1>u, <2>2, <3>1 DEF Answers
      <4> QED
        BY <1>1, <1>e, <1>h, <3>1, <4>1 DEF Outlived
    <3>2. CASE x = o
      BY <1>h, <1>o, <1>u, <2>2, <3>2 DEF Outlived
    <3> QED
      BY <1>o, <3>1, <3>2
  <2>3. \A x \in Ends : Other(x) \in Ends
    BY OtherEnd
  <2> QED
    BY <1>u, <2>0, <2>1, <2>2, <2>3 DEF Outlived
<1> QED
  BY <1>4, <1>5, <1>6, <1>8, <1>9 DEF HandshakeInv

(* e answers a request.  The signals behind a request of the peer's        *)
(* present connection are its own, and nobody answered that one before.    *)
LEMMA AnsweringKeeps ==
  ASSUME Typed, HandshakeInv, NEW e \in Ends, gen[e] \in Gens, Answering(e)
  PROVE  HandshakeInv'
<1> DEFINE o == Other(e)
<1>o. o \in Ends /\ o # e /\ Other(o) = e /\ \A x \in Ends : x = e \/ x = o
  BY OtherEnd
<1>h. InOrder /\ FromThePast /\ Phases /\ Answered /\ Outlived
  BY DEF HandshakeInv
<1>1. /\ Took(e) \in [Ends -> Seq(Signal)]
      /\ Took(e)[o] = sig[o] /\ Len(Took(e)[e]) = Len(sig[e]) - 1
      /\ \A i \in 1..Len(Took(e)[e]) : i + 1 \in 1..Len(sig[e]) /\ Took(e)[e][i] = sig[e][i + 1]
      /\ 1 \in 1..Len(sig[e]) /\ First(e) = sig[e][1]
  BY TakingShifts DEF Answering, Gets, Typed
<1> DEFINE h == sig[e][1].n
           m == [t |-> "res", from |-> gen[e], n |-> h]
<1>n. /\ gen[e] \in Nat /\ gen[o] \in Nat /\ Len(sig[e]) \in Nat /\ Len(sig[o]) \in Nat
      /\ h \in Nat
  BY <1>o, <1>1 DEF Typed
<1>2. /\ sig'[e] = Took(e)[e] /\ Len(sig'[o]) = Len(sig[o]) + 1
      /\ \A i \in 1..Len(sig[o]) : sig'[o][i] = sig[o][i]
      /\ sig'[o][Len(sig[o]) + 1] = m
  <2>1. sig' = Signals(Took(e), e, "res", h)
    BY <1>1 DEF Answering
  <2>2. Took(e) \in [Ends -> Seq(Signal)]
    BY <1>1
  <2>5. sig[e][1] \in Signal /\ sig[e][1].t = "req"
    BY <1>1 DEF Answering, Gets, First, Typed
  <2>6. h \in Gens
    BY <2>5 DEF Signal
  <2> HIDE DEF h
  <2>7. m \in Signal
    BY <2>6 DEF Signal
  <2>8. h \in Nat
    BY <1>n
  <2>3. /\ sig'[e] = Took(e)[e] /\ Len(sig'[o]) = Len(Took(e)[o]) + 1
        /\ \A i \in 1..Len(Took(e)[o]) : sig'[o][i] = Took(e)[o][i]
        /\ sig'[o][Len(Took(e)[o]) + 1] = m
    <3> DEFINE q == Took(e)
               r == sig'
    <3>1. q \in [Ends -> Seq(Signal)] /\ r = [q EXCEPT ![o] = Append(@, m)]
      BY <2>1, <2>2 DEF Signals
    <3> HIDE DEF q, r, m
    <3>2. /\ r[e] = q[e] /\ Len(r[o]) = Len(q[o]) + 1
          /\ \A i \in 1..Len(q[o]) : r[o][i] = q[o][i]
          /\ r[o][Len(q[o]) + 1] = m
      BY <2>7, <3>1, MessageAppends
    <3> QED
      BY <3>1, <3>2 DEF q, r
  <2>4. Took(e)[o] = sig[o]
    BY <1>1
  <2> QED
    BY <2>3, <2>4
<1>u. /\ gen' = gen /\ partner' = partner
      /\ phase[e] = "handshake" /\ phase'[e] \notin {"none", "new"}
      /\ \A x \in Ends : x # e => phase'[x] = phase[x]
      /\ shook'[e].res = shook[e].res /\ shook'[o] = shook[o]
      /\ sig[e][1].t = "req" /\ h = sig[e][1].from
  <2>1. sig[e][1].t = "req"
    BY <1>1 DEF Answering, Gets, First
  <2>2. h = sig[e][1].from
    BY <1>h, <1>1, <2>1 DEF FromThePast
  <2>3. shook'[e].res = shook[e].res /\ shook'[o] = shook[o]
    BY <1>o DEF Answering, Typed
  <2> QED
    BY <2>1, <2>2, <2>3 DEF Answering
<1>m. m.from = gen[e] /\ m.n = h /\ m.t = "res"
  OBVIOUS
<1>e. \A x \in Ends : Other(x) = IF x = e THEN o ELSE e
  BY <1>o
<1> HIDE DEF o, h, m
<1>p. h <= gen[o] /\ (phase[o] = "new" => h < gen[o])
  BY <1>e, <1>h, <1>1, <1>u DEF FromThePast
<1>b. \A i \in 2..Len(sig[e]) :
        sig[e][i].from >= h /\ (sig[e][i].t = "req" => sig[e][i].from > h)
  <2>1. TAKE i \in 2..Len(sig[e])
  <2>2. i \in 1..Len(sig[e]) /\ 1 < i /\ sig[e][i].from \in Nat
    BY <1>n DEF Typed
  <2> QED
    BY <1>h, <1>1, <1>n, <1>u, <2>2 DEF InOrder
<1>f. ~IsAnswered(o)
  BY <1>1, <1>e, <1>h, <1>o, <1>u DEF Answered
<1>3. ASSUME NEW x \in Ends, NEW i \in 1..Len(sig'[x])
      PROVE  \/ x = e /\ i + 1 \in 2..Len(sig[x]) /\ sig'[x][i] = sig[x][i + 1]
             \/ x = o /\ i \in 1..Len(sig[x]) /\ sig'[x][i] = sig[x][i]
             \/ x = o /\ i = Len(sig[x]) + 1 /\ sig'[x][i] = m
  <2>1. CASE x = e
    <3>1. /\ i \in 1..Len(Took(e)[e]) /\ sig'[x][i] = Took(e)[e][i]
      BY <1>2, <2>1
    <3>2. i + 1 \in 1..Len(sig[e]) /\ Took(e)[e][i] = sig[e][i + 1]
      BY <1>1, <3>1
    <3>3. i \in Nat \ {0}
      BY <1>1, <1>n, <3>1
    <3>4. i + 1 \in 2..Len(sig[e])
      BY ONLY <1>n, <3>2, <3>3, SMT
    <3> QED
      BY <2>1, <3>1, <3>2, <3>4
  <2>2. CASE x = o
    <3>1. i \in 1..(Len(sig[o]) + 1)
      BY <1>2, <2>2
    <3>2. i \in 1..Len(sig[o]) \/ i = Len(sig[o]) + 1
      BY ONLY <1>n, <3>1, SMT
    <3> QED
      BY <1>2, <2>2, <3>2
  <2> QED
    BY <1>o, <2>1, <2>2
<1>k. ASSUME NEW x \in Ends, NEW i \in 1..Len(sig'[x])
      PROVE  (\E k \in 1..Len(sig[x]) : sig'[x][i] = sig[x][k]) \/ (x = o /\ sig'[x][i] = m)
  BY <1>3, <1>n
<1>4. InOrder'
  <2>1. SUFFICES ASSUME NEW x \in Ends, NEW i \in 1..Len(sig'[x]), NEW j \in 1..Len(sig'[x]), i < j
        PROVE  /\ sig'[x][i].from <= sig'[x][j].from
               /\ sig'[x][j].t = "req" => sig'[x][i].from < sig'[x][j].from
    BY DEF InOrder
  <2>2. CASE x = e
    <3>1. /\ i + 1 \in 1..Len(sig[e]) /\ j + 1 \in 1..Len(sig[e]) /\ i + 1 < j + 1
          /\ sig'[x][i] = sig[e][i + 1] /\ sig'[x][j] = sig[e][j + 1]
      BY <1>1, <1>2, <1>n, <2>1, <2>2
    <3> QED
      BY <1>h, <3>1 DEF InOrder
  <2>3. CASE x = o /\ j \in 1..Len(sig[x])
    <3>1. i \in 1..Len(sig[o]) /\ sig'[x][i] = sig[o][i] /\ sig'[x][j] = sig[o][j]
      BY <1>2, <1>n, <2>1, <2>3
    <3> QED
      BY <1>h, <1>o, <2>1, <2>3, <3>1 DEF InOrder
  <2>4. CASE x = o /\ sig'[x][j] = m /\ j = Len(sig[x]) + 1
    <3>1. i \in 1..Len(sig[o]) /\ sig'[x][i] = sig[o][i]
      BY <1>2, <1>n, <2>1, <2>4
    <3> QED
      BY <1>e, <1>h, <1>m, <1>o, <2>4, <3>1 DEF FromThePast
  <2> QED
    BY <1>3, <1>o, <2>2, <2>3, <2>4
<1>5. FromThePast'
  <2>1. SUFFICES ASSUME NEW x \in Ends, NEW i \in 1..Len(sig'[x])
        PROVE  /\ sig'[x][i].from <= gen[Other(x)]
               /\ phase'[Other(x)] = "new" => sig'[x][i].from < gen[Other(x)]
               /\ sig'[x][i].t = "req" => sig'[x][i].n = sig'[x][i].from
               /\ sig'[x][i].t = "res" =>
                    /\ sig'[x][i].n <= gen[x]
                    /\ phase'[x] = "new" => sig'[x][i].n < gen[x]
    BY <1>u DEF FromThePast
  <2>e. /\ Other(x) \in Ends
        /\ phase'[Other(x)] = "new" => phase[Other(x)] = "new"
        /\ phase'[x] = "new" => phase[x] = "new"
    BY <1>u, OtherEnd
  <2>2. CASE \E k \in 1..Len(sig[x]) : sig'[x][i] = sig[x][k]
    BY <1>h, <2>2, <2>e DEF FromThePast
  <2>3. CASE x = o /\ sig'[x][i] = m
    BY <1>e, <1>m, <1>n, <1>o, <1>p, <1>u, <2>3
  <2> QED
    BY <1>k, <2>2, <2>3
<1>6. Phases'
  <2>1. SUFFICES ASSUME NEW x \in Ends
        PROVE  /\ shook'[x].res <=> partner[x] # None
               /\ phase'[x] = "new" => ~shook'[x].req /\ ~shook'[x].res
               /\ phase'[x] # "none" => gen[x] # 0
               /\ partner[x] <= gen[Other(x)]
    BY <1>u DEF Phases
  <2>2. CASE x = e
    BY <1>h, <1>u, <2>2 DEF Phases
  <2>3. CASE x = o
    BY <1>h, <1>o, <1>u, <2>3 DEF Phases
  <2> QED
    BY <1>o, <2>2, <2>3
<1>7. /\ IsAnswered(e)' => IsAnswered(e)
      /\ IsAnswered(o)' => h = gen[o]
  <2>1. ASSUME NEW i \in 1..Len(sig'[e]), Answers(e, sig[e][i])'
        PROVE  \E k \in 1..Len(sig[e]) : Answers(e, sig[e][k])
    <3>1. gen'[e] = gen[e] /\ e # o
      BY <1>o, <1>u
    <3>2. PICK k \in 1..Len(sig[e]) : sig'[e][i] = sig[e][k]
      BY <1>k, <1>o, <3>1
    <3> QED
      BY <2>1, <3>1, <3>2 DEF Answers
  <2>2. IsAnswered(e)' => IsAnswered(e)
    BY <1>u, <2>1 DEF IsAnswered
  <2>3. ASSUME NEW i \in 1..Len(sig'[o]), Answers(o, sig[o][i])', h # gen[o]
        PROVE  IsAnswered(o)
    <3>1. sig'[o][i].t = "res" /\ sig'[o][i].n = gen[o]
      BY <1>u, <2>3 DEF Answers
    <3>2. PICK k \in 1..Len(sig[o]) : sig'[o][i] = sig[o][k]
      BY <1>k, <1>m, <1>o, <2>3, <3>1
    <3> QED
      BY <3>1, <3>2 DEF Answers, IsAnswered
  <2>4. IsAnswered(o)' => h = gen[o]
    BY <1>f, <1>u, <2>3 DEF IsAnswered
  <2> QED
    BY <2>2, <2>4
<1>8. Answered'
  <2>1. SUFFICES ASSUME NEW x \in Ends, IsAnswered(x)', NEW i \in 1..Len(sig'[Other(x)])
        PROVE  sig'[Other(x)][i].t # "req" /\ sig'[Other(x)][i].from = gen[x]
    BY <1>u DEF Answered
  <2>2. CASE x = e
    <3>1. Other(x) = o /\ o # e /\ IsAnswered(e)
      BY <1>7, <1>e, <1>o, <2>1, <2>2
    <3>2. \A k \in 1..Len(sig[o]) : sig[o][k].t # "req" /\ sig[o][k].from = gen[e]
      BY <1>e, <1>h, <1>o, <3>1 DEF Answered
    <3>3. (\E k \in 1..Len(sig[o]) : sig'[o][i] = sig[o][k]) \/ sig'[o][i] = m
      BY <1>k, <1>o, <2>1, <3>1
    <3> QED
      BY <1>m, <2>2, <3>1, <3>2, <3>3
  <2>3. CASE x = o
    <3>1. i + 1 \in 2..Len(sig[e]) /\ sig'[e][i] = sig[e][i + 1] /\ h = gen[o] /\ Other(x) = e
      BY <1>3, <1>7, <1>e, <1>o, <2>1, <2>3
    <3>2. PICK k \in 2..Len(sig[e]) : sig'[e][i] = sig[e][k]
      BY <3>1
    <3>3. k \in 1..Len(sig[e])
      BY ONLY <1>n, <3>2, SMT
    <3>4. sig[e][k].from \in Nat /\ sig[e][k].from <= gen[o]
      BY <1>e, <1>h, <3>3 DEF FromThePast, Typed
    <3>5. sig[e][k].from >= h /\ (sig[e][k].t = "req" => sig[e][k].from > h)
      BY <1>b, <3>2
    <3> DEFINE f == sig[e][k].from
               t == sig[e][k].t
    <3>6. f \in Nat /\ f <= gen[o] /\ f >= gen[o] /\ (t = "req" => f > gen[o])
      BY <3>1, <3>4, <3>5
    <3> HIDE DEF f, t
    <3>7. t # "req" /\ f = gen[o]
      BY <1>n, <3>6
    <3> QED
      BY <2>3, <3>1, <3>2, <3>7 DEF f, t
  <2> QED
    BY <1>o, <2>2, <2>3
<1>9. Outlived'
  <2>1. SUFFICES ASSUME NEW x \in Ends
        PROVE  /\ partner[x] \notin {None, gen[Other(x)]} => ~shook'[Other(x)].req
               /\ \A i \in 1..Len(sig'[x]) :
                    Answers(x, sig[x][i])' /\ sig'[x][i].from # gen[Other(x)] => ~shook'[Other(x)].req
    BY <1>u DEF Outlived
  <2>2. CASE x = e
    <3>1. ASSUME NEW i \in 1..Len(sig'[e]), Answers(e, sig[e][i])', sig'[e][i].from # gen[o]
          PROVE  ~shook[o].req
      <4>1. PICK k \in 1..Len(sig[e]) : sig'[e][i] = sig[e][k]
        BY <1>k, <1>o
      <4>2. Answers(e, sig[e][k]) /\ sig[e][k].from # gen[o]
        BY <1>u, <3>1, <4>1 DEF Answers
      <4> QED
        BY <1>e, <1>h, <4>2 DEF Outlived
    <3> QED
      BY <1>e, <1>h, <1>u, <2>2, <3>1 DEF Outlived
  <2>3. CASE x = o
    <3>1. partner[o] = None
      BY <1>f DEF IsAnswered
    <3>2. ASSUME NEW i \in 1..Len(sig'[o]), Answers(o, sig[o][i])'
          PROVE  sig'[o][i].from = gen[e]
      BY <1>f, <1>k, <1>m, <1>o, <1>u, <3>2 DEF Answers, IsAnswered
    <3> QED
      BY <1>e, <1>o, <2>3, <3>1, <3>2
  <2> QED
    BY <1>o, <2>2, <2>3
<1> QED
  BY <1>4, <1>5, <1>6, <1>8, <1>9 DEF HandshakeInv

-----------------------------------------------------------------------------
(* Types.                                                                  *)

(* The part of TypeOK that is about the task and its backend. *)
TaskOK ==
  /\ phase \in [Ends -> {"none", "new", "handshake", "webrtc", "fallback", "ended"}]
  /\ ready \in [Ends -> BOOLEAN]
  /\ rtc \in [Ends -> Backend]
  /\ chan \in [Ends -> Seq(Message)]
  /\ \A e \in Ends : phase[e] # "webrtc" => rtc[e] = NoBackend /\ chan[e] = << >>

LEMMA EndingKeepsTypes ==
  ASSUME TaskOK, NEW e \in Ends, NEW p \in {"none", "ended", "fallback"},
         EndsAs(e, p), ready' \in [Ends -> BOOLEAN]
  PROVE  TaskOK'
<1>1. NoBackend \in Backend
  BY DEF NoBackend, Backend, None
<1>2. << >> \in Seq(Message)
  OBVIOUS
<1>3. /\ phase' \in [Ends -> {"none", "new", "handshake", "webrtc", "fallback", "ended"}]
      /\ rtc' \in [Ends -> Backend] /\ chan' \in [Ends -> Seq(Message)]
  BY <1>1, <1>2 DEF TaskOK, EndsAs
<1>4. \A x \in Ends : phase'[x] # "webrtc" => rtc'[x] = NoBackend /\ chan'[x] = << >>
  BY DEF TaskOK, EndsAs
<1> QED
  BY <1>3, <1>4 DEF TaskOK

LEMMA BackendFields ==
  ASSUME NEW r \in Backend
  PROVE  /\ [r EXCEPT !.state = "closed"] \in Backend
         /\ [r EXCEPT !.opened = TRUE] \in Backend
         /\ [r EXCEPT !.desc = "sent"] \in Backend
BY DEF Backend

LEMMA ReturningKeepsTypes ==
  ASSUME TaskOK, NEW e \in Ends, Returns(e) \/ FallsBack(e)
  PROVE  TaskOK'
<1>1. ready' \in [Ends -> BOOLEAN]
  BY DEF TaskOK, Returns, FallsBack
<1>2. EndsAs(e, "ended") \/ EndsAs(e, "fallback")
  BY DEF Returns, FallsBack
<1> QED
  BY <1>1, <1>2, EndingKeepsTypes

LEMMA ProceedingKeepsTypes ==
  ASSUME TaskOK, NEW e \in Ends, NEW s, phase[e] = "handshake", Proceeds(e, s)
  PROVE  TaskOK'
<1>1. CASE FallsBack(e)
  BY <1>1, ReturningKeepsTypes
<1>2. CASE UNCHANGED << phase, ready, rtc, chan >>
  BY <1>2 DEF TaskOK
<1>3. CASE /\ phase' = [phase EXCEPT ![e] = "webrtc"]
           /\ rtc' = [rtc EXCEPT ![e] =
                        [NoBackend EXCEPT !.state = "up",
                           !.desc = IF e = Polite THEN "none" ELSE "pending"]]
           /\ UNCHANGED << ready, chan >>
  <2>1. [NoBackend EXCEPT !.state = "up", !.desc = IF e = Polite THEN "none" ELSE "pending"]
          \in Backend
    BY DEF NoBackend, Backend, None
  <2>2. rtc' \in [Ends -> Backend]
    BY <1>3, <2>1 DEF TaskOK
  <2>3. \A x \in Ends : phase'[x] # "webrtc" => rtc'[x] = NoBackend /\ chan'[x] = << >>
    BY <1>3 DEF TaskOK
  <2> QED
    BY <1>3, <2>2, <2>3 DEF TaskOK
<1> QED
  BY <1>1, <1>2, <1>3 DEF Proceeds

LEMMA DeliveringKeepsTypes ==
  ASSUME inbox \in [Ends -> Seq(Message)], NEW e \in Ends, NEW from \in Gens,
         NEW n \in 1..MaxMsgs, NEW via \in {"rtc", "relay"}, Delivers(e, from, n, via)
  PROVE  inbox' \in [Ends -> Seq(Message)]
<1>1. [from |-> from, n |-> n, via |-> via] \in Message
  BY DEF Message
<1> DEFINE m == [from |-> from, n |-> n, via |-> via]
<1>2. inbox' = [inbox EXCEPT ![e] = Append(@, m)]
  BY DEF Delivers
<1> HIDE DEF m
<1>3. m \in Message
  BY <1>1 DEF m
<1>4. Append(inbox[e], m) \in Seq(Message)
  BY <1>3
<1> QED
  BY <1>2, <1>4

LEMMA GivingKeepsTypes ==
  ASSUME nsent \in [Ends -> [Gens -> 0..MaxMsgs]], NEW e \in Ends, gen[e] \in Gens, IsGiven(e)
  PROVE  nsent' \in [Ends -> [Gens -> 0..MaxMsgs]] /\ Given(e) + 1 \in 1..MaxMsgs
<1>1. nsent[e] \in [Gens -> 0..MaxMsgs] /\ nsent[e][gen[e]] \in 0..MaxMsgs
  OBVIOUS
<1>2. nsent[e][gen[e]] + 1 \in 1..MaxMsgs
  BY <1>1, ConnAssumption DEF IsGiven, Given
<1>3. nsent[e][gen[e]] + 1 \in 0..MaxMsgs
  BY <1>2, ConnAssumption
<1>4. [nsent[e] EXCEPT ![gen[e]] = @ + 1] \in [Gens -> 0..MaxMsgs]
  BY <1>1, <1>3
<1>5. nsent' = [nsent EXCEPT ![e] = [nsent[e] EXCEPT ![gen[e]] = @ + 1]]
  BY DEF IsGiven
<1> QED
  BY <1>2, <1>4, <1>5 DEF Given

LEMMA TypesStep ==
  ASSUME TypeOK, Phases, Next
  PROVE  TypeOK'
<1>1. PICK e \in Ends : \/ Handshake(e) \/ Attempt(e) \/ Fallback(e) \/ Closes(e)
                        \/ Owner(e) \/ Link(e) \/ SignalServer(e)
  BY DEF Next
<1>t. /\ TaskOK /\ gen \in [Ends -> 0..MaxGen]
      /\ shook \in [Ends -> [req : BOOLEAN, res : BOOLEAN]]
      /\ partner \in [Ends -> Gens \cup {None}]
      /\ sig \in [Ends -> Seq(Signal)]
      /\ nsent \in [Ends -> [Gens -> 0..MaxMsgs]]
      /\ inbox \in [Ends -> Seq(Message)]
      /\ missed \in [Ends -> Nat]
      /\ lost \in 0..MaxLost
  BY DEF TypeOK, TaskOK
<1>g. phase[e] # "none" => gen[e] \in Gens
  BY <1>t, ConnAssumption DEF Phases, Gens
<1>T. ASSUME NEW types, Gets(e, types)
      PROVE  Took(e) \in [Ends -> Seq(Signal)] /\ First(e) \in Signal
  BY <1>t, <1>T, TakingShifts DEF Gets
<1>G. Gens \subseteq Nat /\ 1..MaxMsgs \subseteq Nat
  BY ConnAssumption DEF Gens
<1>a. ASSUME NEW q \in [Ends -> Seq(Signal)],
             NEW t \in {"req", "res", "offer", "answer", "msg"}, NEW n \in Nat,
             [t |-> t, from |-> gen[e], n |-> n] \in Signal, sig' = Signals(q, e, t, n)
      PROVE  sig' \in [Ends -> Seq(Signal)]
  BY <1>a, SignallingAppends
<1>6. CASE Handshake(e)
  <2>1. CASE Requests(e)
    <3>1. [t |-> "req", from |-> gen[e], n |-> gen[e]] \in Signal /\ gen[e] \in Nat
      BY <1>g, <1>G, <2>1 DEF Requests, Signal
    <3>2. sig' \in [Ends -> Seq(Signal)]
      BY <1>a, <1>t, <2>1, <3>1 DEF Requests
    <3>3. TaskOK'
      BY <1>t, <2>1 DEF Requests, TaskOK
    <3> QED
      BY <1>t, <2>1, <3>2, <3>3 DEF Requests, TaskOK, TypeOK, sessionVars, dataVars
  <2>2. CASE AnswersRequest(e)
    <3>1. First(e).n \in Gens /\ gen[e] \in Gens
      BY <1>g, <1>T, <2>2 DEF AnswersRequest, Gets, First, Signal
    <3>2. [t |-> "res", from |-> gen[e], n |-> First(e).n] \in Signal
      BY <3>1 DEF Signal
    <3>3. sig' \in [Ends -> Seq(Signal)]
      <4> DEFINE n == First(e).n
      <4>1. sig' = Signals(Took(e), e, "res", n) /\ n \in Nat
        BY <1>G, <2>2, <3>1 DEF AnswersRequest
      <4>2. Took(e) \in [Ends -> Seq(Signal)]
        BY <1>T, <2>2 DEF AnswersRequest
      <4>3. [t |-> "res", from |-> gen[e], n |-> n] \in Signal
        BY <3>2
      <4> HIDE DEF n
      <4> QED
        BY <1>a, <4>1, <4>2, <4>3
    <3>4. TaskOK'
      BY <1>t, <2>2, ProceedingKeepsTypes DEF AnswersRequest
    <3>5. shook' \in [Ends -> [req : BOOLEAN, res : BOOLEAN]]
      BY <1>t, <2>2 DEF AnswersRequest, Proceeds
    <3> QED
      BY <1>t, <2>2, <3>3, <3>4, <3>5 DEF AnswersRequest, TaskOK, TypeOK, dataVars
  <2>3. CASE TakesAnswer(e)
    <3>1. First(e).from \in Gens /\ sig' \in [Ends -> Seq(Signal)]
      BY <1>T, <2>3 DEF TakesAnswer, Signal
    <3>2. partner' \in [Ends -> Gens \cup {None}]
      BY <1>t, <2>3, <3>1 DEF TakesAnswer
    <3>4. TaskOK'
      BY <1>t, <2>3, ProceedingKeepsTypes DEF TakesAnswer
    <3>5. shook' \in [Ends -> [req : BOOLEAN, res : BOOLEAN]]
      BY <1>t, <2>3 DEF TakesAnswer, Proceeds
    <3> QED
      BY <1>t, <2>3, <3>1, <3>2, <3>4, <3>5 DEF TakesAnswer, TaskOK, TypeOK, dataVars
  <2>4. CASE RefusesNonce(e)
    <3>1. TaskOK' /\ sig' \in [Ends -> Seq(Signal)]
      BY <1>t, <1>T, <2>4, ReturningKeepsTypes DEF RefusesNonce
    <3> QED
      BY <1>t, <2>4, <3>1 DEF RefusesNonce, TaskOK, TypeOK, sessionVars, dataVars
  <2>5. CASE HandshakeIgnores(e)
    <3>1. TaskOK' /\ sig' \in [Ends -> Seq(Signal)]
      BY <1>t, <1>T, <2>5 DEF HandshakeIgnores, TaskOK
    <3> QED
      BY <1>t, <2>5, <3>1 DEF HandshakeIgnores, TaskOK, TypeOK, sessionVars, dataVars
  <2>6. CASE HandshakeTimesOut(e)
    <3>1. TaskOK'
      BY <1>t, <2>6, ReturningKeepsTypes DEF HandshakeTimesOut
    <3> QED
      BY <1>t, <2>6, <3>1 DEF HandshakeTimesOut, TaskOK, TypeOK, sessionVars, dataVars
  <2> QED
    BY <1>6, <2>1, <2>2, <2>3, <2>4, <2>5, <2>6 DEF Handshake
<1>7. CASE Attempt(e)
  <2>1. CASE RefusesHandshake(e)
    <3>1. TaskOK' /\ sig' \in [Ends -> Seq(Signal)]
      BY <1>t, <1>T, <2>1, ReturningKeepsTypes DEF RefusesHandshake
    <3> QED
      BY <1>t, <2>1, <3>1 DEF RefusesHandshake, TaskOK, TypeOK, sessionVars, dataVars
  <2>2. CASE FollowsToRelay(e)
    <3>1. TaskOK' /\ sig' \in [Ends -> Seq(Signal)]
      BY <1>t, <1>T, <2>2, ReturningKeepsTypes DEF FollowsToRelay
    <3>2. First(e).from \in Gens /\ First(e).n \in 1..MaxMsgs
      BY <1>T, <2>2 DEF FollowsToRelay, Gets, First, Signal
    <3>3. inbox' \in [Ends -> Seq(Message)]
      BY <1>t, <2>2, <3>2, DeliveringKeepsTypes DEF FollowsToRelay
    <3> QED
      BY <1>t, <2>2, <3>1, <3>3 DEF FollowsToRelay, TaskOK, TypeOK, sessionVars
  <2>3. CASE TakesDescription(e)
    <3>1. sig' \in [Ends -> Seq(Signal)] /\ First(e).from \in Gens
      BY <1>T, <2>3 DEF TakesDescription, Signal
    <3>2. rtc[e] \in Backend
      BY <1>t DEF TaskOK
    <3>3. [[rtc[e] EXCEPT !.remote = First(e).from]
             EXCEPT !.desc = IF e = Polite THEN "pending" ELSE @] \in Backend
      BY <3>1, <3>2 DEF Backend
    <3>4. rtc' = rtc \/
          rtc' = [rtc EXCEPT ![e] = [[rtc[e] EXCEPT !.remote = First(e).from]
                    EXCEPT !.desc = IF e = Polite THEN "pending" ELSE @]]
      BY <2>3 DEF TakesDescription
    <3>5. rtc' \in [Ends -> Backend]
      BY <1>t, <3>3, <3>4 DEF TaskOK
    <3>6. \A x \in Ends : x # e => rtc'[x] = rtc[x]
      BY <1>t, <3>4 DEF TaskOK
    <3>7. TaskOK'
      BY <1>t, <2>3, <3>5, <3>6 DEF TakesDescription, TaskOK
    <3> QED
      BY <1>t, <2>3, <3>1, <3>7 DEF TakesDescription, TaskOK, TypeOK, sessionVars, dataVars
  <2>4. CASE DescriptionRefused(e)
    <3>1. TaskOK' /\ sig' \in [Ends -> Seq(Signal)]
      BY <1>t, <1>T, <2>4, ReturningKeepsTypes DEF DescriptionRefused
    <3> QED
      BY <1>t, <2>4, <3>1 DEF DescriptionRefused, TaskOK, TypeOK, sessionVars, dataVars
  <2>5. CASE SendsDescription(e)
    <3>1. [t |-> IF e = Polite THEN "answer" ELSE "offer", from |-> gen[e], n |-> 0] \in Signal
      BY <1>g, <2>5 DEF SendsDescription, Signal
    <3>2. sig' \in [Ends -> Seq(Signal)]
      BY <1>a, <1>t, <2>5, <3>1 DEF SendsDescription
    <3>3. [rtc[e] EXCEPT !.desc = "sent"] \in Backend
      BY <1>t, BackendFields DEF TaskOK
    <3>4. TaskOK'
      BY <1>t, <2>5, <3>3 DEF SendsDescription, TaskOK
    <3> QED
      BY <1>t, <2>5, <3>2, <3>4 DEF SendsDescription, TaskOK, TypeOK, sessionVars, dataVars
  <2>6. CASE RtcReady(e)
    BY <1>t, <2>6 DEF RtcReady, TaskOK, TypeOK, sessionVars, dataVars
  <2>7. CASE RtcMessage(e)
    <3>1. chan[e] \in Seq(Message) /\ chan[e] # << >>
      BY <1>t, <2>7 DEF RtcMessage, TaskOK
    <3>2. Head(chan[e]) \in Message /\ Tail(chan[e]) \in Seq(Message)
      BY <3>1
    <3>3. inbox' \in [Ends -> Seq(Message)]
      BY <1>t, <2>7, <3>2, DeliveringKeepsTypes DEF RtcMessage, Message
    <3>4. TaskOK'
      BY <1>t, <2>7, <3>2 DEF RtcMessage, TaskOK
    <3> QED
      BY <1>t, <2>7, <3>3, <3>4 DEF RtcMessage, TaskOK, TypeOK, sessionVars
  <2>8. CASE RtcClosed(e) \/ RtcTimesOut(e)
    <3>1. TaskOK'
      BY <1>t, <2>8, ReturningKeepsTypes DEF RtcClosed, RtcTimesOut
    <3> QED
      BY <1>t, <2>8, <3>1 DEF RtcClosed, RtcTimesOut, TaskOK, TypeOK, sessionVars, dataVars
  <2> QED
    BY <1>7, <2>1, <2>2, <2>3, <2>4, <2>5, <2>6, <2>7, <2>8 DEF Attempt
<1>8. CASE Fallback(e)
  <2>1. TaskOK' /\ sig' \in [Ends -> Seq(Signal)]
    BY <1>8, <1>t, <1>T DEF Fallback, RelayDelivers, FallbackIgnores, TaskOK
  <2>2. CASE RelayDelivers(e)
    <3>1. First(e).from \in Gens /\ First(e).n \in 1..MaxMsgs
      BY <1>T, <2>2 DEF RelayDelivers, Gets, First, Signal
    <3>2. inbox' \in [Ends -> Seq(Message)]
      BY <1>t, <2>2, <3>1, DeliveringKeepsTypes DEF RelayDelivers
    <3> QED
      BY <1>t, <2>1, <2>2, <3>2 DEF RelayDelivers, TaskOK, TypeOK, sessionVars
  <2>3. CASE FallbackIgnores(e)
    BY <1>t, <2>1, <2>3 DEF FallbackIgnores, TaskOK, TypeOK, sessionVars, dataVars
  <2> QED
    BY <1>8, <2>2, <2>3 DEF Fallback
<1>9. CASE Closes(e)
  <2>r. ready' \in [Ends -> BOOLEAN]
    BY <1>9, <1>t DEF Closes, TaskOK
  <2>1. TaskOK'
    BY <1>9, <1>t, <2>r, EndingKeepsTypes DEF Closes
  <2> QED
    BY <1>9, <1>t, <2>1 DEF Closes, TaskOK, TypeOK, sessionVars, dataVars
<1>b. CASE Begins(e)
  <2>1. gen' \in [Ends -> 0..MaxGen]
    BY <1>b, <1>t, ConnAssumption DEF Begins
  <2>2. TaskOK'
    BY <1>b, <1>t DEF Begins, TaskOK
  <2>3. shook' \in [Ends -> [req : BOOLEAN, res : BOOLEAN]]
    BY <1>b, <1>t DEF Begins, Strangers
  <2>4. /\ partner' \in [Ends -> Gens \cup {None}] /\ inbox' \in [Ends -> Seq(Message)]
        /\ missed' \in [Ends -> Nat]
    BY <1>b, <1>t DEF Begins
  <2> QED
    BY <1>b, <1>t, <2>1, <2>2, <2>3, <2>4 DEF Begins, TaskOK, TypeOK
<1>10. CASE Owner(e)
  <2>g. ASSUME IsGiven(e)
        PROVE  gen[e] \in Gens
    BY <1>g, <2>g DEF IsGiven, Running
  <2>s. ASSUME IsGiven(e)
        PROVE  nsent' \in [Ends -> [Gens -> 0..MaxMsgs]] /\ Given(e) + 1 \in 1..MaxMsgs
    BY <1>t, <2>g, <2>s, GivingKeepsTypes
  <2>1. CASE Connects(e)
    BY <1>b, <2>1 DEF Connects
  <2>2. CASE Drops(e)
    <3>1. TaskOK'
      BY <1>t, <2>2, EndingKeepsTypes DEF Drops, TaskOK
    <3> QED
      BY <1>t, <2>2, <3>1 DEF Drops, TaskOK, TypeOK, sessionVars, dataVars
  <2>3. CASE SendsInHandshake(e) \/ SendFindsRtcClosed(e)
    <3>1. TaskOK'
      BY <1>t, <2>3, ReturningKeepsTypes DEF SendsInHandshake, SendFindsRtcClosed
    <3> QED
      BY <1>t, <2>3, <2>s, <3>1
      DEF SendsInHandshake, SendFindsRtcClosed, TaskOK, TypeOK, sessionVars
  <2>4. CASE SendsTooEarly(e)
    <3>1. [rtc[e] EXCEPT !.state = "closed"] \in Backend
      BY <1>t, BackendFields DEF TaskOK
    <3>2. TaskOK'
      BY <1>t, <2>4, <3>1 DEF SendsTooEarly, TaskOK
    <3> QED
      BY <1>t, <2>4, <2>s, <3>2 DEF SendsTooEarly, TaskOK, TypeOK, sessionVars
  <2>5. CASE SendsOverRtc(e)
    <3>1. Other(e) \in Ends
      BY OtherEnd
    <3> DEFINE m == [from |-> gen[e], n |-> Given(e) + 1, via |-> "rtc"]
    <3>2. m \in Message
      BY <2>5, <2>g, <2>s DEF SendsOverRtc, Message
    <3>3. chan' = chan \/ (Linked /\ chan' = [chan EXCEPT ![Other(e)] = Append(@, m)])
      BY <2>5 DEF SendsOverRtc
    <3> HIDE DEF m
    <3>4. chan[Other(e)] \in Seq(Message)
      BY <1>t, <3>1 DEF TaskOK
    <3>5. Append(chan[Other(e)], m) \in Seq(Message)
      BY <3>2, <3>4
    <3>6. chan' \in [Ends -> Seq(Message)]
      BY <1>t, <3>3, <3>5 DEF TaskOK
    <3>7. Linked => phase[Other(e)] = "webrtc"
      BY <1>t, <3>1 DEF Linked, TaskOK, NoBackend
    <3>8. TaskOK'
      BY <1>t, <2>5, <3>3, <3>6, <3>7 DEF SendsOverRtc, TaskOK
    <3> QED
      BY <1>t, <2>5, <2>s, <3>8 DEF SendsOverRtc, TaskOK, TypeOK, sessionVars
  <2>6. CASE SendsOverRelay(e)
    <3>1. [t |-> "msg", from |-> gen[e], n |-> Given(e) + 1] \in Signal /\ Given(e) + 1 \in Nat
      BY <1>G, <2>6, <2>g, <2>s DEF SendsOverRelay, Signal
    <3>2. sig' \in [Ends -> Seq(Signal)]
      BY <1>a, <1>t, <2>6, <3>1 DEF SendsOverRelay
    <3>3. TaskOK'
      BY <1>t, <2>6 DEF SendsOverRelay, TaskOK
    <3> QED
      BY <1>t, <2>6, <2>s, <3>2, <3>3 DEF SendsOverRelay, TaskOK, TypeOK, sessionVars
  <2> QED
    BY <1>10, <2>1, <2>2, <2>3, <2>4, <2>5, <2>6 DEF Owner
<1>11. CASE Link(e)
  <2>1. CASE LinkOpens(e) \/ LinkBreaks(e) \/ LinkSeenBroken(e)
    <3>1. [rtc[e] EXCEPT !.opened = TRUE] \in Backend /\ [rtc[e] EXCEPT !.state = "closed"] \in Backend
      BY <1>t, BackendFields DEF TaskOK
    <3>2. \/ rtc' = [rtc EXCEPT ![e] = [rtc[e] EXCEPT !.opened = TRUE]]
          \/ rtc' = [rtc EXCEPT ![e] = [rtc[e] EXCEPT !.state = "closed"]]
      BY <2>1 DEF LinkOpens, LinkBreaks, LinkSeenBroken
    <3>3. rtc[e].state = "up"
      BY <2>1 DEF LinkOpens, LinkBreaks, LinkSeenBroken, Linked
    <3>4. phase[e] = "webrtc"
      BY <1>t, <3>3 DEF TaskOK, NoBackend
    <3>5. rtc' \in [Ends -> Backend]
      BY <1>t, <3>1, <3>2 DEF TaskOK
    <3>6. \A x \in Ends : x # e => rtc'[x] = rtc[x]
      BY <1>t, <3>2 DEF TaskOK
    <3>7. UNCHANGED << phase, ready, chan, sessionVars, sig, dataVars, lost >>
      BY <2>1 DEF LinkOpens, LinkBreaks, LinkSeenBroken
    <3>8. TaskOK'
      BY <1>t, <3>4, <3>5, <3>6, <3>7 DEF TaskOK
    <3> QED
      BY <1>t, <3>7, <3>8 DEF TaskOK, TypeOK, sessionVars, dataVars
  <2>2. CASE LinkLoses(e)
    <3>1. chan[e] \in Seq(Message) /\ chan[e] # << >> /\ phase[e] = "webrtc"
      BY <1>t, <2>2 DEF LinkLoses, TaskOK
    <3>2. SubSeq(chan[e], 1, Len(chan[e]) - 1) \in Seq(Message)
      BY <3>1
    <3>3. TaskOK'
      BY <1>t, <2>2, <3>1, <3>2 DEF LinkLoses, TaskOK
    <3> QED
      BY <1>t, <2>2, <3>3 DEF LinkLoses, TaskOK, TypeOK, sessionVars, dataVars
  <2>3. CASE LinkMisses(e)
    <3>1. chan[e] \in Seq(Message) /\ chan[e] # << >> /\ phase[e] = "webrtc"
      BY <1>t, <2>3 DEF LinkMisses, TaskOK
    <3>2. Tail(chan[e]) \in Seq(Message)
      BY <3>1
    <3>3. TaskOK'
      BY <1>t, <2>3, <3>1, <3>2 DEF LinkMisses, TaskOK
    <3>4. missed' \in [Ends -> Nat]
      BY <1>t, <2>3 DEF LinkMisses
    <3> QED
      BY <1>t, <2>3, <3>3, <3>4 DEF LinkMisses, TaskOK, TypeOK, sessionVars
  <2> QED
    BY <1>11, <2>1, <2>2, <2>3 DEF Link
<1>12. CASE SignalServer(e)
  <2>1. CASE Accepts(e)
    BY <1>b, <2>1 DEF Accepts
  <2>2. CASE SignalDropped(e) \/ SignalLost(e)
    <3>1. sig' \in [Ends -> Seq(Signal)]
      BY <1>t, <2>2, TakingShifts DEF SignalDropped, SignalLost
    <3>2. lost' \in 0..MaxLost
      BY <1>t, <2>2, ConnAssumption DEF SignalDropped, SignalLost
    <3>3. UNCHANGED << phase, sessionVars, ready, rtc, chan, dataVars >>
      BY <2>2 DEF SignalDropped, SignalLost
    <3> QED
      BY <1>t, <3>1, <3>2, <3>3 DEF TaskOK, TypeOK, sessionVars, dataVars
  <2> QED
    BY <1>12, <2>1, <2>2 DEF SignalServer
<1> QED
  BY <1>1, <1>6, <1>7, <1>8, <1>9, <1>10, <1>11, <1>12

-----------------------------------------------------------------------------
(* The theorems.                                                           *)

ConnInv == TypeOK /\ HandshakeInv

LEMMA ConnInit == Init => ConnInv
<1> SUFFICES ASSUME Init PROVE ConnInv
  OBVIOUS
<1>1. TypeOK
  <2>1. /\ << >> \in Seq(Message) /\ << >> \in Seq(Signal)
        /\ Strangers \in [req : BOOLEAN, res : BOOLEAN]
        /\ NoBackend \in Backend
    BY DEF Strangers, NoBackend, Backend, None
  <2>2. 0 \in 0..MaxGen /\ 0 \in 0..MaxMsgs /\ 0 \in 0..MaxLost
    BY ConnAssumption
  <2>3. nsent \in [Ends -> [Gens -> 0..MaxMsgs]]
    BY <2>2 DEF Init
  <2>4. rtc \in [Ends -> Backend] /\ shook \in [Ends -> [req : BOOLEAN, res : BOOLEAN]]
    BY <2>1 DEF Init
  <2>5. /\ chan \in [Ends -> Seq(Message)] /\ sig \in [Ends -> Seq(Signal)]
        /\ inbox \in [Ends -> Seq(Message)] /\ missed \in [Ends -> Nat]
    BY <2>1 DEF Init
  <2>6. /\ gen \in [Ends -> 0..MaxGen] /\ partner \in [Ends -> Gens \cup {None}]
        /\ ready \in [Ends -> BOOLEAN] /\ lost \in 0..MaxLost
        /\ phase \in [Ends -> {"none", "new", "handshake", "webrtc", "fallback", "ended"}]
    BY <2>2 DEF Init
  <2>7. \A e \in Ends : rtc[e] = NoBackend /\ chan[e] = << >>
    BY DEF Init
  <2> QED
    BY <2>3, <2>4, <2>5, <2>6, <2>7 DEF TypeOK
<1>2. \A e \in Ends : /\ Other(e) \in Ends /\ gen[Other(e)] = 0
                      /\ phase[e] = "none" /\ gen[e] = 0 /\ partner[e] = 0
                      /\ ~shook[e].req /\ ~shook[e].res /\ 1..Len(sig[e]) = {}
  <2>1. TAKE e \in Ends
  <2>2. Other(e) \in Ends
    BY OtherEnd
  <2>3. shook[e] = [req |-> FALSE, res |-> FALSE]
    BY DEF Init, Strangers
  <2>4. sig[e] = << >>
    BY DEF Init
  <2>5. 1..Len(sig[e]) = {}
    BY <2>4
  <2>6. /\ gen[Other(e)] = 0 /\ phase[e] = "none" /\ gen[e] = 0 /\ partner[e] = 0
    BY <2>2 DEF Init, None
  <2> QED
    BY <2>2, <2>3, <2>5, <2>6
<1>3. InOrder /\ FromThePast
  BY <1>2 DEF InOrder, FromThePast
<1>4. Phases
  <2> SUFFICES ASSUME NEW e \in Ends
               PROVE  /\ shook[e].res <=> partner[e] # None
                      /\ phase[e] = "new" => ~shook[e].req /\ ~shook[e].res
                      /\ phase[e] # "none" => gen[e] # 0
                      /\ partner[e] <= gen[Other(e)]
    BY DEF Phases
  <2>1. partner[e] <= gen[Other(e)]
    BY <1>2
  <2> QED
    BY <1>2, <2>1 DEF None
<1>5. Answered /\ Outlived
  BY <1>2 DEF Answered, Outlived, IsAnswered, None
<1> QED
  BY <1>1, <1>3, <1>4, <1>5 DEF ConnInv, HandshakeInv

LEMMA ConnStep == ConnInv /\ [Next]_vars => ConnInv'
<1> SUFFICES ASSUME ConnInv, [Next]_vars PROVE ConnInv'
  OBVIOUS
<1>1. CASE UNCHANGED vars
  BY <1>1 DEF vars, ConnInv, TypeOK, HandshakeInv, InOrder, FromThePast, Phases, Answered,
              Outlived, IsAnswered, Answers
<1>2. CASE Next
  <2>1. TypeOK /\ HandshakeInv /\ Typed /\ Phases
    BY TypesHold DEF ConnInv, HandshakeInv
  <2>2. PICK e \in Ends : \/ Quiet(e) \/ SendsData(e) \/ Begins(e) \/ Requests(e)
                         \/ Answering(e) \/ Matching(e)
    BY <1>2, <2>1, StepsAreFew
  <2>3. phase[e] # "none" => gen[e] \in Gens
    <3>1. gen \in [Ends -> 0..MaxGen]
      BY <2>1 DEF TypeOK
    <3> QED
      BY <2>1, <3>1, ConnAssumption DEF Phases, Gens
  <2>4. HandshakeInv'
    <3>1. CASE Quiet(e)
      BY <2>1, <3>1, QuietKeeps
    <3>2. CASE SendsData(e)
      BY <2>1, <3>2, SendsDataKeeps
    <3>3. CASE Begins(e)
      BY <2>1, <3>3, BeginsKeeps
    <3>4. CASE Requests(e)
      BY <2>1, <2>3, <3>4, RequestsKeeps DEF Requests
    <3>5. CASE Answering(e)
      BY <2>1, <2>3, <3>5, AnsweringKeeps DEF Answering
    <3>6. CASE Matching(e)
      BY <2>1, <3>6, MatchingKeeps
    <3> QED
      BY <2>2, <3>1, <3>2, <3>3, <3>4, <3>5, <3>6
  <2> QED
    BY <1>2, <2>1, <2>4, TypesStep DEF ConnInv
<1> QED
  BY <1>1, <1>2

(* The state of a connection has its types; in particular a backend and    *)
(* its data channel exist during a webrtc attempt only.                    *)
THEOREM ConnTypeOK == Spec => []TypeOK
<1>1. ConnInv => TypeOK
  BY DEF ConnInv
<1> QED
  BY <1>1, ConnInit, ConnStep, PTL DEF Spec

(* Whatever is lost, dropped, restarted or refused: two ends that are past *)
(* their handshakes hold the answers of each other's present connections.  *)
THEOREM HandshakesAgree == Spec => []SessionsAgree
<1>1. ConnInv => SessionsAgree
  <2> SUFFICES ASSUME ConnInv, NEW e \in Ends, Met(e), Met(Other(e))
               PROVE  partner[e] = gen[Other(e)]
    BY DEF SessionsAgree
  <2>1. partner[e] # None
    BY DEF ConnInv, HandshakeInv, Phases, Met, BothHalves
  <2>2. shook[Other(e)].req
    BY DEF Met, BothHalves
  <2> QED
    BY <2>1, <2>2 DEF ConnInv, HandshakeInv, Outlived
<1> QED
  BY <1>1, ConnInit, ConnStep, PTL DEF Spec

-----------------------------------------------------------------------------
(* What the pairing of the connections means for the signals on their way. *)
(* Past its handshake an end gets data of its partner only, a request only *)
(* from a later connection, and no answer any more: a request is answered  *)
(* once.  And as long as nothing is lost, an end that another one is past  *)
(* its handshake with finds its answer before the other one's data.        *)

(* Where an end is follows from the halves of its handshake.               *)
HalvesTell(e) ==
  /\ phase[e] \in Past => BothHalves(shook[e])
  /\ phase[e] = "handshake" => ~BothHalves(shook[e])

(* The answers on their way in q, the requests on the way back in r.       *)
OneAnswer(q, r) ==
  \A i \in 1..Len(q) : q[i].t = "res" =>
    /\ \A j \in 1..Len(q) : i < j /\ q[j].t = "res" => q[i].n < q[j].n
    /\ \A j \in 1..Len(r) : r[j].t = "req" => q[i].n < r[j].from

(* Who answers e saw a request.                                            *)
AnswererAsked(e, o) ==
  /\ partner[e] # None /\ partner[e] = gen[o] => shook[o].req
  /\ \A i \in 1..Len(sig[e]) :
       sig[e][i].t = "res" /\ sig[e][i].from = gen[o] => shook[o].req

AfterAnswer(e) ==
  partner[e] # None =>
    \A i \in 1..Len(sig[e]) :
      /\ sig[e][i].from >= partner[e] /\ sig[e][i].t # "res"
      /\ sig[e][i].t = "req" => sig[e][i].from # partner[e]
      /\ sig[e][i].t \in DataSignals => sig[e][i].from = partner[e]

(* No data is of a later connection than the answer.                       *)
NoLaterData(e) ==
  \A i, j \in 1..Len(sig[e]) :
    Answers(e, sig[e][i]) /\ sig[e][j].t \in DataSignals
      => sig[e][j].from <= sig[e][i].from

PairOK(e, o) ==
  /\ HalvesTell(e) /\ OneAnswer(sig[e], sig[o]) /\ AnswererAsked(e, o)
  /\ AfterAnswer(e) /\ NoLaterData(e)

PairInv == \A e \in Ends : PairOK(e, Other(e))

(* A queue loses its first signal, or gets a last one.                     *)
Dropped(q, r, d) ==
  /\ Len(r) = Len(q) - d
  /\ \A i \in 1..Len(r) : i + d \in 1..Len(q) /\ r[i] = q[i + d]
Extended(q, r, m) ==
  /\ Len(r) = Len(q) + 1 /\ r[Len(q) + 1] = m
  /\ \A i \in 1..Len(q) : r[i] = q[i]

LEMMA Pair ==
  ASSUME NEW e \in Ends, NEW o, o = Other(e)
  PROVE  /\ o \in Ends /\ o # e /\ Other(o) = e
         /\ \A x \in Ends : x = e \/ x = o
BY OtherEnd

LEMMA QuietFacts ==
  ASSUME Typed, NEW e \in Ends, Quiet(e), NEW o, o = Other(e)
  PROVE  /\ gen' = gen /\ shook' = shook /\ partner' = partner /\ sig'[o] = sig[o]
         /\ \E d \in {0, 1} :
              /\ Dropped(sig[e], sig'[e], d)
              /\ lost' = 0 /\ phase'[e] = "handshake" /\ d = 1 =>
                   /\ sig[e] # << >> /\ sig[e][1].t \in DataSignals
<1>1. gen' = gen /\ shook' = shook /\ partner' = partner
  BY DEF Quiet, sessionVars
<1>2. CASE sig' = sig
  <2>1. Dropped(sig[e], sig'[e], 0)
    <3>1. Len(sig[e]) \in Nat
      BY DEF Typed
    <3> QED
      BY <1>2, <3>1 DEF Dropped
  <2> QED
    BY <1>1, <1>2, <2>1
<1>3. CASE sig' # sig
  <2>1. sig[e] # << >> /\ sig' = Took(e)
    BY <1>3 DEF Quiet
  <2>2. /\ Dropped(sig[e], sig'[e], 1) /\ sig'[o] = sig[o]
        /\ First(e) = sig[e][1]
    BY <2>1, TakingShifts DEF Typed, Dropped
  <2> QED
    BY <1>1, <1>3, <2>1, <2>2 DEF Quiet
<1> QED
  BY <1>2, <1>3

LEMMA SendsDataFacts ==
  ASSUME Typed, NEW e \in Ends, SendsData(e), NEW o, o = Other(e)
  PROVE  /\ gen' = gen /\ shook' = shook /\ partner' = partner
         /\ phase' = phase /\ lost' = lost /\ phase[e] \in Past
         /\ sig'[e] = sig[e]
         /\ \E m \in Signal : /\ Extended(sig[o], sig'[o], m)
                              /\ m.from = gen[e] /\ m.t \in DataSignals
<1>1. PICK t \in {"offer", "answer", "msg"}, n \in 0..MaxMsgs :
        [t |-> t, from |-> gen[e], n |-> n] \in Signal /\ sig' = Signals(sig, e, t, n)
  BY DEF SendsData
<1> DEFINE m == [t |-> t, from |-> gen[e], n |-> n]
<1>2. m \in Signal /\ sig' = [sig EXCEPT ![o] = Append(@, m)]
  BY <1>1 DEF Signals
<1>3. m.from = gen[e] /\ m.t \in DataSignals
  BY DEF DataSignals
<1> HIDE DEF m
<1>4. sig'[e] = sig[e] /\ Extended(sig[o], sig'[o], m)
  <2> DEFINE r == sig'
  <2>1. r = [sig EXCEPT ![o] = Append(@, m)] /\ sig \in [Ends -> Seq(Signal)]
    BY <1>2 DEF Typed
  <2> HIDE DEF r
  <2>2. r[e] = sig[e] /\ Extended(sig[o], r[o], m)
    BY <1>2, <2>1, MessageAppends DEF Extended
  <2> QED
    BY <2>2 DEF r
<1> QED
  BY <1>2, <1>3, <1>4 DEF SendsData, sessionVars

LEMMA BeginsFacts ==
  ASSUME Typed, HandshakeInv, NEW e \in Ends, Begins(e), NEW o, o = Other(e)
  PROVE  /\ gen'[e] = gen[e] + 1 /\ gen'[o] = gen[o] /\ sig' = sig
         /\ partner'[e] = None /\ partner'[o] = partner[o]
         /\ ~shook'[e].req /\ ~shook'[e].res /\ shook'[o] = shook[o]
         /\ phase[e] = "none" /\ phase'[e] = "new" /\ phase'[o] = phase[o]
         /\ \A i \in 1..Len(sig[e]) : sig[e][i].t = "res" => sig[e][i].n < gen'[e]
         /\ \A i \in 1..Len(sig[o]) : sig[o][i].from < gen'[e]
         /\ partner[o] < gen'[e] /\ lost' = lost
<1>1. o \in Ends /\ o # e /\ Other(o) = e
  BY OtherEnd
<1>2. /\ gen'[e] = gen[e] + 1 /\ gen'[o] = gen[o] /\ sig' = sig
      /\ partner'[e] = None /\ partner'[o] = partner[o]
      /\ ~shook'[e].req /\ ~shook'[e].res /\ shook'[o] = shook[o]
      /\ phase[e] = "none" /\ phase'[e] = "new" /\ phase'[o] = phase[o]
      /\ lost' = lost
  BY <1>1 DEF Begins, Strangers, Typed
<1>3. gen[e] \in Nat /\ partner[o] \in Nat /\ gen[o] \in Nat
  BY <1>1 DEF Typed
<1>4. \A i \in 1..Len(sig[e]) : sig[e][i].t = "res" => sig[e][i].n < gen'[e]
  BY <1>2, <1>3 DEF HandshakeInv, FromThePast, Typed
<1>5. \A i \in 1..Len(sig[o]) : sig[o][i].from < gen'[e]
  BY <1>1, <1>2, <1>3 DEF HandshakeInv, FromThePast, Typed
<1>6. partner[o] < gen'[e]
  BY <1>1, <1>2, <1>3 DEF HandshakeInv, Phases
<1> QED
  BY <1>2, <1>4, <1>5, <1>6

LEMMA RequestsFacts ==
  ASSUME Typed, NEW e \in Ends, gen[e] \in Gens, Requests(e), NEW o, o = Other(e)
  PROVE  /\ gen' = gen /\ shook' = shook /\ partner' = partner /\ lost' = lost
         /\ phase[e] = "new" /\ phase'[e] = "handshake" /\ phase'[o] = phase[o]
         /\ sig'[e] = sig[e]
         /\ \E m \in Signal : /\ Extended(sig[o], sig'[o], m)
                              /\ m.from = gen[e] /\ m.t = "req"
<1>1. o \in Ends /\ o # e
  BY OtherEnd
<1> DEFINE m == [t |-> "req", from |-> gen[e], n |-> gen[e]]
<1>2. m \in Signal /\ sig' = [sig EXCEPT ![o] = Append(@, m)]
  BY DEF Requests, Signals, Signal
<1>3. m.from = gen[e] /\ m.t = "req"
  OBVIOUS
<1> HIDE DEF m
<1>4. sig'[e] = sig[e] /\ Extended(sig[o], sig'[o], m)
  <2> DEFINE r == sig'
  <2>1. r = [sig EXCEPT ![o] = Append(@, m)] /\ sig \in [Ends -> Seq(Signal)]
    BY <1>2 DEF Typed
  <2> HIDE DEF r
  <2>2. r[e] = sig[e] /\ Extended(sig[o], r[o], m)
    BY <1>2, <2>1, MessageAppends DEF Extended
  <2> QED
    BY <2>2 DEF r
<1>5. phase[e] = "new" /\ phase'[e] = "handshake" /\ phase'[o] = phase[o]
  BY <1>1 DEF Requests, Typed
<1> QED
  BY <1>2, <1>3, <1>4, <1>5 DEF Requests, sessionVars

AnswerGoesOut(e, o) ==
  \E m \in Signal :
    /\ Extended(sig[o], sig'[o], m)
    /\ m.from = gen[e] /\ m.t = "res" /\ m.n = sig[e][1].from

LEMMA AnsweringFacts ==
  ASSUME Typed, HandshakeInv, NEW e \in Ends, gen[e] \in Gens, Answering(e),
         NEW o, o = Other(e)
  PROVE  /\ gen' = gen /\ partner' = partner /\ lost' = lost
         /\ phase[e] = "handshake" /\ phase'[o] = phase[o]
         /\ phase'[e] \notin {"none", "new"}
         /\ shook'[e] = [shook[e] EXCEPT !.req = TRUE] /\ shook'[o] = shook[o]
         /\ 1 \in 1..Len(sig[e]) /\ sig[e][1].t = "req"
         /\ Dropped(sig[e], sig'[e], 1)
         /\ AnswerGoesOut(e, o)
<1>1. o \in Ends /\ o # e /\ Other(o) = e
  BY OtherEnd
<1>2. /\ Took(e) \in [Ends -> Seq(Signal)] /\ Took(e)[o] = sig[o]
      /\ Dropped(sig[e], Took(e)[e], 1)
      /\ 1 \in 1..Len(sig[e]) /\ First(e) = sig[e][1] /\ First(e) \in Signal
  BY TakingShifts DEF Answering, Gets, Typed, Dropped
<1>3. sig[e][1].t = "req" /\ sig[e][1].n = sig[e][1].from
  <2>1. sig[e][1].t = "req"
    BY <1>2 DEF Answering, Gets, First
  <2> QED
    BY <1>2, <2>1 DEF HandshakeInv, FromThePast
<1> DEFINE m == [t |-> "res", from |-> gen[e], n |-> First(e).n]
<1>4. m \in Signal
  <2>1. First(e).n \in Gens
    BY <1>2, <1>3 DEF Signal
  <2> QED
    BY <2>1 DEF Signal
<1>5. sig' = [Took(e) EXCEPT ![o] = Append(@, m)]
  BY DEF Answering, Signals
<1>6. m.from = gen[e] /\ m.t = "res" /\ m.n = sig[e][1].from
  BY <1>2, <1>3
<1> HIDE DEF m
<1>7. sig'[e] = Took(e)[e] /\ Extended(sig[o], sig'[o], m)
  <2> DEFINE r == sig'
             q == Took(e)
             p == Other(e)
  <2>1. q \in [Ends -> Seq(Signal)] /\ r = [q EXCEPT ![p] = Append(@, m)]
    BY <1>2, <1>5
  <2>2. q[p] = sig[o] /\ o = p
    BY <1>2
  <2> HIDE DEF r, q
  <2>3. /\ r[e] = q[e] /\ Len(r[p]) = Len(q[p]) + 1
        /\ \A i \in 1..Len(q[p]) : r[p][i] = q[p][i]
        /\ r[p][Len(q[p]) + 1] = m
    BY <1>4, <2>1, MessageAppends
  <2> HIDE DEF p
  <2>4. r[e] = q[e] /\ Extended(sig[o], r[o], m)
    BY <2>2, <2>3 DEF Extended
  <2> QED
    BY <2>4 DEF r, q
<1>8. shook'[e] = [shook[e] EXCEPT !.req = TRUE] /\ shook'[o] = shook[o]
  BY <1>1 DEF Answering, Typed
<1>9. AnswerGoesOut(e, o)
  BY <1>4, <1>6, <1>7 DEF AnswerGoesOut
<1> QED
  BY <1>1, <1>2, <1>3, <1>7, <1>8, <1>9 DEF Answering, GoesOn

LEMMA MatchingFacts ==
  ASSUME Typed, NEW e \in Ends, Matching(e), NEW o, o = Other(e)
  PROVE  /\ gen' = gen /\ lost' = lost
         /\ partner'[e] = sig[e][1].from /\ partner'[o] = partner[o]
         /\ phase[e] = "handshake" /\ phase'[o] = phase[o]
         /\ phase'[e] \notin {"none", "new"}
         /\ shook'[e] = [shook[e] EXCEPT !.res = TRUE] /\ shook'[o] = shook[o]
         /\ 1 \in 1..Len(sig[e]) /\ sig[e][1].t = "res" /\ sig[e][1].n = gen[e]
         /\ Dropped(sig[e], sig'[e], 1) /\ sig'[o] = sig[o]
<1>1. o \in Ends /\ o # e /\ Other(o) = e
  BY OtherEnd
<1>2. /\ sig'[o] = sig[o] /\ Dropped(sig[e], sig'[e], 1)
      /\ 1 \in 1..Len(sig[e]) /\ First(e) = sig[e][1]
  BY TakingShifts DEF Matching, Gets, Typed, Dropped
<1>3. sig[e][1].t = "res" /\ sig[e][1].n = gen[e]
  BY <1>2 DEF Matching, Gets, NonceIsMine, First
<1>4. partner'[e] = sig[e][1].from /\ partner'[o] = partner[o]
  BY <1>1, <1>2 DEF Matching, Typed
<1>5. shook'[e] = [shook[e] EXCEPT !.res = TRUE] /\ shook'[o] = shook[o]
  BY <1>1 DEF Matching, Typed
<1> QED
  BY <1>1, <1>2, <1>3, <1>4, <1>5 DEF Matching, GoesOn

LEMMA NothingDropped ==
  ASSUME NEW q, Len(q) \in Nat
  PROVE  Dropped(q, q, 0)
BY DEF Dropped

LEMMA OneAnswerKept ==
  ASSUME NEW q, NEW r, NEW s, NEW t, NEW c \in {0, 1}, NEW d \in {0, 1},
         Len(q) \in Nat, Len(r) \in Nat,
         Dropped(q, s, c), Dropped(r, t, d), OneAnswer(q, r)
  PROVE  OneAnswer(s, t)
<1> SUFFICES ASSUME NEW i \in 1..Len(s), s[i].t = "res"
             PROVE  /\ \A j \in 1..Len(s) : i < j /\ s[j].t = "res" => s[i].n < s[j].n
                    /\ \A j \in 1..Len(t) : t[j].t = "req" => s[i].n < t[j].from
  BY DEF OneAnswer
<1>1. i + c \in 1..Len(q) /\ s[i] = q[i + c]
  BY DEF Dropped
<1>2. ASSUME NEW j \in 1..Len(s), i < j, s[j].t = "res"
      PROVE  s[i].n < s[j].n
  <2>1. j + c \in 1..Len(q) /\ s[j] = q[j + c]
    BY DEF Dropped
  <2>2. i + c < j + c
    BY <1>2
  <2> QED
    BY <1>1, <1>2, <2>1, <2>2 DEF OneAnswer
<1>3. ASSUME NEW j \in 1..Len(t), t[j].t = "req"
      PROVE  s[i].n < t[j].from
  <2>1. j + d \in 1..Len(r) /\ t[j] = r[j + d]
    BY DEF Dropped
  <2> QED
    BY <1>1, <1>3, <2>1 DEF OneAnswer
<1> QED
  BY <1>2, <1>3

LEMMA AfterAnswerKept ==
  ASSUME NEW e \in Ends, AfterAnswer(e), partner'[e] = partner[e],
         NEW d \in {0, 1}, Dropped(sig[e], sig'[e], d)
  PROVE  AfterAnswer(e)'
<1> SUFFICES ASSUME partner[e] # None, NEW i \in 1..Len(sig'[e])
             PROVE  /\ sig'[e][i].from >= partner[e] /\ sig'[e][i].t # "res"
                    /\ sig'[e][i].t = "req" => sig'[e][i].from # partner[e]
                    /\ sig'[e][i].t \in DataSignals => sig'[e][i].from = partner[e]
  BY DEF AfterAnswer
<1>1. i + d \in 1..Len(sig[e]) /\ sig'[e][i] = sig[e][i + d]
  BY DEF Dropped
<1> QED
  BY <1>1 DEF AfterAnswer

LEMMA NoLaterDataKept ==
  ASSUME NEW e \in Ends, NoLaterData(e), gen'[e] = gen[e],
         NEW d \in {0, 1}, Dropped(sig[e], sig'[e], d)
  PROVE  NoLaterData(e)'
<1> SUFFICES ASSUME NEW i \in 1..Len(sig'[e]), NEW j \in 1..Len(sig'[e]),
                    sig'[e][i].t = "res", sig'[e][i].n = gen[e],
                    sig'[e][j].t \in DataSignals
             PROVE  sig'[e][j].from <= sig'[e][i].from
  BY DEF NoLaterData, Answers
<1>1. i + d \in 1..Len(sig[e]) /\ sig'[e][i] = sig[e][i + d]
  BY DEF Dropped
<1>2. j + d \in 1..Len(sig[e]) /\ sig'[e][j] = sig[e][j + d]
  BY DEF Dropped
<1> QED
  BY <1>1, <1>2 DEF NoLaterData, Answers

LEMMA AnswererAskedKept ==
  ASSUME NEW e \in Ends, NEW o \in Ends, AnswererAsked(e, o),
         partner'[e] = partner[e], gen'[o] = gen[o],
         shook[o].req => shook'[o].req,
         NEW d \in {0, 1}, Dropped(sig[e], sig'[e], d)
  PROVE  AnswererAsked(e, o)'
<1>1. ASSUME NEW i \in 1..Len(sig'[e]), sig'[e][i].t = "res",
             sig'[e][i].from = gen[o]
      PROVE  shook'[o].req
  <2>1. i + d \in 1..Len(sig[e]) /\ sig'[e][i] = sig[e][i + d]
    BY DEF Dropped
  <2> QED
    BY <1>1, <2>1 DEF AnswererAsked
<1> QED
  BY <1>1 DEF AnswererAsked

(* Nothing of the pairing changes where signals are only taken.            *)
LEMMA PairKept ==
  ASSUME NEW e \in Ends, NEW o \in Ends, PairOK(e, o), HalvesTell(e)',
         partner'[e] = partner[e], gen'[e] = gen[e], gen'[o] = gen[o],
         shook[o].req => shook'[o].req,
         Len(sig[e]) \in Nat, Len(sig[o]) \in Nat,
         NEW c \in {0, 1}, Dropped(sig[e], sig'[e], c),
         NEW d \in {0, 1}, Dropped(sig[o], sig'[o], d)
  PROVE  PairOK(e, o)'
<1>1. OneAnswer(sig'[e], sig'[o])
  BY OneAnswerKept DEF PairOK
<1>2. AnswererAsked(e, o)'
  BY AnswererAskedKept DEF PairOK
<1>3. AfterAnswer(e)' /\ NoLaterData(e)'
  BY AfterAnswerKept, NoLaterDataKept DEF PairOK
<1> QED
  BY <1>1, <1>2, <1>3 DEF PairOK

LEMMA PairAtBothEnds ==
  ASSUME NEW e \in Ends, NEW o, o = Other(e), PairOK(e, o)', PairOK(o, e)'
  PROVE  PairInv'
<1>1. ASSUME NEW x \in Ends
      PROVE  PairOK(x, Other(x))'
  BY Pair
<1> QED
  BY <1>1 DEF PairInv

LEMMA PairQuiet ==
  ASSUME Typed, PairInv, NEW e \in Ends, Quiet(e)
  PROVE  PairInv'
<1> DEFINE o == Other(e)
<1>1. o \in Ends /\ o # e /\ Other(o) = e
  BY OtherEnd
<1>2. PairOK(e, o) /\ PairOK(o, e)
  BY <1>1 DEF PairInv
<1>3. gen' = gen /\ shook' = shook /\ partner' = partner /\ sig'[o] = sig[o]
  BY QuietFacts
<1>4. PICK d \in {0, 1} : Dropped(sig[e], sig'[e], d)
  BY QuietFacts
<1>5. Len(sig[e]) \in Nat /\ Len(sig[o]) \in Nat
  BY <1>1 DEF Typed
<1>6. Dropped(sig[o], sig'[o], 0)
  BY <1>3, <1>5, NothingDropped
<1>7. HalvesTell(e)' /\ HalvesTell(o)'
  BY <1>1, <1>2, <1>3 DEF PairOK, HalvesTell, Quiet
<1> HIDE DEF o
<1>8. PairOK(e, o)'
  BY <1>1, <1>2, <1>3, <1>4, <1>5, <1>6, <1>7, PairKept
<1>9. PairOK(o, e)'
  BY <1>1, <1>2, <1>3, <1>4, <1>5, <1>6, <1>7, PairKept
<1> QED
  BY <1>8, <1>9, PairAtBothEnds DEF o

LEMMA PairBegins ==
  ASSUME Typed, HandshakeInv, PairInv, NEW e \in Ends, Begins(e)
  PROVE  PairInv'
<1> DEFINE o == Other(e)
<1>1. o \in Ends /\ o # e /\ Other(o) = e
  BY OtherEnd
<1>2. PairOK(e, o) /\ PairOK(o, e)
  BY <1>1 DEF PairInv
<1>3. /\ gen'[e] = gen[e] + 1 /\ gen'[o] = gen[o] /\ sig' = sig
      /\ partner'[e] = None /\ partner'[o] = partner[o]
      /\ ~shook'[e].req /\ ~shook'[e].res /\ shook'[o] = shook[o]
      /\ phase[e] = "none" /\ phase'[e] = "new" /\ phase'[o] = phase[o]
      /\ \A i \in 1..Len(sig[e]) : sig[e][i].t = "res" => sig[e][i].n < gen'[e]
      /\ \A i \in 1..Len(sig[o]) : sig[o][i].from < gen'[e]
      /\ partner[o] < gen'[e]
  BY BeginsFacts
<1>4. gen[e] \in Nat /\ gen[o] \in Nat /\ partner[o] \in Nat
  BY <1>1 DEF Typed
<1> HIDE DEF o
<1>5. PairOK(e, o)'
  <2>1. HalvesTell(e)'
    BY <1>3 DEF HalvesTell, Past
  <2>2. AnswererAsked(e, o)' /\ AfterAnswer(e)'
    BY <1>2, <1>3 DEF PairOK, AnswererAsked, AfterAnswer
  <2>3. NoLaterData(e)'
    BY <1>3, <1>4 DEF NoLaterData, Answers, Typed
  <2> QED
    BY <1>2, <1>3, <2>1, <2>2, <2>3 DEF PairOK
<1>6. PairOK(o, e)'
  <2>1. HalvesTell(o)' /\ AfterAnswer(o)' /\ NoLaterData(o)'
    BY <1>2, <1>3 DEF PairOK, HalvesTell, AfterAnswer, NoLaterData, Answers
  <2>2. AnswererAsked(o, e)'
    BY <1>1, <1>3, <1>4 DEF AnswererAsked, Typed
  <2> QED
    BY <1>2, <1>3, <2>1, <2>2 DEF PairOK
<1> QED
  BY <1>5, <1>6, PairAtBothEnds DEF o

(* The data of an end goes to its partner. *)
LEMMA PairSendsData ==
  ASSUME Typed, HandshakeInv, PairInv, NEW e \in Ends, SendsData(e)
  PROVE  PairInv'
<1> DEFINE o == Other(e)
<1>1. o \in Ends /\ o # e /\ Other(o) = e
  BY OtherEnd
<1>2. PairOK(e, o) /\ PairOK(o, e)
  BY <1>1 DEF PairInv
<1>3. /\ gen' = gen /\ shook' = shook /\ partner' = partner
      /\ phase' = phase /\ phase[e] \in Past /\ sig'[e] = sig[e]
  BY SendsDataFacts
<1>4. PICK m \in Signal : /\ Extended(sig[o], sig'[o], m)
                          /\ m.from = gen[e] /\ m.t \in DataSignals
  BY SendsDataFacts
<1>5. /\ Len(sig[e]) \in Nat /\ Len(sig[o]) \in Nat
      /\ gen[e] \in Nat /\ gen[o] \in Nat /\ partner[o] \in Nat /\ gen[e] # 0
  BY <1>1, <1>3 DEF Typed, HandshakeInv, Phases, Past
<1> HIDE DEF o
<1>6. shook[e].req
  BY <1>2, <1>3 DEF PairOK, HalvesTell, BothHalves
<1>7. m.t \notin {"req", "res"}
  BY <1>4 DEF DataSignals
<1>8. ASSUME NEW i \in 1..Len(sig'[o])
      PROVE  \/ i \in 1..Len(sig[o]) /\ sig'[o][i] = sig[o][i]
             \/ i = Len(sig[o]) + 1 /\ sig'[o][i] = m
  BY <1>4, <1>5 DEF Extended
<1>9. PairOK(e, o)'
  <2>1. OneAnswer(sig[e], sig'[o])
    <3> SUFFICES ASSUME NEW i \in 1..Len(sig[e]), sig[e][i].t = "res",
                        NEW j \in 1..Len(sig'[o]), sig'[o][j].t = "req"
                 PROVE  sig[e][i].n < sig'[o][j].from
      BY <1>2 DEF PairOK, OneAnswer
    <3> QED
      BY <1>2, <1>7, <1>8 DEF PairOK, OneAnswer
  <2> QED
    BY <1>2, <1>3, <2>1 DEF PairOK, HalvesTell, AnswererAsked, AfterAnswer,
                            NoLaterData, Answers
<1>10. PairOK(o, e)'
  <2>1. HalvesTell(o)'
    BY <1>2, <1>3 DEF PairOK, HalvesTell
  <2>2. OneAnswer(sig'[o], sig'[e])
    <3> SUFFICES ASSUME NEW i \in 1..Len(sig'[o]), sig'[o][i].t = "res"
                 PROVE  /\ \A j \in 1..Len(sig'[o]) :
                             i < j /\ sig'[o][j].t = "res" =>
                               sig'[o][i].n < sig'[o][j].n
                        /\ \A j \in 1..Len(sig[e]) :
                             sig[e][j].t = "req" => sig'[o][i].n < sig[e][j].from
      BY <1>3 DEF OneAnswer
    <3>1. i \in 1..Len(sig[o]) /\ sig'[o][i] = sig[o][i]
      BY <1>7, <1>8
    <3>2. ASSUME NEW j \in 1..Len(sig'[o]), i < j, sig'[o][j].t = "res"
          PROVE  sig'[o][i].n < sig'[o][j].n
      <4>1. j \in 1..Len(sig[o]) /\ sig'[o][j] = sig[o][j]
        BY <1>7, <1>8, <3>2
      <4> QED
        BY <1>2, <3>1, <3>2, <4>1 DEF PairOK, OneAnswer
    <3> QED
      BY <1>2, <3>1, <3>2 DEF PairOK, OneAnswer
  <2>3. AnswererAsked(o, e)'
    BY <1>3, <1>6 DEF AnswererAsked
  <2>4. AfterAnswer(o)'
    <3> SUFFICES ASSUME partner[o] # None, NEW i \in 1..Len(sig'[o])
                 PROVE  /\ sig'[o][i].from >= partner[o] /\ sig'[o][i].t # "res"
                        /\ sig'[o][i].t = "req" => sig'[o][i].from # partner[o]
                        /\ sig'[o][i].t \in DataSignals =>
                             sig'[o][i].from = partner[o]
      BY <1>3 DEF AfterAnswer
    <3>1. partner[o] = gen[e]
      BY <1>1, <1>6 DEF HandshakeInv, Outlived
    <3> QED
      BY <1>2, <1>4, <1>5, <1>7, <1>8, <3>1 DEF PairOK, AfterAnswer
  <2>5. NoLaterData(o)'
    <3> SUFFICES ASSUME NEW i \in 1..Len(sig'[o]), NEW j \in 1..Len(sig'[o]),
                        sig'[o][i].t = "res", sig'[o][i].n = gen[o],
                        sig'[o][j].t \in DataSignals
                 PROVE  sig'[o][j].from <= sig'[o][i].from
      BY <1>3 DEF NoLaterData, Answers
    <3>1. i \in 1..Len(sig[o]) /\ sig'[o][i] = sig[o][i]
      BY <1>7, <1>8
    <3>2. CASE j \in 1..Len(sig[o]) /\ sig'[o][j] = sig[o][j]
      BY <1>2, <3>1, <3>2 DEF PairOK, NoLaterData, Answers
    <3>3. CASE sig'[o][j] = m
      <4>1. sig[o][i].from = gen[e]
        BY <1>1, <1>6, <3>1 DEF HandshakeInv, Outlived, Answers
      <4> QED
        BY <1>4, <1>5, <3>1, <3>3, <4>1
    <3> QED
      BY <1>8, <3>2, <3>3
  <2> QED
    BY <2>1, <2>2, <2>3, <2>4, <2>5 DEF PairOK
<1> QED
  BY <1>9, <1>10, PairAtBothEnds DEF o

(* A request comes after everything that was answered. *)
LEMMA PairRequests ==
  ASSUME Typed, HandshakeInv, PairInv, NEW e \in Ends, gen[e] \in Gens, Requests(e)
  PROVE  PairInv'
<1> DEFINE o == Other(e)
<1>1. o \in Ends /\ o # e /\ Other(o) = e
  BY OtherEnd
<1>2. PairOK(e, o) /\ PairOK(o, e)
  BY <1>1 DEF PairInv
<1>3. /\ gen' = gen /\ shook' = shook /\ partner' = partner
      /\ phase[e] = "new" /\ phase'[e] = "handshake" /\ phase'[o] = phase[o]
      /\ sig'[e] = sig[e]
  BY RequestsFacts
<1>4. PICK m \in Signal : /\ Extended(sig[o], sig'[o], m)
                          /\ m.from = gen[e] /\ m.t = "req"
  BY RequestsFacts
<1>5. /\ Len(sig[e]) \in Nat /\ Len(sig[o]) \in Nat
      /\ gen[e] \in Nat /\ gen[o] \in Nat /\ partner[o] \in Nat
  BY <1>1 DEF Typed
<1>6. ~shook[e].req
  BY <1>3 DEF HandshakeInv, Phases
<1>7. partner[o] <= gen[e]
  BY <1>1 DEF HandshakeInv, Phases
<1> HIDE DEF o
<1>8. ASSUME NEW i \in 1..Len(sig'[o])
      PROVE  \/ i \in 1..Len(sig[o]) /\ sig'[o][i] = sig[o][i]
             \/ i = Len(sig[o]) + 1 /\ sig'[o][i] = m
  BY <1>4, <1>5 DEF Extended
<1>9. PairOK(e, o)'
  <2>1. OneAnswer(sig[e], sig'[o])
    <3> SUFFICES ASSUME NEW i \in 1..Len(sig[e]), sig[e][i].t = "res",
                        NEW j \in 1..Len(sig'[o]), sig'[o][j].t = "req"
                 PROVE  sig[e][i].n < sig'[o][j].from
      BY <1>2 DEF PairOK, OneAnswer
    <3>1. CASE j \in 1..Len(sig[o]) /\ sig'[o][j] = sig[o][j]
      BY <1>2, <3>1 DEF PairOK, OneAnswer
    <3>2. CASE sig'[o][j] = m
      BY <1>3, <1>4, <3>2 DEF HandshakeInv, FromThePast
    <3> QED
      BY <1>8, <3>1, <3>2
  <2>2. HalvesTell(e)'
    BY <1>3, <1>6 DEF HalvesTell, BothHalves, Past
  <2> QED
    BY <1>2, <1>3, <2>1, <2>2 DEF PairOK, AnswererAsked, AfterAnswer,
                                  NoLaterData, Answers
<1>10. PairOK(o, e)'
  <2>1. HalvesTell(o)'
    BY <1>2, <1>3 DEF PairOK, HalvesTell
  <2>2. OneAnswer(sig'[o], sig'[e])
    <3> SUFFICES ASSUME NEW i \in 1..Len(sig'[o]), sig'[o][i].t = "res"
                 PROVE  /\ \A j \in 1..Len(sig'[o]) :
                             i < j /\ sig'[o][j].t = "res" =>
                               sig'[o][i].n < sig'[o][j].n
                        /\ \A j \in 1..Len(sig[e]) :
                             sig[e][j].t = "req" => sig'[o][i].n < sig[e][j].from
      BY <1>3 DEF OneAnswer
    <3>1. i \in 1..Len(sig[o]) /\ sig'[o][i] = sig[o][i]
      BY <1>4, <1>8
    <3>2. ASSUME NEW j \in 1..Len(sig'[o]), i < j, sig'[o][j].t = "res"
          PROVE  sig'[o][i].n < sig'[o][j].n
      <4>1. j \in 1..Len(sig[o]) /\ sig'[o][j] = sig[o][j]
        BY <1>4, <1>8, <3>2
      <4> QED
        BY <1>2, <3>1, <3>2, <4>1 DEF PairOK, OneAnswer
    <3> QED
      BY <1>2, <3>1, <3>2 DEF PairOK, OneAnswer
  <2>3. AnswererAsked(o, e)'
    <3> SUFFICES ASSUME NEW i \in 1..Len(sig'[o]), sig'[o][i].t = "res",
                        sig'[o][i].from = gen[e]
                 PROVE  shook[e].req
      BY <1>2, <1>3 DEF PairOK, AnswererAsked
    <3>1. i \in 1..Len(sig[o]) /\ sig'[o][i] = sig[o][i]
      BY <1>4, <1>8
    <3> QED
      BY <1>2, <3>1 DEF PairOK, AnswererAsked
  <2>4. AfterAnswer(o)'
    <3> SUFFICES ASSUME partner[o] # None, NEW i \in 1..Len(sig'[o])
                 PROVE  /\ sig'[o][i].from >= partner[o] /\ sig'[o][i].t # "res"
                        /\ sig'[o][i].t = "req" => sig'[o][i].from # partner[o]
                        /\ sig'[o][i].t \in DataSignals =>
                             sig'[o][i].from = partner[o]
      BY <1>3 DEF AfterAnswer
    <3>1. CASE i \in 1..Len(sig[o]) /\ sig'[o][i] = sig[o][i]
      BY <1>2, <3>1 DEF PairOK, AfterAnswer
    <3>2. CASE sig'[o][i] = m
      <4>1. partner[o] # gen[e]
        BY <1>2, <1>6 DEF PairOK, AnswererAsked
      <4> QED
        BY <1>4, <1>5, <1>7, <3>2, <4>1 DEF DataSignals
    <3> QED
      BY <1>8, <3>1, <3>2
  <2>5. NoLaterData(o)'
    <3> SUFFICES ASSUME NEW i \in 1..Len(sig'[o]), NEW j \in 1..Len(sig'[o]),
                        sig'[o][i].t = "res", sig'[o][i].n = gen[o],
                        sig'[o][j].t \in DataSignals
                 PROVE  sig'[o][j].from <= sig'[o][i].from
      BY <1>3 DEF NoLaterData, Answers
    <3>1. i \in 1..Len(sig[o]) /\ sig'[o][i] = sig[o][i]
      BY <1>4, <1>8
    <3>2. j \in 1..Len(sig[o]) /\ sig'[o][j] = sig[o][j]
      BY <1>4, <1>8 DEF DataSignals
    <3> QED
      BY <1>2, <3>1, <3>2 DEF PairOK, NoLaterData, Answers
  <2> QED
    BY <2>1, <2>2, <2>3, <2>4, <2>5 DEF PairOK
<1> QED
  BY <1>9, <1>10, PairAtBothEnds DEF o

(* The request is gone when its answer is sent, and every request that     *)
(* follows is a later one.                                                 *)
LEMMA PairAnswering ==
  ASSUME Typed, HandshakeInv, PairInv, NEW e \in Ends, gen[e] \in Gens, Answering(e)
  PROVE  PairInv'
<1> DEFINE o == Other(e)
<1>1. o \in Ends /\ o # e /\ Other(o) = e
  BY OtherEnd
<1>2. PairOK(e, o) /\ PairOK(o, e)
  BY <1>1 DEF PairInv
<1>3. /\ gen' = gen /\ partner' = partner
      /\ phase[e] = "handshake" /\ phase'[o] = phase[o]
      /\ phase'[e] \notin {"none", "new"}
      /\ shook'[e] = [shook[e] EXCEPT !.req = TRUE] /\ shook'[o] = shook[o]
      /\ 1 \in 1..Len(sig[e]) /\ sig[e][1].t = "req"
      /\ Dropped(sig[e], sig'[e], 1)
  BY AnsweringFacts
<1>4. PICK m \in Signal : /\ Extended(sig[o], sig'[o], m)
                          /\ m.from = gen[e] /\ m.t = "res" /\ m.n = sig[e][1].from
  <2>1. AnswerGoesOut(e, o)
    BY AnsweringFacts
  <2> QED
    BY <2>1 DEF AnswerGoesOut
<1>5. /\ Len(sig[e]) \in Nat /\ Len(sig[o]) \in Nat
      /\ gen[e] \in Nat /\ gen[o] \in Nat /\ partner[o] \in Nat
  BY <1>1 DEF Typed
<1>6. shook'[e].req
  BY <1>1, <1>3 DEF Typed
<1> HIDE DEF o
<1>8. ASSUME NEW i \in 1..Len(sig'[o])
      PROVE  \/ i \in 1..Len(sig[o]) /\ sig'[o][i] = sig[o][i]
             \/ i = Len(sig[o]) + 1 /\ sig'[o][i] = m
  BY <1>4, <1>5 DEF Extended
<1>7. ASSUME NEW i \in 1..Len(sig'[e])
      PROVE  i + 1 \in 1..Len(sig[e]) /\ sig'[e][i] = sig[e][i + 1]
  BY <1>3 DEF Dropped
<1>9. PairOK(e, o)'
  <2>1. OneAnswer(sig'[e], sig'[o])
    <3> SUFFICES ASSUME NEW i \in 1..Len(sig'[e]), sig'[e][i].t = "res"
                 PROVE  /\ \A j \in 1..Len(sig'[e]) :
                             i < j /\ sig'[e][j].t = "res" =>
                               sig'[e][i].n < sig'[e][j].n
                        /\ \A j \in 1..Len(sig'[o]) :
                             sig'[o][j].t = "req" => sig'[e][i].n < sig'[o][j].from
      BY DEF OneAnswer
    <3>1. i + 1 \in 1..Len(sig[e]) /\ sig'[e][i] = sig[e][i + 1]
      BY <1>7
    <3>2. ASSUME NEW j \in 1..Len(sig'[e]), i < j, sig'[e][j].t = "res"
          PROVE  sig'[e][i].n < sig'[e][j].n
      <4>1. j + 1 \in 1..Len(sig[e]) /\ sig'[e][j] = sig[e][j + 1]
        BY <1>7
      <4>2. i + 1 < j + 1
        BY <3>2
      <4> QED
        BY <1>2, <3>1, <3>2, <4>1, <4>2 DEF PairOK, OneAnswer
    <3>3. ASSUME NEW j \in 1..Len(sig'[o]), sig'[o][j].t = "req"
          PROVE  sig'[e][i].n < sig'[o][j].from
      <4>1. j \in 1..Len(sig[o]) /\ sig'[o][j] = sig[o][j]
        BY <1>4, <1>8, <3>3
      <4> QED
        BY <1>2, <3>1, <3>3, <4>1 DEF PairOK, OneAnswer
    <3> QED
      BY <3>2, <3>3
  <2>2. HalvesTell(e)'
    BY DEF HalvesTell, Answering, GoesOn
  <2>3. AnswererAsked(e, o)' /\ AfterAnswer(e)' /\ NoLaterData(e)'
    BY <1>1, <1>2, <1>3, AnswererAskedKept, AfterAnswerKept, NoLaterDataKept DEF PairOK
  <2> QED
    BY <2>1, <2>2, <2>3 DEF PairOK
<1>10. PairOK(o, e)'
  <2>1. HalvesTell(o)'
    BY <1>2, <1>3 DEF PairOK, HalvesTell
  <2>2. OneAnswer(sig'[o], sig'[e])
    <3> SUFFICES ASSUME NEW i \in 1..Len(sig'[o]), sig'[o][i].t = "res"
                 PROVE  /\ \A j \in 1..Len(sig'[o]) :
                             i < j /\ sig'[o][j].t = "res" =>
                               sig'[o][i].n < sig'[o][j].n
                        /\ \A j \in 1..Len(sig'[e]) :
                             sig'[e][j].t = "req" => sig'[o][i].n < sig'[e][j].from
      BY DEF OneAnswer
    <3>1. ASSUME i \in 1..Len(sig[o]), sig'[o][i] = sig[o][i]
          PROVE  /\ sig'[o][i].n < m.n
                 /\ \A j \in 1..Len(sig'[e]) :
                      sig'[e][j].t = "req" => sig'[o][i].n < sig'[e][j].from
      <4>1. sig'[o][i].n < m.n
        BY <1>2, <1>3, <1>4, <3>1 DEF PairOK, OneAnswer
      <4> QED
        BY <1>2, <1>7, <3>1, <4>1 DEF PairOK, OneAnswer
    <3>2. ASSUME NEW j \in 1..Len(sig'[e]), sig'[e][j].t = "req"
          PROVE  m.n < sig'[e][j].from
      <4>1. j + 1 \in 1..Len(sig[e]) /\ sig'[e][j] = sig[e][j + 1]
        BY <1>7
      <4>2. 1 < j + 1
        OBVIOUS
      <4> QED
        BY <1>3, <1>4, <3>2, <4>1, <4>2 DEF HandshakeInv, InOrder
    <3>3. ASSUME NEW j \in 1..Len(sig'[o]), i < j, sig'[o][j].t = "res"
          PROVE  sig'[o][i].n < sig'[o][j].n
      <4>1. i \in 1..Len(sig[o]) /\ sig'[o][i] = sig[o][i]
        BY <1>5, <1>8, <3>3
      <4>2. CASE j \in 1..Len(sig[o]) /\ sig'[o][j] = sig[o][j]
        BY <1>2, <3>3, <4>1, <4>2 DEF PairOK, OneAnswer
      <4>3. CASE sig'[o][j] = m
        BY <3>1, <4>1, <4>3
      <4> QED
        BY <1>8, <4>2, <4>3
    <3> QED
      BY <1>8, <3>1, <3>2, <3>3
  <2>3. AnswererAsked(o, e)'
    BY <1>6 DEF AnswererAsked
  <2>6. ~IsAnswered(o)
    <3> SUFFICES ASSUME IsAnswered(o) PROVE FALSE
      OBVIOUS
    <3>1. \A i \in 1..Len(sig[Other(o)]) : sig[Other(o)][i].t # "req"
      BY <1>1 DEF HandshakeInv, Answered
    <3> QED
      BY <1>1, <1>3, <3>1
  <2>4. AfterAnswer(o)'
    BY <1>3, <2>6 DEF AfterAnswer, IsAnswered
  <2>5. NoLaterData(o)'
    <3> SUFFICES ASSUME NEW i \in 1..Len(sig'[o]), NEW j \in 1..Len(sig'[o]),
                        sig'[o][i].t = "res", sig'[o][i].n = gen[o],
                        sig'[o][j].t \in DataSignals
                 PROVE  sig'[o][j].from <= sig'[o][i].from
      BY <1>3 DEF NoLaterData, Answers
    <3>1. sig'[o][i] = m
      BY <1>8, <2>6 DEF IsAnswered, Answers
    <3>2. sig'[o][j].from <= gen[e]
      <4>1. j \in 1..Len(sig[o]) /\ sig'[o][j] = sig[o][j]
        BY <1>4, <1>8 DEF DataSignals
      <4> QED
        BY <1>1, <4>1 DEF HandshakeInv, FromThePast
    <3> QED
      BY <1>4, <3>1, <3>2
  <2> QED
    BY <2>1, <2>2, <2>3, <2>4, <2>5 DEF PairOK
<1> QED
  BY <1>9, <1>10, PairAtBothEnds DEF o

(* What follows the answer is of the end that answered, or of a later one. *)
LEMMA PairMatching ==
  ASSUME Typed, HandshakeInv, PairInv, NEW e \in Ends, Matching(e)
  PROVE  PairInv'
<1> DEFINE o == Other(e)
<1>1. o \in Ends /\ o # e /\ Other(o) = e
  BY OtherEnd
<1>2. PairOK(e, o) /\ PairOK(o, e)
  BY <1>1 DEF PairInv
<1>3. /\ gen' = gen
      /\ partner'[e] = sig[e][1].from /\ partner'[o] = partner[o]
      /\ phase[e] = "handshake" /\ phase'[o] = phase[o]
      /\ phase'[e] \notin {"none", "new"}
      /\ shook'[e] = [shook[e] EXCEPT !.res = TRUE] /\ shook'[o] = shook[o]
      /\ 1 \in 1..Len(sig[e]) /\ sig[e][1].t = "res" /\ sig[e][1].n = gen[e]
      /\ Dropped(sig[e], sig'[e], 1) /\ sig'[o] = sig[o]
  BY MatchingFacts
<1>5. /\ Len(sig[e]) \in Nat /\ Len(sig[o]) \in Nat
      /\ gen[e] \in Nat /\ gen[o] \in Nat
      /\ \A i \in 1..Len(sig[e]) : sig[e][i].from \in Nat
  BY <1>1 DEF Typed
<1>6. shook'[e].req = shook[e].req
  BY <1>1, <1>3 DEF Typed
<1> HIDE DEF o
<1>7. ASSUME NEW i \in 1..Len(sig'[e])
      PROVE  i + 1 \in 1..Len(sig[e]) /\ sig'[e][i] = sig[e][i + 1] /\ 1 < i + 1
  BY <1>3 DEF Dropped
<1>8. Dropped(sig[o], sig'[o], 0)
  BY <1>3, <1>5, NothingDropped
<1>9. PairOK(e, o)'
  <2>1. OneAnswer(sig'[e], sig'[o]) /\ NoLaterData(e)'
    BY <1>2, <1>3, <1>5, <1>8, OneAnswerKept, NoLaterDataKept DEF PairOK
  <2>2. HalvesTell(e)'
    BY DEF HalvesTell, Matching, GoesOn
  <2>3. AnswererAsked(e, o)'
    <3> SUFFICES ASSUME \/ partner'[e] = gen[o]
                        \/ \E i \in 1..Len(sig'[e]) :
                             sig'[e][i].t = "res" /\ sig'[e][i].from = gen[o]
                 PROVE  shook[o].req
      BY <1>3 DEF AnswererAsked
    <3> QED
      BY <1>2, <1>3, <1>7 DEF PairOK, AnswererAsked
  <2>4. AfterAnswer(e)'
    <3> SUFFICES ASSUME NEW i \in 1..Len(sig'[e])
                 PROVE  /\ sig'[e][i].from >= sig[e][1].from /\ sig'[e][i].t # "res"
                        /\ sig'[e][i].t = "req" => sig'[e][i].from # sig[e][1].from
                        /\ sig'[e][i].t \in DataSignals =>
                             sig'[e][i].from = sig[e][1].from
      BY <1>3 DEF AfterAnswer
    <3>1. i + 1 \in 1..Len(sig[e]) /\ sig'[e][i] = sig[e][i + 1] /\ 1 < i + 1
      BY <1>7
    <3>2. /\ sig[e][1].from <= sig[e][i + 1].from
          /\ sig[e][i + 1].t = "req" => sig[e][1].from < sig[e][i + 1].from
      BY <1>3, <3>1 DEF HandshakeInv, InOrder
    <3>3. sig[e][i + 1].t # "res"
      <4> SUFFICES ASSUME sig[e][i + 1].t = "res" PROVE FALSE
        OBVIOUS
      <4>1. gen[e] < sig[e][i + 1].n
        BY <1>2, <1>3, <3>1 DEF PairOK, OneAnswer
      <4>2. sig[e][i + 1].n <= gen[e] /\ sig[e][i + 1].n \in Nat
        BY <3>1 DEF HandshakeInv, FromThePast, Typed
      <4> QED
        BY <1>5, <4>1, <4>2
    <3>4. sig[e][i + 1].t \in DataSignals => sig[e][i + 1].from <= sig[e][1].from
      BY <1>2, <1>3, <3>1 DEF PairOK, NoLaterData, Answers
    <3> QED
      BY <1>3, <1>5, <3>1, <3>2, <3>3, <3>4
  <2> QED
    BY <2>1, <2>2, <2>3, <2>4 DEF PairOK
<1>10. PairOK(o, e)'
  <2>1. HalvesTell(o)'
    BY <1>2, <1>3 DEF PairOK, HalvesTell
  <2> QED
    BY <1>1, <1>2, <1>3, <1>5, <1>6, <1>8, <2>1, PairKept
<1> QED
  BY <1>9, <1>10, PairAtBothEnds DEF o

PairConnInv == ConnInv /\ PairInv

LEMMA PairInit == Init => PairInv
<1> SUFFICES ASSUME Init, NEW e \in Ends PROVE PairOK(e, Other(e))
  BY DEF PairInv
<1>1. Other(e) \in Ends
  BY OtherEnd
<1>2. sig[e] = << >> /\ sig[Other(e)] = << >> /\ partner[e] = None /\ phase[e] = "none"
  BY <1>1 DEF Init
<1>3. 1..Len(sig[e]) = {} /\ 1..Len(sig[Other(e)]) = {}
  BY <1>2
<1> QED
  BY <1>2, <1>3 DEF PairOK, HalvesTell, OneAnswer, AnswererAsked, AfterAnswer,
                    NoLaterData, Past

LEMMA PairStep == PairConnInv /\ [Next]_vars => PairInv'
<1> SUFFICES ASSUME ConnInv, PairInv, [Next]_vars PROVE PairInv'
  BY DEF PairConnInv
<1>1. CASE UNCHANGED vars
  BY <1>1 DEF vars, PairInv, PairOK, HalvesTell, OneAnswer, AnswererAsked,
              AfterAnswer, NoLaterData, Answers
<1>2. CASE Next
  <2>1. TypeOK /\ HandshakeInv /\ Typed /\ Phases
    BY TypesHold DEF ConnInv, HandshakeInv
  <2>2. PICK e \in Ends : \/ Quiet(e) \/ SendsData(e) \/ Begins(e) \/ Requests(e)
                         \/ Answering(e) \/ Matching(e)
    BY <1>2, <2>1, StepsAreFew
  <2>3. phase[e] # "none" => gen[e] \in Gens
    <3>1. gen \in [Ends -> 0..MaxGen]
      BY <2>1 DEF TypeOK
    <3> QED
      BY <2>1, <3>1, ConnAssumption DEF Phases, Gens
  <2>4. CASE Quiet(e)
    BY <2>1, <2>4, PairQuiet
  <2>5. CASE SendsData(e)
    BY <2>1, <2>5, PairSendsData
  <2>6. CASE Begins(e)
    BY <2>1, <2>6, PairBegins
  <2>7. CASE Requests(e)
    BY <2>1, <2>3, <2>7, PairRequests DEF Requests
  <2>8. CASE Answering(e)
    BY <2>1, <2>3, <2>8, PairAnswering DEF Answering
  <2>9. CASE Matching(e)
    BY <2>1, <2>9, PairMatching
  <2> QED
    BY <2>2, <2>4, <2>5, <2>6, <2>7, <2>8, <2>9
<1> QED
  BY <1>1, <1>2

LEMMA PairInvariant == Spec => []PairConnInv
<1>1. Init => PairConnInv
  BY ConnInit, PairInit DEF PairConnInv
<1>2. PairConnInv /\ [Next]_vars => PairConnInv'
  BY ConnStep, PairStep DEF PairConnInv
<1> QED
  BY <1>1, <1>2, PTL DEF Spec

(* An end that tries webrtc is closed by a signal of a handshake only when *)
(* its peer has another connection by now: it answered once, and its       *)
(* request came before.                                                    *)
THEOREM RefusalsHaveReason == Spec => []RefusesOnlyNewcomers
<1>1. PairConnInv => RefusesOnlyNewcomers
  <2> SUFFICES ASSUME PairConnInv, NEW e \in Ends, phase[e] = "webrtc",
                      Gets(e, {"req", "res"})
               PROVE  gen[Other(e)] > partner[e]
    BY DEF RefusesOnlyNewcomers
  <2> DEFINE o == Other(e)
  <2>1. o \in Ends /\ PairOK(e, o) /\ HandshakeInv /\ Typed
    BY OtherEnd, TypesHold DEF PairConnInv, PairInv, ConnInv
  <2>2. partner[e] # None
    BY <2>1 DEF PairOK, HalvesTell, BothHalves, Past, HandshakeInv, Phases
  <2>3. 1 \in 1..Len(sig[e]) /\ First(e) = sig[e][1] /\ sig[e][1].t \in {"req", "res"}
    BY <2>1, TakingShifts DEF Gets, First, Typed
  <2>4. sig[e][1].from >= partner[e] /\ sig[e][1].from # partner[e]
    BY <2>1, <2>2, <2>3 DEF PairOK, AfterAnswer
  <2>5. sig[e][1].from <= gen[o]
    BY <2>1, <2>3 DEF HandshakeInv, FromThePast
  <2>6. gen[o] \in Nat /\ partner[e] \in Nat /\ sig[e][1].from \in Nat
    BY <2>1, <2>3 DEF Typed
  <2> QED
    BY <2>4, <2>5, <2>6
<1> QED
  BY <1>1, PairInvariant, PTL

-----------------------------------------------------------------------------
(* As long as no signal is lost, what is before the request of the present *)
(* connection of e is on its way with it, who saw the request answered it, *)
(* and who has the answer of e sent e its own before anything else.        *)

RequestIn(q, g) == \E j \in 1..Len(q) : q[j].t = "req" /\ q[j].from = g
IsAnswerOf(m, n, g) == m.t = "res" /\ m.n = n /\ m.from = g
AnswerIn(q, n, g) == \E i \in 1..Len(q) : IsAnswerOf(q[i], n, g)
AnswerFirst(q, n, g) ==
  \E i \in 1..Len(q) : /\ IsAnswerOf(q[i], n, g)
                       /\ \A j \in 1..i : q[j].t \in DataSignals => q[j].from # g

OldBeforeRequest(q, g) == (\E i \in 1..Len(q) : q[i].from # g) => RequestIn(q, g)
NoDataOf(q, g) == \A i \in 1..Len(q) : q[i].from = g => q[i].t \notin DataSignals

Follows(e, o) ==
  phase[e] = "handshake" =>
    /\ NoDataOf(sig[o], gen[e])
    /\ lost = 0 =>
         /\ OldBeforeRequest(sig[o], gen[e])
         /\ phase[o] = "handshake" /\ shook[o].req =>
              \/ RequestIn(sig[o], gen[e])
              \/ AnswerIn(sig[e], gen[e], gen[o])
              \/ partner[e] = gen[o]
         /\ BothHalves(shook[o]) /\ partner[o] = gen[e] =>
              partner[e] = gen[o] \/ AnswerFirst(sig[e], gen[e], gen[o])

FollowInv == \A e \in Ends : Follows(e, Other(e))

LEMMA ExtendingKeeps ==
  ASSUME NEW q, NEW r, NEW m, NEW n, NEW g, Len(q) \in Nat, Extended(q, r, m)
  PROVE  /\ RequestIn(q, g) => RequestIn(r, g)
         /\ AnswerIn(q, n, g) => AnswerIn(r, n, g)
         /\ AnswerFirst(q, n, g) => AnswerFirst(r, n, g)
         /\ OldBeforeRequest(q, g) /\ m.from = g => OldBeforeRequest(r, g)
         /\ NoDataOf(q, g) /\ m.t \notin DataSignals => NoDataOf(r, g)
<1>1. ASSUME NEW i \in 1..Len(q)
      PROVE  i \in 1..Len(r) /\ r[i] = q[i]
  BY DEF Extended
<1>2. ASSUME NEW i \in 1..Len(r)
      PROVE  \/ i \in 1..Len(q) /\ r[i] = q[i]
             \/ i = Len(q) + 1 /\ r[i] = m
  BY DEF Extended
<1>3. RequestIn(q, g) => RequestIn(r, g)
  BY <1>1 DEF RequestIn
<1>4. AnswerIn(q, n, g) => AnswerIn(r, n, g)
  BY <1>1 DEF AnswerIn
<1>5. ASSUME AnswerFirst(q, n, g) PROVE AnswerFirst(r, n, g)
  <2>1. PICK i \in 1..Len(q) :
          /\ IsAnswerOf(q[i], n, g)
          /\ \A j \in 1..i : q[j].t \in DataSignals => q[j].from # g
    BY <1>5 DEF AnswerFirst
  <2>2. \A j \in 1..i : j \in 1..Len(q) /\ r[j] = q[j]
    BY <1>1
  <2>3. i \in 1..Len(r) /\ r[i] = q[i]
    BY <1>1
  <2> QED
    BY <2>1, <2>2, <2>3 DEF AnswerFirst
<1>6. OldBeforeRequest(q, g) /\ m.from = g => OldBeforeRequest(r, g)
  BY <1>2, <1>3 DEF OldBeforeRequest
<1>7. NoDataOf(q, g) /\ m.t \notin DataSignals => NoDataOf(r, g)
  BY <1>2 DEF NoDataOf
<1> QED
  BY <1>3, <1>4, <1>5, <1>6, <1>7

LEMMA DroppingKeeps ==
  ASSUME NEW q, NEW r, NEW n, NEW g, NEW d \in {0, 1}, Len(q) \in Nat, Dropped(q, r, d)
  PROVE  /\ NoDataOf(q, g) => NoDataOf(r, g)
         /\ RequestIn(q, g) /\ (d = 0 \/ q[1].t # "req" \/ q[1].from # g) => RequestIn(r, g)
         /\ AnswerIn(q, n, g) /\ (d = 0 \/ ~IsAnswerOf(q[1], n, g)) => AnswerIn(r, n, g)
         /\ AnswerFirst(q, n, g) /\ (d = 0 \/ ~IsAnswerOf(q[1], n, g)) => AnswerFirst(r, n, g)
<1>1. ASSUME NEW i \in 1..Len(r)
      PROVE  i + d \in 1..Len(q) /\ r[i] = q[i + d]
  BY DEF Dropped
<1>2. ASSUME NEW i \in 1..Len(q), d = 0 \/ i # 1
      PROVE  i - d \in 1..Len(r) /\ r[i - d] = q[i]
  <2>1. i - d \in 1..Len(r)
    BY <1>2 DEF Dropped
  <2>2. r[i - d] = q[(i - d) + d]
    BY <1>1, <2>1
  <2>3. (i - d) + d = i
    OBVIOUS
  <2> QED
    BY <2>1, <2>2, <2>3
<1>3. NoDataOf(q, g) => NoDataOf(r, g)
  BY <1>1 DEF NoDataOf
<1>4. ASSUME RequestIn(q, g), d = 0 \/ q[1].t # "req" \/ q[1].from # g
      PROVE  RequestIn(r, g)
  <2>1. PICK j \in 1..Len(q) : q[j].t = "req" /\ q[j].from = g
    BY <1>4 DEF RequestIn
  <2>2. j - d \in 1..Len(r) /\ r[j - d] = q[j]
    BY <1>2, <1>4, <2>1
  <2> QED
    BY <2>1, <2>2 DEF RequestIn
<1>5. ASSUME AnswerIn(q, n, g), d = 0 \/ ~IsAnswerOf(q[1], n, g)
      PROVE  AnswerIn(r, n, g)
  <2>1. PICK j \in 1..Len(q) : IsAnswerOf(q[j], n, g)
    BY <1>5 DEF AnswerIn
  <2>2. j - d \in 1..Len(r) /\ r[j - d] = q[j]
    BY <1>2, <1>5, <2>1
  <2> QED
    BY <2>1, <2>2 DEF AnswerIn
<1>6. ASSUME AnswerFirst(q, n, g), d = 0 \/ ~IsAnswerOf(q[1], n, g)
      PROVE  AnswerFirst(r, n, g)
  <2>1. PICK i \in 1..Len(q) :
          /\ IsAnswerOf(q[i], n, g)
          /\ \A j \in 1..i : q[j].t \in DataSignals => q[j].from # g
    BY <1>6 DEF AnswerFirst
  <2>2. i - d \in 1..Len(r) /\ r[i - d] = q[i]
    BY <1>2, <1>6, <2>1
  <2>3. ASSUME NEW j \in 1..(i - d), r[j].t \in DataSignals
        PROVE  r[j].from # g
    <3>1. j \in 1..Len(r)
      BY <2>2
    <3>2. r[j] = q[j + d] /\ j + d \in 1..i
      BY <1>1, <3>1
    <3> QED
      BY <2>1, <2>3, <3>2
  <2> QED
    BY <2>1, <2>2, <2>3 DEF AnswerFirst
<1> QED
  BY <1>3, <1>4, <1>5, <1>6

(* The last request of an end leaves the queue with what was before it.    *)
LEMMA RequestIsLast ==
  ASSUME Typed, InOrder, FromThePast, NEW e \in Ends, NEW o \in Ends, e = Other(o),
         OldBeforeRequest(sig[o], gen[e]), NEW r, NEW d \in {0, 1}, Dropped(sig[o], r, d)
  PROVE  OldBeforeRequest(r, gen[e])
<1> SUFFICES ASSUME NEW i \in 1..Len(r), r[i].from # gen[e]
             PROVE  RequestIn(r, gen[e])
  BY DEF OldBeforeRequest
<1>1. i + d \in 1..Len(sig[o]) /\ r[i] = sig[o][i + d]
  BY DEF Dropped
<1>2. RequestIn(sig[o], gen[e])
  BY <1>1 DEF OldBeforeRequest
<1>3. d = 0 \/ sig[o][1].from # gen[e]
  <2> SUFFICES ASSUME d = 1, sig[o][1].from = gen[e] PROVE FALSE
    OBVIOUS
  <2>1. 1 \in 1..Len(sig[o]) /\ 1 < i + d
    BY <1>1 DEF Typed
  <2>2. gen[e] <= sig[o][i + d].from
    BY <1>1, <2>1 DEF InOrder
  <2>3. sig[o][i + d].from <= gen[e]
    BY <1>1 DEF FromThePast
  <2> QED
    BY <1>1, <2>2, <2>3 DEF Typed
<1>4. Len(sig[o]) \in Nat
  BY DEF Typed
<1> HIDE DEF RequestIn
<1> QED
  BY <1>2, <1>3, <1>4, DroppingKeeps

LEMMA FollowsAtBothEnds ==
  ASSUME NEW e \in Ends, NEW o, o = Other(e), Follows(e, o)', Follows(o, e)'
  PROVE  FollowInv'
<1>1. ASSUME NEW x \in Ends
      PROVE  Follows(x, Other(x))'
  BY Pair
<1> QED
  BY <1>1 DEF FollowInv

LEMMA FollowQuiet ==
  ASSUME Typed, HandshakeInv, FollowInv, NEW e \in Ends, Quiet(e)
  PROVE  FollowInv'
<1> DEFINE o == Other(e)
<1>1. o \in Ends /\ o # e /\ Other(o) = e /\ Other(e) = o
  BY OtherEnd
<1>2. Follows(e, o) /\ Follows(o, e)
  BY <1>1 DEF FollowInv
<1>3. gen' = gen /\ shook' = shook /\ partner' = partner /\ sig'[o] = sig[o]
  BY QuietFacts
<1>4. PICK d \in {0, 1} :
        /\ Dropped(sig[e], sig'[e], d)
        /\ lost' = 0 /\ phase'[e] = "handshake" /\ d = 1 =>
             /\ sig[e] # << >> /\ sig[e][1].t \in DataSignals
  BY QuietFacts
<1>5. Len(sig[e]) \in Nat
  BY <1>1 DEF Typed
<1>6. /\ phase'[e] = "handshake" => phase[e] = "handshake"
      /\ phase'[o] = "handshake" => phase[o] = "handshake"
      /\ lost' = 0 => lost = 0
  BY <1>1 DEF Quiet
<1> HIDE DEF o
<1>7. Follows(e, o)'
  <2> SUFFICES ASSUME phase'[e] = "handshake" PROVE Follows(e, o)'
    BY DEF Follows
  <2>1. NoDataOf(sig'[o], gen'[e])
    BY <1>2, <1>3, <1>6 DEF Follows
  <2>2. ASSUME lost' = 0
        PROVE  /\ AnswerIn(sig[e], gen[e], gen[o]) => AnswerIn(sig'[e], gen[e], gen[o])
               /\ AnswerFirst(sig[e], gen[e], gen[o]) => AnswerFirst(sig'[e], gen[e], gen[o])
    <3>1. d = 0 \/ ~IsAnswerOf(sig[e][1], gen[e], gen[o])
      BY <1>4, <2>2 DEF IsAnswerOf, DataSignals
    <3> QED
      BY <1>4, <1>5, <3>1, DroppingKeeps
  <2> QED
    BY <1>2, <1>3, <1>6, <2>1, <2>2 DEF Follows
<1>8. Follows(o, e)'
  <2> SUFFICES ASSUME phase'[o] = "handshake" PROVE Follows(o, e)'
    BY DEF Follows
  <2>1. NoDataOf(sig'[e], gen'[o])
    BY <1>2, <1>3, <1>4, <1>5, <1>6, DroppingKeeps DEF Follows
  <2>2. ASSUME lost' = 0
        PROVE  OldBeforeRequest(sig'[e], gen'[o])
    <3>1. OldBeforeRequest(sig[e], gen[o]) /\ InOrder /\ FromThePast
      BY <1>2, <1>6, <2>2 DEF Follows, HandshakeInv
    <3> DEFINE r == sig'[e]
    <3>2. Dropped(sig[e], r, d) /\ gen'[o] = gen[o]
      BY <1>3, <1>4
    <3> HIDE DEF r
    <3>3. OldBeforeRequest(r, gen[o])
      BY <1>1, <3>1, <3>2, RequestIsLast
    <3> QED
      BY <3>2, <3>3 DEF r
  <2>3. ASSUME lost' = 0, phase'[e] = "handshake", RequestIn(sig[e], gen[o])
        PROVE  RequestIn(sig'[e], gen[o])
    <3>1. d = 0 \/ sig[e][1].t # "req"
      BY <1>4, <2>3 DEF DataSignals
    <3> QED
      BY <1>4, <1>5, <2>3, <3>1, DroppingKeeps
  <2> QED
    BY <1>2, <1>3, <1>6, <2>1, <2>2, <2>3 DEF Follows
<1> QED
  BY <1>7, <1>8, FollowsAtBothEnds DEF o

LEMMA FollowSendsData ==
  ASSUME Typed, FollowInv, NEW e \in Ends, SendsData(e)
  PROVE  FollowInv'
<1> DEFINE o == Other(e)
<1>1. o \in Ends /\ o # e /\ Other(o) = e
  BY OtherEnd
<1>2. Follows(e, o) /\ Follows(o, e)
  BY <1>1 DEF FollowInv
<1>3. /\ gen' = gen /\ shook' = shook /\ partner' = partner
      /\ phase' = phase /\ lost' = lost /\ phase[e] \in Past /\ sig'[e] = sig[e]
  BY SendsDataFacts
<1>4. PICK m \in Signal : /\ Extended(sig[o], sig'[o], m)
                          /\ m.from = gen[e] /\ m.t \in DataSignals
  BY SendsDataFacts
<1>5. Len(sig[o]) \in Nat
  BY <1>1 DEF Typed
<1> HIDE DEF o
<1>6. Follows(e, o)'
  BY <1>3 DEF Follows, Past
<1>7. Follows(o, e)'
  <2>1. phase'[e] # "handshake"
    BY <1>3 DEF Past
  <2>2. AnswerFirst(sig[o], gen[o], gen[e]) => AnswerFirst(sig'[o], gen[o], gen[e])
    BY <1>4, <1>5, ExtendingKeeps
  <2> QED
    BY <1>2, <1>3, <2>1, <2>2 DEF Follows
<1> QED
  BY <1>6, <1>7, FollowsAtBothEnds DEF o

LEMMA FollowBegins ==
  ASSUME Typed, HandshakeInv, FollowInv, NEW e \in Ends, Begins(e)
  PROVE  FollowInv'
<1> DEFINE o == Other(e)
<1>1. o \in Ends /\ o # e /\ Other(o) = e
  BY OtherEnd
<1>2. Follows(e, o) /\ Follows(o, e)
  BY <1>1 DEF FollowInv
<1>3. /\ gen'[o] = gen[o] /\ sig' = sig /\ lost' = lost
      /\ ~shook'[e].req /\ ~shook'[e].res
      /\ phase'[e] = "new" /\ phase'[o] = phase[o]
  BY BeginsFacts
<1> HIDE DEF o
<1>4. Follows(e, o)'
  BY <1>3 DEF Follows
<1>5. Follows(o, e)'
  BY <1>2, <1>3 DEF Follows, BothHalves
<1> QED
  BY <1>4, <1>5, FollowsAtBothEnds DEF o

LEMMA FollowRequests ==
  ASSUME Typed, HandshakeInv, PairInv, FollowInv,
         NEW e \in Ends, gen[e] \in Gens, Requests(e)
  PROVE  FollowInv'
<1> DEFINE o == Other(e)
<1>1. o \in Ends /\ o # e /\ Other(o) = e
  BY OtherEnd
<1>2. Follows(e, o) /\ Follows(o, e) /\ PairOK(o, e)
  BY <1>1 DEF FollowInv, PairInv
<1>3. /\ gen' = gen /\ shook' = shook /\ partner' = partner /\ lost' = lost
      /\ phase[e] = "new" /\ phase'[e] = "handshake" /\ phase'[o] = phase[o]
      /\ sig'[e] = sig[e]
  BY RequestsFacts
<1>4. PICK m \in Signal : /\ Extended(sig[o], sig'[o], m)
                          /\ m.from = gen[e] /\ m.t = "req"
  BY RequestsFacts
<1>5. Len(sig[o]) \in Nat /\ gen[e] # None
  BY <1>1, <1>3 DEF Typed, HandshakeInv, Phases, None
<1>6. ~shook[e].req
  BY <1>3 DEF HandshakeInv, Phases
<1>7. \A i \in 1..Len(sig[o]) : sig[o][i].from # gen[e]
  BY <1>1, <1>3 DEF HandshakeInv, FromThePast, Typed
<1> HIDE DEF o
<1>8. Follows(e, o)'
  <2>1. NoDataOf(sig'[o], gen'[e])
    <3>1. NoDataOf(sig[o], gen[e])
      BY <1>7 DEF NoDataOf
    <3> QED
      BY <1>3, <1>4, <1>5, <3>1, ExtendingKeeps DEF DataSignals
  <2>2. RequestIn(sig'[o], gen'[e])
    <3>1. Len(sig[o]) + 1 \in 1..Len(sig'[o]) /\ sig'[o][Len(sig[o]) + 1] = m
      BY <1>4, <1>5 DEF Extended
    <3> QED
      BY <1>3, <1>4, <3>1 DEF RequestIn
  <2>3. ~(BothHalves(shook[o]) /\ partner[o] = gen[e])
    BY <1>2, <1>5, <1>6 DEF PairOK, AnswererAsked
  <2> QED
    BY <1>3, <2>1, <2>2, <2>3 DEF Follows, OldBeforeRequest
<1>9. Follows(o, e)'
  BY <1>2, <1>3, <1>6 DEF Follows, BothHalves
<1> QED
  BY <1>8, <1>9, FollowsAtBothEnds DEF o

LEMMA FollowAnswering ==
  ASSUME Typed, HandshakeInv, PairInv, FollowInv,
         NEW e \in Ends, gen[e] \in Gens, Answering(e)
  PROVE  FollowInv'
<1> DEFINE o == Other(e)
<1>1. o \in Ends /\ o # e /\ Other(o) = e /\ Other(e) = o
  BY OtherEnd
<1>2. Follows(e, o) /\ Follows(o, e) /\ PairOK(e, o)
  BY <1>1 DEF FollowInv, PairInv
<1>3. /\ gen' = gen /\ partner' = partner /\ lost' = lost
      /\ phase[e] = "handshake" /\ phase'[o] = phase[o]
      /\ phase'[e] \notin {"none", "new"}
      /\ shook'[e] = [shook[e] EXCEPT !.req = TRUE] /\ shook'[o] = shook[o]
      /\ 1 \in 1..Len(sig[e]) /\ sig[e][1].t = "req"
      /\ Dropped(sig[e], sig'[e], 1)
  BY AnsweringFacts
<1>4. PICK m \in Signal : /\ Extended(sig[o], sig'[o], m)
                          /\ m.from = gen[e] /\ m.t = "res" /\ m.n = sig[e][1].from
  <2>1. AnswerGoesOut(e, o)
    BY AnsweringFacts
  <2> QED
    BY <2>1 DEF AnswerGoesOut
<1>5. /\ Len(sig[e]) \in Nat /\ Len(sig[o]) \in Nat
      /\ gen[o] \in Nat /\ sig[e][1].from \in Nat
      /\ shook'[e].res = shook[e].res
  BY <1>1, <1>3 DEF Typed
<1>6. shook[e].res <=> partner[e] # None
  BY DEF HandshakeInv, Phases
<1>7. sig[e][1].from <= gen[o]
  BY <1>3 DEF HandshakeInv, FromThePast
<1> HIDE DEF o
<1>8. Follows(e, o)'
  <2>1. NoDataOf(sig'[o], gen[e])
    BY <1>2, <1>3, <1>4, <1>5, ExtendingKeeps DEF Follows, DataSignals
  <2>2. /\ OldBeforeRequest(sig[o], gen[e]) => OldBeforeRequest(sig'[o], gen[e])
        /\ RequestIn(sig[o], gen[e]) => RequestIn(sig'[o], gen[e])
    BY <1>4, <1>5, ExtendingKeeps
  <2>3. /\ AnswerIn(sig[e], gen[e], gen[o]) => AnswerIn(sig'[e], gen[e], gen[o])
        /\ AnswerFirst(sig[e], gen[e], gen[o]) => AnswerFirst(sig'[e], gen[e], gen[o])
    BY <1>3, <1>5, DroppingKeeps DEF IsAnswerOf
  <2> QED
    BY <1>2, <1>3, <2>1, <2>2, <2>3 DEF Follows
<1>9. Follows(o, e)'
  <2> SUFFICES ASSUME phase[o] = "handshake" PROVE Follows(o, e)'
    BY <1>3 DEF Follows
  <2>1. NoDataOf(sig'[e], gen[o])
    BY <1>2, <1>3, <1>5, DroppingKeeps DEF Follows
  <2>2. ASSUME lost = 0
        PROVE  OldBeforeRequest(sig'[e], gen[o])
    <3>1. OldBeforeRequest(sig[e], gen[o]) /\ InOrder /\ FromThePast
      BY <1>2, <1>3, <2>2 DEF Follows, HandshakeInv
    <3> DEFINE r == sig'[e]
    <3>2. Dropped(sig[e], r, 1)
      BY <1>3
    <3> HIDE DEF r
    <3>3. OldBeforeRequest(r, gen[o])
      BY <1>1, <3>1, <3>2, RequestIsLast
    <3> QED
      BY <3>3 DEF r
  <2>3. ASSUME lost = 0
        PROVE  RequestIn(sig'[e], gen[o]) \/ AnswerIn(sig'[o], gen[o], gen[e])
    <3>1. CASE sig[e][1].from = gen[o]
      <4>1. Len(sig[o]) + 1 \in 1..Len(sig'[o]) /\ sig'[o][Len(sig[o]) + 1] = m
        BY <1>4, <1>5 DEF Extended
      <4> QED
        BY <1>4, <3>1, <4>1 DEF AnswerIn, IsAnswerOf
    <3>2. CASE sig[e][1].from # gen[o]
      <4>1. RequestIn(sig[e], gen[o])
        BY <1>2, <1>3, <2>3, <3>2 DEF Follows, OldBeforeRequest
      <4> QED
        BY <1>3, <1>5, <3>2, <4>1, DroppingKeeps
    <3> QED
      BY <3>1, <3>2
  <2>4. ~(BothHalves(shook'[e]) /\ partner[e] = gen[o])
    <3> SUFFICES ASSUME shook'[e].res, partner[e] = gen[o] PROVE FALSE
      BY DEF BothHalves
    <3>1. sig[e][1].from >= partner[e] /\ sig[e][1].from # partner[e]
      BY <1>2, <1>3, <1>5, <1>6 DEF PairOK, AfterAnswer
    <3> QED
      BY <1>5, <1>7, <3>1
  <2> QED
    BY <1>3, <2>1, <2>2, <2>3, <2>4 DEF Follows
<1> QED
  BY <1>8, <1>9, FollowsAtBothEnds DEF o

LEMMA FollowMatching ==
  ASSUME Typed, HandshakeInv, PairInv, FollowInv, NEW e \in Ends, Matching(e)
  PROVE  FollowInv'
<1> DEFINE o == Other(e)
<1>1. o \in Ends /\ o # e /\ Other(o) = e /\ Other(e) = o
  BY OtherEnd
<1>2. Follows(e, o) /\ Follows(o, e) /\ PairOK(e, o)
  BY <1>1 DEF FollowInv, PairInv
<1>3. /\ gen' = gen /\ lost' = lost
      /\ partner'[e] = sig[e][1].from /\ partner'[o] = partner[o]
      /\ phase[e] = "handshake" /\ phase'[o] = phase[o]
      /\ shook'[e] = [shook[e] EXCEPT !.res = TRUE] /\ shook'[o] = shook[o]
      /\ 1 \in 1..Len(sig[e]) /\ sig[e][1].t = "res" /\ sig[e][1].n = gen[e]
      /\ Dropped(sig[e], sig'[e], 1) /\ sig'[o] = sig[o]
  BY MatchingFacts
<1>5. /\ Len(sig[e]) \in Nat /\ gen[o] \in Nat /\ sig[e][1].from \in Nat
      /\ shook'[e].req = shook[e].req
  BY <1>1, <1>3 DEF Typed
<1>6. partner[e] = None
  BY <1>2, <1>3 DEF PairOK, AfterAnswer
<1>7. gen[o] # None
  <2>1. sig[e][1].from <= gen[o] /\ sig[e][1].from # 0
    BY <1>3 DEF HandshakeInv, FromThePast, Typed
  <2> QED
    BY <1>5, <2>1 DEF None
<1> HIDE DEF o
<1>8. Follows(e, o)'
  <2> SUFFICES ASSUME phase'[e] = "handshake" PROVE Follows(e, o)'
    BY DEF Follows
  <2>1. NoDataOf(sig'[o], gen'[e]) /\ (lost = 0 => OldBeforeRequest(sig'[o], gen'[e]))
    BY <1>2, <1>3 DEF Follows
  <2>2. sig[e][1].from = gen[o] \/ ~IsAnswerOf(sig[e][1], gen[e], gen[o])
    BY DEF IsAnswerOf
  <2>3. ASSUME ~IsAnswerOf(sig[e][1], gen[e], gen[o])
        PROVE  /\ AnswerIn(sig[e], gen[e], gen[o]) => AnswerIn(sig'[e], gen[e], gen[o])
               /\ AnswerFirst(sig[e], gen[e], gen[o]) => AnswerFirst(sig'[e], gen[e], gen[o])
    BY <1>3, <1>5, <2>3, DroppingKeeps
  <2>4. lost = 0 /\ phase[o] = "handshake" /\ shook[o].req =>
          \/ RequestIn(sig[o], gen[e])
          \/ AnswerIn(sig'[e], gen[e], gen[o])
          \/ partner'[e] = gen[o]
    BY <1>2, <1>3, <1>6, <1>7, <2>2, <2>3 DEF Follows
  <2>5. lost = 0 /\ BothHalves(shook[o]) /\ partner[o] = gen[e] =>
          partner'[e] = gen[o] \/ AnswerFirst(sig'[e], gen[e], gen[o])
    BY <1>2, <1>3, <1>6, <1>7, <2>2, <2>3 DEF Follows
  <2> QED
    BY <1>3, <2>1, <2>4, <2>5 DEF Follows
<1>9. Follows(o, e)'
  <2> SUFFICES ASSUME phase[o] = "handshake" PROVE Follows(o, e)'
    BY <1>3 DEF Follows
  <2>1. NoDataOf(sig'[e], gen[o])
    BY <1>2, <1>3, <1>5, DroppingKeeps DEF Follows
  <2>2. ASSUME lost = 0
        PROVE  OldBeforeRequest(sig'[e], gen[o])
    <3>1. OldBeforeRequest(sig[e], gen[o]) /\ InOrder /\ FromThePast
      BY <1>2, <1>3, <2>2 DEF Follows, HandshakeInv
    <3> DEFINE r == sig'[e]
    <3>2. Dropped(sig[e], r, 1)
      BY <1>3
    <3> HIDE DEF r
    <3>3. OldBeforeRequest(r, gen[o])
      BY <1>1, <3>1, <3>2, RequestIsLast
    <3> QED
      BY <3>3 DEF r
  <2>3. RequestIn(sig[e], gen[o]) => RequestIn(sig'[e], gen[o])
    BY <1>3, <1>5, DroppingKeeps
  <2>4. ASSUME lost = 0, shook[e].req, sig[e][1].from = gen[o]
        PROVE  partner[o] = gen[e] \/ AnswerFirst(sig[o], gen[o], gen[e])
    <3>1. ~RequestIn(sig[e], gen[o])
      <4> SUFFICES ASSUME NEW j \in 1..Len(sig[e]), sig[e][j].t = "req",
                          sig[e][j].from = gen[o]
                   PROVE  FALSE
        BY DEF RequestIn
      <4>1. 1 < j
        BY <1>3
      <4>2. sig[e][1].from < sig[e][j].from
        BY <1>3, <4>1 DEF HandshakeInv, InOrder
      <4> QED
        BY <1>5, <2>4, <4>2
    <3>2. AnswerIn(sig[o], gen[o], gen[e]) => AnswerFirst(sig[o], gen[o], gen[e])
      <4> SUFFICES ASSUME NEW i \in 1..Len(sig[o]), IsAnswerOf(sig[o][i], gen[o], gen[e])
                   PROVE  AnswerFirst(sig[o], gen[o], gen[e])
        BY DEF AnswerIn
      <4>1. NoDataOf(sig[o], gen[e])
        BY <1>2, <1>3 DEF Follows
      <4>2. \A j \in 1..i : j \in 1..Len(sig[o])
        BY DEF Typed
      <4> QED
        BY <4>1, <4>2 DEF AnswerFirst, NoDataOf
    <3> QED
      BY <1>2, <1>3, <2>4, <3>1, <3>2 DEF Follows
  <2>5. ASSUME lost = 0, phase'[e] = "handshake", shook'[e].req
        PROVE  \/ RequestIn(sig'[e], gen[o])
               \/ AnswerIn(sig'[o], gen[o], gen[e])
               \/ partner'[o] = gen[e]
    BY <1>2, <1>3, <1>5, <2>3, <2>5 DEF Follows
  <2>6. ASSUME lost = 0, BothHalves(shook'[e]), partner'[e] = gen[o]
        PROVE  partner'[o] = gen[e] \/ AnswerFirst(sig'[o], gen[o], gen[e])
    BY <1>3, <1>5, <2>4, <2>6 DEF BothHalves
  <2> QED
    BY <1>3, <2>1, <2>2, <2>5, <2>6 DEF Follows
<1> QED
  BY <1>8, <1>9, FollowsAtBothEnds DEF o

FollowConnInv == PairConnInv /\ FollowInv

LEMMA FollowInit == Init => FollowInv
BY DEF Init, FollowInv, Follows

LEMMA FollowStep == FollowConnInv /\ [Next]_vars => FollowInv'
<1> SUFFICES ASSUME ConnInv, PairInv, FollowInv, [Next]_vars PROVE FollowInv'
  BY DEF FollowConnInv, PairConnInv
<1>1. CASE UNCHANGED vars
  BY <1>1 DEF vars, FollowInv, Follows
<1>2. CASE Next
  <2>1. TypeOK /\ HandshakeInv /\ Typed /\ Phases
    BY TypesHold DEF ConnInv, HandshakeInv
  <2>2. PICK e \in Ends : \/ Quiet(e) \/ SendsData(e) \/ Begins(e) \/ Requests(e)
                         \/ Answering(e) \/ Matching(e)
    BY <1>2, <2>1, StepsAreFew
  <2>3. phase[e] # "none" => gen[e] \in Gens
    <3>1. gen \in [Ends -> 0..MaxGen]
      BY <2>1 DEF TypeOK
    <3> QED
      BY <2>1, <3>1, ConnAssumption DEF Phases, Gens
  <2>4. CASE Quiet(e)
    BY <2>1, <2>4, FollowQuiet
  <2>5. CASE SendsData(e)
    BY <2>1, <2>5, FollowSendsData
  <2>6. CASE Begins(e)
    BY <2>1, <2>6, FollowBegins
  <2>7. CASE Requests(e)
    BY <2>1, <2>3, <2>7, FollowRequests DEF Requests
  <2>8. CASE Answering(e)
    BY <2>1, <2>3, <2>8, FollowAnswering DEF Answering
  <2>9. CASE Matching(e)
    BY <2>1, <2>9, FollowMatching
  <2> QED
    BY <2>2, <2>4, <2>5, <2>6, <2>7, <2>8, <2>9
<1> QED
  BY <1>1, <1>2

LEMMA FollowInvariant == Spec => []FollowConnInv
<1>1. Init => FollowConnInv
  BY ConnInit, PairInit, FollowInit DEF FollowConnInv, PairConnInv
<1>2. FollowConnInv /\ [Next]_vars => FollowConnInv'
  BY ConnStep, PairStep, FollowStep DEF FollowConnInv, PairConnInv
<1> QED
  BY <1>1, <1>2, PTL DEF Spec

(* As long as no signal is lost, what an end ignores during its handshake  *)
(* is not from a peer that is past its own with this very connection: the  *)
(* peer's answer comes before anything else it sends.                      *)
THEOREM OnlyTheStaleIsIgnored == Spec => []IgnoredIsStale
<1>1. FollowConnInv => IgnoredIsStale
  <2> SUFFICES ASSUME FollowConnInv, lost = 0, NEW e \in Ends,
                      phase[e] = "handshake", Gets(e, {"offer", "answer", "msg"}),
                      First(e).from = gen[Other(e)], Bound(Other(e)) = gen[e]
               PROVE  FALSE
    BY DEF IgnoredIsStale
  <2> DEFINE o == Other(e)
  <2>1. /\ o \in Ends /\ Other(o) = e /\ PairOK(e, o) /\ PairOK(o, e)
        /\ Follows(e, o) /\ HandshakeInv /\ Typed
    BY OtherEnd, TypesHold DEF FollowConnInv, FollowInv, PairConnInv, PairInv, ConnInv
  <2>2. gen[e] # None
    BY DEF FollowConnInv, PairConnInv, ConnInv, HandshakeInv, Phases, None
  <2>3. BothHalves(shook[o]) /\ partner[o] = gen[e]
    BY <2>2 DEF Bound, Met
  <2>4. /\ 1 \in 1..Len(sig[e]) /\ sig[e][1].from = gen[o]
        /\ sig[e][1].t \in DataSignals
    BY <2>1, TakingShifts DEF Gets, First, Typed, DataSignals
  <2>5. shook[e].req
    BY <2>1, <2>2, <2>3 DEF PairOK, AnswererAsked
  <2>6. partner[e] = gen[o]
    <3>1. ~AnswerFirst(sig[e], gen[e], gen[o])
      BY <2>4 DEF AnswerFirst
    <3> QED
      BY <2>1, <2>3, <3>1 DEF Follows
  <2>7. gen[o] # None
    BY <2>1, <2>4 DEF Typed, HandshakeInv, FromThePast, None
  <2>8. shook[e].res
    BY <2>1, <2>6, <2>7 DEF HandshakeInv, Phases
  <2> QED
    BY <2>1, <2>5, <2>8 DEF PairOK, HalvesTell, BothHalves
<1> QED
  BY <1>1, FollowInvariant, PTL

-----------------------------------------------------------------------------
(* What the actions do to what is delivered.                               *)

Still(x) == gen'[x] = gen[x] /\ shook'[x] = shook[x] /\ partner'[x] = partner[x]
SameLink(x) ==
  /\ rtc'[x].state = rtc[x].state /\ rtc'[x].remote = rtc[x].remote
  /\ rtc'[x].opened = rtc[x].opened
NoLink(x) == rtc'[x].state # "up" /\ rtc'[x].remote = None /\ ~rtc'[x].opened
SameInbox(x) == inbox'[x] = inbox[x] /\ missed'[x] = missed[x]
SameMessages(x) == nsent'[x] = nsent[x] /\ SameInbox(x)

(* The other end of a step. *)
Bystander(o) ==
  Still(o) /\ phase'[o] = phase[o] /\ SameLink(o) /\ SameMessages(o)

Gave(e) ==
  /\ gen[e] \in Gens /\ nsent'[e][gen[e]] = Given(e) + 1
  /\ \A g \in Gens : g # gen[e] => nsent'[e][g] = nsent[e][g]

Shakes(e, o) ==
  /\ phase[e] \in {"new", "handshake"}
  /\ phase'[e] \in {"handshake", "webrtc", "fallback", "ended"}
  /\ gen'[e] = gen[e] /\ rtc'[e].remote = None /\ ~rtc'[e].opened
  /\ SameMessages(e) /\ chan'[e] = << >> /\ chan'[o] = chan[o]
  /\ \E d \in {0, 1} : Dropped(sig[e], sig'[e], d)
  /\ \/ sig'[o] = sig[o]
     \/ \E m \in Signal : /\ Extended(sig[o], sig'[o], m)
                          /\ m.from = gen[e] /\ m.t \in {"req", "res"}

Leaves(e, o) ==
  /\ phase'[e] \in {"none", "ended", "fallback"}
  /\ phase'[e] = "fallback" => phase[e] = "webrtc"
  /\ Still(e) /\ NoLink(e) /\ SameInbox(e)
  /\ chan'[e] = << >> /\ chan'[o] = chan[o] /\ sig'[o] = sig[o]
  /\ \E d \in {0, 1} : Dropped(sig[e], sig'[e], d)
  /\ \/ nsent'[e] = nsent[e]
     \/ Gave(e) /\ phase[e] \in {"handshake", "webrtc"}

Takes(e, o) ==
  /\ phase'[e] = phase[e] /\ Still(e) /\ SameLink(e) /\ SameMessages(e)
  /\ chan'[e] = chan[e] /\ chan'[o] = chan[o] /\ sig'[o] = sig[o]
  /\ \E d \in {0, 1} :
       /\ Dropped(sig[e], sig'[e], d)
       /\ d = 1 /\ phase[e] = "fallback" /\ lost' = 0 => sig[e][1].t # "msg"

Heeding(e, o) ==
  /\ phase[e] = "webrtc" /\ phase'[e] = phase[e] /\ Still(e) /\ SameMessages(e)
  /\ chan'[e] = chan[e] /\ chan'[o] = chan[o] /\ sig'[o] = sig[o]
  /\ 1 \in 1..Len(sig[e]) /\ sig[e][1].t \in DataSignals
  /\ Dropped(sig[e], sig'[e], 1)
  /\ rtc[e].state = "up" /\ rtc[e].remote = None
  /\ rtc'[e].state = "up" /\ rtc'[e].remote = sig[e][1].from
  /\ rtc'[e].opened = rtc[e].opened

Describing(e, o) ==
  /\ phase[e] = "webrtc" /\ phase'[e] = phase[e]
  /\ Still(e) /\ SameLink(e) /\ SameMessages(e)
  /\ chan'[e] = chan[e] /\ chan'[o] = chan[o] /\ sig'[e] = sig[e]
  /\ \E m \in Signal : /\ Extended(sig[o], sig'[o], m)
                       /\ m.from = gen[e] /\ m.t \in {"offer", "answer"}

Opening(e, o) ==
  /\ Linked /\ rtc'[e].opened /\ phase'[e] = phase[e]
  /\ rtc'[e].state = rtc[e].state /\ rtc'[e].remote = rtc[e].remote
  /\ Still(e) /\ SameMessages(e)
  /\ chan'[e] = chan[e] /\ chan'[o] = chan[o] /\ sig' = sig

Breaking(e, o) ==
  /\ phase'[e] = phase[e] /\ Still(e) /\ SameInbox(e)
  /\ rtc'[e].state = "closed"
  /\ rtc'[e].remote = rtc[e].remote /\ rtc'[e].opened = rtc[e].opened
  /\ chan'[e] = chan[e] /\ chan'[o] = chan[o] /\ sig' = sig
  /\ \/ nsent'[e] = nsent[e]
     \/ Gave(e) /\ phase[e] = "webrtc"

Losing(e, o) ==
  /\ ~Linked /\ phase'[e] = phase[e] /\ Still(e) /\ SameLink(e) /\ SameMessages(e)
  /\ Extended(chan'[e], chan[e], chan[e][Len(chan[e])])
  /\ chan'[o] = chan[o] /\ sig' = sig

Missing(e, o) ==
  /\ phase[e] = "webrtc" /\ phase'[e] = phase[e] /\ Still(e) /\ SameLink(e)
  /\ nsent'[e] = nsent[e] /\ inbox'[e] = inbox[e] /\ inbox[e] = << >>
  /\ 1 \in 1..Len(chan[e]) /\ Dropped(chan[e], chan'[e], 1)
  /\ missed'[e] = missed[e] + 1
  /\ chan'[o] = chan[o] /\ sig' = sig

Hearing(e, o) ==
  /\ phase[e] = "webrtc" /\ phase'[e] = phase[e]
  /\ Still(e) /\ SameLink(e) /\ nsent'[e] = nsent[e] /\ missed'[e] = missed[e]
  /\ 1 \in 1..Len(chan[e]) /\ Dropped(chan[e], chan'[e], 1)
  /\ chan'[o] = chan[o] /\ sig' = sig
  /\ \E m \in Message : /\ Extended(inbox[e], inbox'[e], m) /\ m.via = "rtc"
                        /\ m.from = chan[e][1].from /\ m.n = chan[e][1].n

Speaking(e, o) ==
  /\ phase[e] = "webrtc" /\ phase'[e] = phase[e] /\ Still(e) /\ SameLink(e)
  /\ rtc[e].opened /\ SameInbox(e) /\ Gave(e)
  /\ chan'[e] = chan[e] /\ sig' = sig
  /\ IF Linked
       THEN \E m \in Message : /\ Extended(chan[o], chan'[o], m)
                               /\ m.from = gen[e] /\ m.n = Given(e) + 1
       ELSE chan'[o] = chan[o]

Relaying(e, o) ==
  /\ phase[e] = "fallback" /\ phase'[e] = phase[e] /\ Still(e) /\ SameLink(e)
  /\ SameInbox(e) /\ Gave(e)
  /\ chan'[e] = chan[e] /\ chan'[o] = chan[o] /\ sig'[e] = sig[e]
  /\ \E m \in Signal : /\ Extended(sig[o], sig'[o], m)
                       /\ m.from = gen[e] /\ m.t = "msg" /\ m.n = Given(e) + 1

Receiving(e, o) ==
  /\ phase[e] \in Past /\ phase'[e] \in {"fallback", "ended"}
  /\ Still(e) /\ NoLink(e) /\ nsent'[e] = nsent[e] /\ missed'[e] = missed[e]
  /\ chan'[e] = << >> /\ chan'[o] = chan[o] /\ sig'[o] = sig[o]
  /\ 1 \in 1..Len(sig[e]) /\ sig[e][1].t = "msg" /\ Dropped(sig[e], sig'[e], 1)
  /\ \E m \in Message : /\ Extended(inbox[e], inbox'[e], m) /\ m.via = "relay"
                        /\ m.from = sig[e][1].from /\ m.n = sig[e][1].n

Step(e, o) ==
  /\ Bystander(o) /\ (lost' = 0 => lost = 0)
  /\ \/ Begins(e) \/ Shakes(e, o) \/ Leaves(e, o) \/ Takes(e, o) \/ Heeding(e, o)
     \/ Describing(e, o) \/ Opening(e, o) \/ Breaking(e, o) \/ Losing(e, o)
     \/ Missing(e, o) \/ Hearing(e, o) \/ Speaking(e, o) \/ Relaying(e, o) \/ Receiving(e, o)

LEMMA SignalTaken ==
  ASSUME TypeOK, NEW e \in Ends, NEW o, o = Other(e), sig[e] # << >>, sig' = Took(e)
  PROVE  /\ Dropped(sig[e], sig'[e], 1) /\ sig'[o] = sig[o]
         /\ 1 \in 1..Len(sig[e]) /\ sig[e][1] = First(e) /\ sig[e][1] \in Signal
         /\ Dropped(sig[e], Took(e)[e], 1)
BY TakingShifts DEF TypeOK, Dropped

LEMMA SignalsKept ==
  ASSUME TypeOK, NEW e \in Ends, sig'[e] = sig[e]
  PROVE  Dropped(sig[e], sig'[e], 0)
<1>1. Len(sig[e]) \in Nat
  BY DEF TypeOK
<1> QED
  BY <1>1, NothingDropped

LEMMA EndingFacts ==
  ASSUME TypeOK, NEW e \in Ends, NEW o, o = Other(e), NEW p, EndsAs(e, p)
  PROVE  /\ phase'[e] = p /\ phase'[o] = phase[o]
         /\ NoLink(e) /\ SameLink(o) /\ chan'[e] = << >> /\ chan'[o] = chan[o]
BY OtherEnd DEF TypeOK, EndsAs, NoLink, SameLink, NoBackend

LEMMA LeavingFacts ==
  ASSUME TypeOK, NEW e \in Ends, NEW o, o = Other(e), Returns(e) \/ FallsBack(e)
  PROVE  /\ phase'[e] \in {"fallback", "ended"} /\ phase'[o] = phase[o]
         /\ Returns(e) => phase'[e] = "ended"
         /\ NoLink(e) /\ SameLink(o) /\ chan'[e] = << >> /\ chan'[o] = chan[o]
<1>1. ASSUME Returns(e)
      PROVE  /\ phase'[e] = "ended" /\ phase'[o] = phase[o]
             /\ NoLink(e) /\ SameLink(o) /\ chan'[e] = << >> /\ chan'[o] = chan[o]
  BY <1>1, EndingFacts DEF Returns
<1>2. ASSUME EndsAs(e, "fallback")
      PROVE  /\ phase'[e] = "fallback" /\ phase'[o] = phase[o]
             /\ NoLink(e) /\ SameLink(o) /\ chan'[e] = << >> /\ chan'[o] = chan[o]
  BY <1>2, EndingFacts
<1> QED
  BY <1>1, <1>2 DEF FallsBack

LEMMA GivingFacts ==
  ASSUME TypeOK, NEW e \in Ends, NEW o, o = Other(e), gen[e] \in Gens, IsGiven(e)
  PROVE  Gave(e) /\ nsent'[o] = nsent[o]
<1>1. o \in Ends /\ o # e
  BY OtherEnd
<1>2. nsent \in [Ends -> [Gens -> 0..MaxMsgs]]
  BY DEF TypeOK
<1>3. nsent'[o] = nsent[o] /\ nsent'[e] = [nsent[e] EXCEPT ![gen[e]] = @ + 1]
  BY <1>1, <1>2 DEF IsGiven
<1>4. nsent[e] \in [Gens -> 0..MaxMsgs]
  BY <1>2
<1>5. /\ nsent'[e][gen[e]] = nsent[e][gen[e]] + 1
      /\ \A g \in Gens : g # gen[e] => nsent'[e][g] = nsent[e][g]
  BY <1>3, <1>4
<1> QED
  BY <1>3, <1>5 DEF Gave, Given

LEMMA DeliveringFacts ==
  ASSUME TypeOK, NEW e \in Ends, NEW o, o = Other(e), NEW f, NEW n, NEW v,
         [from |-> f, n |-> n, via |-> v] \in Message, Delivers(e, f, n, v)
  PROVE  /\ inbox'[o] = inbox[o]
         /\ \E m \in Message : /\ Extended(inbox[e], inbox'[e], m)
                               /\ m.via = v /\ m.from = f /\ m.n = n
<1> DEFINE m == [from |-> f, n |-> n, via |-> v]
<1>1. o \in Ends /\ o # e
  BY OtherEnd
<1>2. m.via = v /\ m.from = f /\ m.n = n /\ m \in Message
  OBVIOUS
<1>3. inbox' = [inbox EXCEPT ![e] = Append(@, m)]
  BY DEF Delivers
<1>4. inbox \in [Ends -> Seq(Message)]
  BY DEF TypeOK
<1> HIDE DEF m
<1>5. inbox'[o] = inbox[o] /\ inbox'[e] = Append(inbox[e], m) /\ inbox[e] \in Seq(Message)
  BY <1>1, <1>3, <1>4
<1>6. Extended(inbox[e], inbox'[e], m)
  BY <1>2, <1>5 DEF Extended
<1> QED
  BY <1>2, <1>5, <1>6

LEMMA SignallingFacts ==
  ASSUME TypeOK, NEW e \in Ends, NEW o, o = Other(e), NEW t, NEW n,
         [t |-> t, from |-> gen[e], n |-> n] \in Signal, sig' = Signals(sig, e, t, n)
  PROVE  /\ sig'[e] = sig[e]
         /\ \E m \in Signal : /\ Extended(sig[o], sig'[o], m)
                              /\ m.from = gen[e] /\ m.t = t /\ m.n = n
<1> DEFINE m == [t |-> t, from |-> gen[e], n |-> n]
<1>1. m.from = gen[e] /\ m.t = t /\ m.n = n /\ m \in Signal
  OBVIOUS
<1>2. sig' = [sig EXCEPT ![o] = Append(@, m)]
  BY DEF Signals
<1>3. sig \in [Ends -> Seq(Signal)] /\ o \in Ends /\ o # e
  BY OtherEnd DEF TypeOK
<1> HIDE DEF m
<1>4. sig'[o] = Append(sig[o], m) /\ sig'[e] = sig[e] /\ sig[o] \in Seq(Signal)
  BY <1>2, <1>3
<1>5. Extended(sig[o], sig'[o], m)
  BY <1>1, <1>4 DEF Extended
<1> QED
  BY <1>1, <1>4, <1>5

(* A message on its way is one to deliver. *)
LEMMA RelayedMessages ==
  ASSUME TypeOK, NEW e \in Ends, Gets(e, {"msg"})
  PROVE  [from |-> First(e).from, n |-> First(e).n, via |-> "relay"] \in Message
<1>1. First(e) \in Signal /\ First(e).t = "msg"
  BY TakingShifts DEF TypeOK, Gets, First
<1>2. First(e).from \in Gens /\ First(e).n \in 1..MaxMsgs
  BY <1>1 DEF Signal
<1> QED
  BY <1>2 DEF Message

(* The handshake; an answer or a request may go to the other end. *)
LEMMA ShakingFacts ==
  ASSUME TypeOK, HandshakeInv, NEW e \in Ends, NEW o, o = Other(e), gen[e] \in Gens,
         Requests(e) \/ AnswersRequest(e) \/ TakesAnswer(e)
  PROVE  Bystander(o) /\ lost' = lost /\ Shakes(e, o)
<1>1. o \in Ends /\ o # e
  BY OtherEnd
<1>2. phase[e] \in {"new", "handshake"} /\ rtc[e] = NoBackend /\ chan[e] = << >>
  <2>1. phase[e] \in {"new", "handshake"}
    BY DEF Requests, AnswersRequest, TakesAnswer
  <2> QED
    BY <2>1 DEF TypeOK
<1>3. /\ gen' = gen /\ nsent' = nsent /\ inbox' = inbox /\ missed' = missed /\ lost' = lost
      /\ partner'[o] = partner[o]
  BY <1>1 DEF Requests, AnswersRequest, TakesAnswer, sessionVars, dataVars, TypeOK
<1>4. ASSUME NEW s, Proceeds(e, s)
      PROVE  /\ phase'[e] \in {phase[e], "webrtc", "fallback", "ended"}
             /\ phase'[o] = phase[o] /\ shook'[o] = shook[o] /\ SameLink(o)
             /\ rtc'[e].remote = None /\ ~rtc'[e].opened
             /\ chan'[e] = << >> /\ chan'[o] = chan[o]
  <2>1. shook'[o] = shook[o]
    BY <1>1, <1>4 DEF Proceeds, TypeOK
  <2>2. CASE ~BothHalves(s)
    BY <1>2, <1>4, <2>1, <2>2 DEF Proceeds, SameLink, NoBackend
  <2>3. CASE BothHalves(s) /\ e \in ForceRelay
    <3>1. FallsBack(e)
      BY <1>4, <2>3 DEF Proceeds
    <3> QED
      BY <2>1, <3>1, LeavingFacts DEF NoLink
  <2>4. CASE BothHalves(s) /\ e \notin ForceRelay
    <3>1. /\ phase' = [phase EXCEPT ![e] = "webrtc"] /\ chan' = chan
          /\ rtc' = [rtc EXCEPT ![e] =
                       [NoBackend EXCEPT !.state = "up",
                          !.desc = IF e = Polite THEN "none" ELSE "pending"]]
      BY <1>4, <2>4 DEF Proceeds
    <3>2. phase'[e] = "webrtc" /\ phase'[o] = phase[o] /\ rtc'[o] = rtc[o]
      BY <1>1, <3>1 DEF TypeOK
    <3>3. rtc'[e].remote = None /\ ~rtc'[e].opened
      BY <3>1 DEF TypeOK, NoBackend
    <3> QED
      BY <1>2, <2>1, <3>1, <3>2, <3>3 DEF SameLink
  <2> QED
    BY <2>2, <2>3, <2>4
<1>5. CASE Requests(e)
  <2>1. [t |-> "req", from |-> gen[e], n |-> gen[e]] \in Signal
    BY DEF Signal
  <2>2. /\ sig'[e] = sig[e]
        /\ \E m \in Signal : /\ Extended(sig[o], sig'[o], m)
                             /\ m.from = gen[e] /\ m.t \in {"req", "res"}
    BY <1>5, <2>1, SignallingFacts DEF Requests
  <2>3. Dropped(sig[e], sig'[e], 0)
    BY <2>2, SignalsKept
  <2>4. phase'[e] = "handshake" /\ phase'[o] = phase[o]
    BY <1>1, <1>5 DEF Requests, TypeOK
  <2>5. rtc' = rtc /\ chan' = chan /\ shook' = shook
    BY <1>5 DEF Requests, sessionVars
  <2> QED
    BY <1>2, <1>3, <2>2, <2>3, <2>4, <2>5
       DEF Shakes, Bystander, Still, SameLink, SameMessages, SameInbox, NoBackend
<1>6. CASE AnswersRequest(e)
  <2>1. PICK s : Proceeds(e, s)
    BY <1>6 DEF AnswersRequest
  <2>2. sig[e] # << >>
    BY <1>6 DEF AnswersRequest, Gets
  <2>3. 1 \in 1..Len(sig[e]) /\ First(e) = sig[e][1] /\ First(e) \in Signal
    BY <2>2, TakingShifts DEF TypeOK
  <2>4. First(e).n \in Gens
    <3>1. First(e).t = "req"
      BY <1>6 DEF AnswersRequest, Gets, First
    <3> QED
      BY <2>3, <3>1 DEF Signal
  <2> DEFINE m == [t |-> "res", from |-> gen[e], n |-> First(e).n]
  <2>5. m \in Signal /\ m.from = gen[e] /\ m.t \in {"req", "res"}
    BY <2>4 DEF Signal
  <2>6. /\ Took(e) \in [Ends -> Seq(Signal)] /\ Took(e)[o] = sig[o]
        /\ Dropped(sig[e], Took(e)[e], 1)
    BY <2>2, TakingShifts DEF TypeOK, Dropped
  <2>7. sig' = [Took(e) EXCEPT ![o] = Append(@, m)]
    BY <1>6 DEF AnswersRequest, Signals
  <2> HIDE DEF m
  <2>8. sig'[o] = Append(sig[o], m) /\ sig'[e] = Took(e)[e] /\ sig[o] \in Seq(Signal)
    BY <1>1, <2>6, <2>7 DEF TypeOK
  <2>9. Extended(sig[o], sig'[o], m) /\ Dropped(sig[e], sig'[e], 1)
    BY <2>5, <2>6, <2>8 DEF Extended
  <2>10. phase[e] = "handshake"
    BY <1>6 DEF AnswersRequest
  <2> QED
    BY <1>2, <1>3, <1>4, <2>1, <2>5, <2>9, <2>10
       DEF Shakes, Bystander, Still, SameMessages, SameInbox
<1>7. CASE TakesAnswer(e)
  <2>1. PICK s : Proceeds(e, s)
    BY <1>7 DEF TakesAnswer
  <2>2. Dropped(sig[e], sig'[e], 1) /\ sig'[o] = sig[o]
    BY <1>7, SignalTaken DEF TakesAnswer, Gets
  <2>3. phase[e] = "handshake"
    BY <1>7 DEF TakesAnswer
  <2> QED
    BY <1>2, <1>3, <1>4, <2>1, <2>2, <2>3
       DEF Shakes, Bystander, Still, SameMessages, SameInbox
<1> QED
  BY <1>5, <1>6, <1>7

LEMMA HandshakeSteps ==
  ASSUME TypeOK, HandshakeInv, NEW e \in Ends, NEW o, o = Other(e),
         phase[e] # "none" => gen[e] \in Gens, Handshake(e)
  PROVE  Step(e, o)
<1>1. o \in Ends /\ o # e
  BY OtherEnd
<1>2. CASE Requests(e) \/ AnswersRequest(e) \/ TakesAnswer(e)
  <2>1. gen[e] \in Gens
    BY <1>2 DEF Requests, AnswersRequest, TakesAnswer
  <2> QED
    BY <1>2, <2>1, ShakingFacts DEF Step
<1>3. CASE RefusesNonce(e)
  <2>1. Dropped(sig[e], sig'[e], 1) /\ sig'[o] = sig[o]
    BY <1>3, SignalTaken DEF RefusesNonce, Gets
  <2>2. /\ phase'[e] = "ended" /\ phase'[o] = phase[o]
        /\ NoLink(e) /\ SameLink(o) /\ chan'[e] = << >> /\ chan'[o] = chan[o]
    BY <1>3, LeavingFacts DEF RefusesNonce
  <2> QED
    BY <1>3, <2>1, <2>2 DEF RefusesNonce, sessionVars, dataVars, Step, Leaves,
                            Bystander, Still, SameMessages, SameInbox
<1>4. CASE HandshakeIgnores(e)
  <2>1. Dropped(sig[e], sig'[e], 1) /\ sig'[o] = sig[o]
    BY <1>4, SignalTaken DEF HandshakeIgnores, Gets
  <2> QED
    BY <1>4, <2>1 DEF HandshakeIgnores, sessionVars, dataVars, Step, Takes,
                      Bystander, Still, SameMessages, SameInbox, SameLink
<1>5. CASE HandshakeTimesOut(e)
  <2>1. Dropped(sig[e], sig'[e], 0) /\ sig'[o] = sig[o]
    BY <1>5, SignalsKept DEF HandshakeTimesOut
  <2>2. /\ phase'[e] = "ended" /\ phase'[o] = phase[o]
        /\ NoLink(e) /\ SameLink(o) /\ chan'[e] = << >> /\ chan'[o] = chan[o]
    BY <1>5, LeavingFacts DEF HandshakeTimesOut
  <2> QED
    BY <1>5, <2>1, <2>2 DEF HandshakeTimesOut, sessionVars, dataVars, Step, Leaves,
                            Bystander, Still, SameMessages, SameInbox
<1> QED
  BY <1>2, <1>3, <1>4, <1>5 DEF Handshake

LEMMA AttemptSteps ==
  ASSUME TypeOK, HandshakeInv, NEW e \in Ends, NEW o, o = Other(e),
         phase[e] # "none" => gen[e] \in Gens, Attempt(e)
  PROVE  Step(e, o)
<1>1. o \in Ends /\ o # e
  BY OtherEnd
<1>2. phase[e] = "webrtc"
  BY DEF Attempt, RefusesHandshake, FollowsToRelay, TakesDescription, DescriptionRefused,
         SendsDescription, RtcReady, RtcMessage, RtcClosed, RtcTimesOut
<1>3. gen[e] \in Gens
  BY <1>2
<1>4. CASE RefusesHandshake(e) \/ DescriptionRefused(e)
  <2>1. Dropped(sig[e], sig'[e], 1) /\ sig'[o] = sig[o]
    BY <1>4, SignalTaken DEF RefusesHandshake, DescriptionRefused, Gets
  <2>2. /\ phase'[e] \in {"fallback", "ended"} /\ phase'[o] = phase[o]
        /\ NoLink(e) /\ SameLink(o) /\ chan'[e] = << >> /\ chan'[o] = chan[o]
    BY <1>4, LeavingFacts DEF RefusesHandshake, DescriptionRefused
  <2> QED
    BY <1>2, <1>4, <2>1, <2>2 DEF RefusesHandshake, DescriptionRefused, sessionVars,
         dataVars, Step, Leaves, Bystander, Still, SameMessages, SameInbox
<1>5. CASE RtcClosed(e) \/ RtcTimesOut(e)
  <2>1. Dropped(sig[e], sig'[e], 0) /\ sig'[o] = sig[o]
    BY <1>5, SignalsKept DEF RtcClosed, RtcTimesOut
  <2>2. /\ phase'[e] \in {"fallback", "ended"} /\ phase'[o] = phase[o]
        /\ NoLink(e) /\ SameLink(o) /\ chan'[e] = << >> /\ chan'[o] = chan[o]
    BY <1>5, LeavingFacts DEF RtcClosed, RtcTimesOut
  <2> QED
    BY <1>2, <1>5, <2>1, <2>2 DEF RtcClosed, RtcTimesOut, sessionVars,
         dataVars, Step, Leaves, Bystander, Still, SameMessages, SameInbox
<1>6. CASE FollowsToRelay(e)
  <2>1. /\ Dropped(sig[e], sig'[e], 1) /\ sig'[o] = sig[o]
        /\ 1 \in 1..Len(sig[e]) /\ First(e) = sig[e][1]
    BY <1>6, SignalTaken DEF FollowsToRelay, Gets
  <2>2. sig[e][1].t = "msg"
    BY <1>6, <2>1 DEF FollowsToRelay, Gets, First
  <2>3. /\ phase'[e] \in {"fallback", "ended"} /\ phase'[o] = phase[o]
        /\ NoLink(e) /\ SameLink(o) /\ chan'[e] = << >> /\ chan'[o] = chan[o]
    BY <1>6, LeavingFacts DEF FollowsToRelay
  <2>4. [from |-> First(e).from, n |-> First(e).n, via |-> "relay"] \in Message
    BY <1>6, RelayedMessages DEF FollowsToRelay
  <2>5. /\ inbox'[o] = inbox[o]
        /\ \E m \in Message : /\ Extended(inbox[e], inbox'[e], m) /\ m.via = "relay"
                              /\ m.from = sig[e][1].from /\ m.n = sig[e][1].n
    BY <1>6, <2>1, <2>4, DeliveringFacts DEF FollowsToRelay
  <2> QED
    BY <1>2, <1>6, <2>1, <2>2, <2>3, <2>5 DEF FollowsToRelay, sessionVars, Past,
         Step, Receiving, Bystander, Still, SameMessages, SameInbox
<1>7. CASE TakesDescription(e)
  <2>1. /\ Dropped(sig[e], sig'[e], 1) /\ sig'[o] = sig[o]
        /\ 1 \in 1..Len(sig[e]) /\ First(e) = sig[e][1]
    BY <1>7, SignalTaken DEF TakesDescription, Gets
  <2>2. sig[e][1].t \in DataSignals
    BY <1>7, <2>1 DEF TakesDescription, Gets, First, DataSignals
  <2>3. /\ phase' = phase /\ gen' = gen /\ shook' = shook /\ partner' = partner
        /\ chan' = chan /\ nsent' = nsent /\ inbox' = inbox /\ missed' = missed /\ lost' = lost
        /\ rtc[e].state = "up"
    BY <1>7 DEF TakesDescription, sessionVars, dataVars
  <2>4. CASE Heeds(e, First(e).t)
    <3>1. rtc' = [rtc EXCEPT ![e].remote = First(e).from,
                             ![e].desc = IF e = Polite THEN "pending" ELSE @]
      BY <1>7, <2>4 DEF TakesDescription
    <3>2. rtc \in [Ends -> Backend] /\ rtc[e] \in Backend
      BY DEF TypeOK
    <3>3. rtc'[o] = rtc[o]
      BY <1>1, <3>1, <3>2
    <3>4. /\ rtc'[e].remote = First(e).from /\ rtc'[e].state = rtc[e].state
          /\ rtc'[e].opened = rtc[e].opened
      BY <3>1, <3>2 DEF Backend
    <3>5. rtc[e].remote = None
      BY <2>4 DEF Heeds
    <3> QED
      BY <1>2, <2>1, <2>2, <2>3, <3>3, <3>4, <3>5
         DEF Step, Heeding, Bystander, Still, SameMessages, SameInbox, SameLink
  <2>5. CASE ~Heeds(e, First(e).t)
    <3>1. rtc' = rtc
      BY <1>7, <2>5 DEF TakesDescription
    <3> QED
      BY <1>2, <2>1, <2>3, <3>1 DEF Step, Takes, Bystander, Still, SameMessages, SameInbox, SameLink
  <2> QED
    BY <2>4, <2>5
<1>8. CASE SendsDescription(e)
  <2> DEFINE t == IF e = Polite THEN "answer" ELSE "offer"
  <2>1. t \in {"offer", "answer"} /\ [t |-> t, from |-> gen[e], n |-> 0] \in Signal
    BY <1>3 DEF Signal
  <2>2. sig' = Signals(sig, e, t, 0)
    BY <1>8 DEF SendsDescription
  <2> HIDE DEF t
  <2>3. /\ sig'[e] = sig[e]
        /\ \E m \in Signal : /\ Extended(sig[o], sig'[o], m)
                             /\ m.from = gen[e] /\ m.t \in {"offer", "answer"}
    BY <2>1, <2>2, SignallingFacts
  <2>4. SameLink(e) /\ SameLink(o)
    <3>1. rtc' = [rtc EXCEPT ![e].desc = "sent"] /\ rtc \in [Ends -> Backend]
      BY <1>8 DEF SendsDescription, TypeOK
    <3>2. rtc'[o] = rtc[o] /\ rtc'[e] = [rtc[e] EXCEPT !.desc = "sent"] /\ rtc[e] \in Backend
      BY <1>1, <3>1
    <3> QED
      BY <3>2 DEF SameLink, Backend
  <2> QED
    BY <1>2, <1>8, <2>3, <2>4 DEF SendsDescription, sessionVars, dataVars, Step,
         Describing, Bystander, Still, SameMessages, SameInbox
<1>9. CASE RtcReady(e)
  <2>1. Dropped(sig[e], sig'[e], 0) /\ sig'[o] = sig[o]
    BY <1>9, SignalsKept DEF RtcReady
  <2> QED
    BY <1>9, <2>1 DEF RtcReady, sessionVars, dataVars, Step, Takes, Bystander, Still,
         SameMessages, SameInbox, SameLink
<1>10. CASE RtcMessage(e)
  <2>1. chan \in [Ends -> Seq(Message)] /\ chan[e] # << >>
    BY <1>10 DEF RtcMessage, TypeOK
  <2>2. /\ chan'[e] = Tail(chan[e]) /\ chan'[o] = chan[o] /\ chan[e] \in Seq(Message)
    BY <1>1, <1>10, <2>1 DEF RtcMessage
  <2>3. 1 \in 1..Len(chan[e]) /\ Dropped(chan[e], chan'[e], 1) /\ Head(chan[e]) = chan[e][1]
    BY <2>1, <2>2 DEF Dropped
  <2>4. chan[e][1] \in Message
    BY <2>2, <2>3
  <2>5. [from |-> chan[e][1].from, n |-> chan[e][1].n, via |-> "rtc"] \in Message
    BY <2>4 DEF Message
  <2>6. /\ inbox'[o] = inbox[o]
        /\ \E m \in Message : /\ Extended(inbox[e], inbox'[e], m) /\ m.via = "rtc"
                              /\ m.from = chan[e][1].from /\ m.n = chan[e][1].n
    BY <1>10, <2>3, <2>5, DeliveringFacts DEF RtcMessage
  <2> QED
    BY <1>2, <1>10, <2>2, <2>3, <2>6 DEF RtcMessage, sessionVars, Step, Hearing,
         Bystander, Still, SameMessages, SameInbox, SameLink
<1> QED
  BY <1>4, <1>5, <1>6, <1>7, <1>8, <1>9, <1>10 DEF Attempt

LEMMA FallbackSteps ==
  ASSUME TypeOK, NEW e \in Ends, NEW o, o = Other(e), Fallback(e)
  PROVE  Step(e, o)
<1>1. o \in Ends /\ o # e
  BY OtherEnd
<1>2. phase[e] = "fallback" /\ rtc[e] = NoBackend /\ chan[e] = << >>
  BY DEF Fallback, RelayDelivers, FallbackIgnores, TypeOK
<1>3. sig[e] # << >> /\ sig' = Took(e)
  BY DEF Fallback, RelayDelivers, FallbackIgnores, Gets
<1>4. /\ Dropped(sig[e], sig'[e], 1) /\ sig'[o] = sig[o]
      /\ 1 \in 1..Len(sig[e]) /\ First(e) = sig[e][1]
  BY <1>3, SignalTaken
<1>5. CASE RelayDelivers(e)
  <2>1. sig[e][1].t = "msg"
    BY <1>4, <1>5 DEF RelayDelivers, Gets, First
  <2>2. [from |-> First(e).from, n |-> First(e).n, via |-> "relay"] \in Message
    BY <1>5, RelayedMessages DEF RelayDelivers
  <2>3. /\ inbox'[o] = inbox[o]
        /\ \E m \in Message : /\ Extended(inbox[e], inbox'[e], m) /\ m.via = "relay"
                              /\ m.from = sig[e][1].from /\ m.n = sig[e][1].n
    BY <1>4, <1>5, <2>2, DeliveringFacts DEF RelayDelivers
  <2> QED
    BY <1>2, <1>4, <1>5, <2>1, <2>3 DEF RelayDelivers, sessionVars, Past, NoBackend,
         NoLink, Step, Receiving, Bystander, Still, SameMessages, SameInbox, SameLink
<1>6. CASE FallbackIgnores(e)
  <2>1. sig[e][1].t # "msg"
    BY <1>4, <1>6 DEF FallbackIgnores, Gets, First
  <2> QED
    BY <1>4, <1>6, <2>1 DEF FallbackIgnores, sessionVars, dataVars, Step, Takes,
         Bystander, Still, SameMessages, SameInbox, SameLink
<1> QED
  BY <1>5, <1>6 DEF Fallback

LEMMA OwnerSteps ==
  ASSUME TypeOK, NEW e \in Ends, NEW o, o = Other(e),
         phase[e] # "none" => gen[e] \in Gens, Owner(e) \/ Closes(e)
  PROVE  Step(e, o)
<1>1. o \in Ends /\ o # e
  BY OtherEnd
<1>2. ASSUME sig' = sig
      PROVE  Dropped(sig[e], sig'[e], 0) /\ sig'[o] = sig[o]
  BY <1>2, SignalsKept
<1>3. CASE Connects(e)
  BY <1>1, <1>3 DEF Connects, Begins, TypeOK, Step, Bystander, Still, SameMessages, SameInbox, SameLink
<1>4. CASE Drops(e)
  <2>1. /\ phase'[e] = "none" /\ phase'[o] = phase[o]
        /\ NoLink(e) /\ SameLink(o) /\ chan'[e] = << >> /\ chan'[o] = chan[o]
    BY <1>4, EndingFacts DEF Drops
  <2> QED
    BY <1>2, <1>4, <2>1 DEF Drops, sessionVars, dataVars, Step, Leaves,
                            Bystander, Still, SameMessages, SameInbox
<1>5. CASE Closes(e)
  <2>1. /\ phase'[e] = "ended" /\ phase'[o] = phase[o]
        /\ NoLink(e) /\ SameLink(o) /\ chan'[e] = << >> /\ chan'[o] = chan[o]
    BY <1>5, EndingFacts DEF Closes
  <2> QED
    BY <1>2, <1>5, <2>1 DEF Closes, sessionVars, dataVars, Step, Leaves,
                            Bystander, Still, SameMessages, SameInbox
<1>6. CASE SendsInHandshake(e)
  <2>1. /\ phase'[e] = "ended" /\ phase'[o] = phase[o]
        /\ NoLink(e) /\ SameLink(o) /\ chan'[e] = << >> /\ chan'[o] = chan[o]
    BY <1>6, LeavingFacts DEF SendsInHandshake
  <2>2. phase[e] = "handshake" /\ IsGiven(e)
    BY <1>6 DEF SendsInHandshake
  <2>3. Gave(e) /\ nsent'[o] = nsent[o]
    BY <2>2, GivingFacts
  <2> QED
    BY <1>2, <1>6, <2>1, <2>2, <2>3 DEF SendsInHandshake, sessionVars, Step, Leaves,
                            Bystander, Still, SameMessages, SameInbox
<1>7. CASE SendFindsRtcClosed(e)
  <2>1. /\ phase'[e] \in {"fallback", "ended"} /\ phase'[o] = phase[o]
        /\ NoLink(e) /\ SameLink(o) /\ chan'[e] = << >> /\ chan'[o] = chan[o]
    BY <1>7, LeavingFacts DEF SendFindsRtcClosed
  <2>2. phase[e] = "webrtc" /\ IsGiven(e)
    BY <1>7 DEF SendFindsRtcClosed
  <2>3. Gave(e) /\ nsent'[o] = nsent[o]
    BY <2>2, GivingFacts
  <2> QED
    BY <1>2, <1>7, <2>1, <2>2, <2>3 DEF SendFindsRtcClosed, sessionVars, Step, Leaves,
                            Bystander, Still, SameMessages, SameInbox
<1>8. CASE SendsTooEarly(e)
  <2>1. phase[e] = "webrtc" /\ IsGiven(e)
    BY <1>8 DEF SendsTooEarly
  <2>2. Gave(e) /\ nsent'[o] = nsent[o]
    BY <2>1, GivingFacts
  <2>3. rtc' = [rtc EXCEPT ![e].state = "closed"] /\ rtc \in [Ends -> Backend]
    BY <1>8 DEF SendsTooEarly, TypeOK
  <2>4. rtc'[o] = rtc[o] /\ rtc'[e] = [rtc[e] EXCEPT !.state = "closed"] /\ rtc[e] \in Backend
    BY <1>1, <2>3
  <2>5. /\ rtc'[e].state = "closed" /\ rtc'[e].remote = rtc[e].remote
        /\ rtc'[e].opened = rtc[e].opened
    BY <2>4 DEF Backend
  <2> QED
    BY <1>8, <2>1, <2>2, <2>4, <2>5 DEF SendsTooEarly, sessionVars, Step, Breaking,
                            Bystander, Still, SameMessages, SameInbox, SameLink
<1>9. CASE SendsOverRtc(e)
  <2>1. phase[e] = "webrtc" /\ IsGiven(e) /\ rtc[e].opened /\ gen[e] \in Gens
    BY <1>9 DEF SendsOverRtc
  <2>2. Gave(e) /\ nsent'[o] = nsent[o]
    BY <2>1, GivingFacts
  <2>4. chan \in [Ends -> Seq(Message)]
    BY DEF TypeOK
  <2> DEFINE m == [from |-> gen[e], n |-> Given(e) + 1, via |-> "rtc"]
  <2>5. m \in Message /\ m.from = gen[e] /\ m.n = Given(e) + 1
    <3>1. Given(e) \in 0..MaxMsgs
      BY <2>1 DEF TypeOK, Given
    <3>2. Given(e) + 1 \in 1..MaxMsgs
      BY <2>1, <3>1, ConnAssumption DEF IsGiven
    <3> QED
      BY <2>1, <3>2 DEF Message
  <2>6. chan' = IF Linked THEN [chan EXCEPT ![o] = Append(@, m)] ELSE chan
    BY <1>9 DEF SendsOverRtc
  <2> HIDE DEF m
  <2>7. chan'[e] = chan[e]
    BY <1>1, <2>4, <2>6
  <2>8. IF Linked
          THEN \E x \in Message : /\ Extended(chan[o], chan'[o], x)
                                  /\ x.from = gen[e] /\ x.n = Given(e) + 1
          ELSE chan'[o] = chan[o]
    <3>1. CASE Linked
      <4>1. chan'[o] = Append(chan[o], m) /\ chan[o] \in Seq(Message)
        BY <1>1, <2>4, <2>6, <3>1
      <4>2. Extended(chan[o], chan'[o], m)
        BY <2>5, <4>1 DEF Extended
      <4> QED
        BY <2>5, <3>1, <4>2
    <3> QED
      BY <2>6, <3>1
  <2> QED
    BY <1>9, <2>1, <2>2, <2>7, <2>8 DEF SendsOverRtc, sessionVars, Step, Speaking,
                            Bystander, Still, SameMessages, SameInbox, SameLink
<1>10. CASE SendsOverRelay(e)
  <2>1. phase[e] = "fallback" /\ IsGiven(e) /\ gen[e] \in Gens
    BY <1>10 DEF SendsOverRelay
  <2>2. Gave(e) /\ nsent'[o] = nsent[o]
    BY <2>1, GivingFacts
  <2>3. [t |-> "msg", from |-> gen[e], n |-> Given(e) + 1] \in Signal
    <3>1. Given(e) \in 0..MaxMsgs
      BY <2>1 DEF TypeOK, Given
    <3>2. Given(e) + 1 \in 1..MaxMsgs
      BY <2>1, <3>1, ConnAssumption DEF IsGiven
    <3> QED
      BY <2>1, <3>2 DEF Signal
  <2>4. /\ sig'[e] = sig[e]
        /\ \E m \in Signal : /\ Extended(sig[o], sig'[o], m)
                             /\ m.from = gen[e] /\ m.t = "msg" /\ m.n = Given(e) + 1
    BY <1>10, <2>3, SignallingFacts DEF SendsOverRelay
  <2> QED
    BY <1>10, <2>1, <2>2, <2>4 DEF SendsOverRelay, sessionVars, Step, Relaying,
                            Bystander, Still, SameMessages, SameInbox, SameLink
<1> QED
  BY <1>3, <1>4, <1>5, <1>6, <1>7, <1>8, <1>9, <1>10 DEF Owner

LEMMA LinkSteps ==
  ASSUME TypeOK, NEW e \in Ends, NEW o, o = Other(e), Link(e)
  PROVE  Step(e, o)
<1>1. o \in Ends /\ o # e
  BY OtherEnd
<1>2. rtc \in [Ends -> Backend] /\ rtc[e] \in Backend
  BY DEF TypeOK
<1>3. CASE LinkOpens(e)
  <2>1. rtc'[o] = rtc[o] /\ rtc'[e] = [rtc[e] EXCEPT !.opened = TRUE]
    BY <1>1, <1>2, <1>3 DEF LinkOpens
  <2>2. rtc'[e].state = rtc[e].state /\ rtc'[e].remote = rtc[e].remote /\ rtc'[e].opened
    BY <1>2, <2>1 DEF Backend
  <2> QED
    BY <1>3, <2>1, <2>2 DEF LinkOpens, sessionVars, dataVars, Step, Opening,
                            Bystander, Still, SameMessages, SameInbox, SameLink
<1>4. CASE LinkBreaks(e) \/ LinkSeenBroken(e)
  <2>1. rtc'[o] = rtc[o] /\ rtc'[e] = [rtc[e] EXCEPT !.state = "closed"]
    BY <1>1, <1>2, <1>4 DEF LinkBreaks, LinkSeenBroken
  <2>2. /\ rtc'[e].state = "closed" /\ rtc'[e].remote = rtc[e].remote
        /\ rtc'[e].opened = rtc[e].opened
    BY <1>2, <2>1 DEF Backend
  <2> QED
    BY <1>4, <2>1, <2>2 DEF LinkBreaks, LinkSeenBroken, sessionVars, dataVars, Step,
                            Breaking, Bystander, Still, SameMessages, SameInbox, SameLink
<1>5. CASE LinkLoses(e)
  <2>1. chan \in [Ends -> Seq(Message)] /\ chan[e] # << >>
    BY <1>5 DEF LinkLoses, TypeOK
  <2>2. /\ chan'[e] = SubSeq(chan[e], 1, Len(chan[e]) - 1) /\ chan'[o] = chan[o]
        /\ chan[e] \in Seq(Message)
    BY <1>1, <1>5, <2>1 DEF LinkLoses
  <2>3. Extended(chan'[e], chan[e], chan[e][Len(chan[e])])
    <3> DEFINE c == chan[e]
               n == Len(c) - 1
    <3>1. c \in Seq(Message) /\ c # << >> /\ chan'[e] = SubSeq(c, 1, n)
      BY <2>1, <2>2
    <3>2. Len(c) = n + 1 /\ n \in Nat
      BY <3>1
    <3> HIDE DEF c, n
    <3>3. Len(SubSeq(c, 1, n)) = n /\ \A i \in 1..n : SubSeq(c, 1, n)[i] = c[i]
      BY <3>1, <3>2
    <3>4. Extended(SubSeq(c, 1, n), c, c[Len(c)])
      BY <3>2, <3>3 DEF Extended
    <3> QED
      BY <3>1, <3>4 DEF c
  <2> QED
    BY <1>5, <2>2, <2>3 DEF LinkLoses, sessionVars, dataVars, Step, Losing,
                            Bystander, Still, SameMessages, SameInbox, SameLink
<1>6. CASE LinkMisses(e)
  <2>1. chan \in [Ends -> Seq(Message)] /\ chan[e] # << >> /\ missed \in [Ends -> Nat]
    BY <1>6 DEF LinkMisses, TypeOK
  <2>2. /\ chan'[e] = Tail(chan[e]) /\ chan'[o] = chan[o]
        /\ chan[e] \in Seq(Message)
        /\ missed'[e] = missed[e] + 1 /\ missed'[o] = missed[o]
    BY <1>1, <1>6, <2>1 DEF LinkMisses
  <2>3. 1 \in 1..Len(chan[e]) /\ Dropped(chan[e], chan'[e], 1)
    <3> DEFINE c == chan[e]
    <3>1. c \in Seq(Message) /\ c # << >> /\ chan'[e] = Tail(c)
      BY <2>1, <2>2
    <3> HIDE DEF c
    <3>2. 1 \in 1..Len(c) /\ Dropped(c, Tail(c), 1)
      BY <3>1 DEF Dropped
    <3> QED
      BY <3>1, <3>2 DEF c
  <2>4. phase[e] = "webrtc"
    BY <2>1 DEF TypeOK
  <2> QED
    BY <1>6, <2>2, <2>3, <2>4 DEF LinkMisses, sessionVars, Step, Missing,
                            Bystander, Still, SameMessages, SameInbox, SameLink
<1> QED
  BY <1>3, <1>4, <1>5, <1>6 DEF Link

LEMMA ServerSteps ==
  ASSUME TypeOK, NEW e \in Ends, NEW o, o = Other(e), SignalServer(e)
  PROVE  Step(e, o)
<1>1. o \in Ends /\ o # e
  BY OtherEnd
<1>2. CASE Accepts(e)
  BY <1>1, <1>2 DEF Accepts, Begins, TypeOK, Step, Bystander, Still, SameMessages, SameInbox, SameLink
<1>3. CASE SignalDropped(e)
  <2>1. Dropped(sig[e], sig'[e], 1) /\ sig'[o] = sig[o]
    BY <1>3, SignalTaken DEF SignalDropped
  <2> QED
    BY <1>3, <2>1 DEF SignalDropped, sessionVars, dataVars, Step, Takes,
                      Bystander, Still, SameMessages, SameInbox, SameLink
<1>4. CASE SignalLost(e)
  <2>1. Dropped(sig[e], sig'[e], 1) /\ sig'[o] = sig[o]
    BY <1>4, SignalTaken DEF SignalLost
  <2>2. lost' # 0
    BY <1>4, ConnAssumption DEF SignalLost, TypeOK
  <2> QED
    BY <1>4, <2>1, <2>2 DEF SignalLost, sessionVars, dataVars, Step, Takes,
                            Bystander, Still, SameMessages, SameInbox, SameLink
<1> QED
  BY <1>2, <1>3, <1>4 DEF SignalServer

LEMMA Steps ==
  ASSUME TypeOK, HandshakeInv, Next
  PROVE  \E e \in Ends : Step(e, Other(e))
<1>1. PICK e \in Ends : \/ Handshake(e) \/ Attempt(e) \/ Fallback(e) \/ Closes(e)
                        \/ Owner(e) \/ Link(e) \/ SignalServer(e)
  BY DEF Next
<1>2. phase[e] # "none" => gen[e] \in Gens
  <2>1. gen \in [Ends -> 0..MaxGen]
    BY DEF TypeOK
  <2> QED
    BY <2>1, ConnAssumption DEF HandshakeInv, Phases, Gens
<1>3. Step(e, Other(e))
  BY <1>1, <1>2, HandshakeSteps, AttemptSteps, FallbackSteps, OwnerSteps, LinkSteps,
     ServerSteps
<1> QED
  BY <1>3

-----------------------------------------------------------------------------
(* The backends.  One is given the description of its partner only; and    *)
(* where the data channel was open, the other end is past its handshake,   *)
(* and was given the description of this connection if its backend lives.  *)
(* So no message is on its way over a link that comes up.                  *)

BackendOK(e, o) ==
  /\ rtc[e].remote # None => rtc[e].remote = partner[e]
  /\ rtc[e].opened => rtc[e].remote # None
  /\ rtc[e].opened /\ rtc[e].remote = gen[o] =>
       /\ phase[o] \notin {"new", "handshake"}
       /\ rtc[o].state = "up" => rtc[o].remote = gen[e]

(* The owner gives messages to the present connection, and to a backend    *)
(* that lives only once the data channel is open.                          *)
GivenOK(e) ==
  /\ phase[e] \in {"new", "handshake"} => Given(e) = 0
  /\ rtc[e].state = "up" /\ ~rtc[e].opened => Given(e) = 0
  /\ \A g \in Gens : g > gen[e] => nsent[e][g] = 0

BackendInv == \A e \in Ends : BackendOK(e, Other(e)) /\ GivenOK(e)

(* What holds of the two ends of a step. *)
Known(e, o) ==
  /\ gen[e] \in Nat /\ partner[e] \in Nat /\ partner[e] <= gen[o]
  /\ missed[e] \in Nat
  /\ phase[e] # "none" => gen[e] # None
  /\ phase[e] # "webrtc" => /\ rtc[e].state # "up" /\ rtc[e].remote = None
                            /\ ~rtc[e].opened /\ chan[e] = << >>
  /\ phase[e] \in Past => BothHalves(shook[e]) /\ partner[e] # None
  /\ Len(sig[e]) \in Nat /\ Len(chan[e]) \in Nat /\ Len(inbox[e]) \in Nat
  /\ \A g \in Gens : nsent[e][g] \in Nat
  /\ \A i \in 1..Len(sig[e]) : /\ sig[e][i].from \in Gens /\ sig[e][i].from <= gen[o]
                               /\ sig[e][i].n \in Nat
                               /\ sig[e][i].t = "msg" => sig[e][i].n # 0
  /\ \A i \in 1..Len(chan[e]) :
       chan[e][i].from \in Gens /\ chan[e][i].n \in Nat /\ chan[e][i].n # 0
  /\ \A i \in 1..Len(inbox[e]) :
       inbox[e][i].from \in Gens /\ inbox[e][i].n \in Nat /\ inbox[e][i].n # 0

LEMMA KnownHolds ==
  ASSUME ConnInv, PairInv, NEW e \in Ends, NEW o, o = Other(e)
  PROVE  Known(e, o)
<1>1. Typed /\ HandshakeInv /\ TypeOK /\ PairOK(e, o)
  BY TypesHold DEF ConnInv, PairInv
<1>2. /\ gen[e] \in Nat /\ partner[e] \in Nat /\ partner[e] <= gen[o]
      /\ phase[e] # "none" => gen[e] # None
  BY <1>1 DEF Typed, HandshakeInv, Phases, None
<1>n. missed[e] \in Nat
  BY <1>1 DEF TypeOK
<1>3. phase[e] # "webrtc" => /\ rtc[e].state # "up" /\ rtc[e].remote = None
                             /\ ~rtc[e].opened /\ chan[e] = << >>
  BY <1>1 DEF TypeOK, NoBackend
<1>4. phase[e] \in Past => BothHalves(shook[e]) /\ partner[e] # None
  BY <1>1 DEF PairOK, HalvesTell, HandshakeInv, Phases, BothHalves
<1>5. Len(sig[e]) \in Nat /\ Len(chan[e]) \in Nat /\ Len(inbox[e]) \in Nat
  BY <1>1 DEF TypeOK
<1>6. \A g \in Gens : nsent[e][g] \in Nat
  BY <1>1, ConnAssumption DEF TypeOK
<1>7. ASSUME NEW i \in 1..Len(sig[e])
      PROVE  /\ sig[e][i].from \in Gens /\ sig[e][i].from <= gen[o]
             /\ sig[e][i].n \in Nat
             /\ sig[e][i].t = "msg" => sig[e][i].n # 0
  <2>1. sig[e][i] \in Signal
    BY <1>1 DEF TypeOK
  <2>2. \A m \in Signal : /\ m.from \in Gens /\ m.n \in Nat
                          /\ m.t = "msg" => m.n # 0
    BY ConnAssumption DEF Signal, Gens
  <2> QED
    BY <1>1, <2>1, <2>2 DEF HandshakeInv, FromThePast
<1>8. \A m \in Message : m.from \in Gens /\ m.n \in Nat /\ m.n # 0
  BY ConnAssumption DEF Message
<1>9. /\ \A i \in 1..Len(chan[e]) : chan[e][i] \in Message
      /\ \A i \in 1..Len(inbox[e]) : inbox[e][i] \in Message
  BY <1>1 DEF TypeOK
<1> QED
  BY <1>2, <1>n, <1>3, <1>4, <1>5, <1>6, <1>7, <1>8, <1>9 DEF Known

(* What a new connection starts with. *)
LEMMA NewConnection ==
  ASSUME TypeOK, Typed, HandshakeInv, NEW e \in Ends, Begins(e), NEW o, o = Other(e)
  PROVE  /\ gen'[e] = gen[e] + 1 /\ gen'[e] \in Gens /\ partner'[e] = None
         /\ ~BothHalves(shook'[e])
         /\ phase[e] = "none" /\ phase'[e] = "new" /\ inbox'[e] = << >> /\ missed'[e] = 0
         /\ partner[o] < gen'[e] /\ \A i \in 1..Len(sig[o]) : sig[o][i].from < gen'[e]
         /\ rtc' = rtc /\ chan' = chan /\ sig' = sig /\ nsent' = nsent
<1>1. gen'[e] = gen[e] + 1 /\ gen[e] \in 0..MaxGen /\ gen[e] < MaxGen
  BY BeginsFacts DEF Begins, TypeOK
<1>2. gen'[e] \in Gens
  BY <1>1, ConnAssumption DEF Gens
<1>3. inbox'[e] = << >> /\ missed'[e] = 0 /\ rtc' = rtc /\ chan' = chan /\ sig' = sig /\ nsent' = nsent
  BY DEF Begins, TypeOK
<1> QED
  BY <1>1, <1>2, <1>3, BeginsFacts DEF BothHalves

LEMMA LinkedEnds ==
  ASSUME NEW e \in Ends, NEW o, o = Other(e)
  PROVE  Linked <=> /\ rtc[e].state = "up" /\ rtc[e].remote # None /\ rtc[e].remote = gen[o]
                    /\ rtc[o].state = "up" /\ rtc[o].remote # None /\ rtc[o].remote = gen[e]
BY Pair DEF Linked

LEMMA BackendStep ==
  ASSUME ConnInv, PairInv, BackendInv, NEW e \in Ends, Step(e, Other(e))
  PROVE  BackendInv'
<1> DEFINE o == Other(e)
<1>1. o \in Ends /\ o # e /\ Other(o) = e /\ Other(e) = o
  BY OtherEnd
<1>2. /\ BackendOK(e, o) /\ BackendOK(o, e) /\ GivenOK(e) /\ GivenOK(o)
      /\ PairOK(e, o) /\ TypeOK /\ Typed /\ HandshakeInv
  BY <1>1, TypesHold DEF BackendInv, PairInv, ConnInv
<1>3. Known(e, o) /\ Known(o, e)
  BY <1>1, KnownHolds
<1>4. Bystander(o)
  BY DEF Step
<1>5. Linked => /\ rtc[e].remote # None /\ rtc[e].remote = gen[o]
                /\ rtc[o].state = "up" /\ rtc[o].remote = gen[e]
  BY LinkedEnds
<1>6. Step(e, o)
  OBVIOUS
<1> HIDE DEF o
<1>7. GivenOK(o)'
  BY <1>2, <1>4 DEF GivenOK, Bystander, Still, SameLink, SameMessages, SameInbox, Given
<1>8. /\ rtc'[o].state = rtc[o].state /\ rtc'[o].remote = rtc[o].remote
      /\ rtc'[o].opened = rtc[o].opened
      /\ gen'[o] = gen[o] /\ partner'[o] = partner[o] /\ phase'[o] = phase[o]
  BY <1>4 DEF Bystander, Still, SameLink
<1>9. ASSUME Gave(e), gen'[e] = gen[e]
      PROVE  \A g \in Gens : g > gen'[e] => nsent'[e][g] = 0
  <2> SUFFICES ASSUME NEW g \in Gens, g > gen[e] PROVE nsent'[e][g] = 0
    BY <1>9
  <2>1. g # gen[e]
    BY <1>3 DEF Known
  <2> QED
    BY <1>9, <1>2, <2>1 DEF Gave, GivenOK
<1>10. BackendOK(e, o)' /\ BackendOK(o, e)' /\ GivenOK(e)'
  <2>1. CASE Begins(e)
    <3>1. /\ gen'[e] = gen[e] + 1 /\ gen'[e] \in Gens /\ partner'[e] = None
          /\ phase[e] = "none" /\ phase'[e] = "new" /\ partner[o] < gen'[e]
          /\ rtc' = rtc /\ nsent' = nsent
      BY <1>1, <1>2, <2>1, NewConnection
    <3>2. BackendOK(e, o)'
      BY <1>3, <3>1 DEF BackendOK, Known
    <3>3. BackendOK(o, e)'
      BY <1>2, <1>3, <1>8, <3>1 DEF BackendOK, Known
    <3>4. GivenOK(e)'
      BY <1>2, <1>3, <3>1 DEF GivenOK, Known, Given, Gens
    <3> QED
      BY <3>2, <3>3, <3>4
  <2>2. CASE Shakes(e, o)
    BY <1>2, <1>3, <1>8, <2>2 DEF BackendOK, Known, GivenOK, Given, Shakes, SameMessages, SameInbox
  <2>3. CASE Leaves(e, o)
    BY <1>2, <1>3, <1>8, <2>3 DEF BackendOK, Known, GivenOK, Given, Leaves, Still, NoLink, Gave
  <2>4. CASE Takes(e, o) \/ Describing(e, o) \/ Losing(e, o) \/ Missing(e, o)
    BY <1>2, <1>8, <2>4 DEF BackendOK, GivenOK, Given, Takes, Describing, Losing, Missing, Still,
                            SameLink, SameMessages, SameInbox
  <2>5. CASE Heeding(e, o)
    <3>1. sig[e][1].from = partner[e] /\ partner[e] # None
      BY <1>2, <1>3, <2>5 DEF PairOK, AfterAnswer, Heeding, Known, Past
    <3>2. ~rtc[e].opened
      BY <1>2, <2>5 DEF BackendOK, Heeding
    <3>3. ~(rtc[o].opened /\ rtc[o].remote = gen[e])
      <4> SUFFICES ASSUME rtc[o].opened, rtc[o].remote = gen[e] PROVE FALSE
        OBVIOUS
      <4>1. None = gen[o]
        BY <1>2, <2>5 DEF BackendOK, Heeding
      <4> QED
        BY <1>3, <4>1 DEF Known
    <3> QED
      BY <1>2, <1>8, <2>5, <3>1, <3>2, <3>3
         DEF BackendOK, GivenOK, Given, Heeding, Still, SameMessages, SameInbox
  <2>6. CASE Opening(e, o)
    BY <1>2, <1>3, <1>5, <1>8, <2>6
       DEF BackendOK, GivenOK, Known, Given, Opening, Still, SameMessages, SameInbox
  <2>7. CASE Breaking(e, o)
    <3>1. BackendOK(e, o)' /\ BackendOK(o, e)'
      BY <1>2, <1>8, <2>7 DEF BackendOK, Breaking, Still
    <3>2. CASE nsent'[e] = nsent[e]
      BY <1>2, <2>7, <3>1, <3>2 DEF GivenOK, Given, Breaking, Still
    <3>3. CASE Gave(e) /\ phase[e] = "webrtc"
      BY <1>9, <2>7, <3>1, <3>3 DEF GivenOK, Breaking, Still
    <3> QED
      BY <2>7, <3>2, <3>3 DEF Breaking
  <2>8. CASE Hearing(e, o)
    BY <1>2, <1>8, <2>8 DEF BackendOK, GivenOK, Given, Hearing, Still, SameLink
  <2>9. CASE Speaking(e, o)
    <3>1. BackendOK(e, o)' /\ BackendOK(o, e)'
      BY <1>2, <1>8, <2>9 DEF BackendOK, Speaking, Still, SameLink
    <3>2. GivenOK(e)'
      BY <1>9, <2>9 DEF GivenOK, Speaking, Still, SameLink
    <3> QED
      BY <3>1, <3>2
  <2>10. CASE Relaying(e, o)
    <3>1. BackendOK(e, o)' /\ BackendOK(o, e)'
      BY <1>2, <1>8, <2>10 DEF BackendOK, Relaying, Still, SameLink
    <3>2. GivenOK(e)'
      BY <1>9, <1>3, <2>10 DEF GivenOK, Known, Relaying, Still, SameLink
    <3> QED
      BY <3>1, <3>2
  <2>11. CASE Receiving(e, o)
    BY <1>2, <1>8, <2>11 DEF BackendOK, GivenOK, Given, Receiving, Still, NoLink
  <2> QED
    BY <1>6, <2>1, <2>2, <2>3, <2>4, <2>5, <2>6, <2>7, <2>8, <2>9, <2>10, <2>11 DEF Step
<1>11. ASSUME NEW x \in Ends
       PROVE  BackendOK(x, Other(x))' /\ GivenOK(x)'
  BY <1>1, <1>7, <1>10, Pair DEF o
<1> QED
  BY <1>11 DEF BackendInv

-----------------------------------------------------------------------------
(* What is delivered.  An end's inbox b, the channel c to it and the       *)
(* relayed signals q on their way to it, when it is with connection k of   *)
(* the peer and the peer's connections were given `sent` messages.         *)

(* What came over the data channel is everything from the first one on     *)
(* that was not missed, of which there are z.                              *)
MissedOK(z, k, sent) == z # 0 => k \in Gens /\ sent[k] # 0
InboxQ(b, k, sent, z) ==
  \A i \in 1..Len(b) :
    /\ b[i].from = k /\ b[i].n <= sent[k]
    /\ b[i].via = "rtc" => b[i].n = z + i
    /\ \A j \in 1..Len(b) : i < j => b[i].n < b[j].n

(* The channel goes on where the inbox ends. *)
ChanQ(c, b, k, sent, z) ==
  \A i \in 1..Len(c) : c[i].from = k /\ c[i].n = z + Len(b) + i /\ c[i].n <= sent[k]

(* A connection that relays does nothing else any more; its messages come  *)
(* without a gap.  g is the peer's present connection, p its phase.        *)
Relays(p) == p \in {"fallback", "ended", "none"}
RelayQ(q, sent, g, p) ==
  \A i \in 1..Len(q) : q[i].t = "msg" =>
    /\ q[i].n <= sent[q[i].from]
    /\ q[i].from = g => Relays(p) /\ (i = Len(q) => q[i].n = sent[g])
    /\ \A j \in 1..Len(q) : i < j /\ q[j].from = q[i].from =>
         /\ q[j].t = "msg" /\ q[i].n < q[j].n
         /\ j = i + 1 => q[j].n = q[i].n + 1

(* What is relayed comes after everything else. *)
AheadQ(q, c, b, k) ==
  \A i \in 1..Len(q) : q[i].t = "msg" /\ q[i].from = k =>
    /\ \A j \in 1..Len(b) : b[j].n < q[i].n
    /\ \A j \in 1..Len(c) : c[j].n < q[i].n

DeliveryOK(e, o) ==
  /\ phase[e] \in {"new", "handshake"} => inbox[e] = << >> /\ missed[e] = 0
  /\ MissedOK(missed[e], partner[e], nsent[o])
  /\ phase[e] = "webrtc" => \A i \in 1..Len(inbox[e]) : inbox[e][i].via = "rtc"
  /\ InboxQ(inbox[e], partner[e], nsent[o], missed[e])
  /\ ChanQ(chan[e], inbox[e], partner[e], nsent[o], missed[e])
  /\ Linked => (missed[e] + Len(inbox[e])) + Len(chan[e]) = nsent[o][gen[o]]
  /\ RelayQ(sig[e], nsent[o], gen[o], phase[o])
  /\ AheadQ(sig[e], chan[e], inbox[e], partner[e])

DeliveryInv == \A e \in Ends : DeliveryOK(e, Other(e))

LEMMA EmptyQueues ==
  ASSUME NEW k, NEW s, NEW b, NEW q, NEW z
  PROVE  /\ InboxQ(<< >>, k, s, z) /\ ChanQ(<< >>, b, k, s, z)
         /\ AheadQ(q, << >>, << >>, k)
<1>1. 1..Len(<< >>) = {}
  OBVIOUS
<1> QED
  BY <1>1 DEF InboxQ, ChanQ, AheadQ

LEMMA MoreIsSent ==
  ASSUME NEW b, NEW c, NEW k, NEW s, NEW t, NEW z,
         \A i \in 1..Len(b) : b[i].from \in Gens /\ b[i].n \in Nat,
         \A i \in 1..Len(c) : c[i].from \in Gens /\ c[i].n \in Nat,
         \A g \in Gens : s[g] \in Nat /\ t[g] \in Nat /\ s[g] <= t[g]
  PROVE  /\ InboxQ(b, k, s, z) => InboxQ(b, k, t, z)
         /\ ChanQ(c, b, k, s, z) => ChanQ(c, b, k, t, z)
         /\ MissedOK(z, k, s) => MissedOK(z, k, t)
<1>1. ASSUME InboxQ(b, k, s, z) PROVE InboxQ(b, k, t, z)
  <2>1. ASSUME NEW i \in 1..Len(b) PROVE b[i].n <= t[k]
    <3>1. b[i].from = k /\ b[i].n <= s[k] /\ b[i].n \in Nat /\ k \in Gens
      BY <1>1 DEF InboxQ
    <3> QED
      BY <3>1
  <2> QED
    BY <1>1, <2>1 DEF InboxQ
<1>2. ASSUME ChanQ(c, b, k, s, z) PROVE ChanQ(c, b, k, t, z)
  <2>1. ASSUME NEW i \in 1..Len(c) PROVE c[i].n <= t[k]
    <3>1. c[i].from = k /\ c[i].n <= s[k] /\ c[i].n \in Nat /\ k \in Gens
      BY <1>2 DEF ChanQ
    <3> QED
      BY <3>1
  <2> QED
    BY <1>2, <2>1 DEF ChanQ
<1>3. ASSUME MissedOK(z, k, s) PROVE MissedOK(z, k, t)
  BY <1>3 DEF MissedOK
<1> QED
  BY <1>1, <1>2, <1>3

LEMMA InboxGrows ==
  ASSUME NEW b, NEW d, NEW m, NEW k, NEW s, NEW z \in Nat, Len(b) \in Nat,
         Extended(b, d, m), InboxQ(b, k, s, z), m.from = k, m.n <= s[k],
         m.via = "rtc" => m.n = z + Len(b) + 1,
         \A i \in 1..Len(b) : b[i].n < m.n
  PROVE  InboxQ(d, k, s, z)
<1> SUFFICES ASSUME NEW i \in 1..Len(d)
             PROVE  /\ d[i].from = k /\ d[i].n <= s[k]
                    /\ d[i].via = "rtc" => d[i].n = z + i
                    /\ \A j \in 1..Len(d) : i < j => d[i].n < d[j].n
  BY DEF InboxQ
<1>1. ASSUME NEW j \in 1..Len(d)
      PROVE  \/ j \in 1..Len(b) /\ d[j] = b[j]
             \/ j = Len(b) + 1 /\ d[j] = m
  BY DEF Extended
<1>2. d[i].from = k /\ d[i].n <= s[k] /\ (d[i].via = "rtc" => d[i].n = z + i)
  BY <1>1 DEF InboxQ
<1>3. ASSUME NEW j \in 1..Len(d), i < j
      PROVE  d[i].n < d[j].n
  <2>1. i \in 1..Len(b) /\ d[i] = b[i]
    BY <1>1, <1>3
  <2>2. CASE j \in 1..Len(b) /\ d[j] = b[j]
    BY <1>3, <2>1, <2>2 DEF InboxQ
  <2>3. CASE d[j] = m
    BY <2>1, <2>3
  <2> QED
    BY <1>1, <2>2, <2>3
<1> QED
  BY <1>2, <1>3

LEMMA ChanMoves ==
  ASSUME NEW b, NEW d, NEW m, NEW c, NEW r, NEW k, NEW s, NEW z \in Nat,
         Len(b) \in Nat, Len(c) \in Nat,
         ChanQ(c, b, k, s, z), Dropped(c, r, 1), Extended(b, d, m)
  PROVE  ChanQ(r, d, k, s, z)
<1> SUFFICES ASSUME NEW i \in 1..Len(r)
             PROVE  r[i].from = k /\ r[i].n = z + Len(d) + i /\ r[i].n <= s[k]
  BY DEF ChanQ
<1>1. i + 1 \in 1..Len(c) /\ r[i] = c[i + 1]
  BY DEF Dropped
<1>2. c[i + 1].from = k /\ c[i + 1].n = z + Len(b) + (i + 1) /\ c[i + 1].n <= s[k]
  BY <1>1 DEF ChanQ
<1>3. Len(d) = Len(b) + 1
  BY DEF Extended
<1> QED
  BY <1>1, <1>2, <1>3

LEMMA ChanGrows ==
  ASSUME NEW b, NEW c, NEW r, NEW m, NEW k, NEW s, NEW z \in Nat,
         Len(b) \in Nat, Len(c) \in Nat,
         ChanQ(c, b, k, s, z), Extended(c, r, m), m.from = k, m.n <= s[k],
         m.n = z + Len(b) + Len(c) + 1
  PROVE  ChanQ(r, b, k, s, z)
<1> SUFFICES ASSUME NEW i \in 1..Len(r)
             PROVE  r[i].from = k /\ r[i].n = z + Len(b) + i /\ r[i].n <= s[k]
  BY DEF ChanQ
<1>1. \/ i \in 1..Len(c) /\ r[i] = c[i]
      \/ i = Len(c) + 1 /\ r[i] = m
  BY DEF Extended
<1> QED
  BY <1>1 DEF ChanQ

LEMMA ChanShrinks ==
  ASSUME NEW b, NEW c, NEW r, NEW m, NEW k, NEW s, NEW q, NEW z, Len(c) \in Nat, Len(r) \in Nat,
         Extended(r, c, m)
  PROVE  /\ ChanQ(c, b, k, s, z) => ChanQ(r, b, k, s, z)
         /\ AheadQ(q, c, b, k) => AheadQ(q, r, b, k)
<1>1. \A i \in 1..Len(r) : i \in 1..Len(c) /\ r[i] = c[i]
  BY DEF Extended
<1> QED
  BY <1>1 DEF ChanQ, AheadQ

(* The first message of the channel is missed. *)
LEMMA ChanMisses ==
  ASSUME NEW c, NEW r, NEW k, NEW s, NEW q, NEW z \in Nat, Len(c) \in Nat, Len(r) \in Nat,
         ChanQ(c, << >>, k, s, z), AheadQ(q, c, << >>, k), Dropped(c, r, 1)
  PROVE  ChanQ(r, << >>, k, s, z + 1) /\ AheadQ(q, r, << >>, k)
<1>1. \A i \in 1..Len(r) : i + 1 \in 1..Len(c) /\ r[i] = c[i + 1]
  BY DEF Dropped
<1>2. Len(<< >>) = 0
  OBVIOUS
<1>3. \A i \in 1..Len(r) : z + 0 + (i + 1) = (z + 1) + 0 + i
  OBVIOUS
<1>4. ChanQ(r, << >>, k, s, z + 1)
  BY <1>1, <1>2, <1>3 DEF ChanQ
<1>5. AheadQ(q, r, << >>, k)
  BY <1>1, <1>2 DEF AheadQ
<1> QED
  BY <1>4, <1>5

LEMMA RelayTaken ==
  ASSUME NEW q, NEW r, NEW d \in {0, 1}, NEW s, NEW g, NEW p, NEW c, NEW b, NEW k,
         Len(q) \in Nat, Dropped(q, r, d)
  PROVE  /\ RelayQ(q, s, g, p) => RelayQ(r, s, g, p)
         /\ AheadQ(q, c, b, k) => AheadQ(r, c, b, k)
<1>1. ASSUME NEW i \in 1..Len(r)
      PROVE  i + d \in 1..Len(q) /\ r[i] = q[i + d]
  BY DEF Dropped
<1>2. ASSUME RelayQ(q, s, g, p) PROVE RelayQ(r, s, g, p)
  <2> SUFFICES ASSUME NEW i \in 1..Len(r), r[i].t = "msg"
               PROVE  /\ r[i].n <= s[r[i].from]
                      /\ r[i].from = g => Relays(p) /\ (i = Len(r) => r[i].n = s[g])
                      /\ \A j \in 1..Len(r) : i < j /\ r[j].from = r[i].from =>
                           /\ r[j].t = "msg" /\ r[i].n < r[j].n
                           /\ j = i + 1 => r[j].n = r[i].n + 1
    BY DEF RelayQ
  <2>1. i + d \in 1..Len(q) /\ r[i] = q[i + d]
    BY <1>1
  <2>2. i = Len(r) => i + d = Len(q)
    BY DEF Dropped
  <2>3. /\ r[i].n <= s[r[i].from]
        /\ r[i].from = g => Relays(p) /\ (i = Len(r) => r[i].n = s[g])
    BY <1>2, <2>1, <2>2 DEF RelayQ
  <2>4. ASSUME NEW j \in 1..Len(r), i < j, r[j].from = r[i].from
        PROVE  /\ r[j].t = "msg" /\ r[i].n < r[j].n
               /\ j = i + 1 => r[j].n = r[i].n + 1
    <3>1. j + d \in 1..Len(q) /\ r[j] = q[j + d]
      BY <1>1
    <3>2. i + d < j + d /\ (j = i + 1 => j + d = (i + d) + 1)
      BY <2>4
    <3> QED
      BY <1>2, <2>1, <2>4, <3>1, <3>2 DEF RelayQ
  <2> QED
    BY <2>3, <2>4
<1>3. ASSUME AheadQ(q, c, b, k) PROVE AheadQ(r, c, b, k)
  BY <1>1, <1>3 DEF AheadQ
<1> QED
  BY <1>2, <1>3

(* The peer's connection may end, and be given what it does not relay. *)
LEMMA RelayWhileOthers ==
  ASSUME NEW q, NEW s, NEW t, NEW g, NEW p, NEW u, RelayQ(q, s, g, p),
         \A i \in 1..Len(q) : q[i].from \in Gens /\ q[i].n \in Nat,
         \A h \in Gens : s[h] \in Nat /\ t[h] \in Nat /\ s[h] <= t[h],
         Relays(p) => Relays(u) /\ t[g] = s[g]
  PROVE  RelayQ(q, t, g, u)
<1>1. ASSUME NEW i \in 1..Len(q), q[i].t = "msg" PROVE q[i].n <= t[q[i].from]
  <2>1. q[i].n <= s[q[i].from] /\ q[i].from \in Gens /\ q[i].n \in Nat
    BY <1>1 DEF RelayQ
  <2> QED
    BY <2>1
<1> QED
  BY <1>1 DEF RelayQ

(* The peer has another connection. *)
LEMMA RelayOfEarlier ==
  ASSUME NEW q, NEW s, NEW g, NEW h, NEW p, NEW u, RelayQ(q, s, g, p), h \in Nat,
         \A i \in 1..Len(q) : q[i].from \in Nat /\ q[i].from < h
  PROVE  RelayQ(q, s, h, u)
<1>1. \A i \in 1..Len(q) : q[i].from # h
  OBVIOUS
<1> QED
  BY <1>1 DEF RelayQ

(* It sends something else, when it does not relay. *)
LEMMA RelayExtended ==
  ASSUME NEW q, NEW r, NEW m, NEW s, NEW g, NEW p, NEW u, Len(q) \in Nat, RelayQ(q, s, g, p),
         ~Relays(p), Extended(q, r, m), m.from = g, m.t # "msg"
  PROVE  RelayQ(r, s, g, u)
<1> SUFFICES ASSUME NEW i \in 1..Len(r), r[i].t = "msg"
             PROVE  /\ r[i].n <= s[r[i].from]
                    /\ r[i].from # g
                    /\ \A j \in 1..Len(r) : i < j /\ r[j].from = r[i].from =>
                         /\ r[j].t = "msg" /\ r[i].n < r[j].n
                         /\ j = i + 1 => r[j].n = r[i].n + 1
  BY DEF RelayQ
<1>1. ASSUME NEW j \in 1..Len(r)
      PROVE  \/ j \in 1..Len(q) /\ r[j] = q[j]
             \/ j = Len(q) + 1 /\ r[j] = m
  BY DEF Extended
<1>2. i \in 1..Len(q) /\ r[i] = q[i]
  BY <1>1
<1>3. r[i].n <= s[r[i].from] /\ r[i].from # g
  BY <1>2 DEF RelayQ
<1>4. ASSUME NEW j \in 1..Len(r), i < j, r[j].from = r[i].from
      PROVE  /\ r[j].t = "msg" /\ r[i].n < r[j].n
             /\ j = i + 1 => r[j].n = r[i].n + 1
  <2>1. j \in 1..Len(q) /\ r[j] = q[j]
    BY <1>1, <1>3, <1>4
  <2> QED
    BY <1>2, <1>4, <2>1 DEF RelayQ
<1> QED
  BY <1>3, <1>4

(* It relays its next message. *)
LEMMA RelayGrows ==
  ASSUME NEW q, NEW r, NEW m, NEW s, NEW t, NEW g, NEW p, Len(q) \in Nat, RelayQ(q, s, g, p),
         Relays(p), Extended(q, r, m), m.from = g, m.t = "msg", m.n = s[g] + 1,
         g \in Gens, t[g] = s[g] + 1, s[g] \in Nat,
         \A i \in 1..Len(q) : q[i].from \in Gens /\ q[i].n \in Nat,
         \A h \in Gens : h # g => t[h] = s[h]
  PROVE  RelayQ(r, t, g, p)
<1> SUFFICES ASSUME NEW i \in 1..Len(r), r[i].t = "msg"
             PROVE  /\ r[i].n <= t[r[i].from]
                    /\ i = Len(r) => r[i].n = t[g]
                    /\ \A j \in 1..Len(r) : i < j /\ r[j].from = r[i].from =>
                         /\ r[j].t = "msg" /\ r[i].n < r[j].n
                         /\ j = i + 1 => r[j].n = r[i].n + 1
  BY DEF RelayQ
<1>1. ASSUME NEW j \in 1..Len(r)
      PROVE  \/ j \in 1..Len(q) /\ r[j] = q[j]
             \/ j = Len(q) + 1 /\ r[j] = m
  BY DEF Extended
<1>2. ASSUME i \in 1..Len(q), r[i] = q[i]
      PROVE  r[i].n \in Nat /\ r[i].from \in Gens /\ r[i].n <= s[r[i].from]
  BY <1>2 DEF RelayQ
<1>3. i = Len(r) => r[i].n = t[g]
  BY <1>1 DEF Extended
<1>4. r[i].n <= t[r[i].from]
  <2>1. CASE i \in 1..Len(q) /\ r[i] = q[i]
    <3>1. CASE r[i].from = g
      <4>1. r[i].n <= s[g] /\ r[i].n \in Nat
        BY <1>2, <2>1, <3>1
      <4> QED
        BY <3>1, <4>1
    <3>2. CASE r[i].from # g
      BY <1>2, <2>1, <3>2
    <3> QED
      BY <3>1, <3>2
  <2>2. CASE r[i] = m
    BY <2>2
  <2> QED
    BY <1>1, <2>1, <2>2
<1>5. ASSUME NEW j \in 1..Len(r), i < j, r[j].from = r[i].from
      PROVE  /\ r[j].t = "msg" /\ r[i].n < r[j].n
             /\ j = i + 1 => r[j].n = r[i].n + 1
  <2>1. i \in 1..Len(q) /\ r[i] = q[i]
    BY <1>1, <1>5
  <2>2. CASE j \in 1..Len(q) /\ r[j] = q[j]
    BY <1>5, <2>1, <2>2 DEF RelayQ
  <2>3. CASE j = Len(q) + 1 /\ r[j] = m
    <3>1. r[i].from = g /\ r[i].n <= s[g] /\ r[i].n \in Nat
      BY <1>2, <1>5, <2>1, <2>3
    <3>2. j = i + 1 => i = Len(q)
      BY <2>3
    <3>3. j = i + 1 => r[i].n = s[g]
      BY <2>1, <3>1, <3>2 DEF RelayQ
    <3> QED
      BY <2>3, <3>1, <3>3
  <2> QED
    BY <1>1, <2>2, <2>3
<1> QED
  BY <1>3, <1>4, <1>5

LEMMA AheadExtended ==
  ASSUME NEW q, NEW r, NEW m, NEW c, NEW b, NEW k, Len(q) \in Nat, AheadQ(q, c, b, k),
         Extended(q, r, m),
         m.t = "msg" /\ m.from = k => /\ \A j \in 1..Len(b) : b[j].n < m.n
                                      /\ \A j \in 1..Len(c) : c[j].n < m.n
  PROVE  AheadQ(r, c, b, k)
<1>1. ASSUME NEW i \in 1..Len(r)
      PROVE  \/ i \in 1..Len(q) /\ r[i] = q[i]
             \/ i = Len(q) + 1 /\ r[i] = m
  BY DEF Extended
<1> QED
  BY <1>1 DEF AheadQ

(* The first message of the channel goes to the inbox. *)
LEMMA AheadMoves ==
  ASSUME NEW q, NEW c, NEW r, NEW b, NEW d, NEW m, NEW k, Len(b) \in Nat, Len(c) \in Nat,
         AheadQ(q, c, b, k), 1 \in 1..Len(c), Dropped(c, r, 1), Extended(b, d, m), m.n = c[1].n
  PROVE  AheadQ(q, r, d, k)
<1> SUFFICES ASSUME NEW i \in 1..Len(q), q[i].t = "msg", q[i].from = k
             PROVE  /\ \A j \in 1..Len(d) : d[j].n < q[i].n
                    /\ \A j \in 1..Len(r) : r[j].n < q[i].n
  BY DEF AheadQ
<1>1. \A j \in 1..Len(r) : j + 1 \in 1..Len(c) /\ r[j] = c[j + 1]
  BY DEF Dropped
<1>2. \A j \in 1..Len(d) : \/ j \in 1..Len(b) /\ d[j] = b[j]
                           \/ j = Len(b) + 1 /\ d[j] = m
  BY DEF Extended
<1> QED
  BY <1>1, <1>2 DEF AheadQ

(* The first relayed message goes to the inbox. *)
LEMMA AheadDelivers ==
  ASSUME NEW q, NEW r, NEW b, NEW d, NEW c, NEW m, NEW k, NEW s, NEW g, NEW p,
         Len(b) \in Nat, Len(q) \in Nat,
         AheadQ(q, c, b, k), RelayQ(q, s, g, p), 1 \in 1..Len(q), Dropped(q, r, 1),
         q[1].t = "msg", q[1].from = k, Extended(b, d, m), m.n = q[1].n
  PROVE  AheadQ(r, << >>, d, k)
<1> SUFFICES ASSUME NEW i \in 1..Len(r), r[i].t = "msg", r[i].from = k,
                    NEW j \in 1..Len(d)
             PROVE  d[j].n < r[i].n
  <2>1. 1..Len(<< >>) = {}
    OBVIOUS
  <2> QED
    BY <2>1 DEF AheadQ
<1>1. i + 1 \in 1..Len(q) /\ r[i] = q[i + 1] /\ 1 < i + 1
  BY DEF Dropped
<1>2. q[1].n < q[i + 1].n
  BY <1>1 DEF RelayQ
<1>3. \/ j \in 1..Len(b) /\ d[j] = b[j]
      \/ d[j] = m
  BY DEF Extended
<1> QED
  BY <1>1, <1>2, <1>3 DEF AheadQ

(* The channel gets a message while nothing is relayed. *)
LEMMA AheadSpeaks ==
  ASSUME NEW q, NEW c, NEW b, NEW k, \A i \in 1..Len(q) : q[i].t = "msg" => q[i].from # k
  PROVE  AheadQ(q, c, b, k)
BY DEF AheadQ

(* The two ends before a step. *)
Before(e, o) ==
  /\ TypeOK /\ Typed /\ HandshakeInv
  /\ e \in Ends /\ o \in Ends /\ o # e /\ o = Other(e) /\ e = Other(o)
  /\ PairOK(e, o) /\ PairOK(o, e) /\ BackendOK(e, o) /\ BackendOK(o, e)
  /\ GivenOK(e) /\ GivenOK(o) /\ Known(e, o) /\ Known(o, e)
  /\ DeliveryOK(e, o) /\ DeliveryOK(o, e)

(* What is to be shown of either, but for the link. *)
Delivery(e, o) ==
  /\ phase'[e] \in {"new", "handshake"} => inbox'[e] = << >> /\ missed'[e] = 0
  /\ MissedOK(missed'[e], partner'[e], nsent'[o])
  /\ phase'[e] = "webrtc" => \A i \in 1..Len(inbox'[e]) : inbox'[e][i].via = "rtc"
  /\ InboxQ(inbox'[e], partner'[e], nsent'[o], missed'[e])
  /\ ChanQ(chan'[e], inbox'[e], partner'[e], nsent'[o], missed'[e])
  /\ RelayQ(sig'[e], nsent'[o], gen'[o], phase'[o])
  /\ AheadQ(sig'[e], chan'[e], inbox'[e], partner'[e])

LEMMA DeliveryPrimed ==
  ASSUME NEW e, NEW o, Delivery(e, o),
         Linked' => (missed'[e] + Len(inbox'[e])) + Len(chan'[e]) = nsent'[o][gen'[o]]
  PROVE  DeliveryOK(e, o)'
BY DEF Delivery, DeliveryOK, MissedOK, InboxQ, ChanQ, RelayQ, AheadQ, Relays

LEMMA SentGrows ==
  ASSUME NEW e, NEW o, Before(e, o), nsent'[e] = nsent[e] \/ Gave(e)
  PROVE  \A g \in Gens : /\ nsent[e][g] \in Nat /\ nsent'[e][g] \in Nat
                         /\ nsent[e][g] <= nsent'[e][g]
<1>1. \A g \in Gens : nsent[e][g] \in Nat
  BY DEF Before, Known
<1>2. CASE nsent'[e] = nsent[e]
  BY <1>1, <1>2
<1>3. CASE Gave(e)
  <2> SUFFICES ASSUME NEW g \in Gens
               PROVE  nsent'[e][g] \in Nat /\ nsent[e][g] <= nsent'[e][g]
    BY <1>1
  <2>1. CASE g = gen[e]
    BY <1>1, <1>3, <2>1 DEF Gave, Given
  <2>2. CASE g # gen[e]
    BY <1>1, <1>3, <2>2 DEF Gave
  <2> QED
    BY <2>1, <2>2
<1> QED
  BY <1>2, <1>3

LEMMA AheadEmptied ==
  ASSUME NEW q, NEW c, NEW b, NEW k, AheadQ(q, c, b, k)
  PROVE  AheadQ(q, << >>, b, k)
<1>1. 1..Len(<< >>) = {}
  OBVIOUS
<1> QED
  BY <1>1 DEF AheadQ

-----------------------------------------------------------------------------
(* The end that takes the step. *)

LEMMA SameSide ==
  ASSUME NEW e, NEW o, Before(e, o), Bystander(o),
         phase'[e] = phase[e], Still(e), SameInbox(e), chan'[e] = chan[e],
         \E d \in {0, 1} : Dropped(sig[e], sig'[e], d)
  PROVE  Delivery(e, o)
<1> DEFINE r == sig'[e]
<1>1. PICK d \in {0, 1} : Dropped(sig[e], r, d)
  OBVIOUS
<1> HIDE DEF r
<1>2. DeliveryOK(e, o) /\ Len(sig[e]) \in Nat
  BY DEF Before, Known
<1>3. /\ RelayQ(r, nsent[o], gen[o], phase[o])
      /\ AheadQ(r, chan[e], inbox[e], partner[e])
  BY <1>1, <1>2, RelayTaken DEF DeliveryOK
<1>4. r = sig'[e]
  BY DEF r
<1> QED
  BY <1>2, <1>3, <1>4 DEF Delivery, DeliveryOK, Bystander, Still, SameMessages, SameInbox

LEMMA BeginningSide ==
  ASSUME NEW e, NEW o, Before(e, o), Bystander(o), Begins(e)
  PROVE  Delivery(e, o)
<1>1. /\ phase'[e] = "new" /\ inbox'[e] = << >> /\ missed'[e] = 0 /\ phase[e] = "none"
      /\ chan' = chan /\ sig' = sig
  BY NewConnection DEF Before
<1>2. chan[e] = << >>
  BY <1>1 DEF Before, Known
<1>3. /\ InboxQ(<< >>, partner'[e], nsent'[o], missed'[e])
      /\ ChanQ(<< >>, << >>, partner'[e], nsent'[o], missed'[e])
      /\ AheadQ(sig[e], << >>, << >>, partner'[e])
  BY EmptyQueues
<1>4. RelayQ(sig[e], nsent[o], gen[o], phase[o])
  BY DEF Before, DeliveryOK
<1> QED
  BY <1>1, <1>2, <1>3, <1>4 DEF Delivery, MissedOK, Bystander, Still, SameMessages, SameInbox

LEMMA ShakingSide ==
  ASSUME NEW e, NEW o, Before(e, o), Bystander(o), Shakes(e, o)
  PROVE  Delivery(e, o)
<1> DEFINE r == sig'[e]
<1>1. PICK d \in {0, 1} : Dropped(sig[e], r, d)
  BY DEF Shakes
<1> HIDE DEF r
<1>2. DeliveryOK(e, o) /\ Len(sig[e]) \in Nat
  BY DEF Before, Known
<1>3. RelayQ(r, nsent[o], gen[o], phase[o])
  BY <1>1, <1>2, RelayTaken DEF DeliveryOK
<1>4. inbox'[e] = << >> /\ missed'[e] = 0 /\ chan'[e] = << >>
  BY <1>2 DEF Shakes, SameMessages, SameInbox, DeliveryOK
<1>5. /\ InboxQ(<< >>, partner'[e], nsent'[o], missed'[e])
      /\ ChanQ(<< >>, << >>, partner'[e], nsent'[o], missed'[e])
      /\ AheadQ(r, << >>, << >>, partner'[e])
  BY EmptyQueues
<1>6. r = sig'[e] /\ \A i \in 1..Len(<< >>) : FALSE
  BY DEF r
<1> QED
  BY <1>3, <1>4, <1>5, <1>6 DEF Delivery, MissedOK, Bystander, Still, SameMessages, SameInbox

LEMMA LeavingSide ==
  ASSUME NEW e, NEW o, Before(e, o), Bystander(o), Leaves(e, o)
  PROVE  Delivery(e, o)
<1> DEFINE r == sig'[e]
<1>1. PICK d \in {0, 1} : Dropped(sig[e], r, d)
  BY DEF Leaves
<1> HIDE DEF r
<1>2. DeliveryOK(e, o) /\ Len(sig[e]) \in Nat
  BY DEF Before, Known
<1>3. /\ RelayQ(r, nsent[o], gen[o], phase[o])
      /\ AheadQ(r, chan[e], inbox[e], partner[e])
  BY <1>1, <1>2, RelayTaken DEF DeliveryOK
<1>4. AheadQ(r, << >>, inbox[e], partner[e])
  BY <1>3, AheadEmptied
<1>5. ChanQ(<< >>, inbox[e], partner[e], nsent[o], missed[e])
  BY EmptyQueues
<1>6. r = sig'[e]
  BY DEF r
<1>7. phase'[e] \notin {"new", "handshake", "webrtc"}
  BY DEF Leaves
<1> QED
  BY <1>2, <1>3, <1>4, <1>5, <1>6, <1>7
     DEF Delivery, DeliveryOK, Bystander, Still, SameMessages, SameInbox, Leaves

LEMMA LosingSide ==
  ASSUME NEW e, NEW o, Before(e, o), Bystander(o), Losing(e, o), Len(chan'[e]) \in Nat
  PROVE  Delivery(e, o)
<1> DEFINE r == chan'[e]
<1>1. Extended(r, chan[e], chan[e][Len(chan[e])]) /\ Len(r) \in Nat
  BY DEF Losing
<1> HIDE DEF r
<1>2. DeliveryOK(e, o) /\ Len(chan[e]) \in Nat
  BY DEF Before, Known
<1>3. /\ ChanQ(r, inbox[e], partner[e], nsent[o], missed[e])
      /\ AheadQ(sig[e], r, inbox[e], partner[e])
  BY <1>1, <1>2, ChanShrinks DEF DeliveryOK
<1>4. r = chan'[e]
  BY DEF r
<1> QED
  BY <1>2, <1>3, <1>4 DEF Delivery, DeliveryOK, Bystander, Still, SameMessages, SameInbox, Losing

LEMMA MissingSide ==
  ASSUME NEW e, NEW o, Before(e, o), Bystander(o), Missing(e, o), Len(chan'[e]) \in Nat
  PROVE  Delivery(e, o)
<1> DEFINE r == chan'[e]
           b == inbox[e]
           z == missed[e]
<1>1. Dropped(chan[e], r, 1) /\ 1 \in 1..Len(chan[e]) /\ Len(r) \in Nat /\ b = << >>
  BY DEF Missing
<1>2. DeliveryOK(e, o) /\ Len(chan[e]) \in Nat /\ z \in Nat
  BY DEF Before, Known
<1>3. ChanQ(chan[e], b, partner[e], nsent[o], z) /\ AheadQ(sig[e], chan[e], b, partner[e])
  BY <1>2 DEF DeliveryOK
<1> HIDE DEF r, b, z
<1>4. ChanQ(r, b, partner[e], nsent[o], z + 1) /\ AheadQ(sig[e], r, b, partner[e])
  BY <1>1, <1>2, <1>3, ChanMisses
<1>5. InboxQ(b, partner[e], nsent[o], z + 1)
  BY <1>1, EmptyQueues
<1>6. MissedOK(z + 1, partner[e], nsent[o])
  <2>1. /\ chan[e][1].from = partner[e] /\ chan[e][1].n <= nsent[o][partner[e]]
        /\ chan[e][1].from \in Gens /\ chan[e][1].n \in Nat /\ chan[e][1].n # 0
    BY <1>1, <1>3 DEF ChanQ, Before, Known
  <2>2. nsent[o][partner[e]] \in Nat
    BY <2>1 DEF Before, Known
  <2> QED
    BY <2>1, <2>2 DEF MissedOK
<1>7. r = chan'[e] /\ b = inbox'[e] /\ z + 1 = missed'[e] /\ b = inbox[e]
  BY DEF r, b, z, Missing
<1> QED
  BY <1>2, <1>4, <1>5, <1>6, <1>7
     DEF Delivery, DeliveryOK, Bystander, Still, SameMessages, SameInbox, Missing

LEMMA HearingSide ==
  ASSUME NEW e, NEW o, Before(e, o), Bystander(o), Hearing(e, o)
  PROVE  Delivery(e, o)
<1> DEFINE r == chan'[e]
           d == inbox'[e]
<1>1. PICK m \in Message : /\ Extended(inbox[e], d, m) /\ m.via = "rtc"
                           /\ m.from = chan[e][1].from /\ m.n = chan[e][1].n
  BY DEF Hearing
<1>2. Dropped(chan[e], r, 1) /\ 1 \in 1..Len(chan[e])
  BY DEF Hearing
<1> HIDE DEF r, d
<1>3. DeliveryOK(e, o) /\ Len(chan[e]) \in Nat /\ Len(inbox[e]) \in Nat /\ missed[e] \in Nat
  BY DEF Before, Known
<1>4. m.from = partner[e] /\ m.n = missed[e] + Len(inbox[e]) + 1
      /\ m.n <= nsent[o][partner[e]]
  BY <1>1, <1>2, <1>3 DEF DeliveryOK, ChanQ
<1>5. \A i \in 1..Len(inbox[e]) : inbox[e][i].via = "rtc"
  BY <1>3 DEF DeliveryOK, Hearing
<1>6. \A i \in 1..Len(inbox[e]) : inbox[e][i].n = missed[e] + i
  BY <1>3, <1>5 DEF DeliveryOK, InboxQ
<1>7. \A i \in 1..Len(inbox[e]) : inbox[e][i].n < m.n
  BY <1>3, <1>4, <1>6
<1>8. /\ InboxQ(inbox[e], partner[e], nsent[o], missed[e])
      /\ ChanQ(chan[e], inbox[e], partner[e], nsent[o], missed[e])
      /\ AheadQ(sig[e], chan[e], inbox[e], partner[e])
  BY <1>3 DEF DeliveryOK
<1>9. InboxQ(d, partner[e], nsent[o], missed[e])
  BY <1>1, <1>3, <1>4, <1>7, <1>8, InboxGrows
<1>10. ChanQ(r, d, partner[e], nsent[o], missed[e])
  BY <1>1, <1>2, <1>3, <1>8, ChanMoves
<1>11. AheadQ(sig[e], r, d, partner[e])
  BY <1>1, <1>2, <1>3, <1>8, AheadMoves
<1>12. \A i \in 1..Len(d) : d[i].via = "rtc"
  <2>1. ASSUME NEW i \in 1..Len(d)
        PROVE  (i \in 1..Len(inbox[e]) /\ d[i] = inbox[e][i]) \/ d[i] = m
    BY <1>1, <1>3 DEF Extended
  <2> QED
    BY <1>1, <1>5, <2>1
<1>13. r = chan'[e] /\ d = inbox'[e]
  BY DEF r, d
<1> QED
  BY <1>3, <1>9, <1>10, <1>11, <1>12, <1>13
     DEF Delivery, DeliveryOK, Bystander, Still, SameMessages, SameInbox, Hearing

LEMMA ReceivingSide ==
  ASSUME NEW e, NEW o, Before(e, o), Bystander(o), Receiving(e, o)
  PROVE  Delivery(e, o)
<1> DEFINE r == sig'[e]
           d == inbox'[e]
<1>1. PICK m \in Message : /\ Extended(inbox[e], d, m) /\ m.via = "relay"
                           /\ m.from = sig[e][1].from /\ m.n = sig[e][1].n
  BY DEF Receiving
<1>2. Dropped(sig[e], r, 1) /\ 1 \in 1..Len(sig[e]) /\ sig[e][1].t = "msg"
  BY DEF Receiving
<1> HIDE DEF r, d
<1>3. DeliveryOK(e, o) /\ Len(sig[e]) \in Nat /\ Len(inbox[e]) \in Nat /\ missed[e] \in Nat
  BY DEF Before, Known
<1>4. sig[e][1].from = partner[e]
  BY <1>2 DEF Before, Known, PairOK, AfterAnswer, DataSignals, Receiving
<1>5. m.n <= nsent[o][partner[e]] /\ \A i \in 1..Len(inbox[e]) : inbox[e][i].n < m.n
  BY <1>1, <1>2, <1>3, <1>4 DEF DeliveryOK, RelayQ, AheadQ
<1>6. InboxQ(d, partner[e], nsent[o], missed[e])
  <2>1. InboxQ(inbox[e], partner[e], nsent[o], missed[e])
    BY <1>3 DEF DeliveryOK
  <2> QED
    BY <1>1, <1>3, <1>4, <1>5, <2>1, InboxGrows
<1>7. RelayQ(r, nsent[o], gen[o], phase[o])
  BY <1>2, <1>3, RelayTaken DEF DeliveryOK
<1>8. AheadQ(r, << >>, d, partner[e])
  <2>1. /\ RelayQ(sig[e], nsent[o], gen[o], phase[o])
        /\ AheadQ(sig[e], chan[e], inbox[e], partner[e])
    BY <1>3 DEF DeliveryOK
  <2> QED
    BY <1>1, <1>2, <1>3, <1>4, <2>1, AheadDelivers
<1>9. ChanQ(<< >>, d, partner[e], nsent[o], missed[e])
  BY EmptyQueues
<1>10. r = sig'[e] /\ d = inbox'[e]
  BY DEF r, d
<1>11. MissedOK(missed[e], partner[e], nsent[o])
  BY <1>3 DEF DeliveryOK
<1> QED
  BY <1>6, <1>7, <1>8, <1>9, <1>10, <1>11
     DEF Delivery, Bystander, Still, SameMessages, SameInbox, Receiving

-----------------------------------------------------------------------------
(* The other end: its queues and what its peer was given. *)

LEMMA QuietBystander ==
  ASSUME NEW e, NEW o, Before(e, o), Bystander(o),
         nsent'[e] = nsent[e] \/ Gave(e), chan'[o] = chan[o],
         RelayQ(sig'[o], nsent'[e], gen'[e], phase'[e]),
         AheadQ(sig'[o], chan[o], inbox[o], partner[o])
  PROVE  Delivery(o, e)
<1>1. \A g \in Gens : nsent[e][g] \in Nat /\ nsent'[e][g] \in Nat
                      /\ nsent[e][g] <= nsent'[e][g]
  BY SentGrows
<1>2. DeliveryOK(o, e) /\ Known(o, e)
  BY DEF Before
<1> DEFINE t == nsent'[e]
<1> HIDE DEF t
<1>3. \A g \in Gens : nsent[e][g] \in Nat /\ t[g] \in Nat /\ nsent[e][g] <= t[g]
  BY <1>1 DEF t
<1>4. /\ InboxQ(inbox[o], partner[o], t, missed[o])
      /\ ChanQ(chan[o], inbox[o], partner[o], t, missed[o])
      /\ MissedOK(missed[o], partner[o], t)
  <2>1. /\ \A i \in 1..Len(inbox[o]) : inbox[o][i].from \in Gens /\ inbox[o][i].n \in Nat
        /\ \A i \in 1..Len(chan[o]) : chan[o][i].from \in Gens /\ chan[o][i].n \in Nat
    BY <1>2 DEF Known
  <2>2. /\ InboxQ(inbox[o], partner[o], nsent[e], missed[o])
        /\ ChanQ(chan[o], inbox[o], partner[o], nsent[e], missed[o])
        /\ MissedOK(missed[o], partner[o], nsent[e])
    BY <1>2 DEF DeliveryOK
  <2> QED
    BY <1>3, <2>1, <2>2, MoreIsSent
<1>5. t = nsent'[e]
  BY DEF t
<1> QED
  BY <1>2, <1>4, <1>5 DEF Delivery, DeliveryOK, Bystander, Still, SameMessages, SameInbox

(* Its queue of signals is as it was. *)
LEMMA UntouchedBystander ==
  ASSUME NEW e, NEW o, Before(e, o), Bystander(o),
         nsent'[e] = nsent[e] \/ Gave(e), chan'[o] = chan[o], sig'[o] = sig[o],
         gen'[e] = gen[e],
         Relays(phase[e]) => Relays(phase'[e]) /\ nsent'[e] = nsent[e]
  PROVE  Delivery(o, e)
<1> DEFINE t == nsent'[e]
           u == phase'[e]
<1>1. \A g \in Gens : nsent[e][g] \in Nat /\ t[g] \in Nat /\ nsent[e][g] <= t[g]
  BY SentGrows
<1>2. Relays(phase[e]) => Relays(u) /\ t[gen[e]] = nsent[e][gen[e]]
  OBVIOUS
<1> HIDE DEF t, u
<1>3. DeliveryOK(o, e) /\ Known(o, e)
  BY DEF Before
<1>4. RelayQ(sig[o], t, gen[e], u)
  <2>1. /\ \A i \in 1..Len(sig[o]) : sig[o][i].from \in Gens /\ sig[o][i].n \in Nat
        /\ RelayQ(sig[o], nsent[e], gen[e], phase[e])
    BY <1>3 DEF Known, DeliveryOK
  <2> QED
    BY <1>1, <1>2, <2>1, RelayWhileOthers
<1>5. t = nsent'[e] /\ u = phase'[e]
  BY DEF t, u
<1>6. AheadQ(sig[o], chan[o], inbox[o], partner[o])
  BY <1>3 DEF DeliveryOK
<1> QED
  BY <1>4, <1>5, <1>6, QuietBystander

LEMMA BeginningBystander ==
  ASSUME NEW e, NEW o, Before(e, o), Bystander(o), Begins(e)
  PROVE  Delivery(o, e)
<1> DEFINE h == gen'[e]
           u == phase'[e]
<1>1. /\ h \in Gens /\ \A i \in 1..Len(sig[o]) : sig[o][i].from < h
      /\ chan' = chan /\ sig' = sig /\ nsent' = nsent
  BY NewConnection DEF Before
<1> HIDE DEF h, u
<1>2. DeliveryOK(o, e) /\ Known(o, e)
  BY DEF Before
<1>3. h \in Nat
  BY <1>1, ConnAssumption DEF Gens
<1>4. \A i \in 1..Len(sig[o]) : sig[o][i].from \in Nat /\ sig[o][i].from < h
  BY <1>1, <1>2, ConnAssumption DEF Known, Gens
<1>5. RelayQ(sig[o], nsent[e], gen[e], phase[e]) /\ AheadQ(sig[o], chan[o], inbox[o], partner[o])
  BY <1>2 DEF DeliveryOK
<1>6. RelayQ(sig[o], nsent[e], h, u)
  BY <1>3, <1>4, <1>5, RelayOfEarlier
<1>7. h = gen'[e] /\ u = phase'[e]
  BY DEF h, u
<1> QED
  BY <1>1, <1>5, <1>6, <1>7, QuietBystander

(* It gets a signal that is no message. *)
LEMMA SignalledBystander ==
  ASSUME NEW e, NEW o, Before(e, o), Bystander(o),
         nsent'[e] = nsent[e], chan'[o] = chan[o], gen'[e] = gen[e],
         ~Relays(phase[e]), NEW m, Extended(sig[o], sig'[o], m),
         m.from = gen[e], m.t # "msg"
  PROVE  Delivery(o, e)
<1> DEFINE r == sig'[o]
           u == phase'[e]
<1>1. Extended(sig[o], r, m)
  OBVIOUS
<1> HIDE DEF r, u
<1>2. DeliveryOK(o, e) /\ Len(sig[o]) \in Nat
  BY DEF Before, Known
<1>3. RelayQ(sig[o], nsent[e], gen[e], phase[e]) /\ AheadQ(sig[o], chan[o], inbox[o], partner[o])
  BY <1>2 DEF DeliveryOK
<1>4. RelayQ(r, nsent[e], gen[e], u)
  BY <1>1, <1>2, <1>3, RelayExtended
<1>5. AheadQ(r, chan[o], inbox[o], partner[o])
  BY <1>1, <1>2, <1>3, AheadExtended
<1>6. r = sig'[o] /\ u = phase'[e]
  BY DEF r, u
<1> QED
  BY <1>4, <1>5, <1>6, QuietBystander

LEMMA RelayingBystander ==
  ASSUME NEW e, NEW o, Before(e, o), Bystander(o), Relaying(e, o)
  PROVE  Delivery(o, e)
<1> DEFINE r == sig'[o]
           t == nsent'[e]
<1>1. PICK m \in Signal : /\ Extended(sig[o], r, m)
                          /\ m.from = gen[e] /\ m.t = "msg" /\ m.n = Given(e) + 1
  BY DEF Relaying
<1>2. /\ gen[e] \in Gens /\ t[gen[e]] = Given(e) + 1
      /\ \A g \in Gens : g # gen[e] => t[g] = nsent[e][g]
  BY DEF Relaying, Gave
<1> HIDE DEF r, t
<1>3. DeliveryOK(o, e) /\ Known(o, e) /\ Known(e, o)
  BY DEF Before
<1>4. RelayQ(sig[o], nsent[e], gen[e], phase[e]) /\ AheadQ(sig[o], chan[o], inbox[o], partner[o])
  BY <1>3 DEF DeliveryOK
<1>5. Relays(phase[e]) /\ Given(e) = nsent[e][gen[e]] /\ nsent[e][gen[e]] \in Nat
  BY <1>2, <1>3 DEF Relaying, Relays, Given, Known
<1>6. /\ Len(sig[o]) \in Nat
      /\ \A i \in 1..Len(sig[o]) : sig[o][i].from \in Gens /\ sig[o][i].n \in Nat
  BY <1>3 DEF Known
<1>7. RelayQ(r, t, gen[e], phase[e])
  BY <1>1, <1>2, <1>4, <1>5, <1>6, RelayGrows
<1>8. AheadQ(r, chan[o], inbox[o], partner[o])
  <2>1. ASSUME partner[o] = gen[e]
        PROVE  /\ \A j \in 1..Len(inbox[o]) : inbox[o][j].n < m.n
               /\ \A j \in 1..Len(chan[o]) : chan[o][j].n < m.n
    <3>1. \A j \in 1..Len(inbox[o]) : inbox[o][j].n \in Nat /\ inbox[o][j].n <= nsent[e][gen[e]]
      BY <1>3, <2>1 DEF DeliveryOK, InboxQ, Known
    <3>2. \A j \in 1..Len(chan[o]) : chan[o][j].n \in Nat /\ chan[o][j].n <= nsent[e][gen[e]]
      BY <1>3, <2>1 DEF DeliveryOK, ChanQ, Known
    <3> QED
      BY <1>1, <1>5, <3>1, <3>2
  <2> QED
    BY <1>1, <1>4, <1>6, <2>1, AheadExtended
<1>9. r = sig'[o] /\ t = nsent'[e]
  BY DEF r, t
<1> QED
  BY <1>7, <1>8, <1>9, QuietBystander DEF Relaying, Still

(* It gets a message over the data channel. *)
LEMMA SpokenToBystander ==
  ASSUME NEW e, NEW o, Before(e, o), Bystander(o), Speaking(e, o)
  PROVE  Delivery(o, e)
<1>1. CASE ~Linked
  BY <1>1, UntouchedBystander DEF Speaking, Still, Relays
<1>2. CASE Linked
  <2> DEFINE r == chan'[o]
             t == nsent'[e]
  <2>1. PICK m \in Message : /\ Extended(chan[o], r, m)
                             /\ m.from = gen[e] /\ m.n = Given(e) + 1
    BY <1>2 DEF Speaking
  <2>3. \A g \in Gens : nsent[e][g] \in Nat /\ t[g] \in Nat /\ nsent[e][g] <= t[g]
    BY SentGrows DEF Speaking
  <2> HIDE DEF r, t
  <2>4. DeliveryOK(o, e) /\ Known(o, e) /\ Known(e, o)
    BY DEF Before
  <2>5. gen[e] \in Gens /\ t[gen[e]] = Given(e) + 1
    <3>1. t = nsent'[e]
      BY DEF t
    <3> QED
      BY <3>1 DEF Speaking, Gave
  <2>6. rtc[o].remote = gen[e] /\ rtc[o].remote # None
    BY <1>2, LinkedEnds DEF Before
  <2>7. partner[o] = gen[e]
    BY <2>6 DEF Before, BackendOK
  <2>8. (missed[o] + Len(inbox[o])) + Len(chan[o]) = Given(e)
    BY <1>2, <2>4 DEF DeliveryOK, Given
  <2>9. /\ Len(inbox[o]) \in Nat /\ Len(chan[o]) \in Nat /\ missed[o] \in Nat
        /\ \A i \in 1..Len(inbox[o]) : inbox[o][i].from \in Gens /\ inbox[o][i].n \in Nat
        /\ \A i \in 1..Len(chan[o]) : chan[o][i].from \in Gens /\ chan[o][i].n \in Nat
    BY <2>4 DEF Known
  <2>10. /\ InboxQ(inbox[o], partner[o], t, missed[o])
         /\ ChanQ(chan[o], inbox[o], partner[o], t, missed[o])
         /\ MissedOK(missed[o], partner[o], t)
    <3>1. /\ InboxQ(inbox[o], partner[o], nsent[e], missed[o])
          /\ ChanQ(chan[o], inbox[o], partner[o], nsent[e], missed[o])
          /\ MissedOK(missed[o], partner[o], nsent[e])
      BY <2>4 DEF DeliveryOK
    <3> QED
      BY <2>3, <2>9, <3>1, MoreIsSent
  <2>11. ChanQ(r, inbox[o], partner[o], t, missed[o])
    <3>1. m.n <= t[partner[o]] /\ m.n = missed[o] + Len(inbox[o]) + Len(chan[o]) + 1
      <4>1. m.n = Given(e) + 1 /\ t[partner[o]] = Given(e) + 1 /\ Given(e) \in Nat
        BY <2>1, <2>3, <2>5, <2>7 DEF Given
      <4> DEFINE w == missed[o]
                 x == Len(inbox[o])
                 y == Len(chan[o])
                 n == Given(e)
      <4>2. w \in Nat /\ x \in Nat /\ y \in Nat /\ n \in Nat /\ (w + x) + y = n
        BY <2>8, <2>9, <4>1
      <4>3. m.n = n + 1 /\ t[partner[o]] = n + 1
        BY <4>1
      <4> HIDE DEF w, x, y, n
      <4>4. m.n <= t[partner[o]] /\ m.n = w + x + y + 1
        BY ONLY <4>2, <4>3
      <4> QED
        BY <4>4 DEF w, x, y
    <3> QED
      BY <2>1, <2>7, <2>9, <2>10, <3>1, ChanGrows
  <2>12. RelayQ(sig[o], t, gen[e], phase[e])
    <3>1. ~Relays(phase[e])
      BY DEF Speaking, Relays
    <3>2. /\ \A i \in 1..Len(sig[o]) : sig[o][i].from \in Gens /\ sig[o][i].n \in Nat
          /\ RelayQ(sig[o], nsent[e], gen[e], phase[e])
      BY <2>4 DEF Known, DeliveryOK
    <3> QED
      BY <2>3, <3>1, <3>2, RelayWhileOthers
  <2>13. AheadQ(sig[o], r, inbox[o], partner[o])
    <3>1. \A i \in 1..Len(sig[o]) : sig[o][i].t = "msg" => sig[o][i].from # partner[o]
      BY <2>4, <2>7 DEF DeliveryOK, RelayQ, Relays, Speaking
    <3> QED
      BY <3>1, AheadSpeaks
  <2>14. r = chan'[o] /\ t = nsent'[e]
    BY DEF r, t
  <2>15. inbox'[o] = inbox[o] /\ missed'[o] = missed[o] /\ partner'[o] = partner[o] /\ phase'[o] = phase[o]
         /\ sig' = sig /\ gen'[e] = gen[e] /\ phase'[e] = phase[e]
    BY DEF Speaking, Bystander, Still, SameMessages, SameInbox
  <2> QED
    BY <2>4, <2>10, <2>11, <2>12, <2>13, <2>14, <2>15 DEF Delivery, DeliveryOK
<1> QED
  BY <1>1, <1>2

LEMMA Bystanders ==
  ASSUME NEW e, NEW o, Before(e, o), Step(e, o)
  PROVE  Delivery(o, e)
<1>1. Bystander(o)
  BY DEF Step
<1>2. CASE Begins(e)
  BY <1>1, <1>2, BeginningBystander
<1>3. CASE Shakes(e, o)
  <2>1. nsent'[e] = nsent[e] /\ chan'[o] = chan[o] /\ gen'[e] = gen[e] /\ ~Relays(phase[e])
    BY <1>3 DEF Shakes, SameMessages, SameInbox, Relays
  <2>2. CASE sig'[o] = sig[o]
    BY <1>1, <2>1, <2>2, UntouchedBystander
  <2>3. ASSUME NEW m \in Signal, Extended(sig[o], sig'[o], m),
               m.from = gen[e], m.t \in {"req", "res"}
        PROVE  Delivery(o, e)
    BY <1>1, <2>1, <2>3, SignalledBystander
  <2> QED
    BY <1>3, <2>2, <2>3 DEF Shakes
<1>4. CASE Leaves(e, o)
  <2>1. CASE nsent'[e] = nsent[e]
    BY <1>1, <1>4, <2>1, UntouchedBystander DEF Leaves, Still, Relays
  <2>2. CASE Gave(e) /\ phase[e] \in {"handshake", "webrtc"}
    BY <1>1, <1>4, <2>2, UntouchedBystander DEF Leaves, Still, Relays
  <2> QED
    BY <1>4, <2>1, <2>2 DEF Leaves
<1>5. CASE Takes(e, o) \/ Heeding(e, o)
  BY <1>1, <1>5, UntouchedBystander DEF Takes, Heeding, Still, SameMessages, SameInbox
<1>6. CASE Describing(e, o)
  <2>1. PICK m \in Signal : /\ Extended(sig[o], sig'[o], m)
                            /\ m.from = gen[e] /\ m.t \in {"offer", "answer"}
    BY <1>6 DEF Describing
  <2>2. m.t # "msg"
    BY <2>1
  <2> QED
    BY <1>1, <1>6, <2>1, <2>2, SignalledBystander DEF Describing, Still, SameMessages, SameInbox, Relays
<1>7. CASE Opening(e, o) \/ Losing(e, o) \/ Missing(e, o) \/ Hearing(e, o)
  BY <1>1, <1>7, UntouchedBystander DEF Opening, Losing, Missing, Hearing, Still, SameMessages, SameInbox
<1>8. CASE Breaking(e, o)
  <2>1. CASE nsent'[e] = nsent[e]
    BY <1>1, <1>8, <2>1, UntouchedBystander DEF Breaking, Still
  <2>2. CASE Gave(e) /\ phase[e] = "webrtc"
    BY <1>1, <1>8, <2>2, UntouchedBystander DEF Breaking, Still, Relays
  <2> QED
    BY <1>8, <2>1, <2>2 DEF Breaking
<1>9. CASE Speaking(e, o)
  BY <1>1, <1>9, SpokenToBystander
<1>10. CASE Relaying(e, o)
  BY <1>1, <1>10, RelayingBystander
<1>11. CASE Receiving(e, o)
  BY <1>1, <1>11, UntouchedBystander DEF Receiving, Still, Relays
<1> QED
  BY <1>2, <1>3, <1>4, <1>5, <1>6, <1>7, <1>8, <1>9, <1>10, <1>11 DEF Step

LEMMA Actors ==
  ASSUME NEW e, NEW o, Before(e, o), Step(e, o), Len(chan'[e]) \in Nat
  PROVE  Delivery(e, o)
<1>1. Bystander(o)
  BY DEF Step
<1>2. CASE Begins(e)
  BY <1>1, <1>2, BeginningSide
<1>3. CASE Shakes(e, o)
  BY <1>1, <1>3, ShakingSide
<1>4. CASE Leaves(e, o)
  BY <1>1, <1>4, LeavingSide
<1>5. CASE Losing(e, o)
  BY <1>1, <1>5, LosingSide
<1>6. CASE Hearing(e, o)
  BY <1>1, <1>6, HearingSide
<1>7. CASE Receiving(e, o)
  BY <1>1, <1>7, ReceivingSide
<1>m. CASE Missing(e, o)
  BY <1>1, <1>m, MissingSide
<1>8. ASSUME phase'[e] = phase[e], Still(e), SameInbox(e), chan'[e] = chan[e],
             sig'[e] = sig[e]
      PROVE  Delivery(e, o)
  <2>1. Dropped(sig[e], sig'[e], 0)
    BY <1>8 DEF Before, Known, Dropped
  <2> QED
    BY <1>1, <1>8, <2>1, SameSide
<1>9. CASE Takes(e, o) \/ Heeding(e, o)
  BY <1>1, <1>9, SameSide DEF Takes, Heeding, SameMessages, SameInbox
<1>10. CASE Describing(e, o) \/ Opening(e, o) \/ Breaking(e, o)
            \/ Speaking(e, o) \/ Relaying(e, o)
  BY <1>8, <1>10 DEF Describing, Opening, Breaking, Speaking, Relaying, SameMessages, SameInbox
<1> QED
  BY <1>2, <1>3, <1>4, <1>5, <1>m, <1>6, <1>7, <1>9, <1>10 DEF Step

-----------------------------------------------------------------------------
(* Where a link is up, the messages on their way and delivered are all the *)
(* peer's connection was given.  A link comes up between ends that were    *)
(* given nothing yet.                                                      *)

LEMMA LinkComesUp ==
  ASSUME NEW e, NEW o, Before(e, o), Bystander(o), Heeding(e, o), Linked'
  PROVE  /\ (missed'[e] + Len(inbox'[e])) + Len(chan'[e]) = nsent'[o][gen'[o]]
         /\ (missed'[o] + Len(inbox'[o])) + Len(chan'[o]) = nsent'[e][gen'[e]]
<1>1. /\ rtc'[e].remote = gen[o] /\ gen[o] # None /\ rtc[o].state = "up"
      /\ rtc[o].remote = gen[e] /\ gen[e] # None
  BY DEF Linked, Before, Bystander, Still, SameLink, Heeding
<1>2. sig[e][1].from = partner[e] /\ partner[e] # None
  BY DEF Before, PairOK, AfterAnswer, Heeding, Known, Past
<1>3. partner[e] = gen[o] /\ partner[o] = gen[e]
  BY <1>1, <1>2 DEF Before, BackendOK, Heeding
<1>4. ~rtc[e].opened /\ rtc[e].state = "up"
  BY DEF Before, BackendOK, Heeding
<1>5. ~rtc[o].opened
  BY <1>1 DEF Before, BackendOK, Heeding
<1>6. Given(e) = 0 /\ Given(o) = 0
  BY <1>1, <1>4, <1>5 DEF Before, GivenOK
<1>7. Len(inbox[e]) = 0 /\ Len(chan[e]) = 0 /\ missed[e] = 0
  <2>1. DeliveryOK(e, o) /\ Known(e, o) /\ nsent[o][partner[e]] = 0
    BY <1>3, <1>6 DEF Before, Given
  <2>2. \A i \in 1..Len(inbox[e]) : FALSE
    BY <2>1 DEF DeliveryOK, InboxQ, Known
  <2>3. \A i \in 1..Len(chan[e]) : FALSE
    <3>1. \A i \in 1..Len(chan[e]) : chan[e][i].n <= nsent[o][partner[e]]
      BY <2>1 DEF DeliveryOK, ChanQ
    <3>2. \A i \in 1..Len(chan[e]) : chan[e][i].n \in Nat /\ chan[e][i].n # 0
      BY <2>1 DEF Known
    <3> QED
      BY <2>1, <3>1, <3>2
  <2>4. Len(inbox[e]) \in Nat /\ Len(chan[e]) \in Nat
    BY <2>1 DEF Known
  <2>5. missed[e] = 0
    BY <2>1 DEF DeliveryOK, MissedOK
  <2> QED
    BY <2>2, <2>3, <2>4, <2>5
<1>8. Len(inbox[o]) = 0 /\ Len(chan[o]) = 0 /\ missed[o] = 0
  <2>1. DeliveryOK(o, e) /\ Known(o, e) /\ nsent[e][partner[o]] = 0
    BY <1>3, <1>6 DEF Before, Given
  <2>2. \A i \in 1..Len(inbox[o]) : FALSE
    BY <2>1 DEF DeliveryOK, InboxQ, Known
  <2>3. \A i \in 1..Len(chan[o]) : FALSE
    <3>1. \A i \in 1..Len(chan[o]) : chan[o][i].n <= nsent[e][partner[o]]
      BY <2>1 DEF DeliveryOK, ChanQ
    <3>2. \A i \in 1..Len(chan[o]) : chan[o][i].n \in Nat /\ chan[o][i].n # 0
      BY <2>1 DEF Known
    <3> QED
      BY <2>1, <3>1, <3>2
  <2>4. Len(inbox[o]) \in Nat /\ Len(chan[o]) \in Nat
    BY <2>1 DEF Known
  <2>5. missed[o] = 0
    BY <2>1 DEF DeliveryOK, MissedOK
  <2> QED
    BY <2>2, <2>3, <2>4, <2>5
<1> QED
  BY <1>6, <1>7, <1>8 DEF Heeding, Bystander, Still, SameMessages, SameInbox, Given

(* One more here and one less there, or one more on both sides. *)
LEMMA Sums ==
  ASSUME NEW w \in Nat, NEW x \in Nat, NEW y \in Nat
  PROVE  /\ (w + (x + 1)) + (y - 1) = (w + x) + y
         /\ ((w + 1) + x) + (y - 1) = (w + x) + y
         /\ (w + x) + (y + 1) = ((w + x) + y) + 1
OBVIOUS

LEMMA LinkStays ==
  ASSUME NEW e, NEW o, Before(e, o), Step(e, o), Linked', ~Heeding(e, o)
  PROVE  Linked
<1>1. Bystander(o)
  BY DEF Step
<1>2. /\ rtc'[e].state = "up" /\ rtc'[e].remote # None /\ rtc'[e].remote = gen[o]
      /\ rtc[o].state = "up" /\ rtc[o].remote # None /\ rtc[o].remote = gen'[e]
  BY <1>1 DEF Linked, Before, Bystander, Still, SameLink
<1>3. ~Begins(e)
  <2> SUFFICES ASSUME Begins(e) PROVE FALSE
    OBVIOUS
  <2>1. phase[e] = "none" /\ rtc' = rtc
    BY NewConnection DEF Before
  <2> QED
    BY <1>2, <2>1 DEF Before, Known
<1>4. ~Shakes(e, o) /\ ~Leaves(e, o) /\ ~Breaking(e, o) /\ ~Receiving(e, o)
  BY <1>2 DEF Shakes, Leaves, NoLink, Breaking, Receiving
<1>5. CASE Opening(e, o)
  BY <1>5 DEF Opening
<1>6. CASE ~Opening(e, o)
  <2>1. SameLink(e) /\ Still(e)
    BY <1>3, <1>4, <1>6 DEF Step, Takes, Describing, Losing, Missing, Hearing,
         Speaking, Relaying
  <2> QED
    BY <1>2, <2>1, LinkedEnds DEF SameLink, Still, Before
<1> QED
  BY <1>5, <1>6

LEMMA LinkCounts ==
  ASSUME NEW e, NEW o, Before(e, o), Step(e, o), Linked'
  PROVE  /\ (missed'[e] + Len(inbox'[e])) + Len(chan'[e]) = nsent'[o][gen'[o]]
         /\ (missed'[o] + Len(inbox'[o])) + Len(chan'[o]) = nsent'[e][gen'[e]]
<1>1. Bystander(o)
  BY DEF Step
<1>2. CASE Heeding(e, o)
  BY <1>1, <1>2, LinkComesUp
<1>3. CASE ~Heeding(e, o)
  <2>1. Linked
    BY <1>3, LinkStays
  <2>2. /\ rtc'[e].state = "up" /\ rtc'[e].remote # None
        /\ rtc[e].state = "up"
    BY <2>1, LinkedEnds DEF Before, Linked
  <2>3. /\ (missed[e] + Len(inbox[e])) + Len(chan[e]) = Given(o)
        /\ (missed[o] + Len(inbox[o])) + Len(chan[o]) = Given(e)
    BY <2>1 DEF Before, DeliveryOK, Given
  <2>4. phase[e] = "webrtc"
    BY <2>2 DEF Before, Known
  <2>5. CASE Takes(e, o) \/ Describing(e, o) \/ Opening(e, o)
    BY <1>1, <2>3, <2>5 DEF Takes, Describing, Opening, Bystander, Still, SameMessages, SameInbox, Given
  <2>6. CASE Hearing(e, o) \/ Missing(e, o)
    <3>1. /\ Len(chan'[e]) = Len(chan[e]) - 1
          /\ \/ Len(inbox'[e]) = Len(inbox[e]) + 1 /\ missed'[e] = missed[e]
             \/ Len(inbox'[e]) = Len(inbox[e]) /\ missed'[e] = missed[e] + 1
      BY <2>6 DEF Hearing, Missing, Extended, Dropped
    <3>2. Len(inbox[e]) \in Nat /\ Len(chan[e]) \in Nat /\ missed[e] \in Nat
      BY DEF Before, Known
    <3>3. (missed'[e] + Len(inbox'[e])) + Len(chan'[e]) = Given(o)
      <4>1. /\ (missed[e] + (Len(inbox[e]) + 1)) + (Len(chan[e]) - 1)
                 = (missed[e] + Len(inbox[e])) + Len(chan[e])
            /\ ((missed[e] + 1) + Len(inbox[e])) + (Len(chan[e]) - 1)
                 = (missed[e] + Len(inbox[e])) + Len(chan[e])
        BY ONLY <3>2, Sums
      <4> QED
        BY ONLY <2>3, <3>1, <4>1, Zenon
    <3> QED
      BY <1>1, <2>3, <2>6, <3>3 DEF Hearing, Missing, Bystander, Still, SameMessages, SameInbox, Given
  <2>7. CASE Speaking(e, o)
    <3>1. Len(chan'[o]) = Len(chan[o]) + 1 /\ nsent'[e][gen[e]] = Given(e) + 1
      BY <2>1, <2>7 DEF Speaking, Extended, Gave
    <3>2. Len(inbox[o]) \in Nat /\ Len(chan[o]) \in Nat /\ missed[o] \in Nat
      BY DEF Before, Known
    <3>3. (missed[o] + Len(inbox[o])) + Len(chan'[o]) = nsent'[e][gen[e]]
      <4>1. (missed[o] + Len(inbox[o])) + (Len(chan[o]) + 1)
              = ((missed[o] + Len(inbox[o])) + Len(chan[o])) + 1
        BY ONLY <3>2, Sums
      <4> QED
        BY ONLY <2>3, <3>1, <4>1, Zenon
    <3> QED
      BY <1>1, <2>3, <2>7, <3>3 DEF Speaking, Bystander, Still, SameMessages, SameInbox, Given
  <2>8. ~Begins(e)
    <3>1. Begins(e) => phase[e] = "none"
      BY NewConnection DEF Before
    <3> QED
      BY <2>4, <3>1
  <2>9. ~Shakes(e, o) /\ ~Leaves(e, o) /\ ~Breaking(e, o) /\ ~Receiving(e, o)
        /\ ~Losing(e, o) /\ ~Relaying(e, o)
    BY <2>1, <2>2, <2>4 DEF Shakes, Leaves, NoLink, Breaking, Receiving, Losing, Relaying
  <2> QED
    BY <1>3, <2>5, <2>6, <2>7, <2>8, <2>9 DEF Step
<1> QED
  BY <1>2, <1>3

LEMMA DeliveryStep ==
  ASSUME ConnInv, PairInv, BackendInv, DeliveryInv, ConnInv',
         NEW e \in Ends, Step(e, Other(e))
  PROVE  DeliveryInv'
<1> DEFINE o == Other(e)
<1>1. o \in Ends /\ o # e /\ Other(o) = e /\ Other(e) = o
  BY OtherEnd
<1>2. Step(e, o)
  OBVIOUS
<1> HIDE DEF o
<1>3. Known(e, o) /\ Known(o, e)
  BY <1>1, KnownHolds
<1>4. Before(e, o)
  BY <1>1, <1>3, TypesHold DEF Before, ConnInv, PairInv, BackendInv, DeliveryInv
<1>5. Len(chan'[e]) \in Nat
  BY DEF ConnInv, TypeOK
<1>6. Delivery(e, o) /\ Delivery(o, e)
  BY <1>2, <1>4, <1>5, Actors, Bystanders
<1>7. DeliveryOK(e, o)' /\ DeliveryOK(o, e)'
  BY <1>2, <1>4, <1>6, LinkCounts, DeliveryPrimed
<1>8. \A x \in Ends : DeliveryOK(x, Other(x))'
  BY <1>1, <1>7, Pair
<1> QED
  BY <1>8 DEF DeliveryInv

-----------------------------------------------------------------------------
(* The switch.  Once an end got a relayed message, its partner relays or   *)
(* is over, nothing but relayed messages of it are on their way, and, if   *)
(* no signal is lost, the next of them is the next message.                *)

Relayed(e) == inbox[e] # << >> /\ inbox[e][Len(inbox[e])].via = "relay"
Latest(e) == inbox[e][Len(inbox[e])].n

SwitchOK(e, o) ==
  Relayed(e) =>
    /\ partner[e] = gen[o] => Relays(phase[o])
    /\ \A i \in 1..Len(sig[e]) : sig[e][i].from = partner[e] => sig[e][i].t = "msg"
    /\ lost = 0 /\ phase[e] = "fallback" =>
         IF 1 \in 1..Len(sig[e]) /\ sig[e][1].from = partner[e]
           THEN sig[e][1].n = Latest(e) + 1
           ELSE partner[e] = gen[o] => Latest(e) = Given(o)

(* No message of the data channel after a relayed one, and no gap between  *)
(* relayed ones unless a signal was lost.                                  *)
Joined(b, x) ==
  \A i, j \in 1..Len(b) : j = i + 1 =>
    /\ b[j].via = "rtc" => b[i].via = "rtc"
    /\ x = 0 /\ b[j].via = "relay" /\ b[i].via = "relay" => b[j].n = b[i].n + 1

SwitchInv == \A e \in Ends : SwitchOK(e, Other(e)) /\ Joined(inbox[e], lost)

LEMMA RelayedNotByRtc ==
  ASSUME NEW e, NEW o, Before(e, o), phase[e] \in {"new", "handshake", "webrtc"}
  PROVE  ~Relayed(e)
<1> SUFFICES ASSUME Relayed(e) PROVE FALSE
  OBVIOUS
<1>1. DeliveryOK(e, o)
  BY DEF Before
<1>2. phase[e] = "webrtc"
  BY <1>1 DEF DeliveryOK, Relayed
<1>3. inbox[e] \in Seq(Message) /\ inbox[e] # << >>
  BY DEF Before, TypeOK, Relayed
<1>4. Len(inbox[e]) \in 1..Len(inbox[e])
  BY <1>3
<1>5. inbox[e][Len(inbox[e])].via = "rtc"
  BY <1>1, <1>2, <1>4 DEF DeliveryOK
<1> QED
  BY <1>5 DEF Relayed

(* The first signal on its way to an end that has met its partner. *)
LEMMA FirstIsEarliest ==
  ASSUME NEW e, NEW o, Before(e, o), partner[e] # None, 1 \in 1..Len(sig[e])
  PROVE  /\ sig[e][1].from # partner[e] => partner[e] # gen[o]
         /\ \A i \in 1..Len(sig[e]) : sig[e][i].from = partner[e] => sig[e][1].from = partner[e]
<1>1. /\ \A i \in 1..Len(sig[e]) : /\ sig[e][i].from \in Gens /\ sig[e][i].from <= gen[o]
                                   /\ sig[e][i].from >= partner[e]
      /\ gen[o] \in Nat /\ partner[e] \in Nat
  BY DEF Before, Known, PairOK, AfterAnswer
<1>2. \A i \in 1..Len(sig[e]) : sig[e][i].from \in Nat
  BY <1>1, ConnAssumption DEF Gens
<1>3. \A i \in 1..Len(sig[e]) : sig[e][1].from <= sig[e][i].from
  <2>1. \A i \in 1..Len(sig[e]) : i = 1 \/ 1 < i
    BY DEF Before, Known
  <2> QED
    BY <1>2, <2>1 DEF Before, HandshakeInv, InOrder
<1> QED
  BY <1>1, <1>2, <1>3

-----------------------------------------------------------------------------
(* The end that takes the step. *)

LEMMA SwitchKept ==
  ASSUME NEW e, NEW o, Before(e, o), SwitchOK(e, o), Bystander(o), lost' = 0 => lost = 0,
         Still(e), inbox'[e] = inbox[e], sig'[e] = sig[e],
         phase'[e] = "fallback" => phase[e] = "fallback"
  PROVE  SwitchOK(e, o)'
BY DEF SwitchOK, Relayed, Latest, Given, Bystander, Still, SameMessages, SameInbox, Relays

LEMMA SwitchWhileTaking ==
  ASSUME NEW e, NEW o, Before(e, o), SwitchOK(e, o), Bystander(o), lost' = 0 => lost = 0,
         Still(e), inbox'[e] = inbox[e], NEW d \in {0, 1}, Dropped(sig[e], sig'[e], d),
         lost' = 0 /\ phase'[e] = "fallback" =>
           \/ ~Relayed(e)
           \/ phase[e] = "fallback" /\ (d = 1 => sig[e][1].t # "msg")
  PROVE  SwitchOK(e, o)'
<1> SUFFICES ASSUME Relayed(e) PROVE SwitchOK(e, o)'
  BY DEF SwitchOK, Relayed
<1> DEFINE r == sig'[e]
<1>1. Dropped(sig[e], r, d)
  OBVIOUS
<1> HIDE DEF r
<1>2. ASSUME NEW i \in 1..Len(r)
      PROVE  i + d \in 1..Len(sig[e]) /\ r[i] = sig[e][i + d]
  BY <1>1 DEF Dropped
<1>3. \A i \in 1..Len(r) : r[i].from = partner[e] => r[i].t = "msg"
  BY <1>2 DEF SwitchOK
<1>4. ASSUME lost' = 0, phase'[e] = "fallback"
      PROVE  IF 1 \in 1..Len(r) /\ r[1].from = partner[e]
               THEN r[1].n = Latest(e) + 1
               ELSE partner[e] = gen[o] => Latest(e) = Given(o)
  <2>1. /\ lost = 0 /\ phase[e] = "fallback"
        /\ d = 1 => sig[e][1].t # "msg"
    BY <1>4
  <2>2. IF 1 \in 1..Len(sig[e]) /\ sig[e][1].from = partner[e]
          THEN sig[e][1].n = Latest(e) + 1
          ELSE partner[e] = gen[o] => Latest(e) = Given(o)
    BY <2>1 DEF SwitchOK
  <2>3. CASE d = 0
    <3>1. Len(r) = Len(sig[e]) /\ (1 \in 1..Len(r) => r[1] = sig[e][1])
      BY <1>1, <2>3 DEF Dropped, Before, Known
    <3> QED
      BY <2>2, <3>1
  <2>4. CASE d = 1
    <3>1. Len(sig[e]) \in Nat /\ Len(r) = Len(sig[e]) - 1 /\ partner[e] # None
      BY <1>1, <2>1, <2>4 DEF Dropped, Before, Known, Past
    <3>2. CASE 1 \in 1..Len(sig[e])
      <4>1. sig[e][1].from # partner[e]
        BY <2>1, <2>4, <3>2 DEF SwitchOK
      <4>2. ~(1 \in 1..Len(r) /\ r[1].from = partner[e])
        BY <1>2, <3>1, <3>2, <4>1, FirstIsEarliest
      <4> QED
        BY <2>2, <4>1, <4>2
    <3>3. CASE 1 \notin 1..Len(sig[e])
      <4>1. 1 \notin 1..Len(r)
        BY <3>1, <3>3
      <4> QED
        BY <2>2, <3>3, <4>1
    <3> QED
      BY <3>2, <3>3
  <2> QED
    BY <2>3, <2>4
<1>5. r = sig'[e]
  BY DEF r
<1> QED
  BY <1>3, <1>4, <1>5
     DEF SwitchOK, Relayed, Latest, Given, Bystander, Still, SameMessages, SameInbox, Relays

LEMMA SwitchByReceiving ==
  ASSUME NEW e, NEW o, Before(e, o), SwitchOK(e, o), Bystander(o), Receiving(e, o)
  PROVE  SwitchOK(e, o)'
<1> DEFINE r == sig'[e]
           b == inbox'[e]
<1>1. PICK m \in Message : /\ Extended(inbox[e], b, m) /\ m.via = "relay"
                           /\ m.from = sig[e][1].from /\ m.n = sig[e][1].n
  BY DEF Receiving
<1>2. Dropped(sig[e], r, 1) /\ 1 \in 1..Len(sig[e]) /\ sig[e][1].t = "msg"
  BY DEF Receiving
<1> HIDE DEF r, b
<1>3. Len(sig[e]) \in Nat /\ Len(inbox[e]) \in Nat /\ partner[e] # None
  BY DEF Before, Known, Receiving
<1>4. sig[e][1].from = partner[e]
  BY <1>2, <1>3 DEF Before, PairOK, AfterAnswer, DataSignals
<1>5. RelayQ(sig[e], nsent[o], gen[o], phase[o])
  BY DEF Before, DeliveryOK
<1>6. b[Len(b)] = m
  BY <1>1, <1>3 DEF Extended
<1>7. partner[e] = gen[o] => Relays(phase[o])
  BY <1>2, <1>4, <1>5 DEF RelayQ
<1>8. ASSUME NEW i \in 1..Len(r)
      PROVE  i + 1 \in 1..Len(sig[e]) /\ r[i] = sig[e][i + 1] /\ 1 < i + 1
  BY <1>2 DEF Dropped
<1>12. \A j \in 1..Len(sig[e]) : 1 < j /\ sig[e][j].from = partner[e] =>
         sig[e][j].t = "msg" /\ (j = 1 + 1 => sig[e][j].n = sig[e][1].n + 1)
  BY <1>2, <1>4, <1>5 DEF RelayQ
<1>13. sig[e][1].from = gen[o] /\ 1 = Len(sig[e]) => sig[e][1].n = Given(o)
  BY <1>2, <1>5 DEF RelayQ, Given
<1>9. \A i \in 1..Len(r) : r[i].from = partner[e] => r[i].t = "msg"
  <2> SUFFICES ASSUME NEW i \in 1..Len(r), r[i].from = partner[e]
               PROVE  r[i].t = "msg"
    OBVIOUS
  <2>1. i + 1 \in 1..Len(sig[e]) /\ r[i] = sig[e][i + 1] /\ 1 < i + 1
    BY <1>8
  <2> QED
    BY <1>12, <2>1
<1>10. IF 1 \in 1..Len(r) /\ r[1].from = partner[e]
         THEN r[1].n = m.n + 1
         ELSE partner[e] = gen[o] => m.n = Given(o)
  <2>1. CASE 1 \in 1..Len(r) /\ r[1].from = partner[e]
    <3>1. 2 \in 1..Len(sig[e]) /\ r[1] = sig[e][2]
      BY <1>8, <2>1
    <3> QED
      <4>1. sig[e][2].n = sig[e][1].n + 1
        <5>1. 1 < 2 /\ 2 = 1 + 1
          OBVIOUS
        <5> QED
          BY <1>12, <2>1, <3>1, <5>1
      <4> QED
        BY <1>1, <2>1, <3>1, <4>1
  <2>2. CASE 1 \in 1..Len(r) /\ r[1].from # partner[e]
    <3>1. 2 \in 1..Len(sig[e]) /\ r[1] = sig[e][2]
      BY <1>8, <2>2
    <3>2. /\ sig[e][2].from \in Nat /\ sig[e][2].from <= gen[o] /\ gen[o] \in Nat
          /\ sig[e][2].from >= partner[e] /\ partner[e] \in Nat
      BY <1>3, <3>1, ConnAssumption DEF Before, Known, PairOK, AfterAnswer, Gens
    <3> QED
      BY <2>2, <3>1, <3>2
  <2>3. CASE 1 \notin 1..Len(r)
    <3>1. 1 = Len(sig[e])
      <4>1. Len(r) = Len(sig[e]) - 1
        BY <1>2 DEF Dropped
      <4> DEFINE l == Len(sig[e])
      <4>2. l \in Nat /\ 1 \in 1..l /\ 1 \notin 1..(l - 1)
        BY <1>2, <1>3, <2>3, <4>1
      <4> HIDE DEF l
      <4>3. 1 = l
        BY ONLY <4>2
      <4> QED
        BY <4>3 DEF l
    <3> QED
      BY <1>1, <1>4, <1>13, <2>3, <3>1
  <2> QED
    BY <2>1, <2>2, <2>3
<1>11. r = sig'[e] /\ b = inbox'[e]
  BY DEF r, b
<1> QED
  BY <1>6, <1>7, <1>9, <1>10, <1>11
     DEF SwitchOK, Relayed, Latest, Given, Bystander, Still, SameMessages, SameInbox, Relays, Receiving

LEMMA SwitchOfActor ==
  ASSUME NEW e, NEW o, Before(e, o), SwitchOK(e, o), Step(e, o)
  PROVE  SwitchOK(e, o)'
<1>1. Bystander(o) /\ (lost' = 0 => lost = 0)
  BY DEF Step
<1>2. ASSUME inbox'[e] = inbox[e], ~Relayed(e)
      PROVE  SwitchOK(e, o)'
  BY <1>2 DEF SwitchOK, Relayed
<1>3. CASE Begins(e)
  <2>1. inbox'[e] = << >>
    BY <1>3, NewConnection DEF Before
  <2> QED
    BY <2>1 DEF SwitchOK, Relayed
<1>4. CASE Shakes(e, o)
  BY <1>2, <1>4, RelayedNotByRtc DEF Shakes, SameMessages, SameInbox
<1>5. CASE Leaves(e, o)
  <2>1. PICK d \in {0, 1} : Dropped(sig[e], sig'[e], d)
    BY <1>5 DEF Leaves
  <2>2. phase'[e] = "fallback" => ~Relayed(e)
    BY <1>5, RelayedNotByRtc DEF Leaves
  <2> QED
    BY <1>1, <1>5, <2>1, <2>2, SwitchWhileTaking DEF Leaves, SameInbox
<1>6. CASE Takes(e, o)
  <2>1. PICK d \in {0, 1} :
          /\ Dropped(sig[e], sig'[e], d)
          /\ d = 1 /\ phase[e] = "fallback" /\ lost' = 0 => sig[e][1].t # "msg"
    BY <1>6 DEF Takes
  <2> QED
    BY <1>1, <1>6, <2>1, SwitchWhileTaking DEF Takes, SameMessages, SameInbox
<1>7. CASE Heeding(e, o) \/ Speaking(e, o)
  BY <1>2, <1>7, RelayedNotByRtc DEF Heeding, Speaking, SameMessages, SameInbox
<1>8. CASE Describing(e, o) \/ Opening(e, o) \/ Breaking(e, o)
           \/ Losing(e, o) \/ Missing(e, o) \/ Relaying(e, o)
  BY <1>1, <1>8, SwitchKept
     DEF Describing, Opening, Breaking, Losing, Missing, Relaying, SameMessages, SameInbox
<1>9. CASE Hearing(e, o)
  <2>1. PICK m \in Message : Extended(inbox[e], inbox'[e], m) /\ m.via = "rtc"
    BY <1>9 DEF Hearing
  <2>2. inbox'[e][Len(inbox'[e])].via = "rtc"
    BY <2>1 DEF Extended
  <2> QED
    BY <2>2 DEF SwitchOK, Relayed
<1>10. CASE Receiving(e, o)
  BY <1>1, <1>10, SwitchByReceiving
<1> QED
  BY <1>3, <1>4, <1>5, <1>6, <1>7, <1>8, <1>9, <1>10 DEF Step

-----------------------------------------------------------------------------
(* The other end. *)

LEMMA SwitchOfUntouched ==
  ASSUME NEW e, NEW o, Before(e, o), SwitchOK(o, e), Bystander(o), lost' = 0 => lost = 0,
         sig'[o] = sig[o], gen'[e] = gen[e],
         Relays(phase[e]) => Relays(phase'[e]) /\ nsent'[e] = nsent[e]
  PROVE  SwitchOK(o, e)'
BY DEF SwitchOK, Relayed, Latest, Given, Bystander, Still, SameMessages, SameInbox, Relays

LEMMA SwitchOfLeft ==
  ASSUME NEW e, NEW o, Before(e, o), SwitchOK(o, e), Bystander(o), lost' = 0 => lost = 0,
         sig'[o] = sig[o], Begins(e)
  PROVE  SwitchOK(o, e)'
<1>1. partner[o] # gen'[e]
  <2>1. partner[o] < gen'[e] /\ gen'[e] \in Nat
    BY NewConnection, ConnAssumption DEF Before, Gens
  <2>2. partner[o] \in Nat
    BY DEF Before, Known
  <2> QED
    BY <2>1, <2>2
<1> QED
  BY <1>1 DEF SwitchOK, Relayed, Latest, Given, Bystander, Still, SameMessages, SameInbox, Relays

LEMMA SwitchOfSignalled ==
  ASSUME NEW e, NEW o, Before(e, o), SwitchOK(o, e), Bystander(o), lost' = 0 => lost = 0,
         gen'[e] = gen[e], ~Relays(phase[e]),
         NEW m, Extended(sig[o], sig'[o], m), m.from = gen[e]
  PROVE  SwitchOK(o, e)'
<1> SUFFICES ASSUME Relayed(o) PROVE SwitchOK(o, e)'
  BY DEF SwitchOK, Relayed, Bystander, SameMessages, SameInbox
<1> DEFINE r == sig'[o]
<1>1. Extended(sig[o], r, m)
  OBVIOUS
<1> HIDE DEF r
<1>2. partner[o] # gen[e] /\ Len(sig[o]) \in Nat
  BY DEF SwitchOK, Before, Known
<1>3. ASSUME NEW j \in 1..Len(r)
      PROVE  \/ j \in 1..Len(sig[o]) /\ r[j] = sig[o][j]
             \/ j = Len(sig[o]) + 1 /\ r[j] = m
  BY <1>1, <1>2 DEF Extended
<1>4. \A i \in 1..Len(r) : r[i].from = partner[o] => r[i].t = "msg"
  BY <1>2, <1>3 DEF SwitchOK
<1>5. 1 \in 1..Len(r) /\ r[1].from = partner[o] =>
        1 \in 1..Len(sig[o]) /\ r[1] = sig[o][1]
  BY <1>2, <1>3
<1>6. r = sig'[o]
  BY DEF r
<1> QED
  BY <1>2, <1>4, <1>5, <1>6
     DEF SwitchOK, Relayed, Latest, Given, Bystander, Still, SameMessages, SameInbox, Relays

LEMMA SwitchOfRelayedTo ==
  ASSUME NEW e, NEW o, Before(e, o), SwitchOK(o, e), Bystander(o), lost' = 0 => lost = 0,
         Relaying(e, o)
  PROVE  SwitchOK(o, e)'
<1> SUFFICES ASSUME Relayed(o) PROVE SwitchOK(o, e)'
  BY DEF SwitchOK, Relayed, Bystander, SameMessages, SameInbox
<1> DEFINE r == sig'[o]
<1>1. PICK m \in Signal : /\ Extended(sig[o], r, m)
                          /\ m.from = gen[e] /\ m.t = "msg" /\ m.n = Given(e) + 1
  BY DEF Relaying
<1> HIDE DEF r
<1>2. Len(sig[o]) \in Nat
  BY DEF Before, Known
<1>3. ASSUME NEW j \in 1..Len(r)
      PROVE  \/ j \in 1..Len(sig[o]) /\ r[j] = sig[o][j]
             \/ j = Len(sig[o]) + 1 /\ r[j] = m
  BY <1>1, <1>2 DEF Extended
<1>4. \A i \in 1..Len(r) : r[i].from = partner[o] => r[i].t = "msg"
  BY <1>1, <1>2, <1>3 DEF SwitchOK
<1>5. ASSUME lost' = 0, phase[o] = "fallback"
      PROVE  IF 1 \in 1..Len(r) /\ r[1].from = partner[o]
               THEN r[1].n = Latest(o) + 1
               ELSE partner[o] # gen[e]
  <2>1. /\ partner[o] # None
        /\ IF 1 \in 1..Len(sig[o]) /\ sig[o][1].from = partner[o]
             THEN sig[o][1].n = Latest(o) + 1
             ELSE partner[o] = gen[e] => Latest(o) = Given(e)
    BY <1>5 DEF SwitchOK, Before, Known, Past
  <2>2. CASE 1 \in 1..Len(sig[o])
    <3>1. 1 \in 1..Len(r) /\ r[1] = sig[o][1]
      BY <1>1, <1>2, <2>2 DEF Extended
    <3>2. sig[o][1].from # partner[o] => partner[o] # gen[e]
      <4>1. Before(o, e)
        BY DEF Before
      <4> QED
        BY <2>1, <2>2, <4>1, FirstIsEarliest
    <3> QED
      BY <2>1, <2>2, <3>1, <3>2
  <2>3. CASE 1 \notin 1..Len(sig[o])
    <3>1. Len(sig[o]) = 0
      BY <1>2, <2>3
    <3>2. 1 \in 1..Len(r) /\ r[1] = m
      BY <1>1, <3>1 DEF Extended
    <3> QED
      BY <1>1, <2>1, <2>3, <3>2
  <2> QED
    BY <2>2, <2>3
<1>6. r = sig'[o]
  BY DEF r
<1>7. Relays(phase'[e]) /\ gen'[e] = gen[e]
  BY DEF Relaying, Still, Relays
<1> QED
  BY <1>4, <1>5, <1>6, <1>7
     DEF SwitchOK, Relayed, Latest, Given, Bystander, Still, SameMessages, SameInbox, Relays

LEMMA SwitchOfBystander ==
  ASSUME NEW e, NEW o, Before(e, o), SwitchOK(o, e), Step(e, o)
  PROVE  SwitchOK(o, e)'
<1>1. Bystander(o) /\ (lost' = 0 => lost = 0)
  BY DEF Step
<1>2. CASE Begins(e)
  <2>1. sig' = sig
    BY <1>2, NewConnection DEF Before
  <2> QED
    BY <1>1, <1>2, <2>1, SwitchOfLeft
<1>3. CASE Shakes(e, o)
  <2>1. nsent'[e] = nsent[e] /\ gen'[e] = gen[e] /\ ~Relays(phase[e])
    BY <1>3 DEF Shakes, SameMessages, SameInbox, Relays
  <2>2. CASE sig'[o] = sig[o]
    BY <1>1, <2>1, <2>2, SwitchOfUntouched
  <2>3. ASSUME NEW m \in Signal, Extended(sig[o], sig'[o], m), m.from = gen[e]
        PROVE  SwitchOK(o, e)'
    BY <1>1, <2>1, <2>3, SwitchOfSignalled
  <2> QED
    BY <1>3, <2>2, <2>3 DEF Shakes
<1>4. CASE Leaves(e, o)
  <2>1. CASE nsent'[e] = nsent[e]
    BY <1>1, <1>4, <2>1, SwitchOfUntouched DEF Leaves, Still, Relays
  <2>2. CASE Gave(e) /\ phase[e] \in {"handshake", "webrtc"}
    BY <1>1, <1>4, <2>2, SwitchOfUntouched DEF Leaves, Still, Relays
  <2> QED
    BY <1>4, <2>1, <2>2 DEF Leaves
<1>5. CASE Takes(e, o) \/ Heeding(e, o)
  BY <1>1, <1>5, SwitchOfUntouched DEF Takes, Heeding, Still, SameMessages, SameInbox
<1>6. CASE Describing(e, o)
  <2>1. PICK m \in Signal : /\ Extended(sig[o], sig'[o], m)
                            /\ m.from = gen[e] /\ m.t \in {"offer", "answer"}
    BY <1>6 DEF Describing
  <2> QED
    BY <1>1, <1>6, <2>1, SwitchOfSignalled DEF Describing, Still, Relays
<1>7. CASE Opening(e, o) \/ Losing(e, o) \/ Missing(e, o) \/ Hearing(e, o)
  BY <1>1, <1>7, SwitchOfUntouched DEF Opening, Losing, Missing, Hearing, Still, SameMessages, SameInbox
<1>8. CASE Breaking(e, o)
  <2>1. CASE nsent'[e] = nsent[e]
    BY <1>1, <1>8, <2>1, SwitchOfUntouched DEF Breaking, Still
  <2>2. CASE Gave(e) /\ phase[e] = "webrtc"
    BY <1>1, <1>8, <2>2, SwitchOfUntouched DEF Breaking, Still, Relays
  <2> QED
    BY <1>8, <2>1, <2>2 DEF Breaking
<1>9. CASE Speaking(e, o)
  BY <1>1, <1>9, SwitchOfUntouched DEF Speaking, Still, Relays
<1>10. CASE Relaying(e, o)
  BY <1>1, <1>10, SwitchOfRelayedTo
<1>11. CASE Receiving(e, o)
  BY <1>1, <1>11, SwitchOfUntouched DEF Receiving, Still, Relays
<1> QED
  BY <1>2, <1>3, <1>4, <1>5, <1>6, <1>7, <1>8, <1>9, <1>10, <1>11 DEF Step

LEMMA JoinedGrows ==
  ASSUME NEW b, NEW d, NEW m, NEW x, NEW y, Len(b) \in Nat, Joined(b, x), Extended(b, d, m),
         y = 0 => x = 0, Len(b) \in 1..Len(b) =>
           /\ m.via = "rtc" => b[Len(b)].via = "rtc"
           /\ y = 0 /\ m.via = "relay" /\ b[Len(b)].via = "relay" => m.n = b[Len(b)].n + 1
  PROVE  Joined(d, y)
<1> SUFFICES ASSUME NEW i \in 1..Len(d), NEW j \in 1..Len(d), j = i + 1
             PROVE  /\ d[j].via = "rtc" => d[i].via = "rtc"
                    /\ y = 0 /\ d[j].via = "relay" /\ d[i].via = "relay"
                         => d[j].n = d[i].n + 1
  BY DEF Joined
<1>1. i \in 1..Len(b) /\ d[i] = b[i]
  BY DEF Extended
<1>2. CASE j \in 1..Len(b)
  <2>1. d[j] = b[j]
    BY <1>2 DEF Extended
  <2> QED
    BY <1>1, <1>2, <2>1 DEF Joined
<1>3. CASE j \notin 1..Len(b)
  <2>1. i = Len(b) /\ d[j] = m
    BY <1>1, <1>3 DEF Extended
  <2> QED
    BY <1>1, <2>1
<1> QED
  BY <1>2, <1>3

LEMMA JoinedOfActor ==
  ASSUME NEW e, NEW o, Before(e, o), SwitchOK(e, o), Joined(inbox[e], lost), Step(e, o)
  PROVE  Joined(inbox'[e], lost')
<1> DEFINE d == inbox'[e]
           y == lost'
<1>1. (y = 0 => lost = 0) /\ Len(inbox[e]) \in Nat /\ DeliveryOK(e, o)
  BY DEF Step, Before, Known
<1>2. CASE inbox'[e] = inbox[e]
  BY <1>1, <1>2 DEF Joined
<1>3. CASE Begins(e)
  <2>1. inbox'[e] = << >>
    BY <1>3, NewConnection DEF Before
  <2>2. 1..Len(<< >>) = {}
    OBVIOUS
  <2> QED
    BY <2>1, <2>2 DEF Joined
<1>4. CASE Hearing(e, o)
  <2>1. PICK m \in Message : Extended(inbox[e], d, m) /\ m.via = "rtc"
    BY <1>4 DEF Hearing
  <2>2. \A i \in 1..Len(inbox[e]) : inbox[e][i].via = "rtc"
    BY <1>1, <1>4 DEF DeliveryOK, Hearing
  <2> HIDE DEF d, y
  <2>3. Joined(d, y)
    BY <1>1, <2>1, <2>2, JoinedGrows
  <2> QED
    BY <2>3 DEF d, y
<1>5. CASE Receiving(e, o)
  <2>1. PICK m \in Message : /\ Extended(inbox[e], d, m) /\ m.via = "relay"
                             /\ m.from = sig[e][1].from /\ m.n = sig[e][1].n
    BY <1>5 DEF Receiving
  <2>2. 1 \in 1..Len(sig[e]) /\ sig[e][1].from = partner[e]
    BY <1>5 DEF Before, Known, PairOK, AfterAnswer, DataSignals, Receiving
  <2>3. ASSUME y = 0, Len(inbox[e]) \in 1..Len(inbox[e]),
               inbox[e][Len(inbox[e])].via = "relay"
        PROVE  m.n = inbox[e][Len(inbox[e])].n + 1
    <3>1. Relayed(e) /\ lost = 0
      BY <1>1, <2>3 DEF Relayed
    <3>2. phase[e] = "fallback"
      BY <1>5, <3>1, RelayedNotByRtc DEF Receiving, Past
    <3> QED
      BY <2>1, <2>2, <3>1, <3>2 DEF SwitchOK, Latest
  <2> HIDE DEF d, y
  <2>4. Joined(d, y)
    BY <1>1, <2>1, <2>3, JoinedGrows
  <2> QED
    BY <2>4 DEF d, y
<1> QED
  BY <1>2, <1>3, <1>4, <1>5
     DEF Step, Shakes, Leaves, Takes, Heeding, Describing, Opening, Breaking, Losing, Missing,
         Speaking, Relaying, SameMessages, SameInbox

LEMMA SwitchStep ==
  ASSUME ConnInv, PairInv, BackendInv, DeliveryInv, SwitchInv,
         NEW e \in Ends, Step(e, Other(e))
  PROVE  SwitchInv'
<1> DEFINE o == Other(e)
<1>1. o \in Ends /\ o # e /\ Other(o) = e /\ Other(e) = o
  BY OtherEnd
<1>2. Step(e, o)
  OBVIOUS
<1> HIDE DEF o
<1>3. Known(e, o) /\ Known(o, e)
  BY <1>1, KnownHolds
<1>4. Before(e, o)
  BY <1>1, <1>3, TypesHold DEF Before, ConnInv, PairInv, BackendInv, DeliveryInv
<1>5. /\ SwitchOK(e, o) /\ SwitchOK(o, e)
      /\ Joined(inbox[e], lost) /\ Joined(inbox[o], lost)
  BY <1>1 DEF SwitchInv
<1>6. SwitchOK(e, o)' /\ SwitchOK(o, e)'
  BY <1>2, <1>4, <1>5, SwitchOfActor, SwitchOfBystander
<1>7. Joined(inbox'[e], lost') /\ Joined(inbox'[o], lost')
  <2>1. Joined(inbox'[e], lost')
    BY <1>2, <1>4, <1>5, JoinedOfActor
  <2>2. inbox'[o] = inbox[o] /\ (lost' = 0 => lost = 0)
    BY <1>2 DEF Step, Bystander, SameMessages, SameInbox
  <2> QED
    BY <1>5, <2>1, <2>2 DEF Joined
<1>8. ASSUME NEW x \in Ends
      PROVE  SwitchOK(x, Other(x))' /\ Joined(inbox[x], lost)'
  <2>1. SwitchOK(x, Other(x))'
    BY <1>1, <1>6, Pair
  <2>2. Joined(inbox'[x], lost')
    BY <1>1, <1>7, Pair
  <2> QED
    BY <2>1, <2>2 DEF Joined
<1> QED
  BY <1>8 DEF SwitchInv

-----------------------------------------------------------------------------

DeliveryConnInv == PairConnInv /\ BackendInv /\ DeliveryInv /\ SwitchInv

LEMMA DeliveryInit == Init => BackendInv /\ DeliveryInv /\ SwitchInv
<1> SUFFICES ASSUME Init, NEW e \in Ends, NEW o, o = Other(e)
             PROVE  /\ BackendOK(e, o) /\ GivenOK(e) /\ DeliveryOK(e, o)
                    /\ SwitchOK(e, o) /\ Joined(inbox[e], lost)
  BY DEF BackendInv, DeliveryInv, SwitchInv
<1>1. /\ o \in Ends /\ gen[e] = 0 /\ nsent[e] = [g \in Gens |-> 0] /\ phase[e] = "none"
      /\ rtc[e] = NoBackend /\ inbox[e] = << >> /\ chan[e] = << >> /\ sig[e] = << >>
      /\ rtc[o] = NoBackend /\ phase[o] = "none" /\ missed[e] = 0
  BY OtherEnd DEF Init
<1>2. 1..Len(<< >>) = {}
  OBVIOUS
<1>3. BackendOK(e, o) /\ GivenOK(e)
  BY <1>1 DEF BackendOK, GivenOK, NoBackend
<1>4. ~Linked
  BY <1>1 DEF Linked, NoBackend
<1>5. DeliveryOK(e, o)
  BY <1>1, <1>2, <1>4 DEF DeliveryOK, MissedOK, InboxQ, ChanQ, RelayQ, AheadQ
<1>6. SwitchOK(e, o) /\ Joined(inbox[e], lost)
  BY <1>1, <1>2 DEF SwitchOK, Relayed, Joined
<1> QED
  BY <1>3, <1>5, <1>6

LEMMA DeliveryNext ==
  DeliveryConnInv /\ [Next]_vars => BackendInv' /\ DeliveryInv' /\ SwitchInv'
<1> SUFFICES ASSUME ConnInv, PairInv, BackendInv, DeliveryInv, SwitchInv, [Next]_vars
             PROVE  BackendInv' /\ DeliveryInv' /\ SwitchInv'
  BY DEF DeliveryConnInv, PairConnInv
<1>1. CASE UNCHANGED vars
  <2>1. BackendInv'
    BY <1>1 DEF vars, BackendInv, BackendOK, GivenOK, Given
  <2>2. DeliveryInv'
    <3> SUFFICES ASSUME NEW e \in Ends PROVE DeliveryOK(e, Other(e))'
      BY DEF DeliveryInv
    <3>1. DeliveryOK(e, Other(e))
      BY DEF DeliveryInv
    <3>2. Delivery(e, Other(e)) /\ (Linked' <=> Linked)
      BY <1>1, <3>1 DEF vars, Delivery, DeliveryOK, Linked
    <3>3. Linked' => (missed'[e] + Len(inbox'[e])) + Len(chan'[e])
                       = nsent'[Other(e)][gen'[Other(e)]]
      BY <1>1, <3>1, <3>2 DEF vars, DeliveryOK
    <3> QED
      BY <3>2, <3>3, DeliveryPrimed
  <2>3. SwitchInv'
    BY <1>1 DEF vars, SwitchInv, SwitchOK, Joined, Relayed, Latest, Relays, Given
  <2> QED
    BY <2>1, <2>2, <2>3
<1>2. CASE Next
  <2>1. TypeOK /\ HandshakeInv /\ ConnInv'
    BY <1>2, ConnStep DEF ConnInv
  <2>2. PICK e \in Ends : Step(e, Other(e))
    BY <1>2, <2>1, Steps
  <2> QED
    BY <2>1, <2>2, BackendStep, DeliveryStep, SwitchStep
<1> QED
  BY <1>1, <1>2

LEMMA DeliveryInvariant == Spec => []DeliveryConnInv
<1>1. Init => DeliveryConnInv
  BY ConnInit, PairInit, DeliveryInit DEF DeliveryConnInv, PairConnInv
<1>2. DeliveryConnInv /\ [Next]_vars => DeliveryConnInv'
  BY ConnStep, PairStep, DeliveryNext DEF DeliveryConnInv, PairConnInv
<1> QED
  BY <1>1, <1>2, PTL DEF Spec

(* What the owner of an end receives: first the messages that came over    *)
(* the data channel, without a gap, then the relayed ones.  Messages are   *)
(* missing only at the beginning of a channel that go-pion accepted, as    *)
(* many as it dropped there, where one path took over from the other, or   *)
(* where the signal server lost a signal.                                  *)
THEOREM NothingMissingElsewhere == Spec => []GapsOnlyAtTheSwitch
<1>1. DeliveryConnInv => GapsOnlyAtTheSwitch
  <2> SUFFICES ASSUME DeliveryConnInv, NEW e \in Ends, NEW i \in 1..Len(inbox[e])
               PROVE  LET m == inbox[e][i] IN
                        IF i = 1 THEN m.via = "rtc" => m.n = missed[e] + 1
                        ELSE LET l == inbox[e][i - 1] IN
                               \/ m.via = l.via /\ m.n = l.n + 1
                               \/ m.via = "relay" /\ m.n > l.n /\ (l.via = "rtc" \/ lost > 0)
    BY DEF GapsOnlyAtTheSwitch
  <2> DEFINE b == inbox[e]
  <2>1. /\ TypeOK /\ Joined(b, lost) /\ DeliveryOK(e, Other(e))
    BY DEF DeliveryConnInv, PairConnInv, ConnInv, DeliveryInv, SwitchInv
  <2>2. InboxQ(b, partner[e], nsent[Other(e)], missed[e]) /\ missed[e] \in Nat
    BY <2>1 DEF DeliveryOK, TypeOK
  <2>3. /\ b \in Seq(Message) /\ Len(b) \in Nat
        /\ \A j \in 1..Len(b) : b[j].n \in Nat /\ b[j].via \in {"rtc", "relay"}
    <3>1. \A m \in Message : m.n \in Nat /\ m.via \in {"rtc", "relay"}
      BY ConnAssumption DEF Message
    <3> QED
      BY <2>1, <3>1 DEF TypeOK
  <2>4. lost \in Nat
    BY <2>1, ConnAssumption DEF TypeOK
  <2> HIDE DEF b
  <2>5. i \in 1..Len(b)
    BY DEF b
  <2>6. CASE i = 1
    BY <2>2, <2>5, <2>6 DEF InboxQ, b
  <2>7. CASE i # 1
    <3> DEFINE j == i - 1
    <3>1. j \in 1..Len(b) /\ i = j + 1 /\ j < i
      BY <2>3, <2>5, <2>7
    <3> HIDE DEF j
    <3>2. b[j].n < b[i].n
      BY <2>2, <2>5, <3>1 DEF InboxQ
    <3>3. /\ b[i].via = "rtc" => b[j].via = "rtc"
          /\ lost = 0 /\ b[i].via = "relay" /\ b[j].via = "relay" => b[i].n = b[j].n + 1
      BY <2>1, <2>5, <3>1 DEF Joined
    <3>4. b[i].via = "rtc" => b[i].n = b[j].n + 1
      <4> DEFINE z == missed[e]
      <4>1. b[i].via = "rtc" => b[i].n = z + i /\ b[j].n = z + j
        BY <2>2, <2>5, <3>1, <3>3 DEF InboxQ
      <4>2. z \in Nat /\ j \in Nat /\ i = j + 1
        BY <2>2, <3>1
      <4> HIDE DEF z
      <4>3. z + (j + 1) = (z + j) + 1
        BY <4>2
      <4> QED
        BY <4>1, <4>2, <4>3
    <3>5. \/ b[i].via = b[j].via /\ b[i].n = b[j].n + 1
          \/ b[i].via = "relay" /\ b[i].n > b[j].n /\ (b[j].via = "rtc" \/ lost > 0)
      BY <2>3, <2>4, <2>5, <3>1, <3>2, <3>3, <3>4
    <3> QED
      BY <2>7, <3>5 DEF b, j
  <2> QED
    BY <2>6, <2>7
<1> QED
  BY <1>1, DeliveryInvariant, PTL

-----------------------------------------------------------------------------
(* A connection implements ConnSession.  The numbers of the messages an    *)
(* end got are those of its inbox.                                         *)

Nums(b, k) == [i \in 1..Len(b) |-> IF b[i].from = k THEN b[i].n ELSE None]
GotNums == [x \in Ends |-> Nums(inbox[x], partner[x])]

LEMMA NoNums == \A k : Nums(<< >>, k) = << >>
<1>1. \A k : DOMAIN Nums(<< >>, k) = {} /\ Nums(<< >>, k) \in [1..0 -> Nat]
  BY DEF Nums
<1>2. \A k : Nums(<< >>, k) \in Seq(Nat)
  BY <1>1, SeqDef
<1>3. \A k : Len(Nums(<< >>, k)) = 0
  BY <1>1, <1>2, LenProperties
<1> QED
  BY <1>2, <1>3, SeqEqual

LEMMA NumsAreNumbers ==
  ASSUME NEW b, NEW k, Len(b) \in Nat, \A i \in 1..Len(b) : b[i].n \in Nat
  PROVE  /\ Nums(b, k) \in Seq(Nat) /\ Len(Nums(b, k)) = Len(b)
         /\ \A i \in 1..Len(b) : b[i].from = k => Nums(b, k)[i] = b[i].n
<1>1. Nums(b, k) \in [1..Len(b) -> Nat]
  BY DEF Nums, None
<1>2. Nums(b, k) \in Seq(Nat)
  BY <1>1, SeqDef
<1>3. Len(Nums(b, k)) = Len(b)
  <2> DEFINE s == Nums(b, k)
  <2>1. Len(s) \in Nat /\ DOMAIN s = 1..Len(s)
    BY <1>2, LenProperties
  <2>2. DOMAIN s = 1..Len(b)
    BY DEF Nums
  <2> HIDE DEF s
  <2>3. Len(s) = Len(b)
    BY <2>1, <2>2
  <2> QED
    BY <2>3 DEF s
<1> QED
  BY <1>2, <1>3 DEF Nums

LEMMA NumsGrow ==
  ASSUME NEW b, NEW d, NEW m, NEW k, Len(b) \in Nat, \A i \in 1..Len(b) : b[i].n \in Nat,
         Extended(b, d, m), m.from = k, m.n \in Nat
  PROVE  Nums(d, k) = Append(Nums(b, k), m.n)
<1> DEFINE s == Nums(b, k)
           t == Append(Nums(b, k), m.n)
           u == Nums(d, k)
<1>1. ASSUME NEW i \in 1..Len(d)
      PROVE  \/ i \in 1..Len(b) /\ d[i] = b[i]
             \/ i = Len(b) + 1 /\ d[i] = m
  BY DEF Extended
<1>2. Len(d) = Len(b) + 1 /\ Len(d) \in Nat /\ \A i \in 1..Len(d) : d[i].n \in Nat
  BY <1>1 DEF Extended
<1>3. s \in Seq(Nat) /\ Len(s) = Len(b)
  BY NumsAreNumbers
<1>4. /\ t \in Seq(Nat) /\ Len(t) = Len(b) + 1 /\ t[Len(b) + 1] = m.n
      /\ \A i \in 1..Len(b) : t[i] = s[i]
  BY <1>3, AppendProperties
<1>5. u \in Seq(Nat) /\ Len(u) = Len(d)
  BY <1>2, NumsAreNumbers
<1>6. ASSUME NEW i \in 1..Len(d) PROVE t[i] = u[i]
  <2>1. CASE i \in 1..Len(b) /\ d[i] = b[i]
    BY <1>4, <2>1 DEF Nums
  <2>2. CASE i = Len(b) + 1 /\ d[i] = m
    <3>1. u[i] = m.n
      BY <2>2 DEF Nums
    <3> QED
      BY <1>4, <2>2, <3>1
  <2> QED
    BY <1>1, <2>1, <2>2
<1> HIDE DEF s, t, u
<1>7. t = u
  BY <1>2, <1>4, <1>5, <1>6, SeqEqual
<1> QED
  BY <1>7 DEF t, u

LEMMA GotIsNums ==
  /\ [x \in Ends |->
       [i \in 1..Len(inbox[x]) |->
          IF inbox[x][i].from = partner[x] THEN inbox[x][i].n ELSE None]] = GotNums
  /\ [x \in Ends |->
       [i \in 1..Len(inbox[x]) |->
          IF inbox[x][i].from = partner[x] THEN inbox[x][i].n ELSE None]]'
       = [x \in Ends |-> Nums(inbox'[x], partner'[x])]
BY DEF GotNums, Nums

(* The abstract state that a step does not change at an end. *)
SameSession(x) ==
  /\ gen'[x] = gen[x] /\ Bound(x)' = Bound(x) /\ nsent'[x] = nsent[x]
  /\ Nums(inbox'[x], partner'[x]) = Nums(inbox[x], partner[x])

LEMMA SessionStutters ==
  ASSUME TypeOK, TypeOK', \A x \in Ends : SameSession(x)
  PROVE  UNCHANGED Session!vars
<1>1. gen' = gen /\ nsent' = nsent
  BY DEF SameSession, TypeOK
<1>2. UNCHANGED [x \in Ends |-> Bound(x)]
  BY DEF SameSession
<1>3. [x \in Ends |-> Nums(inbox'[x], partner'[x])] = GotNums
  BY DEF SameSession, GotNums
<1> QED
  BY <1>1, <1>2, <1>3, GotIsNums DEF Session!vars

LEMMA BystanderSession ==
  ASSUME NEW o, Bystander(o)
  PROVE  SameSession(o)
BY DEF Bystander, Still, SameMessages, SameInbox, SameSession, Bound, Met, BothHalves

LEMMA StillSession ==
  ASSUME NEW e, Still(e), nsent'[e] = nsent[e], inbox'[e] = inbox[e]
  PROVE  SameSession(e)
BY DEF Still, SameSession, Bound, Met, BothHalves

LEMMA StepStutters ==
  ASSUME TypeOK, TypeOK', NEW e \in Ends, SameSession(e), SameSession(Other(e))
  PROVE  UNCHANGED Session!vars
<1>1. \A x \in Ends : SameSession(x)
  BY Pair
<1> QED
  BY <1>1, SessionStutters

(* The functions of the abstract state, where a step is of one end. *)
LEMMA FunctionTypes ==
  ASSUME TypeOK, TypeOK'
  PROVE  /\ gen \in [Ends -> 0..MaxGen] /\ gen' \in [Ends -> 0..MaxGen]
         /\ nsent \in [Ends -> [Gens -> 0..MaxMsgs]] /\ nsent' \in [Ends -> [Gens -> 0..MaxMsgs]]
         /\ partner' \in [Ends -> Gens \cup {None}]
<1>1. /\ gen \in [Ends -> 0..MaxGen] /\ nsent \in [Ends -> [Gens -> 0..MaxMsgs]]
  BY DEF TypeOK
<1>2. /\ gen' \in [Ends -> 0..MaxGen] /\ nsent' \in [Ends -> [Gens -> 0..MaxMsgs]]
      /\ partner' \in [Ends -> Gens \cup {None}]
  BY DEF TypeOK
<1> QED
  BY <1>1, <1>2

LEMMA SameFunction ==
  ASSUME NEW e \in Ends, NEW o, o = Other(e), NEW S, NEW f \in [Ends -> S],
         NEW g \in [Ends -> S], g[e] = f[e], g[o] = f[o]
  PROVE  g = f
<1>1. \A x \in Ends : x = e \/ x = o
  BY Pair
<1> QED
  BY <1>1

LEMMA SessionBegins ==
  ASSUME TypeOK, TypeOK', NEW e \in Ends, NEW o, Before(e, o), Bystander(o), Begins(e)
  PROVE  Session!Begin(e)
<1>1. /\ gen'[e] = gen[e] + 1 /\ ~BothHalves(shook'[e]) /\ inbox'[e] = << >>
      /\ nsent' = nsent /\ o = Other(e)
  BY NewConnection DEF Before
<1>2. SameSession(o)
  BY BystanderSession
<1>3. gen' = [gen EXCEPT ![e] = @ + 1]
  BY DEF Begins
<1>4. Bound(e)' = 0 /\ Nums(inbox'[e], partner'[e]) = << >>
  BY <1>1, NoNums DEF Bound, Met, BothHalves, None
<1>5. [x \in Ends |-> Bound(x)]' = [[x \in Ends |-> Bound(x)] EXCEPT ![e] = 0]
  <2>1. \A x \in Ends : Bound(x)' = IF x = e THEN 0 ELSE Bound(x)
    BY <1>1, <1>2, <1>4, Pair DEF SameSession
  <2> QED
    BY <2>1
<1>6. [x \in Ends |-> Nums(inbox'[x], partner'[x])] = [GotNums EXCEPT ![e] = << >>]
  <2>1. \A x \in Ends : Nums(inbox'[x], partner'[x])
                           = IF x = e THEN << >> ELSE Nums(inbox[x], partner[x])
    BY <1>1, <1>2, <1>4, Pair DEF SameSession
  <2> QED
    BY <2>1 DEF GotNums
<1> QED
  BY <1>1, <1>3, <1>5, <1>6, GotIsNums DEF Session!Begin

LEMMA SessionBinds ==
  ASSUME TypeOK, TypeOK', ConnInv', SessionsAgree', NEW e \in Ends, NEW o,
         Before(e, o), Bystander(o), Shakes(e, o), HandshakeInv'
  PROVE  Session!Bind(e) \/ UNCHANGED Session!vars
<1>1. o \in Ends /\ o = Other(e) /\ e = Other(o) /\ SameSession(o)
  BY BystanderSession DEF Before
<1>2. Bound(e) = None
  BY DEF Bound, Met, Shakes, Before, PairOK, HalvesTell, HandshakeInv, Phases, BothHalves
<1>3. inbox[e] = << >> /\ inbox'[e] = << >> /\ nsent'[e] = nsent[e] /\ gen'[e] = gen[e]
  BY DEF Shakes, SameMessages, SameInbox, Before, DeliveryOK
<1>4. Nums(inbox'[e], partner'[e]) = Nums(inbox[e], partner[e])
  BY <1>3, NoNums
<1>5. CASE Bound(e)' = None
  BY <1>1, <1>2, <1>3, <1>4, <1>5, StepStutters DEF SameSession
<1>6. CASE Bound(e)' # None
  <2>1. /\ Met(e)' /\ Bound(e)' = partner'[e] /\ partner'[e] # None
    BY <1>6 DEF Bound, Met, BothHalves
  <2>2. partner'[e] \in Nat /\ partner'[e] <= gen'[o] /\ gen[o] \in Nat /\ gen'[o] = gen[o]
    <3>1. partner'[e] <= gen'[o]
      BY <1>1 DEF HandshakeInv, Phases
    <3>2. partner'[e] \in Gens \cup {None} /\ gen[o] \in 0..MaxGen
      BY <1>1, FunctionTypes
    <3>3. partner'[e] \in Nat /\ gen[o] \in Nat
      BY <3>2, ConnAssumption DEF Gens, None
    <3> QED
      BY <1>1, <3>1, <3>3 DEF SameSession
  <2>3. partner'[e] \in 1..gen[o]
    BY <2>1, <2>2 DEF None
  <2>4. partner'[e] = gen[o] => Bound(o) \in {0, gen[e]}
    <3>1. Met(o)' /\ Met(e)' => partner'[o] = gen'[e]
      BY <1>1 DEF SessionsAgree
    <3>2. Met(o) => Met(o)' /\ partner'[o] = partner[o]
      BY DEF Bystander, Still, Met, BothHalves
    <3> QED
      BY <1>3, <2>1, <3>1, <3>2 DEF Bound, None
  <2>5. gen[e] > 0
    BY DEF Shakes, Before, Known, None
  <2>6. gen' = gen /\ nsent' = nsent
    <3>1. gen'[o] = gen[o] /\ nsent'[o] = nsent[o]
      BY <1>1 DEF SameSession
    <3>2. gen' = gen
      BY <1>1, <1>3, <3>1, FunctionTypes, SameFunction
    <3>3. nsent' = nsent
      <4> DEFINE S == [Gens -> 0..MaxMsgs]
      <4>1. nsent \in [Ends -> S] /\ nsent' \in [Ends -> S]
        BY FunctionTypes
      <4> HIDE DEF S
      <4> QED
        BY <1>1, <1>3, <3>1, <4>1, SameFunction
    <3> QED
      BY <3>2, <3>3
  <2>7. [x \in Ends |-> Bound(x)]' = [[x \in Ends |-> Bound(x)] EXCEPT ![e] = partner'[e]]
    <3>1. \A x \in Ends : Bound(x)' = IF x = e THEN partner'[e] ELSE Bound(x)
      BY <1>1, <2>1, Pair DEF SameSession
    <3> QED
      BY <3>1
  <2>8. [x \in Ends |-> Nums(inbox'[x], partner'[x])] = GotNums
    BY <1>1, <1>4, Pair DEF SameSession, GotNums
  <2>9. Session!Peer(e) = o
    BY <1>1 DEF Session!Peer, Other
  <2>10. [x \in Ends |-> Bound(x)][e] = 0
    BY <1>2 DEF None
  <2>11. [x \in Ends |-> Bound(x)][o] = Bound(o)
    BY <1>1
  <2>12. Session!Bind(e)
    BY <2>3, <2>4, <2>5, <2>6, <2>7, <2>8, <2>9, <2>10, <2>11, GotIsNums
       DEF Session!Bind
  <2> QED
    BY <2>12
<1> QED
  BY <1>5, <1>6

LEMMA SessionSends ==
  ASSUME TypeOK, TypeOK', NEW e \in Ends, NEW o,
         Before(e, o), Bystander(o), Still(e), inbox'[e] = inbox[e], Gave(e), phase[e] # "none"
  PROVE  Session!Send(e)
<1>1. o \in Ends /\ o = Other(e) /\ e = Other(o) /\ SameSession(o)
  BY BystanderSession DEF Before
<1>2. gen[e] > 0
  BY DEF Before, Known, None
<1>3. nsent' = [nsent EXCEPT ![e][gen[e]] = @ + 1]
  <2>1. nsent'[o] = nsent[o]
    BY <1>1 DEF SameSession
  <2> DEFINE g == nsent'
             f == nsent
             h == gen[e]
             S == 0..MaxMsgs
  <2>2. f \in [Ends -> [Gens -> S]] /\ g \in [Ends -> [Gens -> S]]
    BY FunctionTypes
  <2>3. /\ h \in Gens /\ g[o] = f[o] /\ g[e][h] = f[e][h] + 1
        /\ \A k \in Gens : k # h => g[e][k] = f[e][k]
    BY <2>1 DEF Gave, Given
  <2> HIDE DEF f, g, h, S
  <2>4. g = [f EXCEPT ![e][h] = @ + 1]
    <3>1. \A x \in Ends : x = e \/ x = o
      BY <1>1, Pair
    <3>2. g[e] = [f[e] EXCEPT ![h] = @ + 1]
      BY <2>2, <2>3
    <3> DEFINE r == [f EXCEPT ![e][h] = @ + 1]
    <3>3. r[e] = [f[e] EXCEPT ![h] = @ + 1] /\ r[o] = f[o] /\ DOMAIN r = Ends
      BY <1>1, <2>2, Pair
    <3> QED
      BY <2>2, <2>3, <3>1, <3>2, <3>3
  <2> QED
    BY <2>4 DEF f, g, h
<1>4. gen' = gen
  <2>1. gen'[o] = gen[o] /\ gen'[e] = gen[e]
    BY <1>1 DEF SameSession, Still
  <2> QED
    BY <1>1, <2>1, FunctionTypes, SameFunction
<1>5. Bound(e)' = Bound(e) /\ Nums(inbox'[e], partner'[e]) = Nums(inbox[e], partner[e])
  BY DEF Still, Bound, Met, BothHalves
<1>6. [x \in Ends |-> Bound(x)]' = [x \in Ends |-> Bound(x)]
  BY <1>1, <1>5, Pair DEF SameSession
<1>7. [x \in Ends |-> Nums(inbox'[x], partner'[x])] = GotNums
  BY <1>1, <1>5, Pair DEF SameSession, GotNums
<1> QED
  BY <1>2, <1>3, <1>4, <1>6, <1>7, GotIsNums DEF Session!Send

LEMMA SessionReceives ==
  ASSUME TypeOK, TypeOK', NEW e \in Ends, NEW o,
         Before(e, o), Bystander(o), Still(e), nsent'[e] = nsent[e],
         phase[e] \in Past, NEW m \in Message, Extended(inbox[e], inbox'[e], m),
         InboxQ(inbox[e], partner[e], nsent[o], missed[e]),
         InboxQ(inbox'[e], partner[e], nsent[o], missed'[e])
  PROVE  Session!Receive(e)
<1>1. o \in Ends /\ o = Other(e) /\ e = Other(o) /\ SameSession(o)
  BY BystanderSession DEF Before
<1>2. /\ Bound(e) = partner[e] /\ partner[e] # None
      /\ Len(inbox[e]) \in Nat /\ \A i \in 1..Len(inbox[e]) : inbox[e][i].n \in Nat
      /\ \A g \in Gens : nsent[o][g] \in Nat
  BY DEF Before, Known, Bound, Met, BothHalves
<1> DEFINE b == inbox[e]
           d == inbox'[e]
           k == partner[e]
           s == Nums(b, k)
<1>3. /\ Len(b) \in Nat /\ \A i \in 1..Len(b) : b[i].n \in Nat
      /\ Extended(b, d, m)
  BY <1>2
<1>4. m.n \in Nat /\ m.n > 0 /\ m.from \in Gens
  BY ConnAssumption DEF Message, Gens
<1>5. InboxQ(d, k, nsent[o], missed'[e]) /\ InboxQ(b, k, nsent[o], missed[e])
  OBVIOUS
<1> HIDE DEF b, d, k, s
<1>6. /\ m.from = k /\ m.n <= nsent[o][k]
      /\ \A i \in 1..Len(b) : b[i].n < m.n
  <2>1. Len(b) + 1 \in 1..Len(d) /\ d[Len(b) + 1] = m
    BY <1>3 DEF Extended
  <2>2. \A i \in 1..Len(b) : i \in 1..Len(d) /\ d[i] = b[i] /\ i < Len(b) + 1
    BY <1>3 DEF Extended
  <2> QED
    BY <1>5, <2>1, <2>2 DEF InboxQ
<1>7. Nums(d, k) = Append(s, m.n)
  BY <1>3, <1>4, <1>6, NumsGrow DEF s
<1>8. s \in Seq(Nat) /\ Len(s) = Len(b) /\ \A i \in 1..Len(b) : s[i] = b[i].n
  BY <1>3, <1>5, NumsAreNumbers DEF s, InboxQ
<1>9. Session!Last(s) \in Nat /\ Session!Last(s) < m.n
  <2>1. CASE s = << >>
    BY <1>4, <2>1 DEF Session!Last
  <2>2. CASE s # << >>
    <3>1. Len(s) \in 1..Len(s)
      BY <1>8, <2>2
    <3>2. s[Len(s)] = b[Len(b)].n /\ Len(b) \in 1..Len(b)
      BY <1>8, <3>1
    <3> QED
      BY <1>3, <1>6, <2>2, <3>2 DEF Session!Last
  <2> QED
    BY <2>1, <2>2
<1>10. m.n \in (Session!Last(s) + 1)..nsent[o][k]
  <2>1. nsent[o][k] \in Nat
    BY <1>2, <1>4, <1>6
  <2> QED
    BY <1>4, <1>6, <1>9, <2>1
<1>11. gen' = gen /\ nsent' = nsent
  <2>1. gen'[o] = gen[o] /\ gen'[e] = gen[e] /\ nsent'[o] = nsent[o] /\ nsent'[e] = nsent[e]
    BY <1>1 DEF SameSession, Still
  <2> QED
    BY <1>1, <2>1, FunctionTypes, SameFunction
<1>12. [x \in Ends |-> Bound(x)]' = [x \in Ends |-> Bound(x)]
  <2>1. Bound(e)' = Bound(e)
    BY DEF Still, Bound, Met, BothHalves
  <2> QED
    BY <1>1, <2>1, Pair DEF SameSession
<1>13. [x \in Ends |-> Nums(inbox'[x], partner'[x])] = [GotNums EXCEPT ![e] = Append(@, m.n)]
  <2>1. GotNums[e] = s /\ Nums(inbox'[e], partner'[e]) = Nums(d, k)
    BY DEF GotNums, s, b, d, k, Still
  <2> QED
    BY <1>1, <1>7, <2>1, Pair DEF SameSession, GotNums
<1>14. Session!Peer(e) = o
  BY <1>1 DEF Session!Peer, Other
<1>15. /\ [x \in Ends |-> Bound(x)][e] = k /\ k # 0
       /\ GotNums[e] = s
  BY <1>2 DEF GotNums, s, b, k, None
<1> QED
  BY <1>10, <1>11, <1>12, <1>13, <1>14, <1>15, GotIsNums DEF Session!Receive

LEMMA SessionStep ==
  ASSUME ConnInv, PairInv, BackendInv, DeliveryInv, ConnInv', DeliveryInv',
         SessionsAgree', NEW e \in Ends, Step(e, Other(e))
  PROVE  Session!Next \/ UNCHANGED Session!vars
<1> DEFINE o == Other(e)
<1>1. o \in Ends /\ o # e /\ Other(o) = e /\ Other(e) = o
  BY OtherEnd
<1>2. Step(e, o)
  OBVIOUS
<1>3. DeliveryOK(e, o)'
  BY DEF DeliveryInv
<1> HIDE DEF o
<1>4. Known(e, o) /\ Known(o, e)
  BY <1>1, KnownHolds
<1>5. Before(e, o)
  BY <1>1, <1>4, TypesHold DEF Before, ConnInv, PairInv, BackendInv, DeliveryInv
<1>6. Bystander(o) /\ TypeOK /\ TypeOK' /\ HandshakeInv'
  BY <1>2 DEF Step, ConnInv
<1>7. ASSUME Still(e), nsent'[e] = nsent[e], inbox'[e] = inbox[e]
      PROVE  UNCHANGED Session!vars
  BY <1>1, <1>6, <1>7, StillSession, BystanderSession, StepStutters
<1>8. ASSUME Still(e), inbox'[e] = inbox[e], Gave(e), phase[e] # "none"
      PROVE  Session!Next
  BY <1>5, <1>6, <1>8, SessionSends DEF Session!Next
<1>9. ASSUME Still(e), nsent'[e] = nsent[e], phase[e] \in Past,
             NEW m \in Message, Extended(inbox[e], inbox'[e], m)
      PROVE  Session!Next
  <2>1. InboxQ(inbox[e], partner[e], nsent[o], missed[e])
    BY <1>5 DEF Before, DeliveryOK
  <2>2. InboxQ(inbox'[e], partner'[e], nsent'[o], missed'[e])
    BY <1>3 DEF DeliveryOK, InboxQ
  <2>3. InboxQ(inbox'[e], partner[e], nsent[o], missed'[e])
    BY <1>6, <1>9, <2>2 DEF Still, Bystander, SameMessages, SameInbox
  <2> QED
    BY <1>5, <1>6, <1>9, <2>1, <2>3, SessionReceives DEF Session!Next
<1>10. CASE Begins(e)
  BY <1>5, <1>6, <1>10, SessionBegins DEF Session!Next
<1>11. CASE Shakes(e, o)
  BY <1>5, <1>6, <1>11, SessionBinds DEF Session!Next
<1>12. CASE Leaves(e, o)
  <2>1. CASE nsent'[e] = nsent[e]
    BY <1>7, <1>12, <2>1 DEF Leaves, SameMessages, SameInbox
  <2>2. CASE Gave(e) /\ phase[e] \in {"handshake", "webrtc"}
    BY <1>8, <1>12, <2>2 DEF Leaves, SameInbox
  <2> QED
    BY <1>12, <2>1, <2>2 DEF Leaves
<1>13. CASE \/ Takes(e, o) \/ Heeding(e, o) \/ Describing(e, o) \/ Opening(e, o)
            \/ Losing(e, o) \/ Missing(e, o)
  BY <1>7, <1>13
     DEF Takes, Heeding, Describing, Opening, Losing, Missing, SameMessages, SameInbox
<1>14. CASE Breaking(e, o)
  <2>1. CASE nsent'[e] = nsent[e]
    BY <1>7, <1>14, <2>1 DEF Breaking, SameMessages, SameInbox
  <2>2. CASE Gave(e) /\ phase[e] = "webrtc"
    BY <1>8, <1>14, <2>2 DEF Breaking, SameInbox
  <2> QED
    BY <1>14, <2>1, <2>2 DEF Breaking
<1>15. CASE Speaking(e, o) \/ Relaying(e, o)
  BY <1>8, <1>15 DEF Speaking, Relaying, SameInbox
<1>16. CASE Hearing(e, o)
  BY <1>9, <1>16 DEF Hearing, Past
<1>17. CASE Receiving(e, o)
  BY <1>9, <1>17 DEF Receiving
<1> QED
  BY <1>2, <1>10, <1>11, <1>12, <1>13, <1>14, <1>15, <1>16, <1>17 DEF Step

LEMMA SessionInit == Init => Session!Init
<1> SUFFICES ASSUME Init PROVE Session!Init
  OBVIOUS
<1>1. gen = [x \in Ends |-> 0] /\ nsent = [x \in Ends |-> [g \in 1..MaxGen |-> 0]]
  BY DEF Init, Gens
<1>2. [x \in Ends |-> Bound(x)] = [x \in Ends |-> 0]
  BY DEF Init, Bound, Met, BothHalves, Strangers, None
<1>3. GotNums = [x \in Ends |-> << >>]
  BY NoNums DEF Init, GotNums
<1> QED
  BY <1>1, <1>2, <1>3, GotIsNums DEF Session!Init

(* A connection delivers messages of the one peer connection it shook      *)
(* hands with, in the order in which they were sent and none of them       *)
(* twice, whatever is lost, restarted or switched to the other path: the   *)
(* two ends implement ConnSession.                                         *)
THEOREM ConnectionsAreSessions == Spec => SessionSpec
<1>1. Init => Session!Init
  BY SessionInit
<1>2. ASSUME DeliveryConnInv, DeliveryConnInv', SessionsAgree', [Next]_vars
      PROVE  [Session!Next]_(Session!vars)
  <2>1. CASE UNCHANGED vars
    <3>1. \A x \in Ends : SameSession(x)
      BY <2>1 DEF vars, SameSession, Bound, Met, BothHalves
    <3>2. TypeOK /\ TypeOK'
      BY <1>2 DEF DeliveryConnInv, PairConnInv, ConnInv
    <3> QED
      BY <3>1, <3>2, SessionStutters
  <2>2. CASE Next
    <3>1. TypeOK /\ HandshakeInv
      BY <1>2 DEF DeliveryConnInv, PairConnInv, ConnInv
    <3>2. PICK e \in Ends : Step(e, Other(e))
      BY <2>2, <3>1, Steps
    <3> QED
      BY <1>2, <3>2, SessionStep DEF DeliveryConnInv, PairConnInv
  <2> QED
    BY <1>2, <2>1, <2>2
<1>3. Spec => Init /\ [][Next]_vars
  BY DEF Spec
<1>4. Session!Init /\ [][Session!Next]_(Session!vars) => SessionSpec
  BY DEF SessionSpec, Session!Spec
<1> QED
  BY <1>1, <1>2, <1>3, <1>4, DeliveryInvariant, HandshakesAgree, PTL
=============================================================================
