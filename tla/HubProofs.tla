----------------------------- MODULE HubProofs -----------------------------
(***************************************************************************)
(* Proofs about Hub, for any number of keys, callers, messages and any     *)
(* capacities: its state is well typed, an open connection is the one      *)
(* registered for its key, every session of the signal client has an       *)
(* owner who will close it, and the hub implements ConnRegistry.           *)
(***************************************************************************)
EXTENDS Hub, SequenceTheorems, TLAPS

(* The invariant.  A key that is about to get a connection has none; the   *)
(* map is consistent with the keys; only connections that were made have   *)
(* handles or a Disconnect to send.                                        *)
MapKeys == \A k \in Keys : map[k] # NoConn => key[map[k]] = k
AssertFree ==
  hub.at = "assert" => hub.key \in Keys /\ map[hub.key] = NoConn
HubConnMade ==
  hub.at \in {"forward", "sending", "accept"} =>
    hub.conn \in Conns /\ key[hub.conn] # NoKey
OwnedMade ==
  \A c \in Conns : (Alive(c) \/ c \in leaving) => key[c] # NoKey

HubInv ==
  /\ TypeOK /\ MapKeys /\ OpenIsRegistered
  /\ AssertFree /\ HubConnMade /\ OwnedMade

LEMMA ConnsNat == NoConn \notin Conns /\ Conns \subseteq Nat
  BY DEF NoConn, Conns

-----------------------------------------------------------------------------
(* Types of the operators.                                                 *)

LEMMA TakesType ==
  ASSUME TypeOK, NEW op, Takes(op)
  PROVE  /\ hub.at = "loop" /\ queue' \in Seq(Command)
         /\ Head(queue) \in Command /\ Head(queue).op = op
  <1>1. queue \in Seq(Command) /\ queue # << >>
    BY DEF TypeOK, Takes
  <1>2. Head(queue) \in Command /\ Tail(queue) \in Seq(Command)
    BY <1>1
  <1> QED BY <1>2 DEF Takes

LEMMA CommandType ==
  ASSUME NEW cmd \in Command
  PROVE  /\ cmd.op \in {"sig", "disconnect", "connect"} => cmd.key \in Keys
         /\ cmd.op = "connect" => cmd.who \in Callers
         /\ cmd.who \in Callers \cup {NoCaller}
         /\ cmd.key \in Keys \cup {NoKey}
  BY DEF Command

LEMMA SendsType ==
  ASSUME TypeOK, NEW cmd \in Command, Sends(cmd)
  PROVE  queue' \in Seq(Command)
  BY DEF TypeOK, Sends

LEMMA DropsType ==
  ASSUME TypeOK, NEW h, NEW cs
  PROVE  Drops(h, cs) \in [Conns -> SUBSET Holders]
  BY DEF TypeOK, Drops

LEMMA HandlesType ==
  ASSUME TypeOK, NEW r
  PROVE  /\ LeavingAfter(r) \in SUBSET Conns
         /\ OpenAfter(r) \in [Conns -> BOOLEAN]
         /\ \A c \in Conns : OpenAfter(r)[c] => open[c]
  BY DEF TypeOK, LeavingAfter, OpenAfter, Dying

LEMMA PrunedType ==
  ASSUME TypeOK
  PROVE  /\ Pruned \in [Keys -> Conns \cup {NoConn}]
         /\ \A k \in Keys : Pruned[k] \in {map[k], NoConn}
         /\ \A k \in Keys : Pruned[k] # NoConn => Pruned[k] = map[k] /\ Alive(map[k])
  BY DEF TypeOK, Pruned

LEMMA OpenWithoutType ==
  ASSUME TypeOK, NEW m
  PROVE  /\ OpenWithout(m) \in [Conns -> BOOLEAN]
         /\ \A c \in Conns : OpenWithout(m)[c] => open[c] /\ c \notin Removed(m)
  BY DEF TypeOK, OpenWithout

LEMMA FoundType ==
  ASSUME TypeOK, NEW k \in Keys
  PROVE  /\ Found(k) \in Conns \cup {NoConn}
         /\ Found(k) # NoConn => Found(k) = map[k] /\ Alive(Found(k))
  BY PrunedType DEF Found

LEMMA AnswersType ==
  ASSUME TypeOK, NEW x, NEW c \in Conns \cup {NoConn}, NEW b \in BOOLEAN,
         Answers(x, c, b)
  PROVE  caller' \in [Callers -> Call]
<1>1. [at |-> "answered", conn |-> c, fresh |-> b] \in Call
  BY DEF Call
<1> QED
  BY <1>1 DEF TypeOK, Answers

LEMMA CallDone ==
  ASSUME TypeOK, NEW x, NEW a \in {"waiting", "has", "done"},
         caller' = [caller EXCEPT ![x].at = a]
  PROVE  caller' \in [Callers -> Call]
<1>1. caller \in [Callers -> Call]
  BY DEF TypeOK
<1>2. ASSUME x \in Callers
      PROVE  [caller[x] EXCEPT !.at = a] \in Call
  BY <1>1, <1>2 DEF Call
<1> QED
  BY <1>1, <1>2

-----------------------------------------------------------------------------
(* Every step but the creation of a connection only takes entries out of   *)
(* the map, and closes a connection when it takes its entry.               *)

Shrinks ==
  /\ key' = key
  /\ \A k \in Keys : map'[k] \in {map[k], NoConn}
  /\ \A c \in Conns : open'[c] => open[c] /\ \A k \in Keys : map[k] = c => map'[k] = c

LEMMA OpenWithoutShrinks ==
  ASSUME TypeOK, NEW m, \A k \in Keys : m[k] \in {map[k], NoConn},
         map' = m, \A c \in Conns : open'[c] => OpenWithout(m)[c], key' = key
  PROVE  Shrinks
<1>1. \A c \in Conns : open'[c] => open[c] /\ c \notin Removed(m)
  BY OpenWithoutType
<1>2. \A c \in Conns, k \in Keys : (c \notin Removed(m) /\ map[k] = c) => m[k] = c
  BY DEF Removed
<1> QED
  BY <1>1, <1>2 DEF Shrinks

LEMMA SameMapShrinks ==
  ASSUME key' = key, map' = map, \A c \in Conns : open'[c] => open[c]
  PROVE  Shrinks
  BY DEF Shrinks

LEMMA ContinuesShrinks ==
  ASSUME TypeOK, NEW o, HubContinues(o), \A c \in Conns : o[c] => open[c],
         key' = key, map' = map
  PROVE  Shrinks
<1>1. \A c \in Conns : open'[c] => open[c]
  BY DEF HubContinues
<1> QED
  BY <1>1, SameMapShrinks

LEMMA HubStateType ==
  ASSUME NEW c \in Conns
  PROVE  /\ [Idle EXCEPT !.at = "forward", !.conn = c] \in HubState
         /\ [Idle EXCEPT !.at = "forward", !.conn = c, !.fresh = TRUE] \in HubState
  BY DEF Idle, HubState

LEMMA IdleType ==
  Idle \in HubState /\ [Idle EXCEPT !.at = "end"] \in HubState
  BY DEF Idle, HubState

LEMMA HubAtType ==
  ASSUME TypeOK, NEW a \in {"sending", "accept"}
  PROVE  [hub EXCEPT !.at = a] \in HubState
  BY DEF TypeOK, HubState

LEMMA RefsType ==
  ASSUME TypeOK, NEW c \in Conns, NEW h \in Holders
  PROVE  /\ [refs EXCEPT ![c] = @ \cup {h}] \in [Conns -> SUBSET Holders]
         /\ [refs EXCEPT ![c] = {h}] \in [Conns -> SUBSET Holders]
<1>1. refs \in [Conns -> SUBSET Holders]
  BY DEF TypeOK
<1>2. refs[c] \cup {h} \in SUBSET Holders /\ {h} \in SUBSET Holders
  BY <1>1
<1> QED
  BY <1>1, <1>2

LEMMA ContinuesType ==
  ASSUME TypeOK, NEW o \in [Conns -> BOOLEAN], HubContinues(o)
  PROVE  /\ hub' \in HubState
         /\ refs' \in [Conns -> SUBSET Holders]
         /\ open' \in [Conns -> BOOLEAN] /\ leaving' \in SUBSET Conns
<1>1. CASE hub.fresh
  BY <1>1, HubAtType DEF HubContinues, TypeOK
<1>2. CASE ~hub.fresh
  BY <1>2, IdleType, DropsType, HandlesType DEF HubContinues
<1> QED
  BY <1>1, <1>2

LEMMA DroppedType ==
  ASSUME TypeOK, NEW h, NEW cs, HandlesBecome(Drops(h, cs))
  PROVE  /\ refs' \in [Conns -> SUBSET Holders]
         /\ open' \in [Conns -> BOOLEAN] /\ leaving' \in SUBSET Conns
  BY DropsType, HandlesType DEF HandlesBecome

LEMMA HubTypeStep ==
  ASSUME TypeOK, HubConnMade, AssertFree, OwnedMade, Next
  PROVE  TypeOK'
<1> USE DEF connVars, ownerVars
<1>1. CASE HubIgnoresSelf
  BY <1>1, TakesType DEF TypeOK, HubIgnoresSelf
<1>2. CASE HubRefusesSelf
  <2>1. caller' \in [Callers -> Call]
    BY <1>2, AnswersType DEF TypeOK, HubRefusesSelf, Refuses
  <2> QED BY <1>2, <2>1, TakesType DEF TypeOK, HubRefusesSelf
<1>3. CASE HubFindsForSignal
  <2> DEFINE c == Found(Head(queue).key)
  <2>1. Head(queue).key \in Keys /\ queue' \in Seq(Command)
    BY <1>3, TakesType, CommandType DEF HubFindsForSignal
  <2>2. c \in Conns
    BY <1>3, <2>1, FoundType DEF HubFindsForSignal
  <2>3. hub' \in HubState
    BY <1>3, <2>2, HubStateType DEF HubFindsForSignal
  <2>4. refs' \in [Conns -> SUBSET Holders]
    BY <1>3, <2>2, RefsType DEF HubFindsForSignal, Holders
  <2>5. map' \in [Keys -> Conns \cup {NoConn}] /\ open' \in [Conns -> BOOLEAN]
    BY <1>3, PrunedType, OpenWithoutType DEF HubFindsForSignal
  <2> QED BY <1>3, <2>1, <2>3, <2>4, <2>5 DEF TypeOK, HubFindsForSignal
<1>4. CASE HubFindsForCaller
  <2> DEFINE c == Found(Head(queue).key)
             x == Head(queue).who
  <2>1. Head(queue).key \in Keys /\ queue' \in Seq(Command) /\ x \in Callers
    BY <1>4, TakesType, CommandType DEF HubFindsForCaller
  <2>2. c \in Conns
    BY <1>4, <2>1, FoundType DEF HubFindsForCaller
  <2>3. caller' \in [Callers -> Call]
    BY <1>4, <2>2, AnswersType DEF HubFindsForCaller, TypeOK
  <2>4. refs' \in [Conns -> SUBSET Holders]
    <3>1. refs' \in {[refs EXCEPT ![c] = @ \cup {x}], refs}
      BY <1>4 DEF HubFindsForCaller
    <3>2. x \in Holders /\ refs \in [Conns -> SUBSET Holders]
      BY <2>1 DEF Holders, TypeOK
    <3> QED BY <3>1, <3>2, <2>2, RefsType
  <2>5. map' \in [Keys -> Conns \cup {NoConn}] /\ open' \in [Conns -> BOOLEAN]
    BY <1>4, PrunedType, OpenWithoutType DEF HubFindsForCaller
  <2> QED BY <1>4, <2>1, <2>3, <2>4, <2>5 DEF TypeOK, HubFindsForCaller
<1>5. CASE HubAsserts
  <2>1. /\ queue' \in Seq(Command) /\ Head(queue).key \in Keys
        /\ Head(queue).who \in Callers \cup {NoCaller}
    BY <1>5, TakesType, CommandType DEF HubAsserts
  <2>2. hub' \in HubState
    <3>1. hub' = [Idle EXCEPT !.at = "assert", !.key = Head(queue).key,
                              !.who = Head(queue).who]
      BY <1>5 DEF HubAsserts
    <3> QED BY <2>1, <3>1 DEF Idle, HubState
  <2>3. map' \in [Keys -> Conns \cup {NoConn}] /\ open' \in [Conns -> BOOLEAN]
    BY <1>5, PrunedType, OpenWithoutType DEF HubAsserts
  <2> QED BY <1>5, <2>1, <2>2, <2>3 DEF TypeOK, HubAsserts
<1>6. CASE HubAssertFails
  <2>1. caller' \in [Callers -> Call]
    BY <1>6, AnswersType DEF TypeOK, HubAssertFails, Refuses
  <2> QED BY <1>6, <2>1, IdleType DEF TypeOK, HubAssertFails
<1>7. CASE HubCreates
  <2>1. PICK c \in Unused :
          /\ key' = [key EXCEPT ![c] = hub.key]
          /\ map' = [map EXCEPT ![hub.key] = c]
          /\ running' = [running EXCEPT ![c] = TRUE]
          /\ session' = session \cup {hub.key}
          /\ \/ /\ hub.who = NoCaller
                /\ refs' = [refs EXCEPT ![c] = {Task}]
                /\ open' = [open EXCEPT ![c] = TRUE]
                /\ hub' = [Idle EXCEPT !.at = "forward", !.conn = c, !.fresh = TRUE]
                /\ UNCHANGED << caller, leaving >>
             \/ /\ hub.who # NoCaller /\ caller[hub.who].at = "waiting"
                /\ refs' = [refs EXCEPT ![c] = {hub.who}]
                /\ open' = [open EXCEPT ![c] = TRUE]
                /\ Answers(hub.who, c, TRUE)
                /\ hub' = Idle
                /\ UNCHANGED leaving
             \/ /\ hub.who # NoCaller /\ caller[hub.who].at # "waiting"
                /\ leaving' = leaving \cup {c}
                /\ hub' = Idle
                /\ UNCHANGED << caller, refs, open >>
    BY <1>7 DEF HubCreates
  <2>2. c \in Conns
    BY DEF Unused
  <2>3. hub.key \in Keys /\ hub.who \in Callers \cup {NoCaller}
    BY <1>7 DEF HubCreates, AssertFree, TypeOK, HubState
  <2>4. /\ key' \in [Conns -> Keys \cup {NoKey}]
        /\ map' \in [Keys -> Conns \cup {NoConn}]
        /\ running' \in [Conns -> BOOLEAN] /\ session' \in SUBSET Keys
    BY <2>1, <2>2, <2>3 DEF TypeOK
  <2>5. refs' \in [Conns -> SUBSET Holders]
    <3>1. \/ refs' = refs
          \/ \E h \in Holders : refs' = [refs EXCEPT ![c] = {h}]
      BY <2>1, <2>3 DEF Holders
    <3>2. CASE refs' = refs
      BY <3>2 DEF TypeOK
    <3>3. ASSUME NEW h \in Holders, refs' = [refs EXCEPT ![c] = {h}]
          PROVE  refs' \in [Conns -> SUBSET Holders]
      BY <3>3, <2>2, RefsType
    <3> QED BY <3>1, <3>2, <3>3
  <2>6. open' \in [Conns -> BOOLEAN] /\ leaving' \in SUBSET Conns
    BY <2>1, <2>2 DEF TypeOK
  <2>7. caller' \in [Callers -> Call]
    BY <2>1, <2>2, AnswersType DEF TypeOK
  <2>8. hub' \in HubState
    BY <2>1, <2>2, <2>3, HubStateType, IdleType
  <2>9. UNCHANGED << queue, dropped, signals, pend, accq, accepting >>
    BY <1>7 DEF HubCreates
  <2> QED BY <2>4, <2>5, <2>6, <2>7, <2>8, <2>9 DEF TypeOK
<1>8. CASE HubForwards
  <2>1. hub' \in HubState
    BY <1>8, HubAtType DEF HubForwards
  <2>2. hub.conn \in Conns
    BY <1>8 DEF HubForwards, HubConnMade
  <2>3. pend' \in [Conns -> Nat]
    BY <1>8, <2>2 DEF HubForwards, TypeOK
  <2> QED BY <1>8, <2>1, <2>3 DEF TypeOK, HubForwards
<1>9. CASE HubForwarded
  <2>1. open \in [Conns -> BOOLEAN]
    BY DEF TypeOK
  <2> QED BY <1>9, <2>1, ContinuesType DEF TypeOK, HubForwarded
<1>10. CASE HubForwardTimesOut
  <2>1. [open EXCEPT ![hub.conn] = FALSE] \in [Conns -> BOOLEAN]
    BY DEF TypeOK
  <2> QED BY <1>10, <2>1, ContinuesType DEF TypeOK, HubForwardTimesOut
<1>11. CASE HubHandsOver
  <2>1. hub.conn \in Conns
    BY <1>11 DEF HubHandsOver, HubConnMade
  <2>2. accq' \in Seq(Conns)
    BY <1>11, <2>1 DEF HubHandsOver, TypeOK
  <2>3. refs' \in [Conns -> SUBSET Holders]
    BY <1>11, <2>1 DEF HubHandsOver, TypeOK, Holders
  <2> QED BY <1>11, <2>2, <2>3, IdleType DEF TypeOK, HubHandsOver
<1>12. CASE HubHandOverFails
  BY <1>12, DroppedType, IdleType DEF TypeOK, HubHandOverFails
<1>13. CASE HubDisconnects
  <2>1. map' \in [Keys -> Conns \cup {NoConn}] /\ open' \in [Conns -> BOOLEAN]
    BY <1>13, OpenWithoutType DEF HubDisconnects, Forget, TypeOK
  <2>2. session' \in SUBSET Keys
    BY <1>13 DEF HubDisconnects, Forget, TypeOK
  <2> QED BY <1>13, <2>1, <2>2, TakesType DEF TypeOK, HubDisconnects
<1>14. CASE HubEnds
  <2>1. refs' \in [Conns -> SUBSET Holders] /\ leaving' \in SUBSET Conns
    BY <1>14, DropsType, HandlesType DEF HubEnds
  <2>2. map' \in [Keys -> Conns \cup {NoConn}] /\ open' \in [Conns -> BOOLEAN]
    BY <1>14, HandlesType, OpenWithoutType DEF HubEnds
  <2>3. caller' \in [Callers -> Call]
    <3>1. \A x \in Callers : [caller[x] EXCEPT !.at = "done"] \in Call /\ caller[x] \in Call
      BY DEF TypeOK, Call
    <3> QED BY <1>14, <3>1 DEF HubEnds
  <2>4. queue' \in Seq(Command) /\ session' \in SUBSET Keys
    BY <1>14 DEF HubEnds
  <2> QED BY <1>14, <2>1, <2>2, <2>3, <2>4, IdleType DEF TypeOK, HubEnds
<1>15. ASSUME NEW k \in Keys, SignalArrives(k) PROVE TypeOK'
  <2>1. [op |-> "sig", key |-> k, who |-> NoCaller] \in Command
    BY DEF Command
  <2>2. queue' \in Seq(Command)
    BY <1>15, <2>1, SendsType DEF SignalArrives
  <2>3. signals' \in 0..MaxSignals
    BY <1>15, HubAssumption DEF SignalArrives, TypeOK
  <2> QED BY <1>15, <2>2, <2>3 DEF TypeOK, SignalArrives
<1>16. CASE SignalLost
  <2>1. [op |-> "close", key |-> NoKey, who |-> NoCaller] \in Command
    BY DEF Command
  <2>2. queue' \in Seq(Command) /\ signals' \in 0..MaxSignals
    BY <1>16, <2>1, SendsType, HubAssumption DEF SignalLost
  <2> QED BY <1>16, <2>2 DEF TypeOK, SignalLost
<1>17. CASE HubDropped
  BY <1>17 DEF TypeOK, HubDropped
<1>18. CASE Accepts
  <2>1. accq' \in Seq(Conns)
    BY <1>18 DEF Accepts, TypeOK
  <2> QED BY <1>18, <2>1 DEF TypeOK, Accepts
<1>19. CASE AcceptorLeaves
  <2>1. accq' \in Seq(Conns) /\ accepting' \in BOOLEAN
    BY <1>19, EmptySeq DEF AcceptorLeaves
  <2> QED BY <1>19, <2>1, DroppedType DEF TypeOK, AcceptorLeaves
<1>20. ASSUME NEW x \in Callers, NEW k \in Keys, Connects(x, k) PROVE TypeOK'
  <2>1. [op |-> "connect", key |-> k, who |-> x] \in Command
    BY DEF Command
  <2>2. queue' \in Seq(Command) /\ caller' \in [Callers -> Call]
    BY <1>20, <2>1, SendsType, CallDone DEF Connects
  <2> QED BY <1>20, <2>2 DEF TypeOK, Connects
<1>21. ASSUME NEW x \in Callers, ConnectReturns(x) PROVE TypeOK'
  <2>1. caller' \in [Callers -> Call]
    BY <1>21, CallDone DEF ConnectReturns
  <2>2. /\ refs' \in [Conns -> SUBSET Holders]
        /\ open' \in [Conns -> BOOLEAN] /\ leaving' \in SUBSET Conns
    BY <1>21, DroppedType DEF ConnectReturns, TypeOK
  <2> QED BY <1>21, <2>1, <2>2 DEF TypeOK, ConnectReturns
<1>22. ASSUME NEW x \in Callers, ConnectCancelled(x) PROVE TypeOK'
  BY <1>22, CallDone, DroppedType DEF TypeOK, ConnectCancelled
<1>23. ASSUME NEW x \in Callers, CallerDrops(x) PROVE TypeOK'
  BY <1>23, CallDone, DroppedType DEF TypeOK, CallerDrops
<1>24. ASSUME NEW c \in Conns, LeavingSends(c) PROVE TypeOK'
  <2>1. key[c] \in Keys
    BY <1>24 DEF LeavingSends, OwnedMade, TypeOK
  <2>2. [op |-> "disconnect", key |-> key[c], who |-> NoCaller] \in Command
    BY <2>1 DEF Command
  <2>3. queue' \in Seq(Command) /\ leaving' \in SUBSET Conns
    BY <1>24, <2>2, SendsType DEF LeavingSends, TypeOK
  <2> QED BY <1>24, <2>3 DEF TypeOK, LeavingSends
<1>25. ASSUME NEW c \in Conns, AcceptorDrops(c) PROVE TypeOK'
  BY <1>25, DroppedType DEF TypeOK, AcceptorDrops
<1>26. ASSUME NEW c \in Conns, ConnTakes(c) PROVE TypeOK'
  <2>1. pend' \in [Conns -> Nat]
    BY <1>26 DEF ConnTakes, HasCommand, TypeOK
  <2> QED BY <1>26, <2>1 DEF TypeOK, ConnTakes
<1>27. ASSUME NEW c \in Conns, ConnFinishes(c) \/ ConnFails(c) PROVE TypeOK'
  <2>1. ConnStops(c)
    BY <1>27 DEF ConnFinishes, ConnFails
  <2>2. /\ running' \in [Conns -> BOOLEAN] /\ open' \in [Conns -> BOOLEAN]
        /\ pend' \in [Conns -> Nat]
    BY <2>1 DEF ConnStops, TypeOK
  <2>3. session' \in SUBSET Keys
    BY <1>27 DEF ConnFinishes, ConnFails, TypeOK
  <2> QED BY <2>1, <2>2, <2>3 DEF TypeOK, ConnStops
<1> QED
  BY <1>1, <1>2, <1>3, <1>4, <1>5, <1>6, <1>7, <1>8, <1>9, <1>10, <1>11, <1>12,
     <1>13, <1>14, <1>15, <1>16, <1>17, <1>18, <1>19, <1>20, <1>21, <1>22, <1>23,
     <1>24, <1>25, <1>26, <1>27 DEF Next, HubStep

-----------------------------------------------------------------------------
(* The shape of a step, and the conjuncts of the invariant that are not    *)
(* about the map.                                                          *)

LEMMA DropsOwned ==
  ASSUME OwnedMade, NEW h, NEW cs, key' = key,
         refs' = Drops(h, cs), leaving' = LeavingAfter(Drops(h, cs))
  PROVE  OwnedMade'
  BY DEF OwnedMade, Drops, LeavingAfter, Dying, Alive

LEMMA ContinuesOwned ==
  ASSUME OwnedMade, NEW o, HubContinues(o), key' = key
  PROVE  OwnedMade'
<1>1. CASE hub.fresh
  BY <1>1 DEF HubContinues, OwnedMade, Alive
<1>2. CASE ~hub.fresh
  BY <1>2, DropsOwned DEF HubContinues
<1> QED
  BY <1>1, <1>2

LEMMA ContinuesHub ==
  ASSUME TypeOK, HubConnMade, NEW o, HubContinues(o), key' = key,
         hub.at \in {"forward", "sending"}
  PROVE  AssertFree' /\ HubConnMade'
<1>1. CASE hub.fresh
  <2>1. hub'.at = "accept" /\ hub'.conn = hub.conn
    BY <1>1 DEF HubContinues, TypeOK, HubState
  <2> QED BY <2>1 DEF AssertFree, HubConnMade
<1>2. CASE ~hub.fresh
  BY <1>2 DEF HubContinues, Idle, AssertFree, HubConnMade
<1> QED
  BY <1>1, <1>2

LEMMA DroppedShrinks ==
  ASSUME TypeOK, NEW r, HandlesBecome(r), key' = key, map' = map
  PROVE  Shrinks
  BY HandlesType, SameMapShrinks DEF HandlesBecome

(* What HubCreates does, for the proofs that split its cases.              *)
Creates(c) ==
  /\ hub.at = "assert" /\ c \in Conns /\ key[c] = NoKey
  /\ key' = [key EXCEPT ![c] = hub.key]
  /\ map' = [map EXCEPT ![hub.key] = c]
  /\ \A d \in Conns : d # c => refs'[d] = refs[d] /\ open'[d] = open[d]
  /\ leaving' \subseteq leaving \cup {c}
  /\ hub'.at = "loop" \/ (hub'.at = "forward" /\ hub'.conn = c)
  /\ open'[c] \in {open[c], TRUE}

LEMMA CreatesShape ==
  ASSUME TypeOK, HubCreates
  PROVE  \E c \in Conns : Creates(c)
<1>1. PICK c \in Unused :
        /\ key' = [key EXCEPT ![c] = hub.key]
        /\ map' = [map EXCEPT ![hub.key] = c]
        /\ \/ /\ refs' = [refs EXCEPT ![c] = {Task}]
              /\ open' = [open EXCEPT ![c] = TRUE]
              /\ hub' = [Idle EXCEPT !.at = "forward", !.conn = c, !.fresh = TRUE]
              /\ UNCHANGED leaving
           \/ /\ refs' = [refs EXCEPT ![c] = {hub.who}]
              /\ open' = [open EXCEPT ![c] = TRUE]
              /\ hub' = Idle
              /\ UNCHANGED leaving
           \/ /\ leaving' = leaving \cup {c}
              /\ hub' = Idle
              /\ UNCHANGED << refs, open >>
  BY DEF HubCreates
<1>2. c \in Conns /\ key[c] = NoKey /\ hub.at = "assert"
  BY DEF Unused, HubCreates
<1>3. \A d \in Conns : d # c => refs'[d] = refs[d] /\ open'[d] = open[d]
  BY <1>1, <1>2 DEF TypeOK
<1>4. leaving' \subseteq leaving \cup {c}
  BY <1>1
<1>5. hub'.at = "loop" \/ (hub'.at = "forward" /\ hub'.conn = c)
  <2>1. CASE hub' = Idle
    BY <2>1 DEF Idle
  <2>2. CASE hub' = [Idle EXCEPT !.at = "forward", !.conn = c, !.fresh = TRUE]
    BY <2>2 DEF Idle
  <2> QED BY <1>1, <2>1, <2>2
<1>6. open'[c] \in {open[c], TRUE}
  BY <1>1, <1>2 DEF TypeOK
<1> QED
  BY <1>1, <1>2, <1>3, <1>4, <1>5, <1>6 DEF Creates

LEMMA HubRestStep ==
  ASSUME HubInv, Next
  PROVE  /\ AssertFree' /\ HubConnMade' /\ OwnedMade'
         /\ Shrinks \/ \E c \in Conns : Creates(c)
<1> USE DEF connVars, ownerVars, HubInv
<1> DEFINE Goal == /\ AssertFree' /\ HubConnMade' /\ OwnedMade'
                   /\ Shrinks \/ \E c \in Conns : Creates(c)
(* Steps of the other tasks leave the hub and the map alone.               *)
<1>a. ASSUME hub' = hub, map' = map, key' = key, OwnedMade',
             \A c \in Conns : open'[c] => open[c]
      PROVE  Goal
  BY <1>a, SameMapShrinks DEF AssertFree, HubConnMade
(* Nor do steps that end in the loop assert or pass on anything.           *)
<1>b. ASSUME hub' = Idle, OwnedMade', Shrinks
      PROVE  Goal
  BY <1>b DEF AssertFree, HubConnMade, Idle
<1>c. ASSUME hub.at = "loop", hub' = hub, OwnedMade', Shrinks
      PROVE  Goal
  BY <1>c DEF AssertFree, HubConnMade
<1>d. ASSUME UNCHANGED << refs, leaving, key >>
      PROVE  OwnedMade'
  BY <1>d DEF OwnedMade, Alive
<1>1. CASE HubIgnoresSelf
  BY <1>1, <1>a, <1>d DEF HubIgnoresSelf
<1>2. CASE HubRefusesSelf
  BY <1>2, <1>a, <1>d DEF HubRefusesSelf
<1>3. CASE HubFindsForSignal
  <2> DEFINE c == Found(Head(queue).key)
  <2>1. Head(queue).key \in Keys
    BY <1>3, TakesType, CommandType DEF HubFindsForSignal
  <2>2. c \in Conns /\ key[c] # NoKey
    BY <1>3, <2>1, FoundType DEF HubFindsForSignal, OwnedMade
  <2>3. OwnedMade'
    BY <1>3, <2>2 DEF HubFindsForSignal, OwnedMade, Alive, TypeOK
  <2>4. Shrinks
    BY <1>3, PrunedType, OpenWithoutShrinks DEF HubFindsForSignal
  <2>5. hub'.at = "forward" /\ hub'.conn = c /\ key' = key
    BY <1>3 DEF HubFindsForSignal, Idle
  <2> QED BY <2>2, <2>3, <2>4, <2>5 DEF AssertFree, HubConnMade
<1>4. CASE HubFindsForCaller
  <2> DEFINE c == Found(Head(queue).key)
             x == Head(queue).who
  <2>1. Head(queue).key \in Keys /\ hub.at = "loop"
    BY <1>4, TakesType, CommandType DEF HubFindsForCaller
  <2>2. c \in Conns /\ key[c] # NoKey
    BY <1>4, <2>1, FoundType DEF HubFindsForCaller, OwnedMade
  <2>3. refs' = [refs EXCEPT ![c] = @ \cup {x}] \/ refs' = refs
    BY <1>4 DEF HubFindsForCaller
  <2>4. OwnedMade'
    BY <1>4, <2>2, <2>3 DEF HubFindsForCaller, OwnedMade, Alive, TypeOK
  <2>5. Shrinks
    BY <1>4, PrunedType, OpenWithoutShrinks DEF HubFindsForCaller
  <2> QED BY <1>4, <1>c, <2>1, <2>4, <2>5 DEF HubFindsForCaller
<1>5. CASE HubAsserts
  <2>1. Head(queue).key \in Keys
    BY <1>5, TakesType, CommandType DEF HubAsserts
  <2>2. hub'.at = "assert" /\ hub'.key = Head(queue).key
    BY <1>5 DEF HubAsserts, Idle
  <2>3. map'[Head(queue).key] = NoConn
    BY <1>5 DEF HubAsserts, Found
  <2>4. Shrinks /\ OwnedMade'
    BY <1>5, <1>d, PrunedType, OpenWithoutShrinks DEF HubAsserts
  <2> QED BY <2>1, <2>2, <2>3, <2>4 DEF AssertFree, HubConnMade
<1>6. CASE HubAssertFails
  BY <1>6, <1>b, <1>d, SameMapShrinks DEF HubAssertFails
<1>7. CASE HubCreates
  <2>1. PICK c \in Conns : Creates(c)
    BY <1>7, CreatesShape
  <2>2. key'[c] # NoKey /\ \A d \in Conns : key[d] # NoKey => key'[d] # NoKey
    BY <2>1, HubAssumption DEF Creates, AssertFree, TypeOK
  <2>3. OwnedMade'
    BY <2>1, <2>2 DEF Creates, OwnedMade, Alive
  <2> QED BY <2>1, <2>2, <2>3 DEF Creates, AssertFree, HubConnMade
<1>8. CASE HubForwards
  <2>1. hub'.at = "sending" /\ hub'.conn = hub.conn /\ hub.at = "forward"
    BY <1>8 DEF HubForwards, TypeOK, HubState
  <2>2. Shrinks /\ OwnedMade'
    BY <1>8, <1>d, SameMapShrinks DEF HubForwards
  <2> QED BY <1>8, <2>1, <2>2 DEF HubForwards, AssertFree, HubConnMade
<1>9. CASE HubForwarded
  BY <1>9, ContinuesHub, ContinuesOwned, ContinuesShrinks DEF HubForwarded
<1>10. CASE HubForwardTimesOut
  <2> DEFINE o == [open EXCEPT ![hub.conn] = FALSE]
  <2>1. \A c \in Conns : o[c] => open[c]
    BY DEF TypeOK
  <2>2. HubContinues(o) /\ key' = key /\ map' = map /\ hub.at = "sending"
    BY <1>10 DEF HubForwardTimesOut
  <2> HIDE DEF o
  <2> QED BY <2>1, <2>2, ContinuesHub, ContinuesOwned, ContinuesShrinks
<1>11. CASE HubHandsOver
  <2>1. hub.conn \in Conns /\ key[hub.conn] # NoKey
    BY <1>11 DEF HubHandsOver, HubConnMade
  <2>2. OwnedMade'
    BY <1>11, <2>1 DEF HubHandsOver, OwnedMade, Alive, TypeOK
  <2> QED BY <1>11, <1>b, <2>2, SameMapShrinks DEF HubHandsOver
<1>12. CASE HubHandOverFails
  BY <1>12, <1>b, DropsOwned, DroppedShrinks DEF HubHandOverFails, HandlesBecome
<1>13. CASE HubDisconnects
  <2> DEFINE m == [map EXCEPT ![Head(queue).key] = NoConn]
  <2>1. Head(queue).key \in Keys /\ hub.at = "loop"
    BY <1>13, TakesType, CommandType DEF HubDisconnects
  <2>2. \A k \in Keys : m[k] \in {map[k], NoConn}
    BY <2>1 DEF TypeOK
  <2>3. map' = m /\ open' = OpenWithout(m) /\ key' = key /\ hub' = hub
    BY <1>13 DEF HubDisconnects, Forget
  <2> HIDE DEF m
  <2>4. Shrinks
    BY <2>2, <2>3, OpenWithoutShrinks
  <2> QED BY <1>13, <1>c, <1>d, <2>1, <2>3, <2>4 DEF HubDisconnects
<1>14. CASE HubEnds
  <2> DEFINE m == [k \in Keys |-> NoConn]
  <2>1. OwnedMade'
    BY <1>14, DropsOwned DEF HubEnds
  <2>2. map' = m /\ key' = key /\ \A c \in Conns : open'[c] => OpenWithout(m)[c]
    BY <1>14 DEF HubEnds
  <2>3. \A k \in Keys : m[k] \in {map[k], NoConn}
    OBVIOUS
  <2> HIDE DEF m
  <2>4. Shrinks
    BY <2>2, <2>3, OpenWithoutShrinks
  <2> QED BY <1>14, <2>1, <2>4 DEF HubEnds, Idle, AssertFree, HubConnMade
<1>15. ASSUME NEW k \in Keys, SignalArrives(k) PROVE Goal
  BY <1>15, <1>a, <1>d DEF SignalArrives
<1>16. CASE SignalLost
  BY <1>16, <1>a, <1>d DEF SignalLost
<1>17. CASE HubDropped
  BY <1>17, <1>a, <1>d DEF HubDropped
<1>18. CASE Accepts
  BY <1>18, <1>a, <1>d DEF Accepts
<1>19. CASE AcceptorLeaves
  BY <1>19, <1>a, DropsOwned, HandlesType DEF AcceptorLeaves, HandlesBecome
<1>20. ASSUME NEW x \in Callers, NEW k \in Keys, Connects(x, k) PROVE Goal
  BY <1>20, <1>a, <1>d DEF Connects
<1>21. ASSUME NEW x \in Callers, ConnectReturns(x) PROVE Goal
  <2>1. CASE caller[x].fresh
    BY <1>21, <2>1, <1>a, <1>d DEF ConnectReturns
  <2>2. CASE ~caller[x].fresh
    BY <1>21, <2>2, <1>a, DropsOwned, HandlesType DEF ConnectReturns, HandlesBecome
  <2> QED BY <2>1, <2>2
<1>22. ASSUME NEW x \in Callers, ConnectCancelled(x) PROVE Goal
  BY <1>22, <1>a, DropsOwned, HandlesType DEF ConnectCancelled, HandlesBecome
<1>23. ASSUME NEW x \in Callers, CallerDrops(x) PROVE Goal
  BY <1>23, <1>a, DropsOwned, HandlesType DEF CallerDrops, HandlesBecome
<1>24. ASSUME NEW c \in Conns, LeavingSends(c) PROVE Goal
  <2>1. OwnedMade'
    BY <1>24 DEF LeavingSends, OwnedMade, Alive
  <2> QED BY <1>24, <1>a, <2>1 DEF LeavingSends
<1>25. ASSUME NEW c \in Conns, AcceptorDrops(c) PROVE Goal
  BY <1>25, <1>a, DropsOwned, HandlesType DEF AcceptorDrops, HandlesBecome
<1>26. ASSUME NEW c \in Conns, ConnTakes(c) PROVE Goal
  BY <1>26, <1>a, <1>d DEF ConnTakes
<1>27. ASSUME NEW c \in Conns, ConnFinishes(c) \/ ConnFails(c) PROVE Goal
  <2>1. ConnStops(c)
    BY <1>27 DEF ConnFinishes, ConnFails
  <2>2. \A d \in Conns : open'[d] => open[d]
    BY <2>1 DEF ConnStops, TypeOK
  <2> QED BY <2>1, <2>2, <1>a, <1>d DEF ConnStops
<1> QED
  BY <1>1, <1>2, <1>3, <1>4, <1>5, <1>6, <1>7, <1>8, <1>9, <1>10, <1>11, <1>12,
     <1>13, <1>14, <1>15, <1>16, <1>17, <1>18, <1>19, <1>20, <1>21, <1>22, <1>23,
     <1>24, <1>25, <1>26, <1>27 DEF Next, HubStep

-----------------------------------------------------------------------------
(* The theorems.                                                           *)

LEMMA ShrinksMapInv ==
  ASSUME HubInv, Shrinks
  PROVE  MapKeys' /\ OpenIsRegistered'
<1>1. MapKeys'
  BY DEF HubInv, MapKeys, Shrinks
<1>2. OpenIsRegistered'
  BY DEF HubInv, TypeOK, OpenIsRegistered, Registered, Shrinks
<1> QED
  BY <1>1, <1>2

LEMMA CreatesMapInv ==
  ASSUME HubInv, NEW c \in Conns, Creates(c)
  PROVE  MapKeys' /\ OpenIsRegistered'
<1> USE DEF HubInv
<1>1. hub.key \in Keys /\ hub.key # NoKey /\ map[hub.key] = NoConn
  BY HubAssumption DEF Creates, AssertFree
<1>2. /\ key'[c] = hub.key /\ \A d \in Conns : d # c => key'[d] = key[d]
      /\ map'[hub.key] = c /\ \A k \in Keys : k # hub.key => map'[k] = map[k]
  <2>1. /\ key \in [Conns -> Keys \cup {NoKey}] /\ map \in [Keys -> Conns \cup {NoConn}]
        /\ key' = [key EXCEPT ![c] = hub.key] /\ map' = [map EXCEPT ![hub.key] = c]
    BY DEF Creates, TypeOK
  <2> QED
    BY <1>1, <2>1
<1>3. \A k \in Keys : map[k] # c
  BY ConnsNat, HubAssumption DEF Creates, MapKeys, TypeOK
<1>4. MapKeys'
  <2>1. SUFFICES ASSUME NEW k \in Keys, map'[k] # NoConn
        PROVE  key'[map'[k]] = k
    BY DEF MapKeys
  <2>2. CASE k = hub.key
    BY <1>2, <2>2
  <2>3. CASE k # hub.key
    <3>1. map'[k] = map[k] /\ map[k] # NoConn /\ map[k] # c
      BY <1>2, <1>3, <2>1, <2>3
    <3>2. map[k] \in Conns /\ key[map[k]] = k
      BY <3>1 DEF MapKeys, TypeOK
    <3> QED
      BY <1>2, <3>1, <3>2
  <2> QED
    BY <2>2, <2>3
<1>5. ASSUME NEW d \in Conns, open'[d] PROVE Registered(d)'
  <2>1. CASE d = c
    BY <2>1, <1>1, <1>2 DEF Registered
  <2>2. CASE d # c
    <3>1. open[d] /\ key'[d] = key[d]
      BY <2>2, <1>2, <1>5 DEF Creates
    <3>2. key[d] # NoKey /\ map[key[d]] = d /\ key[d] \in Keys
      BY <3>1 DEF OpenIsRegistered, Registered, TypeOK
    <3>3. key[d] # hub.key
      BY <1>1, <3>2, ConnsNat
    <3> QED BY <1>2, <3>1, <3>2, <3>3 DEF Registered
  <2> QED BY <2>1, <2>2
<1> QED
  BY <1>4, <1>5 DEF OpenIsRegistered

(* The hub's invariant, from which the theorems below follow.              *)
THEOREM HubInvariant == Spec => []HubInv
<1>1. Init => HubInv
  <2> SUFFICES ASSUME Init PROVE HubInv
    OBVIOUS
  <2> USE DEF Init
  <2>1. caller \in [Callers -> Call]
    BY DEF Call
  <2>2. refs \in [Conns -> SUBSET Holders] /\ signals \in 0..MaxSignals
    BY HubAssumption
  <2>3. queue \in Seq(Command) /\ accq \in Seq(Conns)
    BY EmptySeq
  <2>4. TypeOK
    BY <2>1, <2>2, <2>3, IdleType DEF TypeOK
  <2>5. MapKeys /\ OpenIsRegistered /\ OwnedMade
    BY DEF MapKeys, OpenIsRegistered, OwnedMade, Alive
  <2>6. AssertFree /\ HubConnMade
    BY DEF AssertFree, HubConnMade, Idle
  <2> QED BY <2>4, <2>5, <2>6 DEF HubInv
<1>2. HubInv /\ [Next]_vars => HubInv'
  <2> SUFFICES ASSUME HubInv, [Next]_vars PROVE HubInv'
    OBVIOUS
  <2>1. CASE Next
    <3>1. TypeOK'
      BY <2>1, HubTypeStep DEF HubInv
    <3>2. MapKeys' /\ OpenIsRegistered'
      BY <2>1, HubRestStep, ShrinksMapInv, CreatesMapInv
    <3> QED BY <2>1, <3>1, <3>2, HubRestStep DEF HubInv
  <2>2. CASE UNCHANGED vars
    BY <2>2 DEF HubInv, TypeOK, MapKeys, OpenIsRegistered, Registered, AssertFree,
                HubConnMade, OwnedMade, Alive, vars, connVars, ownerVars
  <2> QED BY <2>1, <2>2
<1> QED
  BY <1>1, <1>2, PTL DEF Spec

(* The state of the hub, its connections and their owners is well typed.   *)
THEOREM HubTypeOK == Spec => []TypeOK
<1>1. HubInv => TypeOK
  BY DEF HubInv
<1> QED
  BY <1>1, HubInvariant, PTL

(* A key never has two open connections: whatever the order in which       *)
(* handles are dropped and Disconnects obeyed, an open connection is the   *)
(* one registered for its key.                                             *)
THEOREM OpenConnectionsRegistered == Spec => []OpenIsRegistered
<1>1. HubInv => OpenIsRegistered
  BY DEF HubInv
<1> QED
  BY <1>1, HubInvariant, PTL

LEMMA OpenConnIs ==
  ASSUME TypeOK, NEW k \in Keys
  PROVE  OpenConn[k] = IF map[k] # NoConn /\ open[map[k]] THEN map[k] ELSE NoConn
  BY DEF OpenConn

LEMMA ShrinksCloses ==
  ASSUME HubInv, Shrinks
  PROVE  Registry!Next
<1> DEFINE ks == {k \in Keys : OpenConn'[k] = NoConn}
<1>1. Made' = Made
  BY DEF Shrinks, Made
<1>2. ASSUME NEW k \in Keys, OpenConn'[k] # NoConn
      PROVE  OpenConn'[k] = OpenConn[k]
  <2>1. map'[k] # NoConn /\ open'[map'[k]] /\ OpenConn'[k] = map'[k]
    BY <1>2 DEF OpenConn
  <2>2. map'[k] = map[k] /\ map[k] \in Conns
    BY <2>1 DEF Shrinks, HubInv, TypeOK
  <2>3. open[map[k]]
    BY <2>1, <2>2 DEF Shrinks
  <2> QED BY <2>1, <2>2, <2>3 DEF OpenConn
<1>3. OpenConn' = [k \in Keys |-> IF k \in ks THEN NoConn ELSE OpenConn[k]]
  BY <1>2 DEF OpenConn
<1>4. Registry!Close(ks)
  BY <1>1, <1>3 DEF Registry!Close
<1> QED
  BY <1>4 DEF Registry!Next

LEMMA CreatesOpens ==
  ASSUME HubInv, NEW c \in Conns, Creates(c)
  PROVE  Registry!Next
<1> USE DEF HubInv
<1> DEFINE k == hub.key
<1>1. k \in Keys /\ k # NoKey /\ map[k] = NoConn
  BY HubAssumption DEF Creates, AssertFree
<1>2. key[c] = NoKey /\ key' = [key EXCEPT ![c] = k]
  BY DEF Creates
<1>3. c \notin Made /\ Made' = Made \cup {c}
  BY <1>1, <1>2 DEF Made, TypeOK
<1>4. \A j \in Keys : map[j] # c
  BY ConnsNat, HubAssumption, <1>2 DEF MapKeys, TypeOK
<1>5. ~open[c]
  BY <1>2 DEF OpenIsRegistered, Registered
<1>6. /\ map'[k] = c /\ \A j \in Keys : j # k => map'[j] = map[j]
  BY <1>1 DEF Creates, TypeOK
<1>7. \A j \in Keys : j # k => OpenConn'[j] = OpenConn[j]
  <2> SUFFICES ASSUME NEW j \in Keys, j # k PROVE OpenConn'[j] = OpenConn[j]
    OBVIOUS
  <2>1. map'[j] = map[j] /\ (map[j] # NoConn => map[j] \in Conns \ {c})
    BY <1>4, <1>6 DEF TypeOK
  <2>2. map[j] # NoConn => open'[map[j]] = open[map[j]]
    BY <2>1 DEF Creates
  <2> QED BY <2>1, <2>2 DEF OpenConn
<1>8. OpenConn[k] = NoConn
  BY <1>1 DEF OpenConn
<1>9. CASE open'[c]
  <2>1. OpenConn'[k] = c
    BY <1>1, <1>6, <1>9, ConnsNat DEF OpenConn
  <2>2. OpenConn' = [OpenConn EXCEPT ![k] = c]
    BY <1>1, <1>7, <2>1 DEF OpenConn
  <2> QED BY <1>1, <1>3, <1>8, <2>2 DEF Registry!Next, Registry!Open
<1>10. CASE ~open'[c]
  <2>1. OpenConn'[k] = NoConn
    BY <1>1, <1>6, <1>10 DEF OpenConn
  <2>2. OpenConn' = OpenConn
    BY <1>7, <1>8, <2>1 DEF OpenConn
  <2> QED BY <1>3, <2>2 DEF Registry!Next, Registry!Waste
<1> QED
  BY <1>9, <1>10

(* The hub implements the registry: the open connection of a key is never  *)
(* replaced by another one, and a closed connection never opens again.     *)
THEOREM HubImplementsRegistry == Spec => RegistrySpec
<1>1. Init => Registry!Init
  BY DEF Init, Registry!Init, OpenConn, Made
<1>2. HubInv /\ [Next]_vars => [Registry!Next]_(Registry!regVars)
  <2> SUFFICES ASSUME HubInv, [Next]_vars
               PROVE  [Registry!Next]_(Registry!regVars)
    OBVIOUS
  <2>1. CASE Next
    BY <2>1, HubRestStep, ShrinksCloses, CreatesOpens
  <2>2. CASE UNCHANGED vars
    BY <2>2 DEF vars, connVars, ownerVars, Registry!regVars, OpenConn, Made
  <2> QED BY <2>1, <2>2
<1> QED
  BY <1>1, <1>2, HubInvariant, PTL DEF Spec, RegistrySpec, Registry!Spec

-----------------------------------------------------------------------------
(* Sessions.  A session is not forgotten because a registered connection   *)
(* without handles has its Disconnect still to come, and a hub that ended  *)
(* has closed its sessions and has no map.                                 *)
Disconnecting(k) ==
  \/ \E c \in leaving : key[c] = k
  \/ \E i \in 1..Len(queue) : queue[i].op = "disconnect" /\ queue[i].key = k
DeadIsLeaving ==
  \A k \in Keys : map[k] # NoConn /\ ~Alive(map[k]) => Disconnecting(k)
EndForgets == hub.at = "end" => session = {} /\ \A k \in Keys : map[k] = NoConn

OwnerInv == DeadIsLeaving /\ EndForgets /\ SessionHasOwner

Owned(k) ==
  \/ map[k] # NoConn
  \/ \E i \in 1..Len(queue) : queue[i].key = k
  \/ hub.at = "assert" /\ hub.key = k
  \/ \E c \in leaving : key[c] = k

LEMMA SessionOwned == SessionHasOwner <=> \A k \in session \ {Self} : Owned(k)
  BY DEF SessionHasOwner, Owned

LEMMA DisconnectingOwns ==
  ASSUME NEW k, Disconnecting(k)
  PROVE  Owned(k)
  BY DEF Disconnecting, Owned

LEMMA TakesKeeps ==
  ASSUME TypeOK, NEW op, Takes(op), NEW i \in 1..Len(queue), queue[i] # Head(queue)
  PROVE  i - 1 \in 1..Len(queue') /\ queue'[i - 1] = queue[i]
<1>1. queue \in Seq(Command) /\ queue # << >> /\ queue' = Tail(queue)
  BY DEF TypeOK, Takes
<1>2. Head(queue) = queue[1] /\ i # 1
  BY <1>1
<1> QED
  BY <1>1, <1>2

LEMMA SendsKeeps ==
  ASSUME TypeOK, NEW cmd, Sends(cmd)
  PROVE  /\ \A i \in 1..Len(queue) : i \in 1..Len(queue') /\ queue'[i] = queue[i]
         /\ \E i \in 1..Len(queue') : queue'[i] = cmd
<1>1. queue \in Seq(Command) /\ queue' = Append(queue, cmd)
  BY DEF TypeOK, Sends
<1>2. Len(queue') = Len(queue) + 1 /\ queue'[Len(queue) + 1] = cmd /\ Len(queue) \in Nat
  BY <1>1
<1> QED
  BY <1>1, <1>2

(* A step that takes nothing from the queue or the map.                    *)
LEMMA CalmStep ==
  ASSUME HubInv, OwnerInv, UNCHANGED << map, key >>, leaving \subseteq leaving',
         \A c \in Conns : Alive(c) => refs'[c] # {} \/ c \in leaving',
         \A i \in 1..Len(queue) : i \in 1..Len(queue') /\ queue'[i] = queue[i],
         \A k \in session' : k \in session \/ \E i \in 1..Len(queue') : queue'[i].key = k,
         hub.at = "assert" =>
           (hub'.at = "assert" /\ hub'.key = hub.key) \/ hub.key \notin session,
         hub'.at = "end" => hub.at = "end" /\ session' \subseteq session
  PROVE  OwnerInv'
<1>1. ASSUME NEW k, Disconnecting(k)
      PROVE  Disconnecting(k)'
  BY <1>1 DEF Disconnecting
<1>2. DeadIsLeaving'
  <2> SUFFICES ASSUME NEW k \in Keys, map[k] # NoConn, refs'[map[k]] = {}
               PROVE  Disconnecting(k)'
    BY DEF DeadIsLeaving, Alive
  <2>1. map[k] \in Conns /\ key[map[k]] = k
    BY DEF HubInv, TypeOK, MapKeys
  <2>2. CASE Alive(map[k])
    BY <2>1, <2>2 DEF Disconnecting
  <2>3. CASE ~Alive(map[k])
    BY <2>3, <1>1 DEF OwnerInv, DeadIsLeaving
  <2> QED BY <2>2, <2>3
<1>3. ASSUME NEW k \in session' \ {Self}
      PROVE  Owned(k)'
  <2>1. CASE k \notin session
    BY <2>1 DEF Owned
  <2>2. CASE k \in session
    BY <2>2, SessionOwned DEF OwnerInv, Owned
  <2> QED BY <2>1, <2>2
<1>4. SessionHasOwner'
  BY <1>3 DEF SessionHasOwner, Owned
<1>5. EndForgets'
  BY DEF OwnerInv, EndForgets
<1> QED
  BY <1>2, <1>4, <1>5 DEF OwnerInv

(* A step that takes a command of the peer Head(queue).key.                *)
LEMMA TakingStep ==
  ASSUME HubInv, OwnerInv, NEW op, Takes(op), key' = key, leaving' = leaving,
         session' \subseteq session,
         \A c \in Conns : Alive(c) => refs'[c] # {},
         \A k \in Keys : map'[k] \in {map[k], NoConn},
         \A k \in Keys : map[k] # NoConn /\ map'[k] = NoConn =>
                           ~Alive(map[k]) \/ k \notin session',
         op = "disconnect" => Head(queue).key \in Keys /\ map'[Head(queue).key] = NoConn,
         hub'.at # "end",
         \A k \in session' \ {Self} : k = Head(queue).key => Owned(k)'
  PROVE  OwnerInv'
<1>1. ASSUME NEW k, Disconnecting(k), op # "disconnect" \/ k # Head(queue).key
      PROVE  Disconnecting(k)'
  <2>1. ASSUME NEW i \in 1..Len(queue), queue[i].op = "disconnect", queue[i].key = k
        PROVE  \E j \in 1..Len(queue') : queue'[j].op = "disconnect" /\ queue'[j].key = k
    <3>1. queue[i] # Head(queue)
      BY <1>1, <2>1 DEF Takes
    <3> QED BY <2>1, <3>1, TakesKeeps DEF HubInv
  <2> QED BY <1>1, <2>1 DEF Disconnecting
<1>2. DeadIsLeaving'
  <2> SUFFICES ASSUME NEW k \in Keys, map'[k] # NoConn, refs'[map'[k]] = {}
               PROVE  Disconnecting(k)'
    BY DEF DeadIsLeaving, Alive
  <2>1. map'[k] = map[k] /\ map[k] \in Conns
    BY DEF HubInv, TypeOK
  <2>2. Disconnecting(k)
    BY <2>1 DEF OwnerInv, DeadIsLeaving
  <2> QED BY <1>1, <2>2
<1>3. ASSUME NEW k \in session' \ {Self}, k # Head(queue).key
      PROVE  Owned(k)'
  <2>1. Owned(k) /\ k \in Keys
    BY <1>3, SessionOwned DEF OwnerInv, HubInv, TypeOK
  <2>2. CASE map[k] # NoConn
    <3>1. CASE map'[k] # NoConn
      BY <3>1 DEF Owned
    <3>2. CASE map'[k] = NoConn
      <4>1. Disconnecting(k)'
        BY <1>1, <1>3, <2>1, <2>2, <3>2 DEF OwnerInv, DeadIsLeaving
      <4> QED BY <4>1 DEF Disconnecting, Owned
    <3> QED BY <3>1, <3>2
  <2>3. ASSUME NEW i \in 1..Len(queue), queue[i].key = k
        PROVE  Owned(k)'
    <3>1. queue[i] # Head(queue)
      BY <1>3, <2>3
    <3> QED BY <2>3, <3>1, TakesKeeps DEF HubInv, Owned
  <2>4. hub.at = "loop"
    BY DEF Takes
  <2> QED BY <2>1, <2>2, <2>3, <2>4 DEF Owned
<1>4. SessionHasOwner'
  BY <1>3 DEF SessionHasOwner, Owned
<1> QED
  BY <1>2, <1>4 DEF OwnerInv, EndForgets

LEMMA ContinuesCalm ==
  ASSUME HubInv, NEW o, HubContinues(o), hub.at \in {"forward", "sending"}
  PROVE  /\ leaving \subseteq leaving' /\ hub'.at \notin {"assert", "end"}
         /\ \A c \in Conns : Alive(c) => refs'[c] # {} \/ c \in leaving'
<1>1. CASE hub.fresh
  <2>1. hub'.at = "accept"
    BY <1>1 DEF HubContinues, HubInv, TypeOK, HubState
  <2> QED BY <1>1, <2>1 DEF HubContinues, Alive
<1>2. CASE ~hub.fresh
  BY <1>2 DEF HubContinues, LeavingAfter, Dying, Idle
<1> QED
  BY <1>1, <1>2

LEMMA CreatingStep ==
  ASSUME HubInv, OwnerInv, HubCreates
  PROVE  OwnerInv'
<1> USE DEF HubInv
<1>1. PICK c \in Unused :
        /\ key' = [key EXCEPT ![c] = hub.key]
        /\ map' = [map EXCEPT ![hub.key] = c]
        /\ session' = session \cup {hub.key}
        /\ \/ /\ refs' = [refs EXCEPT ![c] = {Task}]
              /\ hub' = [Idle EXCEPT !.at = "forward", !.conn = c, !.fresh = TRUE]
              /\ UNCHANGED leaving
           \/ /\ refs' = [refs EXCEPT ![c] = {hub.who}]
              /\ hub' = Idle
              /\ UNCHANGED leaving
           \/ /\ leaving' = leaving \cup {c}
              /\ hub' = Idle
              /\ UNCHANGED refs
  BY DEF HubCreates
<1>2. /\ c \in Conns /\ key[c] = NoKey /\ c # NoConn
      /\ hub.at = "assert" /\ hub.key \in Keys /\ queue' = queue
  BY ConnsNat DEF Unused, HubCreates, AssertFree
<1>3. hub'.at \notin {"assert", "end"} /\ leaving \subseteq leaving'
  <2>1. CASE hub' = Idle
    BY <1>1, <2>1 DEF Idle
  <2>2. CASE hub' = [Idle EXCEPT !.at = "forward", !.conn = c, !.fresh = TRUE]
    BY <1>1, <2>2 DEF Idle
  <2> QED BY <1>1, <2>1, <2>2
<1>4. /\ map'[hub.key] = c /\ \A k \in Keys : k # hub.key => map'[k] = map[k]
      /\ key'[c] = hub.key /\ \A d \in Conns : d # c => key'[d] = key[d] /\ refs'[d] = refs[d]
      /\ refs'[c] # {} \/ c \in leaving'
  <2>1. /\ key \in [Conns -> Keys \cup {NoKey}] /\ map \in [Keys -> Conns \cup {NoConn}]
        /\ refs \in [Conns -> SUBSET Holders]
    BY DEF TypeOK
  <2> QED BY <1>1, <1>2, <2>1
<1>5. ASSUME NEW k \in Keys, Disconnecting(k)
      PROVE  Disconnecting(k)'
  <2>1. \A d \in leaving : d \in Conns /\ d # c
    BY <1>2 DEF OwnedMade, TypeOK
  <2> QED BY <1>2, <1>3, <1>4, <1>5, <2>1 DEF Disconnecting
<1>6. DeadIsLeaving'
  <2> SUFFICES ASSUME NEW k \in Keys, map'[k] # NoConn, refs'[map'[k]] = {}
               PROVE  Disconnecting(k)'
    BY DEF DeadIsLeaving, Alive
  <2>1. CASE k = hub.key
    BY <1>4, <2>1 DEF Disconnecting
  <2>2. CASE k # hub.key
    <3>1. map'[k] = map[k] /\ map[k] \in Conns /\ key[map[k]] = k
      BY <1>4, <2>2 DEF TypeOK, MapKeys
    <3>2. map[k] # c
      BY <1>2, <3>1, HubAssumption
    <3>3. ~Alive(map[k])
      BY <1>4, <3>1, <3>2 DEF Alive
    <3> QED BY <1>5, <3>1, <3>3 DEF OwnerInv, DeadIsLeaving
  <2> QED BY <2>1, <2>2
<1>7. ASSUME NEW k \in session' \ {Self}
      PROVE  Owned(k)'
  <2>1. CASE k = hub.key
    BY <1>2, <1>4, <2>1 DEF Owned
  <2>2. CASE k # hub.key
    <3>1. k \in session /\ k \in Keys /\ Owned(k)
      BY <1>1, <1>7, <2>2, SessionOwned DEF OwnerInv, TypeOK
    <3>2. \A d \in leaving : d \in Conns /\ d # c
      BY <1>2 DEF OwnedMade, TypeOK
    <3> QED BY <1>2, <1>3, <1>4, <2>2, <3>1, <3>2 DEF Owned
  <2> QED BY <2>1, <2>2
<1>8. SessionHasOwner'
  BY <1>7 DEF SessionHasOwner, Owned
<1> QED
  BY <1>3, <1>6, <1>8 DEF OwnerInv, EndForgets

(* A Disconnect moves from the task of Conn::drop to the queue.            *)
LEMMA LeavingSendsStep ==
  ASSUME HubInv, OwnerInv, NEW c \in Conns, LeavingSends(c)
  PROVE  OwnerInv'
<1> USE DEF HubInv
<1>0. /\ UNCHANGED << hub, map, key, refs, session >> /\ leaving' = leaving \ {c}
      /\ c \in leaving
  BY DEF LeavingSends, connVars
<1>1. CASE hub.at = "end" /\ UNCHANGED queue
  <2>1. \A k \in Keys : map[k] = NoConn
    BY <1>1 DEF OwnerInv, EndForgets
  <2> QED BY <1>0, <1>1, <2>1 DEF OwnerInv, EndForgets, DeadIsLeaving, SessionHasOwner
<1>2. CASE Sends([op |-> "disconnect", key |-> key[c], who |-> NoCaller])
  <2>1. /\ \A i \in 1..Len(queue) : i \in 1..Len(queue') /\ queue'[i] = queue[i]
        /\ \E i \in 1..Len(queue') : queue'[i].op = "disconnect" /\ queue'[i].key = key[c]
    BY <1>2, SendsKeeps
  <2>2. ASSUME NEW k, Disconnecting(k)
        PROVE  Disconnecting(k)'
    BY <1>0, <2>1, <2>2 DEF Disconnecting
  <2>3. ASSUME NEW k, Owned(k)
        PROVE  Owned(k)'
    BY <1>0, <2>1, <2>3 DEF Owned
  <2>4. DeadIsLeaving'
    BY <1>0, <2>2 DEF OwnerInv, DeadIsLeaving, Alive
  <2>5. SessionHasOwner'
    BY <1>0, <2>3 DEF OwnerInv, SessionHasOwner, Owned
  <2> QED BY <1>0, <2>4, <2>5 DEF OwnerInv, EndForgets
<1> QED
  BY <1>1, <1>2 DEF LeavingSends

LEMMA DroppedCalm ==
  ASSUME NEW r, HandlesBecome(r)
  PROVE  /\ leaving \subseteq leaving'
         /\ \A c \in Conns : Alive(c) => refs'[c] # {} \/ c \in leaving'
  BY DEF HandlesBecome, LeavingAfter, Dying

LEMMA OwnerStep ==
  ASSUME HubInv, OwnerInv, Next
  PROVE  OwnerInv'
<1> USE DEF connVars, ownerVars
<1>0. TypeOK
  BY DEF HubInv
(* Steps that leave the queue, the hub's place and the sessions alone.     *)
<1>a. ASSUME UNCHANGED << queue, hub, map, key, session >>, leaving \subseteq leaving',
             \A c \in Conns : Alive(c) => refs'[c] # {} \/ c \in leaving'
      PROVE  OwnerInv'
  BY <1>a, CalmStep
<1>b. ASSUME UNCHANGED << queue, hub, map, key, refs, leaving >>, session' \subseteq session
      PROVE  OwnerInv'
  BY <1>b, CalmStep DEF Alive
<1>1. CASE HubIgnoresSelf
  BY <1>0, <1>1, TakingStep DEF HubIgnoresSelf, Alive, Takes
<1>2. CASE HubRefusesSelf
  BY <1>0, <1>2, TakingStep DEF HubRefusesSelf, Alive, Takes
<1>3. CASE HubFindsForSignal
  <2> DEFINE c == Found(Head(queue).key)
  <2>1. Head(queue).key \in Keys /\ Takes("sig") /\ c \in Conns
    BY <1>0, <1>3, TakesType, CommandType, FoundType DEF HubFindsForSignal
  <2>2. /\ refs' = [refs EXCEPT ![c] = @ \cup {Task}] /\ hub'.at = "forward"
        /\ map'[Head(queue).key] # NoConn
    BY <1>3, <2>1 DEF HubFindsForSignal, Idle, Found
  <2>3. \A d \in Conns : Alive(d) => refs'[d] # {}
    BY <1>0, <2>1, <2>2 DEF Alive, TypeOK
  <2>4. /\ \A k \in Keys : map'[k] \in {map[k], NoConn}
        /\ \A k \in Keys : map[k] # NoConn /\ map'[k] = NoConn => ~Alive(map[k])
    BY <1>3 DEF HubFindsForSignal, Pruned
  <2>5. UNCHANGED << leaving, session, key >>
    BY <1>3 DEF HubFindsForSignal
  <2> HIDE DEF c
  <2> QED BY <2>1, <2>2, <2>3, <2>4, <2>5, TakingStep DEF Owned
<1>4. CASE HubFindsForCaller
  <2> DEFINE c == Found(Head(queue).key)
             x == Head(queue).who
  <2>1. /\ Head(queue).key \in Keys /\ Takes("connect") /\ c \in Conns /\ hub.at = "loop"
    BY <1>0, <1>4, TakesType, CommandType, FoundType DEF HubFindsForCaller
  <2>2. /\ refs' \in {refs, [refs EXCEPT ![c] = @ \cup {x}]} /\ hub' = hub
        /\ map'[Head(queue).key] # NoConn
    BY <1>4, <2>1 DEF HubFindsForCaller, Found
  <2>3. \A d \in Conns : Alive(d) => refs'[d] # {}
    BY <1>0, <2>1, <2>2 DEF Alive, TypeOK
  <2>4. /\ \A k \in Keys : map'[k] \in {map[k], NoConn}
        /\ \A k \in Keys : map[k] # NoConn /\ map'[k] = NoConn => ~Alive(map[k])
    BY <1>4 DEF HubFindsForCaller, Pruned
  <2>5. UNCHANGED << leaving, session, key >>
    BY <1>4 DEF HubFindsForCaller
  <2> HIDE DEF c, x
  <2> QED BY <2>1, <2>2, <2>3, <2>4, <2>5, TakingStep DEF Owned
<1>5. CASE HubAsserts
  <2>1. PICK op \in {"sig", "connect"} : Takes(op)
    BY <1>5 DEF HubAsserts
  <2>2. hub'.at = "assert" /\ hub'.key = Head(queue).key
    BY <1>5 DEF HubAsserts, Idle
  <2>3. /\ \A k \in Keys : map'[k] \in {map[k], NoConn}
        /\ \A k \in Keys : map[k] # NoConn /\ map'[k] = NoConn => ~Alive(map[k])
    BY <1>5 DEF HubAsserts, Pruned
  <2>4. UNCHANGED << refs, leaving, session, key >>
    BY <1>5 DEF HubAsserts
  <2> QED BY <2>1, <2>2, <2>3, <2>4, TakingStep DEF Owned, Alive
<1>6. CASE HubAssertFails
  BY <1>6, CalmStep DEF HubAssertFails, Idle, Alive
<1>7. CASE HubCreates
  BY <1>7, CreatingStep
<1>8. CASE HubForwards
  <2>1. hub.at = "forward" /\ hub'.at = "sending"
    BY <1>0, <1>8 DEF HubForwards, TypeOK, HubState
  <2> QED BY <1>8, <2>1, CalmStep DEF HubForwards, Alive
<1>9. CASE HubForwarded
  BY <1>9, ContinuesCalm, CalmStep DEF HubForwarded
<1>10. CASE HubForwardTimesOut
  <2> DEFINE o == [open EXCEPT ![hub.conn] = FALSE]
  <2>1. HubContinues(o) /\ UNCHANGED << queue, map, session, key >> /\ hub.at = "sending"
    BY <1>10 DEF HubForwardTimesOut
  <2> HIDE DEF o
  <2> QED BY <2>1, ContinuesCalm, CalmStep
<1>11. CASE HubHandsOver
  <2>1. refs' = [refs EXCEPT ![hub.conn] = (@ \ {Task}) \cup {Acceptor}]
    BY <1>11 DEF HubHandsOver
  <2>2. \A c \in Conns : Alive(c) => refs'[c] # {}
    BY <1>0, <2>1 DEF Alive, TypeOK
  <2>3. hub.at = "accept" /\ hub'.at = "loop"
    BY <1>11 DEF HubHandsOver, Idle
  <2> QED BY <1>11, <2>2, <2>3, CalmStep DEF HubHandsOver
<1>12. CASE HubHandOverFails
  BY <1>12, DroppedCalm, CalmStep DEF HubHandOverFails, Idle
<1>13. CASE HubDisconnects
  <2>1. Head(queue).key \in Keys /\ Takes("disconnect") /\ hub.at = "loop"
    BY <1>0, <1>13, TakesType, CommandType DEF HubDisconnects
  <2>2. /\ map' = [map EXCEPT ![Head(queue).key] = NoConn]
        /\ session' = session \ {Head(queue).key}
        /\ UNCHANGED << hub, refs, leaving, key >>
    BY <1>13 DEF HubDisconnects, Forget
  <2>3. /\ \A k \in Keys : map'[k] \in {map[k], NoConn} /\ map'[Head(queue).key] = NoConn
        /\ \A k \in Keys : map[k] # NoConn /\ map'[k] = NoConn => k \notin session'
    BY <1>0, <2>1, <2>2 DEF TypeOK
  <2> QED BY <2>1, <2>2, <2>3, TakingStep DEF Alive
<1>14. CASE HubEnds
  BY <1>14 DEF HubEnds, OwnerInv, DeadIsLeaving, EndForgets, SessionHasOwner
<1>15. ASSUME NEW k \in Keys, SignalArrives(k) PROVE OwnerInv'
  <2>1. PICK i \in 1..Len(queue') : queue'[i] = [op |-> "sig", key |-> k, who |-> NoCaller]
    BY <1>0, <1>15, SendsKeeps DEF SignalArrives
  <2>2. hub.at # "end"
    BY <1>15 DEF SignalArrives, Sends
  <2> QED BY <1>0, <1>15, <2>1, <2>2, SendsKeeps, CalmStep DEF SignalArrives, Alive
<1>16. CASE SignalLost
  <2>1. hub.at # "end"
    BY <1>16 DEF SignalLost, Sends
  <2> QED BY <1>0, <1>16, <2>1, SendsKeeps, CalmStep DEF SignalLost, Alive
<1>17. CASE HubDropped
  BY <1>17, <1>b DEF HubDropped
<1>18. CASE Accepts
  BY <1>18, <1>b DEF Accepts
<1>19. CASE AcceptorLeaves
  BY <1>19, <1>a, DroppedCalm DEF AcceptorLeaves
<1>20. ASSUME NEW x \in Callers, NEW k \in Keys, Connects(x, k) PROVE OwnerInv'
  <2>1. hub.at # "end"
    BY <1>20 DEF Connects, Sends
  <2> QED BY <1>0, <1>20, <2>1, SendsKeeps, CalmStep DEF Connects, Alive
<1>21. ASSUME NEW x \in Callers, ConnectReturns(x) PROVE OwnerInv'
  <2>1. CASE caller[x].fresh
    BY <1>21, <2>1, <1>b DEF ConnectReturns
  <2>2. CASE ~caller[x].fresh
    BY <1>21, <2>2, <1>a, DroppedCalm DEF ConnectReturns
  <2> QED BY <2>1, <2>2
<1>22. ASSUME NEW x \in Callers, ConnectCancelled(x) PROVE OwnerInv'
  BY <1>22, <1>a, DroppedCalm DEF ConnectCancelled
<1>23. ASSUME NEW x \in Callers, CallerDrops(x) PROVE OwnerInv'
  BY <1>23, <1>a, DroppedCalm DEF CallerDrops
<1>24. ASSUME NEW c \in Conns, LeavingSends(c) PROVE OwnerInv'
  BY <1>24, LeavingSendsStep
<1>25. ASSUME NEW c \in Conns, AcceptorDrops(c) PROVE OwnerInv'
  BY <1>25, <1>a, DroppedCalm DEF AcceptorDrops
<1>26. ASSUME NEW c \in Conns, ConnTakes(c) PROVE OwnerInv'
  BY <1>26, <1>b DEF ConnTakes
<1>27. ASSUME NEW c \in Conns, ConnFinishes(c) \/ ConnFails(c) PROVE OwnerInv'
  BY <1>27, <1>b DEF ConnFinishes, ConnFails, ConnStops
<1> QED
  BY <1>1, <1>2, <1>3, <1>4, <1>5, <1>6, <1>7, <1>8, <1>9, <1>10, <1>11, <1>12,
     <1>13, <1>14, <1>15, <1>16, <1>17, <1>18, <1>19, <1>20, <1>21, <1>22, <1>23,
     <1>24, <1>25, <1>26, <1>27 DEF Next, HubStep

(* A session with a peer always has somebody who will close it: an entry   *)
(* of the map, a message that will make one, or a Disconnect, although     *)
(* these overtake each other.                                              *)
THEOREM SessionsAreOwned == Spec => []SessionHasOwner
<1>1. Init => OwnerInv
  BY DEF Init, OwnerInv, DeadIsLeaving, EndForgets, SessionHasOwner, Idle
<1>2. HubInv /\ OwnerInv /\ [Next]_vars => OwnerInv'
  <2> SUFFICES ASSUME HubInv, OwnerInv, [Next]_vars PROVE OwnerInv'
    OBVIOUS
  <2>1. CASE UNCHANGED vars
    BY <2>1 DEF vars, connVars, ownerVars, OwnerInv, DeadIsLeaving, Disconnecting, Alive,
                EndForgets, SessionHasOwner
  <2> QED BY <2>1, OwnerStep
<1>3. OwnerInv => SessionHasOwner
  BY DEF OwnerInv
<1> QED
  BY <1>1, <1>2, <1>3, HubInvariant, PTL DEF Spec
=============================================================================
