-------------------------------- MODULE Hub --------------------------------
(***************************************************************************)
(* Hub (tx5-connection/src/hub.rs): the connections that share one         *)
(* connection to the signal server.  One task owns the map from public     *)
(* keys to connections and obeys commands from a bounded channel; the map  *)
(* holds a connection weakly (it never keeps it alive) together with a     *)
(* command sender that closes the connection's channel when it is dropped. *)
(*                                                                         *)
(* The handles (Arc<Conn>) belong to the callers of connect, to the owner  *)
(* of HubRecv, and for a moment to the task itself.  When the last one     *)
(* goes, Conn::drop closes the command channel, aborts the connection's    *)
(* task and spawns a task that sends Disconnect to the hub: until it is    *)
(* obeyed, the key may already belong to a newer connection.               *)
(*                                                                         *)
(* Of a connection (conn.rs) only its command channel and the life of its  *)
(* task are visible here.  The signal client is external: `session` are    *)
(* the peers it has a session with.                                        *)
(***************************************************************************)
EXTENDS Naturals, Sequences, FiniteSets

CONSTANTS
  Keys,        \* public keys
  Self,        \* the hub's own key
  Callers,     \* calls of Hub::connect
  MaxSignals,  \* messages received from the signal server (bounds the model)
  HubCap,      \* capacity of the hub's command channel (32)
  AcceptCap,   \* capacity of the channel behind HubRecv (32)
  CmdCap,      \* capacity of a connection's command channel (1024)
  NoKey, NoCaller,
  Task,        \* the hub's task, as the holder of a handle
  Acceptor     \* the owner of HubRecv, as the holder of handles

(* Each command makes at most one connection. *)
MaxConns == Cardinality(Callers) + MaxSignals
Conns == 1..MaxConns
NoConn == 0

ASSUME HubAssumption ==
  /\ Self \in Keys /\ NoKey \notin Keys
  /\ IsFiniteSet(Callers) /\ NoCaller \notin Callers
  /\ MaxSignals \in Nat
  /\ HubCap \in Nat \ {0} /\ AcceptCap \in Nat \ {0} /\ CmdCap \in Nat \ {0}
  /\ Task # Acceptor /\ {Task, Acceptor} \cap Callers = {}

VARIABLES
  queue,    \* the hub's command channel
  hub,      \* where the hub's task is
  map,      \* the connection registered for a key
  key,      \* the key of a connection, NoKey until it is made
  refs,     \* who holds a handle of a connection
  open,     \* the command channel of a connection takes commands
  pend,     \* commands waiting in it
  running,  \* the task of a connection has not ended
  leaving,  \* dropped connections whose Disconnect is not sent yet
  caller,   \* where a call of connect is, and what it was answered
  accq,     \* the channel behind HubRecv
  accepting,\* HubRecv is not dropped
  dropped,  \* the Hub is dropped
  session,  \* peers the signal client has a session with
  signals   \* messages the signal server may still deliver

connVars == << key, open, pend, running >>
ownerVars == << caller, accq, accepting >>
vars == << queue, hub, map, refs, leaving, dropped, session, signals,
           connVars, ownerVars >>

Holders == Callers \cup {Task, Acceptor}
Items(s) == {s[i] : i \in 1..Len(s)}

Command ==
  [op : {"sig", "disconnect"}, key : Keys, who : {NoCaller}]
    \cup [op : {"connect"}, key : Keys, who : Callers]
    \cup [op : {"close"}, key : {NoKey}, who : {NoCaller}]
HubState ==
  [at : {"loop", "assert", "forward", "sending", "accept", "end"},
   key : Keys \cup {NoKey}, who : Callers \cup {NoCaller},
   conn : Conns \cup {NoConn}, fresh : BOOLEAN]
Call == [at : {"idle", "waiting", "answered", "has", "done"},
         conn : Conns \cup {NoConn}, fresh : BOOLEAN]
Idle == [at |-> "loop", key |-> NoKey, who |-> NoCaller,
         conn |-> NoConn, fresh |-> FALSE]

TypeOK ==
  /\ queue \in Seq(Command)
  /\ hub \in HubState
  /\ map \in [Keys -> Conns \cup {NoConn}]
  /\ key \in [Conns -> Keys \cup {NoKey}]
  /\ refs \in [Conns -> SUBSET Holders]
  /\ open \in [Conns -> BOOLEAN]
  /\ pend \in [Conns -> Nat]
  /\ running \in [Conns -> BOOLEAN]
  /\ leaving \in SUBSET Conns
  /\ caller \in [Callers -> Call]
  /\ accq \in Seq(Conns)
  /\ accepting \in BOOLEAN /\ dropped \in BOOLEAN
  /\ session \in SUBSET Keys
  /\ signals \in 0..MaxSignals

Init ==
  /\ queue = << >> /\ hub = Idle
  /\ map = [k \in Keys |-> NoConn]
  /\ key = [c \in Conns |-> NoKey]
  /\ refs = [c \in Conns |-> {}]
  /\ open = [c \in Conns |-> FALSE]
  /\ pend = [c \in Conns |-> 0]
  /\ running = [c \in Conns |-> FALSE]
  /\ leaving = {}
  /\ caller = [x \in Callers |-> [at |-> "idle", conn |-> NoConn, fresh |-> FALSE]]
  /\ accq = << >> /\ accepting = TRUE /\ dropped = FALSE
  /\ session = {} /\ signals = MaxSignals

-----------------------------------------------------------------------------
(* Handles and the map.                                                    *)

Alive(c) == refs[c] # {}

(* The connections whose last handle goes when the handles become r. *)
Dying(r) == {c \in Conns : Alive(c) /\ r[c] = {}}

(* Conn::drop. *)
LeavingSilently(r) == leaving
LeavingAfter(r) == leaving \cup Dying(r)
OpenAfter(r) == [c \in Conns |-> open[c] /\ c \notin Dying(r)]

Drops(h, cs) == [c \in Conns |-> IF c \in cs THEN refs[c] \ {h} ELSE refs[c]]
HandlesBecome(r) ==
  /\ refs' = r /\ leaving' = LeavingAfter(r) /\ open' = OpenAfter(r)

(* map.retain: only what still has a handle stays. *)
Pruned == [k \in Keys |->
             IF map[k] # NoConn /\ Alive(map[k]) THEN map[k] ELSE NoConn]
FoundNone(k) == NoConn
Found(k) == Pruned[k]

(* The connections that lose their entry when the map becomes m: the       *)
(* stored sender is dropped, which closes the channel.                     *)
Removed(m) == {map[k] : k \in {j \in Keys : m[j] # map[j]}}
OpenAnyway(m) == open
OpenWithout(m) == [c \in Conns |-> open[c] /\ c \notin Removed(m)]

-----------------------------------------------------------------------------
(* The hub's task.                                                         *)

Takes(op) ==
  /\ hub.at = "loop" /\ queue # << >> /\ Head(queue).op = op
  /\ queue' = Tail(queue)

Answers(x, c, fresh) ==
  caller' = [caller EXCEPT ![x] = [at |-> "answered", conn |-> c, fresh |-> fresh]]

Refuses(x) ==
  IF caller[x].at = "waiting" THEN Answers(x, NoConn, FALSE) ELSE UNCHANGED caller

(* Messages from oneself are ignored. *)
HubIgnoresSelf ==
  /\ Takes("sig") /\ Head(queue).key = Self
  /\ UNCHANGED << hub, map, refs, leaving, dropped, session, signals, connVars, ownerVars >>

HubRefusesSelf ==
  /\ Takes("connect") /\ Head(queue).key = Self
  /\ Refuses(Head(queue).who)
  /\ UNCHANGED << hub, map, refs, leaving, dropped, session, signals, connVars, accq, accepting >>

(* hub_map_assert finds a connection that still has a handle. *)
HubFindsForSignal ==
  /\ Takes("sig") /\ Head(queue).key # Self
  /\ LET c == Found(Head(queue).key) IN
       /\ c # NoConn
       /\ refs' = [refs EXCEPT ![c] = @ \cup {Task}]
       /\ hub' = [Idle EXCEPT !.at = "forward", !.conn = c]
  /\ map' = Pruned /\ open' = OpenWithout(Pruned)
  /\ UNCHANGED << leaving, dropped, session, signals, key, pend, running, ownerVars >>

HubFindsForCaller ==
  /\ Takes("connect") /\ Head(queue).key # Self
  /\ LET c == Found(Head(queue).key)
         x == Head(queue).who
     IN  /\ c # NoConn
         /\ IF caller[x].at = "waiting"
              THEN /\ Answers(x, c, FALSE)
                   /\ refs' = [refs EXCEPT ![c] = @ \cup {x}]
              ELSE UNCHANGED << caller, refs >>
  /\ map' = Pruned /\ open' = OpenWithout(Pruned)
  /\ UNCHANGED << hub, leaving, dropped, session, signals, key, pend, running, accq, accepting >>

(* It finds none and asks the signal client for a session first. *)
HubAsserts ==
  /\ Takes("sig") \/ Takes("connect")
  /\ Head(queue).key # Self /\ Found(Head(queue).key) = NoConn
  /\ map' = Pruned /\ open' = OpenWithout(Pruned)
  /\ hub' = [Idle EXCEPT !.at = "assert", !.key = Head(queue).key, !.who = Head(queue).who]
  /\ UNCHANGED << refs, leaving, dropped, session, signals, key, pend, running, ownerVars >>

(* The client has no session and cannot make one. *)
HubAssertFails ==
  /\ hub.at = "assert" /\ hub.key \notin session
  /\ hub' = Idle
  /\ IF hub.who # NoCaller THEN Refuses(hub.who) ELSE UNCHANGED caller
  /\ UNCHANGED << queue, map, refs, leaving, dropped, session, signals, connVars, accq, accepting >>

(* Conn::priv_new and the insertion.  The answer of a caller that is gone  *)
(* is dropped at once, and the new connection with it.                     *)
Unused == {c \in Conns : key[c] = NoKey}
HubCreates ==
  /\ hub.at = "assert"
  /\ \E c \in Unused :
       /\ \A d \in Unused : c <= d
       /\ key' = [key EXCEPT ![c] = hub.key]
       /\ map' = [map EXCEPT ![hub.key] = c]
       /\ running' = [running EXCEPT ![c] = TRUE]
       /\ session' = session \cup {hub.key}
       /\ \/ /\ hub.who = NoCaller
             /\ refs' = [refs EXCEPT ![c] = {Task}]
             /\ open' = [open EXCEPT ![c] = TRUE]
             /\ hub' = [Idle EXCEPT !.at = "forward", !.conn = c, !.fresh = TRUE]
             /\ UNCHANGED << caller, leaving >>
          \/ /\ hub.who # NoCaller /\ caller[hub.who].at = "waiting"
             /\ refs' = [refs EXCEPT ![c] = {hub.who}]
             /\ open' = [open EXCEPT ![c] = TRUE]
             /\ Answers(hub.who, c, TRUE)
             /\ hub' = Idle
             /\ UNCHANGED leaving
          \/ /\ hub.who # NoCaller /\ caller[hub.who].at # "waiting"
             /\ leaving' = leaving \cup {c}
             /\ hub' = Idle
             /\ UNCHANGED << caller, refs, open >>
  /\ UNCHANGED << queue, dropped, signals, pend, accq, accepting >>

(* Then a signal is passed on.  A sender may always put one command in;    *)
(* when the channel is full it waits until the connection takes one.       *)
HubForwards ==
  /\ hub.at = "forward" /\ open[hub.conn]
  /\ pend' = [pend EXCEPT ![hub.conn] = @ + 1]
  /\ hub' = [hub EXCEPT !.at = "sending"]
  /\ UNCHANGED << queue, map, refs, leaving, dropped, session, signals, key, open, running, ownerVars >>

(* A new connection goes to HubRecv next; the handle of one that was found *)
(* is dropped.                                                             *)
HubContinues(openNow) ==
  IF hub.fresh
    THEN /\ hub' = [hub EXCEPT !.at = "accept"]
         /\ open' = openNow /\ UNCHANGED << refs, leaving >>
    ELSE LET r == Drops(Task, {hub.conn}) IN
         /\ hub' = Idle
         /\ refs' = r /\ leaving' = LeavingAfter(r)
         /\ open' = [c \in Conns |-> openNow[c] /\ OpenAfter(r)[c]]

HubForwarded ==
  /\ \/ hub.at = "forward" /\ ~open[hub.conn]
     \/ hub.at = "sending" /\ (pend[hub.conn] <= CmdCap \/ ~running[hub.conn])
  /\ HubContinues(open)
  /\ UNCHANGED << queue, map, dropped, session, signals, key, pend, running, ownerVars >>

(* Faulty variant: the hub waits for room for as long as it takes. *)
WaitsForRoom == FALSE

(* CloseSend::send gives up after a minute and closes the channel. *)
HubForwardTimesOut ==
  /\ hub.at = "sending" /\ pend[hub.conn] > CmdCap
  /\ HubContinues([open EXCEPT ![hub.conn] = FALSE])
  /\ UNCHANGED << queue, map, dropped, session, signals, key, pend, running, ownerVars >>

HubHandsOver ==
  /\ hub.at = "accept" /\ accepting /\ Len(accq) < AcceptCap
  /\ accq' = Append(accq, hub.conn)
  /\ refs' = [refs EXCEPT ![hub.conn] = (@ \ {Task}) \cup {Acceptor}]
  /\ hub' = Idle
  /\ UNCHANGED << queue, map, leaving, dropped, session, signals, connVars, caller, accepting >>

HubHandOverFails ==
  /\ hub.at = "accept" /\ ~accepting
  /\ HandlesBecome(Drops(Task, {hub.conn}))
  /\ hub' = Idle
  /\ UNCHANGED << queue, map, dropped, session, signals, key, pend, running, ownerVars >>

(* HubCmd::Disconnect carries a key: whatever is registered for it goes. *)
ForgetKeepsSession(k) ==
  /\ session' = session
  /\ LET m == [map EXCEPT ![k] = NoConn] IN map' = m /\ open' = OpenWithout(m)
Forget(k) ==
  /\ session' = session \ {k}
  /\ LET m == [map EXCEPT ![k] = NoConn] IN map' = m /\ open' = OpenWithout(m)
HubDisconnects ==
  /\ Takes("disconnect")
  /\ Forget(Head(queue).key)
  /\ UNCHANGED << hub, refs, leaving, dropped, signals, key, pend, running, ownerVars >>

(* The loop ends at HubCmd::Close, or is aborted when the Hub is dropped:  *)
(* the map goes, and with the channel the answers of waiting callers.      *)
HubEnds ==
  /\ hub.at # "end"
  /\ \/ dropped
     \/ hub.at = "loop" /\ queue # << >> /\ Head(queue).op = "close"
  /\ LET r == Drops(Task, {hub.conn})
         m == [k \in Keys |-> NoConn]
     IN  /\ refs' = r /\ leaving' = LeavingAfter(r)
         /\ map' = m
         /\ open' = [c \in Conns |-> OpenAfter(r)[c] /\ OpenWithout(m)[c]]
  /\ hub' = [Idle EXCEPT !.at = "end"]
  /\ queue' = << >> /\ session' = {}
  /\ caller' = [x \in Callers |->
                  IF caller[x].at = "waiting" THEN [caller[x] EXCEPT !.at = "done"]
                  ELSE caller[x]]
  /\ UNCHANGED << dropped, signals, key, pend, running, accq, accepting >>

HubStep ==
  \/ HubIgnoresSelf \/ HubRefusesSelf \/ HubFindsForSignal \/ HubFindsForCaller
  \/ HubAsserts \/ HubAssertFails \/ HubCreates
  \/ HubForwards \/ HubForwarded \/ HubForwardTimesOut
  \/ HubHandsOver \/ HubHandOverFails \/ HubDisconnects \/ HubEnds

-----------------------------------------------------------------------------
(* The tasks around it.                                                    *)

Sends(cmd) ==
  /\ hub.at # "end" /\ Len(queue) < HubCap
  /\ queue' = Append(queue, cmd)

(* The forward task: a message arrives from the peer k (which gives the    *)
(* client a session with it), or the connection to the server is lost.     *)
SignalArrives(k) ==
  /\ ~dropped /\ signals > 0
  /\ Sends([op |-> "sig", key |-> k, who |-> NoCaller])
  /\ signals' = signals - 1 /\ session' = session \cup {k}
  /\ UNCHANGED << hub, map, refs, leaving, dropped, connVars, ownerVars >>

SignalLost ==
  /\ ~dropped /\ \A i \in 1..Len(queue) : queue[i].op # "close"
  /\ Sends([op |-> "close", key |-> NoKey, who |-> NoCaller])
  /\ signals' = 0
  /\ UNCHANGED << hub, map, refs, leaving, dropped, session, connVars, ownerVars >>

(* The detached task of Conn::drop. *)
LeavingSends(c) ==
  /\ c \in leaving /\ leaving' = leaving \ {c}
  /\ \/ Sends([op |-> "disconnect", key |-> key[c], who |-> NoCaller])
     \/ hub.at = "end" /\ UNCHANGED queue
  /\ UNCHANGED << hub, map, refs, dropped, session, signals, connVars, ownerVars >>

(* Hub::connect. *)
Connects(x, k) ==
  /\ caller[x].at = "idle" /\ ~dropped
  /\ Sends([op |-> "connect", key |-> k, who |-> x])
  /\ caller' = [caller EXCEPT ![x].at = "waiting"]
  /\ UNCHANGED << hub, map, refs, leaving, dropped, session, signals, connVars, accq, accepting >>

(* Only the call that made the connection gets it; for any other it is     *)
(* "already connected", and the handle in the answer is dropped.           *)
ConnectReturns(x) ==
  /\ caller[x].at = "answered"
  /\ IF caller[x].fresh
       THEN /\ caller' = [caller EXCEPT ![x].at = "has"]
            /\ UNCHANGED << refs, leaving, open >>
       ELSE /\ caller' = [caller EXCEPT ![x].at = "done"]
            /\ HandlesBecome(Drops(x, {caller[x].conn}))
  /\ UNCHANGED << queue, hub, map, dropped, session, signals, key, pend, running, accq, accepting >>

ConnectCancelled(x) ==
  /\ caller[x].at \in {"waiting", "answered"}
  /\ caller' = [caller EXCEPT ![x].at = "done"]
  /\ HandlesBecome(Drops(x, {caller[x].conn}))
  /\ UNCHANGED << queue, hub, map, dropped, session, signals, key, pend, running, accq, accepting >>

CallerDrops(x) ==
  /\ caller[x].at = "has"
  /\ caller' = [caller EXCEPT ![x].at = "done"]
  /\ HandlesBecome(Drops(x, {caller[x].conn}))
  /\ UNCHANGED << queue, hub, map, dropped, session, signals, key, pend, running, accq, accepting >>

Accepts ==
  /\ accq # << >> /\ accq' = Tail(accq)
  /\ UNCHANGED << queue, hub, map, refs, leaving, dropped, session, signals, connVars, caller, accepting >>

AcceptorDrops(c) ==
  /\ Acceptor \in refs[c] /\ c \notin Items(accq)
  /\ HandlesBecome(Drops(Acceptor, {c}))
  /\ UNCHANGED << queue, hub, map, dropped, session, signals, key, pend, running, ownerVars >>

(* HubRecv is dropped, with the connections nobody accepted. *)
AcceptorLeaves ==
  /\ accepting /\ accepting' = FALSE /\ accq' = << >>
  /\ HandlesBecome(Drops(Acceptor, Items(accq)))
  /\ UNCHANGED << queue, hub, map, dropped, session, signals, key, pend, running, caller >>

(* Hub::drop aborts the tasks; a call of connect keeps the Hub alive. *)
HubDropped ==
  /\ ~dropped /\ dropped' = TRUE
  /\ \A x \in Callers : caller[x].at \notin {"waiting", "answered"}
  /\ UNCHANGED << queue, hub, map, refs, leaving, session, signals, connVars, ownerVars >>

(* con_task: takes commands; ends when they end, when it is aborted, or    *)
(* for reasons of its own (then, if during the handshake, it also asks     *)
(* the client to close the peer).                                          *)
HasCommand(c) == pend[c] > 0
ConnTakes(c) ==
  /\ running[c] /\ Alive(c) /\ HasCommand(c)
  /\ pend' = [pend EXCEPT ![c] = @ - 1]
  /\ UNCHANGED << queue, hub, map, refs, leaving, dropped, session, signals, key, open, running, ownerVars >>

ConnStops(c) ==
  /\ running' = [running EXCEPT ![c] = FALSE]
  /\ open' = [open EXCEPT ![c] = FALSE]
  /\ pend' = [pend EXCEPT ![c] = 0]
  /\ UNCHANGED << queue, hub, map, refs, leaving, dropped, signals, key, ownerVars >>
ConnFinishes(c) ==
  /\ running[c] /\ (~Alive(c) \/ (~open[c] /\ pend[c] = 0))
  /\ ConnStops(c) /\ UNCHANGED session
ConnFails(c) ==
  /\ running[c] /\ Alive(c)
  /\ ConnStops(c) /\ session' \in {session, session \ {key[c]}}

Next ==
  \/ HubStep
  \/ \E k \in Keys : SignalArrives(k)
  \/ SignalLost \/ HubDropped \/ Accepts \/ AcceptorLeaves
  \/ \E x \in Callers :
       \/ \E k \in Keys : Connects(x, k)
       \/ ConnectReturns(x) \/ ConnectCancelled(x) \/ CallerDrops(x)
  \/ \E c \in Conns :
       LeavingSends(c) \/ AcceptorDrops(c) \/ ConnTakes(c) \/ ConnFinishes(c) \/ ConnFails(c)

Spec == Init /\ [][Next]_vars

(* Tasks are polled and timers fire, and an owner lets go of a connection  *)
(* once its receiver has ended (peer.rs).  Nobody has to accept            *)
(* (hub.rs:122-123), and a connection takes no command while it waits for  *)
(* its owner to take a message (conn.rs:221).                              *)
OwnersNotice ==
  /\ \A x \in Callers :
       WF_vars(caller[x].at = "has" /\ ~running[caller[x].conn] /\ CallerDrops(x))
  /\ \A c \in Conns : WF_vars(~running[c] /\ AcceptorDrops(c))
Fairness ==
  /\ WF_vars(HubStep)
  /\ \A x \in Callers : WF_vars(ConnectReturns(x))
  /\ \A c \in Conns : WF_vars(LeavingSends(c)) /\ WF_vars(ConnFinishes(c))
FairSpec == Spec /\ Fairness /\ OwnersNotice

-----------------------------------------------------------------------------
(* Properties.                                                             *)

Registered(c) == key[c] # NoKey /\ map[key[c]] = c

(* A connection whose command channel is open is the one registered for    *)
(* its key: a key never has two open connections, whatever order handles   *)
(* are dropped and stale Disconnects are obeyed in (hub.rs:72-75).         *)
OpenIsRegistered ==
  \A c \in Conns : open[c] => Registered(c)

(* The hub implements the registry: the open connection of a key is never  *)
(* replaced by another one and never reopened (hub.rs:27-78, 241-250).     *)
OpenConn == [k \in Keys |->
               IF map[k] # NoConn /\ open[map[k]] THEN map[k] ELSE NoConn]
Made == {c \in Conns : key[c] # NoKey}
Registry == INSTANCE ConnRegistry WITH current <- OpenConn, used <- Made
RegistrySpec == Registry!Spec

(* A session with a peer is never forgotten: there is an entry for the     *)
(* peer in the map, a message of it that will make one, or a Disconnect    *)
(* that will close the session (hub.rs:241-250, conn.rs:48-61).            *)
SessionHasOwner ==
  \A k \in session \ {Self} :
    \/ map[k] # NoConn
    \/ \E i \in 1..Len(queue) : queue[i].key = k
    \/ hub.at = "assert" /\ hub.key = k
    \/ \E c \in leaving : key[c] = k

(* The hub's task waits for room that only the owner of HubRecv can make. *)
Unaccepted == accepting /\ hub.at = "accept" /\ Len(accq) = AcceptCap

(* Every call of connect is answered, whatever connections do or fail to   *)
(* do: the hub waits for good only if its owner neither accepts nor lets   *)
(* go of HubRecv while the channel is full (hub.rs:167-260).               *)
ConnectsAnswered ==
  \A x \in Callers :
    caller[x].at = "waiting" ~> (caller[x].at # "waiting" \/ []Unaccepted)

(* The next two speak of the end: the model makes finitely many            *)
(* connections, and what has to come for each comes before some moment.    *)

(* A key whose connection has ended becomes free again, although owners    *)
(* still hold handles when it ends (conn.rs:48-61, hub.rs:241-250), unless *)
(* nobody ever accepts it, or what the hub waits to hand over.             *)
EndedIsForgotten ==
  <>[](\A c \in Made :
         ~running[c] => ~Registered(c) \/ c \in Items(accq) \/ Unaccepted)

(* A connection the hub has forgotten ends, and its owners are told: none  *)
(* lingers beside its successor (hub.rs:72-75), unless it waits for good   *)
(* for its owner to take a message and never gets to its last commands.    *)
ForgottenEnds ==
  <>[](\A c \in Made : ~Registered(c) => ~running[c] \/ HasCommand(c))
=============================================================================
