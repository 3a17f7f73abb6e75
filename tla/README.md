# Verification of tx5

tx5 is a peer-to-peer transport: endpoints find each other through a signal
server (sbd), negotiate a WebRTC data channel, and fall back to relaying through
the signal server when that fails. This directory holds TLA+ models of its parts,
TLC configurations that check them on small instances, and proofs that TLAPS
checks for every instance.

## 1. The system

| part | source (under `src/crates/`) | state | operations | talks to |
|---|---|---|---|---|
| wire protocol | `tx5-connection/src/proto.rs` | the decoder: its state, wanted size, buffer, permit, waiting oneshot, error flag | `decode`, `sent_remote_permit_grant`, `sent_remote_permit_request`, `proto_encode` | driven by the framed connection |
| framed connection | `tx5-connection/src/framed.rs` | command channel (32), message channel (32), decoder, send mutex, the endpoint's permit semaphore | `new`, `send`, `recv`, drop | a connection below, the peer task above |
| connection | `tx5-connection/src/conn.rs` | command channel (1024), message channel (1024), `ready`, `is_webrtc`, webrtc state | handshake, webrtc attempt, fallback, keepalive, drop | the hub, the signal client, a webrtc backend |
| hub | `tx5-connection/src/hub.rs` | map from key to connection, command channel (32), accept channel (32) | `CliRecv`, `Connect`, `Disconnect`, `Close` | the signal client below, the endpoint above |
| closing channels | `tx5-connection/src/lib.rs` | a shared sender that may be taken away | `send` (60 s), `send_or_close`, drop | used by connection and webrtc backends |
| webrtc backends | `tx5-connection/src/webrtc/*.rs` | command channel, peer connection, data channel, buffered amount | offers, answers, candidates, messages, back-pressure | go-pion or libdatachannel |
| endpoint | `tx5/src/ep.rs` | peer map, signal map, semaphore, event channel (32) | `listen`, `close`, `send`, `broadcast`, queries | peers, signal tasks |
| peer | `tx5/src/peer.rs`, `peer/maybe_ready.rs` | ready state, task | connect, accept, preflight, receive loop, drop guard | endpoint, backend |
| signal task | `tx5/src/sig.rs` | ready state, task | connect with backoff, accept loop, drop guard | endpoint, backend |
| backends of the endpoint | `tx5/src/backend/*.rs` | for `mem`: listeners and channels | `connect`, `recv`, `wait` | hub and framed connection, or memory |
| signal client | `tx5-signal/src/*.rs` | an sbd client | send and receive signal messages | the sbd dependency |
| core | `tx5-core/src/*.rs` | an event channel bounded by permits; files in a common directory | send, receive, close; `file_check` | go-pion wrappers, the file system |
| go-pion wrappers | `tx5-go-pion/src/*.rs`, `tx5-go-pion-sys/*` | event manager, handles | peer connection, data channel, buffers | pion (Go) |
| tools | `tx5-demo`, `tx5-online`, `tx5-go-pion-turn` | - | command lines, processes | the library |

How the parts meet: an `Endpoint` asks a backend for a connection; the backend's
hub makes a `Conn`, whose task shakes hands over the signal client, drives a
webrtc backend and may relay; a `FramedConn` on top cuts messages into frames; a
peer task exchanges preflights, sets the peer ready and forwards messages to the
endpoint's event channel. Everything below the endpoint's maps is a task that
owns its state and obeys a bounded command channel; what tasks share are
semaphores (`ready`, the permits), weak references and handles whose drop has
effects.

What is hard in it, and so what the properties are about:

- commands of several sources are queued in one channel, and what a task read
  before an `.await` is old when it goes on: permits come back to decoders that
  moved on, timeouts are obeyed after the event they waited for, a `Disconnect`
  names a key that already belongs to a newer connection;
- connections follow one another for the same peer while signals of the earlier
  ones are still on their way, and either end may be replaced at any moment;
- everything may be dropped at any `.await` (abort on drop, cancelled sends), and
  what it held must come back;
- channels are bounded and tasks wait for each other's: nobody may wait for good;
- messages change their path while they flow (webrtc to relay), and those that are on
  the way then are lost, although their sends succeeded and the connection stays open;
- the guards of tasks act on maps by url while successors are already there, and
  tell the application from detached tasks;
- pion's events pass through a manager's queue that does not know a channel yet
  when its first events come, and through channels that close when they are full;
- processes agree on one copy of the library's file without a lock, and end anywhere.

What makes each part correct:

| part | correct when |
|---|---|
| wire protocol | headers round-trip; no frame sequence makes the decoder hold more than its permit, ask twice or pass on a message of another size |
| framed connection | whole messages, in order, at most once, whatever the connection loses; permits are conserved on every path; memory stays within the endpoint's limit; a send ends, or waits for a grant that an interrupted connection keeps from it |
| connection | both ends agree on whom they shook hands with; nothing of another session is delivered; messages are missing only where one path takes over, or at the beginning of a channel that go-pion accepted; it becomes ready or ends; a lost partner is noticed |
| hub | a key never has two open connections; a session always has someone who will close it; calls are answered while the owner accepts or lets go; ended connections are forgotten, forgotten ones end |
| endpoint, peer | a peer that ended is in no map, so that the next send makes a new one; the events of a peer keep their order; waiters are woken; what left the map ends and its end is told |
| signal task | an address opens and closes by turns; a map never loses its listener; calls of listen are answered, whether the server is there or not; a lost server that comes back is listened at again |
| webrtc backends, channels | the owner receives messages without a gap, and none before Ready; a sender that waits for the buffer is released; a loss is told; whoever was told Ready can send |
| `file_check` | whoever is given a file has the right one, under a name that leads to it for good; nobody goes without unless the file system fails; runs that succeed leave no file behind |

The hazards, each with its line and its properties, are listed in `PROJECT.json`.

## 2. The modules

    Proto  <-- ProtoDecoder <-- MCProtoDecoder        Hub <-- MCHub
      ^  \                                             | \- implements ConnRegistry
      |   \-- DecoderProofs                            \-- HubProofs
    Framed <-- FramedProps <-- MCFramed
                 |    \- implements MsgChannel        Conn <-- MCConn
                 \-- FramedInv <-- FramedProofs         | \- implements ConnSession
                                                        \-- ConnProofs

    Endpoint <-- MCEndpoint      Sig <-- MCSig               Webrtc <-- MCWebrtc
      | \- implements PeerEvents   | \- implements ListeningEvents
      \-- EndpointProofs           \-- SigProofs             \-- WebrtcProofs

    FileCheck <-- MCFileCheck
      \-- FileCheckProofs

**Proto, ProtoDecoder** (`proto.rs`). `Proto` has the header as integers
(`EncodeHeader`, `DecodeHeader`: three bits of kind, 29 of length, four bytes), the
frames that `proto_encode` makes of a message, and each operation of the decoder
as a function from a decoder (and a frame) to a decoder and a result, because two
modules drive it: `ProtoDecoder` against a remote that sends anything, `Framed`
against another `Framed`. The frames carry their kind, length and body; a byte is
an element of `Byte`.

**Framed** (`framed.rs`). Both ends of any number of connections between hosts. An
end has a sender (`send_inner` under its mutex), a receive task, a command task
with the decoder, a detached task for the remote's permit request, and its owner;
an action is what one of them does between two awaits. A message is the sequence
of its bytes `<<k, i>>`, so that a byte of another message, or out of place, shows.
`avail` and `semq` are tokio's FIFO semaphore of a host. `CanCancel` gives up sends
at any await (the timeout of `Endpoint::send`), `CanClose` cuts connections and
drops ends.

The connection underneath is what `conn.rs` gives to `FramedConn`: `Push` is
`Conn::send`, which waits for room and succeeds whatever becomes of the frame;
`wire` is all that lies between that and the receiver of the other end; `ConnClose` is
the end of a connection's task, and `Cut` what goes with it. A connection that stays
open loses frames too (`Lose`): at the switch to the relay the frame of the failed
send (`conn.rs:616-623`), those that were on the data channel when either end fell
back (457-469, 628-636, 688), and with go-pion the first of an accepted channel.
`Lose` takes any frame at any time, which is more than the code can lose, so that
the safety properties do not depend on when an end switches. `lossy` remembers it,
`Intact(e)` says that a connection lost nothing in either direction, and
`Interrupted(e)` that it is open but lost something, or its remote is gone.

`FramedProps` holds the properties that need sums; `MsgChannel` is the abstract
channel of whole messages, which may lose some too (`Lose`), but not change, repeat
or reorder any; `FramedInv` has the inductive invariants of the proofs.

**Hub** (`hub.rs`, with `Conn::priv_new`, `Conn::drop` and `CloseSend`). One task and
the commands `CliRecv`, `Connect`, `Disconnect`, `Close`; `refs[c]` is the set of
holders of `Arc<Conn>`, and when it empties, `Conn::drop` closes the command channel,
aborts the task and leaves a detached `Disconnect` (`leaving`) that any command may
overtake. The hub's own temporary handle is a holder, `Task`. A wait for room in a
full channel is a place of the task (`hub.at`) with an action for room and one for
the minute after which `CloseSend::send` gives up and closes the channel.
`ConnRegistry` is what the hub promises: a key's open connection is neither
replaced nor reopened. `session` is the state of the signal client, external: it has
a session with each peer it sent to or received from, until `close_peer`. The owner may
or may not accept (`Accepts`, `AcceptorLeaves`), and a connection that waits for its
own owner takes no command (`ConnTakes` is owed by nobody).

**Conn** (`conn.rs`). Both ends of a pair of peers; the correspondence is

| `phase` | code |
|---|---|
| `new` | `priv_new` has returned, the task was not polled yet |
| `handshake` | `con_task`, 248-313; `shook` are `sent_our_res`, `got_peer_res` |
| `webrtc` | `con_task_attempt_webrtc`; `rtc[e]` is the backend, `chan[e]` the data channel towards `e` |
| `fallback` | `con_task_fallback_use_signal` |
| `ended` | the task returned, the handle still exists |
| `none` | the handle was dropped (`Conn::drop`) |

`gen[e]` counts the connections an end has made and stands for their nonces. `sig[e]`
holds what the signal server and the hub have for `e`: they deliver in order, and lose
(`MaxLost`) what is sent to a peer that is not there. Of the backend,
`TakesDescription`/`Heeds` say whose offer or answer it takes, `Linked` when two
backends talk to each other; ice is abstracted to whether they do. `Misses` are the ends
whose backend is go-pion and accepts the channel: they may lose what comes before its
registration (`LinkMisses`, counted in `missed`). When the command channel closes during
the handshake the code goes on to the webrtc attempt and ends there at once; `Closes`
takes the two together. `ConnSession` is the abstract pair: a connection is bound to one
connection of the peer and delivers that one's messages in order, none twice.

**Endpoint** (`tx5/src/ep.rs`, `peer.rs`, `peer/maybe_ready.rs`). A peer is one
incarnation of a connection, numbered; `map[u]` is the `Arc<Peer>` that the endpoint has
for a url and `held[p]` the calls of `send` and `broadcast` that hold one more. An
action that takes or drops an `Arc` goes through `HandlesBecome`, in which `Peer::drop`
asks for the abort of every peer whose last `Arc` goes; `Cancels` is the abort when it
takes effect.

| `stage` | code |
|---|---|
| `spawned`, `starting` | the task was not polled yet (`task` of an incoming, `connect` of an outgoing peer) |
| `connecting` | `connect`, 140-166: it holds the endpoint's maps, and there is no guard yet |
| `waiting`, `preflight`, `announcing`, `receiving`, `passing` | the awaits of `task`: `wc.wait`, the preflight, the send of Connected, `conn_recv.recv`, the send of a message |
| `dropping`, `failing` | `DropPeer::drop`: before `drop_peer_url`, and between it and `set_failed` |
| `ended` | the task is gone; the detached task that tells the end is `late` |

`PeerEvents` is what the events promise about a peer: Connected first, nothing
behind Disconnected.

**Sig** (`tx5/src/sig.rs`, with `assert_sig`, `drop_sig`, `Endpoint::listen` and the
part of `peer.rs` that asks for a signal connection). Incarnations as in `Endpoint`. The
guard (`DropSig`) finds its sig only while somebody holds it; `Succeeds` is `drop_sig`
of a listener, which puts the next one into the map under the same lock.
`ListeningEvents` is what the application hears: open and closed, by turns.

**Webrtc** (`webrtc/go_pion.rs`, `webrtc/libdatachannel.rs`, `send_or_close` of
`lib.rs`, and of `tx5-go-pion` the manager, `data_chan.rs` and `peer_con.rs`). One
backend with its owner above and its library below; `backend` says which. `cmds`, `evts`
are the bounded channels, `Pushes` is `send_or_close`. For go-pion an event goes through
`mgr` (the manager's queue, with the registration of channels in it), `peerQ` or `dataQ`
and a task that forwards it; for libdatachannel straight into `cmds`. `MakesChannel` and
`Looks` are the two halves of `DataChannel::new`: the registration is queued, then the
state is looked at for what was missed. The libraries are external: how descriptions
become a connection, when a channel opens, drains or closes, when candidates are found
(at either side, at any time).

**FileCheck** (`tx5-core/src/file_check.rs`, and `LibInner::priv_new` of
`tx5-go-pion-sys`, which loads what it is given). Processes and the directory they
share: `entry` says which file has a name, so that a name may pass from one file to
another. `at` is where a process is in `file_check`, one step per call of the file
system; a call that fails sets `faulty` for the rest of that run. A process may end at
any place (`Restarts`) and leaves what it wrote; the runs of a process have temporary
names of their own, and `excused` remembers those of runs that ended with a reason to
leave a file. The directory is external, and so is `persist_noclobber` of the tempfile
crate, a rename or a link and an unlink.

## 3. The runs

| run | instance | shows |
|---|---|---|
| `decoder` | chunks of 2 bytes; frames of every kind, too long and of length zero; a remote without any rule; lengths at every byte boundary of the header's 29 bits | the decoder's invariants; the header round-trips |
| `framed_shared` | 2 connections of one host with a semaphore that serves one; one of them may lose frames of the remote | the memory of incomplete messages is bounded across connections; every request is served, unless an interrupted connection of the host keeps a permit for good |
| `framed_cancel` | 2 ends, 2 messages each, small and large, chunks of one byte, capacities 1 and 2; sends of one end cancelled anywhere, frames of both lost anywhere | permits, grants and order survive cancellation and loss; refinement of `MsgChannel` |
| `framed_close` | 2 ends, 2 messages and 1, all capacities 1, limit of one large message; one end cut or dropped at any moment, frames of both lost anywhere | no protocol error and a quiet waiting remote where no frame was lost; permits come back; a send ends, or waits for a grant on an interrupted connection or of a starved host |
| `hub` | 1 call, 2 signals, 2 keys and the hub's own, every channel 1; nobody has to accept or to take commands | one open connection per key, sessions have an owner, refinement of `ConnRegistry`; calls answered and ended keys freed unless the accept channel stays full for good, forgotten connections end |
| `conn` | 2 connections an end, 3 messages each, owners that send too early, a lost signal, faults, an accepted channel that loses its first messages | the handshake agrees, ignores and refuses only what is stale, gaps only at that beginning, at the switch and at the lost signal, refinement of `ConnSession` |
| `conn_live` | 2 connections an end, one end denies the relay, faults | settles, notices a lost partner |
| `conn_deny` | 1 connection an end, no faults | *violation*, see findings |
| `endpoint` | 1 url, 2 incarnations, 1 send, 1 broadcast, 1 message each, room for 2 events | ended peers are forgotten, refinement of `PeerEvents`, waiters are woken, what left the map ends and is told |
| `sig` | 2 servers that may never be there, 2 calls of listen, 1 connecting peer, 3 incarnations, room for 1 event | refinement of `ListeningEvents`, a listener is succeeded in the same step, calls are answered, lost servers that come back are listened at again |
| `webrtc` | both backends, polite or not; 1 send of size 1 or 2 with a buffer of 1; command channel 2, event channel 1; 1 description or candidate given, 2 incoming messages or 1 and a candidate | messages without gaps, senders released, losses told, Ready means a channel |
| `file_check` | 3 processes, one of which ends anywhere and starts again; the common name is free or has a right or wrong file, read-only or not; any call of the file system fails | whoever is given a file has the right one, and it stays; temporary files are there for a reason, also those of the run before |

A type invariant that is a theorem is not checked again by a run, nor is
`PermitOnlyWhileChunking` of the decoder and `BufferedWithinPermit` of `Framed`.

Why these bounds: a capacity of one makes every wait for room happen, and a larger one
only adds states between full and empty. Messages are of one frame, of a chunk and a
rest, or of several chunks; two of them show what is left by the first (a cancelled send
spoils the second). A semaphore that serves one of two connections is the one where
permits matter. Any number of frames may be lost; two connections of a host show what an
interrupted one does to the other. In the hub, a call and two signals make up to three
connections of one key, so that a `Disconnect` meets the successor of its connection,
and the successor's own comes after it; of two keys, they put the call behind a hub that
waits for room in the accept channel or in a connection. In `Conn`, two connections an
end give every pairing of old and new, and a lost signal the cases that orderly delivery
hides; three messages an end leave one for each path and one at the switch. In
`Endpoint`, two incarnations of one url are what a guard that acts by url can confuse,
and room for two events makes both their announcements meet a full channel. In `Sig`,
three incarnations give a listener a successor beside another server's. In `Webrtc`, an
event channel of one is full after any event that the owner did not take, and a message
larger than the buffer takes the sender to either side of the threshold. In `FileCheck`,
three processes are the one that moves its file, one that comes too late for the name
and one that finds the file, and a second run meets what the first left behind. Each
bound is a constant or a named guard (`MaxMsgs`, `MaxSignals`, `MaxGen`, `MaxLost`,
`MaxPeers`, `MaxSigs`, `MaxGives`, `MaxIn`, `MaxIce`, `Runs`), and `CHECK_DEADLOCK
FALSE` is set only where a state without steps is a legitimate end (all connections used
up). Only `file_check` uses symmetry: the two processes that run once differ in nothing
but their names, and it checks no liveness; most of the others do.

Fairness is per task: a task that can go on is polled (tokio polls every ready task),
timers fire (`HandshakeTimesOut` and `RtcTimesOut` belong to weakly fair actions of the
task), tokio's channels and semaphores serve their waiters in FIFO order, the hub passes
signals on. In `Framed`, owners keep receiving, which the peer task's loop does; of the
connection nothing is assumed, neither that it delivers what it lost nor that an end
notices that its remote is gone: while it relays only idleness ends a connection, and
the owner's own sends put that off (`conn.rs:656`). So two properties have an exception:
a request that waits behind a permit which an interrupted connection keeps (`Starved`),
and a send that waits for a grant on an interrupted connection, or of a starved host
(`SendsEnd`). Every other send ends, also on a connection whose remote is gone. In
`Hub`, owners let go of a connection whose receiver has ended, as the peer task does,
but nobody has to accept (`hub.rs:122-123` says that an owner need not), and a
connection need not take commands. So a call may wait for good in one way: the accept
channel is full and its owner neither accepts nor drops it (`Unaccepted`). In `Conn`, a
broken data channel is noticed in the end (webrtc's consent checks) but need neither
open nor deliver, and owners owe nothing. In `Endpoint` every wait of a peer's task
ends, since each has a timeout, but neither messages nor the application's `recv` nor
the timer of `send` are owed; the detached task tells the end or times out. In `Sig` the
application takes its events, without which the task waits for room for good, and an
attempt at a server ends, in success or failure. That a server is ever there is not
assumed; `ListensAgain` has it as a premise (`ServersComeBack`, strong fairness), since
nothing can be promised of a server that stays away, and `ListenAnswered` has not. In
`Webrtc` the task, the manager's thread and the forwarding tasks run and an open channel
drains; nothing is asked of the owner. No run assumes that a remote that is not there
answers.

Two properties of `Webrtc` are written `<>[]` instead of `~>`: what they speak of happens
once and is not undone, so that the two say the same, and TLC is much faster.

## 4. The proofs

The theorems hold for every value of the constants that satisfies the named
assumptions (`FramedAssumption`, `HubAssumption`, `ConnAssumption`, ...), which say no
more than that capacities are positive, ends come in pairs and so on.

- `DecoderProofs`: `HeaderRoundTripHolds`, by arithmetic on the quotients; the decoder's
  type, its invariants and `MessageSizeIsAsked`, from `DecoderInv`: type, consistency of
  state and fields, and that the size asked for stays the size wanted. `HeadersAreExact`
  adds `SizesFit`: a permit, asked for or held, came in a header and so fits the 29 bits
  it is written into again.
- `FramedProofs`, in five parts (its lemmas on the decoder are also those of
  `DecoderProofs`: the two state machines share names and cannot be in one module):
  - `FramedTypeOK`; `PermitsAnswerRequests` and `BuffersWithinPermits` from `PermitInv`.
    It has one conjunct, `EndOK`, per end: the decoder's state and fields fit and it saw
    no error, a stopped command task left no command and no decoder behind, a detached
    task waits for what the decoder asked for, and so does at most one permit in the
    command channel (`PermitQueueOK`). The properties alone are not inductive because a
    permit passes through the task and the channel before the decoder.
  - `StreamsAreLegal`, `NoProtocolErrors` and `WaitingRemotesAreQuiet` from `StreamInv`.
    The commands with a frame and the wire behind them are one stream, and `LegalEnd`
    says that each frame of it fits the decoder after those in front of it (`Fits`): a
    chunk goes on where the chunks before it end, nothing but a grant follows a request.
    `OwnEnd` ties the send of an end to its own decoder (it waits for a grant exactly
    while the send does), `PairEnd` ties it to the other end's: where the request, the
    answer and the chunks can be for each place of the send (`PairOK`). All of it is
    said of a connection that lost no frame (`Intact`), which is enough since
    connections share nothing but the semaphore: one that did lose a frame is left out
    from then on, and the others are not disturbed. These assume `CanCancel = {}`: a
    send given up among its chunks leaves the remote in the middle of a message, and the
    next one is an error there. That is what the code does, and `framed_cancel` does not
    check them either.
  - `PermitsAreConserved`: sums are cardinalities of sets of pairs (`Total`), and a step
    changes what one end holds and what is free by the same amount (`Balanced`).
    `ReconstructionStaysBounded` follows, with `BuffersWithinPermits`.
  - `ChunksStayWithinGrants` from `GrantInv`, with cancelled and closed sends and lost
    frames: a lost frame only takes weight from what is on its way. Frames have
    weights, and `Load` is a weight summed over what is on its way to an end. The
    request of one end, or the answer to it, is in one place at most (`Due`), so a
    grant that a send can see is its own; and with its chunks under way and still to
    come, what the decoder has stays within what it holds (`Covered`).
  - `FramedImplementsMsgChannel`, the refinement of `MsgChannel`, from `ChanInv`
    (`MessagesFlowInOrder`), with every kind of failed, cancelled or closed send and
    with lost frames. An owner that receives is `Deliver`, and needs that what it skips
    was given up, or that the end lost something: so the messages that came (`Arrived`:
    received, queued, or with the command task) are in order, unchanged, and miss
    nothing else (`InOrder`). That is kept because each frame on its way (`FlowOK`) is a
    part of a message that was sent, behind those that came and those in front of it,
    and every send it passes over is settled (`Settles`): given up, or with its last
    frame in front, or excused by a loss (`Excused`). A step that loses a frame thins
    the stream (`Thins`), and what was in order stays so; that a message is never put
    together from what is left of it, or of two of them, is then a matter of its size,
    since a chunk too few leaves the decoder short of what it asked for and the next
    frame stops it. For the next frame to be so, the sends that are over must be
    settled, and the one in progress must be as far as the decoder and the frames say
    (`SendingOK`); that its grant is its own comes from `GrantInv`. The frame that
    spoils the message after a cancelled send stops the decoder, and then nothing more
    has to be said. The two theorems assume that nobody sends the empty message, since
    the mapping reads the number of a message from its first byte; the other theorems do
    not.
- `HubProofs`: `HubTypeOK`, `OpenConnectionsRegistered`, `HubImplementsRegistry`, from
  `HubInv`: an open connection is the one in the map, the map's keys are the
  connections' own, handles exist for connections that were made, and while the
  hub asserts a key to the signal client the map has no entry for it.
  `SessionsAreOwned` from `OwnerInv`: a connection in the map that nobody holds has its
  `Disconnect` under way (`DeadIsLeaving`), so a session always has an entry of the map,
  a command or the hub's own step that will get to it.
- `ConnProofs`: `ConnTypeOK` and `HandshakesAgree`, from `HandshakeInv`. What makes the
  handshake agree is the order of signals: `InOrder` (a connection's request comes
  first and connections come in order) and `FromThePast` give `Answered` (once a
  connection was answered, nothing in front of the peer is older than it, and no
  request), and that gives `Outlived` (if the connection that answered was replaced, its
  successor has not seen a request, and so is not past its handshake). The actions
  are first shown to be of six kinds as far as the handshake can tell
  (`StepsAreFew`), then each kind to keep the invariant.
  - `RefusalsHaveReason` and `OnlyTheStaleIsIgnored` from `PairInv`: past its handshake an
    end gets data of its partner only, a request only from a later connection and no
    answer (`AfterAnswer`), because a request is answered once (`OneAnswer`) and only who
    saw one answers (`AnswererAsked`). `FollowInv` adds what holds while no signal is
    lost: the answer of an end past its handshake comes before its data.
  - `ConnectionsAreSessions`, the refinement of `ConnSession`, and
    `NothingMissingElsewhere`. For the messages an action is one of thirteen effects on
    the two ends (`Step`). `BackendInv`: a backend is given its partner's description
    only, and where a channel was open the other end is past its handshake.
    `DeliveryInv`: inbox, data channel and relay carry one connection's messages, in
    this order (`InboxQ`, `ChanQ`, `RelayQ`, `AheadQ`). `SwitchInv`: once a message was
    relayed its sender relays for good and the next one is next in line. A connection
    that begins is `Begin` of `ConnSession`, the signal that completes a handshake is
    `Bind` (by `HandshakesAgree`), a message given is `Send`, one delivered `Receive`;
    all else stutters. What an accepted channel misses at its beginning is counted
    (`missed`), and its first message comes right behind that.
- `EndpointProofs`: `EndpointTypeOK` and `EndedPeersForgotten`, from `EndpointInv`. A
  guard removes whatever its url maps to, so what must be kept is that an entry of the
  map has that url, that a peer in the map or held was made, and that an ended peer is
  in no entry although calls still hold and release it. `EndpointTellsInOrder`, from
  `QueueInv`: for each peer, the events that are queued and the one a detached task will
  still send continue what the application has heard (`Queued`, `Told`).
- `SigProofs`: `SigTypeOK` and `ListenersStay`, from `SigInv` (a url's listener is one
  at a time, and only it speaks). `SigIsHeardByTurns`, from `HistInv`: what is queued
  alternates, continues what was heard, and its end agrees with the stage of the url's
  listener, so that a successor starts from Closed.
- `WebrtcProofs`: `WebrtcTypeOK` and `ReadyHasAChannel`, from `ReadyInv`: while the task
  has no data channel it has told nothing (`Untold`), no `Open` is in the command
  channel without a `DataChan` before it, and a library that pushes by itself and has a
  channel has that channel's command still queued, unless the command channel is closed
  (`Queued`); pion's data events are not forwarded (`Deaf`). `MessagesComeWithoutGap`,
  from `TalkInv`: along the events, the command channel, `dataQ` and the manager's queue
  the messages are numbered without gap up to the last that arrived, as long as the
  command channel is open (`Numbered`); of an accepted channel of pion nothing is heard
  before its registration (`Unheard`); the channel's opening is in front of its
  messages, or the manager is still to look at the channel (`Ordered`); and the side
  that makes the channel registers before anything comes of it (`PlaceInv`).

- `FileCheckProofs`: `EveryoneIsServed`, `NoTempIsForgotten`, and that the file with the
  common name keeps it (`CommonNameStays`), from `FileInv`: what was given the common name
  here is good (`SharedOK`), the names of later runs are free (`Unused`), what earlier
  ones left is excused (`LeftOver`), and per process
  where its own file is at each place of `file_check` (`Placed`) and that its handle is
  good (`Given`). Without a lock that is kept because of how little a step can do to the
  others (`Tame`): it leaves their state and their names, the common name once it has a
  file, and whatever is good. Every action is shown to be tame and to keep its own
  process in order (`StepOK`), and `TameKeeps` does the others once for all.

Every invariant, action property and refinement that the passing runs check is a
theorem. Only model-checked is all liveness: fairness and `ENABLED` are beyond the
prover.

## 5. Findings

- `conn.rs:457`: an end with `danger_deny_signal_relay` delivers the first message that
  its peer relays, then ends; `tx5/src/config.rs:106-109` says the signal server is "only
  used for connection establishment and not as a relay". Run `conn_deny`.

What the models also show of the code:

- `framed.rs:119` spawns a task for every permit request, and only that task joins
  the semaphore's queue (`WaiterPoll` of `Framed`), so "the order the request come
  in" (`framed.rs:114-115`) is the order of the tasks, not of the requests.
- A request for more than `incoming_message_bytes_max` waits for ever, and every later
  one of the endpoint behind it (the sizes of the runs stay within the limit).
  Every request is served only as long as no send is cancelled half way.
- A frame that is lost at the switch to the relay leaves the two ends half way in a
  message on a connection that stays open: the next frame makes the decoder fail, or
  the send waits for a grant that does not come until `Endpoint::send` times out, or the
  decoder keeps its permit, and other connections of the endpoint wait for it.
- `accept` "need not" be called (`hub.rs:122-123`), but after 32 connections that nobody
  accepts the hub's task waits for room (`hub.rs:207`) and serves nobody until somebody
  does, or drops `HubRecv`.
- A connection whose task returns before it is ready never wakes who waits in `ready()`
  (`conn.rs:323`); the timeout of `be_tx5_connection.rs:54-61` does.
- A `Disconnect` that comes late removes, and cuts, the newer connection of its key.
- Messages that were given to webrtc but not delivered when an end switches to the
  relay are lost without notice.
- An end may be ready although the connection that answered it is gone, when its
  own answer went to a connection that was dropped; it delivers nothing.
- A message that is given to a connection before it is ready ends it (`conn.rs:281`).
- The guard of a peer that was closed and replaced removes its successor from the
  map (`ep.rs:132`). The successor ends, and says so, but it ends.
- `listen` at a server to which a peer has already connected returns nothing and
  does not listen (`ep.rs:117`), until that connection is gone.
- The first messages of an incoming data channel of pion are lost when they come
  before the channel's registration (`data_chan.rs:100`); no other message is lost alone.
- When pion cannot make a connection at all, the backend's event channel stays open
  until its owner drops it (`go_pion.rs:117`).
- An end that relays ignores the requests of the peer's next connection, and is not
  idle as long as they come.
- The process that moved its file to the common name still has it open for writing
  until it has sealed it again (`file_check.rs:72-75`), while others are already given
  it: where a file that is open for writing cannot be executed, a program (as in
  `tx5-go-pion-turn`) may be refused then. `FileCheck` covers the loading of a library.
- While a bad file has the common name, every run of every process leaves one more
  file of its own (`file_check.rs:102-113`); and so does every run that ends inside
  `file_check`, which its comment accepts (67-69).

## 6. Not modelled, and the plan

Left out for good: the byte format of signals and urls, statistics, logging and
keepalive messages (no state depends on them), the foreign function interface, the
tools. Left out of the parts above: `set_webrtc_config`; the runtime's shutdown; a
connection's command channel that is full, except as the hub sees it; the measure
of idleness (`Closes` may happen at any time instead).

`MemBackend` (`backend/mem.rs`) stands in for the network in tests and is left out; the
event channel of `tx5-core` is used by none of the parts. `Webrtc` leaves out the calls
that pass through to pion (labels, statistics, buffers) and that pion's own calls may
block a thread.

Next: the safety part of the liveness properties, as theorems. For each of them, that
who waits has somebody who will wake it: a call of the endpoint, of the hub or of
`listen`, a sender that waits for the buffer, an end that waits for its permit.
