---------------------------- MODULE FramedProps -----------------------------
(***************************************************************************)
(* What the framing layer promises about all the connections of a host and *)
(* about both ends of a connection.  Kept apart from Framed because sums   *)
(* over ends and over frames are needed here and nowhere in the steps.     *)
(***************************************************************************)
EXTENDS Framed, FiniteSets

ASSUME FiniteEnds == IsFiniteSet(Ends)

EndsOf(h) == {e \in Ends : Host[e] = h}

(* The sum of n[e] over the elements of S, as the number of pairs of an    *)
(* element and one of its n[e] units.                                      *)
Units(n, S) == UNION {{e} \X (1..n[e]) : e \in S}
Total(n, S) == Cardinality(Units(n, S))

(* The permits that an end of a host keeps from the semaphore: with the    *)
(* detached task, in the command channel, in the decoder.                  *)
Taken(e) ==
  (IF waiter[e].at = "acquired" THEN waiter[e].len ELSE 0)
  + QueuedPermit(cmdq[e]) + dec[e].held

(* Permits are neither lost nor made: on every path, the failed, cancelled *)
(* and dropped ones included, what is free and what the connections of a   *)
(* host hold adds up to the limit.  A leak would starve every later large  *)
(* message of the endpoint (framed.rs:119-130, proto.rs:343-348).          *)
PermitAccounting ==
  \A h \in Hosts :
    avail[h] + Total([e \in Ends |-> Taken(e)], EndsOf(h)) = Limit

(* The payload bytes of a chunk, and the frame that a command carries.     *)
ChunkBytes(f) == IF f.kind = "MultipartMessage" THEN f.len ELSE 0
FrameOf(c) == IF c.cmd = "Recv" THEN c.frame ELSE NoFrame
SumOf(s) == Total(s, 1..Len(s))

(* A remote only sends what it was granted: all the chunks on their way to *)
(* a running end, with those it already put together, fit in the permit it *)
(* holds, so that the permit really bounds the memory (framed.rs:32-34).   *)
ChunksWithinGrant ==
  \A e \in Ends :
    Running(e) =>
      SumOf([i \in 1..Len(wire[e]) |-> ChunkBytes(wire[e][i])])
        + SumOf([i \in 1..Len(cmdq[e]) |-> ChunkBytes(FrameOf(cmdq[e][i]))])
        + Len(dec[e].incoming) <= dec[e].held

(* "Maximum receive message reconstruction bytes in memory (across entire  *)
(* endpoint)", tx5/src/config.rs:37-38.                                    *)
ReconstructionBytesBounded ==
  \A h \in Hosts :
    Total([e \in Ends |-> Len(dec[e].incoming)], EndsOf(h)) <= Limit

(* A connection of a host that is interrupted keeps a permit: nothing takes *)
(* back the permit of a message whose rest does not come (proto.rs:337-348).*)
Starved(h) == \E o \in EndsOf(h) : Interrupted(o) /\ Taken(o) > 0

(* No permit request of a remote is left waiting, unless the host is        *)
(* starved for good.                                                        *)
RequestsServed ==
  \A e \in Ends :
    waiter[e].at = "queued" ~>
      (waiter[e].at = "none" \/ []Starved(Host[e]))

(* Every send ends: accepted by the connection or failed with an error,     *)
(* never left waiting for room or for its own command task.  The one send   *)
(* that may wait for ever waits for a grant, on a connection interrupted    *)
(* for good or of a host starved for good: it has no timeout of its own     *)
(* (framed.rs:299).                                                         *)
SendsEnd ==
  \A e \in Ends :
    pc[e] # "idle" ~>
      (pc[e] = "idle"
       \/ [](pc[e] = "requested" /\ (Interrupted(e) \/ Starved(Host[Peer[e]]))))

----------------------------------------------------------------------------
(* The number of the last message that the owner of end e received. *)
LastReceived(e) ==
  IF recvd[e] = << >> THEN 0 ELSE recvd[e][Len(recvd[e])][1][1]

(* The messages that the owner of an end may send. *)
Messages == [e \in Ends |-> {Body(k, n) : k \in 1..MaxMsgs[e], n \in Sizes[e]}]

Chan == INSTANCE MsgChannel WITH
  Message <- Messages,
  recvd <- [e \in Ends |-> recvd[Peer[e]]],
  last <- [e \in Ends |-> LastReceived(Peer[e])]

(* Each direction of a connection is a channel of whole messages: delivered *)
(* once, unchanged, in order, without a gap but for sends that were given up *)
(* with an error or a timeout, and after the connection lost a frame of that *)
(* direction: then messages may be missing, but none is ever put together    *)
(* from what is left of it, or of two of them.                               *)
ImplementsMsgChannel == Chan!Spec
=============================================================================
