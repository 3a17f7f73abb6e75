------------------------------- MODULE Proto -------------------------------
(***************************************************************************)
(* The tx5 wire protocol of tx5-connection/src/proto.rs: the four byte     *)
(* header, the encoding of a message into frames, and the stateful decoder *)
(* that each FramedConn drives.  Everything here is an operator on values; *)
(* the modules ProtoDecoder and Framed put the decoder in a state.         *)
(*                                                                         *)
(* A message is a sequence of Byte; what a byte is, is left open: the      *)
(* protocol never looks inside a payload.                                  *)
(***************************************************************************)
EXTENDS Integers, Sequences

CONSTANTS Byte,      \* the payload bytes
          MaxChunk   \* the payload bytes that fit in one frame (16 KiB - 4)

ASSUME MaxChunkAssumption == MaxChunk \in Nat \ {0}

----------------------------------------------------------------------------
(* The header: 3 bits of kind and 29 bits of length, big endian.           *)

MAX_PAYLOAD == 536870911   \* 2^29 - 1

KindBits == [Version          |-> 2,
             CompleteMessage  |-> 3,
             MultipartMessage |-> 4,
             PermitRequest    |-> 5,
             PermitGrant      |-> 6]

Kinds == {"Version", "CompleteMessage", "MultipartMessage", "PermitRequest",
          "PermitGrant"}

(* Faulty variant: the top five bits of the length are lost. *)
EncodeHeaderShort(kind, len) ==
  << KindBits[kind] * 32, (len \div 65536) % 256, (len \div 256) % 256, len % 256 >>

(* The four bytes of a header.  The 29 bits of a Version hold its five bit *)
(* number and three byte tag.  Sizes over MAX_PAYLOAD are refused.         *)
EncodeHeader(kind, len) ==
  << KindBits[kind] * 32 + len \div 16777216,
     (len \div 65536) % 256,
     (len \div 256) % 256,
     len % 256 >>

DecodeBits(a) == a \div 32

DecodeLen(a, b, c, d) == (a % 32) * 16777216 + b * 65536 + c * 256 + d

(* Decoding what was encoded gives back the kind and the length.           *)
HeaderRoundTrip(kind, len) ==
  LET h == EncodeHeader(kind, len) IN
  /\ \A i \in 1..4 : h[i] \in 0..255
  /\ DecodeBits(h[1]) = KindBits[kind]
  /\ DecodeLen(h[1], h[2], h[3], h[4]) = len

----------------------------------------------------------------------------
(* Frames, as they travel: the kind and length of the header, and the      *)
(* payload that follows it.  "Invalid" stands for what no header decodes   *)
(* to: fewer than four bytes, reserved bits, a version that is not 2/tx5.  *)

Frame == [kind : Kinds \cup {"Invalid"}, len : Nat, body : Seq(Byte)]

VersionFrame      == [kind |-> "Version", len |-> 0, body |-> << >>]
CompleteFrame(m)  == [kind |-> "CompleteMessage", len |-> Len(m), body |-> m]
ChunkFrame(m)     == [kind |-> "MultipartMessage", len |-> Len(m), body |-> m]
RequestFrame(n)   == [kind |-> "PermitRequest", len |-> n, body |-> << >>]
GrantFrame(n)     == [kind |-> "PermitGrant", len |-> n, body |-> << >>]

(* proto_encode: a message that fits one frame is sent as it is, a longer  *)
(* one asks for a permit first and is then cut at every MaxChunk bytes.    *)
NeedsPermit(m) == Len(m) > MaxChunk

NextChunk(m, cur) ==
  LET left == Len(m) - cur
      amt  == IF MaxChunk < left THEN MaxChunk ELSE left
  IN  SubSeq(m, cur + 1, cur + amt)

----------------------------------------------------------------------------
(* The decoder.  `held` is the size of grant_permit (0 for None), `notify` *)
(* names the send whose oneshot is in grant_notify (0 for None), `awaiting`*)
(* is the length carried by the state RemoteAwaitingPermit.                *)

DecodeState ==
  {"NeedVersion", "Ready", "RemoteAwaitingPermit", "ReceiveChunked"}

Decoder ==
  [state : DecodeState, awaiting : Nat, want_size : Nat,
   incoming : Seq(Byte), want_remote_grant : BOOLEAN, did_error : BOOLEAN,
   held : Nat, notify : Nat]

NewDecoder ==
  [state |-> "NeedVersion", awaiting |-> 0, want_size |-> 0,
   incoming |-> << >>, want_remote_grant |-> FALSE, did_error |-> FALSE,
   held |-> 0, notify |-> 0]

(* ProtoDecodeResult, with "Err" for the Err side. *)
Result == [what : {"Idle", "Message", "RemotePermitRequest",
                   "RemotePermitGrant", "Err"},
           len : Nat, body : Seq(Byte), notify : Nat]

Outcome(what, len, body, notify) ==
  [what |-> what, len |-> len, body |-> body, notify |-> notify]

Idle == Outcome("Idle", 0, << >>, 0)
Err  == Outcome("Err", 0, << >>, 0)

(* Faulty variant: a new permit request is taken in any state. *)
AcceptsAnyRequest(d) == TRUE

AcceptsRequest(d) == d.state = "Ready"

(* Faulty variant: the total of the chunks is not compared to the grant. *)
AcceptsAnyTotal(d, f) ==
  /\ d.state = "ReceiveChunked"
  /\ f.len = Len(f.body) /\ f.len # 0 /\ Len(d.incoming) < d.want_size

AcceptsChunk(d, f) ==
  /\ d.state = "ReceiveChunked"
  /\ f.len = Len(f.body) /\ f.len # 0
  /\ f.len + Len(d.incoming) <= d.want_size

(* When the decoder accepts a frame; anything else sets did_error, for     *)
(* good.                                                                   *)
Accepts(d, f) ==
  /\ ~ d.did_error
  /\ \/ f.kind = "Version" /\ d.state = "NeedVersion"
     \/ f.kind = "CompleteMessage" /\ d.state = "Ready" /\ f.len = Len(f.body)
     \/ f.kind = "MultipartMessage" /\ AcceptsChunk(d, f)
     \/ f.kind = "PermitRequest" /\ AcceptsRequest(d)
     \/ f.kind = "PermitGrant" /\ d.want_remote_grant

(* Faulty variant: complete as soon as one more byte is there than asked. *)
CompletesEarly(d, f) == Len(d.incoming) + Len(f.body) + 1 >= d.want_size

Completes(d, f) == Len(d.incoming) + Len(f.body) = d.want_size

(* Faulty variant: the permit stays with the decoder after the message. *)
AfterChunkKeepsPermit(d, f) ==
  IF Completes(d, f)
  THEN [d EXCEPT !.state = "Ready", !.incoming = << >>]
  ELSE [d EXCEPT !.incoming = @ \o f.body]

AfterChunk(d, f) ==
  IF Completes(d, f)
  THEN [d EXCEPT !.state = "Ready", !.incoming = << >>, !.held = 0]
  ELSE [d EXCEPT !.incoming = @ \o f.body]

(* Faulty variant: the state only changes once the permit is granted. *)
AfterRemoteRequestReady(d, f) == [d EXCEPT !.awaiting = f.len]

AfterRemoteRequest(d, f) ==
  [d EXCEPT !.state = "RemoteAwaitingPermit", !.awaiting = f.len]

(* Faulty variant: the decoder goes on waiting for a grant. *)
AfterRemoteGrantWaits(d) == [d EXCEPT !.notify = 0]

AfterRemoteGrant(d) == [d EXCEPT !.want_remote_grant = FALSE, !.notify = 0]

DecoderAfter(d, f) ==
  IF ~ Accepts(d, f) THEN [d EXCEPT !.did_error = TRUE]
  ELSE CASE f.kind = "Version" -> [d EXCEPT !.state = "Ready"]
         [] f.kind = "CompleteMessage" -> d
         [] f.kind = "MultipartMessage" -> AfterChunk(d, f)
         [] f.kind = "PermitRequest" -> AfterRemoteRequest(d, f)
         [] OTHER -> AfterRemoteGrant(d)

Assembled(d, f) == d.incoming \o f.body

ResultOf(d, f) ==
  IF ~ Accepts(d, f) THEN Err
  ELSE CASE f.kind = "Version" -> Idle
         [] f.kind = "CompleteMessage" -> Outcome("Message", f.len, f.body, 0)
         [] f.kind = "MultipartMessage" ->
              IF Completes(d, f)
              THEN Outcome("Message", d.want_size, Assembled(d, f), 0)
              ELSE Idle
         [] f.kind = "PermitRequest" ->
              Outcome("RemotePermitRequest", f.len, << >>, 0)
         [] OTHER -> Outcome("RemotePermitGrant", f.len, << >>, d.notify)

(* sent_remote_permit_grant: `n` bytes of permit now back the payload that *)
(* the remote may send.                                                    *)
MayGrant(d) == ~ d.did_error /\ d.state = "RemoteAwaitingPermit"

(* Faulty variant: the permit is dropped once the decoder was told. *)
AfterGrantForgets(d, n) ==
  IF MayGrant(d)
  THEN [d EXCEPT !.state = "ReceiveChunked", !.want_size = d.awaiting]
  ELSE [d EXCEPT !.did_error = TRUE]

AfterGrant(d, n) ==
  IF MayGrant(d)
  THEN [d EXCEPT !.state = "ReceiveChunked", !.want_size = d.awaiting,
                 !.held = n]
  ELSE [d EXCEPT !.did_error = TRUE]

(* sent_remote_permit_request: send `k` is about to ask for a permit. *)
MayRequest(d) == ~ d.did_error /\ ~ d.want_remote_grant

AfterRequest(d, k) ==
  IF MayRequest(d)
  THEN [d EXCEPT !.want_remote_grant = TRUE, !.notify = k]
  ELSE [d EXCEPT !.did_error = TRUE]
=============================================================================
