---------------------------- MODULE DecoderProofs ----------------------------
(***************************************************************************)
(* The invariants of ProtoDecoder, for every set of frames that a remote   *)
(* may send, and that headers are exact for every length that fits: the    *)
(* header loses nothing, and the decoder stays consistent whatever it is   *)
(* given.                                                                  *)
(***************************************************************************)
EXTENDS ProtoDecoder, TLAPS

----------------------------------------------------------------------------
(* The operators of the decoder. *)

LEMMA NewDecoderType == NewDecoder \in Decoder
BY DEF NewDecoder, Decoder, DecodeState

LEMMA DecoderAfterType ==
  ASSUME NEW d \in Decoder, NEW f \in Frame
  PROVE  DecoderAfter(d, f) \in Decoder
<1>1. CASE f.kind = "MultipartMessage"
  <2>1. d.incoming \o f.body \in Seq(Byte)
    BY DEF Decoder, Frame
  <2>2. [d EXCEPT !.incoming = d.incoming \o f.body] \in Decoder
    BY <2>1 DEF Decoder
  <2>3. [d EXCEPT !.state = "Ready", !.incoming = << >>, !.held = 0] \in Decoder
    <3>1. << >> \in Seq(Byte)
      OBVIOUS
    <3> QED
      BY <3>1 DEF Decoder, DecodeState
  <2>4. [d EXCEPT !.did_error = TRUE] \in Decoder
    BY DEF Decoder
  <2> QED
    BY <1>1, <2>2, <2>3, <2>4 DEF DecoderAfter, AfterChunk,
           AfterRemoteRequest, AfterRemoteGrant
<1>2. CASE f.kind # "MultipartMessage"
  BY <1>2 DEF DecoderAfter, AfterChunk, AfterRemoteRequest, AfterRemoteGrant,
         Decoder, DecodeState, Frame
<1> QED
  BY <1>1, <1>2

LEMMA ResultOfType ==
  ASSUME NEW d \in Decoder, NEW f \in Frame
  PROVE  ResultOf(d, f) \in Result
<1>1. d.incoming \o f.body \in Seq(Byte)
  BY DEF Decoder, Frame
<1> QED
  BY <1>1 DEF ResultOf, Assembled, Outcome, Err, Idle, Result, Decoder, Frame

LEMMA AfterGrantType ==
  ASSUME NEW d \in Decoder, NEW n \in Nat
  PROVE  AfterGrant(d, n) \in Decoder
BY DEF AfterGrant, Decoder, DecodeState

LEMMA AfterRequestType ==
  ASSUME NEW d \in Decoder, NEW k \in Nat
  PROVE  AfterRequest(d, k) \in Decoder
BY DEF AfterRequest, Decoder, DecodeState

(* The state of a decoder: the buffer is within the permit while a chunked *)
(* message comes in, and there is neither buffer nor permit otherwise.     *)
Consistent(d) ==
  IF d.state = "ReceiveChunked"
  THEN Len(d.incoming) <= d.want_size /\ d.held = d.want_size
  ELSE d.incoming = << >> /\ d.held = 0

LEMMA NewDecoderConsistent == Consistent(NewDecoder)
BY DEF NewDecoder, Consistent

(* No frame, well formed or not, makes a decoder inconsistent. *)
LEMMA DecoderAfterConsistent ==
  ASSUME NEW d \in Decoder, NEW f \in Frame, Consistent(d)
  PROVE  Consistent(DecoderAfter(d, f))
<1>1. CASE ~ Accepts(d, f)
  BY <1>1 DEF DecoderAfter, AfterChunk, AfterRemoteRequest, AfterRemoteGrant,
         Consistent, Decoder
<1>2. CASE Accepts(d, f) /\ f.kind = "MultipartMessage"
  <2>1. /\ d.state = "ReceiveChunked"
        /\ Len(d.incoming \o f.body) <= d.want_size
    BY <1>2 DEF Accepts, AcceptsChunk, AcceptsRequest, Decoder, Frame
  <2>2. CASE Completes(d, f)
    BY <1>2, <2>2 DEF DecoderAfter, AfterChunk, AfterRemoteRequest,
           AfterRemoteGrant, Consistent, Decoder
  <2>3. CASE ~ Completes(d, f)
    BY <1>2, <2>1, <2>3 DEF DecoderAfter, AfterChunk, AfterRemoteRequest,
           AfterRemoteGrant, Consistent, Decoder
  <2> QED
    BY <2>2, <2>3
<1>3. CASE Accepts(d, f) /\ f.kind # "MultipartMessage"
  BY <1>3 DEF DecoderAfter, AfterChunk, AfterRemoteRequest, AfterRemoteGrant,
         Accepts, AcceptsChunk, AcceptsRequest,
         Consistent, Decoder
<1> QED
  BY <1>1, <1>2, <1>3

LEMMA AfterGrantConsistent ==
  ASSUME NEW d \in Decoder, Consistent(d), MayGrant(d)
  PROVE  Consistent(AfterGrant(d, d.awaiting))
BY DEF AfterGrant, MayGrant, Consistent, Decoder

LEMMA AfterRequestConsistent ==
  ASSUME NEW d \in Decoder, NEW k \in Nat, Consistent(d)
  PROVE  Consistent(AfterRequest(d, k))
BY DEF AfterRequest, Consistent, Decoder

----------------------------------------------------------------------------
(* The header.                                                             *)

(* Every header that encode produces decodes to the kind and the length it *)
(* was made of, for all of the 29 bits (proto.rs:57-123).                  *)
THEOREM HeaderRoundTripHolds ==
  ASSUME NEW kind \in Kinds, NEW len \in Nat, len <= MAX_PAYLOAD
  PROVE  HeaderRoundTrip(kind, len)
<1> DEFINE h == EncodeHeader(kind, len)
<1>1. KindBits[kind] \in 2..6
  BY SMT DEF Kinds, KindBits
<1>2. len \in Nat /\ len < 536870912
  BY SMT DEF MAX_PAYLOAD
<1>3. len \div 16777216 \in 0..31
  BY <1>2, SMT
<1>4. /\ h[1] = KindBits[kind] * 32 + len \div 16777216
      /\ h[2] = (len \div 65536) % 256
      /\ h[3] = (len \div 256) % 256
      /\ h[4] = len % 256
  BY SMT DEF EncodeHeader
<1>5. h[1] \div 32 = KindBits[kind] /\ h[1] % 32 = len \div 16777216
  BY <1>1, <1>3, <1>4, SMT
<1>6. len = (len \div 16777216) * 16777216 + ((len \div 65536) % 256) * 65536
            + ((len \div 256) % 256) * 256 + (len % 256)
  BY <1>2, SMT
<1>7. /\ h[1] \in 0..255 /\ h[2] \in 0..255
      /\ h[3] \in 0..255 /\ h[4] \in 0..255
  BY <1>1, <1>2, <1>3, <1>4, SMT
<1>8. \A i \in 1..4 : h[i] \in 0..255
  BY <1>7, SMT
<1>9. DecodeLen(h[1], h[2], h[3], h[4]) = len
  BY <1>2, <1>4, <1>5, <1>6, SMT DEF DecodeLen
<1> HIDE DEF h
<1> QED
  BY <1>5, <1>8, <1>9, SMT DEF HeaderRoundTrip, DecodeBits, h

----------------------------------------------------------------------------
(* The state machine. *)

(* A sequence without its i-th element, as SentGrant leaves `pending`. *)
LEMMA WithoutType ==
  ASSUME NEW S, NEW s \in Seq(S), NEW i \in 1..Len(s)
  PROVE  SubSeq(s, 1, i - 1) \o SubSeq(s, i + 1, Len(s)) \in Seq(S)
<1>1. SubSeq(s, 1, i - 1) \in Seq(S) /\ SubSeq(s, i + 1, Len(s)) \in Seq(S)
  OBVIOUS
<1> QED
  BY <1>1

(* The state of the decoder is well formed whatever the remote sends.      *)
THEOREM DecoderTypeOK == Spec => []TypeOK
<1>1. Init => TypeOK
  <2>1. Idle \in Result
    BY DEF Idle, Outcome, Result
  <2>2. << >> \in Seq(Nat)
    OBVIOUS
  <2> QED
    BY <2>1, <2>2, NewDecoderType DEF Init, TypeOK
<1>2. TypeOK /\ [Next]_vars => TypeOK'
  <2> SUFFICES ASSUME TypeOK, [Next]_vars
               PROVE  TypeOK'
    OBVIOUS
  <2> USE DEF TypeOK
  <2>1. ASSUME NEW f \in RemoteFrames, Decode(f)
        PROVE  TypeOK'
    <3>1. f \in Frame
      BY RemoteFramesAssumption
    <3>2. dec' \in Decoder /\ out' \in Result
      BY <2>1, <3>1, DecoderAfterType, ResultOfType DEF Decode
    <3>3. out'.len \in Nat
      BY <3>2 DEF Result
    <3>4. Append(pending, out'.len) \in Seq(Nat)
      BY <3>3
    <3> QED
      BY <2>1, <3>2, <3>3, <3>4 DEF Decode
  <2>2. ASSUME NEW i \in 1..Len(pending), SentGrant(i)
        PROVE  TypeOK'
    <3>1. pending[i] \in Nat
      OBVIOUS
    <3>2. dec' \in Decoder
      BY <2>2, <3>1, AfterGrantType DEF SentGrant
    <3>3. pending' \in Seq(Nat)
      BY <2>2, WithoutType DEF SentGrant
    <3> QED
      BY <2>2, <3>2, <3>3 DEF SentGrant
  <2>3. CASE SentRequest
    BY <2>3, AfterRequestType DEF SentRequest
  <2>4. CASE UNCHANGED vars
    BY <2>4 DEF vars
  <2> QED
    BY <2>1, <2>2, <2>3, <2>4 DEF Next
<1> QED
  BY <1>1, <1>2, PTL DEF Spec

----------------------------------------------------------------------------
(* What the decoder was asked for is what it waits for and what it is      *)
(* granted: between a request and the message, `asked` does not change.    *)
AskedIsKept ==
  /\ dec.state = "RemoteAwaitingPermit" => dec.awaiting = asked
  /\ dec.state = "ReceiveChunked" => dec.want_size = asked

(* The inductive invariant. *)
DecoderInv ==
  /\ TypeOK
  /\ Consistent(dec)
  /\ OneOutstandingRequest
  /\ AskedIsKept

LEMMA DecodeKeepsInv ==
  ASSUME DecoderInv, TypeOK', NEW f \in RemoteFrames, Decode(f)
  PROVE  DecoderInv'
<1>1. f \in Frame /\ dec \in Decoder
  BY RemoteFramesAssumption DEF DecoderInv, TypeOK
<1>2. Consistent(dec)'
  BY <1>1, DecoderAfterConsistent DEF DecoderInv, Decode, Consistent
<1>3. CASE Accepts(dec, f) /\ f.kind = "PermitRequest"
  <2>1. /\ dec.state = "Ready"
        /\ dec' = [dec EXCEPT !.state = "RemoteAwaitingPermit",
                              !.awaiting = f.len]
        /\ out' = Outcome("RemotePermitRequest", f.len, << >>, 0)
    BY <1>3 DEF Decode, DecoderAfter, AfterChunk, AfterRemoteRequest,
           AfterRemoteGrant, ResultOf, Assembled, Accepts,
           AcceptsChunk, AcceptsRequest
  <2>2. pending = << >>
    BY <2>1 DEF DecoderInv, OneOutstandingRequest
  <2>3. pending' = Append(<< >>, f.len) /\ asked' = f.len
    BY <2>1, <2>2 DEF Decode, Outcome
  <2>4. Len(pending') = 1 /\ pending'[1] = f.len
    BY <2>3, <1>1 DEF Frame
  <2>5. /\ dec'.state = "RemoteAwaitingPermit" /\ dec'.awaiting = f.len
    BY <2>1, <1>1 DEF Decoder
  <2> QED
    BY <1>2, <2>3, <2>4, <2>5
       DEF DecoderInv, OneOutstandingRequest, AskedIsKept
<1>4. CASE ~ (Accepts(dec, f) /\ f.kind = "PermitRequest")
  <2>1. out'.what # "RemotePermitRequest"
    BY <1>4, <1>1 DEF Decode, ResultOf, Assembled, Outcome, Idle, Err, Accepts,
           AcceptsChunk, AcceptsRequest
  <2>2. UNCHANGED << pending, asked >>
    BY <2>1 DEF Decode
  <2>3. \/ dec'.state = dec.state
        \/ dec.state \in {"NeedVersion", "ReceiveChunked"} /\ dec'.state = "Ready"
    BY <1>4, <1>1 DEF Decode, DecoderAfter, AfterChunk, AfterRemoteRequest,
           AfterRemoteGrant, Accepts, AcceptsChunk,
           AcceptsRequest, Decoder
  <2>4. dec'.awaiting = dec.awaiting /\ dec'.want_size = dec.want_size
    BY <1>4, <1>1 DEF Decode, DecoderAfter, AfterChunk, AfterRemoteRequest,
           AfterRemoteGrant, Accepts, AcceptsChunk,
           AcceptsRequest, Decoder
  <2> QED
    BY <1>2, <2>2, <2>3, <2>4
       DEF DecoderInv, OneOutstandingRequest, AskedIsKept
<1> QED
  BY <1>3, <1>4

LEMMA SentGrantKeepsInv ==
  ASSUME DecoderInv, TypeOK', NEW i \in 1..Len(pending), SentGrant(i)
  PROVE  DecoderInv'
<1>1. /\ i = 1 /\ Len(pending) = 1 /\ pending[1] = dec.awaiting
      /\ dec.state = "RemoteAwaitingPermit" /\ dec \in Decoder
  <2>1. pending \in Seq(Nat) /\ dec \in Decoder /\ Len(pending) <= 1
    BY DEF DecoderInv, OneOutstandingRequest, TypeOK
  <2>2. i = 1 /\ Len(pending) = 1
    <3> DEFINE n == Len(pending)
    <3>1. n \in Nat /\ n <= 1 /\ i \in 1..n
      BY <2>1
    <3> HIDE DEF n
    <3>2. i = 1 /\ n = 1
      BY ONLY <3>1, SMT
    <3> QED
      BY <3>2 DEF n
  <2>3. pending # << >>
    BY <2>2
  <2> QED
    BY <2>1, <2>2, <2>3 DEF DecoderInv, OneOutstandingRequest
<1>2. pending' = << >>
  BY <1>1 DEF SentGrant, DecoderInv, TypeOK
<1>3. dec' = AfterGrant(dec, dec.awaiting) /\ asked' = asked
  BY <1>1 DEF SentGrant
<1>4. Consistent(dec)'
  <2>1. CASE MayGrant(dec)
    BY <1>1, <1>3, <2>1, AfterGrantConsistent DEF DecoderInv, Consistent
  <2>2. CASE ~ MayGrant(dec)
    BY <1>1, <1>3, <2>2 DEF DecoderInv, Consistent, AfterGrant, Decoder
  <2> QED
    BY <2>1, <2>2
<1>5. AskedIsKept'
  BY <1>1, <1>3 DEF DecoderInv, AskedIsKept, AfterGrant, Decoder
<1> QED
  BY <1>2, <1>4, <1>5 DEF DecoderInv, OneOutstandingRequest

LEMMA SentRequestKeepsInv ==
  ASSUME DecoderInv, TypeOK', SentRequest
  PROVE  DecoderInv'
<1>1. dec \in Decoder
  BY DEF DecoderInv, TypeOK
<1>2. Consistent(dec)'
  BY <1>1, AfterRequestConsistent DEF DecoderInv, SentRequest, Consistent
<1>3. /\ dec'.state = dec.state /\ dec'.awaiting = dec.awaiting
      /\ dec'.want_size = dec.want_size
  BY <1>1 DEF SentRequest, AfterRequest, Decoder
<1> QED
  BY <1>2, <1>3
     DEF SentRequest, DecoderInv, OneOutstandingRequest, AskedIsKept

(* The decoder's invariant, from which the theorems below follow.          *)
THEOREM DecoderInvariant == Spec => []DecoderInv
<1>1. Init /\ TypeOK => DecoderInv
  BY NewDecoderConsistent
     DEF Init, DecoderInv, OneOutstandingRequest, AskedIsKept, NewDecoder
<1>2. DecoderInv /\ TypeOK' /\ [Next]_vars => DecoderInv'
  <2> SUFFICES ASSUME DecoderInv, TypeOK', [Next]_vars
               PROVE  DecoderInv'
    OBVIOUS
  <2>1. CASE \E f \in RemoteFrames : Decode(f)
    BY <2>1, DecodeKeepsInv
  <2>2. CASE \E i \in 1..Len(pending) : SentGrant(i)
    BY <2>2, SentGrantKeepsInv
  <2>3. CASE SentRequest
    BY <2>3, SentRequestKeepsInv
  <2>4. CASE UNCHANGED vars
    BY <2>4 DEF vars, DecoderInv, TypeOK, Consistent, OneOutstandingRequest,
                AskedIsKept
  <2> QED
    BY <2>1, <2>2, <2>3, <2>4 DEF Next
<1> QED
  BY <1>1, <1>2, DecoderTypeOK, PTL DEF Spec

(* Whatever a remote sends, the bytes kept for an incomplete message are   *)
(* covered by a permit: the memory spent on them is what the semaphore     *)
(* has given out.                                                          *)
THEOREM BufferIsWithinPermit == Spec => []BufferedWithinPermit
<1>1. DecoderInv => BufferedWithinPermit
  BY DEF DecoderInv, TypeOK, Consistent, BufferedWithinPermit, Decoder
<1> QED
  BY <1>1, DecoderInvariant, PTL

(* A connection has at most one permit request pending, whatever the       *)
(* remote sends.                                                           *)
THEOREM RequestIsUnique == Spec => []OneOutstandingRequest
<1>1. DecoderInv => OneOutstandingRequest
  BY DEF DecoderInv
<1> QED
  BY <1>1, DecoderInvariant, PTL

(* A permit is only held while the message it was taken for comes in.      *)
THEOREM PermitIsNotKept == Spec => []PermitOnlyWhileChunking
<1>1. DecoderInv => PermitOnlyWhileChunking
  BY DEF DecoderInv, TypeOK, Consistent, PermitOnlyWhileChunking, Decoder
<1> QED
  BY <1>1, DecoderInvariant, PTL

(* A message put together from chunks has the size that was asked for.     *)
THEOREM MessageSizeIsAsked == Spec => MessageHasRequestedSize
<1> DEFINE Step == dec.state = "ReceiveChunked" /\ dec'.state = "Ready" =>
                     out'.what = "Message" /\ Len(out'.body) = asked
<1>1. DecoderInv /\ [Next]_vars => [Step]_vars
  <2> SUFFICES ASSUME DecoderInv, [Next]_vars,
                      dec.state = "ReceiveChunked", dec'.state = "Ready"
               PROVE  out'.what = "Message" /\ Len(out'.body) = asked
    BY DEF vars
  <2>1. dec \in Decoder /\ dec.want_size = asked
    BY DEF DecoderInv, TypeOK, AskedIsKept
  <2>2. ASSUME NEW f \in RemoteFrames, Decode(f)
        PROVE  out'.what = "Message" /\ Len(out'.body) = asked
    <3>1. f \in Frame
      BY RemoteFramesAssumption
    <3>2. Accepts(dec, f) /\ f.kind = "MultipartMessage" /\ Completes(dec, f)
      BY <2>1, <2>2, <3>1 DEF Decode, DecoderAfter, AfterChunk,
             AfterRemoteRequest, AfterRemoteGrant, Accepts,
             AcceptsChunk, AcceptsRequest, Decoder
    <3>3. out' = Outcome("Message", dec.want_size, dec.incoming \o f.body, 0)
      BY <2>2, <3>2 DEF Decode, ResultOf, Assembled
    <3>4. Len(dec.incoming \o f.body) = dec.want_size
      BY <2>1, <3>1, <3>2 DEF Completes, Decoder, Frame
    <3> QED
      BY <2>1, <3>3, <3>4 DEF Outcome
  <2>3. ~ \E i \in 1..Len(pending) : SentGrant(i)
    BY <2>1 DEF SentGrant, AfterGrant, MayGrant, Decoder
  <2>4. ~ SentRequest
    BY <2>1 DEF SentRequest, AfterRequest, Decoder
  <2>5. ~ UNCHANGED vars
    BY DEF vars
  <2> QED
    BY <2>2, <2>3, <2>4, <2>5 DEF Next
<1> QED
  BY <1>1, DecoderInvariant, PTL DEF Spec, MessageHasRequestedSize

----------------------------------------------------------------------------
(* A permit, asked for or held, is of a size that a header can carry.      *)
SizesFit == dec.awaiting <= MAX_PAYLOAD /\ dec.held <= MAX_PAYLOAD

(* No header that this decoder's connection is about runs over: whatever   *)
(* the remote sends, the permits fit the 29 bits of the length, and each   *)
(* length decodes to itself next to every kind (proto.rs:57-123).          *)
THEOREM HeadersAreExact == Spec => []HeadersRoundTrip
<1>1. Init => SizesFit
  BY DEF Init, NewDecoder, SizesFit, MAX_PAYLOAD
<1>2. DecoderInv /\ SizesFit /\ [Next]_vars => SizesFit'
  <2> SUFFICES ASSUME DecoderInv, SizesFit, [Next]_vars
               PROVE  SizesFit'
    OBVIOUS
  <2>1. dec \in Decoder /\ pending \in Seq(Nat)
    BY DEF DecoderInv, TypeOK
  <2>2. ASSUME NEW f \in RemoteFrames, Decode(f)
        PROVE  SizesFit'
    <3>1. f \in Frame /\ f.len <= MAX_PAYLOAD
      BY RemoteFramesAssumption
    <3>2. /\ dec'.awaiting \in {dec.awaiting, f.len}
          /\ dec'.held \in {dec.held, 0}
      BY <2>1, <2>2 DEF Decode, DecoderAfter, AfterChunk, AfterRemoteRequest,
                        AfterRemoteGrant, Decoder
    <3>3. 0 <= MAX_PAYLOAD
      BY DEF MAX_PAYLOAD
    <3> QED
      BY <3>1, <3>2, <3>3 DEF SizesFit
  <2>3. ASSUME NEW i \in 1..Len(pending), SentGrant(i)
        PROVE  SizesFit'
    <3>1. pending[i] = dec.awaiting
      <4>1. Len(pending) <= 1 /\ Len(pending) \in Nat
        BY <2>1 DEF DecoderInv, OneOutstandingRequest
      <4>2. i = 1 /\ pending # << >>
        BY <4>1
      <4> QED
        BY <4>2 DEF DecoderInv, OneOutstandingRequest
    <3>2. dec'.awaiting = dec.awaiting /\ dec'.held \in {dec.held, dec.awaiting}
      BY <2>1, <2>3, <3>1 DEF SentGrant, AfterGrant, Decoder
    <3> QED
      BY <3>2 DEF SizesFit
  <2>4. CASE SentRequest
    BY <2>1, <2>4 DEF SentRequest, AfterRequest, Decoder, SizesFit
  <2>5. CASE UNCHANGED vars
    BY <2>5 DEF vars, SizesFit
  <2> QED
    BY <2>2, <2>3, <2>4, <2>5 DEF Next
<1>3. DecoderInv /\ SizesFit => HeadersRoundTrip
  <2> SUFFICES ASSUME DecoderInv, SizesFit, NEW kind \in Kinds,
                      NEW len \in Lengths \cup {dec.held, dec.awaiting}
               PROVE  HeaderRoundTrip(kind, len)
    BY DEF HeadersRoundTrip
  <2>1. len \in Nat /\ len <= MAX_PAYLOAD
    <3>1. dec.held \in Nat /\ dec.awaiting \in Nat
      BY DEF DecoderInv, TypeOK, Decoder
    <3>2. MAX_PAYLOAD \in Nat
      BY DEF MAX_PAYLOAD
    <3> QED
      BY <3>1, <3>2, RemoteFramesAssumption DEF SizesFit
  <2> QED
    BY <2>1, HeaderRoundTripHolds
<1> QED
  BY <1>1, <1>2, <1>3, DecoderInvariant, PTL DEF Spec
=============================================================================
