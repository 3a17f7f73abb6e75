--------------------------- MODULE MCProtoDecoder ---------------------------
(* Small instance of ProtoDecoder: payload bytes are 0 and 1, messages and *)
(* permits have up to 3 bytes, a header may lie about the length.          *)
EXTENDS ProtoDecoder, Integers

Bodies == UNION {[1..n -> Byte] : n \in 0..2}

MCRemoteFrames ==
  {VersionFrame, [kind |-> "Invalid", len |-> 0, body |-> << >>]}
  \cup {[kind |-> k, len |-> n, body |-> << >>] :
          k \in {"PermitRequest", "PermitGrant"}, n \in 0..3}
  \cup {[kind |-> k, len |-> n, body |-> b] :
          k \in {"CompleteMessage", "MultipartMessage"}, n \in 0..3,
          b \in Bodies}

(* The lengths around each byte boundary of a header, and the largest.     *)
Boundaries == {0, 255, 256, 65535, 65536, 16777215, 16777216, 16777217,
               268435456, MAX_PAYLOAD - 1, MAX_PAYLOAD}
MCLengths == {n + d : n \in Boundaries, d \in -3..3} \cap 0..MAX_PAYLOAD
=============================================================================
