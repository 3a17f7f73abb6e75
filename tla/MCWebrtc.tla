------------------------------ MODULE MCWebrtc ------------------------------
(* Instances of Webrtc for TLC.                                            *)
EXTENDS Webrtc, TLC
=============================================================================
