---------------------------- MODULE ConnRegistry ----------------------------
(***************************************************************************)
(* What Hub promises about connections: a key has at most one open         *)
(* connection; it gets another only after the first one closed, and a      *)
(* connection that closed is never used again.                             *)
(***************************************************************************)
CONSTANTS Keys, Conns, NoConn

VARIABLES current,  \* the open connection of a key, or NoConn
          used      \* the connections made so far

regVars == << current, used >>

Init ==
  /\ current = [k \in Keys |-> NoConn]
  /\ used = {}

Open(k, c) ==
  /\ current[k] = NoConn /\ c \notin used
  /\ current' = [current EXCEPT ![k] = c]
  /\ used' = used \cup {c}

(* A connection nobody wanted any more when it was made. *)
Waste(c) ==
  /\ c \notin used
  /\ used' = used \cup {c} /\ UNCHANGED current

Close(ks) ==
  /\ current' = [k \in Keys |-> IF k \in ks THEN NoConn ELSE current[k]]
  /\ UNCHANGED used

Next ==
  \/ \E k \in Keys, c \in Conns : Open(k, c)
  \/ \E c \in Conns : Waste(c)
  \/ \E ks \in SUBSET Keys : Close(ks)

Spec == Init /\ [][Next]_regVars
=============================================================================
