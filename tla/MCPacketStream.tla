--------------------------- MODULE MCPacketStream ---------------------------
(* Instances of PacketStream for TLC. *)
EXTENDS PacketStream

CONSTANT Packets  \* how many packets the peer sends

(* Of both sizes, those with a sequence number too. *)
Good ==
  [size : {minSize, MaxSize}, sound : {TRUE}, seq : {NoSeq}]
    \cup {[size |-> IF q = 1 THEN MaxSize ELSE minSize, sound |-> TRUE, seq |-> q] : q \in 1..MaxSeq}
Forged == [size |-> minSize, sound |-> FALSE, seq |-> NoSeq]
Short == [size |-> minSize - 1, sound |-> TRUE, seq |-> NoSeq]

(* Where the packets of p begin. *)
Start(p) ==
  LET s[k \in 1..Packets] == IF k = 1 THEN 0 ELSE s[k - 1] + p[k - 1].size
  IN  s

(* The streams made of Packets packets; bytes inside a packet, if they     *)
(* were read as one, would be too short.                                   *)
Streams ==
  { [o \in Offset |->
      IF \E k \in 1..Packets : Start(p)[k] = o
      THEN p[CHOOSE k \in 1..Packets : Start(p)[k] = o]
      ELSE [size |-> 0, sound |-> FALSE, seq |-> NoSeq]]
    : p \in [1..Packets -> Good \cup {Forged, Short}] }

=============================================================================
