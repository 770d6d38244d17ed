------------------------- MODULE MCStreamConnection -------------------------
(* Model-checking instance of StreamConnection: Out's application sends    *)
(* one or two items and each incoming stream's none or one, a window of    *)
(* 1..2 packets.  The cfgs give Out and the IDs of Ins as model values.    *)
EXTENDS StreamConnection

\* Out's application sends one or two items; an incoming stream's none, or one
MCSendsOutOnly == [s \in Streams |-> IF s = Out THEN 2 ELSE 0]
MCSendsOne == [s \in Streams |-> IF s = Out THEN 1 ELSE 0]
MCSendsBoth == [s \in Streams |-> IF s = Out THEN 2 ELSE 1]
MCSendsOneEach == [s \in Streams |-> 1]

\* bounds of the explored state space
MaxNet == 2          \* packets in flight at once
MaxNetCC == 1        \* the same, for the congestion-control run
MaxAckWaits == 1     \* cancelled m_AckSendTimer waits not yet run, per stream

StateBound ==
    /\ Cardinality(net) <= MaxNet
    /\ \A s \in Streams : st[s].ackAborted <= MaxAckWaits

StateBoundCC ==
    /\ Cardinality(net) <= MaxNetCC
    /\ \A s \in Streams : st[s].ackAborted <= MaxAckWaits
=============================================================================
