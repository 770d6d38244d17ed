----------------------------- MODULE ByteStream -----------------------------
(***************************************************************************)
(* What one direction of a stream promises its applications (spec section *)
(* 1: "an ordered ... reliable byte stream"): the reader reads, in order   *)
(* and once each, a prefix of what the writer has written, and, until the *)
(* connection fails, it eventually reads every item written.  The          *)
(* connection fails when a stream of it is reset or the reader closes its *)
(* end; after that what was written may never arrive.  Data is what a     *)
(* write can carry; an item is the unit of one write.                      *)
(***************************************************************************)
EXTENDS Naturals, Sequences

CONSTANT Data

VARIABLES
    sent,   \* the items the writer has passed to Send, in order
    read,   \* the items the reader has read, in order
    broken  \* the connection has failed

vars == <<sent, read, broken>>

Init == sent = <<>> /\ read = <<>> /\ broken = FALSE

\* the writer writes one item
Write == \E d \in Data : sent' = Append(sent, d) /\ UNCHANGED <<read, broken>>

\* the reader reads the next one or more items
Read ==
    /\ \E k \in Len(read) + 1 .. Len(sent) : read' = SubSeq(sent, 1, k)
    /\ UNCHANGED <<sent, broken>>

\* the connection fails, for good
Fail == ~broken /\ broken' = TRUE /\ UNCHANGED <<sent, read>>

Next == Write \/ Read \/ Fail

\* a reader that has items to read on a connection that has not failed
\* reads them
Spec == Init /\ [][Next]_vars /\ WF_vars(~broken /\ Read)
=============================================================================
