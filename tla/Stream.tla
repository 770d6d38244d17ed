------------------------------- MODULE Stream -------------------------------
(***************************************************************************)
(* The per-connection engine of i2pd streaming: class Stream of            *)
(* src/libi2pd/Streaming.cpp.                                              *)
(*                                                                         *)
(* Every member function that changes a stream is an operator from a      *)
(* stream record to a stream record, so that the composing module can run *)
(* a whole event-loop handler (a packet, a timer, a posted call) as one   *)
(* step, nested calls included, exactly as the single-threaded loop does. *)
(*                                                                         *)
(* Data are abstracted: a payload byte run is a sequence of item ordinals *)
(* (MTU items fit a packet); times and the RTT/jitter arithmetic are      *)
(* replaced by the comparisons the control flow reads (m_RTO against      *)
(* INITIAL_RTO, "RTT grew faster than prevRTT", "packet is overdue"),     *)
(* which the caller supplies as a choice record ch.                        *)
(***************************************************************************)
EXTENDS Integers, Sequences, FiniteSets, SequencesExt

CONSTANTS
    INITIAL_WINDOW_SIZE,
    MIN_WINDOW_SIZE,
    MAX_WINDOW_SIZE,
    MAX_NUM_RESEND_ATTEMPTS,
    MTU,                  \* payload items one packet carries (m_MTU)
    NACK_LIMIT,           \* 256 in the code: the one-byte NACK count
    HOST_LITTLE_ENDIAN    \* byte order of the build (htobuf16 writes host order)

ASSUME /\ 1 <= MIN_WINDOW_SIZE
       /\ MIN_WINDOW_SIZE <= INITIAL_WINDOW_SIZE
       /\ INITIAL_WINDOW_SIZE <= MAX_WINDOW_SIZE
       /\ MTU >= 1 /\ NACK_LIMIT >= 1
       /\ HOST_LITTLE_ENDIAN \in BOOLEAN

Statuses == {"New", "Open", "Closing", "Closed", "Reset", "Terminated"}

\* m_RTO compared with INITIAL_RTO, the only use the control flow makes of it
RtoClasses == {"below", "initial", "above"}

\* Wire flags the stream reads or writes.  "UNDEFINED" is what a receiver
\* reads from a choke ACK written in little-endian host order (0x4000).
Flags == {"SYN", "CLOSE", "RESET", "NOACK", "DELAY", "SIG", "FROM", "UNDEFINED"}

\* Item a receiver takes from a packet whose declared options run past its
\* end (GetLength () wraps around): see ChokeOptionsOverrun.
OVERRUN == -1

MaxOf(a, b) == IF a >= b THEN a ELSE b
MinOf(a, b) == IF a <= b THEN a ELSE b
Seqns(S) == {p.seqn : p \in S}

(***************************************************************************)
(* Stream constructors (Streaming.cpp 69-104): the outgoing one knows the  *)
(* remote identity from the lease set, the incoming one learns it from the *)
(* SYN's FROM option.                                                      *)
(***************************************************************************)
NewStream(id, outgoing) ==
    [recvStreamID |-> id, status |-> "New", sendStreamID |-> 0,
     remoteIdentity |-> outgoing, sequenceNumber |-> 0,
     lastReceived |-> -1,
     sentPackets |-> {}, savedPackets |-> {}, receiveQueue |-> <<>>,
     sendBuffer |-> <<>>, windowSize |-> INITIAL_WINDOW_SIZE,
     isWinDropped |-> TRUE, isNAcked |-> FALSE, isSendTime |-> TRUE,
     isTimeOutResend |-> FALSE, rto |-> "initial", numResendAttempts |-> 0,
     isAckSendScheduled |-> FALSE, sendTimer |-> FALSE, resendTimer |-> FALSE,
     ackLive |-> FALSE, ackAborted |-> 0, recvWait |-> "none",
     posted |-> <<>>, out |-> {}, wasReset |-> FALSE]

(***************************************************************************)
(* Timers.  A boost deadline_timer cancel () completes the pending wait    *)
(* with operation_aborted.  HandleSendTimer and HandleResendTimer ignore   *)
(* that completion, so their timers are armed flags.  HandleAckSendTimer   *)
(* does not look at the error code, so every wait it was given runs it:    *)
(* ackLive is the one wait that will expire, ackAborted counts the waits   *)
(* cancelled (by cancel () or by expires_from_now) whose handler is still  *)
(* to run.                                                                 *)
(***************************************************************************)
ScheduleSend(r) ==
    IF r.status # "Terminated" THEN [r EXCEPT !.sendTimer = TRUE] ELSE r

\* the resend timer armed only on an open stream
ScheduleResendOpenOnly(r) ==
    IF r.status = "Open" THEN [r EXCEPT !.resendTimer = TRUE] ELSE r
ScheduleResend(r) ==
    IF r.status # "Terminated" THEN [r EXCEPT !.resendTimer = TRUE] ELSE r

\* the pending wait, if any, completes with operation_aborted
AbortAckWait(r) ==
    [r EXCEPT !.ackAborted = IF r.ackLive THEN @ + 1 ELSE @, !.ackLive = FALSE]

\* cancel () if scheduled, expires_from_now (which aborts any pending wait
\* too), async_wait
ScheduleAck(r) ==
    [AbortAckWait(r) EXCEPT !.isAckSendScheduled = TRUE, !.ackLive = TRUE]

\* m_IsAckSendScheduled = false; m_AckSendTimer.cancel (): the aborted wait
\* still runs HandleAckSendTimer, which then finds the flag cleared.
CancelAck(r) == [AbortAckWait(r) EXCEPT !.isAckSendScheduled = FALSE]

\* m_ReceiveTimer.cancel (): the wait AsyncReceive armed, if pending,
\* completes with operation_aborted (recvWait: "none", "live" or "aborted";
\* one Receive at a time arms at most one wait)
CancelReceiveWait(r) ==
    [r EXCEPT !.recvWait = IF @ = "live" THEN "aborted" ELSE @]

Terminate(r) ==
    [CancelReceiveWait(AbortAckWait(r))
        EXCEPT !.status = "Terminated", !.sendTimer = FALSE, !.resendTimer = FALSE]

\* m_Status = eStreamStatusReset; wasReset is a history field of the model
\* that keeps the reset visible after Close has terminated the stream
ResetStatus(r) == [r EXCEPT !.status = "Reset", !.wasReset = TRUE]

ResetRoutingPath(r) == [r EXCEPT !.rto = "initial"]

(***************************************************************************)
(* SendPackets: routing (lease set, routing session, tunnel choice) is     *)
(* abstracted; what it does to the stream is to set m_RTO to INITIAL_RTO   *)
(* on a fresh tunnel, or from a shared routing path: ch.path.  A packet    *)
(* that cannot be routed is lost, which the network already models.        *)
(***************************************************************************)
SendPackets(r, pkts, ch) ==
    [r EXCEPT !.out = @ \cup pkts,
              !.rto = IF ch.path = "keep" THEN @ ELSE ch.path]

SendClose(r) ==
    LET p == [src |-> r.recvStreamID, ssid |-> r.sendStreamID,
              seqn |-> r.sequenceNumber, ack |-> MaxOf(r.lastReceived, 0),
              nacks |-> {}, flags |-> {"CLOSE", "SIG"}, sigValid |-> TRUE,
              payload |-> <<>>]
    IN  [r EXCEPT !.sequenceNumber = @ + 1,
                  !.posted = Append(@, [op |-> "SendPacket", pkt |-> p])]

SendPacketNoResend(r, p, ch) ==
    LET r1 == IF r.isAckSendScheduled THEN CancelAck(r) ELSE r
    IN  [SendPackets(r1, {p}, ch) EXCEPT !.sentPackets = @ \cup {p}]
SendPacket(r, p, ch) ==
    LET r1 == IF r.isAckSendScheduled THEN CancelAck(r) ELSE r
        r2 == [SendPackets(r1, {p}, ch) EXCEPT !.sentPackets = @ \cup {p}]
    IN  IF r1.sentPackets = {} THEN ScheduleResend(r2) ELSE r2

CloseResetIgnored(r) ==
    LET Closing(c) == IF c.sentPackets = {} /\ c.sendBuffer = <<>>
                      THEN SendClose([c EXCEPT !.status = "Closed"])
                      ELSE c
    IN  CASE r.status = "Open"    -> Closing([r EXCEPT !.status = "Closing"])
          [] r.status = "Closing" -> Closing(r)
          [] r.status = "Closed"  -> Terminate(r)
          [] OTHER                -> r
\* a Close that handles a reset stream as an open one
CloseOnResetAsOpen(r, status) ==
    LET Closing(c) == IF c.sentPackets = {} /\ c.sendBuffer = <<>>
                      THEN SendClose([c EXCEPT !.status = "Closed"])
                      ELSE c
    IN  CASE status \in {"Open", "Reset"} -> Closing([r EXCEPT !.status = "Closing"])
          [] status = "Closing" -> Closing(r)
          [] status = "Closed"  -> Terminate(r)
          [] OTHER -> r

\* Stream::Close taking the branch of the status `status` it read; the
\* other fields are read and written on r
CloseOn(r, status) ==
    LET Closing(c) == IF c.sentPackets = {} /\ c.sendBuffer = <<>>
                      THEN SendClose([c EXCEPT !.status = "Closed"])
                      ELSE c
    IN  CASE status = "Open"    -> Closing([r EXCEPT !.status = "Closing"])
          [] status = "Reset"   -> Terminate(r)
          [] status = "Closing" -> Closing(r)
          [] status = "Closed"  -> Terminate(r)
          [] OTHER              -> r
\* on the event loop the switch reads the current m_Status
Close(r) == CloseOn(r, r.status)

\* IsEstablished () is m_SendStreamID != 0 (Streaming.h)
IsEstablished(r) == r.sendStreamID # 0

(***************************************************************************)
(* SendBuffer: at most one packet per call.  The first one of a stream is  *)
(* its SYN (FROM, SIGNATURE, MAX_PACKET_SIZE, and NO_ACK while nothing has *)
(* been received); a follow-on carries ackThrough 0 while nothing has been *)
(* received but no NO_ACK flag.                                            *)
(***************************************************************************)
\* SendBufferQueue::Get (buf, MTU): up to MTU items off the front of the queue
GetNoConsume(q, n) ==
    [data |-> SubSeq(q, 1, MinOf(n, Len(q))), rest |-> q]
Get(q, n) ==
    [data |-> SubSeq(q, 1, MinOf(n, Len(q))),
     rest |-> SubSeq(q, MinOf(n, Len(q)) + 1, Len(q))]

\* Stream::ConcatenatePackets (buf, len): up to len items off the front of
\* m_ReceiveQueue, each popped once it is copied whole
ConcatenatePacketsNoPop(q, len) ==
    [data |-> SubSeq(q, 1, MinOf(len, Len(q))), rest |-> q]
ConcatenatePackets(q, len) ==
    [data |-> SubSeq(q, 1, MinOf(len, Len(q))),
     rest |-> SubSeq(q, MinOf(len, Len(q)) + 1, Len(q))]

\* one iteration of SendBuffer's loop: the packet it builds and the stream
\* after m_SequenceNumber++, the New -> Open move and m_SendBuffer.Get
BuildPacketAlwaysOpen(r) ==
    LET isNoAck == r.lastReceived < 0
        isNew == r.status = "New"
        g == Get(r.sendBuffer, MTU)
    IN  [pkt |-> [src |-> r.recvStreamID, ssid |-> r.sendStreamID,
                  seqn |-> r.sequenceNumber,
                  ack |-> IF isNoAck THEN 0 ELSE r.lastReceived, nacks |-> {},
                  flags |-> IF isNew THEN {"SYN", "FROM", "SIG"} \cup
                                          (IF isNoAck THEN {"NOACK"} ELSE {})
                            ELSE {},
                  sigValid |-> TRUE, payload |-> g.data],
         st |-> [r EXCEPT !.sequenceNumber = @ + 1, !.status = "Open",
                          !.sendBuffer = g.rest]]
BuildPacket(r) ==
    LET isNoAck == r.lastReceived < 0
        isNew == r.status = "New"
        g == Get(r.sendBuffer, MTU)
    IN  [pkt |-> [src |-> r.recvStreamID, ssid |-> r.sendStreamID,
                  seqn |-> r.sequenceNumber,
                  ack |-> IF isNoAck THEN 0 ELSE r.lastReceived, nacks |-> {},
                  flags |-> IF isNew THEN {"SYN", "FROM", "SIG"} \cup
                                          (IF isNoAck THEN {"NOACK"} ELSE {})
                            ELSE {},
                  sigValid |-> TRUE, payload |-> g.data],
         st |-> [r EXCEPT !.sequenceNumber = @ + 1,
                          !.status = IF isNew THEN "Open" ELSE @,
                          !.sendBuffer = g.rest]]

SendBuffer(r, ch) ==
    LET r1 == ScheduleSend(r)
        numMsgs == r1.windowSize - Cardinality(r1.sentPackets)
        b == BuildPacket(r1)
        r3 == IF b.st.savedPackets = {} THEN CancelAck(b.st) ELSE b.st
        r4 == [SendPackets([r3 EXCEPT !.sentPackets = @ \cup {b.pkt}], {b.pkt}, ch)
                  EXCEPT !.isSendTime = FALSE]
        r5 == IF r4.status = "Closing" /\ r4.sendBuffer = <<>>
              THEN SendClose(r4) ELSE r4
    IN  IF numMsgs <= 0 \/ ~r1.isSendTime
           \/ ~(r1.status = "New" \/ (IsEstablished(r1) /\ r1.sendBuffer # <<>>))
        THEN r1
        ELSE IF r1.sentPackets = {} THEN ScheduleResend(r5) ELSE r5

(***************************************************************************)
(* SendQuickAck: a pure ACK (seqn 0) through the highest saved seqn,      *)
(* NACKing every gap; when the NACKs would reach NACK_LIMIT it stops,     *)
(* acks through the last covered seqn and asks the sender to choke.       *)
(***************************************************************************)
NackScanNoNacks(ss, next, nacks, ackThrough) ==
    [nacks |-> {}, ack |-> ackThrough, choking |-> FALSE]

RECURSIVE NackScan(_, _, _, _)
NackScan(ss, next, nacks, ackThrough) ==
    IF ss = <<>>
    THEN [nacks |-> nacks, ack |-> ackThrough, choking |-> FALSE]
    ELSE IF Cardinality(nacks) + (Head(ss) - next) >= NACK_LIMIT
         THEN [nacks |-> nacks, ack |-> next - 1, choking |-> TRUE]
         ELSE NackScan(Tail(ss), Head(ss) + 1,
                       nacks \cup (next .. (Head(ss) - 1)), ackThrough)

\* flags and options size of a choke ACK are written with htobuf16, in host
\* order; a receiver reads them big-endian.  On a little-endian host the
\* flags read 0x4000 and the options size 512, past the end of the packet.
ChokeFlags == IF HOST_LITTLE_ENDIAN THEN {"UNDEFINED"} ELSE {"DELAY"}
ChokeOptionsOverrun == IF HOST_LITTLE_ENDIAN THEN <<OVERRUN>> ELSE <<>>

SendQuickAck(r, ch) ==
    LET saved == Seqns(r.savedPackets)
        last == IF saved = {} THEN r.lastReceived
                ELSE MaxOf(r.lastReceived, Max(saved))
        scan == IF last > r.lastReceived
                THEN NackScan(SetToSortSeq(saved, <), r.lastReceived + 1, {}, last)
                ELSE [nacks |-> {}, ack |-> last, choking |-> FALSE]
        p == [src |-> r.recvStreamID, ssid |-> r.sendStreamID, seqn |-> 0,
              ack |-> scan.ack, nacks |-> scan.nacks,
              flags |-> IF scan.choking THEN ChokeFlags ELSE {},
              sigValid |-> TRUE,
              payload |-> IF scan.choking THEN ChokeOptionsOverrun ELSE <<>>]
    IN  IF last < 0 THEN r ELSE SendPackets(r, {p}, ch)

\* the window grows by one per retired packet, up to MAX_WINDOW_SIZE
GrowWindowUncapped(w, n) == w + n
GrowWindow(w, n) == MinOf(MAX_WINDOW_SIZE, w + n)

\* an ACK range one packet too wide
InAckRangeOffByOne(r, p) == {q \in r.sentPackets : q.seqn <= p.ack + 1}
\* the sent packets an ACK through p.ack covers
InAckRange(r, p) == {q \in r.sentPackets : q.seqn <= p.ack}

(***************************************************************************)
(* ProcessAck: retire every sent packet up to ackThrough that is not       *)
(* NACKed, grow the window per retired packet, take an RTT sample (its     *)
(* outcome is ch.grow and ch.rto), then re-arm timers and refill.          *)
(***************************************************************************)
ProcessAck(r, p, ch) ==
    LET inRange == InAckRange(r, p)
        nacked == {q \in inRange : q.seqn \in p.nacks}
        acked == inRange \ nacked
        sent1 == r.sentPackets \ acked
        acknowledged == acked # {}
        win1 == GrowWindow(r.windowSize, Cardinality(acked))
        dropByDelay == acknowledged /\ ch.grow /\ ~r.isWinDropped
        win2 == IF acknowledged
                THEN MaxOf(IF dropByDelay THEN win1 \div 2 ELSE win1, MIN_WINDOW_SIZE)
                ELSE win1
        r1 == [r EXCEPT !.sentPackets = sent1, !.windowSize = win2,
                        !.isWinDropped = (@ \/ dropByDelay) /\ ~(win2 > Cardinality(sent1)),
                        !.rto = IF acknowledged THEN ch.rto ELSE @,
                        !.isNAcked = nacked # {}]
        r2 == IF (acknowledged /\ r.rto = "initial") \/ acknowledged \/ nacked # {}
              THEN ScheduleResend(r1) ELSE r1
        r3 == [r2 EXCEPT !.isNAcked = @ \/ (r2.sendBuffer = <<>> /\ sent1 # {})
                                        \/ Cardinality(sent1) > win2]
        r4 == IF sent1 = {} /\ r3.sendBuffer = <<>>
              THEN [r3 EXCEPT !.resendTimer = FALSE, !.sendTimer = FALSE]
              ELSE r3
        r5 == IF acknowledged
              THEN SendBuffer([r4 EXCEPT !.numResendAttempts = 0], ch)
              ELSE r4
    IN  IF p.ack > r.sequenceNumber THEN r
        ELSE CASE r5.status = "Closed"  -> Terminate(r5)
               [] r5.status = "Closing" -> Close(r5)
               [] OTHER                 -> r5

(***************************************************************************)
(* ProcessOptions: DELAY_REQUESTED (only choke ACKs carry it, with         *)
(* DELAY_CHOKING, which is never below m_RTT), FROM_INCLUDED, and the      *)
(* signature check.  flags is a by-value parameter: the CLOSE it adds on   *)
(* a failed signature does not reach ProcessPacket.  The identities of     *)
(* the model are not RSA and carry no offline signature, so it returns     *)
(* true.                                                                   *)
(***************************************************************************)
ProcessOptions(r, p) ==
    LET r1 == IF "DELAY" \in p.flags /\ ~r.isAckSendScheduled
              THEN [r EXCEPT !.windowSize = 1] ELSE r
        r2 == IF "FROM" \in p.flags THEN [r1 EXCEPT !.remoteIdentity = TRUE] ELSE r1
        r3 == IF "SIG" \in p.flags /\ ~p.sigValid THEN Close(r2) ELSE r2
    IN  [ok |-> TRUE, st |-> r3]

ProcessPacket(r, p) ==
    LET po == ProcessOptions(r, p)
        r0 == IF p.payload # <<>> THEN CancelReceiveWait(po.st) ELSE po.st
        r1 == [r0 EXCEPT !.receiveQueue = @ \o p.payload, !.lastReceived = p.seqn]
    IN  IF ~po.ok THEN Terminate(po.st)
        ELSE IF "RESET" \in p.flags THEN Close(ResetStatus(r1))
        ELSE IF "CLOSE" \in p.flags
             THEN Terminate([(IF r1.status # "Closed" THEN SendClose(r1) ELSE r1)
                               EXCEPT !.status = "Closed"])
        ELSE r1

\* the loop over m_SavedPackets in HandleNextPacket: deliver while contiguous
RECURSIVE DrainSaved(_)
DrainSaved(r) ==
    IF r.savedPackets = {} THEN r
    ELSE LET m == CHOOSE q \in r.savedPackets :
                      \A q2 \in r.savedPackets : q.seqn <= q2.seqn
         IN  IF m.seqn # r.lastReceived + 1 THEN r
             ELSE LET r1 == ProcessPacket([r EXCEPT !.savedPackets = @ \ {m}], m)
                  IN  IF r1.status = "Terminated" THEN r1 ELSE DrainSaved(r1)

SavePacket(r, p) ==
    IF p.seqn \in Seqns(r.savedPackets) THEN r
    ELSE [r EXCEPT !.savedPackets = @ \cup {p}]

(***************************************************************************)
(* HandleNextPacket: the receive path of one packet.                       *)
(***************************************************************************)
\* the in-sequence branch: process, drain the saved packets, then ack or reply
AfterDrain(r4, p, ch) ==
    CASE r4.status = "Terminated" -> r4
      [] r4.status = "Open" ->
            IF ~r4.isAckSendScheduled THEN ScheduleAck(r4) ELSE r4
      [] "SYN" \in p.flags -> SendBuffer(r4, ch)
      [] OTHER -> r4
InSequence(r3, p, ch) ==
    IF r3.status = "Terminated" THEN r3 ELSE AfterDrain(DrainSaved(r3), p, ch)
\* the out-of-sequence branch, after the packet is saved
AckOutOfSequence(r3) ==
    IF r3.lastReceived >= 0 /\ r3.isAckSendScheduled THEN r3 ELSE ScheduleAck(r3)
\* m_PreviousReceivedSequenceNumber only steers the tunnel and lease
\* rotation of the duplicate branch, which routing abstracts
Receive(r2, p, ch) ==
    CASE p.seqn = 0 /\ p.flags = {}   -> r2
      [] p.seqn = r2.lastReceived + 1 -> InSequence(ProcessPacket(r2, p), p, ch)
      [] p.seqn <= r2.lastReceived    -> SendQuickAck(r2, ch)
      [] OTHER                        -> AckOutOfSequence(SavePacket(r2, p))
\* m_SendStreamID = packet->GetReceiveStreamID () on the first packet
LearnSendStreamID(r, p) ==
    [r EXCEPT !.sendStreamID = IF @ = 0 THEN p.src ELSE @]
HandleNextPacket(r, p, ch) ==
    IF r.status = "Terminated" THEN r
    ELSE Receive(IF "NOACK" \notin p.flags
                 THEN ProcessAck(LearnSendStreamID(r, p), p, ch)
                 ELSE LearnSendStreamID(r, p), p, ch)

(***************************************************************************)
(* Timer handlers and the fast/timeout retransmission.                     *)
(***************************************************************************)
HalveWindow(r) ==
    [r EXCEPT !.windowSize = MaxOf(@ \div 2, MIN_WINDOW_SIZE),
              !.isWinDropped = TRUE]

\* ch.overdue is the seqn of the first sent packet with ts >= sendTime + RTO
\* (-1: none is overdue)
ResendPacket(r, ch) ==
    LET overdue == {q \in r.sentPackets : q.seqn = ch.overdue}
        attempts == IF r.isNAcked THEN 1
                    ELSE IF r.isTimeOutResend THEN r.numResendAttempts + 1
                    ELSE r.numResendAttempts
        r1 == [r EXCEPT !.numResendAttempts = attempts]
        r2 == IF attempts = 1 /\ r.rto # "initial"
              THEN IF ~r1.isWinDropped THEN HalveWindow(r1) ELSE r1
              ELSE IF r1.isTimeOutResend
              THEN [r1 EXCEPT !.isTimeOutResend = FALSE, !.rto = "initial",
                              !.windowSize = INITIAL_WINDOW_SIZE, !.isWinDropped = TRUE]
              ELSE r1
        r3 == [SendPackets(r2, overdue, ch) EXCEPT !.isSendTime = FALSE]
        r4 == IF overdue # {} /\ r.isSendTime
              THEN IF r3.isNAcked THEN ScheduleSend(r3) ELSE r3
              ELSE SendBuffer(r, ch)
    IN  IF r.numResendAttempts >= MAX_NUM_RESEND_ATTEMPTS
        THEN Close(ResetStatus(r))
        ELSE IF ~r4.isNAcked THEN ScheduleResend(r4) ELSE r4

HandleSendTimer(r, ch) ==
    LET r1 == [r EXCEPT !.sendTimer = FALSE, !.isSendTime = TRUE]
    IN  IF r1.isNAcked THEN ResendPacket(r1, ch)
        ELSE IF ~r1.isWinDropped /\ Cardinality(r1.sentPackets) = r1.windowSize
        THEN HalveWindow(r1)
        ELSE IF r1.windowSize > Cardinality(r1.sentPackets) THEN SendBuffer(r1, ch)
        ELSE ScheduleSend(r1)

HandleResendTimer(r, ch) ==
    ResendPacket([r EXCEPT !.resendTimer = FALSE, !.isSendTime = TRUE,
                           !.rto = IF @ = "above" THEN "initial" ELSE @,
                           !.sendTimer = FALSE, !.isTimeOutResend = TRUE,
                           !.isNAcked = FALSE], ch)

\* the error code is not read: an expiry and an operation_aborted
\* completion run the same code
HandleAckSendTimer(r, ch) ==
    IF ~r.isAckSendScheduled THEN r
    ELSE IF r.lastReceived < 0 THEN Close(ResetStatus(r))
    ELSE [(IF r.status = "Open" THEN SendQuickAck(r, ch) ELSE r)
             EXCEPT !.isAckSendScheduled = FALSE]

\* the handler AsyncSend posts: m_SendBuffer.Add (buffer); SendBuffer ()
PostedSend(r, item, ch) ==
    SendBuffer([r EXCEPT !.sendBuffer = Append(@, item)], ch)

=============================================================================
