-------------------------- MODULE StreamConnection --------------------------
(***************************************************************************)
(* One i2pd streaming connection: the outgoing stream Out that an         *)
(* application opened with StreamingDestination::CreateNewOutgoingStream, *)
(* and the incoming stream In that the remote StreamingDestination creates *)
(* when Out's SYN reaches it (StreamingDestination::HandleNextPacket,      *)
(* Streaming.cpp 1347-1469).  Between them is a network that loses,        *)
(* duplicates and reorders packets.  Each incoming stream has its own     *)
(* receive stream ID, drawn from Ins: a SYN of Out that arrives after the  *)
(* first incoming stream was deleted creates another one.                  *)
(*                                                                         *)
(* Each destination runs its streams on one io_service thread, so every    *)
(* step below is one handler run to completion: a packet, a timer expiry, *)
(* or a handler that Stream::AsyncSend, Stream::SendClose or             *)
(* StreamingDestination::DeleteStream posted.  The application threads    *)
(* call Send (which posts), DeleteStream (which posts) and Close (which    *)
(* runs at once on their thread, see AppClose and AppCloseRead); Out's    *)
(* destination may be stopped.  The acceptor is installed, so In is       *)
(* handed to the application as soon as its SYN is handled.                *)
(***************************************************************************)
EXTENDS Stream

CONSTANTS
    Out,              \* receive stream ID of the outgoing stream (model value)
    Ins,              \* receive stream IDs the remote destination gives its
                      \* incoming streams, one per CreateNewIncomingStream
    MaxSends,         \* MaxSends[s]: how many Send calls s's application makes
    RTO_OUTCOMES,     \* classes an RTT sample can give m_RTO
    GROW_OUTCOMES,    \* whether a sample can show the RTT growing (delay-based CC)
    PATH_OUTCOMES,    \* what SendPackets can do to m_RTO ("keep" or a class)
    DUPLICATION,      \* the network may deliver a packet and keep a copy
    APP_READS,        \* the applications read their streams
    RECEIVE_LEN,      \* items one AsyncReceive buffer holds
    RECEIVE_BLOCKING, \* the streams whose application reads with Stream::Receive
    RECEIVE_GIVES_UP, \* Receive's 1 s poll after a timeout may run out
    CLOSE_RACE,       \* the application's Close may interleave with handlers
    DEST_CALLS        \* DeleteStream (recvStreamID) and Stop are called

ASSUME /\ RTO_OUTCOMES \subseteq RtoClasses /\ RTO_OUTCOMES # {}
       /\ GROW_OUTCOMES \subseteq BOOLEAN /\ GROW_OUTCOMES # {}
       /\ PATH_OUTCOMES \subseteq {"keep"} \cup RtoClasses /\ "keep" \in PATH_OUTCOMES
       /\ Ins # {} /\ Out \notin Ins
       /\ DUPLICATION \in BOOLEAN
       /\ APP_READS \in BOOLEAN /\ RECEIVE_LEN \in Nat \ {0}
       /\ CLOSE_RACE \in BOOLEAN /\ DEST_CALLS \in BOOLEAN
       /\ RECEIVE_BLOCKING \subseteq {Out} \cup Ins /\ RECEIVE_GIVES_UP \in BOOLEAN

VARIABLES
    st,         \* st[s]: the Stream object with receive stream ID s
    net,        \* packets in flight between the two destinations
    created,    \* the incoming streams the remote destination has created
    nsub,       \* nsub[s]: Send calls made by s's application so far
    appClosed,  \* s's application has called Close
    appRead,    \* appRead[s]: the items s's application has read, in order
    closeRead,  \* closeRead[s]: the m_Status a running Close read, or "none"
    taken,      \* taken[s]: the items ConcatenatePackets removed from s's queue
    rcv         \* rcv[s]: the frame of the Receive call s's application is in

vars == <<st, net, created, nsub, appClosed, appRead, closeRead, taken, rcv>>

Streams == {Out} \cup Ins

\* the first incoming stream the remote destination creates
In == CHOOSE i \in Ins : TRUE

\* the stream s exchanges packets with: Out's is the incoming stream whose
\* ID it learned from its first packet
Peer(s) == IF s # Out THEN Out
           ELSE IF st[Out].sendStreamID \in Ins THEN st[Out].sendStreamID ELSE In

\* the Stream object exists: Out, or an incoming stream already created
Exists(s) == s = Out \/ s \in created

\* the stream is in its destination's m_Streams (and, if incoming,
\* m_IncomingStreams): created and not yet deleted by Terminate
Registered(s) == Exists(s) /\ st[s].status # "Terminated"

\* outcomes of the time and routing computations the control flow reads
Outcomes(overdues) ==
    [rto : RTO_OUTCOMES, grow : GROW_OUTCOMES, path : PATH_OUTCOMES,
     overdue : overdues]
NoOverdue == Outcomes({-1})

\* commit stream record r as the new state of s and put its output on the net
Commit(s, r, net0) ==
    /\ st' = [st EXCEPT ![s] = [r EXCEPT !.out = {}]]
    /\ net' = net0 \cup r.out

\* the locals of Receive: the phase its thread is in, ret, done, and the
\* items the handler copied into buf
NoRecv == [phase |-> "idle", ret |-> 0, done |-> FALSE, buf |-> <<>>, deadWrite |-> FALSE]

Init ==
    /\ st = [s \in Streams |-> NewStream(s, s = Out)]
    /\ net = {}
    /\ created = {}
    /\ nsub = [s \in Streams |-> 0]
    /\ appClosed = [s \in Streams |-> FALSE]
    /\ appRead = [s \in Streams |-> <<>>]
    /\ closeRead = [s \in Streams |-> "none"]
    /\ taken = [s \in Streams |-> <<>>]
    /\ rcv = [s \in Streams |-> NoRecv]

(***************************************************************************)
(* Application calls.                                                      *)
(***************************************************************************)
\* Stream::Send -> AsyncSend: wraps the bytes and posts Add + SendBuffer
AppSend(s) ==
    /\ Exists(s)
    /\ ~appClosed[s]
    /\ nsub[s] < MaxSends[s]
    /\ nsub' = [nsub EXCEPT ![s] = @ + 1]
    /\ st' = [st EXCEPT ![s].posted =
                  Append(@, [op |-> "Send", item |-> nsub[s] + 1])]
    /\ UNCHANGED <<net, created, appClosed, appRead, closeRead, taken, rcv>>

\* Stream::Close, called from the application thread without a post, run
\* as one step when the model excludes the race
AppClose(s) ==
    /\ ~CLOSE_RACE
    /\ Exists(s)
    /\ ~appClosed[s]
    /\ appClosed' = [appClosed EXCEPT ![s] = TRUE]
    /\ Commit(s, Close(st[s]), net)
    /\ UNCHANGED <<created, nsub, appRead, closeRead, taken, rcv>>

(***************************************************************************)
(* The same Close as it really runs: on the application thread, with no   *)
(* lock, while the destination's event loop keeps handling s.  The switch *)
(* reads m_Status; the branch it takes then writes m_Status, calls         *)
(* SendClose or Terminate, on whatever s has become meanwhile.  Any        *)
(* number of handlers may run between the two steps.                       *)
(***************************************************************************)
AppCloseRead(s) ==
    /\ CLOSE_RACE
    /\ Exists(s)
    /\ ~appClosed[s]
    /\ appClosed' = [appClosed EXCEPT ![s] = TRUE]
    /\ closeRead' = [closeRead EXCEPT ![s] = st[s].status]
    /\ UNCHANGED <<st, net, created, nsub, appRead, taken, rcv>>

AppCloseWrite(s) ==
    /\ closeRead[s] # "none"
    /\ closeRead' = [closeRead EXCEPT ![s] = "none"]
    /\ Commit(s, CloseOn(st[s], closeRead[s]), net)
    /\ UNCHANGED <<created, nsub, appClosed, appRead, taken, rcv>>

\* StreamingDestination::DeleteStream (recvStreamID), called by the
\* application: if s is in m_Streams, post Close, Terminate (false) and
\* DeleteStream (s).  The application makes no call on s after it.
AppDeleteStream(s) ==
    /\ DEST_CALLS
    /\ Registered(s)
    /\ ~appClosed[s]
    /\ appClosed' = [appClosed EXCEPT ![s] = TRUE]
    /\ st' = [st EXCEPT ![s].posted = Append(@, [op |-> "Delete"])]
    /\ UNCHANGED <<net, created, nsub, appRead, closeRead, taken, rcv>>

\* StreamingDestination::Stop at Out's destination: Terminate (false) on
\* every stream of m_Streams, then the maps are cleared.  Out's destination
\* has no incoming stream here, so ResetAcceptor and the pending list have
\* nothing to act on.  Handlers already posted for Out still run.
DestStop ==
    /\ DEST_CALLS
    /\ Registered(Out)
    /\ st' = [st EXCEPT ![Out] = Terminate(@)]
    /\ UNCHANGED <<net, created, nsub, appClosed, appRead, closeRead, taken, rcv>>

(***************************************************************************)
(* Event-loop handlers of a stream.                                        *)
(***************************************************************************)
\* the handler DeleteStream (recvStreamID) posts: Close () "to try to send
\* FIN", Terminate (false), and DeleteStream (s), which erases s from the
\* maps (Registered is then false)
DeletePosted(r) == Terminate(Close(r))

\* the oldest handler posted by AsyncSend, SendClose or DeleteStream
RunPosted(s) ==
    /\ st[s].posted # <<>>
    /\ Head(st[s].posted).op \in {"Send", "SendPacket", "Delete"}
    /\ \E ch \in NoOverdue :
          LET h == Head(st[s].posted)
              r == [st[s] EXCEPT !.posted = Tail(@)]
          IN  Commit(s, CASE h.op = "Send"       -> PostedSend(r, h.item, ch)
                          [] h.op = "SendPacket" -> SendPacket(r, h.pkt, ch)
                          [] h.op = "Delete"     -> DeletePosted(r), net)
    /\ UNCHANGED <<created, nsub, appClosed, appRead, closeRead, taken, rcv>>

SendTimerExpires(s) ==
    /\ st[s].sendTimer
    /\ \E ch \in Outcomes(Seqns(st[s].sentPackets) \cup {-1}) :
          Commit(s, HandleSendTimer(st[s], ch), net)
    /\ UNCHANGED <<created, nsub, appClosed, appRead, closeRead, taken, rcv>>

ResendTimerExpires(s) ==
    /\ st[s].resendTimer
    /\ \E ch \in Outcomes(Seqns(st[s].sentPackets) \cup {-1}) :
          Commit(s, HandleResendTimer(st[s], ch), net)
    /\ UNCHANGED <<created, nsub, appClosed, appRead, closeRead, taken, rcv>>

\* the live wait of m_AckSendTimer expires
AckTimerExpires(s) ==
    /\ st[s].ackLive
    /\ \E ch \in NoOverdue :
          Commit(s, HandleAckSendTimer([st[s] EXCEPT !.ackLive = FALSE], ch), net)
    /\ UNCHANGED <<created, nsub, appClosed, appRead, closeRead, taken, rcv>>

\* the handler of a cancelled wait runs, with operation_aborted
AckTimerAborted(s) ==
    /\ st[s].ackAborted > 0
    /\ \E ch \in NoOverdue :
          Commit(s, HandleAckSendTimer([st[s] EXCEPT !.ackAborted = @ - 1], ch), net)
    /\ UNCHANGED <<created, nsub, appClosed, appRead, closeRead, taken, rcv>>

(***************************************************************************)
(* StreamingDestination::HandleNextPacket at the receiving end.  A packet *)
(* with a send stream ID goes to the registered stream with that receive  *)
(* ID or is dropped; one without it is a SYN (no i2pd stream sends a      *)
(* follow-on before it knows its peer's ID).  If an incoming stream from  *)
(* Out is still in m_IncomingStreams, the SYN resets its routing path and *)
(* is dropped; otherwise it creates a new incoming stream, which the       *)
(* installed acceptor takes.  A duplicated packet stays in the network     *)
(* (when DUPLICATION holds).                                               *)
(***************************************************************************)
\* the incoming stream m_IncomingStreams holds for Out's receive stream ID
IncomingFromOut == {i \in created : Registered(i)}

Deliver(p) ==
    /\ p \in net
    /\ \E keep \in IF DUPLICATION THEN BOOLEAN ELSE {FALSE}, ch \in NoOverdue :
        LET net0 == IF keep THEN net ELSE net \ {p}
        IN  CASE p.ssid # 0 /\ Registered(p.ssid) ->
                    /\ Commit(p.ssid, HandleNextPacket(st[p.ssid], p, ch), net0)
                    /\ UNCHANGED created
              [] p.ssid # 0 ->
                    /\ net' = net0
                    /\ UNCHANGED <<st, created>>
              [] "SYN" \in p.flags /\ p.seqn = 0 /\ IncomingFromOut # {} ->
                    /\ st' = [i \in Streams |->
                                IF i \in IncomingFromOut THEN ResetRoutingPath(st[i])
                                ELSE st[i]]
                    /\ net' = net0
                    /\ UNCHANGED created
              \* CreateNewIncomingStream, with a receive ID not used before
              [] "SYN" \in p.flags /\ p.seqn = 0 /\ Ins \ created # {} ->
                    LET i == CHOOSE j \in Ins \ created : TRUE
                    IN  /\ created' = created \cup {i}
                        /\ Commit(i, HandleNextPacket(st[i], p, ch), net0)
              \* the receive IDs of Ins are used up: the model's bound
              [] OTHER -> FALSE
    /\ UNCHANGED <<nsub, appClosed, appRead, closeRead, taken, rcv>>

Lose(p) ==
    /\ p \in net
    /\ net' = net \ {p}
    /\ UNCHANGED <<st, created, nsub, appClosed, appRead, closeRead, taken, rcv>>

\* the handler of Stream::AsyncReceive (Streaming.h) finding data in
\* m_ReceiveQueue: ConcatenatePackets copies it into the caller's buffer
AppReceive(s) ==
    /\ APP_READS /\ s \notin RECEIVE_BLOCKING
    /\ Exists(s)
    /\ st[s].receiveQueue # <<>>
    /\ LET g == ConcatenatePackets(st[s].receiveQueue, RECEIVE_LEN)
       IN  /\ st' = [st EXCEPT ![s].receiveQueue = g.rest]
           /\ appRead' = [appRead EXCEPT ![s] = @ \o g.data]
           /\ taken' = [taken EXCEPT ![s] = @ \o g.data]
    /\ UNCHANGED <<net, created, nsub, appClosed, closeRead, rcv>>

(***************************************************************************)
(* Stream::Receive (Streaming.cpp 539-580), the blocking read.  It calls   *)
(* AsyncReceive with a lambda that writes ret, then takes the mutex,       *)
(* notifies and sets done; the calling thread waits on the condition       *)
(* variable for the timeout and, if done is still false, posts a          *)
(* m_ReceiveTimer.cancel () and polls done for up to 1 s.  AsyncReceive    *)
(* and HandleReceiveTimer are in Streaming.h and follow the spec: the      *)
(* posted handler completes at once if data is queued or the stream is     *)
(* reset, and otherwise arms m_ReceiveTimer; ProcessPacket and Terminate   *)
(* cancel it.  Intermediate MAX_RECEIVE_TIMEOUT wake-ups are left out: they *)
(* re-arm the same wait.                                                   *)
(***************************************************************************)
\* the lambda: ret = bytes_transferred (0 when nothing was copied), then
\* notify_all and done = true under the mutex; after a give-up, into the
\* frame of a Receive that has returned
RecvLambda(c, data) ==
    IF c.phase = "abandoned" THEN [c EXCEPT !.deadWrite = TRUE]
    ELSE [c EXCEPT !.ret = Len(data), !.buf = data, !.done = TRUE,
                   !.phase = IF @ = "waiting" THEN "notified" ELSE @]

\* HandleReceiveTimer: ConcatenatePackets into the caller's buffer, then
\* the handler with the count
HandleReceiveTimer(s, r) ==
    LET g == ConcatenatePackets(r.receiveQueue, RECEIVE_LEN)
    IN  /\ st' = [st EXCEPT ![s] = [r EXCEPT !.receiveQueue = g.rest]]
        /\ taken' = [taken EXCEPT ![s] = @ \o g.data]
        /\ rcv' = [rcv EXCEPT ![s] = RecvLambda(@, g.data)]

\* Receive returns ret: the caller takes the first ret items of its buffer
RecvReturn(s, ret) ==
    /\ appRead' = [appRead EXCEPT ![s] = @ \o SubSeq(rcv[s].buf, 1, ret)]
    /\ rcv' = [rcv EXCEPT ![s] = NoRecv]

\* the handlers AsyncReceive and the timed-out Receive post
RunReceivePost(s) ==
    /\ st[s].posted # <<>>
    /\ Head(st[s].posted).op \in {"AsyncReceive", "CancelReceive"}
    /\ LET h == Head(st[s].posted)
           r == [st[s] EXCEPT !.posted = Tail(@)]
       IN  CASE h.op = "CancelReceive" ->
                   st' = [st EXCEPT ![s] = CancelReceiveWait(r)] /\ UNCHANGED <<taken, rcv>>
             [] h.op = "AsyncReceive" /\ (r.receiveQueue # <<>> \/ r.status = "Reset") ->
                   HandleReceiveTimer(s, r)
             [] h.op = "AsyncReceive" ->
                   st' = [st EXCEPT ![s] = [r EXCEPT !.recvWait = "live"]]
                   /\ UNCHANGED <<taken, rcv>>
    /\ UNCHANGED <<net, created, nsub, appClosed, appRead, closeRead>>

ReceiveTimerExpires(s) ==
    /\ st[s].recvWait = "live"
    /\ HandleReceiveTimer(s, [st[s] EXCEPT !.recvWait = "none"])
    /\ UNCHANGED <<net, created, nsub, appClosed, appRead, closeRead>>

\* the cancelled wait's handler runs with operation_aborted
ReceiveTimerAborted(s) ==
    /\ st[s].recvWait = "aborted"
    /\ HandleReceiveTimer(s, [st[s] EXCEPT !.recvWait = "none"])
    /\ UNCHANGED <<net, created, nsub, appClosed, appRead, closeRead>>

\* the application thread calls Receive: AsyncReceive posts its handler
AppRecvCall(s) ==
    /\ APP_READS /\ s \in RECEIVE_BLOCKING
    /\ Exists(s)
    /\ rcv[s].phase = "idle"
    /\ st' = [st EXCEPT ![s].posted = Append(@, [op |-> "AsyncReceive"])]
    /\ rcv' = [rcv EXCEPT ![s].phase = "waiting"]
    /\ UNCHANGED <<net, created, nsub, appClosed, appRead, closeRead, taken>>

\* the wait ends without a notification: its timeout elapses.  (The checks
\* of done before the wait, and a spurious wake-up, which keeps ret, lead
\* to the same returns as a notification or this timeout.)
AppRecvWake(s) ==
    /\ rcv[s].phase = "waiting"
    /\ rcv' = [rcv EXCEPT ![s].phase = "expired"]
    /\ UNCHANGED <<st, net, created, nsub, appClosed, appRead, closeRead, taken>>

\* wait_for reacquires the mutex: on cv_status::timeout ret = 0; then if
\* done is still false, post m_ReceiveTimer.cancel () and poll
AppRecvResume(s) ==
    /\ rcv[s].phase \in {"expired", "notified"}
    /\ LET ret == IF rcv[s].phase = "expired" THEN 0 ELSE rcv[s].ret
       IN  IF rcv[s].done
           THEN RecvReturn(s, ret) /\ UNCHANGED st
           ELSE /\ rcv' = [rcv EXCEPT ![s].phase = "polling", ![s].ret = ret]
                /\ st' = [st EXCEPT ![s].posted = Append(@, [op |-> "CancelReceive"])]
                /\ UNCHANGED appRead
    /\ UNCHANGED <<net, created, nsub, appClosed, closeRead, taken>>

\* while (!done && i < 100): done seen
AppRecvPoll(s) ==
    /\ rcv[s].phase = "polling"
    /\ rcv[s].done
    /\ RecvReturn(s, rcv[s].ret)
    /\ UNCHANGED <<st, net, created, nsub, appClosed, closeRead, taken>>

\* the 100 polls run out before the handler has run: Receive returns ret
\* and its frame is gone.  The application reads s no more.
AppRecvGiveUp(s) ==
    /\ RECEIVE_GIVES_UP
    /\ rcv[s].phase = "polling"
    /\ ~rcv[s].done
    /\ rcv' = [rcv EXCEPT ![s].phase = "abandoned"]
    /\ UNCHANGED <<st, net, created, nsub, appClosed, appRead, closeRead, taken>>

Next ==
    \/ \E s \in Streams :
          \/ AppSend(s) \/ AppClose(s) \/ AppReceive(s) \/ RunPosted(s)
          \/ AppCloseRead(s) \/ AppCloseWrite(s) \/ AppDeleteStream(s)
          \/ RunReceivePost(s) \/ ReceiveTimerExpires(s) \/ ReceiveTimerAborted(s)
          \/ AppRecvCall(s) \/ AppRecvWake(s) \/ AppRecvResume(s)
          \/ AppRecvPoll(s) \/ AppRecvGiveUp(s)
          \/ SendTimerExpires(s) \/ ResendTimerExpires(s) \/ AckTimerExpires(s)
          \/ AckTimerAborted(s)
    \/ DestStop
    \/ \E p \in net : Deliver(p) \/ Lose(p)

Spec == Init /\ [][Next]_vars

\* Each destination's io_service runs every handler that is posted to it and
\* every deadline_timer wait to completion, so the posted handlers and the
\* timers of a stream are weakly fair, and so is an application thread that
\* is inside Close or Receive (its wait ends, it resumes, it sees done); a
\* Receive that gives up polling is not forced.  The network is not: a packet may be lost however often
\* it is sent.
Fairness ==
    \A s \in Streams :
        /\ WF_vars(RunPosted(s))
        /\ WF_vars(SendTimerExpires(s))
        /\ WF_vars(ResendTimerExpires(s))
        /\ WF_vars(AckTimerExpires(s))
        /\ WF_vars(AckTimerAborted(s))
        /\ WF_vars(AppCloseWrite(s))
        /\ WF_vars(RunReceivePost(s))
        /\ WF_vars(ReceiveTimerExpires(s))
        /\ WF_vars(ReceiveTimerAborted(s))
        /\ WF_vars(AppRecvWake(s) \/ AppRecvResume(s) \/ AppRecvPoll(s))

FairSpec == Spec /\ Fairness

\* An application that keeps reading: an assumption about the caller, not
\* the code, made only where a property is about what the reader gets.
ReaderFairness == \A s \in Streams : WF_vars(AppReceive(s))

ReadingSpec == FairSpec /\ ReaderFairness

-----------------------------------------------------------------------------
(***************************************************************************)
(* Properties.                                                             *)
(***************************************************************************)
Packets == [src : Streams, ssid : Streams \cup {0}, seqn : Nat, ack : Nat,
            nacks : SUBSET Nat, flags : SUBSET Flags, sigValid : BOOLEAN,
            payload : Seq(Int)]
Posts == [op : {"Send"}, item : Nat] \cup [op : {"SendPacket"}, pkt : Packets]
             \cup [op : {"Delete", "AsyncReceive", "CancelReceive"}]

TypeOK ==
    /\ net \subseteq Packets
    /\ created \subseteq Ins
    /\ nsub \in [Streams -> Nat]
    /\ appClosed \in [Streams -> BOOLEAN]
    /\ appRead \in [Streams -> Seq(Int)]
    /\ closeRead \in [Streams -> {"none"} \cup Statuses]
    /\ taken \in [Streams -> Seq(Int)]
    /\ \A s \in Streams :
          /\ rcv[s].phase \in {"idle", "waiting", "expired", "notified", "polling",
                               "abandoned"}
          /\ rcv[s].ret \in 0 .. Len(rcv[s].buf) /\ rcv[s].buf \in Seq(Int)
          /\ st[s].recvWait \in {"none", "live", "aborted"}
    /\ \A s \in Streams :
        LET r == st[s] IN
        /\ r.recvStreamID = s
        /\ r.status \in Statuses
        /\ r.sequenceNumber \in Nat
        /\ r.lastReceived \in Int /\ r.lastReceived >= -1
        /\ r.sentPackets \subseteq Packets
        /\ r.savedPackets \subseteq Packets
        /\ r.windowSize \in MIN_WINDOW_SIZE .. MAX_WINDOW_SIZE
        /\ r.rto \in RtoClasses
        /\ r.numResendAttempts \in 0 .. MAX_NUM_RESEND_ATTEMPTS
        /\ r.ackLive \in BOOLEAN /\ r.ackAborted \in Nat
        /\ r.posted \in Seq(Posts)
        /\ r.out = {}

\* the items s's application has passed to Send, in call order
Submitted(s) == [i \in 1 .. nsub[s] |-> i]

\* the items s has put in m_ReceiveQueue: taken out by a read, or still there
Delivered(s) == taken[s] \o st[s].receiveQueue

\* In-order, loss-free, duplicate-free delivery: what a stream has put in
\* its m_ReceiveQueue is a prefix of what the peer's application sent.
\* Breaks if HandleNextPacket, the m_SavedPackets drain or ProcessPacket
\* accepts a packet out of order or twice, or if SendBuffer skips or
\* repeats bytes of m_SendBuffer.
InOrderDelivery ==
    \A s \in Streams : IsPrefix(Delivered(s), Submitted(Peer(s)))

\* seqn n of s is still held by s: posted for sending or in m_SentPackets
Held(s, n) ==
    \/ n \in Seqns(st[s].sentPackets)
    \/ \E i \in DOMAIN st[s].posted :
          st[s].posted[i].op = "SendPacket" /\ st[s].posted[i].pkt.seqn = n

\* the peer d has packet n of its peer: delivered or saved out of order
Received(d, n) ==
    Exists(d) /\
    (n <= st[d].lastReceived \/ n \in Seqns(st[d].savedPackets))

\* ProcessAck retires a packet (removes it from m_SentPackets, so it is never
\* sent again) only when the peer has received it.  Checked for every seqn
\* from 1: a false ACK there would lose data for good.
RetiredOnlyWhenReceived ==
    \A s \in Streams : \A n \in 1 .. st[s].sequenceNumber - 1 :
        ~Held(s, n) => Received(Peer(s), n)

\* The same for every seqn, the SYN (seqn 0) included: spec section 3 says
\* an ACK through n acknowledges every packet up to n.
AckedImpliesReceived ==
    \A s \in Streams : \A n \in 0 .. st[s].sequenceNumber - 1 :
        ~Held(s, n) => Received(Peer(s), n)

\* packets s has produced and that are still visible: posted, kept for
\* retransmission, or in flight
Emitted(s) ==
    st[s].sentPackets \cup {p \in net : p.src = s} \cup
    {st[s].posted[i].pkt : i \in {j \in DOMAIN st[s].posted :
                                   st[s].posted[j].op = "SendPacket"}}

\* A stream sends no data after its CLOSE: every packet carrying bytes has a
\* lower seqn than any CLOSE of the same stream (spec S1: Send then Close
\* delivers the bytes, then end of stream).  It is about Send posting
\* Add + SendBuffer while Close runs at once and posts SendClose's packet.
NoDataAfterClose ==
    \A s \in Streams : \A p, c \in Emitted(s) :
        ("CLOSE" \in c.flags /\ p.payload # <<>>) => p.seqn < c.seqn

\* A live stream with unacknowledged packets always has a way to send them
\* again: its resend or send timer is armed.  ProcessAck cancels both timers
\* when nothing is outstanding, ResendPacket re-arms only one of them, and
\* HandleSendTimer's delay-based drop re-arms neither; a stream left with
\* packets and no timer would wait for ever.
RetransmissionArmed ==
    \A s \in Streams :
        (st[s].sentPackets # {} /\ st[s].status # "Terminated")
            => (st[s].resendTimer \/ st[s].sendTimer)

\* A stream sends one CLOSE: every CLOSE it emits has the same seqn (spec
\* S1: "A->B seqn=1 CLOSE ... B->A seqn=1 CLOSE").  It is about SendBuffer
\* calling SendClose in Closing without moving to Closed, and Close, and
\* ProcessPacket on a peer CLOSE, each calling SendClose again.
SingleClose ==
    \A s \in Streams : \A c1, c2 \in Emitted(s) :
        ("CLOSE" \in c1.flags /\ "CLOSE" \in c2.flags) => c1.seqn = c2.seqn

\* A close that has begun completes: a stream that is Closing, Closed or
\* Reset is eventually Terminated (and so removed from m_Streams), however
\* many of its packets the network loses.  It relies on Close, SendBuffer
\* and ProcessAck sending the CLOSE once the data is acknowledged, and on
\* ResendPacket giving up after MAX_NUM_RESEND_ATTEMPTS.
CloseCompletes ==
    \A s \in Streams :
        st[s].status \in {"Closing", "Closed", "Reset"}
            ~> st[s].status = "Terminated"

\* An application's Close takes effect: after Stream::Close the stream is
\* eventually closing or gone (spec S1: Send, then Close, and the peer reads
\* the bytes and then end of stream).  It is about Close running on the
\* application thread while a Send it follows is still posted.
CloseTakesEffect ==
    \A s \in Streams :
        appClosed[s] ~> st[s].status \in {"Closing", "Closed", "Reset", "Terminated"}

\* the items a Receive still in progress holds in its buffer
InReceive(s) == IF rcv[s].phase \in {"idle", "abandoned"} THEN <<>> ELSE rcv[s].buf

\* Every item a read takes out of m_ReceiveQueue reaches the application:
\* what ConcatenatePackets removed is what Receive returned plus what a
\* Receive in progress holds (spec: a receive-side wait that times out
\* returns 0 bytes, having consumed none).  It is about Receive's lambda
\* writing ret outside the mutex while the timed-out wait_for sets ret = 0,
\* and about a handler that runs after Receive has given up polling.
NoReadLost ==
    \A s \in Streams : taken[s] = appRead[s] \o InReceive(s)

\* the connection, as its reader sees it, has failed: a stream of it was
\* reset (by the peer's RESET, by ResendPacket giving up, or by the ack
\* timer's SYN timeout), or the reader's application closed its end
ConnectionFailed(reader) ==
    (\E s \in Streams : st[s].wasReset) \/ appClosed[reader]

\* Each direction of the connection implements a reliable byte stream: the
\* items the application reads with AsyncReceive are, at every step, a
\* prefix of what the peer's application wrote, read once each and never
\* taken back; and until the connection fails every item written is
\* eventually read.  The second half is about every path that can drop an
\* item without a reset: retransmission that stops (the timers ProcessAck
\* cancels), a packet retired by a wrong ACK or NACK, a packet dropped at a
\* stream that was terminated by the peer's CLOSE, and a Close that lets
\* data follow the CLOSE (Close is not posted, Send is).
OutToIn == INSTANCE ByteStream WITH Data <- 1 .. MaxSends[Out],
                                    sent <- Submitted(Out), read <- appRead[In],
                                    broken <- ConnectionFailed(In)
InToOut == INSTANCE ByteStream WITH Data <- 1 .. MaxSends[In],
                                    sent <- Submitted(In), read <- appRead[Out],
                                    broken <- ConnectionFailed(Out)
ByteStreamRefined == OutToIn!Spec /\ InToOut!Spec

\* Cancelling m_AckSendTimer takes back the scheduled ACK: the handler of
\* a cancelled wait leaves a live stream as it was (spec: ScheduleAck
\* "cancel any pending ack"; HandleAckSendTimer resets a stream only "beyond
\* SYN_TIMEOUT").  It is about HandleAckSendTimer ignoring operation_aborted
\* while ScheduleAck (SYN_TIMEOUT) re-arms the timer for a second follow-on
\* that arrives before the peer's SYN.
CancelledAckIsNoOp ==
    [][\A s \in Streams :
          (AckTimerAborted(s) /\ st[s].status # "Terminated")
              => st'[s] = [st[s] EXCEPT !.ackAborted = @ - 1]]_vars

\* A choke is obeyed: a stream that handles a packet asking for
\* DELAY_REQUESTED (only a choke ACK carries it) while no ACK of its own is
\* scheduled is left with a window of one packet (spec S5 and
\* ProcessOptions: "if delay >= DELAY_CHOKING, set windowSize=1").  It is
\* about HandleNextPacket routing every packet with seqn 0 and a flag to
\* ProcessPacket only while nothing has been received, and to the duplicate
\* branch after that.
ChokeHonoured ==
    [][\A p \in net :
          LET d == p.ssid IN
          ("DELAY" \in p.flags /\ d # 0 /\ Registered(d)
           /\ ~st[d].isAckSendScheduled /\ Deliver(p))
              => st'[d].windowSize = 1 \/ st'[d].status = "Terminated"]_vars

\* Out's connection is accepted once: its SYN creates one incoming stream,
\* and a copy of it that arrives later is dropped (spec: a SYN whose
\* receiveStreamID is already among the incoming streams is dropped because
\* "previous should be connected").  It is about DeleteStream erasing the
\* m_IncomingStreams entry when the incoming stream terminates, while a
\* retransmitted or duplicated SYN of Out may still be in flight.
SynAcceptedOnce == Cardinality(created) <= 1

StatusRank(x) ==
    CASE x = "New" -> 0 [] x = "Open" -> 1 [] x = "Closing" -> 2
      [] x \in {"Closed", "Reset"} -> 3 [] x = "Terminated" -> 4

\* A stream's status only moves forward, New -> Open -> Closing -> Closed
\* -> Terminated, in every handler: in particular no late timer or packet
\* brings a Terminated stream back, and SendBuffer never reopens a closing
\* stream.
StatusNeverReverts ==
    [][\A s \in Streams : StatusRank(st'[s].status) >= StatusRank(st[s].status)]_vars

=============================================================================
