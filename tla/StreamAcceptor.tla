--------------------------- MODULE StreamAcceptor ---------------------------
(***************************************************************************)
(* How a StreamingDestination hands incoming streams to the application   *)
(* (Streaming.cpp 1411-1431, 1525-1600): m_Acceptor, the backlog          *)
(* m_PendingIncomingStreams and its shared m_PendingIncomingTimer.         *)
(*                                                                         *)
(* The destination's io_service runs, one at a time, the SYN handler, the *)
(* handlers that SetAcceptor and AcceptOnce post, and the completions of  *)
(* the pending timer; loop is its queue of posted handlers.  A SYN handler *)
(* is posted by the network at any moment, so it runs between any two     *)
(* queued handlers.  Application threads call SetAcceptor, ResetAcceptor  *)
(* and AcceptStream; they touch m_Acceptor without a lock, which the model *)
(* makes atomic.  A stream's own protocol is abstracted to its status.     *)
(*                                                                         *)
(* m_Acceptor is a sequence: <<>> is an empty std::function, APP the      *)
(* application's acceptor, and a waiter w at the head an AcceptOnceAcceptor *)
(* bound to AcceptStream's callback of w, with the previous acceptor (the  *)
(* tail) bound as prev.                                                    *)
(***************************************************************************)
EXTENDS Naturals, Sequences, SequencesExt, FiniteSets

CONSTANTS
    Streams,                      \* incoming streams, one per SYN (model values)
    Waiters,                      \* application threads in AcceptStream
    APP,                          \* the acceptor passed to SetAcceptor
    NULL,                         \* the nullptr stream
    MAX_PENDING_INCOMING_BACKLOG,
    MaxSetAcceptor                \* SetAcceptor calls the application makes

ASSUME /\ APP \notin Waiters /\ NULL \notin Streams
       /\ MAX_PENDING_INCOMING_BACKLOG \in Nat \ {0}
       /\ MaxSetAcceptor \in Nat

\* the handlers loop can hold
DRAIN == [op |-> "drain", w |-> NULL]  \* the lambda SetAcceptor posts
TIMER == [op |-> "timer", w |-> NULL]  \* an expired m_PendingIncomingTimer wait
Once(w) == [op |-> "once", w |-> w]    \* the lambda AcceptOnce posts for w

VARIABLES
    acceptor,     \* m_Acceptor
    pending,      \* m_PendingIncomingStreams
    timerArmed,   \* m_PendingIncomingTimer has a wait that has not expired
    loop,         \* handlers posted to the io_service, oldest first
    status,       \* status[s]: "None" before its SYN, then the stream's status
    given,        \* given[s]: the acceptors s was handed to
    closed,       \* streams Close()d by the destination itself
    lost,         \* streams handed to a waiter whose AcceptStream had returned
    notified,     \* notified[w]: w's callback ran and notified streamAccept
    wstate,       \* wstate[w]: "idle", "waiting" or "returned"
    crashed,      \* a call of an empty m_Acceptor threw std::bad_function_call
    nset          \* SetAcceptor calls so far

vars == <<acceptor, pending, timerArmed, loop, status, given, closed, lost,
          notified, wstate, crashed, nset>>

\* the part of the state a call of an acceptor changes, as a record
Cur == [acc |-> acceptor, given |-> given, lost |-> lost,
        notified |-> notified, crashed |-> crashed]
SetCur(c) ==
    /\ acceptor' = c.acc /\ given' = c.given /\ lost' = c.lost
    /\ notified' = c.notified /\ crashed' = c.crashed

\* AcceptStream's callback of w: stream = x; notify_all.  After w has
\* returned, stream is a dead stack slot and x is handed to nobody.
Callback(c, w, x) ==
    [c EXCEPT !.notified[w] = TRUE,
              !.given = IF x = NULL THEN @ ELSE [@ EXCEPT ![x] = @ \cup {w}],
              !.lost = IF x # NULL /\ wstate[w] = "returned" THEN @ \cup {x} ELSE @]

\* m_Acceptor (x); AcceptOnceAcceptor restores prev before its callback
CallAcceptor(c, x) ==
    CASE c.acc = <<>>        -> [c EXCEPT !.crashed = TRUE]
      [] Head(c.acc) = APP   ->
            IF x = NULL THEN c ELSE [c EXCEPT !.given[x] = @ \cup {APP}]
      [] OTHER               ->
            Callback([c EXCEPT !.acc = Tail(@)], Head(c.acc), x)

\* SetAcceptor's lambda: hand every pending stream that is still open to
\* m_Acceptor, in order; an exception ends the handler there
RECURSIVE DrainPending(_, _)
DrainPending(c, ss) ==
    IF ss = <<>> \/ c.crashed THEN c
    ELSE DrainPending(IF status[Head(ss)] = "Open" THEN CallAcceptor(c, Head(ss))
                      ELSE c, Tail(ss))

Init ==
    /\ acceptor = <<>>
    /\ pending = <<>>
    /\ timerArmed = FALSE
    /\ loop = <<>>
    /\ status = [s \in Streams |-> "None"]
    /\ given = [s \in Streams |-> {}]
    /\ closed = {}
    /\ lost = {}
    /\ notified = [w \in Waiters |-> FALSE]
    /\ wstate = [w \in Waiters |-> "idle"]
    /\ crashed = FALSE
    /\ nset = 0

\* Close () of streams by the destination: an open one starts closing
CloseAll(S) ==
    /\ closed' = closed \cup S
    /\ status' = [s \in Streams |-> IF s \in S /\ status[s] = "Open"
                                    THEN "Closing" ELSE status[s]]

(***************************************************************************)
(* Event-loop handlers.                                                    *)
(***************************************************************************)
\* m_PendingIncomingStreams.size () < MAX_PENDING_INCOMING_BACKLOG
BacklogHasRoomOffByOne == Len(pending) <= MAX_PENDING_INCOMING_BACKLOG
BacklogHasRoom == Len(pending) < MAX_PENDING_INCOMING_BACKLOG

\* the backlog branch of the accept step: push, cancel and re-arm the timer
PushPendingNoRearm(s) ==
    /\ pending' = Append(pending, s)
    /\ UNCHANGED timerArmed
PushPending(s) ==
    /\ pending' = Append(pending, s)
    /\ timerArmed' = TRUE

\* the accept step of HandleNextPacket for the SYN of s, which opened s: to
\* m_Acceptor if one is set, else to the backlog, else Close
Accept(s) ==
    /\ ~crashed
    /\ status[s] = "None"
    /\ IF acceptor # <<>>
       THEN /\ SetCur(CallAcceptor(Cur, s))
            /\ status' = [status EXCEPT ![s] = "Open"]
            /\ UNCHANGED <<pending, timerArmed, closed>>
       ELSE IF BacklogHasRoom
       THEN /\ PushPending(s)
            /\ status' = [status EXCEPT ![s] = "Open"]
            /\ UNCHANGED <<closed, acceptor, given, lost, notified, crashed>>
       ELSE /\ closed' = closed \cup {s}
            /\ status' = [status EXCEPT ![s] = "Closing"]
            /\ UNCHANGED <<pending, timerArmed, acceptor, given, lost, notified, crashed>>
    /\ UNCHANGED <<loop, wstate, nset>>

\* m_PendingIncomingTimer expires: its completion is queued and a later
\* cancel () no longer reaches it.  (A cancelled wait completes with
\* operation_aborted, which HandlePendingIncomingTimer ignores.)
TimerExpires ==
    /\ timerArmed
    /\ timerArmed' = FALSE
    /\ loop' = Append(loop, TIMER)
    /\ UNCHANGED <<acceptor, pending, status, given, closed, lost, notified,
                   wstate, crashed, nset>>

\* SetAcceptor's lambda
RunDrain ==
    /\ SetCur(DrainPending(Cur, pending))
    /\ pending' = <<>>
    /\ timerArmed' = FALSE
    /\ UNCHANGED <<status, closed>>

\* AcceptOnce's lambda for waiter w
RunOnceNoPop(w) ==
    IF pending # <<>>
    THEN /\ SetCur(Callback(Cur, w, Head(pending)))
         /\ UNCHANGED <<pending, timerArmed, status, closed>>
    ELSE /\ acceptor' = <<w>> \o acceptor
         /\ UNCHANGED <<pending, timerArmed, status, given, closed, lost,
                        notified, crashed>>
RunOnce(w) ==
    IF pending # <<>>
    THEN /\ SetCur(Callback(Cur, w, Head(pending)))
         /\ pending' = Tail(pending)
         /\ timerArmed' = IF Tail(pending) = <<>> THEN FALSE ELSE timerArmed
         /\ UNCHANGED <<status, closed>>
    ELSE /\ acceptor' = <<w>> \o acceptor
         /\ UNCHANGED <<pending, timerArmed, status, given, closed, lost,
                        notified, crashed>>

\* HandlePendingIncomingTimer with a success code
RunTimer ==
    /\ CloseAll(ToSet(pending))
    /\ pending' = <<>>
    /\ UNCHANGED <<acceptor, timerArmed, given, lost, notified, crashed>>

\* the io_service runs the oldest posted handler
RunLoop ==
    /\ ~crashed
    /\ loop # <<>>
    /\ loop' = Tail(loop)
    /\ CASE Head(loop) = DRAIN -> RunDrain
         [] Head(loop) = TIMER -> RunTimer
         [] OTHER              -> RunOnce(Head(loop).w)
    /\ UNCHANGED <<wstate, nset>>

\* s's own protocol ends it while it waits (peer CLOSE or RESET, SYN or
\* resend timeout): it is no longer Open
StreamEnds(s) ==
    /\ status[s] = "Open"
    /\ status' = [status EXCEPT ![s] = "Terminated"]
    /\ UNCHANGED <<acceptor, pending, timerArmed, loop, given, closed, lost,
                   notified, wstate, crashed, nset>>

(***************************************************************************)
(* Application threads.                                                    *)
(***************************************************************************)
\* SetAcceptor: m_Acceptor = acceptor at once, then post the backlog drain
SetAcceptor ==
    /\ nset < MaxSetAcceptor
    /\ nset' = nset + 1
    /\ acceptor' = <<APP>>
    /\ loop' = Append(loop, DRAIN)
    /\ UNCHANGED <<pending, timerArmed, status, given, closed, lost, notified,
                   wstate, crashed>>

\* ResetAcceptor: if (m_Acceptor) m_Acceptor (nullptr); m_Acceptor = nullptr
ResetAcceptor ==
    /\ acceptor # <<>>
    /\ SetCur([CallAcceptor(Cur, NULL) EXCEPT !.acc = <<>>])
    /\ UNCHANGED <<pending, timerArmed, loop, status, closed, wstate, nset>>

\* AcceptStream (timeout) of thread w: AcceptOnce posts, then w waits
AcceptStream(w) ==
    /\ wstate[w] = "idle"
    /\ wstate' = [wstate EXCEPT ![w] = "waiting"]
    /\ loop' = Append(loop, Once(w))
    /\ UNCHANGED <<acceptor, pending, timerArmed, status, given, closed, lost,
                   notified, crashed, nset>>

\* w is notified and returns the stream its callback stored
WaiterWakes(w) ==
    /\ wstate[w] = "waiting"
    /\ notified[w]
    /\ wstate' = [wstate EXCEPT ![w] = "returned"]
    /\ UNCHANGED <<acceptor, pending, timerArmed, loop, status, given, closed,
                   lost, notified, crashed, nset>>

\* wait_for times out (or wait wakes spuriously): w returns nullptr, and
\* its callback stays in loop or in m_Acceptor
WaiterTimesOut(w) ==
    /\ wstate[w] = "waiting"
    /\ ~notified[w]
    /\ wstate' = [wstate EXCEPT ![w] = "returned"]
    /\ UNCHANGED <<acceptor, pending, timerArmed, loop, status, given, closed,
                   lost, notified, crashed, nset>>

Next ==
    \/ \E s \in Streams : Accept(s) \/ StreamEnds(s)
    \/ TimerExpires \/ RunLoop
    \/ SetAcceptor \/ ResetAcceptor
    \/ \E w \in Waiters : AcceptStream(w) \/ WaiterWakes(w) \/ WaiterTimesOut(w)

Spec == Init /\ [][Next]_vars

\* the io_service runs every posted handler and every expired wait
Fairness == WF_vars(RunLoop) /\ WF_vars(TimerExpires)

FairSpec == Spec /\ Fairness

-----------------------------------------------------------------------------
(***************************************************************************)
(* Properties.                                                             *)
(***************************************************************************)
TypeOK ==
    /\ acceptor \in Seq(Waiters \cup {APP})
    /\ pending \in Seq(Streams) /\ Len(pending) <= MAX_PENDING_INCOMING_BACKLOG
    /\ timerArmed \in BOOLEAN
    /\ status \in [Streams -> {"None", "Open", "Closing", "Terminated"}]
    /\ given \in [Streams -> SUBSET (Waiters \cup {APP})]
    /\ closed \subseteq Streams /\ lost \subseteq Streams
    /\ notified \in [Waiters -> BOOLEAN]
    /\ wstate \in [Waiters -> {"idle", "waiting", "returned"}]
    /\ crashed \in BOOLEAN
    /\ nset \in 0 .. MaxSetAcceptor

\* how many times s is queued, handed to an acceptor, or closed
Dispositions(s) ==
    Cardinality({i \in DOMAIN pending : pending[i] = s})
      + Cardinality(given[s]) + (IF s \in closed THEN 1 ELSE 0)

\* Every incoming stream has at most one fate: it waits in the backlog once,
\* or is handed to one acceptor, or is closed by the destination.  It is
\* about the three handlers that take streams out of the backlog
\* (SetAcceptor's drain, AcceptOnce's pop, the pending timer) running in
\* any order with SYNs and with each other's stale completions.
DisposedOnce == \A s \in Streams : Dispositions(s) <= 1

\* No stream is handed to an AcceptStream that has already returned (its
\* callback would write a dead stack frame and the stream would reach
\* nobody).  It is about AcceptStream's timeout leaving its AcceptOnce
\* lambda queued or its AcceptOnceAcceptor installed in m_Acceptor.
NoAcceptAfterReturn == lost = {}

\* The event loop never calls an empty m_Acceptor (std::bad_function_call
\* would escape the handler).  It is about SetAcceptor's drain running
\* after a ResetAcceptor that the application called in between.
AcceptorSetWhenCalled == ~crashed

\* A stream in the backlog leaves it, handed out or closed, unless the event
\* loop has died.  It is about every push re-arming the one shared timer,
\* and AcceptOnce and the drain cancelling it only when the backlog empties.
PendingResolved ==
    \A s \in Streams : (s \in ToSet(pending)) ~> (s \notin ToSet(pending) \/ crashed)

=============================================================================
