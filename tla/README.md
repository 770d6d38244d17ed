# TLA+ models of i2pd streaming

These TLA+ modules model the streaming library in `src/libi2pd/Streaming.cpp`
and the EdDSA signer and verifier in `src/libi2pd/Signature.cpp`.
It implements the I2P streaming protocol, which gives reliable, ordered byte
streams on top of unreliable I2P datagrams. TLC checks the modules. Each
definition that models code is listed in `PROJECT.json` ("map") with the
lines it translates.

## 1. The system

### Parts and how they interact

| Part | Code | State | Operations |
|---|---|---|---|
| `Stream` | `Stream::*` | status (New, Open, Closing, Closed, Reset, Terminated), send/recv stream IDs, sequence number, last received seqn, `m_SentPackets`, `m_SavedPackets`, receive queue, send buffer, window, RTT/RTO/jitter, flags `isNAcked`, `isSendTime`, `isWinDropped`, `isTimeOutResend`, `isAckSendScheduled`, resend attempts, four timers | HandleNextPacket, ProcessPacket, ProcessOptions, ProcessAck, SendBuffer, SendQuickAck, SendClose, SendPacket(s), Close, Terminate, ResendPacket, timer handlers, AsyncSend, Receive, SendPing/HandlePing |
| `SendBufferQueue` | lines 22-67 | list of application buffers with offsets, size | Add, Get, CleanUp |
| `StreamingDestination` | lines 1312-1640 | `m_Streams`, `m_IncomingStreams`, `m_SavedPackets` (follow-ons before SYN), pending incoming queue and timer, acceptor | HandleNextPacket (dispatch), Create/DeleteStream, SetAcceptor, AcceptOnce, AcceptStream, pending timer, Start/Stop, data-message packaging |
| Signatures | `Signature.cpp` | EdDSA keys, the OPENSSL signer's `m_Pkey`/`m_Fallback`, the verifier's key | Signer constructors (with the older-key fallback), Sign, SetPublicKey, Verify |

A destination and all its streams run on one `io_service` thread, and each
handler runs to completion. These events run handlers:
- a packet arriving;
- a timer expiring (send/pacing, resend, ack, receive);
- a handler posted by `AsyncSend` or `SendClose`.

Application threads call `Send` (which posts) and `Close` (which runs at once
on the calling thread). Two destinations exchange packets through tunnels.
Packets may be lost, reordered or duplicated.

### Hard behaviours

- Two peers exchange packets, and each peer interleaves its own timers, packets
  and posted handlers.
- Loss and reordering. Out-of-order packets wait in `m_SavedPackets`. Gaps are
  NACKed, and a choke is requested past 256 NACKs.
- Retransmission. It is timeout based, or fast (triggered by NACKs). Attempts
  are capped, and the stream resets at the cap.
- Cancelled asio timers still run their handler. `HandleAckSendTimer` does not
  check for `operation_aborted`.
- Close is asynchronous: `SendClose` posts its packet, and the CLOSE has to
  wait until the outstanding data is acknowledged.

### Per-component correctness

- **Stream**:
  - the bytes delivered to the receive queue are a prefix of what the peer sent;
  - a packet is dropped from `m_SentPackets` only when the peer has it;
  - status moves forward only;
  - one CLOSE per side, after all data;
  - unacknowledged packets always have a timer that will resend them;
  - the window stays within [MIN_WINDOW_SIZE, MAX_WINDOW_SIZE].
- **SendBufferQueue**: `Get` returns the bytes in FIFO order, with nothing
  duplicated or lost.
- **Destination**:
  - an incoming SYN creates exactly one stream and is accepted once;
  - packets go to the stream whose ID they carry;
  - the pending queue is bounded.

## 2. Modules

| Module | Models | Notes |
|---|---|---|
| `Stream.tla` | class `Stream` | No variables. Each member function is an operator from a stream record to a stream record. Nested calls therefore compose as in the code (ProcessAck → SendBuffer → SendClose; HandleNextPacket → ProcessPacket → Close → Terminate). `SendBufferQueue::Get` is an operator here, at item granularity. HandleNextPacket is split into `Receive` (the dispatch on the seqn), `InSequence`, `AfterDrain` and `AckOutOfSequence` (its branches). Each intermediate stream value is passed as an operator argument, never named twice in a LET. |
| `StreamConnection.tla` | one connection: outgoing stream `Out` and the incoming streams the remote destination creates for it, each under its own receive ID from `Ins` | Variables: `st` (the stream records), `net` (packets in flight, as a set), `created` (the incoming streams created, so `Exists`), `nsub`, `appClosed`, `appRead`, `closeRead` (the `m_Status` an application `Close` has read and not yet acted on), `taken` (every item a read took out of `m_ReceiveQueue`), `rcv` (the frame of a blocking `Receive`: its phase, `ret`, `done`, the buffer, and whether a handler wrote into the frame after it returned). Packets carry the sender's receive ID (`src`) and the receiver's (`ssid`, 0 before it is learned). Actions: `AppSend`, `AppClose`, `AppReceive` (the AsyncReceive handler finding data: `ConcatenatePackets`; enabled by `APP_READS`), `RunPosted`, `SendTimerExpires`, `ResendTimerExpires`, `AckTimerExpires`, `AckTimerAborted` (the handler of a cancelled ack wait), `AppCloseRead`/`AppCloseWrite` (`Close` on the application thread split at its read of `m_Status`; enabled by `CLOSE_RACE`, instead of the atomic `AppClose`), `AppDeleteStream` (`StreamingDestination::DeleteStream`, which posts Close, Terminate and the erase: `DeletePosted`), `DestStop` (`StreamingDestination::Stop` at Out's destination, from the caller's thread; `DEST_CALLS`), the blocking `Receive` on the streams in `RECEIVE_BLOCKING` (`AppRecvCall` posts AsyncReceive, `AppRecvWake` is the wait timing out, `AppRecvResume` is wait_for returning, `AppRecvPoll` and `AppRecvGiveUp` the 1 s poll; `RunReceivePost`, `ReceiveTimerExpires` and `ReceiveTimerAborted` run AsyncReceive and HandleReceiveTimer on the loop, and `RecvLambda` is Receive's lambda), `Deliver` (`StreamingDestination::HandleNextPacket` plus the stream's handler; a SYN finds no `m_IncomingStreams` entry once its stream was deleted and creates another), `Lose`. `In` is the first incoming stream, the one the refinement and the single-incarnation runs follow. |
| `MCStreamConnection.tla` | model-checking instance | Application workloads (`MCSendsOutOnly`, `MCSendsOne`, `MCSendsBoth`, `MCSendsOneEach`) and the named bounds `MaxNet`, `MaxNetCC`, `MaxAckWaits`. |
| `ByteStream.tla` | spec section 1: an ordered, reliable byte stream | Abstract. `sent` (what the writer passed to Send), `read` (what the reader has read) and `broken` (the connection has failed). `Write` appends one item. `Read` extends `read` to a longer prefix of `sent`. `Fail` sets `broken` for good. `Spec` has weak fairness of `Read` while not broken: until the connection fails, every item written is read. `StreamConnection` instantiates it once per direction (`OutToIn`, `InToOut`), mapping `sent` to `Submitted`, `read` to `appRead` and `broken` to `ConnectionFailed` (a stream was reset, or the reader's application closed). A reset turns into Terminated within the same step, so the stream record keeps a history field `wasReset`, set by `ResetStatus` wherever the code sets `eStreamStatusReset`. |
| `StreamAcceptor.tla` | `StreamingDestination` accept path (1411-1431, 1525-1600) | Variables: `acceptor` (`m_Acceptor`, a stack of AcceptOnceAcceptor wrappers over the app's acceptor), `pending`, `timerArmed`, `loop` (posted handlers), stream `status`, `given`, `closed`, `lost`, waiter `notified`/`wstate`, `crashed`. Actions: `Accept` (the SYN's accept step), `TimerExpires`, `RunLoop` (drain, AcceptOnce lambda, timer completion), `StreamEnds`, and the app calls `SetAcceptor`, `ResetAcceptor`, `AcceptStream`, `WaiterWakes`, `WaiterTimesOut`. |
| `MCStreamAcceptor.tla` | model-checking instance | Two SYNs, two AcceptStream threads. |
| `EdDSA.tla` | `Signature.cpp`, both builds | Variables: `bit5` (bit 0x20 of each key's expanded scalar), `signer` (key, identity public key, whether it was passed, build, and the signer state: compat `exp`/`pubEnc`, or OPENSSL `pkey`/`fallback`), `verifier` (the key set on the peer's verifier), `sigs`. Actions: `CreateSigner`, `SignMsg`, `SetPublicKey`. Curve arithmetic is abstracted: a public key is the expansion it comes from, and `Verify` holds exactly when the verifier's key is the public key of the signing expansion and the one hashed into the signature. Run directly with model values from the cfgs. |
| `Ping.tla` | ping/pong between destinations A and B | Variables: `toB`, `toA`, `pings`, `genuine` (A's ping IDs), `pongsSeen`, `handed` (pings taken by an existing stream with that ID), `forged`, `answered`, `fault` (null identity read), `answerPings`. Actions: `SendPing` (A), `SendForged` (any other remote, any flags/identity/signature), `ReceiveAtB` (B's dispatch, `HandlePing`, the FROM/OFFLINE/SIGNATURE part of `ProcessOptions` on a fresh stream), `ReceivePong` (A drops the pong). |

### How the code maps to the model

- **One step is one handler.** Each action runs one whole handler, including
  every call it makes. The stream record's `out` field collects the packets the
  handler transmits. `Commit` moves them onto `net`.
- **Timers.** `sendTimer` and `resendTimer` are armed flags. Their handlers
  return on `operation_aborted`, so a cancelled wait does nothing.
  `m_AckSendTimer` has `ackLive` (the wait that will expire) and `ackAborted`
  (cancelled waits whose handler is still to run). `cancel()` and
  `expires_from_now` both abort the pending wait (`AbortAckWait`), and
  `HandleAckSendTimer` runs the same code for an abort as for an expiry.
  `m_ReceiveTimer` is `recvWait`: none, a live wait, or a cancelled wait
  whose handler (which does run HandleReceiveTimer) is still to come.
- **The application thread.** `Close`, `Stop` and `Receive` run on the
  caller's thread, not on the loop. Close is split into its read of
  `m_Status` and the branch it then takes. Receive is split at every point
  where the loop can interleave: the post, the wait, wait_for returning with
  or without a timeout, the posted cancel, and each poll of `done`.
- **Data.** An item is the ordinal of one `Send` call, and a packet carries up
  to `MTU` items.
- **Routing.** It is abstracted to its two effects on the stream:
  - `SendPackets` may set `m_RTO` to `INITIAL_RTO` (a fresh tunnel);
  - a packet that cannot be routed is lost, which `Lose` models.
- **RTT/jitter/pacing arithmetic.** This is replaced by the comparisons the
  control flow reads, chosen by `\E` from constant sets:
  - `RTO_OUTCOMES`: the class of `m_RTO` relative to `INITIAL_RTO` after a sample;
  - `GROW_OUTCOMES`: whether `m_RTT > m_PrevRTT`;
  - `PATH_OUTCOMES`: what `SendPackets` does to `m_RTO`;
  - `ch.overdue`: which sent packet `ResendPacket` finds overdue.
- **Wire encoding.** A conversion the properties depend on is modelled by what
  it does: the choke ACK is written in host byte order (`HOST_LITTLE_ENDIAN`).
  Read big-endian, its flags are an undefined flag, and its options size
  points past the packet end (`OVERRUN` item).
- **Signatures.** In the connection model peers are honest and not RSA, so
  `ProcessOptions` returns true. The signature result is a packet field
  (`sigValid`); `EdDSA.tla` models how that result comes about, and
  `Ping.tla` lets any remote send bad signatures and identities.

### Plan (most important first)

1. `Stream` + `StreamConnection`: connection lifecycle, data,
   ACK/NACK, retransmission, close. Done, except the parts listed under
   "Not modelled".
2. `SendBufferQueue.tla`: byte-level `Add`/`Get`/`CleanUp` with partial
   buffers, refining an abstract FIFO (`INSTANCE ... WITH`), checked as a
   PROPERTY.
3. Liveness on `StreamConnection` under weak fairness of timers and posted
   handlers. Done: `CloseCompletes` passes, and `CloseTakesEffect` fails
   (Close in New). Done: data is eventually read or the connection fails
   (`ByteStreamRefined`), with no fairness for the network.
4. Destination dispatch. Done: a second incarnation of the incoming stream
   (SYN after deletion) and the accept path (`StreamAcceptor`). Next:
   `m_SavedPackets` for follow-ons from foreign peers, stream-ID collisions.
5. Abstract `ByteStream` with `StreamConnection` refining it. Done for data,
   including eventual delivery. Next: end of stream (CLOSE as EOF) in the
   abstract spec.
6. Choke handling (spec S5): done (`ChokeHonoured`). A forging environment:
   done for pings (`Ping.tla`); next for stream packets, the payload queued
   after a failed signature (hazard at 382).
7. Ping/pong and the EdDSA signer: done.
8. The data race of an application `Close` with the event loop, split into
   its reads and writes. Done (`close_race` cfg).
9. The blocking `Receive` against the loop's AsyncReceive handler. Done
   (`receive_safety`, `receive_lost`).

## 3. Runs

`PROJECT.json` lists twelve runs: the eight passing runs and four of the
violations. Those four are the accept after a timeout, the cancelled ack
wait, the lost read and the data lost after Close. The other violation cfgs
below still reproduce their findings. PROJECT.json records each of them as a
hazard with its cfg in the note.

Every connection cfg sets `RECEIVE_BLOCKING = {}`, `RECEIVE_GIVES_UP = FALSE`,
`CLOSE_RACE = FALSE` and `DEST_CALLS = TRUE` unless its row says otherwise.

The connection runs use `MCStreamConnection.tla`. Common constants:

| Constant | Value |
|---|---|
| `INITIAL_WINDOW_SIZE` | 2 |
| `MIN_WINDOW_SIZE` | 1 |
| `MAX_WINDOW_SIZE` | 2 |
| `MAX_NUM_RESEND_ATTEMPTS` | 1 |
| `MTU` | 1 |
| `MaxAckWaits` | 1 |

| Run (cfg) | Expect | Checks | Shows |
|---|---|---|---|
| `MCStreamConnection.cfg` | pass | TypeOK, InOrderDelivery, RetiredOnlyWhenReceived, RetransmissionArmed, StatusNeverReverts | Out sends 2 items; both sides may close, DeleteStream and Stop; up to 2 packets in flight, lost and reordered. About 1.0M states. |
| `MCCongestion.cfg` | pass | InOrderDelivery, RetransmissionArmed | Every RTO class, RTT growth, fresh tunnel, and network duplication; Out sends 1 item; 1 packet in flight. |
| `MCAckedImpliesReceived.cfg` | violation | AckedImpliesReceived | A stream that learned its peer's ID from an out-of-order packet sends ackThrough 0 without NO_ACK. The peer retires its SYN, which was never received. |
| `MCNoDataAfterClose.cfg` | violation | NoDataAfterClose | Send, Send, Close: the second item is still posted when Close sends CLOSE, so it goes out after the CLOSE. |
| `MCChokeLittleEndian.cfg` | violation | InOrderDelivery | On a little-endian host, the host-order choke ACK is taken as the first packet and delivers garbage. It needs `NACK_LIMIT = 1`, below the window: with the code's 256 the choke is out of reach, so this cfg is not one of the listed runs. |
| `MCSingleClose.cfg` | violation | SingleClose | Clean close: the closer terminates in ProcessAck on the peer's CLOSE, then ProcessPacket sends a second CLOSE. |
| `MCCloseCompletes.cfg` | pass | CloseCompletes (liveness, `FairSpec`) | Out sends 1 item; a stream that is Closing, Closed or Reset is eventually Terminated even if the network loses every packet. About 16k states. |
| `MCCloseTakesEffect.cfg` | violation | CloseTakesEffect | Close while Out is still New is only logged; the stream never closes. |
| `MCByteStream.cfg` | pass | ByteStreamRefined (`ReadingSpec`) | Out writes one item and both applications read (`APP_READS`); `CLOSE_RACE = TRUE`, `DEST_CALLS = FALSE`; up to 2 packets in flight, lost and reordered. In reads a prefix of what Out wrote and, unless a stream resets or In's application closes, eventually all of it, also when Close races the loop. About 117k states. |
| `MCDataAfterClose.cfg` | violation | ByteStreamRefined (`ReadingSpec`) | As `MCByteStream.cfg` with Out writing two items, `CLOSE_RACE = FALSE` and 1 packet in flight. Send, Send, Close: Close runs while the second Send is still posted, sends CLOSE, and In terminates on it; the second item is never read and nothing was reset. |
| `MCCancelledAck.cfg` | violation | CancelledAckIsNoOp | Two of In's follow-ons reach Out before the SYN; the second ScheduleAck aborts the first wait, whose handler then resets Out at once. |
| `MCChokeHonoured.cfg` | violation | ChokeHonoured | In receives CLOSE seqn 2 before seqn 1 and sends a choke; Out has already received a packet, takes the choke for a duplicate, and keeps its window at 2. |
| `MCSynAcceptedOnce.cfg` | violation | SynAcceptedOnce | In gives up after its resend attempts and is deleted; Out's retransmitted SYN creates incoming stream `c`. |
| `MCCloseRace.cfg` | violation | StatusNeverReverts | `CLOSE_RACE = TRUE`, `DEST_CALLS = FALSE`. Close reads Open; the resend timer gives up twice and terminates the stream; Close then writes Closing over Terminated. |
| `MCReceive.cfg` | pass | InOrderDelivery | Out sends 1 item; In reads through the blocking Receive (`RECEIVE_BLOCKING = {b}`), which may give up polling. About 2.0M states, 150 s. |
| `MCReceiveLost.cfg` | violation | NoReadLost | As `MCReceive.cfg` without the give-up. The wait times out while the handler copies the item; wait_for sets ret = 0 after the handler set it, and Receive returns 0 for the consumed item. |

The constants are `Out = a` and `Ins = {b}` (model values) unless the table
says otherwise.

The signature runs use `EdDSA.tla` with two keys, two messages, a foreign
public key and `NoKey` for nullptr. Every combination of the keys' bit 0x20 is
an initial state.

| Run (cfg) | Expect | Checks | Shows |
|---|---|---|---|
| `MCEdDSA.cfg` | pass | SignaturesVerify, BuildsAgree | Current and older keys, passed or not, both builds: signatures verify under a genuine identity key, and the two builds verify alike. 1.3k states. |
| `MCEdDSAForeign.cfg` | violation | OlderKeyMatches | A passed public key that matches neither derivation is taken for an older key. |

The ping runs use `Ping.tla` with one ping ID for A (1), one stream of B
(2), two payloads and one packet from another remote, which may have any
flags, identity, signature and ID, including B's stream ID.

| Run (cfg) | Expect | Checks | Shows |
|---|---|---|---|
| `MCPing.cfg` | pass | TypeOK | Every pong B sends, for A's pings and for whatever another remote sends, is a minimal ECHO packet carrying the ping's sendStreamID as its receiveStreamID, addressed to A. 9k states. |
| `MCPingPongOnlyForVerifiedPing.cfg` | violation | PongOnlyForVerifiedPing | An unsigned ECHO naming A's identity is answered, and the pong goes to A. |
| `MCPingNoNullIdentity.cfg` | violation | NoNullIdentity | An ECHO with SIGNATURE_INCLUDED and no FROM_INCLUDED makes B read a null `m_RemoteIdentity`. |

The acceptor runs use `MCStreamAcceptor.tla`: two SYNs, two AcceptStream
threads, `MAX_PENDING_INCOMING_BACKLOG = 1` (the code's is 128; one already
makes the second SYN overflow), one SetAcceptor call.

| Run (cfg) | Expect | Checks | Shows |
|---|---|---|---|
| `MCStreamAcceptor.cfg` | pass | TypeOK, DisposedOnce, PendingResolved (liveness, `FairSpec`) | Every order of SYNs, drains, AcceptOnce lambdas, resets, waiter timeouts and stale timer completions: a stream is queued, handed out or closed at most once, and a backlogged stream leaves the backlog. About 72k states. |
| `MCNoAcceptAfterReturn.cfg` | violation | NoAcceptAfterReturn | AcceptStream times out before its AcceptOnce lambda runs; the lambda hands the backlogged stream to the dead frame. |
| `MCAcceptorSetWhenCalled.cfg` | violation | AcceptorSetWhenCalled | SetAcceptor, then ResetAcceptor before the drain runs: the drain calls the empty `m_Acceptor`. |

What the passing properties say:

- **InOrderDelivery**: each receive queue is a prefix of the items the peer's
  application sent.
- **RetiredOnlyWhenReceived**: a packet with seqn ≥ 1 leaves `m_SentPackets`
  only if the peer has delivered or saved it. This is the part of
  `AckedImpliesReceived` that holds.
- **RetransmissionArmed**: a live stream with unacknowledged packets has its
  resend or send timer armed.
- **StatusNeverReverts** (action property): status only moves forward (spec
  invariant 7).
- **NoReadLost** (violated, `MCReceiveLost.cfg`): the items reads took out of
  `m_ReceiveQueue` are exactly what the application got back plus what a
  Receive still in progress holds in its buffer.
- **CloseCompletes** (liveness): `Closing`/`Closed`/`Reset` leads to
  `Terminated`.
- **ByteStreamRefined** (refinement): `OutToIn!Spec /\ InToOut!Spec`, where
  each is `ByteStream!Spec` under the mapping `sent <- Submitted(s)`,
  `read <- appRead[peer]`, `broken <- ConnectionFailed(peer)`. Its safety
  part says reads are a prefix of what was written and are never taken back.
  Its liveness part says that an item written is eventually read unless a
  stream of the connection is reset or the reader closes. It fails if
  retransmission stops, a packet is retired that the peer does not have, or
  data is dropped at a stream that the peer's CLOSE terminated.
- **DisposedOnce**: a stream's backlog entries, acceptors and destination
  Close add up to at most one.
- **PendingResolved** (liveness): a backlogged stream leaves the backlog
  unless the event loop has died.
- **SignaturesVerify**: when the identity's key is the current or older
  derivation of its private key and is passed to the signer, every signature
  verifies under it.
- **BuildsAgree**: the OPENSSL signer (with `m_Fallback`) and the compat
  signer produce signatures that verify under the same keys.

Each passing property has a mutant in `PROJECT.json`. The mutant is a
plausible bug in the mapped code, and TLC finds the property violated under
the run's own cfg:

| Mutant | Breaks |
|---|---|
| window grows uncapped | TypeOK |
| `Get` does not consume | InOrderDelivery |
| quick ACK without NACKs | RetiredOnlyWhenReceived |
| `SendPacket` without `ScheduleResend` | RetransmissionArmed |
| SendBuffer always sets Open | StatusNeverReverts |
| `Close` ignores Reset (no Terminate) | CloseCompletes |
| resend timer armed only on an Open stream (`ScheduleResend`) | ByteStreamRefined |
| backlog check `<=` instead of `<` | TypeOK (acceptor) |
| AcceptOnce lambda does not pop the backlog | DisposedOnce |
| push does not re-arm the pending timer | PendingResolved |
| compat signer drops bit 0x20 but keeps the old public key | SignaturesVerify |
| OPENSSL signer never falls back | BuildsAgree |
| pong header written at offset 0 | TypeOK (ping) |

### Bounds and why they are enough

- **Two items from Out and none from In** (main run). This gives a SYN with
  data, one follow-on, and CLOSEs from both sides. It is enough to reorder data
  against CLOSE and to leave gaps the receiver NACKs.
- **One item from In** (violation runs). This is needed for the false ACK:
  In's data must overtake In's SYN.
- **`MaxNet = 2`** allows reordering. `MaxNetCC = 1` keeps the
  congestion-control run small while every RTT and tunnel outcome varies;
  gaps there come from loss.
- **Windows of 1..2** let a halving and a regrowth both happen.
  **One resend attempt** takes both branches of `ResendPacket`, and then the
  reset at the cap.
- **`NACK_LIMIT`** stands for the code's 256. It is 2 in the passing runs and 1
  in the choke run.
- **`MaxAckWaits = 1`** bounds `ackAborted`, the count of aborted ack-timer
  completions still to run. One is enough for the cancelled-wait run.
- **Duplication** is off in the main run. Retransmission of a packet already
  delivered still produces duplicates there.
- **Incarnations of In.** With `Ins = {b}` a SYN that arrives after In was
  deleted is disabled, since there is no unused receive ID. 
  `MCSynAcceptedOnce.cfg` has `Ins = {b, c}`, which allows the second stream.
  The main run with `Ins = {b, c}` takes 4.5M states and 8 minutes, so the
  safety properties are not checked across two incarnations.
- **EdDSA**: two keys make both a key of the other and a foreign key
  available as mismatches, and the initial states cover both values of each
  key's bit 0x20.
- **Refinement**: Out writes one item and In none. With a second item, or
  with In writing, the Close-before-posted-Send loss (finding 2) is
  reachable and the property fails (`MCDataAfterClose.cfg`). One item still
  gives a SYN with data, its loss, retransmission, the resend cap and reset,
  and Closes by either application, racing the loop.
- **Blocking receive**: one item and one reading stream. The item can be
  queued before Receive posts, arrive while the wait runs, or arrive after
  the wait timed out and the cancel was posted, so every order of the
  handler against the wait, the cancel and the poll happens. Blocking on
  both streams, or with two items, did not finish in 15 minutes.
- **Ping**: one forged packet is enough. It can take any of the 384 shapes,
  and with it B sees both a genuine and a forged packet in either order.

`CHECK_DEADLOCK FALSE` is set in every cfg. A connection whose applications
have stopped writing, with nothing unacknowledged, really does wait for ever.

### Fairness

The safety runs need no fairness. The liveness runs check `FairSpec`, and
the refinement run checks `ReadingSpec`, which adds weak fairness of
`AppReceive`: an application that keeps reading. That is an assumption
about the caller, stated only where the property is about what the reader
gets.
- `StreamConnection`: weak fairness of `RunPosted`, `SendTimerExpires`,
  `ResendTimerExpires` and `AckTimerExpires` per stream. The io_service runs
  every posted handler, and an armed asio timer fires. The network gets no
  fairness: `CloseCompletes` holds even if every packet is lost, because
  `ResendPacket` gives up after `MAX_NUM_RESEND_ATTEMPTS`.
- `StreamAcceptor`: weak fairness of `RunLoop` and `TimerExpires`.
  Application calls and SYN arrivals get none.
- `StreamConnection` also has weak fairness of `AckTimerAborted` and
  `ReceiveTimerAborted`: asio runs the handler of a cancelled wait. It has
  weak fairness of `RunReceivePost` and `ReceiveTimerExpires`, and of an
  application thread inside Close (`AppCloseWrite`) or Receive (its wait
  ends, it resumes, it sees done): a thread that is running is scheduled.
  Giving up the poll is not forced.
- `Ping` checks only safety and has no fairness. Loss is not modelled there:
  nothing on the ping path retries or times out, so a lost packet only ends
  the exchange.

`MCCloseCompletes.cfg` and `MCByteStream.cfg` keep the state constraint `StateBound`, so liveness is
checked on the constrained graph. A behaviour whose next step would leave it
is cut off, so it is not a counterexample. `MCStreamAcceptor.cfg` has no
constraint: every bound there is in the guards.

## 4. Findings

See `PROJECT.json` for the findings with line references:

1. **False ACK of the SYN.** The code sends ackThrough 0 with no NO_ACK before
   the peer's SYN has arrived (`SendBuffer` 624, `SendClose` 879).
2. **Close overtakes Send, and the data is lost.** `AsyncSend` posts its
   data (596) and `Close` does not, so after Send, Send, Close the CLOSE can
   go out before the second item. The peer terminates on the CLOSE, and the
   item is never read, although nothing was reset (spec S1).
3. **Choke ACK in host byte order.** It is misread on little-endian hosts
   (780-785). The model shows it only with a NACK limit below the window;
   with the code's 256 it is out of TLC's reach, so it is kept as a hazard.
4. **Second CLOSE on clean close.** `ProcessAck` terminates the stream, and
   `ProcessPacket` then re-sends CLOSE (286).
5. **Close in New is ignored.** `Stream::Close` has no case for New (859):
   Send then Close before the posted Send ran (spec S1), or Close with no
   Send, leaves the stream open for ever.
6. **AcceptStream after its timeout.** The AcceptOnce lambda or wrapper
   outlives the call, and the next stream is written into a dead frame
   (1577-1588).
7. **Drain after ResetAcceptor.** SetAcceptor's drain calls `m_Acceptor`
   unchecked and throws `std::bad_function_call` (1534).
8. **Cancelled ack wait acts.** HandleAckSendTimer ignores
   `operation_aborted`. A second out-of-order packet re-schedules the ack, and
   the aborted wait's handler resets the stream at once instead of after
   SYN_TIMEOUT (1187).
9. **Choke ignored.** A choke ACK to a stream that has received a packet is
   treated as a duplicate, and the window is not set to 1 (213, spec S5).
10. **Late SYN accepted twice.** After the incoming stream is deleted, a
    retransmitted SYN creates and accepts a second stream (1384, 1501).
11. **Older key assumed.** The signer takes any public key mismatch for an
    older key, without checking (`Signature.cpp` 89).
12. **Unverified pings answered.** HandlePing answers an ECHO with no
    signature or a failed one, to whatever identity it names (398).
13. **Close races the loop.** `Stream::Close` runs on the application thread
    and writes Closing over a stream the loop has meanwhile terminated and
    erased (833).
14. **A timed-out Receive loses data.** The lambda writes ret outside the
    mutex; the timed-out wait sets ret = 0 after it, and Receive returns 0
    for data taken out of `m_ReceiveQueue` (549, 560).
15. **Null identity read.** SIGNATURE_INCLUDED without FROM_INCLUDED makes
    ProcessOptions call `m_RemoteIdentity->GetSignatureLen ()` on null (370).

## 5. Not modelled

- Data-message packaging (gzip/I2NP), because it is I/O encoding.
- EdDSA curve arithmetic and hashing, because they are cryptography. The
  signer's control flow is modelled over abstract keys.
- Lease and tunnel choice, beyond their effect on `m_RTO` and on loss.
- `Receive`'s chunking of timeouts above `MAX_RECEIVE_TIMEOUT` and the
  byte counts: a read takes `RECEIVE_LEN` items. Non-blocking reads are the
  AsyncReceive handler finding data (`AppReceive`).
- `Stop` at the accepting destination, where ResetAcceptor and the pending
  list meet a later SYN, and the destination's destructor, which only frees
  saved packets. `Start` is empty.
- In `StreamAcceptor`, the data race of application threads on
  `m_Acceptor`, which is modelled as atomic.
- Other outcomes of the `Close` data race than a stale read of `m_Status`
  (torn updates of `m_SentPackets` or `m_SendBuffer`): they are undefined
  behaviour whose effects the model cannot bound.
- `SendUpdatedLeaseSet` and lease selection in `SendPackets`: they depend on
  LeaseSet semantics of collaborators that are not in this repository.
- The send and resend timers are armed flags, and `cancel()` clears them.
  In asio a wait that has already expired when it is cancelled still runs
  its handler with success, so the code can run `HandleSendTimer` or
  `HandleResendTimer` once more than the model does. No checked property
  depends on that run.
- `m_PreviousReceivedSequenceNumber`, which only steers tunnel and lease
  rotation.
