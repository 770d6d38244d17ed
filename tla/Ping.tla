-------------------------------- MODULE Ping --------------------------------
(***************************************************************************)
(* Ping and pong between two streaming destinations, A and B               *)
(* (src/libi2pd/Streaming.cpp): StreamingDestination::SendPing and         *)
(* Stream::SendPing at A, the ECHO branches of                             *)
(* StreamingDestination::HandleNextPacket at both, and Stream::HandlePing  *)
(* with the part of ProcessOptions a ping reaches at B.  Besides A's own   *)
(* pings, any remote may send B a packet with any flags, identity and      *)
(* signature, naming any identity.  A pong goes to the destination whose  *)
(* identity the ping named; only A's are followed further.  Loss is not    *)
(* modelled: nothing in the ping path retries or times out, so a lost ping *)
(* or pong only ends the exchange.                                         *)
(***************************************************************************)
EXTENDS Naturals, FiniteSets

CONSTANTS
    PingIDs,        \* receive stream IDs A's ping streams may draw (non-zero)
    BStreams,       \* receive stream IDs of B's streams (keys of m_Streams)
    Payloads,       \* ping payloads
    MaxForged       \* bound on the packets other remotes send B

ASSUME 0 \notin PingIDs \cup BStreams

VARIABLES
    toB,            \* packets in flight to B
    toA,            \* packets in flight to A
    pings,          \* every ping sent to B, A's and forged
    genuine,        \* receive IDs of the pings A sent
    pongsSeen,      \* pongs A's destination received (and dropped)
    handed,         \* pings B handed to an existing stream by their ID
    forged,         \* packets other remotes sent
    answered,       \* pairs <<ping, pong>> of every pong B sent
    fault,          \* a null m_RemoteIdentity was dereferenced at B
    answerPings     \* m_Owner->IsStreamingAnswerPings () at B

vars == <<toB, toA, pings, genuine, pongsSeen, handed, forged, answered,
          fault, answerPings>>

\* A's identity, another EdDSA identity, an RSA one
Idents == {"A", "C", "RSA"}
\* a ping as B reads it: the sender's receive ID in the sendStreamID field,
\* seqn 0, receiveStreamID 0 and the flags and options it carries
Ping(id, fl, from, sig, off, pl) ==
    [ssid |-> id, rsid |-> 0, flags |-> fl, from |-> from,
     sigValid |-> sig, offValid |-> off, payload |-> pl]

\* Stream::SendPing: ECHO | SIGNATURE_INCLUDED | FROM_INCLUDED, our
\* identity, signed with our keys
OwnPing(id, pl) == Ping(id, {"ECHO", "SIG", "FROM"}, "A", TRUE, TRUE, pl)

AnyPackets ==
    {Ping(id, fl \cup {"ECHO"}, from, sig, off, pl) :
        id \in PingIDs \cup BStreams, fl \in SUBSET {"SIG", "FROM", "OFFLINE"},
        from \in Idents, sig \in BOOLEAN, off \in BOOLEAN, pl \in Payloads}

(***************************************************************************)
(* ProcessOptions on the fresh Stream HandlePing runs on: it has no remote  *)
(* identity, lease set or transient verifier.  FROM_INCLUDED adopts the    *)
(* identity and rejects RSA; OFFLINE_SIGNATURE needs the identity and a    *)
(* valid transient key; SIGNATURE_INCLUDED reads the signature length from *)
(* the transient verifier or else m_RemoteIdentity, null without FROM, and  *)
(* on a failed verification calls Close (), which does nothing to a New    *)
(* stream, and still returns true.                                         *)
(***************************************************************************)
ProcessOptions(p) ==
    LET ident == IF "FROM" \in p.flags THEN p.from ELSE "none"
        transient == "OFFLINE" \in p.flags
    IN  CASE ident = "RSA" -> [ok |-> FALSE, ident |-> ident, nullDeref |-> FALSE]
          [] transient /\ ident = "none" -> [ok |-> FALSE, ident |-> ident, nullDeref |-> FALSE]
          [] transient /\ ~p.offValid -> [ok |-> FALSE, ident |-> ident, nullDeref |-> FALSE]
          [] "SIG" \in p.flags /\ ~transient /\ ident = "none" ->
                [ok |-> FALSE, ident |-> ident, nullDeref |-> TRUE]
          [] OTHER -> [ok |-> TRUE, ident |-> ident, nullDeref |-> FALSE]

Pong(p) == [ssid |-> 0, rsid |-> p.ssid, flags |-> {"ECHO"}, payload |-> p.payload,
            to |-> p.from]

\* HandlePing: a pong when ProcessOptions succeeds and an identity is known
HandlePing(p) ==
    LET po == ProcessOptions(p)
    IN  IF po.ok /\ po.ident # "none" THEN {Pong(p)} ELSE {}

-----------------------------------------------------------------------------

Init ==
    /\ toB = {} /\ toA = {}
    /\ pings = {} /\ genuine = {} /\ pongsSeen = {} /\ handed = {}
    /\ forged = 0 /\ answered = {} /\ fault = FALSE
    /\ answerPings \in BOOLEAN

\* StreamingDestination::SendPing: a new outgoing Stream with a fresh
\* receive ID, never added to m_Streams, sends one ping
SendPing(id, pl) ==
    /\ id \notin genuine
    /\ toB' = toB \cup {OwnPing(id, pl)}
    /\ pings' = pings \cup {OwnPing(id, pl)}
    /\ genuine' = genuine \cup {id}
    /\ UNCHANGED <<toA, pongsSeen, handed, forged, answered, fault, answerPings>>

\* another remote sends B whatever packet it likes
SendForged(p) ==
    /\ forged < MaxForged
    /\ toB' = toB \cup {p}
    /\ pings' = pings \cup {p}
    /\ forged' = forged + 1
    /\ UNCHANGED <<toA, genuine, pongsSeen, handed, answered, fault, answerPings>>

(***************************************************************************)
(* StreamingDestination::HandleNextPacket at B for a packet with a         *)
(* non-zero sendStreamID: an existing stream with that receive ID takes it; *)
(* otherwise an ECHO is answered by HandlePing on a new Stream if B        *)
(* answers pings, and dropped if not.                                      *)
(***************************************************************************)
ReceiveAtB(p) ==
    /\ p \in toB
    /\ toB' = toB \ {p}
    /\ CASE p.ssid \in BStreams ->
              handed' = handed \cup {p} /\ UNCHANGED <<toA, answered, fault>>
         [] answerPings ->
              /\ toA' = toA \cup {q \in HandlePing(p) : q.to = "A"}
              /\ answered' = answered \cup {<<p, q>> : q \in HandlePing(p)}
              /\ fault' = (fault \/ ProcessOptions(p).nullDeref)
              /\ UNCHANGED handed
         [] OTHER -> UNCHANGED <<toA, handed, answered, fault>>
    /\ UNCHANGED <<pings, genuine, pongsSeen, forged, answerPings>>

\* HandleNextPacket at A: sendStreamID 0 and ECHO is a pong, logged and
\* deleted
ReceivePong(q) ==
    /\ q \in toA
    /\ toA' = toA \ {q}
    /\ pongsSeen' = pongsSeen \cup {q}
    /\ UNCHANGED <<toB, pings, genuine, handed, forged, answered, fault, answerPings>>

Next ==
    \/ \E id \in PingIDs, pl \in Payloads : SendPing(id, pl)
    \/ \E p \in AnyPackets : SendForged(p)
    \/ \E p \in toB : ReceiveAtB(p)
    \/ \E q \in toA : ReceivePong(q)

Spec == Init /\ [][Next]_vars

-----------------------------------------------------------------------------

TypeOK ==
    /\ toB \subseteq AnyPackets \cup {OwnPing(id, pl) : id \in PingIDs, pl \in Payloads}
    /\ genuine \subseteq PingIDs
    /\ forged \in 0 .. MaxForged
    /\ fault \in BOOLEAN /\ answerPings \in BOOLEAN
    /\ \A q \in toA \cup pongsSeen : q.ssid = 0 /\ q.to = "A"

\* A pong is sent only for a ping that carried a signature and whose
\* signature verified (spec section 8: every ping carries a valid one;
\* section 7: a signature failure closes the stream).  HandlePing checks
\* neither: ProcessOptions returns true with no SIGNATURE_INCLUDED, and
\* after the Close () of a failed verification.
PongOnlyForVerifiedPing ==
    \A pq \in answered : "SIG" \in pq[1].flags /\ pq[1].sigValid

\* B never reads the signature length of a null m_RemoteIdentity
\* (ProcessOptions, SIGNATURE_INCLUDED without FROM_INCLUDED or an offline
\* signature).
NoNullIdentity == ~fault

=============================================================================
