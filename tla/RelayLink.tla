----------------------------- MODULE RelayLink ------------------------------
(***************************************************************************)
(* The two S2sPeer ends of a secured link as MESSAGE_V2 uses it             *)
(* (src/substrate/undertow/s2s_peer.zig): the capability probes, the three  *)
(* bounded queues towards the daemon, lost connections, and a hot upgrade   *)
(* of one end that keeps the connection.  Above each end is the part of the *)
(* daemon that offers retained events until they are acknowledged, and      *)
(* repeats an acknowledgement until it is confirmed.                        *)
(*                                                                         *)
(* A connection is a byte stream: frames are neither lost, repeated nor     *)
(* reordered while it lives.  Both ends are current and hold signing keys;  *)
(* frames that fail their signature are left out.                          *)
(***************************************************************************)
EXTENDS Integers, SequencesExt

CONSTANTS
    Ends,       \* the two nodes
    Ids,        \* relay identities
    AuthorOf,   \* the end that each event is at first
    MaxFrames,  \* max_relay_v2_frames
    MaxWire,    \* bound of the model: the daemon sends only on a shorter wire
    Courses     \* bounds of the model: which events are there, and how many
                \* connections are lost and ends upgraded with them

ASSUME LinkAssumption ==
    /\ \E x, y \in Ends : x # y /\ Ends = {x, y}
    /\ AuthorOf \in [Ids -> Ends]
    /\ {MaxFrames, MaxWire} \subseteq Nat \ {0}
    /\ Courses \subseteq [ids : SUBSET Ids, breaks : Nat, resumes : Nat]

VARIABLES
    peer,     \* the S2sPeer of each end
    wire,     \* the frames on their way to each end
    inbound,  \* S2sPeer.inbound_v2
    acks,     \* S2sPeer.inbound_v2_acks
    confirms, \* S2sPeer.inbound_v2_ack_confirms
    owed,     \* the daemon: events the other end has not acknowledged
    accepted, \* the daemon: events of the other end that its guard accepted
    receipts, \* the daemon: accepted events whose acknowledgement is repeated
    events,   \* the events of this course
    breaks, resumes \* how many are still to come

link   == <<peer, wire, inbound, acks, confirms>>
daemon == <<owed, accepted, receipts>>
bounds == <<events, breaks, resumes>>
vars   == <<peer, wire, inbound, acks, confirms, owed, accepted, receipts, bounds>>

Other(e) == CHOOSE f \in Ends : f # e

Fresh  == [open |-> TRUE, handshakeSent |-> FALSE, established |-> FALSE,
           secure |-> FALSE, current |-> FALSE]
Closed == [Fresh EXCEPT !.open = FALSE]

\* supportsSecureRelayV2, the test of every receiver and sender.  `current'
\* stands for both relay extensions, peer_supports_relay_v2_current and
\* peer_supports_relay_v2_ack_confirm: their probes are sent together, and
\* nothing is done with one of them alone.
Ready(p) == p.established /\ p.secure /\ p.current

Handshake == [kind |-> "handshake"]
Resync    == [kind |-> "resync"]
Ping == [kind |-> "ping"]  \* both probes
Pong == [kind |-> "pong"]  \* both replies
Message(id) == [kind |-> "message", id |-> id]
Ack(id)     == [kind |-> "ack", id |-> id]
Confirm(id) == [kind |-> "confirm", id |-> id]

\* Slip: the probes are left to a later heartbeat.
BareHandshake == <<Handshake>>

\* emitHandshake: the probes follow the handshake on the stream.
HandshakeFrames == <<Handshake, Ping>>

Init ==
    /\ peer = [e \in Ends |-> Fresh]
    /\ wire = [e \in Ends |-> <<>>]
    /\ inbound = [e \in Ends |-> <<>>]
    /\ acks = [e \in Ends |-> <<>>]
    /\ confirms = [e \in Ends |-> <<>>]
    /\ \E c \in Courses :
         /\ owed = [e \in Ends |-> {i \in c.ids : AuthorOf[i] = e}]
         /\ events = c.ids /\ breaks = c.breaks /\ resumes = c.resumes
    /\ accepted = [e \in Ends |-> {}]
    /\ receipts = [e \in Ends |-> {}]

-----------------------------------------------------------------------------
(* The connection. *)

\* Frames for an end that has closed go nowhere.
WireAfter(w, to, frames) == IF peer[to].open THEN [w EXCEPT ![to] = @ \o frames] ELSE w

\* startHandshake.
StartHandshake(e) ==
    /\ peer[e].open /\ ~peer[e].handshakeSent
    /\ peer' = [peer EXCEPT ![e].handshakeSent = TRUE]
    /\ wire' = WireAfter(wire, Other(e), HandshakeFrames)
    /\ UNCHANGED <<inbound, acks, confirms, daemon, bounds>>

\* The end closes: deinit frees its queues with whatever they hold.
CloseEnd(e) ==
    /\ peer' = [peer EXCEPT ![e] = Closed]
    /\ wire' = [wire EXCEPT ![e] = <<>>]
    /\ inbound' = [inbound EXCEPT ![e] = <<>>]
    /\ acks' = [acks EXCEPT ![e] = <<>>]
    /\ confirms' = [confirms EXCEPT ![e] = <<>>]
    /\ UNCHANGED daemon

\* The connection is lost, as one end sees it.
Break(e) ==
    /\ peer[e].open
    /\ breaks > 0 /\ breaks' = breaks - 1
    /\ CloseEnd(e)
    /\ UNCHANGED <<events, resumes>>

\* The other end reads what was sent to it and then the end of the stream.
EndOfStream(e) ==
    /\ peer[e].open /\ ~peer[Other(e)].open
    /\ wire[e] = <<>>
    /\ CloseEnd(e)
    /\ UNCHANGED bounds

Reconnect ==
    /\ \A e \in Ends : ~peer[e].open
    /\ peer' = [e \in Ends |-> Fresh]
    /\ wire' = [e \in Ends |-> <<>>]
    /\ UNCHANGED <<inbound, acks, confirms, daemon, bounds>>

\* Slip: the resumed end takes the relay capabilities for granted.
ResumedReady(p) == [p EXCEPT !.handshakeSent = TRUE, !.current = TRUE]

\* snapshotResume and resumeEstablished: what the header carries.
Resumed(p) == [p EXCEPT !.handshakeSent = TRUE,
                        !.current = p.secure /\ p.current]

\* A hot upgrade of one end: the daemon's authorities and the connection go
\* to the successor, the queues towards the daemon do not; then sendResync.
HelixResume(e) ==
    /\ peer[e].established
    /\ resumes > 0 /\ resumes' = resumes - 1
    /\ peer' = [peer EXCEPT ![e] = Resumed(@)]
    /\ wire' = WireAfter(wire, Other(e), HandshakeFrames \o <<Resync>>)
    /\ inbound' = [inbound EXCEPT ![e] = <<>>]
    /\ acks' = [acks EXCEPT ![e] = <<>>]
    /\ confirms' = [confirms EXCEPT ![e] = <<>>]
    /\ UNCHANGED <<daemon, events, breaks>>

-----------------------------------------------------------------------------
(* dispatch of the next frame. *)

Arrives(e, kind) == peer[e].open /\ wire[e] # <<>> /\ Head(wire[e]).kind = kind

Rest(e) == [wire EXCEPT ![e] = Tail(@)]

\* recvHandshake.
RecvHandshake(e) ==
    /\ Arrives(e, "handshake")
    /\ peer' = [peer EXCEPT ![e].established = TRUE, ![e].secure = TRUE,
                            ![e].handshakeSent = TRUE]
    /\ wire' = IF peer[e].handshakeSent THEN Rest(e)
               ELSE WireAfter(Rest(e), Other(e), HandshakeFrames)
    /\ UNCHANGED <<inbound, acks, confirms, daemon, bounds>>

RecvResync(e) ==
    /\ Arrives(e, "resync")
    /\ wire' = IF peer[e].established THEN WireAfter(Rest(e), Other(e), HandshakeFrames)
               ELSE Rest(e)
    /\ UNCHANGED <<peer, inbound, acks, confirms, daemon, bounds>>

RecvPing(e) ==
    /\ Arrives(e, "ping")
    /\ wire' = WireAfter(Rest(e), Other(e), <<Pong>>)
    /\ UNCHANGED <<peer, inbound, acks, confirms, daemon, bounds>>

RecvPong(e) ==
    /\ Arrives(e, "pong")
    /\ wire' = Rest(e)
    /\ peer' = [peer EXCEPT ![e].current = @ \/ peer[e].secure]
    /\ UNCHANGED <<inbound, acks, confirms, daemon, bounds>>

\* Slip: the link acknowledges what it queues, before the daemon has it.
RecvAndAck(e) ==
    /\ Arrives(e, "message") /\ Ready(peer[e]) /\ Len(inbound[e]) < MaxFrames
    /\ inbound' = [inbound EXCEPT ![e] = Append(@, Head(wire[e]).id)]
    /\ wire' = WireAfter(Rest(e), Other(e), <<Ack(Head(wire[e]).id)>>)
    /\ UNCHANGED <<peer, acks, confirms, daemon, bounds>>

\* recvMessageV2: an unready end drops the frame, a full queue faults the link.
RecvMessageV2(e) ==
    /\ Arrives(e, "message")
    /\ IF Ready(peer[e]) /\ Len(inbound[e]) >= MaxFrames
       THEN CloseEnd(e)
       ELSE /\ wire' = Rest(e)
            /\ inbound' = IF Ready(peer[e]) THEN [inbound EXCEPT ![e] = Append(@, Head(wire[e]).id)]
                          ELSE inbound
            /\ UNCHANGED <<peer, acks, confirms, daemon>>
    /\ UNCHANGED bounds

\* Slip: the queue has no limit.
QueuedAll(queue, id) == IF id \in ToSet(queue) THEN queue ELSE Append(queue, id)

\* A queue of acknowledgements after one more: known ones are coalesced, and
\* those that do not fit are dropped.
Queued(queue, id) ==
    IF id \in ToSet(queue) \/ Len(queue) >= MaxFrames THEN queue ELSE Append(queue, id)

\* Slip: the link confirms an acknowledgement as it queues it, before the
\* daemon has dropped the obligation.
RecvAndConfirm(e) ==
    /\ Arrives(e, "ack") \/ Arrives(e, "confirm")
    /\ Ready(peer[e])
    /\ LET f == Head(wire[e])
       IN  IF f.kind = "ack"
           THEN /\ acks' = [acks EXCEPT ![e] = Queued(@, f.id)]
                /\ wire' = WireAfter(Rest(e), Other(e), <<Confirm(f.id)>>)
                /\ UNCHANGED confirms
           ELSE /\ confirms' = [confirms EXCEPT ![e] = Queued(@, f.id)]
                /\ wire' = Rest(e)
                /\ UNCHANGED acks
    /\ UNCHANGED <<peer, inbound, daemon, bounds>>

\* recvMessageV2Ack: an acknowledgement at an end that is not ready faults.
RecvMessageV2Ack(e) ==
    /\ Arrives(e, "ack") \/ Arrives(e, "confirm")
    /\ LET f == Head(wire[e])
       IN  IF ~Ready(peer[e]) THEN CloseEnd(e)
           ELSE /\ wire' = Rest(e)
                /\ acks' = IF f.kind = "ack" THEN [acks EXCEPT ![e] = Queued(@, f.id)] ELSE acks
                /\ confirms' = IF f.kind = "confirm" THEN [confirms EXCEPT ![e] = Queued(@, f.id)]
                               ELSE confirms
                /\ UNCHANGED <<peer, inbound, daemon>>
    /\ UNCHANGED bounds

-----------------------------------------------------------------------------
(* The daemon above an end. *)

Sends(e, frames) == wire' = WireAfter(wire, Other(e), frames)

\* The egress scheduler offers a retained event (replayRetainedMessageV2Wire).
Offer(e, id) ==
    /\ id \in owed[e]
    /\ Ready(peer[e]) /\ Len(wire[Other(e)]) < MaxWire
    /\ Sends(e, <<Message(id)>>)
    /\ UNCHANGED <<peer, inbound, acks, confirms, daemon, bounds>>

\* takeInboundV2.  An event is accepted once; every copy, the first and the
\* duplicates, leaves a receipt.
TakeInbound(e) ==
    /\ inbound[e] # <<>>
    /\ accepted' = [accepted EXCEPT ![e] = @ \cup ToSet(inbound[e])]
    /\ receipts' = [receipts EXCEPT ![e] = @ \cup ToSet(inbound[e])]
    /\ inbound' = [inbound EXCEPT ![e] = <<>>]
    /\ UNCHANGED <<peer, wire, acks, confirms, owed, bounds>>

\* A due receipt sends its acknowledgement (sendMessageV2Ack).
RepeatAck(e, id) ==
    /\ id \in receipts[e]
    /\ Ready(peer[e]) /\ Len(wire[Other(e)]) < MaxWire
    /\ Sends(e, <<Ack(id)>>)
    /\ UNCHANGED <<peer, inbound, acks, confirms, daemon, bounds>>

\* takeInboundV2Acks: the obligations go, and each acknowledgement is confirmed
\* (sendMessageV2AckConfirm), again if need be.
TakeAcks(e) ==
    /\ acks[e] # <<>>
    /\ Len(wire[Other(e)]) < MaxWire
    /\ owed' = [owed EXCEPT ![e] = @ \ ToSet(acks[e])]
    /\ Sends(e, IF Ready(peer[e]) THEN [k \in DOMAIN acks[e] |-> Confirm(acks[e][k])] ELSE <<>>)
    /\ acks' = [acks EXCEPT ![e] = <<>>]
    /\ UNCHANGED <<peer, inbound, confirms, accepted, receipts, bounds>>

\* takeInboundV2AckConfirms.
TakeConfirms(e) ==
    /\ confirms[e] # <<>>
    /\ receipts' = [receipts EXCEPT ![e] = @ \ ToSet(confirms[e])]
    /\ confirms' = [confirms EXCEPT ![e] = <<>>]
    /\ UNCHANGED <<peer, wire, inbound, acks, owed, accepted, bounds>>

Dispatch(e) ==
    \/ RecvHandshake(e)
    \/ RecvResync(e)
    \/ RecvPing(e)
    \/ RecvPong(e)
    \/ RecvMessageV2(e)
    \/ RecvMessageV2Ack(e)

Next ==
    \/ Reconnect
    \/ \E e \in Ends :
         \/ StartHandshake(e) \/ Break(e) \/ EndOfStream(e) \/ HelixResume(e)
         \/ Dispatch(e)
         \/ TakeInbound(e) \/ TakeAcks(e) \/ TakeConfirms(e)
         \/ \E id \in Ids : Offer(e, id) \/ RepeatAck(e, id)

Spec == Init /\ [][Next]_vars

\* Every end that can move does: it opens its side, reads its stream, drains
\* its queues and repeats what is due.  Sending is strongly fair because only
\* the model's bound on the wire ever takes it back.
Fairness ==
    /\ WF_vars(Reconnect)
    /\ \A e \in Ends : WF_vars(StartHandshake(e)) /\ WF_vars(EndOfStream(e)) /\ WF_vars(Dispatch(e))
    /\ \A e \in {AuthorOf[id] : id \in Ids} :
         SF_vars(TakeAcks(e)) /\ WF_vars(TakeInbound(Other(e))) /\ WF_vars(TakeConfirms(Other(e)))
    /\ \A id \in Ids :
         SF_vars(Offer(AuthorOf[id], id)) /\ SF_vars(RepeatAck(Other(AuthorOf[id]), id))

FairSpec == Spec /\ Fairness

-----------------------------------------------------------------------------

\* The type invariant.
TypeOK ==
    /\ \A e \in Ends : DOMAIN peer[e] = DOMAIN Fresh
                       /\ \A k \in DOMAIN Fresh : peer[e][k] \in BOOLEAN
    /\ \A e \in Ends : {Len(inbound[e]), Len(acks[e]), Len(confirms[e])} \subseteq 0..MaxFrames
    /\ owed \in [Ends -> SUBSET Ids] /\ receipts \in [Ends -> SUBSET Ids]

\* The probes settle before they matter: whenever a MESSAGE_V2 frame, an
\* acknowledgement or a confirmation is next on the stream, the end that reads
\* it is ready, so none is rejected and none faults the link, through
\* crossed handshakes, lost connections and hot upgrades.
NegotiatedBeforeUse ==
    \A e \in Ends :
      (peer[e].open /\ wire[e] # <<>> /\ Head(wire[e]).kind \in {"message", "ack", "confirm"})
        => Ready(peer[e])

\* Custody passes only forward: an event is dropped by the end that owes it
\* when the other accepted it, never because a queue or connection was lost.
DroppedIsAccepted ==
    \A e \in Ends, id \in events : AuthorOf[id] = e /\ id \notin owed[e] => id \in accepted[Other(e)]

\* A receipt lasts as long as it is needed: while the event is still owed, the
\* end that accepted it repeats the acknowledgement.
ReceiptWhileOwed ==
    \A e \in Ends : owed[e] \cap accepted[Other(e)] \subseteq receipts[Other(e)]

\* If the connection comes to stay, every event is accepted and both books
\* are closed: nothing is owed and no acknowledgement is repeated.
BooksClose ==
    (<>[](\A e \in Ends : peer[e].open))
      => <>[](\A e \in Ends : owed[e] = {} /\ receipts[e] = {})

=============================================================================
