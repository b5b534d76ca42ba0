-------------------------- MODULE RelayLinkProofs --------------------------
(***************************************************************************)
(* Nothing of MESSAGE_V2 arrives at an end that has not negotiated it, and *)
(* custody of an event passes only forward, for any number of events, lost *)
(* connections and hot upgrades and for queues of any size.                *)
(***************************************************************************)
EXTENDS RelayLink, TLAPS

Kinds   == {"handshake", "resync", "ping", "pong", "message", "ack", "confirm"}
Relayed == {"message", "ack", "confirm"}
Frames  == [kind : Kinds \ Relayed] \cup [kind : Relayed, id : Ids]
Peers   == [open : BOOLEAN, handshakeSent : BOOLEAN, established : BOOLEAN,
            secure : BOOLEAN, current : BOOLEAN]

LinkTypeOK ==
    /\ peer \in [Ends -> Peers]
    /\ wire \in [Ends -> Seq(Frames)]
    /\ inbound \in [Ends -> Seq(Ids)]
    /\ acks \in [Ends -> Seq(Ids)]
    /\ confirms \in [Ends -> Seq(Ids)]
    /\ \A e \in Ends : /\ Len(inbound[e]) \in 0..MaxFrames
                       /\ Len(acks[e]) \in 0..MaxFrames
                       /\ Len(confirms[e]) \in 0..MaxFrames
    /\ owed \in [Ends -> SUBSET Ids]
    /\ accepted \in [Ends -> SUBSET Ids]
    /\ receipts \in [Ends -> SUBSET Ids]
    /\ events \subseteq Ids

-----------------------------------------------------------------------------
(* Streams. *)

\* A frame of this kind is on the stream.
Has(w, kind) == \E k \in 1..Len(w) : w[k].kind = kind

\* Each frame of these kinds has one of the kind `first' before it.
Led(w, kinds, first) ==
    \A k \in 1..Len(w) : w[k].kind \in kinds => \E j \in 1..(k - 1) : w[j].kind = first

LEMMA Sending ==
    ASSUME NEW w \in Seq(Frames), NEW v \in Seq(Frames), NEW kinds, NEW first
    PROVE  /\ w \o v \in Seq(Frames)
           /\ Has(w \o v, first) <=> Has(w, first) \/ Has(v, first)
           /\ Led(w, kinds, first) /\ (Has(w, first) \/ Led(v, kinds, first)) => Led(w \o v, kinds, first)
<1>1. /\ w \o v \in Seq(Frames)
      /\ Len(w) \in Nat /\ Len(v) \in Nat /\ Len(w \o v) = Len(w) + Len(v)
      /\ \A k \in 1..Len(w) : (w \o v)[k] = w[k]
      /\ \A k \in 1..Len(v) : (w \o v)[Len(w) + k] = v[k]
  OBVIOUS
<1>2. ASSUME NEW k \in 1..Len(w \o v), k \notin 1..Len(w)
      PROVE  k - Len(w) \in 1..Len(v) /\ (w \o v)[k] = v[k - Len(w)]
  BY <1>1, <1>2
<1>3. Has(w \o v, first) <=> Has(w, first) \/ Has(v, first)
  <2>1. Has(w \o v, first) => Has(w, first) \/ Has(v, first)
    BY <1>1, <1>2 DEF Has
  <2>2. Has(w, first) => Has(w \o v, first)
    BY <1>1 DEF Has
  <2>3. ASSUME NEW k \in 1..Len(v), v[k].kind = first PROVE Has(w \o v, first)
    <3>1. Len(w) + k \in 1..Len(w \o v)
      BY <1>1
    <3> QED BY <1>1, <2>3, <3>1 DEF Has
  <2> QED BY <2>1, <2>2, <2>3 DEF Has
<1>4. ASSUME Led(w, kinds, first), Has(w, first) \/ Led(v, kinds, first),
             NEW k \in 1..Len(w \o v), (w \o v)[k].kind \in kinds
      PROVE  \E j \in 1..(k - 1) : (w \o v)[j].kind = first
  <2>1. CASE k \in 1..Len(w)
    <3>1. PICK j \in 1..(k - 1) : w[j].kind = first
      BY <1>1, <1>4, <2>1 DEF Led
    <3> QED BY <1>1, <2>1, <3>1
  <2>2. CASE k \notin 1..Len(w) /\ Has(w, first)
    <3>1. PICK j \in 1..Len(w) : w[j].kind = first
      BY <2>2 DEF Has
    <3>2. j \in 1..(k - 1)
      BY <1>1, <2>2
    <3> QED BY <1>1, <3>1, <3>2
  <2>3. CASE k \notin 1..Len(w) /\ Led(v, kinds, first)
    <3>1. PICK j \in 1..(k - Len(w) - 1) : v[j].kind = first
      BY <1>2, <1>4, <2>3 DEF Led
    <3>2. Len(w) + j \in 1..(k - 1) /\ j \in 1..Len(v)
      BY <1>1, <1>2, <2>3
    <3> QED BY <1>1, <3>1, <3>2
  <2> QED BY <1>4, <2>1, <2>2, <2>3
<1> QED BY <1>1, <1>3, <1>4 DEF Led

LEMMA Receiving ==
    ASSUME NEW w \in Seq(Frames), w # <<>>, NEW kinds, NEW first
    PROVE  /\ Tail(w) \in Seq(Frames) /\ Head(w) \in Frames
           /\ Has(w, first) => Head(w).kind = first \/ Has(Tail(w), first)
           /\ Led(w, kinds, first) => Head(w).kind \notin kinds
           /\ Led(w, kinds, first) => Head(w).kind = first \/ Led(Tail(w), kinds, first)
<1>1. /\ Tail(w) \in Seq(Frames) /\ Head(w) = w[1] /\ w[1] \in Frames
      /\ Len(w) \in Nat \ {0} /\ Len(Tail(w)) = Len(w) - 1
      /\ \A k \in 1..Len(Tail(w)) : Tail(w)[k] = w[k + 1]
  OBVIOUS
<1>2. Has(w, first) => Head(w).kind = first \/ Has(Tail(w), first)
  <2> SUFFICES ASSUME NEW k \in 1..Len(w), w[k].kind = first, k # 1 PROVE Has(Tail(w), first)
    BY <1>1 DEF Has
  <2>1. k - 1 \in 1..Len(Tail(w)) /\ Tail(w)[k - 1] = w[k]
    BY <1>1
  <2> QED BY <2>1 DEF Has
<1>3. Led(w, kinds, first) => Head(w).kind \notin kinds
  BY <1>1 DEF Led
<1>4. ASSUME Led(w, kinds, first), Head(w).kind # first,
             NEW k \in 1..Len(Tail(w)), Tail(w)[k].kind \in kinds
      PROVE  \E j \in 1..(k - 1) : Tail(w)[j].kind = first
  <2>1. PICK j \in 1..k : w[j].kind = first
    <3>1. k + 1 \in 1..Len(w) /\ w[k + 1].kind \in kinds
      BY <1>1, <1>4
    <3> QED BY <1>4, <3>1 DEF Led
  <2>2. j - 1 \in 1..(k - 1) /\ j - 1 \in 1..Len(Tail(w)) /\ Tail(w)[j - 1] = w[j]
    BY <1>1, <1>4, <2>1
  <2> QED BY <2>1, <2>2
<1> QED BY <1>1, <1>2, <1>3, <1>4 DEF Led

\* What is on a stream or in a queue, as a set.
LEMMA Contents ==
    ASSUME NEW S, NEW s \in Seq(S), NEW t \in Seq(S), NEW x \in S
    PROVE  /\ ToSet(s) \subseteq S
           /\ ToSet(s \o t) = ToSet(s) \cup ToSet(t)
           /\ ToSet(Append(s, x)) = ToSet(s) \cup {x}
           /\ s # <<>> => Head(s) \in ToSet(s) /\ ToSet(Tail(s)) \subseteq ToSet(s)
<1>1. ToSet(s) \subseteq S
  BY DEF ToSet
<1>2. ToSet(s \o t) = ToSet(s) \cup ToSet(t)
  <2>1. ToSet(s \o t) \subseteq ToSet(s) \cup ToSet(t)
    BY DEF ToSet
  <2>2. ToSet(s) \subseteq ToSet(s \o t)
    BY DEF ToSet
  <2>3. ASSUME NEW i \in DOMAIN t PROVE t[i] \in ToSet(s \o t)
    <3>1. Len(s) + i \in DOMAIN (s \o t) /\ (s \o t)[Len(s) + i] = t[i]
      OBVIOUS
    <3> QED BY <3>1 DEF ToSet
  <2> QED BY <2>1, <2>2, <2>3 DEF ToSet
<1>3. ToSet(Append(s, x)) = ToSet(s) \cup {x}
  <2>1. Len(s) + 1 \in DOMAIN Append(s, x) /\ Append(s, x)[Len(s) + 1] = x
    OBVIOUS
  <2>2. \A i \in DOMAIN s : i \in DOMAIN Append(s, x) /\ Append(s, x)[i] = s[i]
    OBVIOUS
  <2>3. \A i \in DOMAIN Append(s, x) : i \in DOMAIN s \/ i = Len(s) + 1
    OBVIOUS
  <2> QED BY <2>1, <2>2, <2>3 DEF ToSet
<1>4. ASSUME s # <<>> PROVE Head(s) \in ToSet(s) /\ ToSet(Tail(s)) \subseteq ToSet(s)
  <2>1. 1 \in DOMAIN s /\ Head(s) = s[1]
    BY <1>4
  <2>2. \A i \in DOMAIN Tail(s) : i + 1 \in DOMAIN s /\ Tail(s)[i] = s[i + 1]
    BY <1>4
  <2> QED BY <2>1, <2>2 DEF ToSet
<1> QED BY <1>1, <1>2, <1>3, <1>4

-----------------------------------------------------------------------------
(* The two ends. *)

LEMMA Pair ==
    ASSUME NEW e \in Ends
    PROVE  /\ Other(e) \in Ends /\ Other(e) # e /\ Other(Other(e)) = e
           /\ \A f \in Ends : f = e \/ f = Other(e)
BY LinkAssumption DEF Other

LEMMA FrameKinds ==
    /\ Handshake \in Frames /\ Resync \in Frames /\ Ping \in Frames /\ Pong \in Frames
    /\ \A id \in Ids : Message(id) \in Frames /\ Ack(id) \in Frames /\ Confirm(id) \in Frames
    /\ \A f \in Frames : f.kind \in Kinds
    /\ \A f \in Frames : f.kind \in Relayed => f.id \in Ids
    /\ \A f \in Frames : f.kind = "ack" => f = Ack(f.id)
    /\ \A f \in Frames : f.kind = "confirm" => f = Confirm(f.id)
BY DEF Frames, Kinds, Relayed, Handshake, Resync, Ping, Pong, Message, Ack, Confirm

\* What the steps do to a stream.
LEMMA WireTypes ==
    ASSUME LinkTypeOK, NEW e \in Ends, NEW f \in Ends, NEW v \in Seq(Frames)
    PROVE  /\ WireAfter(wire, f, v) \in [Ends -> Seq(Frames)]
           /\ wire[e] # <<>> => /\ Rest(e) \in [Ends -> Seq(Frames)]
                               /\ WireAfter(Rest(e), f, v) \in [Ends -> Seq(Frames)]
                               /\ Head(wire[e]) \in Frames
<1> DEFINE After(w) == WireAfter(w, f, v)
<1>1. ASSUME NEW w \in [Ends -> Seq(Frames)] PROVE After(w) \in [Ends -> Seq(Frames)]
  <2>1. w[f] \o v \in Seq(Frames)
    OBVIOUS
  <2> QED BY <2>1 DEF WireAfter
<1>2. wire \in [Ends -> Seq(Frames)]
  BY DEF LinkTypeOK
<1>3. ASSUME wire[e] # <<>> PROVE Rest(e) \in [Ends -> Seq(Frames)] /\ Head(wire[e]) \in Frames
  <2>1. Tail(wire[e]) \in Seq(Frames) /\ Head(wire[e]) \in Frames
    BY <1>2, <1>3
  <2> QED BY <1>2, <2>1 DEF Rest
<1> QED BY <1>1, <1>2, <1>3

LEMMA QueuedType ==
    ASSUME NEW q \in Seq(Ids), NEW id \in Ids, Len(q) \in 0..MaxFrames
    PROVE  Queued(q, id) \in Seq(Ids) /\ Len(Queued(q, id)) \in 0..MaxFrames
BY LinkAssumption DEF Queued

LEMMA LinkInit == Init => LinkTypeOK
BY LinkAssumption DEF Init, LinkTypeOK, Fresh, Peers

LEMMA CloseTypes ==
    ASSUME LinkTypeOK, NEW e \in Ends, CloseEnd(e), events' = events
    PROVE  LinkTypeOK'
<1>1. peer' \in [Ends -> Peers]
  BY DEF CloseEnd, LinkTypeOK, Closed, Fresh, Peers
<1> QED BY <1>1, LinkAssumption DEF CloseEnd, LinkTypeOK, daemon

LEMMA StreamTypes ==
    ASSUME LinkTypeOK, NEW e \in Ends,
           StartHandshake(e) \/ HelixResume(e) \/ Dispatch(e)
    PROVE  LinkTypeOK'
<1> USE DEF daemon, bounds
<1>0. Other(e) \in Ends
  BY Pair
<1>1. HandshakeFrames \in Seq(Frames) /\ HandshakeFrames \o <<Resync>> \in Seq(Frames) /\ <<Pong>> \in Seq(Frames)
  <2>1. HandshakeFrames \in Seq(Frames) /\ <<Resync>> \in Seq(Frames) /\ <<Pong>> \in Seq(Frames)
    BY FrameKinds DEF HandshakeFrames
  <2> QED BY <2>1
<1>2. CASE StartHandshake(e)
  <2>1. wire' \in [Ends -> Seq(Frames)]
    BY <1>0, <1>1, <1>2, WireTypes DEF StartHandshake
  <2>2. peer' \in [Ends -> Peers]
    BY <1>2 DEF StartHandshake, LinkTypeOK, Peers
  <2> QED BY <1>2, <2>1, <2>2 DEF StartHandshake, LinkTypeOK
<1>3. CASE HelixResume(e)
  <2>1. wire' \in [Ends -> Seq(Frames)]
    BY <1>0, <1>1, <1>3, WireTypes DEF HelixResume
  <2>2. peer' \in [Ends -> Peers]
    BY <1>3 DEF HelixResume, Resumed, LinkTypeOK, Peers
  <2>3. /\ inbound' \in [Ends -> Seq(Ids)] /\ acks' \in [Ends -> Seq(Ids)]
        /\ confirms' \in [Ends -> Seq(Ids)]
        /\ \A f \in Ends : /\ Len(inbound'[f]) \in 0..MaxFrames
                           /\ Len(acks'[f]) \in 0..MaxFrames
                           /\ Len(confirms'[f]) \in 0..MaxFrames
    BY <1>3, LinkAssumption DEF HelixResume, LinkTypeOK
  <2> QED BY <1>3, <2>1, <2>2, <2>3 DEF HelixResume, LinkTypeOK
<1>4. CASE RecvHandshake(e)
  <2>1. wire' \in [Ends -> Seq(Frames)]
    BY <1>0, <1>1, <1>4, WireTypes DEF RecvHandshake, Arrives
  <2>2. [peer[e] EXCEPT !.established = TRUE, !.secure = TRUE, !.handshakeSent = TRUE] \in Peers
    BY DEF LinkTypeOK, Peers
  <2>3. peer' = [peer EXCEPT ![e] = [peer[e] EXCEPT !.established = TRUE, !.secure = TRUE, !.handshakeSent = TRUE]]
    BY <1>4 DEF RecvHandshake, LinkTypeOK, Peers
  <2>4. peer' \in [Ends -> Peers]
    BY <2>2, <2>3 DEF LinkTypeOK
  <2> QED BY <1>4, <2>1, <2>4 DEF RecvHandshake, LinkTypeOK
<1>5. CASE RecvResync(e) \/ RecvPing(e)
  <2>1. wire' \in [Ends -> Seq(Frames)]
    <3>1. wire[e] # <<>>
      BY <1>5 DEF RecvResync, RecvPing, Arrives
    <3>2. /\ Rest(e) \in [Ends -> Seq(Frames)]
          /\ WireAfter(Rest(e), Other(e), HandshakeFrames) \in [Ends -> Seq(Frames)]
          /\ WireAfter(Rest(e), Other(e), <<Pong>>) \in [Ends -> Seq(Frames)]
      BY <1>0, <1>1, <3>1, WireTypes
    <3> QED BY <1>5, <3>2 DEF RecvResync, RecvPing
  <2> QED BY <1>5, <2>1 DEF RecvResync, RecvPing, LinkTypeOK
<1>8. CASE RecvPong(e)
  <2>1. wire' \in [Ends -> Seq(Frames)]
    BY <1>0, <1>1, <1>8, WireTypes DEF RecvPong, Arrives
  <2>2. PICK b \in BOOLEAN : peer' = [peer EXCEPT ![e].current = b]
    BY <1>8 DEF RecvPong
  <2>3. peer' \in [Ends -> Peers]
    BY <2>2 DEF LinkTypeOK, Peers
  <2> QED BY <1>8, <2>1, <2>3 DEF RecvPong, LinkTypeOK
<1>6. CASE RecvMessageV2(e)
  <2>1. CASE CloseEnd(e)
    BY <1>6, <2>1, CloseTypes DEF RecvMessageV2
  <2>2. CASE ~CloseEnd(e)
    <3>1. wire' \in [Ends -> Seq(Frames)] /\ Head(wire[e]) \in Frames
      BY <1>6, <2>2, <1>1, WireTypes DEF RecvMessageV2, Arrives
    <3>2. Head(wire[e]).id \in Ids
      BY <1>6, <3>1, FrameKinds DEF RecvMessageV2, Arrives, Relayed
    <3>3. inbound' \in [Ends -> Seq(Ids)] /\ \A f \in Ends : Len(inbound'[f]) \in 0..MaxFrames
      <4>1. CASE Ready(peer[e])
        <5>1. Len(inbound[e]) < MaxFrames
          BY <1>6, <2>2, <4>1, LinkAssumption DEF RecvMessageV2, LinkTypeOK
        <5>2. /\ Append(inbound[e], Head(wire[e]).id) \in Seq(Ids)
              /\ Len(Append(inbound[e], Head(wire[e]).id)) \in 0..MaxFrames
          BY <5>1, <3>2, LinkAssumption DEF LinkTypeOK
        <5>3. inbound' = [inbound EXCEPT ![e] = Append(@, Head(wire[e]).id)]
          BY <1>6, <2>2, <4>1 DEF RecvMessageV2
        <5> QED BY <5>2, <5>3 DEF LinkTypeOK
      <4>2. CASE ~Ready(peer[e])
        BY <1>6, <2>2, <4>2 DEF RecvMessageV2, LinkTypeOK
      <4> QED BY <4>1, <4>2
    <3> QED BY <1>6, <2>2, <3>1, <3>3 DEF RecvMessageV2, LinkTypeOK
  <2> QED BY <2>1, <2>2
<1>7. CASE RecvMessageV2Ack(e)
  <2>1. CASE ~Ready(peer[e])
    BY <1>7, <2>1, CloseTypes DEF RecvMessageV2Ack
  <2>2. CASE Ready(peer[e])
    <3>1. wire' \in [Ends -> Seq(Frames)] /\ Head(wire[e]) \in Frames
      BY <1>7, <2>2, <1>1, WireTypes DEF RecvMessageV2Ack, Arrives
    <3>2. Head(wire[e]).id \in Ids
      BY <1>7, <3>1, FrameKinds DEF RecvMessageV2Ack, Arrives, Relayed
    <3>3. /\ Queued(acks[e], Head(wire[e]).id) \in Seq(Ids)
          /\ Len(Queued(acks[e], Head(wire[e]).id)) \in 0..MaxFrames
          /\ Queued(confirms[e], Head(wire[e]).id) \in Seq(Ids)
          /\ Len(Queued(confirms[e], Head(wire[e]).id)) \in 0..MaxFrames
      BY <3>2, QueuedType DEF LinkTypeOK
    <3>4. /\ acks' \in [Ends -> Seq(Ids)] /\ \A f \in Ends : Len(acks'[f]) \in 0..MaxFrames
          /\ confirms' \in [Ends -> Seq(Ids)] /\ \A f \in Ends : Len(confirms'[f]) \in 0..MaxFrames
      BY <1>7, <2>2, <3>3 DEF RecvMessageV2Ack, LinkTypeOK
    <3> QED BY <1>7, <2>2, <3>1, <3>4 DEF RecvMessageV2Ack, LinkTypeOK
  <2> QED BY <2>1, <2>2
<1> QED BY <1>2, <1>3, <1>4, <1>5, <1>6, <1>7, <1>8 DEF Dispatch

LEMMA DaemonTypes ==
    ASSUME LinkTypeOK, NEW e \in Ends,
           TakeInbound(e) \/ TakeAcks(e) \/ TakeConfirms(e)
             \/ \E id \in Ids : Offer(e, id) \/ RepeatAck(e, id)
    PROVE  LinkTypeOK'
<1> USE DEF daemon, bounds
<1>1. CASE TakeInbound(e)
  <2>1. ToSet(inbound[e]) \subseteq Ids
    BY DEF LinkTypeOK, ToSet
  <2> QED BY <1>1, <2>1, LinkAssumption DEF TakeInbound, LinkTypeOK
<1>2. CASE TakeConfirms(e)
  BY <1>2, LinkAssumption DEF TakeConfirms, LinkTypeOK
<1>3. CASE TakeAcks(e)
  <2>1. [k \in DOMAIN acks[e] |-> Confirm(acks[e][k])] \in Seq(Frames)
    <3>1. \A k \in DOMAIN acks[e] : Confirm(acks[e][k]) \in Frames
      BY FrameKinds DEF LinkTypeOK
    <3>2. acks[e] \in Seq(Ids) /\ DOMAIN acks[e] = 1..Len(acks[e]) /\ Len(acks[e]) \in Nat
      BY DEF LinkTypeOK
    <3> QED BY <3>1, <3>2
  <2>2. wire' \in [Ends -> Seq(Frames)]
    <3>1. <<>> \in Seq(Frames)
      OBVIOUS
    <3> QED BY <1>3, <2>1, <3>1, WireTypes, Pair DEF TakeAcks, Sends
  <2> QED BY <1>3, <2>2, LinkAssumption DEF TakeAcks, LinkTypeOK
<1>4. ASSUME NEW id \in Ids, Offer(e, id) \/ RepeatAck(e, id) PROVE LinkTypeOK'
  <2>1. wire' \in [Ends -> Seq(Frames)]
    <3>1. <<Message(id)>> \in Seq(Frames) /\ <<Ack(id)>> \in Seq(Frames)
      BY FrameKinds
    <3>2. /\ WireAfter(wire, Other(e), <<Message(id)>>) \in [Ends -> Seq(Frames)]
          /\ WireAfter(wire, Other(e), <<Ack(id)>>) \in [Ends -> Seq(Frames)]
      BY <3>1, WireTypes, Pair
    <3> QED BY <1>4, <3>2 DEF Offer, RepeatAck, Sends
  <2> QED BY <1>4, <2>1 DEF Offer, RepeatAck, LinkTypeOK
<1> QED BY <1>1, <1>2, <1>3, <1>4

LEMMA LinkTypes == LinkTypeOK /\ [Next]_vars => LinkTypeOK'
<1> SUFFICES ASSUME LinkTypeOK, [Next]_vars PROVE LinkTypeOK'
  OBVIOUS
<1>1. CASE Reconnect
  BY <1>1 DEF Reconnect, LinkTypeOK, Fresh, Peers, daemon, bounds
<1>2. CASE \E e \in Ends : Break(e) \/ EndOfStream(e)
  BY <1>2, CloseTypes DEF Break, EndOfStream, bounds
<1>3. CASE UNCHANGED vars
  BY <1>3 DEF vars, bounds, LinkTypeOK
<1> QED BY <1>1, <1>2, <1>3, StreamTypes, DaemonTypes DEF Next

-----------------------------------------------------------------------------
(* Negotiation.  Readiness is owed to a stream before a frame needs it: what *)
(* an end still lacks is on its way, ahead of the frames that require it.    *)

AfterHandshake == Kinds \ {"handshake"}

\* One end p and the stream w that it reads.
Local(p, w) ==
    /\ ~p.open => p = Closed /\ w = <<>>
    /\ p.secure = p.established
    /\ p.established => p.handshakeSent
    /\ p.current => p.established
    /\ p.established \/ Led(w, AfterHandshake, "handshake")
    /\ p.current \/ Led(w, Relayed, "pong")

\* What the state of the other end q, which reads u, says of p and w.
Across(p, w, q, u) ==
    /\ q.handshakeSent => p.established \/ Has(w, "handshake")
    /\ q.current => p.current \/ Has(w, "pong")
    /\ q.handshakeSent => q.current \/ Has(u, "pong") \/ Has(w, "ping")
    /\ q.current \/ Has(u, "pong") \/ Led(w, {"pong"}, "ping")

Linked(p, w, q, u) ==
    /\ Local(p, w) /\ Local(q, u)
    /\ p.open /\ q.open => Across(p, w, q, u) /\ Across(q, u, p, w)

Negotiated == \A e \in Ends : Linked(peer[e], wire[e], peer[Other(e)], wire[Other(e)])

\* The stream of q when v is sent to it.
Sent(q, u, v) == IF q.open THEN u \o v ELSE u

Greeting(v) ==
    /\ Has(v, "handshake") /\ Has(v, "ping")
    /\ Led(v, AfterHandshake, "handshake") /\ Led(v, Relayed, "pong") /\ Led(v, {"pong"}, "ping")

LEMMA Greetings ==
    /\ HandshakeFrames \in Seq(Frames) /\ HandshakeFrames \o <<Resync>> \in Seq(Frames)
    /\ Greeting(HandshakeFrames) /\ Greeting(HandshakeFrames \o <<Resync>>)
<1>1. HandshakeFrames \in Seq(Frames) /\ <<Resync>> \in Seq(Frames)
  BY FrameKinds DEF HandshakeFrames
<1>2. Greeting(HandshakeFrames)
  <2>1. Len(HandshakeFrames) = 2 /\ HandshakeFrames[1].kind = "handshake" /\ HandshakeFrames[2].kind = "ping"
    BY DEF HandshakeFrames, Handshake, Ping
  <2>2. Has(HandshakeFrames, "handshake") /\ Has(HandshakeFrames, "ping")
    BY <2>1 DEF Has
  <2>3. /\ Led(HandshakeFrames, AfterHandshake, "handshake")
        /\ Led(HandshakeFrames, Relayed, "pong") /\ Led(HandshakeFrames, {"pong"}, "ping")
    BY <2>1 DEF Led, AfterHandshake, Relayed
  <2> QED BY <2>2, <2>3 DEF Greeting
<1>3. Led(<<Resync>>, Relayed, "pong") /\ Led(<<Resync>>, {"pong"}, "ping")
  BY DEF Led, Relayed, Resync
<1> QED BY <1>1, <1>2, <1>3, Sending DEF Greeting

LEMMA Mirror ==
    ASSUME NEW p, NEW w, NEW q, NEW u
    PROVE  Linked(p, w, q, u) <=> Linked(q, u, p, w)
BY DEF Linked

LEMMA Closing ==
    ASSUME NEW p, NEW w, NEW q, NEW u, Linked(p, w, q, u)
    PROVE  Linked(Closed, <<>>, q, u)
BY DEF Linked, Local, Closed, Fresh, Led

LEMMA Greet ==
    ASSUME NEW p \in Peers, NEW w \in Seq(Frames), NEW q \in Peers, NEW u \in Seq(Frames),
           NEW v \in Seq(Frames), Linked(p, w, q, u), p.open, Greeting(v)
    PROVE  Linked([p EXCEPT !.handshakeSent = TRUE], w, q, Sent(q, u, v))
<1> DEFINE p1 == [p EXCEPT !.handshakeSent = TRUE]
<1>1. /\ p1.open /\ p1.handshakeSent /\ p1.established = p.established
      /\ p1.secure = p.secure /\ p1.current = p.current
  BY DEF Peers
<1>2. Local(p1, w)
  BY <1>1 DEF Linked, Local
<1>3. CASE ~q.open
  BY <1>1, <1>2, <1>3 DEF Linked, Sent
<1>4. CASE q.open
  <2>1. Sent(q, u, v) = u \o v
    BY <1>4 DEF Sent
  <2>2. Local(q, u \o v)
    BY <1>4, Sending DEF Linked, Local, Greeting
  <2>3. Across(p1, w, q, u \o v)
    BY <1>1, <1>4, Sending DEF Linked, Across
  <2>4. Across(q, u \o v, p1, w)
    BY <1>1, <1>4, Sending DEF Linked, Across, Greeting
  <2> QED BY <1>2, <2>1, <2>2, <2>3, <2>4 DEF Linked
<1> QED BY <1>3, <1>4

\* The handshake arrives at an end that has sent its own.
LEMMA GetHandshake ==
    ASSUME NEW p \in Peers, NEW w \in Seq(Frames), NEW q \in Peers, NEW u \in Seq(Frames),
           Linked(p, w, q, u), p.open, p.handshakeSent, w # <<>>, Head(w).kind = "handshake"
    PROVE  Linked([p EXCEPT !.established = TRUE, !.secure = TRUE], Tail(w), q, u)
<1> DEFINE p1 == [p EXCEPT !.established = TRUE, !.secure = TRUE]
<1>1. /\ p1.open /\ p1.handshakeSent /\ p1.established /\ p1.secure = TRUE /\ p1.established = TRUE
      /\ p1.current = p.current
  BY DEF Peers
<1>2. Local(p1, Tail(w))
  BY <1>1, Receiving DEF Linked, Local
<1>3. ASSUME q.open PROVE Across(p1, Tail(w), q, u) /\ Across(q, u, p1, Tail(w))
  BY <1>1, <1>3, Receiving DEF Linked, Across
<1> QED BY <1>1, <1>2, <1>3 DEF Linked

\* Frames that change nothing in the one who reads them.
LEMMA Skip ==
    ASSUME NEW p \in Peers, NEW w \in Seq(Frames), NEW q \in Peers, NEW u \in Seq(Frames),
           Linked(p, w, q, u), p.open, w # <<>>, Head(w).kind \in Relayed \cup {"resync"}
    PROVE  /\ Linked(p, Tail(w), q, u) /\ p.established
           /\ Head(w).kind \in Relayed => Ready(p)
<1>1. Head(w).kind \notin {"handshake", "ping", "pong"} /\ Head(w).kind \in AfterHandshake
  BY DEF Relayed, AfterHandshake, Kinds
<1>2. p.established /\ (Head(w).kind \in Relayed => Ready(p))
  BY <1>1, Receiving DEF Linked, Local, Ready, Peers
<1>3. Local(p, Tail(w))
  BY <1>1, <1>2, Receiving DEF Linked, Local
<1>4. ASSUME q.open PROVE Across(p, Tail(w), q, u) /\ Across(q, u, p, Tail(w))
  BY <1>1, <1>4, Receiving DEF Linked, Across
<1> QED BY <1>2, <1>3, <1>4 DEF Linked

LEMMA GetPing ==
    ASSUME NEW p \in Peers, NEW w \in Seq(Frames), NEW q \in Peers, NEW u \in Seq(Frames),
           Linked(p, w, q, u), p.open, w # <<>>, Head(w).kind = "ping"
    PROVE  Linked(p, Tail(w), q, Sent(q, u, <<Pong>>))
<1>1. "ping" \in AfterHandshake /\ "ping" \notin Relayed
  BY DEF Relayed, AfterHandshake, Kinds
<1>2. p.established /\ p.handshakeSent
  BY <1>1, Receiving DEF Linked, Local
<1>3. Local(p, Tail(w))
  BY <1>1, <1>2, Receiving DEF Linked, Local
<1>4. CASE ~q.open
  BY <1>3, <1>4 DEF Linked, Sent
<1>5. CASE q.open
  <2>1. Sent(q, u, <<Pong>>) = u \o <<Pong>> /\ <<Pong>> \in Seq(Frames)
    BY <1>5, FrameKinds DEF Sent
  <2>2. Has(<<Pong>>, "pong") /\ Led(<<Pong>>, Relayed, "pong")
    BY DEF Has, Led, Pong, Relayed
  <2>3. Local(q, u \o <<Pong>>)
    BY <1>2, <1>5, <2>1, <2>2, Sending DEF Linked, Local, Across
  <2>4. Across(p, Tail(w), q, u \o <<Pong>>)
    BY <1>2, <1>5, <2>1, <2>2, Sending, Receiving DEF Linked, Across
  <2>5. Across(q, u \o <<Pong>>, p, Tail(w))
    <3>1. p.current \/ Has(Tail(w), "pong") \/ Has(u, "ping")
      BY <1>2, <1>5, Receiving DEF Linked, Across
    <3> QED BY <1>2, <1>5, <2>1, <2>2, <3>1, Sending, Receiving DEF Linked, Across
  <2> QED BY <1>3, <2>1, <2>3, <2>4, <2>5 DEF Linked
<1> QED BY <1>4, <1>5

LEMMA GetPong ==
    ASSUME NEW p \in Peers, NEW w \in Seq(Frames), NEW q \in Peers, NEW u \in Seq(Frames),
           Linked(p, w, q, u), p.open, w # <<>>, Head(w).kind = "pong"
    PROVE  Linked([p EXCEPT !.current = TRUE], Tail(w), q, u) /\ p.secure
<1> DEFINE p1 == [p EXCEPT !.current = TRUE]
<1>1. /\ p1.open /\ p1.handshakeSent = p.handshakeSent /\ p1.established = p.established
      /\ p1.secure = p.secure /\ p1.current
  BY DEF Peers
<1>2. "pong" \in AfterHandshake
  BY DEF AfterHandshake, Kinds
<1>3. p.established /\ p.secure
  BY <1>2, Receiving DEF Linked, Local
<1>4. Local(p1, Tail(w))
  BY <1>1, <1>2, <1>3, Receiving DEF Linked, Local
<1>5. ASSUME q.open PROVE Across(p1, Tail(w), q, u) /\ Across(q, u, p1, Tail(w))
  BY <1>1, <1>3, <1>5, Receiving DEF Linked, Across
<1> QED BY <1>1, <1>3, <1>4, <1>5 DEF Linked

\* A ready end sends.
LEMMA Send ==
    ASSUME NEW p \in Peers, NEW w \in Seq(Frames), NEW q \in Peers, NEW u \in Seq(Frames),
           NEW v \in Seq(Frames), Linked(p, w, q, u), v # <<>> => Ready(p),
           \A k \in 1..Len(v) : v[k].kind \in Relayed
    PROVE  Linked(p, w, q, Sent(q, u, v))
<1>1. CASE ~q.open
  BY <1>1 DEF Sent
<1>2. CASE v = <<>>
  <2>1. u \o v = u
    BY <1>2
  <2> QED BY <2>1 DEF Sent
<1>3. CASE q.open /\ v # <<>>
  <2>1. Sent(q, u, v) = u \o v
    BY <1>3 DEF Sent
  <2>2. Led(v, {"pong"}, "ping")
    BY DEF Led, Relayed
  <2>3. p.open /\ p.established /\ p.current /\ p.handshakeSent
    BY <1>3 DEF Linked, Local, Ready, Closed, Fresh
  <2>4. Local(q, u \o v)
    BY <1>3, <2>3, Sending DEF Linked, Local, Across
  <2>5. Across(p, w, q, u \o v) /\ Across(q, u \o v, p, w)
    BY <1>3, <2>2, <2>3, Sending DEF Linked, Across
  <2> QED BY <2>1, <2>3, <2>4, <2>5 DEF Linked
<1> QED BY <1>1, <1>2, <1>3

\* The same, of the variables.
LEMMA Streams ==
    ASSUME LinkTypeOK, NEW e \in Ends, NEW v
    PROVE  LET o == Other(e) IN
           /\ WireAfter(wire, o, v)[e] = wire[e]
           /\ WireAfter(wire, o, v)[o] = Sent(peer[o], wire[o], v)
           /\ Rest(e)[e] = Tail(wire[e]) /\ Rest(e)[o] = wire[o]
           /\ WireAfter(Rest(e), o, v)[e] = Tail(wire[e])
           /\ WireAfter(Rest(e), o, v)[o] = Sent(peer[o], wire[o], v)
BY Pair DEF LinkTypeOK, WireAfter, Rest, Sent

LEMMA OnePair ==
    ASSUME NEW e \in Ends, Linked(peer'[e], wire'[e], peer'[Other(e)], wire'[Other(e)])
    PROVE  Negotiated'
BY Pair, Mirror DEF Negotiated

LEMMA EndTypes ==
    ASSUME LinkTypeOK, NEW e \in Ends
    PROVE  /\ peer[e] \in Peers /\ peer[Other(e)] \in Peers
           /\ wire[e] \in Seq(Frames) /\ wire[Other(e)] \in Seq(Frames)
BY Pair DEF LinkTypeOK

LEMMA CloseNegotiated ==
    ASSUME LinkTypeOK, Negotiated, NEW e \in Ends, CloseEnd(e)
    PROVE  Negotiated'
<1> DEFINE o == Other(e)
<1>1. peer'[e] = Closed /\ wire'[e] = <<>> /\ peer'[o] = peer[o] /\ wire'[o] = wire[o]
  BY Pair DEF CloseEnd, LinkTypeOK
<1> QED BY <1>1, Closing, OnePair DEF Negotiated

LEMMA StreamNegotiated ==
    ASSUME LinkTypeOK, Negotiated, NEW e \in Ends,
           StartHandshake(e) \/ HelixResume(e) \/ Dispatch(e)
    PROVE  Negotiated'
<1> DEFINE o == Other(e)
           p == peer[e]
           w == wire[e]
           q == peer[o]
           u == wire[o]
<1>1. /\ Linked(p, w, q, u)
      /\ p \in Peers /\ q \in Peers /\ w \in Seq(Frames) /\ u \in Seq(Frames)
      /\ peer \in [Ends -> Peers] /\ o \in Ends /\ o # e
  BY EndTypes, Pair DEF Negotiated, LinkTypeOK
<1>2. CASE StartHandshake(e)
  <2>1. /\ peer'[e] = [p EXCEPT !.handshakeSent = TRUE] /\ peer'[o] = q
        /\ wire'[e] = w /\ wire'[o] = Sent(q, u, HandshakeFrames) /\ p.open
    BY <1>1, <1>2, Streams DEF StartHandshake
  <2> QED BY <1>1, <2>1, Greet, Greetings, OnePair
<1>3. CASE HelixResume(e)
  <2>1. p.open /\ p.established /\ p.secure = TRUE
    BY <1>1, <1>3 DEF HelixResume, Linked, Local, Closed, Fresh, Peers
  <2>2. Resumed(p) = [p EXCEPT !.handshakeSent = TRUE]
    BY <1>1, <2>1 DEF Resumed, Peers
  <2>3. /\ peer'[e] = [p EXCEPT !.handshakeSent = TRUE] /\ peer'[o] = q
        /\ wire'[e] = w /\ wire'[o] = Sent(q, u, HandshakeFrames \o <<Resync>>)
    BY <1>1, <1>3, <2>2, Streams DEF HelixResume
  <2>4. Linked([p EXCEPT !.handshakeSent = TRUE], w, q, Sent(q, u, HandshakeFrames \o <<Resync>>))
    BY <1>1, <2>1, Greet, Greetings
  <2> QED BY <2>3, <2>4, OnePair
<1>4. CASE RecvHandshake(e)
  <2> DEFINE p1 == [p EXCEPT !.handshakeSent = TRUE]
             u1 == IF p.handshakeSent THEN u ELSE Sent(q, u, HandshakeFrames)
  <2>1. /\ p.open /\ w # <<>> /\ Head(w).kind = "handshake"
        /\ peer'[e] = [p1 EXCEPT !.established = TRUE, !.secure = TRUE] /\ peer'[o] = q
        /\ wire'[e] = Tail(w) /\ wire'[o] = u1
    BY <1>1, <1>4, Streams DEF RecvHandshake, Arrives, Peers
  <2>2. p1 \in Peers /\ p1.open /\ p1.handshakeSent
    BY <1>1, <2>1 DEF Peers
  <2>3. Linked(p1, w, q, u1) /\ u1 \in Seq(Frames)
    <3>1. CASE p.handshakeSent
      <4>1. p1 = p
        BY <1>1, <3>1 DEF Peers
      <4> QED BY <1>1, <3>1, <4>1
    <3>2. CASE ~p.handshakeSent
      <4>1. Sent(q, u, HandshakeFrames) \in Seq(Frames)
        BY <1>1, Greetings, Sending DEF Sent
      <4> QED BY <1>1, <2>1, <3>2, <4>1, Greet, Greetings
    <3> QED BY <3>1, <3>2
  <2>4. Linked([p1 EXCEPT !.established = TRUE, !.secure = TRUE], Tail(w), q, u1)
    <3> HIDE DEF p1, u1
    <3> QED BY <1>1, <2>1, <2>2, <2>3, GetHandshake
  <2> QED BY <2>1, <2>4, OnePair
<1>5. CASE RecvResync(e)
  <2>1. /\ p.open /\ w # <<>> /\ Head(w).kind = "resync" /\ peer' = peer /\ wire'[e] = Tail(w)
        /\ wire'[o] = IF p.established THEN Sent(q, u, HandshakeFrames) ELSE u
    BY <1>1, <1>5, Streams DEF RecvResync, Arrives
  <2>2. Linked(p, Tail(w), q, u) /\ p.established /\ Tail(w) \in Seq(Frames)
    BY <1>1, <2>1, Skip
  <2>3. p = [p EXCEPT !.handshakeSent = TRUE]
    BY <1>1, <2>2 DEF Linked, Local, Peers
  <2>4. Linked([p EXCEPT !.handshakeSent = TRUE], Tail(w), q, Sent(q, u, HandshakeFrames))
    BY <1>1, <2>1, <2>2, Greet, Greetings
  <2> QED BY <2>1, <2>2, <2>3, <2>4, OnePair
<1>6. CASE RecvPing(e)
  <2>1. /\ p.open /\ w # <<>> /\ Head(w).kind = "ping" /\ peer' = peer
        /\ wire'[e] = Tail(w) /\ wire'[o] = Sent(q, u, <<Pong>>)
    BY <1>1, <1>6, Streams DEF RecvPing, Arrives
  <2> QED BY <1>1, <2>1, GetPing, OnePair
<1>7. CASE RecvPong(e)
  <2>1. p.open /\ w # <<>> /\ Head(w).kind = "pong"
    BY <1>7 DEF RecvPong, Arrives
  <2>2. Linked([p EXCEPT !.current = TRUE], Tail(w), q, u) /\ p.secure
    BY <1>1, <2>1, GetPong
  <2>3. /\ peer'[e] = [p EXCEPT !.current = TRUE] /\ peer'[o] = q
        /\ wire'[e] = Tail(w) /\ wire'[o] = u
    <3>1. (p.current \/ p.secure) = TRUE
      BY <2>2
    <3>2. peer' = [peer EXCEPT ![e].current = TRUE]
      BY <1>7, <3>1 DEF RecvPong
    <3> QED BY <1>1, <1>7, <3>2, Streams DEF RecvPong
  <2> QED BY <2>2, <2>3, OnePair
<1>8. CASE RecvMessageV2(e) \/ RecvMessageV2Ack(e)
  <2>1. CASE CloseEnd(e)
    BY <2>1, CloseNegotiated
  <2>2. CASE ~CloseEnd(e)
    <3>1. /\ p.open /\ w # <<>> /\ Head(w).kind \in Relayed /\ peer' = peer
          /\ wire'[e] = Tail(w) /\ wire'[o] = u
      BY <1>1, <1>8, <2>2, Streams DEF RecvMessageV2, RecvMessageV2Ack, Arrives, Relayed
    <3> QED BY <1>1, <3>1, Skip, OnePair
  <2> QED BY <2>1, <2>2
<1> QED BY <1>2, <1>3, <1>4, <1>5, <1>6, <1>7, <1>8 DEF Dispatch

LEMMA DaemonNegotiated ==
    ASSUME LinkTypeOK, Negotiated, NEW e \in Ends,
           TakeInbound(e) \/ TakeAcks(e) \/ TakeConfirms(e)
             \/ \E id \in Ids : Offer(e, id) \/ RepeatAck(e, id)
    PROVE  Negotiated'
<1> DEFINE o == Other(e)
<1>1. /\ Linked(peer[e], wire[e], peer[o], wire[o])
      /\ peer[e] \in Peers /\ peer[o] \in Peers
      /\ wire[e] \in Seq(Frames) /\ wire[o] \in Seq(Frames)
  BY EndTypes DEF Negotiated
<1>2. ASSUME NEW v \in Seq(Frames), v # <<>> => Ready(peer[e]),
             \A k \in 1..Len(v) : v[k].kind \in Relayed,
             peer' = peer, wire' = WireAfter(wire, o, v)
      PROVE  Negotiated'
  <2>1. wire'[e] = wire[e] /\ wire'[o] = Sent(peer[o], wire[o], v)
    BY <1>2, Streams
  <2> QED BY <1>1, <1>2, <2>1, Send, OnePair
<1>3. CASE TakeInbound(e) \/ TakeConfirms(e)
  BY <1>3 DEF TakeInbound, TakeConfirms, Negotiated
<1>4. CASE TakeAcks(e)
  <2> DEFINE v == IF Ready(peer[e]) THEN [k \in DOMAIN acks[e] |-> Confirm(acks[e][k])] ELSE <<>>
  <2>1. acks[e] \in Seq(Ids) /\ DOMAIN acks[e] = 1..Len(acks[e]) /\ Len(acks[e]) \in Nat
    BY DEF LinkTypeOK
  <2>2. \A k \in DOMAIN acks[e] : Confirm(acks[e][k]) \in Frames /\ Confirm(acks[e][k]).kind \in Relayed
    BY <2>1, FrameKinds DEF Confirm, Relayed
  <2>3. v \in Seq(Frames) /\ \A k \in 1..Len(v) : v[k].kind \in Relayed
    BY <2>1, <2>2
  <2>4. v # <<>> => Ready(peer[e])
    OBVIOUS
  <2>5. peer' = peer /\ wire' = WireAfter(wire, o, v)
    BY <1>4 DEF TakeAcks, Sends
  <2> QED BY <1>2, <2>3, <2>4, <2>5
<1>5. ASSUME NEW id \in Ids, Offer(e, id) \/ RepeatAck(e, id) PROVE Negotiated'
  <2>1. PICK f \in {Message(id), Ack(id)} : peer' = peer /\ wire' = WireAfter(wire, o, <<f>>) /\ Ready(peer[e])
    BY <1>5 DEF Offer, RepeatAck, Sends
  <2>2. f \in Frames /\ f.kind \in Relayed
    <3>1. Message(id) \in Frames /\ Message(id).kind \in Relayed
      BY FrameKinds DEF Message, Relayed
    <3>2. Ack(id) \in Frames /\ Ack(id).kind \in Relayed
      BY FrameKinds DEF Ack, Relayed
    <3> QED BY <2>1, <3>1, <3>2
  <2>3. <<f>> \in Seq(Frames) /\ \A k \in 1..Len(<<f>>) : <<f>>[k].kind \in Relayed
    BY <2>2
  <2> QED BY <1>2, <2>1, <2>3
<1> QED BY <1>3, <1>4, <1>5

LEMMA NegotiatedInit == Init => Negotiated
<1> SUFFICES ASSUME Init, NEW e \in Ends
             PROVE  Linked(peer[e], wire[e], peer[Other(e)], wire[Other(e)])
  BY DEF Negotiated
<1>1. peer[e] = Fresh /\ wire[e] = <<>> /\ peer[Other(e)] = Fresh /\ wire[Other(e)] = <<>>
  BY Pair DEF Init
<1> QED BY <1>1 DEF Linked, Local, Across, Fresh, Led

LEMMA NegotiatedStep == LinkTypeOK /\ Negotiated /\ [Next]_vars => Negotiated'
<1> SUFFICES ASSUME LinkTypeOK, Negotiated, [Next]_vars PROVE Negotiated'
  OBVIOUS
<1>1. CASE Reconnect
  <2> SUFFICES ASSUME NEW e \in Ends
               PROVE  Linked(peer'[e], wire'[e], peer'[Other(e)], wire'[Other(e)])
    BY DEF Negotiated
  <2>1. peer'[e] = Fresh /\ wire'[e] = <<>> /\ peer'[Other(e)] = Fresh /\ wire'[Other(e)] = <<>>
    BY <1>1, Pair DEF Reconnect
  <2> QED BY <2>1 DEF Linked, Local, Across, Fresh, Led
<1>2. CASE \E e \in Ends : Break(e) \/ EndOfStream(e)
  BY <1>2, CloseNegotiated DEF Break, EndOfStream
<1>3. CASE UNCHANGED vars
  BY <1>3 DEF vars, Negotiated
<1> QED BY <1>1, <1>2, <1>3, StreamNegotiated, DaemonNegotiated DEF Next

\* The first frame of a stream has nothing before it.
LEMMA ReadyAtHead == LinkTypeOK /\ Negotiated => NegotiatedBeforeUse
<1> SUFFICES ASSUME LinkTypeOK, Negotiated, NEW e \in Ends, peer[e].open, wire[e] # <<>>,
                    Head(wire[e]).kind \in Relayed
             PROVE  Ready(peer[e])
  BY DEF NegotiatedBeforeUse, Relayed
<1> QED BY Skip, EndTypes DEF Negotiated

-----------------------------------------------------------------------------
(* Custody.  What travels back is true: an acknowledgement of what the other *)
(* end has accepted, a confirmation of what is no longer owed.               *)

\* The ids whose acknowledgement, or confirmation, is on a stream or in a queue.
Acked(w, q)     == {id \in Ids : Ack(id) \in ToSet(w) \/ id \in ToSet(q)}
Confirmed(w, q) == {id \in Ids : Confirm(id) \in ToSet(w) \/ id \in ToSet(q)}

AcksAreTrue == \A e \in Ends : Acked(wire[e], acks[e]) \subseteq accepted[Other(e)]

ConfirmsAreTrue == \A e \in Ends : Confirmed(wire[e], confirms[e]) \cap owed[Other(e)] = {}

ReceiptsAreTrue == \A e \in Ends : receipts[e] \subseteq accepted[e]

Custody == AcksAreTrue /\ ConfirmsAreTrue /\ ReceiptsAreTrue /\ ReceiptWhileOwed /\ DroppedIsAccepted

LEMMA CustodyInit == Init => Custody
<1> SUFFICES ASSUME Init PROVE Custody
  OBVIOUS
<1>1. \A e \in Ends : /\ wire[e] = <<>> /\ acks[e] = <<>> /\ confirms[e] = <<>>
                     /\ accepted[e] = {} /\ receipts[e] = {}
  BY DEF Init
<1>2. \A e \in Ends, id \in events : AuthorOf[id] = e => id \in owed[e]
  BY DEF Init
<1> QED BY <1>1, <1>2, Pair DEF Custody, AcksAreTrue, ConfirmsAreTrue, ReceiptsAreTrue, Acked,
           Confirmed, ReceiptWhileOwed, DroppedIsAccepted, ToSet

\* A step in which nothing is accepted, dropped or settled, and nothing new
\* travels back.
LEMMA Quiet ==
    ASSUME Custody, UNCHANGED <<daemon, events>>,
           \A e \in Ends : /\ Acked(wire'[e], acks'[e]) \subseteq Acked(wire[e], acks[e])
                          /\ Confirmed(wire'[e], confirms'[e]) \subseteq Confirmed(wire[e], confirms[e])
    PROVE  Custody'
<1>1. owed' = owed /\ accepted' = accepted /\ receipts' = receipts /\ events' = events
  BY DEF daemon
<1>2. AcksAreTrue'
  BY <1>1 DEF Custody, AcksAreTrue
<1>3. ConfirmsAreTrue'
  BY <1>1 DEF Custody, ConfirmsAreTrue
<1>4. ReceiptsAreTrue' /\ ReceiptWhileOwed' /\ DroppedIsAccepted'
  BY <1>1 DEF Custody, ReceiptsAreTrue, ReceiptWhileOwed, DroppedIsAccepted
<1> QED BY <1>2, <1>3, <1>4 DEF Custody

\* What is on the streams after a step of e.
LEMMA OnStreams ==
    ASSUME LinkTypeOK, NEW e \in Ends, NEW v \in Seq(Frames), NEW f \in Ends,
           wire[e] # <<>> \/ wire' = WireAfter(wire, Other(e), v),
           wire' \in {WireAfter(wire, Other(e), v), Rest(e), WireAfter(Rest(e), Other(e), v)}
    PROVE  ToSet(wire'[f]) \subseteq ToSet(wire[f]) \cup (IF f = e THEN {} ELSE ToSet(v))
<1>1. wire[f] \in Seq(Frames) /\ (f = e \/ f = Other(e))
  BY Pair DEF LinkTypeOK
<1>2. CASE f = e
  <2>1. wire'[f] = wire[f] \/ (wire[f] # <<>> /\ wire'[f] = Tail(wire[f]))
    BY <1>2, Streams
  <2>2. wire[f] # <<>> => ToSet(Tail(wire[f])) \subseteq ToSet(wire[f])
    BY <1>1, Contents, FrameKinds
  <2> QED BY <2>1, <2>2
<1>3. CASE f = Other(e)
  <2>1. wire'[f] = wire[f] \/ wire'[f] = wire[f] \o v
    <3>1. WireAfter(wire, Other(e), v)[f] \in {wire[f], wire[f] \o v}
      BY <1>3, Streams DEF Sent
    <3>2. WireAfter(Rest(e), Other(e), v)[f] \in {wire[f], wire[f] \o v} /\ Rest(e)[f] = wire[f]
      BY <1>3, Streams DEF Sent
    <3> QED BY <3>1, <3>2
  <2>2. ToSet(wire[f] \o v) = ToSet(wire[f]) \cup ToSet(v)
    BY <1>1, Contents, FrameKinds
  <2> QED BY <1>3, <2>1, <2>2, Pair
<1> QED BY <1>1, <1>2, <1>3

LEMMA CloseCustody ==
    ASSUME LinkTypeOK, Custody, NEW e \in Ends, CloseEnd(e), events' = events
    PROVE  Custody'
<1>1. \A f \in Ends : /\ wire'[f] \in {wire[f], <<>>} /\ acks'[f] \in {acks[f], <<>>}
                     /\ confirms'[f] \in {confirms[f], <<>>}
  BY DEF CloseEnd, LinkTypeOK
<1>2. ToSet(<<>>) = {}
  BY DEF ToSet
<1>3. \A f \in Ends : /\ Acked(wire'[f], acks'[f]) \subseteq Acked(wire[f], acks[f])
                     /\ Confirmed(wire'[f], confirms'[f]) \subseteq Confirmed(wire[f], confirms[f])
  BY <1>1, <1>2 DEF Acked, Confirmed
<1> QED BY <1>3, Quiet DEF CloseEnd

LEMMA FramesDiffer ==
    /\ \A f, id : f \in {Ack(id), Confirm(id)} => f.kind \in Relayed /\ f.id = id
    /\ \A i, j : Ack(i) = Ack(j) => i = j
    /\ \A i, j : Confirm(i) = Confirm(j) => i = j
    /\ \A i, j : Ack(i) # Confirm(j) /\ Ack(i) # Message(j) /\ Confirm(i) # Message(j)
BY DEF Ack, Confirm, Message, Relayed

LEMMA Greeters ==
    /\ \A f \in ToSet(HandshakeFrames) \cup ToSet(HandshakeFrames \o <<Resync>>) \cup ToSet(<<Pong>>) :
          f.kind \notin Relayed
    /\ ToSet(<<>>) = {}
    /\ \A f : ToSet(<<f>>) = {f}
<1>1. /\ ToSet(HandshakeFrames) = {Handshake, Ping}
      /\ ToSet(<<>>) = {} /\ \A f : ToSet(<<f>>) = {f}
  BY DEF HandshakeFrames, ToSet
<1>2. ToSet(HandshakeFrames \o <<Resync>>) = ToSet(HandshakeFrames) \cup ToSet(<<Resync>>)
  <2>1. HandshakeFrames \in Seq(Frames) /\ <<Resync>> \in Seq(Frames)
    BY Greetings, FrameKinds
  <2>2. \A t \in Seq(Frames) : ToSet(HandshakeFrames \o t) = ToSet(HandshakeFrames) \cup ToSet(t)
    BY <2>1, Contents, FrameKinds
  <2> QED BY <2>1, <2>2
<1>3. \A f \in {Handshake, Ping, Resync, Pong} : f.kind \notin Relayed
  BY DEF Handshake, Ping, Resync, Pong, Relayed
<1> QED BY <1>1, <1>2, <1>3

\* Streams and queues that gain nothing that matters to custody.
LEMMA NothingNew ==
    ASSUME LinkTypeOK, Custody, NEW e \in Ends, NEW v \in Seq(Frames),
           UNCHANGED <<daemon, events>>,
           wire[e] # <<>> \/ wire' = WireAfter(wire, Other(e), v),
           wire' \in {WireAfter(wire, Other(e), v), Rest(e), WireAfter(Rest(e), Other(e), v)},
           \A f \in ToSet(v) : f.kind \notin Relayed \/ f \in {Message(id) : id \in Ids},
           \A f \in Ends : acks'[f] \in {acks[f], <<>>} /\ confirms'[f] \in {confirms[f], <<>>}
    PROVE  Custody'
<1>1. ASSUME NEW f \in Ends
      PROVE  /\ Acked(wire'[f], acks'[f]) \subseteq Acked(wire[f], acks[f])
             /\ Confirmed(wire'[f], confirms'[f]) \subseteq Confirmed(wire[f], confirms[f])
  <2>1. ToSet(wire'[f]) \subseteq ToSet(wire[f]) \cup ToSet(v)
    BY OnStreams
  <2>2. \A id \in Ids : Ack(id) \notin ToSet(v) /\ Confirm(id) \notin ToSet(v)
    BY FramesDiffer
  <2>3. ToSet(acks'[f]) \subseteq ToSet(acks[f]) /\ ToSet(confirms'[f]) \subseteq ToSet(confirms[f])
    BY Greeters
  <2> QED BY <2>1, <2>2, <2>3 DEF Acked, Confirmed
<1> QED BY <1>1, Quiet

LEMMA StreamCustody ==
    ASSUME LinkTypeOK, Custody, NEW e \in Ends,
           StartHandshake(e) \/ HelixResume(e) \/ Dispatch(e)
    PROVE  Custody'
<1> DEFINE o == Other(e)
<1>1. /\ HandshakeFrames \in Seq(Frames) /\ HandshakeFrames \o <<Resync>> \in Seq(Frames)
      /\ <<Pong>> \in Seq(Frames) /\ <<>> \in Seq(Frames)
  BY Greetings, FrameKinds
<1>2. CASE StartHandshake(e)
  BY <1>1, <1>2, Greeters, NothingNew DEF StartHandshake, bounds
<1>3. CASE HelixResume(e)
  <2>1. \A f \in Ends : acks'[f] \in {acks[f], <<>>} /\ confirms'[f] \in {confirms[f], <<>>}
    BY <1>3 DEF HelixResume, LinkTypeOK
  <2> QED BY <1>1, <1>3, <2>1, Greeters, NothingNew DEF HelixResume
<1>4. CASE RecvHandshake(e) \/ RecvResync(e)
  <2>1. wire' \in {Rest(e), WireAfter(Rest(e), o, HandshakeFrames)} /\ wire[e] # <<>>
    BY <1>4 DEF RecvHandshake, RecvResync, Arrives
  <2>2. UNCHANGED <<daemon, events>> /\ acks' = acks /\ confirms' = confirms
    BY <1>4 DEF RecvHandshake, RecvResync, bounds
  <2> QED BY <1>1, <2>1, <2>2, Greeters, NothingNew
<1>5. CASE RecvPing(e) \/ RecvPong(e)
  <2>1. wire' \in {Rest(e), WireAfter(Rest(e), o, <<Pong>>)} /\ wire[e] # <<>>
    BY <1>5 DEF RecvPing, RecvPong, Arrives
  <2>2. UNCHANGED <<daemon, events>> /\ acks' = acks /\ confirms' = confirms
    BY <1>5 DEF RecvPing, RecvPong, bounds
  <2> QED BY <1>1, <2>1, <2>2, Greeters, NothingNew
<1>6. CASE CloseEnd(e) /\ UNCHANGED bounds
  BY <1>6, CloseCustody DEF bounds
<1>7. CASE RecvMessageV2(e) /\ ~CloseEnd(e)
  <2>1. wire' = Rest(e) /\ wire[e] # <<>>
    BY <1>7 DEF RecvMessageV2, Arrives
  <2>2. UNCHANGED <<daemon, events>> /\ acks' = acks /\ confirms' = confirms
    BY <1>7 DEF RecvMessageV2, bounds
  <2> QED BY <1>1, <2>1, <2>2, Greeters, NothingNew
<1>8. CASE RecvMessageV2Ack(e) /\ ~CloseEnd(e)
  <2> DEFINE h == Head(wire[e])
  <2>1. wire' = Rest(e) /\ wire[e] # <<>> /\ h.kind \in {"ack", "confirm"}
    BY <1>8 DEF RecvMessageV2Ack, Arrives
  <2>2. h \in ToSet(wire[e]) /\ h \in Frames /\ (h.kind = "ack" => h = Ack(h.id)) /\ (h.kind = "confirm" => h = Confirm(h.id))
    <3>1. wire[e] \in Seq(Frames)
      BY DEF LinkTypeOK
    <3>2. h \in Frames /\ h \in ToSet(wire[e])
      BY <2>1, <3>1, Contents, FrameKinds
    <3> QED BY <3>2, FrameKinds
  <2>3. \A f \in Ends : ToSet(wire'[f]) \subseteq ToSet(wire[f])
    BY <1>1, <2>1, OnStreams, Greeters
  <2>4. \A q \in Seq(Ids) : ToSet(Queued(q, h.id)) \subseteq ToSet(q) \cup {h.id}
    <3>1. h.id \in Ids
      BY <2>1, <2>2, FrameKinds DEF Relayed
    <3> QED BY <3>1, Contents DEF Queued
  <2>5. ASSUME NEW f \in Ends
        PROVE  /\ Acked(wire'[f], acks'[f]) \subseteq Acked(wire[f], acks[f])
               /\ Confirmed(wire'[f], confirms'[f]) \subseteq Confirmed(wire[f], confirms[f])
    <3>1. acks[f] \in Seq(Ids) /\ confirms[f] \in Seq(Ids)
      BY DEF LinkTypeOK
    <3>2. \/ acks'[f] = acks[f]
          \/ f = e /\ h.kind = "ack" /\ acks'[f] = Queued(acks[f], h.id)
      BY <1>8 DEF RecvMessageV2Ack, LinkTypeOK
    <3>3. \/ confirms'[f] = confirms[f]
          \/ f = e /\ h.kind = "confirm" /\ confirms'[f] = Queued(confirms[f], h.id)
      BY <1>8 DEF RecvMessageV2Ack, LinkTypeOK
    <3>4. Acked(wire'[f], acks'[f]) \subseteq Acked(wire[f], acks[f])
      BY <2>2, <2>3, <2>4, <3>1, <3>2 DEF Acked
    <3>5. Confirmed(wire'[f], confirms'[f]) \subseteq Confirmed(wire[f], confirms[f])
      BY <2>2, <2>3, <2>4, <3>1, <3>3 DEF Confirmed
    <3> QED BY <3>4, <3>5
  <2>6. UNCHANGED <<daemon, events>>
    BY <1>8 DEF RecvMessageV2Ack, bounds
  <2> QED BY <2>5, <2>6, Quiet
<1> QED BY <1>2, <1>3, <1>4, <1>5, <1>6, <1>7, <1>8 DEF Dispatch, RecvMessageV2, RecvMessageV2Ack

LEMMA AcceptCustody ==
    ASSUME LinkTypeOK, Custody, NEW e \in Ends, TakeInbound(e)
    PROVE  Custody'
<1>1. /\ UNCHANGED <<wire, acks, confirms, owed, events>>
      /\ accepted' = [accepted EXCEPT ![e] = @ \cup ToSet(inbound[e])]
      /\ receipts' = [receipts EXCEPT ![e] = @ \cup ToSet(inbound[e])]
      /\ accepted \in [Ends -> SUBSET Ids] /\ receipts \in [Ends -> SUBSET Ids]
  BY DEF TakeInbound, bounds, LinkTypeOK
<1>2. \A f \in Ends : accepted[f] \subseteq accepted'[f] /\ Other(f) \in Ends
  BY <1>1, Pair
<1>3. AcksAreTrue' /\ ConfirmsAreTrue'
  BY <1>1, <1>2 DEF Custody, AcksAreTrue, ConfirmsAreTrue
<1>4. ReceiptsAreTrue'
  BY <1>1 DEF Custody, ReceiptsAreTrue
<1>5. ReceiptWhileOwed'
  BY <1>1, <1>2 DEF Custody, ReceiptWhileOwed
<1>6. DroppedIsAccepted'
  BY <1>1, <1>2 DEF Custody, DroppedIsAccepted
<1> QED BY <1>3, <1>4, <1>5, <1>6 DEF Custody

\* A receipt goes when its event is no longer owed.
LEMMA SettleCustody ==
    ASSUME LinkTypeOK, Custody, NEW e \in Ends, TakeConfirms(e)
    PROVE  Custody'
<1>1. /\ UNCHANGED <<wire, acks, owed, accepted, events>>
      /\ confirms' = [confirms EXCEPT ![e] = <<>>]
      /\ receipts' = [receipts EXCEPT ![e] = @ \ ToSet(confirms[e])]
      /\ confirms \in [Ends -> Seq(Ids)] /\ receipts \in [Ends -> SUBSET Ids]
  BY DEF TakeConfirms, bounds, LinkTypeOK
<1>2. \A f \in Ends : confirms'[f] \in {confirms[f], <<>>}
  BY <1>1
<1>3. \A f \in Ends : Confirmed(wire[f], confirms'[f]) \subseteq Confirmed(wire[f], confirms[f])
  BY <1>2, Greeters DEF Confirmed
<1>4. ToSet(confirms[e]) \subseteq Confirmed(wire[e], confirms[e])
  BY <1>1, Contents DEF Confirmed, ToSet
<1>5. AcksAreTrue' /\ ConfirmsAreTrue' /\ DroppedIsAccepted' /\ ReceiptsAreTrue'
  BY <1>1, <1>3 DEF Custody, AcksAreTrue, ConfirmsAreTrue, DroppedIsAccepted, ReceiptsAreTrue
<1>6. ReceiptWhileOwed'
  <2> SUFFICES ASSUME NEW f \in Ends, NEW id \in owed[f] \cap accepted[Other(f)]
               PROVE  id \in receipts'[Other(f)]
    BY <1>1 DEF ReceiptWhileOwed
  <2>1. id \in receipts[Other(f)] /\ Other(f) \in Ends
    BY Pair DEF Custody, ReceiptWhileOwed
  <2>2. Other(f) = e => id \notin ToSet(confirms[e])
    BY <1>4, Pair DEF Custody, ConfirmsAreTrue
  <2> QED BY <1>1, <2>1, <2>2
<1> QED BY <1>5, <1>6 DEF Custody

\* What is dropped was acknowledged, hence accepted, and its confirmation true.
LEMMA DropCustody ==
    ASSUME LinkTypeOK, Custody, NEW e \in Ends, TakeAcks(e)
    PROVE  Custody'
<1> DEFINE o == Other(e)
           v == IF Ready(peer[e]) THEN [k \in DOMAIN acks[e] |-> Confirm(acks[e][k])] ELSE <<>>
<1>1. /\ UNCHANGED <<confirms, accepted, receipts, events>>
      /\ acks' = [acks EXCEPT ![e] = <<>>]
      /\ owed' = [owed EXCEPT ![e] = @ \ ToSet(acks[e])]
      /\ wire' = WireAfter(wire, o, v)
      /\ acks \in [Ends -> Seq(Ids)] /\ owed \in [Ends -> SUBSET Ids]
  BY DEF TakeAcks, Sends, bounds, LinkTypeOK
<1>2. /\ v \in Seq(Frames)
      /\ \A f \in ToSet(v) : \E id \in ToSet(acks[e]) : f = Confirm(id)
  <2>1. acks[e] \in Seq(Ids) /\ DOMAIN acks[e] = 1..Len(acks[e]) /\ Len(acks[e]) \in Nat
    BY <1>1
  <2>2. \A k \in DOMAIN acks[e] : Confirm(acks[e][k]) \in Frames
    BY <2>1, FrameKinds
  <2>3. CASE ~Ready(peer[e])
    BY <2>3, Greeters
  <2>4. CASE Ready(peer[e])
    <3>1. v = [k \in DOMAIN acks[e] |-> Confirm(acks[e][k])] /\ v \in Seq(Frames)
      BY <2>1, <2>2, <2>4
    <3>2. \A k \in DOMAIN v : v[k] = Confirm(acks[e][k]) /\ acks[e][k] \in ToSet(acks[e])
      BY <3>1 DEF ToSet
    <3> HIDE DEF v
    <3> QED BY <3>1, <3>2 DEF ToSet
  <2> QED BY <2>3, <2>4
<1>3. ToSet(acks[e]) \subseteq accepted[o] /\ ToSet(acks[e]) \subseteq Ids
  <2>1. ToSet(acks[e]) \subseteq Ids
    BY <1>1, Contents DEF ToSet
  <2> QED BY <2>1 DEF Custody, AcksAreTrue, Acked
<1>4. \A f \in Ends : owed'[f] \subseteq owed[f]
  BY <1>1
<1> HIDE DEF v
<1>5. \A f \in Ends : ToSet(wire'[f]) \subseteq ToSet(wire[f]) \cup (IF f = e THEN {} ELSE ToSet(v))
  BY <1>1, <1>2, OnStreams
<1>6. AcksAreTrue'
  <2> SUFFICES ASSUME NEW f \in Ends
               PROVE  Acked(wire'[f], acks'[f]) \subseteq accepted[Other(f)]
    BY <1>1 DEF AcksAreTrue
  <2>1. acks'[f] \in {acks[f], <<>>}
    BY <1>1
  <2>2. \A id \in Ids : Ack(id) \in ToSet(wire'[f]) => Ack(id) \in ToSet(wire[f])
    BY <1>2, <1>5, FramesDiffer
  <2>3. Acked(wire'[f], acks'[f]) \subseteq Acked(wire[f], acks[f])
    BY <2>1, <2>2, Greeters DEF Acked
  <2> QED BY <2>3 DEF Custody, AcksAreTrue
<1>7. ConfirmsAreTrue'
  <2> SUFFICES ASSUME NEW f \in Ends, NEW id \in Confirmed(wire'[f], confirms[f]), id \in owed'[Other(f)]
               PROVE  FALSE
    BY <1>1 DEF ConfirmsAreTrue
  <2>1. id \in Ids /\ Other(f) \in Ends /\ id \in owed[Other(f)]
    BY <1>4, Pair DEF Confirmed
  <2>2. id \notin Confirmed(wire[f], confirms[f])
    BY <2>1 DEF Custody, ConfirmsAreTrue
  <2>3. f # e /\ Confirm(id) \in ToSet(v)
    BY <1>5, <2>1, <2>2 DEF Confirmed
  <2>4. id \in ToSet(acks[e]) /\ Other(f) = e
    BY <1>2, <2>3, FramesDiffer, Pair
  <2> QED BY <1>1, <2>1, <2>4
<1>8. ReceiptsAreTrue' /\ ReceiptWhileOwed'
  BY <1>1, <1>4 DEF Custody, ReceiptsAreTrue, ReceiptWhileOwed
<1>9. DroppedIsAccepted'
  <2> SUFFICES ASSUME NEW f \in Ends, NEW id \in events, AuthorOf[id] = f, id \notin owed'[f]
               PROVE  id \in accepted[Other(f)]
    BY <1>1 DEF DroppedIsAccepted
  <2>1. CASE id \notin owed[f]
    BY <2>1 DEF Custody, DroppedIsAccepted
  <2>2. CASE id \in owed[f]
    BY <1>1, <1>3, <2>2
  <2> QED BY <2>1, <2>2
<1> QED BY <1>6, <1>7, <1>8, <1>9 DEF Custody

LEMMA SendCustody ==
    ASSUME LinkTypeOK, Custody, NEW e \in Ends, NEW id \in Ids, Offer(e, id) \/ RepeatAck(e, id)
    PROVE  Custody'
<1>1. <<Message(id)>> \in Seq(Frames) /\ <<Ack(id)>> \in Seq(Frames)
  BY FrameKinds
<1>2. CASE Offer(e, id)
  <2>1. wire' = WireAfter(wire, Other(e), <<Message(id)>>)
    BY <1>2 DEF Offer, Sends
  <2>2. UNCHANGED <<daemon, events>> /\ acks' = acks /\ confirms' = confirms
    BY <1>2 DEF Offer, bounds
  <2>3. \A f \in ToSet(<<Message(id)>>) : f \in {Message(i) : i \in Ids}
    BY Greeters
  <2> QED BY <1>1, <2>1, <2>2, <2>3, NothingNew
<1>3. CASE RepeatAck(e, id)
  <2>1. wire' = WireAfter(wire, Other(e), <<Ack(id)>>) /\ id \in receipts[e]
    BY <1>3 DEF RepeatAck, Sends
  <2>2. /\ UNCHANGED <<acks, confirms>>
        /\ owed' = owed /\ accepted' = accepted /\ receipts' = receipts /\ events' = events
    BY <1>3 DEF RepeatAck, daemon, bounds
  <2>3. \A f \in Ends : ToSet(wire'[f]) \subseteq ToSet(wire[f]) \cup (IF f = e THEN {} ELSE {Ack(id)})
    BY <1>1, <2>1, OnStreams, Greeters
  <2>4. AcksAreTrue'
    <3> SUFFICES ASSUME NEW f \in Ends, NEW i \in Acked(wire'[f], acks[f])
                 PROVE  i \in accepted[Other(f)]
      BY <2>2 DEF AcksAreTrue
    <3>1. i \in Acked(wire[f], acks[f]) \/ (f # e /\ i = id)
      BY <2>3, FramesDiffer DEF Acked
    <3>2. CASE f # e /\ i = id
      BY <2>1, <3>2, Pair DEF Custody, ReceiptsAreTrue
    <3> QED BY <3>1, <3>2 DEF Custody, AcksAreTrue
  <2>5. ConfirmsAreTrue'
    <3>1. \A f \in Ends : Confirmed(wire'[f], confirms[f]) \subseteq Confirmed(wire[f], confirms[f])
      BY <2>3, FramesDiffer DEF Confirmed
    <3> QED BY <2>2, <3>1 DEF Custody, ConfirmsAreTrue
  <2>6. ReceiptsAreTrue' /\ ReceiptWhileOwed' /\ DroppedIsAccepted'
    BY <2>2 DEF Custody, ReceiptsAreTrue, ReceiptWhileOwed, DroppedIsAccepted
  <2> QED BY <2>4, <2>5, <2>6 DEF Custody
<1> QED BY <1>2, <1>3

LEMMA CustodyStep == LinkTypeOK /\ Custody /\ [Next]_vars => Custody'
<1> SUFFICES ASSUME LinkTypeOK, Custody, [Next]_vars PROVE Custody'
  OBVIOUS
<1>1. CASE Reconnect
  <2>1. \A f \in Ends : wire'[f] = <<>>
    BY <1>1 DEF Reconnect
  <2>2. \A f \in Ends : /\ Acked(wire'[f], acks[f]) \subseteq Acked(wire[f], acks[f])
                       /\ Confirmed(wire'[f], confirms[f]) \subseteq Confirmed(wire[f], confirms[f])
    BY <2>1, Greeters DEF Acked, Confirmed
  <2> QED BY <1>1, <2>2, Quiet DEF Reconnect, bounds
<1>2. CASE \E e \in Ends : Break(e) \/ EndOfStream(e)
  BY <1>2, CloseCustody DEF Break, EndOfStream, bounds
<1>3. CASE UNCHANGED vars
  <2>1. /\ UNCHANGED <<daemon, events>>
        /\ wire' = wire /\ acks' = acks /\ confirms' = confirms
    BY <1>3 DEF vars, bounds, daemon
  <2> QED BY <2>1, Quiet
<1> QED BY <1>1, <1>2, <1>3, StreamCustody, AcceptCustody, SettleCustody, DropCustody, SendCustody DEF Next

-----------------------------------------------------------------------------
(* The theorems. *)

LinkInv == LinkTypeOK /\ Negotiated /\ Custody

\* S2sPeer keeps both ends of a link consistent through handshakes, losses,
\* queues that overflow and hot upgrades (dispatch, take*, resumeEstablished).
THEOREM LinkInvariant == Spec => []LinkInv
<1>1. Init => LinkInv
  BY LinkInit, NegotiatedInit, CustodyInit DEF LinkInv
<1>2. LinkInv /\ [Next]_vars => LinkInv'
  BY LinkTypes, NegotiatedStep, CustodyStep DEF LinkInv
<1> QED BY <1>1, <1>2, PTL DEF Spec

\* The type invariant, with the bounds of the three queues.
THEOREM LinkTypesHold == Spec => []TypeOK
<1>1. LinkInv => TypeOK
  BY DEF LinkInv, LinkTypeOK, TypeOK, Peers, Fresh
<1> QED BY <1>1, LinkInvariant, PTL

\* recvMessageV2 and recvMessageV2Ack: a frame of MESSAGE_V2 that is next on a
\* stream meets an end that has negotiated it.
THEOREM UsedWhenNegotiated == Spec => []NegotiatedBeforeUse
<1>1. LinkInv => NegotiatedBeforeUse
  BY ReadyAtHead DEF LinkInv
<1> QED BY <1>1, LinkInvariant, PTL

\* takeInboundV2Acks: an event is dropped only after the other end accepted it.
THEOREM NothingIsDropped == Spec => []DroppedIsAccepted
<1>1. LinkInv => DroppedIsAccepted
  BY DEF LinkInv, Custody
<1> QED BY <1>1, LinkInvariant, PTL

\* takeInboundV2AckConfirms: an acknowledgement is repeated while it is needed.
THEOREM ReceiptsLast == Spec => []ReceiptWhileOwed
<1>1. LinkInv => ReceiptWhileOwed
  BY DEF LinkInv, Custody
<1> QED BY <1>1, LinkInvariant, PTL

=============================================================================
