----------------------------- MODULE IrcSession -----------------------------
(***************************************************************************)
(* The server's end of one client connection, as far as the announce bot   *)
(* meets it: capability negotiation (CapSession of daemon/dispatch.zig),   *)
(* nick and user, SASL, the welcome, one channel and its topic.  The       *)
(* answer to a nick that is in use, the channel and the end of a           *)
(* connection belong to a part of the daemon that is not in the tree and   *)
(* are taken from what the bot expects of them.                            *)
(*                                                                         *)
(* Pure operators: a session is a record, a line takes it to the next one  *)
(* and to the lines that are answered.                                     *)
(***************************************************************************)
EXTENDS Naturals, Sequences, FiniteSets

\* A topic is a sequence of segments; the channel may have none yet.
NoTopic == <<>>

\* A nick is the number of underscores behind the configured one.
NoNick == 100

\* The capabilities that matter here; "sts" stands for the others.
CapNames == {"server-time", "message-tags", "account-tag", "echo-message", "sasl", "sts"}

NewSession(topic) ==
    [nick |-> NoNick, user |-> FALSE, cap |-> "idle", negotiated |-> {},
     sasl |-> "none", registered |-> FALSE, inChannel |-> FALSE,
     topic |-> topic, topicLost |-> FALSE, early |-> FALSE]

SessionType(topics) ==
    [nick : Nat, user : BOOLEAN, cap : {"idle", "negotiating", "complete"},
     negotiated : SUBSET CapNames, sasl : {"none", "authenticating", "succeeded"},
     registered : BOOLEAN, inChannel : BOOLEAN,
     topic : topics, topicLost : BOOLEAN, early : BOOLEAN]

\* Messages to the client.
Numeric(code)     == [k |-> "numeric", code |-> code]
CapLs(caps, more) == [k |-> "LS", caps |-> caps, more |-> more]
CapAck(caps)      == [k |-> "ACK", caps |-> caps]
CapNak            == [k |-> "NAK"]
Authenticate      == [k |-> "AUTHENTICATE"]

To(s, out) == [session |-> s, out |-> out]

\* conf is how the server behaves: the lines of its CAP LS, each with the flag that
\* more follow; whether it grants what is requested; whether the SASL
\* account is accepted.
CapCommand(conf, s, line) ==
    CASE line.k = "CAP LS"  -> To([s EXCEPT !.cap = "negotiating"], conf.ls)
      [] line.k = "CAP REQ" ->
            IF conf.grants
            THEN To([s EXCEPT !.cap = "negotiating", !.negotiated = @ \cup line.caps],
                    <<CapAck(line.caps)>>)
            ELSE To([s EXCEPT !.cap = "negotiating"], <<CapNak>>)
      [] line.k = "CAP END" -> To([s EXCEPT !.cap = "complete"], <<>>)

SaslCommand(conf, s) ==
    CASE s.registered \/ s.sasl = "succeeded" -> To(s, <<Numeric("907")>>)
      [] "sasl" \notin s.negotiated           -> To(s, <<Numeric("904")>>)
      [] s.sasl = "none"                      -> To([s EXCEPT !.sasl = "authenticating"], <<Authenticate>>)
      [] conf.accepts                         -> To([s EXCEPT !.sasl = "succeeded"], <<Numeric("903")>>)
      [] OTHER                                -> To([s EXCEPT !.sasl = "none"], <<Numeric("904")>>)

\* taken: the nicks of the other clients.
NickCommand(taken, s, nick) ==
    IF nick \in taken THEN To(s, <<Numeric("433")>>) ELSE To([s EXCEPT !.nick = nick], <<>>)

\* What needs a registered client and, unless it is a reply to one user, a
\* member of the channel.
ChannelCommand(s, line) ==
    IF ~s.registered THEN To([s EXCEPT !.early = TRUE], <<Numeric("451")>>)
    ELSE CASE line.k = "JOIN"  -> To([s EXCEPT !.inChannel = TRUE], <<>>)
           [] line.k = "REPLY" -> To(s, <<>>)
           [] line.k \in {"TOPIC", "PRIVMSG"} /\ ~s.inChannel ->
                To([s EXCEPT !.topicLost = @ \/ line.k = "TOPIC"], <<Numeric("442")>>)
           [] line.k = "TOPIC" /\ s.inChannel ->
                To([s EXCEPT !.topic = line.topic, !.topicLost = FALSE], <<>>)
           [] OTHER -> To(s, <<>>)

\* maybeCompleteRegistration runs after every command of a client that was
\* not registered when the command came.
Welcomed(before, r) ==
    IF /\ ~before.registered /\ r.session.nick # NoNick /\ r.session.user
       /\ r.session.cap # "negotiating"
    THEN To([r.session EXCEPT !.registered = TRUE], r.out \o <<Numeric("001"), Numeric("376")>>)
    ELSE r

Command(conf, taken, s, line) ==
    CASE line.k \in {"CAP LS", "CAP REQ", "CAP END"} -> CapCommand(conf, s, line)
      [] line.k = "AUTHENTICATE" -> SaslCommand(conf, s)
      [] line.k = "NICK"         -> NickCommand(taken, s, line.nick)
      [] line.k = "USER"         -> To([s EXCEPT !.user = TRUE], <<>>)
      [] line.k = "PING"         -> To(s, <<[k |-> "PONG"]>>)
      [] line.k = "PONG"         -> To(s, <<>>)
      [] line.k \in {"JOIN", "TOPIC", "PRIVMSG", "REPLY"} -> ChannelCommand(s, line)

\* What one line may come to: a set with one result, for conf says how the
\* server decides.
Dispatch(conf, taken, s, line) == {Welcomed(s, r) : r \in {Command(conf, taken, s, line)}}

=============================================================================
