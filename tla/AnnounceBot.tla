---------------------------- MODULE AnnounceBot ----------------------------
(***************************************************************************)
(* The announce bot, tools/announce_bot.py: one thread that registers on   *)
(* the IRC network, keeps the link alive, answers commands and tells the   *)
(* channel of every commit to the watched repositories, next to the worker *)
(* of its build inventory (InventoryCache) and to a server (IrcSession).   *)
(*                                                                         *)
(* Between two iterations of Bot.loop the thread is at "loop"; handling    *)
(* one received line, sending one queued line or firing one timer is a     *)
(* step from there.  poll_project and set_topic read the repositories and  *)
(* the cache several times, so they are several steps, between which       *)
(* people commit, the worker runs and the link breaks.                     *)
(*                                                                         *)
(* What the bot sends is served at once, for the two directions of a TCP   *)
(* stream are in order and the server answers nothing unasked that could   *)
(* overtake; what the server sends waits in net.inp.  On a link that is    *)
(* gone, what the bot sends disappears (send_raw logs and goes on).        *)
(***************************************************************************)
EXTENDS InventoryCache, IrcSession

CONSTANTS Servers,      \* the behaviours a server may have
          SASL_USER,    \* whether a SASL account is configured
          WANT_CAPS,    \* capabilities the bot asks for when offered
          Burst,        \* commits of one poll that get a card of their own
          Quiet,        \* whether a server may say nothing for minutes
          LinkFaults,   \* how a link may end: "eof", "dead"
          Asks          \* what users may ask: see HandleCommand

ASSUME BotAssumption ==
    /\ Burst \in Nat \ {0} /\ Quiet \in BOOLEAN /\ SASL_USER \in BOOLEAN
    /\ LinkFaults \subseteq {"eof", "dead"}
    /\ Asks \subseteq {"announce", "reply", "topic", "raw"}
    /\ WANT_CAPS \subseteq CapNames \ {"sasl", "sts"}
    /\ Servers \subseteq [ls : Seq([k : {"LS"}, caps : SUBSET CapNames, more : BOOLEAN]),
                         grants : BOOLEAN, accepts : BOOLEAN, squatted : SUBSET Nat]
    /\ Mishaps \subseteq {"command", "break", "refusal", "slow", "kick", "ask", "heartbeat"}

VARIABLES pc,          \* where the thread is, with the locals of that place
          net,         \* the link: its state, what arrives, the server's end
          conf,        \* how this server behaves
          taken,       \* nicks of the other clients
          session,     \* fields of Bot that connect resets, and loop's joined
          outq,        \* Bot.outq
          lastCommit, introDone,
          lastTests,   \* the count on the last card that had one
          backoff,     \* seconds before the next attempt to connect
          clock,       \* minutes since something came and since a probe; has polled
          handed,      \* commits whose card was handed to announce, in order
          summarized,  \* commits that were only counted, in a notice handed to the queue
          unlisted     \* commits that were passed over because git failed to list them

memory   == <<lastCommit, lastTests, handed, summarized, unlisted>>
linkVars == <<net, session, outq, introDone, backoff, clock>>
world    == <<conf, taken>>
vars     == <<inventoryVars, memory, linkVars, world, pc>>

TICK == 60                      \* seconds of one step of the clock
RECONNECT_MIN == 6
RECONNECT_MAX == 300
KEEPALIVE_IDLE == 90            \* silence before a probe
KEEPALIVE_GAP  == 60            \* between two probes
READ_TIMEOUT   == 240           \* silence before the link is left

Least(a, b) == IF a < b THEN a ELSE b
N == Len(PROJECTS)

-----------------------------------------------------------------------------
\* Lines of the bot.

Line(kind)      == [k |-> kind]
Topic(segments) == [k |-> "TOPIC", topic |-> segments]
ForeignTopic    == [k |-> "TOPIC", topic |-> NoTopic]

\* send_raw, on the link n.  Nobody but the bot may set the topic of a protected
\* channel through it; the server answers every other line.
Blocked(line) == line = ForeignTopic
Served(s, line) == IF Blocked(line) THEN {To(s, <<>>)} ELSE Dispatch(conf, taken, s, line)

\* Lines in a row: what the server has become and has answered.
OneMore(results, line) ==
    UNION {{To(d.session, r.out \o d.out) : d \in Served(r.session, line)} : r \in results}

Replies(s, lines) ==
    LET after[i \in 0..Len(lines)] ==
            IF i = 0 THEN {To(s, <<>>)} ELSE OneMore(after[i - 1], lines[i])
    IN after[Len(lines)]

SendRaw(n, lines) ==
    IF n.link # "up" THEN net' = n
    ELSE \E r \in Replies(n.session, lines) :
            net' = [n EXCEPT !.session = r.session, !.inp = @ \o r.out]

\* Several lines to the channel: the first goes at once, the others are paced.
Announce(n, lines) ==
    /\ SendRaw(n, <<Head(lines)>>)
    /\ outq' = outq \o Tail(lines)

\* What is announced of a commit and of a build, their many lines as two.
CommitLines == <<Line("PRIVMSG"), Line("PRIVMSG")>>
StatsLines  == <<Line("PRIVMSG"), Line("PRIVMSG")>>

At(place) == pc.at = place
Loop      == [at |-> "loop", i |-> 0, t |-> 0, segs |-> <<>>, head |-> Failed,
              counts |-> Pending, cards |-> <<>>]

\* set_topic begins; afterwards project i is polled, or all is topped by one
\* more set_topic when i is past the last, or the loop goes on when i is 0.
SetTopic(i) == [Loop EXCEPT !.at = "topic item", !.i = i, !.t = 1]
Poll(i)     == IF i \in 1..N THEN [Loop EXCEPT !.at = "poll", !.i = i] ELSE SetTopic(0)

-----------------------------------------------------------------------------
\* Connecting.

FreshSession == [nick |-> 0, joined |-> FALSE, registered |-> FALSE, capEnded |-> FALSE,
                 capLs |-> {}, lastTopic |-> NoTopic]

\* Slip: what was queued for the last connection is said on the next.
ResetUnflushed == session' = FreshSession /\ UNCHANGED outq

\* Slip: the topic told to the last connection counts as told.
ResetSameTopic == session' = [FreshSession EXCEPT !.lastTopic = session.lastTopic] /\ outq' = <<>>

\* connect: the state is reset before the socket is opened.
Reset == session' = FreshSession /\ outq' = <<>>

Connect ==
    /\ At("backoff")
    /\ Reset
    /\ SendRaw([link |-> "up", inp |-> <<>>, session |-> NewSession(net.session.topic)],
               <<Line("CAP LS"), [k |-> "NICK", nick |-> 0], Line("USER")>>)
    /\ backoff' = RECONNECT_MIN
    /\ clock' = [silence |-> 0, probe |-> 0, polled |-> FALSE]
    /\ pc' = Loop
    /\ UNCHANGED <<inventoryVars, memory, introDone, world>>

\* run sleeps and doubles the wait after every failure.
Slept == backoff' = Least(backoff * 2, RECONNECT_MAX)

ConnectFails ==
    /\ At("backoff") /\ Mishap("refusal")
    /\ Reset
    /\ Slept
    /\ UNCHANGED <<repoVars, cacheVars, pc, net, world, memory, introDone, clock>>

\* loop raises.
Leave ==
    /\ net' = [link |-> "none", inp |-> <<>>, session |-> NewSession(net.session.topic)]
    /\ pc' = [Loop EXCEPT !.at = "backoff"]
    /\ Slept
    /\ UNCHANGED <<inventoryVars, memory, session, outq, introDone, clock, world>>

Eof == At("loop") /\ net.link = "eof" /\ net.inp = <<>> /\ Leave

-----------------------------------------------------------------------------
\* Receiving.  A step takes the first line that arrived, m, and answers it.

Received == [net EXCEPT !.inp = Tail(@)]
Heard    == clock' = [clock EXCEPT !.silence = 0]
Answer(lines) == SendRaw(Received, lines) /\ Heard
Elsewhere == UNCHANGED <<inventoryVars, memory, backoff, world>>

\* cap_end says CAP END once.
CapEnd == IF session.capEnded THEN <<>> ELSE <<Line("CAP END")>>
Ended  == [session EXCEPT !.capEnded = TRUE]

HandleCapLs(m) ==
    /\ m.k = "LS"
    /\ LET offered == session.capLs \cup m.caps
           want    == (WANT_CAPS \cap offered)
                        \cup (IF SASL_USER THEN {"sasl"} \cap offered ELSE {}) IN
       CASE m.more   -> Answer(<<>>) /\ session' = [session EXCEPT !.capLs = offered]
         [] ~m.more /\ want # {} ->
                /\ Answer(<<[k |-> "CAP REQ", caps |-> want]>>)
                /\ session' = [session EXCEPT !.capLs = offered]
         [] OTHER    -> Answer(CapEnd) /\ session' = [Ended EXCEPT !.capLs = offered]
    /\ Elsewhere /\ UNCHANGED <<pc, outq, introDone>>

HandleCapAck(m) ==
    /\ m.k = "ACK"
    /\ IF "sasl" \in m.caps /\ SASL_USER
       THEN Answer(<<Line("AUTHENTICATE")>>) /\ UNCHANGED session
       ELSE Answer(CapEnd) /\ session' = Ended
    /\ Elsewhere /\ UNCHANGED <<pc, outq, introDone>>

HandleCapNak(m) ==
    /\ m.k = "NAK"
    /\ Answer(CapEnd) /\ session' = Ended
    /\ Elsewhere /\ UNCHANGED <<pc, outq, introDone>>

HandleAuthenticate(m) ==
    /\ m.k = "AUTHENTICATE"
    /\ Answer(<<Line("AUTHENTICATE")>>)
    /\ Elsewhere /\ UNCHANGED <<pc, session, outq, introDone>>

Is(m, codes) == m.k = "numeric" /\ m.code \in codes

\* Success and failure of SASL alike end the negotiation.
HandleSaslResult(m) ==
    /\ Is(m, {"902", "903", "904", "905", "906", "907"})
    /\ Answer(CapEnd) /\ session' = Ended
    /\ Elsewhere /\ UNCHANGED <<pc, outq, introDone>>

\* Slip: the bot asks for the same nick again.
HandleNickInUseAgain(m) ==
    /\ Is(m, {"433", "436"})
    /\ Answer(<<[k |-> "NICK", nick |-> session.nick]>>)
    /\ Elsewhere /\ UNCHANGED <<pc, session, outq, introDone>>

HandleNickInUse(m) ==
    /\ Is(m, {"433", "436"})
    /\ Answer(<<[k |-> "NICK", nick |-> session.nick + 1]>>)
    /\ session' = [session EXCEPT !.nick = @ + 1]
    /\ Elsewhere /\ UNCHANGED <<pc, outq, introDone>>

\* Welcome or the end of the message of the day: join, once per process say
\* what is watched, and set the topic.
HandleWelcome(m) ==
    /\ Is(m, {"001", "376", "422"}) /\ ~session.joined
    /\ Answer(<<Line("JOIN")>>)
    /\ session' = [session EXCEPT !.registered = TRUE, !.joined = TRUE]
    /\ outq' = IF introDone THEN outq ELSE outq \o [i \in 1..N |-> Line("PRIVMSG")]
    /\ introDone' = TRUE
    /\ pc' = SetTopic(0)
    /\ Elsewhere

\* Rejoin, behind what is queued, when the name is one that begins like ours.
HandleKick(m) ==
    /\ m.k = "KICK"
    /\ Answer(<<>>)
    /\ outq' = IF m.nick >= session.nick THEN Append(outq, Line("JOIN")) ELSE outq
    /\ Elsewhere /\ UNCHANGED <<pc, session, introDone>>

HandlePing(m) ==
    /\ m.k = "PING"
    /\ Answer(<<Line("PONG")>>)
    /\ Elsewhere /\ UNCHANGED <<pc, session, outq, introDone>>

\* Commands and CTCP of users, by what they make the bot send: several lines
\* to the channel, of which the first goes at once; one line to whoever asked
\* (an answer, a refusal, a CTCP notice); a topic for the channel, which is
\* protected (!topic answers so, !raw is blocked in send_raw).
HandleCommand(m) ==
    /\ m.k = "COMMAND"
    /\ CASE m.ask = "announce" -> Announce(Received, StatsLines) /\ Heard
         [] m.ask \in {"reply", "topic"} -> Answer(<<>>) /\ outq' = Append(outq, Line("REPLY"))
         [] m.ask = "raw"      -> Answer(<<ForeignTopic>>) /\ UNCHANGED outq
    /\ Elsewhere /\ UNCHANGED <<pc, session, introDone>>

\* Everything else falls through handle.
HandleOther(m) ==
    /\ \/ m.k = "PONG"
       \/ Is(m, {"442", "451"})
       \/ Is(m, {"001", "376", "422"}) /\ session.joined
    /\ Answer(<<>>)
    /\ Elsewhere /\ UNCHANGED <<pc, session, outq, introDone>>

Handle ==
    /\ At("loop") /\ net.inp # <<>>
    /\ LET m == Head(net.inp) IN
       \/ HandleCapLs(m) \/ HandleCapAck(m) \/ HandleCapNak(m)
       \/ HandleAuthenticate(m) \/ HandleSaslResult(m) \/ HandleNickInUse(m)
       \/ HandleWelcome(m) \/ HandleKick(m) \/ HandlePing(m)
       \/ HandleCommand(m) \/ HandleOther(m)

-----------------------------------------------------------------------------
\* The rest of an iteration.

PumpOut ==
    /\ At("loop") /\ outq # <<>>
    /\ SendRaw(net, <<Head(outq)>>)
    /\ outq' = Tail(outq)
    /\ UNCHANGED <<inventoryVars, pc, session, memory, introDone, backoff, clock, world>>

\* Slip: the probe waits for as long as the link may be silent.
ProbeLate == clock.silence * TICK > READ_TIMEOUT

\* Slip: a minute more.
SilentLonger == (clock.silence - 1) * TICK > READ_TIMEOUT

\* Time passes while nothing is due and nothing can be received: long enough
\* for the next poll and, on a quiet link, for a minute.
ProbeDue  == clock.silence * TICK > KEEPALIVE_IDLE /\ clock.probe * TICK > KEEPALIVE_GAP
SilentFor == clock.silence * TICK > READ_TIMEOUT
CapDue    == ~session.registered /\ ~session.capEnded

Wait ==
    /\ At("loop") /\ net.link \in {"up", "dead"} /\ net.inp = <<>> /\ outq = <<>>
    /\ ~ProbeDue /\ ~SilentFor /\ ~CapDue
    /\ session.joined => clock.polled
    /\ clock' = IF Quiet
                THEN [silence |-> clock.silence + 1, probe |-> Least(clock.probe + 1, 2), polled |-> FALSE]
                ELSE [clock EXCEPT !.polled = FALSE]
    /\ UNCHANGED <<inventoryVars, pc, net, session, outq, memory, introDone, backoff, world>>

Keepalive ==
    /\ At("loop") /\ ProbeDue /\ ~SilentFor
    /\ clock' = [clock EXCEPT !.probe = 0]
    /\ SendRaw(net, <<Line("PING")>>)
    /\ UNCHANGED <<inventoryVars, pc, session, outq, memory, introDone, backoff, world>>

ReadTimeout == At("loop") /\ SilentFor /\ Leave

\* The safety net of the negotiation, 5 s after connect began.
CapTimeout ==
    /\ At("loop") /\ CapDue
    /\ \/ net.inp = <<>> /\ UNCHANGED mishaps
       \/ Mishap("slow")
    /\ SendRaw(net, CapEnd)
    /\ session' = Ended
    /\ UNCHANGED <<repoVars, cacheVars, pc, world, outq, memory, introDone, backoff, clock>>

\* Statistics of every project, two lines each, then the topic.
Heartbeat ==
    /\ At("loop") /\ session.joined /\ Mishap("heartbeat")
    /\ SendRaw(net, [i \in 1..N |-> StatsLines[1]])
    /\ outq' = outq \o [i \in 1..N |-> StatsLines[2]]
    /\ pc' = SetTopic(0)
    /\ UNCHANGED <<repoVars, cacheVars, world, session, memory, introDone, backoff, clock>>

-----------------------------------------------------------------------------
\* The commit watcher.  poll_project(PROJECTS[pc.i]).

PollStart ==
    /\ At("loop") /\ session.joined /\ ~clock.polled
    /\ clock' = [clock EXCEPT !.polled = TRUE]
    /\ pc' = Poll(1)
    /\ UNCHANGED <<inventoryVars, memory, net, session, outq, introDone, backoff, world>>

Tip(r) == IF r = <<>> THEN 0 ELSE r[Len(r)]

\* git rev-list --reverse prev..cur: the commits of cur behind those that prev
\* has, or the tip when HEAD moved back.
Behind(prev, cur) ==
    CHOOSE n \in 0..Len(cur) :
        /\ \A i \in 1..n : cur[i] \in Range(prev)
        /\ n < Len(cur) => cur[n + 1] \notin Range(prev)

Revs(prev, cur) ==
    LET new == SubSeq(cur, Behind(prev, cur) + 1, Len(cur))
    IN IF new = <<>> THEN <<Tip(cur)>> ELSE new

\* Slip: the burst is cut at the wrong end.
OldestShown(revs) == SubSeq(revs, 1, Least(Burst, Len(revs)))

Shown(revs) == SubSeq(revs, Len(revs) - Least(Burst, Len(revs)) + 1, Len(revs))
Earlier(revs) == SubSeq(revs, 1, Len(revs) - Least(Burst, Len(revs)))

\* Nothing new, or HEAD cannot be read.
PollUnmoved ==
    /\ At("poll")
    /\ \/ repo[PROJECTS[pc.i]] = lastCommit[PROJECTS[pc.i]] /\ UNCHANGED mishaps
       \/ Mishap("command")
    /\ pc' = Poll(pc.i + 1)
    /\ UNCHANGED <<repoVars, cacheVars, memory, linkVars, world>>

\* HEAD has moved: note it and ask for a new inventory.  A list of the new
\* commits that fails looks like a history that diverged.
PollHead ==
    /\ At("poll")
    /\ LET p    == PROJECTS[pc.i]
           prev == lastCommit[p]
           cur  == repo[p] IN
       /\ cur # prev
       /\ lastCommit' = [lastCommit EXCEPT ![p] = cur]
       /\ Request(p)
       /\ \E revs \in {Revs(prev, cur), <<Tip(cur)>>} :
            /\ \/ revs = Revs(prev, cur) /\ UNCHANGED <<mishaps, unlisted>>
               \/ /\ revs # Revs(prev, cur) /\ Mishap("command")
                  /\ unlisted' = [unlisted EXCEPT ![p] = @ \cup (Range(cur) \ (Range(prev) \cup Range(revs)))]
            /\ pc' = [pc EXCEPT !.at = IF p \in queued THEN "item" ELSE "put", !.cards = revs]
    /\ UNCHANGED <<repoVars, items, requests, worker, lastTests, handed, summarized, linkVars, world>>

PollPut ==
    /\ At("put") /\ Put
    /\ pc' = [pc EXCEPT !.at = "item"]
    /\ UNCHANGED <<memory, linkVars, world>>

\* inventory_status takes the snapshot, then compares it with HEAD; test_count
\* takes the snapshot anew.
PollItem ==
    /\ At("item")
    /\ pc' = [pc EXCEPT !.at = "count", !.head = StatusHead(items[PROJECTS[pc.i]])]
    /\ UNCHANGED <<inventoryVars, memory, linkVars, world>>

\* The commits that get no card are counted in one notice.
PollCount ==
    /\ At("count")
    /\ LET p == PROJECTS[pc.i] IN
       /\ \E current \in {repo[p], Failed} :
            /\ Measured(p, current)
            /\ pc' = [pc EXCEPT !.at = "cards", !.head = Failed, !.cards = Shown(pc.cards),
                                !.counts = IF pc.head = current THEN items[p].counts ELSE Pending]
       /\ summarized' = [summarized EXCEPT ![p] = @ \cup Range(Earlier(pc.cards))]
    /\ outq' = IF Earlier(pc.cards) = <<>> THEN outq ELSE Append(outq, Line("PRIVMSG"))
    /\ UNCHANGED <<repoVars, cacheVars, lastCommit, lastTests, handed, unlisted,
                   net, session, introDone, backoff, clock, world>>

\* The count that the next card is compared with: whatever is a number.
TestsDelta(p) == IF pc.counts \in {Pending, Failed} THEN lastTests
                 ELSE [lastTests EXCEPT ![p] = pc.counts]

\* One card is handed to announce: on a link that is gone its headline
\* disappears, and what is paced goes with the queue when the bot connects
\* again.  The last card of a poll shows how the count has changed.
PollCard ==
    /\ At("cards")
    /\ Announce(net, CommitLines)
    /\ LET p    == PROJECTS[pc.i]
           last == Len(pc.cards) = 1 IN
       /\ handed' = [handed EXCEPT ![p] = Append(@, Head(pc.cards))]
       /\ lastTests' = IF last THEN TestsDelta(p) ELSE lastTests
       /\ pc' = IF last THEN SetTopic(pc.i + 1) ELSE [pc EXCEPT !.cards = Tail(@)]
    /\ UNCHANGED <<inventoryVars, lastCommit, summarized, unlisted, session, introDone, backoff, clock, world>>

-----------------------------------------------------------------------------
\* set_topic: one segment per project, of HEAD and the label of its inventory.

TopicItem ==
    /\ At("topic item")
    /\ LET p == PROJECTS[pc.t] IN
       \E head \in {repo[p], Failed} :
          /\ Measured(p, head)
          /\ pc' = [pc EXCEPT !.at = "topic count", !.head = StatusHead(items[p]),
                              !.segs = Append(@, [head |-> head, label |-> Pending])]
    /\ UNCHANGED <<repoVars, cacheVars, memory, linkVars, world>>

\* The label, when git says that HEAD is current.
Segments(current) ==
    IF pc.head = current
    THEN [pc.segs EXCEPT ![pc.t].label = items[PROJECTS[pc.t]].counts] ELSE pc.segs

AfterTopic == IF pc.i = 0 THEN Loop ELSE Poll(pc.i)

\* Nothing is sent when the channel has been told this topic.
SetUnlessSame(topic) ==
    /\ IF topic = session.lastTopic THEN UNCHANGED net ELSE SendRaw(net, <<Topic(topic)>>)
    /\ session' = [session EXCEPT !.lastTopic = topic]

TopicCount ==
    /\ At("topic count")
    /\ \E current \in {repo[PROJECTS[pc.t]], Failed} :
         /\ Measured(PROJECTS[pc.t], current)
         /\ IF pc.t < N
            THEN /\ pc' = [pc EXCEPT !.at = "topic item", !.t = @ + 1,
                                     !.segs = Segments(current), !.head = Failed]
                 /\ UNCHANGED <<net, session>>
            ELSE SetUnlessSame(Segments(current)) /\ pc' = AfterTopic
    /\ UNCHANGED <<repoVars, cacheVars, memory, outq, introDone, backoff, clock, world>>

-----------------------------------------------------------------------------
\* The world.

Arrives(m) == net' = [net EXCEPT !.inp = Append(@, m)]
WorldOnly == UNCHANGED <<repoVars, cacheVars, memory, session, outq, introDone, backoff, clock, conf, pc>>

\* The server closes the link, or it goes dead and the server keeps the old
\* session for a while.  What was under way arrives in part.
Break ==
    /\ net.link = "up" /\ Mishap("break")
    /\ \E kind \in LinkFaults, n \in 0..Len(net.inp) :
          /\ net' = [net EXCEPT !.link = kind, !.inp = SubSeq(@, 1, n)]
          /\ taken' = IF kind = "dead" /\ net.session.nick # NoNick
                      THEN taken \cup {net.session.nick} ELSE taken
    /\ WorldOnly

GhostLeaves ==
    /\ \E n \in taken \ conf.squatted : taken' = taken \ {n}
    /\ WorldOnly /\ UNCHANGED <<net, mishaps>>

\* A client that is not registered in time is closed (registration_timeout_ms,
\* three times the bot's own 5 s).
RegistrationTimeout ==
    /\ net.link = "up" /\ ~net.session.registered /\ session.capEnded
    /\ \A i \in DOMAIN net.inp : net.inp[i].k = "PONG"
    /\ net' = [net EXCEPT !.link = "eof"]
    /\ WorldOnly /\ UNCHANGED <<taken, mishaps>>

Kick ==
    /\ net.link = "up" /\ net.session.inChannel /\ Mishap("kick")
    /\ net' = [net EXCEPT !.inp = Append(@, [k |-> "KICK", nick |-> net.session.nick]),
                          !.session.inChannel = FALSE]
    /\ WorldOnly /\ UNCHANGED taken

ServerPing ==
    /\ clock.silence > 0 /\ net.link = "up" /\ net.session.registered /\ net.inp = <<>>
    /\ Arrives([k |-> "PING"])
    /\ WorldOnly /\ UNCHANGED <<taken, mishaps>>

UserAsks ==
    /\ net.link = "up" /\ net.session.registered /\ Mishap("ask")
    /\ \E a \in Asks : Arrives([k |-> "COMMAND", ask |-> a])
    /\ WorldOnly /\ UNCHANGED taken

-----------------------------------------------------------------------------
Init ==
    /\ InventoryInit
    /\ conf \in Servers /\ taken = conf.squatted
    /\ net = [link |-> "none", inp |-> <<>>, session |-> NewSession(NoTopic)]
    /\ pc = [Loop EXCEPT !.at = "backoff"]
    /\ session = FreshSession /\ outq = <<>>
    /\ lastCommit = repo /\ lastTests = [p \in Keys |-> Pending]
    /\ introDone = FALSE
    /\ backoff = RECONNECT_MIN
    /\ clock = [silence |-> 0, probe |-> 0, polled |-> FALSE]
    /\ handed = [p \in Keys |-> <<>>]
    /\ summarized = [p \in Keys |-> {}]
    /\ unlisted = [p \in Keys |-> {}]

\* The cache's side, while the bot's thread does nothing.
Others == (Repositories \/ Worker) /\ UNCHANGED <<memory, linkVars, world, pc>>

Timers   == Wait \/ Keepalive \/ ReadTimeout \/ CapTimeout
PollStep == PollUnmoved \/ PollHead \/ PollPut \/ PollItem \/ PollCount \/ PollCard \/ TopicItem \/ TopicCount
Thread   == PollStep \/ PollStart \/ PumpOut \/ Handle \/ Timers \/ Eof \/ Connect
World    == Break \/ GhostLeaves \/ RegistrationTimeout \/ Kick \/ ServerPing \/ UserAsks

Next == Thread \/ ConnectFails \/ Heartbeat \/ World \/ Others

Spec == Init /\ [][Next]_vars

\* The thread never stops, and neither does the worker; the server closes a
\* client that does not register and lets a dead session go.
Fairness ==
    /\ WF_vars(Thread)
    /\ WF_vars(Worker /\ UNCHANGED <<memory, linkVars, world, pc>>)
    /\ WF_vars(GhostLeaves) /\ WF_vars(RegistrationTimeout)

FairSpec == Spec /\ Fairness

-----------------------------------------------------------------------------
\* What must hold.

Topics == Seq([head : Revisions \cup {Failed}, label : Counts])

\* Every variable is a state of the program.
TypeOK ==
    /\ InventoryTypeOK
    /\ pc.at \in {"backoff", "loop", "poll", "put", "item", "count", "cards",
                  "topic item", "topic count"}
    /\ pc.i \in 0..(N + 1) /\ pc.t \in 0..N
    /\ pc.segs \in Topics /\ pc.counts \in Counts /\ pc.cards \in Seq(0..MaxChanges)
    /\ At("put") <=> putting # NoKey
    /\ net.link \in {"none", "up", "dead", "eof"}
    /\ net.link = "none" <=> At("backoff")
    /\ net.session \in SessionType(Topics)
    /\ session \in [nick : Nat, joined : BOOLEAN, registered : BOOLEAN, capEnded : BOOLEAN,
                    capLs : SUBSET CapNames, lastTopic : Topics]
    /\ \A i \in DOMAIN outq : outq[i].k \in {"PRIVMSG", "REPLY", "JOIN"}
    /\ lastCommit \in [Keys -> Revisions] /\ lastTests \in [Keys -> Revisions \cup {Pending}]
    /\ introDone \in BOOLEAN /\ backoff \in RECONNECT_MIN..RECONNECT_MAX
    /\ clock \in [silence : 0..5, probe : 0..2, polled : BOOLEAN]
    /\ handed \in [Keys -> Seq(0..MaxChanges)]
    /\ {summarized, unlisted} \subseteq [Keys -> SUBSET (1..MaxChanges)]

\* Nothing that needs a registered client is said on a connection before the
\* welcome, whatever was queued when the last connection went: the server
\* would refuse it, and a card would lose its end or show up without its
\* beginning.
NothingSaidEarly == ~net.session.early

\* The bot never gives up a link on which the server still answers: its probe
\* goes out, and the answer comes, before the silence is too long.
LiveLinkIsKept == [][ReadTimeout => net.link = "dead"]_vars

\* Whatever the server offers and whoever has the nick, however often links
\* break, die silently or are refused, and when the bot is kicked: in the end
\* it is registered, and in the channel, for good.
BotSettles == <>[](net.link = "up" /\ net.session.registered /\ net.session.inChannel)

\* Every commit that the bot has passed over had its card handed to announce,
\* was counted in a notice handed to the queue, or is about to, unless git
\* failed just when they were to be listed (then all but the tip are lost); and
\* while no HEAD moves back nothing gets two cards, a card and a count, or a
\* card out of order.  Whether the link then carries a card is not said: one
\* handed over on a link that has ended is lost, although its commit is noted.
CommitsHandedOver ==
    \A p \in Keys :
        LET due == IF pc.i \in 1..N /\ pc.at \in {"put", "item", "count", "cards"}
                   THEN IF PROJECTS[pc.i] = p THEN Range(pc.cards) ELSE {} ELSE {} IN
        /\ Range(lastCommit[p]) \subseteq Range(handed[p]) \cup summarized[p] \cup unlisted[p] \cup due
        /\ ~moved =>
            /\ \A i, j \in DOMAIN handed[p] : i < j => handed[p][i] < handed[p][j]
            /\ Range(handed[p]) \cap summarized[p] = {}

\* Once people stop committing, the inventory is that of the last revision:
\* a request that came while the tree was being counted is dropped, so it is
\* the periodic refresh that makes up for it.
CountsCatchUp ==
    \A p \in Keys : <>[](items[p] = [counts |-> repo[p], head |-> repo[p]])

\* Once people stop committing and links stop breaking, the topic of the
\* channel shows every HEAD with its own counts, unless the last topic came
\* while the bot was kicked out.
TopicCatchesUp ==
    <>[](\/ net.session.topicLost
         \/ net.session.topic = [i \in 1..N |-> [head |-> repo[PROJECTS[i]], label |-> repo[PROJECTS[i]]]])

=============================================================================
