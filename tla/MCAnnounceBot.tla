--------------------------- MODULE MCAnnounceBot ---------------------------
(***************************************************************************)
(* Instances of AnnounceBot.  The session: two repositories in which       *)
(* nothing happens, servers that offer what the bot wants in two lines,    *)
(* refuse it, refuse the account or never finish the list, with the nick   *)
(* free or in use, and one thing that goes wrong.  The watch: one          *)
(* repository whose HEAD moves twice, a server that offers nothing the bot *)
(* wants, one broken link or failing command; or one new commit and a link *)
(* that ends.                                                              *)
(***************************************************************************)
EXTENDS AnnounceBot

MCWant == {"message-tags"}

LongList  == <<CapLs({"message-tags"}, TRUE), CapLs({"sasl"}, FALSE)>>
OtherList == <<CapLs({"sts"}, FALSE)>>
OpenList  == <<CapLs({"message-tags"}, TRUE)>>

Server(ls, grants, accepts, squatted) ==
    [ls |-> ls, grants |-> grants, accepts |-> accepts, squatted |-> squatted]

MCServers == {Server(LongList, TRUE, TRUE, {}), Server(LongList, TRUE, FALSE, {0}),
              Server(LongList, FALSE, TRUE, {0}), Server(OpenList, TRUE, TRUE, {0})}

MCPlainServers == {Server(OtherList, TRUE, TRUE, {})}

MCOne == <<"onyx">>
MCTwo == <<"onyx", "onyx-server">>

MCAsks == {"announce", "reply", "raw"}
MCNoAsks == {}
MCSessionMishaps == {"break", "refusal", "slow", "kick", "ask", "heartbeat"}
MCWatchMishaps   == {"break", "command"}
MCEveryFault == {"eof", "dead"}
MCEof == {"eof"}

=============================================================================
