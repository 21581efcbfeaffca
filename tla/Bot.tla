--------------------------------- MODULE Bot --------------------------------
(***************************************************************************)
(* The bot (src/bot/Bot.cpp) talking to the server: a process that sends   *)
(* PASS, NICK and USER without waiting for an answer, then reads lines and *)
(* answers some of them, one blocking send at a time, while the server     *)
(* registers it, other users come, go and chat, and the connection may end *)
(* at any moment.                                                          *)
(*                                                                         *)
(* The bot does not parse: it looks for pieces of text anywhere in a line. *)
(* So a line is its sender and the set of those pieces it holds, "001",    *)
(* "433" and "464" between blanks, and "JOIN" with the bot's channel after *)
(* it.  Users may write any of them: to the channel, to the bot itself     *)
(* once it has a nickname, as a topic or as the comment of a QUIT or KICK. *)
(* The server's side is Commands seen from this one connection.  PING,     *)
(* which the bot answers, is a line this server never sends.               *)
(***************************************************************************)
EXTENDS Naturals, Integers, Sequences

CONSTANTS
    Users,       \* the other users of the channel
    Server,      \* the sender of numerics
    BotNick,     \* BOT_NICKNAME
    ChatMarks,   \* what a text of a user may hold
    ToServerCap, \* lines the connection holds towards the server
    ToBotCap,    \* lines queued for the bot before the server gives it up
    MaxEvents    \* bound on what the users do

ASSUME BotAssumption ==
    /\ Server # BotNick /\ {Server, BotNick} \cap Users = {}
    /\ ChatMarks \subseteq SUBSET {"001", "433", "464", "JOIN"}
    /\ ToServerCap \in Nat \ {0} /\ ToBotCap \in Nat \ {0} /\ MaxEvents \in Nat

VARIABLES
    phase,      \* "running", "ended" (run returned) or "failed" (it threw)
    cause,      \* what it threw
    todo,       \* the lines it has still to send before it reads again
    toServer, toBot,
    passOk, nickSet, userSet,  \* the server's Client object
    dead,       \* the server has given the client up
    closed,     \* the server has closed the connection
    rightPass,  \* whether the bot was given the server's password
    nickHeld,   \* another client holds BotNick
    members,    \* who is in the bot's channel
    events,
    refusals,   \* the refusals the server has sent (history)
    asked,      \* the server has handled the bot's JOIN (history)
    owed,       \* JOIN lines sent to the bot less its greetings (history)
    feigned,    \* texts sent to the bot that read as a JOIN (history)
    mocked,     \* refusals it was sent in the texts of users (history)
    waiting     \* joined in front of the bot, not yet greeted (history)

botVars == <<phase, cause, todo>>
heard == <<feigned, mocked>>
serverVars == <<passOk, nickSet, userSet, nickHeld, members, refusals, asked, owed,
                heard, waiting>>
vars == <<botVars, toServer, toBot, serverVars, dead, closed, rightPass, events>>

Line(from, marks) == [from |-> from, marks |-> marks]

Init ==
    /\ phase = "running" /\ cause = "none"
    /\ todo = <<<<"PASS">>, <<"NICK">>, <<"USER">>>>
    /\ toServer = <<>> /\ toBot = <<>>
    /\ passOk = FALSE /\ nickSet = FALSE /\ userSet = FALSE
    /\ dead = FALSE /\ closed = FALSE
    /\ rightPass \in BOOLEAN /\ nickHeld \in BOOLEAN
    /\ members \in SUBSET Users
    /\ events = 0 /\ refusals = {} /\ asked = FALSE
    /\ owed = [u \in Users \cup {BotNick} |-> 0]
    /\ feigned = [u \in Users \cup {BotNick} |-> 0] /\ mocked = {} /\ waiting = {}
-----------------------------------------------------------------------------
(* The bot.                                                                *)

Fail(why) == phase' = "failed" /\ cause' = why /\ UNCHANGED todo

Answer(line) == todo' = <<line>> /\ UNCHANGED <<phase, cause>>

greetJoinedUser_Everyone(line) ==
    IF "JOIN" \in line.marks /\ line.from # Server
    THEN Answer(<<"HELLO", line.from>>)
    ELSE UNCHANGED botVars

greetJoinedUser_Nobody(line) == UNCHANGED botVars

\* A prefix without "!" is not a user's.
greetJoinedUser(line) ==
    IF "JOIN" \in line.marks /\ line.from \notin {Server, BotNick}
    THEN Answer(<<"HELLO", line.from>>)
    ELSE UNCHANGED botVars

processLine_MissesRefusal(line) ==
    CASE "001" \in line.marks -> Answer(<<"JOIN">>)
      [] "001" \notin line.marks /\ "464" \in line.marks -> Fail("password")
      [] OTHER -> greetJoinedUser(line)

processLine_WrongCause(line) ==
    CASE "001" \in line.marks -> Answer(<<"JOIN">>)
      [] "001" \notin line.marks /\ {"433", "464"} \cap line.marks # {} ->
            Fail("password")
      [] OTHER -> greetJoinedUser(line)

processLine(line) ==
    IF "001" \in line.marks THEN Answer(<<"JOIN">>)
    ELSE IF "433" \in line.marks THEN Fail("nickname")
    ELSE IF "464" \in line.marks THEN Fail("password")
    ELSE greetJoinedUser(line)

\* sendLine, which blocks while the connection is full.  The line is lost if
\* the server has closed it and send() does not know yet.
BotSends ==
    /\ phase = "running" /\ todo # <<>>
    /\ \/ closed /\ UNCHANGED toServer
       \/ /\ ~closed /\ Len(toServer) < ToServerCap
          /\ toServer' = Append(toServer, Head(todo))
    /\ todo' = Tail(todo)
    /\ UNCHANGED <<phase, cause, toBot, serverVars, dead, closed, rightPass, events>>

\* send() or recv() on a connection that is gone.
BotIoFails ==
    /\ phase = "running" /\ closed
    /\ Fail("connection")
    /\ UNCHANGED <<toServer, toBot, serverVars, dead, closed, rightPass, events>>

\* One turn of the loop of receiveMessages.
BotReads ==
    /\ phase = "running" /\ todo = <<>> /\ toBot # <<>>
    /\ processLine(Head(toBot))
    /\ toBot' = Tail(toBot)
    /\ UNCHANGED <<toServer, serverVars, dead, closed, rightPass, events>>

\* recv() returned 0: run returns and the program ends with status 0.
BotEof ==
    /\ phase = "running" /\ todo = <<>> /\ toBot = <<>> /\ closed
    /\ phase' = "ended"
    /\ UNCHANGED <<cause, todo, toServer, toBot, serverVars, dead, closed, rightPass, events>>
-----------------------------------------------------------------------------
(* The server's side of the connection (Commands, Connection).             *)

\* sendMessage for the bot: a full send buffer ends it.
Tell(line) ==
    IF Len(toBot) < ToBotCap
    THEN toBot' = Append(toBot, line) /\ UNCHANGED dead
    ELSE dead' = TRUE /\ UNCHANGED toBot

Numeric(mark) == Line(Server, {mark} \cap {"001", "433", "464"})

Registered == passOk /\ nickSet /\ userSet

ServerPass ==
    /\ Head(toServer) = <<"PASS">>
    /\ IF rightPass
       THEN passOk' = TRUE /\ UNCHANGED <<toBot, dead, refusals>>
       ELSE Tell(Numeric("464")) /\ refusals' = refusals \cup {"password"} /\ UNCHANGED passOk
    /\ UNCHANGED <<nickSet, userSet, members, asked, owed, heard, waiting>>

\* The welcome, or nothing yet.
Progress == IF Registered' THEN Tell(Numeric("001")) ELSE UNCHANGED <<toBot, dead>>

ServerNick ==
    /\ Head(toServer) = <<"NICK">>
    /\ UNCHANGED <<passOk, userSet, members, asked, owed, heard, waiting>>
    /\ \/ /\ ~passOk
          /\ Tell(Numeric("451")) /\ UNCHANGED <<nickSet, refusals>>
       \/ /\ passOk /\ nickHeld
          /\ Tell(Numeric("433")) /\ refusals' = refusals \cup {"nickname"}
          /\ UNCHANGED nickSet
       \/ /\ passOk /\ ~nickHeld
          /\ nickSet' = TRUE /\ Progress /\ UNCHANGED refusals

ServerUser ==
    /\ Head(toServer) = <<"USER">>
    /\ UNCHANGED <<passOk, nickSet, members, refusals, asked, owed, heard, waiting>>
    /\ \/ /\ ~passOk
          /\ Tell(Numeric("451")) /\ UNCHANGED userSet
       \/ /\ passOk
          /\ userSet' = TRUE /\ Progress

\* What the bot has heard once it was told, or not told, a text of u.
Hears(u, marks) ==
    /\ feigned' = IF toBot' # toBot /\ "JOIN" \in marks
                  THEN [feigned EXCEPT ![u] = @ + 1] ELSE feigned
    /\ mocked' = IF toBot' = toBot THEN mocked
                 ELSE mocked \cup (IF "433" \in marks THEN {"nickname"} ELSE {})
                             \cup (IF "464" \in marks THEN {"password"} ELSE {})

Texts == {{}} \cup ChatMarks

\* 451, no effect on a member, the bot's own JOIN and the topic, a text of a
\* user, or one of 475, 473 and 471.
ServerJoin ==
    /\ Head(toServer) = <<"JOIN">>
    /\ asked' = (asked \/ Registered)
    /\ \/ ~Registered /\ Tell(Numeric("451")) /\ UNCHANGED <<members, heard>>
       \/ /\ Registered /\ BotNick \in members
          /\ UNCHANGED <<members, toBot, dead, heard>>
       \/ /\ Registered /\ BotNick \notin members
          /\ members' = members \cup {BotNick}
          /\ \E topic \in Texts :
                /\ Tell(Line(BotNick, {"JOIN"} \cup topic))
                /\ Hears(BotNick, topic \ {"JOIN"})
       \/ /\ Registered /\ BotNick \notin members
          /\ Tell(Numeric("475")) /\ UNCHANGED <<members, heard>>
    /\ UNCHANGED <<passOk, nickSet, userSet, refusals, owed, waiting>>

\* The greeting, relayed to the members or answered with 404 or 451.
ServerPrivmsg ==
    /\ Head(toServer)[1] = "HELLO"
    /\ owed' = [owed EXCEPT ![Head(toServer)[2]] = @ - 1]
    /\ IF Registered /\ BotNick \in members
       THEN waiting' = waiting \ {Head(toServer)[2]} /\ UNCHANGED <<toBot, dead>>
       ELSE Tell(Numeric("404")) /\ UNCHANGED waiting
    /\ UNCHANGED <<passOk, nickSet, userSet, members, refusals, asked, heard>>

ServerTakes ==
    /\ ~dead /\ ~closed /\ toServer # <<>>
    /\ toServer' = Tail(toServer)
    /\ ServerPass \/ ServerNick \/ ServerUser \/ ServerJoin \/ ServerPrivmsg
    /\ UNCHANGED <<botVars, nickHeld, closed, rightPass, events>>

\* A dead client is reaped, or the server ends; what is in flight may be lost.
ServerCloses ==
    /\ ~closed
    /\ closed' = TRUE
    /\ members' = members \ {BotNick}
    /\ toBot' \in {toBot, <<>>} /\ toServer' = <<>>
    /\ UNCHANGED <<botVars, passOk, nickSet, userSet, nickHeld, refusals, asked, owed,
                   heard, waiting, dead, rightPass, events>>
-----------------------------------------------------------------------------
(* The other users.                                                        *)

\* The server relays a line of a user to the bot, if the bot is among those it
\* is for and its connection lives.
Relay(line, hears) ==
    /\ events < MaxEvents /\ events' = events + 1 /\ ~closed
    /\ IF hears /\ ~dead THEN Tell(line) ELSE UNCHANGED <<toBot, dead>>
    /\ UNCHANGED <<botVars, toServer, passOk, nickSet, userSet, nickHeld, refusals,
                   asked, closed, rightPass>>

\* A line with a text, told to the bot.
Says(u, marks, hears) ==
    Relay(Line(u, marks), hears) /\ Hears(u, marks) /\ UNCHANGED owed

UserJoins(u) ==
    /\ u \notin members
    /\ members' = members \cup {u}
    /\ Relay(Line(u, {"JOIN"}), BotNick \in members)
    /\ owed' = IF toBot' # toBot THEN [owed EXCEPT ![u] = @ + 1] ELSE owed
    /\ waiting' = IF BotNick \in members THEN waiting \cup {u} ELSE waiting
    /\ UNCHANGED heard

\* A QUIT has a comment of the user's.
UserLeaves(u, comment) ==
    /\ u \in members
    /\ members' = members \ {u}
    /\ Says(u, comment, BotNick \in members)
    /\ UNCHANGED waiting

\* PRIVMSG to the channel, or TOPIC.
UserChats(u, text) ==
    /\ u \in members
    /\ Says(u, text, BotNick \in members)
    /\ UNCHANGED <<members, waiting>>

\* PRIVMSG to the bot, which anybody may send to any nickname.
UserWrites(u, text) ==
    /\ Says(u, text, nickSet)
    /\ UNCHANGED <<members, waiting>>

\* Nobody waits for a bot that was thrown out.
UserKicksBot(u, comment) ==
    /\ {u, BotNick} \subseteq members
    /\ members' = members \ {BotNick}
    /\ Says(u, comment, TRUE)
    /\ waiting' = {}

\* Another client takes the bot's nickname, if it is free, or gives it back.
NicknameTaken ==
    /\ ~nickSet
    /\ nickHeld' = ~nickHeld
    /\ events < MaxEvents /\ events' = events + 1
    /\ UNCHANGED <<botVars, toServer, toBot, passOk, nickSet, userSet, members, refusals,
                   asked, owed, heard, waiting, dead, closed, rightPass>>

Next ==
    \/ BotSends \/ BotIoFails \/ BotReads \/ BotEof
    \/ ServerTakes \/ ServerCloses
    \/ \E u \in Users :
          \/ UserJoins(u)
          \/ \E text \in Texts : \/ UserLeaves(u, text) \/ UserChats(u, text)
                                \/ UserWrites(u, text) \/ UserKicksBot(u, text)
    \/ NicknameTaken

\* Both programs keep running; a dead client is reaped in the same turn of the
\* event loop.  Nobody else has to do anything.
Fairness ==
    /\ WF_vars(BotSends) /\ WF_vars(BotReads) /\ WF_vars(BotEof)
    /\ WF_vars(todo # <<>> /\ BotIoFails)
    /\ WF_vars(ServerTakes) /\ WF_vars(dead /\ ServerCloses)

Spec == Init /\ [][Next]_vars /\ Fairness
-----------------------------------------------------------------------------
(* Correctness.                                                            *)

Over == phase # "running"

\* The bot greets a user at most once for each line from that user that reads
\* as a JOIN of its channel, and never itself.  Bot.cpp:151 takes a text for a
\* JOIN if it ends like one, so a user may feign one; nobody can feign another's.
GreetingsEarned == \A u \in DOMAIN owed : owed[u] + feigned[u] >= 0

\* It gives up for a reason that the server gave.  Bot.cpp:185 finds a refusal in
\* any line, so a user's text will do as well, but only once the server has let
\* the bot have its nickname: until then nobody's text can reach it.
FailsForTheReasonGiven ==
    cause \in {"nickname", "password"} =>
        cause \in refusals \/ (nickSet /\ cause \in mocked)

\* Whatever the answers to the three lines it sends blindly, and whatever it is
\* sent besides, the bot gets as far as asking to join or ends: it never waits
\* half registered, and sending and reading never block each other.
HandshakeEnds == <>(asked \/ Over)

\* Whoever joins while the bot is in the channel is greeted there, unless the bot
\* is thrown out or ends first, whatever anybody writes meanwhile.
EveryJoinGreeted ==
    \A u \in Users : (u \in waiting) ~> (u \notin waiting \/ Over)

\* The reason it gives is always the server's.  Not so: run MCBotChat.cfg.
NeverFooled == cause \in {"nickname", "password"} => cause \in refusals

\* It greets only who joined.  Not so: run MCBotGreets.cfg.
GreetsJoinersOnly == \A u \in DOMAIN owed : owed[u] >= 0
=============================================================================
