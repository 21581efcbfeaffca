------------------------------- MODULE Server -------------------------------
(***************************************************************************)
(* The event loop, Server::run (src/server/Server.cpp): one thread that    *)
(* refreshes the poll set, blocks in poll(), serves every ready descriptor *)
(* in the order of _pollFds and then reaps dead clients.  What a handler   *)
(* does to the clients and the channels is an action of Commands; this     *)
(* module says when the loop takes it.                                     *)
(*                                                                         *)
(* phase is where the thread is:                                           *)
(*   "top"    the test of the while loop                                   *)
(*   "refresh"  refreshPollEvents;  "poll"  blocked in poll()              *)
(*   "scan"   the for loop over _pollFds, at position index                *)
(*   "lines"  the line loop of handleClientRead for that descriptor        *)
(*   "write"  past its POLLIN part;  "error"  past its POLLOUT part        *)
(*   "reap"   the first loop of reapDeadClients;  "disconnect"  the second *)
(*   "exit"   out of the loop                                              *)
(* The kernel is external: poll() may report any non-empty choice of the   *)
(* requested events and errors, and recv() and send() may do what their    *)
(* contract allows.                                                        *)
(***************************************************************************)
EXTENDS Commands, Sequences

CONSTANTS
    Listener,  \* _listenFd
    Signals    \* whether SIGINT, SIGTERM or SIGQUIT may arrive

ASSUME ServerAssumption == Listener \notin Fds /\ Signals \in BOOLEAN

VARIABLES
    phase,
    pollFds,      \* the descriptors of _pollFds, in order
    index,        \* the position of the for loop
    revents,      \* returned events that the loop has not handled yet
    deadFds,      \* what reapDeadClients has left to disconnect
    g_shutdown,
    interrupted   \* a signal arrived while poll() was blocked

loopVars == <<phase, pollFds, index, revents, deadFds, g_shutdown, interrupted>>
allVars == <<vars, loopVars>>

LoopInit ==
    /\ Init
    /\ phase = "top"
    /\ pollFds = <<Listener>>
    /\ index = 1
    /\ revents = [fd \in {Listener} |-> {}]
    /\ deadFds = {}
    /\ g_shutdown = FALSE
    /\ interrupted = FALSE

current == pollFds[index]

Goto(p) ==
    /\ phase' = p
    /\ UNCHANGED <<pollFds, index, revents, deadFds, g_shutdown, interrupted>>

NextFd_NoAdvance ==
    /\ phase' = "scan"
    /\ UNCHANGED <<pollFds, index, revents, deadFds, g_shutdown, interrupted>>

\* The loop body is done with the current descriptor.
NextFd ==
    /\ phase' = "scan"
    /\ index' = index + 1
    /\ revents' = [revents EXCEPT ![current] = {}]
    /\ UNCHANGED <<pollFds, deadFds, g_shutdown, interrupted>>

\* _pollFds.erase: the first entry for fd goes and those after it move up.
Erase(s, fd) ==
    LET i == CHOOSE j \in DOMAIN s : s[j] = fd /\ \A k \in 1..(j - 1) : s[k] # fd
    IN  SubSeq(s, 1, i - 1) \o SubSeq(s, i + 1, Len(s))
-----------------------------------------------------------------------------
(* Blocking.                                                               *)

\* while (!g_shutdown)
Top ==
    /\ phase = "top"
    /\ UNCHANGED vars /\ Goto(IF g_shutdown THEN "exit" ELSE "refresh")

\* refreshPollEvents; the events it asks for are Requested below.
Refresh ==
    /\ phase = "refresh"
    /\ phase' = "poll"
    /\ revents' = [fd \in Range(pollFds) |-> {}]
    /\ UNCHANGED <<pollFds, index, deadFds, g_shutdown, interrupted>>
    /\ UNCHANGED vars

Requested_DeadIgnored(fd) ==
    IF fd = Listener THEN {"IN"}
    ELSE IF clients[fd].dead THEN {}
    ELSE (IF clients[fd].closing THEN {} ELSE {"IN"})
         \cup (IF hasPendingOutput(clients[fd]) THEN {"OUT"} ELSE {})

\* What refreshPollEvents asks of poll() for a descriptor.
Requested(fd) ==
    IF fd = Listener THEN {"IN"}
    ELSE (IF clients[fd].closing THEN {} ELSE {"IN"})
         \cup (IF hasPendingOutput(clients[fd]) THEN {"OUT"} ELSE {})

\* What poll() may return for it: errors are reported unasked.  A failure of
\* the listening socket itself ends the program and is not modelled.
Reported(fd) == SUBSET (Requested(fd) \cup IF fd = Listener THEN {} ELSE {"ERR"})

Poll ==
    /\ phase = "poll"
    /\ revents' \in [Range(pollFds) -> SUBSET {"IN", "OUT", "ERR"}]
    /\ \A fd \in Range(pollFds) : revents'[fd] \in Reported(fd)
    /\ \E fd \in Range(pollFds) : revents'[fd] # {}
    /\ phase' = "scan"
    /\ interrupted' = FALSE
    /\ UNCHANGED <<pollFds, index, deadFds, g_shutdown>>
    /\ UNCHANGED vars

\* handleShutdownSignal: the flag is all it sets.
Signal ==
    /\ Signals /\ phase # "exit"
    /\ g_shutdown' = TRUE
    /\ interrupted' = (phase = "poll")
    /\ UNCHANGED <<phase, pollFds, index, revents, deadFds>>
    /\ UNCHANGED vars

\* poll() failed with EINTR.
PollInterrupted ==
    /\ phase = "poll" /\ interrupted
    /\ phase' = "top"
    /\ interrupted' = FALSE
    /\ UNCHANGED <<pollFds, index, revents, deadFds, g_shutdown>>
    /\ UNCHANGED vars
-----------------------------------------------------------------------------
(* Serving the ready descriptors.                                          *)

Scanning(fd) == phase = "scan" /\ index <= Len(pollFds) /\ fd = current

SkipFd ==
    /\ Scanning(current)
    /\ revents[current] = {}
    /\ NextFd
    /\ UNCHANGED vars

\* acceptNewClient registers the connection, or turns it away: accept() found
\* nothing or failed, or a limit was reached.
ServeListener ==
    /\ Scanning(Listener)
    /\ "IN" \in revents[Listener]
    /\ \/ NextFd /\ UNCHANGED vars
       \/ /\ \E c \in Fds, ip \in Ips :
                /\ acceptNewClient(c, ip)
                /\ pollFds' = Append(pollFds, c)
                /\ revents' = [fd \in Range(pollFds) \cup {c} |->
                                 IF fd \in {Listener, c} THEN {} ELSE revents[fd]]
          /\ index' = index + 1
          /\ UNCHANGED <<phase, deadFds, g_shutdown, interrupted>>

\* handleClientRead up to its line loop.
ServeRead(c) ==
    /\ Scanning(c) /\ revents[c] # {}
    /\ \/ UNCHANGED vars /\ Goto("write")   \* nothing to read, not served, EAGAIN
       \/ /\ "IN" \in revents[c]
          /\ Active(clients[c])
          /\ \/ PeerClosed(c) /\ Goto("write")
             \/ SocketError(c) /\ Goto("write")
             \/ UNCHANGED vars /\ Goto("lines")

\* The next complete line, or the next step of a looping command.
ServeLine(c) ==
    /\ phase = "lines" /\ c = current
    /\ CommandOf(c) \/ JobStep
    /\ Goto("lines")

\* extractLine finds no line, or one it refuses (over 512 bytes, a forbidden
\* control byte), or the client is dead or closing.
EndOfLines(c) ==
    /\ phase = "lines" /\ c = current
    /\ job = NoJob
    /\ UNCHANGED vars \/ (Active(clients[c]) /\ SocketError(c))
    /\ Goto("write")

ServeWrite_DisconnectsAtOnce(c) ==
    /\ phase = "write" /\ c = current
    /\ IF clients[c].dead
       THEN /\ disconnectClient(c)
            /\ pollFds' = Erase(pollFds, c)
            /\ revents' = Restrict(revents, DOMAIN revents \ {c})
       ELSE UNCHANGED <<vars, pollFds, revents>>
    /\ phase' = "error"
    /\ UNCHANGED <<index, deadFds, g_shutdown, interrupted>>

ServeWrite(c) ==
    /\ phase = "write" /\ c = current
    /\ \/ UNCHANGED vars /\ Goto("error")            \* not ready, or EAGAIN
       \/ /\ "OUT" \in revents[c] /\ hasPendingOutput(clients[c])
          /\ \/ \E n \in 1..MaxSendBuffer : handleClientWrite(c, n)
             \/ SocketError(c)
          /\ Goto("error")

ServeError_DisconnectsInScan(c) ==
    /\ phase = "error" /\ c = current
    /\ IF clients[c].dead
       THEN /\ disconnectClient(c)
            /\ pollFds' = Erase(pollFds, c)
            /\ revents' = Restrict(revents, DOMAIN revents \ {c})
       ELSE /\ UNCHANGED <<vars, pollFds>>
            /\ revents' = [revents EXCEPT ![c] = {}]
    /\ phase' = "scan"
    /\ index' = index + 1
    /\ UNCHANGED <<deadFds, g_shutdown, interrupted>>

\* An error is acted upon only if there was nothing to read.
ServeError(c) ==
    /\ phase = "error" /\ c = current
    /\ IF "IN" \notin revents[c] /\ "ERR" \in revents[c] /\ ~clients[c].dead
       THEN SocketError(c)
       ELSE UNCHANGED vars
    /\ NextFd

EndOfScan ==
    /\ phase = "scan" /\ index > Len(pollFds)
    /\ phase' = "reap"
    /\ index' = 1
    /\ UNCHANGED <<pollFds, revents, deadFds, g_shutdown, interrupted>>
    /\ UNCHANGED vars
-----------------------------------------------------------------------------
(* reapDeadClients.                                                        *)

ReapFlushed == phase = "reap" /\ (\E c \in DOMAIN clients : MarkFlushed(c)) /\ Goto("reap")

CollectDead_DeadOnly ==
    /\ phase = "reap"
    /\ deadFds' = {c \in DOMAIN clients : clients[c].dead}
    /\ phase' = "disconnect"
    /\ UNCHANGED <<pollFds, index, revents, g_shutdown, interrupted>>
    /\ UNCHANGED vars

\* The list of dead descriptors is complete before any of them is served.
CollectDead ==
    /\ phase = "reap"
    /\ \A c \in DOMAIN clients :
          clients[c].closing /\ ~hasPendingOutput(clients[c]) => clients[c].dead
    /\ deadFds' = {c \in DOMAIN clients : clients[c].dead}
    /\ phase' = "disconnect"
    /\ UNCHANGED <<pollFds, index, revents, g_shutdown, interrupted>>
    /\ UNCHANGED vars

ReapDisconnect_KeepsPollFd(c) ==
    /\ phase = "disconnect" /\ c \in deadFds
    /\ disconnectClient(c)
    /\ deadFds' = deadFds \ {c}
    /\ UNCHANGED <<phase, pollFds, index, revents, g_shutdown, interrupted>>

ReapDisconnect(c) ==
    /\ phase = "disconnect" /\ c \in deadFds
    /\ disconnectClient(c)
    /\ pollFds' = Erase(pollFds, c)
    /\ revents' = Restrict(revents, DOMAIN revents \ {c})
    /\ deadFds' = deadFds \ {c}
    /\ UNCHANGED <<phase, index, g_shutdown, interrupted>>

EndOfReap_OnePerRound ==
    /\ phase = "disconnect"
    /\ phase' = "top"
    /\ deadFds' = {}
    /\ UNCHANGED <<pollFds, index, revents, g_shutdown, interrupted>>
    /\ UNCHANGED vars

EndOfReap ==
    /\ phase = "disconnect" /\ deadFds = {}
    /\ UNCHANGED vars /\ Goto("top")

\* run() has returned.
Exited == phase = "exit" /\ UNCHANGED allVars
-----------------------------------------------------------------------------
\* The steps the thread takes without waiting for anyone.
LoopStep ==
    \/ Top \/ Refresh \/ PollInterrupted
    \/ SkipFd \/ ServeListener
    \/ \E c \in DOMAIN clients :
          ServeRead(c) \/ ServeLine(c) \/ EndOfLines(c) \/ ServeWrite(c) \/ ServeError(c)
    \/ EndOfScan \/ ReapFlushed \/ CollectDead
    \/ \E c \in DOMAIN clients : ReapDisconnect(c)
    \/ EndOfReap

LoopNext == LoopStep \/ Poll \/ Signal \/ Exited

LoopSpec == LoopInit /\ [][LoopNext]_allVars
-----------------------------------------------------------------------------
(* Correctness.                                                            *)

\* The loop never indexes _pollFds past one beyond its end, although handlers
\* append to it, and revents has an entry for exactly the descriptors polled.
LoopTypeOK ==
    /\ TypeOK
    /\ phase \in {"top", "refresh", "poll", "scan", "lines", "write",
                  "error", "reap", "disconnect", "exit"}
    /\ pollFds \in Seq(Fds \cup {Listener})
    /\ index \in 1..(Len(pollFds) + 1)
    /\ revents \in [Range(pollFds) -> SUBSET {"IN", "OUT", "ERR"}]
    /\ deadFds \subseteq Fds
    /\ g_shutdown \in BOOLEAN /\ interrupted \in BOOLEAN

\* _pollFds holds the listening socket first and then every client once, so
\* neither the exception of refreshPollEvents ("a client fd with no Client
\* object") nor the "unknown fd" branches of the handlers are ever taken.
PollSetMatchesClients ==
    /\ IsInjective(pollFds)
    /\ pollFds[1] = Listener
    /\ Range(pollFds) = {Listener} \cup DOMAIN clients

\* The references that run() and handleClientRead hold while they serve a
\* descriptor are to a Client that is still there, whatever its commands did to
\* it, and a command that loops runs for that client until it has ended: no
\* other descriptor is served and nobody is deleted in between.
ServedClientLives ==
    /\ phase \in {"lines", "write", "error"} =>
          index \in DOMAIN pollFds /\ current \in DOMAIN clients
    /\ job # NoJob => phase = "lines" /\ job.who = current

\* Every event poll() returned has been acted on when the round ends: serving
\* a descriptor never moves another one out of the way of the for loop.
EveryEventServed ==
    phase = "reap" => \A fd \in DOMAIN revents : revents[fd] = {}

\* When the loop blocks, a closing client still has output to flush, so the
\* branch of refreshPollEvents that asks for no event at all is never taken
\* and no connection is left that nothing will wake.
ClosingHasOutputAtPoll ==
    phase = "poll" =>
        \A c \in DOMAIN clients : clients[c].closing => hasPendingOutput(clients[c])

\* The only dead clients the loop blocks with are those the QUIT messages of
\* the last reap overflowed: never a closing one, and their buffer is full.
DeadAtPollAreOverflows ==
    phase = "poll" =>
        \A c \in DOMAIN clients : clients[c].dead =>
            ~clients[c].closing /\ clients[c].out = MaxSendBuffer

FromIp(ip) == {c \in DOMAIN clients : clients[c].ip = ip}

\* Descriptors held by one address: countClientsFromIp does not count dead
\* clients, and one connection is accepted per round, so the limit can be
\* passed by one and only until the next reap.
PerIpBound ==
    \A ip \in Ips :
        /\ Cardinality(FromIp(ip)) <= MaxPerIp + 1
        /\ phase = "poll" => Cardinality(FromIp(ip)) <= MaxPerIp

\* The comment on MAX_CLIENTS_PER_IP: "a hard bound on descriptors controlled
\* by one address".
PerIpHardBound == \A ip \in Ips : Cardinality(FromIp(ip)) <= MaxPerIp
-----------------------------------------------------------------------------
(* Liveness.                                                               *)

\* The thread keeps running, and a receive buffer holds finitely many lines
\* and a command finitely many targets.
LoopFairness ==
    /\ WF_allVars(LoopStep)
    /\ \A c \in Fds : SF_allVars(EndOfLines(c))
    /\ SF_allVars((EndCommand \/ EndPart \/ ModeEnd) /\ Goto("lines"))

\* A peer for which output is pending reads some of it in the end, unless its
\* connection ends first.
PeerDrains(c) ==
    /\ SF_allVars(Poll /\ c \in DOMAIN clients /\ "OUT" \in revents'[c])
    /\ SF_allVars(/\ ServeWrite(c)
                  /\ clients'[c].out < clients[c].out \/ clients'[c].dead)

\* Once a client is closing or dead its descriptor is released, provided that
\* its peer does not stop reading for ever: there is no timeout.
ConnectionEnds ==
    \A c \in Fds :
        (c \in DOMAIN clients /\ ~Active(clients[c]))
            ~> (c \notin DOMAIN clients \/ phase = "exit")

\* A round, once begun, ends: the loop always comes back to the test of
\* g_shutdown unless it is blocked in poll().
RoundEnds == (phase = "scan") ~> (phase \in {"top", "exit"})

LoopFairSpec == LoopSpec /\ LoopFairness

\* IRC_SECURITY_AUDIT.md: "SIGTERM cleanup works".
ShutdownTerminates == g_shutdown ~> (phase = "exit")
=============================================================================
