------------------------------ MODULE Commands ------------------------------
(***************************************************************************)
(* The protocol layer of the server: what every command does to the maps   *)
(* Server::_clients and Server::_channels, and how connections begin and   *)
(* end.  It says nothing of when the event loop calls a handler (that is   *)
(* module Server): any handler may run whenever no command is in progress. *)
(*                                                                         *)
(* A command on one target is one action.  JOIN, JOIN 0, KICK, PRIVMSG and *)
(* MODE loop over a list of targets; they are a start action, one action   *)
(* per target or mode letter, and an end action.  job is the command whose *)
(* loop is on the call stack, and while it is set nothing else runs, but   *)
(* its issuer may be marked dead by its own replies and the loop goes on.  *)
(* The list is any list: each iteration picks its target freely.           *)
(*                                                                         *)
(* A reply that sendMessage refuses because it echoes too much user text   *)
(* (isValidOutboundMessage) and a branch without effect are stuttering     *)
(* steps.  A client can always give an argument that earns it an error     *)
(* reply, so a Reply disjunct has no guard of its own beyond the dispatch; *)
(* the comment at its side lists the numerics it stands for.  TextFits     *)
(* says whether a broadcast that carries user text fits in                 *)
(* MAX_IRC_MESSAGE_SIZE.                                                   *)
(***************************************************************************)
EXTENDS Client, Channel, Integers, Functions

CONSTANTS
    ChanNames,   \* names that isValidChannelName accepts
    Fold,        \* toIrcLowerCase on the spellings in Nicks
    LimitArgs,   \* decimal arguments given to MODE +l
    IntModulus,  \* 2^w for the w-bit int that holds the limit
    LongMax,     \* the value strtol saturates at
    TextFits,    \* {TRUE}, or BOOLEAN when over-long texts are sent too
    Verbs,       \* the commands clients issue
    MaxTotal,    \* MAX_TOTAL_CLIENTS
    MaxPerIp     \* MAX_CLIENTS_PER_IP

ASSUME CommandsAssumption ==
    /\ Fold \in [Nicks -> Nicks]
    /\ LimitArgs \subseteq Nat
    /\ IntModulus \in Nat \ {0} /\ LongMax \in Nat
    /\ TextFits \subseteq BOOLEAN
    /\ MaxTotal \in Nat /\ MaxPerIp \in Nat

VARIABLES
    clients,   \* _clients: the connected Client objects by descriptor
    channels,  \* _channels: the Channel objects by name
    job        \* the looping command in progress

vars == <<clients, channels, job>>

NoJob == [cmd |-> "none"]
Job(verb, c) == [cmd |-> verb, who |-> c]
ModeJob(c, ch) ==
    [cmd |-> "MODE", who |-> c, chan |-> ch, plus |-> TRUE, applied |-> FALSE]

JobType ==
    {NoJob}
    \cup [cmd: {"JOIN", "JOIN0", "KICK", "PRIVMSG"}, who: Fds]
    \cup [cmd: {"MODE"}, who: Fds, chan: ChanNames,
          plus: BOOLEAN, applied: BOOLEAN]

Init ==
    /\ clients = <<>>
    /\ channels = <<>>
    /\ job = NoJob
-----------------------------------------------------------------------------
(* Helpers of class Server.                                                *)

toIrcLowerCase(n) == IF n = NoNick THEN NoNick ELSE Fold[n]

findClientByNick_ExactSpelling(n) ==
    {c \in DOMAIN clients : ~clients[c].dead /\ clients[c].nick = n}

\* The clients a nickname finds: at most one (NicknamesUnique), so taking the
\* first in descriptor order, as the code does, is taking any of them.
findClientByNick(n) ==
    {c \in DOMAIN clients :
        /\ ~clients[c].dead
        /\ toIrcLowerCase(clients[c].nick) = toIrcLowerCase(n)}

countClientsFromIp(ip) ==
    Cardinality({c \in DOMAIN clients : ~clients[c].dead /\ clients[c].ip = ip})

\* _clients after sendMessage on each client of a set.
Send(to) ==
    [c \in DOMAIN clients |->
        IF c \in to THEN sendMessage(clients[c]) ELSE clients[c]]

Peers_Untold(c) == {}

\* Everyone who shares a channel with c, c included if it is in one.
Peers(c) ==
    UNION {channels[ch].members :
           ch \in {x \in DOMAIN channels : c \in channels[x].members}}

SetChannel(ch, value) == channels' = [channels EXCEPT ![ch] = value]
-----------------------------------------------------------------------------
(* Dispatch: Server::processLine.                                          *)

Dispatch_PassIsEnough(c, verb) ==
    /\ verb \in Verbs /\ job = NoJob
    /\ Active(clients[c])
    /\ verb # "PASS" => clients[c].passOk

\* A command of a client that is still served, through the two 451 gates.
Dispatch(c, verb) ==
    /\ verb \in Verbs /\ job = NoJob
    /\ Active(clients[c])
    /\ verb # "PASS" => clients[c].passOk
    /\ verb \notin {"PASS", "NICK", "USER"} => isRegistered(clients[c])

Reply(c) ==
    /\ clients' = Send({c})
    /\ UNCHANGED <<channels, job>>

\* CAP, PING, an unknown command, and a command stopped by a 451 gate.
ProcessLineReply(c) ==
    /\ "PING" \in Verbs /\ job = NoJob
    /\ Active(clients[c])
    /\ Reply(c)

QuitReasons == {"short"} \cup IF FALSE \in TextFits THEN {"long"} ELSE {}

\* QUIT, registered or not.
Quit(c, why) ==
    /\ job = NoJob
    /\ Active(clients[c])
    /\ clients' = [clients EXCEPT ![c] = markClosing(@, why)]
    /\ UNCHANGED <<channels, job>>
-----------------------------------------------------------------------------
(* Registration: PASS, NICK, USER.                                         *)

PassCommand(c) ==
    /\ Dispatch(c, "PASS")
    /\ \/ Reply(c)                                   \* 462, 461
       \/ /\ ~clients[c].passOk
          /\ clients' = [clients EXCEPT ![c].passOk = TRUE]
          /\ UNCHANGED <<channels, job>>
       \/ /\ ~clients[c].passOk
          /\ LET failed == sendMessage(recordFailedPassAttempt(clients[c]))
             IN  clients' = [clients EXCEPT ![c] =
                               IF failed.fails >= MaxFailedPass
                               THEN markClosing(failed, "short") ELSE failed]
          /\ UNCHANGED <<channels, job>>

\* The 001 welcome, sent by whichever of NICK and USER completes registration.
Welcome(r) == IF isRegistered(r) THEN sendMessage(r) ELSE r

NickCommand(c, n) ==
    /\ Dispatch(c, "NICK")
    /\ \/ Reply(c)                                   \* 431, 432
       \/ /\ findClientByNick(n) \ {c} # {}
          /\ Reply(c)                                \* 433
       \/ /\ findClientByNick(n) \subseteq {c}
          /\ LET told == IF clients[c].nick # n THEN Peers(c) \cup {c} ELSE {}
             IN  clients' =
                   IF isRegistered(clients[c])
                   THEN [Send(told) EXCEPT ![c].nick = n]
                   ELSE [clients EXCEPT ![c] = Welcome([@ EXCEPT !.nick = n])]
          /\ UNCHANGED <<channels, job>>

UserCommand(c) ==
    /\ Dispatch(c, "USER")
    /\ \/ Reply(c)                                   \* 462, 461, 468
       \/ /\ ~clients[c].userSet
          /\ clients' = [clients EXCEPT ![c] =
                           Welcome([@ EXCEPT !.userSet = TRUE])]
          /\ UNCHANGED <<channels, job>>
-----------------------------------------------------------------------------
(* Commands that loop over targets.                                        *)

\* PRIVMSG, KICK and JOIN up to their loop; JOIN 0 is its own loop.
StartCommand(c, verb) ==
    /\ Dispatch(c, verb)
    /\ job' = Job(verb, c)
    /\ UNCHANGED <<clients, channels>>

\* 461, 411 or 412: the command ends before its loop.
NotEnoughParameters(c, verb) ==
    /\ Dispatch(c, verb)
    /\ Reply(c)

EndCommand ==
    /\ job.cmd \in {"JOIN", "KICK", "PRIVMSG"}
    /\ job' = NoJob
    /\ UNCHANGED <<clients, channels>>

Refused_LimitOffByOne(ch, c, key) ==
    \/ channels[ch].password # NoKey /\ channels[ch].password # key
    \/ channels[ch].inviteOnly /\ c \notin channels[ch].invited
    \/ /\ channels[ch].userLimit > 0
       /\ Cardinality(channels[ch].members) > channels[ch].userLimit

\* The tests of an existing channel, answered with 475, 473 and 471.
Refused(ch, c, key) ==
    \/ channels[ch].password # NoKey /\ channels[ch].password # key
    \/ channels[ch].inviteOnly /\ c \notin channels[ch].invited
    \/ /\ channels[ch].userLimit > 0
       /\ Cardinality(channels[ch].members) >= channels[ch].userLimit

\* One channel of JOIN.  The first member of a new channel is its operator;
\* an existing channel is joined as it is, even when it is empty.
JoinTarget(ch, key) ==
    /\ job.cmd = "JOIN"
    /\ \/ Reply(job.who)                             \* 403, 475, 473, 471
       \/ /\ ch \notin DOMAIN channels
          /\ channels' = [x \in DOMAIN channels \cup {ch} |->
                IF x = ch
                THEN addOperator(addMember([NewChannel EXCEPT
                        !.topicRestricted = TRUE], job.who), job.who)
                ELSE channels[x]]
          /\ clients' = Send({job.who})
          /\ UNCHANGED job
       \/ /\ ch \in DOMAIN channels
          /\ job.who \notin channels[ch].members
          /\ ~Refused(ch, job.who, key)
          /\ SetChannel(ch, removeInvited(addMember(channels[ch], job.who), job.who))
          /\ clients' = Send(channels[ch].members \cup {job.who})
          /\ UNCHANGED job

\* One channel of JOIN 0.  The channel is deleted with its last member.
PartTarget(ch) ==
    /\ job.cmd = "JOIN0"
    /\ job.who \in channels[ch].members
    /\ clients' = Send(channels[ch].members)
    /\ IF channels[ch].members = {job.who}
       THEN channels' = Restrict(channels, DOMAIN channels \ {ch})
       ELSE SetChannel(ch, removeMember(channels[ch], job.who))
    /\ UNCHANGED job

EndPart ==
    /\ job.cmd = "JOIN0"
    /\ \A ch \in DOMAIN channels : job.who \notin channels[ch].members
    /\ job' = NoJob
    /\ UNCHANGED <<clients, channels>>

\* One user of KICK.  The channel stays even when its last member is kicked.
KickTarget(ch, n) ==
    /\ job.cmd = "KICK"
    /\ \/ Reply(job.who)                             \* 403, 442, 482, 441
       \/ /\ ch \in DOMAIN channels
          /\ job.who \in channels[ch].members \cap channels[ch].operators
          /\ \E t \in findClientByNick(n) \cap channels[ch].members,
                fits \in TextFits :
                /\ clients' = IF fits THEN Send(channels[ch].members) ELSE clients
                /\ SetChannel(ch, removeMember(channels[ch], t))
          /\ UNCHANGED job

\* One target of PRIVMSG.
PrivmsgChannel(ch) ==
    /\ job.cmd = "PRIVMSG"
    /\ IF ch \in DOMAIN channels /\ job.who \in channels[ch].members
       THEN clients' = Send(channels[ch].members \ {job.who})
       ELSE clients' = Send({job.who})               \* 401, 404
    /\ UNCHANGED <<channels, job>>

PrivmsgNick(n) ==
    /\ job.cmd = "PRIVMSG"
    /\ IF findClientByNick(n) # {}
       THEN clients' = Send(findClientByNick(n))
       ELSE clients' = Send({job.who})               \* 401
    /\ UNCHANGED <<channels, job>>
-----------------------------------------------------------------------------
(* INVITE and TOPIC.                                                       *)

InviteCommand_AnyoneInvites(c, n, ch) ==
    /\ Dispatch(c, "INVITE")
    /\ ch \in DOMAIN channels
    /\ \E t \in findClientByNick(n) \ channels[ch].members :
          /\ SetChannel(ch, addInvited(channels[ch], t))
          /\ clients' = Send({c, t})
    /\ UNCHANGED job

\* Only an invite-only channel asks that the inviter be an operator.
InviteCommand(c, n, ch) ==
    /\ Dispatch(c, "INVITE")
    /\ \/ Reply(c)                          \* 461, 401, 403, 442, 443, 482
       \/ /\ ch \in DOMAIN channels
          /\ c \in channels[ch].members
          /\ channels[ch].inviteOnly => c \in channels[ch].operators
          /\ \E t \in findClientByNick(n) \ channels[ch].members :
                /\ SetChannel(ch, addInvited(channels[ch], t))
                /\ clients' = Send({c, t})
          /\ UNCHANGED job

TopicCommand(c, ch, topic) ==
    /\ Dispatch(c, "TOPIC")
    /\ \/ Reply(c)                          \* 461, 403, 442, 331, 332, 482
       \/ /\ ch \in DOMAIN channels
          /\ c \in channels[ch].members
          /\ channels[ch].topicRestricted => c \in channels[ch].operators
          /\ SetChannel(ch, [channels[ch] EXCEPT !.topic = topic])
          /\ \E fits \in TextFits :
                clients' = IF fits THEN Send(channels[ch].members) ELSE clients
          /\ UNCHANGED job
-----------------------------------------------------------------------------
(* MODE: one action per letter of the mode string.                         *)

ModeCommand_AnyMember(c, ch) ==
    /\ Dispatch(c, "MODE")
    /\ ch \in DOMAIN channels
    /\ c \in channels[ch].members
    /\ job' = ModeJob(c, ch)
    /\ UNCHANGED <<clients, channels>>

ModeCommand_Anyone(c, ch) ==
    /\ Dispatch(c, "MODE")
    /\ ch \in DOMAIN channels
    /\ job' = ModeJob(c, ch)
    /\ UNCHANGED <<clients, channels>>

\* Up to the loop: the only place that asks whether the issuer is operator.
ModeCommand(c, ch) ==
    /\ Dispatch(c, "MODE")
    /\ \/ Reply(c)                                   \* 461, 403, 324, 482, 472
       \/ /\ ch \in DOMAIN channels
          /\ c \in channels[ch].operators
          /\ job' = ModeJob(c, ch)
          /\ UNCHANGED <<clients, channels>>

ModeChannel == channels[job.chan]

\* A letter that changed the channel and goes into the broadcast.
Apply(value) ==
    /\ SetChannel(job.chan, value)
    /\ job' = [job EXCEPT !.applied = TRUE]
    /\ UNCHANGED clients

ModeSign ==
    /\ job.cmd = "MODE"
    /\ job' = [job EXCEPT !.plus = ~@]
    /\ UNCHANGED <<clients, channels>>

ModeFlag ==
    /\ job.cmd = "MODE"
    /\ \/ /\ ModeChannel.inviteOnly # job.plus
          /\ Apply([ModeChannel EXCEPT !.inviteOnly = job.plus])
       \/ /\ ModeChannel.topicRestricted # job.plus
          /\ Apply([ModeChannel EXCEPT !.topicRestricted = job.plus])

\* The key argument may be empty: +k then sets no key and is still announced.
ModeKey(key) ==
    /\ job.cmd = "MODE"
    /\ \/ /\ job.plus
          /\ Reply(job.who)                          \* 696, 467
       \/ /\ job.plus /\ ModeChannel.password = NoKey
          /\ Apply([ModeChannel EXCEPT !.password = key])
       \/ /\ ~job.plus /\ ModeChannel.password = key
          /\ Apply([ModeChannel EXCEPT !.password = NoKey])

\* (int) strtol(a): saturates at the long range, then keeps the low bits.
atoi(a) ==
    LET low == (IF a > LongMax THEN LongMax ELSE a) % IntModulus
    IN  IF 2 * low >= IntModulus THEN low - IntModulus ELSE low

ModeLimit(a) ==
    /\ job.cmd = "MODE"
    /\ \/ /\ job.plus
          /\ Reply(job.who)                          \* 696
       \/ /\ job.plus
          /\ atoi(a) > 0 /\ ModeChannel.userLimit # atoi(a)
          /\ Apply([ModeChannel EXCEPT !.userLimit = atoi(a)])
       \/ /\ ~job.plus /\ ModeChannel.userLimit > 0
          /\ Apply([ModeChannel EXCEPT !.userLimit = 0])

ModeOperator(n) ==
    /\ job.cmd = "MODE"
    /\ \/ Reply(job.who)                             \* 441
       \/ \E t \in findClientByNick(n) \cap ModeChannel.members :
             /\ job.plus # (t \in ModeChannel.operators)
             /\ Apply(IF job.plus THEN addOperator(ModeChannel, t)
                      ELSE removeOperator(ModeChannel, t))

\* The one broadcast of everything applied, to the issuer too.
ModeEnd ==
    /\ job.cmd = "MODE"
    /\ \E fits \in TextFits :
          clients' = IF job.applied /\ fits THEN Send(ModeChannel.members)
                     ELSE clients
    /\ job' = NoJob
    /\ UNCHANGED channels
-----------------------------------------------------------------------------
(* Connections: what the event loop does to a client outside commands.     *)

acceptNewClient_OffByOne(c, ip) ==
    /\ job = NoJob
    /\ c \notin DOMAIN clients
    /\ Cardinality(DOMAIN clients) < MaxTotal
    /\ countClientsFromIp(ip) <= MaxPerIp
    /\ clients' = [x \in DOMAIN clients \cup {c} |->
                     IF x = c THEN NewClient(ip) ELSE clients[x]]
    /\ UNCHANGED <<channels, job>>

\* A connection beyond a limit is closed at once and leaves no trace.
acceptNewClient(c, ip) ==
    /\ job = NoJob
    /\ c \notin DOMAIN clients
    /\ Cardinality(DOMAIN clients) < MaxTotal
    /\ countClientsFromIp(ip) < MaxPerIp
    /\ clients' = [x \in DOMAIN clients \cup {c} |->
                     IF x = c THEN NewClient(ip) ELSE clients[x]]
    /\ UNCHANGED <<channels, job>>

\* recv() returned 0.
PeerClosed(c) ==
    /\ job = NoJob
    /\ Active(clients[c])
    /\ clients' = [clients EXCEPT ![c] = markClosing(@, "short")]
    /\ UNCHANGED <<channels, job>>

\* recv() or send() failed, poll() reported an error, or input was refused.
SocketError(c) ==
    /\ job = NoJob
    /\ ~clients[c].dead
    /\ clients' = [clients EXCEPT ![c] = markDead(@, "short")]
    /\ UNCHANGED <<channels, job>>

\* send() took n units; less than a unit is a stuttering step.
handleClientWrite(c, n) ==
    /\ job = NoJob
    /\ ~clients[c].dead
    /\ n <= clients[c].out
    /\ clients' = [clients EXCEPT ![c] = consumeSendBuffer(@, n)]
    /\ UNCHANGED <<channels, job>>

\* The scan of reapDeadClients: a closing client whose output is flushed.
MarkFlushed(c) ==
    /\ job = NoJob
    /\ clients[c].closing /\ ~hasPendingOutput(clients[c]) /\ ~clients[c].dead
    /\ clients' = [clients EXCEPT ![c] = markDead(@, clients[c].reason)]
    /\ UNCHANGED <<channels, job>>

disconnectClient_KeepsInvitations(c) ==
    /\ job = NoJob
    /\ clients[c].dead
    /\ clients' = Restrict(clients, DOMAIN clients \ {c})
    /\ channels' = [ch \in DOMAIN channels |-> removeMember(channels[ch], c)]
    /\ UNCHANGED job

\* The client leaves every channel, and its pointer every invitation list; its
\* peers are told once each if it was registered.  No channel is deleted.
disconnectClient(c) ==
    /\ job = NoJob
    /\ clients[c].dead
    /\ LET told == IF isRegistered(clients[c]) /\ clients[c].reason # "long"
                   THEN Peers(c) \ {c} ELSE {}
       IN  clients' = Restrict(Send(told), DOMAIN clients \ {c})
    /\ channels' = [ch \in DOMAIN channels |->
                      removeInvited(removeMember(channels[ch], c), c)]
    /\ UNCHANGED job
-----------------------------------------------------------------------------
LoopVerbs == {"JOIN", "JOIN0", "KICK", "PRIVMSG"}

\* What the line loop of handleClientRead may run for client c.
CommandOf(c) ==
    \/ ProcessLineReply(c)
    \/ \E why \in QuitReasons : Quit(c, why)
    \/ PassCommand(c)
    \/ \E n \in Nicks : NickCommand(c, n)
    \/ UserCommand(c)
    \/ \E verb \in LoopVerbs : StartCommand(c, verb)
    \/ \E verb \in LoopVerbs \ {"JOIN0"} : NotEnoughParameters(c, verb)
    \/ \E n \in Nicks, ch \in ChanNames : InviteCommand(c, n, ch)
    \/ \E ch \in ChanNames, topic \in Topics \cup {NoTopic} :
          TopicCommand(c, ch, topic)
    \/ \E ch \in ChanNames : ModeCommand(c, ch)

\* One iteration of the command in progress, or its end.
JobStep ==
    \/ \E ch \in ChanNames, key \in Keys \cup {NoKey} : JoinTarget(ch, key)
    \/ \E ch \in DOMAIN channels : PartTarget(ch)
    \/ \E ch \in ChanNames, n \in Nicks : KickTarget(ch, n)
    \/ \E ch \in ChanNames : PrivmsgChannel(ch)
    \/ \E n \in Nicks : PrivmsgNick(n)
    \/ ModeSign
    \/ ModeFlag
    \/ \E key \in Keys \cup {NoKey} : ModeKey(key)
    \/ \E a \in LimitArgs : ModeLimit(a)
    \/ \E n \in Nicks : ModeOperator(n)
    \/ EndCommand \/ EndPart \/ ModeEnd

ConnectionStep(c) ==
    \/ PeerClosed(c)
    \/ SocketError(c)
    \/ \E n \in 1..MaxSendBuffer : handleClientWrite(c, n)
    \/ MarkFlushed(c)
    \/ disconnectClient(c)

Next ==
    \/ \E c \in Fds, ip \in Ips : acceptNewClient(c, ip)
    \/ \E c \in DOMAIN clients : CommandOf(c)
    \/ JobStep
    \/ \E c \in DOMAIN clients : ConnectionStep(c)

\* The behaviours of the protocol layer.  The event loop of module Server must
\* implement it: its poll order, its deferred reaping and its phases may not
\* do to clients and channels what no order of whole handlers could do.
Spec == Init /\ [][Next]_vars
-----------------------------------------------------------------------------
(* Correctness.                                                            *)

\* Every field of every Client and Channel is in range; in particular no send
\* buffer passes MAX_SEND_BUFFER and no client guesses the password more than
\* MAX_FAILED_PASS_ATTEMPTS times.
TypeOK ==
    /\ DOMAIN clients \subseteq Fds
    /\ clients \in [DOMAIN clients -> ClientType]
    /\ DOMAIN channels \subseteq ChanNames
    /\ channels \in [DOMAIN channels -> ChannelType]
    /\ job \in JobType

\* No channel holds a pointer to a deleted Client: disconnectClient clears the
\* members, the operators and the invitations of every channel.
NoDanglingPointers ==
    \A ch \in DOMAIN channels :
        channels[ch].members \cup channels[ch].operators \cup channels[ch].invited
            \subseteq DOMAIN clients

\* Operator status ends with membership, whichever of KICK, JOIN 0 and a
\* disconnection ends it, and MODE +o reaches members only.
OperatorsAreMembers ==
    \A ch \in DOMAIN channels : channels[ch].operators \subseteq channels[ch].members

\* Nobody is in a channel without PASS, NICK and USER.
MembersAreRegistered ==
    \A ch \in DOMAIN channels : \A c \in channels[ch].members :
        c \in DOMAIN clients /\ isRegistered(clients[c])

\* Two connections that are not dead never hold nicknames that are equal
\* under IRC case mapping (audit S-02), closing and half-registered ones
\* included.
NicknamesUnique ==
    \A c, d \in DOMAIN clients :
        /\ ~clients[c].dead /\ ~clients[d].dead /\ clients[c].nick # NoNick
        /\ toIrcLowerCase(clients[c].nick) = toIrcLowerCase(clients[d].nick)
        => c = d

\* An invitation is used up by the JOIN it admits, so a member who is kicked
\* from an invite-only channel needs a new one.
InvitationsConsumed ==
    \A ch \in DOMAIN channels : channels[ch].members \cap channels[ch].invited = {}

\* The command in progress belongs to a live Client object, and a MODE to a
\* channel its issuer is in: the references held across the loop stay valid.
JobIsValid ==
    job # NoJob =>
        /\ job.who \in DOMAIN clients
        /\ isRegistered(clients[job.who])
        /\ job.cmd = "MODE" => /\ job.chan \in DOMAIN channels
                               /\ job.who \in channels[job.chan].members

\* A client that is still served has a password attempt left: the last one
\* closes it.
AttemptsLeft ==
    \A c \in DOMAIN clients :
        Active(clients[c]) => clients[c].fails < MaxFailedPass

\* The inductive invariant.
Inv ==
    /\ TypeOK
    /\ AttemptsLeft
    /\ NoDanglingPointers
    /\ OperatorsAreMembers
    /\ MembersAreRegistered
    /\ NicknamesUnique
    /\ InvitationsConsumed
    /\ JobIsValid

\* An existing channel gains members one at a time, and only with an
\* invitation if it is +i and with room under its limit if it is +l.
AdmissionRespected ==
    [][\A ch \in DOMAIN channels \cap DOMAIN channels' :
         LET new == channels'[ch].members \ channels[ch].members
         IN  new # {} =>
               /\ Cardinality(new) = 1
               /\ channels[ch].inviteOnly => new \subseteq channels[ch].invited
               /\ channels[ch].userLimit > 0 =>
                     Cardinality(channels'[ch].members) <= channels[ch].userLimit]_vars

\* An invite-only channel that has lost its last member and has no invitation
\* outstanding.
LockedOut(chan) == chan.members = {} /\ chan.inviteOnly /\ chan.invited = {}

\* KICK and a disconnection leave an empty channel in the map with its modes
\* (audit S-05), and once such a channel is invite-only nothing any client
\* does ever lets anyone in again or deletes it.
LockoutIsPermanent ==
    [][\A ch \in DOMAIN channels :
         LockedOut(channels[ch]) =>
            ch \in DOMAIN channels' /\ LockedOut(channels'[ch])]_vars

Operatorless(ch) ==
    channels[ch].operators = {} /\ ~(job.cmd = "MODE" /\ job.chan = ch)

\* A channel without operators never gets one again for as long as it exists:
\* joining it, empty or not, does not make one, and only an operator's MODE
\* does.
OperatorlessIsPermanent ==
    [][\A ch \in DOMAIN channels :
         Operatorless(ch) => ch \notin DOMAIN channels' \/ Operatorless(ch)']_vars
-----------------------------------------------------------------------------
(* What the audit expects and the code does not do.                        *)

\* Audit S-05: "when the final member leaves a normal channel, the channel
\* should be destroyed".  Only JOIN 0 does so; KICK and a disconnection do not.
EmptyChannelDestroyed ==
    \A ch \in DOMAIN channels : channels[ch].members # {}

\* Audit S-13: "INVITE is an operator command".  InviteCommand asks for an
\* operator only while the channel is invite-only.
InviteIsOperatorOnly ==
    [][\A c \in DOMAIN clients, n \in Nicks, ch \in DOMAIN channels :
         InviteCommand(c, n, ch) /\ channels' # channels =>
            c \in channels[ch].operators]_vars

\* Audit, failure 23: "Every affected member, including issuer, receives one
\* KICK event".  A KICK line that outgrows 512 bytes with its prefix is
\* refused by sendMessage while the member is removed all the same.
KickAnnounced ==
    [][\A ch \in DOMAIN channels \cap DOMAIN channels' :
         job.cmd = "KICK" /\ channels'[ch].members # channels[ch].members =>
            \A m \in channels[ch].members :
                Active(clients[m]) =>
                    clients'[m].out > clients[m].out \/ clients'[m].dead]_vars

\* Audit, failure 26: "Reject out-of-range value before conversion".  MODE +l
\* takes what atoi leaves of the argument.
LimitIsTheOneAsked ==
    [][\A a \in LimitArgs :
         ModeLimit(a) /\ job.plus /\ channels' # channels =>
            channels'[job.chan].userLimit = a]_vars
=============================================================================
