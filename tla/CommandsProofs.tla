--------------------------- MODULE CommandsProofs ---------------------------
(***************************************************************************)
(* Proofs that the protocol layer keeps its invariants for every number of *)
(* clients, channels, nicknames and every limit, and then of its action    *)
(* properties: what no step may do to a channel that exists.  These all    *)
(* follow from one lemma, ChannelSteps, which lists the ways a step can    *)
(* change a channel.                                                       *)
(***************************************************************************)
EXTENDS Commands, FiniteSetTheorems, TLAPS

\* What every step that neither renames, adds nor removes a client does to
\* the clients: it may queue output, end connections and advance registration.
Quiet ==
    /\ clients' \in [DOMAIN clients -> ClientType]
    /\ \A c \in DOMAIN clients :
          /\ clients'[c].nick = clients[c].nick
          /\ isRegistered(clients[c]) => isRegistered(clients'[c])
          /\ clients[c].dead => clients'[c].dead
          /\ Active(clients'[c]) => clients'[c].fails < MaxFailedPass

\* What the invariant says of one channel.
GoodChannel(chan, cls) ==
    /\ chan \in ChannelType
    /\ chan.members \cup chan.operators \cup chan.invited \subseteq DOMAIN cls
    /\ chan.operators \subseteq chan.members
    /\ chan.members \cap chan.invited = {}
    /\ \A c \in chan.members : isRegistered(cls[c])

GoodChannels ==
    /\ DOMAIN channels \subseteq ChanNames
    /\ channels \in [DOMAIN channels -> ChannelType]
    /\ \A ch \in DOMAIN channels : GoodChannel(channels[ch], clients)

GoodClients ==
    /\ DOMAIN clients \subseteq Fds
    /\ clients \in [DOMAIN clients -> ClientType]
    /\ AttemptsLeft
    /\ NicknamesUnique

GoodJob == job \in JobType /\ JobIsValid
-----------------------------------------------------------------------------
(* The invariant, regrouped by variable.                                   *)

LEMMA InvRegrouped == Inv <=> GoodClients /\ GoodChannels /\ GoodJob
  BY DEF Inv, GoodClients, GoodChannels, GoodJob, GoodChannel, TypeOK,
         NoDanglingPointers, OperatorsAreMembers, MembersAreRegistered,
         InvitationsConsumed
-----------------------------------------------------------------------------
(* The methods of Client.                                                  *)

\* Queueing output changes a client's buffer or marks it dead, nothing else.
LEMMA SendMessageFacts ==
  ASSUME NEW r \in ClientType
  PROVE  /\ sendMessage(r) \in ClientType
         /\ sendMessage(r).nick = r.nick
         /\ sendMessage(r).fails = r.fails
         /\ isRegistered(r) <=> isRegistered(sendMessage(r))
         /\ r.dead => sendMessage(r).dead
         /\ Active(sendMessage(r)) => Active(r)
<1>1. CASE ~Active(r)
  BY <1>1 DEF sendMessage
<1>2. CASE Active(r) /\ r.out >= MaxSendBuffer
  <2>1. sendMessage(r) = [r EXCEPT !.dead = TRUE,
                                   !.reason = IF @ = "none" THEN "short" ELSE @]
    BY <1>2 DEF sendMessage, markDead, Active
  <2>2. QED
    BY <1>2, <2>1 DEF Active, ClientType, Reasons, isRegistered
<1>3. CASE Active(r) /\ ~(r.out >= MaxSendBuffer)
  <2>1. sendMessage(r) = [r EXCEPT !.out = @ + 1]
    BY <1>3 DEF sendMessage
  <2>2. r.out + 1 \in 0..MaxSendBuffer
    BY <1>3, ClientAssumption DEF ClientType
  <2>3. QED
    BY <1>3, <2>1, <2>2 DEF Active, ClientType, isRegistered
<1>4. QED
  BY <1>1, <1>2, <1>3

LEMMA MarkDeadFacts ==
  ASSUME NEW r \in ClientType, NEW why \in Reasons
  PROVE  /\ markDead(r, why) \in ClientType
         /\ markDead(r, why).nick = r.nick
         /\ isRegistered(r) <=> isRegistered(markDead(r, why))
         /\ markDead(r, why).dead
  BY ClientAssumption DEF markDead, Active, ClientType, Reasons, isRegistered

LEMMA MarkClosingFacts ==
  ASSUME NEW r \in ClientType, NEW why \in Reasons
  PROVE  /\ markClosing(r, why) \in ClientType
         /\ markClosing(r, why).nick = r.nick
         /\ isRegistered(r) <=> isRegistered(markClosing(r, why))
         /\ r.dead => markClosing(r, why).dead
         /\ ~Active(markClosing(r, why))
  BY ClientAssumption DEF markClosing, Active, ClientType, Reasons, isRegistered
-----------------------------------------------------------------------------
(* Quiet steps.                                                            *)

LEMMA ChangeOneIsQuiet ==
  ASSUME GoodClients, NEW c \in DOMAIN clients, NEW r \in ClientType,
         clients' = [clients EXCEPT ![c] = r],
         r.nick = clients[c].nick,
         isRegistered(clients[c]) => isRegistered(r),
         clients[c].dead => r.dead,
         Active(r) => r.fails < MaxFailedPass
  PROVE  Quiet
  BY DEF Quiet, GoodClients, AttemptsLeft

LEMMA SendIsQuiet ==
  ASSUME GoodClients, NEW to, clients' = Send(to)
  PROVE  Quiet
<1>1. \A c \in DOMAIN clients : clients[c] \in ClientType
  BY DEF GoodClients
<1>2. \A c \in DOMAIN clients : clients'[c] \in {sendMessage(clients[c]), clients[c]}
  BY DEF Send
<1>3. clients' \in [DOMAIN clients -> ClientType]
  BY <1>1, SendMessageFacts DEF Send
<1>4. ASSUME NEW c \in DOMAIN clients
      PROVE  /\ clients'[c].nick = clients[c].nick
             /\ isRegistered(clients[c]) => isRegistered(clients'[c])
             /\ clients[c].dead => clients'[c].dead
             /\ Active(clients'[c]) => clients'[c].fails < MaxFailedPass
  BY <1>1, <1>2, <1>4, SendMessageFacts DEF GoodClients, AttemptsLeft
<1>5. QED
  BY <1>3, <1>4 DEF Quiet

LEMMA UnchangedIsQuiet ==
  ASSUME GoodClients, UNCHANGED clients
  PROVE  Quiet
  BY DEF Quiet, GoodClients, AttemptsLeft

\* A quiet step keeps what the invariant says of the clients.
LEMMA QuietClients ==
  ASSUME GoodClients, Quiet
  PROVE  GoodClients' /\ DOMAIN clients' = DOMAIN clients
<1>1. DOMAIN clients' = DOMAIN clients
  BY DEF Quiet
<1>2. AttemptsLeft'
  BY <1>1 DEF Quiet, AttemptsLeft
<1>3. NicknamesUnique'
  BY <1>1 DEF Quiet, GoodClients, NicknamesUnique, toIrcLowerCase
<1>4. QED
  BY <1>1, <1>2, <1>3 DEF Quiet, GoodClients

\* ... of the channels, when they stay as they are ...
LEMMA QuietChannel ==
  ASSUME Quiet, NEW chan, GoodChannel(chan, clients)
  PROVE  GoodChannel(chan, clients')
  BY DEF Quiet, GoodChannel

LEMMA QuietChannels ==
  ASSUME GoodChannels, Quiet, UNCHANGED channels
  PROVE  GoodChannels'
  BY QuietChannel DEF GoodChannels

\* ... and of the command in progress.
LEMMA QuietJob ==
  ASSUME GoodJob, Quiet, UNCHANGED <<channels, job>>
  PROVE  GoodJob'
  BY DEF GoodJob, JobIsValid, Quiet

LEMMA QuietStep ==
  ASSUME Inv, Quiet, UNCHANGED <<channels, job>>
  PROVE  Inv'
<1>1. GoodClients /\ GoodChannels /\ GoodJob
  BY InvRegrouped
<1>2. GoodClients' /\ GoodChannels' /\ GoodJob'
  BY <1>1, QuietClients, QuietChannels, QuietJob
<1>3. QED
  BY <1>2, InvRegrouped, PTL

\* One channel replaced by another that is good, in a quiet step.
LEMMA SetChannelStep ==
  ASSUME Inv, Quiet, NEW ch \in DOMAIN channels, NEW value,
         SetChannel(ch, value), GoodChannel(value, clients), job' \in JobType,
         JobIsValid'
  PROVE  Inv'
<1>1. GoodClients /\ GoodChannels /\ GoodJob
  BY InvRegrouped
<1>2. GoodClients' /\ DOMAIN clients' = DOMAIN clients
  BY <1>1, QuietClients
<1>3. /\ DOMAIN channels' = DOMAIN channels
      /\ \A x \in DOMAIN channels : channels'[x] = IF x = ch THEN value ELSE channels[x]
  BY <1>1 DEF SetChannel, GoodChannels
<1>4. \A x \in DOMAIN channels : GoodChannel(channels'[x], clients')
  BY <1>1, <1>3, QuietChannel DEF GoodChannels
<1>5. channels' \in [DOMAIN channels' -> ChannelType]
  BY <1>1, <1>3 DEF SetChannel, GoodChannels, GoodChannel
<1>6. GoodChannels'
  BY <1>1, <1>3, <1>4, <1>5 DEF GoodChannels
<1>7. GoodJob'
  BY DEF GoodJob
<1>8. QED
  BY <1>2, <1>6, <1>7, InvRegrouped, PTL
-----------------------------------------------------------------------------
(* Replies and the registration commands.                                  *)

LEMMA ReplyStep ==
  ASSUME Inv, NEW c, Reply(c)
  PROVE  Inv'
  BY InvRegrouped, SendIsQuiet, QuietStep DEF Reply

\* A step that replaces the record of one client.
LEMMA ChangeOneStep ==
  ASSUME Inv, NEW c \in DOMAIN clients, NEW r \in ClientType,
         clients' = [clients EXCEPT ![c] = r],
         r.nick = clients[c].nick,
         isRegistered(clients[c]) => isRegistered(r),
         clients[c].dead => r.dead,
         Active(r) => r.fails < MaxFailedPass,
         UNCHANGED <<channels, job>>
  PROVE  Inv'
  BY InvRegrouped, ChangeOneIsQuiet, QuietStep

LEMMA ClientFacts ==
  ASSUME Inv, NEW c \in DOMAIN clients
  PROVE  /\ clients[c] \in ClientType
         /\ clients \in [DOMAIN clients -> ClientType]
         /\ clients[c].reason \in Reasons
         /\ Active(clients[c]) => clients[c].fails < MaxFailedPass
  BY DEF Inv, TypeOK, AttemptsLeft, ClientType

\* markClosing and markDead on one client: QUIT, a closed connection, a socket
\* error, a flushed client.
LEMMA EndingStep ==
  ASSUME Inv, NEW c \in DOMAIN clients, NEW why \in Reasons,
         \/ clients' = [clients EXCEPT ![c] = markClosing(clients[c], why)]
         \/ clients' = [clients EXCEPT ![c] = markDead(clients[c], why)],
         UNCHANGED <<channels, job>>
  PROVE  Inv'
<1>1. CASE clients' = [clients EXCEPT ![c] = markClosing(clients[c], why)]
  BY <1>1, ClientFacts, MarkClosingFacts, ChangeOneStep
<1>2. CASE clients' = [clients EXCEPT ![c] = markDead(clients[c], why)]
  <2>1. ~Active(markDead(clients[c], why))
    BY ClientFacts, MarkDeadFacts DEF Active
  <2>2. QED
    BY <1>2, <2>1, ClientFacts, MarkDeadFacts, ChangeOneStep
<1>3. QED
  BY <1>1, <1>2

LEMMA QuitStep ==
  ASSUME Inv, NEW c \in DOMAIN clients, NEW why \in QuitReasons, Quit(c, why)
  PROVE  Inv'
<1>1. why \in Reasons
  BY DEF QuitReasons, Reasons
<1>2. clients' = [clients EXCEPT ![c] = markClosing(clients[c], why)]
  BY DEF Quit
<1>3. QED
  BY <1>1, <1>2, EndingStep DEF Quit

LEMMA PassStep ==
  ASSUME Inv, NEW c \in DOMAIN clients, PassCommand(c)
  PROVE  Inv'
<1>0. clients[c] \in ClientType /\ Active(clients[c]) /\ clients[c].fails < MaxFailedPass
  BY ClientFacts DEF PassCommand, Dispatch
<1>1. CASE Reply(c)
  BY <1>1, ReplyStep
<1>2. CASE clients' = [clients EXCEPT ![c].passOk = TRUE] /\ UNCHANGED <<channels, job>>
  <2> DEFINE r == [clients[c] EXCEPT !.passOk = TRUE]
  <2>1. /\ r \in ClientType /\ r.nick = clients[c].nick
        /\ isRegistered(clients[c]) => isRegistered(r)
        /\ r.dead = clients[c].dead /\ r.fails = clients[c].fails
    BY <1>0 DEF ClientType, isRegistered
  <2>2. clients' = [clients EXCEPT ![c] = r]
    BY <1>2
  <2>3. QED
    BY <1>0, <1>2, <2>1, <2>2, ChangeOneStep
<1>3. ASSUME NEW failed, failed = sendMessage(recordFailedPassAttempt(clients[c])),
             clients' = [clients EXCEPT ![c] =
                           IF failed.fails >= MaxFailedPass
                           THEN markClosing(failed, "short") ELSE failed],
             UNCHANGED <<channels, job>>
      PROVE  Inv'
  <2> DEFINE counted == recordFailedPassAttempt(clients[c])
             r == IF failed.fails >= MaxFailedPass
                  THEN markClosing(failed, "short") ELSE failed
  <2>1. /\ counted \in ClientType /\ counted.nick = clients[c].nick
        /\ isRegistered(clients[c]) => isRegistered(counted)
        /\ counted.dead = clients[c].dead
    BY <1>0, ClientAssumption DEF recordFailedPassAttempt, ClientType, isRegistered
  <2>2. /\ failed \in ClientType /\ failed.nick = clients[c].nick
        /\ isRegistered(clients[c]) => isRegistered(failed)
        /\ clients[c].dead => failed.dead
    BY <1>3, <2>1, SendMessageFacts
  <2>3. "short" \in Reasons
    BY DEF Reasons
  <2>4. failed.fails \in Nat /\ MaxFailedPass \in Nat
    BY <2>2, ClientAssumption DEF ClientType
  <2>5. /\ r \in ClientType /\ r.nick = clients[c].nick
        /\ isRegistered(clients[c]) => isRegistered(r)
        /\ clients[c].dead => r.dead
        /\ Active(r) => r.fails < MaxFailedPass
    BY <2>2, <2>3, <2>4, MarkClosingFacts
  <2>6. QED
    BY <1>3, <2>5, ChangeOneStep
<1>4. QED
  BY <1>1, <1>2, <1>3 DEF PassCommand

\* The welcome message is ordinary output.
LEMMA WelcomeFacts ==
  ASSUME NEW r \in ClientType
  PROVE  /\ Welcome(r) \in ClientType
         /\ Welcome(r).nick = r.nick
         /\ Welcome(r).fails = r.fails
         /\ isRegistered(r) <=> isRegistered(Welcome(r))
         /\ r.dead => Welcome(r).dead
         /\ Active(Welcome(r)) => Active(r)
  BY SendMessageFacts DEF Welcome

LEMMA UserStep ==
  ASSUME Inv, NEW c \in DOMAIN clients, UserCommand(c)
  PROVE  Inv'
<1>0. clients[c] \in ClientType /\ clients[c].fails < MaxFailedPass
  BY ClientFacts DEF UserCommand, Dispatch
<1>1. CASE Reply(c)
  BY <1>1, ReplyStep
<1>2. CASE /\ clients' = [clients EXCEPT ![c] = Welcome([@ EXCEPT !.userSet = TRUE])]
           /\ UNCHANGED <<channels, job>>
  <2> DEFINE r == [clients[c] EXCEPT !.userSet = TRUE]
  <2>1. /\ r \in ClientType /\ r.nick = clients[c].nick
        /\ isRegistered(clients[c]) => isRegistered(r)
        /\ r.dead = clients[c].dead /\ r.fails = clients[c].fails
    BY <1>0 DEF ClientType, isRegistered
  <2>2. clients' = [clients EXCEPT ![c] = Welcome(r)]
    BY <1>2
  <2>3. /\ Welcome(r) \in ClientType /\ Welcome(r).nick = clients[c].nick
        /\ isRegistered(clients[c]) => isRegistered(Welcome(r))
        /\ clients[c].dead => Welcome(r).dead
        /\ Active(Welcome(r)) => Welcome(r).fails < MaxFailedPass
    BY <1>0, <2>1, WelcomeFacts
  <2> HIDE DEF r
  <2>4. QED
    BY <1>2, <2>2, <2>3, ChangeOneStep
<1>3. QED
  BY <1>1, <1>2 DEF UserCommand
-----------------------------------------------------------------------------
(* NICK: the one command that changes a name.                              *)

\* Client c takes the nickname n, which no other live client has, and the
\* others change quietly.
LEMMA RenameStep ==
  ASSUME Inv, NEW c \in DOMAIN clients, NEW n \in Nicks,
         findClientByNick(n) \subseteq {c},
         clients' \in [DOMAIN clients -> ClientType],
         clients'[c].nick = n,
         \A d \in DOMAIN clients :
            /\ d # c => clients'[d].nick = clients[d].nick
            /\ isRegistered(clients[d]) => isRegistered(clients'[d])
            /\ clients[d].dead => clients'[d].dead
            /\ Active(clients'[d]) => clients'[d].fails < MaxFailedPass,
         UNCHANGED <<channels, job>>
  PROVE  Inv'
<1>1. GoodClients /\ GoodChannels /\ GoodJob
  BY InvRegrouped
<1>2. DOMAIN clients' = DOMAIN clients
  OBVIOUS
<1>3. \A d \in DOMAIN clients :
        ~clients[d].dead /\ toIrcLowerCase(clients[d].nick) = toIrcLowerCase(n) => d = c
  BY DEF findClientByNick
<1>4. NicknamesUnique'
  <2> SUFFICES ASSUME NEW d \in DOMAIN clients, NEW e \in DOMAIN clients,
                      ~clients'[d].dead, ~clients'[e].dead, clients'[d].nick # NoNick,
                      toIrcLowerCase(clients'[d].nick) = toIrcLowerCase(clients'[e].nick)
               PROVE  d = e
    BY <1>2 DEF NicknamesUnique, toIrcLowerCase
  <2>1. ~clients[d].dead /\ ~clients[e].dead
    OBVIOUS
  <2>2. CASE d = c \/ e = c
    BY <1>3, <2>1, <2>2
  <2>3. CASE d # c /\ e # c
    BY <1>1, <2>1, <2>3 DEF GoodClients, NicknamesUnique
  <2>4. QED
    BY <2>2, <2>3
<1>5. GoodClients'
  BY <1>1, <1>2, <1>4 DEF GoodClients, AttemptsLeft
<1>6. GoodChannels'
  <2>1. ASSUME NEW chan, GoodChannel(chan, clients)
        PROVE  GoodChannel(chan, clients')
    BY <1>2, <2>1 DEF GoodChannel
  <2>2. QED
    BY <1>1, <2>1 DEF GoodChannels
<1>7. GoodJob'
  BY <1>1, <1>2 DEF GoodJob, JobIsValid
<1>8. QED
  BY <1>5, <1>6, <1>7, InvRegrouped, PTL

LEMMA NickStep ==
  ASSUME Inv, NEW c \in DOMAIN clients, NEW n \in Nicks, NickCommand(c, n)
  PROVE  Inv'
<1>0. clients[c] \in ClientType /\ clients[c].fails < MaxFailedPass
  BY ClientFacts DEF NickCommand, Dispatch
<1>1. CASE Reply(c)
  BY <1>1, ReplyStep
<1>2. ASSUME NEW to, findClientByNick(n) \subseteq {c},
             isRegistered(clients[c]),
             clients' = [Send(to) EXCEPT ![c].nick = n],
             UNCHANGED <<channels, job>>
      PROVE  Inv'
  <2> DEFINE sent(d) == IF d \in to THEN sendMessage(clients[d]) ELSE clients[d]
  <2>1. \A d \in DOMAIN clients :
           /\ sent(d) \in ClientType /\ sent(d).nick = clients[d].nick
           /\ isRegistered(clients[d]) => isRegistered(sent(d))
           /\ clients[d].dead => sent(d).dead
           /\ Active(sent(d)) => sent(d).fails < MaxFailedPass
    BY ClientFacts, SendMessageFacts
  <2>2. Send(to) = [d \in DOMAIN clients |-> sent(d)]
    BY DEF Send
  <2>3. clients' = [d \in DOMAIN clients |->
                      IF d = c THEN [sent(c) EXCEPT !.nick = n] ELSE sent(d)]
    BY <1>2, <2>2
  <2>4. /\ [sent(c) EXCEPT !.nick = n] \in ClientType
        /\ [sent(c) EXCEPT !.nick = n].nick = n
        /\ isRegistered([sent(c) EXCEPT !.nick = n])
        /\ [sent(c) EXCEPT !.nick = n].dead = sent(c).dead
        /\ [sent(c) EXCEPT !.nick = n].fails = sent(c).fails
        /\ Active([sent(c) EXCEPT !.nick = n]) <=> Active(sent(c))
    <3>1. sent(c) \in ClientType /\ isRegistered(sent(c))
      BY <1>2, <2>1
    <3> HIDE DEF sent
    <3>2. QED
      BY <3>1, ClientAssumption DEF ClientType, isRegistered, Active
  <2> HIDE DEF sent
  <2>5. clients' \in [DOMAIN clients -> ClientType] /\ clients'[c].nick = n
    BY <2>1, <2>3, <2>4
  <2>6. ASSUME NEW d \in DOMAIN clients
        PROVE  /\ d # c => clients'[d].nick = clients[d].nick
               /\ isRegistered(clients[d]) => isRegistered(clients'[d])
               /\ clients[d].dead => clients'[d].dead
               /\ Active(clients'[d]) => clients'[d].fails < MaxFailedPass
    <3>1. CASE d = c
      BY <2>1, <2>3, <2>4, <3>1
    <3>2. CASE d # c
      BY <2>1, <2>3, <3>2
    <3>3. QED
      BY <3>1, <3>2
  <2>7. QED
    BY <1>2, <2>5, <2>6, RenameStep
<1>3. CASE /\ findClientByNick(n) \subseteq {c}
           /\ ~isRegistered(clients[c])
           /\ clients' = [clients EXCEPT ![c] = Welcome([@ EXCEPT !.nick = n])]
           /\ UNCHANGED <<channels, job>>
  <2> DEFINE r == [clients[c] EXCEPT !.nick = n]
  <2>1. /\ r \in ClientType /\ r.nick = n
        /\ r.dead = clients[c].dead /\ r.fails = clients[c].fails
    BY <1>0 DEF ClientType
  <2>2. clients' = [clients EXCEPT ![c] = Welcome(r)]
    BY <1>3
  <2> HIDE DEF r
  <2>3. /\ Welcome(r) \in ClientType /\ Welcome(r).nick = n
        /\ clients[c].dead => Welcome(r).dead
        /\ Welcome(r).fails < MaxFailedPass
    BY <1>0, <2>1, WelcomeFacts
  <2>4. \A d \in DOMAIN clients :
           /\ clients[d] \in ClientType
           /\ Active(clients[d]) => clients[d].fails < MaxFailedPass
    BY ClientFacts
  <2>5. clients \in [DOMAIN clients -> ClientType]
    BY ClientFacts
  <2>6. QED
    BY <1>3, <2>2, <2>3, <2>4, <2>5, RenameStep, ZenonT(60)
<1>4. QED
  BY <1>1, <1>2, <1>3 DEF NickCommand
-----------------------------------------------------------------------------
(* The methods of Channel.                                                 *)

LEMMA RemoveMemberGood ==
  ASSUME NEW chan, NEW cls, NEW c, GoodChannel(chan, cls)
  PROVE  /\ GoodChannel(removeMember(chan, c), cls)
         /\ removeMember(chan, c).members = chan.members \ {c}
         /\ removeMember(chan, c).operators = chan.operators \ {c}
         /\ removeMember(chan, c).invited = chan.invited
<1>1. /\ removeMember(chan, c) \in ChannelType
      /\ removeMember(chan, c).members = chan.members \ {c}
      /\ removeMember(chan, c).operators = chan.operators \ {c}
      /\ removeMember(chan, c).invited = chan.invited
  BY DEF GoodChannel, removeMember, ChannelType
<1>2. QED
  BY <1>1 DEF GoodChannel

LEMMA AdmitGood ==
  ASSUME NEW chan, NEW cls, NEW c \in Fds, GoodChannel(chan, cls),
         c \in DOMAIN cls, isRegistered(cls[c])
  PROVE  /\ GoodChannel(removeInvited(addMember(chan, c), c), cls)
         /\ removeInvited(addMember(chan, c), c).members = chan.members \cup {c}
<1> DEFINE new == removeInvited(addMember(chan, c), c)
<1>1. /\ new \in ChannelType
      /\ new.members = chan.members \cup {c}
      /\ new.operators = chan.operators
      /\ new.invited = chan.invited \ {c}
  BY DEF GoodChannel, removeInvited, addMember, ChannelType
<1>2. QED
  BY <1>1 DEF GoodChannel

LEMMA FirstMemberGood ==
  ASSUME NEW cls, NEW c \in Fds, c \in DOMAIN cls, isRegistered(cls[c])
  PROVE  GoodChannel(addOperator(addMember([NewChannel EXCEPT
                        !.topicRestricted = TRUE], c), c), cls)
<1> DEFINE new == addOperator(addMember([NewChannel EXCEPT
                        !.topicRestricted = TRUE], c), c)
<1>1. /\ new \in ChannelType
      /\ new.members = {c} /\ new.operators = {c} /\ new.invited = {}
  BY DEF addOperator, addMember, NewChannel, ChannelType
<1>2. QED
  BY <1>1 DEF GoodChannel

LEMMA InviteGood ==
  ASSUME NEW chan, NEW cls, NEW c \in Fds, GoodChannel(chan, cls),
         c \in DOMAIN cls, c \notin chan.members
  PROVE  GoodChannel(addInvited(chan, c), cls)
<1>1. /\ addInvited(chan, c) \in ChannelType
      /\ addInvited(chan, c).members = chan.members
      /\ addInvited(chan, c).operators = chan.operators
      /\ addInvited(chan, c).invited = chan.invited \cup {c}
  BY DEF GoodChannel, addInvited, ChannelType
<1>2. QED
  BY <1>1 DEF GoodChannel

\* Changing modes or the topic, or an operator among the members.
LEMMA SettingsGood ==
  ASSUME NEW chan, NEW cls, GoodChannel(chan, cls), NEW new \in ChannelType,
         new.members = chan.members, new.invited = chan.invited,
         new.operators \subseteq chan.members
  PROVE  GoodChannel(new, cls)
  BY DEF GoodChannel
-----------------------------------------------------------------------------
(* The looping commands.                                                   *)

\* The command in progress, unless it is a MODE, survives a quiet step that
\* leaves it alone, whatever happens to the channels.
LEMMA JobKept ==
  ASSUME Inv, Quiet, UNCHANGED job, job.cmd # "MODE"
  PROVE  job' \in JobType /\ JobIsValid'
<1>1. GoodJob
  BY InvRegrouped
<1>2. QED
  BY <1>1 DEF GoodJob, JobIsValid, Quiet

LEMMA StartStep ==
  ASSUME Inv, NEW c \in DOMAIN clients, NEW verb \in LoopVerbs,
         StartCommand(c, verb)
  PROVE  Inv'
<1>1. GoodClients /\ GoodChannels
  BY InvRegrouped
<1>2. isRegistered(clients[c]) /\ c \in Fds
  BY <1>1 DEF StartCommand, Dispatch, LoopVerbs, GoodClients
<1>3. Quiet
  BY <1>1, UnchangedIsQuiet DEF StartCommand
<1>4. GoodJob'
  BY <1>2 DEF StartCommand, Job, GoodJob, JobType, JobIsValid, LoopVerbs
<1>5. GoodClients' /\ GoodChannels'
  BY <1>1, <1>3, QuietClients, QuietChannels DEF StartCommand
<1>6. QED
  BY <1>4, <1>5, InvRegrouped, PTL

\* Commands end without touching the maps.
LEMMA NoJobStep ==
  ASSUME Inv, Quiet, UNCHANGED channels, job' = NoJob
  PROVE  Inv'
<1>1. GoodClients /\ GoodChannels
  BY InvRegrouped
<1>2. GoodJob'
  BY DEF GoodJob, JobType, JobIsValid, NoJob
<1>3. GoodClients' /\ GoodChannels'
  BY <1>1, QuietClients, QuietChannels
<1>4. QED
  BY <1>2, <1>3, InvRegrouped, PTL

LEMMA EndStep ==
  ASSUME Inv, EndCommand \/ EndPart
  PROVE  Inv'
  BY InvRegrouped, UnchangedIsQuiet, NoJobStep DEF EndCommand, EndPart

\* The issuer of the command in progress is a registered client.
LEMMA IssuerFacts ==
  ASSUME Inv, job # NoJob
  PROVE  job.who \in DOMAIN clients /\ job.who \in Fds /\ isRegistered(clients[job.who])
  BY DEF Inv, JobIsValid, TypeOK

LEMMA JoinStep ==
  ASSUME Inv, NEW ch \in ChanNames, NEW key, JoinTarget(ch, key)
  PROVE  Inv'
<1>0. job # NoJob /\ job.cmd # "MODE"
  BY DEF JoinTarget, NoJob
<1>1. /\ job.who \in DOMAIN clients /\ job.who \in Fds
      /\ isRegistered(clients[job.who])
  BY <1>0, IssuerFacts
<1>2. GoodClients /\ GoodChannels
  BY InvRegrouped
<1>3. CASE Reply(job.who)
  BY <1>3, ReplyStep
<1>4. ASSUME NEW new, GoodChannel(new, clients), ch \notin DOMAIN channels,
             channels' = [x \in DOMAIN channels \cup {ch} |->
                            IF x = ch THEN new ELSE channels[x]],
             clients' = Send({job.who}), UNCHANGED job
      PROVE  Inv'
  <2>1. Quiet
    BY <1>2, <1>4, SendIsQuiet
  <2>2. \A x \in DOMAIN channels' : GoodChannel(channels'[x], clients')
    BY <1>2, <1>4, <2>1, QuietChannel DEF GoodChannels
  <2>3. channels' \in [DOMAIN channels' -> ChannelType]
    BY <1>2, <1>4 DEF GoodChannels, GoodChannel
  <2>4. GoodChannels'
    BY <1>2, <1>4, <2>2, <2>3 DEF GoodChannels
  <2>5. GoodClients' /\ GoodJob'
    BY <1>0, <1>2, <1>4, <2>1, QuietClients, JobKept DEF GoodJob
  <2>6. QED
    BY <2>4, <2>5, InvRegrouped, PTL
<1>5. CASE /\ ch \in DOMAIN channels
           /\ SetChannel(ch, removeInvited(addMember(channels[ch], job.who), job.who))
           /\ clients' = Send(channels[ch].members \cup {job.who})
           /\ UNCHANGED job
  <2>1. Quiet
    BY <1>2, <1>5, SendIsQuiet
  <2>2. GoodChannel(removeInvited(addMember(channels[ch], job.who), job.who), clients)
    BY <1>1, <1>2, <1>5, AdmitGood DEF GoodChannels
  <2>3. QED
    BY <1>0, <1>5, <2>1, <2>2, JobKept, SetChannelStep
<1>6. QED
  BY <1>1, <1>3, <1>4, <1>5, FirstMemberGood DEF JoinTarget

LEMMA PartStep ==
  ASSUME Inv, NEW ch \in DOMAIN channels, PartTarget(ch)
  PROVE  Inv'
<1>0. job # NoJob /\ job.cmd # "MODE" /\ UNCHANGED job
  BY DEF PartTarget, NoJob
<1>1. GoodClients /\ GoodChannels
  BY InvRegrouped
<1>2. Quiet
  BY <1>1, SendIsQuiet DEF PartTarget
<1>3. CASE SetChannel(ch, removeMember(channels[ch], job.who))
  <2>1. GoodChannel(removeMember(channels[ch], job.who), clients)
    BY <1>1, RemoveMemberGood DEF GoodChannels
  <2>2. QED
    BY <1>0, <1>2, <1>3, <2>1, JobKept, SetChannelStep
<1>4. CASE channels' = Restrict(channels, DOMAIN channels \ {ch})
  <2>1. /\ DOMAIN channels' = DOMAIN channels \ {ch}
        /\ channels' \in [DOMAIN channels' -> ChannelType]
        /\ \A x \in DOMAIN channels' : channels'[x] = channels[x]
    BY <1>1, <1>4 DEF Restrict, GoodChannels
  <2>2. \A x \in DOMAIN channels' : GoodChannel(channels'[x], clients')
    BY <1>1, <1>2, <2>1, QuietChannel DEF GoodChannels
  <2>3. GoodChannels'
    BY <1>1, <2>1, <2>2 DEF GoodChannels
  <2>4. GoodClients' /\ GoodJob'
    BY <1>0, <1>1, <1>2, QuietClients, JobKept DEF GoodJob
  <2>5. QED
    BY <2>3, <2>4, InvRegrouped, PTL
<1>5. QED
  BY <1>3, <1>4 DEF PartTarget

LEMMA KickStep ==
  ASSUME Inv, NEW ch \in ChanNames, NEW n \in Nicks, KickTarget(ch, n)
  PROVE  Inv'
<1>0. job # NoJob /\ job.cmd # "MODE"
  BY DEF KickTarget, NoJob
<1>1. GoodClients /\ GoodChannels
  BY InvRegrouped
<1>2. CASE Reply(job.who)
  BY <1>2, ReplyStep
<1>3. ASSUME NEW t, ch \in DOMAIN channels,
             clients' = Send(channels[ch].members) \/ clients' = clients,
             SetChannel(ch, removeMember(channels[ch], t)), UNCHANGED job
      PROVE  Inv'
  <2>1. Quiet
    BY <1>1, <1>3, SendIsQuiet, UnchangedIsQuiet
  <2>2. GoodChannel(removeMember(channels[ch], t), clients)
    BY <1>1, <1>3, RemoveMemberGood DEF GoodChannels
  <2>3. QED
    BY <1>0, <1>3, <2>1, <2>2, JobKept, SetChannelStep
<1>4. QED
  BY <1>2, <1>3 DEF KickTarget

LEMMA PrivmsgStep ==
  ASSUME Inv, \/ \E ch \in ChanNames : PrivmsgChannel(ch)
              \/ \E n \in Nicks : PrivmsgNick(n)
  PROVE  Inv'
  BY InvRegrouped, SendIsQuiet, QuietStep DEF PrivmsgChannel, PrivmsgNick
-----------------------------------------------------------------------------
(* INVITE, TOPIC and MODE.                                                 *)

\* While no command is in progress there is nothing to keep valid.
LEMMA IdleJob ==
  ASSUME job = NoJob, UNCHANGED job
  PROVE  job' \in JobType /\ JobIsValid'
  BY DEF JobType, JobIsValid

LEMMA InviteStep ==
  ASSUME Inv, NEW c \in DOMAIN clients, NEW n \in Nicks, NEW ch \in ChanNames,
         InviteCommand(c, n, ch)
  PROVE  Inv'
<1>0. job = NoJob
  BY DEF InviteCommand, Dispatch
<1>1. GoodClients /\ GoodChannels
  BY InvRegrouped
<1>2. CASE Reply(c)
  BY <1>2, ReplyStep
<1>3. ASSUME NEW t \in findClientByNick(n) \ channels[ch].members,
             ch \in DOMAIN channels,
             SetChannel(ch, addInvited(channels[ch], t)),
             clients' = Send({c, t}), UNCHANGED job
      PROVE  Inv'
  <2>1. Quiet
    BY <1>1, <1>3, SendIsQuiet
  <2>2. t \in DOMAIN clients /\ t \in Fds
    BY <1>1 DEF findClientByNick, GoodClients
  <2>3. GoodChannel(addInvited(channels[ch], t), clients)
    BY <1>1, <1>3, <2>2, InviteGood DEF GoodChannels
  <2>4. QED
    BY <1>0, <1>3, <2>1, <2>3, IdleJob, SetChannelStep
<1>4. QED
  BY <1>2, <1>3 DEF InviteCommand

LEMMA TopicStep ==
  ASSUME Inv, NEW c \in DOMAIN clients, NEW ch \in ChanNames,
         NEW topic \in Topics \cup {NoTopic}, TopicCommand(c, ch, topic)
  PROVE  Inv'
<1>0. job = NoJob
  BY DEF TopicCommand, Dispatch
<1>1. GoodClients /\ GoodChannels
  BY InvRegrouped
<1>2. CASE Reply(c)
  BY <1>2, ReplyStep
<1>3. CASE /\ ch \in DOMAIN channels
           /\ SetChannel(ch, [channels[ch] EXCEPT !.topic = topic])
           /\ clients' = Send(channels[ch].members) \/ clients' = clients
           /\ UNCHANGED job
  <2>1. Quiet
    BY <1>1, <1>3, SendIsQuiet, UnchangedIsQuiet
  <2> DEFINE new == [channels[ch] EXCEPT !.topic = topic]
  <2>2. GoodChannel(channels[ch], clients)
    BY <1>1, <1>3 DEF GoodChannels
  <2>3. /\ new \in ChannelType
        /\ new.members = channels[ch].members
        /\ new.operators = channels[ch].operators
        /\ new.invited = channels[ch].invited
    BY <2>2 DEF GoodChannel, ChannelType
  <2> HIDE DEF new
  <2>4. GoodChannel(new, clients)
    BY <2>2, <2>3, SettingsGood DEF GoodChannel
  <2>5. SetChannel(ch, new)
    BY <1>3 DEF new
  <2>6. QED
    BY <1>0, <1>3, <2>1, <2>4, <2>5, IdleJob, SetChannelStep
<1>4. QED
  BY <1>2, <1>3 DEF TopicCommand

LEMMA ModeStartStep ==
  ASSUME Inv, NEW c \in DOMAIN clients, NEW ch \in ChanNames, ModeCommand(c, ch)
  PROVE  Inv'
<1>1. GoodClients /\ GoodChannels
  BY InvRegrouped
<1>2. CASE Reply(c)
  BY <1>2, ReplyStep
<1>3. CASE /\ ch \in DOMAIN channels /\ c \in channels[ch].operators
           /\ job' = ModeJob(c, ch) /\ UNCHANGED <<clients, channels>>
  <2>1. isRegistered(clients[c]) /\ c \in Fds
    BY <1>1 DEF ModeCommand, Dispatch, GoodClients
  <2>2. c \in channels[ch].members
    BY <1>1, <1>3 DEF GoodChannels, GoodChannel
  <2>3. GoodJob'
    BY <1>3, <2>1, <2>2 DEF GoodJob, JobType, JobIsValid, ModeJob
  <2>4. Quiet
    BY <1>1, <1>3, UnchangedIsQuiet
  <2>5. GoodClients' /\ GoodChannels'
    BY <1>1, <1>3, <2>4, QuietClients, QuietChannels
  <2>6. QED
    BY <2>3, <2>5, InvRegrouped, PTL
<1>4. QED
  BY <1>2, <1>3 DEF ModeCommand

\* The MODE in progress: its channel exists and its issuer is in it.
LEMMA ModeFacts ==
  ASSUME Inv, job.cmd = "MODE"
  PROVE  /\ job \in [cmd: {"MODE"}, who: Fds, chan: ChanNames,
                     plus: BOOLEAN, applied: BOOLEAN]
         /\ job # NoJob
         /\ job.chan \in DOMAIN channels
         /\ job.who \in ModeChannel.members
         /\ job.who \in DOMAIN clients
         /\ isRegistered(clients[job.who])
         /\ GoodChannel(ModeChannel, clients)
<1>1. GoodChannels /\ GoodJob
  BY InvRegrouped
<1>2. job \in [cmd: {"MODE"}, who: Fds, chan: ChanNames, plus: BOOLEAN, applied: BOOLEAN]
  BY <1>1 DEF GoodJob, JobType, NoJob
<1>3. job # NoJob
  BY DEF NoJob
<1>4. QED
  BY <1>1, <1>2, <1>3 DEF GoodJob, JobIsValid, ModeChannel, GoodChannels

\* A letter that changes settings or operators of the channel.
LEMMA ApplyStep ==
  ASSUME Inv, job.cmd = "MODE", NEW new \in ChannelType, Apply(new),
         new.members = ModeChannel.members, new.invited = ModeChannel.invited,
         new.operators \subseteq ModeChannel.members
  PROVE  Inv'
<1>1. GoodClients /\ GoodChannels
  BY InvRegrouped
<1>2. Quiet
  BY <1>1, UnchangedIsQuiet DEF Apply
<1>3. GoodChannel(new, clients)
  BY ModeFacts, SettingsGood
<1>4. job' \in JobType /\ job'.who = job.who /\ job'.chan = job.chan
  BY ModeFacts DEF Apply, JobType
<1>5. channels'[job.chan] = new /\ job.chan \in DOMAIN channels'
  BY <1>1, ModeFacts DEF Apply, SetChannel, GoodChannels
<1>6. JobIsValid'
  BY <1>4, <1>5, ModeFacts DEF JobIsValid, Apply
<1>7. QED
  BY <1>2, <1>3, <1>4, <1>6, ModeFacts, SetChannelStep DEF Apply

LEMMA ModeSignStep ==
  ASSUME Inv, ModeSign
  PROVE  Inv'
<1>1. GoodClients /\ GoodChannels
  BY InvRegrouped
<1>2. Quiet
  BY <1>1, UnchangedIsQuiet DEF ModeSign
<1>3. /\ job' \in JobType /\ job' # NoJob
      /\ job'.who = job.who /\ job'.chan = job.chan
  BY ModeFacts DEF ModeSign, JobType, NoJob
<1>4. GoodJob'
  BY <1>3, ModeFacts DEF ModeSign, GoodJob, JobIsValid, ModeChannel
<1>5. GoodClients' /\ GoodChannels'
  BY <1>1, <1>2, QuietClients, QuietChannels DEF ModeSign
<1>6. QED
  BY <1>4, <1>5, InvRegrouped, PTL

LEMMA ModeFlagStep ==
  ASSUME Inv, ModeFlag
  PROVE  Inv'
<1>1. job.plus \in BOOLEAN /\ GoodChannel(ModeChannel, clients)
  BY ModeFacts DEF ModeFlag
<1>2. ASSUME NEW new, Apply(new),
             \/ new = [ModeChannel EXCEPT !.inviteOnly = job.plus]
             \/ new = [ModeChannel EXCEPT !.topicRestricted = job.plus]
      PROVE  Inv'
  <2>1. /\ new \in ChannelType
        /\ new.members = ModeChannel.members
        /\ new.operators = ModeChannel.operators
        /\ new.invited = ModeChannel.invited
    BY <1>1, <1>2 DEF GoodChannel, ChannelType
  <2>2. QED
    BY <1>1, <1>2, <2>1, ApplyStep DEF ModeFlag, GoodChannel
<1>3. QED
  BY <1>2 DEF ModeFlag

LEMMA ModeKeyStep ==
  ASSUME Inv, NEW key \in Keys \cup {NoKey}, ModeKey(key)
  PROVE  Inv'
<1>1. GoodChannel(ModeChannel, clients)
  BY ModeFacts DEF ModeKey
<1>2. CASE Reply(job.who)
  BY <1>2, ReplyStep
<1>3. ASSUME NEW k \in Keys \cup {NoKey},
             Apply([ModeChannel EXCEPT !.password = k])
      PROVE  Inv'
  <2> DEFINE new == [ModeChannel EXCEPT !.password = k]
  <2>1. /\ new \in ChannelType
        /\ new.members = ModeChannel.members
        /\ new.operators = ModeChannel.operators
        /\ new.invited = ModeChannel.invited
    BY <1>1 DEF GoodChannel, ChannelType
  <2>2. Apply(new)
    BY <1>3
  <2> HIDE DEF new
  <2>3. QED
    BY <1>1, <2>1, <2>2, ApplyStep DEF ModeKey, GoodChannel
<1>4. QED
  BY <1>2, <1>3 DEF ModeKey

\* A limit that passes the test "limit > 0" is a natural number.
LEMMA AtoiFacts ==
  ASSUME NEW a \in LimitArgs
  PROVE  atoi(a) \in Int
<1>1. (IF a > LongMax THEN LongMax ELSE a) \in Nat
  BY CommandsAssumption
<1>2. ((IF a > LongMax THEN LongMax ELSE a) % IntModulus) \in Int
  BY <1>1, CommandsAssumption
<1>3. QED
  BY <1>2, CommandsAssumption DEF atoi

LEMMA ModeLimitStep ==
  ASSUME Inv, NEW a \in LimitArgs, ModeLimit(a)
  PROVE  Inv'
<1>1. GoodChannel(ModeChannel, clients)
  BY ModeFacts DEF ModeLimit
<1>2. CASE Reply(job.who)
  BY <1>2, ReplyStep
<1>3. ASSUME NEW limit \in Nat,
             Apply([ModeChannel EXCEPT !.userLimit = limit])
      PROVE  Inv'
  <2> DEFINE new == [ModeChannel EXCEPT !.userLimit = limit]
  <2>1. /\ new \in ChannelType
        /\ new.members = ModeChannel.members
        /\ new.operators = ModeChannel.operators
        /\ new.invited = ModeChannel.invited
    BY <1>1 DEF GoodChannel, ChannelType
  <2>2. Apply(new)
    BY <1>3
  <2> HIDE DEF new
  <2>3. QED
    BY <1>1, <2>1, <2>2, ApplyStep DEF ModeLimit, GoodChannel
<1>4. CASE atoi(a) > 0 /\ Apply([ModeChannel EXCEPT !.userLimit = atoi(a)])
  <2>1. atoi(a) \in Nat
    BY <1>4, AtoiFacts
  <2>2. QED
    BY <1>3, <1>4, <2>1
<1>5. QED
  BY <1>2, <1>3, <1>4 DEF ModeLimit

LEMMA ModeOperatorStep ==
  ASSUME Inv, NEW n \in Nicks, ModeOperator(n)
  PROVE  Inv'
<1>1. GoodChannel(ModeChannel, clients)
  BY ModeFacts DEF ModeOperator
<1>2. CASE Reply(job.who)
  BY <1>2, ReplyStep
<1>3. ASSUME NEW t \in ModeChannel.members, NEW new, Apply(new),
             \/ new = addOperator(ModeChannel, t)
             \/ new = removeOperator(ModeChannel, t)
      PROVE  Inv'
  <2>1. /\ new \in ChannelType
        /\ new.members = ModeChannel.members
        /\ new.operators \subseteq ModeChannel.operators \cup {t}
        /\ new.invited = ModeChannel.invited
    BY <1>1, <1>3 DEF GoodChannel, ChannelType, addOperator, removeOperator
  <2>2. QED
    BY <1>1, <1>3, <2>1, ApplyStep DEF ModeOperator, GoodChannel
<1>4. QED
  BY <1>2, <1>3 DEF ModeOperator

LEMMA ModeEndStep ==
  ASSUME Inv, ModeEnd
  PROVE  Inv'
<1>1. clients' = Send(ModeChannel.members) \/ clients' = clients
  BY DEF ModeEnd
<1>2. Quiet
  BY <1>1, InvRegrouped, SendIsQuiet, UnchangedIsQuiet
<1>3. QED
  BY <1>2, NoJobStep DEF ModeEnd
-----------------------------------------------------------------------------
(* Connections.                                                            *)

LEMMA AcceptStep ==
  ASSUME Inv, NEW c \in Fds, NEW ip \in Ips, acceptNewClient(c, ip)
  PROVE  Inv'
<1>0. c \notin DOMAIN clients /\ job = NoJob /\ UNCHANGED <<channels, job>>
  BY DEF acceptNewClient
<1>1. GoodClients /\ GoodChannels
  BY InvRegrouped
<1>2. /\ NewClient(ip) \in ClientType
      /\ NewClient(ip).nick = NoNick
      /\ NewClient(ip).fails < MaxFailedPass
  BY ClientAssumption DEF NewClient, ClientType, Reasons
<1>3. /\ DOMAIN clients' = DOMAIN clients \cup {c}
      /\ clients' \in [DOMAIN clients' -> ClientType]
      /\ clients'[c] = NewClient(ip)
      /\ \A d \in DOMAIN clients : clients'[d] = clients[d]
  BY <1>0, <1>1, <1>2 DEF acceptNewClient, GoodClients
<1>4. \A d \in DOMAIN clients :
        toIrcLowerCase(clients[d].nick) = NoNick => clients[d].nick = NoNick
  BY <1>1, ClientAssumption, CommandsAssumption DEF GoodClients, ClientType, toIrcLowerCase
<1>5. NicknamesUnique'
  BY <1>1, <1>2, <1>3, <1>4 DEF GoodClients, NicknamesUnique, toIrcLowerCase
<1>6. GoodClients'
  BY <1>1, <1>2, <1>3, <1>5 DEF GoodClients, AttemptsLeft
<1>7. GoodChannels'
  <2>1. ASSUME NEW chan, GoodChannel(chan, clients)
        PROVE  GoodChannel(chan, clients')
    BY <1>3, <2>1 DEF GoodChannel
  <2>2. QED
    BY <1>0, <1>1, <2>1 DEF GoodChannels
<1>8. GoodJob'
  BY <1>0, IdleJob DEF GoodJob
<1>9. QED
  BY <1>6, <1>7, <1>8, InvRegrouped, PTL

LEMMA WriteStep ==
  ASSUME Inv, NEW c \in DOMAIN clients, NEW n \in 1..MaxSendBuffer,
         handleClientWrite(c, n)
  PROVE  Inv'
<1> DEFINE r == consumeSendBuffer(clients[c], n)
<1>1. clients[c] \in ClientType /\ clients' = [clients EXCEPT ![c] = r]
  BY ClientFacts DEF handleClientWrite
<1>2. clients[c].out - n \in 0..MaxSendBuffer
  BY <1>1, ClientAssumption DEF handleClientWrite, ClientType
<1>3. /\ r \in ClientType /\ r.nick = clients[c].nick
      /\ isRegistered(clients[c]) => isRegistered(r)
      /\ clients[c].dead => r.dead
      /\ Active(r) => Active(clients[c])
      /\ r.fails = clients[c].fails
  BY <1>1, <1>2 DEF consumeSendBuffer, ClientType, isRegistered, Active
<1> HIDE DEF r
<1>4. QED
  BY <1>1, <1>3, ClientFacts, ChangeOneStep DEF handleClientWrite

LEMMA DisconnectStep ==
  ASSUME Inv, NEW c \in DOMAIN clients, disconnectClient(c)
  PROVE  Inv'
<1>0. /\ job = NoJob /\ UNCHANGED job
      /\ channels' = [ch \in DOMAIN channels |->
                         removeInvited(removeMember(channels[ch], c), c)]
  BY DEF disconnectClient
<1>1. GoodClients /\ GoodChannels
  BY InvRegrouped
<1>2. PICK to : clients' = Restrict(Send(to), DOMAIN clients \ {c})
  BY DEF disconnectClient
<1>3. /\ DOMAIN clients' = DOMAIN clients \ {c}
      /\ \A d \in DOMAIN clients' :
            clients'[d] = IF d \in to THEN sendMessage(clients[d]) ELSE clients[d]
  BY <1>2 DEF Restrict, Send
<1>4. \A d \in DOMAIN clients' :
         /\ clients'[d] \in ClientType
         /\ clients'[d].nick = clients[d].nick
         /\ isRegistered(clients[d]) => isRegistered(clients'[d])
         /\ clients[d].dead => clients'[d].dead
         /\ Active(clients'[d]) => clients'[d].fails < MaxFailedPass
  BY <1>3, ClientFacts, SendMessageFacts
<1>5. clients' \in [DOMAIN clients' -> ClientType]
  BY <1>2, <1>3, <1>4 DEF Restrict
<1>6. NicknamesUnique'
  BY <1>1, <1>3, <1>4 DEF GoodClients, NicknamesUnique, toIrcLowerCase
<1>7. GoodClients'
  BY <1>1, <1>3, <1>4, <1>5, <1>6 DEF GoodClients, AttemptsLeft
<1>8. ASSUME NEW ch \in DOMAIN channels
      PROVE  GoodChannel(removeInvited(removeMember(channels[ch], c), c), clients')
  <2> DEFINE left == removeMember(channels[ch], c)
             new == removeInvited(left, c)
  <2>1. /\ GoodChannel(left, clients)
        /\ left.members = channels[ch].members \ {c}
        /\ left.operators = channels[ch].operators \ {c}
    BY <1>1, RemoveMemberGood, ZenonT(60) DEF GoodChannels
  <2> HIDE DEF left
  <2>2. /\ new \in ChannelType
        /\ new.members = left.members
        /\ new.operators = left.operators
        /\ new.invited = left.invited \ {c}
    BY <2>1 DEF GoodChannel, removeInvited, ChannelType
  <2> HIDE DEF new
  <2>3. GoodChannel(new, clients')
    BY <1>3, <1>4, <2>1, <2>2 DEF GoodChannel
  <2>4. QED
    BY <2>3 DEF new, left
<1>9. GoodChannels'
  <2>1. channels' \in [DOMAIN channels' -> ChannelType]
    BY <1>0, <1>8 DEF GoodChannel
  <2>2. QED
    BY <1>0, <1>1, <1>8, <2>1 DEF GoodChannels
<1>10. GoodJob'
  BY <1>0, IdleJob DEF GoodJob
<1>11. QED
  BY <1>7, <1>9, <1>10, InvRegrouped, PTL
-----------------------------------------------------------------------------
(* Every step.                                                             *)

LEMMA InitInv == Init => Inv
<1> SUFFICES ASSUME Init PROVE Inv
  OBVIOUS
<1>1. clients = <<>> /\ channels = <<>> /\ job = NoJob
  BY DEF Init
<1>2. DOMAIN clients = {} /\ DOMAIN channels = {}
  BY <1>1
<1>3. clients \in [DOMAIN clients -> ClientType] /\ channels \in [DOMAIN channels -> ChannelType]
  BY <1>1, <1>2
<1>4. QED
  BY <1>1, <1>2, <1>3
     DEF Inv, TypeOK, AttemptsLeft, NoDanglingPointers, OperatorsAreMembers,
         MembersAreRegistered, NicknamesUnique, InvitationsConsumed, JobIsValid,
         JobType

LEMMA CommandStep ==
  ASSUME Inv, NEW c \in DOMAIN clients, CommandOf(c)
  PROVE  Inv'
<1>1. CASE ProcessLineReply(c)
  BY <1>1, ReplyStep DEF ProcessLineReply
<1>2. CASE \E verb \in LoopVerbs \ {"JOIN0"} : NotEnoughParameters(c, verb)
  BY <1>2, ReplyStep DEF NotEnoughParameters
<1>3. QED
  BY <1>1, <1>2, QuitStep, PassStep, NickStep, UserStep, StartStep, InviteStep,
     TopicStep, ModeStartStep DEF CommandOf

LEMMA JobStepStep ==
  ASSUME Inv, JobStep
  PROVE  Inv'
  BY JoinStep, PartStep, KickStep, PrivmsgStep, ModeSignStep, ModeFlagStep,
     ModeKeyStep, ModeLimitStep, ModeOperatorStep, EndStep, ModeEndStep
     DEF JobStep

LEMMA ConnectionStepStep ==
  ASSUME Inv, NEW c \in DOMAIN clients, ConnectionStep(c)
  PROVE  Inv'
<1>1. CASE PeerClosed(c)
  BY <1>1, EndingStep DEF PeerClosed, Reasons
<1>2. CASE SocketError(c)
  BY <1>2, EndingStep DEF SocketError, Reasons
<1>3. CASE MarkFlushed(c)
  BY <1>3, ClientFacts, EndingStep DEF MarkFlushed
<1>4. QED
  BY <1>1, <1>2, <1>3, WriteStep, DisconnectStep DEF ConnectionStep

LEMMA NextInv == Inv /\ [Next]_vars => Inv'
<1> SUFFICES ASSUME Inv, [Next]_vars PROVE Inv'
  OBVIOUS
<1>1. CASE \E c \in Fds, ip \in Ips : acceptNewClient(c, ip)
  BY <1>1, AcceptStep
<1>2. CASE \E c \in DOMAIN clients : CommandOf(c)
  BY <1>2, CommandStep
<1>3. CASE JobStep
  BY <1>3, JobStepStep
<1>4. CASE \E c \in DOMAIN clients : ConnectionStep(c)
  BY <1>4, ConnectionStepStep
<1>5. CASE UNCHANGED vars
  BY <1>5, InvRegrouped, UnchangedIsQuiet, QuietStep DEF vars
<1>6. QED
  BY <1>1, <1>2, <1>3, <1>4, <1>5 DEF Next

\* The inductive invariant holds in every reachable state, for any number of
\* clients, channels, nicknames and any limits.
THEOREM InvHolds == Spec => []Inv
  BY InitInv, NextInv, PTL DEF Spec

\* Type correctness: in particular no send buffer grows past MAX_SEND_BUFFER
\* and no connection makes more than MAX_FAILED_PASS_ATTEMPTS wrong guesses.
THEOREM TypeCorrect == Spec => []TypeOK
<1>1. Inv => TypeOK
  BY DEF Inv
<1>2. QED
  BY <1>1, InvHolds, PTL

\* No channel ever refers to a Client object that has been deleted.
THEOREM PointersSafe == Spec => []NoDanglingPointers
<1>1. Inv => NoDanglingPointers
  BY DEF Inv
<1>2. QED
  BY <1>1, InvHolds, PTL

\* Nicknames stay unique under IRC case mapping among the clients that are
\* not dead, whatever Fold is.
THEOREM NicknamesStayUnique == Spec => []NicknamesUnique
<1>1. Inv => NicknamesUnique
  BY DEF Inv
<1>2. QED
  BY <1>1, InvHolds, PTL

\* Operators are members of their channel: whoever is kicked or leaves loses
\* operator status with membership.
THEOREM OperatorsStayMembers == Spec => []OperatorsAreMembers
<1>1. Inv => OperatorsAreMembers
  BY DEF Inv
<1>2. QED
  BY <1>1, InvHolds, PTL

\* Members have completed registration: the gates of processLine hold, also for
\* a JOIN loop that is still running.
THEOREM MembersStayRegistered == Spec => []MembersAreRegistered
<1>1. Inv => MembersAreRegistered
  BY DEF Inv
<1>2. QED
  BY <1>1, InvHolds, PTL

\* An invitation is consumed by the JOIN it admits.
THEOREM InvitationsAreConsumed == Spec => []InvitationsConsumed
<1>1. Inv => InvitationsConsumed
  BY DEF Inv
<1>2. QED
  BY <1>1, InvHolds, PTL

\* What a looping command looked up before its loop stays valid to the end of
\* the loop.
THEOREM JobStaysValid == Spec => []JobIsValid
<1>1. Inv => JobIsValid
  BY DEF Inv
<1>2. QED
  BY <1>1, InvHolds, PTL
-----------------------------------------------------------------------------
(* What a step can do to a channel.                                        *)

Same(ch) == ch \in DOMAIN channels' /\ channels'[ch] = channels[ch]

Joined(ch) ==
    \E c, key :
        /\ c \notin channels[ch].members
        /\ ~Refused(ch, c, key)
        /\ ch \in DOMAIN channels'
        /\ channels'[ch] = removeInvited(addMember(channels[ch], c), c)

Deleted(ch) == channels[ch].members # {} /\ ch \notin DOMAIN channels'

Left(ch) ==
    /\ channels[ch].members # {}
    /\ ch \in DOMAIN channels'
    /\ \E c : channels'[ch] = removeMember(channels[ch], c)

Invited(ch) ==
    /\ channels[ch].members # {}
    /\ ch \in DOMAIN channels'
    /\ \E c : channels'[ch] = addInvited(channels[ch], c)

TopicSet(ch) ==
    /\ channels[ch].members # {}
    /\ ch \in DOMAIN channels'
    /\ \E topic : channels'[ch] = [channels[ch] EXCEPT !.topic = topic]

ModeSet(ch) ==
    /\ job.cmd = "MODE" /\ job.chan = ch
    /\ channels[ch].members # {}
    /\ ch \in DOMAIN channels'
    /\ channels'[ch].members = channels[ch].members

Gone(ch) ==
    /\ ch \in DOMAIN channels'
    /\ \E c : channels'[ch] = removeInvited(removeMember(channels[ch], c), c)

ChannelChange(ch) ==
    \/ Same(ch) \/ Joined(ch) \/ Deleted(ch) \/ Left(ch) \/ Invited(ch)
    \/ TopicSet(ch) \/ ModeSet(ch) \/ Gone(ch)
-----------------------------------------------------------------------------
LEMMA ChannelFacts ==
  ASSUME Inv, NEW ch \in DOMAIN channels
  PROVE  /\ channels[ch] \in ChannelType
         /\ channels \in [DOMAIN channels -> ChannelType]
         /\ channels[ch].operators \subseteq channels[ch].members
         /\ channels[ch].members \cap channels[ch].invited = {}
  BY DEF Inv, TypeOK, OperatorsAreMembers, InvitationsConsumed

LEMMA SetChannelFacts ==
  ASSUME Inv, NEW x \in DOMAIN channels, NEW value, SetChannel(x, value)
  PROVE  /\ DOMAIN channels' = DOMAIN channels
         /\ channels'[x] = value
         /\ \A ch \in DOMAIN channels : ch # x => channels'[ch] = channels[ch]
  BY ChannelFacts DEF SetChannel

LEMMA UnchangedSame ==
  ASSUME NEW ch \in DOMAIN channels, UNCHANGED channels
  PROVE  ChannelChange(ch)
  BY DEF ChannelChange, Same

LEMMA JoinChange ==
  ASSUME Inv, NEW ch \in DOMAIN channels, NEW x \in ChanNames, NEW key,
         JoinTarget(x, key)
  PROVE  ChannelChange(ch)
<1>1. CASE Reply(job.who)
  BY <1>1, UnchangedSame DEF Reply
<1>2. ASSUME NEW new, x \notin DOMAIN channels,
             channels' = [y \in DOMAIN channels \cup {x} |->
                            IF y = x THEN new ELSE channels[y]]
      PROVE  Same(ch)
  BY <1>2 DEF Same
<1>3. CASE /\ x \in DOMAIN channels
           /\ job.who \notin channels[x].members
           /\ ~Refused(x, job.who, key)
           /\ SetChannel(x, removeInvited(addMember(channels[x], job.who), job.who))
  <2>1. CASE ch = x
    BY <1>3, <2>1, SetChannelFacts DEF ChannelChange, Joined
  <2>2. CASE ch # x
    BY <1>3, <2>2, SetChannelFacts DEF ChannelChange, Same
  <2>3. QED
    BY <2>1, <2>2
<1>4. QED
  BY <1>1, <1>2, <1>3 DEF JoinTarget, ChannelChange

LEMMA PartChange ==
  ASSUME Inv, NEW ch \in DOMAIN channels, NEW x \in DOMAIN channels, PartTarget(x)
  PROVE  ChannelChange(ch)
<1>1. CASE channels' = Restrict(channels, DOMAIN channels \ {x})
  <2>1. CASE ch = x
    BY <1>1, <2>1 DEF Restrict, PartTarget, ChannelChange, Deleted
  <2>2. CASE ch # x
    BY <1>1, <2>2 DEF Restrict, ChannelChange, Same
  <2>3. QED
    BY <2>1, <2>2
<1>2. CASE SetChannel(x, removeMember(channels[x], job.who))
  <2>1. CASE ch = x
    BY <1>2, <2>1, SetChannelFacts DEF PartTarget, ChannelChange, Left
  <2>2. CASE ch # x
    BY <1>2, <2>2, SetChannelFacts DEF ChannelChange, Same
  <2>3. QED
    BY <2>1, <2>2
<1>3. QED
  BY <1>1, <1>2 DEF PartTarget

LEMMA KickChange ==
  ASSUME Inv, NEW ch \in DOMAIN channels, NEW x \in ChanNames, NEW n \in Nicks,
         KickTarget(x, n)
  PROVE  ChannelChange(ch)
<1>1. CASE Reply(job.who)
  BY <1>1, UnchangedSame DEF Reply
<1>2. ASSUME NEW t \in channels[x].members, x \in DOMAIN channels,
             SetChannel(x, removeMember(channels[x], t))
      PROVE  ChannelChange(ch)
  <2>1. CASE ch = x
    BY <1>2, <2>1, SetChannelFacts DEF ChannelChange, Left
  <2>2. CASE ch # x
    BY <1>2, <2>2, SetChannelFacts DEF ChannelChange, Same
  <2>3. QED
    BY <2>1, <2>2
<1>3. QED
  BY <1>1, <1>2 DEF KickTarget

LEMMA InviteChange ==
  ASSUME Inv, NEW ch \in DOMAIN channels, NEW c \in DOMAIN clients,
         NEW n \in Nicks, NEW x \in ChanNames, InviteCommand(c, n, x)
  PROVE  ChannelChange(ch)
<1>1. CASE Reply(c)
  BY <1>1, UnchangedSame DEF Reply
<1>2. ASSUME NEW t, x \in DOMAIN channels, c \in channels[x].members,
             SetChannel(x, addInvited(channels[x], t))
      PROVE  ChannelChange(ch)
  <2>1. CASE ch = x
    BY <1>2, <2>1, SetChannelFacts DEF ChannelChange, Invited
  <2>2. CASE ch # x
    BY <1>2, <2>2, SetChannelFacts DEF ChannelChange, Same
  <2>3. QED
    BY <2>1, <2>2
<1>3. QED
  BY <1>1, <1>2 DEF InviteCommand

LEMMA TopicChange ==
  ASSUME Inv, NEW ch \in DOMAIN channels, NEW c \in DOMAIN clients,
         NEW x \in ChanNames, NEW topic, TopicCommand(c, x, topic)
  PROVE  ChannelChange(ch)
<1>1. CASE Reply(c)
  BY <1>1, UnchangedSame DEF Reply
<1>2. CASE /\ x \in DOMAIN channels /\ c \in channels[x].members
           /\ SetChannel(x, [channels[x] EXCEPT !.topic = topic])
  <2>1. CASE ch = x
    BY <1>2, <2>1, SetChannelFacts DEF ChannelChange, TopicSet
  <2>2. CASE ch # x
    BY <1>2, <2>2, SetChannelFacts DEF ChannelChange, Same
  <2>3. QED
    BY <2>1, <2>2
<1>3. QED
  BY <1>1, <1>2 DEF TopicCommand

LEMMA ApplyChange ==
  ASSUME Inv, NEW ch \in DOMAIN channels, job.cmd = "MODE",
         NEW value, Apply(value), value.members = ModeChannel.members
  PROVE  ChannelChange(ch)
<1>1. job.chan \in DOMAIN channels /\ ModeChannel.members # {}
  BY ModeFacts
<1>2. SetChannel(job.chan, value)
  BY DEF Apply
<1>3. CASE ch = job.chan
  BY <1>1, <1>2, <1>3, SetChannelFacts DEF ChannelChange, ModeSet, ModeChannel
<1>4. CASE ch # job.chan
  BY <1>1, <1>2, <1>4, SetChannelFacts DEF ChannelChange, Same
<1>5. QED
  BY <1>3, <1>4

LEMMA ModeChange ==
  ASSUME Inv, NEW ch \in DOMAIN channels,
         \/ ModeSign \/ ModeFlag \/ ModeEnd
         \/ \E key \in Keys \cup {NoKey} : ModeKey(key)
         \/ \E a \in LimitArgs : ModeLimit(a)
         \/ \E n \in Nicks : ModeOperator(n)
  PROVE  ChannelChange(ch)
<1>1. job.cmd = "MODE"
  BY DEF ModeSign, ModeFlag, ModeEnd, ModeKey, ModeLimit, ModeOperator
<1>2. ModeChannel \in ChannelType
  BY <1>1, ModeFacts DEF GoodChannel
<1>3. CASE UNCHANGED channels
  BY <1>3, UnchangedSame
<1>4. ASSUME NEW value, Apply(value),
             \/ \E b : value = [ModeChannel EXCEPT !.inviteOnly = b]
             \/ \E b : value = [ModeChannel EXCEPT !.topicRestricted = b]
             \/ \E k : value = [ModeChannel EXCEPT !.password = k]
             \/ \E l : value = [ModeChannel EXCEPT !.userLimit = l]
             \/ \E t : value = addOperator(ModeChannel, t)
             \/ \E t : value = removeOperator(ModeChannel, t)
      PROVE  ChannelChange(ch)
  <2>1. value.members = ModeChannel.members
    BY <1>2, <1>4 DEF ChannelType, addOperator, removeOperator
  <2>2. QED
    BY <1>1, <1>4, <2>1, ApplyChange
<1>5. CASE ModeSign \/ ModeEnd
  BY <1>3, <1>5 DEF ModeSign, ModeEnd
<1>6. CASE ModeFlag
  BY <1>4, <1>6 DEF ModeFlag
<1>7. CASE \E key \in Keys \cup {NoKey} : ModeKey(key)
  BY <1>3, <1>4, <1>7 DEF ModeKey, Reply
<1>8. CASE \E a \in LimitArgs : ModeLimit(a)
  BY <1>3, <1>4, <1>8 DEF ModeLimit, Reply
<1>9. CASE \E n \in Nicks : ModeOperator(n)
  BY <1>3, <1>4, <1>9 DEF ModeOperator, Reply
<1>10. QED
  BY <1>5, <1>6, <1>7, <1>8, <1>9

\* Every step of the protocol layer changes a channel in one of these ways.
LEMMA ChannelSteps ==
  ASSUME Inv, [Next]_vars, NEW ch \in DOMAIN channels
  PROVE  ChannelChange(ch)
<1>1. CASE UNCHANGED channels
  BY <1>1, UnchangedSame
<1>2. CASE \E c \in Fds, ip \in Ips : acceptNewClient(c, ip)
  BY <1>1, <1>2 DEF acceptNewClient
<1>3. ASSUME NEW c \in DOMAIN clients, CommandOf(c)
      PROVE  ChannelChange(ch)
  <2>1. CASE \/ ProcessLineReply(c) \/ PassCommand(c) \/ UserCommand(c)
             \/ \E why \in QuitReasons : Quit(c, why)
             \/ \E n \in Nicks : NickCommand(c, n)
             \/ \E verb \in LoopVerbs : StartCommand(c, verb)
             \/ \E verb \in LoopVerbs \ {"JOIN0"} : NotEnoughParameters(c, verb)
             \/ \E x \in ChanNames : ModeCommand(c, x)
    BY <1>1, <2>1 DEF ProcessLineReply, PassCommand, UserCommand, Quit,
         NickCommand, StartCommand, NotEnoughParameters, ModeCommand, Reply
  <2>2. QED
    BY <1>3, <2>1, InviteChange, TopicChange DEF CommandOf
<1>4. CASE JobStep
  <2>1. CASE \/ EndCommand \/ EndPart
             \/ \E x \in ChanNames : PrivmsgChannel(x)
             \/ \E n \in Nicks : PrivmsgNick(n)
    BY <1>1, <2>1 DEF EndCommand, EndPart, PrivmsgChannel, PrivmsgNick
  <2>2. QED
    BY <1>4, <2>1, JoinChange, PartChange, KickChange, ModeChange DEF JobStep
<1>5. ASSUME NEW c \in DOMAIN clients, ConnectionStep(c)
      PROVE  ChannelChange(ch)
  <2>1. CASE \/ PeerClosed(c) \/ SocketError(c) \/ MarkFlushed(c)
             \/ \E n \in 1..MaxSendBuffer : handleClientWrite(c, n)
    BY <1>1, <2>1 DEF PeerClosed, SocketError, MarkFlushed, handleClientWrite
  <2>2. CASE disconnectClient(c)
    BY <2>2 DEF disconnectClient, ChannelChange, Gone
  <2>3. QED
    BY <1>5, <2>1, <2>2 DEF ConnectionStep
<1>6. QED
  BY <1>1, <1>2, <1>3, <1>4, <1>5 DEF Next, vars
-----------------------------------------------------------------------------
(* Lockout.                                                                *)

\* An empty invite-only channel without invitations stays one for ever: the
\* consequence, for every instance, of KICK and disconnectClient leaving
\* empty channels in the map.
THEOREM LockoutNeverEnds == Spec => LockoutIsPermanent
<1>1. ASSUME Inv, [Next]_vars, NEW ch \in DOMAIN channels, LockedOut(channels[ch])
      PROVE  ch \in DOMAIN channels' /\ LockedOut(channels'[ch])
  <2>1. /\ channels[ch] \in ChannelType
        /\ channels[ch].members = {} /\ channels[ch].invited = {}
        /\ channels[ch].inviteOnly
    BY <1>1, ChannelFacts DEF LockedOut
  <2>2. ChannelChange(ch)
    BY <1>1, ChannelSteps
  <2>3. CASE Same(ch)
    BY <1>1, <2>3 DEF Same
  <2>4. ~Joined(ch)
    BY <2>1 DEF Joined, Refused
  <2>5. CASE Gone(ch)
    <3>1. PICK c : channels'[ch] = removeInvited(removeMember(channels[ch], c), c)
      BY <2>5 DEF Gone
    <3>2. /\ channels'[ch].members = {} /\ channels'[ch].invited = {}
          /\ channels'[ch].inviteOnly
      BY <2>1, <3>1 DEF removeInvited, removeMember, ChannelType
    <3>3. QED
      BY <2>5, <3>2 DEF Gone, LockedOut
  <2>6. QED
    BY <2>1, <2>2, <2>3, <2>4, <2>5
       DEF ChannelChange, Deleted, Left, Invited, TopicSet, ModeSet
<1>2. Inv /\ [Next]_vars =>
        [\A ch \in DOMAIN channels :
           LockedOut(channels[ch]) =>
              ch \in DOMAIN channels' /\ LockedOut(channels'[ch])]_vars
  BY <1>1
<1>3. QED
  BY <1>2, InvHolds, PTL DEF Spec, LockoutIsPermanent
-----------------------------------------------------------------------------
(* Admission.                                                              *)

LEMMA NewMembers ==
  ASSUME Inv, [Next]_vars, NEW ch \in DOMAIN channels, ch \in DOMAIN channels',
         channels'[ch].members \ channels[ch].members # {}
  PROVE  \E c, key :
            /\ c \notin channels[ch].members
            /\ ~Refused(ch, c, key)
            /\ channels'[ch].members = channels[ch].members \cup {c}
<1>1. channels[ch] \in ChannelType
  BY ChannelFacts
<1>2. ChannelChange(ch)
  BY ChannelSteps
<1>3. CASE Joined(ch)
  <2>1. PICK c, key :
          /\ c \notin channels[ch].members /\ ~Refused(ch, c, key)
          /\ channels'[ch] = removeInvited(addMember(channels[ch], c), c)
    BY <1>3 DEF Joined
  <2>2. channels'[ch].members = channels[ch].members \cup {c}
    BY <1>1, <2>1 DEF removeInvited, addMember, ChannelType
  <2>3. QED
    BY <2>1, <2>2
<1>4. CASE Left(ch) \/ Gone(ch)
  BY <1>1, <1>4, ZenonT(60) DEF Left, Gone, removeInvited, removeMember, ChannelType
<1>5. CASE Invited(ch) \/ TopicSet(ch)
  BY <1>1, <1>5 DEF Invited, TopicSet, addInvited, ChannelType
<1>6. QED
  BY <1>2, <1>3, <1>4, <1>5 DEF ChannelChange, Same, Deleted, ModeSet

\* A channel that exists gains members one at a time, and no JOIN passes +i
\* without an invitation or +l without room.
THEOREM AdmissionHolds == Spec => AdmissionRespected
<1> DEFINE Admitted(ch) ==
      LET new == channels'[ch].members \ channels[ch].members
      IN  new # {} =>
            /\ Cardinality(new) = 1
            /\ channels[ch].inviteOnly => new \subseteq channels[ch].invited
            /\ channels[ch].userLimit > 0 =>
                  Cardinality(channels'[ch].members) <= channels[ch].userLimit
<1>1. ASSUME Inv, [Next]_vars, NEW ch \in DOMAIN channels \cap DOMAIN channels',
             channels'[ch].members \ channels[ch].members # {}
      PROVE  Admitted(ch)
  <2>1. PICK c, key :
          /\ c \notin channels[ch].members
          /\ ~Refused(ch, c, key)
          /\ channels'[ch].members = channels[ch].members \cup {c}
    BY <1>1, NewMembers
  <2>2. channels'[ch].members \ channels[ch].members = {c}
    BY <2>1
  <2>3. Cardinality({c}) = 1
    BY FS_Singleton
  <2>4. channels[ch].inviteOnly => c \in channels[ch].invited
    BY <2>1 DEF Refused
  <2>5. /\ channels[ch].members \subseteq Fds
        /\ channels[ch].userLimit \in Nat
    BY <1>1, ChannelFacts DEF ChannelType
  <2>6. IsFiniteSet(channels[ch].members)
    BY <2>5, ChannelAssumption, FS_Subset
  <2>7. /\ Cardinality(channels[ch].members) \in Nat
        /\ Cardinality(channels'[ch].members) = Cardinality(channels[ch].members) + 1
    BY <2>1, <2>6, FS_CardinalityType, FS_AddElement
  <2>8. channels[ch].userLimit > 0 =>
          ~(Cardinality(channels[ch].members) >= channels[ch].userLimit)
    BY <2>1 DEF Refused
  <2>9. channels[ch].userLimit > 0 =>
          Cardinality(channels'[ch].members) <= channels[ch].userLimit
    BY <2>5, <2>7, <2>8
  <2>10. Cardinality(channels'[ch].members \ channels[ch].members) = 1
    BY <2>2, <2>3
  <2>11. channels[ch].inviteOnly =>
           channels'[ch].members \ channels[ch].members \subseteq channels[ch].invited
    BY <2>2, <2>4
  <2>12. QED
    BY <2>9, <2>10, <2>11
<1>2. Inv /\ [Next]_vars =>
        [\A ch \in DOMAIN channels \cap DOMAIN channels' : Admitted(ch)]_vars
  BY <1>1
<1>3. QED
  BY <1>2, InvHolds, PTL DEF Spec, AdmissionRespected
-----------------------------------------------------------------------------
(* Operators.                                                              *)

\* A MODE on a channel without operators cannot begin.
LEMMA ModeNeedsOperator ==
  ASSUME Inv, [Next]_vars, NEW ch \in DOMAIN channels,
         channels[ch].operators = {}, job'.cmd = "MODE", job'.chan = ch
  PROVE  job.cmd = "MODE" /\ job.chan = ch
<1>1. CASE UNCHANGED job
  BY <1>1
<1>2. CASE job' = NoJob \/ \E c, verb : verb \in LoopVerbs /\ job' = Job(verb, c)
  BY <1>2 DEF NoJob, Job, LoopVerbs
<1>3. CASE job.cmd = "MODE"
  <2>1. job \in [cmd: {"MODE"}, who: Fds, chan: ChanNames,
                plus: BOOLEAN, applied: BOOLEAN]
    BY <1>3, ModeFacts
  <2>2. CASE JobStep
    <3>1. job' = [job EXCEPT !.plus = ~@] \/ job' = [job EXCEPT !.applied = TRUE]
            \/ UNCHANGED job \/ job' = NoJob
      BY <1>3, <2>2 DEF JobStep, JoinTarget, PartTarget, KickTarget,
           PrivmsgChannel, PrivmsgNick, ModeSign, ModeFlag, ModeKey, ModeLimit,
           ModeOperator, EndCommand, EndPart, ModeEnd, Apply, Reply
    <3>2. QED
      BY <1>1, <1>2, <1>3, <2>1, <3>1
  <2>3. CASE ~JobStep
    <3>1. job # NoJob
      BY <1>3 DEF NoJob
    <3>2. UNCHANGED job
      BY <2>3, <3>1 DEF Next, vars, acceptNewClient, CommandOf, ConnectionStep,
           ProcessLineReply, Quit, PassCommand, NickCommand, UserCommand,
           StartCommand, NotEnoughParameters, InviteCommand, TopicCommand,
           ModeCommand, Dispatch, PeerClosed, SocketError, handleClientWrite,
           MarkFlushed, disconnectClient
    <3>3. QED
      BY <1>1, <3>2
  <2>4. QED
    BY <2>2, <2>3
<1>4. CASE job.cmd # "MODE"
  <2>1. CASE \E c \in DOMAIN clients : CommandOf(c)
    <3>1. PICK c \in DOMAIN clients : CommandOf(c)
      BY <2>1
    <3>2. ~\E x \in ChanNames : x = ch /\ x \in DOMAIN channels
             /\ c \in channels[x].operators /\ job' = ModeJob(c, x)
      OBVIOUS
    <3>3. \A x : job' = ModeJob(c, x) => x = ch
      BY DEF ModeJob
    <3>4. CASE \E x \in ChanNames : ModeCommand(c, x)
      BY <1>1, <3>2, <3>3, <3>4 DEF ModeCommand, Reply
    <3>5. CASE ~\E x \in ChanNames : ModeCommand(c, x)
      BY <1>1, <1>2, <3>1, <3>5 DEF CommandOf, ProcessLineReply, Quit, PassCommand,
           NickCommand, UserCommand, StartCommand, NotEnoughParameters,
           InviteCommand, TopicCommand, Reply
    <3>6. QED
      BY <3>4, <3>5
  <2>2. CASE JobStep
    BY <1>1, <1>2, <1>4, <2>2 DEF JobStep, JoinTarget, PartTarget, KickTarget,
         PrivmsgChannel, PrivmsgNick, ModeSign, ModeFlag, ModeKey, ModeLimit,
         ModeOperator, EndCommand, EndPart, ModeEnd, Reply
  <2>3. CASE \/ \E c \in Fds, ip \in Ips : acceptNewClient(c, ip)
             \/ \E c \in DOMAIN clients : ConnectionStep(c)
             \/ UNCHANGED vars
    BY <1>1, <2>3 DEF acceptNewClient, ConnectionStep, PeerClosed, SocketError,
         handleClientWrite, MarkFlushed, disconnectClient, vars
  <2>4. QED
    BY <2>1, <2>2, <2>3 DEF Next
<1>5. QED
  BY <1>3, <1>4

\* A channel that has lost its operators has lost them until it is deleted.
THEOREM OperatorlessForEver == Spec => OperatorlessIsPermanent
<1>1. ASSUME Inv, [Next]_vars, NEW ch \in DOMAIN channels, Operatorless(ch),
             ch \in DOMAIN channels'
      PROVE  Operatorless(ch)'
  <2>1. /\ channels[ch] \in ChannelType
        /\ channels[ch].operators = {}
        /\ ~(job.cmd = "MODE" /\ job.chan = ch)
    BY <1>1, ChannelFacts DEF Operatorless
  <2>2. ~(job'.cmd = "MODE" /\ job'.chan = ch)
    BY <1>1, <2>1, ModeNeedsOperator
  <2>3. ChannelChange(ch)
    BY <1>1, ChannelSteps
  <2>4. channels'[ch].operators = {}
    <3>1. CASE Joined(ch)
      BY <2>1, <3>1 DEF Joined, removeInvited, addMember, ChannelType
    <3>2. CASE Left(ch) \/ Gone(ch)
      BY <2>1, <3>2 DEF Left, Gone, removeInvited, removeMember, ChannelType
    <3>3. CASE Invited(ch) \/ TopicSet(ch)
      BY <2>1, <3>3 DEF Invited, TopicSet, addInvited, ChannelType
    <3>4. QED
      BY <1>1, <2>1, <2>3, <3>1, <3>2, <3>3 DEF ChannelChange, Same, Deleted, ModeSet
  <2>5. QED
    BY <2>2, <2>4 DEF Operatorless
<1>2. Inv /\ [Next]_vars =>
        [\A ch \in DOMAIN channels :
           Operatorless(ch) => ch \notin DOMAIN channels' \/ Operatorless(ch)']_vars
  BY <1>1
<1>3. QED
  BY <1>2, InvHolds, PTL DEF Spec, OperatorlessIsPermanent
=============================================================================
