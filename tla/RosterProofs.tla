---------------------------- MODULE RosterProofs ----------------------------
(***************************************************************************)
(* The rosters of the clients are right for every number of clients,       *)
(* channels and nicknames, as long as no line outgrows 512 bytes and no    *)
(* nickname is taken over from a dead client.                              *)
(*                                                                         *)
(* Whoever hears of a step applies it correctly because no two clients,    *)
(* dead ones included, have the same name (HeardIsRight).  Whoever is in a *)
(* channel the step changes, and is still served after it, hears of it     *)
(* (RosterSteps): that is what the handlers have to do.                    *)
(***************************************************************************)
EXTENDS Roster, CommandsProofs

\* Every line the server builds fits: the broadcasts, and a 353 reply that
\* lists all the clients there can be.
EverythingFits == TextFits = {TRUE} /\ Cardinality(Fds) <= NamesFit

\* No QUIT line is suppressed for its length.
ShortReasons == \A c \in DOMAIN clients : clients[c].reason # "long"

\* No two clients have the same name, whether they are dead or not.
NamesDistinct ==
    \A c, d \in DOMAIN clients :
        clients[c].nick # NoNick /\ Name(c) = Name(d) => c = d

RosterInv ==
    /\ Inv
    /\ ShortReasons
    /\ takeover \in BOOLEAN
    /\ ~takeover => NamesDistinct
    /\ RostersMatch
-----------------------------------------------------------------------------
(* What a step does, as far as the rosters are concerned.                  *)

\* Nobody is renamed; a new client has no name yet.
SameNames ==
    \A c \in DOMAIN clients' :
        clients'[c].nick = IF c \in DOMAIN clients THEN clients[c].nick ELSE NoNick

\* Client c takes a name that no other live client has.
Renames(c, n) ==
    /\ DOMAIN clients' = DOMAIN clients
    /\ findClientByNick(n) \subseteq {c}
    /\ n \in Nicks /\ clients'[c].nick = n
    /\ \A d \in DOMAIN clients \ {c} : clients'[d].nick = clients[d].nick

\* Nobody is revived, and no reason gets long.
NoRevival ==
    \A c \in DOMAIN clients' :
        /\ clients'[c].reason # "long"
        /\ c \in DOMAIN clients /\ Active(clients'[c]) => Active(clients[c])

SameMembers ==
    \A ch \in DOMAIN channels \cap DOMAIN channels' :
        channels'[ch].members = channels[ch].members

\* Who stays in a channel, is served and hears nothing, has missed nothing.
Informed ==
    \A ch \in DOMAIN channels \cap DOMAIN channels' :
        \A m \in channels[ch].members \cap channels'[ch].members :
            Active(clients'[m]) /\ ~Heard(m) =>
                /\ channels'[ch].members = channels[ch].members
                /\ \A c \in channels[ch].members : clients'[c].nick = clients[c].nick

RosterStep ==
    /\ NoRevival /\ Informed
    /\ SameNames \/ \E c \in DOMAIN clients : \E n : Renames(c, n)
-----------------------------------------------------------------------------
(* Clients.                                                                *)

\* Output that is queued for a client that is still served is heard.
LEMMA SendMessageHeard ==
  ASSUME NEW r \in ClientType, r.reason # "long"
  PROVE  /\ sendMessage(r).nick = r.nick
         /\ sendMessage(r).reason # "long"
         /\ Active(sendMessage(r)) => Active(r) /\ sendMessage(r).out > r.out
<1>1. CASE ~Active(r)
  BY <1>1 DEF sendMessage
<1>2. CASE Active(r) /\ r.out >= MaxSendBuffer
  BY <1>2 DEF sendMessage, markDead, Active, ClientType
<1>3. CASE Active(r) /\ ~(r.out >= MaxSendBuffer)
  <2>1. sendMessage(r) = [r EXCEPT !.out = r.out + 1] /\ r.out \in Nat
    BY <1>3, ClientAssumption DEF sendMessage, ClientType
  <2>2. QED
    BY <1>3, <2>1 DEF Active, ClientType
<1>4. QED
  BY <1>1, <1>2, <1>3

LEMMA SendRoster ==
  ASSUME Inv, ShortReasons, NEW to, clients' = Send(to)
  PROVE  /\ DOMAIN clients' = DOMAIN clients /\ SameNames /\ NoRevival
         /\ \A m \in to \cap DOMAIN clients : Active(clients'[m]) => Heard(m)
<1>1. \A c \in DOMAIN clients : clients[c] \in ClientType /\ clients[c].reason # "long"
  BY ClientFacts DEF ShortReasons
<1>2. DOMAIN clients' = DOMAIN clients
  BY DEF Send
<1>3. \A c \in DOMAIN clients :
        clients'[c] = IF c \in to THEN sendMessage(clients[c]) ELSE clients[c]
  BY DEF Send
<1>4. SameNames /\ NoRevival
  BY <1>1, <1>2, <1>3, SendMessageHeard DEF SameNames, NoRevival
<1>5. \A m \in to \cap DOMAIN clients : Active(clients'[m]) => Heard(m)
  BY <1>1, <1>3, SendMessageHeard DEF Heard
<1>6. QED
  BY <1>2, <1>4, <1>5

LEMMA ChangeOneRoster ==
  ASSUME Inv, ShortReasons, NEW c \in DOMAIN clients, NEW r,
         clients' = [clients EXCEPT ![c] = r],
         r.nick = clients[c].nick, r.reason # "long", Active(r) => Active(clients[c])
  PROVE  DOMAIN clients' = DOMAIN clients /\ SameNames /\ NoRevival
<1>1. /\ DOMAIN clients' = DOMAIN clients
      /\ \A d \in DOMAIN clients : clients'[d] = IF d = c THEN r ELSE clients[d]
  OBVIOUS
<1>2. QED
  BY <1>1 DEF SameNames, NoRevival, ShortReasons

LEMMA MarkRoster ==
  ASSUME NEW r \in ClientType, r.reason # "long"
  PROVE  /\ markDead(r, "short").nick = r.nick /\ markDead(r, "short").reason # "long"
         /\ ~Active(markDead(r, "short"))
         /\ markDead(r, r.reason).nick = r.nick /\ markDead(r, r.reason).reason # "long"
         /\ ~Active(markDead(r, r.reason))
         /\ markClosing(r, "short").nick = r.nick /\ markClosing(r, "short").reason # "long"
         /\ ~Active(markClosing(r, "short"))
  BY DEF markDead, markClosing, Active, ClientType

\* A step that changes neither names nor memberships keeps nobody in the dark.
LEMMA StillRoster ==
  ASSUME Inv, DOMAIN clients \subseteq DOMAIN clients', SameNames, NoRevival, SameMembers
  PROVE  RosterStep
<1>1. \A ch \in DOMAIN channels : channels[ch].members \subseteq DOMAIN clients
  BY DEF Inv, NoDanglingPointers
<1>2. Informed
  BY <1>1 DEF Informed, SameMembers, SameNames
<1>3. QED
  BY <1>2 DEF RosterStep
-----------------------------------------------------------------------------
(* The commands of a client.                                               *)

LEMMA SetSameMembers ==
  ASSUME Inv, NEW ch \in DOMAIN channels, NEW value, SetChannel(ch, value),
         value.members = channels[ch].members
  PROVE  SameMembers
  BY SetChannelFacts DEF SameMembers

LEMMA UnchangedRoster ==
  ASSUME Inv, ShortReasons, UNCHANGED clients
  PROVE  DOMAIN clients' = DOMAIN clients /\ SameNames /\ NoRevival
  BY DEF SameNames, NoRevival, ShortReasons

LEMMA ReplyRoster ==
  ASSUME Inv, ShortReasons, NEW c, Reply(c)
  PROVE  RosterStep
  BY SendRoster, StillRoster DEF Reply, SameMembers

\* Steps that leave the channels alone and replace the record of one client.
LEMMA OneRoster ==
  ASSUME Inv, ShortReasons, NEW c \in DOMAIN clients, NEW r,
         clients' = [clients EXCEPT ![c] = r],
         r.nick = clients[c].nick, r.reason # "long", Active(r) => Active(clients[c]),
         UNCHANGED channels
  PROVE  RosterStep
  BY ChangeOneRoster, StillRoster DEF SameMembers

LEMMA PassRoster ==
  ASSUME Inv, ShortReasons, NEW c \in DOMAIN clients, PassCommand(c)
  PROVE  RosterStep
<1>0. clients[c] \in ClientType /\ clients[c].reason # "long" /\ Active(clients[c])
      /\ clients[c].fails < MaxFailedPass
  BY ClientFacts DEF PassCommand, Dispatch, ShortReasons
<1>1. CASE Reply(c)
  BY <1>1, ReplyRoster
<1>2. CASE clients' = [clients EXCEPT ![c].passOk = TRUE] /\ UNCHANGED <<channels, job>>
  <2> DEFINE r == [clients[c] EXCEPT !.passOk = TRUE]
  <2>1. r.nick = clients[c].nick /\ r.reason = clients[c].reason
    BY <1>0 DEF ClientType
  <2>2. clients' = [clients EXCEPT ![c] = r]
    BY <1>2
  <2> HIDE DEF r
  <2>3. QED
    BY <1>0, <1>2, <2>1, <2>2, OneRoster
<1>3. ASSUME NEW failed, failed = sendMessage(recordFailedPassAttempt(clients[c])),
             clients' = [clients EXCEPT ![c] =
                           IF failed.fails >= MaxFailedPass
                           THEN markClosing(failed, "short") ELSE failed],
             UNCHANGED <<channels, job>>
      PROVE  RosterStep
  <2> DEFINE counted == recordFailedPassAttempt(clients[c])
             r == IF failed.fails >= MaxFailedPass
                  THEN markClosing(failed, "short") ELSE failed
  <2>1. /\ counted \in ClientType /\ counted.nick = clients[c].nick
        /\ counted.reason # "long"
    BY <1>0, ClientAssumption DEF recordFailedPassAttempt, ClientType
  <2>2. failed \in ClientType /\ failed.nick = clients[c].nick /\ failed.reason # "long"
    BY <1>3, <2>1, SendMessageFacts, SendMessageHeard
  <2>3. r.nick = clients[c].nick /\ r.reason # "long"
    BY <2>2, MarkRoster
  <2>4. QED
    BY <1>0, <1>3, <2>3, OneRoster
<1>4. QED
  BY <1>1, <1>2, <1>3 DEF PassCommand

LEMMA WelcomeRoster ==
  ASSUME NEW r \in ClientType, r.reason # "long"
  PROVE  /\ Welcome(r).nick = r.nick /\ Welcome(r).reason # "long"
         /\ Active(Welcome(r)) => Active(r)
  BY SendMessageHeard DEF Welcome

LEMMA UserRoster ==
  ASSUME Inv, ShortReasons, NEW c \in DOMAIN clients, UserCommand(c)
  PROVE  RosterStep
<1>0. clients[c] \in ClientType /\ clients[c].reason # "long" /\ Active(clients[c])
  BY ClientFacts DEF UserCommand, Dispatch, ShortReasons
<1>1. CASE Reply(c)
  BY <1>1, ReplyRoster
<1>2. CASE /\ clients' = [clients EXCEPT ![c] = Welcome([@ EXCEPT !.userSet = TRUE])]
           /\ UNCHANGED <<channels, job>>
  <2> DEFINE r == [clients[c] EXCEPT !.userSet = TRUE]
  <2>1. r \in ClientType /\ r.nick = clients[c].nick /\ r.reason # "long"
    BY <1>0 DEF ClientType
  <2>2. clients' = [clients EXCEPT ![c] = Welcome(r)]
    BY <1>2
  <2> HIDE DEF r
  <2>3. Welcome(r).nick = clients[c].nick /\ Welcome(r).reason # "long"
    BY <2>1, WelcomeRoster
  <2>4. QED
    BY <1>0, <1>2, <2>2, <2>3, OneRoster
<1>3. QED
  BY <1>1, <1>2 DEF UserCommand

\* A client that is registered tells all its peers its new name; one that is
\* not is in no channel.
LEMMA NickRoster ==
  ASSUME Inv, ShortReasons, NEW c \in DOMAIN clients, NEW n \in Nicks, NickCommand(c, n)
  PROVE  RosterStep
<1>0. /\ \A d \in DOMAIN clients : clients[d] \in ClientType /\ clients[d].reason # "long"
      /\ clients \in [DOMAIN clients -> ClientType]
      /\ Active(clients[c])
  BY ClientFacts DEF ShortReasons, NickCommand, Dispatch
<1>1. CASE Reply(c)
  BY <1>1, ReplyRoster
<1>2. ASSUME NEW told, told = IF clients[c].nick # n THEN Peers(c) \cup {c} ELSE {},
             findClientByNick(n) \subseteq {c},
             clients' = [Send(told) EXCEPT ![c].nick = n],
             UNCHANGED <<channels, job>>
      PROVE  RosterStep
  <2> DEFINE sent(d) == IF d \in told THEN sendMessage(clients[d]) ELSE clients[d]
  <2>1. \A d \in DOMAIN clients :
           /\ sent(d) \in ClientType /\ sent(d).nick = clients[d].nick
           /\ sent(d).reason # "long"
           /\ Active(sent(d)) => Active(clients[d])
           /\ d \in told /\ Active(sent(d)) => sent(d).out > clients[d].out
    BY <1>0, SendMessageFacts, SendMessageHeard
  <2>2. Send(told) = [d \in DOMAIN clients |-> sent(d)]
    BY DEF Send
  <2>3. clients' = [d \in DOMAIN clients |->
                      IF d = c THEN [sent(c) EXCEPT !.nick = n] ELSE sent(d)]
    BY <1>2, <2>2
  <2>4. sent(c) \in ClientType
    BY <2>1
  <2> HIDE DEF sent
  <2>5. /\ [sent(c) EXCEPT !.nick = n].nick = n
        /\ [sent(c) EXCEPT !.nick = n].reason = sent(c).reason
        /\ [sent(c) EXCEPT !.nick = n].out = sent(c).out
        /\ Active([sent(c) EXCEPT !.nick = n]) <=> Active(sent(c))
    BY <2>4 DEF ClientType, Active
  <2>6. /\ DOMAIN clients' = DOMAIN clients
        /\ clients'[c].nick = n
        /\ \A d \in DOMAIN clients :
              /\ d # c => clients'[d].nick = clients[d].nick
              /\ clients'[d].reason # "long"
              /\ Active(clients'[d]) => Active(clients[d])
              /\ d \in told /\ Active(clients'[d]) => Heard(d)
    BY <2>1, <2>3, <2>5 DEF Heard
  <2>7. NoRevival
    BY <2>6 DEF NoRevival
  <2>8. Informed
    <3> SUFFICES ASSUME NEW ch \in DOMAIN channels, NEW m \in channels[ch].members,
                        Active(clients'[m]), ~Heard(m), NEW d \in channels[ch].members
                 PROVE  clients'[d].nick = clients[d].nick
      BY <1>2 DEF Informed
    <3>1. m \in DOMAIN clients /\ d \in DOMAIN clients
      BY DEF Inv, NoDanglingPointers
    <3>2. CASE d # c
      BY <2>6, <3>1, <3>2
    <3>3. CASE d = c /\ clients[c].nick # n
      <4>1. m \in told
        BY <1>2, <3>3 DEF Peers
      <4>2. QED
        BY <2>6, <3>1, <4>1
    <3>4. CASE d = c /\ clients[c].nick = n
      BY <2>6, <3>4
    <3>5. QED
      BY <3>2, <3>3, <3>4
  <2>9. Renames(c, n)
    BY <1>2, <2>6 DEF Renames
  <2>10. QED
    BY <2>7, <2>8, <2>9 DEF RosterStep
<1>3. CASE /\ findClientByNick(n) \subseteq {c}
           /\ ~isRegistered(clients[c])
           /\ clients' = [clients EXCEPT ![c] = Welcome([@ EXCEPT !.nick = n])]
           /\ UNCHANGED <<channels, job>>
  <2> DEFINE r == [clients[c] EXCEPT !.nick = n]
  <2>1. r \in ClientType /\ r.nick = n /\ r.reason # "long"
    BY <1>0 DEF ClientType
  <2>2. clients' = [clients EXCEPT ![c] = Welcome(r)]
    BY <1>3
  <2> HIDE DEF r
  <2>3. /\ DOMAIN clients' = DOMAIN clients
        /\ \A d \in DOMAIN clients : clients'[d] = IF d = c THEN Welcome(r) ELSE clients[d]
    BY <1>0, <2>2
  <2>4. Welcome(r).nick = n /\ Welcome(r).reason # "long"
    BY <2>1, WelcomeRoster
  <2>5. NoRevival
    BY <1>0, <2>3, <2>4 DEF NoRevival
  <2>6. Informed
    <3>1. \A ch \in DOMAIN channels : c \notin channels[ch].members
                                      /\ channels[ch].members \subseteq DOMAIN clients
      BY <1>3 DEF Inv, MembersAreRegistered
    <3>2. QED
      BY <1>3, <2>3, <3>1 DEF Informed
  <2>7. Renames(c, n)
    BY <1>3, <2>3, <2>4 DEF Renames
  <2>8. QED
    BY <2>5, <2>6, <2>7 DEF RosterStep
<1>4. QED
  BY <1>1, <1>2, <1>3 DEF NickCommand

LEMMA InviteRoster ==
  ASSUME Inv, ShortReasons, NEW c \in DOMAIN clients, NEW n, NEW ch, InviteCommand(c, n, ch)
  PROVE  RosterStep
<1>1. CASE Reply(c)
  BY <1>1, ReplyRoster
<1>2. ASSUME NEW t, ch \in DOMAIN channels, SetChannel(ch, addInvited(channels[ch], t)),
             clients' = Send({c, t})
      PROVE  RosterStep
  <2>1. addInvited(channels[ch], t).members = channels[ch].members
    BY <1>2, ChannelFacts DEF addInvited, ChannelType
  <2>2. SameMembers
    BY <1>2, <2>1, SetSameMembers
  <2>3. QED
    BY <1>2, <2>2, SendRoster, StillRoster
<1>3. QED
  BY <1>1, <1>2 DEF InviteCommand

LEMMA TopicRoster ==
  ASSUME Inv, ShortReasons, NEW c \in DOMAIN clients, NEW ch, NEW topic,
         TopicCommand(c, ch, topic)
  PROVE  RosterStep
<1>1. CASE Reply(c)
  BY <1>1, ReplyRoster
<1>2. CASE /\ ch \in DOMAIN channels
           /\ SetChannel(ch, [channels[ch] EXCEPT !.topic = topic])
           /\ clients' = Send(channels[ch].members) \/ UNCHANGED clients
  <2>1. [channels[ch] EXCEPT !.topic = topic].members = channels[ch].members
    BY <1>2, ChannelFacts DEF ChannelType
  <2>2. SameMembers
    BY <1>2, <2>1, SetSameMembers
  <2>3. QED
    BY <1>2, <2>2, SendRoster, UnchangedRoster, StillRoster
<1>3. QED
  BY <1>1, <1>2 DEF TopicCommand

LEMMA CommandRoster ==
  ASSUME Inv, ShortReasons, TextFits = {TRUE}, NEW c \in DOMAIN clients, CommandOf(c)
  PROVE  RosterStep
<1>0. clients[c] \in ClientType /\ clients[c].reason # "long"
  BY ClientFacts DEF ShortReasons
<1>1. CASE ProcessLineReply(c) \/ \E verb \in LoopVerbs \ {"JOIN0"} : NotEnoughParameters(c, verb)
  BY <1>1, ReplyRoster DEF ProcessLineReply, NotEnoughParameters
<1>2. CASE \E why \in QuitReasons : Quit(c, why)
  <2>1. clients' = [clients EXCEPT ![c] = markClosing(clients[c], "short")]
        /\ UNCHANGED channels
    BY <1>2 DEF Quit, QuitReasons
  <2>2. QED
    BY <1>0, <2>1, MarkRoster, OneRoster
<1>3. CASE \E verb \in LoopVerbs : StartCommand(c, verb)
  BY <1>3, UnchangedRoster, StillRoster DEF StartCommand, SameMembers
<1>4. CASE \E ch \in ChanNames : ModeCommand(c, ch)
  BY <1>4, ReplyRoster, UnchangedRoster, StillRoster DEF ModeCommand, SameMembers
<1>5. QED
  BY <1>1, <1>2, <1>3, <1>4, PassRoster, NickRoster, UserRoster, InviteRoster, TopicRoster
  DEF CommandOf
-----------------------------------------------------------------------------
(* The commands that loop.                                                 *)

\* A membership changes and everyone in the channel is sent a line.
LEMMA AnnouncedRoster ==
  ASSUME Inv, ShortReasons, NEW ch, NEW to, clients' = Send(to),
         ch \in DOMAIN channels => channels[ch].members \subseteq to,
         \A x \in (DOMAIN channels \cap DOMAIN channels') \ {ch} :
            channels'[x].members = channels[x].members
  PROVE  RosterStep
<1>1. /\ DOMAIN clients' = DOMAIN clients /\ SameNames /\ NoRevival
      /\ \A m \in to \cap DOMAIN clients : Active(clients'[m]) => Heard(m)
  BY SendRoster
<1>2. \A x \in DOMAIN channels : channels[x].members \subseteq DOMAIN clients
  BY DEF Inv, NoDanglingPointers
<1>3. Informed
  <2> SUFFICES ASSUME NEW x \in DOMAIN channels \cap DOMAIN channels',
                      NEW m \in channels[x].members \cap channels'[x].members,
                      Active(clients'[m]), ~Heard(m)
               PROVE  /\ channels'[x].members = channels[x].members
                      /\ \A c \in channels[x].members : clients'[c].nick = clients[c].nick
    BY DEF Informed
  <2>1. x # ch
    BY <1>1, <1>2
  <2>2. QED
    BY <1>1, <1>2, <2>1 DEF SameNames
<1>4. QED
  BY <1>1, <1>3 DEF RosterStep

LEMMA JoinRoster ==
  ASSUME Inv, ShortReasons, NEW ch, NEW key, JoinTarget(ch, key)
  PROVE  RosterStep
<1>1. CASE Reply(job.who)
  BY <1>1, ReplyRoster
<1>2. CASE /\ ch \notin DOMAIN channels
           /\ clients' = Send({job.who})
           /\ channels' = [x \in DOMAIN channels \cup {ch} |->
                IF x = ch
                THEN addOperator(addMember([NewChannel EXCEPT
                        !.topicRestricted = TRUE], job.who), job.who)
                ELSE channels[x]]
  <2>1. \A x \in DOMAIN channels \ {ch} : channels'[x] = channels[x]
    BY <1>2
  <2>2. QED
    BY <1>2, <2>1, AnnouncedRoster
<1>3. CASE /\ ch \in DOMAIN channels
           /\ SetChannel(ch, removeInvited(addMember(channels[ch], job.who), job.who))
           /\ clients' = Send(channels[ch].members \cup {job.who})
  <2>1. \A x \in DOMAIN channels \ {ch} : channels'[x] = channels[x]
    BY <1>3, SetChannelFacts
  <2>2. QED
    BY <1>3, <2>1, AnnouncedRoster
<1>4. QED
  BY <1>1, <1>2, <1>3 DEF JoinTarget

LEMMA PartRoster ==
  ASSUME Inv, ShortReasons, NEW ch \in DOMAIN channels, PartTarget(ch)
  PROVE  RosterStep
<1>1. clients' = Send(channels[ch].members)
  BY DEF PartTarget
<1>2. CASE channels' = Restrict(channels, DOMAIN channels \ {ch})
  <2>1. \A x \in DOMAIN channels' : x \in DOMAIN channels /\ channels'[x] = channels[x]
    BY <1>2 DEF Restrict
  <2>2. QED
    BY <1>1, <2>1, AnnouncedRoster
<1>3. CASE SetChannel(ch, removeMember(channels[ch], job.who))
  <2>1. \A x \in DOMAIN channels \ {ch} : channels'[x] = channels[x]
    BY <1>3, SetChannelFacts
  <2>2. QED
    BY <1>1, <2>1, AnnouncedRoster
<1>4. QED
  BY <1>2, <1>3 DEF PartTarget

LEMMA KickRoster ==
  ASSUME Inv, ShortReasons, TextFits = {TRUE}, NEW ch, NEW n, KickTarget(ch, n)
  PROVE  RosterStep
<1>1. CASE Reply(job.who)
  BY <1>1, ReplyRoster
<1>2. ASSUME NEW t, ch \in DOMAIN channels, clients' = Send(channels[ch].members),
             SetChannel(ch, removeMember(channels[ch], t))
      PROVE  RosterStep
  <2>1. \A x \in DOMAIN channels \ {ch} : channels'[x] = channels[x]
    BY <1>2, SetChannelFacts
  <2>2. QED
    BY <1>2, <2>1, AnnouncedRoster
<1>3. QED
  BY <1>1, <1>2 DEF KickTarget

\* A mode letter changes no membership.
LEMMA ApplyRoster ==
  ASSUME Inv, ShortReasons, job.cmd = "MODE", NEW value, Apply(value),
         value.members = ModeChannel.members
  PROVE  RosterStep
<1>1. job.chan \in DOMAIN channels
  BY ModeFacts
<1>2. SameMembers
  BY <1>1, SetSameMembers DEF Apply, ModeChannel
<1>3. QED
  BY <1>2, UnchangedRoster, StillRoster DEF Apply

LEMMA ModeRoster ==
  ASSUME Inv, ShortReasons,
         \/ ModeSign \/ ModeFlag \/ ModeEnd
         \/ \E key \in Keys \cup {NoKey} : ModeKey(key)
         \/ \E a \in LimitArgs : ModeLimit(a)
         \/ \E n \in Nicks : ModeOperator(n)
  PROVE  RosterStep
<1>1. job.cmd = "MODE"
  BY DEF ModeSign, ModeFlag, ModeEnd, ModeKey, ModeLimit, ModeOperator
<1>2. ModeChannel \in ChannelType
  BY <1>1, ModeFacts DEF GoodChannel
<1>3. CASE UNCHANGED clients /\ UNCHANGED channels
  BY <1>3, UnchangedRoster, StillRoster DEF SameMembers
<1>4. CASE Reply(job.who) \/ (clients' = Send(ModeChannel.members) /\ UNCHANGED channels)
  <2>1. PICK to : clients' = Send(to) /\ UNCHANGED channels
    BY <1>4 DEF Reply
  <2>2. DOMAIN clients' = DOMAIN clients /\ SameNames /\ NoRevival
    BY <2>1, SendRoster
  <2>3. QED
    BY <2>1, <2>2, StillRoster DEF SameMembers
<1>5. ASSUME NEW value, Apply(value),
             \/ \E b : value = [ModeChannel EXCEPT !.inviteOnly = b]
             \/ \E b : value = [ModeChannel EXCEPT !.topicRestricted = b]
             \/ \E k : value = [ModeChannel EXCEPT !.password = k]
             \/ \E l : value = [ModeChannel EXCEPT !.userLimit = l]
             \/ \E t : value = addOperator(ModeChannel, t)
             \/ \E t : value = removeOperator(ModeChannel, t)
      PROVE  RosterStep
  <2>1. value.members = ModeChannel.members
    BY <1>2, <1>5 DEF ChannelType, addOperator, removeOperator
  <2>2. QED
    BY <1>1, <1>5, <2>1, ApplyRoster
<1>6. CASE ModeSign \/ ModeEnd
  BY <1>3, <1>4, <1>6 DEF ModeSign, ModeEnd
<1>7. CASE ModeFlag
  BY <1>5, <1>7 DEF ModeFlag
<1>8. CASE \E key \in Keys \cup {NoKey} : ModeKey(key)
  BY <1>4, <1>5, <1>8 DEF ModeKey
<1>9. CASE \E a \in LimitArgs : ModeLimit(a)
  BY <1>4, <1>5, <1>9 DEF ModeLimit
<1>10. CASE \E n \in Nicks : ModeOperator(n)
  BY <1>4, <1>5, <1>10 DEF ModeOperator
<1>11. QED
  BY <1>6, <1>7, <1>8, <1>9, <1>10

LEMMA JobRoster ==
  ASSUME Inv, ShortReasons, TextFits = {TRUE}, JobStep
  PROVE  RosterStep
<1>1. CASE (\E ch \in ChanNames : PrivmsgChannel(ch)) \/ \E n \in Nicks : PrivmsgNick(n)
  <2>1. (\E to : clients' = Send(to)) /\ UNCHANGED channels
    BY <1>1 DEF PrivmsgChannel, PrivmsgNick
  <2>2. QED
    BY <2>1, SendRoster, StillRoster DEF SameMembers
<1>2. CASE EndCommand \/ EndPart
  BY <1>2, UnchangedRoster, StillRoster DEF EndCommand, EndPart, SameMembers
<1>3. QED
  BY <1>1, <1>2, JoinRoster, PartRoster, KickRoster, ModeRoster DEF JobStep
-----------------------------------------------------------------------------
(* Connections.                                                            *)

LEMMA AcceptRoster ==
  ASSUME Inv, ShortReasons, NEW c, NEW ip, acceptNewClient(c, ip)
  PROVE  RosterStep
<1>1. /\ c \notin DOMAIN clients /\ DOMAIN clients' = DOMAIN clients \cup {c}
      /\ \A d \in DOMAIN clients : clients'[d] = clients[d]
      /\ clients'[c] = NewClient(ip) /\ UNCHANGED channels
  BY DEF acceptNewClient
<1>2. SameNames /\ NoRevival
  BY <1>1 DEF SameNames, NoRevival, NewClient, ShortReasons
<1>3. QED
  BY <1>1, <1>2, StillRoster DEF SameMembers

\* Everyone who shares a channel with the client that is removed is told, if
\* only because its reason fits.
LEMMA DisconnectRoster ==
  ASSUME Inv, ShortReasons, NEW c \in DOMAIN clients, disconnectClient(c)
  PROVE  RosterStep
<1> DEFINE told == IF isRegistered(clients[c]) /\ clients[c].reason # "long"
                   THEN Peers(c) \ {c} ELSE {}
<1>0. \A d \in DOMAIN clients : clients[d] \in ClientType /\ clients[d].reason # "long"
  BY ClientFacts DEF ShortReasons
<1>1. /\ DOMAIN clients' = DOMAIN clients \ {c}
      /\ \A d \in DOMAIN clients \ {c} :
            clients'[d] = IF d \in told THEN sendMessage(clients[d]) ELSE clients[d]
  BY DEF disconnectClient, Restrict, Send
<1>2. channels' = [x \in DOMAIN channels |->
                     removeInvited(removeMember(channels[x], c), c)]
  BY DEF disconnectClient
<1> HIDE DEF told
<1>3. SameNames /\ NoRevival
  BY <1>0, <1>1, SendMessageHeard DEF SameNames, NoRevival
<1>4. \A d \in DOMAIN clients \ {c} : d \in told /\ Active(clients'[d]) => Heard(d)
  BY <1>0, <1>1, SendMessageHeard DEF Heard
<1>5. Informed
  <2> SUFFICES ASSUME NEW x \in DOMAIN channels \cap DOMAIN channels',
                      NEW m \in channels[x].members \cap channels'[x].members,
                      Active(clients'[m]), ~Heard(m)
               PROVE  /\ channels'[x].members = channels[x].members
                      /\ \A d \in channels[x].members : clients'[d].nick = clients[d].nick
    BY DEF Informed
  <2>1. channels[x] \in ChannelType
    BY ChannelFacts
  <2>2. channels'[x].members = channels[x].members \ {c}
    BY <1>2, <2>1 DEF removeInvited, removeMember, ChannelType
  <2>3. m \in DOMAIN clients \ {c} /\ channels[x].members \subseteq DOMAIN clients
    BY <2>2 DEF Inv, NoDanglingPointers
  <2>4. c \notin channels[x].members
    <3> SUFFICES ASSUME c \in channels[x].members PROVE FALSE
      OBVIOUS
    <3>1. isRegistered(clients[c])
      BY DEF Inv, MembersAreRegistered
    <3>2. m \in told
      BY <1>0, <2>3, <3>1 DEF told, Peers
    <3>3. QED
      BY <1>4, <2>3, <3>2
  <2>5. QED
    BY <1>1, <1>3, <2>2, <2>3, <2>4 DEF SameNames
<1>6. QED
  BY <1>3, <1>5 DEF RosterStep

LEMMA ConnectionRoster ==
  ASSUME Inv, ShortReasons, NEW c \in DOMAIN clients, ConnectionStep(c)
  PROVE  RosterStep
<1>0. clients[c] \in ClientType /\ clients[c].reason # "long"
  BY ClientFacts DEF ShortReasons
<1>1. CASE PeerClosed(c) \/ SocketError(c) \/ MarkFlushed(c)
  <2>1. UNCHANGED channels
    BY <1>1 DEF PeerClosed, SocketError, MarkFlushed
  <2>2. PICK r : /\ clients' = [clients EXCEPT ![c] = r]
                 /\ r \in {markClosing(clients[c], "short"), markDead(clients[c], "short"),
                           markDead(clients[c], clients[c].reason)}
    BY <1>1 DEF PeerClosed, SocketError, MarkFlushed
  <2>3. r.nick = clients[c].nick /\ r.reason # "long" /\ ~Active(r)
    BY <1>0, <2>2, MarkRoster
  <2>4. QED
    BY <2>1, <2>2, <2>3, OneRoster
<1>2. ASSUME NEW n \in 1..MaxSendBuffer, handleClientWrite(c, n)
      PROVE  RosterStep
  <2> DEFINE r == consumeSendBuffer(clients[c], n)
  <2>1. r.nick = clients[c].nick /\ r.reason # "long" /\ (Active(r) => Active(clients[c]))
    BY <1>0 DEF consumeSendBuffer, ClientType, Active
  <2>2. clients' = [clients EXCEPT ![c] = r] /\ UNCHANGED channels
    BY <1>2 DEF handleClientWrite
  <2> HIDE DEF r
  <2>3. QED
    BY <2>1, <2>2, OneRoster
<1>3. QED
  BY <1>1, <1>2, DisconnectRoster DEF ConnectionStep

\* Every step of the protocol layer tells those it concerns.
LEMMA RosterSteps ==
  ASSUME Inv, ShortReasons, TextFits = {TRUE}, Next
  PROVE  RosterStep
  BY AcceptRoster, CommandRoster, JobRoster, ConnectionRoster DEF Next
-----------------------------------------------------------------------------
(* The rosters.                                                            *)

\* A list that was right is right again once the lines of the step have been
\* applied to it, because a name stands for one client only.
LEMMA HeardIsRight ==
  ASSUME Inv, Inv', NamesDistinct, NEW ch \in DOMAIN channels, ch \in DOMAIN channels'
  PROVE  Updated(Listed(ch), ch) = Listed(ch)'
<1> DEFINE M == channels[ch].members
           N == channels'[ch].members
<1>1. /\ M \subseteq DOMAIN clients /\ N \subseteq DOMAIN clients'
      /\ \A c \in M : clients[c].nick # NoNick
  BY DEF Inv, NoDanglingPointers, MembersAreRegistered, isRegistered
<1>2. \A c \in M, d \in DOMAIN clients : Name(c) = Name(d) => c = d
  BY <1>1 DEF NamesDistinct
<1>3. /\ Leavers(ch) = (M \ N) \ Quitters /\ Joiners(ch) = N \ M
      /\ Quitters = DOMAIN clients \ DOMAIN clients'
  BY DEF Leavers, Joiners, Members, Quitters
<1>4. ASSUME NEW c \in M \cap N
      PROVE  Renamed(Name(c)) = {Name(c)'}
  <2> DEFINE who == {d \in DOMAIN clients \cap DOMAIN clients' :
                       clients[d].nick # clients'[d].nick /\ Name(d) = Name(c)}
  <2>1. who \subseteq {c} /\ c \in DOMAIN clients \cap DOMAIN clients'
    BY <1>1, <1>2
  <2>2. CASE clients[c].nick # clients'[c].nick
    <3>1. who = {c}
      BY <2>1, <2>2
    <3>2. QED
      BY <3>1 DEF Renamed
  <2>3. CASE clients[c].nick = clients'[c].nick
    <3>1. who = {} /\ Name(c)' = Name(c)
      BY <2>1, <2>3 DEF Name, toIrcLowerCase
    <3>2. QED
      BY <3>1 DEF Renamed
  <2>4. QED
    BY <2>2, <2>3
<1>5. Listed(ch) \ {Name(c) : c \in Quitters \cup Leavers(ch)} = {Name(c) : c \in M \cap N}
  <2>1. ASSUME NEW c \in M
        PROVE  c \notin Quitters \cup Leavers(ch) <=> c \in N
    BY <1>1, <1>3
  <2>2. Quitters \cup Leavers(ch) \subseteq DOMAIN clients
    BY <1>1, <1>3
  <2>3. ASSUME NEW c \in M
        PROVE  Name(c) \in {Name(d) : d \in Quitters \cup Leavers(ch)} <=> c \notin N
    BY <1>2, <2>1, <2>2
  <2>4. QED
    BY <2>3 DEF Listed
<1> DEFINE Applied(list, new) == (UNION {Renamed(n) : n \in list}) \cup {Name(c)' : c \in new}
<1>6. Applied({Name(c) : c \in M \cap N}, N \ M) = Listed(ch)'
  <2>1. UNION {Renamed(n) : n \in {Name(c) : c \in M \cap N}} = {Name(c)' : c \in M \cap N}
    BY <1>4
  <2>2. {Name(c)' : c \in M \cap N} \cup {Name(c)' : c \in N \ M} = Listed(ch)'
    BY DEF Listed
  <2>3. QED
    BY <2>1, <2>2
<1>7. Updated(Listed(ch), ch) =
        Applied(Listed(ch) \ {Name(c) : c \in Quitters \cup Leavers(ch)}, Joiners(ch))
  BY DEF Updated
<1> HIDE DEF Applied
<1>8. QED
  BY <1>3, <1>5, <1>6, <1>7

\* A joiner gets the whole list, since it fits.
LEMMA NamesReplyIsRight ==
  ASSUME Inv', EverythingFits, NEW ch \in DOMAIN channels', NEW m
  PROVE  NamesReply(m, ch) = Listed(ch)'
<1>1. channels'[ch].members \subseteq Fds
  BY DEF Inv, TypeOK, NoDanglingPointers
<1>2. IsFiniteSet(Fds) /\ NamesFit \in Nat
  BY ChannelAssumption, RosterAssumption
<1>3. /\ Cardinality(channels'[ch].members) <= Cardinality(Fds)
      /\ Cardinality(channels'[ch].members) \in Nat /\ Cardinality(Fds) \in Nat
  BY <1>1, <1>2, FS_Subset, FS_CardinalityType
<1>4. Cardinality(channels'[ch].members) <= NamesFit
  BY <1>2, <1>3 DEF EverythingFits
<1>5. QED
  BY <1>4 DEF NamesReply, Listed

\* Names stay distinct as long as no dead client's is taken.
LEMMA DistinctKept ==
  ASSUME Inv, NamesDistinct, RosterStep, ~\E c \in DOMAIN clients' : TakesOver(c)
  PROVE  NamesDistinct'
<1> SUFFICES ASSUME NEW c \in DOMAIN clients', NEW d \in DOMAIN clients',
                    clients'[c].nick # NoNick,
                    toIrcLowerCase(clients'[c].nick) = toIrcLowerCase(clients'[d].nick)
             PROVE  c = d
  BY DEF NamesDistinct, Name, toIrcLowerCase
<1>0. \A x \in Nicks : toIrcLowerCase(x) # NoNick
  BY ClientAssumption, CommandsAssumption DEF toIrcLowerCase
<1>1. CASE SameNames
  <2>1. c \in DOMAIN clients /\ clients'[c].nick = clients[c].nick
        /\ clients[c].nick \in Nicks
    <3>1. c \in DOMAIN clients /\ clients'[c].nick = clients[c].nick
      BY <1>1 DEF SameNames
    <3>2. QED
      BY <3>1, ClientFacts DEF ClientType
  <2>2. toIrcLowerCase(clients'[c].nick) # NoNick
    BY <1>0, <2>1
  <2>3. clients'[d].nick # NoNick
    BY <2>2 DEF toIrcLowerCase
  <2>4. d \in DOMAIN clients /\ clients'[d].nick = clients[d].nick
    BY <1>1, <2>3 DEF SameNames
  <2>5. QED
    BY <2>1, <2>4 DEF NamesDistinct, Name
<1>2. ASSUME NEW e \in DOMAIN clients, NEW n, Renames(e, n)
      PROVE  c = d
  <2>0. /\ DOMAIN clients' = DOMAIN clients
        /\ findClientByNick(n) \subseteq {e}
        /\ n \in Nicks /\ clients'[e].nick = n
        /\ \A x \in DOMAIN clients \ {e} : clients'[x].nick = clients[x].nick
    BY <1>2 DEF Renames
  <2>1. CASE c # e /\ d # e
    BY <2>0, <2>1 DEF NamesDistinct, Name
  <2>2. ASSUME NEW x \in DOMAIN clients \ {e},
               toIrcLowerCase(clients[x].nick) = toIrcLowerCase(n)
        PROVE  FALSE
    <3>1. clients[x].dead
      BY <2>0, <2>2 DEF findClientByNick
    <3>2. CASE clients[e].nick # n
      <4>1. TakesOver(e)
        BY <2>0, <2>2, <3>1, <3>2 DEF TakesOver, Name, toIrcLowerCase
      <4>2. QED
        BY <2>0, <4>1
    <3>3. CASE clients[e].nick = n
      <4>1. n # NoNick
        BY <2>0, ClientAssumption
      <4>2. QED
        BY <2>2, <3>3, <4>1 DEF NamesDistinct, Name
    <3>4. QED
      BY <3>2, <3>3
  <2>3. CASE c = e /\ d # e
    BY <2>0, <2>2, <2>3
  <2>4. CASE d = e /\ c # e
    BY <2>0, <2>2, <2>4
  <2>5. QED
    BY <2>1, <2>3, <2>4
<1>3. QED
  BY <1>1, <1>2 DEF RosterStep

LEMMA RosterNextInv ==
  ASSUME RosterInv, EverythingFits, [RosterNext]_rosterVars
  PROVE  RosterInv'
<1>1. CASE UNCHANGED rosterVars
  <2>1. UNCHANGED <<clients, channels, job, views, takeover>>
    BY <1>1 DEF rosterVars
  <2>2. Inv'
    BY <2>1, NextInv DEF RosterInv, vars
  <2>3. QED
    BY <2>1, <2>2 DEF RosterInv, ShortReasons, NamesDistinct, RostersMatch, Name, Listed,
         toIrcLowerCase
<1>2. CASE RosterNext
  <2>1. /\ Inv /\ Inv' /\ ShortReasons /\ RosterStep
    BY <1>2, NextInv, RosterSteps DEF RosterInv, RosterNext, EverythingFits
  <2>2. ShortReasons'
    BY <2>1 DEF RosterStep, NoRevival, ShortReasons
  <2>3. takeover' \in BOOLEAN
        /\ (~takeover' => ~takeover /\ ~\E c \in DOMAIN clients' : TakesOver(c))
    BY <1>2 DEF RosterNext, RosterInv
  <2>4. ~takeover' => NamesDistinct'
    BY <2>1, <2>3, DistinctKept DEF RosterInv
  <2>5. RostersMatch'
    <3> SUFFICES ASSUME ~takeover', NEW ch \in DOMAIN channels',
                        NEW m \in channels'[ch].members, Active(clients'[m])
                 PROVE  views'[m][ch] = Listed(ch)'
      BY DEF RostersMatch
    <3>1. ~takeover /\ NamesDistinct
      BY <2>3 DEF RosterInv
    <3>2. m \in Fds /\ ch \in ChanNames /\ m \in DOMAIN clients'
      BY <2>1 DEF Inv, TypeOK, NoDanglingPointers
    <3>3. views'[m][ch] = NextList(m, ch)
      BY <1>2, <3>2 DEF RosterNext
    <3>4. Members(channels', ch) = channels'[ch].members
      BY DEF Members
    <3>5. CASE m \in Joiners(ch)
      <4>1. NextList(m, ch) = NamesReply(m, ch)
        BY <3>4, <3>5 DEF NextList
      <4>2. QED
        BY <2>1, <3>3, <4>1, NamesReplyIsRight
    <3>6. CASE m \notin Joiners(ch)
      <4>1. ch \in DOMAIN channels /\ m \in channels[ch].members
        BY <3>4, <3>6 DEF Joiners, Members
      <4>2. m \in DOMAIN clients /\ Active(clients[m])
        BY <2>1, <3>2, <4>1 DEF Inv, NoDanglingPointers, RosterStep, NoRevival
      <4>3. views[m][ch] = Listed(ch)
        BY <3>1, <4>1, <4>2 DEF RosterInv, RostersMatch
      <4>4. NextList(m, ch) = IF Heard(m) THEN Updated(Listed(ch), ch) ELSE Listed(ch)
        BY <3>4, <3>6, <4>3 DEF NextList
      <4>5. CASE Heard(m)
        BY <2>1, <3>1, <3>3, <4>1, <4>4, <4>5, HeardIsRight
      <4>6. CASE ~Heard(m)
        <5>1. /\ channels'[ch].members = channels[ch].members
              /\ \A c \in channels[ch].members : clients'[c].nick = clients[c].nick
          BY <2>1, <4>1, <4>6 DEF RosterStep, Informed
        <5>2. \A c \in channels[ch].members : Name(c)' = Name(c)
          BY <5>1 DEF Name, toIrcLowerCase
        <5>3. Listed(ch)' = Listed(ch)
          BY <5>1, <5>2 DEF Listed
        <5>4. QED
          BY <3>3, <4>4, <4>6, <5>3
      <4>7. QED
        BY <4>5, <4>6
    <3>7. QED
      BY <3>5, <3>6
  <2>6. QED
    BY <2>1, <2>2, <2>3, <2>4, <2>5 DEF RosterInv
<1>3. QED
  BY <1>1, <1>2

LEMMA RosterInitInv == RosterInit => RosterInv
<1> SUFFICES ASSUME RosterInit PROVE RosterInv
  OBVIOUS
<1> DEFINE first(c) == [NewClient(CHOOSE ip \in Ips : TRUE) EXCEPT
                          !.passOk = TRUE, !.nick = FirstNick[c], !.userSet = TRUE]
<1>1. /\ clients = [c \in Fds |-> first(c)]
      /\ channels = <<>> /\ job = NoJob /\ takeover = FALSE
  BY DEF RosterInit
<1>2. (CHOOSE ip \in Ips : TRUE) \in Ips
  BY RosterAssumption
<1>3. \A c \in Fds : /\ first(c) \in ClientType /\ first(c).nick = FirstNick[c]
                     /\ first(c).fails = 0 /\ first(c).reason = "none"
                     /\ FirstNick[c] \in Nicks /\ FirstNick[c] # NoNick
  <2>1. PICK ip0 \in Ips : ip0 = CHOOSE ip \in Ips : TRUE
    BY <1>2
  <2>2. SUFFICES ASSUME NEW c \in Fds
                 PROVE  /\ first(c) \in ClientType /\ first(c).nick = FirstNick[c]
                        /\ first(c).fails = 0 /\ first(c).reason = "none"
                        /\ FirstNick[c] \in Nicks /\ FirstNick[c] # NoNick
    OBVIOUS
  <2>3. FirstNick[c] \in Nicks /\ FirstNick[c] # NoNick
    BY RosterAssumption, ClientAssumption
  <2>4. 0 \in 0..MaxFailedPass /\ 0 \in 0..MaxSendBuffer
    BY ClientAssumption
  <2>5. first(c) = [ip |-> ip0, passOk |-> TRUE, nick |-> FirstNick[c], userSet |-> TRUE,
                    fails |-> 0, dead |-> FALSE, closing |-> FALSE,
                    reason |-> "none", out |-> 0]
    <3>1. PICK r : r = NewClient(CHOOSE ip \in Ips : TRUE)
      OBVIOUS
    <3>2. r = NewClient(ip0)
      BY <2>1, <3>1, Zenon
    <3>3. r = [ip |-> ip0, passOk |-> FALSE, nick |-> NoNick, userSet |-> FALSE,
               fails |-> 0, dead |-> FALSE, closing |-> FALSE,
               reason |-> "none", out |-> 0]
      BY <3>2 DEF NewClient
    <3>4. first(c) = [r EXCEPT !.passOk = TRUE, !.nick = FirstNick[c], !.userSet = TRUE]
      BY <3>1, Zenon
    <3> HIDE DEF first
    <3>5. QED
      BY <3>3, <3>4
  <2>6. "none" \in Reasons
    BY DEF Reasons
  <2> HIDE DEF first
  <2>7. first(c) \in ClientType
    BY <2>3, <2>4, <2>5, <2>6 DEF ClientType
  <2>8. QED
    BY <2>3, <2>5, <2>7
<1> HIDE DEF first
<1>4. /\ DOMAIN clients = Fds /\ clients \in [Fds -> ClientType]
      /\ \A c \in Fds : /\ clients[c].nick = FirstNick[c] /\ clients[c].fails = 0
                        /\ clients[c].reason = "none"
  BY <1>1, <1>3
<1>5. DOMAIN channels = {}
  BY <1>1
<1>6. \A c, d \in Fds : Name(c) = Name(d) => c = d
  <2>1. \A c \in Fds : Name(c) = Fold[FirstNick[c]]
    BY <1>3, <1>4 DEF Name, toIrcLowerCase
  <2>2. QED
    BY <2>1, RosterAssumption
<1>7. Inv
  <2>1. GoodClients
    BY <1>4, <1>6, ClientAssumption DEF GoodClients, AttemptsLeft, NicknamesUnique, Name
  <2>2. GoodChannels
    <3>1. channels \in [DOMAIN channels -> ChannelType]
      BY <1>1, <1>5
    <3>2. QED
      BY <1>5, <3>1 DEF GoodChannels
  <2>3. GoodJob
    BY <1>1 DEF GoodJob, JobType, JobIsValid
  <2>4. QED
    BY <2>1, <2>2, <2>3, InvRegrouped
<1>8. ShortReasons /\ NamesDistinct
  BY <1>4, <1>6 DEF ShortReasons, NamesDistinct
<1>9. RostersMatch
  BY <1>5 DEF RostersMatch
<1>10. QED
  BY <1>1, <1>7, <1>8, <1>9 DEF RosterInv

\* If every line fits, each client that is still served lists exactly the
\* members of its channels until a dead client's nickname is taken over:
\* JOIN, PART, KICK, NICK and QUIT tell everyone they concern, whoever else
\* overflows, closes or dies meanwhile.
THEOREM RostersAreRight ==
    ASSUME EverythingFits
    PROVE  RosterSpec => []RostersMatch
<1>1. RosterInit => RosterInv
  BY RosterInitInv
<1>2. RosterInv /\ [RosterNext]_rosterVars => RosterInv'
  BY RosterNextInv
<1>3. RosterInv => RostersMatch
  BY DEF RosterInv
<1>4. QED
  BY <1>1, <1>2, <1>3, PTL DEF RosterSpec
=============================================================================
