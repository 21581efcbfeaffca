---------------------------- MODULE ServerProofs ----------------------------
(***************************************************************************)
(* Proofs about the event loop: it inherits what is proved of Commands;   *)
(* its poll set is always that of the clients, whoever is being served is  *)
(* not deleted meanwhile, no event and no ended connection is forgotten,   *)
(* and the limit per address holds as far as it does.                      *)
(***************************************************************************)
EXTENDS Server, CommandsProofs, FiniteSetTheorems, SequenceTheorems

\* Every step of the loop is a step of the protocol layer or leaves the
\* clients, the channels and the command in progress alone.
LEMMA LoopStepRefines ==
  ASSUME [LoopNext]_allVars
  PROVE  [Next]_vars
<1>1. CASE \/ Top \/ Refresh \/ PollInterrupted \/ SkipFd \/ EndOfScan
           \/ CollectDead \/ EndOfReap \/ Poll \/ Signal \/ Exited
           \/ UNCHANGED allVars
  <2>1. UNCHANGED vars
    BY <1>1 DEF Top, Refresh, PollInterrupted, SkipFd, EndOfScan, CollectDead,
         EndOfReap, Poll, Signal, Exited, allVars, vars
  <2>2. QED
    BY <2>1
<1>2. CASE ServeListener
  BY <1>2 DEF ServeListener, Next
<1>3. ASSUME NEW c \in DOMAIN clients,
             \/ ServeRead(c) \/ ServeLine(c) \/ EndOfLines(c)
             \/ ServeWrite(c) \/ ServeError(c)
      PROVE  [Next]_vars
  <2>1. \/ UNCHANGED vars \/ CommandOf(c) \/ JobStep \/ ConnectionStep(c)
    BY <1>3 DEF ServeRead, ServeLine, EndOfLines, ServeWrite, ServeError,
         ConnectionStep
  <2>2. QED
    BY <2>1 DEF Next
<1>4. CASE ReapFlushed \/ \E c \in DOMAIN clients : ReapDisconnect(c)
  BY <1>4 DEF ReapFlushed, ReapDisconnect, ConnectionStep, Next
<1>5. QED
  BY <1>1, <1>2, <1>3, <1>4 DEF LoopNext, LoopStep

\* The loop is built from the actions of the protocol layer, so what is proved
\* of that layer holds of the loop.
LEMMA LoopImplementsCommands == LoopSpec => Spec
<1>1. LoopInit => Init
  BY DEF LoopInit
<1>2. [LoopNext]_allVars => [Next]_vars
  BY LoopStepRefines
<1>3. QED
  BY <1>1, <1>2, PTL DEF LoopSpec, Spec

\* So the loop never follows a pointer to a deleted Client, and keeps the
\* rest of the invariant.
THEOREM LoopKeepsInv == LoopSpec => []Inv
  BY LoopImplementsCommands, InvHolds, PTL
-----------------------------------------------------------------------------
(* The inductive invariant of the loop.                                    *)

\* The for loop over _pollFds is at some descriptor.
InRound == phase \in {"scan", "lines", "write", "error"}

\* Behind the for loop nothing is left to serve; while a descriptor is served
\* it is a client's; outside the round the loop is back at the first one.
PositionInv ==
    /\ phase \in {"lines", "write", "error"} => index \in 2..Len(pollFds)
    /\ ~InRound => index = 1
    /\ InRound => \A i \in 1..(index - 1) : revents[pollFds[i]] = {}
    /\ phase = "reap" => \A fd \in DOMAIN revents : revents[fd] = {}

\* reapDeadClients only has dead clients to disconnect.
ReapInv ==
    /\ deadFds \subseteq DOMAIN clients
    /\ phase # "disconnect" => deadFds = {}
    /\ \A c \in deadFds : clients[c].dead

\* A client the reaper was done with at the end of the last round.
Settled(r) ==
    /\ r.closing => hasPendingOutput(r)
    /\ r.dead => ~r.closing /\ r.out = MaxSendBuffer

SettledInv ==
    phase \in {"top", "refresh", "poll", "disconnect"} =>
        \A c \in DOMAIN clients \ deadFds : Settled(clients[c])

\* The connection of this round has not been accepted yet.
BeforeAccept == phase \in {"top", "refresh", "poll", "exit"} \/ (phase = "scan" /\ index = 1)

IpInv ==
    \A ip \in Ips :
        /\ countClientsFromIp(ip) <= MaxPerIp
        /\ Cardinality(FromIp(ip)) <= MaxPerIp + 1
        /\ BeforeAccept => Cardinality(FromIp(ip)) <= MaxPerIp
        /\ phase = "disconnect" => Cardinality(FromIp(ip) \ deadFds) <= MaxPerIp

LoopInv ==
    /\ Inv /\ LoopTypeOK /\ PollSetMatchesClients
    /\ PositionInv /\ ReapInv /\ SettledInv /\ IpInv
-----------------------------------------------------------------------------
(* The poll set as a sequence.                                             *)

\* Erasing one entry of a sequence without repetitions removes that value and
\* no other, and the entries before it stay in place.
LEMMA EraseFacts ==
  ASSUME NEW S, NEW s \in Seq(S), IsInjective(s), NEW fd \in Range(s)
  PROVE  /\ Erase(s, fd) \in Seq(S)
         /\ Len(Erase(s, fd)) = Len(s) - 1
         /\ IsInjective(Erase(s, fd))
         /\ Range(Erase(s, fd)) = Range(s) \ {fd}
         /\ fd # s[1] => Erase(s, fd)[1] = s[1]
<1>0. Len(s) \in Nat /\ DOMAIN s = 1..Len(s) /\ \A k \in 1..Len(s) : s[k] \in S
  BY LenProperties, ElementOfSeq
<1>1. PICK j \in 1..Len(s) : s[j] = fd
  BY <1>0 DEF Range
<1>2. \A k \in 1..(j - 1) : s[k] # fd
  BY <1>0, <1>1 DEF IsInjective
<1> DEFINE first == CHOOSE x \in DOMAIN s : s[x] = fd /\ \A k \in 1..(x - 1) : s[k] # fd
<1>c. first \in 1..Len(s) /\ s[first] = fd
  BY <1>0, <1>1, <1>2
<1> HIDE DEF first
<1>3. PICK i \in 1..Len(s) : s[i] = fd /\ i = first
  BY <1>c
<1> DEFINE a == SubSeq(s, 1, i - 1)
           b == SubSeq(s, i + 1, Len(s))
           t == a \o b
<1>4. Erase(s, fd) = t
  BY <1>3 DEF Erase, first
<1>5. /\ a \in Seq(S) /\ Len(a) = i - 1
      /\ \A k \in 1..(i - 1) : a[k] = s[k]
  <2>1. i - 1 \in Int /\ \A k \in 1..(i - 1) : s[k] \in S
    BY <1>0, <1>3
  <2>2. QED
    BY <1>0, <1>3, <2>1, SubSeqProperties
<1>6. /\ b \in Seq(S) /\ Len(b) = Len(s) - i
      /\ \A k \in 1..(Len(s) - i) : b[k] = s[i + k]
  <2>1. i + 1 \in Int /\ Len(s) \in Int /\ \A k \in (i + 1)..Len(s) : s[k] \in S
    BY <1>0, <1>3
  <2>2. /\ b \in Seq(S)
        /\ Len(b) = IF i + 1 <= Len(s) THEN Len(s) - (i + 1) + 1 ELSE 0
        /\ \A k \in 1..(Len(s) - (i + 1) + 1) : b[k] = s[(i + 1) + k - 1]
    BY <2>1, SubSeqProperties
  <2> HIDE DEF b
  <2>3. Len(b) = Len(s) - i
    <3>1. Len(s) \in Int /\ i \in Int /\ i <= Len(s)
      BY <1>0
    <3>2. i = Len(s) \/ i + 1 <= Len(s)
      BY <3>1
    <3>3. QED
      BY <2>2, <3>1, <3>2
  <2>4. ASSUME NEW k \in 1..(Len(s) - i)
        PROVE  b[k] = s[i + k]
    <3>1. k \in 1..(Len(s) - (i + 1) + 1) /\ (i + 1) + k - 1 = i + k
      BY <1>0, <1>3
    <3>2. QED
      BY <2>2, <3>1
  <2>5. QED
    BY <2>2, <2>3, <2>4
<1> HIDE DEF a, b
<1>7. /\ t \in Seq(S) /\ Len(t) = Len(s) - 1
      /\ \A k \in 1..Len(t) : t[k] = IF k < i THEN s[k] ELSE s[k + 1]
  <2>1. /\ t \in Seq(S) /\ Len(t) = Len(a) + Len(b)
        /\ \A k \in 1..(Len(a) + Len(b)) : t[k] = IF k <= Len(a) THEN a[k] ELSE b[k - Len(a)]
    BY <1>5, <1>6, ConcatProperties
  <2>2. Len(t) = Len(s) - 1
    BY <1>0, <1>3, <1>5, <1>6, <2>1
  <2>3. ASSUME NEW k \in 1..Len(t)
        PROVE  t[k] = IF k < i THEN s[k] ELSE s[k + 1]
    <3>1. CASE k < i
      BY <1>0, <1>3, <1>5, <1>6, <2>1, <2>2, <3>1
    <3>2. CASE ~(k < i)
      <4>1. k - Len(a) \in 1..(Len(s) - i) /\ i + (k - Len(a)) = k + 1
        BY <1>0, <1>3, <1>5, <2>2, <3>2
      <4>2. QED
        BY <1>0, <1>3, <1>5, <1>6, <2>1, <2>2, <3>2, <4>1
    <3>3. QED
      BY <3>1, <3>2
  <2>4. QED
    BY <2>1, <2>2, <2>3
<1> HIDE DEF t
<1>8. DOMAIN t = 1..Len(t)
  BY <1>7, LenProperties
<1> DEFINE from(k) == IF k < i THEN k ELSE k + 1
<1>a. \A k \in 1..Len(t) : /\ from(k) \in 1..Len(s) /\ from(k) # i
                           /\ t[k] = s[from(k)]
  BY <1>0, <1>3, <1>7
<1>b. \A k, l \in 1..Len(t) : from(k) = from(l) => k = l
  BY <1>0, <1>3, <1>7
<1> HIDE DEF from
<1>9. IsInjective(t)
  <2>1. \A k, l \in 1..Len(s) : s[k] = s[l] => k = l
    BY <1>0 DEF IsInjective
  <2>2. ASSUME NEW k \in 1..Len(t), NEW l \in 1..Len(t), t[k] = t[l]
        PROVE  k = l
    BY <1>a, <1>b, <2>1, <2>2
  <2>3. QED
    BY <1>8, <2>2 DEF IsInjective
<1>10. Range(t) = Range(s) \ {fd}
  <2>1. ASSUME NEW k \in 1..Len(t)
        PROVE  t[k] \in Range(s) \ {fd}
    <3>1. \A l \in 1..Len(s) : s[l] = fd => l = i
      BY <1>0, <1>3 DEF IsInjective
    <3>2. QED
      BY <1>0, <1>a, <3>1 DEF Range
  <2>2. ASSUME NEW l \in 1..Len(s), s[l] # fd
        PROVE  s[l] \in Range(t)
    <3>1. CASE l < i
      BY <1>0, <1>3, <1>7, <1>8, <3>1 DEF Range
    <3>2. CASE l > i
      <4>1. l - 1 \in 1..Len(t) /\ t[l - 1] = s[l]
        BY <1>0, <1>3, <1>7, <3>2
      <4>2. QED
        BY <1>8, <4>1 DEF Range
    <3>3. QED
      BY <1>3, <2>2, <3>1, <3>2
  <2>3. QED
    BY <1>0, <1>8, <2>1, <2>2 DEF Range
<1>11. fd # s[1] => t[1] = s[1]
  BY <1>0, <1>3, <1>7
<1>12. QED
  BY <1>4, <1>7, <1>9, <1>10, <1>11

\* push_back of a new descriptor.
LEMMA PushFacts ==
  ASSUME NEW S, NEW s \in Seq(S), s # <<>>, IsInjective(s), NEW fd \in S, fd \notin Range(s)
  PROVE  /\ Append(s, fd) \in Seq(S)
         /\ Len(Append(s, fd)) = Len(s) + 1
         /\ IsInjective(Append(s, fd))
         /\ Range(Append(s, fd)) = Range(s) \cup {fd}
         /\ Append(s, fd)[1] = s[1]
<1> DEFINE t == Append(s, fd)
<1>1. /\ t \in Seq(S) /\ Len(t) = Len(s) + 1
      /\ \A i \in 1..Len(s) : t[i] = s[i]
      /\ t[Len(s) + 1] = fd
  BY AppendProperties
<1> HIDE DEF t
<1>2. /\ Len(s) \in Nat /\ DOMAIN s = 1..Len(s) /\ DOMAIN t = 1..(Len(s) + 1) /\ Len(s) >= 1
  BY <1>1, LenProperties, EmptySeq
<1>3. \A i \in 1..Len(s) : s[i] # fd
  BY <1>2 DEF Range
<1>4. IsInjective(t)
  BY <1>1, <1>2, <1>3 DEF IsInjective
<1>5. Range(t) = Range(s) \cup {fd}
  BY <1>1, <1>2 DEF Range
<1>6. QED
  BY <1>1, <1>2, <1>4, <1>5 DEF t
-----------------------------------------------------------------------------
(* What the handlers leave alone.                                          *)

\* Handlers neither add nor remove clients nor revive a dead one.
Kept ==
    /\ DOMAIN clients' = DOMAIN clients
    /\ \A c \in DOMAIN clients :
          /\ clients'[c].ip = clients[c].ip
          /\ clients[c].dead => clients'[c].dead

LEMMA SendMessageKeeps ==
  ASSUME NEW r \in ClientType
  PROVE  /\ sendMessage(r).ip = r.ip
         /\ r.dead => sendMessage(r).dead
         /\ sendMessage(r).closing = r.closing
         /\ sendMessage(r).out >= r.out
         /\ sendMessage(r).dead /\ ~r.dead => r.out = MaxSendBuffer /\ ~r.closing
  BY ClientAssumption DEF sendMessage, markDead, Active, ClientType

LEMMA MarkKeeps ==
  ASSUME NEW r \in ClientType, NEW why
  PROVE  /\ markDead(r, why).ip = r.ip /\ (r.dead => markDead(r, why).dead)
         /\ markClosing(r, why).ip = r.ip /\ (r.dead => markClosing(r, why).dead)
  BY DEF markDead, markClosing, Active, ClientType

LEMMA SendKeeps ==
  ASSUME Inv, NEW to, clients' = Send(to)
  PROVE  Kept
<1>1. \A c \in DOMAIN clients : clients[c] \in ClientType
  BY DEF Inv, TypeOK
<1>2. QED
  BY <1>1, SendMessageKeeps DEF Send, Kept

LEMMA ChangeOneKeeps ==
  ASSUME Inv, NEW c \in DOMAIN clients, NEW r,
         clients' = [clients EXCEPT ![c] = r],
         r.ip = clients[c].ip, clients[c].dead => r.dead
  PROVE  Kept
  BY DEF Kept

LEMMA UnchangedKeeps ==
  ASSUME UNCHANGED clients
  PROVE  Kept
  BY DEF Kept

LEMMA PassKeeps ==
  ASSUME Inv, NEW c \in DOMAIN clients, PassCommand(c)
  PROVE  Kept
<1>0. clients[c] \in ClientType /\ clients[c].fails < MaxFailedPass
  BY ClientFacts DEF PassCommand, Dispatch
<1>1. CASE Reply(c)
  BY <1>1, SendKeeps DEF Reply
<1>2. CASE clients' = [clients EXCEPT ![c].passOk = TRUE]
  BY <1>0, <1>2, ChangeOneKeeps DEF ClientType
<1>3. ASSUME NEW failed, failed = sendMessage(recordFailedPassAttempt(clients[c])),
             clients' = [clients EXCEPT ![c] =
                           IF failed.fails >= MaxFailedPass
                           THEN markClosing(failed, "short") ELSE failed]
      PROVE  Kept
  <2>1. /\ recordFailedPassAttempt(clients[c]) \in ClientType
        /\ recordFailedPassAttempt(clients[c]).ip = clients[c].ip
        /\ recordFailedPassAttempt(clients[c]).dead = clients[c].dead
    BY <1>0, ClientAssumption DEF recordFailedPassAttempt, ClientType
  <2>2. failed \in ClientType /\ failed.ip = clients[c].ip /\ (clients[c].dead => failed.dead)
    BY <1>3, <2>1, SendMessageFacts, SendMessageKeeps
  <2>3. QED
    BY <1>3, <2>2, MarkKeeps, ChangeOneKeeps
<1>4. QED
  BY <1>1, <1>2, <1>3 DEF PassCommand

LEMMA WelcomeKeeps ==
  ASSUME NEW r \in ClientType
  PROVE  Welcome(r).ip = r.ip /\ (r.dead => Welcome(r).dead)
  BY SendMessageKeeps DEF Welcome

LEMMA UserKeeps ==
  ASSUME Inv, NEW c \in DOMAIN clients, UserCommand(c)
  PROVE  Kept
<1>0. clients[c] \in ClientType
  BY ClientFacts
<1>1. CASE Reply(c)
  BY <1>1, SendKeeps DEF Reply
<1>2. CASE clients' = [clients EXCEPT ![c] = Welcome([@ EXCEPT !.userSet = TRUE])]
  <2> DEFINE r == [clients[c] EXCEPT !.userSet = TRUE]
  <2>1. r \in ClientType /\ r.ip = clients[c].ip /\ r.dead = clients[c].dead
    BY <1>0 DEF ClientType
  <2>2. clients' = [clients EXCEPT ![c] = Welcome(r)]
    BY <1>2
  <2> HIDE DEF r
  <2>3. QED
    BY <2>1, <2>2, WelcomeKeeps, ChangeOneKeeps
<1>3. QED
  BY <1>1, <1>2 DEF UserCommand

LEMMA NickKeeps ==
  ASSUME Inv, NEW c \in DOMAIN clients, NEW n \in Nicks, NickCommand(c, n)
  PROVE  Kept
<1>0. \A d \in DOMAIN clients : clients[d] \in ClientType
  BY ClientFacts
<1>1. CASE Reply(c)
  BY <1>1, SendKeeps DEF Reply
<1>2. ASSUME NEW told, clients' = [Send(told) EXCEPT ![c].nick = n]
      PROVE  Kept
  <2>1. DOMAIN clients' = DOMAIN clients
    BY <1>2 DEF Send
  <2>2. \A d \in DOMAIN clients : Send(told)[d] \in ClientType
    BY <1>0, SendMessageFacts DEF Send
  <2>3. \A d \in DOMAIN clients : /\ clients'[d].ip = Send(told)[d].ip
                                  /\ clients'[d].dead = Send(told)[d].dead
    BY <1>2, <2>2 DEF Send, ClientType
  <2>4. QED
    BY <1>0, <2>1, <2>3, SendMessageKeeps DEF Send, Kept
<1>3. CASE clients' = [clients EXCEPT ![c] = Welcome([@ EXCEPT !.nick = n])]
  <2> DEFINE r == [clients[c] EXCEPT !.nick = n]
  <2>1. r \in ClientType /\ r.ip = clients[c].ip /\ r.dead = clients[c].dead
    BY <1>0 DEF ClientType
  <2>2. clients' = [clients EXCEPT ![c] = Welcome(r)]
    BY <1>3
  <2> HIDE DEF r
  <2>3. QED
    BY <2>1, <2>2, WelcomeKeeps, ChangeOneKeeps
<1>4. QED
  BY <1>1, <1>2, <1>3 DEF NickCommand

LEMMA CommandKeeps ==
  ASSUME Inv, NEW c \in DOMAIN clients, CommandOf(c)
  PROVE  Kept
<1>0. clients[c] \in ClientType
  BY ClientFacts
<1>1. CASE ProcessLineReply(c) \/ \E verb \in LoopVerbs \ {"JOIN0"} : NotEnoughParameters(c, verb)
  BY <1>1, SendKeeps DEF ProcessLineReply, NotEnoughParameters, Reply
<1>2. CASE \E why \in QuitReasons : Quit(c, why)
  BY <1>0, <1>2, MarkKeeps, ChangeOneKeeps DEF Quit
<1>3. CASE \E verb \in LoopVerbs : StartCommand(c, verb)
  BY <1>3, UnchangedKeeps DEF StartCommand
<1>4. CASE \E n \in Nicks, ch \in ChanNames : InviteCommand(c, n, ch)
  BY <1>4, SendKeeps DEF InviteCommand, Reply
<1>5. CASE \E ch \in ChanNames, topic \in Topics \cup {NoTopic} : TopicCommand(c, ch, topic)
  BY <1>5, SendKeeps, UnchangedKeeps DEF TopicCommand, Reply
<1>6. CASE \E ch \in ChanNames : ModeCommand(c, ch)
  BY <1>6, SendKeeps, UnchangedKeeps DEF ModeCommand, Reply
<1>7. QED
  BY <1>1, <1>2, <1>3, <1>4, <1>5, <1>6, PassKeeps, NickKeeps, UserKeeps DEF CommandOf

LEMMA JobKeeps ==
  ASSUME Inv, JobStep
  PROVE  Kept
<1>1. CASE \E ch \in ChanNames, key \in Keys \cup {NoKey} : JoinTarget(ch, key)
  BY <1>1, SendKeeps DEF JoinTarget, Reply
<1>2. CASE \E ch \in DOMAIN channels : PartTarget(ch)
  BY <1>2, SendKeeps DEF PartTarget
<1>3. CASE \E ch \in ChanNames, n \in Nicks : KickTarget(ch, n)
  BY <1>3, SendKeeps, UnchangedKeeps DEF KickTarget, Reply
<1>4. CASE (\E ch \in ChanNames : PrivmsgChannel(ch)) \/ \E n \in Nicks : PrivmsgNick(n)
  BY <1>4, SendKeeps, UnchangedKeeps DEF PrivmsgChannel, PrivmsgNick, Reply
<1>5. CASE ModeSign \/ ModeFlag \/ EndCommand \/ EndPart
  BY <1>5, UnchangedKeeps DEF ModeSign, ModeFlag, Apply, EndCommand, EndPart
<1>6. CASE \/ \E key \in Keys \cup {NoKey} : ModeKey(key)
           \/ \E a \in LimitArgs : ModeLimit(a)
           \/ \E n \in Nicks : ModeOperator(n)
  BY <1>6, SendKeeps, UnchangedKeeps DEF ModeKey, ModeLimit, ModeOperator, Apply, Reply
<1>7. CASE ModeEnd
  BY <1>7, SendKeeps, UnchangedKeeps DEF ModeEnd
<1>8. QED
  BY <1>1, <1>2, <1>3, <1>4, <1>5, <1>6, <1>7 DEF JobStep

LEMMA ConnectionKeeps ==
  ASSUME Inv, NEW c \in DOMAIN clients,
         \/ PeerClosed(c) \/ SocketError(c) \/ MarkFlushed(c)
         \/ \E n \in 1..MaxSendBuffer : handleClientWrite(c, n)
  PROVE  Kept
<1>0. clients[c] \in ClientType
  BY ClientFacts
<1>1. CASE PeerClosed(c) \/ SocketError(c) \/ MarkFlushed(c)
  BY <1>0, <1>1, MarkKeeps, ChangeOneKeeps DEF PeerClosed, SocketError, MarkFlushed
<1>2. CASE \E n \in 1..MaxSendBuffer : handleClientWrite(c, n)
  BY <1>0, <1>2, ChangeOneKeeps DEF handleClientWrite, consumeSendBuffer, ClientType
<1>3. QED
  BY <1>1, <1>2
-----------------------------------------------------------------------------
(* Counting the clients of an address.                                     *)

LEMMA FiniteClients ==
  ASSUME Inv
  PROVE  /\ IsFiniteSet(DOMAIN clients)
         /\ \A S \in SUBSET DOMAIN clients : IsFiniteSet(S) /\ Cardinality(S) \in Nat
  BY ChannelAssumption, FS_Subset, FS_CardinalityType DEF Inv, TypeOK

Live(ip) == {c \in DOMAIN clients : ~clients[c].dead /\ clients[c].ip = ip}

LEMMA LiveCount ==
  ASSUME NEW ip
  PROVE  /\ countClientsFromIp(ip) = Cardinality(Live(ip))
         /\ countClientsFromIp(ip)' = Cardinality(Live(ip)')
  BY DEF countClientsFromIp, Live

\* A step of a handler can only make live clients dead.
LEMMA KeptCounts ==
  ASSUME Inv, Kept, NEW ip
  PROVE  /\ FromIp(ip)' = FromIp(ip)
         /\ Cardinality(Live(ip)') <= Cardinality(Live(ip))
         /\ Cardinality(Live(ip)') \in Nat /\ Cardinality(Live(ip)) \in Nat
         /\ Cardinality(FromIp(ip)) \in Nat
<1>1. FromIp(ip)' = FromIp(ip)
  BY DEF Kept, FromIp
<1>2. Live(ip)' \subseteq Live(ip) /\ Live(ip) \subseteq DOMAIN clients
  BY DEF Kept, Live
<1>3. FromIp(ip) \subseteq DOMAIN clients
  BY DEF FromIp
<1>4. QED
  BY <1>1, <1>2, <1>3, FiniteClients, FS_Subset

LEMMA KeptIp ==
  ASSUME Inv, IpInv, Kept, ~BeforeAccept', phase' # "disconnect"
  PROVE  IpInv'
<1>1. ASSUME NEW ip \in Ips
      PROVE  /\ countClientsFromIp(ip)' <= MaxPerIp
             /\ Cardinality(FromIp(ip)') <= MaxPerIp + 1
  <2>1. /\ FromIp(ip)' = FromIp(ip)
        /\ Cardinality(Live(ip)') <= Cardinality(Live(ip))
        /\ Cardinality(Live(ip)') \in Nat /\ Cardinality(Live(ip)) \in Nat
    BY KeptCounts
  <2>2. Cardinality(Live(ip)) <= MaxPerIp /\ MaxPerIp \in Nat
    BY LiveCount, CommandsAssumption DEF IpInv
  <2>3. Cardinality(Live(ip)') <= MaxPerIp
    BY <2>1, <2>2
  <2>4. QED
    BY <2>1, <2>3, LiveCount DEF IpInv
<1>2. QED
  BY <1>1 DEF IpInv

LEMMA SameIp ==
  ASSUME IpInv, UNCHANGED clients, BeforeAccept' => BeforeAccept, phase' # "disconnect"
  PROVE  IpInv'
  BY DEF IpInv, FromIp, countClientsFromIp
-----------------------------------------------------------------------------
(* The steps of a round.                                                   *)

LEMMA PollSetFacts ==
  ASSUME LoopInv
  PROVE  /\ pollFds \in Seq(Fds \cup {Listener})
         /\ Len(pollFds) \in Nat /\ Len(pollFds) >= 1 /\ pollFds # <<>>
         /\ DOMAIN pollFds = 1..Len(pollFds)
         /\ DOMAIN revents = Range(pollFds)
         /\ \A i \in 1..Len(pollFds) : pollFds[i] \in Range(pollFds)
         /\ \A i \in 1..Len(pollFds) : pollFds[i] = Listener <=> i = 1
         /\ \A i \in 1..Len(pollFds) : i # 1 <=> pollFds[i] \in DOMAIN clients
         /\ \A i, j \in 1..Len(pollFds) : pollFds[i] = pollFds[j] => i = j
         /\ Listener \notin DOMAIN clients
         /\ index \in 1..(Len(pollFds) + 1)
<1>1. /\ pollFds \in Seq(Fds \cup {Listener}) /\ DOMAIN revents = Range(pollFds)
      /\ index \in 1..(Len(pollFds) + 1)
  BY DEF LoopInv, LoopTypeOK
<1>2. Len(pollFds) \in Nat /\ DOMAIN pollFds = 1..Len(pollFds)
  BY <1>1, LenProperties
<1>3. /\ \A i, j \in 1..Len(pollFds) : pollFds[i] = pollFds[j] => i = j
      /\ pollFds[1] = Listener
      /\ Range(pollFds) = {Listener} \cup DOMAIN clients
  BY <1>2 DEF LoopInv, PollSetMatchesClients, IsInjective
<1>4. Range(pollFds) = {pollFds[i] : i \in 1..Len(pollFds)}
  BY <1>2 DEF Range
<1>5. PICK i \in 1..Len(pollFds) : pollFds[i] = Listener
  BY <1>3, <1>4
<1>6. Len(pollFds) >= 1 /\ pollFds # <<>>
  BY <1>1, <1>2, <1>5, EmptySeq
<1>7. Listener \notin DOMAIN clients
  BY ServerAssumption DEF LoopInv, Inv, TypeOK
<1>8. QED
  BY <1>1, <1>2, <1>3, <1>4, <1>6, <1>7

\* A descriptor of the poll set is served, or one turn of the reaper's scan.
LEMMA ServeStep ==
  ASSUME LoopInv, Inv', Kept,
         \/ /\ InRound /\ index \in 2..Len(pollFds)
            /\ \E p \in {"lines", "write", "error"} : Goto(p)
         \/ phase = "error" /\ NextFd
         \/ phase = "reap" /\ Goto("reap")
  PROVE  LoopInv'
<1>0. /\ UNCHANGED <<pollFds, deadFds, g_shutdown, interrupted>>
      /\ phase \in {"scan", "lines", "write", "error", "reap"}
      /\ phase' \in {"scan", "lines", "write", "error", "reap"}
      /\ phase = "reap" <=> phase' = "reap"
      /\ phase' = "scan" => index' # 1
  BY PollSetFacts DEF Goto, NextFd, InRound, LoopInv, PositionInv
<1>1. CASE UNCHANGED <<index, revents>>
  <2>1. LoopTypeOK'
    BY <1>0, <1>1 DEF LoopInv, LoopTypeOK, Inv
  <2>2. PositionInv'
    BY <1>0, <1>1, PollSetFacts DEF LoopInv, PositionInv, InRound, Goto, NextFd
  <2>3. QED
    <3>1. PollSetMatchesClients'
      BY <1>0 DEF LoopInv, PollSetMatchesClients, Kept
    <3>2. ReapInv'
      BY <1>0 DEF LoopInv, ReapInv, Kept
    <3>3. SettledInv'
      BY <1>0 DEF SettledInv
    <3>4. IpInv'
      BY <1>0, KeptIp DEF LoopInv, BeforeAccept
    <3>5. QED
      BY <2>1, <2>2, <3>1, <3>2, <3>3, <3>4 DEF LoopInv
<1>2. CASE phase = "error" /\ NextFd
  <2>0. /\ index \in 2..Len(pollFds) /\ index' = index + 1 /\ phase' = "scan"
        /\ revents' = [revents EXCEPT ![pollFds[index]] = {}]
    BY <1>2 DEF NextFd, current, LoopInv, PositionInv
  <2>1. LoopTypeOK'
    <3>1. revents' \in [Range(pollFds) -> SUBSET {"IN", "OUT", "ERR"}]
      BY <2>0 DEF LoopInv, LoopTypeOK
    <3>2. index' \in 1..(Len(pollFds) + 1)
      BY <2>0, PollSetFacts
    <3>3. QED
      BY <1>0, <2>0, <3>1, <3>2 DEF LoopInv, LoopTypeOK, Inv
  <2>2. PositionInv'
    <3>1. ASSUME NEW i \in 1..index
          PROVE  revents'[pollFds[i]] = {}
      BY <1>2, <2>0, PollSetFacts DEF LoopInv, PositionInv, InRound
    <3>2. QED
      BY <1>0, <2>0, <3>1, PollSetFacts DEF PositionInv, InRound
  <2>3. QED
    <3>1. PollSetMatchesClients'
      BY <1>0 DEF LoopInv, PollSetMatchesClients, Kept
    <3>2. ReapInv'
      BY <1>0 DEF LoopInv, ReapInv, Kept
    <3>3. SettledInv'
      BY <1>0 DEF SettledInv
    <3>4. IpInv'
      BY <1>0, KeptIp DEF LoopInv, BeforeAccept
    <3>5. QED
      BY <2>1, <2>2, <3>1, <3>2, <3>3, <3>4 DEF LoopInv
<1>3. QED
  BY <1>1, <1>2 DEF Goto

LEMMA UnchangedInv ==
  ASSUME Inv, UNCHANGED vars
  PROVE  Inv'
  BY NextInv

\* The for loop moves on from a descriptor it had nothing to do for.
LEMMA PassedStep ==
  ASSUME LoopInv, phase = "scan", index <= Len(pollFds), NextFd, UNCHANGED vars
  PROVE  LoopInv'
<1>0. /\ index \in 1..Len(pollFds) /\ index' = index + 1 /\ phase' = "scan"
      /\ revents' = [revents EXCEPT ![pollFds[index]] = {}]
      /\ UNCHANGED <<pollFds, deadFds, g_shutdown, interrupted, clients>>
  BY PollSetFacts DEF NextFd, current, vars
<1>1. Inv'
  BY UnchangedInv DEF LoopInv
<1>2. LoopTypeOK'
  <2>1. revents' \in [Range(pollFds) -> SUBSET {"IN", "OUT", "ERR"}]
    BY <1>0 DEF LoopInv, LoopTypeOK
  <2>2. index' \in 1..(Len(pollFds) + 1)
    BY <1>0, PollSetFacts
  <2>3. QED
    BY <1>0, <1>1, <2>1, <2>2 DEF LoopInv, LoopTypeOK, Inv
<1>3. PollSetMatchesClients'
  BY <1>0 DEF LoopInv, PollSetMatchesClients
<1>4. PositionInv'
  <2>1. ASSUME NEW i \in 1..index
        PROVE  revents'[pollFds[i]] = {}
    BY <1>0, PollSetFacts DEF LoopInv, PositionInv, InRound
  <2>2. QED
    BY <1>0, <2>1, PollSetFacts DEF PositionInv, InRound
<1>5. ReapInv'
  BY <1>0 DEF LoopInv, ReapInv
<1>6. SettledInv'
  BY <1>0 DEF SettledInv
<1>7. IpInv'
  BY <1>0, SameIp DEF LoopInv, BeforeAccept
<1>8. QED
  BY <1>1, <1>2, <1>3, <1>4, <1>5, <1>6, <1>7 DEF LoopInv

\* A connection is accepted: the listening socket is the first descriptor, so
\* it is the only one of the round.
LEMMA AcceptedStep ==
  ASSUME LoopInv, Scanning(Listener), NEW c \in Fds, NEW ip \in Ips,
         acceptNewClient(c, ip),
         pollFds' = Append(pollFds, c),
         revents' = [fd \in Range(pollFds) \cup {c} |->
                        IF fd \in {Listener, c} THEN {} ELSE revents[fd]],
         index' = index + 1,
         UNCHANGED <<phase, deadFds, g_shutdown, interrupted>>
  PROVE  LoopInv'
<1>0. phase = "scan" /\ index = 1
  BY PollSetFacts DEF Scanning, current
<1>1. Inv'
  BY AcceptStep DEF LoopInv
<1>2. /\ c \notin DOMAIN clients /\ c # Listener /\ c \in Fds \cup {Listener}
      /\ DOMAIN clients' = DOMAIN clients \cup {c}
      /\ clients'[c] = NewClient(ip)
      /\ \A d \in DOMAIN clients : clients'[d] = clients[d]
  BY ServerAssumption DEF acceptNewClient
<1>3. IsInjective(pollFds) /\ Range(pollFds) = {Listener} \cup DOMAIN clients
      /\ pollFds[1] = Listener
  BY DEF LoopInv, PollSetMatchesClients
<1>4. /\ pollFds' \in Seq(Fds \cup {Listener})
      /\ Len(pollFds') = Len(pollFds) + 1
      /\ IsInjective(pollFds')
      /\ Range(pollFds') = Range(pollFds) \cup {c}
      /\ pollFds'[1] = Listener
  BY <1>2, <1>3, PollSetFacts, PushFacts
<1>5. LoopTypeOK'
  <2>1. revents' \in [Range(pollFds') -> SUBSET {"IN", "OUT", "ERR"}]
    BY <1>4 DEF LoopInv, LoopTypeOK
  <2>2. index' \in 1..(Len(pollFds') + 1)
    BY <1>0, <1>4, PollSetFacts
  <2>3. QED
    BY <1>1, <1>4, <2>1, <2>2 DEF LoopInv, LoopTypeOK, Inv
<1>6. PollSetMatchesClients'
  BY <1>2, <1>3, <1>4 DEF PollSetMatchesClients
<1>7. PositionInv'
  <2>1. ASSUME NEW i \in 1..(index' - 1)
        PROVE  revents'[pollFds'[i]] = {}
    <3>1. i = 1
      BY <1>0
    <3>2. QED
      BY <1>3, <1>4, <3>1
  <2>2. QED
    BY <1>0, <2>1 DEF PositionInv, InRound
<1>8. ReapInv'
  BY <1>0, <1>2 DEF LoopInv, ReapInv
<1>9. SettledInv'
  BY <1>0 DEF SettledInv
<1>10. IpInv'
  <2>1. ASSUME NEW a \in Ips
        PROVE  /\ Cardinality(Live(a)') <= MaxPerIp
               /\ Cardinality(FromIp(a)') <= MaxPerIp + 1
    <3>1. /\ IsFiniteSet(Live(a)) /\ Cardinality(Live(a)) \in Nat
          /\ IsFiniteSet(FromIp(a)) /\ Cardinality(FromIp(a)) \in Nat
      BY FiniteClients DEF LoopInv, Live, FromIp
    <3>2. /\ Cardinality(Live(a)) <= MaxPerIp /\ Cardinality(FromIp(a)) <= MaxPerIp
          /\ MaxPerIp \in Nat
      BY <1>0, LiveCount, CommandsAssumption DEF LoopInv, IpInv, BeforeAccept
    <3>3. CASE a # ip
      <4>1. Live(a)' = Live(a) /\ FromIp(a)' = FromIp(a)
        BY <1>2, <3>3 DEF Live, FromIp, NewClient
      <4>2. QED
        BY <3>1, <3>2, <4>1
    <3>4. CASE a = ip
      <4>1. Live(a)' = Live(a) \cup {c} /\ FromIp(a)' = FromIp(a) \cup {c}
        BY <1>2, <3>4 DEF Live, FromIp, NewClient
      <4>2. c \notin Live(a) /\ c \notin FromIp(a)
        BY <1>2 DEF Live, FromIp
      <4>3. Cardinality(Live(a)) < MaxPerIp
        BY <3>4, LiveCount DEF acceptNewClient
      <4>4. /\ Cardinality(Live(a)') = Cardinality(Live(a)) + 1
            /\ Cardinality(FromIp(a)') = Cardinality(FromIp(a)) + 1
        BY <3>1, <4>1, <4>2, FS_AddElement
      <4>5. QED
        BY <3>1, <3>2, <4>3, <4>4
    <3>5. QED
      BY <3>3, <3>4
  <2>2. QED
    BY <1>0, <2>1, LiveCount DEF IpInv, BeforeAccept
<1>11. QED
  BY <1>1, <1>5, <1>6, <1>7, <1>8, <1>9, <1>10 DEF LoopInv

\* Top, Refresh, Poll, Signal, PollInterrupted, EndOfScan: neither the clients
\* nor the poll set change.
LEMMA QuietLoopStep ==
  ASSUME LoopInv, Top \/ Refresh \/ Poll \/ Signal \/ PollInterrupted \/ EndOfScan
  PROVE  LoopInv'
<1>0. UNCHANGED vars /\ UNCHANGED <<clients, pollFds, deadFds>>
  BY DEF Top, Refresh, Poll, Signal, PollInterrupted, EndOfScan, Goto, vars
<1>1. Inv'
  BY <1>0, UnchangedInv DEF LoopInv
<1>2. /\ revents' \in [Range(pollFds) -> SUBSET {"IN", "OUT", "ERR"}]
      /\ g_shutdown' \in BOOLEAN /\ interrupted' \in BOOLEAN
      /\ index' \in {index, 1}
  BY DEF LoopInv, LoopTypeOK, Top, Refresh, Poll, Signal, PollInterrupted, EndOfScan, Goto
<1>3. LoopTypeOK'
  <2>1. index' \in 1..(Len(pollFds) + 1)
    BY <1>2, PollSetFacts
  <2>2. phase' \in {"top", "refresh", "poll", "scan", "lines", "write",
                    "error", "reap", "disconnect", "exit"}
    BY DEF LoopInv, LoopTypeOK, Top, Refresh, Poll, Signal, PollInterrupted, EndOfScan, Goto
  <2>3. QED
    BY <1>0, <1>1, <1>2, <2>1, <2>2 DEF LoopInv, LoopTypeOK, Inv
<1>4. PollSetMatchesClients'
  BY <1>0 DEF LoopInv, PollSetMatchesClients
<1>5. PositionInv'
  <2>1. CASE Top \/ Refresh \/ Poll \/ PollInterrupted
    BY <2>1 DEF LoopInv, PositionInv, InRound, Top, Refresh, Poll, PollInterrupted, Goto
  <2>2. CASE Signal
    BY <2>2 DEF LoopInv, PositionInv, InRound, Signal
  <2>3. CASE EndOfScan
    <3>1. ASSUME NEW fd \in DOMAIN revents
          PROVE  revents[fd] = {}
      <4>1. PICK i \in 1..Len(pollFds) : fd = pollFds[i]
        BY PollSetFacts DEF Range
      <4>2. i \in 1..(index - 1)
        BY <2>3, <4>1, PollSetFacts DEF EndOfScan
      <4>3. QED
        BY <2>3, <4>1, <4>2 DEF LoopInv, PositionInv, InRound, EndOfScan
    <3>2. QED
      BY <2>3, <3>1 DEF PositionInv, InRound, EndOfScan
  <2>4. QED
    BY <2>1, <2>2, <2>3
<1>6. ReapInv'
  BY <1>0 DEF LoopInv, ReapInv, Top, Refresh, Poll, Signal, PollInterrupted, EndOfScan, Goto
<1>7. SettledInv'
  BY <1>0 DEF LoopInv, SettledInv, Top, Refresh, Poll, Signal, PollInterrupted, EndOfScan, Goto
<1>8. IpInv'
  <2>1. CASE Signal
    BY <1>0, <2>1 DEF Signal, LoopInv, IpInv, BeforeAccept, FromIp, countClientsFromIp
  <2>2. CASE ~Signal
    BY <1>0, <2>2, SameIp DEF LoopInv, PositionInv, InRound, BeforeAccept,
         Top, Refresh, Poll, PollInterrupted, EndOfScan, Goto
  <2>3. QED
    BY <2>1, <2>2
<1>9. QED
  BY <1>1, <1>3, <1>4, <1>5, <1>6, <1>7, <1>8 DEF LoopInv

LEMMA CollectStep ==
  ASSUME LoopInv, CollectDead
  PROVE  LoopInv'
<1>0. /\ UNCHANGED vars /\ UNCHANGED <<clients, pollFds, index, revents, g_shutdown, interrupted>>
      /\ phase = "reap" /\ phase' = "disconnect"
      /\ deadFds' = {c \in DOMAIN clients : clients[c].dead}
      /\ \A c \in DOMAIN clients :
            clients[c].closing /\ ~hasPendingOutput(clients[c]) => clients[c].dead
  BY DEF CollectDead, vars
<1>1. Inv'
  BY <1>0, UnchangedInv DEF LoopInv
<1>2. LoopTypeOK'
  <2>1. deadFds' \subseteq Fds
    BY <1>0 DEF LoopInv, Inv, TypeOK
  <2>2. QED
    BY <1>0, <1>1, <2>1 DEF LoopInv, LoopTypeOK, Inv
<1>3. PollSetMatchesClients' /\ PositionInv'
  BY <1>0 DEF LoopInv, PollSetMatchesClients, PositionInv, InRound
<1>4. ReapInv'
  BY <1>0 DEF ReapInv
<1>5. SettledInv'
  BY <1>0 DEF SettledInv, Settled
<1>6. IpInv'
  <2>1. ASSUME NEW ip \in Ips
        PROVE  (FromIp(ip) \ deadFds)' = Live(ip)
    BY <1>0 DEF FromIp, Live
  <2>2. QED
    BY <1>0, <2>1, LiveCount DEF LoopInv, IpInv, BeforeAccept, FromIp, countClientsFromIp
<1>7. QED
  BY <1>1, <1>2, <1>3, <1>4, <1>5, <1>6 DEF LoopInv

LEMMA EndOfReapStep ==
  ASSUME LoopInv, EndOfReap
  PROVE  LoopInv'
<1>0. /\ UNCHANGED vars
      /\ UNCHANGED <<clients, pollFds, index, revents, deadFds, g_shutdown, interrupted>>
      /\ phase = "disconnect" /\ phase' = "top" /\ deadFds = {}
  BY DEF EndOfReap, Goto, vars
<1>1. Inv'
  BY <1>0, UnchangedInv DEF LoopInv
<1>2. LoopTypeOK' /\ PollSetMatchesClients' /\ PositionInv'
  BY <1>0, <1>1 DEF LoopInv, LoopTypeOK, PollSetMatchesClients, PositionInv, InRound, Inv
<1>3. ReapInv' /\ SettledInv'
  BY <1>0 DEF LoopInv, ReapInv, SettledInv
<1>4. IpInv'
  <2>1. ASSUME NEW ip \in Ips
        PROVE  FromIp(ip) \ deadFds = FromIp(ip)
    BY <1>0
  <2>2. QED
    BY <1>0, <2>1 DEF LoopInv, IpInv, FromIp, countClientsFromIp
<1>5. QED
  BY <1>1, <1>2, <1>3, <1>4 DEF LoopInv

\* A dead client goes: nobody else leaves, and whom its QUIT line overflows is
\* left for the next round.
LEMMA ReapStep ==
  ASSUME LoopInv, NEW c \in DOMAIN clients, ReapDisconnect(c)
  PROVE  LoopInv'
<1>0. /\ phase = "disconnect" /\ c \in deadFds /\ disconnectClient(c)
      /\ pollFds' = Erase(pollFds, c)
      /\ revents' = Restrict(revents, DOMAIN revents \ {c})
      /\ deadFds' = deadFds \ {c}
      /\ UNCHANGED <<phase, index, g_shutdown, interrupted>>
  BY DEF ReapDisconnect
<1>1. Inv'
  BY <1>0, DisconnectStep DEF LoopInv
<1>2. PICK to : clients' = Restrict(Send(to), DOMAIN clients \ {c})
  BY <1>0 DEF disconnectClient
<1>3. /\ DOMAIN clients' = DOMAIN clients \ {c}
      /\ \A d \in DOMAIN clients' :
            clients'[d] = IF d \in to THEN sendMessage(clients[d]) ELSE clients[d]
  BY <1>2 DEF Restrict, Send
<1>4. \A d \in DOMAIN clients' :
         /\ clients[d] \in ClientType
         /\ clients'[d].ip = clients[d].ip
         /\ clients[d].dead => clients'[d].dead
         /\ clients'[d].closing = clients[d].closing
         /\ clients'[d].out >= clients[d].out /\ clients'[d].out \in 0..MaxSendBuffer
         /\ clients'[d].dead /\ ~clients[d].dead =>
               clients[d].out = MaxSendBuffer /\ ~clients[d].closing
  <2>1. \A d \in DOMAIN clients' : clients'[d] \in ClientType
    BY <1>1 DEF Inv, TypeOK
  <2>2. \A d \in DOMAIN clients : clients[d] \in ClientType
    BY ClientFacts DEF LoopInv
  <2>3. \A r \in ClientType : r.out \in 0..MaxSendBuffer
    BY ClientAssumption, SMTT(30) DEF ClientType
  <2>4. QED
    BY <1>3, <2>1, <2>2, <2>3, SendMessageKeeps
<1>5. /\ pollFds' \in Seq(Fds \cup {Listener})
      /\ Len(pollFds') = Len(pollFds) - 1
      /\ IsInjective(pollFds')
      /\ Range(pollFds') = Range(pollFds) \ {c}
      /\ pollFds'[1] = Listener
  <2>1. IsInjective(pollFds) /\ pollFds[1] = Listener /\ c \in Range(pollFds) /\ c # Listener
    BY PollSetFacts DEF LoopInv, PollSetMatchesClients
  <2>2. QED
    BY <1>0, <2>1, PollSetFacts, EraseFacts
<1>6. index = 1
  BY <1>0 DEF LoopInv, PositionInv, InRound
<1>7. LoopTypeOK'
  <2>1. revents' \in [Range(pollFds') -> SUBSET {"IN", "OUT", "ERR"}]
    BY <1>0, <1>5 DEF LoopInv, LoopTypeOK, Restrict
  <2>2. Len(pollFds') \in Nat
    BY <1>5, LenProperties
  <2>3. index' \in 1..(Len(pollFds') + 1)
    BY <1>0, <1>6, <2>2
  <2>4. deadFds' \subseteq Fds
    BY <1>0 DEF LoopInv, LoopTypeOK
  <2>5. QED
    BY <1>0, <1>1, <1>5, <2>1, <2>3, <2>4 DEF LoopInv, LoopTypeOK, Inv
<1>8. PollSetMatchesClients'
  BY <1>3, <1>5, PollSetFacts DEF LoopInv, PollSetMatchesClients
<1>9. PositionInv'
  BY <1>0, <1>6 DEF PositionInv, InRound
<1>10. ReapInv'
  BY <1>0, <1>3, <1>4 DEF LoopInv, ReapInv
<1>11. SettledInv'
  <2>1. ASSUME NEW d \in DOMAIN clients' \ deadFds'
        PROVE  Settled(clients'[d])
    <3>1. d \in DOMAIN clients \ deadFds /\ d \in DOMAIN clients'
      BY <1>0, <1>3
    <3>2. Settled(clients[d]) /\ clients[d].out \in 0..MaxSendBuffer
      BY <1>0, <1>4, <3>1 DEF LoopInv, SettledInv, ClientType
    <3>3. QED
      BY <1>4, <3>1, <3>2, ClientAssumption DEF Settled, hasPendingOutput
  <2>2. QED
    BY <1>3, <2>1 DEF SettledInv
<1>12. IpInv'
  <2>1. ASSUME NEW ip \in Ips
        PROVE  /\ Cardinality(Live(ip)') <= MaxPerIp
               /\ Cardinality(FromIp(ip)') <= MaxPerIp + 1
               /\ Cardinality((FromIp(ip) \ deadFds)') <= MaxPerIp
    <3>1. /\ Live(ip)' \subseteq Live(ip) /\ FromIp(ip)' \subseteq FromIp(ip)
          /\ (FromIp(ip) \ deadFds)' \subseteq FromIp(ip) \ deadFds
      BY <1>0, <1>3, <1>4 DEF Live, FromIp
    <3>2. /\ IsFiniteSet(Live(ip)) /\ IsFiniteSet(FromIp(ip)) /\ IsFiniteSet(FromIp(ip) \ deadFds)
          /\ Cardinality(Live(ip)) \in Nat /\ Cardinality(FromIp(ip)) \in Nat
          /\ Cardinality(FromIp(ip) \ deadFds) \in Nat
      BY FiniteClients DEF LoopInv, Live, FromIp
    <3>3. /\ Cardinality(Live(ip)') <= Cardinality(Live(ip))
          /\ Cardinality(FromIp(ip)') <= Cardinality(FromIp(ip))
          /\ Cardinality((FromIp(ip) \ deadFds)') <= Cardinality(FromIp(ip) \ deadFds)
          /\ Cardinality(Live(ip)') \in Nat /\ Cardinality(FromIp(ip)') \in Nat
          /\ Cardinality((FromIp(ip) \ deadFds)') \in Nat
      BY <3>1, <3>2, FS_Subset, FS_CardinalityType
    <3>4. /\ Cardinality(Live(ip)) <= MaxPerIp /\ MaxPerIp \in Nat
          /\ Cardinality(FromIp(ip)) <= MaxPerIp + 1
          /\ Cardinality(FromIp(ip) \ deadFds) <= MaxPerIp
      BY <1>0, LiveCount, CommandsAssumption DEF LoopInv, IpInv
    <3>5. QED
      BY <3>2, <3>3, <3>4
  <2>2. QED
    BY <1>0, <2>1, LiveCount DEF IpInv, BeforeAccept
<1>13. QED
  BY <1>1, <1>7, <1>8, <1>9, <1>10, <1>11, <1>12 DEF LoopInv
-----------------------------------------------------------------------------
(* The loop as a whole.                                                    *)

LEMMA LoopInitInv == LoopInit => LoopInv
<1> SUFFICES ASSUME LoopInit PROVE LoopInv
  OBVIOUS
<1>0. /\ phase = "top" /\ pollFds = <<Listener>> /\ index = 1
      /\ revents = [fd \in {Listener} |-> {}] /\ deadFds = {}
      /\ g_shutdown = FALSE /\ interrupted = FALSE /\ DOMAIN clients = {}
  BY DEF LoopInit, Init
<1>1. Inv
  BY InitInv DEF LoopInit
<1>2. /\ pollFds \in Seq(Fds \cup {Listener}) /\ Len(pollFds) = 1
      /\ DOMAIN pollFds = {1} /\ pollFds[1] = Listener
  BY <1>0
<1>3. Range(pollFds) = {Listener} /\ IsInjective(pollFds)
  BY <1>2 DEF Range, IsInjective
<1>4. LoopTypeOK
  <2>1. revents \in [Range(pollFds) -> SUBSET {"IN", "OUT", "ERR"}]
    BY <1>0, <1>3
  <2>2. g_shutdown \in BOOLEAN /\ interrupted \in BOOLEAN
    BY <1>0
  <2>3. index \in 1..(Len(pollFds) + 1)
    BY <1>0, <1>2
  <2>4. QED
    BY <1>0, <1>1, <1>2, <2>1, <2>2, <2>3 DEF LoopTypeOK, Inv
<1>5. PollSetMatchesClients
  BY <1>0, <1>2, <1>3 DEF PollSetMatchesClients
<1>6. PositionInv /\ ReapInv /\ SettledInv
  BY <1>0 DEF PositionInv, InRound, ReapInv, SettledInv
<1>7. IpInv
  <2>1. ASSUME NEW ip \in Ips
        PROVE  FromIp(ip) = {} /\ Live(ip) = {}
    BY <1>0 DEF FromIp, Live
  <2>2. Cardinality({}) = 0 /\ MaxPerIp \in Nat
    BY FS_EmptySet, CommandsAssumption
  <2>3. ASSUME NEW ip \in Ips
        PROVE  /\ countClientsFromIp(ip) <= MaxPerIp
               /\ Cardinality(FromIp(ip)) <= MaxPerIp
               /\ Cardinality(FromIp(ip)) <= MaxPerIp + 1
    <3>1. countClientsFromIp(ip) = 0 /\ Cardinality(FromIp(ip)) = 0
      BY <2>1, <2>2, LiveCount
    <3>2. QED
      BY <2>2, <3>1
  <2>4. QED
    BY <1>0, <2>3 DEF IpInv
<1>8. QED
  BY <1>1, <1>4, <1>5, <1>6, <1>7 DEF LoopInv

LEMMA LoopNextInv == LoopInv /\ [LoopNext]_allVars => LoopInv'
<1> SUFFICES ASSUME LoopInv, [LoopNext]_allVars PROVE LoopInv'
  OBVIOUS
<1>0. Inv /\ Inv'
  BY LoopStepRefines, NextInv DEF LoopInv
<1>1. CASE Top \/ Refresh \/ Poll \/ Signal \/ PollInterrupted \/ EndOfScan
  BY <1>1, QuietLoopStep
<1>2. CASE SkipFd
  BY <1>2, PassedStep DEF SkipFd, Scanning
<1>3. CASE ServeListener
  <2>1. CASE NextFd /\ UNCHANGED vars
    BY <1>3, <2>1, PassedStep DEF ServeListener, Scanning
  <2>2. CASE ~(NextFd /\ UNCHANGED vars)
    BY <1>3, <2>2, AcceptedStep DEF ServeListener
  <2>3. QED
    BY <2>1, <2>2
<1>4. ASSUME NEW c \in DOMAIN clients,
             \/ ServeRead(c) \/ ServeLine(c) \/ EndOfLines(c)
             \/ ServeWrite(c) \/ ServeError(c)
      PROVE  LoopInv'
  <2>1. Kept
    <3>1. \/ UNCHANGED vars \/ CommandOf(c) \/ JobStep
          \/ PeerClosed(c) \/ SocketError(c) \/ \E n \in 1..MaxSendBuffer : handleClientWrite(c, n)
      BY <1>4 DEF ServeRead, ServeLine, EndOfLines, ServeWrite, ServeError
    <3>2. QED
      BY <1>0, <3>1, UnchangedKeeps, CommandKeeps, JobKeeps, ConnectionKeeps DEF vars
  <2>2. CASE ServeRead(c)
    <3>1. phase = "scan" /\ index \in 2..Len(pollFds)
      BY <2>2, PollSetFacts DEF ServeRead, Scanning, current
    <3>2. Goto("write") \/ Goto("lines")
      BY <2>2 DEF ServeRead
    <3>3. QED
      BY <1>0, <2>1, <3>1, <3>2, ServeStep DEF InRound
  <2>3. CASE ServeLine(c) \/ EndOfLines(c) \/ ServeWrite(c)
    <3>1. phase \in {"lines", "write"} /\ index \in 2..Len(pollFds)
      BY <2>3 DEF ServeLine, EndOfLines, ServeWrite, LoopInv, PositionInv
    <3>2. Goto("write") \/ Goto("lines") \/ Goto("error")
      BY <2>3 DEF ServeLine, EndOfLines, ServeWrite
    <3>3. QED
      BY <1>0, <2>1, <3>1, <3>2, ServeStep DEF InRound
  <2>4. CASE ServeError(c)
    BY <1>0, <2>1, <2>4, ServeStep DEF ServeError
  <2>5. QED
    BY <1>4, <2>2, <2>3, <2>4
<1>5. CASE ReapFlushed
  BY <1>0, <1>5, ConnectionKeeps, ServeStep DEF ReapFlushed
<1>6. CASE CollectDead \/ EndOfReap \/ \E c \in DOMAIN clients : ReapDisconnect(c)
  BY <1>6, CollectStep, EndOfReapStep, ReapStep
<1>7. CASE Exited \/ UNCHANGED allVars
  <2>1. UNCHANGED <<clients, phase, pollFds, index, revents, deadFds, g_shutdown, interrupted>>
    BY <1>7 DEF Exited, allVars, vars, loopVars
  <2>2. LoopTypeOK' /\ PollSetMatchesClients' /\ PositionInv' /\ ReapInv' /\ SettledInv'
    BY <1>0, <2>1 DEF LoopInv, Inv, LoopTypeOK, PollSetMatchesClients, PositionInv, InRound,
         ReapInv, SettledInv
  <2>3. IpInv'
    BY <2>1 DEF LoopInv, IpInv, BeforeAccept, FromIp, countClientsFromIp
  <2>4. QED
    BY <1>0, <2>2, <2>3 DEF LoopInv
<1>8. QED
  BY <1>1, <1>2, <1>3, <1>4, <1>5, <1>6, <1>7 DEF LoopNext, LoopStep

\* LoopInv, which says where the for loop is, what the reaper still has to do
\* and how many clients each address has, holds of every state of the loop.
THEOREM LoopInvHolds == LoopSpec => []LoopInv
  BY LoopInitInv, LoopNextInv, PTL DEF LoopSpec

\* The loop never indexes _pollFds beyond its end.
THEOREM LoopTypeCorrect == LoopSpec => []LoopTypeOK
<1>1. LoopInv => LoopTypeOK
  BY DEF LoopInv
<1>2. QED
  BY <1>1, LoopInvHolds, PTL

\* However connections come and go, _pollFds is the listening socket followed
\* by each client once.
THEOREM PollSetExact == LoopSpec => []PollSetMatchesClients
<1>1. LoopInv => PollSetMatchesClients
  BY DEF LoopInv
<1>2. QED
  BY <1>1, LoopInvHolds, PTL

\* No event that poll() returned is lost in a round, although the round adds
\* descriptors to the vector it walks.
THEOREM NoEventLost == LoopSpec => []EveryEventServed
<1>1. LoopInv => EveryEventServed
  BY DEF LoopInv, PositionInv, EveryEventServed
<1>2. QED
  BY <1>1, LoopInvHolds, PTL

\* The loop never blocks with a closing client that no event will wake.
THEOREM ClosingNeverStuck == LoopSpec => []ClosingHasOutputAtPoll
<1>1. LoopInv => ClosingHasOutputAtPoll
  BY DEF LoopInv, ReapInv, SettledInv, Settled, ClosingHasOutputAtPoll
<1>2. QED
  BY <1>1, LoopInvHolds, PTL

\* Whoever is dead when the loop blocks was overflowed by the QUIT lines of the
\* reap before: nobody the server meant to disconnect is forgotten.
THEOREM OnlyOverflowsWait == LoopSpec => []DeadAtPollAreOverflows
<1>1. LoopInv => DeadAtPollAreOverflows
  BY DEF LoopInv, ReapInv, SettledInv, Settled, DeadAtPollAreOverflows
<1>2. QED
  BY <1>1, LoopInvHolds, PTL

\* MAX_CLIENTS_PER_IP is passed by at most one, and never when the loop blocks,
\* for any limits and any number of descriptors.
THEOREM PerIpLimitHolds == LoopSpec => []PerIpBound
<1>1. LoopInv => PerIpBound
  BY DEF LoopInv, IpInv, BeforeAccept, PerIpBound
<1>2. QED
  BY <1>1, LoopInvHolds, PTL
-----------------------------------------------------------------------------
(* Whose command is running.                                               *)

\* A command that loops belongs to the descriptor being served.
JobServed == job # NoJob => phase = "lines" /\ job.who = current

\* A step leaves the command in progress with its client, or ends it.
SameJob(c) == job' = NoJob \/ job'.who = c

LEMMA CommandStarts ==
  ASSUME Inv, NEW c \in DOMAIN clients, CommandOf(c)
  PROVE  job = NoJob /\ SameJob(c)
<1>1. CASE \E verb \in LoopVerbs : StartCommand(c, verb)
  BY <1>1 DEF StartCommand, Dispatch, Job, SameJob
<1>2. CASE \E ch \in ChanNames : ModeCommand(c, ch)
  BY <1>2 DEF ModeCommand, Dispatch, ModeJob, Reply, SameJob
<1>3. CASE \E n \in Nicks, ch \in ChanNames : InviteCommand(c, n, ch)
  BY <1>3 DEF InviteCommand, Dispatch, Reply, SameJob
<1>4. CASE \E ch \in ChanNames, topic \in Topics \cup {NoTopic} : TopicCommand(c, ch, topic)
  BY <1>4 DEF TopicCommand, Dispatch, Reply, SameJob
<1>5. CASE \/ ProcessLineReply(c) \/ \E why \in QuitReasons : Quit(c, why)
           \/ \E verb \in LoopVerbs \ {"JOIN0"} : NotEnoughParameters(c, verb)
  BY <1>5 DEF ProcessLineReply, Quit, NotEnoughParameters, Dispatch, Reply, SameJob
<1>6. CASE PassCommand(c) \/ UserCommand(c) \/ \E n \in Nicks : NickCommand(c, n)
  BY <1>6 DEF PassCommand, UserCommand, NickCommand, Dispatch, Reply, SameJob
<1>7. QED
  BY <1>1, <1>2, <1>3, <1>4, <1>5, <1>6 DEF CommandOf

LEMMA JobGoesOn ==
  ASSUME Inv, JobStep
  PROVE  job # NoJob /\ SameJob(job.who)
<1>0. job \in JobType
  BY DEF Inv, TypeOK
<1>1. job # NoJob
  <2>1. job.cmd \in {"JOIN", "JOIN0", "KICK", "PRIVMSG", "MODE"}
    BY DEF JobStep, JoinTarget, PartTarget, KickTarget, PrivmsgChannel, PrivmsgNick, ModeSign,
       ModeFlag, ModeKey, ModeLimit, ModeOperator, EndCommand, EndPart, ModeEnd
  <2>2. NoJob.cmd = "none"
    BY DEF NoJob
  <2>3. QED
    BY <2>1, <2>2
<1>2. SameJob(job.who)
  <2>1. \/ job' = job \/ job' = NoJob
        \/ job' = [job EXCEPT !.applied = TRUE]
        \/ job' = [job EXCEPT !.plus = ~@]
    BY DEF JobStep, JoinTarget, PartTarget, KickTarget, PrivmsgChannel, PrivmsgNick, ModeSign,
       ModeFlag, ModeKey, ModeLimit, ModeOperator, EndCommand, EndPart, ModeEnd, Apply, Reply
  <2>2. QED
    BY <1>0, <2>1 DEF SameJob, JobType, NoJob
<1>3. QED
  BY <1>1, <1>2

\* Only a line being served touches the command in progress, and the descriptor
\* does not change under it.
LEMMA JobServedStep ==
  ASSUME LoopInv, JobServed, [LoopNext]_allVars
  PROVE  JobServed'
<1>0. Inv
  BY DEF LoopInv
<1>1. ASSUME NEW c \in DOMAIN clients, ServeLine(c) PROVE JobServed'
  <2>1. /\ phase = "lines" /\ phase' = "lines" /\ c = current /\ current' = current
        /\ CommandOf(c) \/ JobStep
    BY <1>1 DEF ServeLine, Goto, current
  <2>2. SameJob(c)
    <3>1. CASE CommandOf(c)
      BY <1>0, <3>1, CommandStarts
    <3>2. CASE JobStep
      <4>1. job # NoJob /\ SameJob(job.who)
        BY <1>0, <3>2, JobGoesOn
      <4>2. job.who = c
        BY <2>1, <4>1 DEF JobServed
      <4>3. QED
        BY <4>1, <4>2
    <3>3. QED
      BY <2>1, <3>1, <3>2
  <2>3. QED
    BY <2>1, <2>2 DEF JobServed, SameJob
<1>2. ASSUME UNCHANGED job, job = NoJob PROVE JobServed'
  BY <1>2 DEF JobServed
<1>3. CASE \/ Top \/ Refresh \/ Poll \/ PollInterrupted \/ SkipFd \/ EndOfScan
           \/ CollectDead \/ EndOfReap \/ ReapFlushed \/ ServeListener
           \/ \E c \in DOMAIN clients : ReapDisconnect(c) \/ ServeRead(c)
  <2>1. phase # "lines"
    BY <1>3 DEF Top, Refresh, Poll, PollInterrupted, SkipFd, EndOfScan, CollectDead, EndOfReap,
       ReapFlushed, ServeListener, ReapDisconnect, ServeRead, Scanning
  <2>2. UNCHANGED job
    BY <1>3 DEF Top, Refresh, Poll, PollInterrupted, SkipFd, EndOfScan, CollectDead, EndOfReap,
       ReapFlushed, ServeListener, ReapDisconnect, ServeRead, PeerClosed, SocketError,
       MarkFlushed, acceptNewClient, disconnectClient, vars
  <2>3. QED
    BY <1>2, <2>1, <2>2 DEF JobServed
<1>4. ASSUME NEW c \in DOMAIN clients, EndOfLines(c) \/ ServeWrite(c) \/ ServeError(c)
      PROVE  JobServed'
  <2>1. job = NoJob
    BY <1>4 DEF EndOfLines, ServeWrite, ServeError, JobServed
  <2>2. UNCHANGED job
    BY <1>4 DEF EndOfLines, ServeWrite, ServeError, SocketError, handleClientWrite, vars
  <2>3. QED
    BY <1>2, <2>1, <2>2
<1>5. CASE Signal \/ Exited \/ UNCHANGED allVars
  <2>1. UNCHANGED <<job, phase, pollFds, index>>
    BY <1>5 DEF Signal, Exited, allVars, vars, loopVars
  <2>2. QED
    BY <2>1 DEF JobServed, current
<1>6. QED
  BY <1>1, <1>3, <1>4, <1>5 DEF LoopNext, LoopStep

\* Whoever is being served is not deleted meanwhile, and a looping command runs
\* to its end for the client that sent it, however many connections there are
\* and whatever the command does to them.
THEOREM ServedClientStays == LoopSpec => []ServedClientLives
<1>1. LoopInit => JobServed
  BY DEF LoopInit, Init, JobServed
<1>2. LoopInv /\ JobServed => ServedClientLives
  <2>1. SUFFICES ASSUME LoopInv, JobServed PROVE ServedClientLives
    OBVIOUS
  <2>2. ASSUME phase \in {"lines", "write", "error"}
        PROVE  index \in DOMAIN pollFds /\ current \in DOMAIN clients
    <3>1. index \in 2..Len(pollFds) /\ DOMAIN pollFds = 1..Len(pollFds) /\ Len(pollFds) \in Nat
      BY <2>1, <2>2 DEF LoopInv, PositionInv, LoopTypeOK
    <3>2. index \in DOMAIN pollFds /\ 1 \in DOMAIN pollFds /\ index # 1
      BY <3>1
    <3>3. pollFds[index] # pollFds[1]
      BY <2>1, <3>2 DEF LoopInv, PollSetMatchesClients, IsInjective
    <3>4. pollFds[index] \in Range(pollFds)
      BY <3>2 DEF Range
    <3>5. QED
      BY <2>1, <3>2, <3>3, <3>4 DEF LoopInv, PollSetMatchesClients, current
  <2>3. QED
    BY <2>1, <2>2 DEF ServedClientLives, JobServed
<1>3. QED
  BY <1>1, <1>2, JobServedStep, LoopInvHolds, PTL DEF LoopSpec
=============================================================================
