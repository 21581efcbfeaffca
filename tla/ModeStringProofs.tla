-------------------------- MODULE ModeStringProofs --------------------------
(***************************************************************************)
(* Proofs about the loop of MODE, for mode strings of every length: it is  *)
(* the loop that Commands models, and the text it builds tells a client    *)
(* what the channel has become.                                            *)
(*                                                                         *)
(* What a client reads is defined by recursion over the letters.  The      *)
(* proofs carry along the function of all its intermediate pictures        *)
(* (IsReading): a letter more extends it, a parameter more is appended to  *)
(* what is left unread at every place of it.                               *)
(***************************************************************************)
EXTENDS ModeString, SequenceTheorems, WellFoundedInduction, TLAPS

\* What a decimal numeral is: never empty, and "0" for zero.
LimitsAsText == ToString(0) = "0" /\ \A n \in Nat : ToString(n) # NoKey

Letters == {"+", "-", "i", "t", "k", "l", "o"}
Texts == Keys \cup Nicks \cup {NoKey, "*"} \cup {ToString(n) : n \in Nat}

Views ==
    [inviteOnly: BOOLEAN, topicRestricted: BOOLEAN, password: Texts,
     userLimit: Texts, operators: SUBSET Nicks]

Readings == [plus: BOOLEAN, rest: Seq(Texts), view: Views]

Start(view, rest) == [plus |-> TRUE, rest |-> rest, view |-> view]

\* The pictures of a client that reads modes, with rest for its parameters.
IsReading(read, view, modes, rest) ==
    /\ read \in [0..Len(modes) -> Readings]
    /\ read[0] = Start(view, rest)
    /\ \A n \in 1..Len(modes) : read[n] = PeerReadsLetter(read[n - 1], modes[n])
-----------------------------------------------------------------------------
(* The channel and the issuer.                                             *)

ModeTypeOK ==
    /\ DOMAIN clients = Fds
    /\ \A c \in Fds : clients[c].nick = Nick[c]
    /\ channel \in ChannelType
    /\ isPlus \in BOOLEAN /\ noParams \in BOOLEAN /\ running \in BOOLEAN
    /\ lastSign \in {"none", "+", "-"}
    /\ appliedModes \in Seq(Letters)
    /\ appliedParams \in Seq(Texts)

LEMMA SendKeepsNick ==
    ASSUME NEW r PROVE sendMessage(r).nick = r.nick
BY DEF sendMessage, markDead, Active

\* The operators of Commands on records are the ones of Client and Channel.
LEMMA SameOperators ==
    /\ \A r : Loop!sendMessage(r) = sendMessage(r)
    /\ \A ch, t : Loop!addOperator(ch, t) = addOperator(ch, t)
    /\ \A ch, t : Loop!removeOperator(ch, t) = removeOperator(ch, t)
BY Zenon DEF Loop!sendMessage, Loop!markDead, Loop!Active, sendMessage, markDead,
  Active, Loop!addOperator, addOperator, Loop!removeOperator, removeOperator

LEMMA AppliedFacts ==
    ASSUME NEW s \in Seq(Letters), NEW t \in Seq(Letters), NEW m \in Letters
    PROVE  s \o t \o <<m>> \in Seq(Letters) /\ s \o t \o <<m>> # <<>>
OBVIOUS

LEMMA atoiType ==
    ASSUME NEW a \in LimitArgs PROVE Loop!atoi(a) \in Int
BY ModeAssumption DEF Loop!atoi

LEMMA ModeInitType == Init => ModeTypeOK
<1>. SUFFICES ASSUME Init PROVE ModeTypeOK
  OBVIOUS
<1>1. DOMAIN clients = Fds /\ \A c \in Fds : clients[c].nick = Nick[c]
  <2>1. \A n : Registered(n).nick = n
    BY DEF Registered, NewClient
  <2>. QED
    BY <2>1 DEF Init
<1>2. channel \in ChannelType
  BY ModeAssumption DEF Init, Operated, ChannelType
<1>3. <<>> \in Seq(Letters) /\ <<>> \in Seq(Texts)
  OBVIOUS
<1>. QED
  BY <1>1, <1>2, <1>3, Zenon DEF Init, ModeTypeOK

\* What Apply adds to the texts.
LEMMA ApplyType ==
    ASSUME ModeTypeOK, NEW value \in ChannelType, NEW m \in Letters,
           NEW params \in Seq(Texts), Apply(value, m, params)
    PROVE  /\ DOMAIN clients' = Fds /\ \A c \in Fds : clients'[c].nick = Nick[c]
           /\ channel' \in ChannelType /\ isPlus' \in BOOLEAN
           /\ lastSign' \in {"none", "+", "-"}
           /\ appliedModes' \in Seq(Letters) /\ appliedModes' # <<>>
           /\ appliedParams' \in Seq(Texts)
<1>1. PICK t \in Seq(Letters) : appliedModes' = appliedModes \o t \o <<m>>
  <2>1. (IF lastSign = Sign THEN <<>> ELSE <<Sign>>) \in Seq(Letters)
    <3>1. <<>> \in Seq(Letters) /\ <<"+">> \in Seq(Letters) /\ <<"-">> \in Seq(Letters)
      BY DEF Letters
    <3>. QED
      BY <3>1 DEF Sign
  <2>. QED
    BY <2>1 DEF Apply
<1>2. appliedModes \in Seq(Letters) /\ appliedParams \in Seq(Texts)
  BY DEF ModeTypeOK
<1>3. appliedModes' \in Seq(Letters) /\ appliedModes' # <<>>
  BY <1>1, <1>2, AppliedFacts
<1>4. appliedParams' \in Seq(Texts)
  BY <1>2, ConcatProperties DEF Apply
<1>. QED
  BY <1>3, <1>4 DEF Apply, ModeTypeOK, Sign

LEMMA ReplyType ==
    ASSUME ModeTypeOK, NEW to, clients' = Loop!Send(to)
    PROVE  DOMAIN clients' = Fds /\ \A c \in Fds : clients'[c].nick = Nick[c]
<1>1. DOMAIN clients' = Fds
  BY DEF ModeTypeOK, Loop!Send
<1>2. ASSUME NEW c \in Fds PROVE clients'[c].nick = Nick[c]
  <2>1. clients'[c] = clients[c] \/ clients'[c] = sendMessage(clients[c])
    BY SameOperators DEF ModeTypeOK, Loop!Send
  <2>. QED
    BY <2>1, SendKeepsNick DEF ModeTypeOK
<1>. QED
  BY <1>1, <1>2

\* The issuer's error reply, as Commands writes it.
LEMMA ReplyIsSend ==
    ASSUME ModeTypeOK, Reply
    PROVE  clients' = Loop!Send({Issuer})
<1>1. Loop!Send({Issuer}) =
        [c \in Fds |-> IF c \in {Issuer} THEN sendMessage(clients[c]) ELSE clients[c]]
  BY SameOperators DEF ModeTypeOK, Loop!Send
<1>2. clients' = [clients EXCEPT ![Issuer] = sendMessage(clients[Issuer])]
  BY DEF Reply
<1>. QED
  BY <1>1, <1>2 DEF ModeTypeOK

\* What a step can do, with the letter and the parameters that go into the
\* broadcast.
Applies(value, m, params) ==
    /\ running /\ running' = running /\ before' = before
    /\ value \in ChannelType /\ m \in Letters /\ params \in Seq(Texts)
    /\ Apply(value, m, params)

Changes ==
    \/ /\ channel.inviteOnly # isPlus /\ noParams' = noParams
       /\ Applies([channel EXCEPT !.inviteOnly = isPlus], "i", <<>>)
    \/ /\ channel.topicRestricted # isPlus /\ noParams' = noParams
       /\ Applies([channel EXCEPT !.topicRestricted = isPlus], "t", <<>>)
    \/ \E key \in Keys \cup {NoKey} :
          /\ isPlus /\ channel.password = NoKey /\ Param(key)
          /\ Applies([channel EXCEPT !.password = key], "k", <<key>>)
    \/ \E key \in Keys \cup {NoKey} :
          /\ ~isPlus /\ channel.password = key /\ Param(key)
          /\ Applies([channel EXCEPT !.password = NoKey], "k", <<"*">>)
    \/ \E a \in LimitArgs, n \in Nat :
          /\ isPlus /\ Param(ToString(a)) /\ n = Loop!atoi(a)
          /\ n > 0 /\ channel.userLimit # n
          /\ Applies([channel EXCEPT !.userLimit = n], "l", <<ToString(n)>>)
    \/ /\ ~isPlus /\ channel.userLimit > 0 /\ noParams' = noParams
       /\ Applies([channel EXCEPT !.userLimit = 0], "l", <<>>)
    \/ \E n \in Nicks : \E t \in Loop!findClientByNick(n) \cap channel.members :
          /\ Param(n) /\ isPlus # (t \in channel.operators)
          /\ Applies(IF isPlus THEN addOperator(channel, t)
                     ELSE removeOperator(channel, t), "o", <<n>>)

\* What a step without an effect on the channel can do.
Rests ==
    /\ UNCHANGED <<channel, before, textVars>>
    /\ noParams' \in BOOLEAN /\ noParams' \in {noParams, TRUE}
    /\ \/ /\ running /\ running' = running /\ isPlus' \in BOOLEAN
          /\ UNCHANGED clients
       \/ /\ running /\ running' = running /\ isPlus' = isPlus
          /\ Reply
       \/ ModeEnd

LEMMA StepKinds ==
    ASSUME ModeTypeOK, Next
    PROVE  Changes \/ Rests
<1>. USE DEF ModeTypeOK
<1>n. noParams \in BOOLEAN /\ isPlus \in BOOLEAN /\ channel \in ChannelType
  OBVIOUS
<1>e. <<>> \in Seq(Texts) /\ {"i", "t", "k", "l", "o"} \subseteq Letters
  BY DEF Letters
<1>p. ASSUME NEW p, Param(p) PROVE noParams' \in BOOLEAN /\ noParams' \in {noParams, TRUE}
  BY <1>p, <1>n DEF Param
<1>1. ASSUME NEW plus \in BOOLEAN, ModeSign(plus) PROVE Rests
  BY <1>1, <1>n DEF ModeSign, Letter, Rests
<1>2. CASE ModeInviteOnly
  <2>1. CASE channel.inviteOnly # isPlus
    <3>1. [channel EXCEPT !.inviteOnly = isPlus] \in ChannelType
      BY <1>n DEF ChannelType
    <3>. QED
      BY <1>2, <2>1, <3>1, <1>e DEF ModeInviteOnly, Letter, Applies, Changes
  <2>2. CASE channel.inviteOnly = isPlus
    BY <1>2, <2>2, <1>n DEF ModeInviteOnly, Letter, NoEffect, Rests
  <2>. QED
    BY <2>1, <2>2
<1>3. CASE ModeTopicRestricted
  <2>1. CASE channel.topicRestricted # isPlus
    <3>1. [channel EXCEPT !.topicRestricted = isPlus] \in ChannelType
      BY <1>n DEF ChannelType
    <3>. QED
      BY <1>3, <2>1, <3>1, <1>e DEF ModeTopicRestricted, Letter, Applies, Changes
  <2>2. CASE channel.topicRestricted = isPlus
    BY <1>3, <2>2, <1>n DEF ModeTopicRestricted, Letter, NoEffect, Rests
  <2>. QED
    BY <2>1, <2>2
<1>4. ASSUME NEW key \in Keys \cup {NoKey}, ModeSetKey(key) PROVE Changes \/ Rests
  <2>0. isPlus /\ Param(key) /\ noParams' \in BOOLEAN /\ noParams' \in {noParams, TRUE}
    BY <1>4, <1>p DEF ModeSetKey
  <2>1. CASE channel.password = NoKey
    <3>1. [channel EXCEPT !.password = key] \in ChannelType
      BY <1>n DEF ChannelType
    <3>2. <<key>> \in Seq(Texts)
      BY DEF Texts
    <3>. QED
      BY <1>4, <2>0, <2>1, <3>1, <3>2, <1>e DEF ModeSetKey, Letter, Applies, Changes
  <2>2. CASE channel.password # NoKey
    BY <1>4, <2>0, <2>2 DEF ModeSetKey, Letter, Reply, Rests
  <2>. QED
    BY <2>1, <2>2
<1>5. ASSUME NEW key \in Keys \cup {NoKey}, ModeClearKey(key) PROVE Changes \/ Rests
  <2>0. ~isPlus /\ Param(key) /\ noParams' \in BOOLEAN /\ noParams' \in {noParams, TRUE}
    BY <1>5, <1>p DEF ModeClearKey
  <2>1. CASE channel.password = key
    <3>1. [channel EXCEPT !.password = NoKey] \in ChannelType
      BY <1>n DEF ChannelType
    <3>2. <<"*">> \in Seq(Texts)
      BY DEF Texts
    <3>. QED
      BY <1>5, <2>0, <2>1, <3>1, <3>2, <1>e DEF ModeClearKey, Letter, Applies, Changes
  <2>2. CASE channel.password # key
    BY <1>5, <2>0, <2>2, <1>n DEF ModeClearKey, Letter, NoEffect, Rests
  <2>. QED
    BY <2>1, <2>2
<1>6. ASSUME NEW a \in LimitArgs, ModeSetLimit(a) PROVE Changes \/ Rests
  <2>0. /\ isPlus /\ Param(ToString(a))
        /\ noParams' \in BOOLEAN /\ noParams' \in {noParams, TRUE}
    BY <1>6, <1>p DEF ModeSetLimit
  <2>1. PICK n \in Int : n = Loop!atoi(a)
    BY atoiType
  <2>2. CASE n > 0 /\ channel.userLimit # n
    <3>1. n \in Nat /\ [channel EXCEPT !.userLimit = n] \in ChannelType
      <4>1. n \in Nat
        BY <2>1, <2>2
      <4>. QED
        BY <4>1, <1>n DEF ChannelType
    <3>2. <<ToString(n)>> \in Seq(Texts)
      <4>1. PICK txt : txt = ToString(n)
        OBVIOUS
      <4>2. txt \in Texts
        BY <3>1, <4>1, Zenon DEF Texts
      <4>. QED
        BY <4>1, <4>2
    <3>3. Applies([channel EXCEPT !.userLimit = n], "l", <<ToString(n)>>)
      BY <1>6, <2>1, <2>2, <3>1, <3>2, <1>e DEF ModeSetLimit, Letter, Applies
    <3>. QED
      BY <2>0, <2>1, <2>2, <3>1, <3>3 DEF Changes
  <2>3. CASE ~(n > 0 /\ channel.userLimit # n)
    BY <1>6, <2>0, <2>1, <2>3, <1>n DEF ModeSetLimit, Letter, NoEffect, Rests
  <2>. QED
    BY <2>2, <2>3
<1>7. CASE ModeClearLimit
  <2>1. CASE channel.userLimit > 0
    <3>1. [channel EXCEPT !.userLimit = 0] \in ChannelType
      BY <1>n DEF ChannelType
    <3>. QED
      BY <1>7, <2>1, <3>1, <1>e DEF ModeClearLimit, Letter, Applies, Changes
  <2>2. CASE ~(channel.userLimit > 0)
    BY <1>7, <2>2, <1>n DEF ModeClearLimit, Letter, NoEffect, Rests
  <2>. QED
    BY <2>1, <2>2
<1>8. CASE ModeBadParam
  BY <1>8, <1>p DEF ModeBadParam, Letter, Reply, Rests
<1>9. ASSUME NEW n \in Nicks, ModeOperator(n) PROVE Changes \/ Rests
  <2>0. Param(n) /\ noParams' \in BOOLEAN /\ noParams' \in {noParams, TRUE}
    BY <1>9, <1>p DEF ModeOperator
  <2>1. CASE Reply
    BY <1>9, <2>0, <2>1 DEF ModeOperator, Letter, Reply, Rests
  <2>2. ASSUME NEW t \in Loop!findClientByNick(n) \cap channel.members,
               isPlus # (t \in channel.operators),
               Apply(IF isPlus THEN addOperator(channel, t)
                     ELSE removeOperator(channel, t), "o", <<n>>)
        PROVE  Changes
    <3>1. t \in Fds
      BY <1>n DEF ChannelType
    <3>2. addOperator(channel, t) \in ChannelType /\ removeOperator(channel, t) \in ChannelType
      BY <1>n, <3>1 DEF ChannelType, addOperator, removeOperator
    <3>3. <<n>> \in Seq(Texts)
      BY DEF Texts
    <3>4. Applies(IF isPlus THEN addOperator(channel, t)
                  ELSE removeOperator(channel, t), "o", <<n>>)
      BY <1>9, <2>2, <3>2, <3>3, <1>e DEF ModeOperator, Letter, Applies
    <3>. QED
      BY <2>0, <2>2, <3>4 DEF Changes
  <2>3. CASE NoEffect
    BY <1>9, <2>0, <2>3, <1>n DEF ModeOperator, Letter, NoEffect, Rests
  <2>. QED
    BY <1>9, <2>1, <2>2, <2>3 DEF ModeOperator
<1>10. CASE ModeEnd
  BY <1>10, <1>n DEF ModeEnd, Rests
<1>. QED
  BY <1>1, <1>2, <1>3, <1>4, <1>5, <1>6, <1>7, <1>8, <1>9, <1>10 DEF Next

\* Every change is one letter added to the broadcast.
LEMMA ChangeApplies ==
    ASSUME Changes
    PROVE  \E value, m, params : Applies(value, m, params)
BY DEF Changes

LEMMA ModeTypeStep ==
    ASSUME ModeTypeOK, [Next]_vars
    PROVE  ModeTypeOK'
<1>1. CASE Changes
  <2>1. PICK value, m, params : Applies(value, m, params)
    BY <1>1, ChangeApplies
  <2>2. noParams' \in BOOLEAN
    BY <1>1 DEF Changes, Param, ModeTypeOK
  <2>3. running' \in BOOLEAN
    BY <2>1 DEF Applies, ModeTypeOK
  <2>4. /\ DOMAIN clients' = Fds /\ \A c \in Fds : clients'[c].nick = Nick[c]
        /\ channel' \in ChannelType /\ isPlus' \in BOOLEAN
        /\ lastSign' \in {"none", "+", "-"}
        /\ appliedModes' \in Seq(Letters) /\ appliedParams' \in Seq(Texts)
    BY <2>1, ApplyType DEF Applies
  <2>. QED
    BY <2>2, <2>3, <2>4 DEF ModeTypeOK
<1>2. CASE Rests
  <2>1. DOMAIN clients' = Fds /\ \A c \in Fds : clients'[c].nick = Nick[c]
    <3>1. UNCHANGED clients \/ \E to : clients' = Loop!Send(to)
      BY <1>2, ReplyIsSend DEF Rests, ModeEnd
    <3>. QED
      BY <3>1, ReplyType DEF ModeTypeOK
  <2>2. isPlus' \in BOOLEAN /\ running' \in BOOLEAN
    BY <1>2 DEF Rests, ModeEnd, ModeTypeOK
  <2>. QED
    BY <1>2, <2>1, <2>2 DEF Rests, ModeTypeOK, textVars
<1>3. CASE UNCHANGED vars
  BY <1>3 DEF vars, textVars, ModeTypeOK
<1>. QED
  BY <1>1, <1>2, <1>3, StepKinds
-----------------------------------------------------------------------------
(* The loop of Commands.                                                   *)

\* A letter applied here is one applied there.
LEMMA ApplyIsCommands ==
    ASSUME ModeTypeOK, NEW value, NEW m, NEW params, Applies(value, m, params)
    PROVE  Loop!Apply(value)
<1>1. /\ running /\ running' /\ channel' = value /\ isPlus' = isPlus
      /\ clients' = clients /\ appliedModes' # <<>>
  BY ApplyType DEF Applies, Apply
<1>2. Loop!SetChannel(Target, value)
  BY <1>1 DEF Loop!SetChannel
<1>3. /\ (appliedModes' # <<>>) = TRUE /\ (appliedModes # <<>>) \in BOOLEAN
      /\ running = TRUE /\ running' = TRUE
  BY <1>1 DEF ModeTypeOK, Applies
<1>4. [cmd |-> "MODE", who |-> Issuer, chan |-> Target, plus |-> isPlus',
       applied |-> appliedModes' # <<>>]
      = [[cmd |-> "MODE", who |-> Issuer, chan |-> Target, plus |-> isPlus,
          applied |-> appliedModes # <<>>] EXCEPT !.applied = TRUE]
  <2>1. PICK b \in BOOLEAN : b = (appliedModes # <<>>)
    BY <1>3
  <2>2. [cmd |-> "MODE", who |-> Issuer, chan |-> Target, plus |-> isPlus,
         applied |-> TRUE]
        = [[cmd |-> "MODE", who |-> Issuer, chan |-> Target, plus |-> isPlus,
            applied |-> b] EXCEPT !.applied = TRUE]
    <3>1. PICK who, ch, p, v : who = Issuer /\ ch = Target /\ p = isPlus /\ v = TRUE
      BY Zenon
    <3>2. [cmd |-> "MODE", who |-> who, chan |-> ch, plus |-> p, applied |-> v]
          = [[cmd |-> "MODE", who |-> who, chan |-> ch, plus |-> p, applied |-> b]
                EXCEPT !.applied = v]
      OBVIOUS
    <3>. QED
      BY <3>1, <3>2, Zenon
  <2>. QED
    BY <1>1, <1>3, <2>1, <2>2, Zenon
<1>. QED
  BY <1>1, <1>2, <1>3, <1>4 DEF Loop!Apply

LEMMA ChangeIsCommands ==
    ASSUME ModeTypeOK, Changes
    PROVE  Loop!JobStep
<1>. DEFINE jobNow == IF running
                      THEN [cmd |-> "MODE", who |-> Issuer, chan |-> Target,
                            plus |-> isPlus, applied |-> appliedModes # <<>>]
                      ELSE [cmd |-> "none"]
<1>1. running
  BY ChangeApplies DEF Applies
<1>2. /\ jobNow.cmd = "MODE" /\ jobNow.who = Issuer
      /\ jobNow.chan = Target /\ jobNow.plus = isPlus
  BY <1>1
<1>3. Loop!ModeChannel = channel
  BY <1>2 DEF Loop!ModeChannel
<1>4. ASSUME channel.inviteOnly # isPlus,
             Applies([channel EXCEPT !.inviteOnly = isPlus], "i", <<>>)
      PROVE  Loop!ModeFlag
  BY <1>2, <1>3, <1>4, ApplyIsCommands DEF Loop!ModeFlag
<1>5. ASSUME channel.topicRestricted # isPlus,
             Applies([channel EXCEPT !.topicRestricted = isPlus], "t", <<>>)
      PROVE  Loop!ModeFlag
  BY <1>2, <1>3, <1>5, ApplyIsCommands DEF Loop!ModeFlag
<1>6. ASSUME NEW key, isPlus, channel.password = NoKey,
             Applies([channel EXCEPT !.password = key], "k", <<key>>)
      PROVE  Loop!ModeKey(key)
  BY <1>2, <1>3, <1>6, ApplyIsCommands DEF Loop!ModeKey
<1>7. ASSUME NEW key, ~isPlus, channel.password = key,
             Applies([channel EXCEPT !.password = NoKey], "k", <<"*">>)
      PROVE  Loop!ModeKey(key)
  BY <1>2, <1>3, <1>7, ApplyIsCommands DEF Loop!ModeKey
<1>8. ASSUME NEW a, NEW n \in Nat, isPlus, n = Loop!atoi(a), n > 0,
             channel.userLimit # n,
             Applies([channel EXCEPT !.userLimit = n], "l", <<ToString(n)>>)
      PROVE  Loop!ModeLimit(a)
  BY <1>2, <1>3, <1>8, ApplyIsCommands DEF Loop!ModeLimit
<1>9. ASSUME ~isPlus, channel.userLimit > 0,
             Applies([channel EXCEPT !.userLimit = 0], "l", <<>>),
             NEW a
      PROVE  Loop!ModeLimit(a)
  BY <1>2, <1>3, <1>9, ApplyIsCommands DEF Loop!ModeLimit
<1>10. ASSUME NEW n, NEW t \in Loop!findClientByNick(n) \cap channel.members,
              isPlus # (t \in channel.operators),
              Applies(IF isPlus THEN addOperator(channel, t)
                      ELSE removeOperator(channel, t), "o", <<n>>)
       PROVE  Loop!ModeOperator(n)
  BY <1>2, <1>3, <1>10, ApplyIsCommands, SameOperators DEF Loop!ModeOperator
<1>11. LimitArgs # {}
  BY ModeAssumption
<1>. QED
  BY <1>4, <1>5, <1>6, <1>7, <1>8, <1>9, <1>10, <1>11 DEF Changes, Loop!JobStep

LEMMA RestIsCommands ==
    ASSUME ModeTypeOK, Rests
    PROVE  Loop!JobStep \/ UNCHANGED Loop!vars
<1>. DEFINE jobNow == IF running
                      THEN [cmd |-> "MODE", who |-> Issuer, chan |-> Target,
                            plus |-> isPlus, applied |-> appliedModes # <<>>]
                      ELSE [cmd |-> "none"]
<1>1. UNCHANGED <<channel, appliedModes>>
  BY DEF Rests, textVars
<1>2. running => /\ jobNow.cmd = "MODE" /\ jobNow.who = Issuer
                 /\ jobNow.chan = Target /\ jobNow.plus = isPlus
                 /\ jobNow.applied = (appliedModes # <<>>)
  OBVIOUS
<1>3. CASE running /\ running' = running /\ isPlus' \in BOOLEAN /\ UNCHANGED clients
  <2>1. CASE isPlus' = isPlus
    BY <1>1, <1>3, <2>1 DEF Loop!vars
  <2>2. CASE isPlus' # isPlus
    <3>1. isPlus' = ~isPlus /\ isPlus \in BOOLEAN
      BY <1>3, <2>2 DEF ModeTypeOK
    <3>2. [cmd |-> "MODE", who |-> Issuer, chan |-> Target, plus |-> isPlus',
           applied |-> appliedModes' # <<>>]
          = [[cmd |-> "MODE", who |-> Issuer, chan |-> Target, plus |-> isPlus,
              applied |-> appliedModes # <<>>] EXCEPT !.plus = isPlus']
      <4>1. PICK b : b = (appliedModes # <<>>) /\ b = (appliedModes' # <<>>)
        BY <1>1
      <4>2. [cmd |-> "MODE", who |-> Issuer, chan |-> Target, plus |-> isPlus',
             applied |-> b]
            = [[cmd |-> "MODE", who |-> Issuer, chan |-> Target, plus |-> isPlus,
                applied |-> b] EXCEPT !.plus = isPlus']
        <5>1. PICK who, ch, p, v :
                  who = Issuer /\ ch = Target /\ p = isPlus /\ v = isPlus'
          BY Zenon
        <5>2. [cmd |-> "MODE", who |-> who, chan |-> ch, plus |-> v, applied |-> b]
              = [[cmd |-> "MODE", who |-> who, chan |-> ch, plus |-> p, applied |-> b]
                    EXCEPT !.plus = v]
          OBVIOUS
        <5>. QED
          BY <5>1, <5>2, Zenon
      <4>. QED
        BY <4>1, <4>2, Zenon
    <3>3. jobNow' = [jobNow EXCEPT !.plus = ~isPlus]
      BY <1>3, <3>1, <3>2
    <3>4. Loop!ModeSign
      BY <1>1, <1>2, <1>3, <3>3 DEF Loop!ModeSign
    <3>. QED
      BY <3>4 DEF Loop!JobStep
  <2>. QED
    BY <2>1, <2>2
<1>4. CASE running /\ running' = running /\ isPlus' = isPlus /\ Reply
  <2>1. clients' = Loop!Send({Issuer})
    BY <1>4, ReplyIsSend
  <2>2. Loop!Reply(Issuer)
    BY <1>1, <1>4, <2>1 DEF Loop!Reply
  <2>3. Nick[Issuer] \in Nicks
    BY ModeAssumption
  <2>4. Loop!ModeOperator(Nick[Issuer])
    BY <1>2, <1>4, <2>2 DEF Loop!ModeOperator
  <2>. QED
    BY <2>3, <2>4 DEF Loop!JobStep
<1>5. CASE ModeEnd
  <2>1. running /\ running' = FALSE
    BY <1>5 DEF ModeEnd
  <2>2. Loop!ModeChannel = channel
    BY <1>2, <2>1 DEF Loop!ModeChannel
  <2>3. PICK fits \in TextFits :
            clients' = IF appliedModes # <<>> /\ fits
                       THEN Loop!Send(channel.members) ELSE clients
    BY <1>5 DEF ModeEnd
  <2>4. jobNow' = Loop!NoJob
    BY <2>1 DEF Loop!NoJob
  <2>5. Loop!ModeEnd
    BY <1>1, <1>2, <2>1, <2>2, <2>3, <2>4 DEF Loop!ModeEnd
  <2>. QED
    BY <2>5 DEF Loop!JobStep
<1>. QED
  BY <1>3, <1>4, <1>5 DEF Rests

\* The MODE loop of ModeCommand::execute, with all the text it builds, is the
\* loop that Commands models without it: each letter is one of its steps.
THEOREM LoopRefinesCommands == Spec => LoopIsCommands
<1>1. ModeTypeOK /\ [Next]_vars => ModeTypeOK' /\ [Loop!JobStep]_(Loop!vars)
  <2>1. SUFFICES ASSUME ModeTypeOK, [Next]_vars
                 PROVE  [Loop!JobStep]_(Loop!vars)
    BY ModeTypeStep
  <2>2. CASE Next
    <3>1. CASE Changes
      BY <2>1, <3>1, ChangeIsCommands
    <3>2. CASE Rests
      BY <2>1, <3>2, RestIsCommands
    <3>. QED
      BY <2>1, <2>2, <3>1, <3>2, StepKinds
  <2>3. CASE UNCHANGED vars
    BY <2>3 DEF vars, textVars, Loop!vars
  <2>. QED
    BY <2>1, <2>2, <2>3
<1>. QED
  BY <1>1, ModeInitType, PTL DEF Spec, LoopIsCommands
-----------------------------------------------------------------------------
(* Reading a mode string.                                                  *)

LEMMA ViewType ==
    ASSUME LimitsAsText, NEW view \in Views, NEW plus \in BOOLEAN,
           NEW m \in Letters \ {"+", "-"}, NEW p \in Texts
    PROVE  PeerApplies(view, plus, m, p) \in Views
<1>1. NoKey \in Texts /\ "0" \in Texts
  <2>1. ToString(0) \in Texts /\ ToString(0) = "0"
    BY Zenon DEF LimitsAsText, Texts
  <2>. QED
    BY <2>1 DEF Texts
<1>2. \A n \in Nicks : Fold[n] \in Nicks
  BY ModeAssumption
<1>. QED
  BY <1>1, <1>2 DEF Views, PeerApplies, Letters

LEMMA LetterType ==
    ASSUME LimitsAsText, NEW r \in Readings, NEW m \in Letters
    PROVE  PeerReadsLetter(r, m) \in Readings
<1>1. CASE m \in {"+", "-"}
  <2>1. PICK b \in BOOLEAN : b = (m = "+")
    OBVIOUS
  <2>2. [r EXCEPT !.plus = b] \in Readings
    BY DEF Readings
  <2>. QED
    BY <1>1, <2>1, <2>2, Zenon DEF PeerReadsLetter
<1>2. CASE m \notin {"+", "-"}
  <2>0. r.view \in Views /\ r.plus \in BOOLEAN /\ r.rest \in Seq(Texts)
    BY DEF Readings
  <2>1. CASE ~Takes(r.plus, m)
    <3>1. NoKey \in Texts
      BY DEF Texts
    <3>2. PICK v \in Views : v = PeerApplies(r.view, r.plus, m, NoKey)
      BY <1>2, <2>0, <3>1, ViewType
    <3>3. PeerReadsLetter(r, m) = [r EXCEPT !.view = v]
      BY <1>2, <2>1, <3>2 DEF PeerReadsLetter
    <3>. QED
      BY <3>3 DEF Readings
  <2>2. CASE Takes(r.plus, m) /\ r.rest = <<>>
    BY <1>2, <2>2 DEF PeerReadsLetter
  <2>3. CASE Takes(r.plus, m) /\ r.rest # <<>>
    <3>1. Head(r.rest) \in Texts /\ Tail(r.rest) \in Seq(Texts)
      BY <2>0, <2>3
    <3>2. PICK v \in Views : v = PeerApplies(r.view, r.plus, m, Head(r.rest))
      BY <1>2, <2>0, <3>1, ViewType
    <3>3. PeerReadsLetter(r, m) = [r EXCEPT !.rest = Tail(r.rest), !.view = v]
      BY <1>2, <2>3, <3>2 DEF PeerReadsLetter
    <3>. QED
      BY <3>1, <3>3 DEF Readings
  <2>. QED
    BY <2>1, <2>2, <2>3
<1>. QED
  BY <1>1, <1>2

LEMMA ConcatHeadTail ==
    ASSUME NEW T, NEW s \in Seq(T), NEW t \in Seq(T), s # <<>>
    PROVE  s \o t # <<>> /\ Head(s \o t) = Head(s) /\ Tail(s \o t) = Tail(s) \o t
<1>1. PICK u \in Seq(T) : u = s \o t
  BY ConcatProperties
<1>2. /\ Len(u) = Len(s) + Len(t) /\ Len(s) \in Nat /\ Len(t) \in Nat /\ Len(s) > 0
      /\ \A i \in 1..Len(u) : u[i] = IF i <= Len(s) THEN s[i] ELSE t[i - Len(s)]
  BY <1>1, ConcatProperties, LenProperties, EmptySeq
<1>3. /\ Tail(s) \in Seq(T) /\ Len(Tail(s)) = Len(s) - 1
      /\ \A i \in 1..Len(Tail(s)) : Tail(s)[i] = s[i + 1]
  BY <1>2, HeadTailProperties
<1>4. u # <<>> /\ Head(u) = Head(s)
  BY <1>2
<1>5. /\ Tail(u) \in Seq(T) /\ Len(Tail(u)) = Len(u) - 1
      /\ \A i \in 1..Len(Tail(u)) : Tail(u)[i] = u[i + 1]
  BY <1>2, <1>4, HeadTailProperties
<1>6. PICK v \in Seq(T) : v = Tail(s) \o t
  BY <1>3, ConcatProperties
<1>7. /\ Len(v) = Len(Tail(s)) + Len(t)
      /\ \A i \in 1..Len(v) :
            v[i] = IF i <= Len(Tail(s)) THEN Tail(s)[i] ELSE t[i - Len(Tail(s))]
  BY <1>3, <1>6, ConcatProperties
<1>8. Len(Tail(u)) = Len(v) /\ \A i \in 1..Len(v) : Tail(u)[i] = v[i]
  BY <1>2, <1>3, <1>5, <1>7
<1>9. Tail(u) = v
  BY <1>5, <1>8, SeqEqual
<1>. QED
  BY <1>1, <1>4, <1>6, <1>9

\* More parameters change nothing of how a letter is read, if it had the one
\* it takes.
More(r, params) == [r EXCEPT !.rest = @ \o params]

LEMMA LetterMore ==
    ASSUME LimitsAsText, NEW r \in Readings, NEW m \in Letters, NEW params \in Seq(Texts),
           m \notin {"+", "-"} /\ Takes(r.plus, m) => r.rest # <<>>
    PROVE  /\ More(r, params) \in Readings
           /\ PeerReadsLetter(More(r, params), m) = More(PeerReadsLetter(r, m), params)
<1>0. r.view \in Views /\ r.plus \in BOOLEAN /\ r.rest \in Seq(Texts)
  BY DEF Readings
<1>1. PICK s : s = r.rest \o params /\ s \in Seq(Texts)
  BY <1>0, ConcatProperties
<1>2. PICK q : q = More(r, params) /\ q = [r EXCEPT !.rest = s]
  BY <1>1, Zenon DEF More
<1>3. q \in Readings /\ q.plus = r.plus /\ q.view = r.view /\ q.rest = s
  BY <1>1, <1>2 DEF Readings
<1>4. PeerReadsLetter(q, m) = More(PeerReadsLetter(r, m), params)
  <2>1. CASE m \in {"+", "-"}
    <3>1. PICK b \in BOOLEAN : b = (m = "+")
      OBVIOUS
    <3>2. PeerReadsLetter(q, m) = [q EXCEPT !.plus = b]
          /\ PeerReadsLetter(r, m) = [r EXCEPT !.plus = b]
      BY <2>1, <3>1, Zenon DEF PeerReadsLetter
    <3>3. [q EXCEPT !.plus = b] = [[r EXCEPT !.plus = b] EXCEPT !.rest = s]
          /\ [r EXCEPT !.plus = b].rest = r.rest
      BY <1>2 DEF Readings
    <3>. QED
      BY <1>1, <3>2, <3>3 DEF More
  <2>2. CASE m \notin {"+", "-"} /\ ~Takes(r.plus, m)
    <3>1. PICK v : v = PeerApplies(r.view, r.plus, m, NoKey)
      BY Zenon
    <3>2. PeerReadsLetter(q, m) = [q EXCEPT !.view = v]
          /\ PeerReadsLetter(r, m) = [r EXCEPT !.view = v]
      BY <1>3, <2>2, <3>1 DEF PeerReadsLetter
    <3>3. [q EXCEPT !.view = v] = [[r EXCEPT !.view = v] EXCEPT !.rest = s]
          /\ [r EXCEPT !.view = v].rest = r.rest
      BY <1>2 DEF Readings
    <3>. QED
      BY <1>1, <3>2, <3>3 DEF More
  <2>3. CASE m \notin {"+", "-"} /\ Takes(r.plus, m)
    <3>1. r.rest # <<>>
      BY <2>3
    <3>2. s # <<>> /\ Head(s) = Head(r.rest) /\ Tail(s) = Tail(r.rest) \o params
      BY <1>0, <1>1, <3>1, ConcatHeadTail
    <3>3. PICK v, u : v = PeerApplies(r.view, r.plus, m, Head(r.rest)) /\ u = Tail(r.rest)
      BY Zenon
    <3>4. PeerReadsLetter(q, m) = [q EXCEPT !.rest = u \o params, !.view = v]
          /\ PeerReadsLetter(r, m) = [r EXCEPT !.rest = u, !.view = v]
      BY <1>3, <2>3, <3>1, <3>2, <3>3 DEF PeerReadsLetter
    <3>5. [q EXCEPT !.rest = u \o params, !.view = v]
            = [[r EXCEPT !.rest = u, !.view = v] EXCEPT !.rest = u \o params]
          /\ [r EXCEPT !.rest = u, !.view = v].rest = u
      BY <1>2 DEF Readings
    <3>. QED
      BY <3>4, <3>5 DEF More
  <2>. QED
    BY <2>1, <2>2, <2>3
<1>. QED
  BY <1>2, <1>3, <1>4

LEMMA LeastNat ==
    ASSUME NEW S, S \subseteq Nat, S # {}
    PROVE  \E n \in S : \A m \in S : n <= m
<1>1. PICK R : R = OpToRel(<, Nat)
  OBVIOUS
<1>2. R = {ss \in Nat \X Nat : ss[1] < ss[2]}
  BY <1>1, Zenon DEF OpToRel
<1>3. IsWellFoundedOn(R, Nat)
  BY <1>1, NatLessThanWellFounded, Zenon
<1>4. PICK n \in S : \A m \in S : <<m, n>> \notin R
  BY <1>3, WFMin
<1>5. \A m \in S : n <= m
  <2>1. SUFFICES ASSUME NEW m \in S PROVE ~(m < n)
    OBVIOUS
  <2>2. m < n => <<m, n>> \in R
    BY <1>2
  <2>3. QED
    BY <1>4, <2>2
<1>6. QED
  BY <1>5

\* What there is to read is what a client reads.
LEMMA ReadingIsRead ==
    ASSUME NEW view, NEW modes \in Seq(Letters), NEW params, NEW read,
           IsReading(read, view, modes, Wire(params))
    PROVE  PeerReads(view, modes, params) = read[Len(modes)].view
<1>. DEFINE first == [plus |-> TRUE, rest |-> Wire(params), view |-> view]
            next(f) == [n \in 0..Len(modes) |->
                          IF n = 0 THEN first ELSE PeerReadsLetter(f[n - 1], modes[n])]
            found == CHOOSE f : f = next(f)
<1>0. Len(modes) \in Nat
  BY LenProperties
<1>1. read = next(read)
  BY <1>0 DEF IsReading, Start
<1>2. found = next(found)
  BY <1>1, Zenon
<1>3. \A n \in 0..Len(modes) : found[n] = read[n]
  <2>. DEFINE Differ == {n \in 0..Len(modes) : found[n] # read[n]}
  <2>1. SUFFICES ASSUME Differ # {} PROVE FALSE
    OBVIOUS
  <2>2. Differ \subseteq Nat
    BY <1>0
  <2>3. PICK n \in Differ : \A k \in Differ : n <= k
    BY <2>1, <2>2, LeastNat
  <2>4. n \in 0..Len(modes) /\ found[n] # read[n]
    OBVIOUS
  <2>5. CASE n = 0
    BY <1>0, <1>1, <1>2, <2>4, <2>5
  <2>6. CASE n # 0
    <3>1. n - 1 \in 0..Len(modes) /\ n - 1 \notin Differ
      BY <1>0, <2>3, <2>4, <2>6
    <3>2. found[n - 1] = read[n - 1]
      BY <3>1
    <3>. QED
      BY <1>0, <1>1, <1>2, <2>4, <2>6, <3>2
  <2>. QED
    BY <2>5, <2>6
<1>4. PeerReads(view, modes, params) = found[Len(modes)].view
  BY Zenon DEF PeerReads
<1>. QED
  BY <1>0, <1>3, <1>4

\* A client that knows view and reads modes with rest for the parameters has
\* the picture last in the end ...
Reads(view, modes, rest, last) ==
    \E read : IsReading(read, view, modes, rest) /\ read[Len(modes)] = last

\* ... and none of its letters lacked a parameter.
Has(r, m) == m \notin {"+", "-"} /\ Takes(r.plus, m) => r.rest # <<>>

ReadsAll(view, modes, rest, last) ==
    \E read : /\ IsReading(read, view, modes, rest) /\ read[Len(modes)] = last
              /\ \A n \in 1..Len(modes) : Has(read[n - 1], modes[n])

LEMMA ReadNothing ==
    ASSUME NEW view \in Views, NEW rest \in Seq(Texts)
    PROVE  ReadsAll(view, <<>>, rest, Start(view, rest))
<1>. DEFINE read == [n \in 0..0 |-> Start(view, rest)]
<1>1. Start(view, rest) \in Readings
  BY DEF Start, Readings
<1>2. Len(<<>>) = 0
  OBVIOUS
<1>3. IsReading(read, view, <<>>, rest) /\ read[Len(<<>>)] = Start(view, rest)
  BY <1>1, <1>2 DEF IsReading
<1>4. \A n \in 1..Len(<<>>) : Has(read[n - 1], <<>>[n])
  BY <1>2
<1>. QED
  BY <1>3, <1>4 DEF ReadsAll

LEMMA OneMore ==
    ASSUME NEW T, NEW s \in Seq(T), NEW m \in T
    PROVE  /\ s \o <<m>> \in Seq(T) /\ Len(s \o <<m>>) = Len(s) + 1
           /\ (s \o <<m>>)[Len(s) + 1] = m
           /\ \A n \in 1..Len(s) : (s \o <<m>>)[n] = s[n]
<1>1. Append(s, m) = s \o <<m>>
  BY AppendIsConcat
<1>2. Append(s, m) \in Seq(T) /\ Len(Append(s, m)) = Len(s) + 1
      /\ Append(s, m)[Len(s) + 1] = m /\ \A n \in 1..Len(s) : Append(s, m)[n] = s[n]
  BY AppendProperties
<1>. QED
  BY <1>1, <1>2

SameUpTo(longer, read, k) == \A n \in 0..k : longer[n] = read[n]

LEMMA ExtendReading ==
    ASSUME LimitsAsText, NEW view, NEW modes \in Seq(Letters), NEW rest, NEW read,
           IsReading(read, view, modes, rest), NEW m \in Letters
    PROVE  \E longer :
              /\ IsReading(longer, view, modes \o <<m>>, rest)
              /\ longer[Len(modes) + 1] = PeerReadsLetter(read[Len(modes)], m)
              /\ SameUpTo(longer, read, Len(modes))
<1>0. Len(modes) \in Nat
  BY LenProperties
<1>1. PICK x \in Readings : x = PeerReadsLetter(read[Len(modes)], m)
  <2>1. read[Len(modes)] \in Readings
    BY <1>0 DEF IsReading
  <2>. QED
    BY <2>1, LetterType
<1>2. PICK s \in Seq(Letters) : s = modes \o <<m>>
  BY OneMore
<1>3. /\ Len(s) = Len(modes) + 1 /\ s[Len(modes) + 1] = m
      /\ \A n \in 1..Len(modes) : s[n] = modes[n]
  BY <1>2, OneMore
<1>. DEFINE longer == [n \in 0..(Len(modes) + 1) |-> IF n <= Len(modes) THEN read[n] ELSE x]
<1>4. longer[Len(modes) + 1] = x /\ \A n \in 0..Len(modes) : longer[n] = read[n]
  BY <1>0
<1>5. longer \in [0..Len(s) -> Readings]
  BY <1>0, <1>3 DEF IsReading
<1>6. longer[0] = Start(view, rest)
  BY <1>0, <1>4 DEF IsReading
<1>7. ASSUME NEW n \in 1..Len(s) PROVE longer[n] = PeerReadsLetter(longer[n - 1], s[n])
  <2>1. CASE n = Len(modes) + 1
    <3>1. n - 1 = Len(modes) /\ s[n] = m /\ longer[n] = x /\ longer[n - 1] = read[Len(modes)]
      BY <1>0, <1>3, <1>4, <2>1
    <3>. QED
      BY <1>1, <3>1
  <2>2. CASE n # Len(modes) + 1
    <3>1. n \in 1..Len(modes) /\ n - 1 \in 0..Len(modes) /\ n \in 0..Len(modes)
      BY <1>0, <1>3, <2>2
    <3>2. longer[n] = read[n] /\ longer[n - 1] = read[n - 1] /\ s[n] = modes[n]
      BY <1>3, <1>4, <3>1
    <3>. QED
      BY <3>1, <3>2 DEF IsReading
  <2>. QED
    BY <2>1, <2>2
<1>8. IsReading(longer, view, s, rest)
  BY <1>5, <1>6, <1>7 DEF IsReading
<1>. QED
  BY <1>1, <1>2, <1>4, <1>8 DEF SameUpTo

\* One letter more.
LEMMA ReadLetter ==
    ASSUME LimitsAsText, NEW view, NEW modes \in Seq(Letters), NEW rest, NEW last,
           NEW m \in Letters
    PROVE  /\ Reads(view, modes, rest, last) =>
                 Reads(view, modes \o <<m>>, rest, PeerReadsLetter(last, m))
           /\ ReadsAll(view, modes, rest, last) /\ Has(last, m) =>
                 ReadsAll(view, modes \o <<m>>, rest, PeerReadsLetter(last, m))
<1>0. Len(modes) \in Nat
  BY LenProperties
<1>1. PICK s \in Seq(Letters) : s = modes \o <<m>>
  BY OneMore
<1>2. /\ Len(s) = Len(modes) + 1 /\ s[Len(modes) + 1] = m
      /\ \A n \in 1..Len(modes) : s[n] = modes[n]
  BY <1>1, OneMore
<1>3. ASSUME Reads(view, modes, rest, last)
      PROVE  Reads(view, s, rest, PeerReadsLetter(last, m))
  <2>1. PICK read : IsReading(read, view, modes, rest) /\ read[Len(modes)] = last
    BY <1>3 DEF Reads
  <2>2. PICK longer :
            /\ IsReading(longer, view, s, rest)
            /\ longer[Len(modes) + 1] = PeerReadsLetter(read[Len(modes)], m)
    BY <1>1, <2>1, ExtendReading
  <2>. QED
    BY <1>2, <2>1, <2>2 DEF Reads
<1>4. ASSUME ReadsAll(view, modes, rest, last), Has(last, m)
      PROVE  ReadsAll(view, s, rest, PeerReadsLetter(last, m))
  <2>1. PICK read : /\ IsReading(read, view, modes, rest) /\ read[Len(modes)] = last
                    /\ \A n \in 1..Len(modes) : Has(read[n - 1], modes[n])
    BY <1>4 DEF ReadsAll
  <2>2. PICK longer :
            /\ IsReading(longer, view, s, rest)
            /\ longer[Len(modes) + 1] = PeerReadsLetter(read[Len(modes)], m)
            /\ SameUpTo(longer, read, Len(modes))
    BY <1>1, <2>1, ExtendReading
  <2>3. ASSUME NEW n \in 1..Len(s) PROVE Has(longer[n - 1], s[n])
    <3>1. n - 1 \in 0..Len(modes) /\ longer[n - 1] = read[n - 1]
      BY <1>0, <1>2, <2>2 DEF SameUpTo
    <3>2. CASE n = Len(modes) + 1
      <4>1. n - 1 = Len(modes)
        BY <1>0, <3>2
      <4>. QED
        BY <1>2, <1>4, <2>1, <3>1, <3>2, <4>1
    <3>3. CASE n # Len(modes) + 1
      <4>1. n \in 1..Len(modes)
        BY <1>0, <1>2, <3>3
      <4>. QED
        BY <1>2, <2>1, <3>1, <4>1
    <3>. QED
      BY <3>2, <3>3
  <2>4. longer[Len(s)] = PeerReadsLetter(last, m)
    BY <1>2, <2>1, <2>2
  <2>. QED
    BY <2>2, <2>3, <2>4 DEF ReadsAll
<1>. QED
  BY <1>1, <1>3, <1>4

\* More parameters.
LEMMA ReadMore ==
    ASSUME LimitsAsText, NEW view, NEW modes \in Seq(Letters), NEW rest \in Seq(Texts),
           NEW last, NEW params \in Seq(Texts), ReadsAll(view, modes, rest, last)
    PROVE  ReadsAll(view, modes, rest \o params, More(last, params))
<1>0. Len(modes) \in Nat
  BY LenProperties
<1>1. PICK read : /\ IsReading(read, view, modes, rest) /\ read[Len(modes)] = last
                  /\ \A n \in 1..Len(modes) : Has(read[n - 1], modes[n])
  BY DEF ReadsAll
<1>2. /\ read \in [0..Len(modes) -> Readings] /\ read[0] = Start(view, rest)
      /\ \A n \in 1..Len(modes) : read[n] = PeerReadsLetter(read[n - 1], modes[n])
  BY <1>1 DEF IsReading
<1>. DEFINE fuller == [n \in 0..Len(modes) |-> More(read[n], params)]
<1>3. ASSUME NEW r \in Readings PROVE More(r, params) \in Readings
  <2>1. r.rest \o params \in Seq(Texts)
    BY ConcatProperties DEF Readings
  <2>. QED
    BY <2>1 DEF More, Readings
<1>4. fuller \in [0..Len(modes) -> Readings]
  BY <1>2, <1>3
<1>5. fuller[0] = Start(view, rest \o params)
  <2>1. fuller[0] = More(Start(view, rest), params)
    BY <1>0, <1>2
  <2>2. [[plus |-> TRUE, rest |-> rest, view |-> view] EXCEPT !.rest = rest \o params]
        = [plus |-> TRUE, rest |-> rest \o params, view |-> view]
    <3>1. PICK b, u : b = TRUE /\ u = rest \o params
      BY Zenon
    <3>2. [[plus |-> b, rest |-> rest, view |-> view] EXCEPT !.rest = u]
          = [plus |-> b, rest |-> u, view |-> view]
      OBVIOUS
    <3>. QED
      BY <3>1, <3>2, Zenon
  <2>3. Start(view, rest).rest = rest
    BY DEF Start
  <2>. QED
    BY <2>1, <2>2, <2>3, Zenon DEF More, Start
<1>6. ASSUME NEW n \in 1..Len(modes)
      PROVE  /\ fuller[n] = PeerReadsLetter(fuller[n - 1], modes[n])
             /\ Has(fuller[n - 1], modes[n])
  <2>1. n \in 0..Len(modes) /\ n - 1 \in 0..Len(modes)
    BY <1>0
  <2>2. PICK r \in Readings : r = read[n - 1]
    BY <1>2, <2>1
  <2>3. PICK m \in Letters : m = modes[n]
    BY ElementOfSeq
  <2>4. Has(r, m) /\ read[n] = PeerReadsLetter(r, m)
    BY <1>1, <1>2, <2>2, <2>3
  <2>5. PeerReadsLetter(More(r, params), m) = More(PeerReadsLetter(r, m), params)
    BY <2>4, LetterMore DEF Has
  <2>6. More(r, params).plus = r.plus /\ More(r, params).rest = r.rest \o params
    BY DEF More, Readings
  <2>7. r.rest # <<>> => r.rest \o params # <<>>
    BY ConcatHeadTail DEF Readings
  <2>. QED
    BY <2>1, <2>2, <2>3, <2>4, <2>5, <2>6, <2>7 DEF Has
<1>7. IsReading(fuller, view, modes, rest \o params)
  BY <1>4, <1>5, <1>6 DEF IsReading
<1>8. fuller[Len(modes)] = More(last, params)
  BY <1>0, <1>1
<1>. QED
  BY <1>6, <1>7, <1>8 DEF ReadsAll
-----------------------------------------------------------------------------
(* What the broadcast tells.                                               *)

LEMMA WireWhole ==
    ASSUME ColonKeys = {}, NEW params \in Seq(Texts),
           \A i \in 1..Len(params) : params[i] # NoKey
    PROVE  Wire(params) = params
<1>1. {j \in DOMAIN params : params[j] \in ColonKeys} = {}
  OBVIOUS
<1>2. params # <<>> => Last(params) # NoKey
  <2>1. params # <<>> => Len(params) \in 1..Len(params)
    BY LenProperties, EmptySeq
  <2>. QED
    BY <2>1 DEF Last
<1>. QED
  BY <1>1, <1>2, Zenon DEF Wire

LEMMA WireEmpty ==
    ASSUME ColonKeys = {}, NEW params \in Seq(Texts)
    PROVE  Wire(params \o <<NoKey>>) = params
<1>0. NoKey \in Texts /\ Len(params) \in Nat
  BY LenProperties DEF Texts
<1>1. PICK s \in Seq(Texts) : s = params \o <<NoKey>>
  BY <1>0, OneMore
<1>2. /\ Len(s) = Len(params) + 1 /\ s[Len(s)] = NoKey
      /\ \A n \in 1..Len(params) : s[n] = params[n]
  BY <1>0, <1>1, OneMore
<1>3. s # <<>> /\ Last(s) = NoKey
  BY <1>0, <1>2 DEF Last
<1>4. Front(s) = params
  <2>1. PICK f : f = SubSeq(s, 1, Len(params))
    OBVIOUS
  <2>2. f \in Seq(Texts) /\ Len(f) = Len(params) /\ \A i \in 1..Len(params) : f[i] = s[i]
    BY <1>0, <1>2, <2>1
  <2>3. f = params
    BY <1>2, <2>2, SeqEqual
  <2>4. Len(s) - 1 = Len(params)
    BY <1>0, <1>2
  <2>. QED
    BY <2>1, <2>3, <2>4 DEF Front
<1>5. {j \in DOMAIN s : s[j] \in ColonKeys} = {}
  OBVIOUS
<1>. QED
  BY <1>1, <1>3, <1>4, <1>5, Zenon DEF Wire

LEMMA ViewInViews ==
    ASSUME NEW ch \in ChannelType
    PROVE  View(ch) \in Views
<1>1. PICK limit : limit = ToString(ch.userLimit) /\ limit \in Texts
  <2>1. PICK n \in Nat : n = ch.userLimit
    BY DEF ChannelType
  <2>. QED
    BY <2>1, Zenon DEF Texts
<1>2. {Fold[Nick[c]] : c \in ch.operators} \in SUBSET Nicks
  BY ModeAssumption DEF ChannelType
<1>. QED
  BY <1>1, <1>2 DEF View, Views, Texts, ChannelType

LEMMA LastIsReading ==
    ASSUME NEW view, NEW modes \in Seq(Letters), NEW rest, NEW last,
           Reads(view, modes, rest, last)
    PROVE  last \in Readings
<1>1. Len(modes) \in Nat
  BY LenProperties
<1>. QED
  BY <1>1 DEF Reads, IsReading

\* The sign, if it is written, and either way what follows is read under it.
LEMMA SignRead ==
    ASSUME LimitsAsText, NEW view, NEW modes \in Seq(Letters), NEW rest, NEW last,
           NEW sign \in {"none", "+", "-"}, NEW plus \in BOOLEAN, NEW new \in {"+", "-"},
           Reads(view, modes, rest, last), last.plus = (sign # "-"), plus = (new = "+"),
           NEW t, t = IF sign = new THEN <<>> ELSE <<new>>
    PROVE  /\ modes \o t \in Seq(Letters)
           /\ Reads(view, modes \o t, rest, [last EXCEPT !.plus = plus])
           /\ ReadsAll(view, modes, rest, last) =>
                 ReadsAll(view, modes \o t, rest, [last EXCEPT !.plus = plus])
<1>0. last \in Readings /\ new \in Letters
  BY LastIsReading DEF Letters
<1>1. CASE sign = new
  <2>1. last.plus = plus
    BY <1>1
  <2>2. [last EXCEPT !.plus = plus] = last
    BY <1>0, <2>1 DEF Readings
  <2>3. modes \o t = modes
    BY <1>1, ConcatEmptySeq
  <2>. QED
    BY <2>2, <2>3
<1>2. CASE sign # new
  <2>1. t = <<new>> /\ modes \o <<new>> \in Seq(Letters)
    BY <1>0, <1>2, OneMore
  <2>2. PeerReadsLetter(last, new) = [last EXCEPT !.plus = plus]
    BY Zenon DEF PeerReadsLetter
  <2>3. Has(last, new)
    BY DEF Has
  <2>. QED
    BY <1>0, <2>1, <2>2, <2>3, ReadLetter
<1>. QED
  BY <1>1, <1>2

\* A client that knew the channel before and reads what has been built so far
\* has the right picture and the right sign.  As long as there are parameters
\* left, it has used up exactly those that were sent.
ToldBy(last) ==
    /\ Reads(View(before), appliedModes, Wire(appliedParams), last)
    /\ last.view = View(channel) /\ last.plus = (lastSign # "-")
    /\ ~noParams =>
          /\ ReadsAll(View(before), appliedModes, appliedParams, last)
          /\ last.rest = <<>>
          /\ \A i \in 1..Len(appliedParams) : appliedParams[i] # NoKey

ToldInv == ModeTypeOK /\ before \in ChannelType /\ \E last : ToldBy(last)

\* The letter of an Apply, after its sign.
LEMMA ApplyRead ==
    ASSUME LimitsAsText, ModeTypeOK, NEW value \in ChannelType, NEW m \in Letters, NEW params,
           Apply(value, m, params), NEW rest, NEW last, NEW mid,
           Reads(View(before), appliedModes, rest, last), last.plus = (lastSign # "-"),
           mid = [last EXCEPT !.plus = isPlus]
    PROVE  /\ Reads(View(before), appliedModes', rest, PeerReadsLetter(mid, m))
           /\ ReadsAll(View(before), appliedModes, rest, last) /\ Has(mid, m) =>
                 ReadsAll(View(before), appliedModes', rest, PeerReadsLetter(mid, m))
           /\ isPlus = (lastSign' # "-")
<1>1. PICK new \in {"+", "-"} : new = Sign /\ isPlus = (new = "+")
  BY DEF Sign, ModeTypeOK
<1>2. PICK t : t = IF lastSign = new THEN <<>> ELSE <<new>>
  OBVIOUS
<1>3. appliedModes' = appliedModes \o t \o <<m>> /\ lastSign' = new
  BY <1>1, <1>2 DEF Apply
<1>4. appliedModes \in Seq(Letters) /\ lastSign \in {"none", "+", "-"} /\ isPlus \in BOOLEAN
  BY DEF ModeTypeOK
<1>5. PICK s \in Seq(Letters) :
          /\ s = appliedModes \o t
          /\ Reads(View(before), s, rest, mid)
          /\ ReadsAll(View(before), appliedModes, rest, last) =>
                ReadsAll(View(before), s, rest, mid)
  <2>1. PICK view : view = View(before)
    OBVIOUS
  <2>2. PICK modes \in Seq(Letters), sign \in {"none", "+", "-"}, plus \in BOOLEAN :
            modes = appliedModes /\ sign = lastSign /\ plus = isPlus
    BY <1>4, Zenon
  <2>3. Reads(view, modes, rest, last) /\ last.plus = (sign # "-") /\ plus = (new = "+")
        /\ t = IF sign = new THEN <<>> ELSE <<new>>
    BY <1>1, <1>2, <2>1, <2>2
  <2>4. /\ modes \o t \in Seq(Letters)
        /\ Reads(view, modes \o t, rest, [last EXCEPT !.plus = plus])
        /\ ReadsAll(view, modes, rest, last) =>
              ReadsAll(view, modes \o t, rest, [last EXCEPT !.plus = plus])
    BY <2>3, SignRead, ZenonT(60)
  <2>. QED
    BY <2>1, <2>2, <2>4
<1>6. appliedModes' = s \o <<m>>
  BY <1>3, <1>5
<1>7. isPlus = (lastSign' # "-")
  BY <1>1, <1>3
<1>. QED
  BY <1>5, <1>6, <1>7, ReadLetter

\* A letter without a parameter.
LEMMA ToldPlain ==
    ASSUME LimitsAsText, ColonKeys = {}, ToldInv,
           NEW value \in ChannelType, NEW m \in {"i", "t", "l"}, ~Takes(isPlus, m),
           Apply(value, m, <<>>), before' = before, noParams' = noParams,
           View(value) = PeerApplies(View(channel), isPlus, m, NoKey)
    PROVE  \E last : ToldBy(last)'
<1>1. PICK last : ToldBy(last)
  BY DEF ToldInv
<1>2. PICK rest : rest = Wire(appliedParams)
  OBVIOUS
<1>3. Reads(View(before), appliedModes, rest, last) /\ last.plus = (lastSign # "-")
      /\ last.view = View(channel)
  BY <1>1, <1>2 DEF ToldBy
<1>4. last \in Readings /\ isPlus \in BOOLEAN
  BY <1>3, LastIsReading DEF ToldInv, ModeTypeOK
<1>5. PICK mid : mid = [last EXCEPT !.plus = isPlus]
  OBVIOUS
<1>6. mid \in Readings /\ mid.plus = isPlus /\ mid.rest = last.rest /\ mid.view = View(channel)
  BY <1>3, <1>4, <1>5 DEF Readings
<1>7. m \notin {"+", "-"} /\ m \in Letters /\ Has(mid, m)
  BY <1>6 DEF Letters, Has
<1>8. PICK x : x = PeerReadsLetter(mid, m)
  OBVIOUS
<1>9. x = [mid EXCEPT !.view = View(value)]
  BY <1>6, <1>7, <1>8 DEF PeerReadsLetter
<1>10. x.view = View(value) /\ x.plus = isPlus /\ x.rest = last.rest
  BY <1>6, <1>9 DEF Readings
<1>11. appliedParams' = appliedParams /\ channel' = value
  BY ConcatEmptySeq DEF Apply, ToldInv, ModeTypeOK
<1>12. Reads(View(before), appliedModes', rest, x) /\ isPlus = (lastSign' # "-")
  BY <1>3, <1>5, <1>7, <1>8, ApplyRead DEF ToldInv
<1>13. ASSUME ~noParams
       PROVE  /\ ReadsAll(View(before), appliedModes', appliedParams, x)
              /\ x.rest = <<>> /\ \A i \in 1..Len(appliedParams) : appliedParams[i] # NoKey
  <2>1. /\ ReadsAll(View(before), appliedModes, appliedParams, last) /\ last.rest = <<>>
        /\ \A i \in 1..Len(appliedParams) : appliedParams[i] # NoKey
    BY <1>1, <1>13 DEF ToldBy
  <2>2. rest = appliedParams
    BY <1>2, <2>1, WireWhole DEF ToldInv, ModeTypeOK
  <2>. QED
    BY <1>3, <1>5, <1>7, <1>8, <1>10, <2>1, <2>2, ApplyRead DEF ToldInv
<1>14. View(before)' = View(before) /\ View(channel)' = View(value)
       /\ Wire(appliedParams)' = rest
  BY <1>2, <1>11, Zenon DEF View, Wire
<1>15. ToldBy(x)'
  BY <1>10, <1>11, <1>12, <1>13, <1>14 DEF ToldBy
<1>. QED
  BY <1>15

\* A letter with a parameter that is not empty.
LEMMA ToldParam ==
    ASSUME LimitsAsText, ColonKeys = {}, ToldInv,
           NEW value \in ChannelType, NEW m \in {"k", "l", "o"}, Takes(isPlus, m),
           NEW p \in Texts, p # NoKey, ~noParams,
           Apply(value, m, <<p>>), before' = before,
           View(value) = PeerApplies(View(channel), isPlus, m, p)
    PROVE  \E last : ToldBy(last)'
<1>1. PICK last : ToldBy(last)
  BY DEF ToldInv
<1>2. /\ ReadsAll(View(before), appliedModes, appliedParams, last)
      /\ Reads(View(before), appliedModes, appliedParams, last)
      /\ last.rest = <<>> /\ last.plus = (lastSign # "-") /\ last.view = View(channel)
      /\ \A i \in 1..Len(appliedParams) : appliedParams[i] # NoKey
  BY <1>1 DEF ToldBy, ReadsAll, Reads
<1>3. appliedParams \in Seq(Texts) /\ appliedModes \in Seq(Letters) /\ isPlus \in BOOLEAN
  BY DEF ToldInv, ModeTypeOK
<1>4. last \in Readings
  BY <1>2, <1>3, LastIsReading
<1>5. <<p>> \in Seq(Texts) /\ <<>> \o <<p>> = <<p>> /\ Head(<<p>>) = p /\ Tail(<<p>>) = <<>>
      /\ <<p>> # <<>>
  OBVIOUS
<1>6. PICK more : more = More(last, <<p>>)
  OBVIOUS
<1>7. more = [last EXCEPT !.rest = <<p>>]
  BY <1>2, <1>5, <1>6 DEF More
<1>8. more \in Readings /\ more.plus = (lastSign # "-") /\ more.rest = <<p>>
      /\ more.view = View(channel)
  BY <1>2, <1>4, <1>5, <1>7 DEF Readings
<1>9. PICK rest : rest = appliedParams \o <<p>> /\ rest \in Seq(Texts)
                  /\ \A i \in 1..Len(rest) : rest[i] # NoKey
  <2>1. /\ appliedParams \o <<p>> \in Seq(Texts)
        /\ Len(appliedParams \o <<p>>) = Len(appliedParams) + 1
        /\ (appliedParams \o <<p>>)[Len(appliedParams) + 1] = p
        /\ \A n \in 1..Len(appliedParams) : (appliedParams \o <<p>>)[n] = appliedParams[n]
    BY <1>3, OneMore
  <2>2. Len(appliedParams) \in Nat
    BY <1>3, LenProperties
  <2>3. ASSUME NEW i \in 1..(Len(appliedParams) + 1)
        PROVE  (appliedParams \o <<p>>)[i] # NoKey
    <3>1. i \in 1..Len(appliedParams) \/ i = Len(appliedParams) + 1
      BY <2>2
    <3>. QED
      BY <1>2, <2>1, <3>1
  <2>. QED
    BY <2>1, <2>3
<1>10. ReadsAll(View(before), appliedModes, rest, more)
       /\ Reads(View(before), appliedModes, rest, more)
  <2>1. ReadsAll(View(before), appliedModes, rest, more)
    BY <1>2, <1>3, <1>5, <1>6, <1>9, ReadMore
  <2>. QED
    BY <2>1 DEF ReadsAll, Reads
<1>11. PICK mid : mid = [more EXCEPT !.plus = isPlus]
  OBVIOUS
<1>12. mid \in Readings /\ mid.plus = isPlus /\ mid.rest = <<p>> /\ mid.view = View(channel)
  BY <1>3, <1>8, <1>11 DEF Readings
<1>13. m \notin {"+", "-"} /\ m \in Letters /\ Has(mid, m)
  BY <1>5, <1>12 DEF Letters, Has
<1>14. PICK x : x = PeerReadsLetter(mid, m)
  OBVIOUS
<1>15. x = [mid EXCEPT !.rest = <<>>, !.view = View(value)]
  BY <1>5, <1>12, <1>13, <1>14 DEF PeerReadsLetter
<1>16. x.view = View(value) /\ x.plus = isPlus /\ x.rest = <<>>
  BY <1>12, <1>15 DEF Readings
<1>17. appliedParams' = rest /\ channel' = value
  BY <1>9 DEF Apply
<1>18. /\ Reads(View(before), appliedModes', rest, x) /\ isPlus = (lastSign' # "-")
       /\ ReadsAll(View(before), appliedModes', rest, x)
  BY <1>8, <1>10, <1>11, <1>13, <1>14, ApplyRead DEF ToldInv
<1>19. Wire(rest) = rest
  BY <1>9, WireWhole
<1>20. View(before)' = View(before) /\ View(channel)' = View(value)
       /\ Wire(appliedParams)' = rest
  BY <1>17, <1>19, Zenon DEF View, Wire
<1>21. ToldBy(x)'
  BY <1>9, <1>16, <1>17, <1>18, <1>20 DEF ToldBy
<1>. QED
  BY <1>21

\* +k with an empty key: nothing arrives for the k, and nothing has changed.
LEMMA ToldNoKey ==
    ASSUME LimitsAsText, ColonKeys = {}, ToldInv,
           isPlus, ~noParams, noParams', channel.password = NoKey, NEW value, value = channel,
           Apply(value, "k", <<NoKey>>), before' = before
    PROVE  \E last : ToldBy(last)'
<1>1. PICK last : ToldBy(last)
  BY DEF ToldInv
<1>2. /\ Reads(View(before), appliedModes, appliedParams, last)
      /\ last.rest = <<>> /\ last.plus = (lastSign # "-") /\ last.view = View(channel)
  BY <1>1 DEF ToldBy, ReadsAll, Reads
<1>3. /\ appliedParams \in Seq(Texts) /\ appliedModes \in Seq(Letters)
      /\ isPlus \in BOOLEAN /\ channel \in ChannelType
  BY DEF ToldInv, ModeTypeOK
<1>4. last \in Readings
  BY <1>2, <1>3, LastIsReading
<1>5. PICK mid : mid = [last EXCEPT !.plus = isPlus]
  OBVIOUS
<1>6. mid \in Readings /\ mid.plus = isPlus /\ mid.rest = <<>> /\ mid.view = View(channel)
  BY <1>2, <1>3, <1>4, <1>5 DEF Readings
<1>7. "k" \in Letters /\ PeerReadsLetter(mid, "k") = mid
  BY <1>6 DEF Letters, PeerReadsLetter, Takes
<1>8. Reads(View(before), appliedModes', appliedParams, mid) /\ isPlus = (lastSign' # "-")
  <2>1. PICK m, params : m = "k" /\ params = <<NoKey>> /\ m \in Letters
    BY <1>7
  <2>2. ModeTypeOK /\ value \in ChannelType /\ Apply(value, m, params)
    BY <1>3, <2>1 DEF ToldInv
  <2>3. Reads(View(before), appliedModes', appliedParams, PeerReadsLetter(mid, m))
        /\ isPlus = (lastSign' # "-")
    BY <1>2, <1>5, <2>1, <2>2, ApplyRead
  <2>. QED
    BY <1>7, <2>1, <2>3
<1>9. appliedParams' = appliedParams \o <<NoKey>> /\ channel' = channel
  BY DEF Apply
<1>10. Wire(appliedParams') = appliedParams
  BY <1>3, <1>9, WireEmpty
<1>11. View(before)' = View(before) /\ View(channel)' = View(channel)
       /\ Wire(appliedParams)' = appliedParams
  BY <1>9, <1>10, Zenon DEF View, Wire
<1>12. ToldBy(mid)'
  BY <1>6, <1>8, <1>9, <1>11 DEF ToldBy
<1>. QED
  BY <1>12

\* Each letter changes the view of a client as it changes the channel.
LEMMA FlagViews ==
    ASSUME NEW ch \in ChannelType, NEW plus \in BOOLEAN
    PROVE  /\ View([ch EXCEPT !.inviteOnly = plus]) = PeerApplies(View(ch), plus, "i", NoKey)
           /\ View([ch EXCEPT !.topicRestricted = plus])
                 = PeerApplies(View(ch), plus, "t", NoKey)
BY DEF View, PeerApplies, ChannelType

LEMMA KeyViews ==
    ASSUME NEW ch \in ChannelType, NEW key, NEW p
    PROVE  /\ View([ch EXCEPT !.password = key]) = PeerApplies(View(ch), TRUE, "k", key)
           /\ View([ch EXCEPT !.password = NoKey]) = PeerApplies(View(ch), FALSE, "k", p)
BY DEF View, PeerApplies, ChannelType

LEMMA LimitViews ==
    ASSUME LimitsAsText, NEW ch \in ChannelType, NEW n \in Nat
    PROVE  /\ View([ch EXCEPT !.userLimit = n]) = PeerApplies(View(ch), TRUE, "l", ToString(n))
           /\ View([ch EXCEPT !.userLimit = 0]) = PeerApplies(View(ch), FALSE, "l", NoKey)
BY DEF View, PeerApplies, ChannelType, LimitsAsText

LEMMA OperatorViews ==
    ASSUME NEW ch \in ChannelType, NEW t \in Fds, NEW n \in Nicks, Fold[Nick[t]] = Fold[n]
    PROVE  /\ View(addOperator(ch, t)) = PeerApplies(View(ch), TRUE, "o", n)
           /\ View(removeOperator(ch, t)) = PeerApplies(View(ch), FALSE, "o", n)
<1>1. ch.operators \subseteq Fds
  BY DEF ChannelType
<1>2. {Fold[Nick[c]] : c \in ch.operators \cup {t}}
        = {Fold[Nick[c]] : c \in ch.operators} \cup {Fold[n]}
  OBVIOUS
<1>3. {Fold[Nick[c]] : c \in ch.operators \ {t}}
        = {Fold[Nick[c]] : c \in ch.operators} \ {Fold[n]}
  BY <1>1, ModeAssumption
<1>. QED
  BY <1>2, <1>3 DEF View, PeerApplies, ChannelType, addOperator, removeOperator

LEMMA ToldChange ==
    ASSUME LimitsAsText, ColonKeys = {}, ToldInv, Changes
    PROVE  \E last : ToldBy(last)'
<1>0. channel \in ChannelType /\ isPlus \in BOOLEAN
  BY DEF ToldInv, ModeTypeOK
<1>1. ASSUME NEW value, NEW m \in {"i", "t", "l"}, ~Takes(isPlus, m),
             Applies(value, m, <<>>), noParams' = noParams,
             View(value) = PeerApplies(View(channel), isPlus, m, NoKey)
      PROVE  \E last : ToldBy(last)'
  BY <1>1, ToldPlain DEF Applies
<1>2. ASSUME NEW value, NEW m \in {"k", "l", "o"}, Takes(isPlus, m),
             NEW p, p # NoKey, ~noParams, Applies(value, m, <<p>>), p \in Texts,
             View(value) = PeerApplies(View(channel), isPlus, m, p)
      PROVE  \E last : ToldBy(last)'
  BY <1>2, ToldParam DEF Applies
<1>3. ASSUME noParams' = noParams,
             Applies([channel EXCEPT !.inviteOnly = isPlus], "i", <<>>)
      PROVE  \E last : ToldBy(last)'
  <2>1. PICK value, m :
            value = [channel EXCEPT !.inviteOnly = isPlus] /\ m = "i" /\ m \in {"i", "t", "l"}
    BY Zenon
  <2>2. ~Takes(isPlus, m) /\ View(value) = PeerApplies(View(channel), isPlus, m, NoKey)
    BY <1>0, <2>1, FlagViews DEF Takes
  <2>. QED
    BY <1>1, <1>3, <2>1, <2>2
<1>4. ASSUME noParams' = noParams,
             Applies([channel EXCEPT !.topicRestricted = isPlus], "t", <<>>)
      PROVE  \E last : ToldBy(last)'
  <2>1. PICK value, m :
            value = [channel EXCEPT !.topicRestricted = isPlus]
            /\ m = "t" /\ m \in {"i", "t", "l"}
    BY Zenon
  <2>2. ~Takes(isPlus, m) /\ View(value) = PeerApplies(View(channel), isPlus, m, NoKey)
    BY <1>0, <2>1, FlagViews DEF Takes
  <2>. QED
    BY <1>1, <1>4, <2>1, <2>2
<1>5. ASSUME NEW key \in Keys \cup {NoKey}, isPlus, channel.password = NoKey, Param(key),
             Applies([channel EXCEPT !.password = key], "k", <<key>>)
      PROVE  \E last : ToldBy(last)'
  <2>1. PICK value, m :
            value = [channel EXCEPT !.password = key] /\ m = "k" /\ m \in {"k", "l", "o"}
    BY Zenon
  <2>2. CASE key = NoKey
    <3>1. value = channel /\ ~noParams /\ noParams'
      BY <1>0, <1>5, <2>1, <2>2 DEF ChannelType, Param
    <3>2. Apply(value, "k", <<NoKey>>) /\ before' = before
      BY <1>5, <2>1, <2>2 DEF Applies
    <3>. QED
      BY <1>5, <3>1, <3>2, ToldNoKey
  <2>3. CASE key # NoKey
    <3>1. Takes(isPlus, m) /\ View(value) = PeerApplies(View(channel), TRUE, m, key)
      BY <1>0, <2>1, KeyViews DEF Takes
    <3>2. isPlus = TRUE /\ ~noParams /\ key \in Texts
      BY <1>0, <1>5 DEF Param, Texts
    <3>3. Applies(value, m, <<key>>)
      BY <1>5, <2>1
    <3>. QED
      BY <1>2, <2>1, <2>3, <3>1, <3>2, <3>3
  <2>. QED
    BY <2>2, <2>3
<1>6. ASSUME NEW key \in Keys \cup {NoKey}, ~isPlus, Param(key),
             Applies([channel EXCEPT !.password = NoKey], "k", <<"*">>)
      PROVE  \E last : ToldBy(last)'
  <2>1. PICK value, m, p :
            value = [channel EXCEPT !.password = NoKey]
            /\ m = "k" /\ p = "*" /\ m \in {"k", "l", "o"}
    BY Zenon
  <2>2. Takes(isPlus, m) /\ View(value) = PeerApplies(View(channel), FALSE, m, p)
    BY <1>0, <2>1, KeyViews DEF Takes
  <2>3. isPlus = FALSE /\ ~noParams /\ p \in Texts /\ p # NoKey
    BY <1>0, <1>6, <2>1, ModeAssumption DEF Param, Texts
  <2>4. Applies(value, m, <<p>>)
    BY <1>6, <2>1
  <2>. QED
    BY <1>2, <2>1, <2>2, <2>3, <2>4
<1>7. ASSUME NEW a, NEW n \in Nat, isPlus, Param(ToString(a)),
             Applies([channel EXCEPT !.userLimit = n], "l", <<ToString(n)>>)
      PROVE  \E last : ToldBy(last)'
  <2>1. PICK value, m, p :
            value = [channel EXCEPT !.userLimit = n]
            /\ m = "l" /\ p = ToString(n) /\ m \in {"k", "l", "o"}
    BY Zenon
  <2>2. View(value) = PeerApplies(View(channel), TRUE, m, p)
    BY <1>0, <2>1, LimitViews
  <2>3. isPlus = TRUE /\ ~noParams /\ Takes(isPlus, m)
    BY <1>0, <1>7, <2>1 DEF Param, Takes
  <2>4. p \in Texts /\ p # NoKey
    BY <2>1, Zenon DEF Texts, LimitsAsText
  <2>5. Applies(value, m, <<p>>)
    BY <1>7, <2>1
  <2>. QED
    BY <1>2, <2>1, <2>2, <2>3, <2>4, <2>5
<1>8. ASSUME ~isPlus, noParams' = noParams,
             Applies([channel EXCEPT !.userLimit = 0], "l", <<>>)
      PROVE  \E last : ToldBy(last)'
  <2>1. PICK value, m :
            value = [channel EXCEPT !.userLimit = 0] /\ m = "l" /\ m \in {"i", "t", "l"}
    BY Zenon
  <2>2. isPlus = FALSE /\ ~Takes(isPlus, m)
    BY <1>0, <1>8, <2>1 DEF Takes
  <2>3. View(value) = PeerApplies(View(channel), FALSE, m, NoKey)
    BY <1>0, <2>1, LimitViews
  <2>. QED
    BY <1>1, <1>8, <2>1, <2>2, <2>3
<1>9. ASSUME NEW n \in Nicks, NEW t \in Loop!findClientByNick(n) \cap channel.members, Param(n),
             Applies(IF isPlus THEN addOperator(channel, t)
                     ELSE removeOperator(channel, t), "o", <<n>>)
      PROVE  \E last : ToldBy(last)'
  <2>1. PICK value, m :
            /\ value = IF isPlus THEN addOperator(channel, t) ELSE removeOperator(channel, t)
            /\ m = "o"
            /\ m \in {"k", "l", "o"}
    BY Zenon
  <2>2. t \in Fds /\ Fold[Nick[t]] = Fold[n]
    <3>1. t \in Fds /\ clients[t].nick = Nick[t] /\ Nick[t] \in Nicks
      BY <1>0, ModeAssumption DEF ChannelType, ToldInv, ModeTypeOK
    <3>. QED
      BY <3>1, ClientAssumption DEF Loop!findClientByNick, Loop!toIrcLowerCase
  <2>3. View(value) = PeerApplies(View(channel), isPlus, m, n)
    <3>1. CASE isPlus = TRUE
      BY <1>0, <2>1, <2>2, <3>1, OperatorViews
    <3>2. CASE isPlus = FALSE
      BY <1>0, <2>1, <2>2, <3>2, OperatorViews
    <3>. QED
      BY <1>0, <3>1, <3>2
  <2>4. Takes(isPlus, m) /\ ~noParams /\ n # NoKey /\ n \in Texts
    BY <1>9, <2>1, ModeAssumption DEF Takes, Param, Texts
  <2>5. Applies(value, m, <<n>>)
    BY <1>9, <2>1
  <2>. QED
    BY <1>2, <2>1, <2>3, <2>4, <2>5
<1>. QED
  BY <1>3, <1>4, <1>5, <1>6, <1>7, <1>8, <1>9 DEF Changes

LEMMA ToldStep ==
    ASSUME LimitsAsText, ColonKeys = {}, ToldInv, [Next]_vars
    PROVE  ToldInv'
<1>1. ModeTypeOK'
  BY ModeTypeStep DEF ToldInv
<1>2. CASE Changes
  <2>1. before' = before
    BY <1>2, ChangeApplies DEF Applies
  <2>. QED
    BY <1>1, <1>2, <2>1, ToldChange DEF ToldInv
<1>3. CASE UNCHANGED <<channel, before, textVars>> /\ noParams' \in {noParams, TRUE}
  <2>1. PICK last : ToldBy(last)
    BY DEF ToldInv
  <2>2. ToldBy(last)'
    BY <1>3, <2>1 DEF ToldBy, textVars, View, Wire
  <2>. QED
    BY <1>1, <1>3, <2>2 DEF ToldInv
<1>4. CASE UNCHANGED vars
  BY <1>3, <1>4 DEF vars
<1>. QED
  BY <1>2, <1>3, <1>4, StepKinds DEF ToldInv, Rests

LEMMA ToldInit ==
    ASSUME LimitsAsText, ColonKeys = {}, Init
    PROVE  ToldInv
<1>1. ModeTypeOK /\ before \in ChannelType /\ before = channel
  BY ModeInitType DEF Init, ModeTypeOK
<1>0. View(before) \in Views /\ <<>> \in Seq(Texts)
  BY <1>1, ViewInViews
<1>2. PICK view, rest :
          view = View(before) /\ rest = <<>> /\ view \in Views /\ rest \in Seq(Texts)
  BY <1>0, Zenon
<1>3. ReadsAll(view, <<>>, rest, Start(view, rest))
      /\ Reads(view, <<>>, rest, Start(view, rest))
  <2>1. ReadsAll(view, <<>>, rest, Start(view, rest))
    BY <1>2, ReadNothing
  <2>. QED
    BY <2>1, Zenon DEF ReadsAll, Reads
<1>4. /\ Start(view, rest).view = view /\ Start(view, rest).plus = TRUE
      /\ Start(view, rest).rest = <<>>
  BY <1>2 DEF Start
<1>5. appliedModes = <<>> /\ appliedParams = <<>> /\ lastSign = "none"
  BY DEF Init
<1>6. rest = appliedParams /\ \A i \in 1..Len(appliedParams) : appliedParams[i] # NoKey
  BY <1>2, <1>5
<1>7. Wire(appliedParams) = rest
  BY <1>2, <1>6, WireWhole
<1>8. ToldBy(Start(view, rest))
  BY <1>1, <1>2, <1>3, <1>4, <1>5, <1>6, <1>7 DEF ToldBy
<1>. QED
  BY <1>1, <1>8 DEF ToldInv

\* However long the mode string, what the MODE broadcast says so far tells a
\* client that knew the channel what the channel has become (appliedModes,
\* appliedParams and lastSign of ModeCommand::execute), as long as no key
\* begins with a colon.
THEOREM BroadcastTellsModes ==
    ASSUME LimitsAsText, ColonKeys = {}
    PROVE  Spec => []PeersFollow
<1>1. Init => ToldInv
  BY ToldInit
<1>2. ToldInv /\ [Next]_vars => ToldInv'
  BY ToldStep
<1>3. ToldInv => PeersFollow
  <2>1. SUFFICES ASSUME ToldInv PROVE PeersFollow
    OBVIOUS
  <2>2. PICK last : ToldBy(last)
    BY <2>1 DEF ToldInv
  <2>3. PICK read : /\ IsReading(read, View(before), appliedModes, Wire(appliedParams))
                    /\ read[Len(appliedModes)].view = View(channel)
    BY <2>2 DEF ToldBy, Reads
  <2>4. appliedModes \in Seq(Letters)
    BY <2>1 DEF ToldInv, ModeTypeOK
  <2>. QED
    BY <2>3, <2>4, ReadingIsRead DEF PeersFollow
<1>. QED
  BY <1>1, <1>2, <1>3, PTL DEF Spec
-----------------------------------------------------------------------------
(* What the 324 reply tells.                                               *)

\* A client that reads this has the picture v and has left these unread.
Shows(view, modes, rest, plus, v, left) ==
    \E x : /\ Reads(view, modes, rest, x)
           /\ x.plus = plus /\ x.view = v /\ x.rest = left

\* A letter more, with its parameter p if it takes one.
LEMMA ShowLetter ==
    ASSUME LimitsAsText, NEW view, NEW modes \in Seq(Letters), NEW rest, NEW plus, NEW v, NEW left,
           NEW m \in Letters \ {"+", "-"}, NEW p, NEW next, NEW after,
           Shows(view, modes, rest, plus, v, left),
           Takes(plus, m) => left # <<>> /\ Head(left) = p,
           ~Takes(plus, m) => p = NoKey,
           next = PeerApplies(v, plus, m, p),
           after = IF Takes(plus, m) THEN Tail(left) ELSE left
    PROVE  modes \o <<m>> \in Seq(Letters) /\ Shows(view, modes \o <<m>>, rest, plus, next, after)
<1>1. PICK last : /\ Reads(view, modes, rest, last)
                  /\ last.plus = plus /\ last.view = v /\ last.rest = left
  BY DEF Shows
<1>2. last \in Readings
  BY <1>1, LastIsReading
<1>3. modes \o <<m>> \in Seq(Letters)
  BY OneMore
<1>4. PICK x : x = PeerReadsLetter(last, m)
  OBVIOUS
<1>5. Reads(view, modes \o <<m>>, rest, x)
  BY <1>1, <1>4, ReadLetter
<1>6. x.plus = plus /\ x.view = next /\ x.rest = after
  <2>1. CASE Takes(plus, m)
    <3>1. x = [last EXCEPT !.rest = after, !.view = next]
      BY <1>1, <1>4, <2>1 DEF PeerReadsLetter
    <3>. QED
      BY <1>1, <1>2, <3>1 DEF Readings
  <2>2. CASE ~Takes(plus, m)
    <3>1. x = [last EXCEPT !.view = next]
      BY <1>1, <1>4, <2>2 DEF PeerReadsLetter
    <3>. QED
      BY <1>1, <1>2, <2>2, <3>1 DEF Readings
  <2>. QED
    BY <2>1, <2>2
<1>. QED
  BY <1>3, <1>5, <1>6 DEF Shows

\* The channels that the four letters of the reply build up.
Bare == [NewChannel EXCEPT !.operators = channel.operators]
WithI == [Bare EXCEPT !.inviteOnly = channel.inviteOnly]
WithT == [WithI EXCEPT !.topicRestricted = channel.topicRestricted]
WithK == [WithT EXCEPT !.password = channel.password]
WithL == [WithK EXCEPT !.userLimit = channel.userLimit]

LEMMA BuiltChannels ==
    ASSUME channel \in ChannelType
    PROVE  /\ Bare \in ChannelType /\ WithI \in ChannelType /\ WithT \in ChannelType
           /\ WithK \in ChannelType /\ WithL \in ChannelType
           /\ View(WithL) = View(channel)
           /\ Bare.inviteOnly = FALSE /\ WithI.topicRestricted = FALSE
           /\ WithT.password = NoKey /\ WithK.userLimit = 0
<1>1. Bare \in ChannelType
      /\ Bare.inviteOnly = FALSE /\ Bare.topicRestricted = FALSE
      /\ Bare.password = NoKey /\ Bare.userLimit = 0 /\ Bare.operators = channel.operators
  BY DEF Bare, NewChannel, ChannelType
<1>2. WithI \in ChannelType
      /\ WithI.inviteOnly = channel.inviteOnly /\ WithI.topicRestricted = FALSE
      /\ WithI.password = NoKey /\ WithI.userLimit = 0 /\ WithI.operators = channel.operators
  BY <1>1 DEF WithI, ChannelType
<1>3. WithT \in ChannelType
      /\ WithT.inviteOnly = channel.inviteOnly
      /\ WithT.topicRestricted = channel.topicRestricted
      /\ WithT.password = NoKey /\ WithT.userLimit = 0 /\ WithT.operators = channel.operators
  BY <1>2 DEF WithT, ChannelType
<1>4. WithK \in ChannelType
      /\ WithK.inviteOnly = channel.inviteOnly
      /\ WithK.topicRestricted = channel.topicRestricted
      /\ WithK.password = channel.password /\ WithK.userLimit = 0
      /\ WithK.operators = channel.operators
  BY <1>3 DEF WithK, ChannelType
<1>5. WithL \in ChannelType
      /\ WithL.inviteOnly = channel.inviteOnly
      /\ WithL.topicRestricted = channel.topicRestricted
      /\ WithL.password = channel.password /\ WithL.userLimit = channel.userLimit
      /\ WithL.operators = channel.operators
  BY <1>4 DEF WithL, ChannelType
<1>6. View(WithL) = View(channel)
  BY <1>5, Zenon DEF View
<1>. QED
  BY <1>1, <1>2, <1>3, <1>4, <1>5, <1>6

\* Each letter of the reply takes the view from one of them to the next.
LEMMA ReplyViews ==
    ASSUME LimitsAsText, channel \in ChannelType, NEW plus, plus = TRUE
    PROVE  /\ View(WithI) = IF channel.inviteOnly
                            THEN PeerApplies(View(Bare), plus, "i", NoKey) ELSE View(Bare)
           /\ View(WithT) = IF channel.topicRestricted
                            THEN PeerApplies(View(WithI), plus, "t", NoKey) ELSE View(WithI)
           /\ View(WithK) = IF channel.password # NoKey
                            THEN PeerApplies(View(WithT), plus, "k", channel.password)
                            ELSE View(WithT)
           /\ View(WithL) = IF channel.userLimit > 0
                            THEN PeerApplies(View(WithK), plus, "l", ToString(channel.userLimit))
                            ELSE View(WithK)
<1>0. channel.inviteOnly \in BOOLEAN /\ channel.topicRestricted \in BOOLEAN
      /\ channel.userLimit \in Nat
  BY DEF ChannelType
<1>1. View(WithI) = IF channel.inviteOnly
                    THEN PeerApplies(View(Bare), plus, "i", NoKey) ELSE View(Bare)
  <2>1. ASSUME channel.inviteOnly
        PROVE  View(WithI) = PeerApplies(View(Bare), plus, "i", NoKey)
    BY <1>0, <2>1, BuiltChannels, FlagViews DEF WithI
  <2>2. ASSUME ~channel.inviteOnly
        PROVE  WithI = Bare
    <3>1. channel.inviteOnly = Bare.inviteOnly /\ Bare \in ChannelType
      BY <1>0, <2>2, BuiltChannels
    <3>. QED
      BY <3>1 DEF WithI, ChannelType
  <2>. QED
    BY <2>1, <2>2
<1>2. View(WithT) = IF channel.topicRestricted
                    THEN PeerApplies(View(WithI), plus, "t", NoKey) ELSE View(WithI)
  <2>1. ASSUME channel.topicRestricted
        PROVE  View(WithT) = PeerApplies(View(WithI), plus, "t", NoKey)
    BY <1>0, <2>1, BuiltChannels, FlagViews DEF WithT
  <2>2. ASSUME ~channel.topicRestricted
        PROVE  WithT = WithI
    <3>1. channel.topicRestricted = WithI.topicRestricted /\ WithI \in ChannelType
      BY <1>0, <2>2, BuiltChannels
    <3>. QED
      BY <3>1 DEF WithT, ChannelType
  <2>. QED
    BY <2>1, <2>2
<1>3. View(WithK) = IF channel.password # NoKey
                    THEN PeerApplies(View(WithT), plus, "k", channel.password) ELSE View(WithT)
  <2>1. ASSUME channel.password # NoKey
        PROVE  View(WithK) = PeerApplies(View(WithT), plus, "k", channel.password)
    BY <1>0, <2>1, BuiltChannels, KeyViews DEF WithK
  <2>2. ASSUME channel.password = NoKey
        PROVE  WithK = WithT
    <3>1. channel.password = WithT.password /\ WithT \in ChannelType
      BY <1>0, <2>2, BuiltChannels
    <3>. QED
      BY <3>1 DEF WithK, ChannelType
  <2>. QED
    BY <2>1, <2>2
<1>4. View(WithL) = IF channel.userLimit > 0
                    THEN PeerApplies(View(WithK), plus, "l", ToString(channel.userLimit))
                    ELSE View(WithK)
  <2>1. ASSUME channel.userLimit > 0
        PROVE  View(WithL) = PeerApplies(View(WithK), plus, "l", ToString(channel.userLimit))
    BY <1>0, <2>1, BuiltChannels, LimitViews DEF WithL
  <2>2. ASSUME ~(channel.userLimit > 0)
        PROVE  WithL = WithK
    <3>1. channel.userLimit = WithK.userLimit /\ WithK \in ChannelType
      BY <1>0, <2>2, BuiltChannels
    <3>. QED
      BY <3>1 DEF WithL, ChannelType
  <2>. QED
    BY <2>1, <2>2
<1>. QED
  BY <1>1, <1>2, <1>3, <1>4

\* The parameters of the reply: the key comes first, and none is empty.
LEMMA ReplyParams ==
    ASSUME LimitsAsText, ColonKeys = {}, NEW key \in Texts, NEW limit \in Texts,
           key = channel.password, limit = ToString(channel.userLimit), limit # NoKey,
           NEW rest, rest = QueryParams, NEW second, second = Flag(channel.userLimit > 0, limit)
    PROVE  /\ rest \in Seq(Texts) /\ Wire(rest) = rest
           /\ key # NoKey => rest # <<>> /\ Head(rest) = key /\ Tail(rest) = second
           /\ key = NoKey => rest = second
           /\ channel.userLimit > 0 => second # <<>> /\ Head(second) = limit
<1>. DEFINE k == key # NoKey
            l == channel.userLimit > 0
<1>1. /\ rest = (IF k THEN <<key>> ELSE <<>>) \o (IF l THEN <<limit>> ELSE <<>>)
      /\ second = IF l THEN <<limit>> ELSE <<>>
  BY DEF Flag, QueryParams
<1>2. <<>> \in Seq(Texts) /\ <<key>> \in Seq(Texts) /\ <<limit>> \in Seq(Texts)
      /\ <<key, limit>> \in Seq(Texts)
  OBVIOUS
<1>3. /\ <<key>> \o <<limit>> = <<key, limit>> /\ <<>> \o <<>> = <<>>
      /\ <<key>> \o <<>> = <<key>> /\ <<>> \o <<limit>> = <<limit>>
  <2>1. <<key>> \o <<limit>> = <<key, limit>>
    <3>1. PICK one \in Seq(Texts) : one = <<key>>
      BY <1>2, Zenon
    <3>2. PICK two \in Seq(Texts) : two = <<key, limit>>
      BY <1>2, Zenon
    <3>3. Len(one) = 1 /\ one[1] = key /\ Len(two) = 2 /\ two[1] = key /\ two[2] = limit
      BY <3>1, <3>2
    <3>4. PICK s \in Seq(Texts) : s = one \o <<limit>>
      BY OneMore
    <3>5. Len(s) = 2 /\ s[2] = limit /\ s[1] = key
      <4>1. Len(s) = Len(one) + 1 /\ s[Len(one) + 1] = limit
            /\ \A n \in 1..Len(one) : s[n] = one[n]
        BY <3>4, OneMore
      <4>. QED
        BY <3>3, <4>1
    <3>6. s = two
      <4>1. Len(s) = Len(two) /\ \A i \in 1..Len(s) : s[i] = two[i]
        BY <3>3, <3>5
      <4>. QED
        BY <4>1, SeqEqual
    <3>. QED
      BY <3>1, <3>2, <3>4, <3>6, Zenon
  <2>2. ASSUME NEW s \in Seq(Texts) PROVE <<>> \o s = s /\ s \o <<>> = s
    BY ConcatEmptySeq
  <2>. QED
    BY <1>2, <2>1, <2>2, Zenon
<1>4. /\ k /\ l => rest = <<key, limit>>
      /\ k /\ ~l => rest = <<key>>
      /\ ~k /\ l => rest = <<limit>>
      /\ ~k /\ ~l => rest = <<>>
  BY <1>1, <1>3, Zenon
<1>5. CASE k /\ l
  <2>1. /\ \A i \in 1..2 : <<key, limit>>[i] # NoKey
        /\ Len(<<key, limit>>) = 2 /\ <<key, limit>> # <<>>
        /\ Head(<<key, limit>>) = key /\ Tail(<<key, limit>>) = <<limit>>
        /\ <<limit>> # <<>> /\ Head(<<limit>>) = limit
    BY <1>5
  <2>2. second = <<limit>>
    BY <1>1, <1>5, Zenon
  <2>3. rest \in Seq(Texts) /\ \A i \in 1..Len(rest) : rest[i] # NoKey
    BY <1>2, <1>4, <1>5, <2>1
  <2>4. Wire(rest) = rest
    BY <2>3, WireWhole
  <2>. QED
    BY <1>4, <1>5, <2>1, <2>2, <2>3, <2>4
<1>6. CASE k /\ ~l
  <2>1. /\ \A i \in 1..1 : <<key>>[i] # NoKey
        /\ Len(<<key>>) = 1 /\ <<key>> # <<>> /\ Head(<<key>>) = key /\ Tail(<<key>>) = <<>>
    BY <1>6
  <2>2. second = <<>>
    BY <1>1, <1>6, Zenon
  <2>3. rest \in Seq(Texts) /\ \A i \in 1..Len(rest) : rest[i] # NoKey
    BY <1>2, <1>4, <1>6, <2>1
  <2>4. Wire(rest) = rest
    BY <2>3, WireWhole
  <2>. QED
    BY <1>4, <1>6, <2>1, <2>2, <2>3, <2>4
<1>7. CASE ~k
  <2>1. /\ \A i \in 1..1 : <<limit>>[i] # NoKey
        /\ Len(<<limit>>) = 1 /\ <<limit>> # <<>> /\ Head(<<limit>>) = limit
        /\ Len(<<>>) = 0
    OBVIOUS
  <2>2. rest = second /\ (l => rest = <<limit>>) /\ (~l => rest = <<>>)
    BY <1>1, <1>4, <1>7, Zenon
  <2>3. rest \in Seq(Texts) /\ \A i \in 1..Len(rest) : rest[i] # NoKey
    <3>1. CASE l
      BY <1>2, <2>1, <2>2, <3>1
    <3>2. CASE ~l
      <4>1. rest = <<>>
        BY <2>2, <3>2, Zenon
      <4>. QED
        BY <4>1
    <3>. QED
      BY <3>1, <3>2
  <2>4. Wire(rest) = rest
    BY <2>3, WireWhole
  <2>. QED
    BY <1>7, <2>1, <2>2, <2>3, <2>4
<1>. QED
  BY <1>5, <1>6, <1>7

\* A client that reads the reply learns the modes.
LEMMA ReplyRead ==
    ASSUME LimitsAsText, ColonKeys = {}, channel \in ChannelType
    PROVE  QueryTellsModes
<1>1. PICK key, limit : /\ key = channel.password /\ limit = ToString(channel.userLimit)
                        /\ key \in Texts /\ limit \in Texts /\ limit # NoKey
  <2>1. channel.userLimit \in Nat /\ channel.password \in Texts
    BY DEF ChannelType, Texts
  <2>2. PICK n \in Nat : n = channel.userLimit
    BY <2>1
  <2>3. ToString(n) \in Texts /\ ToString(n) # NoKey
    BY Zenon DEF Texts, LimitsAsText
  <2>. QED
    BY <2>1, <2>2, <2>3, Zenon
<1>2. PICK rest, second : rest = QueryParams /\ second = Flag(channel.userLimit > 0, limit)
  BY Zenon
<1>3. /\ rest \in Seq(Texts) /\ Wire(rest) = rest
      /\ key # NoKey => rest # <<>> /\ Head(rest) = key /\ Tail(rest) = second
      /\ key = NoKey => rest = second
      /\ channel.userLimit > 0 => second # <<>> /\ Head(second) = limit
  BY <1>1, <1>2, ReplyParams
<1>4. PICK third : third = IF channel.userLimit > 0 THEN Tail(second) ELSE second
  OBVIOUS
<1>5. PICK view : view = View(Bare) /\ view \in Views
  BY BuiltChannels, ViewInViews
<1>6. PICK plus : plus = TRUE
  BY Zenon
<1>7. /\ View(WithI) = IF channel.inviteOnly
                       THEN PeerApplies(View(Bare), plus, "i", NoKey) ELSE View(Bare)
      /\ View(WithT) = IF channel.topicRestricted
                       THEN PeerApplies(View(WithI), plus, "t", NoKey) ELSE View(WithI)
      /\ View(WithK) = IF channel.password # NoKey
                       THEN PeerApplies(View(WithT), plus, "k", key) ELSE View(WithT)
      /\ View(WithL) = IF channel.userLimit > 0
                       THEN PeerApplies(View(WithK), plus, "l", limit) ELSE View(WithK)
  BY <1>1, <1>6, ReplyViews
<1>8. /\ ~Takes(plus, "i") /\ ~Takes(plus, "t") /\ Takes(plus, "k") /\ Takes(plus, "l")
      /\ "i" \in Letters \ {"+", "-"} /\ "t" \in Letters \ {"+", "-"}
      /\ "k" \in Letters \ {"+", "-"} /\ "l" \in Letters \ {"+", "-"}
  BY <1>6 DEF Takes, Letters
<1>9. PICK none : /\ none = <<>> /\ none \in Seq(Letters)
                  /\ Shows(view, none, rest, plus, View(Bare), rest)
  <2>1. ReadsAll(view, <<>>, rest, Start(view, rest))
    BY <1>3, <1>5, ReadNothing
  <2>2. PICK first, none : /\ first = Start(view, rest) /\ none = <<>>
                           /\ none \in Seq(Letters) /\ Reads(view, none, rest, first)
    <3>1. <<>> \in Seq(Letters)
      OBVIOUS
    <3>. QED
      BY <2>1, <3>1, Zenon DEF ReadsAll, Reads
  <2>3. first.plus = plus /\ first.rest = rest /\ first.view = view
    BY <1>6, <2>2 DEF Start
  <2>. QED
    BY <1>5, <2>2, <2>3 DEF Shows
<1>10. PICK mi : /\ mi = none \o Flag(channel.inviteOnly, "i") /\ mi \in Seq(Letters)
                 /\ Shows(view, mi, rest, plus, View(WithI), rest)
  <2>1. CASE channel.inviteOnly
    <3>1. PICK c, p, v, next, left, after :
              /\ c = "i" /\ c \in Letters \ {"+", "-"} /\ p = NoKey
              /\ v = View(Bare) /\ next = View(WithI) /\ left = rest /\ after = rest
      BY <1>8, Zenon
    <3>2. Shows(view, none, rest, plus, v, left)
      BY <1>9, <3>1
    <3>3. /\ Takes(plus, c) => left # <<>> /\ Head(left) = p
          /\ ~Takes(plus, c) => p = NoKey
          /\ next = PeerApplies(v, plus, c, p)
      BY <1>7, <1>8, <2>1, <3>1
    <3>4. after = IF Takes(plus, c) THEN Tail(left) ELSE left
      BY <1>8, <2>1, <3>1
    <3>5. none \o <<c>> \in Seq(Letters) /\ Shows(view, none \o <<c>>, rest, plus, next, after)
      BY <1>9, <3>1, <3>2, <3>3, <3>4, ShowLetter
    <3>6. Flag(channel.inviteOnly, "i") = <<c>>
      BY <2>1, <3>1 DEF Flag
    <3>. QED
      BY <3>1, <3>5, <3>6, Zenon
  <2>2. CASE ~channel.inviteOnly
    <3>1. Flag(channel.inviteOnly, "i") = <<>> /\ none \o <<>> = none
      BY <1>9, <2>2, ConcatEmptySeq DEF Flag
    <3>2. View(WithI) = View(Bare) /\ rest = rest
      BY <1>7, <2>2
    <3>. QED
      BY <1>9, <3>1, <3>2
  <2>. QED
    BY <2>1, <2>2
<1>11. PICK mt : /\ mt = mi \o Flag(channel.topicRestricted, "t") /\ mt \in Seq(Letters)
                 /\ Shows(view, mt, rest, plus, View(WithT), rest)
  <2>1. CASE channel.topicRestricted
    <3>1. PICK c, p, v, next, left, after :
              /\ c = "t" /\ c \in Letters \ {"+", "-"} /\ p = NoKey
              /\ v = View(WithI) /\ next = View(WithT) /\ left = rest /\ after = rest
      BY <1>8, Zenon
    <3>2. Shows(view, mi, rest, plus, v, left)
      BY <1>10, <3>1
    <3>3. /\ Takes(plus, c) => left # <<>> /\ Head(left) = p
          /\ ~Takes(plus, c) => p = NoKey
          /\ next = PeerApplies(v, plus, c, p)
      BY <1>7, <1>8, <2>1, <3>1
    <3>4. after = IF Takes(plus, c) THEN Tail(left) ELSE left
      BY <1>8, <2>1, <3>1
    <3>5. mi \o <<c>> \in Seq(Letters) /\ Shows(view, mi \o <<c>>, rest, plus, next, after)
      BY <1>10, <3>1, <3>2, <3>3, <3>4, ShowLetter
    <3>6. Flag(channel.topicRestricted, "t") = <<c>>
      BY <2>1, <3>1 DEF Flag
    <3>. QED
      BY <3>1, <3>5, <3>6, Zenon
  <2>2. CASE ~channel.topicRestricted
    <3>1. Flag(channel.topicRestricted, "t") = <<>> /\ mi \o <<>> = mi
      BY <1>10, <2>2, ConcatEmptySeq DEF Flag
    <3>2. View(WithT) = View(WithI) /\ rest = rest
      BY <1>7, <2>2
    <3>. QED
      BY <1>10, <3>1, <3>2
  <2>. QED
    BY <2>1, <2>2
<1>12. PICK mk : /\ mk = mt \o Flag(channel.password # NoKey, "k") /\ mk \in Seq(Letters)
                 /\ Shows(view, mk, rest, plus, View(WithK), second)
  <2>1. CASE channel.password # NoKey
    <3>1. PICK c, p, v, next, left, after :
              /\ c = "k" /\ c \in Letters \ {"+", "-"} /\ p = key
              /\ v = View(WithT) /\ next = View(WithK) /\ left = rest /\ after = second
      BY <1>8, Zenon
    <3>2. Shows(view, mt, rest, plus, v, left)
      BY <1>11, <3>1
    <3>3. /\ Takes(plus, c) => left # <<>> /\ Head(left) = p
          /\ ~Takes(plus, c) => p = NoKey
          /\ next = PeerApplies(v, plus, c, p)
      BY <1>1, <1>3, <1>7, <1>8, <2>1, <3>1
    <3>4. after = IF Takes(plus, c) THEN Tail(left) ELSE left
      BY <1>1, <1>3, <1>8, <2>1, <3>1
    <3>5. mt \o <<c>> \in Seq(Letters) /\ Shows(view, mt \o <<c>>, rest, plus, next, after)
      BY <1>11, <3>1, <3>2, <3>3, <3>4, ShowLetter
    <3>6. Flag(channel.password # NoKey, "k") = <<c>>
      BY <2>1, <3>1 DEF Flag
    <3>. QED
      BY <3>1, <3>5, <3>6, Zenon
  <2>2. CASE channel.password = NoKey
    <3>1. Flag(channel.password # NoKey, "k") = <<>> /\ mt \o <<>> = mt
      BY <1>11, <2>2, ConcatEmptySeq DEF Flag
    <3>2. View(WithK) = View(WithT) /\ second = rest
      BY <1>1, <1>3, <1>7, <2>2
    <3>. QED
      BY <1>11, <3>1, <3>2
  <2>. QED
    BY <2>1, <2>2
<1>13. PICK ml : /\ ml = mk \o Flag(channel.userLimit > 0, "l") /\ ml \in Seq(Letters)
                 /\ Shows(view, ml, rest, plus, View(WithL), third)
  <2>1. CASE channel.userLimit > 0
    <3>1. PICK c, p, v, next, left, after :
              /\ c = "l" /\ c \in Letters \ {"+", "-"} /\ p = limit
              /\ v = View(WithK) /\ next = View(WithL) /\ left = second /\ after = third
      BY <1>8, Zenon
    <3>2. Shows(view, mk, rest, plus, v, left)
      BY <1>12, <3>1
    <3>3. /\ Takes(plus, c) => left # <<>> /\ Head(left) = p
          /\ ~Takes(plus, c) => p = NoKey
          /\ next = PeerApplies(v, plus, c, p)
      BY <1>3, <1>4, <1>7, <1>8, <2>1, <3>1
    <3>4. after = IF Takes(plus, c) THEN Tail(left) ELSE left
      BY <1>3, <1>4, <1>8, <2>1, <3>1
    <3>5. mk \o <<c>> \in Seq(Letters) /\ Shows(view, mk \o <<c>>, rest, plus, next, after)
      BY <1>12, <3>1, <3>2, <3>3, <3>4, ShowLetter
    <3>6. Flag(channel.userLimit > 0, "l") = <<c>>
      BY <2>1, <3>1 DEF Flag
    <3>. QED
      BY <3>1, <3>5, <3>6, Zenon
  <2>2. CASE ~(channel.userLimit > 0)
    <3>1. Flag(channel.userLimit > 0, "l") = <<>> /\ mk \o <<>> = mk
      BY <1>12, <2>2, ConcatEmptySeq DEF Flag
    <3>2. View(WithL) = View(WithK) /\ third = second
      BY <1>3, <1>4, <1>7, <2>2
    <3>. QED
      BY <1>12, <3>1, <3>2
  <2>. QED
    BY <2>1, <2>2
<1>14. ml = QueryModes
  <2>1. PICK f : f = Flag(channel.inviteOnly, "i")
    OBVIOUS
  <2>2. f \in Seq(Letters)
    BY <1>8, <2>1 DEF Flag
  <2>3. none \o f = f
    BY <1>9, <2>2, ConcatEmptySeq
  <2>. QED
    BY <1>10, <1>11, <1>12, <1>13, <2>1, <2>3, Zenon DEF QueryModes
<1>15. PICK read : IsReading(read, view, ml, Wire(rest)) /\ read[Len(ml)].view = View(WithL)
  BY <1>3, <1>13 DEF Shows, Reads
<1>16. PeerReads(view, ml, rest) = View(WithL)
  BY <1>13, <1>15, ReadingIsRead
<1>17. View(WithL) = View(channel)
  BY BuiltChannels
<1>. QED
  BY <1>2, <1>5, <1>14, <1>16, <1>17, Zenon DEF QueryTellsModes, Bare

\* The 324 reply tells a client that knows nothing of the channel its modes
\* (the branch of ModeCommand::execute without a mode string), with the key
\* before the limit and at every point of every MODE command, as long as no
\* key begins with a colon.
THEOREM QueryReplyTellsModes ==
    ASSUME LimitsAsText, ColonKeys = {}
    PROVE  Spec => []QueryTellsModes
<1>1. ModeTypeOK => QueryTellsModes
  BY ReplyRead DEF ModeTypeOK
<1>. QED
  BY <1>1, ModeInitType, ModeTypeStep, PTL DEF Spec
=============================================================================
