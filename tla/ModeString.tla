----------------------------- MODULE ModeString -----------------------------
(***************************************************************************)
(* The loop of MODE over its mode string (src/commands/ModeCommand.cpp)    *)
(* with the text it builds: the letters that took effect, each sign only   *)
(* where it changes, and their parameters apart from them.  An IRC client  *)
(* keeps its picture of a channel from these texts alone; PeerReads is how *)
(* one reads them.  Commands models the same loop without the text.        *)
(*                                                                         *)
(* Text is a string and a parameter list a sequence of strings.  Only the  *)
(* last parameter of a command can be empty, because only the trailing one *)
(* is taken as it stands (Parser::parse).  One that begins with a colon is *)
(* the trailing one, or any that follows a tab.  Once the last parameter   *)
(* is used up the letters that want one have no effect.                    *)
(***************************************************************************)
EXTENDS Client, Channel, Integers, SequencesExt

CONSTANTS
    Fold, LimitArgs, IntModulus, LongMax, TextFits,  \* see Commands
    Nick,          \* the nicknames of the clients
    Members,       \* the members of the channel
    Issuer,        \* the operator who sends MODE
    ColonKeys,     \* keys that begin with a colon
    MaxLetters     \* bound on the length of the mode string

ASSUME ModeAssumption ==
    /\ Members \subseteq Fds /\ Issuer \in Members
    /\ Nick \in [Fds -> Nicks] /\ Fold \in [Nicks -> Nicks]
    /\ \A c, d \in Fds : Fold[Nick[c]] = Fold[Nick[d]] => c = d  \* NicknamesUnique
    /\ ColonKeys \subseteq Keys
    /\ NoKey \notin Nicks \cup {"*"}                    \* neither is empty
    /\ LimitArgs \subseteq Nat /\ LimitArgs # {}
    /\ IntModulus \in Nat \ {0} /\ LongMax \in Nat
    /\ MaxLetters \in Nat

VARIABLES
    clients,
    channel,        \* the Channel object
    before,         \* what it was when the command began
    running,        \* the loop has not ended
    letters,        \* how many letters it has read
    isPlus,
    noParams,       \* paramIndex has reached params.size()
    lastSign,
    appliedModes,
    appliedParams

textVars == <<lastSign, appliedModes, appliedParams>>
vars == <<clients, channel, before, running, letters, isPlus, noParams, textVars>>

Target == "#c"

Loop ==
    INSTANCE Commands WITH
        channels <- [ch \in {Target} |-> channel],
        job <- IF running
               THEN [cmd |-> "MODE", who |-> Issuer, chan |-> Target,
                     plus |-> isPlus, applied |-> appliedModes # <<>>]
               ELSE [cmd |-> "none"],
        ChanNames <- {Target}, Verbs <- {"MODE"}, MaxTotal <- 1, MaxPerIp <- 1

\* Any channel the issuer operates, with any modes.
Operated ==
    [members: {Members}, operators: {ops \in SUBSET Members : Issuer \in ops},
     invited: {{}}, inviteOnly: BOOLEAN, topicRestricted: BOOLEAN,
     password: (Keys \ ColonKeys) \cup {NoKey}, userLimit: {0, 1},
     topic: {NoTopic}]

Registered(n) ==
    [NewClient("ip") EXCEPT !.passOk = TRUE, !.nick = n, !.userSet = TRUE]

Init ==
    /\ clients = [c \in Fds |-> Registered(Nick[c])]
    /\ channel \in Operated
    /\ before = channel
    /\ running = TRUE /\ letters = 0
    /\ isPlus = TRUE /\ noParams = FALSE
    /\ lastSign = "none" /\ appliedModes = <<>> /\ appliedParams = <<>>
-----------------------------------------------------------------------------
(* The letters.                                                            *)

Letter ==
    /\ running /\ letters < MaxLetters
    /\ letters' = letters + 1
    /\ UNCHANGED <<before, running>>

\* A letter that reads a parameter, which may be the last one.
Param(p) ==
    /\ ~noParams
    /\ noParams' \in {TRUE} \cup IF p = NoKey THEN {} ELSE {FALSE}

NoEffect == UNCHANGED <<clients, channel, isPlus, textVars>>

Reply ==
    /\ clients' = [clients EXCEPT ![Issuer] = sendMessage(@)]
    /\ UNCHANGED <<channel, isPlus, textVars>>

Sign == IF isPlus THEN "+" ELSE "-"

Apply_SignOnce(value, letter, params) ==
    /\ channel' = value
    /\ appliedModes' = (IF lastSign = "none" THEN <<Sign>> ELSE appliedModes)
                       \o <<letter>>
    /\ lastSign' = IF lastSign = "none" THEN Sign ELSE lastSign
    /\ appliedParams' = appliedParams \o params
    /\ UNCHANGED <<clients, isPlus>>

\* The channel changes and the letter goes into the broadcast.
Apply(value, letter, params) ==
    /\ channel' = value
    /\ appliedModes' = appliedModes
                       \o (IF lastSign = Sign THEN <<>> ELSE <<Sign>>)
                       \o <<letter>>
    /\ lastSign' = Sign
    /\ appliedParams' = appliedParams \o params
    /\ UNCHANGED <<clients, isPlus>>

ModeSign(plus) ==
    /\ Letter
    /\ isPlus' = plus
    /\ UNCHANGED <<clients, channel, noParams, textVars>>

ModeInviteOnly ==
    /\ Letter /\ UNCHANGED noParams
    /\ IF channel.inviteOnly # isPlus
       THEN Apply([channel EXCEPT !.inviteOnly = isPlus], "i", <<>>)
       ELSE NoEffect

ModeTopicRestricted ==
    /\ Letter /\ UNCHANGED noParams
    /\ IF channel.topicRestricted # isPlus
       THEN Apply([channel EXCEPT !.topicRestricted = isPlus], "t", <<>>)
       ELSE NoEffect

\* +k, after the test for a space, a tab or a comma.
ModeSetKey(key) ==
    /\ Letter /\ isPlus /\ Param(key)
    /\ IF channel.password = NoKey
       THEN Apply([channel EXCEPT !.password = key], "k", <<key>>)
       ELSE Reply                                    \* 467

\* -k must repeat the key; the broadcast hides it.
ModeClearKey(key) ==
    /\ Letter /\ ~isPlus /\ Param(key)
    /\ IF channel.password = key
       THEN Apply([channel EXCEPT !.password = NoKey], "k", <<"*">>)
       ELSE NoEffect

ModeSetLimit_NoRangeTest(a) ==
    /\ Letter /\ isPlus /\ Param(ToString(a))
    /\ IF channel.userLimit # Loop!atoi(a)
       THEN Apply([channel EXCEPT !.userLimit = Loop!atoi(a)],
                  "l", <<ToString(Loop!atoi(a))>>)
       ELSE NoEffect

\* The broadcast tells the limit that was set, not the argument.
ModeSetLimit(a) ==
    /\ Letter /\ isPlus /\ Param(ToString(a))
    /\ IF Loop!atoi(a) > 0 /\ channel.userLimit # Loop!atoi(a)
       THEN Apply([channel EXCEPT !.userLimit = Loop!atoi(a)],
                  "l", <<ToString(Loop!atoi(a))>>)
       ELSE NoEffect

ModeClearLimit ==
    /\ Letter /\ ~isPlus /\ UNCHANGED noParams
    /\ IF channel.userLimit > 0
       THEN Apply([channel EXCEPT !.userLimit = 0], "l", <<>>)
       ELSE NoEffect

\* 696: a key with a forbidden character, a limit that is no number.
ModeBadParam ==
    /\ Letter /\ isPlus
    /\ Param("bad")
    /\ Reply

ModeOperator(n) ==
    /\ Letter /\ Param(n)
    /\ LET found == Loop!findClientByNick(n) \cap channel.members
       IN  \/ found = {} /\ Reply                    \* 441
           \/ \E t \in found :
                 IF isPlus # (t \in channel.operators)
                 THEN Apply(IF isPlus THEN addOperator(channel, t)
                            ELSE removeOperator(channel, t), "o", <<n>>)
                 ELSE NoEffect

\* The broadcast, if anything was applied.
ModeEnd ==
    /\ running
    /\ running' = FALSE
    /\ \E fits \in TextFits :
          clients' = IF appliedModes # <<>> /\ fits
                     THEN Loop!Send(channel.members) ELSE clients
    /\ UNCHANGED <<channel, before, letters, isPlus, noParams, textVars>>

Next ==
    \/ \E plus \in BOOLEAN : ModeSign(plus)
    \/ ModeInviteOnly
    \/ ModeTopicRestricted
    \/ \E key \in Keys \cup {NoKey} : ModeSetKey(key) \/ ModeClearKey(key)
    \/ \E a \in LimitArgs : ModeSetLimit(a)
    \/ ModeClearLimit
    \/ ModeBadParam
    \/ \E n \in Nicks : ModeOperator(n)
    \/ ModeEnd

Spec == Init /\ [][Next]_vars
-----------------------------------------------------------------------------
(* What MODE with a channel alone answers: 324.                            *)

Flag(on, letter) == IF on THEN <<letter>> ELSE <<>>

QueryModes_LimitFirst ==
    Flag(channel.inviteOnly, "i") \o Flag(channel.topicRestricted, "t")
    \o Flag(channel.userLimit > 0, "l") \o Flag(channel.password # NoKey, "k")

QueryModes ==
    Flag(channel.inviteOnly, "i") \o Flag(channel.topicRestricted, "t")
    \o Flag(channel.password # NoKey, "k") \o Flag(channel.userLimit > 0, "l")

QueryParams ==
    Flag(channel.password # NoKey, channel.password)
    \o Flag(channel.userLimit > 0, ToString(channel.userLimit))
-----------------------------------------------------------------------------
(* How a client reads these texts (RFC 2812, 2.3.1 and 3.2.3).             *)

\* The parameters that arrive: one with a colon takes in all that follows and
\* loses the colon, and an empty one, which can only be the last, leaves no
\* trace at the end of the line.
Wire(params) ==
    LET led == {j \in DOMAIN params : params[j] \in ColonKeys}
        upTo == IF led = {} THEN params
                ELSE Append(SubSeq(params, 1, Min(led) - 1), "another text")
    IN  IF upTo # <<>> /\ Last(upTo) = NoKey THEN Front(upTo) ELSE upTo

View(ch) ==
    [inviteOnly |-> ch.inviteOnly, topicRestricted |-> ch.topicRestricted,
     password |-> ch.password, userLimit |-> ToString(ch.userLimit),
     operators |-> {Fold[Nick[c]] : c \in ch.operators}]

\* +k, -k, +l and both o take a parameter.
Takes(plus, m) == m \in {"k", "o"} \/ (m = "l" /\ plus)

\* A letter under a sign, with its parameter p if it takes one.
PeerApplies(view, plus, m, p) ==
    CASE m = "i" -> [view EXCEPT !.inviteOnly = plus]
      [] m = "t" -> [view EXCEPT !.topicRestricted = plus]
      [] m = "k" -> [view EXCEPT !.password = IF plus THEN p ELSE NoKey]
      [] m = "l" -> [view EXCEPT !.userLimit = IF plus THEN p ELSE "0"]
      [] m = "o" -> [view EXCEPT !.operators =
                       IF p \notin Nicks THEN @
                       ELSE IF plus THEN @ \cup {Fold[p]} ELSE @ \ {Fold[p]}]

\* One letter.  It is ignored if its parameter is missing.
PeerReadsLetter(r, m) ==
    IF m \in {"+", "-"} THEN [r EXCEPT !.plus = (m = "+")]
    ELSE IF ~Takes(r.plus, m) THEN [r EXCEPT !.view = PeerApplies(@, r.plus, m, NoKey)]
    ELSE IF r.rest = <<>> THEN r
    ELSE [r EXCEPT !.rest = Tail(@),
                   !.view = PeerApplies(@, r.plus, m, Head(r.rest))]

\* The letters from left to right.
PeerReads(view, modes, params) ==
    LET read[n \in 0..Len(modes)] ==
            IF n = 0 THEN [plus |-> TRUE, rest |-> Wire(params), view |-> view]
            ELSE PeerReadsLetter(read[n - 1], modes[n])
    IN  read[Len(modes)].view
-----------------------------------------------------------------------------
(* Correctness.                                                            *)

\* At every point of the loop the text built so far tells a client that knew
\* the channel before exactly what the channel has become, whatever was
\* repeated, undone, refused or left without a parameter.  This holds while no
\* key begins with a colon (ColonKeys is empty): such a key is broadcast
\* without a colon of its own, and clients learn another one (audit, failure
\* 24: "report and broadcast every applied change").
PeersFollow ==
    PeerReads(View(before), appliedModes, appliedParams) = View(channel)

\* The 324 reply tells a client that knows nothing of the channel its modes,
\* under the same proviso on its key.
QueryTellsModes ==
    PeerReads(View([NewChannel EXCEPT !.operators = channel.operators]),
              QueryModes, QueryParams)
        = View(channel)

\* The loop is the one Commands models: without the text each letter is one
\* of its steps.
LoopIsCommands == [][Loop!JobStep]_(Loop!vars)
=============================================================================
