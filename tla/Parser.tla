------------------------------- MODULE Parser -------------------------------
(***************************************************************************)
(* The texts of the protocol: Parser::parse (src/parser/Parser.cpp), the   *)
(* list splitting of the commands (splitString), and the tests that decide *)
(* which password and which channel the two programs may be started with   *)
(* (src/main.cpp, src/bot/main.cpp).                                       *)
(*                                                                         *)
(* A text is a sequence of symbols, one for each kind of character the     *)
(* code tells apart: a blank, another white space, a colon, a comma, a     *)
(* hash, a CR, and a letter.  A command word is a single letter, so        *)
(* "PASS :" and the line ending take five bytes, not eight.  The one       *)
(* variable is the text somebody typed, or gave as an argument, so far.    *)
(***************************************************************************)
EXTENDS Naturals, Sequences, FiniteSetsExt

CONSTANTS
    Symbols,      \* a subset of AllSymbols
    MaxText,      \* bound on the text
    MaxLine,      \* MAX_IRC_MESSAGE_SIZE
    MaxPassword,  \* MAX_SERVER_PASSWORD_SIZE and MAX_PASSWORD_SIZE
    MaxName       \* the 50 bytes of a channel name

AllSymbols == {"sp", "tab", ":", ",", "#", "cr", "a"}

ASSUME ParserAssumption ==
    /\ Symbols \subseteq AllSymbols
    /\ MaxText \in Nat /\ MaxName \in Nat /\ MaxLine \in Nat
    /\ MaxPassword \in Nat \ {0}
    /\ MaxPassword + 5 <= MaxLine      \* 504 + 8 <= 512

VARIABLE text

Init == text = <<>>

Type ==
    /\ Len(text) < MaxText
    /\ \E s \in Symbols : text' = Append(text, s)

Spec == Init /\ [][Type]_text

Holds(s, symbols) == \E i \in DOMAIN s : s[i] \in symbols
-----------------------------------------------------------------------------
(* Parsing.                                                                *)

\* Where a piece without separators begins, and where the one that begins at
\* position i ends.
TokenStarts(s, seps) ==
    {i \in DOMAIN s : s[i] \notin seps /\ (i > 1 => s[i - 1] \in seps)}

TokenEnd(s, seps, i) ==
    CHOOSE j \in i..Len(s) : /\ \A k \in i..j : s[k] \notin seps
                             /\ j < Len(s) => s[j + 1] \in seps

Nth(S, k) == CHOOSE i \in S : Cardinality({j \in S : j <= i}) = k

\* The non-empty pieces between separators: ss >> word, and splitString.
Tokens(s, seps) ==
    LET starts == TokenStarts(s, seps)
    IN  [k \in 1..Cardinality(starts) |->
           SubSeq(s, Nth(starts, k), TokenEnd(s, seps, Nth(starts, k)))]

Words(s) == Tokens(s, {"sp", "tab", "cr"})

toupper(s) == [i \in DOMAIN s |-> IF s[i] = "a" THEN "A" ELSE s[i]]

NoMessage == [prefix |-> <<>>, command |-> <<>>, params |-> <<>>]

WithoutCr(raw) ==
    IF raw # <<>> /\ raw[Len(raw)] = "cr" THEN SubSeq(raw, 1, Len(raw) - 1) ELSE raw

Colons(line) == {i \in 1..(Len(line) - 1) : line[i] = "sp" /\ line[i + 1] = ":"}

\* The words before the trailing parameter, the first of them a prefix if it
\* begins with a colon.
Message(base, trailing) ==
    LET words == Words(base)
        named == words # <<>> /\ words[1][1] = ":"
        rest == IF named THEN Tail(words) ELSE words
    IN  IF words = <<>> THEN NoMessage
        ELSE [prefix |-> IF named THEN Tail(words[1]) ELSE <<>>,
              command |-> IF rest = <<>> THEN <<>> ELSE toupper(rest[1]),
              params |-> (IF rest = <<>> THEN <<>> ELSE Tail(rest)) \o trailing]

\* What follows the first " :" is one parameter, taken as it stands.
parse(raw) ==
    LET line == WithoutCr(raw)
        first == Min(Colons(line))
    IN  IF Colons(line) = {} THEN Message(line, <<>>)
        ELSE Message(SubSeq(line, 1, first - 1), <<SubSeq(line, first + 2, Len(line))>>)

splitString(s) == Tokens(s, {","})

\* What Client::extractLine hands on for a line that ends in CR and newline.
Extracted(line) == Len(line) + 2 <= MaxLine /\ ~Holds(line, {"cr"})
-----------------------------------------------------------------------------
(* What the commands make of it.                                           *)

KickPairs_CountsUsers(params) ==
    LET channels == splitString(params[1])
        users == splitString(params[2])
    IN  IF Len(channels) > 1 /\ Len(channels) # Len(users) THEN {}
        ELSE {<<IF Len(channels) = 1 THEN 1 ELSE i, i>> : i \in DOMAIN users}

\* The positions in the list of channels and the list of users that the loop
\* of KICK reads together.
KickPairs(params) ==
    LET channels == splitString(params[1])
        users == splitString(params[2])
    IN  IF Len(channels) # 1 /\ Len(channels) # Len(users) THEN {}  \* 461
        ELSE {<<IF Len(channels) = 1 THEN 1 ELSE i, i>> : i \in DOMAIN users}

isValidChannelName(name) ==
    /\ name # <<>> /\ Len(name) <= MaxName
    /\ name[1] = "#"
    /\ ~Holds(name, {"sp", ","})

RelayLine_NoColon(target, words) ==
    <<":", "a", "sp", "a", "sp">> \o target \o <<"sp">> \o words

\* The line PRIVMSG relays to one target, seen by who receives it.
RelayLine(target, words) ==
    <<":", "a", "sp", "a", "sp">> \o target \o <<"sp", ":">> \o words
-----------------------------------------------------------------------------
(* What the programs accept as arguments, and what the bot sends of it.    *)

isValidPassword_OffByOne(password) ==
    /\ password # <<>> /\ Len(password) <= MaxPassword + 1
    /\ ~Holds(password, {"cr"})

\* The same test in both programs.
isValidPassword(password) ==
    /\ password # <<>> /\ Len(password) <= MaxPassword
    /\ ~Holds(password, {"cr"})

BotIsValidChannelName(name) ==
    /\ Len(name) >= 2 /\ Len(name) <= MaxName
    /\ name[1] = "#"
    /\ ~Holds(name, {"sp", ",", ":", "cr"})

\* Bot::sendLine throws on anything else.
sendLine(line) ==
    line # <<>> /\ Len(line) + 2 <= MaxLine /\ ~Holds(line, {"cr"})

PassLine(password) == <<"a", "sp", ":">> \o password

JoinLine(name) == <<"a", "sp">> \o name
-----------------------------------------------------------------------------
(* Correctness.                                                            *)

\* KICK never reads past the end of a list, whatever commas and blanks its
\* parameters are made of (Kick.cpp, channels[i]).
KickInBounds ==
    LET m == parse(<<"a", "sp">> \o text)
    IN  Len(m.params) >= 2 =>
          \A pair \in KickPairs(m.params) :
              pair[1] \in DOMAIN splitString(m.params[1])

\* Whatever text a PRIVMSG to a channel carries, who receives the relayed line
\* reads the same target and the same text out of it.
RelayedVerbatim ==
    LET m == parse(<<"a", "sp">> \o text)
    IN  Extracted(text) /\ Len(m.params) >= 2 =>
          \A i \in DOMAIN splitString(m.params[1]) :
              LET target == splitString(m.params[1])[i]
              IN  isValidChannelName(target) =>
                    parse(RelayLine(target, m.params[2])).params
                        = <<target, m.params[2]>>

\* Every password the two programs can be started with logs the bot in: its
\* PASS line is one the bot sends and the server extracts, and the server
\* reads exactly that password out of it, blanks and colons included.
PasswordReachesServer ==
    isValidPassword(text) =>
        /\ sendLine(PassLine(text)) /\ Extracted(PassLine(text))
        /\ parse(PassLine(text)) =
              [prefix |-> <<>>, command |-> <<"A">>, params |-> <<text>>]
-----------------------------------------------------------------------------
(* What the bot's messages promise and the code does not do.               *)

\* "bot channel must be a valid # or & channel name" (src/bot/main.cpp).  A
\* name with a tab passes the bot's test, and the server reads a shorter
\* channel name and a key out of the JOIN line.
BotChannelJoined ==
    BotIsValidChannelName(text) =>
        LET m == parse(JoinLine(text))
        IN  Len(m.params) = 1 /\ splitString(m.params[1]) = <<text>>
=============================================================================
