----------------------------- MODULE BotProofs ------------------------------
(***************************************************************************)
(* The bot gives up for a reason it was given and greets nobody more often *)
(* than it was told to, for any number of users, whatever they write, any  *)
(* capacity of the connection and any number of events.                    *)
(***************************************************************************)
EXTENDS Bot, FiniteSets, FiniteSetTheorems, SequenceTheorems, TLAPS
-----------------------------------------------------------------------------
(* Counting the lines of a kind in a queue.                                *)

Places(s, kind) == {i \in 1..Len(s) : s[i] \in kind}

Count(s, kind) == Cardinality(Places(s, kind))

LEMMA CountIsNat ==
    ASSUME NEW T, NEW s \in Seq(T), NEW kind
    PROVE  IsFiniteSet(Places(s, kind)) /\ Count(s, kind) \in Nat
<1>1. IsFiniteSet(1..Len(s))
  BY FS_Interval
<1>2. Places(s, kind) \subseteq 1..Len(s)
  BY DEF Places
<1>3. IsFiniteSet(Places(s, kind))
  BY <1>1, <1>2, FS_Subset
<1>4. QED
  BY <1>3, FS_CardinalityType DEF Count

LEMMA CountEmpty == ASSUME NEW kind PROVE Count(<<>>, kind) = 0
<1>1. Places(<<>>, kind) = {}
  BY DEF Places
<1>2. QED
  BY <1>1, FS_EmptySet DEF Count

LEMMA CountAppend ==
    ASSUME NEW T, NEW s \in Seq(T), NEW e \in T, NEW kind
    PROVE  Count(Append(s, e), kind) = Count(s, kind) + (IF e \in kind THEN 1 ELSE 0)
<1> DEFINE n == Len(s)
<1>1. n \in Nat /\ Len(Append(s, e)) = n + 1 /\ Append(s, e)[n + 1] = e
  OBVIOUS
<1>2. \A i \in 1..n : Append(s, e)[i] = s[i]
  OBVIOUS
<1>3. n + 1 \notin Places(s, kind)
  BY <1>1 DEF Places
<1>4. CASE e \in kind
  <2>1. Places(Append(s, e), kind) = Places(s, kind) \cup {n + 1}
    BY <1>1, <1>2, <1>4 DEF Places
  <2>2. IsFiniteSet(Places(s, kind))
    BY CountIsNat
  <2>3. Cardinality(Places(s, kind) \cup {n + 1}) = Cardinality(Places(s, kind)) + 1
    BY <1>3, <2>2, FS_AddElement
  <2>4. QED
    BY <1>4, <2>1, <2>3 DEF Count
<1>5. CASE e \notin kind
  <2>1. Places(Append(s, e), kind) = Places(s, kind)
    BY <1>1, <1>2, <1>5 DEF Places
  <2>2. Count(s, kind) \in Nat
    BY CountIsNat
  <2>3. QED
    BY <1>5, <2>1, <2>2 DEF Count
<1>6. QED
  BY <1>4, <1>5

LEMMA CountTail ==
    ASSUME NEW T, NEW s \in Seq(T), s # <<>>, NEW kind
    PROVE  Count(s, kind) = Count(Tail(s), kind) + (IF Head(s) \in kind THEN 1 ELSE 0)
<1> DEFINE n == Len(s)
           rest == {i \in 2..n : s[i] \in kind}
           f == [i \in Places(Tail(s), kind) |-> i + 1]
<1>1. n \in Nat /\ n # 0 /\ Tail(s) \in Seq(T) /\ Len(Tail(s)) = n - 1 /\ Head(s) = s[1]
  BY EmptySeq, HeadTailProperties
<1>2. \A i \in 1..(n - 1) : Tail(s)[i] = s[i + 1]
  BY HeadTailProperties
<1>3. Places(Tail(s), kind) = {i \in 1..(n - 1) : s[i + 1] \in kind}
  BY <1>1, <1>2 DEF Places
<1>4. f \in Bijection(Places(Tail(s), kind), rest)
  <2>1. f \in [Places(Tail(s), kind) -> rest]
    BY <1>1, <1>3
  <2>2. \A i, j \in Places(Tail(s), kind) : f[i] = f[j] => i = j
    BY <1>1, <1>3
  <2>3. \A k \in rest : \E i \in Places(Tail(s), kind) : f[i] = k
    <3>1. SUFFICES ASSUME NEW k \in rest PROVE k - 1 \in Places(Tail(s), kind) /\ f[k - 1] = k
      OBVIOUS
    <3>2. k - 1 \in 1..(n - 1) /\ (k - 1) + 1 = k
      BY <1>1
    <3>3. QED
      BY <1>3, <3>2
  <2>4. QED
    BY <2>1, <2>2, <2>3 DEF Bijection, Injection, Surjection, IsInjective
<1>5. IsFiniteSet(Places(Tail(s), kind)) /\ Count(Tail(s), kind) \in Nat
  BY <1>1, CountIsNat
<1>6. IsFiniteSet(rest) /\ Cardinality(rest) = Count(Tail(s), kind)
  BY <1>4, <1>5, FS_Bijection DEF Count, ExistsBijection
<1>7. CASE Head(s) \in kind
  <2>1. Places(s, kind) = rest \cup {1}
    BY <1>1, <1>7 DEF Places
  <2>2. 1 \notin rest
    OBVIOUS
  <2>3. Cardinality(rest \cup {1}) = Cardinality(rest) + 1
    BY <1>6, <2>2, FS_AddElement
  <2>4. QED
    BY <1>6, <1>7, <2>1, <2>3 DEF Count
<1>8. CASE Head(s) \notin kind
  <2>1. Places(s, kind) = rest
    BY <1>1, <1>8 DEF Places
  <2>2. QED
    BY <1>5, <1>6, <1>8, <2>1 DEF Count
<1>9. QED
  BY <1>7, <1>8
-----------------------------------------------------------------------------
(* The inductive invariant.                                                *)

LineType == [from : Users \cup {Server, BotNick}, marks : SUBSET {"001", "433", "464", "JOIN"}]

Handshake == {<<"PASS">>, <<"NICK">>, <<"USER">>, <<"JOIN">>}

Greetings == {<<"HELLO", u>> : u \in Users}

\* The lines that make the bot greet u, and the greeting.
JoinsOf(u) == {l \in LineType : l.from = u /\ "JOIN" \in l.marks}

HelloTo(u) == {<<"HELLO", u>>}

QueueTypes ==
    /\ toBot \in Seq(LineType)
    /\ todo \in Seq(Handshake \cup Greetings)
    /\ toServer \in Seq(Handshake \cup Greetings)
    /\ owed \in [Users \cup {BotNick} -> Int]
    /\ feigned \in [Users \cup {BotNick} -> Nat]

\* A reason the bot may give: the server's, or a text that was told to it.
Given(why) == why \in refusals \/ (nickSet /\ why \in mocked)

\* A line whose refusals are given.
TrueLine(l) ==
    /\ "433" \in l.marks => Given("nickname")
    /\ "464" \in l.marks => Given("password")

\* What is given stays so, and so do the refusals in the lines that are on
\* their way to the bot when they are read.
RefusalsOnTheWay == \A i \in 1..Len(toBot) : TrueLine(toBot[i])

\* Texts reach the bot in the channel or by its nickname: it has one either way.
MemberHasNick == BotNick \in members => nickSet

\* Each JOIN line and each greeting under way is paid for.
Pending(u) ==
    Count(toBot, JoinsOf(u)) + Count(todo, HelloTo(u)) + Count(toServer, HelloTo(u))

Credit(u) == owed[u] + feigned[u]

Covered ==
    /\ \A u \in Users : Credit(u) >= Pending(u)
    /\ owed[BotNick] = 0

RefusalInv == QueueTypes /\ MemberHasNick /\ RefusalsOnTheWay /\ FailsForTheReasonGiven

GreetingInv == QueueTypes /\ MemberHasNick /\ Covered
-----------------------------------------------------------------------------
(* What one step does to the queues.                                       *)

LEMMA Told ==
    ASSUME QueueTypes, NEW l \in LineType, Tell(l)
    PROVE  /\ toBot' \in Seq(LineType)
           /\ toBot' = toBot \/ (toBot' = Append(toBot, l) /\ toBot' # toBot)
<1>1. toBot \in Seq(LineType)
  BY DEF QueueTypes
<1>2. toBot' = toBot \/ toBot' = Append(toBot, l)
  BY DEF Tell
<1>3. /\ Append(toBot, l) \in Seq(LineType)
      /\ Len(Append(toBot, l)) = Len(toBot) + 1 /\ Len(toBot) \in Nat
  BY <1>1, AppendProperties
<1>4. Append(toBot, l) # toBot
  BY <1>3
<1>5. QED
  BY <1>1, <1>2, <1>3, <1>4

LEMMA NumericIsLine ==
    ASSUME NEW mark
    PROVE  /\ Numeric(mark) \in LineType
           /\ \A other \in {"001", "433", "464", "JOIN"} :
                 other \in Numeric(mark).marks => other = mark /\ other # "JOIN"
           /\ Numeric(mark).from = Server
BY DEF Numeric, Line, LineType

LEMMA LineIsLine ==
    ASSUME NEW from \in Users \cup {BotNick},
           NEW marks \in SUBSET {"001", "433", "464", "JOIN"}
    PROVE  Line(from, marks) \in LineType /\ Line(from, marks).from = from
                                          /\ Line(from, marks).marks = marks
BY DEF Line, LineType

\* The line of the greeting in toServer names a user.
LEMMA HelloNamesUser ==
    ASSUME NEW line \in Handshake \cup Greetings, line[1] = "HELLO"
    PROVE  line[2] \in Users /\ line \in HelloTo(line[2])
<1>1. line \notin Handshake
  BY DEF Handshake
<1>2. PICK u \in Users : line = <<"HELLO", u>>
  BY <1>1 DEF Greetings
<1>3. QED
  BY <1>2 DEF HelloTo

\* The bot's nickname and what was given to it are never taken back.
Lasting ==
    /\ refusals \subseteq refusals' /\ mocked \subseteq mocked'
    /\ nickSet => nickSet'
    /\ BotNick \in members' => BotNick \in members \/ nickSet'

\* A refusal is told only if it is given; no user is named as the sender.
ServerStep ==
    /\ \/ toBot' = toBot
       \/ \E l \in LineType : /\ toBot' = Append(toBot, l)
                              /\ TrueLine(l)'
                              /\ l.from \in {Server, BotNick}
    /\ feigned' = feigned
    /\ Lasting

LEMMA SilentStep ==
    ASSUME toBot' = toBot, Lasting, feigned' = feigned
    PROVE  ServerStep
BY DEF ServerStep

LEMMA NumericStep ==
    ASSUME QueueTypes, NEW mark, Tell(Numeric(mark)), Lasting, feigned' = feigned,
           mark = "433" => "nickname" \in refusals',
           mark = "464" => "password" \in refusals'
    PROVE  ServerStep
<1>1. toBot' = toBot \/ toBot' = Append(toBot, Numeric(mark))
  BY Told, NumericIsLine
<1>2. PICK l \in LineType : l = Numeric(mark)
  BY NumericIsLine
<1>3. /\ "433" \in l.marks => mark = "433"
      /\ "464" \in l.marks => mark = "464"
      /\ l.from = Server
  BY <1>2, NumericIsLine
<1>4. TrueLine(l)'
  BY <1>3 DEF TrueLine, Given
<1>5. QED
  BY <1>1, <1>2, <1>3, <1>4 DEF ServerStep

\* A text makes what it says given, if the bot has a nickname.
LEMMA TextIsGiven ==
    ASSUME NEW u, NEW marks, NEW all, Hears(u, marks), toBot' # toBot, nickSet',
           all \cap {"433", "464"} = marks \cap {"433", "464"},
           NEW l, l.marks = all
    PROVE  TrueLine(l)'
<1>1. /\ "433" \in all => "433" \in marks
      /\ "464" \in all => "464" \in marks
  OBVIOUS
<1>2. /\ "433" \in marks => "nickname" \in mocked'
      /\ "464" \in marks => "password" \in mocked'
  BY DEF Hears
<1>3. QED
  BY <1>1, <1>2 DEF TrueLine, Given

LEMMA TopicStep ==
    ASSUME QueueTypes, NEW topic \in Texts, nickSet', Lasting,
           Tell(Line(BotNick, {"JOIN"} \cup topic)), Hears(BotNick, topic \ {"JOIN"})
    PROVE  ServerStep
<1>1. PICK all \in SUBSET {"001", "433", "464", "JOIN"} : all = {"JOIN"} \cup topic
  BY BotAssumption DEF Texts
<1>2. PICK l \in LineType : l = Line(BotNick, all) /\ l.from = BotNick /\ l.marks = all
  BY LineIsLine
<1>3. toBot' = toBot \/ (toBot' = Append(toBot, l) /\ toBot' # toBot)
  BY <1>1, <1>2, Told
<1>4. feigned' = feigned
  BY DEF Hears
<1>5. CASE toBot' = toBot
  BY <1>4, <1>5, SilentStep
<1>6. CASE toBot' = Append(toBot, l) /\ toBot' # toBot
  <2>1. PICK marks : marks = topic \ {"JOIN"}
    OBVIOUS
  <2>2. all \cap {"433", "464"} = marks \cap {"433", "464"} /\ Hears(BotNick, marks)
    BY <1>1, <2>1
  <2>3. TrueLine(l)'
    BY <1>2, <1>6, <2>2, TextIsGiven
  <2>4. QED
    BY <1>2, <1>4, <1>6, <2>3 DEF ServerStep
<1>7. QED
  BY <1>3, <1>5, <1>6

LEMMA ServerSteps ==
    ASSUME QueueTypes,
           ServerPass \/ ServerNick \/ ServerUser \/ ServerJoin \/ ServerPrivmsg
    PROVE  ServerStep
<1>1. CASE ServerPass
  <2>1. Lasting /\ feigned' = feigned
    BY <1>1 DEF ServerPass, Lasting, heard
  <2>2. CASE rightPass
    BY <1>1, <2>1, <2>2, SilentStep DEF ServerPass
  <2>3. CASE ~rightPass
    BY <1>1, <2>1, <2>3, NumericStep DEF ServerPass
  <2>4. QED
    BY <2>2, <2>3
<1>2. CASE ServerNick
  <2>1. Lasting /\ feigned' = feigned
    BY <1>2 DEF ServerNick, Lasting, heard
  <2>2. CASE ~passOk /\ Tell(Numeric("451")) /\ UNCHANGED <<nickSet, refusals>>
    BY <2>1, <2>2, NumericStep
  <2>3. CASE passOk /\ nickHeld /\ Tell(Numeric("433"))
             /\ refusals' = refusals \cup {"nickname"}
    BY <2>1, <2>3, NumericStep
  <2>4. CASE passOk /\ ~nickHeld /\ Progress /\ UNCHANGED refusals
    BY <2>1, <2>4, SilentStep, NumericStep DEF Progress
  <2>5. QED
    BY <1>2, <2>2, <2>3, <2>4 DEF ServerNick
<1>3. CASE ServerUser
  <2>1. Lasting /\ feigned' = feigned
    BY <1>3 DEF ServerUser, Lasting, heard
  <2>2. QED
    BY <1>3, <2>1, SilentStep, NumericStep DEF ServerUser, Progress
<1>4. CASE ServerJoin
  <2>1. CASE ~Registered /\ Tell(Numeric("451")) /\ UNCHANGED <<members, heard>>
    <3>1. Lasting /\ feigned' = feigned
      BY <1>4, <2>1 DEF ServerJoin, Lasting, heard
    <3>2. QED
      BY <2>1, <3>1, NumericStep
  <2>2. CASE UNCHANGED <<members, toBot, dead, heard>>
    <3>1. Lasting /\ feigned' = feigned
      BY <1>4, <2>2 DEF ServerJoin, Lasting, heard
    <3>2. QED
      BY <2>2, <3>1, SilentStep
  <2>3. CASE Tell(Numeric("475")) /\ UNCHANGED <<members, heard>>
    <3>1. Lasting /\ feigned' = feigned
      BY <1>4, <2>3 DEF ServerJoin, Lasting, heard
    <3>2. QED
      BY <2>3, <3>1, NumericStep
  <2>4. ASSUME Registered, NEW topic \in Texts, Tell(Line(BotNick, {"JOIN"} \cup topic)),
               Hears(BotNick, topic \ {"JOIN"})
        PROVE  ServerStep
    <3>1. nickSet /\ nickSet' /\ refusals' = refusals
      BY <1>4, <2>4 DEF ServerJoin, Registered
    <3>2. mocked \subseteq mocked'
      BY <2>4 DEF Hears
    <3>3. Lasting
      BY <3>1, <3>2 DEF Lasting
    <3>4. QED
      BY <2>4, <3>1, <3>3, TopicStep
  <2>5. QED
    BY <1>4, <2>1, <2>2, <2>3, <2>4 DEF ServerJoin
<1>5. CASE ServerPrivmsg
  <2>1. Lasting /\ feigned' = feigned
    BY <1>5 DEF ServerPrivmsg, Lasting, heard
  <2>2. QED
    BY <1>5, <2>1, SilentStep, NumericStep DEF ServerPrivmsg
<1>6. QED
  BY <1>1, <1>2, <1>3, <1>4, <1>5

\* What a relayed line does to the queue.
LEMMA RelayStep ==
    ASSUME QueueTypes, NEW l \in LineType, UNCHANGED toBot \/ (nickSet /\ Tell(l))
    PROVE  /\ \/ toBot' = toBot
              \/ toBot' = Append(toBot, l) /\ toBot' # toBot /\ nickSet
           /\ toBot' \in Seq(LineType)
<1>1. CASE nickSet /\ Tell(l)
  BY <1>1, Told
<1>2. CASE UNCHANGED toBot
  BY <1>2 DEF QueueTypes
<1>3. QED
  BY <1>1, <1>2

\* What the bot does with a line.
LEMMA BotReadsStep ==
    ASSUME QueueTypes, BotReads
    PROVE  /\ toBot # <<>> /\ Head(toBot) \in LineType
           /\ toBot' = Tail(toBot) /\ toBot' \in Seq(LineType) /\ todo = <<>>
           /\ UNCHANGED <<toServer, owed, feigned>> /\ Lasting
           /\ \/ todo' = <<<<"JOIN">>>> /\ cause' = cause
              \/ todo' = todo /\ cause' = "nickname" /\ "433" \in Head(toBot).marks
              \/ todo' = todo /\ cause' = "password" /\ "464" \in Head(toBot).marks
              \/ /\ todo' = <<<<"HELLO", Head(toBot).from>>>> /\ cause' = cause
                 /\ Head(toBot) \in JoinsOf(Head(toBot).from) /\ Head(toBot).from \in Users
              \/ todo' = todo /\ cause' = cause
<1>1. /\ toBot # <<>> /\ toBot' = Tail(toBot) /\ todo = <<>>
      /\ UNCHANGED <<toServer, owed, feigned>> /\ Lasting /\ processLine(Head(toBot))
  BY DEF BotReads, serverVars, heard, Lasting
<1>2. Head(toBot) \in LineType /\ Tail(toBot) \in Seq(LineType)
  BY <1>1, HeadTailProperties DEF QueueTypes
<1>3. PICK l \in LineType : l = Head(toBot)
  BY <1>2
<1>4. \/ todo' = <<<<"JOIN">>>> /\ cause' = cause
      \/ todo' = todo /\ cause' = "nickname" /\ "433" \in l.marks
      \/ todo' = todo /\ cause' = "password" /\ "464" \in l.marks
      \/ /\ todo' = <<<<"HELLO", l.from>>>> /\ cause' = cause
         /\ "JOIN" \in l.marks /\ l.from \notin {Server, BotNick}
      \/ todo' = todo /\ cause' = cause
  BY <1>1, <1>3 DEF processLine, greetJoinedUser, Answer, Fail, botVars
<1>5. l.from \in Users \cup {Server, BotNick}
  BY DEF LineType
<1>6. QED
  BY <1>1, <1>2, <1>3, <1>4, <1>5 DEF JoinsOf

LEMMA BotSendsStep ==
    ASSUME QueueTypes, BotSends
    PROVE  /\ todo # <<>> /\ Head(todo) \in Handshake \cup Greetings
           /\ todo' = Tail(todo) /\ todo' \in Seq(Handshake \cup Greetings)
           /\ toServer' = toServer \/ toServer' = Append(toServer, Head(todo))
           /\ toServer' \in Seq(Handshake \cup Greetings)
           /\ UNCHANGED <<toBot, cause, owed, feigned>> /\ Lasting
<1>1. /\ todo # <<>> /\ todo' = Tail(todo)
      /\ toServer' = toServer \/ toServer' = Append(toServer, Head(todo))
      /\ UNCHANGED <<toBot, cause, owed, feigned>> /\ Lasting
  BY DEF BotSends, serverVars, heard, Lasting
<1>2. Head(todo) \in Handshake \cup Greetings /\ Tail(todo) \in Seq(Handshake \cup Greetings)
  BY <1>1, HeadTailProperties DEF QueueTypes
<1>3. /\ toServer \in Seq(Handshake \cup Greetings)
      /\ Append(toServer, Head(todo)) \in Seq(Handshake \cup Greetings)
  BY <1>2, AppendProperties DEF QueueTypes
<1>4. QED
  BY <1>1, <1>2, <1>3

\* The server takes a line; owed changes only for a greeting.
LEMMA ServerTakesStep ==
    ASSUME QueueTypes, ServerTakes
    PROVE  /\ toServer # <<>> /\ Head(toServer) \in Handshake \cup Greetings
           /\ toServer' = Tail(toServer) /\ toServer' \in Seq(Handshake \cup Greetings)
           /\ UNCHANGED <<todo, cause>> /\ ServerStep /\ toBot' \in Seq(LineType)
           /\ \/ owed' = owed
              \/ /\ Head(toServer)[1] = "HELLO"
                 /\ owed' = [owed EXCEPT ![Head(toServer)[2]] = @ - 1]
<1>1. /\ toServer # <<>> /\ toServer' = Tail(toServer) /\ UNCHANGED <<todo, cause>>
      /\ ServerPass \/ ServerNick \/ ServerUser \/ ServerJoin \/ ServerPrivmsg
  BY DEF ServerTakes, botVars
<1>2. /\ Head(toServer) \in Handshake \cup Greetings
      /\ Tail(toServer) \in Seq(Handshake \cup Greetings)
  BY <1>1, HeadTailProperties DEF QueueTypes
<1>3. ServerStep
  BY <1>1, ServerSteps
<1>4. toBot' \in Seq(LineType)
  <2>1. toBot \in Seq(LineType)
    BY DEF QueueTypes
  <2>2. toBot' = toBot \/ \E l \in LineType : toBot' = Append(toBot, l)
    BY <1>3 DEF ServerStep
  <2>3. QED
    BY <2>1, <2>2, AppendProperties
<1>5. \/ owed' = owed
      \/ /\ Head(toServer)[1] = "HELLO"
         /\ owed' = [owed EXCEPT ![Head(toServer)[2]] = @ - 1]
  BY <1>1 DEF ServerPass, ServerNick, ServerUser, ServerJoin, ServerPrivmsg
<1>6. QED
  BY <1>1, <1>2, <1>3, <1>4, <1>5

\* A user joins: at most one line, and a greeting owed for it.
JoinStep(u) ==
    /\ \/ toBot' = toBot /\ owed' = owed
       \/ toBot' = Append(toBot, Line(u, {"JOIN"})) /\ owed' = [owed EXCEPT ![u] = @ + 1]
    /\ toBot' \in Seq(LineType)
    /\ UNCHANGED <<cause, todo, toServer, feigned>> /\ Lasting

\* A user writes something: at most one line, and what it feigns is known.
TextStep(u, marks) ==
    /\ \/ toBot' = toBot /\ feigned' = feigned
       \/ /\ toBot' = Append(toBot, Line(u, marks)) /\ TrueLine(Line(u, marks))'
          /\ feigned' = IF "JOIN" \in marks THEN [feigned EXCEPT ![u] = @ + 1] ELSE feigned
    /\ toBot' \in Seq(LineType)
    /\ UNCHANGED <<cause, todo, toServer, owed>> /\ Lasting

LEMMA Said ==
    ASSUME QueueTypes, NEW u \in Users, NEW marks \in Texts,
           UNCHANGED <<cause, todo, toServer, owed, refusals, nickSet>>,
           members' \subseteq members, Hears(u, marks),
           UNCHANGED toBot \/ (nickSet /\ Tell(Line(u, marks)))
    PROVE  TextStep(u, marks)
<1>1. marks \in SUBSET {"001", "433", "464", "JOIN"}
  BY BotAssumption DEF Texts
<1>2. PICK l \in LineType : l = Line(u, marks) /\ l.marks = marks
  BY <1>1, LineIsLine
<1>3. /\ \/ toBot' = toBot
         \/ toBot' = Append(toBot, l) /\ toBot' # toBot /\ nickSet
      /\ toBot' \in Seq(LineType)
  BY <1>2, RelayStep
<1>4. Lasting
  <2>1. mocked \subseteq mocked'
    BY DEF Hears
  <2>2. QED
    BY <2>1 DEF Lasting
<1>5. CASE toBot' = toBot
  BY <1>3, <1>4, <1>5 DEF TextStep, Hears
<1>6. CASE toBot' = Append(toBot, l) /\ toBot' # toBot /\ nickSet
  <2>1. TrueLine(l)'
    <3>1. nickSet' /\ marks \cap {"433", "464"} = marks \cap {"433", "464"}
      BY <1>6
    <3>2. QED
      BY <1>2, <1>6, <3>1, TextIsGiven
  <2>2. feigned' = IF "JOIN" \in marks THEN [feigned EXCEPT ![u] = @ + 1] ELSE feigned
    BY <1>6 DEF Hears
  <2>3. QED
    BY <1>2, <1>3, <1>4, <1>6, <2>1, <2>2 DEF TextStep
<1>7. QED
  BY <1>3, <1>5, <1>6

LEMMA UserSteps ==
    ASSUME QueueTypes, MemberHasNick, NEW u \in Users,
           \/ UserJoins(u)
           \/ \E text \in Texts : \/ UserLeaves(u, text) \/ UserChats(u, text)
                                 \/ UserWrites(u, text) \/ UserKicksBot(u, text)
    PROVE  JoinStep(u) \/ \E marks \in Texts : TextStep(u, marks)
<1>1. CASE UserJoins(u)
  <2>1. PICK l \in LineType : l = Line(u, {"JOIN"})
    BY LineIsLine
  <2>2. /\ UNCHANGED <<cause, todo, toServer, refusals, nickSet, feigned, mocked>>
        /\ BotNick \in members' => BotNick \in members
    BY <1>1, BotAssumption DEF UserJoins, Relay, botVars, heard
  <2>3. UNCHANGED toBot \/ (nickSet /\ Tell(l))
    BY <1>1, <2>1 DEF UserJoins, Relay, MemberHasNick
  <2>4. /\ \/ toBot' = toBot
           \/ toBot' = Append(toBot, l) /\ toBot' # toBot /\ nickSet
        /\ toBot' \in Seq(LineType)
    BY <2>3, RelayStep
  <2>5. owed' = IF toBot' # toBot THEN [owed EXCEPT ![u] = @ + 1] ELSE owed
    BY <1>1 DEF UserJoins
  <2>6. Lasting
    BY <2>2 DEF Lasting
  <2>7. QED
    BY <2>1, <2>2, <2>4, <2>5, <2>6 DEF JoinStep
<1>2. ASSUME NEW text \in Texts,
             \/ UserLeaves(u, text) \/ UserChats(u, text)
             \/ UserWrites(u, text) \/ UserKicksBot(u, text)
      PROVE  TextStep(u, text)
  <2>1. UNCHANGED toBot \/ (nickSet /\ Tell(Line(u, text)))
    BY <1>2 DEF UserLeaves, UserChats, UserWrites, UserKicksBot, Says, Relay, MemberHasNick
  <2>2. /\ UNCHANGED <<cause, todo, toServer, owed, refusals, nickSet>>
        /\ Hears(u, text) /\ members' \subseteq members
    BY <1>2 DEF UserLeaves, UserChats, UserWrites, UserKicksBot, Says, Relay, botVars
  <2>3. QED
    BY <2>1, <2>2, Said
<1>3. QED
  BY <1>1, <1>2

\* The other steps: an end of the connection, a nickname changing hands.
QuietStep ==
    /\ toBot' \in {toBot, <<>>} /\ toServer' \in {toServer, <<>>}
    /\ cause' \in {cause, "connection"}
    /\ UNCHANGED <<todo, owed, feigned>> /\ Lasting

LEMMA StepKinds ==
    ASSUME QueueTypes, MemberHasNick, [Next]_vars
    PROVE  \/ BotSends \/ BotReads \/ ServerTakes \/ QuietStep
           \/ \E u \in Users : JoinStep(u) \/ \E marks \in Texts : TextStep(u, marks)
<1>1. CASE UNCHANGED vars
  BY <1>1 DEF QuietStep, Lasting, vars, botVars, serverVars, heard
<1>2. CASE BotIoFails
  BY <1>2 DEF QuietStep, Lasting, BotIoFails, Fail, serverVars, heard
<1>3. CASE BotEof
  BY <1>3 DEF QuietStep, Lasting, BotEof, serverVars, heard
<1>4. CASE ServerCloses
  BY <1>4 DEF QuietStep, Lasting, ServerCloses, botVars, heard
<1>5. CASE NicknameTaken
  BY <1>5 DEF QuietStep, Lasting, NicknameTaken, botVars, heard
<1>6. QED
  BY <1>1, <1>2, <1>3, <1>4, <1>5, UserSteps DEF Next

LEMMA QueueTypesKept ==
    ASSUME QueueTypes, MemberHasNick, [Next]_vars
    PROVE  QueueTypes' /\ MemberHasNick' /\ Lasting
<1>0. Lasting /\ MemberHasNick'
  <2>1. Lasting
    BY StepKinds, BotSendsStep, BotReadsStep, ServerTakesStep
       DEF QuietStep, JoinStep, TextStep, ServerStep
  <2>2. QED
    BY <2>1 DEF MemberHasNick, Lasting
<1>s. SUFFICES QueueTypes'
  BY <1>0
<1>1. CASE BotSends
  BY <1>1, BotSendsStep DEF QueueTypes
<1>2. CASE BotReads
  <2>1. /\ toBot' \in Seq(LineType) /\ UNCHANGED <<toServer, owed, feigned>>
        /\ \/ todo' = <<<<"JOIN">>>> \/ todo' = todo
           \/ todo' = <<<<"HELLO", Head(toBot).from>>>> /\ Head(toBot).from \in Users
    BY <1>2, BotReadsStep
  <2>2. todo' \in Seq(Handshake \cup Greetings)
    <3>1. CASE todo' = todo
      BY <3>1 DEF QueueTypes
    <3>2. ASSUME NEW line \in Handshake \cup Greetings, todo' = <<line>>
          PROVE  todo' \in Seq(Handshake \cup Greetings)
      BY <3>2
    <3>3. <<"JOIN">> \in Handshake
      BY DEF Handshake
    <3>4. \A u \in Users : <<"HELLO", u>> \in Greetings
      BY DEF Greetings
    <3>5. QED
      BY <2>1, <3>1, <3>2, <3>3, <3>4
  <2>3. QED
    BY <2>1, <2>2 DEF QueueTypes
<1>3. CASE ServerTakes
  <2>1. /\ toServer' \in Seq(Handshake \cup Greetings) /\ UNCHANGED todo
        /\ toBot' \in Seq(LineType) /\ feigned' = feigned
        /\ \/ owed' = owed
           \/ owed' = [owed EXCEPT ![Head(toServer)[2]] = @ - 1]
    BY <1>3, ServerTakesStep DEF ServerStep
  <2>2. owed' \in [Users \cup {BotNick} -> Int]
    BY <2>1 DEF QueueTypes
  <2>3. QED
    BY <2>1, <2>2 DEF QueueTypes
<1>4. CASE QuietStep
  <2>1. <<>> \in Seq(LineType) /\ <<>> \in Seq(Handshake \cup Greetings)
    BY EmptySeq
  <2>2. /\ toBot \in Seq(LineType) /\ toBot' \in {toBot, <<>>}
        /\ toServer \in Seq(Handshake \cup Greetings) /\ toServer' \in {toServer, <<>>}
    BY <1>4 DEF QuietStep, QueueTypes
  <2>3. toBot' \in Seq(LineType) /\ toServer' \in Seq(Handshake \cup Greetings)
    BY <2>1, <2>2
  <2>4. QED
    BY <1>4, <2>3 DEF QuietStep, QueueTypes
<1>5. ASSUME NEW u \in Users, JoinStep(u) PROVE QueueTypes'
  <2>1. owed' = owed \/ owed' = [owed EXCEPT ![u] = @ + 1]
    BY <1>5 DEF JoinStep
  <2>2. owed' \in [Users \cup {BotNick} -> Int]
    BY <2>1 DEF QueueTypes
  <2>3. QED
    BY <1>5, <2>2 DEF QueueTypes, JoinStep
<1>6. ASSUME NEW u \in Users, NEW marks, TextStep(u, marks) PROVE QueueTypes'
  <2>1. feigned' = feigned \/ feigned' = [feigned EXCEPT ![u] = @ + 1]
    BY <1>6 DEF TextStep
  <2>2. feigned' \in [Users \cup {BotNick} -> Nat]
    <3>1. feigned \in [Users \cup {BotNick} -> Nat] /\ feigned[u] + 1 \in Nat
      BY DEF QueueTypes
    <3>2. QED
      BY <2>1, <3>1
  <2>3. QED
    BY <1>6, <2>2 DEF QueueTypes, TextStep
<1>7. QED
  BY <1>0, <1>1, <1>2, <1>3, <1>4, <1>5, <1>6, StepKinds
-----------------------------------------------------------------------------
(* The bot gives up for a reason it was given.                             *)

LEMMA GivenStays == ASSUME Lasting, NEW why, Given(why) PROVE Given(why)'
BY DEF Lasting, Given

LEMMA TrueStays == ASSUME Lasting, NEW l, TrueLine(l) PROVE TrueLine(l)'
BY GivenStays DEF TrueLine

LEMMA QueueTrueLine ==
    ASSUME QueueTypes, RefusalsOnTheWay, Lasting,
           NEW l \in LineType, TrueLine(l)', toBot' = Append(toBot, l)
    PROVE  RefusalsOnTheWay'
<1>1. toBot \in Seq(LineType)
  BY DEF QueueTypes
<1>2. Len(toBot') = Len(toBot) + 1 /\ Len(toBot) \in Nat
  BY <1>1, AppendProperties
<1>3. SUFFICES ASSUME NEW i \in 1..Len(toBot') PROVE TrueLine(toBot[i])'
  BY DEF RefusalsOnTheWay
<1>4. CASE i = Len(toBot) + 1
  <2>1. toBot'[i] = l
    BY <1>1, <1>4, AppendProperties
  <2>2. QED
    BY <2>1 DEF TrueLine, Given
<1>5. CASE i # Len(toBot) + 1
  <2>1. i \in 1..Len(toBot) /\ toBot'[i] = toBot[i]
    BY <1>1, <1>2, <1>5
  <2>2. PICK m : m = toBot[i]
    OBVIOUS
  <2>3. TrueLine(m)'
    BY <2>1, <2>2, TrueStays DEF RefusalsOnTheWay
  <2>4. QED
    BY <2>1, <2>2, <2>3 DEF TrueLine, Given
<1>6. QED
  BY <1>4, <1>5

\* A queue that loses lines at its front, or all of them.
LEMMA QueueShorter ==
    ASSUME QueueTypes, RefusalsOnTheWay, Lasting,
           toBot' \in {toBot, <<>>} \/ (toBot # <<>> /\ toBot' = Tail(toBot))
    PROVE  RefusalsOnTheWay'
<1>1. toBot \in Seq(LineType) /\ Len(toBot) \in Nat
  BY DEF QueueTypes
<1>2. SUFFICES ASSUME NEW i \in 1..Len(toBot') PROVE TrueLine(toBot[i])'
  BY DEF RefusalsOnTheWay
<1>3. \E j \in 1..Len(toBot) : toBot'[i] = toBot[j]
  <2>1. CASE toBot' \in {toBot, <<>>}
    BY <2>1
  <2>2. CASE toBot # <<>> /\ toBot' = Tail(toBot)
    <3>1. Len(toBot) \in Nat \ {0}
      BY <1>1, <2>2, EmptySeq
    <3>2. /\ Len(Tail(toBot)) = Len(toBot) - 1
          /\ \A j \in 1..Len(Tail(toBot)) : Tail(toBot)[j] = toBot[j + 1]
      BY <1>1, <2>2, HeadTailProperties
    <3>3. i \in 1..Len(Tail(toBot))
      BY <2>2
    <3>4. i \in 1..(Len(toBot) - 1)
      BY <3>2, <3>3
    <3>5. i + 1 \in 1..Len(toBot)
      BY <3>1, <3>4
    <3>6. toBot'[i] = toBot[i + 1]
      BY <2>2, <3>2, <3>3, Zenon
    <3>7. QED
      BY <3>5, <3>6
  <2>3. QED
    BY <2>1, <2>2
<1>4. PICK j \in 1..Len(toBot) : toBot'[i] = toBot[j]
  BY <1>3
<1>5. PICK m : m = toBot[j]
  OBVIOUS
<1>6. TrueLine(m)'
  BY <1>5, TrueStays DEF RefusalsOnTheWay
<1>7. QED
  BY <1>4, <1>5, <1>6 DEF TrueLine, Given

LEMMA ReasonKept ==
    ASSUME FailsForTheReasonGiven, Lasting, cause' \in {cause, "connection"}
    PROVE  FailsForTheReasonGiven'
BY DEF FailsForTheReasonGiven, Lasting

LEMMA RefusalStep ==
    ASSUME RefusalInv, [Next]_vars
    PROVE  RefusalInv'
<1> USE DEF RefusalInv
<1>1. QueueTypes' /\ MemberHasNick' /\ Lasting
  BY QueueTypesKept
<1>2. CASE BotSends \/ QuietStep
  <2>1. toBot' \in {toBot, <<>>} /\ cause' \in {cause, "connection"}
    BY <1>2, BotSendsStep DEF QuietStep
  <2>2. QED
    BY <1>1, <2>1, QueueShorter, ReasonKept
<1>3. CASE BotReads
  <2>1. /\ toBot # <<>> /\ toBot' = Tail(toBot)
        /\ \/ cause' = cause
           \/ cause' = "nickname" /\ "433" \in Head(toBot).marks
           \/ cause' = "password" /\ "464" \in Head(toBot).marks
    BY <1>3, BotReadsStep
  <2>2. TrueLine(Head(toBot))
    <3>1. toBot \in Seq(LineType)
      BY DEF QueueTypes
    <3>2. Head(toBot) = toBot[1] /\ Len(toBot) \in Nat \ {0}
      BY <2>1, <3>1, HeadTailProperties, EmptySeq
    <3>3. QED
      BY <3>2 DEF RefusalsOnTheWay
  <2>3. CASE cause' = cause
    BY <1>1, <2>1, <2>3, QueueShorter, ReasonKept
  <2>4. CASE \/ cause' = "nickname" /\ "433" \in Head(toBot).marks
             \/ cause' = "password" /\ "464" \in Head(toBot).marks
    <3>1. \/ cause' = "nickname" /\ Given("nickname")
          \/ cause' = "password" /\ Given("password")
      BY <2>2, <2>4 DEF TrueLine
    <3>2. FailsForTheReasonGiven'
      BY <1>1, <3>1 DEF FailsForTheReasonGiven, Given, Lasting
    <3>3. QED
      BY <1>1, <2>1, <3>2, QueueShorter
  <2>5. QED
    BY <2>1, <2>3, <2>4
<1>4. CASE ServerTakes
  <2>1. cause' = cause /\ ServerStep
    BY <1>4, ServerTakesStep
  <2>2. FailsForTheReasonGiven'
    BY <1>1, <2>1, ReasonKept
  <2>3. RefusalsOnTheWay'
    BY <1>1, <2>1, QueueTrueLine, QueueShorter DEF ServerStep
  <2>4. QED
    BY <1>1, <2>2, <2>3
<1>5. ASSUME NEW u \in Users, JoinStep(u) PROVE RefusalInv'
  <2>1. cause' = cause
    BY <1>5 DEF JoinStep
  <2>2. PICK l \in LineType : l = Line(u, {"JOIN"}) /\ l.marks = {"JOIN"}
    BY LineIsLine
  <2>3. TrueLine(l)'
    BY <2>2 DEF TrueLine
  <2>4. toBot' = toBot \/ toBot' = Append(toBot, l)
    BY <1>5, <2>2 DEF JoinStep
  <2>5. QED
    BY <1>1, <2>1, <2>3, <2>4, QueueTrueLine, QueueShorter, ReasonKept
<1>6. ASSUME NEW u \in Users, NEW marks \in Texts, TextStep(u, marks) PROVE RefusalInv'
  <2>1. cause' = cause
    BY <1>6 DEF TextStep
  <2>2. marks \in SUBSET {"001", "433", "464", "JOIN"}
    BY BotAssumption DEF Texts
  <2>3. PICK l \in LineType : l = Line(u, marks)
    BY <2>2, LineIsLine
  <2>4. toBot' = toBot \/ (toBot' = Append(toBot, l) /\ TrueLine(l)')
    BY <1>6, <2>3 DEF TextStep
  <2>5. QED
    BY <1>1, <2>1, <2>4, QueueTrueLine, QueueShorter, ReasonKept
<1>7. QED
  BY <1>2, <1>3, <1>4, <1>5, <1>6, StepKinds

LEMMA BotStart ==
    ASSUME Init PROVE RefusalInv /\ GreetingInv
<1>1. QueueTypes
  <2>1. <<"PASS">> \in Handshake /\ <<"NICK">> \in Handshake /\ <<"USER">> \in Handshake
    BY DEF Handshake
  <2>2. todo \in Seq(Handshake \cup Greetings)
    BY <2>1 DEF Init
  <2>3. /\ owed \in [Users \cup {BotNick} -> Int]
        /\ feigned \in [Users \cup {BotNick} -> Nat]
    BY DEF Init
  <2>4. QED
    BY <2>2, <2>3 DEF Init, QueueTypes
<1>2. MemberHasNick /\ RefusalsOnTheWay /\ FailsForTheReasonGiven
  BY BotAssumption DEF Init, MemberHasNick, RefusalsOnTheWay, FailsForTheReasonGiven
<1>3. Covered
  <2>1. ASSUME NEW u \in Users
        PROVE  Count(todo, HelloTo(u)) = 0
    <3>1. Places(todo, HelloTo(u)) = {}
      <4>1. todo = <<<<"PASS">>, <<"NICK">>, <<"USER">>>>
        BY DEF Init
      <4>2. \A i \in 1..3 : i = 1 \/ i = 2 \/ i = 3
        OBVIOUS
      <4>3. \A i \in 1..3 : todo[i][1] # "HELLO"
        BY <4>1, <4>2
      <4>4. \A l \in HelloTo(u) : l[1] = "HELLO"
        BY DEF HelloTo
      <4>5. Len(todo) = 3
        BY <4>1
      <4>6. QED
        BY <4>3, <4>4, <4>5 DEF Places
    <3>2. QED
      BY <3>1, FS_EmptySet DEF Count
  <2>2. ASSUME NEW u \in Users PROVE Credit(u) = 0 /\ Pending(u) = 0
    <3>1. Count(toBot, JoinsOf(u)) = 0 /\ Count(toServer, HelloTo(u)) = 0
      BY CountEmpty DEF Init
    <3>2. owed[u] = 0 /\ feigned[u] = 0
      BY DEF Init
    <3>3. QED
      BY <2>1, <3>1, <3>2 DEF Pending, Credit
  <2>3. owed[BotNick] = 0
    BY DEF Init
  <2>4. QED
    BY <2>2, <2>3 DEF Covered
<1>4. QED
  BY <1>1, <1>2, <1>3 DEF RefusalInv, GreetingInv

\* The bot gives up on its nickname or its password only if the server refused it,
\* or a user wrote so once the bot had its nickname: whatever is written, texts
\* overtake no refusal and none reaches a bot that is not logged in.
THEOREM FailsForTheReason == Spec => []FailsForTheReasonGiven
<1>1. Init => RefusalInv
  BY BotStart
<1>2. RefusalInv /\ [Next]_vars => RefusalInv'
  BY RefusalStep
<1>3. RefusalInv => FailsForTheReasonGiven
  BY DEF RefusalInv
<1>4. QED
  BY <1>1, <1>2, <1>3, PTL DEF Spec
-----------------------------------------------------------------------------
(* The bot greets only who joined.                                         *)

\* What is under way for u before and after a step, as numbers.
LEMMA PendingParts ==
    ASSUME QueueTypes, MemberHasNick, [Next]_vars, NEW u \in Users
    PROVE  /\ Count(toBot, JoinsOf(u)) \in Nat /\ Count(toBot', JoinsOf(u)) \in Nat
           /\ Count(todo, HelloTo(u)) \in Nat /\ Count(todo', HelloTo(u)) \in Nat
           /\ Count(toServer, HelloTo(u)) \in Nat /\ Count(toServer', HelloTo(u)) \in Nat
           /\ owed[u] \in Int /\ owed'[u] \in Int
           /\ feigned[u] \in Nat /\ feigned'[u] \in Nat
           /\ Pending(u)' = Count(toBot', JoinsOf(u)) + Count(todo', HelloTo(u))
                              + Count(toServer', HelloTo(u))
<1>1. QueueTypes'
  BY QueueTypesKept
<1>2. /\ toBot \in Seq(LineType) /\ toBot' \in Seq(LineType)
      /\ todo \in Seq(Handshake \cup Greetings) /\ todo' \in Seq(Handshake \cup Greetings)
      /\ toServer \in Seq(Handshake \cup Greetings)
      /\ toServer' \in Seq(Handshake \cup Greetings)
      /\ owed \in [Users \cup {BotNick} -> Int] /\ owed' \in [Users \cup {BotNick} -> Int]
      /\ feigned \in [Users \cup {BotNick} -> Nat]
      /\ feigned' \in [Users \cup {BotNick} -> Nat]
  BY <1>1 DEF QueueTypes
<1>3. QED
  BY <1>2, CountIsNat DEF Pending

LEMMA CountSingle ==
    ASSUME NEW line, NEW kind
    PROVE  Count(<<line>>, kind) = IF line \in kind THEN 1 ELSE 0
<1>1. <<>> \in Seq({line}) /\ line \in {line}
  BY EmptySeq
<1>2. PICK e \in Seq({line}) : e = <<>>
  BY <1>1
<1>3. PICK f : f = Append(e, line)
  OBVIOUS
<1>4. f = <<line>>
  BY <1>2, <1>3
<1>5. Count(f, kind) = Count(e, kind) + (IF line \in kind THEN 1 ELSE 0)
  BY <1>1, <1>3, CountAppend, Zenon
<1>6. Count(e, kind) = 0
  BY <1>2, CountEmpty
<1>7. Count(f, kind) = IF line \in kind THEN 1 ELSE 0
  BY <1>5, <1>6
<1>8. QED
  BY <1>4, <1>7, Zenon

\* A step that pays for what it adds.
PaidFor(u) == Credit(u)' - Credit(u) >= Pending(u)' - Pending(u)

LEMMA PaidForQuiet ==
    ASSUME QueueTypes, MemberHasNick, [Next]_vars, QuietStep, NEW u \in Users
    PROVE  PaidFor(u)
<1>1. Count(toBot', JoinsOf(u)) <= Count(toBot, JoinsOf(u))
  BY PendingParts, CountEmpty DEF QuietStep
<1>2. Count(toServer', HelloTo(u)) <= Count(toServer, HelloTo(u))
  BY PendingParts, CountEmpty DEF QuietStep
<1>3. todo' = todo /\ owed' = owed /\ feigned' = feigned
  BY DEF QuietStep
<1>4. QED
  BY <1>1, <1>2, <1>3, PendingParts DEF PaidFor, Pending, Credit

LEMMA PaidForSends ==
    ASSUME QueueTypes, MemberHasNick, [Next]_vars, BotSends, NEW u \in Users
    PROVE  PaidFor(u)
<1> DEFINE d == IF Head(todo) \in HelloTo(u) THEN 1 ELSE 0
<1>1. Count(todo, HelloTo(u)) = Count(todo', HelloTo(u)) + d
  BY BotSendsStep, CountTail DEF QueueTypes
<1>4. d \in Nat
  OBVIOUS
<1>2. Count(toServer', HelloTo(u)) <= Count(toServer, HelloTo(u)) + d
  <2>1. /\ toServer \in Seq(Handshake \cup Greetings) /\ Head(todo) \in Handshake \cup Greetings
        /\ toServer' = toServer \/ toServer' = Append(toServer, Head(todo))
    BY BotSendsStep DEF QueueTypes
  <2>2. CASE toServer' = Append(toServer, Head(todo))
    <3>1. Count(toServer', HelloTo(u)) = Count(toServer, HelloTo(u)) + d
      BY <2>1, <2>2, CountAppend, Zenon
    <3>2. QED
      BY <1>4, <3>1, PendingParts
  <2>3. CASE toServer' = toServer
    BY <1>4, <2>3, PendingParts
  <2>4. QED
    BY <2>1, <2>2, <2>3
<1>3. toBot' = toBot /\ owed' = owed /\ feigned' = feigned
  BY BotSendsStep
<1> HIDE DEF d
<1>5. QED
  BY <1>1, <1>2, <1>3, <1>4, PendingParts DEF PaidFor, Pending, Credit

LEMMA PaidForReads ==
    ASSUME QueueTypes, MemberHasNick, [Next]_vars, BotReads, NEW u \in Users
    PROVE  PaidFor(u)
<1> DEFINE d == IF Head(toBot) \in JoinsOf(u) THEN 1 ELSE 0
<1>1. Count(toBot, JoinsOf(u)) = Count(toBot', JoinsOf(u)) + d
  BY BotReadsStep, CountTail DEF QueueTypes
<1>2. Count(todo', HelloTo(u)) <= d
  <2>1. CASE todo' = todo
    BY <2>1, BotReadsStep, CountEmpty
  <2>2. CASE todo' = <<<<"JOIN">>>>
    <3>1. <<"JOIN">> \notin HelloTo(u)
      BY DEF HelloTo
    <3>2. QED
      BY <2>2, <3>1, CountSingle
  <2>3. ASSUME NEW w \in Users, todo' = <<<<"HELLO", w>>>>, Head(toBot) \in JoinsOf(w)
        PROVE  Count(todo', HelloTo(u)) <= d
    <3>1. Count(todo', HelloTo(u)) = IF <<"HELLO", w>> \in HelloTo(u) THEN 1 ELSE 0
      BY <2>3, CountSingle
    <3>2. <<"HELLO", w>> \in HelloTo(u) => w = u
      BY DEF HelloTo
    <3>3. QED
      BY <2>3, <3>1, <3>2
  <2>4. QED
    BY <2>1, <2>2, <2>3, BotReadsStep
<1>3. /\ toServer' = toServer /\ owed' = owed /\ feigned' = feigned
      /\ Count(todo, HelloTo(u)) = 0
  BY BotReadsStep, CountEmpty
<1>4. d \in Int
  OBVIOUS
<1> HIDE DEF d
<1>5. QED
  BY <1>1, <1>2, <1>3, <1>4, PendingParts DEF PaidFor, Pending, Credit

LEMMA PaidForTakes ==
    ASSUME QueueTypes, MemberHasNick, [Next]_vars, ServerTakes, NEW u \in Users
    PROVE  PaidFor(u)
<1> DEFINE d == IF Head(toServer) \in HelloTo(u) THEN 1 ELSE 0
<1>1. Count(toServer, HelloTo(u)) = Count(toServer', HelloTo(u)) + d
  BY ServerTakesStep, CountTail DEF QueueTypes
<1>2. Count(toBot', JoinsOf(u)) = Count(toBot, JoinsOf(u))
  <2>1. CASE toBot' = toBot
    BY <2>1
  <2>2. ASSUME NEW l \in LineType, toBot' = Append(toBot, l), l.from \in {Server, BotNick}
        PROVE  Count(toBot', JoinsOf(u)) = Count(toBot, JoinsOf(u))
    <3>1. l \notin JoinsOf(u)
      BY <2>2, BotAssumption DEF JoinsOf
    <3>2. Count(Append(toBot, l), JoinsOf(u)) =
              Count(toBot, JoinsOf(u)) + (IF l \in JoinsOf(u) THEN 1 ELSE 0)
      BY CountAppend DEF QueueTypes
    <3>3. QED
      BY <2>2, <3>1, <3>2, PendingParts
  <2>3. QED
    BY <2>1, <2>2, ServerTakesStep DEF ServerStep
<1>3. owed'[u] >= owed[u] - d
  <2>1. CASE owed' = owed
    BY <2>1, PendingParts
  <2>2. CASE /\ Head(toServer)[1] = "HELLO"
             /\ owed' = [owed EXCEPT ![Head(toServer)[2]] = @ - 1]
    <3>1. Head(toServer)[2] \in Users /\ Head(toServer) \in HelloTo(Head(toServer)[2])
      BY <2>2, HelloNamesUser, ServerTakesStep
    <3>2. owed \in [Users \cup {BotNick} -> Int]
      BY DEF QueueTypes
    <3>3. CASE Head(toServer)[2] = u
      BY <2>2, <3>1, <3>2, <3>3
    <3>4. CASE Head(toServer)[2] # u
      <4>1. owed'[u] = owed[u]
        BY <2>2, <3>2, <3>4
      <4>2. QED
        BY <4>1, PendingParts
    <3>5. QED
      BY <3>3, <3>4
  <2>3. QED
    BY <2>1, <2>2, ServerTakesStep
<1>4. todo' = todo /\ feigned' = feigned
  BY ServerTakesStep DEF ServerStep
<1>5. d \in Int
  OBVIOUS
<1> HIDE DEF d
<1>6. QED
  BY <1>1, <1>2, <1>3, <1>4, <1>5, PendingParts DEF PaidFor, Pending, Credit

\* One more line from w.
LEMMA CountLine ==
    ASSUME QueueTypes, MemberHasNick, [Next]_vars, NEW w \in Users, NEW u \in Users,
           NEW marks \in SUBSET {"001", "433", "464", "JOIN"},
           toBot' = Append(toBot, Line(w, marks))
    PROVE  Count(toBot', JoinsOf(u)) =
               Count(toBot, JoinsOf(u)) + (IF w = u /\ "JOIN" \in marks THEN 1 ELSE 0)
<1>1. PICK l \in LineType : l = Line(w, marks) /\ l.from = w /\ l.marks = marks
  BY LineIsLine
<1>2. l \in JoinsOf(u) <=> w = u /\ "JOIN" \in marks
  BY <1>1 DEF JoinsOf
<1>3. toBot \in Seq(LineType) /\ toBot' = Append(toBot, l)
  BY <1>1 DEF QueueTypes
<1>4. Count(toBot', JoinsOf(u)) =
          Count(toBot, JoinsOf(u)) + (IF l \in JoinsOf(u) THEN 1 ELSE 0)
  <2>1. Count(Append(toBot, l), JoinsOf(u)) =
            Count(toBot, JoinsOf(u)) + (IF l \in JoinsOf(u) THEN 1 ELSE 0)
    BY <1>3, CountAppend
  <2>2. QED
    BY <1>3, <2>1
<1>5. CASE l \in JoinsOf(u)
  BY <1>2, <1>4, <1>5
<1>6. CASE l \notin JoinsOf(u)
  BY <1>2, <1>4, <1>6
<1>7. QED
  BY <1>5, <1>6

LEMMA PaidForJoin ==
    ASSUME QueueTypes, MemberHasNick, [Next]_vars, NEW w \in Users, NEW u \in Users,
           JoinStep(w)
    PROVE  PaidFor(u)
<1>1. UNCHANGED <<todo, toServer, feigned>>
  BY DEF JoinStep
<1>2. CASE toBot' = toBot /\ owed' = owed
  BY <1>1, <1>2, PendingParts DEF PaidFor, Pending, Credit
<1>3. CASE toBot' = Append(toBot, Line(w, {"JOIN"})) /\ owed' = [owed EXCEPT ![w] = @ + 1]
  <2>1. owed'[u] = owed[u] + (IF w = u THEN 1 ELSE 0)
    <3>1. owed \in [Users \cup {BotNick} -> Int]
      BY DEF QueueTypes
    <3>2. QED
      BY <1>3, <3>1
  <2>2. PICK marks \in SUBSET {"001", "433", "464", "JOIN"} : marks = {"JOIN"}
    OBVIOUS
  <2>3. toBot' = Append(toBot, Line(w, marks))
    BY <1>3, <2>2
  <2>4. Count(toBot', JoinsOf(u)) =
            Count(toBot, JoinsOf(u)) + (IF w = u /\ "JOIN" \in marks THEN 1 ELSE 0)
    BY <2>3, CountLine
  <2>5. Count(toBot', JoinsOf(u)) = Count(toBot, JoinsOf(u)) + (IF w = u THEN 1 ELSE 0)
    BY <2>2, <2>4
  <2>6. QED
    BY <1>1, <2>1, <2>5, PendingParts DEF PaidFor, Pending, Credit
<1>4. QED
  BY <1>2, <1>3 DEF JoinStep

LEMMA PaidForText ==
    ASSUME QueueTypes, MemberHasNick, [Next]_vars, NEW w \in Users, NEW u \in Users,
           NEW marks \in Texts, TextStep(w, marks)
    PROVE  PaidFor(u)
<1>1. UNCHANGED <<todo, toServer, owed>>
  BY DEF TextStep
<1>2. CASE toBot' = toBot /\ feigned' = feigned
  BY <1>1, <1>2, PendingParts DEF PaidFor, Pending, Credit
<1>3. CASE /\ toBot' = Append(toBot, Line(w, marks))
           /\ feigned' = IF "JOIN" \in marks THEN [feigned EXCEPT ![w] = @ + 1] ELSE feigned
  <2>1. feigned'[u] = feigned[u] + (IF w = u /\ "JOIN" \in marks THEN 1 ELSE 0)
    <3>1. feigned \in [Users \cup {BotNick} -> Nat]
      BY DEF QueueTypes
    <3>2. QED
      BY <1>3, <3>1
  <2>2. marks \in SUBSET {"001", "433", "464", "JOIN"}
    BY BotAssumption DEF Texts
  <2>3. Count(toBot', JoinsOf(u)) =
            Count(toBot, JoinsOf(u)) + (IF w = u /\ "JOIN" \in marks THEN 1 ELSE 0)
    BY <1>3, <2>2, CountLine
  <2>4. QED
    BY <1>1, <2>1, <2>3, PendingParts DEF PaidFor, Pending, Credit
<1>4. QED
  BY <1>2, <1>3 DEF TextStep

\* Nobody greets the bot.
LEMMA BotNotGreeted ==
    ASSUME QueueTypes, MemberHasNick, owed[BotNick] = 0, [Next]_vars
    PROVE  owed'[BotNick] = 0
<1>1. owed \in [Users \cup {BotNick} -> Int] /\ BotNick \notin Users
  BY BotAssumption DEF QueueTypes
<1>2. CASE owed' = owed
  BY <1>2
<1>3. CASE ServerTakes /\ owed' # owed
  <2>1. /\ Head(toServer) \in Handshake \cup Greetings /\ Head(toServer)[1] = "HELLO"
        /\ owed' = [owed EXCEPT ![Head(toServer)[2]] = @ - 1]
    BY <1>3, ServerTakesStep
  <2>2. Head(toServer)[2] \in Users
    BY <2>1, HelloNamesUser
  <2>3. QED
    BY <1>1, <2>1, <2>2
<1>4. ASSUME NEW u \in Users, owed' = [owed EXCEPT ![u] = @ + 1]
      PROVE  owed'[BotNick] = 0
  BY <1>1, <1>4
<1>5. \/ owed' = owed \/ ServerTakes
      \/ \E u \in Users : owed' = [owed EXCEPT ![u] = @ + 1]
  BY StepKinds, BotSendsStep, BotReadsStep DEF QuietStep, JoinStep, TextStep
<1>6. QED
  BY <1>2, <1>3, <1>4, <1>5

LEMMA GreetingStep ==
    ASSUME GreetingInv, [Next]_vars
    PROVE  GreetingInv'
<1>1. QueueTypes /\ QueueTypes' /\ MemberHasNick /\ MemberHasNick'
  BY QueueTypesKept DEF GreetingInv
<1>2. ASSUME NEW u \in Users PROVE Credit(u)' >= Pending(u)'
  <2>1. PaidFor(u)
    BY <1>1, StepKinds, PaidForQuiet, PaidForSends, PaidForReads, PaidForTakes,
       PaidForJoin, PaidForText
  <2>2. Credit(u) >= Pending(u)
    BY DEF GreetingInv, Covered
  <2>3. Pending(u) \in Int /\ Pending(u)' \in Int /\ Credit(u) \in Int /\ Credit(u)' \in Int
    BY <1>1, PendingParts DEF Pending, Credit
  <2>4. QED
    BY <2>1, <2>2, <2>3 DEF PaidFor
<1>3. owed'[BotNick] = 0
  BY <1>1, BotNotGreeted DEF GreetingInv, Covered
<1>4. Covered'
  BY <1>2, <1>3 DEF Covered
<1>5. QED
  BY <1>1, <1>4 DEF GreetingInv

\* Whatever is written and whatever is under way in either direction, the bot
\* greets no user more often than that user joined or feigned to, and it never
\* greets itself.
THEOREM GreetsWhoJoined == Spec => []GreetingsEarned
<1>1. Init => GreetingInv
  BY BotStart
<1>2. GreetingInv /\ [Next]_vars => GreetingInv'
  BY GreetingStep
<1>3. GreetingInv => GreetingsEarned
  <2>1. SUFFICES ASSUME GreetingInv, NEW u \in DOMAIN owed PROVE Credit(u) >= 0
    BY DEF GreetingsEarned, Credit
  <2>2. /\ u \in Users \cup {BotNick} /\ owed \in [Users \cup {BotNick} -> Int]
        /\ feigned \in [Users \cup {BotNick} -> Nat]
    BY <2>1 DEF GreetingInv, QueueTypes
  <2>3. CASE u = BotNick
    BY <2>1, <2>2, <2>3 DEF GreetingInv, Covered, Credit
  <2>4. CASE u \in Users
    <3>1. /\ Count(toBot, JoinsOf(u)) \in Nat /\ Count(todo, HelloTo(u)) \in Nat
          /\ Count(toServer, HelloTo(u)) \in Nat
      BY <2>1, CountIsNat DEF GreetingInv, QueueTypes
    <3>2. Credit(u) >= Pending(u)
      BY <2>1, <2>4 DEF GreetingInv, Covered
    <3>3. QED
      BY <2>2, <3>1, <3>2 DEF Pending, Credit
  <2>5. QED
    BY <2>2, <2>3, <2>4
<1>4. QED
  BY <1>1, <1>2, <1>3, PTL DEF Spec
=============================================================================
