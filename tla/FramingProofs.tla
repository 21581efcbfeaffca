--------------------------- MODULE FramingProofs ----------------------------
(***************************************************************************)
(* The two receive loops of Framing, for every limit that satisfies        *)
(* FramingAssumption and streams of any length: both implement LineReader, *)
(* and neither is ever refused for the size of its buffer.                 *)
(***************************************************************************)
EXTENDS MCFraming, SequenceTheorems, TLAPS

LEMMA TypeInitially == Init => TypeOK
<1>. SUFFICES ASSUME Init PROVE TypeOK
  OBVIOUS
<1>1. received \in Seq(Reader!Bytes)
  BY EmptySeq DEF Init
<1>2. base \in 0..Len(received)
  BY DEF Init
<1>3. inLines = FALSE /\ state = "open"
  BY DEF Init
<1>. QED
  BY <1>1, <1>2, <1>3, Zenon DEF TypeOK

\* A chunk is a nonempty sequence that fits the array recv() fills.
LEMMA ChunkType ==
    ASSUME NEW chunk \in Chunks
    PROVE  chunk \in Seq(Reader!Bytes) /\ Len(chunk) \in 1..MaxChunk
BY FramingAssumption DEF Chunks

\* Appending leaves what was there in place.
LEMMA Appended ==
    ASSUME NEW s \in Seq(Reader!Bytes), NEW t \in Seq(Reader!Bytes)
    PROVE  /\ s \o t \in Seq(Reader!Bytes)
           /\ Len(s \o t) = Len(s) + Len(t)
           /\ \A i \in 1..Len(s) : (s \o t)[i] = s[i]
           /\ SubSeq(s \o t, 1, Len(s)) = s
<1>1. /\ s \o t \in Seq(Reader!Bytes)
      /\ Len(s \o t) = Len(s) + Len(t)
      /\ \A i \in 1..Len(s) : (s \o t)[i] = s[i]
  BY ConcatProperties
<1>2. SubSeq(s \o t, 1, Len(s)) = s
  <2>1. CASE s = <<>>
    <3>1. Len(s) = 0
      BY <2>1
    <3>2. SubSeq(s \o t, 1, 0) = <<>>
      BY <1>1, SubSeqEmpty
    <3>. QED
      BY <2>1, <3>1, <3>2
  <2>2. CASE s # <<>>
    <3>1. Len(s) \in Nat /\ Len(s) >= 1
      BY <2>2, EmptySeq
    <3>2. SubSeq(s \o t, 1, Len(s)) = SubSeq(s, 1, Len(s))
      BY <3>1, SubSeqOfConcat1
    <3>. QED
      BY <3>2, SubSeqFull
  <2>. QED
    BY <2>1, <2>2
<1>. QED
  BY <1>1, <1>2

\* What a Receives step does to the received bytes.
LEMMA ReceivesStep ==
    ASSUME TypeOK, NEW chunk \in Chunks, Receives(chunk)
    PROVE  /\ received' \in Seq(Reader!Bytes)
           /\ Len(received') = Len(received) + Len(chunk)
           /\ Len(chunk) \in 1..MaxChunk
           /\ \A i \in 1..Len(received) : received'[i] = received[i]
           /\ SubSeq(received', 1, Len(received)) = received
           /\ base' = base
           /\ base' \in 0..Len(received')
           /\ state = "open" /\ ~inLines
<1>1. chunk \in Seq(Reader!Bytes) /\ Len(chunk) \in 1..MaxChunk
  BY ChunkType
<1>2. received \in Seq(Reader!Bytes) /\ Len(received) \in Nat /\ base \in 0..Len(received)
  BY DEF TypeOK
<1>3. received' = received \o chunk /\ base' = base /\ state = "open" /\ ~inLines
  BY DEF Receives
<1>4. /\ received' \in Seq(Reader!Bytes)
      /\ Len(received') = Len(received) + Len(chunk)
      /\ \A i \in 1..Len(received) : received'[i] = received[i]
      /\ SubSeq(received', 1, Len(received)) = received
  BY <1>1, <1>2, <1>3, Appended
<1>5. base' \in 0..Len(received')
  BY <1>1, <1>2, <1>3, <1>4
<1>. QED
  BY <1>1, <1>3, <1>4, <1>5
-----------------------------------------------------------------------------
(* The server.                                                             *)

\* While lines are being taken the residue to come is already short: at the
\* next recv() less than a chunk is left after the last newline.
ShortAfterLast ==
    inLines =>
        \/ Residue < MaxChunk
        \/ \E p \in (base + 1)..Len(received) :
              received[p] = "nl" /\ Len(received) - p < MaxChunk

ServerInv == TypeOK /\ ResidueBounded /\ ShortAfterLast

LEMMA ServerInitially == Init => ServerInv
<1>. SUFFICES ASSUME Init PROVE ServerInv
  OBVIOUS
<1>1. TypeOK
  BY TypeInitially
<1>2. ResidueBounded
  BY FramingAssumption DEF Init, ResidueBounded, Residue, Reader!HasLine
<1>3. ShortAfterLast
  BY DEF Init, ShortAfterLast
<1>. QED
  BY <1>1, <1>2, <1>3 DEF ServerInv

LEMMA AppendKeepsInv ==
    ASSUME ServerInv, NEW chunk \in Chunks, appendToRecvBuffer(chunk)
    PROVE  /\ ServerInv'
           /\ Reader!Arrive \/ Reader!Refuse
<1>1. TypeOK /\ Receives(chunk)
  BY DEF ServerInv, appendToRecvBuffer
<1>2. /\ received' \in Seq(Reader!Bytes)
      /\ Len(received') = Len(received) + Len(chunk)
      /\ Len(chunk) \in 1..MaxChunk
      /\ \A i \in 1..Len(received) : received'[i] = received[i]
      /\ SubSeq(received', 1, Len(received)) = received
      /\ base' = base
      /\ base' \in 0..Len(received')
      /\ state = "open" /\ ~inLines
  BY <1>1, ReceivesStep
<1>3. Len(received) \in Nat /\ Len(received') \in Nat /\ base \in 0..Len(received)
  BY <1>1, <1>2 DEF TypeOK
<1>4. ~Reader!HasLine(received, base) /\ Len(received) - base < MaxChunk
  BY <1>2 DEF ServerInv, ResidueBounded, Residue
<1>5. Residue + Len(chunk) <= MaxBuffer
  BY <1>2, <1>3, <1>4, FramingAssumption DEF Residue
<1>6. Outcome(Reader!HasLine(received', base) \/ Len(received') - base < MaxLine)
  BY <1>5 DEF appendToRecvBuffer, Outcome
<1>7. CASE Reader!HasLine(received', base) \/ Len(received') - base < MaxLine
  <2>1. state' = "open" /\ inLines' = TRUE
    BY <1>6, <1>7 DEF Outcome
  <2>2. TypeOK'
    BY <1>2, <2>1 DEF TypeOK
  <2>3. ResidueBounded'
    BY <2>1 DEF ResidueBounded
  <2>4. ShortAfterLast'
    <3>1. CASE Len(received') - base < MaxLine
      BY <1>2, <1>3, <3>1, FramingAssumption DEF ShortAfterLast, Residue
    <3>2. CASE Reader!HasLine(received', base)
      <4>1. PICK p \in (base + 1)..Len(received') : received'[p] = "nl"
        BY <3>2 DEF Reader!HasLine
      <4>2. p > Len(received)
        BY <1>2, <1>3, <1>4, <4>1 DEF Reader!HasLine
      <4>3. Len(received') - p < MaxChunk
        BY <1>2, <1>3, <4>1, <4>2, FramingAssumption
      <4>. QED
        BY <1>2, <4>1, <4>3 DEF ShortAfterLast
    <3>. QED
      BY <1>7, <3>1, <3>2
  <2>5. Reader!Arrive
    BY <1>2, <1>3, <2>1 DEF Reader!Arrive
  <2>. QED
    BY <2>2, <2>3, <2>4, <2>5 DEF ServerInv
<1>8. CASE ~(Reader!HasLine(received', base) \/ Len(received') - base < MaxLine)
  <2>1. state' = "refused" /\ inLines' = FALSE
    BY <1>6, <1>8 DEF Outcome
  <2>2. TypeOK'
    BY <1>2, <2>1 DEF TypeOK
  <2>3. ResidueBounded' /\ ShortAfterLast'
    BY <2>1 DEF ResidueBounded, ShortAfterLast
  <2>4. Reader!Malformed(received', base)
    BY <1>2, <1>3, <1>8, FramingAssumption DEF Reader!Malformed
  <2>5. Reader!Refuse
    BY <1>2, <1>3, <2>1, <2>4 DEF Reader!Refuse
  <2>. QED
    BY <2>2, <2>3, <2>5 DEF ServerInv
<1>. QED
  BY <1>7, <1>8

LEMMA ExtractKeepsInv ==
    ASSUME ServerInv, extractLine
    PROVE  /\ ServerInv'
           /\ Reader!Take \/ Reader!Refuse \/ UNCHANGED Reader!readerVars
<1>1. /\ received \in Seq(Reader!Bytes) /\ Len(received) \in Nat
      /\ base \in 0..Len(received)
      /\ inLines = TRUE /\ state = "open" /\ received' = received
  BY DEF ServerInv, TypeOK, extractLine
<1>2. CASE ~Reader!HasLine(received, base) /\ inLines' = FALSE /\ UNCHANGED <<base, state>>
  <2>1. TypeOK' /\ ShortAfterLast'
    BY <1>1, <1>2 DEF TypeOK, ShortAfterLast
  <2>2. ResidueBounded'
    BY <1>1, <1>2 DEF ServerInv, ShortAfterLast, ResidueBounded, Residue, Reader!HasLine
  <2>3. UNCHANGED Reader!readerVars
    BY <1>1, <1>2 DEF Reader!readerVars
  <2>. QED
    BY <2>1, <2>2, <2>3 DEF ServerInv
<1>3. ASSUME NEW p \in (base + 1)..Len(received),
             Reader!EndsLine(received, base, p),
             IF Reader!WellFormed(received, base, p)
             THEN Process(p)
             ELSE base' = p /\ Outcome(FALSE)
      PROVE  /\ ServerInv'
             /\ Reader!Take \/ Reader!Refuse
  <2>1. base' = p /\ p \in 0..Len(received) /\ p > base
    <3>1. base' = p
      BY <1>3, Zenon DEF Process
    <3>2. p \in 0..Len(received) /\ p > base
      BY <1>1
    <3>. QED
      BY <3>1, <3>2
  <2>2. CASE Reader!WellFormed(received, base, p)
    <3>1. state' \in {"open", "stopped"} /\ inLines' = (state' = "open")
      BY <1>3, <2>2 DEF Process
    <3>2. TypeOK'
      BY <1>1, <2>1, <3>1 DEF TypeOK
    <3>3. ResidueBounded'
      BY <3>1 DEF ResidueBounded
    <3>4. ShortAfterLast'
      <4>1. CASE Residue < MaxChunk
        BY <1>1, <2>1, <4>1, FramingAssumption DEF ShortAfterLast, Residue
      <4>2. CASE \E q \in (base + 1)..Len(received) :
                   received[q] = "nl" /\ Len(received) - q < MaxChunk
        <5>1. PICK q \in (base + 1)..Len(received) :
                received[q] = "nl" /\ Len(received) - q < MaxChunk
          BY <4>2
        <5>2. q >= p
          BY <1>1, <1>3, <5>1 DEF Reader!EndsLine
        <5>3. CASE q = p
          BY <1>1, <2>1, <5>1, <5>3 DEF ShortAfterLast, Residue
        <5>4. CASE q > p
          <6>1. q \in (p + 1)..Len(received)
            BY <1>1, <1>3, <5>1, <5>4
          <6>. QED
            BY <1>1, <2>1, <5>1, <6>1 DEF ShortAfterLast
        <5>. QED
          BY <1>1, <1>3, <5>1, <5>2, <5>3, <5>4
      <4>. QED
        BY <1>1, <4>1, <4>2 DEF ServerInv, ShortAfterLast
    <3>5. Reader!Take
      BY <1>1, <1>3, <2>1, <2>2, <3>1 DEF Reader!Take
    <3>. QED
      BY <3>2, <3>3, <3>4, <3>5 DEF ServerInv
  <2>3. CASE ~Reader!WellFormed(received, base, p)
    <3>1. state' = "refused" /\ inLines' = FALSE
      BY <1>3, <2>3 DEF Outcome
    <3>2. TypeOK' /\ ResidueBounded' /\ ShortAfterLast'
      BY <1>1, <2>1, <3>1 DEF TypeOK, ResidueBounded, ShortAfterLast
    <3>3. Reader!Malformed(received', base)
      BY <1>1, <1>3, <2>3 DEF Reader!Malformed
    <3>4. SubSeq(received', 1, Len(received)) = received
      BY <1>1, SubSeqFull
    <3>5. Reader!Refuse
      BY <1>1, <1>3, <2>1, <3>1, <3>3, <3>4 DEF Reader!Refuse
    <3>. QED
      BY <3>2, <3>5 DEF ServerInv
  <2>. QED
    BY <2>2, <2>3
<1>. QED
  BY <1>2, <1>3 DEF extractLine

LEMMA ServerKeepsInv ==
    ASSUME ServerInv, [ServerNext]_vars
    PROVE  ServerInv' /\ [Reader!ReaderNext]_(Reader!readerVars)
<1>1. CASE \E chunk \in Chunks : appendToRecvBuffer(chunk)
  BY <1>1, AppendKeepsInv DEF Reader!ReaderNext
<1>2. CASE extractLine
  BY <1>2, ExtractKeepsInv DEF Reader!ReaderNext
<1>3. CASE UNCHANGED vars
  BY <1>3 DEF vars, ServerInv, TypeOK, ResidueBounded, ShortAfterLast, Residue,
              Reader!HasLine, Reader!readerVars
<1>. QED
  BY <1>1, <1>2, <1>3 DEF ServerNext

\* Between two recv() calls the server has read every complete line and has
\* room for a whole further chunk (Client::appendToRecvBuffer).
THEOREM ServerResidue == ServerSpec => [](TypeOK /\ ResidueBounded)
<1>1. Init => ServerInv
  BY ServerInitially
<1>2. ServerInv /\ [ServerNext]_vars => ServerInv'
  BY ServerKeepsInv
<1>3. ServerInv => TypeOK /\ ResidueBounded
  BY DEF ServerInv
<1>. QED
  BY <1>1, <1>2, <1>3, PTL DEF ServerSpec

\* The server's receive path implements LineReader (Client::extractLine and
\* the loop of Server::handleClientRead).
THEOREM ServerReadsLines == ServerSpec => DeliversLines
<1>1. Init => ServerInv
  BY ServerInitially
<1>2. ServerInv /\ [ServerNext]_vars =>
        ServerInv' /\ [Reader!ReaderNext]_(Reader!readerVars)
  BY ServerKeepsInv
<1>3. Init => Reader!ReaderInit
  BY DEF Init, Reader!ReaderInit
<1>. QED
  BY <1>1, <1>2, <1>3, PTL DEF ServerSpec, DeliversLines, Reader!ReaderSpec
-----------------------------------------------------------------------------
(* The bot.                                                                *)

BotInv ==
    /\ TypeOK
    /\ state = "open" /\ ~inLines => ~Reader!HasLine(received, base) /\ Residue < MaxLine

LEMMA BotReceivesKeepsInv ==
    ASSUME BotInv, NEW chunk \in Chunks, BotReceives(chunk)
    PROVE  BotInv' /\ Reader!Arrive
<1>1. TypeOK /\ Receives(chunk)
  BY DEF BotInv, BotReceives
<1>2. /\ received' \in Seq(Reader!Bytes)
      /\ Len(received') = Len(received) + Len(chunk)
      /\ Len(chunk) \in 1..MaxChunk
      /\ SubSeq(received', 1, Len(received)) = received
      /\ base' = base
      /\ base' \in 0..Len(received')
      /\ state = "open" /\ ~inLines
  BY <1>1, ReceivesStep
<1>3. Len(received) \in Nat /\ base \in 0..Len(received)
  BY <1>1 DEF TypeOK
<1>4. Residue + Len(chunk) <= MaxBuffer
  BY <1>2, <1>3, FramingAssumption DEF BotInv, Residue
<1>5. state' = "open" /\ inLines' = TRUE
  BY <1>4 DEF BotReceives, Outcome
<1>6. BotInv'
  BY <1>2, <1>5 DEF BotInv, TypeOK
<1>7. Reader!Arrive
  BY <1>2, <1>3, <1>5 DEF Reader!Arrive
<1>. QED
  BY <1>6, <1>7

LEMMA BotExtractKeepsInv ==
    ASSUME BotInv, BotExtractLine
    PROVE  /\ BotInv'
           /\ Reader!Take \/ Reader!Refuse \/ UNCHANGED Reader!readerVars
<1>1. /\ received \in Seq(Reader!Bytes) /\ Len(received) \in Nat
      /\ base \in 0..Len(received)
      /\ inLines = TRUE /\ state = "open" /\ received' = received
  BY DEF BotInv, TypeOK, BotExtractLine
<1>2. SubSeq(received', 1, Len(received)) = received /\ Len(received') >= Len(received)
  BY <1>1, SubSeqFull
<1>3. CASE /\ ~Reader!HasLine(received, base)
           /\ inLines' = FALSE /\ UNCHANGED base
           /\ state' = IF Residue >= MaxLine THEN "refused" ELSE state
  <2>1. CASE Residue >= MaxLine
    <3>1. state' = "refused"
      BY <1>3, <2>1
    <3>2. BotInv'
      BY <1>1, <1>3, <3>1 DEF BotInv, TypeOK
    <3>3. Reader!Malformed(received', base)
      BY <1>1, <1>3, <2>1 DEF Reader!Malformed, Residue
    <3>4. Reader!Refuse
      BY <1>1, <1>2, <1>3, <3>1, <3>3 DEF Reader!Refuse
    <3>. QED
      BY <3>2, <3>4
  <2>2. CASE ~(Residue >= MaxLine)
    <3>1. state' = "open"
      BY <1>1, <1>3, <2>2
    <3>2. Residue' = Residue /\ Residue < MaxLine
      BY <1>1, <1>3, <2>2, FramingAssumption DEF Residue
    <3>3. BotInv'
      BY <1>1, <1>3, <3>1, <3>2 DEF BotInv, TypeOK, Reader!HasLine
    <3>4. UNCHANGED Reader!readerVars
      BY <1>1, <1>3, <3>1 DEF Reader!readerVars
    <3>. QED
      BY <3>3, <3>4
  <2>. QED
    BY <2>1, <2>2
<1>4. ASSUME NEW p \in (base + 1)..Len(received),
             Reader!EndsLine(received, base, p),
             IF Reader!WellFormed(received, base, p)
             THEN Process(p)
             ELSE /\ base' = IF p - base > MaxLine THEN base ELSE p
                  /\ Outcome(FALSE)
      PROVE  /\ BotInv'
             /\ Reader!Take \/ Reader!Refuse
  <2>1. p \in 0..Len(received)
    BY <1>1, <1>4
  <2>2. CASE Reader!WellFormed(received, base, p)
    <3>1. base' = p /\ state' \in {"open", "stopped"} /\ inLines' = (state' = "open")
      BY <1>4, <2>2 DEF Process
    <3>2. BotInv'
      BY <1>1, <2>1, <3>1 DEF BotInv, TypeOK
    <3>3. Reader!Take
      BY <1>1, <1>4, <2>2, <3>1 DEF Reader!Take
    <3>. QED
      BY <3>2, <3>3
  <2>3. CASE ~Reader!WellFormed(received, base, p)
    <3>1. base' \in {base, p} /\ state' = "refused" /\ inLines' = FALSE
      BY <1>4, <2>3 DEF Outcome
    <3>2. BotInv'
      BY <1>1, <2>1, <3>1 DEF BotInv, TypeOK
    <3>3. Reader!Malformed(received', base)
      BY <1>1, <1>4, <2>3 DEF Reader!Malformed
    <3>4. Reader!Refuse
      BY <1>1, <1>2, <1>4, <3>1, <3>3 DEF Reader!Refuse
    <3>. QED
      BY <3>2, <3>4
  <2>. QED
    BY <2>2, <2>3
<1>. QED
  BY <1>3, <1>4 DEF BotExtractLine

LEMMA BotKeepsInv ==
    ASSUME BotInv, [BotNext]_vars
    PROVE  BotInv' /\ [Reader!ReaderNext]_(Reader!readerVars)
<1>1. CASE \E chunk \in Chunks : BotReceives(chunk)
  BY <1>1, BotReceivesKeepsInv DEF Reader!ReaderNext
<1>2. CASE BotExtractLine
  BY <1>2, BotExtractKeepsInv DEF Reader!ReaderNext
<1>3. CASE UNCHANGED vars
  BY <1>3 DEF vars, BotInv, TypeOK, Residue, Reader!HasLine, Reader!readerVars
<1>. QED
  BY <1>1, <1>2, <1>3 DEF BotNext

LEMMA BotInitially == Init => BotInv
<1>. SUFFICES ASSUME Init PROVE BotInv
  OBVIOUS
<1>1. TypeOK
  BY TypeInitially
<1>2. ~Reader!HasLine(received, base) /\ Residue < MaxLine
  BY FramingAssumption DEF Init, Residue, Reader!HasLine
<1>. QED
  BY <1>1, <1>2 DEF BotInv

\* The bot's receive path implements LineReader too (Bot::extractLine).
THEOREM BotReadsLines == BotSpec => DeliversLines
<1>1. Init => BotInv
  BY BotInitially
<1>2. BotInv /\ [BotNext]_vars => BotInv' /\ [Reader!ReaderNext]_(Reader!readerVars)
  BY BotKeepsInv
<1>3. Init => Reader!ReaderInit
  BY DEF Init, Reader!ReaderInit
<1>. QED
  BY <1>1, <1>2, <1>3, PTL DEF BotSpec, DeliversLines, Reader!ReaderSpec

LEMMA BotHopeless == BotInv => HopelessLineRefused
<1>. SUFFICES ASSUME BotInv, state = "open", ~inLines
              PROVE  ~Reader!Malformed(received, base)
  BY DEF HopelessLineRefused
<1>1. ~Reader!HasLine(received, base) /\ Residue < MaxLine
  BY DEF BotInv
<1>2. Len(received) \in Nat /\ base \in 0..Len(received)
  BY DEF BotInv, TypeOK
<1>. QED
  BY <1>1, <1>2, FramingAssumption
  DEF Reader!Malformed, Reader!HasLine, Reader!EndsLine, Residue

\* The bot never waits for the rest of a line that is already hopeless.
THEOREM BotRefusesAtOnce == BotSpec => []HopelessLineRefused
<1>1. Init => BotInv
  BY BotInitially
<1>2. BotInv /\ [BotNext]_vars => BotInv'
  BY BotKeepsInv
<1>. QED
  BY <1>1, <1>2, BotHopeless, PTL DEF BotSpec
-----------------------------------------------------------------------------
(* Either program, as the run checks them.                                 *)

EitherInv ==
    /\ program \in {"server", "bot"}
    /\ program = "server" => ServerInv
    /\ program = "bot" => BotInv

LEMMA EitherInitially == EitherInit => EitherInv
BY ServerInitially, BotInitially DEF EitherInit, EitherInv

LEMMA EitherKeepsInv ==
    ASSUME EitherInv, [ServerStep \/ BotStep]_<<vars, program>>
    PROVE  EitherInv' /\ [Reader!ReaderNext]_(Reader!readerVars)
<1>1. CASE ServerStep
  BY <1>1, ServerKeepsInv DEF ServerStep, EitherInv
<1>2. CASE BotStep
  BY <1>2, BotKeepsInv DEF BotStep, EitherInv
<1>3. CASE UNCHANGED <<vars, program>>
  <2>1. CASE program = "server"
    BY <1>3, <2>1, ServerKeepsInv DEF EitherInv
  <2>2. CASE program = "bot"
    BY <1>3, <2>2, BotKeepsInv DEF EitherInv
  <2>. QED
    BY <2>1, <2>2 DEF EitherInv
<1>. QED
  BY <1>1, <1>2, <1>3

LEMMA EitherFacts == EitherInv => TypeOK /\ ResidueBounded /\ BotRefusesHopeless
<1>. SUFFICES ASSUME EitherInv PROVE TypeOK /\ ResidueBounded /\ BotRefusesHopeless
  OBVIOUS
<1>1. CASE program = "server"
  BY <1>1 DEF EitherInv, ServerInv, BotRefusesHopeless
<1>2. CASE program = "bot"
  <2>1. BotInv /\ TypeOK
    BY <1>2 DEF EitherInv, BotInv
  <2>2. Residue \in Int
    BY <2>1 DEF TypeOK, Residue
  <2>3. ResidueBounded
    BY <2>1, <2>2, FramingAssumption DEF BotInv, ResidueBounded
  <2>. QED
    BY <2>1, <2>3, BotHopeless DEF BotRefusesHopeless
<1>. QED
  BY <1>1, <1>2 DEF EitherInv

\* In both programs the received bytes, the erased prefix and the loop's state
\* keep their types, and the line loop runs only on an open connection.
THEOREM FramingTypeCorrect == EitherSpec => []TypeOK
BY EitherInitially, EitherKeepsInv, EitherFacts, PTL DEF EitherSpec

\* Neither program comes back to recv() with a line unread or with less room
\* than a chunk (Client::appendToRecvBuffer, Bot::receiveMessages).
THEOREM ResidueAlwaysBounded == EitherSpec => []ResidueBounded
BY EitherInitially, EitherKeepsInv, EitherFacts, PTL DEF EitherSpec

\* When the program is the bot, a hopeless line is refused at once
\* (Bot::extractLine).
THEOREM HopelessLineEndsBot == EitherSpec => []BotRefusesHopeless
BY EitherInitially, EitherKeepsInv, EitherFacts, PTL DEF EitherSpec

\* Whichever program runs, its receive path implements LineReader.
THEOREM EitherReadsLines == EitherSpec => DeliversLines
<1>1. EitherInit => Reader!ReaderInit
  BY DEF EitherInit, Init, Reader!ReaderInit
<1>. QED
  BY <1>1, EitherInitially, EitherKeepsInv, PTL
  DEF EitherSpec, DeliversLines, Reader!ReaderSpec
=============================================================================
