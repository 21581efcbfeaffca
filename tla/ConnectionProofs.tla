-------------------------- MODULE ConnectionProofs --------------------------
(***************************************************************************)
(* Connection for every size of buffer, wire, line and chunk that          *)
(* ConnectionAssumption allows, and any set of texts: it implements        *)
(* MessageQueue, and the reader refuses nothing the server sends.          *)
(***************************************************************************)
EXTENDS Connection, SequenceTheorems, TLAPS

Bytes == {"x", "cr", "nl", "nul"}

ConnTypeOK ==
    /\ sendBuffer \in Seq(Bytes) /\ wire \in Seq(Bytes) /\ received \in Seq(Bytes)
    /\ dead \in BOOLEAN /\ closing \in BOOLEAN /\ gone \in BOOLEAN
    /\ reset \in BOOLEAN /\ eof \in BOOLEAN /\ inLines \in BOOLEAN
    /\ base \in 0..Len(received)
    /\ state \in {"open", "stopped"}
    /\ accepted \in Seq(Seq(Bytes)) /\ delivered \in Seq(Seq(Bytes))

\* stream is what the accepted messages are in bytes, ends[k] where the k-th of
\* them ends in it.
Spells(stream, ends) ==
    /\ ends[0] = 0 /\ ends[Len(accepted)] = Len(stream)
    /\ \A k \in 1..Len(accepted) :
          /\ isValidOutboundMessage(accepted[k])
          /\ ends[k] = ends[k - 1] + Len(accepted[k])
          /\ \A i \in 1..Len(accepted[k]) : stream[ends[k - 1] + i] = accepted[k][i]

\* Wherever a byte is, it is where the stream says: in the reader's buffer, in
\* flight behind it, or, on a connection that was not reset, still queued.
InPlace(stream) ==
    /\ Len(received) + Len(wire) <= Len(stream)
    /\ \A i \in 1..Len(received) : received[i] = stream[i]
    /\ \A i \in 1..Len(wire) : wire[i] = stream[Len(received) + i]
    /\ ~reset =>
          /\ Len(stream) = Len(received) + Len(wire) + Len(sendBuffer)
          /\ \A i \in 1..Len(sendBuffer) :
                sendBuffer[i] = stream[Len(received) + Len(wire) + i]

\* The reader has taken whole messages, the first ones, in order.
ReadSoFar(ends) ==
    /\ Len(delivered) <= Len(accepted)
    /\ base = ends[Len(delivered)]
    /\ \A k \in 1..Len(delivered) : delivered[k] = accepted[k]

StreamInv ==
    \E stream \in Seq(Bytes) :
        \E ends \in [0..Len(accepted) -> 0..Len(stream)] :
            Spells(stream, ends) /\ InPlace(stream) /\ ReadSoFar(ends)

\* Between two recv() calls the reader has no line left and less than a line.
ReaderInv ==
    /\ inLines => state = "open"
    /\ state = "open" /\ ~inLines =>
          ~Peer!Reader!HasLine(received, base) /\ Len(received) - base < MaxLine

EndInv ==
    /\ gone => dead \/ (closing /\ sendBuffer = <<>>)
    /\ reset => wire = <<>>
    /\ eof => gone /\ ~reset /\ wire = <<>> /\ state = "open" /\ ~inLines

ConnInv == ConnTypeOK /\ StreamInv /\ ReaderInv /\ EndInv

-----------------------------------------------------------------------------
(* Sequences of bytes.                                                     *)

\* What send() and recv() cut off, and what they leave.
LEMMA CutFacts ==
    ASSUME NEW s \in Seq(Bytes), NEW n \in 1..Len(s)
    PROVE  /\ SubSeq(s, 1, n) \in Seq(Bytes) /\ Len(SubSeq(s, 1, n)) = n
           /\ \A i \in 1..n : SubSeq(s, 1, n)[i] = s[i]
           /\ Rest(s, n) \in Seq(Bytes) /\ Len(Rest(s, n)) = Len(s) - n
           /\ \A i \in 1..(Len(s) - n) : Rest(s, n)[i] = s[n + i]
<1>1. Len(s) \in Nat /\ \A i \in 1..Len(s) : s[i] \in Bytes
  BY LenProperties, ElementOfSeq
<1>2. /\ SubSeq(s, 1, n) \in Seq(Bytes) /\ Len(SubSeq(s, 1, n)) = n
      /\ \A i \in 1..n : SubSeq(s, 1, n)[i] = s[i]
  <2>1. n \in Int /\ \A i \in 1..n : s[i] \in Bytes
    BY <1>1
  <2>. QED
    BY <1>1, <2>1, SubSeqProperties
<1>3. /\ Rest(s, n) \in Seq(Bytes) /\ Len(Rest(s, n)) = Len(s) - n
      /\ \A i \in 1..(Len(s) - n) : Rest(s, n)[i] = s[n + i]
  <2>1. n + 1 \in Int /\ Len(s) \in Int /\ \A i \in (n + 1)..Len(s) : s[i] \in Bytes
    BY <1>1
  <2>2. /\ Rest(s, n) \in Seq(Bytes)
        /\ Len(Rest(s, n)) = IF n + 1 <= Len(s) THEN Len(s) - (n + 1) + 1 ELSE 0
        /\ \A i \in 1..(Len(s) - (n + 1) + 1) : Rest(s, n)[i] = s[(n + 1) + i - 1]
    BY <2>1, SubSeqProperties DEF Rest
  <2>3. Len(Rest(s, n)) = Len(s) - n
    BY <1>1, <2>2
  <2>4. \A i \in 1..(Len(s) - n) : Rest(s, n)[i] = s[n + i]
    <3>. SUFFICES ASSUME NEW i \in 1..(Len(s) - n) PROVE Rest(s, n)[i] = s[n + i]
      OBVIOUS
    <3>1. i \in 1..(Len(s) - (n + 1) + 1) /\ (n + 1) + i - 1 = n + i
      BY <1>1
    <3>. QED
      BY <2>2, <3>1
  <2>. QED
    BY <2>2, <2>3, <2>4
<1>. QED
  BY <1>2, <1>3

LEMMA JoinFacts ==
    ASSUME NEW s \in Seq(Bytes), NEW t \in Seq(Bytes)
    PROVE  /\ s \o t \in Seq(Bytes) /\ Len(s \o t) = Len(s) + Len(t)
           /\ \A i \in 1..Len(s) : (s \o t)[i] = s[i]
           /\ \A i \in 1..Len(t) : (s \o t)[Len(s) + i] = t[i]
<1>1. Len(s) \in Nat /\ Len(t) \in Nat
  BY LenProperties
<1>2. /\ s \o t \in Seq(Bytes) /\ Len(s \o t) = Len(s) + Len(t)
      /\ \A i \in 1..(Len(s) + Len(t)) :
            (s \o t)[i] = IF i <= Len(s) THEN s[i] ELSE t[i - Len(s)]
  BY ConcatProperties
<1>3. \A i \in 1..Len(s) : (s \o t)[i] = s[i]
  BY <1>1, <1>2
<1>4. ASSUME NEW i \in 1..Len(t) PROVE (s \o t)[Len(s) + i] = t[i]
  <2>1. Len(s) + i \in 1..(Len(s) + Len(t)) /\ ~(Len(s) + i <= Len(s))
        /\ (Len(s) + i) - Len(s) = i
    BY <1>1
  <2>. QED
    BY <1>2, <2>1
<1>. QED
  BY <1>2, <1>3, <1>4
-----------------------------------------------------------------------------
(* The lines the reader finds are the messages.                            *)

\* Facts about the next message in terms of the received bytes.
LEMMA NextMessage ==
    ASSUME ConnTypeOK, NEW stream \in Seq(Bytes),
           NEW ends \in [0..Len(accepted) -> 0..Len(stream)],
           Spells(stream, ends), InPlace(stream), ReadSoFar(ends),
           base < Len(received)
    PROVE  \E n \in 2..MaxLine : \E next \in Seq(Bytes) :
              /\ Len(delivered) < Len(accepted)
              /\ next = accepted[Len(delivered) + 1] /\ n = Len(next)
              /\ ends[Len(delivered) + 1] = base + n
              /\ \A i \in 1..n : base + i <= Len(received) => received[base + i] = next[i]
              /\ next[n - 1] = "cr" /\ next[n] = "nl"
              /\ \A i \in 1..(n - 2) : next[i] \notin {"nul", "cr", "nl"}
<1> DEFINE d == Len(delivered)
           next == accepted[d + 1]
<1>1. /\ d \in Nat /\ Len(accepted) \in Nat /\ Len(received) \in Nat
      /\ Len(wire) \in Nat /\ Len(stream) \in Nat /\ base \in Nat
  BY LenProperties DEF ConnTypeOK
<1>2. d <= Len(accepted) /\ base = ends[d] /\ ends[Len(accepted)] = Len(stream)
      /\ Len(received) <= Len(stream)
  BY <1>1 DEF ReadSoFar, Spells, InPlace
<1>3. d < Len(accepted)
  BY <1>1, <1>2
<1>4. d + 1 \in 1..Len(accepted) /\ (d + 1) - 1 = d
  BY <1>1, <1>3
<1>5. /\ isValidOutboundMessage(next)
      /\ ends[d + 1] = base + Len(next)
      /\ \A i \in 1..Len(next) : stream[base + i] = next[i]
  BY <1>2, <1>4, Zenon DEF Spells
<1>6. next \in Seq(Bytes)
  BY <1>4, ElementOfSeq DEF ConnTypeOK
<1>7. Len(next) \in Nat
  BY <1>6, LenProperties
<1>8. Len(next) \in 2..MaxLine
  BY <1>5, <1>7, ConnectionAssumption DEF isValidOutboundMessage
<1>9. ASSUME NEW i \in 1..Len(next), base + i <= Len(received)
      PROVE  received[base + i] = next[i]
  <2>1. base + i \in 1..Len(received)
    BY <1>1, <1>7, <1>9
  <2>2. received[base + i] = stream[base + i]
    BY <2>1 DEF InPlace
  <2>. QED
    BY <1>5, <2>2
<1>10. /\ next[Len(next) - 1] = "cr" /\ next[Len(next)] = "nl"
       /\ \A i \in 1..(Len(next) - 2) : next[i] \notin {"nul", "cr", "nl"}
  BY <1>5 DEF isValidOutboundMessage
<1> HIDE DEF next
<1>11. next = accepted[Len(delivered) + 1] /\ ends[Len(delivered) + 1] = base + Len(next)
  BY <1>5 DEF next
<1>. QED
  BY <1>3, <1>6, <1>8, <1>9, <1>10, <1>11

\* The reader takes exactly the next message, and finds nothing wrong with it.
LEMMA LineIsMessage ==
    ASSUME ConnTypeOK, NEW stream \in Seq(Bytes),
           NEW ends \in [0..Len(accepted) -> 0..Len(stream)],
           Spells(stream, ends), InPlace(stream), ReadSoFar(ends),
           NEW p \in (base + 1)..Len(received),
           Peer!Reader!EndsLine(received, base, p)
    PROVE  /\ Len(delivered) < Len(accepted)
           /\ p = ends[Len(delivered) + 1]
           /\ Peer!Reader!WellFormed(received, base, p)
           /\ SubSeq(received, base + 1, p) = accepted[Len(delivered) + 1]
<1>1. Len(received) \in Nat /\ base \in Nat /\ base <= Len(received)
  BY LenProperties DEF ConnTypeOK
<1>2. base < Len(received)
  BY <1>1
<1>3. PICK n \in 2..MaxLine, next \in Seq(Bytes) :
        /\ Len(delivered) < Len(accepted)
        /\ next = accepted[Len(delivered) + 1] /\ n = Len(next)
        /\ ends[Len(delivered) + 1] = base + n
        /\ \A i \in 1..n : base + i <= Len(received) => received[base + i] = next[i]
        /\ next[n - 1] = "cr" /\ next[n] = "nl"
        /\ \A i \in 1..(n - 2) : next[i] \notin {"nul", "cr", "nl"}
  BY <1>2, NextMessage
<1>4. n \in Nat /\ n >= 2 /\ n <= MaxLine
  BY ConnectionAssumption
<1>5. received[p] = "nl" /\ \A q \in (base + 1)..(p - 1) : received[q] # "nl"
  BY DEF Peer!Reader!EndsLine
<1>6. ASSUME NEW q \in (base + 1)..Len(received), q < base + n
      PROVE  /\ received[q] # "nl" /\ received[q] # "nul"
             /\ received[q] = "cr" => q = base + n - 1
  <2>1. q - base \in 1..n /\ base + (q - base) = q /\ base + (q - base) <= Len(received)
    BY <1>1, <1>4, <1>6
  <2>2. received[q] = next[q - base]
    BY <1>3, <2>1
  <2>3. CASE q = base + n - 1
    <3>1. q - base = n - 1
      BY <1>1, <1>4, <2>3
    <3>. QED
      BY <1>3, <2>2, <2>3, <3>1
  <2>4. CASE q # base + n - 1
    <3>1. q - base \in 1..(n - 2)
      BY <1>1, <1>4, <1>6, <2>4
    <3>. QED
      BY <1>3, <2>2, <3>1
  <2>. QED
    BY <2>3, <2>4
<1>7. p >= base + n
  BY <1>1, <1>4, <1>5, <1>6
<1>8. base + n \in (base + 1)..Len(received)
  BY <1>1, <1>4, <1>7
<1>9. received[base + n] = "nl"
  <2>1. n \in 1..n /\ base + n <= Len(received)
    BY <1>1, <1>4, <1>8
  <2>. QED
    BY <1>3, <2>1
<1>10. p = base + n
  BY <1>1, <1>4, <1>5, <1>7, <1>8, <1>9
<1>11. Peer!Reader!WellFormed(received, base, p)
  <2>1. p - base <= MaxLine
    BY <1>1, <1>4, <1>10
  <2>2. ~Peer!Reader!Forbidden(received, base, p)
    <3>. SUFFICES ASSUME NEW q \in (base + 1)..(p - 1)
                  PROVE  ~(received[q] = "nul" \/ (received[q] = "cr" /\ q # p - 1))
      BY DEF Peer!Reader!Forbidden
    <3>1. q \in (base + 1)..Len(received) /\ q < base + n /\ p - 1 = base + n - 1
      BY <1>1, <1>4, <1>10
    <3>. QED
      BY <1>6, <3>1
  <2>. QED
    BY <2>1, <2>2 DEF Peer!Reader!WellFormed
<1>12. SubSeq(received, base + 1, p) = next
  <2>1. base + 1 \in Int /\ p \in Int /\ \A i \in (base + 1)..p : received[i] \in Bytes
    BY <1>1, ElementOfSeq DEF ConnTypeOK
  <2> DEFINE line == SubSeq(received, base + 1, p)
  <2>2. /\ line \in Seq(Bytes)
        /\ Len(line) = IF base + 1 <= p THEN p - (base + 1) + 1 ELSE 0
        /\ \A i \in 1..(p - (base + 1) + 1) : line[i] = received[(base + 1) + i - 1]
    BY <2>1, SubSeqProperties, SMTT(30)
  <2> HIDE DEF line
  <2>3. Len(line) = n
    BY <1>1, <1>4, <1>10, <2>2
  <2>4. ASSUME NEW i \in 1..n PROVE line[i] = next[i]
    <3>1. i \in 1..(p - (base + 1) + 1) /\ (base + 1) + i - 1 = base + i
          /\ base + i <= Len(received)
      BY <1>1, <1>4, <1>10
    <3>2. line[i] = received[base + i]
      BY <2>2, <3>1
    <3>. QED
      BY <1>3, <3>1, <3>2
  <2>5. line = next
    BY <1>3, <2>2, <2>3, <2>4, SeqEqual
  <2>. QED
    BY <2>5 DEF line
<1>. QED
  BY <1>3, <1>10, <1>11, <1>12

\* Less than a line is left when no newline is, and what has arrived in full
\* has its newline.
LEMMA NoLineLeft ==
    ASSUME ConnTypeOK, NEW stream \in Seq(Bytes),
           NEW ends \in [0..Len(accepted) -> 0..Len(stream)],
           Spells(stream, ends), InPlace(stream), ReadSoFar(ends),
           ~Peer!Reader!HasLine(received, base)
    PROVE  /\ Len(received) - base < MaxLine
           /\ Len(received) = Len(stream) => Len(delivered) = Len(accepted)
<1>1. /\ Len(received) \in Nat /\ base \in Nat /\ base <= Len(received)
      /\ Len(delivered) \in Nat /\ Len(accepted) \in Nat /\ Len(stream) \in Nat
  BY LenProperties DEF ConnTypeOK
<1>2. CASE base < Len(received)
  <2>1. PICK n \in 2..MaxLine, next \in Seq(Bytes) :
          /\ Len(delivered) < Len(accepted)
          /\ next = accepted[Len(delivered) + 1] /\ n = Len(next)
          /\ ends[Len(delivered) + 1] = base + n
          /\ \A i \in 1..n : base + i <= Len(received) => received[base + i] = next[i]
          /\ next[n - 1] = "cr" /\ next[n] = "nl"
          /\ \A i \in 1..(n - 2) : next[i] \notin {"nul", "cr", "nl"}
    BY <1>2, NextMessage
  <2>2. n \in Nat /\ n >= 2 /\ n <= MaxLine
    BY ConnectionAssumption
  <2>3. ~(base + n <= Len(received))
    <3>. SUFFICES ASSUME base + n <= Len(received) PROVE FALSE
      OBVIOUS
    <3>1. base + n \in (base + 1)..Len(received) /\ n \in 1..n
      BY <1>1, <2>2
    <3>2. received[base + n] = "nl"
      BY <2>1, <3>1
    <3>. QED
      BY <3>1, <3>2 DEF Peer!Reader!HasLine
  <2>4. Len(received) - base < MaxLine
    BY <1>1, <2>2, <2>3, ConnectionAssumption
  <2>5. base + n <= Len(stream)
    <3>1. Len(delivered) + 1 \in 0..Len(accepted)
      BY <1>1, <2>1
    <3>. QED
      BY <1>1, <2>1, <2>2, <3>1
  <2>. QED
    BY <1>1, <2>2, <2>3, <2>4, <2>5
<1>3. CASE base = Len(received)
  <2>1. Len(received) - base < MaxLine
    BY <1>1, <1>3, ConnectionAssumption
  <2>2. ASSUME Len(received) = Len(stream), Len(delivered) # Len(accepted)
        PROVE  FALSE
    <3>1. Len(delivered) <= Len(accepted) /\ base = ends[Len(delivered)]
      BY DEF ReadSoFar
    <3>2. Len(delivered) + 1 \in 1..Len(accepted) /\ (Len(delivered) + 1) - 1 = Len(delivered)
      BY <1>1, <2>2, <3>1
    <3>3. /\ isValidOutboundMessage(accepted[Len(delivered) + 1])
          /\ ends[Len(delivered) + 1] = base + Len(accepted[Len(delivered) + 1])
      BY <3>1, <3>2, Zenon DEF Spells
    <3>4. Len(accepted[Len(delivered) + 1]) \in Nat
      BY <3>2, ElementOfSeq, LenProperties DEF ConnTypeOK
    <3>5. Len(accepted[Len(delivered) + 1]) >= 2
      BY <3>3 DEF isValidOutboundMessage
    <3>6. ends[Len(delivered) + 1] <= Len(stream)
      BY <1>1, <3>2
    <3>. QED
      BY <1>1, <1>3, <2>2, <3>3, <3>4, <3>5, <3>6
  <2>. QED
    BY <2>1, <2>2
<1>. QED
  BY <1>1, <1>2, <1>3
-----------------------------------------------------------------------------
(* The invariant is kept.                                                  *)

LEMMA ConnInitially == Init => ConnInv
<1>. SUFFICES ASSUME Init PROVE ConnInv
  OBVIOUS
<1>1. /\ sendBuffer = <<>> /\ accepted = <<>> /\ delivered = <<>> /\ wire = <<>>
      /\ received = <<>> /\ base = 0 /\ state = "open" /\ inLines = FALSE
      /\ dead = FALSE /\ closing = FALSE /\ gone = FALSE /\ reset = FALSE /\ eof = FALSE
  BY DEF Init, Peer!Init
<1>2. Len(<<>>) = 0 /\ <<>> \in Seq(Bytes) /\ <<>> \in Seq(Seq(Bytes))
  BY EmptySeq
<1>3. ConnTypeOK
  <2>1. base \in 0..Len(received)
    BY <1>1, <1>2
  <2>. QED
    BY <1>1, <1>2, <2>1, Zenon DEF ConnTypeOK
<1>4. StreamInv
  <2> DEFINE ends == [k \in 0..Len(accepted) |-> 0]
  <2>1. ends \in [0..Len(accepted) -> 0..Len(<<>>)] /\ ends[0] = 0 /\ Len(accepted) = 0
    BY <1>1, <1>2
  <2> HIDE DEF ends
  <2>2. Spells(<<>>, ends)
    BY <1>1, <1>2, <2>1 DEF Spells
  <2>3. InPlace(<<>>)
    BY <1>1, <1>2 DEF InPlace
  <2>4. ReadSoFar(ends)
    BY <1>1, <1>2, <2>1 DEF ReadSoFar
  <2>. QED
    BY <1>2, <2>1, <2>2, <2>3, <2>4 DEF StreamInv
<1>5. ReaderInv
  BY <1>1, <1>2, ConnectionAssumption DEF ReaderInv, Peer!Reader!HasLine
<1>6. EndInv
  BY <1>1 DEF EndInv
<1>. QED
  BY <1>3, <1>4, <1>5, <1>6 DEF ConnInv

\* A step that moves no byte keeps the stream and the reader.
LEMMA NoByteMoves ==
    ASSUME ConnInv,
           UNCHANGED <<sendBuffer, accepted, wire, reset, peerVars, delivered>>
    PROVE  StreamInv' /\ ReaderInv'
<1>1. StreamInv'
  BY SMTT(30) DEF ConnInv, StreamInv, Spells, InPlace, ReadSoFar, isValidOutboundMessage, peerVars
<1>2. ReaderInv'
  BY DEF ConnInv, ReaderInv, Peer!Reader!HasLine, peerVars
<1>. QED
  BY <1>1, <1>2

LEMMA SendMessageKeeps ==
    ASSUME ConnInv, NEW m \in Texts, sendMessage(m),
           sendBuffer' = sendBuffer \o m, accepted' = Append(accepted, m), dead' = dead
    PROVE  ConnInv'
<1>1. /\ UNCHANGED <<closing, gone, wire, reset, received, base, state, inLines, eof, delivered>>
      /\ ~gone /\ isValidOutboundMessage(m) /\ m \in Seq(Bytes)
  BY ConnectionAssumption DEF sendMessage, peerVars, Bytes
<1>2. ConnTypeOK
  BY DEF ConnInv
<1>3. /\ Len(sendBuffer) \in Nat /\ Len(m) \in Nat /\ Len(accepted) \in Nat
      /\ Len(received) \in Nat /\ Len(wire) \in Nat /\ Len(delivered) \in Nat
  BY <1>1, <1>2, LenProperties DEF ConnTypeOK
<1>4. /\ sendBuffer' \in Seq(Bytes) /\ Len(sendBuffer') = Len(sendBuffer) + Len(m)
      /\ \A i \in 1..Len(sendBuffer) : sendBuffer'[i] = sendBuffer[i]
      /\ \A i \in 1..Len(m) : sendBuffer'[Len(sendBuffer) + i] = m[i]
  BY <1>1, <1>2, JoinFacts DEF ConnTypeOK
<1>5. /\ accepted' \in Seq(Seq(Bytes)) /\ Len(accepted') = Len(accepted) + 1
      /\ \A k \in 1..Len(accepted) : accepted'[k] = accepted[k]
      /\ accepted'[Len(accepted) + 1] = m
  BY <1>1, <1>2, AppendProperties DEF ConnTypeOK
<1>6. ConnTypeOK'
  BY <1>1, <1>2, <1>4, <1>5 DEF ConnTypeOK
<1>7. StreamInv'
  <2>0. PICK stream \in Seq(Bytes) :
          \E ends \in [0..Len(accepted) -> 0..Len(stream)] :
             Spells(stream, ends) /\ InPlace(stream) /\ ReadSoFar(ends)
    BY DEF ConnInv, StreamInv
  <2>1. PICK ends \in [0..Len(accepted) -> 0..Len(stream)] :
          Spells(stream, ends) /\ InPlace(stream) /\ ReadSoFar(ends)
    BY <2>0
  <2>2. PICK longer \in Seq(Bytes) :
          /\ Len(longer) = Len(stream) + Len(m)
          /\ \A i \in 1..Len(stream) : longer[i] = stream[i]
          /\ \A i \in 1..Len(m) : longer[Len(stream) + i] = m[i]
    BY <1>1, JoinFacts
  <2>3. Len(stream) \in Nat /\ Len(longer) \in Nat
    BY LenProperties
  <2>4. PICK later \in [0..(Len(accepted) + 1) -> 0..Len(longer)] :
          /\ \A k \in 0..Len(accepted) : later[k] = ends[k]
          /\ later[Len(accepted) + 1] = Len(longer)
    <3> DEFINE f == [k \in 0..(Len(accepted) + 1) |->
                       IF k \in 0..Len(accepted) THEN ends[k] ELSE Len(longer)]
    <3>1. ASSUME NEW k \in 0..(Len(accepted) + 1)
          PROVE  (IF k \in 0..Len(accepted) THEN ends[k] ELSE Len(longer)) \in 0..Len(longer)
      <4>1. CASE k \in 0..Len(accepted)
        <5>1. ends[k] \in 0..Len(stream)
          BY <4>1
        <5>2. ends[k] \in 0..Len(longer)
          BY <1>3, <2>2, <2>3, <5>1
        <5>. QED
          BY <4>1, <5>2
      <4>2. CASE k \notin 0..Len(accepted)
        BY <2>3, <4>2
      <4>. QED
        BY <4>1, <4>2
    <3>2. f \in [0..(Len(accepted) + 1) -> 0..Len(longer)]
      BY <3>1
    <3>3. \A k \in 0..Len(accepted) : f[k] = ends[k]
      BY <1>3
    <3>4. f[Len(accepted) + 1] = Len(longer)
      BY <1>3
    <3> HIDE DEF f
    <3>. QED
      BY <3>2, <3>3, <3>4
  <2>5. later \in [0..Len(accepted') -> 0..Len(longer)]
    BY <1>5, <2>4
  <2>6. Spells(longer, later)'
    <3>1. later[0] = 0 /\ later[Len(accepted')] = Len(longer)
      <4>1. ends[0] = 0 /\ 0 \in 0..Len(accepted)
        BY <1>3, <2>1 DEF Spells
      <4>. QED
        BY <1>5, <2>4, <4>1
    <3>2. ASSUME NEW k \in 1..Len(accepted')
          PROVE  /\ isValidOutboundMessage(accepted'[k])
                 /\ later[k] = later[k - 1] + Len(accepted'[k])
                 /\ \A i \in 1..Len(accepted'[k]) : longer[later[k - 1] + i] = accepted'[k][i]
      <4>1. CASE k \in 1..Len(accepted)
        <5>1. /\ accepted'[k] = accepted[k] /\ later[k] = ends[k] /\ later[k - 1] = ends[k - 1]
          BY <1>3, <1>5, <2>4, <4>1, SMTT(30)
        <5>2. /\ isValidOutboundMessage(accepted[k])
              /\ ends[k] = ends[k - 1] + Len(accepted[k])
              /\ \A i \in 1..Len(accepted[k]) : stream[ends[k - 1] + i] = accepted[k][i]
          BY <2>1, <4>1 DEF Spells
        <5>3. ends[k] \in 0..Len(stream) /\ ends[k - 1] \in 0..Len(stream)
          <6>1. k \in 0..Len(accepted) /\ k - 1 \in 0..Len(accepted)
            BY <1>3, <4>1
          <6>. QED
            BY <6>1
        <5>4. Len(accepted[k]) \in Nat
          BY <1>2, <4>1, ElementOfSeq, LenProperties DEF ConnTypeOK
        <5>5. \A i \in 1..Len(accepted[k]) : ends[k - 1] + i \in 1..Len(stream)
          <6>1. ends[k] = ends[k - 1] + Len(accepted[k])
            BY <5>2
          <6>2. PICK a \in Nat, b \in Nat, l \in Nat :
                  a = ends[k - 1] /\ b = Len(accepted[k]) /\ l = Len(stream) /\ a + b <= l
            BY <2>3, <5>3, <5>4, <6>1
          <6>3. \A i \in 1..b : a + i \in 1..l
            BY <6>2, SMTT(30)
          <6>. QED
            BY <6>2, <6>3
        <5>6. \A i \in 1..Len(accepted[k]) : longer[ends[k - 1] + i] = accepted[k][i]
          BY <2>2, <5>2, <5>5
        <5>. QED
          BY <5>1, <5>2, <5>6
      <4>2. CASE k = Len(accepted) + 1
        <5>1. accepted'[k] = m /\ later[k] = Len(stream) + Len(m)
          BY <1>5, <2>2, <2>4, <4>2
        <5>2. k - 1 = Len(accepted) /\ Len(accepted) \in 0..Len(accepted)
          BY <1>3, <4>2
        <5>3. later[k - 1] = Len(stream)
          BY <2>1, <2>4, <5>2 DEF Spells
        <5>. QED
          BY <1>1, <2>2, <5>1, <5>3
      <4>3. k \in 1..Len(accepted) \/ k = Len(accepted) + 1
        BY <1>3, <1>5
      <4>. QED
        BY <4>1, <4>2, <4>3
    <3>. QED
      BY <3>1, <3>2 DEF Spells, isValidOutboundMessage
  <2>7. InPlace(longer)'
    <3>1. Len(received) + Len(wire) <= Len(stream)
      BY <2>1 DEF InPlace
    <3>2. \A i \in 1..Len(received) : received[i] = longer[i]
      <4>1. \A i \in 1..Len(received) : i \in 1..Len(stream)
        BY <1>3, <2>3, <3>1
      <4>. QED
        BY <2>1, <2>2, <4>1 DEF InPlace
    <3>3. \A i \in 1..Len(wire) : wire[i] = longer[Len(received) + i]
      <4>1. \A i \in 1..Len(wire) : Len(received) + i \in 1..Len(stream)
        BY <1>3, <2>3, <3>1
      <4>. QED
        BY <2>1, <2>2, <4>1 DEF InPlace
    <3>4. ASSUME ~reset
          PROVE  /\ Len(longer) = Len(received) + Len(wire) + Len(sendBuffer')
                 /\ \A i \in 1..Len(sendBuffer') :
                       sendBuffer'[i] = longer[Len(received) + Len(wire) + i]
      <4>1. /\ Len(stream) = Len(received) + Len(wire) + Len(sendBuffer)
            /\ \A i \in 1..Len(sendBuffer) :
                  sendBuffer[i] = stream[Len(received) + Len(wire) + i]
        BY <2>1, <3>4 DEF InPlace
      <4>2. ASSUME NEW i \in 1..Len(sendBuffer')
            PROVE  sendBuffer'[i] = longer[Len(received) + Len(wire) + i]
        <5>1. CASE i <= Len(sendBuffer)
          <6>1. i \in 1..Len(sendBuffer) /\ Len(received) + Len(wire) + i \in 1..Len(stream)
            BY <1>3, <4>1, <5>1
          <6>. QED
            BY <1>4, <2>2, <4>1, <6>1
        <5>2. CASE ~(i <= Len(sendBuffer))
          <6>1. PICK j \in 1..Len(m) : i = Len(sendBuffer) + j
            <7>1. i - Len(sendBuffer) \in 1..Len(m) /\ i = Len(sendBuffer) + (i - Len(sendBuffer))
              BY <1>3, <1>4, <5>2
            <7>. QED
              BY <7>1
          <6>2. Len(received) + Len(wire) + i = Len(stream) + j
            BY <1>3, <4>1, <6>1
          <6>. QED
            BY <1>4, <2>2, <6>1, <6>2
        <5>. QED
          BY <5>1, <5>2
      <4>3. Len(longer) = Len(received) + Len(wire) + Len(sendBuffer')
        BY <1>3, <1>4, <2>2, <4>1
      <4>. QED
        BY <4>2, <4>3
    <3>5. Len(received) + Len(wire) <= Len(longer)
      BY <1>3, <2>2, <2>3, <3>1
    <3>. QED
      BY <1>1, <3>2, <3>3, <3>4, <3>5 DEF InPlace
  <2>8. ReadSoFar(later)'
    <3>1. /\ Len(delivered) <= Len(accepted) /\ base = ends[Len(delivered)]
          /\ \A k \in 1..Len(delivered) : delivered[k] = accepted[k]
      BY <2>1 DEF ReadSoFar
    <3>2. Len(delivered) \in 0..Len(accepted) /\ Len(delivered) <= Len(accepted')
      BY <1>3, <1>5, <3>1
    <3>3. \A k \in 1..Len(delivered) : k \in 1..Len(accepted)
      BY <1>3, <3>1
    <3>. QED
      BY <1>1, <1>5, <2>4, <3>1, <3>2, <3>3 DEF ReadSoFar
  <2>. QED
    BY <2>2, <2>5, <2>6, <2>7, <2>8 DEF StreamInv
<1>8. ReaderInv'
  BY <1>1 DEF ConnInv, ReaderInv, Peer!Reader!HasLine
<1>9. EndInv'
  BY <1>1 DEF ConnInv, EndInv
<1>. QED
  BY <1>6, <1>7, <1>8, <1>9 DEF ConnInv

\* send() moves bytes from the buffer to the wire, or nowhere.
LEMMA HandleClientWriteKeeps ==
    ASSUME ConnInv, NEW n \in 1..WireCapacity, handleClientWrite(n)
    PROVE  ConnInv'
<1>1. /\ UNCHANGED <<dead, closing, gone, accepted, reset, received, base, state,
                      inLines, eof, delivered>>
      /\ ~gone /\ n <= Len(sendBuffer)
      /\ wire' = IF reset THEN wire ELSE wire \o SubSeq(sendBuffer, 1, n)
      /\ sendBuffer' = Rest(sendBuffer, n)
  BY DEF handleClientWrite, peerVars
<1>2. ConnTypeOK
  BY DEF ConnInv
<1>3. Len(sendBuffer) \in Nat /\ Len(received) \in Nat /\ Len(wire) \in Nat
  BY <1>2, LenProperties DEF ConnTypeOK
<1>4. n \in 1..Len(sendBuffer)
  BY <1>1, <1>3, ConnectionAssumption
<1> DEFINE sent == SubSeq(sendBuffer, 1, n)
<1>5. /\ sent \in Seq(Bytes) /\ Len(sent) = n
      /\ \A i \in 1..n : sent[i] = sendBuffer[i]
      /\ sendBuffer' \in Seq(Bytes) /\ Len(sendBuffer') = Len(sendBuffer) - n
      /\ \A i \in 1..(Len(sendBuffer) - n) : sendBuffer'[i] = sendBuffer[n + i]
  BY <1>1, <1>2, <1>4, CutFacts DEF ConnTypeOK
<1> HIDE DEF sent
<1>6. /\ wire \o sent \in Seq(Bytes) /\ Len(wire \o sent) = Len(wire) + n
      /\ \A i \in 1..Len(wire) : (wire \o sent)[i] = wire[i]
      /\ \A i \in 1..n : (wire \o sent)[Len(wire) + i] = sent[i]
  BY <1>2, <1>5, JoinFacts DEF ConnTypeOK
<1>7. ConnTypeOK'
  <2>1. wire' \in Seq(Bytes)
    BY <1>1, <1>2, <1>6 DEF sent, ConnTypeOK
  <2>. QED
    BY <1>1, <1>2, <1>5, <2>1 DEF ConnTypeOK
<1>8. ASSUME NEW stream \in Seq(Bytes), InPlace(stream)
      PROVE  InPlace(stream)'
  <2>1. CASE reset
    BY <1>1, <1>8, <2>1 DEF InPlace
  <2>2. CASE ~reset
    <3>1. wire' = wire \o sent
      BY <1>1, <2>2 DEF sent
    <3>2. /\ Len(stream) = Len(received) + Len(wire) + Len(sendBuffer)
          /\ \A i \in 1..Len(sendBuffer) :
                sendBuffer[i] = stream[Len(received) + Len(wire) + i]
      BY <1>8, <2>2 DEF InPlace
    <3>3. /\ Len(received) + Len(wire') <= Len(stream)
          /\ Len(stream) = Len(received) + Len(wire') + Len(sendBuffer')
      <4>1. Len(wire') = Len(wire) + n /\ Len(sendBuffer') = Len(sendBuffer) - n
        BY <1>5, <1>6, <3>1
      <4>2. Len(stream) = Len(received) + Len(wire) + Len(sendBuffer)
        BY <3>2
      <4>. QED
        BY <1>3, <1>4, <4>1, <4>2
    <3>4. ASSUME NEW i \in 1..Len(wire')
          PROVE  wire'[i] = stream[Len(received) + i]
      <4>1. CASE i <= Len(wire)
        BY <1>3, <1>6, <1>8, <3>1, <4>1 DEF InPlace
      <4>2. CASE ~(i <= Len(wire))
        <5>1. i - Len(wire) \in 1..n /\ Len(wire) + (i - Len(wire)) = i
          BY <1>3, <1>4, <1>6, <3>1, <4>2
        <5>2. PICK j \in 1..n : i = Len(wire) + j
          BY <5>1
        <5>3. j \in 1..Len(sendBuffer)
          BY <1>3, <1>4
        <5>4. wire'[i] = sendBuffer[j]
          BY <1>5, <1>6, <3>1, <5>2
        <5>5. Len(received) + Len(wire) + j = Len(received) + i
          BY <1>3, <5>2
        <5>. QED
          BY <3>2, <5>3, <5>4, <5>5
      <4>. QED
        BY <4>1, <4>2
    <3>5. ASSUME NEW i \in 1..Len(sendBuffer')
          PROVE  sendBuffer'[i] = stream[Len(received) + Len(wire') + i]
      <4>1. i \in 1..(Len(sendBuffer) - n) /\ n + i \in 1..Len(sendBuffer)
        BY <1>3, <1>4, <1>5
      <4>2. Len(received) + Len(wire) + (n + i) = Len(received) + Len(wire') + i
        <5>1. Len(wire') = Len(wire) + n
          BY <1>6, <3>1
        <5>. QED
          BY <1>3, <1>4, <5>1
      <4>. QED
        BY <1>5, <3>2, <4>1, <4>2
    <3>6. \A i \in 1..Len(received) : received[i] = stream[i]
      BY <1>8 DEF InPlace
    <3>. QED
      BY <1>1, <3>3, <3>4, <3>5, <3>6 DEF InPlace
  <2>. QED
    BY <2>1, <2>2
<1>9. StreamInv'
  BY <1>1, <1>8, ZenonT(60) DEF ConnInv, StreamInv, Spells, ReadSoFar, isValidOutboundMessage
<1>10. ReaderInv'
  BY <1>1 DEF ConnInv, ReaderInv, Peer!Reader!HasLine
<1>11. EndInv'
  BY <1>1 DEF ConnInv, EndInv
<1>. QED
  BY <1>7, <1>9, <1>10, <1>11 DEF ConnInv

\* What was in flight is lost, and what is queued will be.
LEMMA ResetKeeps ==
    ASSUME ConnInv, Reset
    PROVE  ConnInv'
<1>1. /\ UNCHANGED <<sendBuffer, dead, closing, gone, accepted, received, base, state,
                      inLines, eof, delivered>>
      /\ reset' = TRUE /\ wire' = <<>> /\ ~eof
  BY DEF Reset, serverVars, peerVars
<1>2. wire' \in Seq(Bytes) /\ Len(wire') = 0
  BY <1>1, EmptySeq
<1>3. ConnTypeOK'
  BY <1>1, <1>2 DEF ConnInv, ConnTypeOK
<1>4. ASSUME NEW stream \in Seq(Bytes), InPlace(stream)
      PROVE  InPlace(stream)'
  <2>1. Len(received) \in Nat /\ Len(wire) \in Nat /\ Len(stream) \in Nat
    BY LenProperties DEF ConnInv, ConnTypeOK
  <2>2. Len(received) + Len(wire') <= Len(stream)
    BY <1>2, <1>4, <2>1 DEF InPlace
  <2>. QED
    BY <1>1, <1>2, <1>4, <2>2 DEF InPlace
<1>5. StreamInv'
  BY <1>1, <1>4, ZenonT(60) DEF ConnInv, StreamInv, Spells, ReadSoFar, isValidOutboundMessage
<1>6. ReaderInv'
  BY <1>1 DEF ConnInv, ReaderInv, Peer!Reader!HasLine
<1>7. EndInv'
  BY <1>1 DEF ConnInv, EndInv
<1>. QED
  BY <1>3, <1>5, <1>6, <1>7 DEF ConnInv

\* recv() moves bytes from the wire to the reader's buffer, which has room.
LEMMA PeerReceivesKeeps ==
    ASSUME ConnInv, PeerReceives
    PROVE  ConnInv' /\ state' = state
<1>1. PICK n \in 1..MaxChunk :
        n <= Len(wire) /\ Peer!BotReceives(SubSeq(wire, 1, n)) /\ wire' = Rest(wire, n)
  BY DEF PeerReceives
<1>2. UNCHANGED <<sendBuffer, dead, closing, gone, accepted, reset, eof, delivered>>
  BY DEF PeerReceives, serverVars
<1>3. ConnTypeOK
  BY DEF ConnInv
<1>4. Len(received) \in Nat /\ Len(wire) \in Nat /\ base \in Nat /\ base <= Len(received)
      /\ Len(sendBuffer) \in Nat
  BY <1>3, LenProperties DEF ConnTypeOK
<1>5. n \in 1..Len(wire) /\ n <= MaxChunk
  BY <1>1, <1>4, ConnectionAssumption
<1> DEFINE chunk == SubSeq(wire, 1, n)
<1>6. /\ chunk \in Seq(Bytes) /\ Len(chunk) = n
      /\ \A i \in 1..n : chunk[i] = wire[i]
      /\ wire' \in Seq(Bytes) /\ Len(wire') = Len(wire) - n
      /\ \A i \in 1..(Len(wire) - n) : wire'[i] = wire[n + i]
  BY <1>1, <1>3, <1>5, CutFacts DEF ConnTypeOK
<1>7. /\ ~inLines /\ state = "open" /\ received' = received \o chunk /\ base' = base
      /\ Peer!Outcome(Peer!Residue + Len(chunk) <= MaxBuffer)
  BY <1>1 DEF Peer!BotReceives, Peer!Receives
<1> HIDE DEF chunk
<1>8. /\ received' \in Seq(Bytes) /\ Len(received') = Len(received) + n
      /\ \A i \in 1..Len(received) : received'[i] = received[i]
      /\ \A i \in 1..n : received'[Len(received) + i] = chunk[i]
  BY <1>3, <1>6, <1>7, JoinFacts DEF ConnTypeOK
<1>9. state' = "open" /\ inLines' = TRUE
  <2>1. Len(received) - base < MaxLine
    BY <1>7 DEF ConnInv, ReaderInv
  <2>2. Peer!Residue + Len(chunk) <= MaxBuffer
    BY <1>4, <1>5, <1>6, <2>1, ConnectionAssumption DEF Peer!Residue
  <2>. QED
    BY <1>7, <2>2 DEF Peer!Outcome
<1>10. ConnTypeOK'
  <2>1. base' \in 0..Len(received')
    BY <1>4, <1>5, <1>7, <1>8
  <2>. QED
    BY <1>2, <1>3, <1>6, <1>8, <1>9, <2>1 DEF ConnTypeOK
<1>11. ASSUME NEW stream \in Seq(Bytes), InPlace(stream)
       PROVE  InPlace(stream)'
  <2>1. Len(received') + Len(wire') = Len(received) + Len(wire)
    BY <1>4, <1>5, <1>6, <1>8
  <2>2. ASSUME NEW i \in 1..Len(received') PROVE received'[i] = stream[i]
    <3>1. CASE i <= Len(received)
      BY <1>4, <1>8, <1>11, <3>1 DEF InPlace
    <3>2. CASE ~(i <= Len(received))
      <4>1. i - Len(received) \in 1..n /\ Len(received) + (i - Len(received)) = i
        BY <1>4, <1>5, <1>8, <3>2
      <4>2. PICK j \in 1..n : i = Len(received) + j
        BY <4>1
      <4>3. j \in 1..Len(wire)
        BY <1>4, <1>5
      <4>. QED
        BY <1>6, <1>8, <1>11, <4>2, <4>3 DEF InPlace
    <3>. QED
      BY <3>1, <3>2
  <2>3. ASSUME NEW i \in 1..Len(wire') PROVE wire'[i] = stream[Len(received') + i]
    <3>1. i \in 1..(Len(wire) - n) /\ n + i \in 1..Len(wire)
          /\ Len(received) + (n + i) = Len(received') + i
      BY <1>4, <1>5, <1>6, <1>8
    <3>2. wire[n + i] = stream[Len(received) + (n + i)]
      BY <1>11, <3>1 DEF InPlace
    <3>. QED
      BY <1>6, <3>1, <3>2
  <2>. QED
    BY <1>2, <1>11, <2>1, <2>2, <2>3 DEF InPlace
<1>12. StreamInv'
  BY <1>2, <1>7, <1>11, ZenonT(60) DEF ConnInv, StreamInv, Spells, ReadSoFar, isValidOutboundMessage
<1>13. ReaderInv'
  BY <1>9 DEF ReaderInv
<1>14. EndInv'
  <2>1. wire # <<>>
    BY <1>4, <1>5, EmptySeq
  <2>2. ~reset /\ ~eof
    BY <2>1 DEF ConnInv, EndInv
  <2>. QED
    BY <1>2, <2>2 DEF ConnInv, EndInv
<1>. QED
  BY <1>7, <1>9, <1>10, <1>12, <1>13, <1>14 DEF ConnInv

\* A turn of the reader's loop takes the next message whole, or finds nothing.
LEMMA PeerExtractLineKeeps ==
    ASSUME ConnInv, PeerExtractLine
    PROVE  /\ ConnInv'
           /\ ~eof
           /\ \/ UNCHANGED <<delivered, state>>
              \/ /\ Len(delivered) < Len(accepted)
                 /\ delivered' = Append(delivered, accepted[Len(delivered) + 1])
<1>1. /\ UNCHANGED <<sendBuffer, dead, closing, gone, accepted, wire, reset, eof, received>>
      /\ inLines = TRUE
      /\ delivered' = IF base' > base /\ state' # "refused"
                      THEN Append(delivered, SubSeq(received, base + 1, base'))
                      ELSE delivered
  BY DEF PeerExtractLine, serverVars, Peer!BotExtractLine, ConnInv, ConnTypeOK
<1>2. ConnTypeOK /\ state = "open" /\ ~eof
  BY <1>1 DEF ConnInv, ReaderInv, EndInv
<1>3. /\ Len(received) \in Nat /\ base \in Nat /\ base <= Len(received)
      /\ Len(delivered) \in Nat /\ Len(accepted) \in Nat
  BY <1>2, LenProperties DEF ConnTypeOK
<1>4. PICK stream \in Seq(Bytes) :
        \E ends \in [0..Len(accepted) -> 0..Len(stream)] :
           Spells(stream, ends) /\ InPlace(stream) /\ ReadSoFar(ends)
  BY DEF ConnInv, StreamInv
<1>5. PICK ends \in [0..Len(accepted) -> 0..Len(stream)] :
        Spells(stream, ends) /\ InPlace(stream) /\ ReadSoFar(ends)
  BY <1>4
<1>6. Spells(stream, ends)' /\ InPlace(stream)'
  BY <1>1, <1>5 DEF Spells, InPlace, isValidOutboundMessage
<1>7. EndInv'
  BY <1>1, <1>2 DEF ConnInv, EndInv
<1>8. CASE /\ ~Peer!Reader!HasLine(received, base)
           /\ inLines' = FALSE /\ UNCHANGED base
           /\ state' = IF Peer!Residue >= MaxLine THEN "refused" ELSE state
  <2>1. Len(received) - base < MaxLine
    BY <1>2, <1>5, <1>8, NoLineLeft
  <2>2. state' = state
    BY <1>3, <1>8, <2>1, ConnectionAssumption DEF Peer!Residue
  <2>3. delivered' = delivered
    BY <1>1, <1>3, <1>8
  <2>4. ConnTypeOK'
    BY <1>1, <1>2, <1>8, <2>2, <2>3 DEF ConnTypeOK
  <2>5. ReadSoFar(ends)'
    BY <1>1, <1>5, <1>8, <2>3 DEF ReadSoFar
  <2>6. StreamInv'
    BY <1>1, <1>6, <2>5 DEF StreamInv
  <2>7. ReaderInv'
    BY <1>1, <1>8, <2>1 DEF ReaderInv, Peer!Reader!HasLine
  <2>. QED
    BY <1>2, <1>7, <2>2, <2>3, <2>4, <2>6, <2>7 DEF ConnInv
<1>9. ASSUME NEW p \in (base + 1)..Len(received),
             Peer!Reader!EndsLine(received, base, p),
             IF Peer!Reader!WellFormed(received, base, p)
             THEN Peer!Process(p)
             ELSE /\ base' = IF p - base > MaxLine THEN base ELSE p
                  /\ Peer!Outcome(FALSE)
      PROVE  /\ ConnInv'
             /\ Len(delivered) < Len(accepted)
             /\ delivered' = Append(delivered, accepted[Len(delivered) + 1])
  <2>1. /\ Len(delivered) < Len(accepted)
        /\ p = ends[Len(delivered) + 1]
        /\ Peer!Reader!WellFormed(received, base, p)
        /\ SubSeq(received, base + 1, p) = accepted[Len(delivered) + 1]
    BY <1>2, <1>5, <1>9, LineIsMessage
  <2>2. base' = p /\ state' \in {"open", "stopped"} /\ inLines' = (state' = "open")
    BY <1>9, <2>1 DEF Peer!Process
  <2>3. base' > base /\ base' \in 0..Len(received)
    BY <1>3, <2>2
  <2>4. delivered' = Append(delivered, accepted[Len(delivered) + 1])
    BY <1>1, <2>1, <2>2, <2>3
  <2>5. Len(delivered) + 1 \in 1..Len(accepted)
    BY <1>3, <2>1
  <2>6. accepted[Len(delivered) + 1] \in Seq(Bytes)
    BY <1>2, <2>5, ElementOfSeq DEF ConnTypeOK
  <2>7. /\ delivered' \in Seq(Seq(Bytes)) /\ Len(delivered') = Len(delivered) + 1
        /\ \A k \in 1..Len(delivered) : delivered'[k] = delivered[k]
        /\ delivered'[Len(delivered) + 1] = accepted[Len(delivered) + 1]
    BY <1>2, <2>4, <2>6, AppendProperties DEF ConnTypeOK
  <2>8. ConnTypeOK'
    BY <1>1, <1>2, <2>2, <2>3, <2>7 DEF ConnTypeOK
  <2>9. ReadSoFar(ends)'
    <3>1. \A k \in 1..Len(delivered') : delivered'[k] = accepted[k]
      <4>. SUFFICES ASSUME NEW k \in 1..Len(delivered') PROVE delivered'[k] = accepted[k]
        OBVIOUS
      <4>1. k \in 1..Len(delivered) \/ k = Len(delivered) + 1
        BY <1>3, <2>7
      <4>. QED
        BY <1>5, <2>7, <4>1 DEF ReadSoFar
    <3>2. Len(delivered') <= Len(accepted) /\ base' = ends[Len(delivered')]
      BY <2>1, <2>2, <2>5, <2>7
    <3>. QED
      BY <1>1, <3>1, <3>2 DEF ReadSoFar
  <2>10. StreamInv'
    BY <1>1, <1>6, <2>9 DEF StreamInv
  <2>11. ReaderInv'
    BY <2>2 DEF ReaderInv
  <2>. QED
    BY <1>7, <2>1, <2>4, <2>8, <2>10, <2>11 DEF ConnInv
<1>. QED
  BY <1>2, <1>8, <1>9 DEF PeerExtractLine, Peer!BotExtractLine

\* At the end of the stream everything that was accepted has been read, unless
\* the connection broke.
LEMMA PeerEofKeeps ==
    ASSUME ConnInv, PeerEof
    PROVE  ConnInv' /\ (dead \/ delivered = accepted)
<1>1. /\ UNCHANGED <<sendBuffer, dead, closing, gone, accepted, wire, reset, received, base,
                      state, inLines, delivered>>
      /\ gone /\ ~reset /\ wire = <<>> /\ state = "open" /\ ~inLines /\ eof' = TRUE
  BY DEF PeerEof, serverVars, peerVars
<1>2. ConnTypeOK
  BY DEF ConnInv
<1>3. ConnTypeOK' /\ EndInv'
  BY <1>1, <1>2 DEF ConnTypeOK, ConnInv, EndInv
<1>4. StreamInv' /\ ReaderInv'
  BY <1>1, NoByteMoves DEF peerVars
<1>5. ASSUME ~dead PROVE delivered = accepted
  <2>1. sendBuffer = <<>> /\ ~Peer!Reader!HasLine(received, base)
    BY <1>1, <1>5 DEF ConnInv, EndInv, ReaderInv
  <2>2. PICK stream \in Seq(Bytes) :
          \E ends \in [0..Len(accepted) -> 0..Len(stream)] :
             Spells(stream, ends) /\ InPlace(stream) /\ ReadSoFar(ends)
    BY DEF ConnInv, StreamInv
  <2>3. PICK ends \in [0..Len(accepted) -> 0..Len(stream)] :
          Spells(stream, ends) /\ InPlace(stream) /\ ReadSoFar(ends)
    BY <2>2
  <2>4. Len(received) \in Nat /\ Len(wire) = 0 /\ Len(sendBuffer) = 0
    BY <1>1, <1>2, <2>1, LenProperties, EmptySeq DEF ConnTypeOK
  <2>5. Len(received) = Len(stream)
    BY <1>1, <2>3, <2>4 DEF InPlace
  <2>6. Len(delivered) = Len(accepted)
    BY <1>2, <2>1, <2>3, <2>5, NoLineLeft
  <2>7. \A k \in 1..Len(delivered) : delivered[k] = accepted[k]
    BY <2>3 DEF ReadSoFar
  <2>. QED
    BY <1>2, <2>6, <2>7, SeqEqual DEF ConnTypeOK
<1>. QED
  BY <1>3, <1>4, <1>5 DEF ConnInv
-----------------------------------------------------------------------------
(* The theorems.                                                           *)

QueueNext == Queue!Accept \/ Queue!Deliver \/ Queue!Close \/ Queue!Break

LEMMA ConnStep ==
    ASSUME ConnInv, [Next]_vars
    PROVE  ConnInv' /\ [QueueNext]_(Queue!queueVars)
<1>1. ASSUME NEW m \in Texts, sendMessage(m)
      PROVE  ConnInv' /\ [QueueNext]_(Queue!queueVars)
  <2>1. /\ UNCHANGED <<closing, gone, wire, reset, received, base, state, inLines, eof, delivered>>
        /\ ~gone /\ isValidOutboundMessage(m)
    BY <1>1 DEF sendMessage, peerVars
  <2>2. ~eof
    BY <2>1 DEF ConnInv, EndInv
  <2>3. CASE dead' = TRUE /\ UNCHANGED <<sendBuffer, accepted>>
    <3>1. StreamInv' /\ ReaderInv'
      BY <2>1, <2>3, NoByteMoves DEF peerVars
    <3>2. ConnTypeOK' /\ EndInv'
      BY <2>1, <2>3 DEF ConnInv, ConnTypeOK, EndInv
    <3>3. Queue!Break \/ UNCHANGED Queue!queueVars
      BY <2>1, <2>2, <2>3 DEF Queue!Break, Queue!queueVars, Broken
    <3>. QED
      BY <3>1, <3>2, <3>3 DEF ConnInv, QueueNext
  <2>4. CASE sendBuffer' = sendBuffer \o m /\ accepted' = Append(accepted, m) /\ UNCHANGED dead
    <3>1. ConnInv'
      BY <1>1, <2>4, SendMessageKeeps
    <3>2. Queue!Accept
      BY <2>1, <2>2, <2>4 DEF Queue!Accept, Broken
    <3>. QED
      BY <3>1, <3>2 DEF QueueNext
  <2>. QED
    BY <1>1, <2>3, <2>4 DEF sendMessage
<1>2. CASE markClosing \/ SocketError \/ reapDeadClients
  <2>1. UNCHANGED <<sendBuffer, accepted, wire, reset, received, base, state, inLines, eof, delivered>>
    BY <1>2 DEF markClosing, SocketError, reapDeadClients, peerVars
  <2>2. StreamInv' /\ ReaderInv'
    BY <2>1, NoByteMoves DEF peerVars
  <2>3. ConnTypeOK' /\ EndInv'
    <3>1. CASE markClosing
      BY <2>1, <3>1 DEF ConnInv, ConnTypeOK, EndInv, markClosing
    <3>2. CASE SocketError
      BY <2>1, <3>2 DEF ConnInv, ConnTypeOK, EndInv, SocketError
    <3>3. CASE reapDeadClients
      BY <2>1, <3>3 DEF ConnInv, ConnTypeOK, EndInv, reapDeadClients
    <3>. QED
      BY <1>2, <3>1, <3>2, <3>3
  <2>4. CASE SocketError
    <3>1. ~eof /\ dead' = TRUE
      BY <2>4 DEF ConnInv, EndInv, SocketError
    <3>2. Queue!Break \/ UNCHANGED Queue!queueVars
      BY <2>1, <3>1 DEF Queue!Break, Queue!queueVars, Broken
    <3>. QED
      BY <2>2, <2>3, <3>2 DEF ConnInv, QueueNext
  <2>5. CASE markClosing \/ reapDeadClients
    <3>1. UNCHANGED Queue!queueVars
      BY <2>1, <2>5 DEF Queue!queueVars, Broken, markClosing, reapDeadClients
    <3>. QED
      BY <2>2, <2>3, <3>1 DEF ConnInv
  <2>. QED
    BY <1>2, <2>4, <2>5
<1>3. ASSUME NEW n \in 1..WireCapacity, handleClientWrite(n)
      PROVE  ConnInv' /\ [QueueNext]_(Queue!queueVars)
  <2>1. UNCHANGED Queue!queueVars
    BY <1>3 DEF handleClientWrite, Queue!queueVars, Broken, peerVars
  <2>. QED
    BY <1>3, <2>1, HandleClientWriteKeeps
<1>4. CASE Reset
  <2>1. Queue!Break \/ UNCHANGED Queue!queueVars
    BY <1>4 DEF Reset, Queue!Break, Queue!queueVars, Broken, serverVars, peerVars
  <2>. QED
    BY <1>4, <2>1, ResetKeeps DEF QueueNext
<1>5. CASE PeerReceives
  <2>1. ConnInv' /\ state' = state
    BY <1>5, PeerReceivesKeeps
  <2>2. UNCHANGED Queue!queueVars
    BY <1>5, <2>1 DEF PeerReceives, Queue!queueVars, Broken, serverVars
  <2>. QED
    BY <2>1, <2>2
<1>6. CASE PeerExtractLine
  <2>1. /\ ConnInv' /\ ~eof
        /\ \/ UNCHANGED <<delivered, state>>
           \/ /\ Len(delivered) < Len(accepted)
              /\ delivered' = Append(delivered, accepted[Len(delivered) + 1])
    BY <1>6, PeerExtractLineKeeps
  <2>2. UNCHANGED <<dead, accepted, reset, eof>> /\ state = "open"
    BY <1>6 DEF PeerExtractLine, serverVars, Peer!BotExtractLine, ConnInv, ReaderInv
  <2>3. CASE UNCHANGED <<delivered, state>>
    BY <2>1, <2>2, <2>3 DEF Queue!queueVars, Broken
  <2>4. CASE /\ Len(delivered) < Len(accepted)
             /\ delivered' = Append(delivered, accepted[Len(delivered) + 1])
    <3>1. Queue!Deliver
      BY <2>1, <2>2, <2>4 DEF Queue!Deliver, Broken
    <3>. QED
      BY <2>1, <3>1 DEF QueueNext
  <2>. QED
    BY <2>1, <2>3, <2>4
<1>7. CASE PeerEof
  <2>1. ConnInv' /\ (dead \/ delivered = accepted)
    BY <1>7, PeerEofKeeps
  <2>2. Queue!Close \/ UNCHANGED Queue!queueVars
    BY <1>7, <2>1 DEF PeerEof, Queue!Close, Queue!queueVars, Broken, serverVars, peerVars
  <2>. QED
    BY <2>1, <2>2 DEF QueueNext
<1>8. CASE UNCHANGED vars
  <2>1. UNCHANGED <<sendBuffer, dead, closing, gone, accepted, wire, reset, received, base,
                    state, inLines, eof, delivered>>
    BY <1>8 DEF vars, serverVars, peerVars
  <2>2. StreamInv' /\ ReaderInv'
    BY <2>1, NoByteMoves DEF peerVars
  <2>. QED
    BY <2>1, <2>2 DEF ConnInv, ConnTypeOK, EndInv, Queue!queueVars, Broken
<1>. QED
  BY <1>1, <1>2, <1>3, <1>4, <1>5, <1>6, <1>7, <1>8 DEF Next

\* Nothing that Client::sendMessage lets through is refused by Bot::extractLine,
\* however send() and recv() cut it and whenever the connection breaks.
THEOREM ReaderRefusesNothing == Spec => []PeerNeverRefuses
<1>1. ConnInv /\ [Next]_vars => ConnInv'
  BY ConnStep
<1>2. ConnInv => PeerNeverRefuses
  BY DEF ConnInv, ConnTypeOK, PeerNeverRefuses
<1>. QED
  BY <1>1, <1>2, ConnInitially, PTL DEF Spec

\* The send buffer, the partial writes of Server::handleClientWrite, the
\* two-stage close of Server::reapDeadClients and the reader's buffer together
\* implement a queue of messages.
THEOREM DeliveryIsQueue == Spec => MessagesArrive
<1>1. ConnInv /\ [Next]_vars => ConnInv' /\ [QueueNext]_(Queue!queueVars)
  BY ConnStep
<1>2. Init => Queue!QueueInit
  BY DEF Init, Peer!Init, Queue!QueueInit, Broken
<1>. QED
  BY <1>1, <1>2, ConnInitially, PTL DEF Spec, MessagesArrive, Queue!QueueSpec, QueueNext
=============================================================================
