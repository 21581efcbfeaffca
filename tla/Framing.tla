------------------------------ MODULE Framing -------------------------------
(***************************************************************************)
(* The receive buffers of the two programs: Client::appendToRecvBuffer and *)
(* Client::extractLine with the loop of Server::handleClientRead           *)
(* (src/client/Client.cpp, src/server/Server.cpp), and Bot::extractLine    *)
(* with the loop of Bot::receiveMessages (src/bot/Bot.cpp).  They test the *)
(* limits in different places; both implement LineReader.                  *)
(*                                                                         *)
(* Bytes are of four kinds, those the code tells apart.  received is what  *)
(* recv() has returned so far and base how much of it has been erased from *)
(* the front of the buffer, so the buffer is what lies between.            *)
(***************************************************************************)
EXTENDS Naturals, Sequences, FiniteSets

CONSTANTS
    MaxLine,    \* MAX_IRC_MESSAGE_SIZE
    MaxChunk,   \* RECV_CHUNK_SIZE
    MaxBuffer,  \* MAX_RECV_BUFFER
    MaxStream   \* bound on the bytes a peer sends

ASSUME FramingAssumption ==
    /\ MaxLine \in Nat \ {0} /\ MaxChunk \in Nat /\ MaxBuffer \in Nat
    /\ MaxStream \in Nat
    /\ MaxLine <= MaxChunk              \* 512 <= 4096
    /\ 2 * MaxChunk <= MaxBuffer + 1    \* 2 * 4096 <= 8192 + 1

VARIABLES
    received,
    base,
    state,     \* "open"; "refused": dead for its input; "stopped": ended by a line
    inLines    \* the line loop is running

vars == <<received, base, state, inLines>>

Reader == INSTANCE LineReader WITH stream <- received, taken <- base

Chunks == UNION {[1..n -> Reader!Bytes] : n \in 1..MaxChunk}

Init ==
    /\ received = <<>>
    /\ base = 0
    /\ state = "open"
    /\ inLines = FALSE

Residue == Len(received) - base

Outcome_NoReturn(ok) ==
    /\ state' = IF ok THEN "open" ELSE "refused"
    /\ inLines' = TRUE

\* What follows a limit that is tested: the line loop, or the end.
Outcome(ok) ==
    /\ state' = IF ok THEN "open" ELSE "refused"
    /\ inLines' = ok

\* recv() returned a chunk.
Receives(chunk) ==
    /\ ~inLines /\ state = "open"
    /\ Len(received) + Len(chunk) <= MaxStream
    /\ received' = received \o chunk
    /\ UNCHANGED base

appendToRecvBuffer_NoResidueLimit(chunk) ==
    /\ Receives(chunk)
    /\ Outcome(Residue + Len(chunk) <= MaxBuffer)

\* appendToRecvBuffer: full, or a whole line's worth without a newline.
appendToRecvBuffer(chunk) ==
    /\ Receives(chunk)
    /\ Outcome(/\ Residue + Len(chunk) <= MaxBuffer
               /\ Reader!HasLine(received', base) \/ Len(received') - base < MaxLine)

\* The line is processed, which may end the connection (QUIT, or a reply that
\* does not fit; for the bot, a refusal by the server).
Process(p) ==
    /\ base' = p
    /\ state' \in {"open", "stopped"}
    /\ inLines' = (state' = "open")

extractLine_KeepsNewline ==
    /\ inLines /\ UNCHANGED received
    /\ \/ /\ ~Reader!HasLine(received, base)
          /\ inLines' = FALSE /\ UNCHANGED <<base, state>>
       \/ \E p \in (base + 1)..Len(received) :
             Reader!EndsLine(received, base, p) /\ Process(p - 1)

\* One turn of the loop of handleClientRead.
extractLine ==
    /\ inLines /\ UNCHANGED received
    /\ \/ /\ ~Reader!HasLine(received, base)
          /\ inLines' = FALSE /\ UNCHANGED <<base, state>>
       \/ \E p \in (base + 1)..Len(received) :
             /\ Reader!EndsLine(received, base, p)
             /\ IF Reader!WellFormed(received, base, p)
                THEN Process(p)
                ELSE base' = p /\ Outcome(FALSE)

\* Bot::receiveMessages up to its loop: only the buffer limit.
BotReceives(chunk) ==
    /\ Receives(chunk)
    /\ Outcome(Residue + Len(chunk) <= MaxBuffer)

BotExtractLine_NoResidueLimit ==
    /\ inLines /\ UNCHANGED received
    /\ \/ /\ ~Reader!HasLine(received, base)
          /\ inLines' = FALSE /\ UNCHANGED <<base, state>>
       \/ \E p \in (base + 1)..Len(received) :
             /\ Reader!EndsLine(received, base, p)
             /\ IF Reader!WellFormed(received, base, p)
                THEN Process(p)
                ELSE UNCHANGED base /\ Outcome(FALSE)

\* Bot::extractLine: the residue is measured when no newline is left, and an
\* oversized line stays in the buffer.
BotExtractLine ==
    /\ inLines /\ UNCHANGED received
    /\ \/ /\ ~Reader!HasLine(received, base)
          /\ inLines' = FALSE /\ UNCHANGED base
          /\ state' = IF Residue >= MaxLine THEN "refused" ELSE state
       \/ \E p \in (base + 1)..Len(received) :
             /\ Reader!EndsLine(received, base, p)
             /\ IF Reader!WellFormed(received, base, p)
                THEN Process(p)
                ELSE /\ base' = IF p - base > MaxLine THEN base ELSE p
                     /\ Outcome(FALSE)

ServerNext == (\E chunk \in Chunks : appendToRecvBuffer(chunk)) \/ extractLine

BotNext == (\E chunk \in Chunks : BotReceives(chunk)) \/ BotExtractLine

ServerSpec == Init /\ [][ServerNext]_vars

BotSpec == Init /\ [][BotNext]_vars
-----------------------------------------------------------------------------
(* Correctness.                                                            *)

\* Both readers deliver the lines of the stream whole and in order however
\* recv() cuts it, and refuse a peer only for a malformed line: in particular
\* MAX_RECV_BUFFER never refuses anyone.
DeliversLines == Reader!ReaderSpec

TypeOK ==
    /\ received \in Seq(Reader!Bytes)
    /\ base \in 0..Len(received)
    /\ state \in {"open", "refused", "stopped"}
    /\ inLines \in BOOLEAN
    /\ inLines => state = "open"

\* Between two recv() calls no complete line is left unread, and what is left
\* of a line fits into one chunk, so the next chunk always fits the buffer.
ResidueBounded ==
    state = "open" /\ ~inLines =>
        ~Reader!HasLine(received, base) /\ Residue < MaxChunk

\* The bot waits for more input only while the line may still be completed;
\* the server may sit on a line that is already too long until the next byte.
HopelessLineRefused ==
    state = "open" /\ ~inLines => ~Reader!Malformed(received, base)
=============================================================================
