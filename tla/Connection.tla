----------------------------- MODULE Connection -----------------------------
(***************************************************************************)
(* The way of a message from Client::sendMessage to the program at the     *)
(* other end: the send buffer (src/client/Client.cpp), the partial writes  *)
(* of Server::handleClientWrite, the two-stage end of a connection         *)
(* (src/server/Server.cpp), TCP, and a reader with the receive buffer of   *)
(* Framing (the bot's).  Commands and Server count the send buffer in      *)
(* units; here it is bytes.                                                *)
(*                                                                         *)
(* TCP is external: it carries what send() took in order, holds at most    *)
(* WireCapacity bytes, keeps what is in flight when the server closes, and *)
(* may be reset.                                                           *)
(***************************************************************************)
EXTENDS Naturals, Sequences

CONSTANTS
    MaxLine, MaxChunk, MaxBuffer, MaxStream,  \* see Framing
    MaxSend,       \* MAX_SEND_BUFFER in bytes
    WireCapacity,  \* bytes the kernels hold
    Texts,         \* what handlers give to sendMessage, well formed or not
    MaxMessages    \* bound on the messages accepted

ASSUME ConnectionAssumption ==
    /\ MaxSend \in Nat /\ WireCapacity \in Nat \ {0} /\ MaxMessages \in Nat
    /\ MaxMessages * MaxLine <= MaxStream
    /\ MaxLine \in Nat \ {0} /\ MaxChunk \in Nat /\ MaxBuffer \in Nat
    /\ MaxLine <= MaxChunk /\ 2 * MaxChunk <= MaxBuffer + 1   \* see Framing
    /\ Texts \subseteq Seq({"x", "cr", "nl", "nul"})

VARIABLES
    sendBuffer,   \* _sendBuffer
    dead,         \* _dead, set by an overflow or an error
    closing,      \* _closing
    gone,         \* the Client is deleted and its descriptor closed
    wire,         \* bytes in flight
    reset,        \* the connection was reset
    received, base, state, inLines,  \* the reader, see Framing
    eof,          \* the reader saw the end of the stream
    accepted,     \* the messages sendMessage has queued (history)
    delivered     \* the lines the reader has processed (history)

serverVars == <<sendBuffer, dead, closing, gone, accepted>>
peerVars == <<received, base, state, inLines>>
vars == <<serverVars, wire, reset, peerVars, eof, delivered>>

Peer == INSTANCE Framing

Init ==
    /\ sendBuffer = <<>> /\ accepted = <<>> /\ delivered = <<>>
    /\ dead = FALSE /\ closing = FALSE /\ gone = FALSE
    /\ wire = <<>> /\ reset = FALSE /\ eof = FALSE
    /\ Peer!Init
-----------------------------------------------------------------------------
(* The server's side.                                                      *)

isValidOutboundMessage_LengthOnly(m) == Len(m) >= 2 /\ Len(m) <= MaxLine

isValidOutboundMessage(m) ==
    /\ Len(m) >= 2 /\ Len(m) <= MaxLine
    /\ m[Len(m) - 1] = "cr" /\ m[Len(m)] = "nl"
    /\ \A i \in 1..(Len(m) - 2) : m[i] \notin {"nul", "cr", "nl"}

\* What sendMessage does when it does not return at once.
sendMessage(m) ==
    /\ ~gone /\ ~dead /\ ~closing
    /\ isValidOutboundMessage(m)
    /\ Len(accepted) < MaxMessages
    /\ IF Len(sendBuffer) + Len(m) > MaxSend
       THEN dead' = TRUE /\ UNCHANGED <<sendBuffer, accepted>>
       ELSE /\ sendBuffer' = sendBuffer \o m
            /\ accepted' = Append(accepted, m)
            /\ UNCHANGED dead
    /\ UNCHANGED <<closing, gone, wire, reset, peerVars, eof, delivered>>

\* QUIT, too many bad passwords, or the peer closed its side.
markClosing ==
    /\ ~gone /\ ~dead /\ ~closing
    /\ closing' = TRUE
    /\ UNCHANGED <<sendBuffer, dead, gone, accepted, wire, reset, peerVars, eof, delivered>>

Rest(s, n) == SubSeq(s, n + 1, Len(s))

handleClientWrite_DropsTheRest(n) ==
    /\ ~gone /\ ~dead
    /\ n <= Len(sendBuffer) /\ Len(wire) + n <= WireCapacity
    /\ wire' = wire \o SubSeq(sendBuffer, 1, n)
    /\ sendBuffer' = <<>>
    /\ UNCHANGED <<dead, closing, gone, accepted, reset, peerVars, eof, delivered>>

handleClientWrite_NotWhenClosing(n) ==
    /\ ~gone /\ ~dead /\ ~closing
    /\ n <= Len(sendBuffer) /\ Len(wire) + n <= WireCapacity
    /\ wire' = IF reset THEN wire ELSE wire \o SubSeq(sendBuffer, 1, n)
    /\ sendBuffer' = Rest(sendBuffer, n)
    /\ UNCHANGED <<dead, closing, gone, accepted, reset, peerVars, eof, delivered>>

\* send() took the first n bytes.  With no room it fails with EAGAIN and
\* nothing happens.
handleClientWrite(n) ==
    /\ ~gone /\ ~dead
    /\ n <= Len(sendBuffer) /\ Len(wire) + n <= WireCapacity
    /\ wire' = IF reset THEN wire ELSE wire \o SubSeq(sendBuffer, 1, n)
    /\ sendBuffer' = Rest(sendBuffer, n)
    /\ UNCHANGED <<dead, closing, gone, accepted, reset, peerVars, eof, delivered>>

\* send(), recv() or poll() reports that the connection is broken, or what
\* the client sent is refused.
SocketError ==
    /\ ~gone /\ ~dead
    /\ dead' = TRUE
    /\ UNCHANGED <<sendBuffer, closing, gone, accepted, wire, reset, peerVars, eof, delivered>>

reapDeadClients_DeadOnly ==
    /\ ~gone
    /\ dead
    /\ gone' = TRUE
    /\ UNCHANGED <<sendBuffer, dead, closing, accepted, wire, reset, peerVars, eof, delivered>>

\* reapDeadClients and the destructor: a closing client is kept until its
\* buffer is empty, a dead one is not.
reapDeadClients ==
    /\ ~gone
    /\ dead \/ (closing /\ sendBuffer = <<>>)
    /\ gone' = TRUE
    /\ UNCHANGED <<sendBuffer, dead, closing, accepted, wire, reset, peerVars, eof, delivered>>
-----------------------------------------------------------------------------
(* TCP and the reader.                                                     *)

Reset ==
    /\ ~reset /\ ~eof
    /\ reset' = TRUE /\ wire' = <<>>
    /\ UNCHANGED <<serverVars, peerVars, eof, delivered>>

\* recv() at the other end returns any part of what is in flight that fits
\* its chunk.
PeerReceives ==
    /\ \E n \in 1..MaxChunk :
          /\ n <= Len(wire)
          /\ Peer!BotReceives(SubSeq(wire, 1, n))
          /\ wire' = Rest(wire, n)
    /\ UNCHANGED <<serverVars, reset, eof, delivered>>

\* A line that is taken and not refused goes to processLine, here with its
\* line ending.
PeerExtractLine ==
    /\ Peer!BotExtractLine
    /\ delivered' = IF base' > base /\ state' # "refused"
                    THEN Append(delivered, SubSeq(received, base + 1, base'))
                    ELSE delivered
    /\ UNCHANGED <<serverVars, wire, reset, eof>>

\* recv() returns 0.
PeerEof ==
    /\ gone /\ ~reset /\ ~eof /\ wire = <<>> /\ state = "open" /\ ~inLines
    /\ eof' = TRUE
    /\ UNCHANGED <<serverVars, wire, reset, peerVars, delivered>>

Next ==
    \/ \E m \in Texts : sendMessage(m)
    \/ markClosing
    \/ \E n \in 1..WireCapacity : handleClientWrite(n)
    \/ SocketError
    \/ reapDeadClients
    \/ Reset
    \/ PeerReceives
    \/ PeerExtractLine
    \/ PeerEof

\* The event loop comes round again and poll() reports what is ready
\* (EveryEventServed of Server); the reader keeps reading.
Fairness ==
    /\ WF_vars(\E n \in 1..WireCapacity : handleClientWrite(n))
    /\ WF_vars(reapDeadClients)
    /\ WF_vars(PeerReceives)
    /\ WF_vars(PeerExtractLine)
    /\ WF_vars(PeerEof)

Spec == Init /\ [][Next]_vars /\ Fairness
-----------------------------------------------------------------------------
(* Correctness.                                                            *)

\* The server or its reader has given the connection up, or it is reset.
Broken == dead \/ reset \/ state # "open"

Queue ==
    INSTANCE MessageQueue WITH
        Messages <- {m \in Texts : isValidOutboundMessage(m)},
        end <- IF Broken THEN "broken" ELSE IF eof THEN "closed" ELSE "open"

\* Partial writes, a buffer that is nearly full, a close with output pending
\* and any cut of the stream by recv() never lose, repeat, join or split a
\* message that sendMessage accepted, and a connection that closes in good
\* order has delivered them all.
MessagesArrive == Queue!QueueSpec

\* The reader never refuses what the server sends it: nothing sendMessage lets
\* through is malformed for Bot::extractLine.
PeerNeverRefuses == state # "refused"

\* A closing client is not kept for ever, and its reader sees the end, unless
\* the connection breaks.
ClosingEnds == closing ~> (eof \/ Broken)

\* Every accepted message arrives unless the connection breaks.
EveryMessageArrives ==
    \A k \in 1..MaxMessages :
        (Len(accepted) >= k) ~> (Len(delivered) >= k \/ Broken)
=============================================================================
