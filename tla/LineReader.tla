----------------------------- MODULE LineReader -----------------------------
(***************************************************************************)
(* What the framing of a byte stream promises, whatever pieces the bytes   *)
(* arrive in: the lines of the stream are taken one by one, in order and   *)
(* whole, until the first malformed one, at which the connection is        *)
(* refused, or until the reader stops of its own accord.  A line has at    *)
(* most MaxLine bytes with its newline, holds no NUL, and no CR but a last *)
(* one.  There is no buffer here and so no limit on one.                   *)
(***************************************************************************)
EXTENDS Naturals, Sequences

CONSTANT MaxLine   \* MAX_IRC_MESSAGE_SIZE

VARIABLES
    stream,  \* everything that has arrived
    taken,   \* how much of it has been taken as lines
    state    \* "open", "refused" or "stopped"

readerVars == <<stream, taken, state>>

Bytes == {"x", "cr", "nl", "nul"}

\* p is where the line that starts after position from ends.
EndsLine(s, from, p) ==
    /\ p \in (from + 1)..Len(s)
    /\ s[p] = "nl"
    /\ \A q \in (from + 1)..(p - 1) : s[q] # "nl"

HasLine(s, from) == \E p \in (from + 1)..Len(s) : s[p] = "nl"

\* One CR before the newline belongs to the line ending.
Forbidden(s, from, p) ==
    \E q \in (from + 1)..(p - 1) :
        s[q] = "nul" \/ (s[q] = "cr" /\ q # p - 1)

WellFormed(s, from, p) == p - from <= MaxLine /\ ~Forbidden(s, from, p)

\* No continuation of the stream can make the next line well formed.
Malformed(s, from) ==
    \/ \E p \in (from + 1)..Len(s) : EndsLine(s, from, p) /\ ~WellFormed(s, from, p)
    \/ ~HasLine(s, from) /\ Len(s) - from >= MaxLine
-----------------------------------------------------------------------------
ReaderInit == stream = <<>> /\ taken = 0 /\ state = "open"

Arrive ==
    /\ state = "open"
    /\ Len(stream') >= Len(stream)
    /\ SubSeq(stream', 1, Len(stream)) = stream
    /\ UNCHANGED <<taken, state>>

\* The next line is taken; what it asks for may end the reading.
Take ==
    /\ state = "open"
    /\ \E p \in (taken + 1)..Len(stream) :
          EndsLine(stream, taken, p) /\ WellFormed(stream, taken, p) /\ taken' = p
    /\ state' \in {"open", "stopped"}
    /\ UNCHANGED stream

\* The bytes that made the line hopeless may have arrived just now, and the
\* line may be dropped with the connection.
Refuse ==
    /\ state = "open"
    /\ Len(stream') >= Len(stream)
    /\ SubSeq(stream', 1, Len(stream)) = stream
    /\ Malformed(stream', taken)
    /\ state' = "refused"
    /\ taken' = taken \/ EndsLine(stream', taken, taken')

ReaderNext == Arrive \/ Take \/ Refuse

ReaderSpec == ReaderInit /\ [][ReaderNext]_readerVars
=============================================================================
