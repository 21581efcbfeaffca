------------------------------- MODULE Client -------------------------------
(***************************************************************************)
(* One connected user, class Client (include/Client.hpp,                   *)
(* src/client/Client.cpp): registration flags, the two-stage end of a      *)
(* connection (closing, then dead) and the bounded send buffer.            *)
(*                                                                         *)
(* A Client is a record and a method that changes it is an operator from   *)
(* records to records.  Abstractions:                                      *)
(*   - _nickname and _nickSet change together (setNickname, setNickSet are *)
(*     called side by side in Nick.cpp), so nick # NoNick is _nickSet;     *)
(*   - _username is only text: userSet is _userSet;                        *)
(*   - _deadReason is kept as "none" (the empty string), "short", or       *)
(*     "long": a QUIT line built from it exceeds MAX_IRC_MESSAGE_SIZE;     *)
(*   - out is the length of _sendBuffer in units.  What one handler queues *)
(*     for one recipient is one unit: a recipient that overflows part way  *)
(*     is dead, and the buffer of a dead client is never written again.    *)
(***************************************************************************)
EXTENDS Naturals

CONSTANTS
    Ips,            \* addresses clients connect from
    Nicks,          \* spellings that isValidNickname accepts
    NoNick,         \* the empty nickname
    MaxSendBuffer,  \* MAX_SEND_BUFFER, in units
    MaxFailedPass   \* MAX_FAILED_PASS_ATTEMPTS

ASSUME ClientAssumption ==
    /\ NoNick \notin Nicks
    /\ MaxSendBuffer \in Nat \ {0}
    /\ MaxFailedPass \in Nat \ {0}

Reasons == {"none", "short", "long"}

ClientType ==
    [ip: Ips, passOk: BOOLEAN, nick: Nicks \cup {NoNick}, userSet: BOOLEAN,
     fails: 0..MaxFailedPass, dead: BOOLEAN, closing: BOOLEAN,
     reason: Reasons, out: 0..MaxSendBuffer]

\* The constructor.
NewClient(ip) ==
    [ip |-> ip, passOk |-> FALSE, nick |-> NoNick, userSet |-> FALSE,
     fails |-> 0, dead |-> FALSE, closing |-> FALSE,
     reason |-> "none", out |-> 0]

isRegistered(r) == r.passOk /\ r.nick # NoNick /\ r.userSet

hasPendingOutput(r) == r.out > 0

\* A client the server still listens to and still writes for.
Active(r) == ~r.dead /\ ~r.closing

\* The first reason given for the end of a connection is the one kept.
markDead(r, why) ==
    IF r.dead THEN r
    ELSE [r EXCEPT !.dead = TRUE,
                   !.reason = IF @ = "none" THEN why ELSE @]

\* Closing waits for the send buffer to drain; it never revives a dead client.
markClosing(r, why) ==
    IF ~Active(r) THEN r
    ELSE [r EXCEPT !.closing = TRUE, !.reason = why]

sendMessage_NoLimit(r) ==
    IF ~Active(r) THEN r
    ELSE [r EXCEPT !.out = @ + 1]

\* Queue one unit of well-formed output.  A client that cannot take it is
\* marked dead and what is in its buffer is abandoned.
sendMessage(r) ==
    IF ~Active(r) THEN r
    ELSE IF r.out >= MaxSendBuffer THEN markDead(r, "short")
    ELSE [r EXCEPT !.out = @ + 1]

\* send() took part of the buffer, or all of it.
consumeSendBuffer(r, n) == [r EXCEPT !.out = @ - n]

recordFailedPassAttempt(r) == [r EXCEPT !.fails = @ + 1]
=============================================================================
