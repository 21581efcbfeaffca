------------------------------- MODULE Roster -------------------------------
(***************************************************************************)
(* What clients know of each other.  An IRC client keeps the list of the   *)
(* nicknames in each of its channels from what it is sent: the NAMES reply *)
(* (353) of its own JOIN, and then the JOIN, PART, KICK, NICK and QUIT     *)
(* lines of the others.  views is that list.  Every step is a step of      *)
(* Commands; whoever was queued a line by it (Heard) has learned of it,    *)
(* and whoever was not, has not.                                           *)
(*                                                                         *)
(* The lines carry nicknames, never descriptors, and QUIT and NICK carry   *)
(* no channel: a client applies them to all its channels.                  *)
(***************************************************************************)
EXTENDS Commands

CONSTANTS
    FirstNick,  \* the nicknames at the start, all distinct
    NamesFit    \* how many nicknames a 353 line of 512 bytes holds

ASSUME RosterAssumption ==
    /\ Ips # {}
    /\ FirstNick \in [Fds -> Nicks]
    /\ \A c, d \in Fds : Fold[FirstNick[c]] = Fold[FirstNick[d]] => c = d
    /\ NamesFit \in Nat \ {0}

VARIABLES
    views,   \* the nicknames each client lists for each channel
    takeover \* a nickname was taken over from a dead client not reaped yet

rosterVars == <<clients, channels, job, views, takeover>>

\* Everyone has registered and nobody has joined.
RosterInit ==
    /\ clients = [c \in Fds |-> [NewClient(CHOOSE ip \in Ips : TRUE) EXCEPT
                    !.passOk = TRUE, !.nick = FirstNick[c], !.userSet = TRUE]]
    /\ channels = <<>>
    /\ job = NoJob
    /\ views = [c \in Fds |-> [ch \in ChanNames |-> {}]]
    /\ takeover = FALSE

Members(chans, ch) == IF ch \in DOMAIN chans THEN chans[ch].members ELSE {}

Name(c) == toIrcLowerCase(clients[c].nick)
-----------------------------------------------------------------------------
(* The lines of a step.                                                    *)

Heard(m) == clients'[m].out > clients[m].out

Quitters == DOMAIN clients \ DOMAIN clients'

Leavers(ch) == (Members(channels, ch) \ Members(channels', ch)) \ Quitters

Joiners(ch) == Members(channels', ch) \ Members(channels, ch)

\* A NICK line says who now has another name.
Renamed(n) ==
    LET who == {c \in DOMAIN clients \cap DOMAIN clients' :
                  clients[c].nick # clients'[c].nick /\ Name(c) = n}
    IN  IF who = {} THEN {n} ELSE {Name(c)' : c \in who}

\* The 353 reply, or only the client's own JOIN line if it is too long.
NamesReply(m, ch) ==
    IF Cardinality(channels'[ch].members) <= NamesFit
    THEN {Name(c)' : c \in channels'[ch].members}
    ELSE {Name(m)'}

\* What a line does to the list of a channel one is in.
Updated(list, ch) ==
    LET gone == {Name(c) : c \in Quitters \cup Leavers(ch)}
    IN  (UNION {Renamed(n) : n \in list \ gone}) \cup {Name(c)' : c \in Joiners(ch)}

NextList(m, ch) ==
    CASE m \notin Members(channels', ch) -> {}
      [] m \in Joiners(ch) -> NamesReply(m, ch)
      [] OTHER -> IF Heard(m) THEN Updated(views[m][ch], ch) ELSE views[m][ch]

TakesOver(c) ==
    /\ c \in DOMAIN clients /\ clients[c].nick # clients'[c].nick
    /\ \E d \in DOMAIN clients \ {c} : clients[d].dead /\ Name(d) = Name(c)'

RosterNext ==
    /\ Next
    /\ views' = [m \in Fds |-> [ch \in ChanNames |-> NextList(m, ch)]]
    /\ takeover' = (takeover \/ \E c \in DOMAIN clients' : TakesOver(c))

RosterSpec == RosterInit /\ [][RosterNext]_rosterVars
-----------------------------------------------------------------------------
(* Correctness.                                                            *)

Listed(ch) == {Name(c) : c \in channels[ch].members}

\* Until a nickname is taken over from a dead client, every client that is
\* still served lists exactly the members of each of its channels, those that
\* are closing or dead included until they are reaped.  After a takeover two
\* members share a name, and the next QUIT or NICK line with it puts the lists
\* wrong both ways.
RostersMatch ==
    ~takeover =>
        \A ch \in DOMAIN channels : \A m \in channels[ch].members :
            Active(clients[m]) => views[m][ch] = Listed(ch)
-----------------------------------------------------------------------------
(* What the audit expects and the code does not do.                        *)

\* Audit, failure 30: "Peers receive rename and do not keep stale server
\* state".  findClientByNick passes over a dead client, so its nickname can be
\* taken before its QUIT is sent, and that QUIT then removes the new holder
\* from the lists of its peers.
NobodyMissing ==
    \A ch \in DOMAIN channels : \A m \in channels[ch].members :
        Active(clients[m]) =>
            {Name(c) : c \in {d \in channels[ch].members : ~clients[d].dead}}
                \subseteq views[m][ch]

\* Audit, line length: "Long NAMES replies must be split across multiple 353 lines".
\* The line is built in one piece and sendMessage refuses it when it is too
\* long, so who joins a large channel is told of nobody.
JoinerLearnsMembers ==
    [][\A ch \in DOMAIN channels' : \A m \in Joiners(ch) :
         clients'[m].dead \/ Listed(ch)' \subseteq views'[m][ch]]_rosterVars
=============================================================================
