------------------------------ MODULE MCRoster ------------------------------
(***************************************************************************)
(* Instances of Roster for TLC.                                            *)
(***************************************************************************)
EXTENDS Roster, TLC

CONSTANTS f1, f2, f3, c1, c2, al, bo, cy

MCFold == [n \in Nicks |-> n]
MCFirstNick == [c \in Fds |-> IF c = f1 THEN al ELSE IF c = f2 THEN bo ELSE cy]

\* The clients differ only in their first nicknames, the channels in nothing.
MCSymmetry ==
    {[x \in Fds \cup Nicks \cup ChanNames |->
        IF x \in Fds THEN p[x] ELSE IF x \in ChanNames THEN q[x]
        ELSE MCFirstNick[p[CHOOSE c \in Fds : MCFirstNick[c] = x]]] :
     p \in Permutations(Fds), q \in Permutations(ChanNames)}

\* RostersMatch claims nothing after a takeover.
UntilTakeover == RosterInit /\ [][~takeover /\ RosterNext]_rosterVars
=============================================================================
