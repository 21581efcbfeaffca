----------------------------- MODULE MCCommands -----------------------------
(* Small instances of Commands for TLC.                                    *)
EXTENDS Commands, TLC

CONSTANTS f1, f2, f3, c1, c2, al, AL, bo, cy

\* Case mapping: AL is another spelling of al.
MCFold == [n \in Nicks |-> IF n = AL THEN al ELSE n]

\* Descriptors are only compared with each other.
MCSymmetry == Permutations(Fds)

\* So are channel names, and nicknames as long as no two fold together.
MCNickSymmetry == Permutations(Fds) \cup Permutations(Nicks) \cup Permutations(ChanNames)
=============================================================================
