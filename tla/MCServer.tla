------------------------------ MODULE MCServer ------------------------------
(* Small instances of Server for TLC.                                      *)
EXTENDS Server, TLC

CONSTANTS f1, f2, f3, i1, i2, c1

MCFold == [n \in Nicks |-> IF n = "AL" THEN "al" ELSE n]

\* Descriptors and addresses are only compared with each other.
MCSymmetry == Permutations(Fds) \cup Permutations(Ips)

Everyone == CHOOSE s \in [1..Cardinality(Fds) -> Fds] : IsInjective(s)

\* The loop once every client has registered and joined c1.
JoinedInit ==
    /\ clients = [c \in Fds |-> [NewClient(i1) EXCEPT
                    !.passOk = TRUE, !.userSet = TRUE,
                    !.nick = CHOOSE n \in Nicks : (c = Everyone[1]) = (n = "al")]]
    /\ channels = (c1 :> [NewChannel EXCEPT
                    !.members = Fds, !.operators = {Everyone[1]},
                    !.topicRestricted = TRUE])
    /\ job = NoJob
    /\ phase = "top" /\ index = 1 /\ deadFds = {}
    /\ pollFds = <<Listener>> \o Everyone
    /\ revents = [fd \in {Listener} \cup Fds |-> {}]
    /\ g_shutdown = FALSE /\ interrupted = FALSE

\* Liveness from there: registering and joining first is too deep for it.
JoinedSpec ==
    /\ JoinedInit /\ [][LoopNext]_allVars
    /\ LoopFairness /\ \A c \in Fds : PeerDrains(c)
=============================================================================
