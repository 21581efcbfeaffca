------------------------------- MODULE Channel ------------------------------
(***************************************************************************)
(* One channel, class Channel (include/Channel.hpp,                        *)
(* src/channel/Channel.cpp).  The three vectors of raw Client pointers are *)
(* sets: every push_back is behind a membership test, so no vector ever    *)
(* holds a pointer twice and erasing one occurrence erases the client.     *)
(* _topic is kept as a member of Topics or NoTopic (the empty string).     *)
(***************************************************************************)
EXTENDS Naturals, FiniteSets

CONSTANTS
    Fds,      \* descriptors; the Client object of a connection is known by it
    Keys,     \* non-empty channel keys
    NoKey,    \* the empty key
    Topics,   \* non-empty topics
    NoTopic   \* the empty topic

ASSUME ChannelAssumption ==
    /\ IsFiniteSet(Fds)
    /\ NoKey \notin Keys /\ NoTopic \notin Topics

ChannelType ==
    [members: SUBSET Fds, operators: SUBSET Fds, invited: SUBSET Fds,
     inviteOnly: BOOLEAN, topicRestricted: BOOLEAN,
     password: Keys \cup {NoKey}, userLimit: Nat,
     topic: Topics \cup {NoTopic}]

\* The constructor.
NewChannel ==
    [members |-> {}, operators |-> {}, invited |-> {},
     inviteOnly |-> FALSE, topicRestricted |-> FALSE,
     password |-> NoKey, userLimit |-> 0, topic |-> NoTopic]

addMember(ch, c) == [ch EXCEPT !.members = @ \cup {c}]

removeMember_KeepsOperator(ch, c) == [ch EXCEPT !.members = @ \ {c}]

\* Leaving a channel also gives up operator status.
removeMember(ch, c) ==
    [ch EXCEPT !.members = @ \ {c}, !.operators = @ \ {c}]

addOperator(ch, c) == [ch EXCEPT !.operators = @ \cup {c}]

removeOperator(ch, c) == [ch EXCEPT !.operators = @ \ {c}]

addInvited(ch, c) == [ch EXCEPT !.invited = @ \cup {c}]

removeInvited_Forgotten(ch, c) == ch

removeInvited(ch, c) == [ch EXCEPT !.invited = @ \ {c}]
=============================================================================
