---------------------------- MODULE MCModeString ----------------------------
(***************************************************************************)
(* Instances of ModeString for TLC.                                        *)
(***************************************************************************)
EXTENDS ModeString

CONSTANTS f1, f2

\* Two members and a nickname nobody holds; AL is another spelling of al.
MCNicks == {"al", "AL", "bo", "cy"}
MCFold == [n \in MCNicks |-> IF n = "AL" THEN "al" ELSE n]
MCNick == [c \in {f1, f2} |-> IF c = f1 THEN "al" ELSE "bo"]
=============================================================================
