----------------------------- MODULE MCFraming ------------------------------
(***************************************************************************)
(* Framing for TLC: a behaviour is that of the server's buffer or that of  *)
(* the bot's.                                                              *)
(***************************************************************************)
EXTENDS Framing

VARIABLE program

EitherInit == Init /\ program \in {"server", "bot"}

ServerStep == program = "server" /\ ServerNext /\ UNCHANGED program

BotStep == program = "bot" /\ BotNext /\ UNCHANGED program

EitherSpec == EitherInit /\ [][ServerStep \/ BotStep]_<<vars, program>>

\* HopelessLineRefused of Bot::extractLine; Client::appendToRecvBuffer may sit
\* on a line that is too long until the next byte.
BotRefusesHopeless == program = "bot" => HopelessLineRefused
=============================================================================
