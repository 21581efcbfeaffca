---------------------------- MODULE MCConnection ----------------------------
(***************************************************************************)
(* Instances of Connection for TLC.                                        *)
(***************************************************************************)
EXTENDS Connection

\* Two well-formed messages told apart by their length, and texts that are
\* too long, unterminated, and hold a second line or a CR.
MCTexts ==
    {<<"x", "cr", "nl">>, <<"x", "x", "cr", "nl">>,
     <<"x", "x", "x", "cr", "nl">>, <<"x", "x">>, <<"x", "nl", "cr", "nl">>,
     <<"cr", "x", "cr", "nl">>}
=============================================================================
