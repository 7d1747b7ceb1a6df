------------------------------- MODULE MCHost -------------------------------
(***************************************************************************)
(* Instances of Host for TLC.                                              *)
(***************************************************************************)
EXTENDS Host

\* One to five attestations, one of them in two blocks.
MCContents ==
    << <<"a">>, <<"b", "c", "d", "e", "a">>, <<"f", "g">>, <<"h">> >>
=============================================================================
