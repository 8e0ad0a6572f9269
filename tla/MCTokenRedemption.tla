------------------------- MODULE MCTokenRedemption ---------------------------
(***************************************************************************)
(* TokenRedemption for TLC.                                                *)
(***************************************************************************)
EXTENDS TokenRedemption, TLC

\* Requests are interchangeable, and so are tokens: nothing names one.
Symmetric == Permutations(Request) \cup Permutations(Token)
=============================================================================
