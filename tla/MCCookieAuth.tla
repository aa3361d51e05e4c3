---------------------------- MODULE MCCookieAuth ----------------------------
(* Instances of CookieAuth for TLC.                                        *)
EXTENDS CookieAuth, TLC

CONSTANTS c1, c2

CallerSymmetry == Permutations(Caller)
=============================================================================
