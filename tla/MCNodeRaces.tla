---------------------------- MODULE MCNodeRaces ----------------------------
(* Instances of NodeRaces for TLC.                                         *)
EXTENDS NodeRaces

CONSTANTS w0, w1, w2, w3   \* wallets; w0 has the empty name, the node never has w3

MCWallets == { w0, w1, w2 }
MCFilters == { << >>, << w3, w2 >>, << w2, w1 >>, << w1, w1 >> }

\* One at a time: they share nothing but the node, which answers each for itself.
MCConfigurations == { {"mining"}, {"wallet"} }
=============================================================================
