----------------------------- MODULE MCExporter -----------------------------
(* Instances of Exporter for TLC.                                          *)
EXTENDS Exporter, TLC

CONSTANTS r1, r2, r3,   \* requests
          w1, w2, w3   \* wallets; the node never has w3

MCTargets == << 1, 6, 1 >>
MCWallets == { w1, w2 }
MCNames == << w2, w3, w2 >>

\* Each collector on its own, and three side by side.
AloneAndTogether == { {c} : c \in Collector } \cup { {"chain", "mining", "mempool"} }

\* A collector that makes one call.
OneCall == { {"mempool"} }

\* Requests are interchangeable; used by runs without liveness only.
RequestSymmetry == Permutations(Request)

\* How far a response covers its own calls; settled once it has been read.
Covered ==
    [r \in Request |-> << exposed[r].requests >= own[r].requests,
                         exposed[r].errors >= own[r].errors >>]

\* What a run that asks nothing of samples may leave out of a state's identity:
\* no guard reads them, counters are the sum of own, and of exposed only that
\* it covers own is asked.
Control ==
    << enabled, phase, expired, up, wg, at, todo, late, failed, verdict, own, Covered >>
=============================================================================
