----------------------------- MODULE Monitoring -----------------------------
(***************************************************************************)
(* The exporter in the deployment of deploy/prometheus: a Prometheus that  *)
(* scrapes it and the two alerts that tell a dead node from a dead         *)
(* exporter, with the timeouts of the three on one clock.                  *)
(*                                                                         *)
(* Time is counted in ticks; what takes no time happens between two of     *)
(* them.  A scrape is Collect: the probe, then the collectors side by      *)
(* side, of which the one with the most calls is taken.  The node and      *)
(* Prometheus are external: the node turns prompt, slow, silent or away at *)
(* any moment, and Prometheus does what its configuration says.            *)
(***************************************************************************)
EXTENDS Naturals

CONSTANTS
    RpcTimeout,       \* -rpc.timeout
    ScrapeTimeout,    \* -scrape.timeout
    ScrapeInterval,   \* scrape_interval
    GiveUpAfter,      \* scrape_timeout; the deployment leaves Prometheus its default
    EvalInterval,     \* evaluation_interval
    AlertFor,         \* "for" of both alerts
    Calls             \* how many calls the longest collector makes

ASSUME MonitoringAssumption ==
    /\ { RpcTimeout, ScrapeTimeout, ScrapeInterval, GiveUpAfter, EvalInterval, Calls }
          \subseteq Nat \ {0}
    /\ AlertFor \in Nat
    /\ ScrapeTimeout < ScrapeInterval
    /\ GiveUpAfter <= ScrapeInterval

VARIABLES
    node,      \* how the node answers
    stage,     \* where Collect is
    probe,     \* what the probe of the running scrape, or the last, found
    left,      \* calls the collectors still make, the running one included
    budget,    \* ticks until the scrape's deadline
    timer,     \* ticks until the running call is given up
    wait,      \* ticks until Prometheus scrapes next
    patience,  \* ticks until it gives up a scrape that it waits for
    waiting,   \* whether it waits for one
    up,        \* the sample up{job="bitcoin"}
    nodeUp,    \* the sample bitcoin_up
    eval,      \* ticks until the rules are evaluated next
    active,    \* alert -> ticks since its expression was first seen to hold
    firing     \* the alerts that fire

exporter   == << stage, probe, left, budget, timer >>
target     == << wait, patience, waiting, up, nodeUp >>
rules      == << eval, active, firing >>
vars       == << node, exporter, target, rules >>

-----------------------------------------------------------------------------
Modes    == {"prompt", "slow", "hangs", "refuses"}
Alert    == {"BitcoinNodeDown", "BitcoinExporterDown"}
Inactive == AlertFor + 1

Init ==
    /\ node \in Modes
    /\ stage = "idle"
    /\ probe = "unknown"
    /\ left = 0
    /\ budget = 0
    /\ timer = 0
    /\ wait = 0
    /\ patience = 0
    /\ waiting = FALSE
    /\ up = "none"
    /\ nodeUp = "none"
    /\ eval \in 0 .. EvalInterval
    /\ active = [a \in Alert |-> Inactive]
    /\ firing = {}

Turn(mode) ==
    /\ node # mode
    /\ node' = mode
    /\ UNCHANGED << exporter, target, rules >>

-----------------------------------------------------------------------------
(* The exporter.                                                           *)

\* Bug: a call knows the client's timeout only.
LimitOfClient(rest) == RpcTimeout

\* A call ends with the client's timeout or the scrape's deadline.
Limit(rest) == IF rest < RpcTimeout THEN rest ELSE RpcTimeout

\* Bug: the context with the deadline is made once, not for each scrape.
BeginSharedContext ==
    /\ wait = 0
    /\ stage = "idle"
    /\ stage' = "probe"
    /\ budget' = IF probe = "unknown" THEN ScrapeTimeout ELSE budget
    /\ timer' = Limit(budget')
    /\ wait' = ScrapeInterval
    /\ patience' = GiveUpAfter
    /\ waiting' = TRUE
    /\ UNCHANGED << node, probe, left, up, nodeUp, rules >>

\* Prometheus asks, and Collect sets its deadline.
Begin ==
    /\ wait = 0
    /\ stage = "idle"
    /\ stage' = "probe"
    /\ budget' = ScrapeTimeout
    /\ timer' = Limit(budget')
    /\ wait' = ScrapeInterval
    /\ patience' = GiveUpAfter
    /\ waiting' = TRUE
    /\ UNCHANGED << node, probe, left, up, nodeUp, rules >>

\* The running call returns.
Ended(result) ==
    \/ /\ stage = "probe"
       /\ probe' = result
       /\ stage' = "collect"
       /\ left' = Calls
       /\ timer' = Limit(budget)
    \/ /\ stage = "collect"
       /\ left > 1
       /\ left' = left - 1
       /\ timer' = Limit(budget)
       /\ UNCHANGED << stage, probe >>
    \/ /\ stage = "collect"
       /\ left = 1
       /\ left' = 0
       /\ timer' = 0
       /\ stage' = "idle"
       /\ UNCHANGED probe

\* Bug: bitcoin_up is left out when there is nothing good to say.
ExposedIfUp(result) == IF result = "up" THEN "1" ELSE "none"

\* bitcoin_up as Collect sends it.
Exposed(result) == IF result = "up" THEN "1" ELSE "0"

\* The last call of a scrape is followed by the response, if it is waited for.
Respond ==
    IF stage = "collect" /\ left = 1 /\ waiting
    THEN /\ waiting' = FALSE
         /\ up' = "1"
         /\ nodeUp' = Exposed(probe)
    ELSE UNCHANGED << waiting, up, nodeUp >>

Answered ==
    /\ stage # "idle"
    /\ node \in {"prompt", "slow"}
    /\ budget > 0
    /\ Ended("up")
    /\ Respond
    /\ UNCHANGED << node, budget, wait, patience, rules >>

\* Prometheus began to wait before the deadline was set: when both run out in
\* the same tick, it has left before the collectors know.
Failed ==
    /\ stage # "idle"
    /\ node = "refuses" \/ timer = 0
    /\ ~ (waiting /\ patience = 0)
    /\ Ended("down")
    /\ Respond
    /\ UNCHANGED << node, budget, wait, patience, rules >>

-----------------------------------------------------------------------------
(* Prometheus.                                                             *)

\* A scrape that failed leaves no sample but up.
GiveUp ==
    /\ waiting
    /\ patience = 0
    /\ waiting' = FALSE
    /\ up' = "0"
    /\ nodeUp' = "none"
    /\ UNCHANGED << node, exporter, wait, patience, rules >>

Holds(alert) ==
    CASE alert = "BitcoinNodeDown"     -> nodeUp = "0"
      [] alert = "BitcoinExporterDown" -> up = "0"

Evaluate ==
    /\ eval = 0
    /\ eval' = EvalInterval
    /\ active' = [a \in Alert |-> IF ~ Holds(a) THEN Inactive
                                  ELSE IF active[a] = Inactive THEN 0 ELSE active[a]]
    /\ firing' = { a \in Alert : Holds(a) /\ active'[a] = AlertFor }
    /\ UNCHANGED << node, exporter, target >>

-----------------------------------------------------------------------------
(* The clock.                                                              *)

\* Something is due now.
Due ==
    \/ wait = 0
    \/ waiting /\ patience = 0
    \/ eval = 0
    \/ stage # "idle" /\ (timer = 0 \/ node \in {"prompt", "refuses"})

Tick ==
    /\ ~ Due
    /\ wait' = wait - 1
    /\ patience' = IF waiting THEN patience - 1 ELSE 0
    /\ eval' = eval - 1
    /\ budget' = IF stage # "idle" THEN budget - 1 ELSE budget
    /\ timer' = IF stage # "idle" THEN timer - 1 ELSE 0
    /\ active' = [a \in Alert |-> IF active[a] < AlertFor THEN active[a] + 1 ELSE active[a]]
    /\ UNCHANGED << node, stage, probe, left, waiting, up, nodeUp, firing >>

System == Begin \/ Answered \/ Failed \/ GiveUp \/ Evaluate \/ Tick

Next == System \/ \E mode \in Modes : Turn(mode)

\* Timers run out and what is due is done.  The node owes nothing.
Spec == Init /\ [][Next]_vars /\ WF_vars(System)

-----------------------------------------------------------------------------
(* Properties.                                                             *)

\* A deadline is never overrun.
TypeOK ==
    /\ node \in Modes
    /\ stage \in {"idle", "probe", "collect"}
    /\ probe \in {"unknown", "up", "down"}
    /\ left \in 0 .. Calls
    /\ budget \in 0 .. ScrapeTimeout
    /\ timer \in 0 .. RpcTimeout
    /\ wait \in 0 .. ScrapeInterval
    /\ patience \in 0 .. GiveUpAfter
    /\ waiting \in BOOLEAN
    /\ up \in {"none", "0", "1"}
    /\ nodeUp \in {"none", "0", "1"}
    /\ eval \in 0 .. EvalInterval
    /\ active \in [Alert -> 0 .. AlertFor + 1]
    /\ firing \subseteq Alert

\* When Prometheus asks again the scrape before is over, though nobody tells
\* Collect that Prometheus has given it up: its slots are free.
NeverTwoAtOnce == wait = 0 => stage = "idle"

\* A node that refuses for good makes BitcoinNodeDown fire and not the other,
\* one that is silent for good at least one of the two (README.md:542-544).
DeadNodeIsReported ==
    /\ <>[](node = "refuses") => <>[](firing = {"BitcoinNodeDown"})
    /\ <>[](node = "hangs") => <>[](firing # {})

\* A node that answers for good silences both.
RecoveryIsReported == <>[](node = "prompt") => <>[](firing = {})

\* alerts.yml:10-11, of BitcoinNodeDown: "Bitcoin node ... is not answering
\* RPC", "The exporter has been unable to reach the node for 2 minutes."
SilentNodeIsDown ==
    <>[](node = "hangs") => <>("BitcoinNodeDown" \in firing)
=============================================================================
