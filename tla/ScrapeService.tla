---------------------------- MODULE ScrapeService ----------------------------
(***************************************************************************)
(* What the exporter promises whoever scrapes it, with no node, calls,     *)
(* goroutines, channel or deadline in it:                                  *)
(*                                                                         *)
(*   - a request is refused at once or admitted, and at most MaxInFlight   *)
(*     are running at any time;                                            *)
(*   - an admitted request gets one verdict on the node (bitcoin_up) and   *)
(*     one on each enabled collector (bitcoin_exporter_collector_success), *)
(*     and none of them ever changes;                                      *)
(*   - it is answered only when every verdict is in, and it always is.     *)
(*                                                                         *)
(* Module Exporter is shown to implement this specification.               *)
(***************************************************************************)
EXTENDS Naturals, FiniteSets

CONSTANTS
    Request,         \* the scrapes
    MaxInFlight,     \* how many may run at once
    Collector,       \* the collectors that exist
    Configurations   \* the sets of collectors that may be enabled

VARIABLES
    enabled,   \* the collectors the process was started with
    stage,     \* what has become of each request
    up,        \* request -> the verdict on the node
    verdict    \* request -> collector -> the verdict on that collector

vars == << enabled, stage, up, verdict >>

Running == { r \in Request : stage[r] = "running" }

Init ==
    /\ enabled \in Configurations
    /\ stage = [r \in Request |-> "new"]
    /\ up = [r \in Request |-> "unknown"]
    /\ verdict = [r \in Request |-> [c \in Collector |-> "unknown"]]

Admit(r) ==
    /\ stage[r] = "new"
    /\ Cardinality(Running) < MaxInFlight
    /\ stage' = [stage EXCEPT ![r] = "running"]
    /\ UNCHANGED << enabled, up, verdict >>

Refuse(r) ==
    /\ stage[r] = "new"
    /\ Cardinality(Running) >= MaxInFlight
    /\ stage' = [stage EXCEPT ![r] = "refused"]
    /\ UNCHANGED << enabled, up, verdict >>

JudgeNode(r) ==
    /\ stage[r] = "running"
    /\ up[r] = "unknown"
    /\ \E v \in {"up", "down"} : up' = [up EXCEPT ![r] = v]
    /\ UNCHANGED << enabled, stage, verdict >>

JudgeCollector(r, c) ==
    /\ stage[r] = "running"
    /\ c \in enabled
    /\ up[r] # "unknown"
    /\ verdict[r][c] = "unknown"
    /\ \E v \in {"ok", "failed"} : verdict' = [verdict EXCEPT ![r][c] = v]
    /\ UNCHANGED << enabled, stage, up >>

Serve(r) ==
    /\ stage[r] = "running"
    /\ up[r] # "unknown"
    /\ \A c \in enabled : verdict[r][c] # "unknown"
    /\ stage' = [stage EXCEPT ![r] = "served"]
    /\ UNCHANGED << enabled, up, verdict >>

Next ==
    \E r \in Request :
        \/ Admit(r)
        \/ Refuse(r)
        \/ JudgeNode(r)
        \/ \E c \in Collector : JudgeCollector(r, c)
        \/ Serve(r)

SafeSpec == Init /\ [][Next]_vars

\* An admitted request is always answered.
Answered == \A r \in Request : (stage[r] = "running") ~> (stage[r] = "served")

Spec == SafeSpec /\ Answered
=============================================================================
