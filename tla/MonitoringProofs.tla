-------------------------- MODULE MonitoringProofs --------------------------
(***************************************************************************)
(* Proofs about Monitoring, for any figures with the scrape's deadline     *)
(* below the scrape interval: no timer is overrun, and a scrape is over    *)
(* when the next one is due, though Prometheus may have left it long ago.  *)
(* With the deadline below Prometheus' timeout as well, it never leaves.   *)
(*                                                                         *)
(* What the alerts do in the end is liveness and left to TLC.              *)
(***************************************************************************)
EXTENDS Monitoring, TLAPS

\* The figures, one by one.
LEMMA Figures ==
  /\ RpcTimeout \in Nat /\ RpcTimeout > 0
  /\ ScrapeTimeout \in Nat /\ ScrapeTimeout > 0
  /\ ScrapeInterval \in Nat /\ ScrapeInterval > 0
  /\ GiveUpAfter \in Nat /\ GiveUpAfter > 0
  /\ EvalInterval \in Nat /\ EvalInterval > 0
  /\ Calls \in Nat /\ Calls > 0
  /\ AlertFor \in Nat
  /\ ScrapeTimeout < ScrapeInterval
BY MonitoringAssumption

\* While a scrape runs its call ends no later than the scrape, and the next
\* scrape is further away than its deadline.
TimersInv ==
    stage # "idle" => timer <= budget /\ budget < wait

Inv == TypeOK /\ TimersInv

LEMMA LimitBounds ==
  ASSUME NEW rest \in Nat
  PROVE  Limit(rest) \in 0 .. RpcTimeout /\ Limit(rest) <= rest
BY Figures DEF Limit

LEMMA InvInit == Init => Inv
<1>1. Init => /\ node \in Modes
              /\ stage \in {"idle", "probe", "collect"}
              /\ probe \in {"unknown", "up", "down"}
              /\ up \in {"none", "0", "1"}
              /\ nodeUp \in {"none", "0", "1"}
              /\ eval \in 0 .. EvalInterval
              /\ firing \subseteq Alert
  BY DEF Init
<1>2. Init => /\ left \in 0 .. Calls
              /\ budget \in 0 .. ScrapeTimeout
              /\ timer \in 0 .. RpcTimeout
              /\ wait \in 0 .. ScrapeInterval
              /\ patience \in 0 .. GiveUpAfter
              /\ active \in [Alert -> 0 .. AlertFor + 1]
  BY Figures DEF Init, Inactive
<1>3. Init => waiting \in BOOLEAN
  BY Zenon DEF Init
<1>4. Init => TimersInv
  BY DEF Init, TimersInv
<1>5. QED
  BY <1>1, <1>2, <1>3, <1>4 DEF Inv, TypeOK

\* The call that returns leaves the timers in order.
LEMMA EndedKeeps ==
  ASSUME Inv, NEW result \in {"up", "down"}, Ended(result), UNCHANGED << budget, wait >>
  PROVE  /\ stage' \in {"idle", "probe", "collect"}
         /\ probe' \in {"unknown", "up", "down"}
         /\ left' \in 0 .. Calls
         /\ timer' \in 0 .. RpcTimeout
         /\ TimersInv'
<1> USE DEF Inv, TypeOK, TimersInv
<1>1. Limit(budget) \in 0 .. RpcTimeout /\ Limit(budget) <= budget
  BY LimitBounds, Figures
<1>2. QED
  BY <1>1, Figures DEF Ended

LEMMA RespondKeeps ==
  ASSUME TypeOK, Respond
  PROVE  waiting' \in BOOLEAN /\ up' \in {"none", "0", "1"} /\ nodeUp' \in {"none", "0", "1"}
<1>1. CASE stage = "collect" /\ left = 1 /\ waiting
  <2>1. waiting' \in BOOLEAN
    BY <1>1, Zenon DEF Respond
  <2>2. QED
    BY <1>1, <2>1 DEF Respond, Exposed
<1>2. CASE ~ (stage = "collect" /\ left = 1 /\ waiting)
  BY <1>2 DEF Respond, TypeOK
<1>3. QED
  BY <1>1, <1>2

LEMMA InvStep ==
  ASSUME Inv, [Next]_vars
  PROVE  Inv'
<1> USE DEF Inv, TypeOK, TimersInv
<1>1. CASE Begin
  <2>1. Limit(ScrapeTimeout) \in 0 .. RpcTimeout /\ Limit(ScrapeTimeout) <= ScrapeTimeout
    BY LimitBounds, Figures
  <2>2. budget' = ScrapeTimeout /\ timer' = Limit(ScrapeTimeout) /\ wait' = ScrapeInterval
    BY <1>1 DEF Begin
  <2>3. TimersInv' /\ timer' \in 0 .. RpcTimeout /\ budget' \in 0 .. ScrapeTimeout
        /\ wait' \in 0 .. ScrapeInterval
    BY <2>1, <2>2, Figures
  <2>4. waiting' \in BOOLEAN
    BY <1>1, Zenon DEF Begin
  <2>5. patience' \in 0 .. GiveUpAfter /\ stage' \in {"idle", "probe", "collect"}
    BY <1>1, Figures DEF Begin
  <2>6. QED
    BY <1>1, <2>3, <2>4, <2>5 DEF Begin, rules
<1>2. CASE Answered
  <2>1. Ended("up") /\ Respond /\ UNCHANGED << node, budget, wait, patience, rules >>
    BY <1>2 DEF Answered
  <2>2. QED
    BY <2>1, EndedKeeps, RespondKeeps DEF rules
<1>3. CASE Failed
  <2>1. Ended("down") /\ Respond /\ UNCHANGED << node, budget, wait, patience, rules >>
    BY <1>3 DEF Failed
  <2>2. QED
    BY <2>1, EndedKeeps, RespondKeeps DEF rules
<1>4. CASE GiveUp
  <2>1. waiting' \in BOOLEAN
    BY <1>4, Zenon DEF GiveUp
  <2>2. QED
    BY <1>4, <2>1 DEF GiveUp, exporter, rules
<1>5. CASE Evaluate
  <2>1. active' \in [Alert -> 0 .. AlertFor + 1]
    BY <1>5, Figures DEF Evaluate, Inactive
  <2>2. firing' \subseteq Alert /\ eval' \in 0 .. EvalInterval
    BY <1>5, Figures DEF Evaluate
  <2>3. QED
    BY <1>5, <2>1, <2>2 DEF Evaluate, exporter, target
<1>6. CASE Tick
  <2>1. wait > 0 /\ eval > 0 /\ (stage # "idle" => timer > 0) /\ (waiting => patience > 0)
    BY <1>6, Figures DEF Tick, Due
  <2>2. budget' \in 0 .. ScrapeTimeout /\ timer' \in 0 .. RpcTimeout /\ TimersInv'
    BY <1>6, <2>1, Figures DEF Tick
  <2>3. wait' \in 0 .. ScrapeInterval /\ eval' \in 0 .. EvalInterval /\ patience' \in 0 .. GiveUpAfter
    BY <1>6, <2>1, Figures DEF Tick
  <2>4. active' \in [Alert -> 0 .. AlertFor + 1]
    BY <1>6, Figures DEF Tick
  <2>5. QED
    BY <1>6, <2>2, <2>3, <2>4 DEF Tick
<1>7. ASSUME NEW mode \in Modes, Turn(mode) PROVE Inv'
  BY <1>7 DEF Turn, exporter, target, rules
<1>8. CASE UNCHANGED vars
  BY <1>8 DEF vars, exporter, target, rules
<1>9. QED
  BY <1>1, <1>2, <1>3, <1>4, <1>5, <1>6, <1>7, <1>8 DEF Next, System

\* No timer is overrun, and a call never lasts beyond the scrape's deadline.
THEOREM TypeCorrect == Spec => []TypeOK
<1>1. Inv /\ [Next]_vars => Inv'
  BY InvStep
<1>2. Inv => TypeOK
  BY DEF Inv
<1>3. QED
  BY <1>1, <1>2, InvInit, PTL DEF Spec

\* A lone Prometheus never finds a scrape of its own still running, so the
\* handler's slots never run out on it.
THEOREM NeverTwoAtOnceHolds == Spec => []NeverTwoAtOnce
<1>1. Inv /\ [Next]_vars => Inv'
  BY InvStep
<1>2. Inv => NeverTwoAtOnce
  BY Figures DEF Inv, TypeOK, TimersInv, NeverTwoAtOnce
<1>3. QED
  BY <1>1, <1>2, InvInit, PTL DEF Spec

-----------------------------------------------------------------------------
(* A deadline below Prometheus' timeout.                                   *)

\* Whatever the node does, no scrape is given up: up is never 0, and
\* BitcoinExporterDown never fires for an exporter that runs.
AnsweredInTime == ScrapeTimeout < GiveUpAfter => up # "0" /\ "BitcoinExporterDown" \notin firing

\* Collect is through before Prometheus loses its patience.
InTimeInv ==
    ScrapeTimeout < GiveUpAfter =>
        /\ up # "0"
        /\ "BitcoinExporterDown" \notin firing
        /\ waiting => stage # "idle" /\ budget < patience

LEMMA InTimeStep ==
  ASSUME Inv, InTimeInv, [Next]_vars
  PROVE  InTimeInv'
<1> SUFFICES ASSUME ScrapeTimeout < GiveUpAfter
             PROVE  /\ up' # "0"
                    /\ "BitcoinExporterDown" \notin firing'
                    /\ waiting' => stage' # "idle" /\ budget' < patience'
  BY DEF InTimeInv
<1> USE DEF Inv, TypeOK, InTimeInv
<1>1. CASE Begin
  BY <1>1, Figures DEF Begin, rules
<1>2. ASSUME NEW result \in {"up", "down"}, Ended(result), Respond,
             UNCHANGED << node, budget, wait, patience, rules >>
      PROVE  /\ up' # "0"
             /\ "BitcoinExporterDown" \notin firing'
             /\ waiting' => stage' # "idle" /\ budget' < patience'
  <2>1. CASE stage = "collect" /\ left = 1 /\ waiting
    BY <1>2, <2>1 DEF Respond, rules
  <2>2. CASE ~ (stage = "collect" /\ left = 1 /\ waiting)
    <3>1. UNCHANGED << waiting, up, nodeUp, firing, budget, patience >>
      BY <1>2, <2>2 DEF Respond, rules
    <3>2. waiting => stage' # "idle"
      BY <1>2, <2>2 DEF Ended
    <3>3. QED
      BY <3>1, <3>2
  <2>3. QED
    BY <2>1, <2>2
<1>3. CASE Answered
  BY <1>2, <1>3 DEF Answered
<1>4. CASE Failed
  BY <1>2, <1>4 DEF Failed
<1>5. ~ GiveUp
  BY Figures DEF GiveUp
<1>6. CASE Evaluate
  BY <1>6 DEF Evaluate, Holds, exporter, target
<1>7. CASE Tick
  BY <1>7, Figures DEF Tick
<1>8. ASSUME NEW mode \in Modes, Turn(mode)
      PROVE  UNCHANGED << up, firing, waiting, stage, budget, patience >>
  BY <1>8 DEF Turn, exporter, target, rules
<1>9. CASE UNCHANGED vars
  BY <1>9 DEF vars, exporter, target, rules
<1>10. QED
  BY <1>1, <1>3, <1>4, <1>5, <1>6, <1>7, <1>8, <1>9 DEF Next, System

\* With -scrape.timeout below Prometheus' scrape_timeout a silent node costs no
\* response: what the deployment's equal figures do not give (alerts.yml:6-15).
THEOREM AnsweredInTimeHolds == Spec => []AnsweredInTime
<1>1. Init => InTimeInv
  BY DEF Init, InTimeInv
<1>2. Inv /\ [Next]_vars => Inv'
  BY InvStep
<1>3. Inv /\ InTimeInv /\ [Next]_vars => InTimeInv'
  BY InTimeStep
<1>4. InTimeInv => AnsweredInTime
  BY DEF InTimeInv, AnsweredInTime
<1>5. QED
  BY <1>1, <1>2, <1>3, <1>4, InvInit, PTL DEF Spec
=============================================================================
