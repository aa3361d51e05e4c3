--------------------------- MODULE ExporterProofs ---------------------------
(***************************************************************************)
(* Proofs about Exporter for any number of requests, slots, collector      *)
(* sets, fee targets and wallets.                                          *)
(***************************************************************************)
EXTENDS Exporter, FiniteSetTheorems, TLAPS

USE DEF Phases, InProgress, Waited, GoStates, Verdicts

\* A table stays one, and changes in one place, when one entry is replaced.
LEMMA EntryShape ==
  ASSUME NEW f, IsTable(f), NEW x \in Request, NEW y \in Collector, NEW v,
         NEW g, g = [f EXCEPT ![x][y] = v]
  PROVE  /\ IsTable(g)
         /\ g[x][y] = v
         /\ \A r \in Request, c \in Collector : r # x \/ c # y => g[r][c] = f[r][c]
<1>1. DOMAIN f = Request /\ \A r \in Request : DOMAIN f[r] = Collector
  BY DEF IsTable
<1>2. g = [r \in Request |-> IF r = x THEN [f[x] EXCEPT ![y] = v] ELSE f[r]]
  BY <1>1
<1>3. \A r \in Request : g[r] = [c \in Collector |-> IF r = x /\ c = y THEN v ELSE f[r][c]]
  BY <1>1, <1>2 DEF IsTable
<1>4. g = [r \in Request |-> g[r]]
  BY <1>2
<1>5. ASSUME NEW r \in Request
      PROVE  /\ g[r] = [c \in Collector |-> g[r][c]]
             /\ \A c \in Collector : g[r][c] = IF r = x /\ c = y THEN v ELSE f[r][c]
  <2> DEFINE h == [c \in Collector |-> IF r = x /\ c = y THEN v ELSE f[r][c]]
  <2>1. h = [c \in Collector |-> h[c]] /\ \A c \in Collector : h[c] = IF r = x /\ c = y THEN v ELSE f[r][c]
    OBVIOUS
  <2>2. g[r] = h
    BY <1>3
  <2> HIDE DEF h
  <2>3. QED
    BY <2>1, <2>2
<1>6. IsTable(g)
  <2> DEFINE k == [r \in Request |-> [c \in Collector |-> g[r][c]]]
  <2>1. \A r \in Request : k[r] = g[r]
    BY <1>5
  <2>2. k = [r \in Request |-> k[r]]
    OBVIOUS
  <2> HIDE DEF k
  <2>3. k = g
    BY <1>4, <2>1, <2>2
  <2>4. QED
    BY <2>3 DEF IsTable, k
<1>7. \A r \in Request, c \in Collector : g[r][c] = IF r = x /\ c = y THEN v ELSE f[r][c]
  BY <1>5
<1>8. QED
  BY <1>6, <1>7

\* And its type, when the new entry has the type of the others.
LEMMA EntryType ==
  ASSUME NEW R, NEW C, NEW S, NEW f \in [R -> [C -> S]],
         NEW x \in R, NEW y \in C, NEW v \in S
  PROVE  [f EXCEPT ![x][y] = v] \in [R -> [C -> S]]
  OBVIOUS

\* The variables always have their types.
THEOREM TypeCorrect == Spec => []TypeOK
<1>1. Init => TypeOK
  BY DEF Init, TypeOK, IsTable, PerCollector, Zero, Counts
<1>2. TypeOK /\ [Next]_vars => TypeOK'
  <2> SUFFICES ASSUME TypeOK, [Next]_vars PROVE TypeOK'
    OBVIOUS
  <2>1. ASSUME NEW r \in Request, Admit(r) PROVE TypeOK'
    BY <2>1 DEF TypeOK, Admit, serving, running, metrics
  <2>2. ASSUME NEW r \in Request, Reject(r) PROVE TypeOK'
    BY <2>2 DEF TypeOK, Reject, serving, running, metrics
  <2>3. ASSUME NEW r \in Request, Expire(r) PROVE TypeOK'
    BY <2>3 DEF TypeOK, Expire, serving, running, metrics
  <2>4. ASSUME NEW r \in Request, ProbeAnswer(r) PROVE TypeOK'
    BY <2>4 DEF TypeOK, ProbeAnswer, ObserveRPC, Count, Counts, serving, running, metrics
  <2>5. ASSUME NEW r \in Request, NEW c \in Collector, Launch(r, c) PROVE TypeOK'
    <3>1. at' \in [Request -> [Collector -> GoStates]]
      BY <2>5, EntryType DEF TypeOK, Launch
    <3>2. IsTable(todo)'
      BY <2>5, EntryShape DEF TypeOK, Launch
    <3>3. late' \in [Request -> SUBSET Collector]
      BY <2>5 DEF TypeOK, Launch, Put
    <3>4. wg' \in [Request -> Int]
      BY <2>5 DEF TypeOK, Launch
    <3>5. QED
      BY <2>5, <3>1, <3>2, <3>3, <3>4 DEF TypeOK, Launch, metrics
  <2>6. ASSUME NEW r \in Request, NEW c \in Collector, CallAnswer(r, c) PROVE TypeOK'
    <3>a. /\ \E v : todo' = [todo EXCEPT ![r][c] = v]
          /\ \E v : samples' = [samples EXCEPT ![r][c] = v]
          /\ \E err : ObserveRPC(r, err)
      BY <2>6 DEF CallAnswer
    <3>b. PICK v : todo' = [todo EXCEPT ![r][c] = v]
      BY <3>a
    <3>c. PICK w : samples' = [samples EXCEPT ![r][c] = w]
      BY <3>a
    <3>1. IsTable(todo)'
      BY <3>b, EntryShape DEF TypeOK
    <3>2. IsTable(samples)'
      BY <3>c, EntryShape DEF TypeOK
    <3>3. late' \in [Request -> SUBSET Collector]
      BY <2>6 DEF TypeOK, CallAnswer, Put
    <3>4. failed' \in [Request -> SUBSET Collector]
      BY <2>6 DEF TypeOK, CallAnswer, Put
    <3>5. DOMAIN clash' = Request /\ DOMAIN listed' = Request
      BY <2>6 DEF TypeOK, CallAnswer, Put
    <3>6. counters' \in Counts /\ own' \in [Request -> Counts]
      BY <3>a DEF TypeOK, ObserveRPC, Count, Counts
    <3>7. QED
      BY <2>6, <3>1, <3>2, <3>3, <3>4, <3>5, <3>6 DEF TypeOK, CallAnswer, serving
  <2>7. ASSUME NEW r \in Request, NEW c \in Collector, Report(r, c) PROVE TypeOK'
    BY <2>7 DEF TypeOK, Report, serving, running, metrics
  <2>8. ASSUME NEW r \in Request, NEW c \in Collector, Done(r, c) PROVE TypeOK'
    BY <2>8 DEF TypeOK, Done, serving, running, metrics
  <2>9. ASSUME NEW r \in Request, WaitReturns(r) PROVE TypeOK'
    BY <2>9 DEF TypeOK, WaitReturns, serving, running, metrics
  <2>10. ASSUME NEW r \in Request, CollectRequests(r) PROVE TypeOK'
    BY <2>10 DEF TypeOK, CollectRequests, Counts, serving, running, metrics
  <2>11. ASSUME NEW r \in Request, CollectErrors(r) PROVE TypeOK'
    BY <2>11 DEF TypeOK, CollectErrors, Counts, serving, running, metrics
  <2>12. CASE UNCHANGED vars
    BY <2>12 DEF TypeOK, vars, serving, running, metrics
  <2>13. QED
    BY <2>1, <2>2, <2>3, <2>4, <2>5, <2>6, <2>7, <2>8, <2>9, <2>10, <2>11, <2>12
       DEF Next, Progress, Goroutine, Finished
<1>3. QED
  BY <1>1, <1>2, PTL DEF Spec

-----------------------------------------------------------------------------
(* Goroutines and the WaitGroup.                                           *)

Live(r) == { c \in Collector : at[r][c] \in {"run", "reported"} }

\* No goroutine before the loop, none but for enabled collectors, the counter
\* of the WaitGroup counts those not done, and all are done after the wait.
StagesInv ==
    \A r \in Request :
        /\ phase[r] \in {"new", "rejected", "probe"} =>
              \A c \in Collector : at[r][c] = "none"
        /\ phase[r] \in Waited => \A c \in enabled : at[r][c] = "done"
        /\ \A c \in Collector : at[r][c] # "none" => c \in enabled

WaitGroupInv == \A r \in Request : wg[r] = Cardinality(Live(r))

GoroutineInv == StagesInv /\ WaitGroupInv

LEMMA CollectorFinite == IsFiniteSet(Collector)
<1>1. Collector = {"chain"} \cup {"fees"} \cup {"mempool"} \cup {"mining"}
                    \cup {"network"} \cup {"peers"} \cup {"wallet"}
  BY DEF Collector
<1>2. QED
  BY <1>1, FS_Singleton, FS_Union

LEMMA LiveFinite == \A r \in Request : IsFiniteSet(Live(r))
BY CollectorFinite, FS_Subset DEF Live

LEMMA GoroutineInit == Init => GoroutineInv
<1> SUFFICES ASSUME Init, NEW r \in Request
             PROVE  wg[r] = Cardinality(Live(r)) /\ \A c \in Collector : at[r][c] = "none"
  BY DEF Init, GoroutineInv, StagesInv, WaitGroupInv
<1>1. \A c \in Collector : at[r][c] = "none"
  BY DEF Init, PerCollector
<1>2. Live(r) = {}
  BY <1>1 DEF Live
<1>3. QED
  BY <1>1, <1>2, FS_EmptySet DEF Init

LEMMA GoroutineStep ==
  ASSUME TypeOK, TypeOK', GoroutineInv, [Next]_vars
  PROVE  GoroutineInv'
<1> USE DEF GoroutineInv
<1>0. enabled \subseteq Collector
  BY ExporterAssumption DEF TypeOK
<1>1. ASSUME NEW r \in Request, NEW c \in Collector, Launch(r, c) PROVE GoroutineInv'
  <2>1. /\ at'[r][c] = "run" /\ at[r][c] = "none" /\ c \in enabled
        /\ \A q \in Request, d \in Collector : q # r \/ d # c => at'[q][d] = at[q][d]
    BY <1>1 DEF Launch, TypeOK
  <2>2. phase[r] = "launch" /\ phase' = phase /\ enabled' = enabled
    BY <1>1 DEF Launch
  <2>3. StagesInv'
    BY <1>0, <2>1, <2>2 DEF StagesInv
  <2>4. ASSUME NEW q \in Request PROVE wg'[q] = Cardinality(Live(q)')
    <3>1. CASE q = r
      <4>1. Live(r)' = Live(r) \cup {c} /\ c \notin Live(r)
        BY <2>1 DEF Live
      <4>2. Cardinality(Live(r) \cup {c}) = Cardinality(Live(r)) + 1
        BY <4>1, LiveFinite, FS_AddElement
      <4>3. wg'[r] = wg[r] + 1
        BY <1>1 DEF Launch, TypeOK
      <4>4. QED
        BY <3>1, <4>1, <4>2, <4>3 DEF WaitGroupInv
    <3>2. CASE q # r
      <4>1. Live(q)' = Live(q)
        BY <2>1, <3>2 DEF Live
      <4>2. wg'[q] = wg[q]
        BY <1>1, <3>2 DEF Launch, TypeOK
      <4>3. QED
        BY <4>1, <4>2 DEF WaitGroupInv
    <3>3. QED
      BY <3>1, <3>2
  <2>5. QED
    BY <2>3, <2>4 DEF WaitGroupInv
<1>2. ASSUME NEW r \in Request, NEW c \in Collector, Done(r, c) PROVE GoroutineInv'
  <2>1. /\ at'[r][c] = "done" /\ at[r][c] = "reported"
        /\ \A q \in Request, d \in Collector : q # r \/ d # c => at'[q][d] = at[q][d]
    BY <1>2 DEF Done, TypeOK
  <2>2. phase' = phase /\ enabled' = enabled
    BY <1>2 DEF Done
  <2>3. StagesInv'
    BY <1>0, <2>1, <2>2 DEF StagesInv
  <2>4. ASSUME NEW q \in Request PROVE wg'[q] = Cardinality(Live(q)')
    <3>1. CASE q = r
      <4>1. Live(r)' = Live(r) \ {c} /\ c \in Live(r)
        BY <2>1 DEF Live
      <4>2. Cardinality(Live(r) \ {c}) = Cardinality(Live(r)) - 1
        BY <4>1, LiveFinite, FS_RemoveElement
      <4>3. wg'[r] = wg[r] - 1
        BY <1>2 DEF Done, TypeOK
      <4>4. QED
        BY <3>1, <4>1, <4>2, <4>3 DEF WaitGroupInv
    <3>2. CASE q # r
      <4>1. Live(q)' = Live(q)
        BY <2>1, <3>2 DEF Live
      <4>2. wg'[q] = wg[q]
        BY <1>2, <3>2 DEF Done, TypeOK
      <4>3. QED
        BY <4>1, <4>2 DEF WaitGroupInv
    <3>3. QED
      BY <3>1, <3>2
  <2>5. QED
    BY <2>3, <2>4 DEF WaitGroupInv
<1>3. ASSUME wg' = wg, \A q \in Request : Live(q)' = Live(q)
      PROVE  WaitGroupInv'
  BY <1>3 DEF WaitGroupInv
<1>4. ASSUME NEW r \in Request, NEW c \in Collector, Report(r, c) PROVE GoroutineInv'
  <2>1. /\ at'[r][c] = "reported" /\ at[r][c] = "run"
        /\ \A q \in Request, d \in Collector : q # r \/ d # c => at'[q][d] = at[q][d]
    BY <1>4 DEF Report, TypeOK
  <2>2. phase' = phase /\ enabled' = enabled /\ wg' = wg
    BY <1>4 DEF Report, serving
  <2>3. StagesInv'
    BY <1>0, <2>1, <2>2 DEF StagesInv
  <2>4. \A q \in Request : Live(q)' = Live(q)
    BY <2>1 DEF Live
  <2>5. QED
    BY <1>3, <2>2, <2>3, <2>4
<1>5. ASSUME at' = at, wg' = wg
      PROVE  WaitGroupInv'
  <2>1. \A q \in Request : Live(q)' = Live(q)
    BY <1>5 DEF Live
  <2>2. QED
    BY <1>3, <1>5, <2>1
<1>6. ASSUME NEW r \in Request, WaitReturns(r) PROVE GoroutineInv'
  <2>1. Live(r) = {}
    BY <1>6, LiveFinite, FS_EmptySet DEF WaitReturns, WaitGroupInv
  <2>2. \A c \in enabled : c \in Collector /\ at[r][c] = "done"
    BY <1>6, <2>1, ExporterAssumption DEF WaitReturns, Live, TypeOK
  <2>3. /\ phase' = [phase EXCEPT ![r] = "waited"]
        /\ enabled' = enabled /\ wg' = wg /\ at' = at
    BY <1>6 DEF WaitReturns, running
  <2>4. StagesInv'
    BY <2>2, <2>3 DEF StagesInv, TypeOK
  <2>5. QED
    BY <1>5, <2>3, <2>4
<1>7. ASSUME NEW r \in Request,
             \/ Admit(r) \/ Reject(r) \/ Expire(r) \/ ProbeAnswer(r)
             \/ CollectRequests(r) \/ CollectErrors(r)
      PROVE  GoroutineInv'
  <2>1. at' = at /\ wg' = wg /\ enabled' = enabled
    BY <1>7 DEF Admit, Reject, Expire, ProbeAnswer, CollectRequests, CollectErrors, running
  <2>2. \A q \in Request :
          \/ phase'[q] = phase[q]
          \/ phase[q] \in {"new", "probe"} /\ phase'[q] \in {"probe", "rejected", "launch"}
          \/ phase[q] \in Waited /\ phase'[q] \in Waited
    BY <1>7 DEF TypeOK, Admit, Reject, Expire, ProbeAnswer, CollectRequests, CollectErrors
  <2>3. StagesInv'
    BY <1>0, <2>1, <2>2 DEF StagesInv
  <2>4. QED
    BY <1>5, <2>1, <2>3
<1>8. ASSUME NEW r \in Request, NEW c \in Collector, CallAnswer(r, c) PROVE GoroutineInv'
  BY <1>5, <1>8 DEF CallAnswer, serving, StagesInv
<1>9. CASE UNCHANGED vars
  BY <1>5, <1>9 DEF vars, serving, running, StagesInv
<1>10. QED
  BY <1>1, <1>2, <1>4, <1>6, <1>7, <1>8, <1>9 DEF Next, Progress, Goroutine, Finished

\* After wg.Wait no goroutine of the scrape is left to send on its channel.
THEOREM ChannelClosedLastHolds == Spec => []ChannelClosedLast
<1>1. TypeOK /\ GoroutineInv => ChannelClosedLast
  BY DEF GoroutineInv, StagesInv, ChannelClosedLast, TypeOK
<1>2. QED
  BY <1>1, TypeCorrect, GoroutineInit, GoroutineStep, PTL DEF Spec

-----------------------------------------------------------------------------
(* Verdicts, slots and the refinement of ScrapeService.                    *)

\* A verdict is unknown exactly until the step that gives it.
VerdictInv ==
    \A r \in Request :
        /\ up[r] = "unknown" <=> phase[r] \in {"new", "rejected", "probe"}
        /\ \A c \in Collector : verdict[r][c] = "unknown" <=> at[r][c] \in {"none", "run"}

LEMMA VerdictInit == Init => VerdictInv
BY DEF Init, VerdictInv, PerCollector

LEMMA VerdictStep ==
  ASSUME TypeOK, TypeOK', VerdictInv, [Next]_vars
  PROVE  VerdictInv'
<1>1. ASSUME NEW r \in Request,
             \/ Admit(r) \/ Reject(r) \/ Expire(r) \/ ProbeAnswer(r)
             \/ WaitReturns(r) \/ CollectRequests(r) \/ CollectErrors(r)
      PROVE  VerdictInv'
  <2>1. at' = at /\ verdict' = verdict
    BY <1>1 DEF Admit, Reject, Expire, ProbeAnswer, WaitReturns, CollectRequests,
                CollectErrors, running
  <2>2. \A q \in Request : up'[q] = "unknown" <=> phase'[q] \in {"new", "rejected", "probe"}
    BY <1>1 DEF VerdictInv, TypeOK, Admit, Reject, Expire, ProbeAnswer, WaitReturns,
                CollectRequests, CollectErrors
  <2>3. QED
    BY <2>1, <2>2 DEF VerdictInv
<1>2. ASSUME NEW r \in Request, NEW c \in Collector, Goroutine(r, c) PROVE VerdictInv'
  <2>1. phase' = phase /\ up' = up
    BY <1>2 DEF Goroutine, Launch, CallAnswer, Report, Done, serving
  <2>2. CASE Launch(r, c)
    <3>1. at[r][c] = "none" /\ at' = [at EXCEPT ![r][c] = "run"] /\ verdict' = verdict
      BY <2>2 DEF Launch
    <3>2. QED
      BY <2>1, <3>1 DEF VerdictInv, TypeOK
  <2>3. CASE CallAnswer(r, c)
    BY <2>1, <2>3 DEF CallAnswer, VerdictInv
  <2>4. CASE Report(r, c)
    <3>1. PICK v \in {"ok", "failed"} : verdict' = [verdict EXCEPT ![r][c] = v]
      BY <2>4 DEF Report
    <3>2. at' = [at EXCEPT ![r][c] = "reported"]
      BY <2>4 DEF Report
    <3>3. QED
      BY <2>1, <3>1, <3>2 DEF VerdictInv, TypeOK
  <2>5. CASE Done(r, c)
    <3>1. at[r][c] = "reported" /\ at' = [at EXCEPT ![r][c] = "done"] /\ verdict' = verdict
      BY <2>5 DEF Done
    <3>2. QED
      BY <2>1, <3>1 DEF VerdictInv, TypeOK
  <2>6. QED
    BY <1>2, <2>2, <2>3, <2>4, <2>5 DEF Goroutine
<1>3. CASE UNCHANGED vars
  BY <1>3 DEF vars, serving, running, VerdictInv
<1>4. QED
  BY <1>1, <1>2, <1>3 DEF Next, Progress, Finished

\* The instance counts as this module does.
LEMMA SameCardinality == \A S : Service!Cardinality(S) = Cardinality(S)
BY DEF Service!Cardinality, Cardinality, Service!IsFiniteSet, IsFiniteSet

\* Every step of Exporter is a step of ScrapeService or leaves it unchanged.
LEMMA ServiceStep ==
  ASSUME TypeOK, TypeOK', GoroutineInv, VerdictInv, [Next]_vars
  PROVE  [Service!Next]_(Service!vars)
<1> DEFINE stage == [r \in Request |-> Stage(r)]
<1>0. \A r \in Request : stage[r] \in {"new", "refused", "running", "served"}
  BY DEF Stage, TypeOK
<1>1. \A r \in Request : stage[r] = "running" <=> phase[r] \in InProgress
  BY DEF Stage, TypeOK
<1>2. Service!Running = Holding
  BY <1>1 DEF Service!Running, Holding
<1>3. ASSUME phase' = phase PROVE stage' = stage
  BY <1>3 DEF Stage
<1>4. ASSUME NEW r \in Request, NEW to, phase' = [phase EXCEPT ![r] = to],
             NEW st, Stage(r)' = st
      PROVE  stage' = [stage EXCEPT ![r] = st]
  BY <1>4 DEF Stage, TypeOK
<1>5. ASSUME NEW r \in Request, Admit(r) PROVE Service!Next
  <2>1. stage' = [stage EXCEPT ![r] = "running"]
    BY <1>4, <1>5 DEF Admit, Stage, TypeOK
  <2>2. stage[r] = "new"
    BY <1>5 DEF Admit, Stage
  <2>3. Service!Admit(r)
    BY SameCardinality, <1>2, <1>5, <2>1, <2>2 DEF Service!Admit, Admit, running
  <2>4. QED
    BY <2>3 DEF Service!Next
<1>6. ASSUME NEW r \in Request, Reject(r) PROVE Service!Next
  <2>1. stage' = [stage EXCEPT ![r] = "refused"]
    BY <1>4, <1>6 DEF Reject, Stage, TypeOK
  <2>2. stage[r] = "new"
    BY <1>6 DEF Reject, Stage
  <2>3. Service!Refuse(r)
    BY SameCardinality, <1>2, <1>6, <2>1, <2>2 DEF Service!Refuse, Reject, running
  <2>4. QED
    BY <2>3 DEF Service!Next
<1>7. ASSUME NEW r \in Request, ProbeAnswer(r) PROVE Service!Next
  <2>1. stage' = [stage EXCEPT ![r] = "running"] /\ stage[r] = "running"
    BY <1>1, <1>4, <1>7 DEF ProbeAnswer, Stage, TypeOK
  <2>2. stage' = stage
    BY <2>1
  <2>3. Service!JudgeNode(r)
    BY <1>7, <2>1, <2>2 DEF Service!JudgeNode, ProbeAnswer, VerdictInv, running
  <2>4. QED
    BY <2>3 DEF Service!Next
<1>8. ASSUME NEW r \in Request, NEW c \in Collector, Report(r, c) PROVE Service!Next
  <2>1. stage' = stage
    BY <1>3, <1>8 DEF Report, serving
  <2>2. c \in enabled /\ phase[r] = "launch"
    BY <1>8 DEF Report, GoroutineInv, StagesInv, TypeOK
  <2>3. up[r] # "unknown" /\ verdict[r][c] = "unknown"
    BY <1>8, <2>2 DEF Report, VerdictInv
  <2>4. Service!JudgeCollector(r, c)
    BY <1>1, <1>8, <2>1, <2>2, <2>3 DEF Service!JudgeCollector, Report, serving
  <2>5. QED
    BY <2>4 DEF Service!Next
<1>9. ASSUME NEW r \in Request, CollectErrors(r) PROVE Service!Next
  <2>1. stage' = [stage EXCEPT ![r] = "served"] /\ stage[r] = "running"
    BY <1>1, <1>4, <1>9 DEF CollectErrors, Stage, TypeOK
  <2>2. up[r] # "unknown"
    BY <1>9 DEF CollectErrors, VerdictInv
  <2>3. \A c \in enabled : verdict[r][c] # "unknown"
    BY <1>9, ExporterAssumption DEF CollectErrors, GoroutineInv, StagesInv, VerdictInv, TypeOK
  <2>4. Service!Serve(r)
    BY <1>9, <2>1, <2>2, <2>3 DEF Service!Serve, CollectErrors, running
  <2>5. QED
    BY <2>4 DEF Service!Next
<1>10. ASSUME NEW r \in Request, WaitReturns(r) \/ CollectRequests(r)
       PROVE  UNCHANGED Service!vars
  <2>1. stage' = [stage EXCEPT ![r] = "running"] /\ stage[r] = "running"
    <3>1. phase \in [Request -> Phases]
      BY DEF TypeOK
    <3>2. QED
      BY <1>1, <1>4, <1>10, <3>1 DEF WaitReturns, CollectRequests, Stage
  <2>2. QED
    BY <1>10, <2>1 DEF Service!vars, WaitReturns, CollectRequests, running
<1>11. ASSUME NEW r \in Request, NEW c \in Collector,
              Expire(r) \/ Launch(r, c) \/ CallAnswer(r, c) \/ Done(r, c)
       PROVE  UNCHANGED Service!vars
  BY <1>3, <1>11 DEF Service!vars, Expire, Launch, CallAnswer, Done, serving, running
<1>12. CASE UNCHANGED vars
  BY <1>3, <1>12 DEF Service!vars, vars, serving, running
<1>13. ASSUME NEW r \in Request, Expire(r) PROVE UNCHANGED Service!vars
  BY <1>3, <1>13 DEF Service!vars, Expire, running
<1>14. QED
  BY <1>5, <1>6, <1>7, <1>8, <1>9, <1>10, <1>11, <1>12, <1>13
     DEF Next, Progress, Goroutine, Finished

\* Exporter implements the safety part of ScrapeService.
THEOREM ImplementsService == Spec => ServiceSafe
<1>1. Init => Service!Init
  BY DEF Init, Service!Init, Stage, PerCollector
<1>2. QED
  BY <1>1, TypeCorrect, GoroutineInit, GoroutineStep, VerdictInit, VerdictStep,
     ServiceStep, PTL DEF Spec, ServiceSafe, Service!SafeSpec

-----------------------------------------------------------------------------
(* The deadline.                                                           *)

\* A goroutine that began a call after the deadline still has that call to
\* come, or has already recorded its failure, and success is only ever
\* published where no failure is recorded.
DeadlineInv ==
    \A r \in Request, c \in Collector :
        /\ c \in late[r] => \/ at[r][c] = "run" /\ todo[r][c] # << >>
                            \/ c \in failed[r]
        /\ verdict[r][c] = "ok" => c \notin failed[r]

\* No collector forgives a call that got no answer.
LEMMA TransportNotTolerated == \A call : ~ Tolerates(call, Transport)
BY DEF Tolerates, Transport, NoError, RPCError

\* Every collector makes at least one call.
LEMMA ProgramNotEmpty == \A c \in Collector : Program[c] # << >>
<1>1. ASSUME FeeTargets = << >> PROVE DOMAIN Targets # {}
  <2>1. Targets = <<1, 2, 3, 6, 36, 144, 1008>>
    BY <1>1 DEF Targets, DefaultFeeTargets
  <2>2. QED
    BY <2>1
<1>2. ASSUME FeeTargets # << >> PROVE DOMAIN Targets # {}
  <2>1. Len(FeeTargets) \in Nat /\ DOMAIN FeeTargets = 1 .. Len(FeeTargets)
    BY ConfigAssumption
  <2>2. Len(FeeTargets) # 0
    BY <1>2, ConfigAssumption
  <2>3. 1 \in DOMAIN FeeTargets
    BY <2>1, <2>2
  <2>4. QED
    BY <1>2, <2>3 DEF Targets
<1>3. DOMAIN Targets # {}
  BY <1>1, <1>2
<1>4. [i \in DOMAIN Targets |-> Call("estimatesmartfee", Targets[i])] # << >>
  BY <1>3
<1>5. QED
  BY <1>4 DEF Program, Collector

LEMMA DeadlineInit == Init => DeadlineInv
BY DEF Init, DeadlineInv, PerCollector

LEMMA DeadlineStep ==
  ASSUME TypeOK, TypeOK', VerdictInv, DeadlineInv, [Next]_vars
  PROVE  DeadlineInv'
<1>0. DOMAIN todo = Request /\ \A r \in Request : DOMAIN todo[r] = Collector
  BY DEF TypeOK, IsTable
<1>1. ASSUME UNCHANGED running PROVE DeadlineInv'
  BY <1>1 DEF running, DeadlineInv
<1>2. ASSUME NEW r \in Request, NEW c \in Collector, NEW q \in Request, NEW d \in Collector,
             Goroutine(r, c), q # r \/ d # c
      PROVE  /\ at'[q][d] = at[q][d] /\ todo'[q][d] = todo[q][d]
             /\ verdict'[q][d] = verdict[q][d]
             /\ d \in late'[q] <=> d \in late[q]
             /\ d \in failed'[q] <=> d \in failed[q]
  <2>1. CASE Launch(r, c)
    BY <1>2, <2>1, EntryShape DEF TypeOK, Launch, Put
  <2>2. CASE CallAnswer(r, c)
    <3>1. PICK v : todo' = [todo EXCEPT ![r][c] = v]
      BY <2>2 DEF CallAnswer
    <3>2. todo'[q][d] = todo[q][d]
      BY <1>2, <3>1, EntryShape DEF TypeOK
    <3>3. /\ late' = late \/ late' = Put(late, r, c)
          /\ failed' = failed \/ failed' = Put(failed, r, c)
          /\ at' = at /\ verdict' = verdict
      BY <2>2 DEF CallAnswer
    <3>4. QED
      BY <1>2, <3>2, <3>3 DEF TypeOK, Put
  <2>3. CASE Report(r, c)
    BY <1>2, <2>3 DEF TypeOK, Report
  <2>4. CASE Done(r, c)
    BY <1>2, <2>4 DEF TypeOK, Done
  <2>5. QED
    BY <1>2, <2>1, <2>2, <2>3, <2>4 DEF Goroutine
<1>3. ASSUME NEW r \in Request, NEW c \in Collector, Goroutine(r, c)
      PROVE  /\ c \in late'[r] => \/ at'[r][c] = "run" /\ todo'[r][c] # << >>
                                  \/ c \in failed'[r]
             /\ verdict'[r][c] = "ok" => c \notin failed'[r]
  <2>1. CASE Launch(r, c)
    <3>1. at'[r][c] = "run" /\ failed' = failed /\ verdict' = verdict
      BY <2>1 DEF TypeOK, Launch
    <3>a. PICK v : v = Program[c] /\ todo' = [todo EXCEPT ![r][c] = v]
      BY <2>1 DEF Launch
    <3>2. todo'[r][c] = Program[c]
      BY <1>0, <3>a
    <3>3. QED
      BY <3>1, <3>2, ProgramNotEmpty DEF DeadlineInv
  <2>2. CASE CallAnswer(r, c)
    <3>1. at'[r][c] = "run" /\ verdict'[r][c] = "unknown"
      BY <2>2 DEF CallAnswer, VerdictInv, TypeOK
    <3>2. ASSUME c \in late'[r], todo'[r][c] = << >> PROVE c \in failed'[r]
      <4> DEFINE call == Head(todo[r][c])
      <4>1. PICK ans \in (IF c \in late[r] THEN Failures(call) ELSE Answers(call)) :
               LET rest == Follow(call, ans) \o Tail(todo[r][c])
               IN  /\ todo' = [todo EXCEPT ![r][c] = rest]
                   /\ late' = IF r \in expired /\ rest # << >> THEN Put(late, r, c) ELSE late
                   /\ failed' = IF Tolerates(call, ans.err) THEN failed ELSE Put(failed, r, c)
        BY <2>2 DEF CallAnswer
      <4>2. late' = late
        <5> DEFINE rest == Follow(call, ans) \o Tail(todo[r][c])
        <5>1. PICK v : v = rest /\ todo' = [todo EXCEPT ![r][c] = v]
          BY <4>1
        <5> HIDE DEF rest
        <5>2. todo'[r][c] = rest
          BY <1>0, <5>1
        <5>3. QED
          BY <3>2, <4>1, <5>2 DEF rest
      <4>3. ans.err = Transport
        BY <3>2, <4>1, <4>2 DEF Failures
      <4>4. failed' = Put(failed, r, c)
        BY <4>1, <4>3, TransportNotTolerated
      <4>5. QED
        BY <4>4 DEF Put, TypeOK
    <3>3. QED
      BY <3>1, <3>2
  <2>3. CASE Report(r, c)
    <3>1. todo[r][c] = << >> /\ late' = late /\ failed' = failed
      BY <2>3 DEF Report
    <3>2. verdict'[r][c] = IF c \in failed[r] THEN "failed" ELSE "ok"
      BY <2>3 DEF Report, TypeOK
    <3>3. QED
      BY <3>1, <3>2 DEF DeadlineInv
  <2>4. CASE Done(r, c)
    <3>1. at[r][c] = "reported" /\ late' = late /\ failed' = failed /\ verdict' = verdict
      BY <2>4 DEF Done
    <3>2. QED
      BY <3>1 DEF DeadlineInv
  <2>5. QED
    BY <1>3, <2>1, <2>2, <2>3, <2>4 DEF Goroutine
<1>4. ASSUME NEW r \in Request, NEW c \in Collector, Goroutine(r, c) PROVE DeadlineInv'
  <2>1. ASSUME NEW q \in Request, NEW d \in Collector
        PROVE  /\ d \in late'[q] => \/ at'[q][d] = "run" /\ todo'[q][d] # << >>
                                    \/ d \in failed'[q]
               /\ verdict'[q][d] = "ok" => d \notin failed'[q]
    BY <1>2, <1>3, <1>4 DEF DeadlineInv
  <2>2. QED
    BY <2>1 DEF DeadlineInv
<1>5. ASSUME NEW r \in Request,
             \/ Admit(r) \/ Reject(r) \/ Expire(r) \/ ProbeAnswer(r)
             \/ WaitReturns(r) \/ CollectRequests(r) \/ CollectErrors(r)
      PROVE  DeadlineInv'
  BY <1>1, <1>5 DEF Admit, Reject, Expire, ProbeAnswer, WaitReturns, CollectRequests,
                    CollectErrors
<1>6. CASE UNCHANGED vars
  BY <1>1, <1>6 DEF vars
<1>7. QED
  BY <1>4, <1>5, <1>6 DEF Next, Progress, Finished

\* No collector that was cut short by the deadline reports success.
THEOREM DeadlineIsReportedHolds == Spec => []DeadlineIsReported
<1>1. TypeOK /\ VerdictInv /\ DeadlineInv => DeadlineIsReported
  BY DEF VerdictInv, DeadlineInv, DeadlineIsReported, TypeOK
<1>2. QED
  BY <1>1, TypeCorrect, VerdictInit, VerdictStep, DeadlineInit, DeadlineStep, PTL DEF Spec

-----------------------------------------------------------------------------
(* The exporter's own counters.                                            *)

CountersInv ==
    \A r \in Request :
        /\ own[r].requests <= counters.requests
        /\ own[r].errors <= counters.errors
        /\ phase[r] \in {"counted", "served"} => exposed[r].requests >= own[r].requests
        /\ phase[r] = "served" => exposed[r].errors >= own[r].errors

LEMMA CountersInit == Init => CountersInv
BY DEF Init, CountersInv, Zero

LEMMA CountersStep ==
  ASSUME TypeOK, TypeOK', GoroutineInv, CountersInv, [Next]_vars
  PROVE  CountersInv'
<1>1. ASSUME NEW r \in Request, NEW err, ObserveRPC(r, err), exposed' = exposed,
             phase[r] \in {"probe", "launch"}, phase'[r] \in {"probe", "launch"},
             \A q \in Request : q # r => phase'[q] = phase[q]
      PROVE  CountersInv'
  <2>1. /\ counters'.requests = counters.requests + 1
        /\ \/ counters'.errors = counters.errors /\ own'[r].errors = own[r].errors
           \/ counters'.errors = counters.errors + 1 /\ own'[r].errors = own[r].errors + 1
        /\ own'[r].requests = own[r].requests + 1
        /\ \A q \in Request : q # r => own'[q] = own[q]
    BY <1>1 DEF ObserveRPC, Count, TypeOK, Counts
  <2>2. /\ counters.requests \in Nat /\ counters.errors \in Nat
        /\ \A q \in Request : own[q].requests \in Nat /\ own[q].errors \in Nat
    BY DEF TypeOK, Counts
  <2>3. QED
    BY <1>1, <2>1, <2>2 DEF CountersInv
<1>2. ASSUME NEW r \in Request, ProbeAnswer(r) PROVE CountersInv'
  <2>1. PICK err : ObserveRPC(r, err)
    BY <1>2 DEF ProbeAnswer
  <2>2. QED
    BY <1>1, <1>2, <2>1 DEF ProbeAnswer, TypeOK
<1>3. ASSUME NEW r \in Request, NEW c \in Collector, CallAnswer(r, c) PROVE CountersInv'
  <2>1. PICK err : ObserveRPC(r, err)
    BY <1>3 DEF CallAnswer
  <2>2. at[r][c] = "run" /\ phase' = phase /\ exposed' = exposed
    BY <1>3 DEF CallAnswer, serving
  <2>3. phase[r] = "launch"
    BY <2>2 DEF GoroutineInv, StagesInv, TypeOK
  <2>4. QED
    BY <1>1, <2>1, <2>2, <2>3
<1>4. ASSUME NEW r \in Request, CollectRequests(r) PROVE CountersInv'
  BY <1>4 DEF CollectRequests, CountersInv, TypeOK, Counts
<1>5. ASSUME NEW r \in Request, CollectErrors(r) PROVE CountersInv'
  BY <1>5 DEF CollectErrors, CountersInv, TypeOK, Counts
<1>6. ASSUME UNCHANGED metrics,
             \A q \in Request : \/ phase'[q] = phase[q]
                                \/ phase'[q] \notin {"counted", "served"}
      PROVE  CountersInv'
  BY <1>6 DEF CountersInv, metrics
<1>7. ASSUME NEW r \in Request, Admit(r) \/ Reject(r) \/ Expire(r) \/ WaitReturns(r)
      PROVE  CountersInv'
  BY <1>6, <1>7 DEF TypeOK, Admit, Reject, Expire, WaitReturns
<1>8. ASSUME NEW r \in Request, NEW c \in Collector, Launch(r, c) \/ Report(r, c) \/ Done(r, c)
      PROVE  CountersInv'
  BY <1>6, <1>8 DEF Launch, Report, Done, serving
<1>9. CASE UNCHANGED vars
  BY <1>6, <1>9 DEF vars, serving
<1>10. QED
  BY <1>2, <1>3, <1>4, <1>5, <1>7, <1>8, <1>9 DEF Next, Progress, Goroutine, Finished

\* A response carries counters that include all the calls of its scrape.
THEOREM OwnCallsExposedHolds == Spec => []OwnCallsExposed
<1>1. CountersInv => OwnCallsExposed
  BY DEF CountersInv, OwnCallsExposed
<1>2. QED
  BY <1>1, TypeCorrect, GoroutineInit, GoroutineStep, CountersInit, CountersStep, PTL DEF Spec

-----------------------------------------------------------------------------
(* The slots.                                                              *)

SlotsInv == Cardinality(Holding) <= MaxInFlight

LEMMA HoldingFinite == IsFiniteSet(Holding) /\ Cardinality(Holding) \in Nat
BY ExporterAssumption, FS_Subset, FS_CardinalityType DEF Holding

LEMMA SlotsInit == Init => SlotsInv
<1> SUFFICES ASSUME Init PROVE SlotsInv
  OBVIOUS
<1>1. Holding = {}
  BY DEF Init, Holding
<1>2. QED
  BY <1>1, FS_EmptySet, ExporterAssumption DEF SlotsInv

LEMMA SlotsStep ==
  ASSUME TypeOK, TypeOK', SlotsInv, [Next]_vars
  PROVE  SlotsInv'
<1>1. ASSUME NEW r \in Request, Admit(r) PROVE SlotsInv'
  <2>1. Holding' = Holding \cup {r} /\ r \notin Holding
    BY <1>1 DEF Admit, Holding, TypeOK
  <2>2. Cardinality(Holding \cup {r}) = Cardinality(Holding) + 1
    BY <2>1, HoldingFinite, FS_AddElement
  <2>3. QED
    BY <1>1, <2>1, <2>2, HoldingFinite, ExporterAssumption DEF Admit, SlotsInv
<1>2. ASSUME Holding' \subseteq Holding PROVE SlotsInv'
  <2>1. Cardinality(Holding') <= Cardinality(Holding) /\ Cardinality(Holding') \in Nat
    BY <1>2, HoldingFinite, FS_Subset, FS_CardinalityType
  <2>2. QED
    BY <2>1, HoldingFinite, ExporterAssumption DEF SlotsInv
<1>3. ASSUME NEW r \in Request,
             \/ Reject(r) \/ Expire(r) \/ ProbeAnswer(r) \/ WaitReturns(r)
             \/ CollectRequests(r) \/ CollectErrors(r)
      PROVE  SlotsInv'
  <2>1. Holding' \subseteq Holding
    BY <1>3 DEF Reject, Expire, ProbeAnswer, WaitReturns, CollectRequests, CollectErrors,
                Holding, TypeOK
  <2>2. QED
    BY <1>2, <2>1
<1>4. ASSUME phase' = phase PROVE SlotsInv'
  BY <1>2, <1>4 DEF Holding
<1>5. ASSUME NEW r \in Request, NEW c \in Collector, Goroutine(r, c) PROVE SlotsInv'
  BY <1>4, <1>5 DEF Goroutine, Launch, CallAnswer, Report, Done, serving
<1>6. CASE UNCHANGED vars
  BY <1>4, <1>6 DEF vars, serving
<1>7. QED
  BY <1>1, <1>3, <1>5, <1>6 DEF Next, Progress, Finished

\* The slots bound the load on the node.
LEMMA LoadIsBounded ==
  ASSUME TypeOK, GoroutineInv, SlotsInv
  PROVE  NodeLoadBound
<1> DEFINE L == { r \in Request : phase[r] = "launch" }
<1> DEFINE e == Cardinality(enabled)
<1>1. Outstanding \subseteq L \X enabled
  <2> SUFFICES ASSUME NEW r \in Request, NEW c \in Collector, at[r][c] = "run"
               PROVE  phase[r] = "launch" /\ c \in enabled
    BY DEF Outstanding
  <2>1. c \in enabled
    BY DEF GoroutineInv, StagesInv
  <2>2. QED
    BY <2>1 DEF GoroutineInv, StagesInv, TypeOK
<1>2. IsFiniteSet(enabled) /\ enabled # {}
  BY CollectorFinite, ExporterAssumption, FS_Subset DEF TypeOK
<1>3. e \in Nat /\ e # 0
  BY <1>2, FS_EmptySet, FS_CardinalityType
<1>4. /\ IsFiniteSet(L) /\ Cardinality(L) \in Nat
      /\ IsFiniteSet(Probing) /\ Cardinality(Probing) \in Nat
  BY ExporterAssumption, FS_Subset, FS_CardinalityType DEF Probing
<1>5. Cardinality(L) + Cardinality(Probing) <= MaxInFlight
  <2>1. L \cap Probing = {} /\ L \cup Probing \subseteq Holding
    BY DEF Probing, Holding
  <2>2. Cardinality(L \cup Probing) = Cardinality(L) + Cardinality(Probing) - Cardinality(L \cap Probing)
    BY <1>4, FS_Union
  <2>3. Cardinality(L \cap Probing) = 0
    BY <2>1, FS_EmptySet
  <2>4. Cardinality(L \cup Probing) <= Cardinality(Holding)
    BY <2>1, HoldingFinite, FS_Subset
  <2>5. QED
    BY <1>4, <2>2, <2>3, <2>4, HoldingFinite, ExporterAssumption DEF SlotsInv
<1>6. Cardinality(Outstanding) <= Cardinality(L) * e /\ Cardinality(Outstanding) \in Nat
  <2>1. IsFiniteSet(L \X enabled) /\ Cardinality(L \X enabled) = Cardinality(L) * e
    BY <1>2, <1>4, FS_Product
  <2>2. IsFiniteSet(Outstanding) /\ Cardinality(Outstanding) <= Cardinality(L \X enabled)
    BY <1>1, <2>1, FS_Subset
  <2>3. QED
    BY <2>1, <2>2, FS_CardinalityType
<1>7. ASSUME NEW l \in Nat, NEW p \in Nat, NEW m \in Nat, NEW k \in Nat, k # 0,
             l + p <= m
      PROVE  l * k + p <= m * k
  <2>1. p <= p * k
    BY <1>7
  <2>2. (l + p) * k <= m * k
    BY <1>7
  <2>3. (l + p) * k = l * k + p * k
    BY <1>7
  <2>4. QED
    BY <1>7, <2>1, <2>2, <2>3
<1> HIDE DEF L, e
<1>8. Cardinality(L) * e + Cardinality(Probing) <= MaxInFlight * e
  BY <1>3, <1>4, <1>5, <1>7, ExporterAssumption
<1>9. QED
  <2>1. \A o, l, p, m \in Nat : o <= l /\ l + p <= m => o + p <= m
    OBVIOUS
  <2>2. Cardinality(L) * e \in Nat /\ MaxInFlight * e \in Nat
    BY <1>3, <1>4, ExporterAssumption
  <2>3. Cardinality(Outstanding) + Cardinality(Probing) <= MaxInFlight * e
    BY <1>4, <1>6, <1>8, <2>1, <2>2
  <2>4. QED
    BY <2>3 DEF NodeLoadBound, e

\* However many requests arrive, at most MaxInFlight times the enabled
\* collectors' calls are at the node.
THEOREM NodeLoadBoundHolds == Spec => []NodeLoadBound
BY TypeCorrect, GoroutineInit, GoroutineStep, SlotsInit, SlotsStep, LoadIsBounded, PTL DEF Spec
=============================================================================
