------------------------------ MODULE Exporter ------------------------------
(***************************************************************************)
(* Scrapes of the exporter: the bounded /metrics handler of                *)
(* cmd/bitcoin-exporter/main.go and Exporter.Collect of                    *)
(* internal/collector/collector.go, several requests at a time.            *)
(*                                                                         *)
(* Collect probes the node, starts one goroutine per enabled collector,    *)
(* waits for them on a WaitGroup and then reads the exporter's own         *)
(* counters.  Each goroutine runs its program (module Collectors) call by  *)
(* call and sends samples on the scrape's channel, which the registry      *)
(* closes once Collect has returned.  The deadline of a scrape may expire  *)
(* at any moment; a call begun after that fails without reaching the node. *)
(*                                                                         *)
(* The node is external: it may answer any call in any way, so its own     *)
(* restarts, warm-up and refusals are all covered.                         *)
(***************************************************************************)
EXTENDS Collectors, Integers

CONSTANTS
    Request,         \* the scrape requests that arrive; each is one scrape
    MaxInFlight,     \* promhttp's MaxRequestsInFlight
    Configurations   \* the collector sets the process may be started with

ASSUME ExporterAssumption ==
    /\ MaxInFlight \in Nat \ {0}
    /\ Configurations \subseteq (SUBSET Collector) \ {{}}
    /\ IsFiniteSet(Request)

VARIABLES
    enabled,    \* keys of Exporter.collectors, fixed when the process starts
    phase,      \* request -> where its handler is
    expired,    \* the requests whose context's deadline has passed
    up,         \* request -> the bitcoin_up it published
    wg,         \* request -> the WaitGroup's counter
    at,         \* request -> collector -> where its goroutine is
    todo,       \* request -> collector -> calls to make; the first is running
    late,       \* request -> collectors that began a call after the deadline
    failed,     \* request -> collectors whose Update has an error to return
    samples,    \* request -> collector -> samples it has sent
    clash,      \* request -> what the calls that sent a series again asked about
    verdict,    \* request -> collector -> the collector_success published
    listed,     \* request -> the wallets that listwallets gave (history)
    counters,   \* rpc_requests_total and rpc_errors_total, over all methods
    own,        \* request -> the part of counters its own calls account for
    exposed     \* request -> the counters its response carries

serving == << enabled, phase, expired, up, wg >>
running == << at, todo, late, failed, samples, clash, verdict, listed >>
metrics == << counters, own, exposed >>
vars    == << serving, running, metrics >>

-----------------------------------------------------------------------------
Phases     == {"new", "rejected", "probe", "launch", "waited", "counted", "served"}
InProgress == {"probe", "launch", "waited", "counted"}
Waited     == {"waited", "counted", "served"}

Holding == { r \in Request : phase[r] \in InProgress }

Zero   == [requests |-> 0, errors |-> 0]
Counts == [requests : Nat, errors : Nat]

\* Bug: a success takes an error back.
CountBalance(n, err) ==
    [requests |-> n.requests + 1,
     errors   |-> n.errors + (IF err = NoError THEN -1 ELSE 1)]

\* A call counts as a request always, and as an error when it returned one.
Count(n, err) ==
    [requests |-> n.requests + 1,
     errors   |-> n.errors + (IF err = NoError THEN 0 ELSE 1)]

ObserveRPC(r, err) ==
    /\ counters' = Count(counters, err)
    /\ own' = [own EXCEPT ![r] = Count(own[r], err)]

\* Adds x to what request r has in f.
Put(f, r, x) == [f EXCEPT ![r] = f[r] \cup {x}]

PerCollector(v) == [r \in Request |-> [c \in Collector |-> v]]

Init ==
    /\ enabled \in Configurations
    /\ phase = [r \in Request |-> "new"]
    /\ expired = {}
    /\ up = [r \in Request |-> "unknown"]
    /\ wg = [r \in Request |-> 0]
    /\ at = PerCollector("none")
    /\ todo = PerCollector(<< >>)
    /\ late = [r \in Request |-> {}]
    /\ failed = [r \in Request |-> {}]
    /\ samples = PerCollector({})
    /\ clash = [r \in Request |-> {}]
    /\ verdict = PerCollector("unknown")
    /\ listed = [r \in Request |-> << >>]
    /\ counters = Zero
    /\ own = [r \in Request |-> Zero]
    /\ exposed = [r \in Request |-> Zero]

-----------------------------------------------------------------------------
(* The handler: a slot or 503, then Collect.                               *)

\* Bug: off by one, a request is let in when every slot is taken.
AdmitOneMore(r) ==
    /\ phase[r] = "new"
    /\ Cardinality(Holding) <= MaxInFlight
    /\ phase' = [phase EXCEPT ![r] = "probe"]
    /\ UNCHANGED << enabled, expired, up, wg, running, metrics >>

Admit(r) ==
    /\ phase[r] = "new"
    /\ Cardinality(Holding) < MaxInFlight
    /\ phase' = [phase EXCEPT ![r] = "probe"]
    /\ UNCHANGED << enabled, expired, up, wg, running, metrics >>

Reject(r) ==
    /\ phase[r] = "new"
    /\ Cardinality(Holding) >= MaxInFlight
    /\ phase' = [phase EXCEPT ![r] = "rejected"]
    /\ UNCHANGED << enabled, expired, up, wg, running, metrics >>

\* The context was made from Background: only its own deadline ends it.
Expire(r) ==
    /\ phase[r] \in {"probe", "launch"}
    /\ r \notin expired
    /\ expired' = expired \cup {r}
    /\ UNCHANGED << enabled, phase, up, wg, running, metrics >>

ProbeAnswer(r) ==
    /\ phase[r] = "probe"
    /\ \E ans \in Answers(Call("uptime", None)) :
        /\ up' = [up EXCEPT ![r] = IF ans.err = Transport THEN "down" ELSE "up"]
        /\ ObserveRPC(r, ans.err)
    /\ phase' = [phase EXCEPT ![r] = "launch"]
    /\ UNCHANGED << enabled, expired, wg, running, exposed >>

\* Bug: wg.Add is left to the goroutine, which may not have got to it.
LaunchUncounted(r, c) ==
    /\ phase[r] = "launch"
    /\ c \in enabled
    /\ at[r][c] = "none"
    /\ at' = [at EXCEPT ![r][c] = "run"]
    /\ todo' = [todo EXCEPT ![r][c] = Program[c]]
    /\ late' = IF r \in expired THEN Put(late, r, c) ELSE late
    /\ UNCHANGED << serving, failed, samples, clash, verdict, listed, metrics >>

\* One turn of the loop over the collectors map, in any order: wg.Add(1), go.
Launch(r, c) ==
    /\ phase[r] = "launch"
    /\ c \in enabled
    /\ at[r][c] = "none"
    /\ wg' = [wg EXCEPT ![r] = wg[r] + 1]
    /\ at' = [at EXCEPT ![r][c] = "run"]
    /\ todo' = [todo EXCEPT ![r][c] = Program[c]]
    /\ late' = IF r \in expired THEN Put(late, r, c) ELSE late
    /\ UNCHANGED << enabled, phase, expired, up, failed, samples, clash, verdict, listed,
                    metrics >>

\* The running call of a goroutine returns and Update goes on to the next one.
CallAnswer(r, c) ==
    /\ at[r][c] = "run"
    /\ todo[r][c] # << >>
    /\ LET call == Head(todo[r][c]) IN
       \E ans \in (IF c \in late[r] THEN Failures(call) ELSE Answers(call)) :
          LET rest == Follow(call, ans) \o Tail(todo[r][c])
              sent == Samples(call, ans)
              Same(s, t) == s.family = t.family /\ s.label = t.label
          IN  /\ todo' = [todo EXCEPT ![r][c] = rest]
              /\ late' = IF r \in expired /\ rest # << >> THEN Put(late, r, c) ELSE late
              /\ failed' = IF Tolerates(call, ans.err) THEN failed ELSE Put(failed, r, c)
              /\ samples' = [samples EXCEPT ![r][c] = samples[r][c] \cup sent]
              /\ clash' = IF \E s \in sent, t \in samples[r][c] : Same(s, t)
                          THEN Put(clash, r, call.arg) ELSE clash
              /\ listed' = IF call.method = "listwallets" /\ ans.err = NoError
                           THEN [listed EXCEPT ![r] = ans.data] ELSE listed
              /\ ObserveRPC(r, ans.err)
    /\ UNCHANGED << serving, at, verdict, exposed >>

\* Update has returned: its duration and success are sent.
Report(r, c) ==
    /\ at[r][c] = "run"
    /\ todo[r][c] = << >>
    /\ at' = [at EXCEPT ![r][c] = "reported"]
    /\ verdict' = [verdict EXCEPT ![r][c] = IF c \in failed[r] THEN "failed" ELSE "ok"]
    /\ UNCHANGED << serving, todo, late, failed, samples, clash, listed, metrics >>

\* Bug: wg.Done is not deferred, and an error returns before it.
DoneOnSuccess(r, c) ==
    /\ at[r][c] = "reported"
    /\ at' = [at EXCEPT ![r][c] = "done"]
    /\ wg' = [wg EXCEPT ![r] = IF c \in failed[r] THEN wg[r] ELSE wg[r] - 1]
    /\ UNCHANGED << enabled, phase, expired, up,
                    todo, late, failed, samples, clash, verdict, listed, metrics >>

\* The deferred wg.Done, last of all.
Done(r, c) ==
    /\ at[r][c] = "reported"
    /\ at' = [at EXCEPT ![r][c] = "done"]
    /\ wg' = [wg EXCEPT ![r] = wg[r] - 1]
    /\ UNCHANGED << enabled, phase, expired, up,
                    todo, late, failed, samples, clash, verdict, listed, metrics >>

\* Bug: the counters are read as soon as the loop is over.
WaitSkipped(r) ==
    /\ phase[r] = "launch"
    /\ \A c \in enabled : at[r][c] # "none"
    /\ phase' = [phase EXCEPT ![r] = "waited"]
    /\ UNCHANGED << enabled, expired, up, wg, running, metrics >>

\* The loop is over and wg.Wait returns.
WaitReturns(r) ==
    /\ phase[r] = "launch"
    /\ \A c \in enabled : at[r][c] # "none"
    /\ wg[r] = 0
    /\ phase' = [phase EXCEPT ![r] = "waited"]
    /\ UNCHANGED << enabled, expired, up, wg, running, metrics >>

\* rpcRequestTotal.Collect, then rpcErrorsTotal.Collect; other scrapes go on.
CollectRequests(r) ==
    /\ phase[r] = "waited"
    /\ exposed' = [exposed EXCEPT ![r] =
                    [requests |-> counters.requests, errors |-> exposed[r].errors]]
    /\ phase' = [phase EXCEPT ![r] = "counted"]
    /\ UNCHANGED << enabled, expired, up, wg, running, counters, own >>

\* Collect returns, the response is written and the slot is free again.
CollectErrors(r) ==
    /\ phase[r] = "counted"
    /\ exposed' = [exposed EXCEPT ![r] =
                    [requests |-> exposed[r].requests, errors |-> counters.errors]]
    /\ phase' = [phase EXCEPT ![r] = "served"]
    /\ UNCHANGED << enabled, expired, up, wg, running, counters, own >>

\* Every request of the instance has been dealt with.
Finished ==
    /\ \A r \in Request : phase[r] \in {"served", "rejected"}
    /\ UNCHANGED vars

Goroutine(r, c) == Launch(r, c) \/ CallAnswer(r, c) \/ Report(r, c) \/ Done(r, c)

\* The steps that the Go scheduler and the timeout of every call bring about.
Progress(r) ==
    \/ ProbeAnswer(r)
    \/ \E c \in Collector : Goroutine(r, c)
    \/ WaitReturns(r)
    \/ CollectRequests(r)
    \/ CollectErrors(r)

Next ==
    \/ \E r \in Request : Admit(r) \/ Reject(r) \/ Expire(r) \/ Progress(r)
    \/ Finished

Fairness == \A r \in Request : WF_vars(Progress(r))

Spec == Init /\ [][Next]_vars /\ Fairness

-----------------------------------------------------------------------------
(* Properties.                                                             *)

GoStates == {"none", "run", "reported", "done"}
Verdicts == {"unknown", "ok", "failed"}

\* f gives something for each request and collector.
IsTable(f) == f = [r \in Request |-> [c \in Collector |-> f[r][c]]]

\* The type invariant.  todo, samples, clash and listed are given their shape only.
TypeOK ==
    /\ enabled \in Configurations
    /\ phase \in [Request -> Phases]
    /\ expired \subseteq Request
    /\ up \in [Request -> {"unknown", "up", "down"}]
    /\ wg \in [Request -> Int]
    /\ at \in [Request -> [Collector -> GoStates]]
    /\ IsTable(todo)
    /\ late \in [Request -> SUBSET Collector]
    /\ failed \in [Request -> SUBSET Collector]
    /\ IsTable(samples)
    /\ DOMAIN clash = Request
    /\ verdict \in [Request -> [Collector -> Verdicts]]
    /\ DOMAIN listed = Request
    /\ counters \in Counts
    /\ own \in [Request -> Counts]
    /\ exposed \in [Request -> Counts]

\* Once wg.Wait has returned no goroutine of that scrape is left, so none can
\* send on the channel that the registry closes when Collect is over (a send
\* on a closed channel panics).  The WaitGroup alone brings this about.
ChannelClosedLast ==
    \A r \in Request :
        phase[r] \in Waited => \A c \in Collector : at[r][c] \in {"none", "done"}

\* A collector that reports success has published every family its Update
\* stands for: a refusal it tolerates must leave the sample that says so, every
\* fee target has an answer, and every wallet that was listed and is wanted is
\* described.
SuccessMeansComplete ==
    \A r \in Request, c \in Collector :
        verdict[r][c] = "ok" => Complete(c, listed[r], samples[r][c])

\* A collector that the deadline cut short never reports success, though
\* fees, mining and wallet forgive some errors and go on.
DeadlineIsReported ==
    \A r \in Request, c \in Collector :
        c \in late[r] => verdict[r][c] # "ok"

\* The counters of a response include every call its own scrape made, though
\* they are shared with other scrapes and read one after the other at the end.
OwnCallsExposed ==
    \A r \in Request :
        phase[r] = "served" => /\ exposed[r].requests >= own[r].requests
                               /\ exposed[r].errors >= own[r].errors

\* A series is sent twice in one scrape only by a call about a fee target or a
\* wallet that the configuration names twice (nothing removes a repeated target
\* or name), whatever is asked of the node in whatever order: the registry then
\* drops the second sample, and the response carries all the others.
NoClash ==
    \A r \in Request : clash[r] \subseteq Repeated(FeeTargets) \cup Repeated(OnlyWallets)

\* However many requests arrive, the calls the node is working on for the
\* exporter are bounded by the slots and the collectors (the probe of a scrape
\* is over when its goroutines start).
Outstanding ==
    { w \in Request \X Collector :
        /\ at[w[1]][w[2]] = "run"
        /\ todo[w[1]][w[2]] # << >>
        /\ w[2] \notin late[w[1]] }
Probing == { r \in Request : phase[r] = "probe" }

NodeLoadBound ==
    Cardinality(Outstanding) + Cardinality(Probing) <= MaxInFlight * Cardinality(enabled)

\* The help text of bitcoin_up (collector.go:116): "1 if the node answered RPC
\* during this scrape, 0 otherwise."  A collector that succeeds has had an
\* answer from the node; Collect judges by the probe alone.
UpAgreesWithCollectors ==
    \A r \in Request :
        phase[r] = "served" /\ up[r] = "down" =>
            \A c \in enabled : verdict[r][c] # "ok"

\* Exporter implements ScrapeService: admission, one verdict each, none ever
\* changed, nothing served before all are in, and every admitted request
\* served in the end because each call has a timeout.
Stage(r) ==
    IF phase[r] \in InProgress THEN "running"
    ELSE IF phase[r] = "rejected" THEN "refused" ELSE phase[r]

Service ==
    INSTANCE ScrapeService WITH
        stage <- [r \in Request |-> Stage(r)],
        up <- up,
        verdict <- verdict

ServiceSafe == Service!SafeSpec
ServiceAnswered == Service!Answered
=============================================================================
