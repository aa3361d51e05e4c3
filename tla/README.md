# A verification project for bitcoin-prometheus-exporter

TLA+ modules that model the exporter, TLC configurations that check them on
small instances, and TLAPS proofs of what matters most for every instance.
Paths are relative to the repository's root (`src/` here).

## 1. Inventory

The exporter is one Go process between Prometheus and one Bitcoin Core node.
A request to `/metrics` makes it call the node's JSON-RPC interface and publish
what it learns. It stores nothing on disk. What it keeps between requests is a
handful of counters, the cookie last read, and the requests in progress.

| Component | Source | State | Operations | Interacts with |
|---|---|---|---|---|
| Scrape handler | `cmd/bitcoin-exporter/main.go:137-143` | slots in use (at most 4) | take a slot or answer 503, gather, respond | HTTP clients, Exporter |
| Exporter | `internal/collector/collector.go` | enabled collectors; per scrape a context, a WaitGroup, a channel; call counters | `Collect`, `ObserveRPC` | collectors (goroutines), client (observer), registry (channel) |
| Collectors | `internal/collector/{chain,fees,mempool,mining,network,peers,wallet}.go` | configuration only | `Update`: a sequence of calls, samples, an error | client, channel |
| RPC client | `internal/rpc/client.go` | connections | `Call`, `CallWallet`, classification of answers | authenticator, node, observer |
| Cookie authentication | `internal/rpc/auth.go:28-74` | mutex, user, password, modification time, size, loaded | `Credentials` | every goroutine of every scrape; the file the node rewrites |
| Choice of authentication | `internal/rpc/auth.go:76-140` | none | `ResolveAuth`, `CookiePath` | process start |
| Process start | `main.go:75-135`, `194-419` | flags | parse, validate, build | all of the above |
| Server lifecycle | `main.go:157-191` | listener, signal, error channel | listen, shut down within 5 s | requests in progress |
| Release workflow | `.github/workflows/release.yml`, `scripts/` | tags, images, signatures | guard, preflight, push, verify, sign | registry, consumers |
| JSON decoding | the structs of `internal/collector/*.go`, `warnings`, `scanning` | none | decode, publish what is there | client, collectors |
| Alerts | `deploy/prometheus/` | samples, "for" timers (Prometheus') | scrape, give up, evaluate | the handler |
| Dashboard, demo stack | `deploy/grafana/`, `docker-compose.yml` | none | declarative | Prometheus, Grafana |

Where it is hard:

- **Concurrency.** A scrape runs a goroutine per collector; up to four scrapes
  run at once; all share the client, the counters and the authenticator. The
  channel a scrape sends on is closed by the registry when `Collect` returns.
- **Timeouts.** A call has 5 s, a scrape 10 s, and the scrape's context comes
  from `Background`: a client that hangs up does not end it. A collector may
  start calls after the deadline, and some collectors forgive errors.
- **Failure.** The node restarts, warms up, refuses calls it does not support
  and rewrites its cookie while it is being read.
- **A node that moves on.** Two collectors build a call from an earlier answer;
  blocks and wallets come and go in between.
- **Judgement.** `bitcoin_up` and `bitcoin_exporter_collector_success` are what
  alerts are built on. They must not say more than the scrape has seen.

What makes each component correct:

- *Handler*: never more than the slots; every admitted request is answered.
- *Exporter*: no goroutine outlives its scrape; one verdict per collector, all
  in before the response; the counters cover the scrape's own calls.
- *Collectors*: success means that everything the collector stands for was
  published; a deadline is never a success; no series twice, but for what the
  configuration names twice.
- *Cookie*: never credentials the file did not hold during the call; stamp and
  credentials belong together; the mutex is always released.
- *RPC client*: what a call returns is what the node did with it; a restart costs
  no call but those it interrupts; every call returns.
- *JSON decoding*: what is published of a field is what the node said of it.
- *Alerts*: a node that is gone for good is reported, one that is back is not.
- *Start*: a typo is reported as one; the active set is what the flags say.
- *Server*: a stop asked for comes about, and exit code 0 means that no scrape
  was lost.

## 2. Modules

| Module | Models |
|---|---|
| `NameLists` | lists of wallet names: the loop over the filter, what `listwallets` lists; pure operators |
| `Collectors` | the seven `Update` functions as programs of calls; pure operators |
| `CollectorsProofs` | lemmas about the programs: what one `Update` keeps true |
| `Exporter` | handler, `Collect`, its goroutines, deadline and counters |
| `ScrapeService` | what a scraper is promised; abstract |
| `ExporterProofs` | theorems about `Exporter` |
| `ExporterSamplesProofs` | theorems about what a scrape of `Exporter` publishes |
| `MCExporter` | its instances for TLC |
| `CookieFile` | what the cookie file may hold, and which of it is of use; pure |
| `CookieAuth` | `CookieAuth.Credentials` beside a node that rewrites the file |
| `CookieAuthProofs` | theorems about `CookieAuth` |
| `MCCookieAuth` | its instances for TLC |
| `Process` | `run`: flags, checks, server, signal, shutdown, exit code |
| `ProcessProofs` | theorems about `Process` |
| `MCProcess` | its instances for TLC |
| `Authenticator` | what a caller of `Credentials` is promised; abstract |
| `Fields` | the structs that answers are decoded into, and their gauges; pure operators |
| `RpcClient` | `Client.do` beside a node that restarts |
| `RpcClientProofs` | theorems about `RpcClient` |
| `MCRpcClient` | its instance for TLC |
| `NodeRaces` | the mining and wallet collectors beside a chain and wallets that change |
| `NodeRacesProofs` | theorems about `NodeRaces` |
| `MCNodeRaces` | its instance for TLC |
| `Monitoring` | exporter, Prometheus and two alerts on one clock |
| `MonitoringProofs` | theorems about `Monitoring` |
| `MCMonitoring` | its instance for TLC |

How they hang together: `Exporter` and `NodeRaces` both run the programs of
`Collectors`, which chooses wallets with `NameLists`. `CookieAuth` implements
`Authenticator`, and `RpcClient` uses `Authenticator` in its place, so what is
proved of `RpcClient` rests on the promise and not on the cache; both take the
file's contents, and which of them `Credentials` can use, from `CookieFile`.
`RpcClient` decodes with `Fields`. `Exporter` implements `ScrapeService`.
`Monitoring` and `Process` see a scrape from outside.

An operator whose comment begins "Bug:" is no part of a specification: it is a
plausible wrong version of the operator after it, kept to show that the
properties notice.

### Collectors

A call is a method and what it asks about (a fee target, a wallet, or nothing).
`Program` gives the calls an `Update` always makes, in order; `Follow` gives the
calls an answer inserts: `getblockstats` after `getmininginfo`, two calls per
wallet after `listwallets`. `Tolerates` says which errors are no failure, as
`rpc.Code` tells them apart: a transport error (code 0), "method not found", and
any other JSON-RPC error. Collectors go on after an error, as `errors.Join` in
the code does. `Selected` is the choice of wallets: all that `listwallets` gave,
or the names of the filter that are among them (`Kept`, the loop at
`wallet.go:119-123`). The node lists its wallets in any order, each once
(`Listings`).

Payloads are reduced to the facts that decide what is published ("the estimate
carries a fee rate", "usage has a maximum", "there are peers", "a balance is
given"), and one *family* of samples stands for all gauges published under the
same condition; labels are kept, since a series published twice is a hazard. The
loops over warnings and networks send a sample for each (`Each`); bitcoind is
taken to list each of them once. Over peers, `Aggregates` (`emitAggregates`)
always gives the sums and, with a peer, the counts by network; `Detail`
(`emitDetail`) gives nothing when there are no peers. `emitBalances` sends only
the balances that are given. Left out here: units, optional fields that each
carry their own gauge (see Fields), how many series a list of peers makes, and
the fee mode.

`Complete` says what a collector that reports success has published:
availability for exactly the targets asked for, block statistics' availability
if and only if they are asked for, details of peers if and only if they are
asked for and there are peers, and `wallet_info` for exactly the listed wallets
that are wanted, with balances for no other. It takes the list that
`listwallets` gave, so it demands the same with a filter as without one.
`SuccessMeansComplete` and `SucceedsComplete` use it.

### Exporter

| Action | Code |
|---|---|
| `Admit`, `Reject` | promhttp with `MaxRequestsInFlight`, `main.go:138-143` |
| `Expire` | the deadline of `context.WithTimeout`, `collector.go:176` |
| `ProbeAnswer` | the `uptime` call and `bitcoin_up`, `179-189` |
| `Launch` | a turn of the loop: `wg.Add`, `go`, `192-194` |
| `CallAnswer` | a call inside `c.Update` returns, `197`; `client.call` and `ObserveRPC` |
| `Report` | duration and success, `198-203` |
| `Done` | the deferred `wg.Done`, `195` |
| `WaitReturns` | `206` |
| `CollectRequests`, `CollectErrors` | `209`, `210`; then the response, and the slot is free |

`todo[r][c]` is the rest of a goroutine's program, its head being the call in
flight. A call in flight when the deadline passes may still be answered, so it
gets any answer; a call *begun* after the deadline (`late`) can only fail in
transport, as `net/http` looks at the context first. The node answers at will,
which covers restarts, warm-up and refusals. Counters are kept over all methods
together; `rpc_duration_seconds` is left out (it is updated with them and
nothing is said about it). `own`, `clash`, `listed`, `late` and `failed` are
history or local variables of the code's goroutines; of these only `late` and
`failed` influence what happens. `clash[r]` holds what the calls that sent a
series again had asked about, so `NoClash` can say *which* repetitions there
are: those of targets and names that the configuration itself repeats, as
nothing in the code removes them. (The registry then drops the second sample
and logs an error; `ContinueOnError` serves the rest.)

### CookieAuth

`Credentials` is taken statement by statement: `Lock`, the two outcomes of
`os.Stat` and of the comparison, the two of `os.ReadFile` with `strings.Cut`,
and the two assignments. The node is external: it removes the file when it stops
and, when it starts, creates or truncates it and writes the cookie in up to
three steps (no colon yet, cut in the password, whole). It may crash between any
two of them and start again, which truncates what it left. A cookie is the
number of the start that made it (`Cookie(start, form)` of `CookieFile`); all
are equally long. What has a colon is `Usable`, as `strings.Cut` decides. A read
is atomic: the file is far below a page. `seen[c]` is a history variable: all
the file has held since `c` called. `CoarseClock` says whether two writes may
get the same modification time.

### Process

`run` from its flags to its exit code. `cfg` is a command line reduced to what
the checks tell apart; lists are sequences of names (what `splitList` makes of
them). `ParseFlags` is `flag.Parse`, which ends the process itself: with 0 when
asked for help, with 2 over a flag it cannot read. `CheckVersion` to
`NewExporter` are the checks in the order of `run`; each goes on or ends the
process with a `reason`. The switch and the loops of
`resolveCollectors` are taken turn by turn (`BaseSet`, `Turn`, `LoopEnds`).
`StartServer` diverts the signals (before that, a signal kills) and starts the
goroutine of `ListenAndServe`, whose life is `srv` and whose channel is `errCh`.
`SelectError` and `SelectSignal` are the cases of the `select`;
`ShutdownTimesOut` may happen at any time, since how long five seconds are
compared with a scrape is left open. When `run` returns, requests still running
are `cut`. Requests are scrapes as `Exporter` describes them, seen from outside:
they arrive while the server serves and may be answered or not.

### Authenticator and RpcClient

`Authenticator` has a file, the callers inside `Credentials`, what the file has
held since each asked (`may`), and what each got. A call is granted something
the file held meanwhile, or denied if at some moment there was nothing of use.

`RpcClient` is `do` from its first line to its last, for any number of callers:

| Action | Code (`client.go`) |
|---|---|
| `Begin` | 143-163: the request is built, `Credentials` is called |
| `Granted`, `Denied` | 162-168 |
| `Send`, `NotSent` | `http.Do`, 170: the request reaches the node, or not |
| `ConnectionLost`, `TimeOut` | 170-184: an error of `Do` or of `ReadAll` |
| `Receive` | 184-206: the answer is classified (`Outcome`) and decoded, and the collector publishes it |

The node stops (with its cookie, or crashes and leaves it), starts with a new
one, and answers a request that has its present cookie with anything that
bitcoind, its HTTP server or a proxy may send; one with another cookie, or with
what was read of an unfinished one, gets a 401. A proxy's JSON may have a member
`error`, which `do` takes for the node's refusal (`Strays`). A request the node
has received dies with it. A node whose cookie is still being written
(`WriteCookie`, `Serve`) serves nothing yet; before there is a colon in the file
`Credentials` gives up. `did` records what the node did with the request
and `steady` for whom it was up, its cookie written, all along.

`Fields` lists the structs, field by field. A payload says for each field
whether it is absent, null, zero, another value or of the wrong type, and for
`warnings` and `scanning` which of the shapes that releases send; one field at a
time is odd, or two that one gauge is made of. `Decoded` is what
`encoding/json` and the two decoders make of a field, `Published` the gauges
with the fields they come from. `PublishedAsSaid` has two halves: an executed
call fails in decoding only over a field of the wrong type, so no shape that a
release sends may be missing in a decoder; and what is published of an optional
field, of `warnings` and of `scanning` is what was sent. Left out: texts that
only label, and the values counted over peers and networks.

### NodeRaces

The actions `Connect`, `Disconnect`, `LoadWallet` and `UnloadWallet` may come
between any two calls. `CallAnswer` is `Exporter`'s, on the same programs, but
the answer is what the chain and the wallets are at that moment; the node keeps
its word here, as failing calls are dealt with elsewhere. A refused
`getblockstats` is possible at any height (pruned). `tips`, `orphaned`, `listed`
and `unloaded` are history. As bitcoind always gives a trusted balance for a
wallet, `SucceedsComplete` adds to `Complete` that balances are published for
every wallet that was to be visited, with a filter too. The wallet with the
empty name (bitcoind's old default wallet) is asked on the default endpoint.

### Monitoring

Time is a number of ticks; everything else happens between two. `Begin` is
Prometheus asking and `Collect` setting its deadline; `Answered` and `Failed`
end the running call, which `Limit` gives the lower of the client's timeout and
what is left of the deadline. The collectors run side by side, so one sequence
of `Calls` calls stands for the longest. `GiveUp` is Prometheus' timeout: the
response is lost, `up` becomes 0 and `bitcoin_up` is stale, and `Collect` goes
on, as its context is not the request's. If Prometheus' timeout and the
scrape's deadline fall into one tick, Prometheus has left first: its clock
started before the request was sent. The node turns from prompt to slow, silent
or refusing and back at any moment. Missed: `for` in Prometheus counts
evaluations, here ticks between evaluations, which is the same at these figures.

## 3. What is checked

| Run | Instance | Properties |
|---|---|---|
| `scrape` | 1 request, each collector alone, and chain, mining and mempool together; 3 targets, one repeated; 2 wallets and a filter that repeats one and names one the node never has | `TypeOK`, `SuccessMeansComplete`, `DeadlineIsReported`, `NoClash`, `ChannelClosedLast`, `ServiceAnswered` |
| `slots` | 3 requests, 2 slots, mempool | `OwnCallsExposed`, `NodeLoadBound`, `ServiceSafe` |
| `node_races` | mining or wallet; 4 blocks; 3 wallets, one unnamed; 4 filters | `TypeOK`, `StatsOfATip`, `WalletDataIsItsOwn`, `FailsOnlyForUnloaded`, `SucceedsComplete`, `NoSeriesTwice` |
| `rpc_client` | 1 caller, 2 starts of the node, every method and payload | `TypeOK`, `OutcomeIsTheNodes`, `SteadyNodeAuthorizes`, `PublishedAsSaid`, `CallReturns` |
| `monitoring` | the deployment's figures in ticks of 2.5 s | `TypeOK`, `NeverTwoAtOnce`, `DeadNodeIsReported`, `RecoveryIsReported` |
| `cookie_fine_clock` | 2 callers, 2 cookies, distinct times | `TypeOK`, `NeverStale`, `CacheCoherent`, `NoAbandonedLock`, `PromiseKept` |
| `process` | all collector flags with up to two names, one of them unknown; all combinations of the other flags; help and malformed flags; 2 requests | `TypeOK`, `ServesWhatWasAsked`, `CleanExit`, `StopsWhenAsked` |
| `up_agrees` | 1 request, mempool | `UpAgreesWithCollectors`, **violated** |
| `cookie_coarse_clock` | 2 callers, 2 cookies, times may repeat | `NoRestartNeeded`, **violated** |
| `typo_first` | all combinations of the other flags, 1 request | `TypoReportedFirst`, **violated** |
| `absent_fields` | as `rpc_client` | `PresentMeansAnswered`, **violated** |
| `hang_alert` | as `monitoring` | `SilentNodeIsDown`, **violated** |

**Bounds.** `Request` bounds the requests ever made; a slot is reused within a
run (3 requests, 2 slots). A collector's goroutine sees no state of another
collector's but the WaitGroup and the counters, so each collector alone with all
its answers covers what its verdict says, and three goroutines cover what the
WaitGroup does. Targets 1, 6 and 1 again, and names of which one is repeated
and one is not there, are enough for repetition, labels and partial failure:
`NoClash` then allows exactly the series of target 1 and of that wallet twice.
`node_races` has the wallets without a filter as well. Two cookies are an old
and a new one. Lists of two names are enough for a name to be
repeated, to be enabled and disabled, and to stand before or after an unknown
one. The counters have no bound: every instance makes
finitely many calls. Two starts are a restart, with calls before, during and
after it; a call touches no other call's state, so one caller is enough there,
and the proofs cover any number. Four blocks are enough for a reorganisation of
one block that overtakes the old tip between two calls. The filters are: none,
one with a wallet the node never has, one in another order than the node's,
and one that repeats a name. In `monitoring` three calls exceed a scrape's
deadline when each runs into its own timeout (6 ticks against 4), so that the
deadline does cut calls short.

**Symmetry and view.** `slots` and `cookie_fine_clock` permute requests and
callers, which no definition tells apart; they check no liveness (`ServiceSafe`
and `PromiseKept` are safety). `slots` leaves
out of a state's identity the samples, which no guard and none of its properties
reads, the shared counters, which are the sum of each scrape's `own`, and of
what a response carries all but whether it covers `own`: both are settled by the
time it is read, since no goroutine of the scrape is left.

**Deadlock** is checked in every run. `Finished` lets an instance of `Exporter`
stop when each request has been dealt with, and at no other time, so a hanging
scrape is found as a deadlock as well.

**Fairness.** `Progress(r)` is weakly fair: goroutines are scheduled, and every
call ends because the client has a timeout (`client.go:87-97`). Arrivals and the
deadline are not fair. `CookieAuth` needs none: instead of the liveness of a
call, which would lean on the mutex' fairness, `NoAbandonedLock` says that no
path keeps the mutex. In `RpcClient`, `Credentials` returning (`Granted` or
`Denied`) and `TimeOut` are weakly fair: file reads end, and the client always
has a timeout (`client.go:87-90` puts 5 s for none), which covers the body. That
an answer or a connection ever comes is not assumed; the node owes nothing in
any module. In `Monitoring` everything but the node's moods is weakly fair
together (`System`): timers run out and what is due is done. In `Process`, `Run`
is weakly fair: the main goroutine goes on when it can and the timer of
`Shutdown` runs out. Signals, requests and their answers are not fair, so
`StopsWhenAsked` holds with scrapes that never end.

**Refinement.** `ServiceSafe` and `ServiceAnswered` are `ScrapeService` with
`stage` read off `phase`: the phases from the probe to the reading of the
counters are "running". `ScrapeService` knows neither calls nor goroutines.

### Findings

1. **`bitcoin_up` and its help text** (`up_agrees`). The help (`collector.go:116`)
   says "1 if the node answered RPC during this scrape, 0 otherwise." The probe
   alone decides. If the probe times out (5 s) the collectors still have 5 s,
   and a node that was slow once answers them: the response then says 0 beside
   the node's own data. The run enables `mempool` alone, and finds the scrape
   whose probe fails and whose `getmempoolinfo` is answered.
2. **Cookies within one tick** (`cookie_coarse_clock`). `README.md:257-259`
   promises that no restart is needed since the file is read again "whenever its
   size or modification time changes". bitcoind's cookies all have the same
   size. If two are written within the resolution of the file system's clock and
   the exporter reads between them, it keeps the first until it is restarted.
   `client_test.go:149` moves the time by hand to avoid this.
3. **Typos behind a missing cookie** (`typo_first`). `main.go:89-90` says "Flags
   are validated before anything touches the node, so a typo is reported as a
   typo rather than as a connection problem." `-rpc.url`, the range of
   `-collector.fees.targets` and `-web.telemetry-path` are looked at after
   `ResolveAuth`, which gives up if it finds no cookie. (A telemetry path that is
   already taken makes the mux panic.)
4. **Absent fields as 0** (`absent_fields`). `README.md:8-10` says "Missing or
   version-specific RPC fields are omitted rather than reported as zero, so a
   metric that is present is a metric the node actually answered." Fields that
   are no pointers (`size_on_disk` of `getblockchaininfo`, published at
   `chain.go:101`, `paytxfee` of
   `getwalletinfo`, the fields of `getblockstats` and others) are published
   whether or not they were sent. `README.md:366-368` says it of optional
   fields only, and that holds (`PublishedAsSaid`).
5. **A silent node and `BitcoinNodeDown`** (`hang_alert`). The alert's texts
   (`alerts.yml:10-11`) are "is not answering RPC" and "The exporter has been
   unable to reach the node for 2 minutes." The exporter gives a scrape 10 s by
   default, and so does Prometheus, whose timeout the deployment leaves alone. A
   node that accepts connections and does not answer uses up the 10 s, Prometheus
   gives up, and `bitcoin_up` is never seen to be 0. `BitcoinExporterDown` fires
   instead, so the outage is reported under the other name
   (`DeadNodeIsReported`). With the scrape's timeout at 7.5 s, below Prometheus'
   timeout, `SilentNodeIsDown` holds.

Noted, without a run, as no sentence of the repository is clearly on one side:

- Answers that are not JSON-RPC (401, or 403 and 503 in plain text) have code 0,
  as a lost connection has, so `bitcoin_up` is 0 for a node that did answer. For
  the reverse, a proxy's JSON with status 200 makes the probe succeed, since it
  wants no result; one with a member `error` passes for the node's refusal.
  `OutcomeIsTheNodes` is stated for what the collectors want, and names the
  second case.
- A loaded wallet with an empty name is asked on the default endpoint. Beside
  other wallets the node refuses that, and the wallet collector fails every
  scrape, although `main.go:233` says "Empty means every loaded wallet." (the
  list of names). `FailsOnlyForUnloaded` and `WalletDataIsItsOwn` name the
  exception.
- A node that alternates between silence and refusal moves the outage from one
  alert to the other, and each starts its two minutes anew; a node that does
  this for ever is never reported. `DeadNodeIsReported` is about nodes that stay
  one or the other.

## 4. What is proved

Every invariant and every refinement that a run checks is also proved, for all
values of the constants; what is left to TLC is liveness.

### Exporter

`ExporterProofs`, for any finite set of requests, any number of slots, any
configuration, targets and wallets:

| Theorem | Says |
|---|---|
| `TypeCorrect` | `TypeOK` |
| `ChannelClosedLastHolds` | `ChannelClosedLast` |
| `ImplementsService` | `Spec => ServiceSafe` |
| `DeadlineIsReportedHolds` | `DeadlineIsReported` |
| `OwnCallsExposedHolds` | `OwnCallsExposed` |
| `NodeLoadBoundHolds` | `NodeLoadBound` |

None of the properties is inductive. The argument is a stack of invariants, each
using those before it:

- `StagesInv`: what may have happened to a request in each phase (no goroutine
  before the loop, all of them started when it is over, `up` decided after the
  probe);
- `WaitGroupInv`: the counter is the number of goroutines launched and not done.
  The step of `Launch` and of `Done` is cardinality arithmetic on that set. With
  `wg = 0` the set is empty, which is `ChannelClosedLast`;
- `GoroutineInv`: only enabled collectors run, and only in a scrape that has
  not finished;
- `VerdictInv`: a verdict is there exactly from `Report` on, so all are in when
  the scrape is served. With the two above this is the step of the refinement,
  which the lemma `ServiceStep` maps action by action;
- `DeadlineInv`: a late goroutine still has its failing call to come, or has
  failed. It rests on `TransportNotTolerated` (no collector forgives a transport
  error) and `ProgramNotEmpty` (no collector succeeds without a call; a list of
  targets is never empty because an empty one means the defaults);
- `CountersInv`: a scrape's own calls are among those counted, and what was
  exposed after `Wait` covers them, as no call of its own can follow;
- `SlotsInv`: at most `MaxInFlight` requests hold a slot. `LoadIsBounded` injects
  the outstanding calls into slots times collectors.

### What an Update publishes

`ExporterSamplesProofs`, for any fee targets, wallets and filter besides:

| Theorem | Says |
|---|---|
| `SuccessMeansCompleteHolds` | `SuccessMeansComplete` |
| `NoClashHolds` | `NoClash` |

Both are about an `Update` as a whole, so `CollectorsProofs` first says, without
any state, what holds of a program half done: the calls still to make, the
samples sent and whether an error was met. Three invariants of a program are
stepped through its calls, one answer at a time:

- `Settled`: a call that was to be made is still to come, or has published what
  it stands for, or has left an error. `Underway` is this for each collector:
  five have a fixed list of calls (`FixedUnderway`), mining may add one
  (`MiningUnderway`), wallet two for each wallet of the list it was given
  (`VisitUnderway`, with the set of wallets and the number listed as parameters,
  which also keeps samples of any other wallet out). `UnderwayStart`,
  `UnderwayStep` and `UnderwayEnd` say that it holds of the whole program,
  survives every answer, and is `Complete` when there is nothing left to do and
  no error;
- `Distinct`: a call that is to come twice, or is to come and is the `Origin` of a
  sample already sent, is about something the configuration repeats (`Repeats`).
  A sample names the call it came from by its family and label, so a series sent
  twice needs a call made twice (`DistinctStep`);
- `KeptNames`: the loop over the filter keeps the names of the filter that are
  listed, all of them and no others, and repeats none that the filter does not.
  This is an induction on the filter. The library's induction rules take an
  operator for a parameter; `NatsFromZero` states induction over a *set* of
  numbers instead, from `WFMin` and the well-foundedness of `<`.

`CompleteInv` and `DistinctInv` then say that each goroutine of each request is
somewhere along its program in this sense; the list a wallet goroutine goes
through is `listed`.

### NodeRaces

`NodeRacesProofs`, for any set of wallets, any filters without the empty name
and any number of blocks:

| Theorem | Says |
|---|---|
| `TypeOKHolds` | `TypeOK`; no call asks about a wallet that the node never has |
| `StatsOfATipHolds` | `StatsOfATip` |
| `WalletDataIsItsOwnHolds` | `WalletDataIsItsOwn` |
| `FailsOnlyForUnloadedHolds` | `FailsOnlyForUnloaded` |
| `SucceedsCompleteHolds` | `SucceedsComplete` |
| `NoSeriesTwiceHolds` | `NoSeriesTwice` |

One inductive invariant carries all six, `IInv`. Its parts:

- `MiningInv`: between the two calls, every block of the chain at the height
  asked about or above it was a tip since `getmininginfo`; and while no block
  was disconnected that height is still there and no tip was older than the block at
  it. The first
  half survives a reorganisation because a block gets to that height only by
  being connected or uncovered, which makes it the tip, or a block above it was
  already there;
- `WalletInv`, `VisitInv`: a wallet that was listed is still loaded or is in
  `unloaded`, so a refused call names its culprit; and each wallet to be visited
  has its two calls to come, or their samples sent, or an error
  (`VisitUnderway` and, for the balances, `BalancesUnderway`). The second is why
  `SucceedsComplete` holds with a filter: the wallets described are the names of
  the filter that were listed (`KeptNames`), not just some of them;
- `ClashInv`: `Distinct`, as above.

`NodeRaces` has its programs from `Collectors` with the filter, a *variable*
here, for `OnlyWallets`. So the lemmas are taken from an instance of
`CollectorsProofs` with the same substitution (`P`), whose assumption
`FilterType` shows to hold of every filter; `SameWords` to `SameListings` say
that the two instances mean the same by their operators. `IInv` was checked by
TLC with three blocks before it was proved.

### CookieAuth, Authenticator and RpcClient

`CookieAuthProofs`, for any number of callers and cookies:

| Theorem | Says |
|---|---|
| `TypeCorrect` | `TypeOK` |
| `NeverStaleHolds` | `NeverStale`, if no two writes get the same time |
| `CacheCoherentHolds` | `CacheCoherent`, under the same assumption |
| `NoAbandonedLockHolds` | `NoAbandonedLock`, with any clock |
| `ImplementsAuthenticator` | `PromiseKept`, if no two writes get the same time |

Here the strengthening is `FreshInv`: whatever carries the file's present time
was taken from the present file. It needs `MutexInv` (one caller past `Lock`),
for between the two assignments of `Credentials` the new password stands beside
the old stamp; and it holds because `Stat` comes *before* `ReadFile`: a write in
between makes the stamp older than the file, never newer. The refinement needs
`UsableInv` besides: what is cached has a user and a password, and a call that
gives up has seen the file without them. `PromiseStep` maps the node's writes
to `Rewrite`, `Call` to `Ask`, the four ways to return to `Grant` or `Deny`, and
the other statements to stuttering.

`RpcClientProofs`, for any number of callers and restarts:

| Theorem | Says |
|---|---|
| `TypeCorrect` | `TypeOK`; no request is on its way without credentials |
| `OutcomeIsTheNodesHolds` | `OutcomeIsTheNodes` |
| `SteadyNodeAuthorizesHolds` | `SteadyNodeAuthorizes` |
| `PublishedAsSaidHolds` | `PublishedAsSaid` |

`OutcomeInv` ties the answer being read to what the node did; `Understood` says
of `Outcome` that it keeps the two apart. `SteadyInv`: for a steady caller the
file has held nothing but the present cookie since it asked, so whatever
`Authenticator` grants is that cookie, and it has no reason to deny.
`PublishedInv` keeps what is published beside the answer it was decoded from,
until the next call; `PublishedSays` is then about one payload of one method:
an optional field has just the gauge named after it (`OwnGauges` goes through
the structs), and its value is the decoded one. That decoding fails only for a
field of the wrong type is `Decodes`, carried through `Outcome`.

That `CookieAuth` may stand where `RpcClient` has `Authenticator` is
`ImplementsAuthenticator`; `RpcClient` uses nothing else of it than
`Authenticator`'s actions, by construction, and the same `Usable`, so there is
nothing further to prove.

### Monitoring and Process

`MonitoringProofs`, for any timeouts with the scrape's deadline below the
scrape interval:

| Theorem | Says |
|---|---|
| `TypeCorrect` | `TypeOK`; no timer is overrun |
| `NeverTwoAtOnceHolds` | `NeverTwoAtOnce` |
| `AnsweredInTimeHolds` | with the deadline below Prometheus' timeout too, no scrape is ever given up |

`TimersInv` is what makes the first two inductive: while a scrape runs, its call
ends no later than its deadline, and the next scrape is further away than that.
`AnsweredInTimeHolds` is the other side of finding 5: `InTimeInv` says that
Prometheus waits only for a scrape that runs and has less time than its patience,
whatever the node does. The deployment's equal figures do not meet its
condition, so it has no run; the runs show `up` at 0 without it.

`ProcessProofs`, for any collectors, command lines and number of requests:

| Theorem | Says |
|---|---|
| `TypeCorrect` | `TypeOK` |
| `ServesWhatWasAskedHolds` | `ServesWhatWasAsked` |
| `CleanExitHolds` | `CleanExit` |

`ResolveInv` is the invariant of three loops in a row: what is switched on and
what the loop has still to go through make up, together, what the flags mean so
far; `NamesOfList` takes a list apart into its head and its tail. `ExitInv` adds
to `CleanExit` that no request exists before the server does, none is cut before
the end, that what is past `ParseFlags` could be parsed (so that a version asked
for explains an exit), and that `Shutdown` begins only after a signal.

### Assumptions

- `ConfigAssumption` (`Collectors`): what flag parsing and the fees factory let
  through. Targets lie in 1 to 1008, the filter is a list of names, and the node
  has finitely many wallets.
- `RacesAssumption` (`NodeRaces`): finitely many wallets; filters are lists
  without the empty name, which `splitList` drops; at least one block, as the
  chain may start with one.
- `ExporterAssumption`: finitely many requests, at least one slot and one
  enabled collector. `FileAssumption` (`CookieFile`): the bound on starts is a
  natural number. `CookieAssumption`: nobody is called `NoOne`.
  `MonitoringAssumption`: times are positive, the scrape's deadline lies below
  the scrape interval and Prometheus' timeout not above it (Prometheus refuses
  any other).
- `ProcessAssumption`: command lines are of their type, the defaults exist.

### What the proofs showed about the model

- `Decoded` was a `CASE` whose arms overlapped for an optional field that is
  absent. TLC takes the first arm; TLA+ leaves the choice open, so
  `PublishedAsSaid` did not follow. It is an `IF` in the code's order now.
- Without a bound below, `MaxBlocks` could be 0 while the chain starts with a
  block, and `NodeRaces` did not keep its types.
- The wallets were a sequence, and `listwallets` gave them in its order; the
  proofs need no order, so the node now lists in any.
- A `Complete` that only bounded the wallets described with a filter was met by
  an Update that visits none. With the list that was given as a parameter it says
  which wallets they are.

### Only model-checked

Liveness: `ServiceAnswered`, `StopsWhenAsked`, `CallReturns`,
`DeadNodeIsReported`, `RecoveryIsReported`. The prover has no rules for fairness
or `ENABLED`. The violated properties need no proof: TLC has the behaviour.

## 5. Not modelled, and the plan

Not modelled, and why:

- the release workflow: jobs of a CI service around docker, cosign and a
  registry. They are no part of the program, and what could go wrong is in those
  services;
- the build and supply-chain scripts: straight-line shell without state;
- the choice of data directory and chain in `ResolveAuth` and `CookiePath`: a
  table of paths. `Process` has the step and its ways to fail;
- eight of the ten alerts, which are thresholds on single series, the dashboard
  and the demo stack, which are declarative;
- the values counted over peers and networks, units, wording, logging, the build
  information, the landing page and `/healthz`;
- the rendering of metrics by the Prometheus client library, Grafana, docker and
  cosign themselves.

What is left is proof, in this order:

1. how far an `Update` is from its end as a number that every answer lowers,
   the safety half of `ServiceAnswered`;
2. the safety half of the alerts: how many ticks after the node is gone a sample
   that says so is there, from `TimersInv`.
