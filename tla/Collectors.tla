----------------------------- MODULE Collectors -----------------------------
(***************************************************************************)
(* The seven sub-collectors of internal/collector, as programs of JSON-RPC *)
(* calls.  A collector's Update is a sequence of calls; the answer to one  *)
(* call may insert further calls before the rest (getblockstats after      *)
(* getmininginfo, two calls per wallet after listwallets), may publish     *)
(* samples, and may make Update return an error.  There is no state here:  *)
(* module Exporter runs these programs, several at a time.                 *)
(*                                                                         *)
(* Payloads are abstracted to the facts the code branches on ("the chain   *)
(* has a block", "the estimate carries a fee rate"), and one family of     *)
(* samples stands for all the gauges published under the same condition.   *)
(* bitcoind lists each warning and each network of an answer once.         *)
(***************************************************************************)
EXTENDS Naturals, Sequences, FiniteSets, NameLists

CONSTANTS
    FeeTargets,   \* -collector.fees.targets, as given
    OnlyWallets,  \* -collector.wallet.names, as given; empty: every wallet
    NodeWallets,  \* the wallets the node may have loaded
    BlockStats,   \* -collector.mining.blockstats
    PeerDetail    \* -collector.peers.detail

\* What flag parsing and the fees factory let through (fees.go:25-29).
ASSUME ConfigAssumption ==
    /\ FeeTargets \in Seq(1 .. 1008)
    /\ OnlyWallets \in Seq(Names(OnlyWallets))
    /\ IsFiniteSet(NodeWallets)
    /\ BlockStats \in BOOLEAN
    /\ PeerDetail \in BOOLEAN

\* Collector names, in the registry's stable order.
Collector == {"chain", "fees", "mempool", "mining", "network", "peers", "wallet"}

None == "none"
Call(method, arg) == [method |-> method, arg |-> arg]

DefaultFeeTargets == <<1, 2, 3, 6, 36, 144, 1008>>
Targets == IF FeeTargets = <<>> THEN DefaultFeeTargets ELSE FeeTargets

\* The calls each Update makes whatever the answers are.
Program ==
    [ chain   |-> << Call("getblockchaininfo", None) >>,
      fees    |-> [ i \in DOMAIN Targets |-> Call("estimatesmartfee", Targets[i]) ],
      mempool |-> << Call("getmempoolinfo", None) >>,
      mining  |-> << Call("getmininginfo", None) >>,
      network |-> << Call("getnetworkinfo", None), Call("getnettotals", None),
                     Call("uptime", None) >>,
      peers   |-> << Call("getpeerinfo", None), Call("listbanned", None) >>,
      wallet  |-> << Call("listwallets", None) >> ]

-----------------------------------------------------------------------------
(* Answers.  An error is what rpc.Code tells apart: "transport" is code 0  *)
(* (no connection, deadline, 401, no JSON), the rest are JSON-RPC errors.  *)

NoError   == "no_error"
Transport == "transport"
RPCError  == {"rpc_error", "method_not_found"}

LoadedLists == UNION { Listings(S) : S \in SUBSET NodeWallets }

\* What the loops over an answer's warnings and networks may find.
Warnings == {"warning_1", "warning_2"}
Networks == {"ipv4", "onion"}

\* The facts of a successful answer that the code branches on.
Facts(method) ==
    CASE method = "getblockchaininfo" -> {"headers_not_behind", "chainwork"} \cup Warnings
      [] method = "estimatesmartfee"  -> {"feerate", "blocks"}
      [] method = "getmempoolinfo"    -> {"maxmempool"}
      [] method = "getmininginfo"     -> {"blocks"}
      [] method = "getnetworkinfo"    -> Networks
      [] method = "getpeerinfo"       -> {"peers", "pingtime"}
      [] method = "getwalletinfo"     -> {"scanning"}
      [] method = "getbalances"       -> {"balance"}
      [] OTHER                        -> {}

Answers(call) ==
    LET payloads == IF call.method = "listwallets" THEN LoadedLists
                                                   ELSE SUBSET Facts(call.method)
    IN  [err : {NoError}, data : payloads] \cup [err : RPCError \cup {Transport}, data : {{}}]

Failures(call) == [err : {Transport}, data : {{}}]

-----------------------------------------------------------------------------
(* What one answer does.                                                   *)

\* Bug: the names asked for are visited whether the node has them or not.
SelectedUnloaded(loaded) ==
    IF OnlyWallets = <<>> THEN loaded ELSE OnlyWallets

\* Bug: the reset before the filter is missing, so it adds instead of choosing.
SelectedAppended(loaded) ==
    loaded \o Kept(OnlyWallets, Names(loaded))

\* The wallets walletCollector.Update visits.
Selected(loaded) ==
    IF OnlyWallets = <<>> THEN loaded ELSE Kept(OnlyWallets, Names(loaded))

WalletCalls(wallets) ==
    [ i \in 1 .. 2 * Len(wallets) |->
        Call(IF i % 2 = 1 THEN "getwalletinfo" ELSE "getbalances",
             wallets[(i + 1) \div 2]) ]

\* The calls an answer inserts before the rest of the program.
Follow(call, ans) ==
    CASE /\ call.method = "getmininginfo"
         /\ ans.err = NoError
         /\ BlockStats
         /\ "blocks" \in ans.data        -> << Call("getblockstats", None) >>
      [] /\ call.method = "listwallets"
         /\ ans.err = NoError            -> WalletCalls(Selected(ans.data))
      [] OTHER                           -> << >>

\* Bug: any refusal of listwallets is taken for -disablewallet.
ToleratesNoWallets(call, err) ==
    \/ err = NoError
    \/ call.method \in {"estimatesmartfee", "getblockstats", "listwallets"} /\ err \in RPCError

\* Bug: an estimate is forgiven without looking at the kind of error.
ToleratesNoEstimate(call, err) ==
    \/ err = NoError \/ call.method = "estimatesmartfee"
    \/ call.method = "getblockstats" /\ err \in RPCError
    \/ call.method = "listwallets" /\ err = "method_not_found"

\* Bug: a wallet that the node no longer has is passed over in silence.
ToleratesUnloaded(call, err) ==
    \/ err = NoError
    \/ call.method \in {"estimatesmartfee", "getblockstats", "getbalances"} /\ err \in RPCError
    \/ call.method = "listwallets" /\ err = "method_not_found"

\* Refusals that are no failure of the collector.
Tolerates(call, err) ==
    \/ err = NoError
    \/ call.method \in {"estimatesmartfee", "getblockstats"} /\ err \in RPCError
    \/ call.method = "listwallets" /\ err = "method_not_found"

Sample(family, label, value) == [family |-> family, label |-> label, value |-> value]

SamplesOnError(call, err) ==
    CASE call.method = "estimatesmartfee" /\ err \in RPCError ->
            { Sample("fee_estimate_available", call.arg, 0) }
      [] call.method = "getblockstats" ->
            { Sample("block_stats_available", None, 0) }
      [] call.method = "listwallets" /\ err = "method_not_found" ->
            { Sample("wallets_loaded", None, 0) }
      [] OTHER -> {}

\* One sample of a family, labelled with what the call asked about.
One(family, call) == { Sample(family, call.arg, 1) }

\* One sample of a family for each thing in a list of the answer.
Each(family, things) == { Sample(family, thing, 1) : thing \in things }

When(fact, data, samples) == IF fact \in data THEN samples ELSE {}

ChainSamples(call, data) ==
    One("blockchain", call)
        \cup When("headers_not_behind", data, One("blocks_behind", call))
        \cup When("chainwork", data, One("chainwork", call))
        \cup Each("warning_info", Warnings \cap data)

FeeSamples(call, data) ==
    IF "feerate" \in data
    THEN One("fee_estimate_available", call) \cup One("fee_estimate", call)
            \cup When("blocks", data, One("fee_estimate_answered", call))
    ELSE { Sample("fee_estimate_available", call.arg, 0) }

MempoolSamples(call, data) ==
    One("mempool", call) \cup When("maxmempool", data, One("mempool_fill_ratio", call))

MiningSamples(call, data) ==
    CASE call.method = "getmininginfo" ->
            One("mining", call)
                \cup (IF BlockStats /\ "blocks" \notin data
                      THEN { Sample("block_stats_available", None, 0) } ELSE {})
      [] call.method = "getblockstats" ->
            One("block_stats_available", call) \cup One("latest_block", call)

NetworkSamples(call, data) ==
    CASE call.method = "getnetworkinfo" ->
            One("network", call) \cup Each("network_reachable", Networks \cap data)
      [] call.method = "getnettotals"   -> One("net_bytes", call)
      [] call.method = "uptime"         -> One("uptime", call)

\* What is counted over all peers; with no peers only the sums remain, at 0.
Aggregates(call, data) ==
    One("peers_relaying", call)
        \cup When("peers", data, One("peers_by_network", call)
                                    \cup When("pingtime", data, One("peers_ping", call)))

\* One turn for each peer, none when there are no peers.
Detail(call, data) == When("peers", data, One("peer_info", call))

PeerSamples(call, data) ==
    CASE call.method = "getpeerinfo" ->
            Aggregates(call, data) \cup (IF PeerDetail THEN Detail(call, data) ELSE {})
      [] call.method = "listbanned"  -> One("peers_banned", call)

WalletSamples(call, data) ==
    CASE call.method = "listwallets"   -> { Sample("wallets_loaded", None, Len(data)) }
      [] call.method = "getwalletinfo" ->
            One("wallet_info", call)
                \cup When("scanning", data, One("wallet_scanning", call))
      [] call.method = "getbalances"   ->
            When("balance", data, One("wallet_balance", call))

SamplesOnSuccess(call, data) ==
    CASE call.method = "getblockchaininfo" -> ChainSamples(call, data)
      [] call.method = "estimatesmartfee"  -> FeeSamples(call, data)
      [] call.method = "getmempoolinfo"    -> MempoolSamples(call, data)
      [] call.method \in {"getmininginfo", "getblockstats"} -> MiningSamples(call, data)
      [] call.method \in {"getnetworkinfo", "getnettotals", "uptime"} ->
            NetworkSamples(call, data)
      [] call.method \in {"getpeerinfo", "listbanned"} -> PeerSamples(call, data)
      [] OTHER                             -> WalletSamples(call, data)

\* Bug: the label is left out, so answers about several things look the same.
SamplesUnlabelled(call, ans) ==
    { [s EXCEPT !.label = None] :
        s \in IF ans.err = NoError THEN SamplesOnSuccess(call, ans.data)
                                   ELSE SamplesOnError(call, ans.err) }

Samples(call, ans) ==
    IF ans.err = NoError THEN SamplesOnSuccess(call, ans.data)
                         ELSE SamplesOnError(call, ans.err)

-----------------------------------------------------------------------------
(* What a collector that reports success must have published.              *)

Labels(samples, family) == { s.label : s \in { t \in samples : t.family = family } }

\* loaded: the wallets that listwallets gave, none if the node has no wallets.
Complete(c, loaded, samples) ==
    LET Has(family) == None \in Labels(samples, family)
    IN
    CASE c = "chain"   -> Has("blockchain")
      [] c = "fees"    -> Labels(samples, "fee_estimate_available")
                            = Names(Targets)
      [] c = "mempool" -> Has("mempool")
      [] c = "mining"  -> Has("mining") /\ (BlockStats <=> Has("block_stats_available"))
      [] c = "network" -> Has("network") /\ Has("net_bytes") /\ Has("uptime")
      [] c = "peers"   -> /\ Has("peers_relaying") /\ Has("peers_banned")
                          /\ Has("peer_info") <=> PeerDetail /\ Has("peers_by_network")
      [] c = "wallet"  ->
            LET described == Labels(samples, "wallet_info")
            IN  /\ Sample("wallets_loaded", None, Len(loaded)) \in samples
                /\ described = IF OnlyWallets = <<>> THEN Names(loaded)
                               ELSE Names(loaded) \cap Names(OnlyWallets)
                /\ Labels(samples, "wallet_balance") \subseteq described
=============================================================================
