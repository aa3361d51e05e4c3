------------------------------- MODULE Fields -------------------------------
(***************************************************************************)
(* The structs that internal/collector decodes the node's answers into,    *)
(* and what is published from them.  A field is plain, and then zero if    *)
(* the node did not send it, or optional (a pointer, or a list), and then  *)
(* it can be missing.  Two fields have a decoder of their own because      *)
(* releases of the node send them in different shapes.                     *)
(*                                                                         *)
(* A payload says for each field what the node sent: nothing, null, zero,  *)
(* another value, or something of the wrong type.  Texts that only label   *)
(* a series are left out.                                                  *)
(***************************************************************************)
EXTENDS FiniteSets

BlockchainInfo ==
    [ plain    |-> {"blocks", "headers", "difficulty", "verificationprogress",
                    "initialblockdownload", "chainwork", "size_on_disk", "pruned", "warnings"},
      optional |-> {"time", "mediantime", "automatic_pruning", "prune_target_size", "pruneheight"} ]

FeeEstimate == [ plain |-> {"blocks"}, optional |-> {"feerate"} ]

MempoolInfo ==
    [ plain    |-> {"size", "bytes", "usage", "total_fee", "maxmempool", "mempoolminfee",
                    "minrelaytxfee", "unbroadcastcount"},
      optional |-> {"loaded", "fullrbf"} ]

MiningInfo ==
    [ plain    |-> {"blocks", "networkhashps", "pooledtx"},
      optional |-> {"currentblockweight", "currentblocktx"} ]

BlockStatistics ==
    [ plain    |-> {"height", "time", "total_size", "total_weight", "txs", "ins", "outs",
                    "total_out", "totalfee", "subsidy", "avgfeerate", "minfeerate", "maxfeerate",
                    "mediantxsize", "avgtxsize", "swtxs", "swtotal_weight", "utxo_increase"},
      optional |-> {"feerate_percentiles"} ]

NetworkInfo ==
    [ plain    |-> {"connections", "networkactive", "localrelay", "timeoffset", "relayfee",
                    "incrementalfee"},
      optional |-> {"connections_in", "connections_out", "networks"} ]

NetTotals ==
    [ plain    |-> {"totalbytesrecv", "totalbytessent", "target", "target_reached",
                    "bytes_left_in_cycle", "time_left_in_cycle", "serve_historical_blocks"},
      optional |-> {} ]

\* With -collector.peers.detail, of one peer.
PeerInfo ==
    [ plain    |-> {"bytessent", "bytesrecv", "conntime", "lastsend", "lastrecv"},
      optional |-> {"pingtime", "minping", "pingwait", "startingheight", "synced_headers",
                    "synced_blocks", "minfeefilter", "last_block", "last_transaction",
                    "timeoffset", "addr_processed", "addr_rate_limited"} ]

WalletInfo ==
    [ plain    |-> {"txcount", "paytxfee", "scanning"},
      optional |-> {"keypoolsize", "keypoolsize_hd_internal", "keypoololdest", "unlocked_until",
                    "private_keys_enabled", "descriptors", "birthtime", "lastprocessedblock"} ]

\* Of one owner; the second owner is optional as a whole.
Balances ==
    [ plain |-> {}, optional |-> {"trusted", "untrusted_pending", "immature", "used"} ]

Struct ==
    [ getblockchaininfo |-> BlockchainInfo,  estimatesmartfee |-> FeeEstimate,
      getmempoolinfo    |-> MempoolInfo,     getmininginfo    |-> MiningInfo,
      getblockstats     |-> BlockStatistics, getnetworkinfo   |-> NetworkInfo,
      getnettotals      |-> NetTotals,       getpeerinfo      |-> PeerInfo,
      getwalletinfo     |-> WalletInfo,      getbalances      |-> Balances ]

Method == DOMAIN Struct
FieldsOf(m) == Struct[m].plain \cup Struct[m].optional

-----------------------------------------------------------------------------
(* What the node sends.                                                    *)

\* warnings: a text, or from release 25 on a list; scanning: false or an object.
Shapes(f) ==
    CASE f = "warnings" -> {"absent", "null", "no_text", "text", "no_items", "value", "wrong"}
      [] f = "scanning" -> {"absent", "null", "false", "value", "wrong"}
      [] OTHER          -> {"absent", "null", "zero", "value", "wrong"}

\* The fields that are odd in one answer: one, or two that a gauge is made of.
Odd(m) ==
    { {f} : f \in FieldsOf(m) } \cup
    CASE m = "getblockchaininfo" -> { {"headers", "blocks"} }
      [] m = "estimatesmartfee"  -> { {"feerate", "blocks"} }
      [] m = "getmempoolinfo"    -> { {"usage", "maxmempool"} }
      [] OTHER                   -> {}

\* Odd fields are anything they can be, the others carry values.
Payloads ==
    [ m \in Method |->
        { [f \in FieldsOf(m) |-> IF f \in DOMAIN odd THEN odd[f] ELSE "value"] :
            odd \in UNION { { d \in [odds -> UNION { Shapes(f) : f \in odds }] :
                                \A f \in odds : d[f] \in Shapes(f) } : odds \in Odd(m) } } ]

Unsent == {"absent", "null"}

-----------------------------------------------------------------------------
(* What the collector makes of it.                                         *)

\* Bug: a text that says nothing is a warning like any other.
DecodedText(m, f, sent) ==
    IF f \in Struct[m].optional /\ sent \in Unsent THEN "nil"
    ELSE IF sent \in Unsent \cup {"zero", "no_items", "false"} THEN "zero" ELSE "value"

\* encoding/json leaves a field alone that is absent, or null.  The decoders
\* of warnings and scanning make "nothing" of the shapes that say nothing.
Decoded(m, f, sent) ==
    IF f \in Struct[m].optional /\ sent \in Unsent THEN "nil"
    ELSE IF sent \in Unsent \cup {"zero", "no_text", "no_items", "false"} THEN "zero"
    ELSE "value"

\* One field of the wrong type makes an error of the whole answer.
Decodes(p) == \A f \in DOMAIN p : p[f] # "wrong"

Decode(m, p) == [f \in FieldsOf(m) |-> Decoded(m, f, p[f])]

\* A gauge, the fields it is computed from, and whether it is zero.
Gauge(name, from, value) == [name |-> name, from |-> from, value |-> value]

\* Plain fields that have no gauge of their own.
Inner(m) ==
    CASE m = "estimatesmartfee"  -> {"blocks"}
      [] m = "getmininginfo"     -> {"blocks"}
      [] m = "getblockchaininfo" -> {"chainwork"}
      [] OTHER                   -> {}

Own(m, info) ==
    { Gauge(f, {f}, info[f]) : f \in { g \in FieldsOf(m) \ Inner(m) : info[g] # "nil" } }

Only(condition, gauges) == IF condition THEN gauges ELSE {}

\* Gauges computed from several fields, or published under a condition.
Derived(m, info) ==
    CASE m = "getblockchaininfo" ->
            Only(info["headers"] = "value" \/ info["blocks"] = "zero",
                 { Gauge("blocks_behind", {"headers", "blocks"}, "value") })
            \cup Only(info["chainwork"] = "value", { Gauge("chainwork", {"chainwork"}, "value") })
      [] m = "estimatesmartfee" ->
            Only(info["feerate"] # "nil" /\ info["blocks"] = "value",
                 { Gauge("answered_blocks", {"blocks"}, "value") })
      [] m = "getmempoolinfo" ->
            Only(info["maxmempool"] = "value",
                 { Gauge("fill_ratio", {"usage", "maxmempool"}, info["usage"]) })
      [] m = "getwalletinfo" ->
            Only(info["scanning"] = "value", { Gauge("scanning_progress", {"scanning"}, "value") })
      [] OTHER -> {}

Published(m, info) == Own(m, info) \cup Derived(m, info)
=============================================================================
