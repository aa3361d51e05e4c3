----------------------------- MODULE NodeRaces -----------------------------
(***************************************************************************)
(* The two collectors that build a call from an earlier answer, beside a   *)
(* node that changes in between: mining asks getblockstats for the height  *)
(* getmininginfo gave (mining.go), wallet asks each wallet listwallets     *)
(* gave, or the configured ones among them (wallet.go), on the endpoint    *)
(* do makes of its name (client.go:152-155).                               *)
(*                                                                         *)
(* The programs of the collectors are those of module Collectors.  The     *)
(* node is external, but keeps its word here: an answer is what its chain  *)
(* and its wallets are at that moment.  Calls that fail on the way are the *)
(* subject of Exporter and RpcClient.                                      *)
(***************************************************************************)
EXTENDS Naturals, Sequences, FiniteSets, NameLists

CONSTANTS
    NodeWallets,      \* the wallets the node may have loaded
    Unnamed,          \* the one of them whose name is empty
    Filters,          \* what -collector.wallet.names may be
    Configurations,   \* which of the two collectors are enabled
    MaxBlocks         \* bound: how many blocks are ever connected

\* splitList leaves out empty names.
ASSUME RacesAssumption ==
    /\ MaxBlocks \in Nat \ {0}
    /\ Configurations \subseteq SUBSET {"mining", "wallet"}
    /\ IsFiniteSet(NodeWallets)
    /\ \A f \in Filters : f \in Seq(Names(f) \ {Unnamed})

VARIABLES
    \* the node
    chain,      \* the best chain above the genesis block
    minted,     \* how many blocks there have been
    loaded,     \* the wallets that are loaded
    \* the scrape
    enabled,    \* the collectors that run
    only,       \* walletCollector.only
    todo,       \* collector -> calls to make; the first is running
    height,     \* info.Blocks of getmininginfo
    stats,      \* the block that the latest_block gauges describe
    shown,      \* what the wallet gauges show: label, and whose data it is
    samples,    \* collector -> samples it has sent
    failed,     \* the collectors that have an error to return
    clash,      \* whether a series was sent twice
    \* what the node has been through between a collector's calls
    tips,       \* the tips since getmininginfo
    orphaned,   \* whether a block was disconnected since
    listed,     \* the wallets that listwallets gave
    unloaded    \* the wallets unloaded since

node    == << chain, minted, loaded >>
scrape  == << enabled, only, todo, height, stats, shown, samples, failed, clash >>
history == << tips, orphaned, listed, unloaded >>
vars    == << node, scrape, history >>

C == INSTANCE Collectors WITH
        FeeTargets <- << >>, OnlyWallets <- only, BlockStats <- TRUE, PeerDetail <- FALSE

Running == {"mining", "wallet"}
Genesis == 0
NoBlock == MaxBlocks + 1

BlockAt(h) == IF h = 0 THEN Genesis ELSE chain[h]
Tip == BlockAt(Len(chain))

Init ==
    /\ minted \in 0 .. 1
    /\ chain = [h \in 1 .. minted |-> h]
    /\ loaded \in SUBSET NodeWallets
    /\ enabled \in Configurations
    /\ only \in Filters
    /\ todo = [c \in Running |-> IF c \in enabled THEN C!Program[c] ELSE << >>]
    /\ height = 0
    /\ stats = NoBlock
    /\ shown = {}
    /\ samples = [c \in Running |-> {}]
    /\ failed = {}
    /\ clash = FALSE
    /\ tips = {}
    /\ orphaned = FALSE
    /\ listed = << >>
    /\ unloaded = {}

-----------------------------------------------------------------------------
(* The node.  A reorganisation disconnects blocks and connects others.     *)

\* The first answer is in, the last one is not.
Between(c) == todo[c] # C!Program[c] /\ todo[c] # << >>

NewTip(t) == tips' = IF Between("mining") THEN tips \cup {t} ELSE tips

Connect ==
    /\ minted < MaxBlocks
    /\ minted' = minted + 1
    /\ chain' = Append(chain, minted')
    /\ NewTip(minted')
    /\ UNCHANGED << loaded, scrape, orphaned, listed, unloaded >>

Disconnect ==
    /\ chain # << >>
    /\ chain' = SubSeq(chain, 1, Len(chain) - 1)
    /\ NewTip(BlockAt(Len(chain) - 1))
    /\ orphaned' = (orphaned \/ Between("mining"))
    /\ UNCHANGED << minted, loaded, scrape, listed, unloaded >>

LoadWallet(w) ==
    /\ w \notin loaded
    /\ loaded' = loaded \cup {w}
    /\ UNCHANGED << chain, minted, scrape, history >>

UnloadWallet(w) ==
    /\ w \in loaded
    /\ loaded' = loaded \ {w}
    /\ unloaded' = IF Between("wallet") THEN unloaded \cup {w} ELSE unloaded
    /\ UNCHANGED << chain, minted, scrape, tips, orphaned, listed >>

Answer(err, data, of) == [err |-> err, data |-> data, of |-> of]
Refusal == Answer("rpc_error", {}, Unnamed)

\* Bug: the wallet endpoint is used only if there are several wallets to tell apart.
EndpointIfSeveral(call) ==
    IF call.method \in {"getwalletinfo", "getbalances"} /\ call.arg # Unnamed
       /\ C!Sample("wallets_loaded", C!None, 1) \notin samples["wallet"]
    THEN {call.arg} ELSE NodeWallets

\* The wallets a call may be about: the one in its path, or on the default
\* endpoint any.
Endpoint(call) ==
    IF call.method \in {"getwalletinfo", "getbalances"} /\ call.arg # Unnamed
    THEN {call.arg} ELSE NodeWallets

\* bitcoind serves the wallet in the path, and on the default endpoint the
\* one that is loaded if there is just one.  It always gives a trusted balance.
WalletAnswer(call) ==
    LET candidates == Endpoint(call) \cap loaded
    IN  IF Cardinality(candidates) = 1
        THEN { Answer(C!NoError, C!Facts(call.method), w) : w \in candidates }
        ELSE {Refusal}

\* Bug: height and number of blocks are mixed up.
BlockAskedBelow == height - 1

BlockAsked == height

\* A block that is pruned, or whose undo data is, is refused.
StatsAnswer ==
    {Refusal} \cup
    { Answer(C!NoError, {}, BlockAt(h)) : h \in {BlockAsked} \cap (0 .. Len(chain)) }

Answers(call) ==
    CASE call.method = "getmininginfo" ->
            { Answer(C!NoError, IF chain = << >> THEN {} ELSE {"blocks"}, Tip) }
      [] call.method = "getblockstats" -> StatsAnswer
      [] call.method = "listwallets" ->
            { Answer(C!NoError, list, Unnamed) : list \in Listings(loaded) }
      [] OTHER -> WalletAnswer(call)

-----------------------------------------------------------------------------
(* The collectors.                                                         *)

\* What an answer leaves behind besides samples.
Remember(call, ans) ==
    /\ height' = IF call.method = "getmininginfo" THEN Len(chain) ELSE height
    /\ stats' = IF call.method = "getblockstats" /\ ans.err = C!NoError THEN ans.of ELSE stats
    /\ shown' = IF call.method \in {"getwalletinfo", "getbalances"} /\ ans.err = C!NoError
                THEN shown \cup {[label |-> call.arg, of |-> ans.of]} ELSE shown
    /\ tips' = IF call.method = "getmininginfo" THEN {Tip} ELSE tips
    /\ listed' = IF call.method = "listwallets" THEN ans.data ELSE listed
    /\ UNCHANGED << orphaned, unloaded >>

CallAnswer(c) ==
    /\ todo[c] # << >>
    /\ LET call == Head(todo[c]) IN
       \E ans \in Answers(call) :
          LET sent == C!Samples(call, ans)
          IN  /\ todo' = [todo EXCEPT ![c] = C!Follow(call, ans) \o Tail(todo[c])]
              /\ samples' = [samples EXCEPT ![c] = samples[c] \cup sent]
              /\ clash' = (clash \/ \E s \in sent, t \in samples[c] :
                                        s.family = t.family /\ s.label = t.label)
              /\ failed' = IF C!Tolerates(call, ans.err) THEN failed ELSE failed \cup {c}
              /\ Remember(call, ans)
    /\ UNCHANGED << node, enabled, only >>

Next ==
    \/ Connect \/ Disconnect
    \/ \E w \in NodeWallets : LoadWallet(w) \/ UnloadWallet(w)
    \/ \E c \in Running : CallAnswer(c)

Spec == Init /\ [][Next]_vars

-----------------------------------------------------------------------------
(* Properties.                                                             *)

Blocks == 0 .. MaxBlocks

TypeOK ==
    /\ chain \in Seq(Blocks)
    /\ minted \in Blocks
    /\ loaded \subseteq NodeWallets
    /\ enabled \in Configurations
    /\ only \in Filters
    /\ DOMAIN todo = Running
    /\ \A c \in Running : \A i \in DOMAIN todo[c] : todo[c][i].arg \in NodeWallets \cup {C!None}
    /\ height \in Nat
    /\ stats \in Blocks \cup {NoBlock}
    /\ shown \subseteq [label : NodeWallets, of : NodeWallets]
    /\ DOMAIN samples = Running
    /\ failed \subseteq Running
    /\ clash \in BOOLEAN
    /\ tips \subseteq Blocks
    /\ orphaned \in BOOLEAN
    /\ listed \in Seq(NodeWallets)
    /\ unloaded \subseteq NodeWallets

\* The latest_block gauges are about a block that was the tip at some moment
\* of this scrape (mining.go, their help texts: "the block at the tip"),
\* whatever was connected or disconnected between the two calls; and without
\* a reorganisation about the tip that getmininginfo saw.
StatsOfATip ==
    stats # NoBlock =>
        /\ stats \in tips
        /\ ~ orphaned => \A t \in tips : stats <= t

\* A gauge labelled with a wallet shows that wallet and no other, whichever
\* wallets come and go during the scrape.  The wallet with the empty name is
\* asked on the default endpoint and may get another's answer.
WalletDataIsItsOwn ==
    \A s \in shown : s.label # Unnamed => s.of = s.label

\* The wallet collector fails only if a wallet it was to visit is unloaded in
\* the middle of the scrape, or is the unnamed one, which the default endpoint
\* refuses beside others; and no reorganisation makes the mining one fail.
Visited == Names(C!Selected(listed))

FailsOnlyForUnloaded ==
    /\ "mining" \notin failed
    /\ "wallet" \in failed => Visited \cap (unloaded \cup {Unnamed}) # {}

\* A collector that succeeds has published all it stands for, whatever is
\* loaded, unloaded, connected or disconnected meanwhile; the wallet collector,
\* with a list of names as without one, the details and the balances of every
\* wallet it was to visit and of no other.
SucceedsComplete ==
    \A c \in enabled : todo[c] = << >> /\ c \notin failed =>
        /\ C!Complete(c, listed, samples[c])
        /\ c = "wallet" => C!Labels(samples[c], "wallet_balance") = Visited

\* No list of names that repeats none makes a series appear twice.
NoSeriesTwice ==
    NoRepeat(only) => ~ clash
=============================================================================
