-------------------------- MODULE NodeRacesProofs --------------------------
(***************************************************************************)
(* Proofs of what NodeRaces promises, for every set of wallets, every list *)
(* of configured names and every length of the chain.                      *)
(*                                                                         *)
(* The lemmas about the collectors' programs are those of CollectorsProofs *)
(* (P), instantiated with the list of names that this scrape works with;   *)
(* FilterType shows that it meets the assumptions they were proved from.   *)
(* P and C, the instance NodeRaces has of Collectors, define the same      *)
(* operators: the lemmas Same... say so.                                   *)
(***************************************************************************)
EXTENDS NodeRaces, FiniteSetTheorems, TLAPS

P == INSTANCE CollectorsProofs WITH
        FeeTargets <- << >>, OnlyWallets <- only, BlockStats <- TRUE, PeerDetail <- FALSE

LEMMA SameWords ==
  /\ C!NoError = P!NoError /\ C!None = P!None /\ C!RPCError = P!RPCError
  /\ \A m, a : C!Call(m, a) = P!Call(m, a)
  /\ \A f, l, n : C!Sample(f, l, n) = P!Sample(f, l, n)
  /\ C!Program["mining"] = P!Program["mining"]
  /\ C!Program["wallet"] = P!Program["wallet"]
BY DEF C!NoError, P!NoError, C!None, P!None, C!RPCError, P!RPCError, C!Call, P!Call,
       C!Sample, P!Sample, C!Program, P!Program

LEMMA SameSelected == \A L : C!Selected(L) = P!Selected(L)
BY DEF C!Selected, P!Selected, C!Kept, P!Kept, C!Names, P!Names

LEMMA SameFollow == \A call, ans : C!Follow(call, ans) = P!Follow(call, ans)
BY SameWords, SameSelected DEF C!Follow, P!Follow, C!WalletCalls, P!WalletCalls

LEMMA SameTolerates == \A call, err : C!Tolerates(call, err) = P!Tolerates(call, err)
BY SameWords DEF C!Tolerates, P!Tolerates

LEMMA SameSamples == \A call, ans : C!Samples(call, ans) = P!Samples(call, ans)
BY DEF C!Samples, P!Samples, C!SamplesOnSuccess, P!SamplesOnSuccess,
       C!SamplesOnError, P!SamplesOnError, C!NoError, P!NoError, C!None, P!None,
       C!RPCError, P!RPCError, C!Sample, P!Sample, C!One, P!One, C!When, P!When,
       C!ChainSamples, P!ChainSamples, C!FeeSamples, P!FeeSamples,
       C!MempoolSamples, P!MempoolSamples, C!MiningSamples, P!MiningSamples,
       C!NetworkSamples, P!NetworkSamples, C!PeerSamples, P!PeerSamples,
       C!WalletSamples, P!WalletSamples, C!Each, P!Each, C!Warnings, P!Warnings,
       C!Networks, P!Networks, C!Aggregates, P!Aggregates, C!Detail, P!Detail

LEMMA SameLabels == \A s, f : C!Labels(s, f) = P!Labels(s, f)
BY DEF C!Labels, P!Labels

LEMMA SameComplete == \A c, l, s : C!Complete(c, l, s) = P!Complete(c, l, s)
BY DEF C!Complete, P!Complete, C!Labels, P!Labels, C!None, P!None, C!Names, P!Names,
       C!Targets, P!Targets, C!DefaultFeeTargets, P!DefaultFeeTargets, C!Sample, P!Sample

LEMMA SameSets ==
  /\ \A S : IsFiniteSet(S) = P!IsFiniteSet(S)
  /\ \A S : Cardinality(S) = P!Cardinality(S)
BY DEF IsFiniteSet, P!IsFiniteSet, Cardinality, P!Cardinality

LEMMA SameNames == \A s : Names(s) = P!Names(s)
BY DEF Names, P!Names

LEMMA SameListings == \A S : Listings(S) = P!Listings(S)
BY SameSets, SameNames DEF Listings, P!Listings

-----------------------------------------------------------------------------
(* The inductive invariant.                                                *)

InfoCall == C!Call("getmininginfo", C!None)
ListCall == C!Call("listwallets", C!None)
StatsCall == C!Call("getblockstats", C!None)

\* No block in the chain is newer than the last one there was.
NodeInv ==
    /\ minted \in Blocks
    /\ chain \in Seq(1 .. minted)
    /\ loaded \subseteq NodeWallets

ScrapeInv ==
    /\ enabled \in Configurations
    /\ only \in Filters
    /\ DOMAIN todo = Running
    /\ DOMAIN samples = Running
    /\ failed \subseteq Running
    /\ clash \in BOOLEAN
    /\ \A c \in Running \ enabled : todo[c] = << >> /\ c \notin failed

\* Where mining is: before getmininginfo, between its two calls, done.  A
\* block at the height it asks about, or above, was the tip since; and while
\* no block was disconnected that height is still there.
MiningInv ==
    /\ todo["mining"] \in { << InfoCall >>, << StatsCall >>, << >> }
    /\ "mining" \notin failed
    /\ "mining" \in enabled => P!MiningUnderway(todo["mining"], samples["mining"], FALSE)
    /\ height \in Nat
    /\ tips \subseteq Blocks
    /\ orphaned \in BOOLEAN
    /\ stats \in Blocks \cup {NoBlock}
    /\ StatsOfATip
    /\ todo["mining"] # << >> => stats = NoBlock
    /\ todo["mining"] = << InfoCall >> => ~ orphaned
    /\ todo["mining"] = << StatsCall >> =>
          /\ \A h \in height .. Len(chain) : BlockAt(h) \in tips
          /\ ~ orphaned =>
                /\ height <= Len(chain)
                /\ \A t \in tips : BlockAt(height) <= t

VisitInv ==
    /\ listed \in UNION { Listings(S) : S \in SUBSET NodeWallets }
    /\ P!VisitUnderway(Visited, Len(listed), todo["wallet"], samples["wallet"],
                       "wallet" \in failed)
    /\ P!BalancesUnderway(Visited, todo["wallet"], samples["wallet"], "wallet" \in failed)
    /\ todo["wallet"] # << >> => Names(listed) \subseteq loaded \cup unloaded

\* Where wallet is: before listwallets, or visiting what it listed.
WalletInv ==
    /\ listed \in Seq(NodeWallets)
    /\ unloaded \subseteq NodeWallets
    /\ shown \subseteq [label : NodeWallets, of : NodeWallets]
    /\ WalletDataIsItsOwn
    /\ "wallet" \in failed => Visited \cap (unloaded \cup {Unnamed}) # {}
    /\ "wallet" \in enabled =>
          \/ /\ todo["wallet"] = << ListCall >> /\ listed = << >>
             /\ samples["wallet"] = {} /\ "wallet" \notin failed
          \/ VisitInv

ClashInv ==
    /\ NoRepeat(only) => ~ clash
    /\ \A c \in Running : P!Distinct(todo[c], samples[c])

IInv == NodeInv /\ ScrapeInv /\ MiningInv /\ WalletInv /\ ClashInv

-----------------------------------------------------------------------------
(* Facts the steps share.                                                  *)

LEMMA CallFacts ==
  /\ C!Program["mining"] = << InfoCall >> /\ P!Program["mining"] = << InfoCall >>
  /\ C!Program["wallet"] = << ListCall >> /\ P!Program["wallet"] = << ListCall >>
  /\ InfoCall.method = "getmininginfo" /\ InfoCall.arg = C!None
  /\ StatsCall.method = "getblockstats" /\ StatsCall.arg = C!None
  /\ ListCall.method = "listwallets" /\ ListCall.arg = C!None
  /\ StatsCall = P!BlockCall
  /\ << InfoCall >> # << StatsCall >> /\ << StatsCall >> # << >>
<1>1. /\ C!Program["mining"] = << InfoCall >> /\ P!Program["mining"] = << InfoCall >>
      /\ C!Program["wallet"] = << ListCall >> /\ P!Program["wallet"] = << ListCall >>
      /\ InfoCall.method = "getmininginfo" /\ InfoCall.arg = C!None
      /\ StatsCall.method = "getblockstats" /\ StatsCall.arg = C!None
      /\ ListCall.method = "listwallets" /\ ListCall.arg = C!None
      /\ StatsCall = P!BlockCall
  BY SameWords DEF C!Program, C!Call, P!BlockCall, InfoCall, ListCall, StatsCall
<1>2. InfoCall # StatsCall
  BY <1>1
<1>3. QED
  BY <1>1, <1>2

\* Between mining's two calls there is just getblockstats to make.
LEMMA BetweenMining ==
  ASSUME MiningInv
  PROVE  Between("mining") <=> todo["mining"] = << StatsCall >>
BY CallFacts DEF Between, MiningInv

\* Once listwallets is answered, wallet is between calls until it has made all.
LEMMA BetweenWallet ==
  ASSUME VisitInv
  PROVE  Between("wallet") <=> todo["wallet"] # << >>
<1>1. todo["wallet"] \in Seq(P!WalletCall(Visited))
  BY DEF VisitInv, P!VisitUnderway
<1>2. ListCall \notin P!WalletCall(Visited)
  BY CallFacts DEF P!WalletCall, P!WalletMethod, P!Call
<1>3. << ListCall >> \notin Seq(P!WalletCall(Visited))
  <2>1. ASSUME << ListCall >> \in Seq(P!WalletCall(Visited)) PROVE FALSE
    <3>1. << ListCall >>[1] \in P!WalletCall(Visited)
      BY <2>1
    <3>2. QED
      BY <1>2, <3>1
  <2>2. QED
    BY <2>1
<1>4. QED
  BY <1>1, <1>3, CallFacts DEF Between

LEMMA FilterType ==
  ASSUME only \in Filters
  PROVE  /\ only \in Seq(Names(only)) /\ Unnamed \notin Names(only)
         /\ P!ConfigAssumption
<1>1. only \in Seq(Names(only) \ {Unnamed})
  BY RacesAssumption
<1>2. only \in Seq(Names(only)) /\ Unnamed \notin Names(only)
  BY <1>1 DEF Names
<1>3. << >> \in Seq(1 .. 1008) /\ only \in Seq(P!Names(only)) /\ P!IsFiniteSet(NodeWallets)
  BY <1>2, RacesAssumption, SameSets, SameNames
<1>4. P!ConfigAssumption
  BY <1>3 DEF P!ConfigAssumption
<1>5. QED
  BY <1>2, <1>4

\* The wallets that a list of some of the node's makes the collector visit.
LEMMA VisitedFacts ==
  ASSUME only \in Filters, NEW S \in SUBSET NodeWallets, NEW L \in Listings(S)
  PROVE  /\ L \in Seq(NodeWallets) /\ Names(L) = S
         /\ L \in P!LoadedLists
         /\ P!Names(P!Selected(L)) \subseteq S
<1>1. P!IsFiniteSet(S)
  BY RacesAssumption, FS_Subset, SameSets
<1>2. P!ConfigAssumption
  BY FilterType
<1>3. L \in Seq(S) /\ Names(L) = S
  <2>1. L \in P!Listings(S)
    BY SameListings
  <2>2. QED
    BY <1>1, <1>2, <2>1, SameNames, P!ListingFacts
<1>4. only \in Seq(P!Names(only))
  BY FilterType, SameNames
<1>5. P!Selected(L) \in Seq(P!Names(L))
  BY <1>2, <1>3, <1>4, P!SelectedFacts
<1>6. P!Names(P!Selected(L)) \subseteq S
  BY <1>3, <1>5, SameNames DEF Names
<1>7. L \in P!LoadedLists
  BY SameListings DEF P!LoadedLists
<1>8. QED
  BY <1>3, <1>6, <1>7

LEMMA VisitedIs == Visited = P!Names(P!Selected(listed))
BY SameSelected, SameNames DEF Visited

-----------------------------------------------------------------------------
(* The start.                                                              *)

LEMMA InvInit ==
  ASSUME Init
  PROVE  IInv
<1>0. /\ MaxBlocks \in Nat \ {0} /\ Configurations \subseteq SUBSET {"mining", "wallet"}
      /\ P!ConfigAssumption
  BY RacesAssumption, FilterType DEF Init
<1>1. NodeInv
  <2>1. minted \in Nat /\ minted \in Blocks
    BY <1>0 DEF Init, Blocks
  <2>2. [h \in 1 .. minted |-> h] \in Seq(1 .. minted)
    BY <2>1
  <2>3. QED
    BY <2>1, <2>2 DEF Init, NodeInv
<1>2. \A c \in Running : /\ c \in enabled => todo[c] = P!Program[c]
                         /\ c \notin enabled => todo[c] = << >>
                         /\ samples[c] = {}
  BY SameWords DEF Init, Running
<1>3. ScrapeInv
  BY <1>0, <1>2 DEF Init, ScrapeInv, Running
<1>4. MiningInv
  <2>1. todo["mining"] \in { << InfoCall >>, << >> }
    BY <1>2, CallFacts DEF Running
  <2>2. "mining" \in enabled => P!MiningUnderway(todo["mining"], samples["mining"], FALSE)
    BY <1>2 DEF P!MiningUnderway, Running
  <2>3. todo["mining"] # << StatsCall >>
    BY <2>1, CallFacts
  <2>4. QED
    BY <1>0, <2>1, <2>2, <2>3 DEF Init, MiningInv, StatsOfATip, NoBlock, Blocks
<1>5. WalletInv
  BY <1>2, CallFacts DEF Init, WalletInv, WalletDataIsItsOwn, Running
<1>6. ClashInv
  <2>1. \A c \in Running : P!Distinct(todo[c], samples[c])
    <3>1. ASSUME NEW c \in Running PROVE P!Distinct(P!Program[c], {})
      <4>1. c \in P!Collector
        BY DEF P!Collector, Running
      <4>2. QED
        BY <1>0, <4>1, P!DistinctStart
    <3>2. P!Distinct(<< >>, {})
      BY <1>0, P!NothingLeft
    <3>3. QED
      BY <1>2, <3>1, <3>2
  <2>2. QED
    BY <2>1 DEF Init, ClashInv
<1>7. QED
  BY <1>1, <1>3, <1>4, <1>5, <1>6 DEF IInv

-----------------------------------------------------------------------------
(* What a step leaves alone.                                               *)

LEMMA MiningFrame ==
  ASSUME MiningInv, UNCHANGED << chain, enabled, height, stats, tips, orphaned >>,
         todo'["mining"] = todo["mining"], samples'["mining"] = samples["mining"],
         "mining" \in failed' => "mining" \in failed
  PROVE  MiningInv'
BY DEF MiningInv, StatsOfATip, BlockAt

LEMMA VisitedFrame ==
  ASSUME UNCHANGED << only, listed >>
  PROVE  Visited' = Visited
BY DEF Visited, C!Selected

LEMMA WalletFrame ==
  ASSUME WalletInv, UNCHANGED << loaded, enabled, only, shown, listed, unloaded >>,
         todo'["wallet"] = todo["wallet"], samples'["wallet"] = samples["wallet"],
         ("wallet" \in failed') = ("wallet" \in failed)
  PROVE  WalletInv'
<1>1. Visited' = Visited
  BY VisitedFrame
<1>2. QED
  BY <1>1 DEF WalletInv, VisitInv, WalletDataIsItsOwn

LEMMA ClashFrame ==
  ASSUME ClashInv, UNCHANGED << only, todo, samples, clash >>
  PROVE  ClashInv'
BY DEF ClashInv, P!Distinct, P!Repeats

-----------------------------------------------------------------------------
(* The node.                                                               *)

LEMMA ConnectStep ==
  ASSUME IInv, Connect
  PROVE  IInv'
<1> USE DEF IInv
<1>0. /\ MaxBlocks \in Nat /\ minted \in Nat /\ minted < MaxBlocks
      /\ minted' = minted + 1 /\ minted' \in Blocks /\ Blocks \subseteq Nat
      /\ chain' = Append(chain, minted')
      /\ tips' = IF Between("mining") THEN tips \cup {minted'} ELSE tips
      /\ UNCHANGED << loaded, scrape, orphaned, listed, unloaded >>
  BY RacesAssumption DEF Connect, NodeInv, Blocks, NewTip
<1>1. /\ chain \in Seq(1 .. minted) /\ chain' \in Seq(1 .. minted')
      /\ Len(chain) \in Nat /\ Len(chain') = Len(chain) + 1
      /\ chain'[Len(chain')] = minted'
      /\ \A h \in 1 .. Len(chain) : chain'[h] = chain[h] /\ chain[h] \in 1 .. minted
  BY <1>0 DEF NodeInv
<1>2. NodeInv'
  BY <1>0, <1>1 DEF NodeInv
<1>3. ScrapeInv'
  BY <1>0 DEF ScrapeInv, scrape
<1>4. MiningInv'
  <2>1. CASE todo["mining"] = << StatsCall >>
    <3>1. /\ tips' = tips \cup {minted'}
          /\ height \in Nat /\ tips \subseteq Blocks /\ stats = NoBlock
          /\ \A h \in height .. Len(chain) : BlockAt(h) \in tips
          /\ ~ orphaned => /\ height <= Len(chain)
                           /\ \A t \in tips : BlockAt(height) <= t
      <4>1. Between("mining") /\ << StatsCall >> # << >>
        BY <2>1, BetweenMining
      <4>2. QED
        BY <1>0, <2>1, <4>1 DEF MiningInv
    <3>2. /\ \A h \in 0 .. Len(chain) : BlockAt(h)' = BlockAt(h)
          /\ \A h \in 0 .. Len(chain) : BlockAt(h) \in Nat /\ BlockAt(h) <= minted
          /\ Tip' = minted'
      BY <1>0, <1>1 DEF BlockAt, Genesis, Tip
    <3>3. \A h \in height .. Len(chain)' : BlockAt(h)' \in tips'
      <4> SUFFICES ASSUME NEW h \in height .. Len(chain)'
                   PROVE  BlockAt(h)' \in tips'
        OBVIOUS
      <4>1. h \in height .. Len(chain) \/ h = Len(chain) + 1
        BY <1>1, <3>1
      <4>2. CASE h \in height .. Len(chain)
        BY <1>1, <3>1, <3>2, <4>2
      <4>3. CASE h = Len(chain) + 1
        BY <1>1, <3>1, <3>2, <4>3 DEF Tip
      <4>4. QED
        BY <4>1, <4>2, <4>3
    <3>4. ~ orphaned => /\ height <= Len(chain)'
                        /\ \A t \in tips' : BlockAt(height)' <= t
      <4>1. height' = height /\ Len(chain)' = Len(chain')
        BY <1>0 DEF scrape
      <4>2. ~ orphaned => /\ BlockAt(height)' = BlockAt(height)
                          /\ BlockAt(height) \in Nat /\ BlockAt(height) <= minted
        BY <3>1, <3>2, <4>1
      <4>3. QED
        BY <1>0, <1>1, <3>1, <4>1, <4>2
    <3>5. StatsOfATip'
      BY <1>0, <3>1 DEF StatsOfATip, NoBlock, scrape
    <3>6. QED
      BY <1>0, <2>1, <3>1, <3>3, <3>4, <3>5 DEF MiningInv, scrape, NoBlock
  <2>2. CASE todo["mining"] # << StatsCall >>
    <3>1. tips' = tips
      BY <1>0, <2>2, BetweenMining
    <3>2. QED
      BY <1>0, <2>2, <3>1 DEF MiningInv, StatsOfATip, NoBlock, scrape
  <2>3. QED
    BY <2>1, <2>2
<1>5. WalletInv'
  BY <1>0, WalletFrame DEF scrape
<1>6. ClashInv'
  BY <1>0, ClashFrame DEF scrape
<1>7. QED
  BY <1>2, <1>3, <1>4, <1>5, <1>6

LEMMA DisconnectStep ==
  ASSUME IInv, Disconnect
  PROVE  IInv'
<1> USE DEF IInv
<1>0. /\ chain # << >>
      /\ chain' = SubSeq(chain, 1, Len(chain) - 1)
      /\ tips' = IF Between("mining") THEN tips \cup {BlockAt(Len(chain) - 1)} ELSE tips
      /\ orphaned' = (orphaned \/ Between("mining"))
      /\ UNCHANGED << minted, loaded, scrape, listed, unloaded >>
  BY DEF Disconnect, NewTip
<1>1. /\ chain \in Seq(1 .. minted) /\ chain' \in Seq(1 .. minted)
      /\ Len(chain) \in Nat \ {0} /\ Len(chain') = Len(chain) - 1
      /\ \A h \in 1 .. Len(chain) - 1 : chain'[h] = chain[h] /\ chain[h] \in 1 .. minted
  <2>1. chain \in Seq(1 .. minted) /\ Len(chain) \in Nat \ {0} /\ minted \in Nat
    BY <1>0, RacesAssumption DEF NodeInv, Blocks
  <2>2. chain' = [h \in 1 .. Len(chain) - 1 |-> chain[h]]
    BY <1>0, <2>1
  <2>3. \A h \in 1 .. Len(chain) : chain[h] \in 1 .. minted
    <3>1. chain \in [1 .. Len(chain) -> 1 .. minted]
      BY <2>1
    <3>2. QED
      BY <3>1
  <2>4. QED
    BY <2>1, <2>2, <2>3
<1>2. NodeInv'
  BY <1>0, <1>1 DEF NodeInv
<1>3. ScrapeInv'
  BY <1>0 DEF ScrapeInv, scrape
<1>4. MiningInv'
  <2>1. CASE todo["mining"] = << StatsCall >>
    <3>1. /\ tips' = tips \cup {BlockAt(Len(chain) - 1)} /\ orphaned'
          /\ height \in Nat /\ tips \subseteq Blocks /\ stats = NoBlock
          /\ \A h \in height .. Len(chain) : BlockAt(h) \in tips
      <4>1. Between("mining") /\ << StatsCall >> # << >>
        BY <2>1, BetweenMining
      <4>2. QED
        BY <1>0, <2>1, <4>1 DEF MiningInv
    <3>2. /\ \A h \in 0 .. Len(chain) - 1 : BlockAt(h)' = BlockAt(h)
          /\ BlockAt(Len(chain) - 1) \in Blocks
      BY <1>0, <1>1, RacesAssumption DEF BlockAt, Genesis, NodeInv, Blocks
    <3>3. \A h \in height .. Len(chain)' : BlockAt(h)' \in tips'
      BY <1>1, <3>1, <3>2
    <3>4. StatsOfATip'
      BY <1>0, <3>1 DEF StatsOfATip, NoBlock, scrape
    <3>5. UNCHANGED << todo, samples, failed, enabled, height, stats >>
      BY <1>0 DEF scrape
    <3>6. orphaned' \in BOOLEAN /\ tips' \subseteq Blocks
      BY <1>0, <3>1, <3>2
    <3>7. /\ todo' = todo /\ height' = height /\ stats' = NoBlock /\ NoBlock' = NoBlock
          /\ orphaned' = TRUE
      BY <3>1, <3>5, <3>6 DEF NoBlock
    <3>8. /\ todo["mining"]' \in { << InfoCall >>, << StatsCall >>, << >> }
          /\ "mining" \notin failed'
          /\ "mining" \in enabled'
                => P!MiningUnderway(todo["mining"]', samples["mining"]', FALSE)
          /\ stats' \in Blocks \cup {NoBlock}
      BY <2>1, <3>5, <3>7 DEF MiningInv
    <3>9. QED
      BY <2>1, <3>1, <3>3, <3>4, <3>6, <3>7, <3>8, CallFacts DEF MiningInv
  <2>2. CASE todo["mining"] # << StatsCall >>
    <3>1. tips' = tips /\ orphaned' = orphaned
      BY <1>0, <2>2, BetweenMining DEF MiningInv
    <3>2. UNCHANGED << todo, samples, failed, enabled, height, stats >>
      BY <1>0 DEF scrape
    <3>3. QED
      BY <2>2, <3>1, <3>2 DEF MiningInv, StatsOfATip
  <2>3. QED
    BY <2>1, <2>2
<1>5. WalletInv'
  BY <1>0, WalletFrame DEF scrape
<1>6. ClashInv'
  BY <1>0, ClashFrame DEF scrape
<1>7. QED
  BY <1>2, <1>3, <1>4, <1>5, <1>6

LEMMA WalletsStep ==
  ASSUME IInv, NEW w \in NodeWallets, LoadWallet(w) \/ UnloadWallet(w)
  PROVE  IInv'
<1> USE DEF IInv
<1>0. /\ loaded' \subseteq NodeWallets
      /\ \/ loaded' = loaded \cup {w} /\ unloaded' = unloaded
         \/ /\ loaded' = loaded \ {w}
            /\ unloaded' = IF Between("wallet") THEN unloaded \cup {w} ELSE unloaded
      /\ UNCHANGED << chain, minted, scrape, tips, orphaned, listed >>
  BY DEF LoadWallet, UnloadWallet, NodeInv, history
<1>1. NodeInv'
  BY <1>0 DEF NodeInv
<1>2. ScrapeInv'
  BY <1>0 DEF ScrapeInv, scrape
<1>3. MiningInv'
  BY <1>0, MiningFrame DEF scrape
<1>4. WalletInv'
  <2>1. Visited' = Visited
    BY <1>0, VisitedFrame DEF scrape
  <2>2. unloaded \subseteq unloaded' /\ unloaded' \subseteq NodeWallets
    BY <1>0 DEF WalletInv
  <2>3. ASSUME VisitInv PROVE VisitInv'
    <3>1. todo["wallet"] # << >> => Names(listed) \subseteq loaded' \cup unloaded'
      BY <1>0, <2>2, <2>3, BetweenWallet DEF VisitInv
    <3>2. QED
      BY <1>0, <2>1, <2>3, <3>1 DEF VisitInv, scrape
  <2>4. QED
    BY <1>0, <2>1, <2>2, <2>3 DEF WalletInv, WalletDataIsItsOwn, scrape
<1>5. ClashInv'
  BY <1>0, ClashFrame DEF scrape
<1>6. QED
  BY <1>1, <1>2, <1>3, <1>4, <1>5

-----------------------------------------------------------------------------
(* The collectors.                                                         *)

\* A collector gets an answer to its first call.
Answered(c, ans) ==
    /\ todo[c] # << >>
    /\ todo'[c] = P!CallsAfter(todo[c], ans)
    /\ samples'[c] = P!SentAfter(todo[c], samples[c], ans)
    /\ (c \in failed') = P!BadAfter(todo[c], c \in failed, ans)
    /\ \A d \in Running \ {c} : /\ todo'[d] = todo[d] /\ samples'[d] = samples[d]
                                /\ (d \in failed') = (d \in failed)
    /\ Remember(Head(todo[c]), ans)
    /\ UNCHANGED << node, enabled, only >>

LEMMA AnswerFacts ==
  ASSUME ScrapeInv, NEW c \in Running, CallAnswer(c)
  PROVE  /\ c \in enabled
         /\ ScrapeInv'
         /\ \E ans \in Answers(Head(todo[c])) :
               /\ Answered(c, ans)
               /\ clash' = (clash \/ P!Clashes(P!Samples(Head(todo[c]), ans), samples[c]))
<1> DEFINE call == Head(todo[c])
<1>1. PICK ans \in Answers(call) :
         /\ todo' = [todo EXCEPT ![c] = C!Follow(call, ans) \o Tail(todo[c])]
         /\ samples' = [samples EXCEPT ![c] = samples[c] \cup C!Samples(call, ans)]
         /\ clash' = (clash \/ \E s \in C!Samples(call, ans), t \in samples[c] :
                                   s.family = t.family /\ s.label = t.label)
         /\ failed' = IF C!Tolerates(call, ans.err) THEN failed ELSE failed \cup {c}
         /\ Remember(call, ans)
  BY DEF CallAnswer
<1>2. todo[c] # << >> /\ UNCHANGED << node, enabled, only >>
  BY DEF CallAnswer
<1>3. DOMAIN todo = Running /\ DOMAIN samples = Running
  BY DEF ScrapeInv
<1>4. todo'[c] = P!CallsAfter(todo[c], ans)
  BY <1>1, <1>3, SameFollow DEF P!CallsAfter
<1>5. samples'[c] = P!SentAfter(todo[c], samples[c], ans)
  BY <1>1, <1>3, SameSamples DEF P!SentAfter
<1>6. (c \in failed') = P!BadAfter(todo[c], c \in failed, ans)
  BY <1>1, SameTolerates DEF P!BadAfter
<1>7. \A d \in Running \ {c} : /\ todo'[d] = todo[d] /\ samples'[d] = samples[d]
                               /\ (d \in failed') = (d \in failed)
  BY <1>1, <1>3
<1>8. clash' = (clash \/ P!Clashes(P!Samples(call, ans), samples[c]))
  BY <1>1, SameSamples DEF P!Clashes
<1>9. c \in enabled
  BY <1>2 DEF ScrapeInv
<1>10. ScrapeInv'
  <2>1. /\ DOMAIN todo' = Running /\ DOMAIN samples' = Running /\ failed' \subseteq Running
        /\ clash' \in BOOLEAN
    BY <1>1, <1>3 DEF ScrapeInv
  <2>2. QED
    BY <1>2, <1>7, <1>9, <2>1 DEF ScrapeInv
<1>11. QED
  BY <1>1, <1>2, <1>4, <1>5, <1>6, <1>7, <1>8, <1>9, <1>10 DEF Answered

LEMMA MiningAnswer ==
  ASSUME IInv, "mining" \in enabled, NEW ans \in Answers(Head(todo["mining"])),
         Answered("mining", ans)
  PROVE  MiningInv' /\ WalletInv'
<1> DEFINE calls == todo["mining"]
           sent == samples["mining"]
<1>0. /\ calls # << >>
      /\ todo'["mining"] = P!CallsAfter(calls, ans)
      /\ samples'["mining"] = P!SentAfter(calls, sent, ans)
      /\ ("mining" \in failed') = P!BadAfter(calls, "mining" \in failed, ans)
      /\ /\ todo'["wallet"] = todo["wallet"] /\ samples'["wallet"] = samples["wallet"]
         /\ ("wallet" \in failed') = ("wallet" \in failed)
      /\ Remember(Head(calls), ans)
      /\ UNCHANGED << chain, minted, loaded, enabled, only, orphaned, unloaded >>
  BY DEF Answered, Running, node, Remember
<1>1. /\ MiningInv /\ WalletInv /\ NodeInv
      /\ P!MiningUnderway(calls, sent, FALSE) /\ "mining" \notin failed
      /\ stats = NoBlock /\ height \in Nat /\ tips \subseteq Blocks /\ orphaned \in BOOLEAN
  BY <1>0 DEF IInv, MiningInv
<1>2. P!MiningUnderway(todo'["mining"], samples'["mining"], P!BadAfter(calls, FALSE, ans))
  <2>1. P!ConfigAssumption
    BY FilterType DEF IInv, ScrapeInv
  <2>2. P!MiningUnderway(calls, sent, FALSE) /\ calls # << >>
    BY <1>0, <1>1
  <2>3. P!MiningUnderway(P!CallsAfter(calls, ans), P!SentAfter(calls, sent, ans),
                         P!BadAfter(calls, FALSE, ans))
    BY <2>1, <2>2, P!MiningStep
  <2>4. QED
    BY <1>0, <2>3
<1>a. ("mining" \in failed') <=> P!BadAfter(calls, FALSE, ans)
  BY <1>0, <1>1 DEF P!BadAfter
<1>3. CASE calls = << InfoCall >>
  <2>1. Head(calls) = InfoCall /\ Tail(calls) = << >> /\ InfoCall.method = "getmininginfo"
    BY <1>3, CallFacts
  <2>2. ans.err = C!NoError /\ ans.of = Tip
    BY <2>1 DEF Answers, Answer
  <2>3. todo'["mining"] \in { << StatsCall >>, << >> }
    <3>1. P!Follow(InfoCall, ans) = << StatsCall >> \/ P!Follow(InfoCall, ans) = << >>
      BY <2>1, CallFacts DEF P!Follow, P!BlockCall
    <3>2. << StatsCall >> \o << >> = << StatsCall >> /\ << >> \o << >> = << >>
      OBVIOUS
    <3>3. todo'["mining"] = P!Follow(InfoCall, ans) \o << >>
      BY <1>0, <2>1 DEF P!CallsAfter
    <3>4. QED
      BY <3>1, <3>2, <3>3
  <2>4. ~ P!BadAfter(calls, FALSE, ans)
    BY <2>1, <2>2, SameWords DEF P!BadAfter, P!Tolerates
  <2>5. /\ height' = Len(chain) /\ stats' = NoBlock /\ tips' = {Tip}
        /\ UNCHANGED << shown, listed >>
    BY <1>0, <1>1, <2>1 DEF Remember
  <2>6. /\ Len(chain) \in Nat /\ Tip \in Blocks /\ Blocks \subseteq Nat /\ NoBlock' = NoBlock
        /\ \A h \in Len(chain) .. Len(chain) : BlockAt(h)' = Tip
    BY <1>0, <1>1, RacesAssumption DEF NodeInv, Blocks, Tip, BlockAt, Genesis, NoBlock
  <2>7. ~ orphaned'
    BY <1>0, <1>1, <1>3 DEF MiningInv
  <2>8. "mining" \notin failed' /\ P!MiningUnderway(todo'["mining"], samples'["mining"], FALSE)
    <3>1. P!BadAfter(calls, FALSE, ans) = FALSE
      BY <2>4 DEF P!BadAfter
    <3>2. QED
      BY <1>2, <1>a, <3>1
  <2>9. << InfoCall >> # << StatsCall >> /\ << InfoCall >> # << >>
    BY CallFacts
  <2>10. MiningInv'
    <3>1. StatsOfATip'
      BY <2>5, <2>6 DEF StatsOfATip
    <3>2. /\ \A h \in height' .. Len(chain)' : BlockAt(h)' \in tips'
          /\ height' <= Len(chain)' /\ \A t \in tips' : BlockAt(height)' <= t
      BY <1>0, <2>5, <2>6
    <3>3. /\ height' \in Nat /\ tips' \subseteq Blocks /\ orphaned' \in BOOLEAN
          /\ stats' = NoBlock'
      BY <1>0, <1>1, <2>5, <2>6
    <3>4. todo'["mining"] # << InfoCall >>
      BY <2>3, <2>9
    <3>5. /\ todo'["mining"] \in { << InfoCall >>, << StatsCall >>, << >> }
          /\ "mining" \notin failed'
          /\ "mining" \in enabled'
                => P!MiningUnderway(todo'["mining"], samples'["mining"], FALSE)
      BY <2>3, <2>8
    <3>6. QED
      BY <3>1, <3>2, <3>3, <3>4, <3>5 DEF MiningInv
  <2>11. QED
    BY <1>0, <1>1, <2>5, <2>10, WalletFrame
<1>4. CASE calls = << StatsCall >>
  <2>1. Head(calls) = StatsCall /\ Tail(calls) = << >> /\ StatsCall.method = "getblockstats"
    BY <1>4, CallFacts
  <2>2. \/ ans.err = "rpc_error"
        \/ ans.err = C!NoError /\ height <= Len(chain) /\ ans.of = BlockAt(height)
    BY <2>1 DEF Answers, StatsAnswer, Refusal, Answer, BlockAsked
  <2>3. todo'["mining"] = << >>
    BY <1>0, <2>1 DEF P!CallsAfter, P!Follow
  <2>4. ~ P!BadAfter(calls, FALSE, ans)
    BY <2>1, <2>2, SameWords DEF P!BadAfter, P!Tolerates, P!RPCError
  <2>5. /\ height' = height /\ tips' = tips
        /\ stats' = IF ans.err = C!NoError THEN ans.of ELSE NoBlock
        /\ UNCHANGED << shown, listed >>
    BY <1>0, <1>1, <2>1 DEF Remember
  <2>6. /\ \A h \in height .. Len(chain) : BlockAt(h) \in tips
        /\ ~ orphaned => \A t \in tips : BlockAt(height) <= t
    BY <1>1, <1>4, CallFacts DEF MiningInv
  <2>7. ans.err = C!NoError => BlockAt(height) \in tips
    BY <1>1, <2>2, <2>6 DEF NodeInv, C!NoError
  <2>8. stats' \in Blocks \cup {NoBlock} /\ NoBlock' = NoBlock
    BY <1>1, <2>2, <2>5, <2>7 DEF NoBlock, C!NoError
  <2>9. StatsOfATip'
    BY <1>0, <2>2, <2>5, <2>6, <2>7, <2>8 DEF StatsOfATip, C!NoError
  <2>10. "mining" \notin failed' /\ P!MiningUnderway(todo'["mining"], samples'["mining"], FALSE)
    <3>1. P!BadAfter(calls, FALSE, ans) = FALSE
      BY <2>4 DEF P!BadAfter
    <3>2. QED
      BY <1>2, <1>a, <3>1
  <2>11. << InfoCall >> # << >> /\ << StatsCall >> # << >>
    BY CallFacts
  <2>12. MiningInv'
    <3>1. /\ height' \in Nat /\ tips' \subseteq Blocks /\ orphaned' \in BOOLEAN
      BY <1>0, <1>1, <2>5
    <3>2. /\ todo'["mining"] = << >> /\ todo'["mining"] # << InfoCall >>
          /\ todo'["mining"] # << StatsCall >>
      BY <2>3, <2>11
    <3>3. QED
      BY <2>8, <2>9, <2>10, <3>1, <3>2 DEF MiningInv
  <2>13. QED
    BY <1>0, <1>1, <2>5, <2>12, WalletFrame
<1>5. QED
  BY <1>0, <1>1, <1>3, <1>4 DEF MiningInv

LEMMA WalletAnswered ==
  ASSUME IInv, "wallet" \in enabled, NEW ans \in Answers(Head(todo["wallet"])),
         Answered("wallet", ans)
  PROVE  MiningInv' /\ WalletInv'
<1> DEFINE calls == todo["wallet"]
           sent == samples["wallet"]
           bad == "wallet" \in failed
           call == Head(calls)
<1>0. /\ calls # << >>
      /\ todo'["wallet"] = P!CallsAfter(calls, ans)
      /\ samples'["wallet"] = P!SentAfter(calls, sent, ans)
      /\ ("wallet" \in failed') = P!BadAfter(calls, bad, ans)
      /\ /\ todo'["mining"] = todo["mining"] /\ samples'["mining"] = samples["mining"]
         /\ ("mining" \in failed') = ("mining" \in failed)
      /\ Remember(call, ans)
      /\ UNCHANGED << chain, minted, loaded, enabled, only, orphaned, unloaded >>
  BY DEF Answered, Running, node, Remember
<1>1. /\ MiningInv /\ WalletInv /\ NodeInv /\ only \in Filters
      /\ listed \in Seq(NodeWallets) /\ unloaded \subseteq NodeWallets
      /\ loaded \subseteq NodeWallets
      /\ shown \subseteq [label : NodeWallets, of : NodeWallets] /\ WalletDataIsItsOwn
      /\ P!ConfigAssumption
  BY FilterType DEF IInv, WalletInv, ScrapeInv, NodeInv
<1>2. CASE calls = << ListCall >> /\ listed = << >> /\ sent = {} /\ ~ bad
  <2>1. call = ListCall /\ ListCall.method = "listwallets" /\ calls = P!Program["wallet"]
    BY <1>2, CallFacts
  <2>2. ans.err = C!NoError /\ ans.data \in Listings(loaded)
    BY <2>1 DEF Answers, Answer
  <2>3. /\ ans.data \in Seq(NodeWallets) /\ Names(ans.data) = loaded
        /\ P!Names(P!Selected(ans.data)) \subseteq loaded
    BY <1>1, <2>2, VisitedFacts
  <2>4. /\ listed' = ans.data
        /\ UNCHANGED << height, stats, tips, shown >>
    BY <1>0, <2>1 DEF Remember
  <2>5. Visited' = P!Names(P!Selected(ans.data))
    <3>1. C!Selected(listed)' = C!Selected(ans.data)
      BY <1>0, <2>4 DEF C!Selected
    <3>2. QED
      BY <3>1, SameSelected, SameNames DEF Visited
  <2>6. /\ P!VisitUnderway(Visited', Len(ans.data), todo'["wallet"], samples'["wallet"],
                           "wallet" \in failed')
        /\ P!BalancesUnderway(Visited', todo'["wallet"], samples'["wallet"],
                              "wallet" \in failed')
    <3>1. only \in Seq(P!Names(only)) /\ ans.err = P!NoError
      BY <1>1, <2>2, FilterType, SameNames, SameWords
    <3>2. /\ P!Names(P!CallsAfter(P!Program["wallet"], ans))
                = P!WalletCall(P!Names(P!Selected(ans.data)))
          /\ P!VisitUnderway(P!Names(P!Selected(ans.data)), Len(ans.data),
                             P!CallsAfter(P!Program["wallet"], ans),
                             P!SentAfter(P!Program["wallet"], {}, ans),
                             P!BadAfter(P!Program["wallet"], bad, ans))
      BY <1>1, <2>3, <3>1, P!VisitStart
    <3>3. P!Names(todo'["wallet"]) = P!WalletCall(Visited')
      BY <1>0, <2>1, <2>5, <3>2
    <3>4. P!BalancesUnderway(Visited', todo'["wallet"], samples'["wallet"],
                             "wallet" \in failed')
      BY <1>1, <3>3, P!BalancesStart
    <3>5. QED
      BY <1>0, <1>2, <2>1, <2>5, <3>2, <3>4
  <2>7. VisitInv'
    <3>1. listed' \in UNION { Listings(S) : S \in SUBSET NodeWallets }
      BY <1>1, <2>2, <2>4
    <3>2. Names(listed') \subseteq loaded'
      BY <1>0, <2>3, <2>4
    <3>3. QED
      BY <2>4, <2>6, <3>1, <3>2 DEF VisitInv
  <2>8. "wallet" \notin failed'
    BY <1>0, <1>2, <2>1, <2>2, SameWords DEF P!BadAfter, P!Tolerates
  <2>9. WalletInv'
    BY <1>0, <1>1, <2>3, <2>4, <2>7, <2>8 DEF WalletInv, WalletDataIsItsOwn
  <2>10. QED
    BY <1>0, <1>1, <2>4, <2>9, MiningFrame
<1>3. CASE VisitInv
  <2>1. PICK S \in SUBSET NodeWallets : listed \in Listings(S)
    BY <1>3 DEF VisitInv
  <2>2. Visited \subseteq Names(listed) /\ Names(listed) \subseteq NodeWallets
    BY <1>1, <2>1, VisitedFacts, VisitedIs
  <2>3. P!VisitUnderway(Visited, Len(listed), calls, sent, bad)
    BY <1>3 DEF VisitInv
  <2>4. /\ todo'["wallet"] = Tail(calls)
        /\ P!VisitUnderway(Visited, Len(listed), todo'["wallet"], samples'["wallet"],
                           "wallet" \in failed')
    <3>1. /\ P!CallsAfter(calls, ans) = Tail(calls)
          /\ P!VisitUnderway(Visited, Len(listed), P!CallsAfter(calls, ans),
                             P!SentAfter(calls, sent, ans), P!BadAfter(calls, bad, ans))
      BY <1>0, <1>1, <2>3, P!VisitStep
    <3>2. QED
      BY <1>0, <3>1
  <2>5. call.method \in {"getwalletinfo", "getbalances"} /\ call.arg \in Visited
    <3>1. calls \in Seq(P!WalletCall(Visited))
      BY <2>3 DEF P!VisitUnderway
    <3>2. call \in P!WalletCall(Visited)
      BY <1>0, <3>1
    <3>3. QED
      BY <3>2 DEF P!WalletCall, P!WalletMethod, P!Call
  <2>6. /\ UNCHANGED << height, stats, tips, listed >>
        /\ shown' = IF ans.err = C!NoError
                    THEN shown \cup {[label |-> call.arg, of |-> ans.of]} ELSE shown
    BY <1>0, <2>5 DEF Remember
  <2>7. Visited' = Visited
    BY <1>0, <2>6, VisitedFrame
  <2>8. ans \in WalletAnswer(call)
    BY <2>5 DEF Answers
  <2>9. ans.err = C!NoError => ans.of \in Endpoint(call) \cap loaded
    BY <2>8 DEF WalletAnswer, Refusal, Answer, C!NoError
  <2>10. /\ shown' \subseteq [label : NodeWallets, of : NodeWallets]
         /\ \A s \in shown' : s.label # Unnamed => s.of = s.label
    BY <1>1, <2>2, <2>5, <2>6, <2>9 DEF Endpoint, WalletDataIsItsOwn
  <2>11. Names(listed) \subseteq loaded \cup unloaded
    BY <1>0, <1>3 DEF VisitInv
  <2>12. "wallet" \in failed' => Visited \cap (unloaded \cup {Unnamed}) # {}
    <3>1. CASE bad
      BY <1>1, <3>1 DEF WalletInv
    <3>2. CASE ~ bad /\ "wallet" \in failed'
      <4>1. ans.err # C!NoError
        BY <1>0, <3>2, SameWords DEF P!BadAfter, P!Tolerates
      <4>2. Cardinality(Endpoint(call) \cap loaded) # 1
        BY <2>8, <4>1 DEF WalletAnswer, Answer
      <4>3. ASSUME call.arg # Unnamed PROVE call.arg \in unloaded
        <5>1. Endpoint(call) = {call.arg}
          BY <2>5, <4>3 DEF Endpoint
        <5>2. CASE call.arg \in loaded
          <6>1. Endpoint(call) \cap loaded = {call.arg}
            BY <5>1, <5>2
          <6>2. QED
            BY <4>2, <6>1, FS_Singleton
        <5>3. QED
          BY <2>2, <2>5, <2>11, <5>2
      <4>4. QED
        BY <2>5, <4>3
    <3>3. QED
      BY <3>1, <3>2
  <2>a. P!BalancesUnderway(Visited, todo'["wallet"], samples'["wallet"], "wallet" \in failed')
    <3>1. P!MustPublish(call, ans)
      <4>1. ans.err = C!NoError => ans.data = C!Facts(call.method)
        BY <2>8 DEF WalletAnswer, Refusal, Answer, C!NoError
      <4>2. C!Facts("getbalances") = {"balance"}
        BY DEF C!Facts
      <4>3. QED
        BY <4>1, <4>2, SameWords DEF P!MustPublish
    <3>2. /\ calls \in Seq(P!WalletCall(Visited))
          /\ P!BalancesUnderway(Visited, calls, sent, bad)
      BY <1>3 DEF VisitInv, P!VisitUnderway
    <3>3. P!BalancesUnderway(Visited, Tail(calls), P!SentAfter(calls, sent, ans),
                             P!BadAfter(calls, bad, ans))
      BY <1>0, <1>1, <3>1, <3>2, P!BalancesStep
    <3>4. QED
      BY <1>0, <2>4, <3>3
  <2>13. VisitInv'
    BY <1>0, <1>3, <2>4, <2>6, <2>7, <2>11, <2>a DEF VisitInv
  <2>14. WalletInv'
    BY <1>0, <1>1, <2>6, <2>7, <2>10, <2>12, <2>13 DEF WalletInv, WalletDataIsItsOwn
  <2>15. QED
    BY <1>0, <1>1, <2>6, <2>14, MiningFrame
<1>4. QED
  BY <1>1, <1>2, <1>3 DEF WalletInv

\* The two collectors are underway as CollectorsProofs has it.
LEMMA UnderwayNow ==
  ASSUME IInv, NEW c \in enabled
  PROVE  /\ c \in P!Collector /\ P!ConfigAssumption
         /\ P!Underway(c, listed, todo[c], samples[c], c \in failed)
<1>1. c \in {"mining", "wallet"} /\ only \in Filters
  BY RacesAssumption DEF IInv, ScrapeInv
<1>2. P!ConfigAssumption
  BY <1>1, FilterType
<1>3. CASE c = "mining"
  <2>1. P!MiningUnderway(todo[c], samples[c], FALSE) /\ c \notin failed
    BY <1>3 DEF IInv, MiningInv
  <2>2. P!MiningUnderway(todo[c], samples[c], c \in failed)
    BY <2>1 DEF P!MiningUnderway, P!Settled
  <2>3. QED
    BY <1>2, <1>3, <2>2 DEF P!Underway, P!Collector
<1>4. CASE c = "wallet"
  <2>1. CASE todo[c] = << ListCall >> /\ listed = << >> /\ samples[c] = {}
    BY <1>2, <1>4, <2>1, CallFacts DEF P!Underway, P!WalletUnderway, P!Collector
  <2>2. CASE VisitInv
    <3>1. PICK S \in SUBSET NodeWallets : listed \in Listings(S)
      BY <2>2 DEF VisitInv
    <3>2. listed \in P!LoadedLists
      BY <1>1, <3>1, VisitedFacts
    <3>3. P!VisitUnderway(P!Names(P!Selected(listed)), Len(listed), todo[c], samples[c],
                          c \in failed)
      BY <1>4, <2>2, VisitedIs DEF VisitInv
    <3>4. P!WalletUnderway(listed, todo[c], samples[c], c \in failed)
      BY <3>2, <3>3 DEF P!WalletUnderway
    <3>5. QED
      BY <1>2, <1>4, <3>4 DEF P!Underway, P!Collector
  <2>3. QED
    BY <1>4, <2>1, <2>2 DEF IInv, WalletInv
<1>5. QED
  BY <1>1, <1>3, <1>4

LEMMA ClashStep ==
  ASSUME IInv, NEW c \in enabled, c \in Running, NEW ans \in Answers(Head(todo[c])),
         Answered(c, ans),
         clash' = (clash \/ P!Clashes(P!Samples(Head(todo[c]), ans), samples[c]))
  PROVE  ClashInv'
<1>1. /\ NoRepeat(only) => ~ clash
      /\ \A d \in Running : P!Distinct(todo[d], samples[d])
  BY DEF IInv, ClashInv
<1>2. NoRepeat(only) => P!Repeats = {}
  <2>1. NoRepeat(only) => P!NoRepeat(only)
    BY DEF NoRepeat, P!NoRepeat
  <2>2. P!Repeated(<< >>) = {}
    BY DEF P!Repeated
  <2>3. P!ConfigAssumption
    BY FilterType DEF IInv, ScrapeInv
  <2>4. QED
    BY <2>1, <2>2, <2>3, P!NothingRepeated DEF P!Repeats
<1>3. P!MayAnswer(Head(todo[c]), ans)
  <2>1. ans.err \in {C!NoError, "rpc_error"}
    BY DEF Answers, Answer, StatsAnswer, WalletAnswer, Refusal
  <2>2. Head(todo[c]).method = "listwallets" => ans.data \in P!LoadedLists
    <3>1. loaded \in SUBSET NodeWallets /\ only \in Filters
      BY DEF IInv, NodeInv, ScrapeInv
    <3>2. QED
      BY <3>1, VisitedFacts DEF Answers, Answer
  <2>3. QED
    BY <2>1, <2>2, SameWords DEF P!MayAnswer, P!RPCError
<1>4. /\ c \in P!Collector /\ P!ConfigAssumption
      /\ P!Underway(c, listed, todo[c], samples[c], c \in failed) /\ todo[c] # << >>
  BY UnderwayNow DEF Answered
<1>5. /\ P!Clashes(P!Samples(Head(todo[c]), ans), samples[c])
            => Head(todo[c]).arg \in P!Repeats
      /\ P!Distinct(P!CallsAfter(todo[c], ans), P!SentAfter(todo[c], samples[c], ans))
  BY <1>1, <1>3, <1>4, P!DistinctStep
<1>6. NoRepeat(only) => ~ clash'
  BY <1>1, <1>2, <1>5
<1>7. \A d \in Running : P!Distinct(todo'[d], samples'[d])
  BY <1>1, <1>5 DEF Answered
<1>8. QED
  BY <1>6, <1>7 DEF ClashInv, Answered, P!Distinct, P!Repeats

-----------------------------------------------------------------------------
(* The invariant, and what follows from it.                                *)

LEMMA InvNext ==
  ASSUME IInv, [Next]_vars
  PROVE  IInv'
<1>1. CASE Connect
  BY <1>1, ConnectStep
<1>2. CASE Disconnect
  BY <1>2, DisconnectStep
<1>3. CASE \E w \in NodeWallets : LoadWallet(w) \/ UnloadWallet(w)
  BY <1>3, WalletsStep
<1>4. ASSUME NEW c \in Running, CallAnswer(c) PROVE IInv'
  <2>1. c \in enabled /\ ScrapeInv'
    BY <1>4, AnswerFacts DEF IInv
  <2>2. PICK ans \in Answers(Head(todo[c])) :
           /\ Answered(c, ans)
           /\ clash' = (clash \/ P!Clashes(P!Samples(Head(todo[c]), ans), samples[c]))
    BY <1>4, AnswerFacts DEF IInv
  <2>3. NodeInv'
    BY <2>2 DEF IInv, NodeInv, Answered, node
  <2>4. MiningInv' /\ WalletInv'
    <3>1. CASE c = "mining"
      BY <2>1, <2>2, <3>1, MiningAnswer
    <3>2. CASE c = "wallet"
      BY <2>1, <2>2, <3>2, WalletAnswered
    <3>3. QED
      BY <3>1, <3>2 DEF Running
  <2>5. ClashInv'
    BY <2>1, <2>2, ClashStep
  <2>6. QED
    BY <2>1, <2>3, <2>4, <2>5 DEF IInv
<1>5. CASE UNCHANGED vars
  <2>1. UNCHANGED << node, scrape, history >>
    BY <1>5 DEF vars
  <2>2. NodeInv' /\ ScrapeInv'
    BY <2>1 DEF IInv, NodeInv, ScrapeInv, node, scrape
  <2>3. MiningInv'
    BY <2>1, MiningFrame DEF IInv, node, scrape, history
  <2>4. WalletInv'
    BY <2>1, WalletFrame DEF IInv, node, scrape, history
  <2>5. ClashInv'
    BY <2>1, ClashFrame DEF IInv, scrape
  <2>6. QED
    BY <2>2, <2>3, <2>4, <2>5 DEF IInv
<1>6. QED
  BY <1>1, <1>2, <1>3, <1>4, <1>5 DEF Next

LEMMA InvHolds == Spec => []IInv
<1>1. Init => IInv
  BY InvInit
<1>2. IInv /\ [Next]_vars => IInv'
  BY InvNext
<1>3. QED
  BY <1>1, <1>2, PTL DEF Spec

\* Every variable keeps its type, whatever the node does during the scrape.
THEOREM TypeOKHolds == Spec => []TypeOK
<1>1. IInv => TypeOK
  <2> SUFFICES ASSUME IInv PROVE TypeOK
    OBVIOUS
  <2>1. MaxBlocks \in Nat /\ P!ConfigAssumption
    BY RacesAssumption, FilterType DEF IInv, ScrapeInv
  <2>2. chain \in Seq(Blocks)
    <3>1. chain \in Seq(1 .. minted) /\ minted \in Nat /\ 1 .. minted \subseteq Blocks
      BY <2>1 DEF IInv, NodeInv, Blocks
    <3>2. chain \in [1 .. Len(chain) -> 1 .. minted] /\ Len(chain) \in Nat
      BY <3>1
    <3>3. chain \in [1 .. Len(chain) -> Blocks]
      BY <3>1, <3>2
    <3>4. QED
      BY <3>2, <3>3
  <2>3. \A c \in Running : \A i \in DOMAIN todo[c] : todo[c][i].arg \in NodeWallets \cup {C!None}
    <3>1. \A i \in DOMAIN todo["mining"] : todo["mining"][i].arg = C!None
      BY CallFacts DEF IInv, MiningInv
    <3>2. \A i \in DOMAIN todo["wallet"] : todo["wallet"][i].arg \in NodeWallets \cup {C!None}
      <4>1. CASE todo["wallet"] = << >> \/ todo["wallet"] = << ListCall >>
        BY <4>1, CallFacts
      <4>2. CASE VisitInv
        <5>1. PICK S \in SUBSET NodeWallets : listed \in Listings(S)
          BY <4>2 DEF VisitInv
        <5>2. Visited \subseteq NodeWallets
          BY <5>1, VisitedFacts, VisitedIs DEF IInv, ScrapeInv
        <5>3. todo["wallet"] \in Seq(P!WalletCall(Visited))
          BY <4>2 DEF VisitInv, P!VisitUnderway
        <5>4. \A x \in P!WalletCall(Visited) : x.arg \in Visited
          BY DEF P!WalletCall, P!Call
        <5>5. QED
          BY <5>2, <5>3, <5>4
      <4>3. QED
        BY <4>1, <4>2 DEF IInv, WalletInv, ScrapeInv, Running
    <3>3. QED
      BY <3>1, <3>2 DEF Running
  <2>4. QED
    BY <2>2, <2>3 DEF IInv, NodeInv, ScrapeInv, MiningInv, WalletInv, TypeOK
<1>2. QED
  BY <1>1, InvHolds, PTL

\* The latest_block gauges are about a block that was the tip during this
\* scrape, and without a reorganisation about the tip of getmininginfo,
\* however many blocks come and go between the two calls (mining.go).
THEOREM StatsOfATipHolds == Spec => []StatsOfATip
<1>1. IInv => StatsOfATip
  BY DEF IInv, MiningInv
<1>2. QED
  BY <1>1, InvHolds, PTL

\* A gauge labelled with a wallet shows that wallet, whichever wallets come
\* and go (client.go, the endpoint do makes of the name).
THEOREM WalletDataIsItsOwnHolds == Spec => []WalletDataIsItsOwn
<1>1. IInv => WalletDataIsItsOwn
  BY DEF IInv, WalletInv
<1>2. QED
  BY <1>1, InvHolds, PTL

\* The mining collector never fails for a reorganisation, and the wallet
\* collector only for a wallet unloaded since listwallets or the unnamed one
\* (wallet.go).
THEOREM FailsOnlyForUnloadedHolds == Spec => []FailsOnlyForUnloaded
<1>1. IInv => FailsOnlyForUnloaded
  BY DEF IInv, MiningInv, WalletInv, FailsOnlyForUnloaded
<1>2. QED
  BY <1>1, InvHolds, PTL

\* A collector that succeeds has published all it stands for, beside a node
\* that changes under it: the wallet collector the details and the balances of
\* every wallet it was to visit, and of no other (mining.go, wallet.go).
THEOREM SucceedsCompleteHolds == Spec => []SucceedsComplete
<1>1. IInv => SucceedsComplete
  <2> SUFFICES ASSUME IInv, NEW c \in enabled, todo[c] = << >>, c \notin failed
               PROVE  /\ C!Complete(c, listed, samples[c])
                      /\ c = "wallet" => C!Labels(samples[c], "wallet_balance") = Visited
    BY DEF SucceedsComplete
  <2>1. /\ c \in P!Collector /\ P!ConfigAssumption
        /\ P!Underway(c, listed, << >>, samples[c], c \in failed)
    BY UnderwayNow
  <2>2. P!Underway(c, listed, << >>, samples[c], FALSE)
    BY <2>1 DEF P!Underway, P!MiningUnderway, P!WalletUnderway, P!NoWalletsUnderway,
                P!VisitUnderway, P!FixedUnderway, P!Settled
  <2>3. C!Complete(c, listed, samples[c])
    BY <2>1, <2>2, P!UnderwayEnd, SameComplete
  <2>4. ASSUME c = "wallet" PROVE C!Labels(samples[c], "wallet_balance") = Visited
    <3>1. << ListCall >> # << >>
      OBVIOUS
    <3>2. VisitInv
      BY <2>4, <3>1 DEF IInv, WalletInv
    <3>3. /\ P!VisitUnderway(Visited, Len(listed), << >>, samples[c], FALSE)
          /\ P!BalancesUnderway(Visited, << >>, samples[c], FALSE)
      BY <2>4, <3>2 DEF VisitInv, P!VisitUnderway, P!BalancesUnderway, P!Settled
    <3>4. /\ P!Labels(samples[c], "wallet_balance") \subseteq Visited
          /\ Visited \subseteq P!Labels(samples[c], "wallet_balance")
      BY <2>1, <3>3, P!VisitEnd, P!BalancesEnd
    <3>5. QED
      BY <3>4, SameLabels
  <2>5. QED
    BY <2>3, <2>4
<1>2. QED
  BY <1>1, InvHolds, PTL

\* Unless a name is configured twice no series is sent twice, in whatever
\* order the node lists its wallets (wallet.go).
THEOREM NoSeriesTwiceHolds == Spec => []NoSeriesTwice
<1>1. IInv => NoSeriesTwice
  BY DEF IInv, ClashInv, NoSeriesTwice
<1>2. QED
  BY <1>1, InvHolds, PTL
============================================================================
