-------------------------- MODULE CollectorsProofs --------------------------
(***************************************************************************)
(* What the programs of Collectors keep true, whatever the answers are.    *)
(* These lemmas have no state; ExporterSamplesProofs and NodeRacesProofs   *)
(* apply them to the collectors they run.                                  *)
(***************************************************************************)
EXTENDS Collectors, FiniteSetTheorems, WellFoundedInduction, TLAPS

(* Lists of names.                                                         *)

LEMMA NothingRepeated ==
  ASSUME NEW s, NoRepeat(s)
  PROVE  Repeated(s) = {}
BY DEF NoRepeat, Repeated

\* Induction on the natural numbers, over a set instead of a predicate.
LEMMA NatsFromZero ==
  ASSUME NEW T, T \subseteq Nat, 0 \in T, \A n \in T : n + 1 \in T
  PROVE  T = Nat
<1> SUFFICES ASSUME T # Nat PROVE FALSE
  OBVIOUS
<1> DEFINE R == OpToRel(<, Nat)
<1>1. PICK x \in Nat \ T : \A y \in Nat \ T : << y, x >> \notin R
  <2>1. Nat \ T \subseteq Nat /\ Nat \ T # {}
    OBVIOUS
  <2>2. IsWellFoundedOn(R, Nat)
    BY NatLessThanWellFounded
  <2> HIDE DEF R
  <2>3. QED
    BY <2>1, <2>2, WFMin
<1>2. x - 1 \in Nat /\ x - 1 < x /\ (x - 1) + 1 = x
  OBVIOUS
<1>3. << x - 1, x >> \in R
  BY <1>2 DEF OpToRel
<1>4. x - 1 \in T
  BY <1>1, <1>2, <1>3
<1>5. QED
  BY <1>2, <1>4

\* The function that Kept defines by recursion.
KeptUpTo(asked, there, m, f) ==
    f = [n \in 0 .. m |->
            IF n = 0 THEN << >>
            ELSE IF asked[n] \in there THEN Append(f[n - 1], asked[n]) ELSE f[n - 1]]

LEMMA KeptExists ==
  ASSUME NEW asked, NEW there, NEW m \in Nat
  PROVE  \E f : KeptUpTo(asked, there, m, f)
<1> DEFINE T == { k \in Nat : \E f : KeptUpTo(asked, there, k, f) }
<1>1. 0 \in T
  <2>1. KeptUpTo(asked, there, 0, [n \in 0 .. 0 |-> << >>])
    BY DEF KeptUpTo
  <2>2. QED
    BY <2>1
<1>2. ASSUME NEW k \in T PROVE k + 1 \in T
  <2>1. PICK f : KeptUpTo(asked, there, k, f)
    OBVIOUS
  <2> DEFINE last == IF asked[k + 1] \in there THEN Append(f[k], asked[k + 1]) ELSE f[k]
             g == [n \in 0 .. (k + 1) |-> IF n = k + 1 THEN last ELSE f[n]]
  <2>2. \A n \in 0 .. k : f[n] = IF n = 0 THEN << >>
            ELSE IF asked[n] \in there THEN Append(f[n - 1], asked[n]) ELSE f[n - 1]
    BY <2>1 DEF KeptUpTo
  <2>3. \A n \in 0 .. (k + 1) : g[n] = IF n = 0 THEN << >>
            ELSE IF asked[n] \in there THEN Append(g[n - 1], asked[n]) ELSE g[n - 1]
    <3>1. ASSUME NEW n \in 0 .. (k + 1), n # 0, n # k + 1
          PROVE  g[n] = f[n] /\ g[n - 1] = f[n - 1] /\ n \in 0 .. k
      BY <3>1
    <3>2. g[0] = f[0] /\ g[k + 1] = last /\ g[k] = f[k]
      OBVIOUS
    <3> HIDE DEF g
    <3>3. QED
      BY <2>2, <3>1, <3>2
  <2>4. g = [n \in 0 .. (k + 1) |-> g[n]]
    OBVIOUS
  <2> HIDE DEF g
  <2>5. KeptUpTo(asked, there, k + 1, g)
    BY <2>3, <2>4 DEF KeptUpTo
  <2>6. QED
    BY <2>5
<1> HIDE DEF T
<1>3. T = Nat
  BY <1>1, <1>2, NatsFromZero DEF T
<1>4. QED
  BY <1>3 DEF T

\* The loop returns the names that were asked for and are there, and repeats
\* none that was not asked for repeatedly.
LEMMA KeptNames ==
  ASSUME NEW X, NEW asked \in Seq(X), NEW there
  PROVE  /\ Kept(asked, there) \in Seq(X)
         /\ Names(Kept(asked, there)) = Names(asked) \cap there
         /\ Repeated(Kept(asked, there)) \subseteq Repeated(asked)
<1>1. PICK f : f = (CHOOSE g : KeptUpTo(asked, there, Len(asked), g))
  OBVIOUS
<1>2. Kept(asked, there) = f[Len(asked)]
  BY <1>1 DEF Kept, KeptUpTo
<1>3. KeptUpTo(asked, there, Len(asked), f)
  BY <1>1, KeptExists
<1>4. \A n \in 0 .. Len(asked) : f[n] = IF n = 0 THEN << >>
            ELSE IF asked[n] \in there THEN Append(f[n - 1], asked[n]) ELSE f[n - 1]
  BY <1>3 DEF KeptUpTo
<1> DEFINE Below(n) == { asked[i] : i \in 1 .. n }
           Good(n) == /\ f[n] \in Seq(X)
                      /\ Names(f[n]) = Below(n) \cap there
                      /\ Repeated(f[n]) \subseteq Repeated(asked)
           T == { n \in Nat : n <= Len(asked) => Good(n) }
<1>5. 0 \in T
  <2>1. f[0] = << >> /\ Below(0) = {}
    BY <1>4
  <2>2. << >> \in Seq(X) /\ Names(<< >>) = {} /\ Repeated(<< >>) = {}
    BY DEF Names, Repeated
  <2> HIDE DEF Below
  <2>3. QED
    BY <2>1, <2>2
<1>6. ASSUME NEW k \in T PROVE k + 1 \in T
  <2> SUFFICES ASSUME k + 1 <= Len(asked) PROVE Good(k + 1)
    OBVIOUS
  <2>1. Good(k) /\ asked[k + 1] \in X
    OBVIOUS
  <2>2. Below(k + 1) = Below(k) \cup {asked[k + 1]}
    OBVIOUS
  <2>3. f[k + 1] = IF asked[k + 1] \in there THEN Append(f[k], asked[k + 1]) ELSE f[k]
    BY <1>4
  <2>4. CASE asked[k + 1] \notin there
    BY <2>1, <2>2, <2>3, <2>4
  <2>5. CASE asked[k + 1] \in there
    <3> DEFINE g == Append(f[k], asked[k + 1])
    <3>1. /\ g \in Seq(X) /\ DOMAIN g = 1 .. Len(f[k]) + 1
          /\ g[Len(f[k]) + 1] = asked[k + 1]
          /\ \A i \in 1 .. Len(f[k]) : g[i] = f[k][i]
          /\ DOMAIN f[k] = 1 .. Len(f[k])
      BY <2>1
    <3> HIDE DEF g
    <3>a. /\ \A i \in DOMAIN g : i \in DOMAIN f[k] \/ i = Len(f[k]) + 1
          /\ DOMAIN f[k] \subseteq DOMAIN g /\ Len(f[k]) + 1 \in DOMAIN g
      <4>1. Len(f[k]) \in Nat
        BY <2>1
      <4>2. QED
        BY <3>1, <4>1
    <3>2. Names(g) = Names(f[k]) \cup {asked[k + 1]}
      BY <3>1, <3>a DEF Names
    <3>3. ASSUME NEW x \in Repeated(g) PROVE x \in Repeated(asked)
      <4>1. PICK i \in DOMAIN g, j \in DOMAIN g : i # j /\ g[i] = x /\ g[j] = x
        BY <3>3 DEF Repeated
      <4>2. CASE i \in DOMAIN f[k] /\ j \in DOMAIN f[k]
        <5>1. f[k][i] = x /\ f[k][j] = x
          BY <3>1, <4>1, <4>2
        <5>2. x \in Repeated(f[k])
          BY <4>1, <4>2, <5>1 DEF Repeated, Names
        <5>3. QED
          BY <2>1, <5>2
      <4>3. CASE ~ (i \in DOMAIN f[k] /\ j \in DOMAIN f[k])
        <5>1. x = asked[k + 1] /\ x \in Names(f[k])
          BY <3>1, <3>a, <4>1, <4>3 DEF Names
        <5>2. PICK m \in 1 .. k : asked[m] = x
          BY <2>1, <5>1
        <5>3. m \in DOMAIN asked /\ k + 1 \in DOMAIN asked /\ m # k + 1
          OBVIOUS
        <5>4. QED
          BY <5>1, <5>2, <5>3 DEF Repeated, Names
      <4>4. QED
        BY <4>2, <4>3
    <3>4. f[k + 1] = g
      BY <2>3, <2>5 DEF g
    <3>5. QED
      BY <2>1, <2>2, <2>5, <3>1, <3>2, <3>3, <3>4
  <2>6. QED
    BY <2>4, <2>5
<1>7. T = Nat
  <2> HIDE DEF T
  <2>1. T \subseteq Nat
    BY DEF T
  <2>2. QED
    BY <1>5, <1>6, <2>1, NatsFromZero
<1>8. Good(Len(asked))
  <2>1. Len(asked) \in Nat
    OBVIOUS
  <2> HIDE DEF Good
  <2>2. QED
    BY <1>7, <2>1
<1>9. Below(Len(asked)) = Names(asked)
  BY DEF Names
<1>10. QED
  BY <1>2, <1>8, <1>9

\* A listing of a finite set is a sequence that has each element once.
LEMMA ListingFacts ==
  ASSUME NEW S, IsFiniteSet(S), NEW l \in Listings(S)
  PROVE  /\ l \in Seq(S)
         /\ Names(l) = S
         /\ Len(l) = Cardinality(S)
         /\ NoRepeat(l)
<1> DEFINE n == Cardinality(S)
<1>1. n \in Nat /\ l \in [1 .. n -> S] /\ Names(l) = S
  BY FS_CardinalityType DEF Listings
<1>2. l \in Seq(S) /\ Len(l) = n /\ DOMAIN l = 1 .. n
  BY <1>1
<1>3. l \in Surjection(1 .. n, S)
  BY <1>1 DEF Surjection, Names, Range
<1>4. IsFiniteSet(1 .. n) /\ Cardinality(1 .. n) = n
  BY <1>1, FS_Interval
<1>5. l \in Injection(1 .. n, S)
  BY <1>3, <1>4, FS_SurjSameCardinalityImpliesInj
<1>6. NoRepeat(l)
  BY <1>2, <1>5 DEF Injection, IsInjective, NoRepeat
<1>7. QED
  BY <1>1, <1>2, <1>6

\* Taking the first of a sequence away, and putting one before another.
LEMMA HeadAndTail ==
  ASSUME NEW X, NEW s \in Seq(X), s # << >>
  PROVE  /\ Head(s) \in X /\ Head(s) \in Names(s)
         /\ Tail(s) \in Seq(X)
         /\ Names(s) = {Head(s)} \cup Names(Tail(s))
         /\ Repeated(Tail(s)) \subseteq Repeated(s)
         /\ Head(s) \in Names(Tail(s)) => Head(s) \in Repeated(s)
<1>1. /\ Len(s) \in Nat \ {0} /\ DOMAIN s = 1 .. Len(s)
      /\ Head(s) = s[1] /\ Head(s) \in X /\ Tail(s) \in Seq(X)
      /\ DOMAIN Tail(s) = 1 .. Len(s) - 1
      /\ \A i \in 1 .. Len(s) - 1 : Tail(s)[i] = s[i + 1]
  OBVIOUS
<1>2. \A i \in DOMAIN s : i = 1 \/ (i - 1 \in DOMAIN Tail(s) /\ s[i] = Tail(s)[i - 1])
  BY <1>1
<1>3. 1 \in DOMAIN s /\ \A i \in DOMAIN Tail(s) : i + 1 \in DOMAIN s /\ Tail(s)[i] = s[i + 1]
  BY <1>1
<1>4. Names(s) = {Head(s)} \cup Names(Tail(s))
  <2> DEFINE t == Tail(s)
             h == Head(s)
  <2>1. /\ \A i \in DOMAIN s : s[i] = h \/ (i - 1 \in DOMAIN t /\ s[i] = t[i - 1])
        /\ 1 \in DOMAIN s /\ s[1] = h
        /\ \A i \in DOMAIN t : i + 1 \in DOMAIN s /\ t[i] = s[i + 1]
    BY <1>1, <1>2, <1>3
  <2> HIDE DEF t, h
  <2>2. Names(s) = {h} \cup Names(t)
    BY <2>1 DEF Names
  <2>3. QED
    BY <2>2 DEF t, h
<1>5. \A i \in DOMAIN Tail(s) : i \in Nat \ {0}
  BY <1>1
<1>6. Repeated(Tail(s)) \subseteq Repeated(s)
  <2> SUFFICES ASSUME NEW x, NEW i \in DOMAIN Tail(s), NEW j \in DOMAIN Tail(s),
                      i # j, Tail(s)[i] = x, Tail(s)[j] = x
               PROVE  x \in Repeated(s)
    BY DEF Repeated
  <2>1. i + 1 # j + 1 /\ s[i + 1] = x /\ s[j + 1] = x
    BY <1>3, <1>5
  <2>2. QED
    BY <1>3, <2>1 DEF Repeated, Names
<1>7. Head(s) \in Names(Tail(s)) => Head(s) \in Repeated(s)
  <2> SUFFICES ASSUME NEW i \in DOMAIN Tail(s), Tail(s)[i] = Head(s)
               PROVE  Head(s) \in Repeated(s)
    BY DEF Names
  <2>1. i + 1 # 1 /\ s[i + 1] = Head(s) /\ s[1] = Head(s)
    BY <1>1, <1>3, <1>5
  <2>2. QED
    BY <1>3, <2>1 DEF Repeated, Names
<1>8. QED
  BY <1>1, <1>4, <1>6, <1>7 DEF Names

LEMMA Joined ==
  ASSUME NEW X, NEW s \in Seq(X), NEW t \in Seq(X)
  PROVE  s \o t \in Seq(X) /\ Names(s \o t) = Names(s) \cup Names(t)
<1>1. /\ s \o t \in Seq(X)
      /\ Len(s) \in Nat /\ Len(t) \in Nat
      /\ DOMAIN s = 1 .. Len(s) /\ DOMAIN t = 1 .. Len(t)
      /\ DOMAIN (s \o t) = 1 .. Len(s) + Len(t)
      /\ \A i \in 1 .. Len(s) : (s \o t)[i] = s[i]
      /\ \A i \in Len(s) + 1 .. Len(s) + Len(t) : (s \o t)[i] = t[i - Len(s)]
  OBVIOUS
<1> DEFINE u == s \o t
<1> HIDE DEF u
<1>2. \A i \in DOMAIN u : \/ i \in DOMAIN s /\ u[i] = s[i]
                          \/ i - Len(s) \in DOMAIN t /\ u[i] = t[i - Len(s)]
  <2>1. ASSUME NEW i \in DOMAIN u, i \notin DOMAIN s
        PROVE  i - Len(s) \in DOMAIN t /\ u[i] = t[i - Len(s)]
    <3>1. i \in Len(s) + 1 .. Len(s) + Len(t)
      BY <1>1, <2>1 DEF u
    <3>2. i - Len(s) \in 1 .. Len(t)
      BY <1>1, <3>1
    <3>3. QED
      BY <1>1, <3>1, <3>2 DEF u
  <2>2. \A i \in DOMAIN s : u[i] = s[i]
    BY <1>1 DEF u
  <2>3. QED
    BY <2>1, <2>2
<1>3. \A i \in DOMAIN s : i \in DOMAIN u /\ u[i] = s[i]
  BY <1>1 DEF u
<1>4. \A i \in DOMAIN t : i + Len(s) \in DOMAIN u /\ u[i + Len(s)] = t[i]
  BY <1>1 DEF u
<1>5. Names(u) = Names(s) \cup Names(t)
  BY <1>2, <1>3, <1>4 DEF Names
<1>6. QED
  BY <1>1, <1>5 DEF u

LEMMA OwnNames ==
  ASSUME NEW X, NEW s \in Seq(X)
  PROVE  Names(s) \subseteq X /\ \A Y : Names(s) \subseteq Y => s \in Seq(Y)
BY DEF Names

-----------------------------------------------------------------------------
(* The wallets a scrape visits.                                            *)

\* The wallets visited are the loaded ones, or of those the configured ones.
LEMMA SelectedFacts ==
  ASSUME OnlyWallets \in Seq(Names(OnlyWallets)), NEW W, NEW L \in Seq(W)
  PROVE  /\ Selected(L) \in Seq(Names(L))
         /\ OnlyWallets = << >> => Selected(L) = L
         /\ OnlyWallets # << >> => Names(Selected(L)) = Names(OnlyWallets) \cap Names(L)
         /\ NoRepeat(L) => Repeated(Selected(L)) \subseteq Repeated(OnlyWallets)
<1>1. CASE OnlyWallets = << >>
  BY <1>1, OwnNames, NothingRepeated DEF Selected
<1>2. CASE OnlyWallets # << >>
  <2>1. Selected(L) = Kept(OnlyWallets, Names(L))
    BY <1>2 DEF Selected
  <2>2. /\ Selected(L) \in Seq(Names(OnlyWallets))
        /\ Names(Selected(L)) = Names(OnlyWallets) \cap Names(L)
        /\ Repeated(Selected(L)) \subseteq Repeated(OnlyWallets)
    BY <2>1, KeptNames
  <2>3. Selected(L) \in Seq(Names(L))
    BY <2>2, OwnNames
  <2>4. QED
    BY <1>2, <2>2, <2>3
<1>3. QED
  BY <1>1, <1>2

WalletMethod == {"getwalletinfo", "getbalances"}
WalletCall(W) == { Call(m, w) : m \in WalletMethod, w \in W }

\* Each wallet visited is asked both calls, once unless it is repeated.
LEMMA WalletCallsFacts ==
  ASSUME NEW W, NEW v \in Seq(W)
  PROVE  /\ WalletCalls(v) \in Seq(WalletCall(W))
         /\ Names(WalletCalls(v)) = WalletCall(Names(v))
         /\ \A call \in Repeated(WalletCalls(v)) : call.arg \in Repeated(v)
<1> DEFINE n == Len(v)
           k == WalletCalls(v)
           m(i) == IF i % 2 = 1 THEN "getwalletinfo" ELSE "getbalances"
           h(i) == (i + 1) \div 2
<1>1. n \in Nat /\ DOMAIN v = 1 .. n
  OBVIOUS
<1>2. k = [i \in 1 .. 2 * n |-> Call(m(i), v[h(i)])] /\ 2 * n \in Nat
  BY <1>1 DEF WalletCalls
<1>3. \A i \in 1 .. 2 * n : h(i) \in 1 .. n /\ m(i) \in WalletMethod
  BY <1>1 DEF WalletMethod
<1>4. \A j \in 1 .. n : /\ 2 * j \in 1 .. 2 * n /\ h(2 * j) = j /\ m(2 * j) = "getbalances"
                        /\ 2 * j - 1 \in 1 .. 2 * n /\ h(2 * j - 1) = j
                        /\ m(2 * j - 1) = "getwalletinfo"
  BY <1>1
<1>5. \A i, j \in 1 .. 2 * n : m(i) = m(j) /\ h(i) = h(j) => i = j
  BY <1>1
<1> HIDE DEF k, m, h
<1>6. /\ DOMAIN k = 1 .. 2 * n /\ k \in Seq(WalletCall(W))
      /\ \A i \in 1 .. 2 * n : k[i] = Call(m(i), v[h(i)])
  <2>1. \A i \in 1 .. 2 * n : Call(m(i), v[h(i)]) \in WalletCall(W)
    BY <1>1, <1>3 DEF WalletCall
  <2>2. QED
    BY <1>2, <2>1
<1>7. Names(k) = WalletCall(Names(v))
  <2>1. Names(k) \subseteq WalletCall(Names(v))
    BY <1>1, <1>3, <1>6 DEF Names, WalletCall
  <2>2. ASSUME NEW j \in 1 .. n, NEW a \in WalletMethod PROVE Call(a, v[j]) \in Names(k)
    <3>1. k[2 * j] = Call("getbalances", v[j]) /\ k[2 * j - 1] = Call("getwalletinfo", v[j])
      BY <1>4, <1>6
    <3>2. 2 * j \in DOMAIN k /\ 2 * j - 1 \in DOMAIN k
      BY <1>4, <1>6
    <3>3. QED
      BY <3>1, <3>2 DEF Names, WalletMethod
  <2>3. WalletCall(Names(v)) \subseteq Names(k)
    BY <1>1, <2>2 DEF Names, WalletCall
  <2>4. QED
    BY <2>1, <2>3
<1>8. ASSUME NEW call \in Repeated(k) PROVE call.arg \in Repeated(v)
  <2>1. PICK i \in DOMAIN k, j \in DOMAIN k : i # j /\ k[i] = call /\ k[j] = call
    BY <1>8 DEF Repeated
  <2>2. /\ call = Call(m(i), v[h(i)]) /\ call = Call(m(j), v[h(j)])
        /\ i \in 1 .. 2 * n /\ j \in 1 .. 2 * n
    BY <1>6, <2>1
  <2>3. m(i) = m(j) /\ call.arg = v[h(i)] /\ call.arg = v[h(j)]
    BY <2>2 DEF Call
  <2>4. h(i) # h(j)
    BY <1>5, <2>1, <2>2, <2>3
  <2>5. h(i) \in DOMAIN v /\ h(j) \in DOMAIN v
    BY <1>1, <1>3, <2>2
  <2>6. QED
    BY <2>3, <2>4, <2>5 DEF Repeated, Names
<1>9. QED
  BY <1>6, <1>7, <1>8 DEF k

-----------------------------------------------------------------------------
(* How far an Update is.  calls are those it has still to make, sent the   *)
(* samples it has sent, bad whether it has an error to return.             *)

\* The family that a call publishes, unless it makes the collector fail; for
\* getbalances, if the answer has a balance.
Family(method) ==
    CASE method = "getblockchaininfo" -> "blockchain"
      [] method = "estimatesmartfee"  -> "fee_estimate_available"
      [] method = "getmempoolinfo"    -> "mempool"
      [] method = "getmininginfo"     -> "mining"
      [] method = "getblockstats"     -> "block_stats_available"
      [] method = "getnetworkinfo"    -> "network"
      [] method = "getnettotals"      -> "net_bytes"
      [] method = "uptime"            -> "uptime"
      [] method = "getpeerinfo"       -> "peers_relaying"
      [] method = "listbanned"        -> "peers_banned"
      [] method = "listwallets"       -> "wallets_loaded"
      [] method = "getwalletinfo"     -> "wallet_info"
      [] method = "getbalances"       -> "wallet_balance"

\* A call is still to be made, or has published, or the collector fails.
Settled(call, calls, sent, bad) ==
    \/ call \in Names(calls)
    \/ call.arg \in Labels(sent, Family(call.method))
    \/ bad

\* The collectors whose calls do not depend on answers.
Fixed == {"chain", "fees", "mempool", "network", "peers"}

FixedUnderway(c, calls, sent, bad) ==
    /\ calls \in Seq(Names(Program[c]))
    /\ \A call \in Names(Program[c]) : Settled(call, calls, sent, bad)
    /\ c = "fees" => Labels(sent, "fee_estimate_available") \subseteq Names(Targets)
    /\ c = "peers" => /\ Labels(sent, "peer_info") \subseteq {None}
                      /\ None \in Labels(sent, "peer_info")
                            <=> PeerDetail /\ None \in Labels(sent, "peers_by_network")

BlockCall == Call("getblockstats", None)

MiningUnderway(calls, sent, bad) ==
    \/ calls = Program["mining"] /\ sent = {}
    \/ /\ calls \in Seq({BlockCall})
       /\ calls # << >> => BlockStats
       /\ Settled(Call("getmininginfo", None), << >>, sent, bad)
       /\ BlockStats => Settled(BlockCall, calls, sent, bad)
       /\ None \in Labels(sent, "block_stats_available") => BlockStats

\* After an answer that lists n wallets, when V are those to visit.
VisitUnderway(V, n, calls, sent, bad) ==
    /\ calls \in Seq(WalletCall(V))
    /\ \A w \in V : Settled(Call("getwalletinfo", w), calls, sent, bad)
    /\ \A m \in WalletMethod : Labels(sent, Family(m)) \subseteq V
    /\ { x \in sent : x.family = "wallets_loaded" } = { Sample("wallets_loaded", None, n) }

\* The node has no wallets, or its refusal makes the collector fail.
NoWalletsUnderway(loaded, calls, sent, bad) ==
    /\ calls = << >>
    /\ bad \/ (loaded = << >> /\ sent = { Sample("wallets_loaded", None, 0) })

\* loaded is what listwallets gave.
WalletUnderway(loaded, calls, sent, bad) ==
    \/ calls = Program["wallet"] /\ loaded = << >> /\ sent = {}
    \/ NoWalletsUnderway(loaded, calls, sent, bad)
    \/ /\ loaded \in LoadedLists
       /\ VisitUnderway(Names(Selected(loaded)), Len(loaded), calls, sent, bad)

Underway(c, loaded, calls, sent, bad) ==
    IF c = "mining" THEN MiningUnderway(calls, sent, bad)
    ELSE IF c = "wallet" THEN WalletUnderway(loaded, calls, sent, bad)
    ELSE FixedUnderway(c, calls, sent, bad)

\* An Update once its first call has been answered.
CallsAfter(calls, ans) == Follow(Head(calls), ans) \o Tail(calls)
SentAfter(calls, sent, ans) == sent \cup Samples(Head(calls), ans)
BadAfter(calls, bad, ans) == bad \/ ~ Tolerates(Head(calls), ans.err)
ListedAfter(calls, loaded, ans) ==
    IF Head(calls).method = "listwallets" /\ ans.err = NoError THEN ans.data ELSE loaded

\* What one answer to a call may be.
MayAnswer(call, ans) ==
    /\ ans.err \in {NoError, Transport} \cup RPCError
    /\ call.method = "listwallets" /\ ans.err = NoError => ans.data \in LoadedLists

\* The call that publishes a family; block_stats_available comes from
\* getmininginfo only when getblockstats will not be called.
Method(family) ==
    CASE family \in {"blockchain", "blocks_behind", "chainwork", "warning_info"}
                                                        -> "getblockchaininfo"
      [] family \in {"fee_estimate_available", "fee_estimate", "fee_estimate_answered"}
                                                        -> "estimatesmartfee"
      [] family \in {"mempool", "mempool_fill_ratio"}   -> "getmempoolinfo"
      [] family = "mining"                              -> "getmininginfo"
      [] family \in {"block_stats_available", "latest_block"} -> "getblockstats"
      [] family \in {"network", "network_reachable"}    -> "getnetworkinfo"
      [] family = "net_bytes"                           -> "getnettotals"
      [] family = "uptime"                              -> "uptime"
      [] family \in {"peers_relaying", "peers_by_network", "peers_ping", "peer_info"}
                                                        -> "getpeerinfo"
      [] family = "peers_banned"                        -> "listbanned"
      [] family = "wallets_loaded"                      -> "listwallets"
      [] family \in {"wallet_info", "wallet_scanning"}  -> "getwalletinfo"
      [] family = "wallet_balance"                      -> "getbalances"

\* The families whose samples are labelled with a thing in a list of the answer.
EachFamily == {"warning_info", "network_reachable"}

Origin(x) == Call(Method(x.family), IF x.family \in EachFamily THEN None ELSE x.label)

\* What the configuration names twice.
Repeats == Repeated(FeeTargets) \cup Repeated(OnlyWallets)

\* No call is made twice, and none that has published is still to be made,
\* unless it is about something that the configuration names twice.
Distinct(calls, sent) ==
    /\ \A call \in Repeated(calls) : call.arg \in Repeats
    /\ \A x \in sent : Origin(x) \in Names(calls) => Origin(x).arg \in Repeats

-----------------------------------------------------------------------------
(* What one answer publishes.                                              *)

\* The calls that ask about nothing in particular.
PlainMethod == { "getblockchaininfo", "getmempoolinfo", "getmininginfo", "getblockstats",
                 "getnetworkinfo", "getnettotals", "uptime", "getpeerinfo", "listbanned",
                 "listwallets" }

\* The calls a collector can make, whatever their order.
Known(call) ==
    \E m, a : /\ call = Call(m, a)
              /\ \/ m \in PlainMethod /\ a = None
                 \/ m = "estimatesmartfee"
                 \/ m \in WalletMethod

\* getmininginfo says that there is no block to describe.
NoBlockSample(call, ans) ==
    { x \in { Sample("block_stats_available", None, 0) } :
        /\ call.method = "getmininginfo"
        /\ ans.err = NoError
        /\ BlockStats
        /\ "blocks" \notin ans.data }

\* Every sample comes from the call that was answered, but the one that
\* stands for the getblockstats that is not made.
LEMMA SampleOrigin ==
  ASSUME NEW call, Known(call), NEW ans, NEW x \in Samples(call, ans)
  PROVE  Origin(x) = call \/ x \in NoBlockSample(call, ans)
<1>1. PICK m, a : /\ call = Call(m, a)
                  /\ \/ m \in PlainMethod /\ a = None
                     \/ m = "estimatesmartfee"
                     \/ m \in WalletMethod
  BY DEF Known
<1>2. call.method = m /\ call.arg = a
  BY <1>1 DEF Call
<1>3. ASSUME ans.err # NoError PROVE Origin(x) = call
  <2>1. x \in SamplesOnError(call, ans.err)
    BY <1>3 DEF Samples
  <2>2. CASE m = "estimatesmartfee"
    BY <1>1, <1>2, <2>1, <2>2 DEF SamplesOnError, Sample, Origin, Method, EachFamily
  <2>3. CASE m = "getblockstats"
    BY <1>1, <1>2, <2>1, <2>3 DEF SamplesOnError, Sample, Origin, Method, EachFamily, WalletMethod
  <2>4. CASE m = "listwallets"
    BY <1>1, <1>2, <2>1, <2>4 DEF SamplesOnError, Sample, Origin, Method, EachFamily, WalletMethod
  <2>5. QED
    BY <1>2, <2>1, <2>2, <2>3, <2>4 DEF SamplesOnError
<1>4. ASSUME ans.err = NoError PROVE Origin(x) = call \/ x \in NoBlockSample(call, ans)
  <2>1. x \in SamplesOnSuccess(call, ans.data)
    BY <1>4 DEF Samples
  <2> USE DEF Sample, One, When, Origin, Method, EachFamily
  <2>0. ASSUME NEW family \in EachFamily, NEW things, x \in Each(family, things)
        PROVE  Origin(x) = Call(Method(family), None)
    <3>1. x.family = family
      BY <2>0 DEF Each
    <3>2. QED
      BY <3>1
  <2>2. CASE m = "getblockchaininfo"
    <3>1. \/ x \in One("blockchain", call) \cup One("blocks_behind", call)
                    \cup One("chainwork", call)
          \/ x \in Each("warning_info", Warnings \cap ans.data)
      BY <1>2, <2>1, <2>2 DEF SamplesOnSuccess, ChainSamples
    <3>2. x \in Each("warning_info", Warnings \cap ans.data) => Origin(x) = call
      <4>1. Method("warning_info") = m /\ a = None
        BY <1>1, <2>2 DEF WalletMethod
      <4>2. QED
        BY <1>1, <2>0, <4>1
    <3>3. x \notin Each("warning_info", Warnings \cap ans.data) => Origin(x) = call
      BY <1>1, <1>2, <2>2, <3>1
    <3>4. QED
      BY <3>2, <3>3
  <2>3. CASE m = "estimatesmartfee"
    BY <1>1, <1>2, <2>1, <2>3 DEF SamplesOnSuccess, FeeSamples
  <2>4. CASE m = "getmempoolinfo"
    BY <1>1, <1>2, <2>1, <2>4 DEF SamplesOnSuccess, MempoolSamples
  <2>5. CASE m = "getmininginfo"
    BY <1>1, <1>2, <1>4, <2>1, <2>5 DEF SamplesOnSuccess, MiningSamples, NoBlockSample
  <2>6. CASE m = "getblockstats"
    BY <1>1, <1>2, <2>1, <2>6 DEF SamplesOnSuccess, MiningSamples
  <2>7. CASE m \in {"getnetworkinfo", "getnettotals", "uptime"}
    <3>1. \/ /\ m = "getnetworkinfo"
             /\ \/ x \in One("network", call)
                \/ x \in Each("network_reachable", Networks \cap ans.data)
          \/ m = "getnettotals" /\ x \in One("net_bytes", call)
          \/ m = "uptime" /\ x \in One("uptime", call)
      BY <1>2, <2>1, <2>7 DEF SamplesOnSuccess, NetworkSamples
    <3>2. /\ m = "getnetworkinfo"
          /\ x \in Each("network_reachable", Networks \cap ans.data)
          => Origin(x) = call
      <4>1. m = "getnetworkinfo" => Method("network_reachable") = m /\ a = None
        BY <1>1 DEF WalletMethod
      <4>2. QED
        BY <1>1, <2>0, <4>1
    <3> DEFINE each == Each("network_reachable", Networks \cap ans.data)
    <3>3. ~ (m = "getnetworkinfo" /\ x \in each) => Origin(x) = call
      <4> HIDE DEF each
      <4>1. QED
        BY <1>1, <1>2, <2>7, <3>1 DEF each
    <3>4. QED
      BY <3>2, <3>3
  <2>8. CASE m \in {"getpeerinfo", "listbanned"}
    BY <1>1, <1>2, <2>1, <2>8 DEF SamplesOnSuccess, PeerSamples, Aggregates, Detail
  <2>9. CASE m = "listwallets"
    BY <1>1, <1>2, <2>1, <2>9 DEF SamplesOnSuccess, WalletSamples, WalletMethod
  <2>10. CASE m \in WalletMethod
    BY <1>1, <1>2, <2>1, <2>10 DEF SamplesOnSuccess, WalletSamples, WalletMethod
  <2>11. QED
    BY <1>1, <2>2, <2>3, <2>4, <2>5, <2>6, <2>7, <2>8, <2>9, <2>10 DEF PlainMethod
<1>5. QED
  BY <1>3, <1>4

\* The balances may all be absent.
MustPublish(call, ans) ==
    call.method = "getbalances" /\ ans.err = NoError => "balance" \in ans.data

\* An answer that does not make the collector fail publishes the family of
\* its call: a tolerated refusal leaves the sample that says so.
LEMMA Published ==
  ASSUME NEW call, Known(call), NEW ans, Tolerates(call, ans.err), MustPublish(call, ans)
  PROVE  call.arg \in Labels(Samples(call, ans), Family(call.method))
<1>1. PICK m, a : /\ call = Call(m, a)
                  /\ \/ m \in PlainMethod /\ a = None
                     \/ m = "estimatesmartfee"
                     \/ m \in WalletMethod
  BY DEF Known
<1>2. call.method = m /\ call.arg = a
  BY <1>1 DEF Call
<1> SUFFICES \E x \in Samples(call, ans) : x.family = Family(m) /\ x.label = a
  BY <1>2 DEF Labels
<1>3. CASE ans.err # NoError
  <2>1. \/ m \in {"estimatesmartfee", "getblockstats"} /\ ans.err \in RPCError
        \/ m = "listwallets" /\ ans.err = "method_not_found"
    BY <1>2, <1>3 DEF Tolerates
  <2>2. QED
    BY <1>1, <1>2, <1>3, <2>1
       DEF Samples, SamplesOnError, Sample, Family, RPCError, WalletMethod
<1>4. CASE ans.err = NoError
  <2> DEFINE on == SamplesOnSuccess(call, ans.data)
             Sends(family) == \E v : Sample(family, a, v) \in on
  <2>1. Samples(call, ans) = on
    BY <1>4 DEF Samples
  <2>2. m = "getblockchaininfo" => Sample("blockchain", a, 1) \in on
    BY <1>2 DEF SamplesOnSuccess, ChainSamples, One
  <2>3. m = "estimatesmartfee" => \/ Sample("fee_estimate_available", a, 1) \in on
                                  \/ Sample("fee_estimate_available", a, 0) \in on
    BY <1>2 DEF SamplesOnSuccess, FeeSamples, One
  <2>4. m = "getmempoolinfo" => Sample("mempool", a, 1) \in on
    BY <1>2 DEF SamplesOnSuccess, MempoolSamples, One
  <2>5. m = "getmininginfo" => Sample("mining", a, 1) \in on
    BY <1>2 DEF SamplesOnSuccess, MiningSamples, One
  <2>6. m = "getblockstats" => Sample("block_stats_available", a, 1) \in on
    BY <1>2 DEF SamplesOnSuccess, MiningSamples, One
  <2>7. /\ m = "getnetworkinfo" => Sample("network", a, 1) \in on
        /\ m = "getnettotals" => Sample("net_bytes", a, 1) \in on
        /\ m = "uptime" => Sample("uptime", a, 1) \in on
    BY <1>2 DEF SamplesOnSuccess, NetworkSamples, One
  <2>8. /\ m = "getpeerinfo" => Sample("peers_relaying", a, 1) \in on
        /\ m = "listbanned" => Sample("peers_banned", a, 1) \in on
    BY <1>2 DEF SamplesOnSuccess, PeerSamples, Aggregates, One
  <2>9. m = "listwallets" => Sample("wallets_loaded", None, Len(ans.data)) \in on
    BY <1>2 DEF SamplesOnSuccess, WalletSamples
  <2>10. /\ m = "getwalletinfo" => Sample("wallet_info", a, 1) \in on
         /\ m = "getbalances" => Sample("wallet_balance", a, 1) \in on
    BY <1>2, <1>4 DEF SamplesOnSuccess, WalletSamples, One, When, MustPublish
  <2> HIDE DEF on
  <2>11. \E v : Sample(Family(m), a, v) \in on
    BY <1>1, <2>2, <2>3, <2>4, <2>5, <2>6, <2>7, <2>8, <2>9, <2>10
       DEF Family, PlainMethod, WalletMethod
  <2>12. QED
    BY <2>1, <2>11 DEF Sample
<1>5. QED
  BY <1>3, <1>4

LEMMA LabelsJoined ==
  ASSUME NEW s, NEW t, NEW family
  PROVE  Labels(s \cup t, family) = Labels(s, family) \cup Labels(t, family)
BY DEF Labels

LEMMA SampleLabel ==
  ASSUME NEW family, NEW label, NEW value, NEW sent, Sample(family, label, value) \in sent
  PROVE  label \in Labels(sent, family)
<1>1. /\ Sample(family, label, value).family = family
      /\ Sample(family, label, value).label = label
  BY DEF Sample
<1>2. QED
  BY <1>1 DEF Labels

LEMMA LabelOrigin ==
  ASSUME NEW call, Known(call), NEW ans, NEW family, NEW l \in Labels(Samples(call, ans), family)
  PROVE  \/ call = Call(Method(family), IF family \in EachFamily THEN None ELSE l)
         \/ /\ family = "block_stats_available" /\ l = None
            /\ call.method = "getmininginfo" /\ ans.err = NoError
            /\ BlockStats /\ "blocks" \notin ans.data
<1>1. PICK x \in Samples(call, ans) : x.family = family /\ x.label = l
  BY DEF Labels
<1>2. Origin(x) = call \/ x \in NoBlockSample(call, ans)
  BY <1>1, SampleOrigin
<1>3. QED
  BY <1>1, <1>2 DEF Origin, EachFamily, NoBlockSample, Sample

\* What is settled stays so when the first call of an Update is answered.
LEMMA SettledStep ==
  ASSUME NEW X, NEW calls \in Seq(X), calls # << >>, Known(Head(calls)),
         NEW sent, NEW bad, NEW ans, NEW rest, Names(Tail(calls)) \subseteq Names(rest),
         NEW call, Settled(call, calls, sent, bad), call = Head(calls) => MustPublish(call, ans)
  PROVE  Settled(call, rest, sent \cup Samples(Head(calls), ans),
                 bad \/ ~ Tolerates(Head(calls), ans.err))
<1>1. CASE call \in Names(calls)
  <2>1. call = Head(calls) \/ call \in Names(Tail(calls))
    BY <1>1, HeadAndTail
  <2>2. CASE call = Head(calls)
    BY <2>2, Published, LabelsJoined DEF Settled
  <2>3. QED
    BY <2>1, <2>2 DEF Settled
<1>2. CASE call \notin Names(calls)
  BY <1>2, LabelsJoined DEF Settled
<1>3. QED
  BY <1>1, <1>2

-----------------------------------------------------------------------------
(* The collectors whose calls are fixed.                                   *)

LEMMA TargetsSeq == Targets \in Seq(Nat) /\ Targets # << >>
<1>1. DefaultFeeTargets \in Seq(Nat) /\ DefaultFeeTargets # << >>
  BY DEF DefaultFeeTargets
<1>2. FeeTargets \in Seq(Nat)
  <2> DEFINE X == 1 .. 1008
  <2>1. FeeTargets \in Seq(X) /\ X \subseteq Nat
    BY ConfigAssumption
  <2> HIDE DEF X
  <2>2. Names(FeeTargets) \subseteq X
    BY <2>1, OwnNames
  <2>3. Names(FeeTargets) \subseteq Nat
    BY <2>1, <2>2
  <2>4. QED
    BY <2>1, <2>3, OwnNames
<1>3. QED
  BY <1>1, <1>2 DEF Targets

LEMMA ProgramCalls ==
  ASSUME NEW c \in Fixed
  PROVE  /\ Program[c] \in Seq(Names(Program[c]))
         /\ \A call \in Names(Program[c]) :
               /\ Known(call)
               /\ call.method \notin {"getmininginfo", "listwallets", "getbalances"}
               /\ c = "fees" => call.arg \in Names(Targets)
               /\ c = "peers" => call \in { Call("getpeerinfo", None), Call("listbanned", None) }
               /\ c # "fees" => call.method # "estimatesmartfee"
               /\ c # "peers" => call.method # "getpeerinfo"
<1> USE DEF Names, Known, Call, PlainMethod
<1>1. CASE c = "chain"
  BY <1>1 DEF Program
<1>2. CASE c = "fees"
  <2>1. Program["fees"] = [i \in 1 .. Len(Targets) |-> Call("estimatesmartfee", Targets[i])]
    BY TargetsSeq DEF Program
  <2>2. Program["fees"] \in Seq(Names(Program["fees"]))
    <3>1. Len(Targets) \in Nat
      BY TargetsSeq
    <3>2. \A i \in 1 .. Len(Targets) :
             Call("estimatesmartfee", Targets[i]) \in Names(Program["fees"])
      BY <2>1, <3>1
    <3>3. QED
      BY <2>1, <3>1, <3>2
  <2>3. QED
    BY <1>2, <2>1, <2>2, TargetsSeq
<1>3. CASE c = "mempool"
  BY <1>3 DEF Program
<1>4. CASE c = "network"
  BY <1>4 DEF Program
<1>5. CASE c = "peers"
  BY <1>5 DEF Program
<1>6. QED
  BY <1>1, <1>2, <1>3, <1>4, <1>5 DEF Fixed

\* Peer detail is published with the answer about the peers, if there are
\* any, or never.
LEMMA PeerDetailSamples ==
  ASSUME NEW ans
  PROVE  LET s == Samples(Call("getpeerinfo", None), ans)
         IN  None \in Labels(s, "peer_info")
                <=> PeerDetail /\ None \in Labels(s, "peers_by_network")
<1> DEFINE call == Call("getpeerinfo", None)
           s == Samples(call, ans)
<1>1. call.method = "getpeerinfo" /\ call.arg = None
  BY DEF Call
<1>2. CASE ans.err # NoError
  <2>1. s = {}
    BY <1>1, <1>2 DEF Samples, SamplesOnError
  <2>2. QED
    BY <2>1 DEF Labels
<1>3. CASE ans.err = NoError
  <2>1. s = PeerSamples(call, ans.data)
    BY <1>1, <1>3 DEF Samples, SamplesOnSuccess
  <2>2. s = Aggregates(call, ans.data) \cup (IF PeerDetail THEN Detail(call, ans.data) ELSE {})
    BY <1>1, <2>1 DEF PeerSamples
  <2> HIDE DEF s
  <2>3. "peers" \in ans.data =>
          /\ Sample("peers_by_network", None, 1) \in s
          /\ PeerDetail => Sample("peer_info", None, 1) \in s
    BY <1>1, <2>2 DEF Aggregates, Detail, When, One
  <2>4. \A x \in s : /\ x.family = "peer_info" => PeerDetail /\ "peers" \in ans.data
                     /\ x.family = "peers_by_network" => "peers" \in ans.data
    BY <2>2 DEF Aggregates, Detail, One, When, Sample
  <2>5. QED
    BY <2>3, <2>4 DEF Labels, Sample, s
<1>4. QED
  BY <1>2, <1>3

LEMMA FixedStart ==
  ASSUME NEW c \in Fixed, NEW bad
  PROVE  FixedUnderway(c, Program[c], {}, bad)
BY ProgramCalls DEF FixedUnderway, Settled, Labels

LEMMA FixedStep ==
  ASSUME NEW c \in Fixed, NEW calls, NEW sent, NEW bad,
         FixedUnderway(c, calls, sent, bad), calls # << >>, NEW ans
  PROVE  FixedUnderway(c, CallsAfter(calls, ans), SentAfter(calls, sent, ans),
                       BadAfter(calls, bad, ans))
<1> USE DEF CallsAfter, SentAfter, BadAfter
<1> DEFINE call == Head(calls)
           more == Samples(call, ans)
           X == Names(Program[c])
<1>1. calls \in Seq(X) /\ \A x \in X : Settled(x, calls, sent, bad)
  BY DEF FixedUnderway
<1>2. call \in X /\ Tail(calls) \in Seq(X) /\ Known(call)
  BY <1>1, HeadAndTail, ProgramCalls
<1>3. call.method \notin {"getmininginfo", "listwallets"}
      /\ \A x \in X : MustPublish(x, ans)
  BY <1>2, ProgramCalls DEF MustPublish
<1>4. Follow(call, ans) \o Tail(calls) = Tail(calls)
  <2>1. Follow(call, ans) = << >>
    BY <1>3 DEF Follow
  <2>2. QED
    BY <1>2, <2>1
<1>5. \A x \in X : Settled(x, Tail(calls), sent \cup more, bad \/ ~ Tolerates(call, ans.err))
  BY <1>1, <1>2, <1>3, SettledStep
<1>6. ASSUME c = "fees"
      PROVE  Labels(sent \cup more, "fee_estimate_available") \subseteq Names(Targets)
  <2>1. Labels(sent, "fee_estimate_available") \subseteq Names(Targets)
    BY <1>6 DEF FixedUnderway
  <2>2. ASSUME NEW l \in Labels(more, "fee_estimate_available") PROVE l = call.arg
    <3>1. call = Call(Method("fee_estimate_available"), l)
      BY <1>2, <1>3, LabelOrigin DEF EachFamily
    <3>2. QED
      BY <3>1 DEF Call
  <2>3. call.arg \in Names(Targets)
    BY <1>2, <1>6, ProgramCalls
  <2>4. Labels(sent \cup more, "fee_estimate_available")
          = Labels(sent, "fee_estimate_available") \cup Labels(more, "fee_estimate_available")
    BY LabelsJoined
  <2> HIDE DEF more, call
  <2>5. QED
    BY <2>1, <2>2, <2>3, <2>4
<1>7. ASSUME c = "peers"
      PROVE  /\ Labels(sent \cup more, "peer_info") \subseteq {None}
             /\ None \in Labels(sent \cup more, "peer_info")
                   <=> PeerDetail /\ None \in Labels(sent \cup more, "peers_by_network")
  <2>1. call = Call("getpeerinfo", None) \/ call = Call("listbanned", None)
    BY <1>2, <1>7, ProgramCalls
  <2>2. call = Call("listbanned", None) =>
            Labels(more, "peer_info") = {} /\ Labels(more, "peers_by_network") = {}
    BY <1>2, LabelOrigin DEF Method, EachFamily, Call
  <2>3. Labels(more, "peer_info") \subseteq {None}
    BY <1>2, <2>1, LabelOrigin DEF EachFamily, Call
  <2>4. \A f : Labels(sent \cup more, f) = Labels(sent, f) \cup Labels(more, f)
    BY LabelsJoined
  <2>5. /\ Labels(sent, "peer_info") \subseteq {None}
        /\ None \in Labels(sent, "peer_info")
              <=> PeerDetail /\ None \in Labels(sent, "peers_by_network")
    BY <1>7 DEF FixedUnderway
  <2>6. None \in Labels(more, "peer_info")
           <=> PeerDetail /\ None \in Labels(more, "peers_by_network")
    BY <2>1, <2>2, PeerDetailSamples
  <2> HIDE DEF more
  <2>7. QED
    BY <2>3, <2>4, <2>5, <2>6
<1>8. QED
  BY <1>2, <1>4, <1>5, <1>6, <1>7 DEF FixedUnderway

LEMMA FixedEnd ==
  ASSUME NEW c \in Fixed, NEW sent, FixedUnderway(c, << >>, sent, FALSE)
  PROVE  \A loaded : Complete(c, loaded, sent)
<1>1. \A call \in Names(Program[c]) : call.arg \in Labels(sent, Family(call.method))
  BY DEF FixedUnderway, Settled, Names
<1>2. \A m, a : Call(m, a) \in Names(Program[c]) => a \in Labels(sent, Family(m))
  BY <1>1 DEF Call
<1>3. CASE c = "chain"
  <2>1. Call("getblockchaininfo", None) \in Names(Program[c])
    BY <1>3 DEF Program, Names
  <2>2. QED
    BY <1>2, <1>3, <2>1 DEF Complete, Family
<1>4. CASE c = "fees"
  <2>1. \A i \in DOMAIN Targets : Call("estimatesmartfee", Targets[i]) \in Names(Program[c])
    BY <1>4 DEF Program, Names
  <2>2. Names(Targets) \subseteq Labels(sent, "fee_estimate_available")
    BY <1>2, <2>1 DEF Family, Names
  <2>3. QED
    BY <1>4, <2>2 DEF Complete, FixedUnderway
<1>5. CASE c = "mempool"
  <2>1. Call("getmempoolinfo", None) \in Names(Program[c])
    BY <1>5 DEF Program, Names
  <2>2. QED
    BY <1>2, <1>5, <2>1 DEF Complete, Family
<1>6. CASE c = "network"
  <2>1. \A m \in {"getnetworkinfo", "getnettotals", "uptime"} : Call(m, None) \in Names(Program[c])
    BY <1>6 DEF Program, Names
  <2>2. QED
    BY <1>2, <1>6, <2>1 DEF Complete, Family
<1>7. CASE c = "peers"
  <2>1. \A m \in {"getpeerinfo", "listbanned"} : Call(m, None) \in Names(Program[c])
    BY <1>7 DEF Program, Names
  <2>2. None \in Labels(sent, "peers_relaying") /\ None \in Labels(sent, "peers_banned")
    BY <1>2, <2>1 DEF Family
  <2>3. QED
    BY <1>7, <2>2, ConfigAssumption DEF Complete, FixedUnderway
<1>8. QED
  BY <1>3, <1>4, <1>5, <1>6, <1>7 DEF Fixed

-----------------------------------------------------------------------------
(* Mining: getblockstats follows getmininginfo if there is a block.        *)

LEMMA MiningStep ==
  ASSUME NEW calls, NEW sent, NEW bad, MiningUnderway(calls, sent, bad), calls # << >>,
         NEW ans
  PROVE  MiningUnderway(CallsAfter(calls, ans), SentAfter(calls, sent, ans),
                        BadAfter(calls, bad, ans))
<1> USE DEF CallsAfter, SentAfter, BadAfter
<1> DEFINE call == Head(calls)
           more == Samples(call, ans)
           rest == Follow(call, ans) \o Tail(calls)
           info == Call("getmininginfo", None)
<1>0. /\ Known(info) /\ Known(BlockCall) /\ BlockCall.method = "getblockstats"
      /\ BlockCall.arg = None /\ MustPublish(info, ans) /\ MustPublish(BlockCall, ans)
  BY DEF Known, BlockCall, PlainMethod, Call, MustPublish
<1>1. CASE calls = Program["mining"] /\ sent = {}
  <2>1. calls = << info >> /\ call = info /\ Tail(calls) = << >> /\ call.method = "getmininginfo"
    BY <1>1 DEF Program, Call
  <2>2. Follow(call, ans) = IF ans.err = NoError /\ BlockStats /\ "blocks" \in ans.data
                            THEN << BlockCall >> ELSE << >>
    BY <2>1 DEF Follow, BlockCall
  <2>3. rest = Follow(call, ans) /\ rest \in Seq({BlockCall}) /\ (rest # << >> => BlockStats)
    <3> DEFINE f == Follow(call, ans)
    <3>a. << BlockCall >> \in Seq({BlockCall}) /\ << >> \in Seq({BlockCall})
      OBVIOUS
    <3>1. f \in Seq({BlockCall}) /\ (f # << >> => BlockStats)
      <4> HIDE DEF f
      <4>1. (f = << BlockCall >> /\ BlockStats) \/ f = << >>
        BY <2>2 DEF f
      <4>2. QED
        BY <3>a, <4>1
    <3> HIDE DEF f
    <3>2. f \o << >> = f
      BY <3>1
    <3>3. QED
      BY <2>1, <3>1, <3>2 DEF f
  <2>4. Settled(info, << >>, sent \cup more, bad \/ ~ Tolerates(call, ans.err))
    BY <1>0, <2>1, Published, LabelsJoined DEF Settled
  <2>5. None \in Labels(sent \cup more, "block_stats_available") => BlockStats
    BY <1>0, <1>1, <2>1, LabelOrigin DEF Method, EachFamily, Call
  <2>6. BlockStats => Settled(BlockCall, rest, sent \cup more, bad \/ ~ Tolerates(call, ans.err))
    <3>1. CASE ans.err # NoError
      BY <2>1, <3>1 DEF Tolerates, Settled
    <3>2. CASE ans.err = NoError /\ "blocks" \in ans.data
      BY <2>2, <2>3, <3>2 DEF Settled, Names
    <3>3. CASE ans.err = NoError /\ "blocks" \notin ans.data /\ BlockStats
      <4>1. Sample("block_stats_available", None, 0) \in more
        BY <2>1, <3>3 DEF Samples, SamplesOnSuccess, MiningSamples
      <4>2. None \in Labels(more, "block_stats_available")
        BY <4>1 DEF Labels, Sample
      <4>3. QED
        BY <1>0, <4>2, LabelsJoined DEF Settled, Family
    <3>4. QED
      BY <3>1, <3>2, <3>3
  <2>7. QED
    BY <2>3, <2>4, <2>5, <2>6 DEF MiningUnderway
<1>2. CASE ~ (calls = Program["mining"] /\ sent = {})
  <2>1. /\ calls \in Seq({BlockCall}) /\ BlockStats
        /\ Settled(info, << >>, sent, bad)
        /\ Settled(BlockCall, calls, sent, bad)
    BY <1>2 DEF MiningUnderway
  <2>2. call = BlockCall /\ Tail(calls) \in Seq({BlockCall})
    BY <2>1, HeadAndTail
  <2>3. Follow(call, ans) = << >>
    BY <1>0, <2>2 DEF Follow
  <2>4. rest = Tail(calls)
    BY <2>2, <2>3
  <2>5. Settled(BlockCall, rest, sent \cup more, bad \/ ~ Tolerates(call, ans.err))
    BY <1>0, <2>1, <2>2, <2>4, SettledStep
  <2>6. Settled(info, << >>, sent \cup more, bad \/ ~ Tolerates(call, ans.err))
    BY <2>1, LabelsJoined DEF Settled
  <2>7. QED
    BY <2>1, <2>2, <2>4, <2>5, <2>6 DEF MiningUnderway
<1>3. QED
  BY <1>1, <1>2

LEMMA MiningEnd ==
  ASSUME BlockStats \in BOOLEAN, NEW sent, MiningUnderway(<< >>, sent, FALSE)
  PROVE  \A loaded : Complete("mining", loaded, sent)
<1>1. Program["mining"] # << >>
  BY DEF Program
<1>2. /\ Settled(Call("getmininginfo", None), << >>, sent, FALSE)
      /\ BlockStats => Settled(BlockCall, << >>, sent, FALSE)
      /\ None \in Labels(sent, "block_stats_available") => BlockStats
  BY <1>1 DEF MiningUnderway
<1>3. /\ None \in Labels(sent, "mining")
      /\ BlockStats => None \in Labels(sent, "block_stats_available")
  BY <1>2 DEF Settled, Names, Call, BlockCall, Family
<1>4. QED
  BY <1>2, <1>3 DEF Complete

-----------------------------------------------------------------------------
(* Wallets.                                                                *)

LEMMA LoadedListFacts ==
  ASSUME IsFiniteSet(NodeWallets), NEW L \in LoadedLists
  PROVE  \E S \in SUBSET NodeWallets :
            /\ IsFiniteSet(S)
            /\ L \in Seq(S) /\ Names(L) = S /\ Len(L) = Cardinality(S) /\ NoRepeat(L)
<1>1. PICK S \in SUBSET NodeWallets : L \in Listings(S)
  BY DEF LoadedLists
<1>2. IsFiniteSet(S)
  BY FS_Subset
<1>3. QED
  BY <1>1, <1>2, ListingFacts

\* listwallets is answered with list L: Selected(L) are visited.
LEMMA VisitStart ==
  ASSUME OnlyWallets \in Seq(Names(OnlyWallets)), NEW W, NEW ans, ans.data \in Seq(W),
         ans.err = NoError, NEW bad
  PROVE  /\ Names(CallsAfter(Program["wallet"], ans)) = WalletCall(Names(Selected(ans.data)))
         /\ VisitUnderway(Names(Selected(ans.data)), Len(ans.data),
                          CallsAfter(Program["wallet"], ans),
                          SentAfter(Program["wallet"], {}, ans),
                          BadAfter(Program["wallet"], bad, ans))
<1> DEFINE calls == Program["wallet"]
           call == Head(calls)
           more == Samples(call, ans)
           rest == CallsAfter(calls, ans)
           L == ans.data
           V == Names(Selected(L))
<1>1. call = Call("listwallets", None) /\ Tail(calls) = << >> /\ call.method = "listwallets"
  BY DEF Program, Call
<1>2. Selected(L) \in Seq(V)
  BY SelectedFacts, OwnNames
<1>3. Follow(call, ans) = WalletCalls(Selected(L))
  BY <1>1 DEF Follow
<1>4. rest \in Seq(WalletCall(V)) /\ Names(rest) = WalletCall(V)
  <2> DEFINE w == WalletCalls(Selected(L))
  <2>1. w \in Seq(WalletCall(V)) /\ Names(w) = WalletCall(V)
    BY <1>2, WalletCallsFacts
  <2> HIDE DEF w
  <2>2. w \o << >> = w
    BY <2>1
  <2>3. rest = w
    BY <1>1, <1>3, <2>2 DEF w, CallsAfter
  <2>4. QED
    BY <2>1, <2>3
<1>5. more = { Sample("wallets_loaded", None, Len(L)) }
  BY <1>1 DEF Samples, SamplesOnSuccess, WalletSamples
<1>6. \A m \in WalletMethod : Labels(more, Family(m)) = {}
  BY <1>5 DEF Labels, Sample, Family, WalletMethod
<1>7. { x \in more : x.family = "wallets_loaded" } = { Sample("wallets_loaded", None, Len(L)) }
  BY <1>5 DEF Sample
<1>8. SentAfter(calls, {}, ans) = more
  BY DEF SentAfter
<1> HIDE DEF rest, more, L, calls
<1>9. \A w \in V : Call("getwalletinfo", w) \in WalletCall(V)
  BY DEF WalletCall, WalletMethod
<1>10. QED
  BY <1>4, <1>6, <1>7, <1>8, <1>9 DEF VisitUnderway, Settled, rest, L, calls

\* One of the two calls about a wallet is answered.
LEMMA VisitStep ==
  ASSUME NEW V, NEW n, NEW calls, NEW sent, NEW bad,
         VisitUnderway(V, n, calls, sent, bad), calls # << >>, NEW ans
  PROVE  /\ CallsAfter(calls, ans) = Tail(calls)
         /\ VisitUnderway(V, n, CallsAfter(calls, ans), SentAfter(calls, sent, ans),
                          BadAfter(calls, bad, ans))
<1> DEFINE call == Head(calls)
           more == Samples(call, ans)
           rest == CallsAfter(calls, ans)
           worse == BadAfter(calls, bad, ans)
<1>1. /\ calls \in Seq(WalletCall(V))
      /\ \A w \in V : Settled(Call("getwalletinfo", w), calls, sent, bad)
      /\ \A m \in WalletMethod : Labels(sent, Family(m)) \subseteq V
      /\ { x \in sent : x.family = "wallets_loaded" } = { Sample("wallets_loaded", None, n) }
  BY DEF VisitUnderway
<1>2. call \in WalletCall(V) /\ Tail(calls) \in Seq(WalletCall(V))
  BY <1>1, HeadAndTail
<1>3. PICK m \in WalletMethod, w \in V : call = Call(m, w)
  BY <1>2 DEF WalletCall
<1>4. Known(call) /\ call.method \in WalletMethod /\ call.arg \in V
  BY <1>3 DEF Known, Call
<1>5. Follow(call, ans) = << >>
  BY <1>4 DEF Follow, WalletMethod
<1>6. rest = Tail(calls)
  BY <1>2, <1>5 DEF CallsAfter
<1>7. \A x \in V : Settled(Call("getwalletinfo", x), rest, sent \cup more, worse)
  <2>1. \A x : MustPublish(Call("getwalletinfo", x), ans)
    BY DEF MustPublish, Call
  <2>2. QED
    BY <1>1, <1>4, <1>6, <2>1, SettledStep DEF BadAfter
<1>8. \A f \in { Family(k) : k \in WalletMethod } : Labels(more, f) \subseteq V
  BY <1>4, LabelOrigin DEF Call, Family, EachFamily, WalletMethod
<1>9. Labels(more, "wallets_loaded") = {}
  BY <1>4, LabelOrigin DEF Method, EachFamily, Call, WalletMethod
<1>10. { x \in sent \cup more : x.family = "wallets_loaded" }
          = { Sample("wallets_loaded", None, n) }
  BY <1>1, <1>9 DEF Labels
<1>11. \A f : Labels(sent \cup more, f) = Labels(sent, f) \cup Labels(more, f)
  BY LabelsJoined
<1> HIDE DEF more, rest, worse
<1>12. \A k \in WalletMethod : Labels(sent \cup more, Family(k)) \subseteq V
  BY <1>1, <1>8, <1>11
<1>13. SentAfter(calls, sent, ans) = sent \cup more
  BY DEF SentAfter, more
<1>14. QED
  BY <1>2, <1>6, <1>7, <1>10, <1>12, <1>13 DEF VisitUnderway, rest, worse

LEMMA WalletStep ==
  ASSUME OnlyWallets \in Seq(Names(OnlyWallets)), IsFiniteSet(NodeWallets),
         NEW loaded, NEW calls, NEW sent, NEW bad, WalletUnderway(loaded, calls, sent, bad),
         calls # << >>, NEW ans, MayAnswer(Head(calls), ans)
  PROVE  WalletUnderway(ListedAfter(calls, loaded, ans), CallsAfter(calls, ans),
                        SentAfter(calls, sent, ans), BadAfter(calls, bad, ans))
<1>1. CASE calls = Program["wallet"] /\ loaded = << >> /\ sent = {}
  <2> DEFINE call == Head(calls)
             more == Samples(call, ans)
  <2>1. call = Call("listwallets", None) /\ Tail(calls) = << >> /\ call.method = "listwallets"
    BY <1>1 DEF Program, Call
  <2>2. CASE ans.err # NoError
    <3>1. Follow(call, ans) = << >>
      BY <2>1, <2>2 DEF Follow
    <3>2. CallsAfter(calls, ans) = << >> /\ ListedAfter(calls, loaded, ans) = << >>
      BY <1>1, <2>1, <2>2, <3>1 DEF CallsAfter, ListedAfter
    <3>3. ans.err # "method_not_found" => BadAfter(calls, bad, ans)
      BY <2>1, <2>2 DEF Tolerates, BadAfter
    <3>4. ans.err = "method_not_found" => more = { Sample("wallets_loaded", None, 0) }
      BY <2>1, <2>2 DEF Samples, SamplesOnError
    <3>5. QED
      BY <1>1, <3>2, <3>3, <3>4 DEF WalletUnderway, NoWalletsUnderway, SentAfter
  <2>3. CASE ans.err = NoError
    <3>1. ans.data \in LoadedLists /\ ListedAfter(calls, loaded, ans) = ans.data
      BY <2>1, <2>3 DEF MayAnswer, ListedAfter
    <3>2. \E W : ans.data \in Seq(W)
      BY <3>1, LoadedListFacts
    <3>3. QED
      BY <1>1, <2>3, <3>1, <3>2, VisitStart DEF WalletUnderway
  <2>4. QED
    BY <2>2, <2>3
<1>2. CASE ~ (calls = Program["wallet"] /\ loaded = << >> /\ sent = {})
  <2>1. /\ loaded \in LoadedLists
        /\ VisitUnderway(Names(Selected(loaded)), Len(loaded), calls, sent, bad)
    BY <1>2 DEF WalletUnderway, NoWalletsUnderway
  <2>2. ListedAfter(calls, loaded, ans) = loaded
    <3>1. Head(calls) \in WalletCall(Names(Selected(loaded)))
      BY <2>1, HeadAndTail DEF VisitUnderway
    <3>2. Head(calls).method # "listwallets"
      <4>1. PICK m, w : m \in WalletMethod /\ Head(calls) = Call(m, w)
        BY <3>1 DEF WalletCall
      <4>2. Head(calls).method = m
        BY <4>1 DEF Call
      <4>3. QED
        BY <4>1, <4>2 DEF WalletMethod
    <3>3. QED
      BY <3>2 DEF ListedAfter
  <2>3. QED
    BY <2>1, <2>2, VisitStep DEF WalletUnderway
<1>3. QED
  BY <1>1, <1>2

\* A wallet collector that is through has described the wallets it was to visit.
LEMMA VisitEnd ==
  ASSUME NEW V, NEW n, NEW sent, VisitUnderway(V, n, << >>, sent, FALSE)
  PROVE  /\ Labels(sent, "wallet_info") = V
         /\ Labels(sent, "wallet_balance") \subseteq V
         /\ Sample("wallets_loaded", None, n) \in sent
<1>1. /\ \A w \in V : Settled(Call("getwalletinfo", w), << >>, sent, FALSE)
      /\ \A m \in WalletMethod : Labels(sent, Family(m)) \subseteq V
      /\ { x \in sent : x.family = "wallets_loaded" } = { Sample("wallets_loaded", None, n) }
  BY DEF VisitUnderway
<1>2. \A w \in V : w \in Labels(sent, "wallet_info")
  BY <1>1 DEF Settled, Names, Call, Family
<1>3. Labels(sent, "wallet_info") \subseteq V /\ Labels(sent, "wallet_balance") \subseteq V
  BY <1>1 DEF WalletMethod, Family
<1>4. QED
  BY <1>1, <1>2, <1>3

LEMMA WalletEnd ==
  ASSUME OnlyWallets \in Seq(Names(OnlyWallets)), IsFiniteSet(NodeWallets),
         NEW loaded, NEW sent, WalletUnderway(loaded, << >>, sent, FALSE)
  PROVE  Complete("wallet", loaded, sent)
<1> DEFINE described == Labels(sent, "wallet_info")
           balances == Labels(sent, "wallet_balance")
           V == IF OnlyWallets = << >> THEN Names(loaded)
                ELSE Names(loaded) \cap Names(OnlyWallets)
<1> SUFFICES /\ Sample("wallets_loaded", None, Len(loaded)) \in sent
             /\ described = V
             /\ balances \subseteq described
  BY DEF Complete
<1>1. Program["wallet"] # << >>
  BY DEF Program
<1>2. CASE loaded = << >> /\ sent = { Sample("wallets_loaded", None, 0) }
  <2>1. Len(loaded) = 0 /\ V = {}
    BY <1>2 DEF Names
  <2>2. described = {} /\ balances = {}
    BY <1>2 DEF Labels, Sample
  <2>3. Sample("wallets_loaded", None, Len(loaded)) \in sent
    BY <1>2, <2>1
  <2> HIDE DEF V, described, balances
  <2>4. QED
    BY <2>1, <2>2, <2>3
<1>3. CASE /\ loaded \in LoadedLists
           /\ VisitUnderway(Names(Selected(loaded)), Len(loaded), << >>, sent, FALSE)
  <2>1. Names(Selected(loaded)) = V
    <3>1. PICK S : loaded \in Seq(S)
      BY <1>3, LoadedListFacts
    <3>2. /\ OnlyWallets = << >> => Selected(loaded) = loaded
          /\ OnlyWallets # << >> =>
                Names(Selected(loaded)) = Names(OnlyWallets) \cap Names(loaded)
      BY <3>1, SelectedFacts
    <3>3. QED
      BY <3>2
  <2>2. /\ described = Names(Selected(loaded))
        /\ balances \subseteq Names(Selected(loaded))
        /\ Sample("wallets_loaded", None, Len(loaded)) \in sent
    <3> DEFINE W == Names(Selected(loaded))
               n == Len(loaded)
    <3>1. VisitUnderway(W, n, << >>, sent, FALSE)
      BY <1>3
    <3> HIDE DEF W, n
    <3>2. QED
      BY <3>1, VisitEnd DEF W, n
  <2> HIDE DEF V, described, balances
  <2>3. QED
    BY <2>1, <2>2
<1>4. QED
  BY <1>1, <1>2, <1>3 DEF WalletUnderway, NoWalletsUnderway

\* Of a node whose answers always have a balance: the balances of wallet w are
\* still to be asked for, or published, or the collector fails.
BalancesUnderway(V, calls, sent, bad) ==
    \A w \in V : Settled(Call("getbalances", w), calls, sent, bad)

LEMMA BalancesStart ==
  ASSUME NEW V, NEW calls, Names(calls) = WalletCall(V), NEW sent, NEW bad
  PROVE  BalancesUnderway(V, calls, sent, bad)
BY DEF BalancesUnderway, Settled, WalletCall, WalletMethod

LEMMA BalancesStep ==
  ASSUME NEW V, NEW calls \in Seq(WalletCall(V)), calls # << >>, NEW sent, NEW bad,
         BalancesUnderway(V, calls, sent, bad), NEW ans,
         MustPublish(Head(calls), ans)
  PROVE  BalancesUnderway(V, Tail(calls), SentAfter(calls, sent, ans), BadAfter(calls, bad, ans))
<1>1. Known(Head(calls))
  <2>1. Head(calls) \in WalletCall(V)
    BY HeadAndTail
  <2>2. QED
    BY <2>1 DEF WalletCall, Known
<1>2. QED
  BY <1>1, SettledStep DEF BalancesUnderway, SentAfter, BadAfter

LEMMA BalancesEnd ==
  ASSUME NEW V, NEW sent, BalancesUnderway(V, << >>, sent, FALSE)
  PROVE  V \subseteq Labels(sent, "wallet_balance")
BY DEF BalancesUnderway, Settled, Names, Call, Family

-----------------------------------------------------------------------------
(* Every collector.                                                        *)

LEMMA UnderwayStart ==
  ASSUME NEW c \in Collector, NEW bad
  PROVE  Underway(c, << >>, Program[c], {}, bad)
BY FixedStart DEF Underway, MiningUnderway, WalletUnderway, Collector, Fixed

\* What listwallets gave matters to the wallet collector only, and only that
\* one asks.
LEMMA UnderwayElsewhere ==
  ASSUME NEW c \in Collector, c # "wallet", NEW loaded, NEW calls, NEW sent, NEW bad,
         Underway(c, loaded, calls, sent, bad)
  PROVE  /\ \A other : Underway(c, other, calls, sent, bad)
         /\ calls # << >> => Head(calls).method # "listwallets"
<1>1. ASSUME calls # << >> PROVE Head(calls).method # "listwallets"
  <2>1. CASE c = "mining"
    <3>1. calls = << Call("getmininginfo", None) >> \/ calls \in Seq({BlockCall})
      BY <2>1 DEF Underway, MiningUnderway, Program
    <3>2. Head(calls) \in { Call("getmininginfo", None), BlockCall }
      BY <1>1, <3>1
    <3>3. QED
      BY <3>2 DEF BlockCall, Call
  <2>2. CASE c \in Fixed
    <3> DEFINE X == Names(Program[c])
    <3>1. calls \in Seq(X)
      BY <2>2 DEF Underway, FixedUnderway, Fixed
    <3>2. Head(calls) \in X
      BY <1>1, <3>1, HeadAndTail
    <3>3. QED
      BY <2>2, <3>2, ProgramCalls
  <2>3. QED
    BY <2>1, <2>2 DEF Collector, Fixed
<1>2. QED
  BY <1>1 DEF Underway

LEMMA UnderwayStep ==
  ASSUME NEW c \in Collector, NEW loaded, NEW calls, NEW sent, NEW bad,
         Underway(c, loaded, calls, sent, bad), calls # << >>,
         NEW ans, MayAnswer(Head(calls), ans)
  PROVE  Underway(c, ListedAfter(calls, loaded, ans), CallsAfter(calls, ans),
                  SentAfter(calls, sent, ans), BadAfter(calls, bad, ans))
<1>1. CASE c = "mining"
  BY <1>1, MiningStep DEF Underway
<1>2. CASE c = "wallet"
  BY <1>2, WalletStep, ConfigAssumption DEF Underway
<1>3. CASE c \in Fixed
  BY <1>3, FixedStep DEF Underway, Fixed
<1>4. QED
  BY <1>1, <1>2, <1>3 DEF Collector, Fixed

\* A collector that has made all its calls and has no error to return has
\* published all it stands for.
LEMMA UnderwayEnd ==
  ASSUME NEW c \in Collector, NEW loaded, NEW sent, Underway(c, loaded, << >>, sent, FALSE)
  PROVE  Complete(c, loaded, sent)
<1>1. CASE c = "mining"
  BY <1>1, MiningEnd, ConfigAssumption DEF Underway
<1>2. CASE c = "wallet"
  BY <1>2, WalletEnd, ConfigAssumption DEF Underway
<1>3. CASE c \in Fixed
  BY <1>3, FixedEnd DEF Underway, Fixed
<1>4. QED
  BY <1>1, <1>2, <1>3 DEF Collector, Fixed

-----------------------------------------------------------------------------
(* No series is sent twice but those the configuration asks for twice.     *)

\* An answer sends a series that is among those sent.
Clashes(samples, sent) ==
    \E x \in samples, y \in sent : x.family = y.family /\ x.label = y.label

\* Where no answer inserts calls, calls that are distinct stay distinct.
LEMMA DistinctTail ==
  ASSUME NEW X, NEW calls \in Seq(X), calls # << >>, NEW sent, Distinct(calls, sent),
         Known(Head(calls)), Head(calls).method # "getmininginfo", NEW ans
  PROVE  /\ Clashes(Samples(Head(calls), ans), sent) => Head(calls).arg \in Repeats
         /\ Distinct(Tail(calls), sent \cup Samples(Head(calls), ans))
<1> DEFINE call == Head(calls)
           more == Samples(call, ans)
           rest == Tail(calls)
<1>1. \A x \in more : Origin(x) = call
  BY SampleOrigin DEF NoBlockSample
<1>2. /\ call \in Names(calls) /\ Names(calls) = {call} \cup Names(rest)
      /\ Repeated(rest) \subseteq Repeated(calls)
      /\ call \in Names(rest) => call \in Repeated(calls)
  BY HeadAndTail
<1>3. /\ \A k \in Repeated(calls) : k.arg \in Repeats
      /\ \A y \in sent : Origin(y) \in Names(calls) => Origin(y).arg \in Repeats
  BY DEF Distinct
<1> HIDE DEF call, more, rest
<1>4. ASSUME Clashes(more, sent) PROVE call.arg \in Repeats
  <2>1. PICK x \in more, y \in sent : x.family = y.family /\ x.label = y.label
    BY <1>4 DEF Clashes
  <2>2. Origin(x) = Origin(y)
    BY <2>1 DEF Origin
  <2>3. QED
    BY <1>1, <1>2, <1>3, <2>1, <2>2
<1>5. Distinct(rest, sent \cup more)
  <2>1. \A k \in Repeated(rest) : k.arg \in Repeats
    BY <1>2, <1>3
  <2>2. ASSUME NEW x \in sent \cup more, Origin(x) \in Names(rest)
        PROVE  Origin(x).arg \in Repeats
    <3>1. CASE x \in sent
      BY <1>2, <1>3, <2>2, <3>1
    <3>2. CASE x \in more
      BY <1>1, <1>2, <1>3, <2>2, <3>2
    <3>3. QED
      BY <3>1, <3>2
  <2>3. QED
    BY <2>1, <2>2 DEF Distinct
<1>6. QED
  BY <1>4, <1>5 DEF call, more, rest

LEMMA NothingLeft ==
  ASSUME NEW samples
  PROVE  Distinct(<< >>, samples) /\ ~ Clashes(samples, {})
BY DEF Distinct, Repeated, Names, Clashes

LEMMA DistinctStart ==
  ASSUME NEW c \in Collector
  PROVE  Distinct(Program[c], {})
<1>1. \A m, n, a, b : Call(m, a) = Call(n, b) => m = n /\ a = b
  BY DEF Call
<1>2. Repeated(Targets) \subseteq Repeats
  BY DEF Targets, DefaultFeeTargets, Repeated, Repeats
<1>3. CASE c = "fees"
  <2>1. Program[c] = [i \in DOMAIN Targets |-> Call("estimatesmartfee", Targets[i])]
    BY <1>3 DEF Program
  <2>2. ASSUME NEW call \in Repeated(Program[c]) PROVE call.arg \in Repeats
    <3>1. PICK i \in DOMAIN Targets, j \in DOMAIN Targets :
             /\ i # j
             /\ call = Call("estimatesmartfee", Targets[i])
             /\ call = Call("estimatesmartfee", Targets[j])
      BY <2>1, <2>2 DEF Repeated
    <3>2. call.arg = Targets[i] /\ call.arg = Targets[j]
      BY <3>1 DEF Call
    <3>3. call.arg \in Repeated(Targets)
      BY <3>1, <3>2 DEF Repeated, Names
    <3>4. QED
      BY <1>2, <3>3
  <2>3. QED
    BY <2>2 DEF Distinct
<1>4. ASSUME c # "fees" PROVE NoRepeat(Program[c])
  <2>1. CASE c = "network"
    BY <1>1, <2>1 DEF Program, NoRepeat
  <2>2. CASE c = "peers"
    BY <1>1, <2>2 DEF Program, NoRepeat
  <2>3. CASE c \notin {"network", "peers"}
    BY <1>4, <2>3 DEF Program, NoRepeat, Collector
  <2>4. QED
    BY <2>1, <2>2, <2>3
<1>5. QED
  BY <1>3, <1>4, NothingRepeated DEF Distinct

LEMMA MiningDistinct ==
  ASSUME NEW calls, NEW sent, NEW bad, MiningUnderway(calls, sent, bad), calls # << >>,
         Distinct(calls, sent), NEW ans
  PROVE  /\ Clashes(Samples(Head(calls), ans), sent) => Head(calls).arg \in Repeats
         /\ Distinct(CallsAfter(calls, ans), SentAfter(calls, sent, ans))
<1> USE DEF CallsAfter, SentAfter
<1> DEFINE call == Head(calls)
           more == Samples(call, ans)
           info == Call("getmininginfo", None)
<1>0. /\ Known(info) /\ Known(BlockCall)
      /\ info.method = "getmininginfo" /\ BlockCall.method = "getblockstats"
  BY DEF Known, BlockCall, PlainMethod, Call
<1>1. CASE calls = Program["mining"] /\ sent = {}
  <2>1. calls = << info >> /\ call = info /\ Tail(calls) = << >>
    BY <1>1 DEF Program
  <2>2. CASE Follow(call, ans) = << >>
    <3>1. CallsAfter(calls, ans) = << >>
      BY <2>1, <2>2
    <3>2. QED
      BY <1>1, <3>1, NothingLeft
  <2>3. CASE Follow(call, ans) # << >>
    <3>1. Follow(call, ans) = << BlockCall >> /\ "blocks" \in ans.data
      BY <1>0, <2>1, <2>3 DEF Follow, BlockCall
    <3>2. CallsAfter(calls, ans) = << BlockCall >>
      BY <2>1, <3>1
    <3>3. \A x \in more : Origin(x) = info
      BY <1>0, <2>1, <3>1, SampleOrigin DEF NoBlockSample
    <3>4. \A x \in more : Origin(x) # BlockCall
      BY <1>0, <3>3
    <3> HIDE DEF more
    <3>5. Distinct(<< BlockCall >>, more)
      BY <3>4 DEF Distinct, Repeated, Names
    <3>6. QED
      BY <1>1, <3>2, <3>5 DEF Clashes, more
  <2>4. QED
    BY <2>2, <2>3
<1>2. CASE ~ (calls = Program["mining"] /\ sent = {})
  <2>1. calls \in Seq({BlockCall})
    BY <1>2 DEF MiningUnderway
  <2>2. call = BlockCall /\ Tail(calls) \in Seq({BlockCall})
    BY <2>1, HeadAndTail
  <2>3. Follow(call, ans) = << >>
    BY <1>0, <2>2 DEF Follow
  <2>4. CallsAfter(calls, ans) = Tail(calls)
    BY <2>2, <2>3
  <2>5. QED
    BY <1>0, <2>1, <2>2, <2>4, DistinctTail
<1>3. QED
  BY <1>1, <1>2

LEMMA WalletDistinct ==
  ASSUME OnlyWallets \in Seq(Names(OnlyWallets)), IsFiniteSet(NodeWallets),
         NEW loaded, NEW calls, NEW sent, NEW bad, WalletUnderway(loaded, calls, sent, bad),
         calls # << >>, Distinct(calls, sent), NEW ans, MayAnswer(Head(calls), ans)
  PROVE  /\ Clashes(Samples(Head(calls), ans), sent) => Head(calls).arg \in Repeats
         /\ Distinct(CallsAfter(calls, ans), SentAfter(calls, sent, ans))
<1> USE DEF CallsAfter, SentAfter
<1> DEFINE call == Head(calls)
           more == Samples(call, ans)
<1>1. CASE calls = Program["wallet"] /\ loaded = << >> /\ sent = {}
  <2>1. call = Call("listwallets", None) /\ Tail(calls) = << >> /\ call.method = "listwallets"
    BY <1>1 DEF Program, Call
  <2>2. \A x \in more : Origin(x) = call
    <3>1. Known(call)
      BY <2>1 DEF Known, PlainMethod
    <3>2. QED
      BY <2>1, <3>1, SampleOrigin DEF NoBlockSample
  <2>3. CASE ans.err # NoError
    <3>1. Follow(call, ans) = << >>
      BY <2>1, <2>3 DEF Follow
    <3>2. CallsAfter(calls, ans) = << >>
      BY <2>1, <3>1
    <3>3. QED
      BY <1>1, <3>2, NothingLeft
  <2>4. CASE ans.err = NoError
    <3> DEFINE v == Selected(ans.data)
               w == WalletCalls(v)
    <3>1. v \in Seq(Names(v)) /\ Repeated(v) \subseteq Repeats
      <4>1. ans.data \in LoadedLists
        BY <2>1, <2>4 DEF MayAnswer
      <4>2. PICK S : ans.data \in Seq(S) /\ NoRepeat(ans.data)
        BY <4>1, LoadedListFacts
      <4>3. v \in Seq(Names(ans.data)) /\ Repeated(v) \subseteq Repeated(OnlyWallets)
        BY <4>2, SelectedFacts
      <4>4. QED
        BY <4>3, OwnNames DEF Repeats
    <3>2. /\ w \in Seq(WalletCall(Names(v))) /\ Names(w) = WalletCall(Names(v))
          /\ \A k \in Repeated(w) : k.arg \in Repeats
      BY <3>1, WalletCallsFacts
    <3>3. Follow(call, ans) = w
      BY <2>1, <2>4 DEF Follow
    <3> HIDE DEF w
    <3>4. CallsAfter(calls, ans) = w
      <4>1. w \o << >> = w
        BY <3>2
      <4>2. QED
        BY <2>1, <3>3, <4>1
    <3>5. call \notin Names(w)
      BY <2>1, <3>2 DEF WalletCall, WalletMethod, Call
    <3> HIDE DEF more
    <3>6. Distinct(w, more)
      BY <2>2, <3>2, <3>5 DEF Distinct
    <3>7. QED
      BY <1>1, <3>4, <3>6 DEF Clashes, more
  <2>5. QED
    BY <2>3, <2>4
<1>2. CASE ~ (calls = Program["wallet"] /\ loaded = << >> /\ sent = {})
  <2>1. VisitUnderway(Names(Selected(loaded)), Len(loaded), calls, sent, bad)
    BY <1>2 DEF WalletUnderway, NoWalletsUnderway
  <2> DEFINE W == WalletCall(Names(Selected(loaded)))
  <2>2. calls \in Seq(W)
    BY <2>1 DEF VisitUnderway
  <2>3. call \in W /\ Tail(calls) \in Seq(W)
    BY <2>2, HeadAndTail
  <2>4. Known(call) /\ call.method \in WalletMethod
    BY <2>3 DEF WalletCall, Known, Call
  <2>5. Follow(call, ans) = << >> /\ call.method # "getmininginfo"
    BY <2>4 DEF Follow, WalletMethod
  <2>6. CallsAfter(calls, ans) = Tail(calls)
    BY <2>3, <2>5
  <2>7. QED
    BY <2>2, <2>4, <2>5, <2>6, DistinctTail
<1>3. QED
  BY <1>1, <1>2

LEMMA DistinctStep ==
  ASSUME NEW c \in Collector, NEW loaded, NEW calls, NEW sent, NEW bad,
         Underway(c, loaded, calls, sent, bad), calls # << >>, Distinct(calls, sent),
         NEW ans, MayAnswer(Head(calls), ans)
  PROVE  /\ Clashes(Samples(Head(calls), ans), sent) => Head(calls).arg \in Repeats
         /\ Distinct(CallsAfter(calls, ans), SentAfter(calls, sent, ans))
<1>1. CASE c = "mining"
  BY <1>1, MiningDistinct DEF Underway
<1>2. CASE c = "wallet"
  BY <1>2, WalletDistinct, ConfigAssumption DEF Underway
<1>3. CASE c \in Fixed
  <2> DEFINE call == Head(calls)
             X == Names(Program[c])
  <2>1. calls \in Seq(X)
    BY <1>3 DEF Underway, FixedUnderway, Fixed
  <2>2. call \in X /\ Tail(calls) \in Seq(X)
    BY <2>1, HeadAndTail
  <2>3. Known(call) /\ call.method \notin {"getmininginfo", "listwallets"}
    BY <1>3, <2>2, ProgramCalls
  <2>4. Follow(call, ans) = << >>
    BY <2>3 DEF Follow
  <2>5. CallsAfter(calls, ans) = Tail(calls)
    BY <2>2, <2>4 DEF CallsAfter
  <2>6. QED
    BY <2>1, <2>3, <2>5, DistinctTail DEF SentAfter
<1>4. QED
  BY <1>1, <1>2, <1>3 DEF Collector, Fixed
=============================================================================
