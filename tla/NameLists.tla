------------------------------ MODULE NameLists ------------------------------
(* Lists of names without state: what the wallet collector and bitcoind do *)
(* with them.                                                              *)
EXTENDS Naturals, Sequences, FiniteSets

Names(s) == { s[i] : i \in DOMAIN s }

NoRepeat(s) == \A i, j \in DOMAIN s : s[i] = s[j] => i = j

\* The names that s repeats.
Repeated(s) == { n \in Names(s) : \E i, j \in DOMAIN s : i # j /\ s[i] = n /\ s[j] = n }

\* The loop over c.only in walletCollector.Update: the names asked for that
\* are there, in the order they were asked for.
Kept(asked, there) ==
    LET kept[n \in 0 .. Len(asked)] ==
            IF n = 0 THEN << >>
            ELSE IF asked[n] \in there THEN Append(kept[n - 1], asked[n])
                                       ELSE kept[n - 1]
    IN  kept[Len(asked)]

\* Finite set S as bitcoind lists it: everything once, in any order (wallets
\* are listed in the order they were loaded).
Listings(S) == { l \in [1 .. Cardinality(S) -> S] : Names(l) = S }
=============================================================================
