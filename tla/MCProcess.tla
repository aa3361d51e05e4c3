----------------------------- MODULE MCProcess -----------------------------
(* Instances of Process for TLC.                                           *)
EXTENDS Process

CONSTANTS r1, r2   \* requests

MCKnown    == {"chain", "fees", "wallet"}
MCDefaults == {"chain", "fees"}

\* Nothing wrong and nothing asked for; the cookie is probed for.
Plain ==
    [ parse |-> "ok", version |-> FALSE, log |-> "ok", set |-> "default", names |-> << >>,
      enable |-> << >>, disable |-> << >>, targets |-> "ok", mode |-> "ok",
      auth |-> "probe", url |-> "ok", path |-> "ok" ]

\* Lists of up to two names: a default collector, another one, and no collector.
Lists ==
    UNION { [1 .. n -> {"chain", "wallet", "bogus"}] : n \in 0 .. 2 }

\* Every combination of the three collector flags.
CollectorFlags ==
    { [Plain EXCEPT !.set = set, !.enable = on, !.disable = off, !.auth = "path"] :
        set \in {"default", "all", "none"}, on \in Lists, off \in Lists }
    \cup
    { [Plain EXCEPT !.set = "list", !.names = names, !.enable = on, !.disable = off, !.auth = "path"] :
        names \in Lists, on \in Lists, off \in Lists }

\* Every combination of what can be wrong with the other flags.
OtherFlags ==
    { [Plain EXCEPT !.version = v, !.log = l, !.targets = t, !.mode = m,
                    !.auth = a, !.url = u, !.path = p] :
        v \in BOOLEAN, l \in {"ok", "typo"}, t \in {"ok", "no_number", "out_of_range"},
        m \in {"ok", "typo"}, a \in {"pair", "half", "path", "probe"},
        u \in {"ok", "typo"}, p \in {"ok", "taken"} }

\* What flag.Parse does not let through.
Unparsed ==
    { [Plain EXCEPT !.parse = p, !.version = v] : p \in {"help", "malformed"}, v \in BOOLEAN }

AllFlags == CollectorFlags \cup OtherFlags \cup Unparsed
=============================================================================
