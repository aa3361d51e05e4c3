--------------------------- MODULE Authenticator ---------------------------
(***************************************************************************)
(* What the RPC client relies on when it asks its Authenticator for        *)
(* credentials (the interface of internal/rpc/auth.go), while the node     *)
(* rewrites the file they come from: a call ends with something usable     *)
(* that the file held while the call lasted, or, if the file held          *)
(* something of no use in that time, with an error.  There is no cache, no *)
(* lock and no clock here; CookieAuth has those and implements this.       *)
(***************************************************************************)
CONSTANTS
    Caller,    \* who asks
    Content,   \* what the file may hold
    Usable,    \* the part of it that has a user and a password
    Nothing    \* no credentials

VARIABLES
    file,      \* what the file holds
    asked,     \* the callers whose call is in progress
    may,       \* caller -> what the file has held since its last call began
    result     \* caller -> what its last call returned

auth == << file, asked, may, result >>

Init ==
    /\ file \in Content
    /\ asked = {}
    /\ may = [c \in Caller |-> {}]
    /\ result = [c \in Caller |-> Nothing]

\* The node writes or removes the file.
Rewrite(content) ==
    /\ file' = content
    /\ may' = [c \in Caller |-> IF c \in asked THEN may[c] \cup {content} ELSE may[c]]
    /\ UNCHANGED << asked, result >>

Ask(c) ==
    /\ c \notin asked
    /\ asked' = asked \cup {c}
    /\ may' = [may EXCEPT ![c] = {file}]
    /\ result' = [result EXCEPT ![c] = Nothing]
    /\ UNCHANGED file

Grant(c) ==
    /\ c \in asked
    /\ asked' = asked \ {c}
    /\ \E credentials \in may[c] \cap Usable :
        result' = [result EXCEPT ![c] = credentials]
    /\ UNCHANGED << file, may >>

\* Only if there was a moment with nothing of use in the file.
Deny(c) ==
    /\ c \in asked
    /\ ~ (may[c] \subseteq Usable)
    /\ asked' = asked \ {c}
    /\ result' = [result EXCEPT ![c] = Nothing]
    /\ UNCHANGED << file, may >>

Next ==
    \/ \E content \in Content : Rewrite(content)
    \/ \E c \in Caller : Ask(c) \/ Grant(c) \/ Deny(c)

SafeSpec == Init /\ [][Next]_auth
=============================================================================
