----------------------------- MODULE RpcClient -----------------------------
(***************************************************************************)
(* Client.do of internal/rpc/client.go: one call of the node, from its     *)
(* credentials to the struct it fills, while the node stops, starts and    *)
(* changes its cookie.                                                     *)
(*                                                                         *)
(* The Authenticator is the abstract one that CookieAuth implements.  The  *)
(* node, the network and net/http are external, taken from what the code   *)
(* provides for: a connection can be refused, lost with the request or in  *)
(* the middle of the answer, an answer can be anything from a result to a  *)
(* text that is no JSON, and it can be late without end.                   *)
(***************************************************************************)
EXTENDS Fields, CookieFile

CONSTANT Caller   \* goroutines that make calls

VARIABLES
    node,       \* "down", "starting" or "up"
    secret,     \* the start of the node that is running, or ran last
    file,       \* what the cookie file holds
    asked,      \* the callers inside Credentials
    may,        \* caller -> what the file has held since it asked
    result,     \* caller -> the credentials it got
    pc,         \* caller -> where it is in do
    request,    \* caller -> the method, and whether it wants the result
    lost,       \* the callers whose connection the node has dropped
    reply,      \* caller -> the answer it is reading
    did,        \* caller -> what the node did with its request
    steady,     \* the callers for whose whole call the node has been up
    outcome,    \* caller -> what do returned
    published   \* caller -> the gauges published from it

credentials == << file, asked, may, result >>
server == << node, secret >>
call   == << pc, request, lost, reply, did, steady, outcome, published >>
vars   == << credentials, server, call >>

-----------------------------------------------------------------------------
Whole(start) == Cookie(start, "whole")

Auth == INSTANCE Authenticator WITH Nothing <- Empty

\* The probe wants no result, the collectors do.
Probe == [method |-> "uptime", wants |-> FALSE]
Requests == {Probe} \cup [method : Method, wants : {TRUE}]

NoReply   == [status |-> 0, body |-> "none", payload |-> << >>]

Results(q) ==
    [ status : {200}, body : {"result"},
      payload : IF q.wants THEN Payloads[q.method] ELSE { << >> } ]

\* bitcoind puts its errors into 500 and 404.
Errors == [status : {500, 404}, body : {"error"}, payload : { << >> }]

\* Its HTTP server refuses an address (403) or an overload (503) in plain
\* text; a proxy may answer with JSON of its own, which may have a member
\* called error, but not one called result; a result beyond 64 MiB is read as
\* far as that and is no JSON any more.
Strays ==
    [status : {200, 403, 503}, body : {"no_json", "other_json", "error"}, payload : { << >> }]

Unauthorized == [status |-> 401, body |-> "no_json", payload |-> << >>]

Ready == node = "up" /\ file = Whole(secret)

Init ==
    /\ node = "down"
    /\ secret = 0
    /\ file = Empty
    /\ asked = {}
    /\ may = [c \in Caller |-> {}]
    /\ result = [c \in Caller |-> Empty]
    /\ pc = [c \in Caller |-> "idle"]
    /\ request = [c \in Caller |-> Probe]
    /\ lost = {}
    /\ reply = [c \in Caller |-> NoReply]
    /\ did = [c \in Caller |-> "nothing"]
    /\ steady = {}
    /\ outcome = [c \in Caller |-> "none"]
    /\ published = [c \in Caller |-> {}]

-----------------------------------------------------------------------------
(* The node.                                                               *)

Start ==
    /\ node = "down"
    /\ secret < MaxStarts
    /\ node' = "starting"
    /\ secret' = secret + 1
    /\ Auth!Rewrite(Cookie(secret + 1, "no_colon"))
    /\ UNCHANGED call

WriteCookie ==
    /\ node = "starting"
    /\ file.form = "no_colon"
    /\ Auth!Rewrite(Cookie(secret, "cut"))
    /\ UNCHANGED << server, call >>

\* The cookie is there before the first request is served.
Serve ==
    /\ node = "starting"
    /\ node' = "up"
    /\ Auth!Rewrite(Whole(secret))
    /\ UNCHANGED << secret, call >>

\* It takes its cookie with it, unless it crashed.
Stop ==
    /\ node \in {"starting", "up"}
    /\ node' = "down"
    /\ Auth!Rewrite(Empty) \/ UNCHANGED credentials
    /\ lost' = { c \in Caller : pc[c] \in {"sent", "read"} }
    /\ steady' = {}
    /\ UNCHANGED << secret, pc, request, reply, did, outcome, published >>

\* What the node has done when it gives this answer.
Done(r) ==
    IF r.body = "result" THEN "executed"
    ELSE IF r \in Errors THEN "refused" ELSE "not_served"

Answer(c) ==
    /\ pc[c] = "sent"
    /\ c \notin lost
    /\ \E r \in IF result[c] = Whole(secret)
                THEN Results(request[c]) \cup Errors \cup Strays
                ELSE {Unauthorized} :
        /\ reply' = [reply EXCEPT ![c] = r]
        /\ did' = [did EXCEPT ![c] = Done(r)]
    /\ pc' = [pc EXCEPT ![c] = "read"]
    /\ UNCHANGED << credentials, server, request, lost, steady, outcome, published >>

-----------------------------------------------------------------------------
(* The client.                                                             *)

NewCall(c) ==
    /\ pc[c] = "idle"
    /\ \E q \in Requests : request' = [request EXCEPT ![c] = q]
    /\ did' = [did EXCEPT ![c] = "nothing"]
    /\ reply' = [reply EXCEPT ![c] = NoReply]
    /\ published' = [published EXCEPT ![c] = {}]
    /\ lost' = lost \ {c}
    /\ steady' = IF Ready THEN steady \cup {c} ELSE steady \ {c}
    /\ UNCHANGED << server, outcome >>

\* Bug: credentials once obtained are kept for the calls to come.
BeginCached(c) ==
    /\ NewCall(c)
    /\ \/ /\ result[c] = Empty
          /\ pc' = [pc EXCEPT ![c] = "credentials"]
          /\ Auth!Ask(c)
       \/ /\ result[c] # Empty
          /\ pc' = [pc EXCEPT ![c] = "send"]
          /\ UNCHANGED credentials

\* The URL and the request are built; neither fails for what the exporter asks.
Begin(c) ==
    /\ NewCall(c)
    /\ pc' = [pc EXCEPT ![c] = "credentials"]
    /\ Auth!Ask(c)

\* do returns, and call tells the observer.
Return(c, err) ==
    /\ pc' = [pc EXCEPT ![c] = "idle"]
    /\ outcome' = [outcome EXCEPT ![c] = err]

\* do returns without having read an answer to its end.
Fail(c, err) ==
    /\ Return(c, err)
    /\ reply' = [reply EXCEPT ![c] = NoReply]

Granted(c) ==
    /\ pc[c] = "credentials"
    /\ Auth!Grant(c)
    /\ pc' = [pc EXCEPT ![c] = "send"]
    /\ UNCHANGED << server, request, lost, reply, did, steady, outcome, published >>

\* Bug: an error of Credentials is overlooked.
DeniedOverlooked(c) ==
    /\ pc[c] = "credentials"
    /\ Auth!Deny(c)
    /\ pc' = [pc EXCEPT ![c] = "send"]
    /\ UNCHANGED << server, request, lost, reply, did, steady, outcome, published >>

Denied(c) ==
    /\ pc[c] = "credentials"
    /\ Auth!Deny(c)
    /\ Return(c, "no_credentials")
    /\ UNCHANGED << server, request, lost, reply, did, steady, published >>

Send(c) ==
    /\ pc[c] = "send"
    /\ node = "up"
    /\ pc' = [pc EXCEPT ![c] = "sent"]
    /\ UNCHANGED << credentials, server, request, lost, reply, did, steady, outcome, published >>

\* Refused, or sent on an idle connection the node has closed meanwhile.
NotSent(c) ==
    /\ pc[c] = "send"
    /\ Fail(c, "transport")
    /\ UNCHANGED << credentials, server, request, lost, did, steady, published >>

ConnectionLost(c) ==
    /\ pc[c] \in {"sent", "read"}
    /\ c \in lost
    /\ Fail(c, "transport")
    /\ UNCHANGED << credentials, server, request, lost, did, steady, published >>

\* Bug: the timeout ends with the header of the answer.
TimeOutOfHeader(c) ==
    /\ pc[c] \in {"send", "sent"}
    /\ Fail(c, "transport")
    /\ UNCHANGED << credentials, server, request, lost, did, steady, published >>

\* The client's timeout or the context's deadline; both cover the body.
TimeOut(c) ==
    /\ pc[c] \in {"send", "sent", "read"}
    /\ Fail(c, "transport")
    /\ UNCHANGED << credentials, server, request, lost, did, steady, published >>

Decoding(q, r) ==
    IF ~ q.wants \/ (r.body = "result" /\ Decodes(r.payload)) THEN "ok" ELSE "decode"

\* Bug: every status but 200 is an error of its own.
OutcomeByStatus(q, r) ==
    IF r.status = 401 THEN "unauthorized"
    ELSE IF r.status # 200 THEN "status"
    ELSE IF r.body = "no_json" THEN "no_json"
    ELSE IF r.body = "error" THEN "rpc_error"
    ELSE Decoding(q, r)

\* What do makes of an answer it has read, in the order of its checks.
Outcome(q, r) ==
    IF r.status = 401 THEN "unauthorized"
    ELSE IF r.body = "no_json" THEN "no_json"
    ELSE IF r.body = "error" THEN "rpc_error"
    ELSE IF r.status # 200 THEN "status"
    ELSE Decoding(q, r)

\* The body has arrived; the collector publishes what do has decoded.
Receive(c) ==
    /\ pc[c] = "read"
    /\ LET q == request[c]
           r == reply[c]
       IN  /\ Return(c, Outcome(q, r))
           /\ published' = [published EXCEPT ![c] =
                IF q.wants /\ Outcome(q, r) = "ok"
                THEN Published(q.method, Decode(q.method, r.payload)) ELSE {}]
    /\ UNCHANGED << credentials, server, request, lost, reply, did, steady >>

Call(c) ==
    \/ Begin(c) \/ Granted(c) \/ Denied(c) \/ Send(c) \/ NotSent(c)
    \/ ConnectionLost(c) \/ TimeOut(c) \/ Receive(c)

Next ==
    \/ Start \/ WriteCookie \/ Serve \/ Stop
    \/ \E c \in Caller : Answer(c) \/ Call(c)

\* Credentials returns, and the timers run out.  The node owes nothing.
Fairness == \A c \in Caller : WF_vars(Granted(c) \/ Denied(c)) /\ WF_vars(TimeOut(c))

Spec == Init /\ [][Next]_vars /\ Fairness

-----------------------------------------------------------------------------
(* Properties.                                                             *)

Places   == {"idle", "credentials", "send", "sent", "read"}
Outcomes == {"none", "ok", "no_credentials", "transport", "unauthorized", "no_json",
             "rpc_error", "status", "decode"}
Statuses == {0, 200, 401, 403, 404, 500, 503}
Bodies   == {"none", "result", "error", "no_json", "other_json"}

\* No request carries less than a user and a password.
TypeOK ==
    /\ node \in {"down", "starting", "up"}
    /\ secret \in 0 .. MaxStarts
    /\ file \in Content
    /\ asked \subseteq Caller
    /\ may \in [Caller -> SUBSET Content]
    /\ result \in [Caller -> Usable \cup {Empty}]
    /\ pc \in [Caller -> Places]
    /\ \A c \in Caller : pc[c] \in {"send", "sent", "read"} => result[c] # Empty
    /\ request \in [Caller -> Requests]
    /\ lost \subseteq Caller
    /\ DOMAIN reply = Caller
    /\ \A c \in Caller :
        /\ reply[c].status \in Statuses /\ reply[c].body \in Bodies
        /\ reply[c].body = "result" /\ request[c].wants =>
              reply[c].payload \in Payloads[request[c].method]
    /\ did \in [Caller -> {"nothing", "executed", "refused", "not_served"}]
    /\ steady \subseteq Caller
    /\ outcome \in [Caller -> Outcomes]
    /\ DOMAIN published = Caller

Returned(c) == pc[c] = "idle"

\* An answer is what the node did with this very call: a collector's success
\* means the node executed it, a JSON-RPC error that the node refused it or
\* that a proxy gave such an error in its place, and a refusal is never taken
\* for anything else but a lost connection.
OutcomeIsTheNodes ==
    \A c \in Caller :
        Returned(c) =>
            /\ outcome[c] = "ok" /\ request[c].wants => did[c] = "executed"
            /\ outcome[c] = "rpc_error" => did[c] = "refused" \/ reply[c] \in Strays
            /\ did[c] = "refused" => outcome[c] \in {"rpc_error", "transport"}

\* While the node stays up with its cookie written, no call is refused for its
\* credentials, however often the node was restarted before.
SteadyNodeAuthorizes ==
    \A c \in Caller :
        Returned(c) /\ c \in steady => outcome[c] \notin {"no_credentials", "unauthorized"}

\* An executed call is lost in decoding only for a field of the wrong type;
\* and what is published of an optional field, of warnings and of scanning is
\* what the node said, in whatever shape its release says it.
Says(sent) == CASE sent \in Unsent -> "nothing"
                [] sent \in {"zero", "no_text", "no_items", "false"} -> "zero"
                [] OTHER -> "value"

PublishedAsSaid ==
    \A c \in Caller :
        Returned(c) =>
            LET p == reply[c].payload
                shown(f) == { g.value : g \in { h \in published[c] : h.name = f } }
            IN  /\ did[c] = "executed" /\ outcome[c] = "decode" =>
                    \E f \in DOMAIN p : p[f] = "wrong"
                /\ published[c] # {} => \A f \in DOMAIN p :
                    /\ f \in Struct[request[c].method].optional =>
                            shown(f) = {Says(p[f])} \ {"nothing"}
                    /\ f \in {"warnings", "scanning"} =>
                            shown(f) = {IF Says(p[f]) = "value" THEN "value" ELSE "zero"}

\* README.md:8-10: "Missing or version-specific RPC fields are omitted rather
\* than reported as zero, so a metric that is present is a metric the node
\* actually answered."
PresentMeansAnswered ==
    \A c \in Caller : \A g \in published[c] : \A f \in g.from :
        reply[c].payload[f] \notin Unsent

\* Every call returns, though the node may never answer it.
CallReturns == \A c \in Caller : pc[c] # "idle" ~> pc[c] = "idle"
=============================================================================
