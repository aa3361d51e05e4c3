------------------------------ MODULE Process ------------------------------
(***************************************************************************)
(* The life of the exporter's process: run of cmd/bitcoin-exporter/main.go *)
(* from the flags to the exit code.                                        *)
(*                                                                         *)
(* Package flag parses the command line and ends the process itself if it  *)
(* is asked for help or cannot read a flag.  Then run checks what the      *)
(* flags hold, one after the other, and the first that is wrong ends the   *)
(* process; resolveCollectors is taken turn by turn.  At last the server   *)
(* runs in a goroutine of its own, while run waits for it to fail or for a *)
(* signal and, on a signal, gives the requests in progress five seconds.   *)
(* When a scrape ends is not up to this module: it may take longer.        *)
(***************************************************************************)
EXTENDS Naturals, Sequences

CONSTANTS
    Known,      \* collector.Registered()
    Defaults,   \* those of them that are on unless told otherwise
    Options,    \* the command lines the process may be started with
    Request     \* the requests that may arrive

\* A command line: what each flag holds, as far as it is told apart.
Flags ==
    [ parse   : {"ok", "help", "malformed"},         \* what flag.Parse makes of it
      version : BOOLEAN,
      log     : {"ok", "typo"},
      set     : {"default", "all", "none", "list"},  \* -collectors
      names   : Seq(STRING),                         \* the list it gives
      enable  : Seq(STRING),
      disable : Seq(STRING),
      targets : {"ok", "no_number", "out_of_range"},
      mode    : {"ok", "typo"},
      auth    : {"pair", "half", "path", "probe"},   \* user and password, or where the cookie is
      url     : {"ok", "typo"},
      path    : {"ok", "taken"} ]                    \* -web.telemetry-path

ASSUME ProcessAssumption ==
    /\ Options \subseteq Flags
    /\ Known \subseteq STRING
    /\ Defaults \subseteq Known

VARIABLES
    cfg,        \* the command line
    cookie,     \* the node has left a cookie where ResolveAuth probes
    pc,         \* where run is
    rest,       \* the names of the list that resolveCollectors is going through
    active,     \* the collectors it has switched on
    srv,        \* the goroutine of ListenAndServe
    errCh,      \* what the channel from it holds
    signalled,  \* SIGINT or SIGTERM has arrived
    request,    \* request -> what has become of it
    reason,     \* why run returned
    code        \* the exit code

startup == << rest, active >>
server  == << srv, errCh, request >>
ending  == << reason, code >>
vars    == << cfg, cookie, pc, signalled, startup, server, ending >>

-----------------------------------------------------------------------------
Checks  == {"parse", "flags", "log", "base", "names", "enable", "disable", "count", "targets",
            "mode", "auth", "client", "exporter", "mux"}
Waiting == {"select", "shutdown"}
Reasons == {"none", "help", "usage", "version", "log", "collectors", "no_collector", "targets", "mode", "half", "no_cookie",
            "url", "range", "panic", "killed", "serve", "stopped", "too_slow"}

Names(list) == { list[i] : i \in DOMAIN list }

Init ==
    /\ cfg \in Options
    /\ cookie \in BOOLEAN
    /\ pc = "parse"
    /\ rest = << >>
    /\ active = {}
    /\ srv = "off"
    /\ errCh = "empty"
    /\ signalled = FALSE
    /\ request = [r \in Request |-> "new"]
    /\ reason = "none"
    /\ code = 0

\* run returns and the process ends, whatever the server is doing.
Exit(why, status) ==
    /\ pc' = "exited"
    /\ reason' = why
    /\ code' = status
    /\ request' = [r \in Request |-> IF request[r] = "running" THEN "cut" ELSE request[r]]
    /\ UNCHANGED << cfg, cookie, signalled, startup, srv, errCh >>

\* A check that finds nothing wrong and changes nothing else.
Pass(from, to) ==
    /\ pc = from
    /\ pc' = to
    /\ UNCHANGED << cfg, cookie, signalled, startup, server, ending >>

Refuse(from, why) == pc = from /\ Exit(why, 1)

-----------------------------------------------------------------------------
(* resolveCollectors, and what comes before it.                            *)

\* flag.Parse: the usage is printed on request, with status 0, and with
\* status 2 after a flag that is unknown or whose value cannot be read.
ParseFlags ==
    \/ cfg.parse = "ok" /\ Pass("parse", "flags")
    \/ cfg.parse = "help" /\ pc = "parse" /\ Exit("help", 0)
    \/ cfg.parse = "malformed" /\ pc = "parse" /\ Exit("usage", 2)

CheckVersion ==
    \/ ~ cfg.version /\ Pass("flags", "log")
    \/ cfg.version /\ pc = "flags" /\ Exit("version", 0)

CheckLog ==
    \/ cfg.log = "ok" /\ Pass("log", "base")
    \/ cfg.log = "typo" /\ Refuse("log", "log")

\* The switch over -collectors; a list is still to be gone through.
BaseSet ==
    /\ pc = "base"
    /\ pc' = IF cfg.set = "list" THEN "names" ELSE "enable"
    /\ rest' = IF cfg.set = "list" THEN cfg.names ELSE cfg.enable
    /\ active' = IF cfg.set = "all" THEN Known
                 ELSE IF cfg.set = "default" THEN Defaults ELSE {}
    /\ UNCHANGED << cfg, cookie, signalled, server, ending >>

\* Bug: the name is not looked up.
TurnUnchecked(loop, on) ==
    /\ pc = loop
    /\ rest # << >>
    /\ rest' = Tail(rest)
    /\ active' = IF on THEN active \cup {Head(rest)} ELSE active \ {Head(rest)}
    /\ UNCHANGED << cfg, cookie, pc, signalled, server, ending >>

\* One turn of a loop over a list: its name goes on, or off.
Turn(loop, on) ==
    /\ pc = loop
    /\ rest # << >>
    /\ \/ /\ Head(rest) \in Known
          /\ rest' = Tail(rest)
          /\ active' = IF on THEN active \cup {Head(rest)} ELSE active \ {Head(rest)}
          /\ UNCHANGED << cfg, cookie, pc, signalled, server, ending >>
       \/ /\ Head(rest) \notin Known
          /\ Exit("collectors", 1)

\* The loop is over; the next one has its own list.
LoopEnds(loop, next, list) ==
    /\ pc = loop
    /\ rest = << >>
    /\ pc' = next
    /\ rest' = list
    /\ UNCHANGED << cfg, cookie, signalled, active, server, ending >>

\* Bug: a name that is disabled as well as enabled stays.
ResolveEnabled ==
    \/ BaseSet
    \/ Turn("names", TRUE)  \/ LoopEnds("names", "enable", cfg.enable)
    \/ Turn("enable", TRUE) \/ LoopEnds("enable", "disable", cfg.disable)
    \/ /\ rest # << >>
       /\ Turn("disable", Head(rest) \in Names(cfg.enable))
    \/ LoopEnds("disable", "count", << >>)
    \/ active # {} /\ Pass("count", "targets")
    \/ active = {} /\ Refuse("count", "no_collector")

ResolveCollectors ==
    \/ BaseSet
    \/ Turn("names", TRUE)   \/ LoopEnds("names", "enable", cfg.enable)
    \/ Turn("enable", TRUE)  \/ LoopEnds("enable", "disable", cfg.disable)
    \/ Turn("disable", FALSE) \/ LoopEnds("disable", "count", << >>)
    \/ active # {} /\ Pass("count", "targets")
    \/ active = {} /\ Refuse("count", "no_collector")

-----------------------------------------------------------------------------
(* The other checks, in their order.                                       *)

ParseTargets ==
    \/ cfg.targets # "no_number" /\ Pass("targets", "mode")
    \/ cfg.targets = "no_number" /\ Refuse("targets", "targets")

CheckMode ==
    \/ cfg.mode = "ok" /\ Pass("mode", "auth")
    \/ cfg.mode = "typo" /\ Refuse("mode", "mode")

\* An explicit cookie path is taken whether the file is there or not.
ResolveAuth ==
    \/ cfg.auth = "half" /\ Refuse("auth", "half")
    \/ cfg.auth \in {"pair", "path"} /\ Pass("auth", "client")
    \/ cfg.auth = "probe" /\ cookie /\ Pass("auth", "client")
    \/ cfg.auth = "probe" /\ ~ cookie /\ Refuse("auth", "no_cookie")

NewClient ==
    \/ cfg.url = "ok" /\ Pass("client", "exporter")
    \/ cfg.url = "typo" /\ Refuse("client", "url")

\* The fees factory is the first to look at the range of the targets.
OutOfRange == cfg.targets = "out_of_range" /\ "fees" \in active

NewExporter ==
    \/ ~ OutOfRange /\ Pass("exporter", "mux")
    \/ OutOfRange /\ Refuse("exporter", "range")

\* The mux panics when a path is registered twice; otherwise signals are
\* diverted and the server's goroutine is started.
StartServer ==
    \/ /\ pc = "mux"
       /\ cfg.path = "ok"
       /\ pc' = "select"
       /\ srv' = "starting"
       /\ UNCHANGED << cfg, cookie, signalled, startup, errCh, request, ending >>
    \/ /\ pc = "mux"
       /\ cfg.path = "taken"
       /\ Exit("panic", 2)

-----------------------------------------------------------------------------
(* The server, and the signal.                                             *)

Alive == pc # "exited"

Listen ==
    /\ Alive
    /\ srv = "starting"
    /\ srv' = "serving"
    /\ UNCHANGED << cfg, cookie, pc, signalled, startup, errCh, request, ending >>

\* The address is taken, or Accept fails later on.
ServeFails ==
    /\ Alive
    /\ srv \in {"starting", "serving"}
    /\ srv' = "closed"
    /\ errCh' = "error"
    /\ UNCHANGED << cfg, cookie, pc, signalled, startup, request, ending >>

\* ListenAndServe returns ErrServerClosed at once when Shutdown has begun.
ServerClosed ==
    /\ Alive
    /\ srv = "closing"
    /\ srv' = "closed"
    /\ errCh' = "closed"
    /\ UNCHANGED << cfg, cookie, pc, signalled, startup, request, ending >>

Arrive(r) ==
    /\ Alive
    /\ srv = "serving"
    /\ request[r] = "new"
    /\ request' = [request EXCEPT ![r] = "running"]
    /\ UNCHANGED << cfg, cookie, pc, signalled, startup, srv, errCh, ending >>

Answer(r) ==
    /\ Alive
    /\ request[r] = "running"
    /\ request' = [request EXCEPT ![r] = "served"]
    /\ UNCHANGED << cfg, cookie, pc, signalled, startup, srv, errCh, ending >>

\* Until NotifyContext diverts it, a signal kills the process.
Signal ==
    \/ /\ pc \in Checks
       /\ Exit("killed", 2)
    \/ /\ pc \in Waiting
       /\ ~ signalled
       /\ signalled' = TRUE
       /\ UNCHANGED << cfg, cookie, pc, startup, server, ending >>

\* The two cases of the select; when both are ready Go takes either.
SelectError ==
    /\ pc = "select"
    /\ errCh = "error"
    /\ Exit("serve", 1)

SelectSignal ==
    /\ pc = "select"
    /\ signalled
    /\ pc' = "shutdown"
    /\ srv' = IF srv \in {"starting", "serving"} THEN "closing" ELSE srv
    /\ UNCHANGED << cfg, cookie, signalled, startup, errCh, request, ending >>

Running == { r \in Request : request[r] = "running" }

\* Bug: run returns when ListenAndServe does.
ShutdownNotAwaited ==
    /\ pc = "shutdown"
    /\ errCh = "closed"
    /\ Exit("stopped", 0)

\* Shutdown finds every connection idle.
ShutdownDone ==
    /\ pc = "shutdown"
    /\ Running = {}
    /\ Exit("stopped", 0)

\* Bug: Shutdown is given a context that does not end.
ShutdownUnbounded ==
    /\ pc = "shutdown"
    /\ Running = {}
    /\ Exit("too_slow", 1)

\* The five seconds are over: run returns the context's error.
ShutdownTimesOut ==
    /\ pc = "shutdown"
    /\ Exit("too_slow", 1)

Finished ==
    /\ pc = "exited"
    /\ UNCHANGED vars

Run ==
    \/ ParseFlags \/ CheckVersion \/ CheckLog \/ ResolveCollectors \/ ParseTargets \/ CheckMode
    \/ ResolveAuth \/ NewClient \/ NewExporter \/ StartServer
    \/ SelectError \/ SelectSignal \/ ShutdownDone \/ ShutdownTimesOut

Next ==
    \/ Run
    \/ Listen \/ ServeFails \/ ServerClosed
    \/ \E r \in Request : Arrive(r) \/ Answer(r)
    \/ Signal
    \/ Finished

\* run goes on when it can, and Shutdown's timer runs out.
Fairness == WF_vars(Run)

Spec == Init /\ [][Next]_vars /\ Fairness

-----------------------------------------------------------------------------
(* Properties.                                                             *)

TypeOK ==
    /\ cfg \in Flags
    /\ cookie \in BOOLEAN
    /\ pc \in Checks \cup Waiting \cup {"exited"}
    /\ rest \in Seq(STRING)
    /\ active \subseteq Known
    /\ srv \in {"off", "starting", "serving", "closing", "closed"}
    /\ errCh \in {"empty", "error", "closed"}
    /\ signalled \in BOOLEAN
    /\ request \in [Request -> {"new", "running", "served", "cut"}]
    /\ reason \in Reasons
    /\ code \in {0, 1, 2}

\* What the three flags mean, whatever order they are gone through in: the
\* base set, and what is enabled, without what is disabled (README.md:268-274).
Base(c) ==
    IF c.set = "all" THEN Known
    ELSE IF c.set = "default" THEN Defaults
    ELSE IF c.set = "list" THEN Names(c.names) ELSE {}

Wanted(c) == (Base(c) \cup Names(c.enable)) \ Names(c.disable)

Mentioned(c) ==
    Names(c.enable) \cup Names(c.disable) \cup (IF c.set = "list" THEN Names(c.names) ELSE {})

\* A process that serves runs exactly the collectors the flags ask for, and
\* some; every name they mention exists, one that is later disabled included.
ServesWhatWasAsked ==
    pc \in Waiting =>
        /\ active = Wanted(cfg)
        /\ active # {}
        /\ Mentioned(cfg) \subseteq Known

\* The exit code is 0 only if the process was asked to stop, or for its usage
\* or, by a command line it could read, for its version; and then no request
\* was cut off.  ListenAndServe returns as soon as Shutdown begins, so run must
\* not take that for the end.
CleanExit ==
    pc = "exited" /\ code = 0 =>
        /\ signalled \/ cfg.parse = "help" \/ (cfg.parse = "ok" /\ cfg.version)
        /\ \A r \in Request : request[r] # "cut"

\* Once asked to stop the process ends, though scrapes may never do.
StopsWhenAsked == signalled ~> pc = "exited"

\* main.go:89-90: "Flags are validated before anything touches the node, so a
\* typo is reported as a typo rather than as a connection problem."  Not
\* having found the node's cookie must not hide a flag that is wrong.
Typo ==
    \/ cfg.log = "typo" \/ cfg.mode = "typo" \/ cfg.url = "typo"
    \/ cfg.targets = "no_number"
    \/ OutOfRange
    \/ cfg.path = "taken"

TypoReportedFirst == reason = "no_cookie" => ~ Typo
=============================================================================
