--------------------------- MODULE ProcessProofs ---------------------------
(***************************************************************************)
(* Proofs about Process for any set of collectors, any command line and    *)
(* any number of requests.                                                 *)
(***************************************************************************)
EXTENDS Process, TLAPS

USE DEF Checks, Waiting

-----------------------------------------------------------------------------
(* Lists.                                                                  *)

LEMMA NamesOfList ==
  ASSUME NEW s \in Seq(STRING), s # << >>
  PROVE  /\ Head(s) \in STRING
         /\ Tail(s) \in Seq(STRING)
         /\ Names(s) = {Head(s)} \cup Names(Tail(s))
<1>1. Head(s) \in STRING /\ Tail(s) \in Seq(STRING)
  OBVIOUS
<1>2. Head(s) \in Names(s)
  BY DEF Names
<1>3. \A i \in DOMAIN Tail(s) : i + 1 \in DOMAIN s /\ Tail(s)[i] = s[i + 1]
  OBVIOUS
<1>4. \A i \in DOMAIN s : i = 1 \/ (i - 1 \in DOMAIN Tail(s) /\ Tail(s)[i - 1] = s[i])
  OBVIOUS
<1>5. Names(Tail(s)) \subseteq Names(s)
  BY <1>3 DEF Names
<1>6. Names(s) \subseteq {Head(s)} \cup Names(Tail(s))
  BY <1>4 DEF Names
<1>7. QED
  BY <1>1, <1>2, <1>5, <1>6

LEMMA NamesOfNothing == Names(<< >>) = {}
BY DEF Names

-----------------------------------------------------------------------------
(* Types.                                                                  *)

LEMMA ExitType ==
  ASSUME TypeOK, NEW why \in Reasons, NEW status \in {0, 1, 2}, Exit(why, status)
  PROVE  TypeOK'
BY DEF Exit, TypeOK, startup

LEMMA PassType ==
  ASSUME TypeOK, NEW from, NEW to \in Checks, Pass(from, to)
  PROVE  TypeOK'
BY DEF Pass, TypeOK, startup, server, ending

LEMMA ResolveType ==
  ASSUME TypeOK, ResolveCollectors
  PROVE  TypeOK'
<1>1. ASSUME NEW loop, NEW on \in BOOLEAN, Turn(loop, on)
      PROVE  TypeOK'
  <2>1. Head(rest) \in STRING /\ Tail(rest) \in Seq(STRING)
    BY <1>1, NamesOfList DEF Turn, TypeOK
  <2>2. CASE Head(rest) \in Known
    BY <1>1, <2>1, <2>2 DEF Turn, TypeOK, Exit, server, ending
  <2>3. CASE Head(rest) \notin Known
    BY <1>1, <2>3, ExitType DEF Turn, Reasons
  <2>4. QED
    BY <2>2, <2>3
<1>2. ASSUME NEW loop, NEW next \in Checks, NEW list \in Seq(STRING), LoopEnds(loop, next, list)
      PROVE  TypeOK'
  BY <1>2 DEF LoopEnds, TypeOK, server, ending
<1>3. /\ cfg.names \in Seq(STRING)
      /\ cfg.enable \in Seq(STRING)
      /\ cfg.disable \in Seq(STRING)
      /\ << >> \in Seq(STRING)
  BY DEF TypeOK, Flags
<1>4. CASE BaseSet
  BY <1>3, <1>4, ProcessAssumption DEF BaseSet, TypeOK, server, ending
<1>5. CASE Turn("names", TRUE) \/ Turn("enable", TRUE) \/ Turn("disable", FALSE)
  BY <1>1, <1>5
<1>6. CASE \/ LoopEnds("names", "enable", cfg.enable)
           \/ LoopEnds("enable", "disable", cfg.disable)
           \/ LoopEnds("disable", "count", << >>)
  BY <1>2, <1>3, <1>6
<1>7. CASE Pass("count", "targets") \/ Refuse("count", "no_collector")
  BY <1>7, PassType, ExitType DEF Refuse, Reasons
<1>8. QED
  BY <1>4, <1>5, <1>6, <1>7 DEF ResolveCollectors

\* The variables always have their types.
THEOREM TypeCorrect == Spec => []TypeOK
<1>1. Init => TypeOK
  <2>1. Init => /\ cfg \in Flags
                /\ rest \in Seq(STRING)
                /\ active \subseteq Known
                /\ request \in [Request -> {"new", "running", "served", "cut"}]
    BY ProcessAssumption DEF Init
  <2>2. Init => cookie \in BOOLEAN /\ signalled \in BOOLEAN
    BY Zenon DEF Init
  <2>3. QED
    BY <2>1, <2>2 DEF Init, TypeOK, Reasons
<1>2. TypeOK /\ [Next]_vars => TypeOK'
  <2> SUFFICES ASSUME TypeOK, [Next]_vars PROVE TypeOK'
    OBVIOUS
  <2>1. CASE ParseFlags \/ CheckVersion \/ CheckLog
    BY <2>1, PassType, ExitType DEF ParseFlags, CheckVersion, CheckLog, Refuse, Reasons
  <2>2. CASE ResolveCollectors
    BY <2>2, ResolveType
  <2>3. CASE ParseTargets \/ CheckMode
    BY <2>3, PassType, ExitType DEF ParseTargets, CheckMode, Refuse, Reasons
  <2>4. CASE ResolveAuth
    BY <2>4, PassType, ExitType DEF ResolveAuth, Refuse, Reasons
  <2>5. CASE NewClient \/ NewExporter
    BY <2>5, PassType, ExitType DEF NewClient, NewExporter, Refuse, Reasons
  <2>6. CASE StartServer
    <3>1. CASE Exit("panic", 2)
      BY <3>1, ExitType DEF Reasons
    <3>2. QED
      BY <2>6, <3>1 DEF StartServer, TypeOK, startup, ending
  <2>7. CASE Listen \/ ServeFails \/ ServerClosed
    BY <2>7 DEF Listen, ServeFails, ServerClosed, TypeOK, startup, ending
  <2>8. ASSUME NEW r \in Request, Arrive(r) \/ Answer(r) PROVE TypeOK'
    BY <2>8 DEF Arrive, Answer, TypeOK, startup, ending
  <2>9. CASE Signal
    <3>1. CASE Exit("killed", 2)
      BY <3>1, ExitType DEF Reasons
    <3>2. QED
      BY <2>9, <3>1 DEF Signal, TypeOK, startup, server, ending
  <2>10. CASE SelectError \/ ShutdownDone \/ ShutdownTimesOut
    BY <2>10, ExitType DEF SelectError, ShutdownDone, ShutdownTimesOut, Reasons
  <2>11. CASE SelectSignal
    BY <2>11 DEF SelectSignal, TypeOK, startup, ending
  <2>12. CASE UNCHANGED vars
    BY <2>12 DEF vars, TypeOK, startup, server, ending
  <2>13. QED
    BY <2>1, <2>2, <2>3, <2>4, <2>5, <2>6, <2>7, <2>8, <2>9, <2>10, <2>11, <2>12
       DEF Next, Run, Finished
<1>3. QED
  BY <1>1, <1>2, PTL DEF Spec

-----------------------------------------------------------------------------
(* The set of collectors.  Each loop keeps what is switched on and what is *)
(* still to be gone through in balance.                                    *)

Listed(c) == IF c.set = "list" THEN Names(c.names) ELSE {}

AfterCount == {"targets", "mode", "auth", "client", "exporter", "mux"} \cup Waiting

ResolveInv ==
    /\ pc = "names" =>
        /\ cfg.set = "list"
        /\ active \cup Names(rest) = Names(cfg.names)
    /\ pc \in {"enable", "disable", "count"} \cup AfterCount => Listed(cfg) \subseteq Known
    /\ pc = "enable" => active \cup Names(rest) = Base(cfg) \cup Names(cfg.enable)
    /\ pc \in {"disable", "count"} \cup AfterCount => Names(cfg.enable) \subseteq Known
    /\ pc = "disable" =>
        /\ active \ Names(rest) = Wanted(cfg)
        /\ Names(cfg.disable) \subseteq Known \cup Names(rest)
    /\ pc \in {"count"} \cup AfterCount =>
        /\ active = Wanted(cfg)
        /\ Names(cfg.disable) \subseteq Known
    /\ pc \in AfterCount => active # {}

LEMMA ResolveInit == Init => ResolveInv
BY DEF Init, ResolveInv, AfterCount

LEMMA ResolveTurn ==
  ASSUME TypeOK, ResolveInv, NEW loop, NEW on,
         \/ loop \in {"names", "enable"} /\ on = TRUE
         \/ loop = "disable" /\ on = FALSE,
         Turn(loop, on)
  PROVE  ResolveInv'
<1>1. Names(rest) = {Head(rest)} \cup Names(Tail(rest))
  BY NamesOfList DEF Turn, TypeOK
<1>2. CASE Head(rest) \notin Known
  BY <1>2 DEF Turn, Exit, ResolveInv, AfterCount
<1>3. CASE Head(rest) \in Known
  <2>1. /\ pc' = pc /\ pc = loop /\ cfg' = cfg /\ rest' = Tail(rest)
        /\ active' = IF on THEN active \cup {Head(rest)} ELSE active \ {Head(rest)}
    BY <1>3 DEF Turn, Exit
  <2>2. CASE loop = "names"
    BY <1>1, <2>1, <2>2 DEF ResolveInv, AfterCount
  <2>3. CASE loop = "enable"
    BY <1>1, <2>1, <2>3 DEF ResolveInv, AfterCount, Listed, Base
  <2>4. CASE loop = "disable"
    BY <1>1, <1>3, <2>1, <2>4 DEF ResolveInv, AfterCount, Listed, Wanted, Base
  <2>5. QED
    BY <2>2, <2>3, <2>4
<1>4. QED
  BY <1>2, <1>3

LEMMA ResolveStep ==
  ASSUME TypeOK, ResolveInv, [Next]_vars
  PROVE  ResolveInv'
<1> USE DEF ResolveInv, AfterCount
<1>1. ASSUME NEW why, NEW status, Exit(why, status) PROVE ResolveInv'
  BY <1>1 DEF Exit
<1>2. ASSUME NEW from, NEW to, Pass(from, to),
             \/ from = "parse" /\ to = "flags"
             \/ from = "flags" /\ to = "log"
             \/ from = "log" /\ to = "base"
             \/ from \in AfterCount /\ to \in AfterCount
      PROVE  ResolveInv'
  BY <1>2 DEF Pass, startup, Listed, Wanted, Base
<1>3. CASE ParseFlags \/ CheckVersion \/ CheckLog
  BY <1>1, <1>2, <1>3 DEF ParseFlags, CheckVersion, CheckLog, Refuse
<1>4. CASE BaseSet
  BY <1>4, ProcessAssumption DEF BaseSet, Listed, Base, TypeOK, Flags
<1>5. CASE Turn("names", TRUE) \/ Turn("enable", TRUE) \/ Turn("disable", FALSE)
  BY <1>5, ResolveTurn
<1>6. CASE LoopEnds("names", "enable", cfg.enable)
  BY <1>6, NamesOfNothing DEF LoopEnds, Listed, Base, TypeOK
<1>7. CASE LoopEnds("enable", "disable", cfg.disable)
  BY <1>7, NamesOfNothing DEF LoopEnds, Listed, Base, Wanted, TypeOK
<1>8. CASE LoopEnds("disable", "count", << >>)
  BY <1>8, NamesOfNothing DEF LoopEnds, Listed, Base, Wanted
<1>9. CASE active # {} /\ Pass("count", "targets")
  BY <1>9 DEF Pass, startup, Listed, Wanted, Base
<1>10. CASE Refuse("count", "no_collector")
  BY <1>1, <1>10 DEF Refuse
<1>11. CASE ParseTargets \/ CheckMode \/ ResolveAuth \/ NewClient \/ NewExporter
  BY <1>1, <1>2, <1>11 DEF ParseTargets, CheckMode, ResolveAuth, NewClient, NewExporter, Refuse
<1>12. ASSUME UNCHANGED << cfg, startup >>, pc' = pc \/ (pc \in AfterCount /\ pc' \in AfterCount)
       PROVE  ResolveInv'
  BY <1>12 DEF startup, Listed, Wanted, Base
<1>13. CASE StartServer
  BY <1>1, <1>12, <1>13 DEF StartServer
<1>14. CASE Listen \/ ServeFails \/ ServerClosed
  BY <1>12, <1>14 DEF Listen, ServeFails, ServerClosed
<1>15. ASSUME NEW r \in Request, Arrive(r) \/ Answer(r) PROVE ResolveInv'
  BY <1>12, <1>15 DEF Arrive, Answer
<1>16. CASE Signal
  BY <1>1, <1>12, <1>16 DEF Signal
<1>17. CASE SelectError \/ ShutdownDone \/ ShutdownTimesOut
  BY <1>1, <1>17 DEF SelectError, ShutdownDone, ShutdownTimesOut
<1>18. CASE SelectSignal
  BY <1>12, <1>18 DEF SelectSignal
<1>19. CASE UNCHANGED vars
  BY <1>12, <1>19 DEF vars
<1>20. QED
  BY <1>3, <1>4, <1>5, <1>6, <1>7, <1>8, <1>9, <1>10, <1>11, <1>13, <1>14, <1>15, <1>16,
     <1>17, <1>18, <1>19 DEF Next, Run, ResolveCollectors, Finished

\* A process that serves runs the collectors its flags ask for, and some.
THEOREM ServesWhatWasAskedHolds == Spec => []ServesWhatWasAsked
<1>1. ResolveInv => ServesWhatWasAsked
  BY DEF ResolveInv, AfterCount, ServesWhatWasAsked, Mentioned, Listed
<1>2. QED
  BY <1>1, TypeCorrect, ResolveInit, ResolveStep, PTL DEF Spec

-----------------------------------------------------------------------------
(* The exit code.                                                          *)

ExitInv ==
    /\ pc \in Checks => srv = "off" /\ \A r \in Request : request[r] = "new"
    /\ pc # "exited" => \A r \in Request : request[r] # "cut"
    /\ pc \notin {"parse", "exited"} => cfg.parse = "ok"
    /\ pc = "shutdown" => signalled
    /\ CleanExit

LEMMA ExitInit == Init => ExitInv
BY DEF Init, ExitInv, CleanExit

LEMMA ExitStep ==
  ASSUME TypeOK, ExitInv, [Next]_vars
  PROVE  ExitInv'
<1> USE DEF ExitInv, CleanExit
<1>1. ASSUME NEW why, NEW status \in {1, 2}, Exit(why, status) PROVE ExitInv'
  BY <1>1 DEF Exit
<1>2. ASSUME NEW from \in Checks, NEW to \in Checks, Pass(from, to),
             from # "parse" \/ cfg.parse = "ok"
      PROVE  ExitInv'
  BY <1>2 DEF Pass, server, ending
<1>3. CASE CheckVersion
  <2>1. CASE cfg.version /\ pc = "flags" /\ Exit("version", 0)
    BY <2>1 DEF Exit, TypeOK
  <2>2. QED
    BY <1>2, <1>3, <2>1 DEF CheckVersion
<1>4. CASE CheckLog \/ ParseTargets \/ CheckMode
  BY <1>1, <1>2, <1>4 DEF CheckLog, ParseTargets, CheckMode, Refuse
<1>5. CASE ResolveAuth \/ NewClient \/ NewExporter
  BY <1>1, <1>2, <1>5 DEF ResolveAuth, NewClient, NewExporter, Refuse
<1>6. CASE BaseSet
  BY <1>6 DEF BaseSet, server, ending
<1>7. CASE Turn("names", TRUE) \/ Turn("enable", TRUE) \/ Turn("disable", FALSE)
  BY <1>1, <1>7 DEF Turn, server, ending
<1>8. CASE \/ LoopEnds("names", "enable", cfg.enable)
           \/ LoopEnds("enable", "disable", cfg.disable)
           \/ LoopEnds("disable", "count", << >>)
  BY <1>8 DEF LoopEnds, server, ending
<1>9. CASE Pass("count", "targets") \/ Refuse("count", "no_collector")
  BY <1>1, <1>2, <1>9 DEF Refuse
<1>10. CASE StartServer
  BY <1>1, <1>10 DEF StartServer, ending
<1>11. CASE Listen \/ ServeFails \/ ServerClosed
  BY <1>11 DEF Listen, ServeFails, ServerClosed, Alive, ending
<1>12. ASSUME NEW r \in Request, Arrive(r) \/ Answer(r) PROVE ExitInv'
  BY <1>12 DEF Arrive, Answer, Alive, ending, TypeOK
<1>13. CASE Signal
  BY <1>1, <1>13 DEF Signal, server, ending
<1>14. CASE SelectError \/ ShutdownTimesOut
  BY <1>1, <1>14 DEF SelectError, ShutdownTimesOut
<1>15. CASE SelectSignal
  BY <1>15 DEF SelectSignal, ending
<1>16. CASE ShutdownDone
  BY <1>16 DEF ShutdownDone, Running, Exit, TypeOK
<1>17. CASE UNCHANGED vars
  BY <1>17 DEF vars, server, ending
<1>18. CASE ParseFlags
  <2>1. CASE cfg.parse = "help" /\ pc = "parse" /\ Exit("help", 0)
    BY <2>1 DEF Exit, TypeOK
  <2>2. CASE cfg.parse = "malformed" /\ pc = "parse" /\ Exit("usage", 2)
    BY <1>1, <2>2
  <2>3. QED
    BY <1>2, <1>18, <2>1, <2>2 DEF ParseFlags
<1>19. QED
  BY <1>3, <1>4, <1>5, <1>6, <1>7, <1>8, <1>9, <1>10, <1>11, <1>12, <1>13, <1>14, <1>15,
     <1>16, <1>17, <1>18 DEF Next, Run, ResolveCollectors, Finished

\* Exit code 0 means that the process was asked to stop, or for its usage or
\* version, and cut nothing off.
THEOREM CleanExitHolds == Spec => []CleanExit
<1>1. ExitInv => CleanExit
  BY DEF ExitInv
<1>2. QED
  BY <1>1, TypeCorrect, ExitInit, ExitStep, PTL DEF Spec
=============================================================================
