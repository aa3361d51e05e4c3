------------------------ MODULE ExporterSamplesProofs ------------------------
(***************************************************************************)
(* Proofs about what a scrape publishes, for any fee targets, wallets and  *)
(* options: a collector that reports success has published all it stands   *)
(* for, and no series is sent twice but those the configuration names      *)
(* twice.  The lemmas of CollectorsProofs say what one Update keeps true;  *)
(* here every goroutine of every request is shown to keep to them.         *)
(***************************************************************************)
EXTENDS ExporterProofs, CollectorsProofs

\* Nothing is sent before the goroutine starts, and from then on its Update
\* is under way, or over.
SamplesInv ==
    \A r \in Request, c \in Collector :
        IF at[r][c] = "none"
        THEN samples[r][c] = {} /\ (c = "wallet" => listed[r] = << >>)
        ELSE Underway(c, listed[r], todo[r][c], samples[r][c], c \in failed[r])

\* The Update of a goroutine that reports success is over and had no error.
OkInv ==
    \A r \in Request, c \in Collector :
        verdict[r][c] = "ok" =>
            /\ at[r][c] \in {"reported", "done"}
            /\ todo[r][c] = << >>
            /\ c \notin failed[r]

CompleteInv == SamplesInv /\ OkInv

\* What CallAnswer does to its own entries, and that it leaves the others.
LEMMA CallAnswerShape ==
  ASSUME TypeOK, NEW r \in Request, NEW c \in Collector, CallAnswer(r, c)
  PROVE  \E ans :
            /\ at[r][c] = "run" /\ todo[r][c] # << >>
            /\ MayAnswer(Head(todo[r][c]), ans)
            /\ todo'[r][c] = CallsAfter(todo[r][c], ans)
            /\ samples'[r][c] = SentAfter(todo[r][c], samples[r][c], ans)
            /\ (c \in failed'[r]) = BadAfter(todo[r][c], c \in failed[r], ans)
            /\ \A q \in Request, d \in Collector :
                  q # r \/ d # c => /\ todo'[q][d] = todo[q][d]
                                    /\ samples'[q][d] = samples[q][d]
                                    /\ (d \in failed'[q]) = (d \in failed[q])
            /\ clash' = IF Clashes(Samples(Head(todo[r][c]), ans), samples[r][c])
                        THEN Put(clash, r, Head(todo[r][c]).arg) ELSE clash
            /\ listed'[r] = ListedAfter(todo[r][c], listed[r], ans)
            /\ \A q \in Request : q # r => listed'[q] = listed[q]
<1> DEFINE call == Head(todo[r][c])
<1>1. PICK ans \in (IF c \in late[r] THEN Failures(call) ELSE Answers(call)) :
         /\ todo' = [todo EXCEPT ![r][c] = Follow(call, ans) \o Tail(todo[r][c])]
         /\ failed' = IF Tolerates(call, ans.err) THEN failed ELSE Put(failed, r, c)
         /\ samples' = [samples EXCEPT ![r][c] = samples[r][c] \cup Samples(call, ans)]
         /\ clash' = IF \E s \in Samples(call, ans), t \in samples[r][c] :
                            s.family = t.family /\ s.label = t.label
                     THEN Put(clash, r, call.arg) ELSE clash
         /\ listed' = IF call.method = "listwallets" /\ ans.err = NoError
                      THEN [listed EXCEPT ![r] = ans.data] ELSE listed
  BY DEF CallAnswer
<1>2. MayAnswer(call, ans)
  <2>1. CASE ans \in Failures(call)
    BY <2>1 DEF MayAnswer, Failures, Transport, NoError
  <2>2. CASE ans \in Answers(call)
    <3> DEFINE payloads == IF call.method = "listwallets" THEN LoadedLists
                                                          ELSE SUBSET Facts(call.method)
    <3>1. \/ ans \in [err : {NoError}, data : payloads]
          \/ ans \in [err : RPCError \cup {Transport}, data : {{}}]
      BY <2>2 DEF Answers
    <3>2. call.method = "listwallets" => payloads = LoadedLists
      OBVIOUS
    <3>3. NoError \notin RPCError \cup {Transport}
      BY DEF NoError, RPCError, Transport
    <3> HIDE DEF payloads, call
    <3>4. QED
      BY <3>1, <3>2, <3>3 DEF MayAnswer
  <2>3. QED
    BY <1>1, <2>1, <2>2
<1>3. /\ todo'[r][c] = CallsAfter(todo[r][c], ans)
      /\ \A q \in Request, d \in Collector : q # r \/ d # c => todo'[q][d] = todo[q][d]
  <2>0. PICK v : v = Follow(call, ans) \o Tail(todo[r][c])
    OBVIOUS
  <2>1. todo' = [todo EXCEPT ![r][c] = v] /\ IsTable(todo)
    BY <1>1, <2>0 DEF TypeOK
  <2>2. todo'[r][c] = v
    <3>1. DOMAIN todo = Request /\ DOMAIN todo[r] = Collector
      BY <2>1 DEF IsTable
    <3>2. QED
      BY <2>1, <3>1
  <2>3. ASSUME NEW q \in Request, NEW d \in Collector, q # r \/ d # c
        PROVE  todo'[q][d] = todo[q][d]
    BY <2>1, <2>3, EntryShape
  <2>4. v = CallsAfter(todo[r][c], ans)
    BY <2>0 DEF CallsAfter
  <2>5. QED
    BY <2>2, <2>3, <2>4
<1>4. /\ samples'[r][c] = SentAfter(todo[r][c], samples[r][c], ans)
      /\ \A q \in Request, d \in Collector : q # r \/ d # c => samples'[q][d] = samples[q][d]
  <2>0. PICK v : v = samples[r][c] \cup Samples(call, ans)
    OBVIOUS
  <2>1. samples' = [samples EXCEPT ![r][c] = v] /\ IsTable(samples)
    BY <1>1, <2>0 DEF TypeOK
  <2>2. samples'[r][c] = v
    <3>1. DOMAIN samples = Request /\ DOMAIN samples[r] = Collector
      BY <2>1 DEF IsTable
    <3>2. QED
      BY <2>1, <3>1
  <2>3. ASSUME NEW q \in Request, NEW d \in Collector, q # r \/ d # c
        PROVE  samples'[q][d] = samples[q][d]
    BY <2>1, <2>3, EntryShape
  <2>4. v = SentAfter(todo[r][c], samples[r][c], ans)
    BY <2>0 DEF SentAfter
  <2>5. QED
    BY <2>2, <2>3, <2>4
<1>5. \A q \in Request, d \in Collector :
         (d \in failed'[q]) = (d \in failed[q] \/ (q = r /\ d = c /\ ~ Tolerates(call, ans.err)))
  BY <1>1 DEF TypeOK, Put
<1>6. /\ (c \in failed'[r]) = BadAfter(todo[r][c], c \in failed[r], ans)
      /\ \A q \in Request, d \in Collector :
            q # r \/ d # c => (d \in failed'[q]) = (d \in failed[q])
  BY <1>5 DEF BadAfter
<1>7. clash' = IF Clashes(Samples(call, ans), samples[r][c])
               THEN Put(clash, r, call.arg) ELSE clash
  BY <1>1 DEF Clashes
<1>8. at[r][c] = "run" /\ todo[r][c] # << >>
  BY DEF CallAnswer
<1>9. /\ listed'[r] = ListedAfter(todo[r][c], listed[r], ans)
      /\ \A q \in Request : q # r => listed'[q] = listed[q]
  <2>1. DOMAIN listed = Request
    BY DEF TypeOK
  <2>2. QED
    BY <1>1, <2>1 DEF ListedAfter
<1>10. QED
  BY <1>2, <1>3, <1>4, <1>6, <1>7, <1>8, <1>9

\* The steps that are no goroutine's leave all of this alone.
LEMMA HandlerStep ==
  ASSUME NEW r \in Request,
         \/ Admit(r) \/ Reject(r) \/ Expire(r) \/ ProbeAnswer(r)
         \/ WaitReturns(r) \/ CollectRequests(r) \/ CollectErrors(r)
  PROVE  UNCHANGED running
BY DEF Admit, Reject, Expire, ProbeAnswer, WaitReturns, CollectRequests, CollectErrors

LEMMA CompleteInit == Init => CompleteInv
BY DEF Init, CompleteInv, SamplesInv, OkInv, PerCollector

LEMMA CompleteStep ==
  ASSUME TypeOK, CompleteInv, [Next]_vars
  PROVE  CompleteInv'
<1> USE DEF CompleteInv
<1>1. CASE UNCHANGED running
  BY <1>1 DEF SamplesInv, OkInv, running
<1>2. ASSUME NEW r \in Request, NEW c \in Collector, Launch(r, c) PROVE CompleteInv'
  <2>1. /\ at[r][c] = "none" /\ at'[r][c] = "run"
        /\ \A q \in Request, d \in Collector : q # r \/ d # c => at'[q][d] = at[q][d]
    BY <1>2 DEF Launch, TypeOK
  <2>2. /\ todo'[r][c] = Program[c]
        /\ \A q \in Request, d \in Collector : q # r \/ d # c => todo'[q][d] = todo[q][d]
    <3>0. PICK v : v = Program[c]
      OBVIOUS
    <3>1. todo' = [todo EXCEPT ![r][c] = v] /\ IsTable(todo)
      BY <1>2, <3>0 DEF Launch, TypeOK
    <3>2. todo'[r][c] = v
      <4>1. DOMAIN todo = Request /\ DOMAIN todo[r] = Collector
        BY <3>1 DEF IsTable
      <4>2. QED
        BY <3>1, <4>1
    <3>3. ASSUME NEW q \in Request, NEW d \in Collector, q # r \/ d # c
          PROVE  todo'[q][d] = todo[q][d]
      BY <3>1, <3>3, EntryShape
    <3>4. QED
      BY <3>0, <3>2, <3>3
  <2>3. samples' = samples /\ failed' = failed /\ verdict' = verdict /\ listed' = listed
    BY <1>2 DEF Launch
  <2>4. Underway(c, listed[r], Program[c], {}, c \in failed[r])
    BY <2>1, UnderwayStart, UnderwayElsewhere DEF SamplesInv
  <2>5. SamplesInv'
    <3>1. /\ samples[r][c] = {}
          /\ Underway(c, listed'[r], todo'[r][c], samples'[r][c], c \in failed'[r])
      BY <2>1, <2>2, <2>3, <2>4 DEF SamplesInv
    <3>2. ASSUME NEW q \in Request, NEW d \in Collector, q # r \/ d # c
          PROVE  IF at'[q][d] = "none"
                 THEN samples'[q][d] = {} /\ (d = "wallet" => listed'[q] = << >>)
                 ELSE Underway(d, listed'[q], todo'[q][d], samples'[q][d], d \in failed'[q])
      BY <2>1, <2>2, <2>3, <3>2 DEF SamplesInv
    <3>3. QED
      BY <2>1, <3>1, <3>2 DEF SamplesInv
  <2>6. OkInv'
    BY <2>1, <2>2, <2>3 DEF OkInv
  <2>7. QED
    BY <2>5, <2>6
<1>3. ASSUME NEW r \in Request, NEW c \in Collector, CallAnswer(r, c) PROVE CompleteInv'
  <2>1. PICK ans :
            /\ at[r][c] = "run" /\ todo[r][c] # << >>
            /\ MayAnswer(Head(todo[r][c]), ans)
            /\ todo'[r][c] = CallsAfter(todo[r][c], ans)
            /\ samples'[r][c] = SentAfter(todo[r][c], samples[r][c], ans)
            /\ (c \in failed'[r]) = BadAfter(todo[r][c], c \in failed[r], ans)
            /\ \A q \in Request, d \in Collector :
                  q # r \/ d # c => /\ todo'[q][d] = todo[q][d]
                                    /\ samples'[q][d] = samples[q][d]
                                    /\ (d \in failed'[q]) = (d \in failed[q])
            /\ listed'[r] = ListedAfter(todo[r][c], listed[r], ans)
            /\ \A q \in Request : q # r => listed'[q] = listed[q]
    BY <1>3, CallAnswerShape
  <2>2. at' = at /\ verdict' = verdict
    BY <1>3 DEF CallAnswer
  <2>3. Underway(c, listed[r], todo[r][c], samples[r][c], c \in failed[r])
    BY <2>1 DEF SamplesInv
  <2>4. Underway(c, listed'[r], todo'[r][c], samples'[r][c], c \in failed'[r])
    <3>1. Underway(c, ListedAfter(todo[r][c], listed[r], ans), CallsAfter(todo[r][c], ans),
                   SentAfter(todo[r][c], samples[r][c], ans),
                   BadAfter(todo[r][c], c \in failed[r], ans))
      BY <2>1, <2>3, UnderwayStep
    <3>2. QED
      BY <2>1, <3>1
  <2>a. c # "wallet" => listed'[r] = listed[r]
    BY <2>1, <2>3, UnderwayElsewhere DEF ListedAfter
  <2>5. SamplesInv'
    <3> SUFFICES ASSUME NEW q \in Request, NEW d \in Collector, q # r \/ d # c
                 PROVE  IF at[q][d] = "none"
                        THEN samples[q][d] = {} /\ (d = "wallet" => listed'[q] = << >>)
                        ELSE Underway(d, listed'[q], todo[q][d], samples[q][d], d \in failed[q])
      BY <2>1, <2>2, <2>4 DEF SamplesInv
    <3>1. IF at[q][d] = "none"
          THEN samples[q][d] = {} /\ (d = "wallet" => listed[q] = << >>)
          ELSE Underway(d, listed[q], todo[q][d], samples[q][d], d \in failed[q])
      BY DEF SamplesInv
    <3>2. CASE listed'[q] = listed[q]
      BY <3>1, <3>2
    <3>3. CASE listed'[q] # listed[q]
      <4>1. d # "wallet"
        BY <2>1, <2>a, <3>3
      <4>2. QED
        BY <3>1, <4>1, UnderwayElsewhere
    <3>4. QED
      BY <3>2, <3>3
  <2>6. OkInv'
    BY <2>1, <2>2 DEF OkInv
  <2>7. QED
    BY <2>5, <2>6
<1>4. ASSUME NEW r \in Request, NEW c \in Collector, Report(r, c) PROVE CompleteInv'
  <2>1. /\ at[r][c] = "run" /\ todo[r][c] = << >> /\ at'[r][c] = "reported"
        /\ \A q \in Request, d \in Collector : q # r \/ d # c => at'[q][d] = at[q][d]
    BY <1>4 DEF Report, TypeOK
  <2>2. /\ verdict'[r][c] = IF c \in failed[r] THEN "failed" ELSE "ok"
        /\ \A q \in Request, d \in Collector : q # r \/ d # c => verdict'[q][d] = verdict[q][d]
    BY <1>4 DEF Report, TypeOK
  <2>3. samples' = samples /\ failed' = failed /\ todo' = todo /\ listed' = listed
    BY <1>4 DEF Report
  <2>4. QED
    BY <2>1, <2>2, <2>3 DEF SamplesInv, OkInv
<1>5. ASSUME NEW r \in Request, NEW c \in Collector, Done(r, c) PROVE CompleteInv'
  <2>1. /\ at[r][c] = "reported" /\ at'[r][c] = "done"
        /\ \A q \in Request, d \in Collector : q # r \/ d # c => at'[q][d] = at[q][d]
    BY <1>5 DEF Done, TypeOK
  <2>2. /\ samples' = samples /\ failed' = failed /\ todo' = todo /\ verdict' = verdict
        /\ listed' = listed
    BY <1>5 DEF Done
  <2>3. QED
    BY <2>1, <2>2 DEF SamplesInv, OkInv
<1>6. QED
  BY <1>1, <1>2, <1>3, <1>4, <1>5, HandlerStep
     DEF Next, Progress, Goroutine, Finished, vars

\* A collector that reports success has published every family its Update
\* stands for, whatever refusals it tolerated on the way.
THEOREM SuccessMeansCompleteHolds == Spec => []SuccessMeansComplete
<1>1. TypeOK /\ CompleteInv => SuccessMeansComplete
  <2> SUFFICES ASSUME CompleteInv, NEW r \in Request, NEW c \in Collector, verdict[r][c] = "ok"
               PROVE  Complete(c, listed[r], samples[r][c])
    BY DEF SuccessMeansComplete
  <2>1. at[r][c] # "none" /\ todo[r][c] = << >> /\ (c \in failed[r]) = FALSE
    BY DEF CompleteInv, OkInv
  <2>2. Underway(c, listed[r], todo[r][c], samples[r][c], c \in failed[r])
    BY <2>1 DEF CompleteInv, SamplesInv
  <2>3. Underway(c, listed[r], << >>, samples[r][c], FALSE)
    BY <2>1, <2>2
  <2>4. QED
    BY <2>3, UnderwayEnd
<1>2. QED
  BY <1>1, TypeCorrect, CompleteInit, CompleteStep, PTL DEF Spec

-----------------------------------------------------------------------------
(* No series is sent twice, but those the configuration asks for twice.    *)

\* Every goroutine has its calls still to make once each, and none that has
\* published already, except about what the configuration names twice.
DistinctInv ==
    /\ \A r \in Request : clash[r] \subseteq Repeats
    /\ \A r \in Request, c \in Collector : Distinct(todo[r][c], samples[r][c])

LEMMA DistinctInit == Init => DistinctInv
BY NothingLeft DEF Init, DistinctInv, PerCollector

LEMMA DistinctInvStep ==
  ASSUME TypeOK, CompleteInv, DistinctInv, [Next]_vars
  PROVE  DistinctInv'
<1> SUFFICES /\ \A r \in Request : clash'[r] \subseteq Repeats
             /\ \A r \in Request, c \in Collector : Distinct(todo'[r][c], samples'[r][c])
  BY DEF DistinctInv
<1>0. /\ \A r \in Request : clash[r] \subseteq Repeats
      /\ \A r \in Request, c \in Collector : Distinct(todo[r][c], samples[r][c])
  BY DEF DistinctInv
<1>1. CASE todo' = todo /\ samples' = samples /\ clash' = clash
  BY <1>0, <1>1
<1>2. ASSUME NEW r \in Request, NEW c \in Collector, Launch(r, c)
      PROVE  /\ \A q \in Request : clash'[q] \subseteq Repeats
             /\ \A q \in Request, d \in Collector : Distinct(todo'[q][d], samples'[q][d])
  <2>0. PICK v : v = Program[c]
    OBVIOUS
  <2>1. todo' = [todo EXCEPT ![r][c] = v] /\ IsTable(todo)
    BY <1>2, <2>0 DEF Launch, TypeOK
  <2>2. todo'[r][c] = v
    <3>1. DOMAIN todo = Request /\ DOMAIN todo[r] = Collector
      BY <2>1 DEF IsTable
    <3>2. QED
      BY <2>1, <3>1
  <2>3. ASSUME NEW q \in Request, NEW d \in Collector, q # r \/ d # c
        PROVE  todo'[q][d] = todo[q][d]
    BY <2>1, <2>3, EntryShape
  <2>4. samples' = samples /\ clash' = clash /\ samples[r][c] = {}
    BY <1>2 DEF Launch, CompleteInv, SamplesInv
  <2>5. Distinct(todo'[r][c], samples'[r][c])
    BY <2>0, <2>2, <2>4, DistinctStart
  <2>6. ASSUME NEW q \in Request, NEW d \in Collector, q # r \/ d # c
        PROVE  Distinct(todo'[q][d], samples'[q][d])
    BY <1>0, <2>3, <2>4, <2>6
  <2>7. QED
    BY <1>0, <2>4, <2>5, <2>6
<1>3. ASSUME NEW r \in Request, NEW c \in Collector, CallAnswer(r, c)
      PROVE  /\ \A q \in Request : clash'[q] \subseteq Repeats
             /\ \A q \in Request, d \in Collector : Distinct(todo'[q][d], samples'[q][d])
  <2>1. PICK ans :
            /\ at[r][c] = "run" /\ todo[r][c] # << >>
            /\ MayAnswer(Head(todo[r][c]), ans)
            /\ todo'[r][c] = CallsAfter(todo[r][c], ans)
            /\ samples'[r][c] = SentAfter(todo[r][c], samples[r][c], ans)
            /\ \A q \in Request, d \in Collector :
                  q # r \/ d # c => /\ todo'[q][d] = todo[q][d]
                                    /\ samples'[q][d] = samples[q][d]
            /\ clash' = IF Clashes(Samples(Head(todo[r][c]), ans), samples[r][c])
                        THEN Put(clash, r, Head(todo[r][c]).arg) ELSE clash
    BY <1>3, CallAnswerShape
  <2>2. Underway(c, listed[r], todo[r][c], samples[r][c], c \in failed[r])
    BY <2>1 DEF CompleteInv, SamplesInv
  <2>3. Distinct(todo[r][c], samples[r][c])
    BY <1>0
  <2>4. /\ Clashes(Samples(Head(todo[r][c]), ans), samples[r][c])
              => Head(todo[r][c]).arg \in Repeats
        /\ Distinct(CallsAfter(todo[r][c], ans), SentAfter(todo[r][c], samples[r][c], ans))
    BY <2>1, <2>2, <2>3, DistinctStep
  <2>5. \A q \in Request : clash'[q] \subseteq Repeats
    <3>1. DOMAIN clash = Request
      BY DEF TypeOK
    <3>2. QED
      BY <1>0, <2>1, <2>4, <3>1 DEF Put
  <2>6. Distinct(todo'[r][c], samples'[r][c])
    BY <2>1, <2>4
  <2>7. ASSUME NEW q \in Request, NEW d \in Collector, q # r \/ d # c
        PROVE  Distinct(todo'[q][d], samples'[q][d])
    BY <1>0, <2>1, <2>7
  <2>8. QED
    BY <2>5, <2>6, <2>7
<1>4. ASSUME NEW r \in Request, NEW c \in Collector, Report(r, c) \/ Done(r, c)
      PROVE  todo' = todo /\ samples' = samples /\ clash' = clash
  BY <1>4 DEF Report, Done
<1>5. UNCHANGED running => todo' = todo /\ samples' = samples /\ clash' = clash
  BY DEF running
<1>6. QED
  BY <1>1, <1>2, <1>3, <1>4, <1>5, HandlerStep DEF Next, Progress, Goroutine, Finished, vars

\* Whatever is asked of the node in whatever order, a series is sent twice in
\* one scrape only by a call about a fee target or a wallet that the
\* configuration names twice.
THEOREM NoClashHolds == Spec => []NoClash
<1>1. DistinctInv => NoClash
  BY DEF DistinctInv, NoClash, Repeats
<1>2. QED
  BY <1>1, TypeCorrect, CompleteInit, CompleteStep, DistinctInit, DistinctInvStep, PTL
     DEF Spec
=============================================================================
