-------------------------- MODULE RpcClientProofs --------------------------
(***************************************************************************)
(* Proofs about RpcClient, for any number of callers and of restarts of    *)
(* the node, and whatever it answers: the types, that an outcome is what   *)
(* the node did, that a node that stays up refuses no credentials, and     *)
(* that what is published of a field is what the node sent.                *)
(*                                                                         *)
(* That every call returns is liveness and left to TLC.                    *)
(***************************************************************************)
EXTENDS RpcClient, TLAPS

USE DEF Places

\* What the steps of the client have in common.
LEMMA Constants ==
  /\ Empty \in Content /\ Empty \notin Usable
  /\ \A n \in 0 .. MaxStarts :
        /\ \A form \in Forms : Cookie(n, form) \in Content
        /\ Whole(n) \in Usable
  /\ NoReply.status \in Statuses /\ NoReply.body \in Bodies /\ NoReply.body # "result"
BY FileAssumption DEF Empty, Content, Forms, Usable, Cookie, Whole, NoReply, Statuses, Bodies

-----------------------------------------------------------------------------
(* Types.                                                                  *)

LEMMA TypeInit == Init => TypeOK
<1>1. Init => /\ node \in {"down", "starting", "up"}
              /\ secret \in 0 .. MaxStarts
              /\ file \in Content
              /\ asked \subseteq Caller
              /\ may \in [Caller -> SUBSET Content]
              /\ result \in [Caller -> Usable \cup {Empty}]
              /\ lost \subseteq Caller
              /\ steady \subseteq Caller
  BY Constants, FileAssumption DEF Init
<1>2. Init => /\ pc \in [Caller -> Places]
              /\ \A c \in Caller : pc[c] \in {"send", "sent", "read"} => result[c] # Empty
              /\ did \in [Caller -> {"nothing", "executed", "refused", "not_served"}]
              /\ outcome \in [Caller -> Outcomes]
              /\ DOMAIN published = Caller
  BY DEF Init, Outcomes
<1>3. Probe \in Requests
  BY DEF Requests
<1>4. Init => request \in [Caller -> Requests]
  BY <1>3 DEF Init
<1>5. Init => DOMAIN reply = Caller /\ \A c \in Caller :
                /\ reply[c].status \in Statuses /\ reply[c].body \in Bodies
                /\ reply[c].body = "result" /\ request[c].wants =>
                      reply[c].payload \in Payloads[request[c].method]
  BY Constants DEF Init
<1>6. QED
  BY <1>1, <1>2, <1>4, <1>5 DEF TypeOK

\* The type of what an answer is read from.
ReplyOK ==
    /\ DOMAIN reply = Caller
    /\ \A c \in Caller :
        /\ reply[c].status \in Statuses /\ reply[c].body \in Bodies
        /\ reply[c].body = "result" /\ request[c].wants =>
              reply[c].payload \in Payloads[request[c].method]

LEMMA FailStep ==
  ASSUME TypeOK, NEW c \in Caller, NEW err \in Outcomes, Fail(c, err), UNCHANGED request
  PROVE  /\ ReplyOK'
         /\ pc' \in [Caller -> Places] /\ outcome' \in [Caller -> Outcomes]
         /\ \A d \in Caller : pc'[d] \in {"send", "sent", "read"} => result[d] # Empty
BY Constants DEF TypeOK, ReplyOK, Fail, Return

LEMMA TypeStep ==
  ASSUME TypeOK, [Next]_vars
  PROVE  TypeOK'
<1> USE DEF TypeOK
<1>1. ASSUME NEW content \in Content, Auth!Rewrite(content)
      PROVE  /\ file' \in Content /\ asked' \subseteq Caller
             /\ may' \in [Caller -> SUBSET Content]
             /\ result' = result
  BY <1>1 DEF Auth!Rewrite
<1>2. CASE Start
  <2>1. secret + 1 \in 0 .. MaxStarts
    BY <1>2, FileAssumption DEF Start
  <2>2. Cookie(secret + 1, "no_colon") \in Content
    BY <2>1, Constants DEF Forms
  <2>3. QED
    BY <1>1, <1>2, <2>1, <2>2 DEF Start, call
<1>a. CASE WriteCookie
  <2>1. Cookie(secret, "cut") \in Content
    BY Constants DEF Forms
  <2>2. QED
    BY <1>1, <1>a, <2>1 DEF WriteCookie, call, server
<1>3. CASE Serve
  <2>1. Whole(secret) \in Content
    BY Constants DEF Usable
  <2>2. QED
    BY <1>1, <1>3, <2>1 DEF Serve, call
<1>4. CASE Stop
  <2>1. file' \in Content /\ asked' \subseteq Caller /\ may' \in [Caller -> SUBSET Content]
        /\ result' = result
    BY <1>1, <1>4, Constants DEF Stop, credentials
  <2>2. QED
    BY <1>4, <2>1 DEF Stop
<1>5. ASSUME NEW c \in Caller, Answer(c) PROVE TypeOK'
  <2>1. PICK r \in IF result[c] = Whole(secret)
                   THEN Results(request[c]) \cup Errors \cup Strays
                   ELSE {Unauthorized} :
              reply' = [reply EXCEPT ![c] = r] /\ did' = [did EXCEPT ![c] = Done(r)]
    BY <1>5 DEF Answer
  <2>2. Done(r) \in {"nothing", "executed", "refused", "not_served"}
    BY DEF Done
  <2>3. r.status \in Statuses /\ r.body \in Bodies
    BY <2>1 DEF Results, Errors, Strays, Unauthorized, Statuses, Bodies
  <2>4. r.body = "result" /\ request[c].wants => r.payload \in Payloads[request[c].method]
    BY <2>1 DEF Results, Errors, Strays, Unauthorized
  <2>5. \A d \in Caller :
          /\ reply'[d].status \in Statuses /\ reply'[d].body \in Bodies
          /\ reply'[d].body = "result" /\ request[d].wants =>
                reply'[d].payload \in Payloads[request[d].method]
    BY <2>1, <2>3, <2>4
  <2>6. QED
    BY <1>5, <2>1, <2>2, <2>5 DEF Answer, credentials, server
<1>6. ASSUME NEW c \in Caller, Call(c) PROVE TypeOK'
  <2>1. CASE Begin(c)
    <3>1. PICK q \in Requests : request' = [request EXCEPT ![c] = q]
      BY <2>1 DEF Begin, NewCall
    <3>2. request' \in [Caller -> Requests]
      BY <3>1
    <3>3. ReplyOK'
      BY <2>1, <3>1, Constants DEF Begin, NewCall, ReplyOK
    <3>4. asked' \subseteq Caller /\ may' \in [Caller -> SUBSET Content]
          /\ result' \in [Caller -> Usable \cup {Empty}] /\ file' = file
          /\ \A d \in Caller : d # c => result'[d] = result[d]
      BY <2>1, Constants DEF Begin, Auth!Ask
    <3>5. QED
      BY <2>1, <3>1, <3>2, <3>3, <3>4 DEF Begin, NewCall, ReplyOK, server
  <2>2. CASE Granted(c)
    <3>1. /\ asked' \subseteq Caller /\ may' = may /\ file' = file
          /\ result' \in [Caller -> Usable \cup {Empty}] /\ result'[c] # Empty
          /\ \A d \in Caller : d # c => result'[d] = result[d]
      BY <2>2, Constants DEF Granted, Auth!Grant
    <3>2. QED
      BY <2>2, <3>1 DEF Granted, server
  <2>3. CASE Denied(c)
    <3>1. /\ asked' \subseteq Caller /\ may' = may /\ file' = file
          /\ result' \in [Caller -> Usable \cup {Empty}]
          /\ \A d \in Caller : d # c => result'[d] = result[d]
      BY <2>3, Constants DEF Denied, Auth!Deny
    <3>2. outcome' \in [Caller -> Outcomes]
      BY <2>3 DEF Denied, Return, Outcomes
    <3>3. QED
      BY <2>3, <3>1, <3>2 DEF Denied, Return, server
  <2>4. CASE Send(c)
    BY <2>4 DEF Send, credentials, server
  <2>5. CASE NotSent(c) \/ ConnectionLost(c) \/ TimeOut(c)
    <3>1. "transport" \in Outcomes
      BY DEF Outcomes
    <3>2. Fail(c, "transport") /\ UNCHANGED << credentials, server, request, lost, did, steady, published >>
      BY <2>5 DEF NotSent, ConnectionLost, TimeOut
    <3>3. QED
      BY <3>1, <3>2, FailStep DEF ReplyOK, credentials, server
  <2>6. CASE Receive(c)
    <3>1. Outcome(request[c], reply[c]) \in Outcomes
      BY DEF Outcome, Decoding, Outcomes
    <3>2. outcome' \in [Caller -> Outcomes] /\ pc' = [pc EXCEPT ![c] = "idle"]
      BY <2>6, <3>1 DEF Receive, Return
    <3>3. DOMAIN published' = Caller
      BY <2>6 DEF Receive
    <3>4. UNCHANGED << credentials, server, request, lost, reply, did, steady >>
      BY <2>6 DEF Receive
    <3>5. QED
      BY <3>2, <3>3, <3>4 DEF credentials, server
  <2>7. QED
    BY <1>6, <2>1, <2>2, <2>3, <2>4, <2>5, <2>6 DEF Call
<1>7. CASE UNCHANGED vars
  BY <1>7 DEF vars, credentials, server, call
<1>8. QED
  BY <1>2, <1>3, <1>4, <1>5, <1>6, <1>7, <1>a DEF Next

\* The variables always have their types, and no request lacks credentials.
THEOREM TypeCorrect == Spec => []TypeOK
<1>1. TypeOK /\ [Next]_vars => TypeOK'
  BY TypeStep
<1>2. QED
  BY <1>1, TypeInit, PTL DEF Spec

-----------------------------------------------------------------------------
(* Outcomes.                                                               *)

\* A call that is read has the answer the node gave to it.
AnswerInv ==
    \A c \in Caller :
        pc[c] = "read" =>
            /\ did[c] = Done(reply[c])
            /\ reply[c].body # "none"
            /\ reply[c].body = "result" => reply[c].status = 200
            /\ reply[c].body = "error" => reply[c] \in Errors \cup Strays

NothingDone ==
    \A c \in Caller : pc[c] \in {"credentials", "send", "sent"} => did[c] = "nothing"

OutcomeInv == AnswerInv /\ NothingDone /\ OutcomeIsTheNodes

LEMMA OutcomeInit == Init => OutcomeInv
BY DEF Init, OutcomeInv, AnswerInv, NothingDone, OutcomeIsTheNodes, Returned, Probe

\* do reads an answer for what it is.
LEMMA Understood ==
  ASSUME NEW q, NEW r, r.body \in Bodies, r.body # "none",
         r.body = "error" => r \in Errors \cup Strays
  PROVE  /\ Outcome(q, r) = "ok" /\ q.wants => Done(r) = "executed"
         /\ Outcome(q, r) = "rpc_error" => Done(r) = "refused" \/ r \in Strays
         /\ Done(r) = "refused" => Outcome(q, r) = "rpc_error"
<1>1. r \in Errors => r.body = "error" /\ r.status # 401
  BY DEF Errors
<1>2. QED
  BY <1>1 DEF Outcome, Decoding, Done, Bodies

LEMMA OutcomeStep ==
  ASSUME TypeOK, OutcomeInv, [Next]_vars
  PROVE  OutcomeInv'
<1> USE DEF TypeOK, OutcomeInv, AnswerInv, NothingDone, OutcomeIsTheNodes, Returned
<1>1. CASE Start \/ WriteCookie \/ Serve
  BY <1>1 DEF Start, WriteCookie, Serve, call, server
<1>2. CASE Stop
  BY <1>2 DEF Stop
<1>3. ASSUME NEW c \in Caller, Answer(c) PROVE OutcomeInv'
  <2>1. PICK r \in IF result[c] = Whole(secret)
                   THEN Results(request[c]) \cup Errors \cup Strays
                   ELSE {Unauthorized} :
              reply' = [reply EXCEPT ![c] = r] /\ did' = [did EXCEPT ![c] = Done(r)]
    BY <1>3 DEF Answer
  <2>2. /\ r.body # "none"
        /\ r.body = "result" => r.status = 200
        /\ r.body = "error" => r \in Errors \cup Strays
    BY <2>1 DEF Results, Errors, Strays, Unauthorized
  <2>3. QED
    BY <1>3, <2>1, <2>2 DEF Answer
<1>4. ASSUME NEW c \in Caller, Begin(c) PROVE OutcomeInv'
  BY <1>4 DEF Begin, NewCall
<1>5. ASSUME NEW c \in Caller, Granted(c) \/ Denied(c) \/ Send(c) PROVE OutcomeInv'
  BY <1>5 DEF Granted, Denied, Send, Return
<1>6. ASSUME NEW c \in Caller, NotSent(c) \/ ConnectionLost(c) \/ TimeOut(c) PROVE OutcomeInv'
  BY <1>6 DEF NotSent, ConnectionLost, TimeOut, Fail, Return
<1>7. ASSUME NEW c \in Caller, Receive(c) PROVE OutcomeInv'
  <2>1. /\ Outcome(request[c], reply[c]) = "ok" /\ request[c].wants => did[c] = "executed"
        /\ Outcome(request[c], reply[c]) = "rpc_error"
              => did[c] = "refused" \/ reply[c] \in Strays
        /\ did[c] = "refused" => Outcome(request[c], reply[c]) = "rpc_error"
    BY <1>7, Understood DEF Receive
  <2>2. /\ pc' = [pc EXCEPT ![c] = "idle"]
        /\ outcome' = [outcome EXCEPT ![c] = Outcome(request[c], reply[c])]
        /\ UNCHANGED << request, reply, did >>
    BY <1>7 DEF Receive, Return
  <2>3. QED
    BY <2>1, <2>2
<1>8. CASE UNCHANGED vars
  BY <1>8 DEF vars, call
<1>9. QED
  BY <1>1, <1>2, <1>3, <1>4, <1>5, <1>6, <1>7, <1>8 DEF Next, Call

\* A collector takes a call for a success only if the node executed it; for a
\* refusal whenever the node refused it and the answer arrived, and otherwise
\* only if a proxy gave an error of its own (client.go, the checks of do).
THEOREM OutcomeIsTheNodesHolds == Spec => []OutcomeIsTheNodes
<1>1. OutcomeInv => OutcomeIsTheNodes
  BY DEF OutcomeInv
<1>2. TypeOK /\ OutcomeInv /\ [Next]_vars => OutcomeInv'
  BY OutcomeStep
<1>3. QED
  BY <1>1, <1>2, TypeCorrect, OutcomeInit, PTL DEF Spec

-----------------------------------------------------------------------------
(* Credentials of a node that stays up.                                    *)

\* For as long as the node has been ready since a call began, all the call
\* can have seen is the cookie that the node accepts.
SteadyInv ==
    \A c \in steady :
        /\ Ready
        /\ pc[c] = "credentials" => may[c] = {Whole(secret)}
        /\ pc[c] \in {"send", "sent"} => result[c] = Whole(secret)
        /\ pc[c] = "read" => reply[c].status # 401
        /\ pc[c] = "idle" => outcome[c] \notin {"no_credentials", "unauthorized"}

LEMMA SteadyInit == Init => SteadyInv
BY DEF Init, SteadyInv

LEMMA SteadyStep ==
  ASSUME TypeOK, SteadyInv, [Next]_vars
  PROVE  SteadyInv'
<1> USE DEF TypeOK, SteadyInv, Ready
<1>1. CASE Start \/ WriteCookie \/ Serve
  BY <1>1 DEF Start, WriteCookie, Serve, call, server
<1>2. CASE Stop
  BY <1>2 DEF Stop
<1>3. ASSUME NEW c \in Caller, Answer(c) PROVE SteadyInv'
  <2>1. PICK r \in IF result[c] = Whole(secret)
                   THEN Results(request[c]) \cup Errors \cup Strays
                   ELSE {Unauthorized} :
              reply' = [reply EXCEPT ![c] = r]
    BY <1>3 DEF Answer
  <2>2. c \in steady => r.status # 401
    BY <1>3, <2>1 DEF Answer, Results, Errors, Strays
  <2>3. QED
    BY <1>3, <2>1, <2>2 DEF Answer, credentials, server
<1>4. ASSUME NEW c \in Caller, Begin(c) PROVE SteadyInv'
  BY <1>4 DEF Begin, NewCall, Auth!Ask, server
<1>5. ASSUME NEW c \in Caller, Granted(c) PROVE SteadyInv'
  BY <1>5 DEF Granted, Auth!Grant, server
<1>6. ASSUME NEW c \in Caller, Denied(c) PROVE SteadyInv'
  <2>1. c \notin steady
    <3>1. Whole(secret) \in Usable
      BY Constants
    <3>2. ~ (may[c] \subseteq Usable)
      BY <1>6 DEF Denied, Auth!Deny
    <3>3. QED
      BY <1>6, <3>1, <3>2 DEF Denied
  <2>2. QED
    BY <1>6, <2>1 DEF Denied, Auth!Deny, Return, server
<1>7. ASSUME NEW c \in Caller, Send(c) PROVE SteadyInv'
  BY <1>7 DEF Send, credentials, server
<1>8. ASSUME NEW c \in Caller, NotSent(c) \/ ConnectionLost(c) \/ TimeOut(c) PROVE SteadyInv'
  BY <1>8 DEF NotSent, ConnectionLost, TimeOut, Fail, Return, credentials, server
<1>9. ASSUME NEW c \in Caller, Receive(c) PROVE SteadyInv'
  <2>1. /\ Outcome(request[c], reply[c]) # "no_credentials"
        /\ Outcome(request[c], reply[c]) = "unauthorized" => reply[c].status = 401
    BY DEF Outcome, Decoding
  <2>2. /\ pc[c] = "read" /\ pc' = [pc EXCEPT ![c] = "idle"]
        /\ outcome' = [outcome EXCEPT ![c] = Outcome(request[c], reply[c])]
        /\ UNCHANGED << credentials, server, reply, steady >>
    BY <1>9 DEF Receive, Return
  <2>3. QED
    BY <2>1, <2>2 DEF credentials, server
<1>10. CASE UNCHANGED vars
  BY <1>10 DEF vars, credentials, server, call
<1>11. QED
  BY <1>1, <1>2, <1>3, <1>4, <1>5, <1>6, <1>7, <1>8, <1>9, <1>10 DEF Next, Call

\* While the node stays up no call fails for its credentials, however often
\* the cookie has changed before.
THEOREM SteadyNodeAuthorizesHolds == Spec => []SteadyNodeAuthorizes
<1>1. SteadyInv => SteadyNodeAuthorizes
  BY DEF SteadyInv, SteadyNodeAuthorizes, Returned
<1>2. TypeOK /\ SteadyInv /\ [Next]_vars => SteadyInv'
  BY SteadyStep
<1>3. QED
  BY <1>1, <1>2, TypeCorrect, SteadyInit, PTL DEF Spec

-----------------------------------------------------------------------------
(* What is published.                                                      *)

DerivedNames ==
    {"blocks_behind", "chainwork", "answered_blocks", "fill_ratio", "scanning_progress"}

\* The optional fields, and the two with a decoder of their own, have a gauge
\* each, which no other gauge is named like.
LEMMA OwnGauges ==
  ASSUME NEW m \in Method, NEW f \in Struct[m].optional \cup {"warnings", "scanning"}
  PROVE  /\ f \notin Inner(m) /\ f \notin DerivedNames
         /\ f \in {"warnings", "scanning"} => f \notin Struct[m].optional
<1>1. m \in { "getblockchaininfo", "estimatesmartfee", "getmempoolinfo", "getmininginfo",
              "getblockstats", "getnetworkinfo", "getnettotals", "getpeerinfo",
              "getwalletinfo", "getbalances" }
  BY DEF Method, Struct
<1> USE DEF Struct, Inner, DerivedNames
<1>2. CASE m = "getblockchaininfo"
  BY <1>2 DEF BlockchainInfo
<1>3. CASE m = "estimatesmartfee"
  BY <1>3 DEF FeeEstimate
<1>4. CASE m = "getmempoolinfo"
  BY <1>4 DEF MempoolInfo
<1>5. CASE m = "getmininginfo"
  BY <1>5 DEF MiningInfo
<1>6. CASE m = "getblockstats"
  BY <1>6 DEF BlockStatistics
<1>7. CASE m = "getnetworkinfo"
  BY <1>7 DEF NetworkInfo
<1>8. CASE m = "getnettotals"
  BY <1>8 DEF NetTotals
<1>9. CASE m = "getpeerinfo"
  BY <1>9 DEF PeerInfo
<1>10. CASE m = "getwalletinfo"
  BY <1>10 DEF WalletInfo
<1>11. CASE m = "getbalances"
  BY <1>11 DEF Balances
<1>12. QED
  BY <1>1, <1>2, <1>3, <1>4, <1>5, <1>6, <1>7, <1>8, <1>9, <1>10, <1>11

LEMMA DerivedNamed ==
  ASSUME NEW m \in Method, NEW info, NEW g \in Derived(m, info)
  PROVE  g.name \in DerivedNames
BY DEF Derived, Only, Gauge, DerivedNames

\* A payload has the fields of its method.
LEMMA PayloadFields ==
  ASSUME NEW m \in Method, NEW p \in Payloads[m]
  PROVE  DOMAIN p = FieldsOf(m)
BY DEF Payloads

\* Whatever the node sent in any of the fields, a gauge of an optional field
\* says it, and is missing if it sent nothing; one of warnings or of scanning
\* is always there.
LEMMA PublishedSays ==
  ASSUME NEW m \in Method, NEW p, DOMAIN p = FieldsOf(m), Decodes(p),
         NEW f \in DOMAIN p,
         f \in Struct[m].optional \/ f \in {"warnings", "scanning"}
  PROVE  { g.value : g \in { h \in Published(m, Decode(m, p)) : h.name = f } }
           = IF f \in Struct[m].optional THEN {Says(p[f])} \ {"nothing"}
             ELSE {IF Says(p[f]) = "value" THEN "value" ELSE "zero"}
<1> DEFINE info == Decode(m, p)
           shown == { g.value : g \in { h \in Published(m, info) : h.name = f } }
<1>1. info[f] = Decoded(m, f, p[f]) /\ p[f] # "wrong"
  BY DEF Decode, Decodes
<1>2. f \in FieldsOf(m) \ Inner(m) /\ f \notin DerivedNames
  BY OwnGauges
<1>3. { h \in Published(m, info) : h.name = f }
         = IF info[f] = "nil" THEN {} ELSE { Gauge(f, {f}, info[f]) }
  <2>1. \A h \in Derived(m, info) : h.name # f
    BY <1>2, DerivedNamed
  <2>2. \A k, from, value : Gauge(k, from, value).name = k
    BY DEF Gauge
  <2> HIDE DEF info
  <2>3. { h \in Own(m, info) : h.name = f }
           = IF info[f] = "nil" THEN {} ELSE { Gauge(f, {f}, info[f]) }
    <3> DEFINE Shown == { k \in FieldsOf(m) \ Inner(m) : info[k] # "nil" }
    <3>1. Own(m, info) = { Gauge(k, {k}, info[k]) : k \in Shown }
      BY DEF Own
    <3>2. f \in Shown <=> info[f] # "nil"
      BY <1>2
    <3> HIDE DEF Shown
    <3>3. ASSUME NEW h PROVE h \in Own(m, info) /\ h.name = f
                             <=> f \in Shown /\ h = Gauge(f, {f}, info[f])
      <4>1. ASSUME h \in Own(m, info), h.name = f
            PROVE  f \in Shown /\ h = Gauge(f, {f}, info[f])
        <5>1. PICK k \in Shown : h = Gauge(k, {k}, info[k])
          BY <3>1, <4>1
        <5>2. k = f
          BY <2>2, <4>1, <5>1
        <5>3. QED
          BY <5>1, <5>2
      <4>2. ASSUME f \in Shown, h = Gauge(f, {f}, info[f])
            PROVE  h \in Own(m, info) /\ h.name = f
        <5>1. h.name = f
          BY <2>2, <4>2
        <5>2. \E k \in Shown : h = Gauge(k, {k}, info[k])
          BY <4>2
        <5>3. QED
          BY <3>1, <5>1, <5>2
      <4>3. QED
        BY <4>1, <4>2
    <3>4. QED
      BY <3>2, <3>3
  <2>4. QED
    BY <2>1, <2>3 DEF Published
<1>4. shown = IF info[f] = "nil" THEN {} ELSE { info[f] }
  <2>1. Gauge(f, {f}, info[f]).value = info[f]
    BY DEF Gauge
  <2>2. QED
    BY <1>3, <2>1
<1> HIDE DEF shown, info
<1>5. CASE f \in Struct[m].optional
  <2>1. info[f] = IF Says(p[f]) = "nothing" THEN "nil" ELSE Says(p[f])
    BY <1>1, <1>5 DEF Decoded, Says, Unsent
  <2>2. Says(p[f]) \in {"nothing", "zero", "value"}
    BY DEF Says
  <2>3. QED
    BY <1>4, <1>5, <2>1, <2>2 DEF shown, info
<1>6. CASE f \notin Struct[m].optional
  <2>1. info[f] = IF Says(p[f]) = "value" THEN "value" ELSE "zero"
    BY <1>1, <1>6 DEF Decoded, Says, Unsent
  <2>2. QED
    BY <1>4, <1>6, <2>1 DEF shown, info
<1>7. QED
  BY <1>5, <1>6

\* What is published is what was decoded from the answer to this very call.
PublishedInv ==
    \A c \in Caller :
        /\ pc[c] # "idle" => published[c] = {}
        /\ pc[c] = "read" => did[c] = Done(reply[c])
        /\ pc[c] = "idle" /\ did[c] = "executed" /\ outcome[c] = "decode" =>
              ~ Decodes(reply[c].payload)
        /\ published[c] # {} =>
              /\ request[c].method \in Method
              /\ reply[c].payload \in Payloads[request[c].method]
              /\ Decodes(reply[c].payload)
              /\ published[c] = Published(request[c].method,
                                   Decode(request[c].method, reply[c].payload))

LEMMA PublishedInit == Init => PublishedInv
BY DEF Init, PublishedInv

LEMMA PublishedStep ==
  ASSUME TypeOK, PublishedInv, [Next]_vars
  PROVE  PublishedInv'
<1> USE DEF TypeOK, PublishedInv
<1>1. CASE Start \/ WriteCookie \/ Serve
  BY <1>1 DEF Start, WriteCookie, Serve, call, server
<1>2. CASE Stop
  BY <1>2 DEF Stop
<1>3. ASSUME NEW c \in Caller, Answer(c) PROVE PublishedInv'
  <2>1. /\ published[c] = {} /\ UNCHANGED << request, published >>
        /\ pc' = [pc EXCEPT ![c] = "read"]
        /\ UNCHANGED outcome /\ did'[c] = Done(reply'[c])
        /\ \A d \in Caller : d # c => reply'[d] = reply[d] /\ did'[d] = did[d]
    BY <1>3 DEF Answer
  <2>2. QED
    BY <2>1
<1>4. ASSUME NEW c \in Caller, Begin(c) PROVE PublishedInv'
  BY <1>4 DEF Begin, NewCall
<1>5. ASSUME NEW c \in Caller, Granted(c) \/ Denied(c) \/ Send(c) PROVE PublishedInv'
  BY <1>5 DEF Granted, Denied, Send, Return
<1>6. ASSUME NEW c \in Caller, NotSent(c) \/ ConnectionLost(c) \/ TimeOut(c) PROVE PublishedInv'
  BY <1>6 DEF NotSent, ConnectionLost, TimeOut, Fail, Return
<1>7. ASSUME NEW c \in Caller, Receive(c) PROVE PublishedInv'
  <2> DEFINE q == request[c]
             r == reply[c]
             sent == IF q.wants /\ Outcome(q, r) = "ok"
                     THEN Published(q.method, Decode(q.method, r.payload)) ELSE {}
  <2>1. /\ pc' = [pc EXCEPT ![c] = "idle"]
        /\ published' = [published EXCEPT ![c] = sent]
        /\ outcome' = [outcome EXCEPT ![c] = Outcome(q, r)]
        /\ UNCHANGED << request, reply, did >>
        /\ did[c] = Done(r)
    BY <1>7 DEF Receive, Return
  <2>a. Done(r) = "executed" /\ Outcome(q, r) = "decode" => ~ Decodes(r.payload)
    BY DEF Done, Outcome, Decoding
  <2>2. ASSUME q.wants, Outcome(q, r) = "ok"
        PROVE  q.method \in Method /\ r.payload \in Payloads[q.method] /\ Decodes(r.payload)
    <3>1. r.body = "result" /\ Decodes(r.payload)
      BY <2>2 DEF Outcome, Decoding
    <3>2. q.method \in Method
      <4>1. q \in Requests /\ q # Probe
        BY <2>2 DEF Probe
      <4>2. QED
        BY <4>1 DEF Requests
    <3>3. QED
      BY <2>2, <3>1, <3>2
  <2>3. sent # {} => /\ q.method \in Method /\ r.payload \in Payloads[q.method]
                     /\ Decodes(r.payload)
                     /\ sent = Published(q.method, Decode(q.method, r.payload))
    BY <2>2
  <2> HIDE DEF sent
  <2>4. QED
    BY <2>1, <2>3, <2>a
<1>8. CASE UNCHANGED vars
  BY <1>8 DEF vars, call
<1>9. QED
  BY <1>1, <1>2, <1>3, <1>4, <1>5, <1>6, <1>7, <1>8 DEF Next, Call

\* No executed call is lost in decoding but for a field of the wrong type, and
\* what is published of an optional field, of warnings and of scanning is what
\* the node said in the answer to this call.
THEOREM PublishedAsSaidHolds == Spec => []PublishedAsSaid
<1>1. PublishedInv => PublishedAsSaid
  <2>a. PublishedInv => \A c \in Caller :
           Returned(c) /\ did[c] = "executed" /\ outcome[c] = "decode" =>
              \E f \in DOMAIN reply[c].payload : reply[c].payload[f] = "wrong"
    BY DEF PublishedInv, Returned, Decodes
  <2> SUFFICES ASSUME PublishedInv, NEW c \in Caller, published[c] # {},
                      NEW f \in DOMAIN reply[c].payload
               PROVE  LET p == reply[c].payload
                          m == request[c].method
                          shown == { g.value : g \in { h \in published[c] : h.name = f } }
                      IN  /\ f \in Struct[m].optional => shown = {Says(p[f])} \ {"nothing"}
                          /\ f \in {"warnings", "scanning"} =>
                                shown = {IF Says(p[f]) = "value" THEN "value" ELSE "zero"}
    BY <2>a DEF PublishedAsSaid
  <2> DEFINE p == reply[c].payload
             m == request[c].method
             shown == { g.value : g \in { h \in published[c] : h.name = f } }
  <2>1. m \in Method /\ DOMAIN p = FieldsOf(m) /\ Decodes(p)
    BY PayloadFields DEF PublishedInv
  <2>2. published[c] = Published(m, Decode(m, p))
    BY DEF PublishedInv
  <2>3. f \in {"warnings", "scanning"} => f \notin Struct[m].optional
    BY <2>1, OwnGauges
  <2> HIDE DEF p, m
  <2>4. f \in Struct[m].optional \/ f \in {"warnings", "scanning"} =>
           shown = IF f \in Struct[m].optional THEN {Says(p[f])} \ {"nothing"}
                   ELSE {IF Says(p[f]) = "value" THEN "value" ELSE "zero"}
    BY <2>1, <2>2, PublishedSays DEF p
  <2>5. QED
    BY <2>3, <2>4 DEF p, m
<1>2. TypeOK /\ PublishedInv /\ [Next]_vars => PublishedInv'
  BY PublishedStep
<1>3. QED
  BY <1>1, <1>2, TypeCorrect, PublishedInit, PTL DEF Spec

=============================================================================
