-------------------------- MODULE CookieAuthProofs --------------------------
(***************************************************************************)
(* Proofs about CookieAuth for any number of callers and of cookies.  The  *)
(* freshness theorems assume that no two writes get the same modification  *)
(* time; without that they are false, as a run shows.                      *)
(***************************************************************************)
EXTENDS CookieAuth, TLAPS

USE DEF Forms, Places

\* What the file may hold, and what of it can be credentials.
LEMMA Contents ==
  /\ Empty \in Content /\ Empty \notin Usable /\ Usable \subseteq Content
  /\ \A start \in 0 .. MaxStarts, form \in Forms : Cookie(start, form) \in Content
BY FileAssumption DEF Empty, Content, Usable, Cookie

\* The variables always have their types.
THEOREM TypeCorrect == Spec => []TypeOK
<1>1. Init => TypeOK
  <2>1. Empty \in Content /\ NoStamp \in Stamps
    BY Contents DEF NoStamp, Stamps
  <2>2. Init => file \in [content : Content, mtime : Nat]
    BY <2>1 DEF Init
  <2>3. Init => writes \in 0 .. MaxStarts /\ loaded \in BOOLEAN
    <3>1. 0 \in 0 .. MaxStarts
      BY FileAssumption
    <3>2. QED
      BY <3>1, Zenon DEF Init
  <2>4. Init => /\ pc \in [Caller -> Places]
                /\ info \in [Caller -> Stamps]
                /\ raw \in [Caller -> Usable \cup {Empty}]
                /\ result \in [Caller -> Usable \cup {Empty}]
                /\ seen \in [Caller -> SUBSET Content]
    BY <2>1 DEF Init
  <2>5. Init => /\ now \in Nat
                /\ mu \in Caller \cup {NoOne}
                /\ cache \in Usable \cup {Empty}
                /\ stamp \in Stamps
    BY <2>1 DEF Init
  <2>6. QED
    BY <2>2, <2>3, <2>4, <2>5 DEF TypeOK
<1>2. TypeOK /\ [Next]_vars => TypeOK'
  <2> SUFFICES ASSUME TypeOK, [Next]_vars PROVE TypeOK'
    OBVIOUS
  <2> USE DEF TypeOK
  <2>1. ASSUME NEW content \in Content, Write(content), writes' \in 0 .. MaxStarts
        PROVE  TypeOK'
    <3>1. now' \in Nat
      BY <2>1, CookieAssumption DEF Write
    <3>2. file' \in [content : Content, mtime : Nat]
      BY <2>1, <3>1 DEF Write
    <3>3. seen' \in [Caller -> SUBSET Content]
      BY <2>1 DEF Write
    <3>4. QED
      BY <2>1, <3>1, <3>2, <3>3 DEF Write, shared, private
  <2>2. CASE BeginCookie
    <3>1. Cookie(writes + 1, "no_colon") \in Content /\ writes' \in 0 .. MaxStarts
      <4>1. writes + 1 \in 0 .. MaxStarts
        BY <2>2, FileAssumption DEF BeginCookie
      <4>2. QED
        BY <2>2, <4>1, Contents DEF BeginCookie
    <3>2. QED
      BY <2>1, <2>2, <3>1 DEF BeginCookie
  <2>3. CASE ContinueCookie
    <3>1. Cookie(writes, "cut") \in Content /\ Cookie(writes, "whole") \in Content
      BY Contents
    <3>2. QED
      BY <2>1, <2>3, <3>1 DEF ContinueCookie
  <2>4. CASE RemoveCookie
    <3>1. Empty \in Content
      BY Contents
    <3>2. QED
      BY <2>1, <2>4, <3>1 DEF RemoveCookie
  <2>5. Empty \in Content /\ file.content \in Content /\ Stat \in Stamps
    BY Contents DEF Stat, Stamps, Size
  <2>6. ASSUME NEW c \in Caller, Call(c) \/ Lock(c) PROVE TypeOK'
    BY <2>5, <2>6 DEF Call, Lock, node, shared
  <2>7. ASSUME NEW c \in Caller, Step(c) PROVE TypeOK'
    <3>1. ASSUME NEW v \in Usable \cup {Empty}, Return(c, v)
          PROVE  /\ result' \in [Caller -> Usable \cup {Empty}]
                 /\ pc' \in [Caller -> Places]
                 /\ mu' \in Caller \cup {NoOne}
      BY <3>1 DEF Return
    <3>2. CASE StatFails(c) \/ StatMatches(c) \/ ReadFails(c)
      BY <2>5, <3>1, <3>2 DEF StatFails, StatMatches, ReadFails, node
    <3>3. CASE StatDiffers(c)
      BY <2>5, <3>3 DEF StatDiffers, node, shared
    <3>4. CASE ReadFile(c) \/ StoreCredentials(c)
      BY <2>5, <3>4 DEF ReadFile, StoreCredentials, node, shared
    <3>5. CASE StoreStamp(c)
      BY <3>1, <3>5 DEF StoreStamp, node
    <3>6. QED
      BY <2>7, <3>2, <3>3, <3>4, <3>5 DEF Step
  <2>8. CASE UNCHANGED vars
    BY <2>8 DEF vars, node, shared, private
  <2>9. QED
    BY <2>2, <2>3, <2>4, <2>6, <2>7, <2>8 DEF Next
<1>3. QED
  BY <1>1, <1>2, PTL DEF Spec

-----------------------------------------------------------------------------
(* The mutex.                                                              *)

MutexInv ==
    \A c \in Caller : pc[c] \in {"stat", "read", "store", "stamp"} <=> mu = c

LEMMA MutexInit == Init => MutexInv
BY CookieAssumption DEF Init, MutexInv

LEMMA MutexStep ==
  ASSUME TypeOK, MutexInv, [Next]_vars
  PROVE  MutexInv'
<1> USE CookieAssumption DEF MutexInv, TypeOK
<1>1. CASE BeginCookie \/ ContinueCookie \/ RemoveCookie
  BY <1>1 DEF BeginCookie, ContinueCookie, RemoveCookie, Write, shared, private
<1>2. ASSUME NEW c \in Caller, Call(c) PROVE MutexInv'
  BY <1>2 DEF Call, shared
<1>3. ASSUME NEW c \in Caller, Lock(c) PROVE MutexInv'
  BY <1>3 DEF Lock
<1>4. ASSUME NEW c \in Caller, Step(c) PROVE MutexInv'
  BY <1>4 DEF Step, StatFails, StatMatches, StatDiffers, ReadFails, ReadFile,
              StoreCredentials, StoreStamp, Return, shared
<1>5. CASE UNCHANGED vars
  BY <1>5 DEF vars, shared, private
<1>6. QED
  BY <1>1, <1>2, <1>3, <1>4, <1>5 DEF Next

-----------------------------------------------------------------------------
(* Freshness.                                                              *)

\* With a fine clock the file's time is the clock's, so that whatever carries
\* that time was taken from the file as it is: a stamp vouches for the cache,
\* and what a Stat reported vouches for what was read after it.
FreshInv ==
    /\ file.mtime = now
    /\ stamp.mtime <= now
    /\ loaded /\ stamp.mtime = now /\ (\A c \in Caller : pc[c] # "stamp") =>
          cache = file.content
    /\ \A c \in Caller :
        /\ info[c].mtime <= now
        /\ pc[c] = "store" /\ info[c].mtime = now => raw[c] = file.content
        /\ pc[c] = "stamp" /\ info[c].mtime = now => cache = file.content

\* What a call is about to return, or has returned, is among what it can have
\* seen in the file.
SeenInv ==
    \A c \in Caller :
        /\ pc[c] # "idle" => file.content \in seen[c]
        /\ pc[c] = "store" => raw[c] \in seen[c]
        /\ pc[c] = "stamp" => cache \in seen[c]
        /\ pc[c] = "idle" /\ result[c] # Empty => result[c] \in seen[c]

LEMMA FreshInit == Init => FreshInv /\ SeenInv
BY DEF Init, FreshInv, SeenInv, NoStamp, Empty

LEMMA WriteKeepsFresh ==
  ASSUME TypeOK, FreshInv, SeenInv, ~ CoarseClock, NEW content, Write(content)
  PROVE  FreshInv' /\ SeenInv'
<1>1. now' = now + 1 /\ file' = [content |-> content, mtime |-> now']
  BY DEF Write
<1>2. UNCHANGED << cache, stamp, loaded, pc, info, raw, result >>
  BY DEF Write, shared, private
<1>3. FreshInv'
  BY <1>1, <1>2 DEF FreshInv, TypeOK, Stamps
<1>4. SeenInv'
  BY <1>1, <1>2 DEF SeenInv, Write, TypeOK
<1>5. QED
  BY <1>3, <1>4

LEMMA FreshStep ==
  ASSUME TypeOK, MutexInv, FreshInv, SeenInv, ~ CoarseClock, [Next]_vars
  PROVE  FreshInv' /\ SeenInv'
<1>1. CASE BeginCookie \/ ContinueCookie \/ RemoveCookie
  BY <1>1, WriteKeepsFresh DEF BeginCookie, ContinueCookie, RemoveCookie
<1>2. ASSUME NEW c \in Caller, Call(c) PROVE FreshInv' /\ SeenInv'
  BY <1>2 DEF Call, node, shared, FreshInv, SeenInv, TypeOK
<1>3. ASSUME NEW c \in Caller, Lock(c) PROVE FreshInv' /\ SeenInv'
  BY <1>3 DEF Lock, node, FreshInv, SeenInv, TypeOK
<1>4. ASSUME NEW c \in Caller, StatFails(c) PROVE FreshInv' /\ SeenInv'
  BY <1>4 DEF StatFails, Return, node, FreshInv, SeenInv, TypeOK
<1>5. ASSUME NEW c \in Caller, StatMatches(c) PROVE FreshInv' /\ SeenInv'
  <2>1. cache = file.content
    BY <1>5 DEF StatMatches, Stat, FreshInv, MutexInv, TypeOK
  <2>2. QED
    BY <1>5, <2>1 DEF StatMatches, Return, node, FreshInv, SeenInv, TypeOK
<1>6. ASSUME NEW c \in Caller, StatDiffers(c) PROVE FreshInv' /\ SeenInv'
  BY <1>6 DEF StatDiffers, Stat, node, shared, FreshInv, SeenInv, TypeOK
<1>7. ASSUME NEW c \in Caller, ReadFails(c) PROVE FreshInv' /\ SeenInv'
  BY <1>7 DEF ReadFails, Return, node, FreshInv, SeenInv, TypeOK
<1>8. ASSUME NEW c \in Caller, ReadFile(c) PROVE FreshInv' /\ SeenInv'
  BY <1>8 DEF ReadFile, node, shared, FreshInv, SeenInv, TypeOK
<1>9. ASSUME NEW c \in Caller, StoreCredentials(c) PROVE FreshInv' /\ SeenInv'
  BY <1>9 DEF StoreCredentials, node, FreshInv, SeenInv, MutexInv, TypeOK
<1>10. ASSUME NEW c \in Caller, StoreStamp(c) PROVE FreshInv' /\ SeenInv'
  BY <1>10 DEF StoreStamp, Return, node, FreshInv, SeenInv, MutexInv, TypeOK
<1>11. CASE UNCHANGED vars
  BY <1>11 DEF vars, node, shared, private, FreshInv, SeenInv
<1>12. QED
  BY <1>1, <1>2, <1>3, <1>4, <1>5, <1>6, <1>7, <1>8, <1>9, <1>10, <1>11 DEF Next, Step

\* No call ever returns credentials the file did not hold during the call.
THEOREM NeverStaleHolds ==
  ASSUME ~ CoarseClock
  PROVE  Spec => []NeverStale
<1>1. SeenInv => NeverStale
  BY DEF SeenInv, NeverStale
<1>2. TypeOK /\ MutexInv /\ FreshInv /\ SeenInv /\ [Next]_vars => FreshInv' /\ SeenInv'
  BY FreshStep
<1>3. QED
  BY <1>1, <1>2, TypeCorrect, MutexInit, MutexStep, FreshInit, PTL DEF Spec

\* A stamp that matches the file always belongs to what the cache holds.
THEOREM CacheCoherentHolds ==
  ASSUME ~ CoarseClock
  PROVE  Spec => []CacheCoherent
<1>1. TypeOK /\ MutexInv /\ FreshInv => CacheCoherent
  BY CookieAssumption DEF TypeOK, MutexInv, FreshInv, CacheCoherent, Stat
<1>2. TypeOK /\ MutexInv /\ FreshInv /\ SeenInv /\ [Next]_vars => FreshInv' /\ SeenInv'
  BY FreshStep
<1>3. QED
  BY <1>1, <1>2, TypeCorrect, MutexInit, MutexStep, FreshInit, PTL DEF Spec

\* Whoever holds the mutex is inside Credentials.
THEOREM NoAbandonedLockHolds == Spec => []NoAbandonedLock
<1>1. TypeOK /\ MutexInv => NoAbandonedLock
  BY DEF TypeOK, MutexInv, NoAbandonedLock
<1>2. TypeOK /\ MutexInv /\ [Next]_vars => MutexInv'
  BY MutexStep
<1>3. QED
  BY <1>1, <1>2, TypeCorrect, MutexInit, PTL DEF Spec

-----------------------------------------------------------------------------
(* The refinement of Authenticator.                                        *)

\* Only what has a colon is ever kept.
UsableInv ==
    /\ loaded => cache \in Usable
    /\ \A c \in Caller :
        /\ pc[c] = "store" => raw[c] \in Usable
        /\ pc[c] = "stamp" => cache \in Usable

LEMMA UsableInit == Init => UsableInv
BY DEF Init, UsableInv

LEMMA UsableStep ==
  ASSUME TypeOK, MutexInv, UsableInv, [Next]_vars
  PROVE  UsableInv'
<1> USE DEF UsableInv, TypeOK
<1>1. CASE BeginCookie \/ ContinueCookie \/ RemoveCookie
  BY <1>1 DEF BeginCookie, ContinueCookie, RemoveCookie, Write, shared, private
<1>2. ASSUME NEW c \in Caller, Call(c) \/ Lock(c) PROVE UsableInv'
  BY <1>2 DEF Call, Lock, shared
<1>3. ASSUME NEW c \in Caller, StatFails(c) \/ StatMatches(c) \/ ReadFails(c) PROVE UsableInv'
  BY <1>3 DEF StatFails, StatMatches, ReadFails, Return
<1>4. ASSUME NEW c \in Caller, StatDiffers(c) PROVE UsableInv'
  BY <1>4 DEF StatDiffers, shared
<1>5. ASSUME NEW c \in Caller, ReadFile(c) PROVE UsableInv'
  BY <1>5 DEF ReadFile, Usable, shared
<1>6. ASSUME NEW c \in Caller, StoreCredentials(c) PROVE UsableInv'
  BY <1>6 DEF StoreCredentials, MutexInv
<1>7. ASSUME NEW c \in Caller, StoreStamp(c) PROVE UsableInv'
  BY <1>7 DEF StoreStamp, Return
<1>8. CASE UNCHANGED vars
  BY <1>8 DEF vars, shared, private
<1>9. QED
  BY <1>1, <1>2, <1>3, <1>4, <1>5, <1>6, <1>7, <1>8 DEF Next, Step

LEMMA PromiseInit == Init => Promise!Init
<1>1. Empty \in Content
  BY Contents
<1>2. QED
  BY <1>1 DEF Init, Promise!Init

LEMMA WriteIsRewrite ==
  ASSUME TypeOK, NEW content \in Content, Write(content)
  PROVE  Promise!Rewrite(content)
BY DEF Write, Promise!Rewrite, TypeOK, shared, private

LEMMA ReturnGrants ==
  ASSUME TypeOK, SeenInv, NEW c \in Caller, pc[c] # "idle", UNCHANGED << file, seen >>,
         NEW v \in Usable, v \in seen[c], Return(c, v)
  PROVE  Promise!Grant(c)
BY DEF Return, Promise!Grant, TypeOK, Usable

LEMMA ReturnDenies ==
  ASSUME TypeOK, SeenInv, NEW c \in Caller, pc[c] # "idle", UNCHANGED << file, seen >>,
         file.content \notin Usable, Return(c, Empty)
  PROVE  Promise!Deny(c)
BY DEF Return, Promise!Deny, TypeOK, SeenInv, Usable

\* Each step of Credentials is a step of Authenticator or hidden from it.
LEMMA PromiseStep ==
  ASSUME TypeOK, MutexInv, FreshInv, SeenInv, UsableInv, [Next]_vars
  PROVE  [Promise!Next]_(Promise!auth)
<1> USE DEF Promise!Next, Promise!auth
<1>1. CASE BeginCookie \/ ContinueCookie \/ RemoveCookie
  <2>1. PICK content \in Content : Write(content)
    <3>1. CASE BeginCookie
      <4>1. writes + 1 \in 0 .. MaxStarts
        BY <3>1, FileAssumption DEF BeginCookie, TypeOK
      <4>2. QED
        BY <3>1, <4>1, Contents DEF BeginCookie
    <3>2. CASE ContinueCookie
      BY <3>2, Contents DEF ContinueCookie, TypeOK
    <3>3. CASE RemoveCookie
      BY <3>3, Contents DEF RemoveCookie
    <3>4. QED
      BY <1>1, <3>1, <3>2, <3>3
  <2>2. QED
    BY <2>1, WriteIsRewrite
<1>2. ASSUME NEW c \in Caller, Call(c) PROVE Promise!Ask(c)
  BY <1>2 DEF Call, Promise!Ask, TypeOK, node, shared
<1>3. ASSUME NEW c \in Caller, StatFails(c) \/ ReadFails(c) PROVE Promise!Deny(c)
  <2>1. pc[c] # "idle" /\ UNCHANGED << file, seen >> /\ Return(c, Empty)
    BY <1>3 DEF StatFails, ReadFails, node
  <2>2. file.content \notin Usable
    BY <1>3 DEF StatFails, ReadFails, Usable, Exists
  <2>3. QED
    BY <2>1, <2>2, ReturnDenies
<1>4. ASSUME NEW c \in Caller, StatMatches(c) PROVE Promise!Grant(c)
  <2>1. cache = file.content
    BY <1>4 DEF StatMatches, Stat, FreshInv, MutexInv, TypeOK
  <2>2. cache \in Usable /\ cache \in seen[c]
    BY <1>4, <2>1 DEF StatMatches, UsableInv, SeenInv
  <2>3. QED
    BY <1>4, <2>2, ReturnGrants DEF StatMatches, node
<1>5. ASSUME NEW c \in Caller, StoreStamp(c) PROVE Promise!Grant(c)
  <2>1. cache \in Usable /\ cache \in seen[c]
    BY <1>5 DEF StoreStamp, UsableInv, SeenInv
  <2>2. QED
    BY <1>5, <2>1, ReturnGrants DEF StoreStamp, node
<1>6. ASSUME NEW c \in Caller,
             Lock(c) \/ StatDiffers(c) \/ ReadFile(c) \/ StoreCredentials(c)
      PROVE  UNCHANGED Promise!auth
  BY <1>6 DEF Lock, StatDiffers, ReadFile, StoreCredentials, TypeOK, node, shared
<1>7. CASE UNCHANGED vars
  BY <1>7 DEF vars, node, private
<1>8. QED
  BY <1>1, <1>2, <1>3, <1>4, <1>5, <1>6, <1>7 DEF Next, Step

\* With distinct modification times, for any number of callers and cookies,
\* CookieAuth keeps the promise the RPC client is built on.
THEOREM ImplementsAuthenticator ==
  ASSUME ~ CoarseClock
  PROVE  Spec => PromiseKept
<1>1. TypeOK /\ MutexInv /\ FreshInv /\ SeenInv /\ [Next]_vars => FreshInv' /\ SeenInv'
  BY FreshStep
<1>2. TypeOK /\ MutexInv /\ UsableInv /\ [Next]_vars => MutexInv' /\ UsableInv'
  BY MutexStep, UsableStep
<1>3. TypeOK /\ MutexInv /\ FreshInv /\ SeenInv /\ UsableInv /\ [Next]_vars
        => [Promise!Next]_(Promise!auth)
  BY PromiseStep
<1>4. QED
  BY <1>1, <1>2, <1>3, TypeCorrect, MutexInit, FreshInit, UsableInit, PromiseInit, PTL
     DEF Spec, PromiseKept, Promise!SafeSpec
=============================================================================
