----------------------------- MODULE CookieAuth -----------------------------
(***************************************************************************)
(* CookieAuth.Credentials of internal/rpc/auth.go, called by any number of *)
(* goroutines while the node rewrites its cookie file.                     *)
(*                                                                         *)
(* Credentials keeps the user and password it read last, with the          *)
(* modification time and size that os.Stat had reported before the read,   *)
(* and reads the file again when a later Stat reports anything else.  The  *)
(* mutex serialises callers; nothing serialises them with the node.        *)
(*                                                                         *)
(* The node is external, taken from how auth.go, its comments and its test *)
(* describe it: it removes the file when it stops and writes a new cookie, *)
(* as long as the one before, when it starts.  CookieFile says what the    *)
(* file holds meanwhile.                                                   *)
(***************************************************************************)
EXTENDS CookieFile

CONSTANTS
    Caller,       \* goroutines that call Credentials
    CoarseClock,  \* two writes may get the same modification time
    NoOne         \* the holder of a free mutex

ASSUME CookieAssumption ==
    /\ CoarseClock \in BOOLEAN
    /\ NoOne \notin Caller

VARIABLES
    file,    \* the cookie file: what it holds and when it was last written
    writes,  \* cookies the node has begun to write
    now,     \* the clock of the file system
    mu,      \* who holds the mutex
    cache,   \* CookieAuth.user and pass
    stamp,   \* CookieAuth.modTime and size
    loaded,  \* CookieAuth.loaded
    pc,      \* caller -> where it is in Credentials
    info,    \* caller -> what its os.Stat reported
    raw,     \* caller -> what its os.ReadFile returned
    result,  \* caller -> what its last call returned
    seen     \* caller -> what the file has held since its call began

node    == << file, writes, now >>
shared  == << mu, cache, stamp, loaded >>
private == << pc, info, raw, result >>
vars    == << node, shared, private, seen >>

-----------------------------------------------------------------------------
(* What os.Stat reports: a time, and a size that two whole cookies share.  *)

Stamps  == [mtime : Nat, size : 0 .. 2]
NoStamp == [mtime |-> 0, size |-> 0]

Size(content) ==
    IF content.form = "whole" THEN 2
    ELSE IF content.form = "cut" THEN 1 ELSE 0

Exists == file.content.form # "missing"
Stat == [mtime |-> file.mtime, size |-> Size(file.content)]

Init ==
    /\ file = [content |-> Empty, mtime |-> 0]
    /\ writes = 0
    /\ now = 0
    /\ mu = NoOne
    /\ cache = Empty
    /\ stamp = NoStamp
    /\ loaded = FALSE
    /\ pc = [c \in Caller |-> "idle"]
    /\ info = [c \in Caller |-> NoStamp]
    /\ raw = [c \in Caller |-> Empty]
    /\ result = [c \in Caller |-> Empty]
    /\ seen = [c \in Caller |-> {}]

-----------------------------------------------------------------------------
(* The node.                                                               *)

\* The file changes; every call in progress can have seen what it now holds.
Write(content) ==
    /\ now' \in (IF CoarseClock THEN {now, now + 1} ELSE {now + 1})
    /\ file' = [content |-> content, mtime |-> now']
    /\ seen' = [c \in Caller |-> IF pc[c] = "idle" THEN seen[c]
                                                   ELSE seen[c] \cup {content}]
    /\ UNCHANGED << shared, private >>

\* The node starts: the file is created, or truncated if a node that crashed,
\* in the middle of a write or later, left it behind.
BeginCookie ==
    /\ writes < MaxStarts
    /\ writes' = writes + 1
    /\ Write(Cookie(writes + 1, "no_colon"))

ContinueCookie ==
    /\ \/ /\ file.content.form = "no_colon"
          /\ Write(Cookie(writes, "cut"))
       \/ /\ file.content.form \in {"no_colon", "cut"}
          /\ Write(Cookie(writes, "whole"))
    /\ UNCHANGED writes

\* The node stops and takes its cookie with it.
RemoveCookie ==
    /\ file.content.form = "whole"
    /\ Write(Empty)
    /\ UNCHANGED writes

-----------------------------------------------------------------------------
(* Credentials.                                                            *)

Call(c) ==
    /\ pc[c] = "idle"
    /\ pc' = [pc EXCEPT ![c] = "lock"]
    /\ seen' = [seen EXCEPT ![c] = {file.content}]
    /\ result' = [result EXCEPT ![c] = Empty]
    /\ UNCHANGED << node, shared, info, raw >>

Lock(c) ==
    /\ pc[c] = "lock"
    /\ mu = NoOne
    /\ mu' = c
    /\ pc' = [pc EXCEPT ![c] = "stat"]
    /\ UNCHANGED << node, cache, stamp, loaded, info, raw, result, seen >>

\* The deferred Unlock, with the credentials or, for an error, none.
Return(c, credentials) ==
    /\ result' = [result EXCEPT ![c] = credentials]
    /\ pc' = [pc EXCEPT ![c] = "idle"]
    /\ mu' = NoOne

StatFails(c) ==
    /\ pc[c] = "stat"
    /\ ~ Exists
    /\ Return(c, Empty)
    /\ UNCHANGED << node, cache, stamp, loaded, info, raw, seen >>

\* Bug: the size alone is compared.
StatMatchesInSize(c) ==
    /\ pc[c] = "stat"
    /\ Exists
    /\ loaded /\ stamp.size = Stat.size
    /\ Return(c, cache)
    /\ UNCHANGED << node, cache, stamp, loaded, info, raw, seen >>

StatMatches(c) ==
    /\ pc[c] = "stat"
    /\ Exists
    /\ loaded /\ stamp = Stat
    /\ Return(c, cache)
    /\ UNCHANGED << node, cache, stamp, loaded, info, raw, seen >>

StatDiffers(c) ==
    /\ pc[c] = "stat"
    /\ Exists
    /\ ~ (loaded /\ stamp = Stat)
    /\ info' = [info EXCEPT ![c] = Stat]
    /\ pc' = [pc EXCEPT ![c] = "read"]
    /\ UNCHANGED << node, shared, raw, result, seen >>

\* Bug: Unlock is not deferred, and this path misses it.
ReadFailsLocked(c) ==
    /\ pc[c] = "read"
    /\ file.content.form \in {"missing", "no_colon"}
    /\ result' = [result EXCEPT ![c] = Empty]
    /\ pc' = [pc EXCEPT ![c] = "idle"]
    /\ UNCHANGED << node, shared, info, raw, seen >>

\* ReadFile finds no file, or what it finds has no colon.
ReadFails(c) ==
    /\ pc[c] = "read"
    /\ file.content.form \in {"missing", "no_colon"}
    /\ Return(c, Empty)
    /\ UNCHANGED << node, cache, stamp, loaded, info, raw, seen >>

\* Bug: whether strings.Cut found a colon is not looked at.
ReadFileUnchecked(c) ==
    /\ pc[c] = "read"
    /\ Exists
    /\ raw' = [raw EXCEPT ![c] = file.content]
    /\ pc' = [pc EXCEPT ![c] = "store"]
    /\ UNCHANGED << node, shared, info, result, seen >>

ReadFile(c) ==
    /\ pc[c] = "read"
    /\ file.content \in Usable
    /\ raw' = [raw EXCEPT ![c] = file.content]
    /\ pc' = [pc EXCEPT ![c] = "store"]
    /\ UNCHANGED << node, shared, info, result, seen >>

StoreCredentials(c) ==
    /\ pc[c] = "store"
    /\ cache' = raw[c]
    /\ pc' = [pc EXCEPT ![c] = "stamp"]
    /\ UNCHANGED << node, mu, stamp, loaded, info, raw, result, seen >>

\* Bug: the stamp is taken after the read instead of before it.
StoreLaterStamp(c) ==
    /\ pc[c] = "stamp"
    /\ stamp' = Stat
    /\ loaded' = TRUE
    /\ Return(c, cache)
    /\ UNCHANGED << node, cache, info, raw, seen >>

StoreStamp(c) ==
    /\ pc[c] = "stamp"
    /\ stamp' = info[c]
    /\ loaded' = TRUE
    /\ Return(c, cache)
    /\ UNCHANGED << node, cache, info, raw, seen >>

Step(c) ==
    \/ StatFails(c) \/ StatMatches(c) \/ StatDiffers(c)
    \/ ReadFails(c) \/ ReadFile(c)
    \/ StoreCredentials(c) \/ StoreStamp(c)

Next ==
    \/ BeginCookie \/ ContinueCookie \/ RemoveCookie
    \/ \E c \in Caller : Call(c) \/ Lock(c) \/ Step(c)

Spec == Init /\ [][Next]_vars

-----------------------------------------------------------------------------
(* Properties.                                                             *)

Places == {"idle", "lock", "stat", "read", "store", "stamp"}

\* Nothing but a user and a password is kept or returned.
TypeOK ==
    /\ file \in [content : Content, mtime : Nat]
    /\ writes \in 0 .. MaxStarts
    /\ now \in Nat
    /\ mu \in Caller \cup {NoOne}
    /\ cache \in Usable \cup {Empty}
    /\ stamp \in Stamps
    /\ loaded \in BOOLEAN
    /\ pc \in [Caller -> Places]
    /\ info \in [Caller -> Stamps]
    /\ raw \in [Caller -> Usable \cup {Empty}]
    /\ result \in [Caller -> Usable \cup {Empty}]
    /\ seen \in [Caller -> SUBSET Content]

\* Credentials are never stale: a call that succeeds returns what the file
\* held at some moment between the call's beginning and its end, however the
\* node's rewrites and the other callers interleave with it.
NeverStale ==
    \A c \in Caller :
        pc[c] = "idle" /\ result[c] # Empty => result[c] \in seen[c]

\* The credentials and the stamp of the cache belong together: if the next
\* Stat is going to match, the next call is right to answer from the cache.
CacheCoherent ==
    mu = NoOne /\ Exists /\ loaded /\ stamp = Stat => cache = file.content

\* README.md:258-259: "bitcoind rewrites its cookie on every restart, so the
\* exporter re-reads the file whenever its size or modification time changes.
\* No restart needed."  If the next Stat matches a finished cookie, the cache
\* must be that cookie: otherwise no later call reads it either.
NoRestartNeeded ==
    mu = NoOne /\ file.content.form = "whole" /\ loaded /\ stamp = Stat =>
        cache = file.content

\* No path through Credentials leaves the mutex locked behind it: whoever
\* holds it is still inside, on its way to the deferred Unlock.  A mutex held
\* by a call that has returned would block every later call of every scrape.
NoAbandonedLock ==
    mu # NoOne => pc[mu] \in {"stat", "read", "store", "stamp"}

\* CookieAuth implements Authenticator, the cache and its stamp being hidden:
\* a result changes only when a call returns, to an error or to credentials
\* that the file held during that call.
Promise ==
    INSTANCE Authenticator WITH
        Nothing <- Empty,
        file <- file.content,
        asked <- { c \in Caller : pc[c] # "idle" },
        may <- seen

PromiseKept == Promise!SafeSpec
=============================================================================
