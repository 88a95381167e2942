------------------------------- MODULE StampCache -------------------------------
(***************************************************************************)
(* The cache of traQAPI.cpp: the list of stamps and the images of stamps,  *)
(* fetched from traQ and kept for two weeks.                               *)
(*                                                                         *)
(* A request looks under a shared lock, lets go of it while traQ answers,  *)
(* and stores the answer under the unique lock; so several requests may    *)
(* fetch one image at once and store their answers in any order.  Contents *)
(* are the time at which traQ answered with them.                          *)
(*                                                                         *)
(* External: traQ answers with what it has at that moment, with an error,  *)
(* or never; an answer reaches its coroutine within Flight ticks.          *)
(***************************************************************************)
EXTENDS Backend, Integers, FiniteSets

CONSTANTS Stamps, All,    \* the images, and the list of all stamps
          Period,         \* cacheDuration, in ticks
          Flight,         \* bound: from traQ's answer to the coroutine, in ticks
          MaxTime,        \* bound: ticks
          MaxBytes,       \* maxStampImageCacheSize
          EntrySize,      \* sizeof(stampImageCacheEntry)
          Empty           \* the list, when traQ has no stamps

ASSUME StampAssumption ==
    /\ Period \in Nat /\ Flight \in Nat /\ MaxTime \in Nat
    /\ MaxBytes \in Nat /\ EntrySize \in Nat \ {0}
    /\ All \notin Stamps /\ IsFiniteSet(Stamps)

Items == Stamps \cup {All}
Times == 0..MaxTime
Entry == [ver: Times, at: Times, used: Times]
NoEntry == [ver |-> None, at |-> None, used |-> None]
NoFetch == [at |-> "idle", key |-> None, ver |-> None]

VARIABLES now,      \* steady_clock
          cache,    \* cache[s]: an entry of stampImageCache; cache[All]
          fetch,      \* fetch[r]: a request, what it asks for, what it has got
          served    \* history: how old the answer of this step is

svars == <<now, cache, fetch, served>>

STypeOK ==
    /\ now \in Times
    /\ cache \in [Items -> Entry \cup {NoEntry}]
    /\ fetch \in [Requests -> {NoFetch} \cup
          [at: {"asked"}, key: Items, ver: {None}] \cup
          [at: {"got"}, key: Items, ver: Times \cup {Empty}]]
    /\ served \in Times \cup {None}

SInit ==
    /\ now = 0
    /\ cache = [k \in Items |-> NoEntry]
    /\ fetch = [r \in Requests |-> NoFetch]
    /\ served = None

Cached(c) == {s \in Stamps : c[s] # NoEntry}
(* Slip: each use prolongs the two weeks.                                  *)
ValidSinceUse(k) == cache[k] # NoEntry /\ now - cache[k].used < Period

Valid(k) == cache[k] # NoEntry /\ now - cache[k].at < Period
Put(k, e) == [cache EXCEPT ![k] = e]
Serve(x) == served' = IF x \in {None, Empty} THEN None ELSE now - x

(* The answer is in the cache.                                             *)
Hit(r, k) ==
    /\ fetch[r] = NoFetch
    /\ Valid(k)
    /\ cache' = Put(k, [ver |-> cache[k].ver, at |-> cache[k].at,
                         used |-> IF k = All THEN cache[k].used ELSE now])
    /\ Serve(cache[k].ver)
    /\ UNCHANGED <<now, fetch>>

(* It is not: traQ is asked.                                               *)
Ask(r, k) ==
    /\ fetch[r] = NoFetch
    /\ ~Valid(k)
    /\ fetch' = [fetch EXCEPT ![r] = [at |-> "asked", key |-> k, ver |-> None]]
    /\ served' = None
    /\ UNCHANGED <<now, cache>>

Reply(r, x) ==
    /\ fetch[r].at = "asked"
    /\ x = now \/ (x = Empty /\ fetch[r].key = All)
    /\ fetch' = [fetch EXCEPT ![r] = [at |-> "got", key |-> fetch[r].key, ver |-> x]]
    /\ served' = None
    /\ UNCHANGED <<now, cache>>

(* No answer, another status than 200, or no JSON array: answered with 500.*)
ReplyError(r) ==
    /\ fetch[r].at = "asked"
    /\ fetch' = [fetch EXCEPT ![r] = NoFetch]
    /\ Serve(None)
    /\ UNCHANGED <<now, cache>>

(* The image used longest ago is erased while there are too many.  What is *)
(* counted is the size of the entry, not of the image it points to.        *)
Oldest(c) == {s \in Cached(c) : \A o \in Cached(c) : c[s].used <= c[o].used}
(* Slip: an entry more than the limit.                                     *)
TooBigByOne(c) == (Cardinality(Cached(c)) - 1) * EntrySize > MaxBytes

TooBig(c) == Cardinality(Cached(c)) * EntrySize > MaxBytes
Without(c, s) == [c EXCEPT ![s] = NoEntry]

StoreAnswer(r) ==
    LET k == fetch[r].key
        c == Put(k, IF fetch[r].ver = Empty THEN NoEntry
                    ELSE [ver |-> fetch[r].ver, at |-> now, used |-> now])
    IN
    /\ fetch[r].at = "got"
    /\ \/ /\ k = All \/ ~TooBig(c)
          /\ cache' = c
       \/ /\ k # All /\ TooBig(c)
          /\ \E s \in Oldest(c) : cache' = Without(c, s)
    /\ fetch' = [fetch EXCEPT ![r] = NoFetch]
    /\ Serve(fetch[r].ver)
    /\ now' = now

Tick ==
    /\ now < MaxTime
    /\ \A r \in Requests : fetch[r].at = "got" /\ fetch[r].ver # Empty =>
          now - fetch[r].ver < Flight
    /\ now' = now + 1
    /\ served' = None
    /\ UNCHANGED <<cache, fetch>>

SNext ==
    \/ \E r \in Requests :
          \/ \E k \in Items : Hit(r, k) \/ Ask(r, k)
          \/ \E x \in {now, Empty} : Reply(r, x)
          \/ ReplyError(r) \/ StoreAnswer(r)
    \/ Tick

SSpec == SInit /\ [][SNext]_svars

-----------------------------------------------------------------------------
(* Properties                                                              *)

(* Nothing that is answered is older than the two weeks of cacheDuration   *)
(* and the time an answer of traQ takes to arrive, whoever stored it and   *)
(* however often it has been used since.                                   *)
AnswerIsRecent == served # None => served <= Period + Flight

(* Requests that fetch at once never leave more entries than the limit     *)
(* allows: the loop erases as much as the others have added.               *)
EntriesBounded == Cardinality(Cached(cache)) * EntrySize <= MaxBytes

=============================================================================
