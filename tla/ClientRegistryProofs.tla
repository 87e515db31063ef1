------------------------ MODULE ClientRegistryProofs ------------------------
(***************************************************************************)
(* Theorems about ClientRegistry, for any number of threads, keys and      *)
(* calls: the client that is in use for a key is the one in the cache, a   *)
(* client that is being taken apart is never handed out, and what close or *)
(* a failed construction leaves behind is let go.                          *)
(***************************************************************************)
EXTENDS ClientRegistry, FiniteSetTheorems, TLAPS

InLock == {"recheck", "build", "cleanup", "register", "announce", "evict"}
Making == {"build", "cleanup", "register"}
Stages == InLock \cup {"idle", "lookup", "want", "acquire", "close"}

Public == {"live", "closing", "closed"}     \* fates of clients some call returned
Fates == Public \cup {"new", "dropped"}

(* The types that the argument needs. *)
Typed ==
    /\ cached \in [Keys -> Nat \cup {None}]
    /\ keyLocks \in [Keys -> Locks \cup {None}]
    /\ holder \in [Locks -> Threads \cup {None}]
    /\ keyOf \in Seq(Keys) /\ fate \in Seq(Fates) /\ Len(fate) = Len(keyOf)
    /\ pc \in [Threads -> Stages]
    /\ key \in [Threads -> Keys \cup {None}]
    /\ lock \in [Threads -> Locks \cup {None}]
    /\ target \in [Threads -> Nat \cup {None}]
    /\ got \in [Threads -> Nat \cup {None}]

(* _get_key_lock never replaces a lock, so the threads that work on one key *)
(* hold, or wait for, one lock.                                             *)
KeyInv ==
    \A t \in Threads :
        /\ pc[t] \in InLock \cup {"lookup", "want", "acquire"} => key[t] \in Keys
        /\ pc[t] \in InLock \cup {"acquire"} =>
              lock[t] \in Locks /\ lock[t] = keyLocks[key[t]]
        /\ pc[t] \in InLock => holder[lock[t]] = t

Known(c) == c \in DOMAIN fate /\ fate[c] \in Public

(* A client is new until its thread, which still holds the lock of its key, *)
(* publishes or drops it; the cache and the callers know public ones only.  *)
ThreadInv(t) ==
    /\ pc[t] \in {"idle", "lookup", "recheck"} => target[t] = None
    /\ pc[t] \in {"evict", "close"} => target[t] # None
    /\ pc[t] \in {"want", "acquire", "evict", "close"} /\ target[t] # None =>
          Known(target[t]) /\ fate[target[t]] # "live"
    /\ pc[t] \in Making => /\ target[t] \in DOMAIN fate
                           /\ fate[target[t]] = "new"
                           /\ keyOf[target[t]] = key[t]
                           /\ cached[key[t]] = None
    /\ pc[t] = "announce" => Known(target[t])
    /\ got[t] # None => Known(got[t])

ClientInv ==
    /\ \A t \in Threads : ThreadInv(t)
    /\ \A k \in Keys : cached[k] # None => Known(cached[k])

CacheInv == Typed /\ KeyInv /\ ClientInv /\ LiveIsCached

(* At first no client exists and every thread is idle. *)
LEMMA CacheInvInit == Init => CacheInv
BY RegistryConstants DEF Init, CacheInv, Typed, KeyInv, ClientInv, ThreadInv, Known, LiveIsCached,
    InLock, Making, Stages, Public, Fates

(* Every step keeps the types. *)
LEMMA TypedStep ==
    ASSUME CacheInv, [Next]_vars
    PROVE  Typed'
  <1> USE RegistryConstants
      DEF CacheInv, Typed, Goto, Leave, Release, Stages, InLock, Fates, Public,
          locals, history, registry, clients
  <1>k. /\ \A t \in Threads : pc[t] \in InLock \cup {"lookup", "want", "acquire"} => key[t] \in Keys
        /\ \A t \in Threads : pc[t] \in InLock \cup {"acquire"} => lock[t] \in Locks
    BY DEF KeyInv
  <1>c. /\ \A t \in Threads : pc[t] \in Making => target[t] \in DOMAIN fate
        /\ \A t \in Threads : pc[t] \in {"evict", "close"} => target[t] \in DOMAIN fate
        /\ \A t \in Threads : got[t] # None => got[t] \in DOMAIN fate
    BY DEF ClientInv, ThreadInv, Known
  <1>1. ASSUME NEW t \in Threads, Call(t) PROVE Typed'
    <2>1. CASE \E k \in Keys : GetInstance(t, k)
      BY <2>1 DEF GetInstance
    <2>2. ASSUME NEW u \in Threads, got[u] # None, Close(t, got[u]) PROVE Typed'
      BY <1>c, <2>2 DEF Close
    <2> QED  BY <1>1, <2>1, <2>2 DEF Call
  <1>2. ASSUME NEW t \in Threads, Constructing(t) PROVE Typed'
    <2>1. /\ UNCHANGED <<cached, keyLocks, holder, keyOf, fate, key, lock, target, got>>
          /\ \E label \in Stages : pc' = [pc EXCEPT ![t] = label]
      BY <1>2 DEF Constructing, Build, BuildFails
    <2> QED  BY <2>1
  <1>3. ASSUME NEW t \in Threads, Proceed(t) PROVE Typed'
    <2>1. CASE Lookup(t)
      BY <1>k, <2>1 DEF Lookup
    <2>2. CASE GetKeyLock(t)
      <3> DEFINE L == IF keyLocks[key[t]] = None THEN <<key[t], t>> ELSE keyLocks[key[t]]
      <3>1. L \in Locks
        BY <1>k, <2>2 DEF GetKeyLock, Locks
      <3>2. /\ keyLocks' = [keyLocks EXCEPT ![key[t]] = L]
            /\ lock' = [lock EXCEPT ![t] = L]
            /\ pc' = [pc EXCEPT ![t] = "acquire"]
            /\ UNCHANGED <<cached, holder, keyOf, fate, key, target, got>>
        BY <2>2 DEF GetKeyLock
      <3> HIDE DEF L
      <3> QED  BY <3>1, <3>2
    <2>3. CASE Acquire(t)
      BY <1>k, <2>3 DEF Acquire
    <2>4. CASE RecheckHit(t)
      BY <1>k, <2>4 DEF RecheckHit
    <2>5. CASE Miss(t)
      BY <1>k, <2>5 DEF Miss, NewClient
    <2>6. CASE Cleanup(t) \/ Closing(t)
      BY <2>6 DEF Cleanup, Closing, CloseNext
    <2>7. CASE Raise(t)
      <3>1. fate' \in Seq(Fates) /\ Len(fate') = Len(fate)
        BY <1>c, <2>7 DEF Raise, Making
      <3> QED  BY <2>7, <3>1 DEF Raise
    <2>8. CASE Register(t)
      BY <1>k, <1>c, <2>8 DEF Register, Making
    <2>9. CASE Announce(t)
      BY <2>9 DEF Announce
    <2>10. CASE Evict(t)
      BY <1>k, <2>10 DEF Evict
    <2>11. CASE Closed(t)
      BY <1>c, <2>11 DEF Closed
    <2> QED
      BY <1>3, <2>1, <2>2, <2>3, <2>4, <2>5, <2>6, <2>7, <2>8, <2>9, <2>10, <2>11 DEF Proceed
  <1>4. CASE UNCHANGED vars
    BY <1>4 DEF vars
  <1>5. ASSUME NEW c \in DOMAIN open, FlushSends(c) PROVE Typed'
    BY <1>5 DEF FlushSends
  <1> QED  BY <1>1, <1>2, <1>3, <1>4, <1>5 DEF Next

-----------------------------------------------------------------------------
(* The threads at work on one key exclude one another. *)
LEMMA OneAtAKey ==
    ASSUME Typed, KeyInv, NEW t \in Threads, NEW u \in Threads,
           pc[t] \in InLock, pc[u] \in InLock, key[t] = key[u]
    PROVE  t = u
BY DEF Typed, KeyInv

(* Locks are created once per key, taken when free, released by the holder. *)
LEMMA KeyStep ==
    ASSUME CacheInv, [Next]_vars
    PROVE  KeyInv'
  <1> USE RegistryConstants
      DEF CacheInv, Typed, KeyInv, Goto, Leave, Release, InLock, locals, history, registry,
          clients
  <1>1. ASSUME NEW t \in Threads, Call(t) PROVE KeyInv'
    <2>1. CASE \E k \in Keys : GetInstance(t, k)
      BY <2>1 DEF GetInstance
    <2>2. ASSUME NEW u \in Threads, got[u] # None, Close(t, got[u]) PROVE KeyInv'
      <3>1. keyOf[got[u]] \in Keys
        BY <2>2 DEF ClientInv, ThreadInv, Known
      <3> QED  BY <2>2, <3>1 DEF Close
    <2> QED  BY <1>1, <2>1, <2>2 DEF Call
  <1>2. ASSUME NEW t \in Threads, Constructing(t) PROVE KeyInv'
    <2>1. /\ UNCHANGED <<keyLocks, holder, key, lock>>
          /\ pc[t] \in InLock
          /\ \E label \in InLock : pc' = [pc EXCEPT ![t] = label]
      BY <1>2 DEF Constructing, Build, BuildFails
    <2> QED  BY <2>1
  <1>3. ASSUME NEW t \in Threads, Proceed(t) PROVE KeyInv'
    <2>1. CASE Lookup(t)
      BY <2>1 DEF Lookup
    <2>2. CASE GetKeyLock(t)
      <3> DEFINE L == IF keyLocks[key[t]] = None THEN <<key[t], t>> ELSE keyLocks[key[t]]
      <3>1. L \in Locks /\ key[t] \in Keys
        BY <2>2 DEF GetKeyLock, Locks
      <3>2. keyLocks[key[t]] # None => L = keyLocks[key[t]]
        OBVIOUS
      <3>3. /\ keyLocks' = [keyLocks EXCEPT ![key[t]] = L]
            /\ lock' = [lock EXCEPT ![t] = L]
            /\ pc' = [pc EXCEPT ![t] = "acquire"]
            /\ UNCHANGED <<holder, key>>
            /\ pc[t] = "want"
        BY <2>2 DEF GetKeyLock
      <3>4. None \notin Locks
        BY DEF Locks
      <3> HIDE DEF L
      <3> QED  BY <3>1, <3>2, <3>3, <3>4
    <2>3. CASE Acquire(t)
      BY <2>3 DEF Acquire
    <2>4. CASE Miss(t)
      BY <2>4 DEF Miss, NewClient
    <2>5. CASE Cleanup(t) \/ Closing(t)
      BY <2>5 DEF Cleanup, Closing, CloseNext
    <2>6. CASE Register(t)
      BY <2>6 DEF Register
    <2>7. CASE Closed(t)
      BY <2>7 DEF Closed
    <2>8. CASE RecheckHit(t) \/ Raise(t) \/ Announce(t) \/ Evict(t)
      <3>1. /\ pc[t] \in InLock
            /\ holder' = [holder EXCEPT ![lock[t]] = None]
            /\ \A u \in Threads \ {t} : UNCHANGED <<pc[u], key[u], lock[u]>>
            /\ pc'[t] \in {"idle", "close"}
            /\ UNCHANGED keyLocks
        BY <2>8 DEF RecheckHit, Raise, Announce, Evict
      <3>2. \A u \in Threads \ {t} : pc[u] \in InLock => lock[u] # lock[t]
        BY <3>1
      <3> QED  BY <3>1, <3>2
    <2> QED
      BY <1>3, <2>1, <2>2, <2>3, <2>4, <2>5, <2>6, <2>7, <2>8 DEF Proceed
  <1>4. CASE UNCHANGED vars
    BY <1>4 DEF vars
  <1>5. ASSUME NEW c \in DOMAIN open, FlushSends(c) PROVE KeyInv'
    BY <1>5 DEF FlushSends
  <1> QED  BY <1>1, <1>2, <1>3, <1>4, <1>5 DEF Next

-----------------------------------------------------------------------------
(* A step that leaves the cache and the fates alone concerns its thread.    *)
LEMMA LocalStep ==
    ASSUME CacheInv, NEW t \in Threads,
           UNCHANGED <<cached, keyOf, fate>>,
           \A u \in Threads \ {t} : UNCHANGED <<pc[u], key[u], target[u], got[u]>>,
           ThreadInv(t)'
    PROVE  ClientInv' /\ LiveIsCached'
BY DEF CacheInv, ClientInv, ThreadInv, LiveIsCached, Known

(* A client that callers know stays known; a new one is its thread's own.   *)
LEMMA ClientStep ==
    ASSUME CacheInv, [Next]_vars
    PROVE  ClientInv' /\ LiveIsCached'
  <1> USE RegistryConstants
      DEF CacheInv, Typed, Goto, Leave, Release, locals, history, registry, clients
  <1>t. \A t \in Threads : ThreadInv(t)
    BY DEF ClientInv
  <1>1. ASSUME NEW t \in Threads, Call(t) PROVE ClientInv' /\ LiveIsCached'
    <2>1. CASE \E k \in Keys : GetInstance(t, k)
      <3>1. ThreadInv(t)'
        BY <1>t, <2>1 DEF GetInstance, ThreadInv, Making
      <3> QED  BY <2>1, <3>1, LocalStep DEF GetInstance
    <2>2. ASSUME NEW u \in Threads, got[u] # None, Close(t, got[u])
          PROVE  ClientInv' /\ LiveIsCached'
      <3>1. Known(got[u])
        BY <1>t, <2>2 DEF ThreadInv
      <3> QED
        BY <2>2, <3>1 DEF Close, ClientInv, ThreadInv, LiveIsCached, Known, Public, Making
    <2> QED  BY <1>1, <2>1, <2>2 DEF Call
  <1>2. ASSUME NEW t \in Threads, Constructing(t) PROVE ClientInv' /\ LiveIsCached'
    <2>1. /\ UNCHANGED <<cached, keyOf, fate, key, target, got>>
          /\ pc[t] = "build"
          /\ \E label \in Making : pc' = [pc EXCEPT ![t] = label]
      BY <1>2 DEF Constructing, Build, BuildFails, Making
    <2>2. ThreadInv(t)'
      BY <1>t, <2>1 DEF ThreadInv, Making, Known
    <2> QED  BY <2>1, <2>2, LocalStep
  <1>3. ASSUME NEW t \in Threads, Proceed(t) PROVE ClientInv' /\ LiveIsCached'
    <2>1. CASE Lookup(t)
      <3>1. ThreadInv(t)'
        BY <1>t, <2>1 DEF Lookup, ThreadInv, Making, KeyInv, ClientInv, Known
      <3> QED  BY <2>1, <3>1, LocalStep DEF Lookup
    <2>2. CASE GetKeyLock(t)
      <3>1. ThreadInv(t)'
        BY <1>t, <2>2 DEF GetKeyLock, ThreadInv, Making, Known
      <3> QED  BY <2>2, <3>1, LocalStep DEF GetKeyLock
    <2>3. CASE Acquire(t)
      <3>1. ThreadInv(t)'
        BY <1>t, <2>3 DEF Acquire, ThreadInv, Making, Known
      <3> QED  BY <2>3, <3>1, LocalStep DEF Acquire
    <2>4. CASE RecheckHit(t)
      <3>1. ThreadInv(t)'
        BY <1>t, <2>4 DEF RecheckHit, ThreadInv, Making, KeyInv, InLock, ClientInv, Known
      <3> QED  BY <2>4, <3>1, LocalStep DEF RecheckHit
    <2>5. CASE Cleanup(t) \/ Closing(t)
      <3>1. UNCHANGED <<cached, keyOf, fate, pc, key, target, got>>
        BY <2>5 DEF Cleanup, Closing
      <3> QED  BY <3>1 DEF ClientInv, ThreadInv, Known, LiveIsCached
    <2>6. CASE Announce(t)
      <3>1. ThreadInv(t)'
        BY <1>t, <2>6 DEF Announce, ThreadInv, Making, Known
      <3> QED  BY <2>6, <3>1, LocalStep DEF Announce
    <2>7. CASE Miss(t)
      <3>1. key[t] \in Keys /\ cached[key[t]] = None
        BY <2>7 DEF Miss, KeyInv, InLock
      <3>2. /\ DOMAIN fate' = DOMAIN fate \cup {Len(fate) + 1}
            /\ \A c \in DOMAIN fate : fate'[c] = fate[c] /\ keyOf'[c] = keyOf[c]
            /\ fate'[Len(fate) + 1] = "new" /\ keyOf'[Len(fate) + 1] = key[t]
        BY <2>7, <3>1 DEF Miss, NewClient, Fates
      <3>3. UNCHANGED <<cached, key, got>> /\ pc' = [pc EXCEPT ![t] = "build"]
            /\ target' = [target EXCEPT ![t] = Len(fate) + 1]
        BY <2>7 DEF Miss, NewClient
      <3> QED
        BY <3>1, <3>2, <3>3 DEF ClientInv, ThreadInv, LiveIsCached, Known, Making, Public
    <2>8. CASE Raise(t) \/ Register(t)
      <3> DEFINE c == target[t]
      <3>1. /\ c \in DOMAIN fate /\ fate[c] = "new" /\ keyOf[c] = key[t]
            /\ pc[t] \in Making /\ key[t] \in Keys /\ cached[key[t]] = None
        BY <1>t, <2>8 DEF Raise, Register, ThreadInv, Making, KeyInv, InLock
      <3>2. \A u \in Threads \ {t} :
               pc[u] \in Making => key[u] # key[t] /\ target[u] # c
        BY <3>1, <1>t, OneAtAKey DEF ThreadInv, Making, InLock
      <3>3. \A u \in Threads \ {t} : UNCHANGED <<pc[u], key[u], target[u], got[u]>>
        BY <2>8 DEF Raise, Register
      <3>4. CASE Raise(t)
        <4>1. fate' = [fate EXCEPT ![c] = "dropped"] /\ UNCHANGED <<cached, keyOf, got>>
              /\ pc'[t] = "idle" /\ target'[t] = None
          BY <3>4 DEF Raise
        <4> HIDE DEF c
        <4> QED
          BY <3>1, <3>2, <3>3, <4>1
             DEF ClientInv, ThreadInv, LiveIsCached, Known, Making, Public
      <3>5. CASE Register(t)
        <4>1. fate' = [fate EXCEPT ![c] = "live"] /\ UNCHANGED <<keyOf, got, key, target>>
              /\ pc'[t] = "announce" /\ cached' = [cached EXCEPT ![key[t]] = c]
              /\ target[t] = c
          BY <3>5 DEF Register
        <4> HIDE DEF c
        <4> QED
          BY <3>1, <3>2, <3>3, <4>1
             DEF ClientInv, ThreadInv, LiveIsCached, Known, Making, Public
      <3> QED  BY <2>8, <3>4, <3>5
    <2>9. CASE Evict(t)
      <3>1. /\ Known(target[t]) /\ fate[target[t]] # "live"
            /\ key[t] \in Keys
        BY <1>t, <2>9 DEF Evict, ThreadInv, KeyInv, InLock
      <3>2. /\ cached' \in {cached, [cached EXCEPT ![key[t]] = None]}
            /\ cached[key[t]] # target[t] => cached' = cached
            /\ UNCHANGED <<keyOf, fate, key, target, got>>
            /\ pc' = [pc EXCEPT ![t] = "close"] /\ pc[t] = "evict"
        BY <2>9, <3>1 DEF Evict
      <3> QED
        BY <3>1, <3>2 DEF ClientInv, ThreadInv, LiveIsCached, Known, Making
    <2>10. CASE Closed(t)
      <3>1. Known(target[t]) /\ fate[target[t]] # "live"
        BY <1>t, <2>10 DEF Closed, ThreadInv
      <3> QED
        BY <2>10, <3>1 DEF Closed, ClientInv, ThreadInv, LiveIsCached, Known, Public, Making
    <2> QED
      BY <1>3, <2>1, <2>2, <2>3, <2>4, <2>5, <2>6, <2>7, <2>8, <2>9, <2>10 DEF Proceed
  <1>4. CASE UNCHANGED vars
    BY <1>4 DEF vars, ClientInv, ThreadInv, LiveIsCached, Known
  <1>5. ASSUME NEW c \in DOMAIN open, FlushSends(c) PROVE ClientInv' /\ LiveIsCached'
    BY <1>5 DEF FlushSends, ClientInv, ThreadInv, LiveIsCached, Known
  <1> QED  BY <1>1, <1>2, <1>3, <1>4, <1>5 DEF Next

(* get_instance, _build_and_register and close: however many threads get    *)
(* and close clients of one key, a client that nobody has begun to close is *)
(* the one the cache holds, so none is ever forgotten and left running.     *)
THEOREM NoClientOrphaned == Spec => []LiveIsCached
<1>1. CacheInv => LiveIsCached
  BY DEF CacheInv
<1>2. CacheInv /\ [Next]_vars => CacheInv'
  BY TypedStep, KeyStep, ClientStep DEF CacheInv
<1> QED  BY <1>1, <1>2, CacheInvInit, PTL DEF Spec

-----------------------------------------------------------------------------
(* No call returns a client that another thread had begun to take apart.    *)

(* What the first n steps of __init__ acquire. *)
Gathered(n) == UNION {Acquired(Steps[i]) : i \in 1 .. n}

(* A client that callers know and that the cache holds no longer. *)
Retired(c) == Known(c) /\ cached[keyOf[c]] # c

Shaped ==
    /\ open \in Seq(SUBSET Held) /\ Len(open) = Len(fate)
    /\ built \in Seq(Nat) /\ Len(built) = Len(fate)
    /\ shut \in [Threads -> SUBSET Nat]

(* A client is complete when it is published, and is taken apart only by    *)
(* threads that have evicted it first; it never returns to the cache.       *)
ThreadOpen(t) ==
    /\ pc[t] = "build" => /\ built[target[t]] < Len(Steps)
                          /\ open[target[t]] = Gathered(built[target[t]])
    /\ pc[t] = "register" => open[target[t]] = Held
    /\ pc[t] = "close" => Retired(target[t])
    /\ pc[t] = "announce" => target[t] \notin shut[t]
    /\ \A c \in shut[t] : Retired(c)
    /\ got[t] \notin shut[t]

OpenInv ==
    /\ Shaped
    /\ \A t \in Threads : ThreadOpen(t)
    /\ \A k \in Keys : cached[k] # None => keyOf[cached[k]] = k
    /\ \A c \in DOMAIN fate : Known(c) /\ open[c] # Held => cached[keyOf[c]] # c

(* The construction has seven steps. *)
LEMMA StepsLength == Len(Steps) = 7
BY DEF Steps

(* The seven steps together acquire exactly what the components hold. *)
LEMMA AllGathered ==
    /\ \A i \in 1 .. 7 : Acquired(Steps[i]) \subseteq Held
    /\ Gathered(0) = {}
    /\ \A n \in Nat : Gathered(n + 1) = Gathered(n) \cup Acquired(Steps[n + 1])
    /\ Gathered(7) = Held
  <1>1. Held = {"http", "pci", "sender", "scheduler", "flush", "refresher", "oauth"}
    BY DEF Held, Parts, Components
  <1>2. /\ Acquired(Steps[1]) = {"http"} /\ Acquired(Steps[2]) = {"pci"}
        /\ Acquired(Steps[3]) = {"sender"} /\ Acquired(Steps[4]) = {}
        /\ Acquired(Steps[5]) = {"oauth"} /\ Acquired(Steps[6]) = {"refresher"}
        /\ Acquired(Steps[7]) = {"scheduler", "flush"}
    BY DEF Acquired, Steps
  <1>3. \A i \in 1 .. 7 : i \in {1, 2, 3, 4, 5, 6, 7}
    OBVIOUS
  <1>4. \A i \in 1 .. 7 : Acquired(Steps[i]) \subseteq Held
    BY <1>1, <1>2, <1>3
  <1>5. \A n \in Nat : Gathered(n + 1) = Gathered(n) \cup Acquired(Steps[n + 1])
    <2> SUFFICES ASSUME NEW n \in Nat
                 PROVE  Gathered(n + 1) = Gathered(n) \cup Acquired(Steps[n + 1])
      OBVIOUS
    <2>1. 1 .. n + 1 = (1 .. n) \cup {n + 1}
      OBVIOUS
    <2> QED  BY <2>1 DEF Gathered
  <1>6. Gathered(0) = {}
    BY DEF Gathered
  <1>7. Gathered(7) = Held
    <2>1. Held \subseteq Gathered(7)
      BY <1>1, <1>2 DEF Gathered
    <2>2. Gathered(7) \subseteq Held
      BY <1>4 DEF Gathered
    <2> QED  BY <2>1, <2>2
  <1> QED  BY <1>4, <1>5, <1>6, <1>7

(* The scheduler and its flush come last of all.                            *)
LEMMA SchedulerGathered ==
    \A n \in 0 .. 6 : /\ "scheduler" \notin Gathered(n)
                      /\ "flush" \notin Gathered(n)
  <1>1. \A i \in 1 .. 7 : "scheduler" \in Acquired(Steps[i]) \/ "flush" \in Acquired(Steps[i])
                            => i = 7
    BY DEF Acquired, Steps
  <1> QED  BY <1>1 DEF Gathered

(* The scheduler, and what a flush may open again, is among what is held.   *)
LEMMA SchedulerHeld == "scheduler" \in Held /\ FlushUses \subseteq Held
BY DEF Held, Parts, Components, FlushUses

(* At first nothing is open. *)
LEMMA OpenInvInit == Init => OpenInv
BY RegistryConstants DEF Init, OpenInv, ThreadOpen, Shaped

(* Evicted clients are never published again. *)
LEMMA RetiredStays ==
    ASSUME CacheInv, [Next]_vars, NEW c, Retired(c)
    PROVE  Retired(c)'
  <1> USE RegistryConstants
      DEF CacheInv, Typed, Retired, Known, locals, history, registry, clients
  <1>t. \A t \in Threads : ThreadInv(t)
    BY DEF ClientInv
  <1>k. \A t \in Threads : pc[t] \in InLock => key[t] \in Keys
    BY DEF KeyInv
  <1>c. c \in DOMAIN fate /\ c # None
    OBVIOUS
  <1>1. ASSUME UNCHANGED <<cached, keyOf, fate>> PROVE Retired(c)'
    BY <1>1
  <1>2. ASSUME NEW t \in Threads, Miss(t) PROVE Retired(c)'
    <2>1. /\ DOMAIN fate' = DOMAIN fate \cup {Len(fate) + 1}
          /\ \A x \in DOMAIN fate : fate'[x] = fate[x] /\ keyOf'[x] = keyOf[x]
          /\ UNCHANGED cached
      BY <1>2, <1>k DEF Miss, NewClient, InLock, Fates
    <2> QED  BY <2>1
  <1>3. ASSUME NEW t \in Threads, Raise(t) PROVE Retired(c)'
    <2>1. fate[target[t]] = "new" /\ fate' = [fate EXCEPT ![target[t]] = "dropped"]
          /\ UNCHANGED <<cached, keyOf>>
      BY <1>3, <1>t DEF Raise, ThreadInv, Making
    <2> QED  BY <2>1 DEF Public
  <1>4. ASSUME NEW t \in Threads, Register(t) PROVE Retired(c)'
    <2>1. /\ fate[target[t]] = "new" /\ fate' = [fate EXCEPT ![target[t]] = "live"]
          /\ cached' = [cached EXCEPT ![key[t]] = target[t]] /\ UNCHANGED keyOf
      BY <1>4, <1>t DEF Register, ThreadInv, Making
    <2>2. target[t] # c
      BY <2>1 DEF Public
    <2> QED  BY <2>1, <2>2
  <1>5. ASSUME NEW t \in Threads, NEW u \in Threads, Close(t, got[u]) PROVE Retired(c)'
    BY <1>5 DEF Close, Public
  <1>6. ASSUME NEW t \in Threads, Evict(t) PROVE Retired(c)'
    <2>1. cached' \in {cached, [cached EXCEPT ![key[t]] = None]} /\ UNCHANGED <<keyOf, fate>>
      BY <1>6 DEF Evict
    <2> QED  BY <1>c, <2>1
  <1>7. ASSUME NEW t \in Threads, Closed(t) PROVE Retired(c)'
    BY <1>7 DEF Closed, Public
  <1>8. ASSUME NEW t \in Threads,
               \/ \E k \in Keys : GetInstance(t, k)
               \/ Constructing(t) \/ Lookup(t) \/ GetKeyLock(t) \/ Acquire(t)
               \/ RecheckHit(t) \/ Cleanup(t) \/ Announce(t) \/ Closing(t)
        PROVE  UNCHANGED <<cached, keyOf, fate>>
    BY <1>8 DEF GetInstance, Constructing, Build, BuildFails, Lookup, GetKeyLock, Acquire,
                RecheckHit, Cleanup, Announce, Closing
  <1>9. CASE UNCHANGED vars \/ \E x \in DOMAIN open : FlushSends(x)
    BY <1>9 DEF vars, FlushSends
  <1> QED
    BY <1>1, <1>2, <1>3, <1>4, <1>5, <1>6, <1>7, <1>8, <1>9 DEF Next, Call, Proceed

(* Updating an entry keeps the kind and the length of a sequence. *)
LEMMA SetEntry ==
    ASSUME NEW S, NEW s \in Seq(S), NEW i \in DOMAIN s, NEW e \in S
    PROVE  [s EXCEPT ![i] = e] \in Seq(S) /\ Len([s EXCEPT ![i] = e]) = Len(s)
OBVIOUS

(* The sequences keep their shape. *)
LEMMA ShapedStep ==
    ASSUME CacheInv, OpenInv, [Next]_vars
    PROVE  Shaped'
  <1> USE RegistryConstants
      DEF Shaped, OpenInv, CacheInv, Typed, locals, history, registry, clients
  <1>t. \A t \in Threads : ThreadInv(t)
    BY DEF ClientInv
  <1>d. \A t \in Threads :
           /\ pc[t] \in {"build", "cleanup", "register"} => target[t] \in DOMAIN fate
           /\ pc[t] = "close" => target[t] \in DOMAIN fate
    BY <1>t DEF ThreadInv, Making, Known
  <1>s. open \in Seq(SUBSET Held) /\ built \in Seq(Nat)
    OBVIOUS
  <1>1. ASSUME NEW t \in Threads, Call(t) PROVE Shaped'
    <2>1. CASE \E k \in Keys : GetInstance(t, k)
      <3>1. \A c \in DOMAIN fate : c \in Nat
        OBVIOUS
      <3> DEFINE S == {c \in DOMAIN fate : fate[c] \in {"closing", "closed"} /\ open[c] # Held}
      <3>2. UNCHANGED <<open, built, fate>> /\ shut' = [shut EXCEPT ![t] = S]
        BY <2>1 DEF GetInstance
      <3>3. S \in SUBSET Nat
        BY <3>1
      <3> HIDE DEF S
      <3> QED  BY <3>2, <3>3
    <2>2. ASSUME NEW u \in Threads, Close(t, got[u]) PROVE Shaped'
      <3>1. /\ UNCHANGED <<open, built, shut>>
            /\ \E f : fate' = [fate EXCEPT ![got[u]] = f]
        BY <2>2 DEF Close
      <3>2. Len(fate') = Len(fate)
        BY <3>1
      <3> QED  BY <3>1, <3>2
    <2> QED  BY <1>1, <2>1, <2>2 DEF Call
  <1>2. ASSUME NEW t \in Threads, Constructing(t) PROVE Shaped'
    <2>1. /\ target[t] \in DOMAIN fate /\ built[target[t]] \in 0 .. 6
          /\ UNCHANGED <<fate, shut>>
      <3>1. pc[t] = "build" /\ UNCHANGED <<fate, shut>>
        BY <1>2 DEF Constructing, Build, BuildFails
      <3>2. target[t] \in DOMAIN fate /\ built[target[t]] < 7
        BY <1>d, <3>1, StepsLength DEF ThreadOpen
      <3>3. built[target[t]] \in Nat
        BY <3>2
      <3> QED  BY <3>1, <3>2, <3>3
    <2>2. \A i \in 1 .. 7 : Acquired(Steps[i]) \subseteq Held
      BY AllGathered
    <2>3. built[target[t]] + 1 \in 1 .. 7
      BY <2>1
    <2>4. Acquired(Steps[built[target[t]] + 1]) \subseteq Held
      BY <2>2, <2>3
    <2>5. open[target[t]] \subseteq Held
      BY <2>1
    <2>6. open' \in Seq(SUBSET Held) /\ Len(open') = Len(open)
      <3> DEFINE more == IF Build(t) THEN open[target[t]] \cup Acquired(Steps[built[target[t]] + 1])
                                     ELSE open[target[t]] \cup {"scheduler"}
      <3>1. open' = open \/ open' = [open EXCEPT ![target[t]] = more]
        BY <1>2 DEF Constructing, Build, BuildFails
      <3>2. more \in SUBSET Held
        BY <2>4, <2>5, SchedulerHeld
      <3>3. target[t] \in DOMAIN open
        BY <2>1
      <3> HIDE DEF more, Shaped, OpenInv, CacheInv, Typed
      <3>4. [open EXCEPT ![target[t]] = more] \in Seq(SUBSET Held)
            /\ Len([open EXCEPT ![target[t]] = more]) = Len(open)
        BY <1>s, <3>2, <3>3, SetEntry
      <3> QED  BY <1>s, <3>1, <3>4
    <2>7. built' \in Seq(Nat) /\ Len(built') = Len(built)
      <3>1. built' = built \/ built' = [built EXCEPT ![target[t]] = built[target[t]] + 1]
        BY <1>2 DEF Constructing, Build, BuildFails
      <3>2. target[t] \in DOMAIN built /\ built[target[t]] + 1 \in Nat
        BY <2>1
      <3> DEFINE next == built[target[t]] + 1
      <3> HIDE DEF next, Shaped, OpenInv, CacheInv, Typed
      <3>3. [built EXCEPT ![target[t]] = next] \in Seq(Nat)
            /\ Len([built EXCEPT ![target[t]] = next]) = Len(built)
        BY <1>s, <3>2, SetEntry DEF next
      <3> QED  BY <1>s, <3>1, <3>3 DEF next
    <2> QED  BY <2>1, <2>6, <2>7
  <1>3. ASSUME NEW t \in Threads, Miss(t) PROVE Shaped'
    <2>1. {} \in SUBSET Held
      OBVIOUS
    <2> QED  BY <1>3, <2>1 DEF Miss, NewClient, Fates
  <1>4. ASSUME NEW t \in Threads, Cleanup(t) \/ Closing(t) PROVE Shaped'
    <2>1. /\ target[t] \in DOMAIN fate /\ UNCHANGED <<built, fate, shut>>
          /\ \E S : open' = open \/ open' = [open EXCEPT ![target[t]] = open[target[t]] \ S]
      BY <1>4, <1>d DEF Cleanup, Closing, CloseNext, StopPublisher, PassOver, Finish
    <2>2. PICK S : open' = open \/ open' = [open EXCEPT ![target[t]] = open[target[t]] \ S]
      BY <2>1
    <2> DEFINE less == open[target[t]] \ S
    <2>3. less \in SUBSET Held /\ target[t] \in DOMAIN open
      BY <2>1
    <2>4. open' = open \/ open' = [open EXCEPT ![target[t]] = less]
      BY <2>2
    <2>5. open' \in Seq(SUBSET Held) /\ Len(open') = Len(open)
      <3> HIDE DEF less, Shaped, OpenInv, CacheInv, Typed
      <3>1. [open EXCEPT ![target[t]] = less] \in Seq(SUBSET Held)
            /\ Len([open EXCEPT ![target[t]] = less]) = Len(open)
        BY <1>s, <2>3, SetEntry
      <3> QED  BY <1>s, <2>4, <3>1
    <2> QED  BY <2>1, <2>5
  <1>5. ASSUME NEW t \in Threads, Raise(t) \/ Register(t) \/ Closed(t) PROVE Shaped'
    <2>1. UNCHANGED <<open, built, shut>> /\ Len(fate') = Len(fate)
      BY <1>5, <1>d DEF Raise, Register, Closed, Leave
    <2> QED  BY <2>1
  <1>6. ASSUME NEW t \in Threads, \/ Lookup(t) \/ GetKeyLock(t) \/ Acquire(t)
                                  \/ RecheckHit(t) \/ Announce(t) \/ Evict(t)
        PROVE  Shaped'
    <2>1. UNCHANGED <<open, built, fate, shut>>
      BY <1>6 DEF Lookup, GetKeyLock, Acquire, RecheckHit, Announce, Evict, Leave
    <2> QED  BY <2>1
  <1>7. CASE UNCHANGED vars
    BY <1>7 DEF vars
  <1>8. ASSUME NEW c \in DOMAIN open, FlushSends(c) PROVE Shaped'
    <2>1. UNCHANGED <<built, fate, shut>>
          /\ \E part \in FlushUses : open' = [open EXCEPT ![c] = open[c] \cup {part}]
      BY <1>8 DEF FlushSends
    <2>2. PICK part \in FlushUses : open' = [open EXCEPT ![c] = open[c] \cup {part}]
      BY <2>1
    <2>3. open[c] \cup {part} \in SUBSET Held
      BY SchedulerHeld
    <2>4. open' \in Seq(SUBSET Held) /\ Len(open') = Len(open)
      <3> DEFINE more == open[c] \cup {part}
      <3> HIDE DEF more, Shaped, OpenInv, CacheInv, Typed
      <3>1. more \in SUBSET Held
        BY <2>3 DEF more
      <3> QED  BY <1>s, <2>2, <3>1, SetEntry DEF more
    <2> QED  BY <2>1, <2>4
  <1> QED
    BY <1>1, <1>2, <1>3, <1>4, <1>5, <1>6, <1>7, <1>8 DEF Next, Proceed

(* A thread at rest while another one works. *)
LEMMA OthersStay ==
    ASSUME CacheInv, OpenInv, [Next]_vars, NEW u \in Threads,
           UNCHANGED <<pc[u], target[u], shut[u], got[u]>>,
           pc[u] \in {"build", "register"} =>
              open'[target[u]] = open[target[u]] /\ built'[target[u]] = built[target[u]]
    PROVE  ThreadOpen(u)'
  <1>1. ThreadOpen(u)
    BY DEF OpenInv
  <1>2. \A c : Retired(c) => Retired(c)'
    BY RetiredStays
  <1> QED  BY <1>1, <1>2 DEF ThreadOpen

(* Threads that make a client make different ones, and none that is known. *)
LEMMA TargetsDiffer ==
    ASSUME CacheInv, NEW t \in Threads, NEW u \in Threads, t # u,
           pc[t] \in Making, pc[u] \in Making \cup {"close"}
    PROVE  target[t] # target[u] /\ target[t] \in DOMAIN fate /\ ~Known(target[t])
  <1>1. ThreadInv(t) /\ ThreadInv(u)
    BY DEF CacheInv, ClientInv
  <1>2. target[t] \in DOMAIN fate /\ ~Known(target[t])
    BY <1>1 DEF ThreadInv, Known, Public
  <1>3. CASE pc[u] = "close"
    BY <1>1, <1>2, <1>3 DEF ThreadInv
  <1>4. CASE pc[u] \in Making
    BY <1>1, <1>2, <1>4, OneAtAKey DEF ThreadInv, CacheInv, Making, InLock
  <1> QED  BY <1>2, <1>3, <1>4

(* Calls and lookups leave the clients as they are. *)
LEMMA LookingStep ==
    ASSUME CacheInv, OpenInv, NEW t \in Threads, [Next]_vars,
           \/ \E k \in Keys : GetInstance(t, k)
           \/ Lookup(t) \/ GetKeyLock(t) \/ Acquire(t) \/ RecheckHit(t) \/ Announce(t)
    PROVE  OpenInv'
  <1> USE RegistryConstants DEF Goto, Leave, Release, locals, history, registry, clients
  <1>1. UNCHANGED <<cached, keyOf, fate, open, built>>
    BY DEF GetInstance, Lookup, GetKeyLock, Acquire, RecheckHit, Announce
  <1>2. \A u \in Threads \ {t} : UNCHANGED <<pc[u], target[u], shut[u], got[u]>>
    BY DEF GetInstance, Lookup, GetKeyLock, Acquire, RecheckHit, Announce, CacheInv, Typed,
           OpenInv, Shaped
  <1>3. \A u \in Threads \ {t} : ThreadOpen(u)'
    BY <1>1, <1>2, OthersStay
  <1>4. /\ ThreadOpen(t) /\ ThreadInv(t) /\ None \notin shut[t]
        /\ pc \in [Threads -> Stages] /\ key \in [Threads -> Keys \cup {None}]
        /\ target \in [Threads -> Nat \cup {None}] /\ got \in [Threads -> Nat \cup {None}]
        /\ shut \in [Threads -> SUBSET Nat]
        /\ pc[t] \in {"lookup", "recheck"} => key[t] \in Keys
    BY DEF OpenInv, CacheInv, ClientInv, Shaped, Typed, KeyInv, InLock
  <1>5. \A k \in Keys : cached[k] # None => ~Retired(cached[k])
    BY DEF OpenInv, Retired
  <1>6. \A c : Retired(c) => Retired(c)'
    BY RetiredStays
  <1>7. ThreadOpen(t)'
    <2>1. CASE \E k \in Keys : GetInstance(t, k)
      <3>1. /\ pc'[t] = "lookup" /\ got'[t] = None
            /\ shut'[t] = {c \in DOMAIN fate : fate[c] \in {"closing", "closed"} /\ open[c] # Held}
        BY <1>4, <2>1 DEF GetInstance
      <3>2. \A c \in shut'[t] : Retired(c) /\ c \in Nat
        BY <3>1 DEF OpenInv, Retired, Known, Public, CacheInv, Typed
      <3> QED  BY <1>6, <3>1, <3>2 DEF ThreadOpen
    <2>2. CASE Lookup(t) \/ RecheckHit(t)
      <3>1. /\ pc'[t] \in {"idle", "want"} /\ UNCHANGED shut
            /\ got'[t] = got[t] \/ (got'[t] = cached[key[t]] /\ got'[t] # None)
        BY <1>4, <2>2 DEF Lookup, RecheckHit
      <3>2. key[t] \in Keys
        BY <1>4, <2>2 DEF Lookup, RecheckHit
      <3>3. got'[t] \notin shut[t]
        BY <1>4, <1>5, <3>1, <3>2 DEF ThreadOpen
      <3> QED  BY <1>4, <1>6, <3>1, <3>3 DEF ThreadOpen
    <2>3. CASE GetKeyLock(t) \/ Acquire(t)
      <3>1. pc'[t] \in {"acquire", "recheck", "evict"} /\ UNCHANGED <<got, shut>>
        BY <1>4, <2>3 DEF GetKeyLock, Acquire
      <3> QED  BY <1>4, <1>6, <3>1 DEF ThreadOpen
    <2>4. CASE Announce(t)
      <3>1. pc[t] = "announce" /\ pc'[t] = "idle" /\ UNCHANGED shut /\ got'[t] = target[t]
        BY <1>4, <2>4 DEF Announce
      <3> QED  BY <1>4, <1>6, <3>1 DEF ThreadOpen
    <2> QED  BY <2>1, <2>2, <2>3, <2>4
  <1>8. Shaped'
    BY ShapedStep
  <1> QED  BY <1>1, <1>3, <1>7, <1>8 DEF OpenInv, Known

(* A construction changes the client that its thread makes, and no other.   *)
LEMMA MakingStep ==
    ASSUME CacheInv, OpenInv, NEW t \in Threads, [Next]_vars,
           Constructing(t) \/ Miss(t) \/ Cleanup(t) \/ Raise(t) \/ Register(t)
    PROVE  OpenInv'
  <1> USE RegistryConstants DEF Goto, Leave, Release, locals, history, registry, clients
  <1> DEFINE m == target[t]
  <1>1. /\ ThreadOpen(t) /\ ThreadInv(t)
        /\ pc \in [Threads -> Stages] /\ key \in [Threads -> Keys \cup {None}]
        /\ target \in [Threads -> Nat \cup {None}] /\ got \in [Threads -> Nat \cup {None}]
        /\ shut \in [Threads -> SUBSET Nat]
        /\ keyOf \in Seq(Keys) /\ fate \in Seq(Fates) /\ Len(fate) = Len(keyOf)
        /\ Len(open) = Len(fate) /\ Len(built) = Len(fate)
        /\ open \in Seq(SUBSET Held) /\ built \in Seq(Nat)
        /\ \A k \in Keys : cached[k] # None => Known(cached[k]) /\ keyOf[cached[k]] = k
        /\ \A c \in DOMAIN fate : Known(c) /\ open[c] # Held => cached[keyOf[c]] # c
    BY DEF OpenInv, CacheInv, ClientInv, Shaped, Typed
  <1>2. \A c : Retired(c) => Retired(c)'
    BY RetiredStays
  <1>3. UNCHANGED <<shut, got>> /\ \A u \in Threads \ {t} : UNCHANGED <<pc[u], target[u]>>
    BY <1>1 DEF Constructing, Build, BuildFails, Miss, NewClient, Cleanup, Raise, Register
  <1>4. Shaped'
    BY ShapedStep
  <1>5. CASE Miss(t)
    <2>1. /\ \A c \in DOMAIN fate : /\ fate'[c] = fate[c] /\ keyOf'[c] = keyOf[c]
                                   /\ open'[c] = open[c] /\ built'[c] = built[c]
          /\ DOMAIN fate' = DOMAIN fate \cup {Len(fate) + 1}
          /\ fate'[Len(fate) + 1] = "new" /\ open'[Len(fate) + 1] = {} /\ built'[Len(fate) + 1] = 0
          /\ UNCHANGED cached /\ pc'[t] = "build" /\ target'[t] = Len(fate) + 1
      <3>1. key[t] \in Keys
        BY <1>5 DEF Miss, CacheInv, KeyInv, InLock
      <3>2. {} \in SUBSET Held
        OBVIOUS
      <3> QED  BY <1>1, <1>5, <3>1, <3>2 DEF Miss, NewClient, Fates
    <2>2. ThreadOpen(t)'
      <3>1. Gathered(0) = {} /\ Len(Steps) = 7
        BY AllGathered, StepsLength
      <3>2. (\A c \in shut[t] : Retired(c)) /\ got[t] \notin shut[t]
        BY <1>1 DEF ThreadOpen
      <3>3. (\A c \in shut'[t] : Retired(c)') /\ got'[t] \notin shut'[t]
        BY <1>2, <1>3, <3>2
      <3>4. /\ pc'[t] = "build"
            /\ built'[target'[t]] = 0 /\ open'[target'[t]] = {}
        BY <2>1
      <3>5. built'[target'[t]] < Len(Steps) /\ open'[target'[t]] = Gathered(built'[target'[t]])
        BY <3>1, <3>4
      <3> QED  BY <3>3, <3>4, <3>5 DEF ThreadOpen
    <2>3. \A u \in Threads \ {t} : ThreadOpen(u)'
      <3> SUFFICES ASSUME NEW u \in Threads \ {t} PROVE ThreadOpen(u)'
        OBVIOUS
      <3>1. pc[u] \in {"build", "register"} => target[u] \in DOMAIN fate
        BY DEF CacheInv, ClientInv, ThreadInv, Making
      <3> QED  BY <1>3, <2>1, <3>1, OthersStay
    <2>4. \A c \in DOMAIN fate' : Known(c)' <=> (c \in DOMAIN fate /\ Known(c))
      BY <2>1 DEF Known, Public
    <2> QED  BY <1>1, <1>4, <2>1, <2>2, <2>3, <2>4 DEF OpenInv, Known
  <1>6. ASSUME Constructing(t) \/ Cleanup(t) \/ Raise(t) \/ Register(t)
        PROVE  /\ pc[t] \in Making /\ m \in DOMAIN fate /\ ~Known(m) /\ fate[m] = "new"
               /\ keyOf[m] = key[t] /\ key[t] \in Keys
               /\ \A u \in Threads \ {t} : pc[u] \in Making \cup {"close"} => target[u] # m
    <2>1. pc[t] \in Making
      BY <1>6 DEF Constructing, Build, BuildFails, Cleanup, Raise, Register, Making
    <2>2. \A u \in Threads \ {t} : pc[u] \in Making \cup {"close"} => target[u] # m
      BY <2>1, TargetsDiffer
    <2> QED
      BY <1>1, <2>1, <2>2 DEF ThreadInv, Known, Public, CacheInv, KeyInv, InLock, Making
  <1>7. CASE Constructing(t) \/ Cleanup(t)
    <2>1. /\ UNCHANGED <<cached, keyOf, fate, target>>
          /\ \E S : open' = open \/ open' = [open EXCEPT ![m] = S]
          /\ \E n : built' = built \/ built' = [built EXCEPT ![m] = n]
      BY <1>7 DEF Constructing, Build, BuildFails, Cleanup, CloseNext, StopPublisher, PassOver, Finish
    <2>2. \A c \in DOMAIN fate : c # m => open'[c] = open[c] /\ built'[c] = built[c]
      BY <1>1, <2>1
    <2>3. \A u \in Threads \ {t} : ThreadOpen(u)'
      <3> SUFFICES ASSUME NEW u \in Threads \ {t} PROVE ThreadOpen(u)'
        OBVIOUS
      <3>1. pc[u] \in {"build", "register"} => target[u] \in DOMAIN fate /\ target[u] # m
        BY <1>6, <1>7 DEF CacheInv, ClientInv, ThreadInv, Making
      <3> QED  BY <1>3, <2>2, <3>1, OthersStay
    <2>4. ThreadOpen(t)'
      <3>1. CASE Build(t)
        <4>1. /\ pc[t] = "build" /\ target'[t] = m
              /\ built' = [built EXCEPT ![m] = built[m] + 1]
              /\ open' = [open EXCEPT ![m] = open[m] \cup Acquired(Steps[built[m] + 1])]
              /\ pc' = [pc EXCEPT ![t] = IF built'[m] = 7 THEN "register" ELSE "build"]
          BY <3>1, StepsLength DEF Build
        <4>2. m \in DOMAIN fate
          BY <1>6, <1>7
        <4>3. built[m] \in Nat /\ built[m] < 7 /\ open[m] = Gathered(built[m])
          BY <1>1, <4>1, <4>2, StepsLength DEF ThreadOpen
        <4>4. built'[m] = built[m] + 1 /\ open'[m] = Gathered(built[m] + 1)
          <5>1. m \in DOMAIN open /\ m \in DOMAIN built
            BY <1>1, <4>2
          <5>2. /\ built'[m] = built[m] + 1
                /\ open'[m] = open[m] \cup Acquired(Steps[built[m] + 1])
            BY <4>1, <5>1
          <5>3. Gathered(built[m] + 1) = Gathered(built[m]) \cup Acquired(Steps[built[m] + 1])
            BY <4>3, AllGathered
          <5> QED  BY <4>3, <5>2, <5>3
        <4>5. CASE built[m] + 1 = 7
          <5>1. pc'[t] = "register" /\ open'[m] = Held
            BY <1>1, <4>1, <4>4, <4>5, AllGathered
          <5> QED  BY <1>1, <1>2, <1>3, <4>1, <5>1 DEF ThreadOpen
        <4>6. CASE built[m] + 1 # 7
          <5>1. pc'[t] = "build" /\ built'[m] < 7
            BY <1>1, <4>1, <4>3, <4>4, <4>6
          <5> QED  BY <1>1, <1>2, <1>3, <4>1, <4>4, <5>1, StepsLength DEF ThreadOpen
        <4> QED  BY <4>5, <4>6
      <3>2. CASE BuildFails(t) \/ Cleanup(t)
        <4>1. pc'[t] = "cleanup"
          BY <1>1, <3>2 DEF BuildFails, Cleanup
        <4> QED  BY <1>1, <1>2, <1>3, <4>1 DEF ThreadOpen
      <3> QED  BY <1>7, <3>1, <3>2 DEF Constructing
    <2>5. \A c \in DOMAIN fate : Known(c)' => c # m
      BY <1>6, <1>7, <2>1 DEF Known
    <2> QED  BY <1>1, <1>4, <2>1, <2>2, <2>3, <2>4, <2>5 DEF OpenInv, Known
  <1>8. CASE Raise(t) \/ Register(t)
    <2>1. /\ UNCHANGED <<keyOf, open, built>>
          /\ fate' \in {[fate EXCEPT ![m] = "dropped"], [fate EXCEPT ![m] = "live"]}
          /\ cached' = cached \/ (Register(t) /\ cached' = [cached EXCEPT ![key[t]] = m])
      BY <1>8 DEF Raise, Register
    <2>2. \A u \in Threads \ {t} : ThreadOpen(u)'
      BY <1>3, <2>1, OthersStay
    <2>3. ThreadOpen(t)' /\ (Register(t) => open[m] = Held)
      <3>1. CASE Raise(t)
        <4>1. pc'[t] = "idle" /\ pc[t] = "cleanup"
          BY <1>1, <3>1 DEF Raise
        <4> QED  BY <1>1, <1>2, <1>3, <3>1, <4>1 DEF ThreadOpen, Register
      <3>2. CASE Register(t)
        <4>1. pc'[t] = "announce" /\ target'[t] = m /\ open[m] = Held
          BY <1>1, <3>2 DEF Register, ThreadOpen
        <4>2. m \notin shut[t]
          BY <1>1, <1>6, <3>2 DEF ThreadOpen, Retired
        <4> QED  BY <1>1, <1>2, <1>3, <4>1, <4>2 DEF ThreadOpen
      <3> QED  BY <1>8, <3>1, <3>2
    <2>4. \A c \in DOMAIN fate \ {m} : Known(c)' <=> Known(c)
      BY <1>1, <1>6, <1>8, <2>1 DEF Known
    <2>5. \A k \in Keys : cached'[k] # None => keyOf'[cached'[k]] = k
      BY <1>1, <1>6, <1>8, <2>1 DEF CacheInv, Typed
    <2>6. \A c \in DOMAIN fate' : Known(c)' /\ open'[c] # Held => cached'[keyOf'[c]] # c
      <3> SUFFICES ASSUME NEW c \in DOMAIN fate', Known(c)', open'[c] # Held
                   PROVE  cached'[keyOf'[c]] # c
        OBVIOUS
      <3>1. c \in DOMAIN fate
        BY <1>1, <1>6, <1>8, <2>1
      <3>2. CASE c = m
        <4>1. Raise(t)
          BY <1>8, <2>1, <2>3, <3>2
        <4>2. fate'[m] = "dropped"
          BY <1>1, <1>6, <1>8, <4>1 DEF Raise
        <4> QED  BY <3>2, <4>2 DEF Known, Public
      <3>3. CASE c # m
        <4>1. cached[keyOf[c]] # c /\ keyOf[c] \in Keys
          BY <1>1, <2>1, <2>4, <3>1, <3>3
        <4> QED  BY <2>1, <3>3, <4>1 DEF CacheInv, Typed
      <3> QED  BY <3>2, <3>3
    <2> QED  BY <1>4, <2>2, <2>3, <2>5, <2>6 DEF OpenInv
  <1> QED  BY <1>5, <1>7, <1>8

(* A thread on its way to the eviction works under the key of its client.   *)
AimInv ==
    \A t \in Threads :
        pc[t] \in {"want", "acquire", "evict"} /\ target[t] # None =>
            key[t] = keyOf[target[t]]

(* Every step keeps it: close sets both, and keys of clients never change. *)
LEMMA AimStep ==
    ASSUME CacheInv, AimInv, [Next]_vars
    PROVE  AimInv'
  <1> USE RegistryConstants
      DEF Goto, Leave, Release, locals, history, registry, clients
  <1>1. /\ pc \in [Threads -> Stages] /\ key \in [Threads -> Keys \cup {None}]
        /\ target \in [Threads -> Nat \cup {None}] /\ keyOf \in Seq(Keys)
        /\ fate \in Seq(Fates) /\ Len(keyOf) = Len(fate)
        /\ \A t \in Threads : ThreadInv(t)
        /\ \A t \in Threads : pc[t] \in InLock => key[t] \in Keys
    BY DEF CacheInv, ClientInv, Typed, KeyInv
  <1>2. ASSUME NEW t \in Threads, pc[t] \in {"want", "acquire", "evict"}, target[t] # None
        PROVE  target[t] \in DOMAIN keyOf
    BY <1>1, <1>2 DEF ThreadInv, Known
  <1>3. \A c \in DOMAIN keyOf : keyOf'[c] = keyOf[c]
    <2>1. ASSUME NEW t \in Threads, Miss(t) PROVE \A c \in DOMAIN keyOf : keyOf'[c] = keyOf[c]
      <3>1. key[t] \in Keys /\ keyOf' = Append(keyOf, key[t])
        BY <1>1, <2>1 DEF Miss, NewClient, InLock
      <3> QED  BY <1>1, <3>1
    <2>2. ASSUME NEW t \in Threads,
                 Call(t) \/ Constructing(t) \/ (Proceed(t) /\ ~Miss(t))
          PROVE  keyOf' = keyOf
      BY <2>2 DEF Call, GetInstance, Close, Constructing, Build, BuildFails, Proceed, Lookup,
                  GetKeyLock, Acquire, RecheckHit, Cleanup, Raise, Register, Announce, Evict,
                  Closing, Closed
    <2>3. ASSUME NEW c \in DOMAIN open, FlushSends(c) PROVE keyOf' = keyOf
      BY <2>3 DEF FlushSends
    <2> QED  BY <2>1, <2>2, <2>3 DEF Next, Proceed, vars
  <1>4. ASSUME NEW t \in Threads, NEW u \in Threads, Call(t) \/ Constructing(t) \/ Proceed(t),
               pc'[u] \in {"want", "acquire", "evict"}, target'[u] # None
        PROVE  key'[u] = keyOf'[target'[u]]
    <2>1. CASE u # t
      <3>1. UNCHANGED <<pc[u], key[u], target[u]>>
        BY <1>1, <1>4, <2>1
           DEF Call, GetInstance, Close, Constructing, Build, BuildFails, Proceed, Lookup,
               GetKeyLock, Acquire, RecheckHit, Miss, NewClient, Cleanup, Raise, Register,
               Announce, Evict, Closing, Closed
      <3> QED  BY <1>2, <1>3, <1>4, <3>1 DEF AimInv
    <2>2. CASE u = t
      <3>1. CASE \E x \in Threads : got[x] # None /\ Close(t, got[x])
        <4>1. PICK x \in Threads : got[x] # None /\ Close(t, got[x])
          BY <3>1
        <4>2. got[x] \in DOMAIN keyOf
          BY <1>1, <4>1 DEF ThreadInv, Known
        <4>3. key'[t] = keyOf[got[x]] /\ target'[t] = got[x]
          BY <1>1, <4>1 DEF Close
        <4> QED  BY <1>3, <2>2, <4>2, <4>3
      <3>2. CASE GetKeyLock(t) \/ Acquire(t)
        <4>1. pc[t] \in {"want", "acquire"} /\ UNCHANGED <<key, target>>
          BY <3>2 DEF GetKeyLock, Acquire
        <4> QED  BY <1>2, <1>3, <1>4, <2>2, <4>1 DEF AimInv
      <3>3. CASE Lookup(t)
        BY <1>1, <1>4, <2>2, <3>3 DEF Lookup, ThreadInv
      <3>4. CASE ~Lookup(t) /\ ~GetKeyLock(t) /\ ~Acquire(t)
                 /\ ~\E x \in Threads : got[x] # None /\ Close(t, got[x])
        <4>1. pc'[t] \notin {"want", "acquire", "evict"}
          BY <1>1, <1>4, <3>4
             DEF Call, GetInstance, Constructing, Build, BuildFails, Proceed, RecheckHit, Miss,
                 NewClient, Cleanup, Raise, Register, Announce, Evict, Closing, Closed
        <4> QED  BY <1>4, <2>2, <4>1
      <3> QED  BY <3>1, <3>2, <3>3, <3>4
    <2> QED  BY <2>1, <2>2
  <1>5. CASE UNCHANGED vars \/ \E c \in DOMAIN open : FlushSends(c)
    BY <1>5 DEF vars, FlushSends, AimInv
  <1> QED  BY <1>4, <1>5 DEF AimInv, Next

(* close takes apart what it has evicted, and evicts before it begins.      *)
LEMMA ClosingStep ==
    ASSUME CacheInv, OpenInv, AimInv, NEW t \in Threads, [Next]_vars,
           \/ \E u \in Threads : got[u] # None /\ Close(t, got[u])
           \/ Evict(t) \/ Closing(t) \/ Closed(t)
    PROVE  OpenInv'
  <1> USE RegistryConstants DEF Goto, Leave, Release, locals, history, registry, clients
  <1> DEFINE m == target[t]
  <1>1. /\ ThreadOpen(t) /\ ThreadInv(t)
        /\ pc \in [Threads -> Stages] /\ key \in [Threads -> Keys \cup {None}]
        /\ target \in [Threads -> Nat \cup {None}] /\ got \in [Threads -> Nat \cup {None}]
        /\ cached \in [Keys -> Nat \cup {None}] /\ keyOf \in Seq(Keys)
        /\ fate \in Seq(Fates) /\ Len(open) = Len(fate) /\ Len(keyOf) = Len(fate)
    BY DEF OpenInv, CacheInv, ClientInv, Shaped, Typed
  <1>2. \A c : Retired(c) => Retired(c)'
    BY RetiredStays
  <1>3. UNCHANGED <<keyOf, built, shut>> /\ \A u \in Threads \ {t} : UNCHANGED <<pc[u], target[u]>>
    BY <1>1 DEF Close, Evict, Closing, Closed
  <1>4. Shaped'
    BY ShapedStep
  <1>5. \A x \in Threads \ {t} : UNCHANGED got[x]
    BY <1>1 DEF Close, Evict, Closing, Closed
  <1>6. CASE Closing(t)
    <2>1. /\ pc[t] = "close" /\ UNCHANGED <<cached, fate, pc, target, got>>
          /\ \E S : open' = open \/ open' = [open EXCEPT ![m] = S]
      BY <1>6 DEF Closing, CloseNext, StopPublisher, PassOver, Finish
    <2>2. \A c \in DOMAIN fate : c # m => open'[c] = open[c]
      BY <1>1, <2>1
    <2>3. Retired(m)
      BY <1>1, <2>1 DEF ThreadOpen
    <2>4. \A u \in Threads \ {t} : ThreadOpen(u)'
      <3> SUFFICES ASSUME NEW u \in Threads \ {t} PROVE ThreadOpen(u)'
        OBVIOUS
      <3>1. pc[u] \in {"build", "register"} => target[u] \in DOMAIN fate /\ target[u] # m
        BY <2>1, TargetsDiffer DEF Making
      <3> QED  BY <1>3, <1>5, <2>1, <2>2, <3>1, OthersStay
    <2>5. ThreadOpen(t)'
      BY <1>1, <1>2, <1>3, <2>1 DEF ThreadOpen
    <2> QED  BY <1>3, <1>4, <2>1, <2>2, <2>3, <2>4, <2>5 DEF OpenInv, Known, Retired
  <1>7. CASE Evict(t)
    <2>1. /\ pc[t] = "evict" /\ pc'[t] = "close" /\ UNCHANGED <<open, fate, target, got>>
          /\ cached' = [cached EXCEPT ![key[t]] = IF @ = m THEN None ELSE @]
      BY <1>1, <1>7 DEF Evict
    <2>2. \A u \in Threads \ {t} : ThreadOpen(u)'
      BY <1>3, <1>5, <2>1, OthersStay
    <2>3. Known(m) /\ keyOf[m] \in Keys /\ cached'[keyOf[m]] # m
      <3>1. Known(m) /\ key[t] \in Keys /\ m # None
        BY <1>1, <2>1 DEF ThreadInv, CacheInv, KeyInv, InLock
      <3>2. keyOf[m] \in Keys
        BY <1>1, <3>1 DEF Known
      <3>3. keyOf[m] = key[t]
        BY <2>1, <3>1 DEF AimInv
      <3> QED  BY <1>1, <2>1, <3>1, <3>2, <3>3
    <2>4. ThreadOpen(t)'
      BY <1>1, <1>2, <1>3, <2>1, <2>3 DEF ThreadOpen, Retired, Known
    <2>5. \A k \in Keys : cached'[k] # None => cached'[k] = cached[k]
      BY <1>1, <2>1
    <2>6. \A c \in DOMAIN fate : Known(c) /\ open[c] # Held => cached'[keyOf[c]] # c
      BY <1>1, <2>1 DEF OpenInv
    <2> QED  BY <1>3, <1>4, <2>1, <2>2, <2>4, <2>5, <2>6 DEF OpenInv, Known
  <1>8. CASE Closed(t) \/ \E u \in Threads : got[u] # None /\ Close(t, got[u])
    <2>1. /\ UNCHANGED <<cached, open, got>> /\ DOMAIN fate' = DOMAIN fate
          /\ pc'[t] \in {"idle", "want"}
          /\ \A c \in DOMAIN fate : Known(c)' <=> Known(c)
      <3>1. CASE Closed(t)
        <4>1. Known(m)
          BY <1>1, <3>1 DEF Closed, ThreadInv
        <4>2. UNCHANGED <<cached, open, got>> /\ fate' = [fate EXCEPT ![m] = "closed"]
              /\ pc'[t] = "idle"
          BY <1>1, <3>1 DEF Closed
        <4> QED  BY <1>1, <4>1, <4>2 DEF Known, Public
      <3>2. ASSUME NEW u \in Threads, got[u] # None, Close(t, got[u])
            PROVE  /\ UNCHANGED <<cached, open, got>> /\ DOMAIN fate' = DOMAIN fate
                   /\ pc'[t] \in {"idle", "want"}
                   /\ \A c \in DOMAIN fate : Known(c)' <=> Known(c)
        BY <1>1, <3>2 DEF Close, Known, Public
      <3> QED  BY <1>8, <3>1, <3>2
    <2>2. \A u \in Threads \ {t} : ThreadOpen(u)'
      BY <1>3, <1>5, <2>1, OthersStay
    <2>3. ThreadOpen(t)'
      BY <1>1, <1>2, <1>3, <2>1 DEF ThreadOpen
    <2> QED  BY <1>3, <1>4, <2>1, <2>2, <2>3 DEF OpenInv
  <1> QED  BY <1>6, <1>7, <1>8

(* A flush opens nothing again before a close has taken something.          *)
LEMMA FlushStep ==
    ASSUME CacheInv, OpenInv, [Next]_vars, NEW c \in DOMAIN open, FlushSends(c)
    PROVE  OpenInv'
  <1> USE RegistryConstants DEF locals, history, registry
  <1>1. /\ UNCHANGED <<cached, keyOf, built, fate, pc, target, got, shut>>
        /\ open[c] # Held /\ "flush" \in open[c]
        /\ \A x \in DOMAIN fate : x # c => open'[x] = open[x]
    BY SchedulerHeld DEF FlushSends, OpenInv, Shaped
  <1>2. \A u \in Threads : ThreadOpen(u)'
    <2> SUFFICES ASSUME NEW u \in Threads PROVE ThreadOpen(u)'
      OBVIOUS
    <2>1. ASSUME pc[u] \in {"build", "register"} PROVE target[u] \in DOMAIN fate /\ target[u] # c
      <3>1. target[u] \in DOMAIN fate
        BY <2>1 DEF CacheInv, ClientInv, ThreadInv, Making
      <3>2. CASE pc[u] = "register"
        BY <1>1, <3>1, <3>2 DEF OpenInv, ThreadOpen
      <3>3. CASE pc[u] = "build"
        <4>1. built[target[u]] \in Nat
          BY <3>1 DEF OpenInv, Shaped
        <4>2. built[target[u]] < 7 /\ open[target[u]] = Gathered(built[target[u]])
          BY <3>3, StepsLength DEF OpenInv, ThreadOpen
        <4>3. built[target[u]] \in 0 .. 6
          BY <4>1, <4>2
        <4> QED  BY <1>1, <3>1, <4>2, <4>3, SchedulerGathered
      <3> QED  BY <2>1, <3>2, <3>3
    <2> QED  BY <1>1, <2>1, OthersStay
  <1>3. Shaped'
    BY ShapedStep
  <1>4. \A x \in DOMAIN fate : Known(x) /\ open'[x] # Held => cached[keyOf[x]] # x
    BY <1>1 DEF OpenInv
  <1> QED  BY <1>1, <1>2, <1>3, <1>4 DEF OpenInv, Known

(* The three together are inductive. *)
LEMMA LifeInvariant == Spec => [](CacheInv /\ OpenInv /\ AimInv)
<1> DEFINE Inv == CacheInv /\ OpenInv /\ AimInv
<1>1. Inv /\ [Next]_vars => Inv'
  <2> SUFFICES ASSUME CacheInv, OpenInv, AimInv, [Next]_vars PROVE Inv'
    OBVIOUS
  <2>1. CacheInv'
    BY TypedStep, KeyStep, ClientStep DEF CacheInv
  <2>2. AimInv'
    BY AimStep
  <2>3. OpenInv'
    <3>1. CASE UNCHANGED vars
      BY <3>1 DEF vars, registry, clients, locals, history, OpenInv, Shaped, ThreadOpen,
                  Retired, Known
    <3>2. ASSUME NEW t \in Threads, Call(t) \/ Constructing(t) \/ Proceed(t) PROVE OpenInv'
      BY <3>2, LookingStep, MakingStep, ClosingStep DEF Call, Proceed
    <3> QED  BY <3>1, <3>2, FlushStep DEF Next
  <2> QED  BY <2>1, <2>2, <2>3
<1>2. Init => Inv
  BY CacheInvInit, OpenInvInit, RegistryConstants DEF Init, AimInv
<1> QED  BY <1>1, <1>2, PTL DEF Spec

(* get_instance beside close: a call that begins when close has already     *)
(* taken something from a client never returns that client.                 *)
THEOREM ClosedNeverHandedOut == Spec => []NeverHandsOutClosed
<1>1. OpenInv => NeverHandsOutClosed
  BY DEF OpenInv, ThreadOpen, NeverHandsOutClosed
<1> QED  BY <1>1, LifeInvariant, PTL

-----------------------------------------------------------------------------
(* What close and the cleanup of a failed construction leave behind.        *)

Items == Components \cup {"flush"}

Has(list, x) == \E i \in DOMAIN list : list[i] = x

OwedBy(list) == UNION {Parts(list[i]) : i \in DOMAIN list}

(* What the threads that close a client, or clean it up, will still release. *)
OwedOn(c) == UNION {Owed(t) : t \in {u \in Threads : target[u] = c}}

(* The publisher is closed before the sender it sends through. *)
InOrder(list) ==
    \A i, j \in DOMAIN list : list[i] = "sender" /\ list[j] = "publisher" => j < i

(* In close, the publisher and its flush come first, the sessions that the  *)
(* flush uses later.                                                        *)
FlushFirst(list) ==
    \A i \in DOMAIN list :
        list[i] \in {"publisher", "flush"} => i = 1 /\ Has(list, "sender") /\ Has(list, "token")

(* A close of the client, or its cleanup, is under way or over. *)
Releasing(c) ==
    \/ fate[c] \in {"closed", "dropped"}
    \/ \E t \in Threads : pc[t] \in {"close", "cleanup"} /\ target[t] = c

(* A client that is being taken apart holds no more than the threads that   *)
(* do so have, together, still to release.                                  *)
ReleaseInv ==
    /\ todo \in [Threads -> Seq(Items)]
    /\ \A t \in Threads :
         /\ InOrder(todo[t])
         /\ pc[t] \notin {"close", "cleanup"} => todo[t] = <<>>
         /\ pc[t] = "close" => FlushFirst(todo[t])
         /\ pc[t] = "cleanup" => "flush" \notin open[target[t]]
         /\ pc[t] \in {"close", "cleanup"} /\ "publisher" \notin Faulty
            /\ "scheduler" \in open[target[t]] => Has(todo[t], "publisher")
    /\ \A c \in DOMAIN fate : Releasing(c) => open[c] \subseteq Spared \cup OwedOn(c)

(* A thread that has stopped the scheduler and waits for the flush. *)
Waits(t, c) ==
    pc[t] = "close" /\ target[t] = c /\ todo[t] # <<>> /\ Head(todo[t]) = "flush"

(* A flush that outlives its scheduler is waited for by some thread.        *)
FlushInv ==
    "publisher" \notin Faulty =>
        \A c \in DOMAIN fate :
            "flush" \in open[c] /\ "scheduler" \notin open[c] => \E t \in Threads : Waits(t, c)

(* Calls of close that overlap are on record. *)
RaceInv == \A c \in DOMAIN fate \ raced : \A t, u \in Closers(c) : t = u

LeakInv == ReleaseInv /\ FlushInv /\ RaceInv /\ PublisherStopsFirst

(* Which component holds what. *)
LEMMA PartsFacts ==
    /\ \A x \in Items : /\ "scheduler" \in Parts(x) <=> x = "publisher"
                        /\ "flush" \in Parts(x) <=> x \in {"publisher", "flush"}
                        /\ "sender" \in Parts(x) <=> x = "sender"
                        /\ "oauth" \in Parts(x) <=> x = "token"
    /\ Parts("publisher") = {"scheduler", "flush"} /\ Parts("flush") = {"flush"}
    /\ \A x \in Faulty : x \in Items /\ x # "flush" /\ Parts(x) \subseteq Spared
    /\ "publisher" \in Faulty => {"scheduler", "flush"} \cup FlushUses \subseteq Spared
    /\ "publisher" \notin Faulty => "scheduler" \notin Spared
  <1>1. \A x \in Items : /\ "scheduler" \in Parts(x) <=> x = "publisher"
                         /\ "flush" \in Parts(x) <=> x \in {"publisher", "flush"}
                         /\ "sender" \in Parts(x) <=> x = "sender"
                         /\ "oauth" \in Parts(x) <=> x = "token"
    BY DEF Parts, Components, Items
  <1>2. Parts("publisher") = {"scheduler", "flush"} /\ Parts("flush") = {"flush"}
    BY DEF Parts
  <1>3. \A x \in Faulty : x \in Items /\ x # "flush" /\ Parts(x) \subseteq Spared
    BY RegistryConstants DEF Spared, Items, Components
  <1>4. "publisher" \in Faulty => {"scheduler", "flush"} \cup FlushUses \subseteq Spared
    <2>1. "publisher" \in Faulty => {"scheduler", "flush"} \subseteq Spared
      BY <1>2, <1>3
    <2>2. "publisher" \in Faulty => FlushUses \subseteq Spared
      BY DEF Spared
    <2> QED  BY <2>1, <2>2
  <1>5. "publisher" \notin Faulty => "scheduler" \notin Spared
    BY <1>1, <1>3 DEF Spared
  <1> QED  BY <1>1, <1>2, <1>3, <1>4, <1>5

(* A list after its first item is done, or with the wait in its place.      *)
LEMMA ListStep ==
    ASSUME NEW list \in Seq(Items), list # <<>>, InOrder(list)
    PROVE  LET head == Head(list)
               rest == Tail(list)
               wait == <<"flush">> \o Tail(list)
           IN  /\ head \in Items /\ rest \in Seq(Items) /\ wait \in Seq(Items)
               /\ InOrder(rest) /\ InOrder(wait)
               /\ head = "sender" => ~Has(list, "publisher")
               /\ FlushFirst(list) => FlushFirst(rest)
               /\ FlushFirst(list) /\ head = "publisher" => FlushFirst(wait)
               /\ wait # <<>> /\ Head(wait) = "flush"
               /\ OwedBy(list) = Parts(head) \cup OwedBy(rest)
               /\ OwedBy(wait) = Parts("flush") \cup OwedBy(rest)
               /\ \A x : Has(list, x) => x = head \/ Has(rest, x)
  <1> DEFINE n == Len(list)
             head == Head(list)
             rest == Tail(list)
             wait == <<"flush">> \o Tail(list)
  <1>1. /\ n \in Nat \ {0} /\ DOMAIN list = 1 .. n /\ DOMAIN rest = 1 .. n - 1
        /\ list[1] = head /\ head \in Items /\ rest \in Seq(Items)
        /\ \A i \in 1 .. n - 1 : rest[i] = list[i + 1]
    OBVIOUS
  <1>2. /\ wait \in Seq(Items) /\ DOMAIN wait = 1 .. n /\ wait # <<>>
        /\ wait[1] = "flush" /\ Head(wait) = "flush"
        /\ \A i \in 2 .. n : wait[i] = rest[i - 1]
    <2>1. <<"flush">> \in Seq(Items) /\ Len(<<"flush">>) = 1 /\ <<"flush">>[1] = "flush"
      BY DEF Items
    <2>2. Len(rest) = n - 1
      BY <1>1
    <2> HIDE DEF rest
    <2>3. wait = <<"flush">> \o rest
      BY DEF rest
    <2> HIDE DEF wait, n
    <2> QED  BY <1>1, <2>1, <2>2, <2>3
  <1> HIDE DEF n, head, rest, wait
  <1>3. \A i \in 2 .. n : i - 1 \in 1 .. n - 1 /\ rest[i - 1] = list[i] /\ wait[i] = list[i]
    BY <1>1, <1>2
  <1>4. \A i \in 1 .. n : i = 1 \/ i \in 2 .. n
    BY <1>1
  <1>5. InOrder(rest)
    <2> SUFFICES ASSUME NEW i \in 1 .. n - 1, NEW j \in 1 .. n - 1,
                        rest[i] = "sender", rest[j] = "publisher"
                 PROVE  j < i
      BY <1>1 DEF InOrder
    <2>1. /\ i + 1 \in DOMAIN list /\ list[i + 1] = "sender"
          /\ j + 1 \in DOMAIN list /\ list[j + 1] = "publisher"
      BY <1>1
    <2>2. j + 1 < i + 1
      BY <2>1 DEF InOrder
    <2> QED  BY <1>1, <2>2
  <1>6. InOrder(wait)
    BY <1>1, <1>2, <1>3, <1>4 DEF InOrder
  <1>7. head = "sender" => ~Has(list, "publisher")
    BY <1>1 DEF InOrder, Has
  <1>8. FlushFirst(list) => FlushFirst(rest)
    BY <1>1 DEF FlushFirst
  <1>9. \A x : Has(list, x) => x = head \/ Has(rest, x)
    BY <1>1, <1>3, <1>4 DEF Has
  <1>10. FlushFirst(list) /\ head = "publisher" => FlushFirst(wait)
    <2> SUFFICES ASSUME FlushFirst(list), head = "publisher" PROVE FlushFirst(wait)
      OBVIOUS
    <2>1. PICK j \in 1 .. n, k \in 1 .. n : list[j] = "sender" /\ list[k] = "token"
      BY <1>1 DEF FlushFirst, Has
    <2>2. wait[j] = "sender" /\ wait[k] = "token"
      BY <1>1, <1>3, <1>4, <2>1
    <2>3. \A i \in 2 .. n : wait[i] \notin {"publisher", "flush"}
      BY <1>1, <1>3 DEF FlushFirst
    <2> QED  BY <1>2, <1>4, <2>1, <2>2, <2>3 DEF FlushFirst, Has
  <1>11. OwedBy(list) = Parts(head) \cup OwedBy(rest)
    <2>1. Parts(head) \cup OwedBy(rest) \subseteq OwedBy(list)
      BY <1>1 DEF OwedBy
    <2>2. \A i \in 1 .. n : Parts(list[i]) \subseteq Parts(head) \cup OwedBy(rest)
      BY <1>1, <1>3, <1>4 DEF OwedBy
    <2> QED  BY <1>1, <2>1, <2>2 DEF OwedBy
  <1>12. OwedBy(wait) = Parts("flush") \cup OwedBy(rest)
    <2>1. \A i \in 1 .. n - 1 : i + 1 \in 2 .. n /\ wait[i + 1] = rest[i]
      BY <1>1, <1>2
    <2>2. Parts("flush") \cup OwedBy(rest) \subseteq OwedBy(wait)
      BY <1>1, <1>2, <2>1 DEF OwedBy
    <2>3. \A i \in 1 .. n : Parts(wait[i]) \subseteq Parts("flush") \cup OwedBy(rest)
      BY <1>1, <1>2, <1>3, <1>4 DEF OwedBy
    <2> QED  BY <1>2, <2>2, <2>3 DEF OwedBy
  <1> QED
    BY <1>1, <1>2, <1>5, <1>6, <1>7, <1>8, <1>9, <1>10, <1>11, <1>12 DEF head, rest, wait

(* The list of a close is in order and releases all.                        *)
LEMMA CloseOrderReleases ==
    /\ CloseOrder \in Seq(Items) /\ InOrder(CloseOrder) /\ FlushFirst(CloseOrder)
    /\ Has(CloseOrder, "publisher")
    /\ Held \subseteq OwedBy(CloseOrder)
  <1>1. /\ CloseOrder \in Seq(Items) /\ DOMAIN CloseOrder = 1 .. 5
        /\ CloseOrder[1] = "publisher" /\ CloseOrder[2] = "sender" /\ CloseOrder[3] = "http"
        /\ CloseOrder[4] = "pci" /\ CloseOrder[5] = "token"
    BY DEF CloseOrder, Components, Items
  <1>2. InOrder(CloseOrder)
    BY <1>1 DEF InOrder
  <1>3. FlushFirst(CloseOrder)
    <2>1. Has(CloseOrder, "sender") /\ Has(CloseOrder, "token")
      BY <1>1 DEF Has
    <2>2. \A i \in 1 .. 5 : i \in {1, 2, 3, 4, 5}
      OBVIOUS
    <2> QED  BY <1>1, <2>1, <2>2 DEF FlushFirst
  <1>4. \A x \in Components : \E i \in 1 .. 5 : CloseOrder[i] = x
    BY <1>1 DEF Components
  <1>5. Held \subseteq OwedBy(CloseOrder)
    BY <1>1, <1>4 DEF Held, OwedBy
  <1> QED  BY <1>1, <1>2, <1>3, <1>5 DEF Has

(* So is the list of a cleanup; it releases what the construction has got   *)
(* so far, in the order opposite to that in which it was acquired.          *)
LEMMA CleanupReleases ==
    ASSUME NEW n \in 0 .. 6
    PROVE  LET list == Reverse(Closables(n + 1))
           IN  /\ list \in Seq(Items) /\ InOrder(list)
               /\ Gathered(n) \subseteq OwedBy(list)
               /\ n = 6 => Has(list, "publisher") /\ Held \subseteq OwedBy(list)
  <1> DEFINE m == IF n <= 5 THEN n ELSE 5
             list == Reverse(Closables(n + 1))
             all == OwedBy(list)
  <1>1. m \in 0 .. 5 /\ m <= n
    OBVIOUS
  <1>2. Closables(n + 1) = [i \in 1 .. m |-> Steps[i]]
    <2>1. Closables(n + 1) = SubSeq(Steps, 1, m)
      BY DEF Closables
    <2> QED  BY <1>1, <2>1, StepsLength
  <1>3. list = [i \in 1 .. m |-> Steps[m - i + 1]]
    <2>1. Len(Closables(n + 1)) = m
      BY <1>1, <1>2
    <2> QED  BY <1>1, <1>2, <2>1 DEF Reverse
  <1>4. /\ Steps[1] = "http" /\ Steps[2] = "pci" /\ Steps[3] = "sender"
        /\ Steps[4] = "publisher" /\ Steps[5] = "token" /\ Steps[6] = "start"
        /\ Steps[7] = "publish"
    BY DEF Steps
  <1> HIDE DEF m, list
  <1>5. list \in Seq(Items)
    <2>1. \A i \in 1 .. m : Steps[m - i + 1] \in Items
      BY <1>1, <1>4 DEF Components, Items
    <2> QED  BY <1>1, <1>3, <2>1
  <1>6. InOrder(list)
    <2>1. \A i \in 1 .. m : list[i] = Steps[m - i + 1] /\ m - i + 1 \in 1 .. 5
      BY <1>1, <1>3
    <2>2. \A k \in 1 .. 5 : /\ Steps[k] = "sender" => k = 3
                            /\ Steps[k] = "publisher" => k = 4
      BY <1>4
    <2> SUFFICES ASSUME NEW i \in 1 .. m, NEW j \in 1 .. m,
                        list[i] = "sender", list[j] = "publisher"
                 PROVE  j < i
      BY <1>3 DEF InOrder
    <2>3. m - i + 1 = 3 /\ m - j + 1 = 4
      BY <2>1, <2>2
    <2> QED  BY <1>1, <2>3
  <1>7. \A k \in 1 .. m : Parts(Steps[k]) \subseteq all
    <2> SUFFICES ASSUME NEW k \in 1 .. m PROVE Parts(Steps[k]) \subseteq all
      OBVIOUS
    <2>1. m - k + 1 \in 1 .. m /\ m - (m - k + 1) + 1 = k
      BY <1>1
    <2>2. list[m - k + 1] = Steps[k] /\ m - k + 1 \in DOMAIN list
      BY <1>3, <2>1
    <2> QED  BY <2>2 DEF OwedBy
  <1> HIDE DEF all
  <1>8. \A k \in 1 .. 5 : Acquired(Steps[k]) \subseteq Parts(Steps[k])
    BY <1>4 DEF Acquired, Parts
  <1>9. ASSUME n = 6
        PROVE  Has(list, "publisher") /\ Held \subseteq all
    <2>1. \A x \in Components : \E k \in 1 .. 5 : Steps[k] = x
      BY <1>4 DEF Components
    <2>2. m = 5
      BY <1>9 DEF m
    <2>3. Held \subseteq all
      BY <1>7, <2>1, <2>2 DEF Held
    <2>4. 2 \in DOMAIN list /\ list[2] = "publisher"
      BY <1>3, <1>4, <2>2
    <2> QED  BY <2>3, <2>4 DEF Has
  <1>10. Gathered(n) \subseteq all
    <2>1. CASE n = 6
      BY <1>9, <2>1, AllGathered DEF Gathered
    <2>2. CASE n # 6
      <3>1. m = n
        BY <2>2 DEF m
      <3> QED  BY <1>1, <1>7, <1>8, <3>1 DEF Gathered
    <2> QED  BY <2>1, <2>2
  <1> QED  BY <1>5, <1>6, <1>9, <1>10 DEF all, list

(* Whoever is taking a client apart works on one that exists.               *)
LEMMA ReleasedTarget ==
    ASSUME CacheInv, NEW u \in Threads, pc[u] \in {"close", "cleanup"}
    PROVE  target[u] \in DOMAIN fate
BY DEF CacheInv, ClientInv, ThreadInv, Known, Making

(* When lists, and the clients they are about, stay as they are, so does    *)
(* what is owed.                                                            *)
LEMMA SameOwed ==
    ASSUME NEW t \in Threads, NEW c,
           \A u \in Threads \ {t} : UNCHANGED <<target[u], todo[u]>>,
           target[t] = c => todo[t] = <<>>
    PROVE  OwedOn(c) \subseteq OwedOn(c)'
  <1> SUFFICES ASSUME NEW u \in Threads, target[u] = c, NEW p \in Owed(u)
               PROVE  p \in OwedOn(c)'
    BY DEF OwedOn
  <1>1. u # t
    <2>1. todo[u] # <<>>
      BY DEF Owed
    <2> QED  BY <2>1
  <1>2. target'[u] = c /\ p \in Owed(u)'
    BY <1>1 DEF Owed
  <1> QED  BY <1>2 DEF OwedOn

(* Steps that release nothing and begin no release. *)
LEMMA QuietStep ==
    ASSUME CacheInv, OpenInv, LeakInv, NEW t \in Threads,
           \/ Call(t) \/ Lookup(t) \/ GetKeyLock(t) \/ Acquire(t) \/ RecheckHit(t)
           \/ Miss(t) \/ Build(t) \/ Register(t) \/ Announce(t)
    PROVE  LeakInv'
  <1> USE RegistryConstants DEF Goto, Leave, Release, locals, history, registry, clients
  <1> DEFINE m == target[t]
  <1>1. /\ pc \in [Threads -> Stages] /\ target \in [Threads -> Nat \cup {None}]
        /\ todo \in [Threads -> Seq(Items)]
        /\ fate \in Seq(Fates) /\ open \in Seq(SUBSET Held) /\ Len(open) = Len(fate)
        /\ ThreadInv(t) /\ ThreadOpen(t)
    BY DEF CacheInv, ClientInv, Typed, OpenInv, Shaped, LeakInv, ReleaseInv
  <1>2. /\ pc[t] \notin {"close", "cleanup"} /\ todo[t] = <<>>
        /\ todo' = todo \/ todo' = [todo EXCEPT ![t] = <<>>]
        /\ \A u \in Threads \ {t} : UNCHANGED <<pc[u], target[u]>>
        /\ pc'[t] \notin {"close", "cleanup"}
    <2>0. pc[t] \notin {"close", "cleanup"} => todo[t] = <<>>
      BY DEF LeakInv, ReleaseInv
    <2>1. CASE Call(t)
      BY <1>1, <2>0, <2>1 DEF Call, GetInstance, Close
    <2>2. CASE Lookup(t) \/ GetKeyLock(t) \/ Acquire(t) \/ RecheckHit(t)
      BY <1>1, <2>0, <2>2 DEF Lookup, GetKeyLock, Acquire, RecheckHit
    <2>3. CASE Miss(t) \/ Register(t) \/ Announce(t) \/ Build(t)
      BY <1>1, <2>0, <2>3 DEF Miss, NewClient, Register, Announce, Build
    <2> QED  BY <2>1, <2>2, <2>3
  <1>3. UNCHANGED todo
    BY <1>1, <1>2
  (* A client that is built is no one else's. *)
  <1>4. ASSUME Build(t)
        PROVE  /\ UNCHANGED <<fate, target, raced>>
               /\ m \in DOMAIN fate /\ fate[m] = "new"
               /\ \A u \in Threads : pc[u] \in {"close", "cleanup"} => target[u] # m
               /\ \A c \in DOMAIN fate \ {m} : open'[c] = open[c]
               /\ "sender" \in open'[m]
                  \/ ("flush" \notin open'[m] /\ "scheduler" \notin open'[m])
               /\ "scheduler" \in open'[m] \/ "flush" \notin open'[m]
    <2> DEFINE n == built[m]
    <2>1. pc[t] = "build"
      BY <1>4 DEF Build
    <2>2. m \in DOMAIN fate /\ fate[m] = "new" /\ n \in Nat /\ n < 7 /\ open[m] = Gathered(n)
      BY <1>1, <2>1, StepsLength DEF ThreadInv, ThreadOpen, Making, OpenInv, Shaped
    <2>3. \A u \in Threads : pc[u] \in {"close", "cleanup"} => target[u] # m
      BY <1>2, <2>1, TargetsDiffer DEF Making
    <2>4. /\ \A c \in DOMAIN fate \ {m} : open'[c] = open[c]
          /\ open'[m] = open[m] \cup Acquired(Steps[n + 1])
      BY <1>1, <1>4, <2>2 DEF Build
    <2> HIDE DEF n, m
    <2>5. open'[m] = Gathered(n + 1) /\ n + 1 \in 0 .. 7
      BY <2>2, <2>4, AllGathered
    <2>6. CASE n + 1 = 7
      <3>1. open'[m] = Held
        BY <2>5, <2>6, AllGathered
      <3>2. {"sender", "scheduler"} \subseteq Held
        BY SchedulerHeld DEF FlushUses
      <3> QED  BY <1>4, <2>2, <2>3, <2>4, <3>1, <3>2 DEF Build
    <2>7. CASE n + 1 # 7
      <3>1. n + 1 \in 0 .. 6
        BY <2>5, <2>7
      <3>2. "scheduler" \notin open'[m] /\ "flush" \notin open'[m]
        BY <2>5, <3>1, SchedulerGathered
      <3> QED  BY <1>4, <2>2, <2>3, <2>4, <3>2 DEF Build
    <2> QED  BY <2>6, <2>7
  <1>5. ASSUME ~Build(t)
        PROVE  /\ \A c \in DOMAIN fate :
                    /\ c \in DOMAIN fate' /\ open'[c] = open[c]
                    /\ fate'[c] \in {"closed", "dropped"} => fate'[c] = fate[c]
               /\ \A c \in DOMAIN fate' \ DOMAIN fate : open'[c] = {} /\ fate'[c] = "new"
    <2>1. CASE Miss(t)
      BY <1>1, <2>1 DEF Miss, NewClient
    <2>2. CASE Register(t)
      BY <1>1, <2>2 DEF Register, ThreadInv, Making
    <2>3. CASE \E u \in Threads : got[u] # None /\ Close(t, got[u])
      BY <1>1, <2>3 DEF Close
    <2>4. CASE \/ \E k \in Keys : GetInstance(t, k)
               \/ Lookup(t) \/ GetKeyLock(t) \/ Acquire(t) \/ RecheckHit(t) \/ Announce(t)
      <3>1. UNCHANGED <<open, fate>>
        BY <2>4 DEF GetInstance, Lookup, GetKeyLock, Acquire, RecheckHit, Announce
      <3> QED  BY <3>1
    <2> QED  BY <1>5, <2>1, <2>2, <2>3, <2>4 DEF Call
  <1> HIDE DEF m
  (* The clients that are being taken apart are the same, and stay the same. *)
  <1>6. ASSUME NEW c \in DOMAIN fate', Releasing(c)'
        PROVE  c \in DOMAIN fate /\ Releasing(c) /\ open'[c] = open[c]
    <2>1. \A u \in Threads : pc'[u] \in {"close", "cleanup"} =>
             u # t /\ UNCHANGED <<pc[u], target[u]>> /\ target[u] \in DOMAIN fate
      BY <1>2, ReleasedTarget
    <2>2. CASE Build(t)
      BY <1>4, <1>6, <2>1, <2>2 DEF Releasing
    <2>3. CASE ~Build(t)
      BY <1>5, <1>6, <2>1, <2>3 DEF Releasing
    <2> QED  BY <2>2, <2>3
  <1>7. ReleaseInv'
    <2>1. ASSUME NEW u \in Threads, pc'[u] \in {"close", "cleanup"}
          PROVE  /\ u # t /\ UNCHANGED <<pc[u], target[u], todo[u]>>
                 /\ open'[target[u]] = open[target[u]]
      <3>1. u # t /\ UNCHANGED <<pc[u], target[u], todo[u]>>
        BY <1>2, <1>3, <2>1
      <3>2. target[u] \in DOMAIN fate
        BY <2>1, <3>1, ReleasedTarget
      <3>3. open'[target[u]] = open[target[u]]
        BY <1>4, <1>5, <2>1, <3>1, <3>2
      <3> QED  BY <3>1, <3>3
    <2>2. ASSUME NEW u \in Threads
          PROVE  /\ InOrder(todo'[u])
                 /\ pc'[u] \notin {"close", "cleanup"} => todo'[u] = <<>>
                 /\ pc'[u] = "close" => FlushFirst(todo'[u])
                 /\ pc'[u] = "cleanup" => "flush" \notin open'[target'[u]]
                 /\ pc'[u] \in {"close", "cleanup"} /\ "publisher" \notin Faulty
                    /\ "scheduler" \in open'[target'[u]] => Has(todo'[u], "publisher")
      <3>1. /\ InOrder(todo[u])
            /\ pc[u] \notin {"close", "cleanup"} => todo[u] = <<>>
            /\ pc[u] = "close" => FlushFirst(todo[u])
            /\ pc[u] = "cleanup" => "flush" \notin open[target[u]]
            /\ pc[u] \in {"close", "cleanup"} /\ "publisher" \notin Faulty
               /\ "scheduler" \in open[target[u]] => Has(todo[u], "publisher")
        BY DEF LeakInv, ReleaseInv
      <3>2. CASE pc'[u] \in {"close", "cleanup"}
        BY <1>3, <2>1, <3>1, <3>2
      <3>3. CASE pc'[u] \notin {"close", "cleanup"}
        <4>1. todo'[u] = <<>>
          BY <1>2, <1>3, <3>1, <3>3
        <4> QED  BY <1>3, <3>1, <3>3, <4>1
      <3> QED  BY <3>2, <3>3
    <2>3. ASSUME NEW c \in DOMAIN fate', Releasing(c)'
          PROVE  open'[c] \subseteq Spared \cup OwedOn(c)'
      <3>1. open[c] \subseteq Spared \cup OwedOn(c)
        BY <1>6, <2>3 DEF LeakInv, ReleaseInv
      <3>2. OwedOn(c) \subseteq OwedOn(c)'
        BY <1>2, <1>3, SameOwed
      <3> QED  BY <1>6, <2>3, <3>1, <3>2
    <2> QED  BY <1>1, <1>3, <2>2, <2>3 DEF ReleaseInv
  <1>8. FlushInv'
    <2> SUFFICES ASSUME "publisher" \notin Faulty, NEW c \in DOMAIN fate',
                        "flush" \in open'[c], "scheduler" \notin open'[c]
                 PROVE  \E u \in Threads : Waits(u, c)'
      BY DEF FlushInv
    <2>1. c \in DOMAIN fate /\ open'[c] = open[c]
      BY <1>4, <1>5
    <2>2. PICK u \in Threads : Waits(u, c)
      BY <2>1 DEF LeakInv, FlushInv
    <2>3. u # t
      BY <1>2, <2>2 DEF Waits
    <2> QED  BY <1>2, <1>3, <2>2, <2>3 DEF Waits
  <1>9. PublisherStopsFirst'
    <2> SUFFICES ASSUME "publisher" \notin Faulty, NEW c \in DOMAIN fate', "sender" \notin open'[c]
                 PROVE  "scheduler" \notin open'[c] /\ ("flush" \in open'[c] => c \in raced')
      BY DEF PublisherStopsFirst
    <2>1. raced \subseteq raced'
      BY DEF Call, GetInstance, Close, Lookup, GetKeyLock, Acquire, RecheckHit, Miss, NewClient,
             Build, Register, Announce
    <2>2. CASE c \in DOMAIN fate /\ open'[c] = open[c]
      BY <2>1, <2>2 DEF LeakInv, PublisherStopsFirst
    <2>3. CASE ~(c \in DOMAIN fate /\ open'[c] = open[c])
      BY <1>4, <1>5, <2>3
    <2> QED  BY <2>2, <2>3
  <1>10. RaceInv'
    <2>1. CASE \E x \in Threads : got[x] # None /\ Close(t, got[x])
      <3>1. PICK d : Close(t, d)
        BY <2>1
      <3>2. /\ \A c \in DOMAIN fate' : c # d => Closers(c)' = Closers(c)
            /\ Closers(d)' = Closers(d) \cup {t}
            /\ DOMAIN fate' = DOMAIN fate
            /\ raced' = IF Closers(d) = {} THEN raced ELSE raced \cup {d}
        BY <1>1, <3>1 DEF Close, Closers
      <3>3. \A c \in DOMAIN fate \ raced : \A u, v \in Closers(c) : u = v
        BY DEF LeakInv, RaceInv
      <3>4. ASSUME NEW c \in DOMAIN fate' \ raced', NEW u \in Closers(c)', NEW v \in Closers(c)'
            PROVE  u = v
        <4>1. CASE c = d
          BY <3>2, <3>4, <4>1
        <4>2. CASE c # d
          BY <3>2, <3>3, <3>4, <4>2
        <4> QED  BY <4>1, <4>2
      <3> QED  BY <3>4 DEF RaceInv
    <2>2. CASE Miss(t)
      <3>1. /\ UNCHANGED raced /\ pc'[t] = "build" /\ pc[t] = "recheck"
            /\ DOMAIN fate' = DOMAIN fate \cup {Len(fate) + 1}
        BY <1>1, <2>2 DEF Miss, NewClient
      <3>2. \A c \in DOMAIN fate' : Closers(c)' \subseteq Closers(c)
        BY <1>2, <3>1 DEF Closers
      <3>3. Closers(Len(fate) + 1) = {}
        <4>1. \A u \in Threads : pc[u] \in {"want", "acquire", "evict", "close"} /\ target[u] # None
                                   => target[u] \in DOMAIN fate
          BY DEF CacheInv, ClientInv, ThreadInv, Known
        <4> QED  BY <1>1, <4>1 DEF Closers
      <3> QED  BY <3>1, <3>2, <3>3 DEF LeakInv, RaceInv
    <2>3. CASE \/ \E k \in Keys : GetInstance(t, k)
               \/ Lookup(t) \/ GetKeyLock(t) \/ Acquire(t) \/ RecheckHit(t)
               \/ Build(t) \/ Register(t) \/ Announce(t)
      <3>1. UNCHANGED raced /\ DOMAIN fate' = DOMAIN fate
        BY <1>1, <2>3 DEF GetInstance, Lookup, GetKeyLock, Acquire, RecheckHit, Build, Register, Announce
      <3>2. \/ pc'[t] \notin {"want", "acquire", "evict", "close"}
            \/ target'[t] = None
            \/ pc[t] \in {"want", "acquire"} /\ target'[t] = target[t]
        BY <1>1, <2>3 DEF GetInstance, Lookup, GetKeyLock, Acquire, RecheckHit, Build, Register,
                          Announce, ThreadInv
      <3>3. \A c \in DOMAIN fate : Closers(c)' \subseteq Closers(c)
        BY <1>1, <1>2, <3>2 DEF Closers
      <3> QED  BY <3>1, <3>3 DEF LeakInv, RaceInv
    <2> QED  BY <2>1, <2>2, <2>3 DEF Call
  <1> QED  BY <1>7, <1>8, <1>9, <1>10 DEF LeakInv

(* A construction gives up what it has got to the cleanup.                  *)
LEMMA GivingUpStep ==
    ASSUME CacheInv, OpenInv, LeakInv, NEW t \in Threads, BuildFails(t)
    PROVE  LeakInv'
  <1> USE RegistryConstants DEF Goto
  <1> DEFINE m == target[t]
             n == built[m]
             list == Reverse(Closables(n + 1))
  <1>1. /\ pc \in [Threads -> Stages] /\ todo \in [Threads -> Seq(Items)]
        /\ open \in Seq(SUBSET Held) /\ Len(open) = Len(fate)
        /\ pc[t] = "build" /\ m \in DOMAIN fate /\ m \in DOMAIN open
        /\ n \in 0 .. 6 /\ open[m] = Gathered(n)
    <2>1. pc[t] = "build"
      BY DEF BuildFails
    <2>2. /\ m \in DOMAIN fate
          /\ built \in Seq(Nat) /\ Len(built) = Len(fate)
          /\ n < 7 /\ open[m] = Gathered(n)
      BY <2>1, StepsLength
         DEF CacheInv, ClientInv, ThreadInv, Making, OpenInv, Shaped, ThreadOpen
    <2>3. n \in Nat
      BY <2>2
    <2>4. n \in 0 .. 6
      <3>1. n < 7
        BY <2>2
      <3> HIDE DEF n
      <3> QED  BY <2>3, <3>1
    <2> QED  BY <2>1, <2>2, <2>4 DEF CacheInv, Typed, OpenInv, Shaped, LeakInv, ReleaseInv
  <1>2. /\ UNCHANGED <<fate, target, raced>> /\ pc' = [pc EXCEPT ![t] = "cleanup"]
        /\ todo' = [todo EXCEPT ![t] = list]
        /\ \/ open' = open
           \/ n = 6 /\ open' = [open EXCEPT ![m] = @ \cup {"scheduler"}]
    <2>1. Steps[n + 1] = "publish" => n = 6
      BY <1>1 DEF Steps
    <2> QED  BY <2>1 DEF BuildFails, history
  <1>3. /\ list \in Seq(Items) /\ InOrder(list) /\ Gathered(n) \subseteq OwedBy(list)
        /\ n = 6 => Has(list, "publisher") /\ Held \subseteq OwedBy(list)
        /\ "scheduler" \notin Gathered(n) /\ "flush" \notin Gathered(n)
        /\ n = 6 => "sender" \in Gathered(n)
    <2>1. n = 6 => "sender" \in Gathered(n)
      BY DEF Gathered, Acquired, Steps
    <2> QED  BY <1>1, <2>1, CleanupReleases, SchedulerGathered
  <1> HIDE DEF m, n, list
  <1>4. /\ todo'[t] = list /\ pc'[t] = "cleanup"
        /\ \A u \in Threads \ {t} : UNCHANGED <<pc[u], todo[u]>>
        /\ \A c \in DOMAIN fate \ {m} : open'[c] = open[c]
        /\ "flush" \notin open'[m] /\ open'[m] \subseteq OwedBy(list)
        /\ "scheduler" \in open'[m] => Has(list, "publisher") /\ "sender" \in open'[m]
    <2>1. open'[m] = Gathered(n) \/ (n = 6 /\ open'[m] = Gathered(n) \cup {"scheduler"})
      BY <1>1, <1>2
    <2>2. "scheduler" \in Held
      BY SchedulerHeld
    <2> QED  BY <1>1, <1>2, <1>3, <2>1, <2>2
  <1>5. \A u \in Threads \ {t} : pc[u] \in {"close", "cleanup"} =>
             target[u] # m /\ target[u] \in DOMAIN fate
    BY <1>1, TargetsDiffer, ReleasedTarget DEF Making, m
  <1>6. ReleaseInv'
    <2>1. todo' \in [Threads -> Seq(Items)]
      BY <1>1, <1>2, <1>3
    <2>2. ASSUME NEW u \in Threads
          PROVE  /\ InOrder(todo'[u])
                 /\ pc'[u] \notin {"close", "cleanup"} => todo'[u] = <<>>
                 /\ pc'[u] = "close" => FlushFirst(todo'[u])
                 /\ pc'[u] = "cleanup" => "flush" \notin open'[target'[u]]
                 /\ pc'[u] \in {"close", "cleanup"} /\ "publisher" \notin Faulty
                    /\ "scheduler" \in open'[target'[u]] => Has(todo'[u], "publisher")
      <3>1. CASE u = t
        <4>1. target'[t] = m
          BY <1>2 DEF m
        <4> QED  BY <1>3, <1>4, <3>1, <4>1
      <3>2. CASE u # t
        <4>1. /\ pc'[u] = pc[u] /\ todo'[u] = todo[u] /\ target'[u] = target[u]
              /\ pc[u] \in {"close", "cleanup"} => open'[target[u]] = open[target[u]]
          BY <1>2, <1>4, <1>5, <3>2
        <4> QED  BY <4>1 DEF LeakInv, ReleaseInv
      <3> QED  BY <3>1, <3>2
    <2>3. ASSUME NEW c \in DOMAIN fate', Releasing(c)'
          PROVE  open'[c] \subseteq Spared \cup OwedOn(c)'
      <3>1. CASE c = m
        <4>1. OwedBy(list) = Owed(t)' /\ target'[t] = m
          BY <1>2, <1>4 DEF OwedBy, Owed, m
        <4> QED  BY <1>4, <3>1, <4>1 DEF OwedOn
      <3>2. CASE c # m
        <4>1. target'[t] = m /\ target[t] = m
          BY <1>2 DEF m
        <4>2. c \in DOMAIN fate /\ Releasing(c)
          BY <1>2, <1>4, <2>3, <3>2, <4>1 DEF Releasing
        <4>3. OwedOn(c) \subseteq OwedOn(c)'
          BY <1>2, <1>4, <3>2, <4>1, SameOwed
        <4> QED  BY <1>4, <3>2, <4>2, <4>3 DEF LeakInv, ReleaseInv
      <3> QED  BY <3>1, <3>2
    <2> QED  BY <2>1, <2>2, <2>3 DEF ReleaseInv
  <1>7. FlushInv'
    <2> SUFFICES ASSUME "publisher" \notin Faulty, NEW c \in DOMAIN fate,
                        "flush" \in open'[c], "scheduler" \notin open'[c]
                 PROVE  \E u \in Threads : Waits(u, c)'
      BY <1>2 DEF FlushInv
    <2>1. open'[c] = open[c]
      BY <1>4
    <2>2. PICK u \in Threads : Waits(u, c)
      BY <2>1 DEF LeakInv, FlushInv
    <2>3. u # t
      BY <1>1, <2>2 DEF Waits
    <2> QED  BY <1>2, <1>4, <2>2, <2>3 DEF Waits
  <1>8. RaceInv'
    <2>1. \A c \in DOMAIN fate : Closers(c)' \subseteq Closers(c)
      BY <1>2, <1>4 DEF Closers
    <2> QED  BY <1>2, <2>1 DEF LeakInv, RaceInv
  <1>9. PublisherStopsFirst'
    BY <1>2, <1>4 DEF LeakInv, PublisherStopsFirst
  <1> QED  BY <1>6, <1>7, <1>8, <1>9 DEF LeakInv

(* One component is closed: what it holds is gone, or it may be spared.  A  *)
(* publisher found stopped leaves its flush to the thread that waits for it *)
(* and that has still to close what the flush uses.                         *)
LEMMA CloseNextStep ==
    ASSUME CacheInv, OpenInv, LeakInv, NEW t \in Threads, Cleanup(t) \/ Closing(t)
    PROVE  LeakInv'
  <1>m. PICK m \in DOMAIN fate : m = target[t]
    BY ReleasedTarget DEF Cleanup, Closing
  <1> DEFINE list == todo[t]
             head == Head(list)
             rest == Tail(list)
             wait == <<"flush">> \o Tail(list)
             left == IF StopPublisher(t) THEN wait ELSE rest
  <1>1. /\ todo \in [Threads -> Seq(Items)] /\ m \in DOMAIN fate /\ m \in DOMAIN open
        /\ open \in Seq(SUBSET Held) /\ Len(open) = Len(fate)
        /\ pc[t] \in {"close", "cleanup"} /\ InOrder(list) /\ list \in Seq(Items)
        /\ CloseNext(t) /\ UNCHANGED <<fate, pc, target, raced>>
    BY DEF Cleanup, Closing, OpenInv, Shaped, LeakInv, ReleaseInv, history
  <1>2. list # <<>> /\ (StopPublisher(t) \/ PassOver(t) \/ Finish(t))
    BY <1>1 DEF CloseNext
  <1>3. /\ head \in Items /\ rest \in Seq(Items) /\ wait \in Seq(Items)
        /\ InOrder(rest) /\ InOrder(wait)
        /\ head = "sender" => ~Has(list, "publisher")
        /\ FlushFirst(list) => FlushFirst(rest)
        /\ FlushFirst(list) /\ head = "publisher" => FlushFirst(wait)
        /\ wait # <<>> /\ Head(wait) = "flush"
        /\ OwedBy(list) = Parts(head) \cup OwedBy(rest)
        /\ OwedBy(wait) = Parts("flush") \cup OwedBy(rest)
        /\ \A x : Has(list, x) => x = head \/ Has(rest, x)
    BY <1>1, <1>2, ListStep
  <1>4. /\ StopPublisher(t) =>
              /\ head = "publisher" /\ "scheduler" \in open[m]
              /\ open' = [open EXCEPT ![m] = open[m] \ {"scheduler"}]
        /\ PassOver(t) =>
              /\ open' = open
              /\ (head = "publisher" /\ "scheduler" \notin open[m]) \/ head \in Faulty
        /\ Finish(t) =>
              /\ head # "publisher"
              /\ open' = [open EXCEPT ![m] = open[m] \ Parts(head)]
        /\ todo' = [todo EXCEPT ![t] = left]
    <2>1. todo' = [todo EXCEPT ![t] = left]
      <3>1. CASE StopPublisher(t)
        BY <3>1 DEF StopPublisher
      <3>2. CASE ~StopPublisher(t)
        BY <1>2, <3>2 DEF PassOver, Finish
      <3> QED  BY <3>1, <3>2
    <2> QED  BY <1>m, <2>1 DEF StopPublisher, PassOver, Finish
  <1>5. /\ FlushFirst(list) => FlushFirst(left)
        /\ InOrder(left) /\ left \in Seq(Items)
        /\ OwedBy(rest) \subseteq OwedBy(left)
    BY <1>3, <1>4
  <1>6. /\ \A c \in DOMAIN fate : c # m => open'[c] = open[c]
        /\ open'[m] \subseteq open[m]
        /\ StopPublisher(t) => open'[m] = open[m] \ {"scheduler"}
        /\ PassOver(t) => open'[m] = open[m]
        /\ Finish(t) => open'[m] = open[m] \ Parts(head)
        /\ todo'[t] = left /\ \A u \in Threads \ {t} : todo'[u] = todo[u]
    <2> HIDE DEF left, head
    <2> QED  BY <1>1, <1>2, <1>4
  <1>7. /\ InOrder(todo[t]) /\ (pc[t] = "close" => FlushFirst(list))
        /\ pc[t] = "cleanup" => "flush" \notin open[m]
        /\ "publisher" \notin Faulty /\ "scheduler" \in open[m] => Has(list, "publisher")
        /\ open[m] \subseteq Spared \cup OwedOn(m)
    BY <1>1, <1>m DEF LeakInv, ReleaseInv, Releasing
  <1>8. Owed(t) = OwedBy(list) /\ Owed(t)' = OwedBy(left)
        /\ \A u \in Threads \ {t} : Owed(u)' = Owed(u)
    BY <1>6 DEF Owed, OwedBy
  <1> HIDE DEF list, head, rest, wait, left
  <1>t. m = target[t] /\ list = todo[t] /\ head = Head(todo[t]) /\ todo[t] # <<>>
    BY <1>m, <1>2 DEF list, head
  (* A thread that waits for a flush goes on waiting, unless it is this one. *)
  <1>9. \A c \in DOMAIN fate, u \in Threads \ {t} : Waits(u, c) => Waits(u, c)'
    BY <1>1, <1>6 DEF Waits
  <1>10. ASSUME NEW p \in open'[m]
         PROVE  p \in Spared \cup OwedOn(m)'
    <2>1. p \in open[m] /\ (p \in Spared \/ p \in OwedOn(m))
      BY <1>6, <1>7
    <2>2. ASSUME NEW u \in Threads \ {t}, target[u] = m, p \in Owed(u)
          PROVE  p \in OwedOn(m)'
      <3>1. target'[u] = m /\ p \in Owed(u)'
        BY <1>1, <1>8, <2>2
      <3> QED  BY <3>1 DEF OwedOn
    <2>3. ASSUME p \in OwedBy(left)
          PROVE  p \in OwedOn(m)'
      <3>1. target'[t] = m /\ p \in Owed(t)'
        BY <1>1, <1>8, <1>t, <2>3
      <3> QED  BY <3>1 DEF OwedOn
    <2>4. ASSUME p \in Parts(head)
          PROVE  p \in Spared \cup OwedOn(m)'
      <3>1. CASE StopPublisher(t)
        <4>1. p = "flush"
          BY <1>4, <1>6, <2>4, <3>1, PartsFacts
        <4>2. p \in OwedBy(left)
          BY <1>3, <3>1, <4>1, PartsFacts DEF left
        <4> QED  BY <2>3, <4>2
      <3>2. CASE PassOver(t)
        <4>1. CASE head \in Faulty
          BY <2>4, <4>1, PartsFacts
        <4>2. CASE head = "publisher" /\ "scheduler" \notin open[m]
          <5>1. p = "flush"
            BY <2>1, <2>4, <4>2, PartsFacts
          <5>2. CASE "publisher" \in Faulty
            BY <5>1, <5>2, PartsFacts
          <5>3. CASE "publisher" \notin Faulty
            <6>1. PICK u \in Threads : Waits(u, m)
              BY <1>1, <2>1, <4>2, <5>1, <5>3 DEF LeakInv, FlushInv
            <6>2. u # t
              BY <1>t, <4>2, <6>1 DEF Waits
            <6>3. todo[u] \in Seq(Items) /\ todo[u] # <<>> /\ Head(todo[u]) = "flush"
              BY <1>1, <6>1 DEF Waits
            <6>4. 1 \in DOMAIN todo[u] /\ todo[u][1] = "flush"
              BY <6>3
            <6>5. "flush" \in Owed(u) /\ target[u] = m
              BY <6>1, <6>4, PartsFacts DEF Owed, Waits
            <6> QED  BY <2>2, <5>1, <6>2, <6>5
          <5> QED  BY <5>2, <5>3
        <4> QED  BY <1>4, <3>2, <4>1, <4>2
      <3>3. CASE Finish(t)
        BY <1>6, <2>4, <3>3
      <3> QED  BY <1>2, <3>1, <3>2, <3>3
    <2>5. ASSUME p \in Owed(t)
          PROVE  p \in Spared \cup OwedOn(m)'
      BY <1>3, <1>5, <1>8, <2>3, <2>4, <2>5
    <2>6. CASE p \in OwedOn(m)
      <3>1. PICK u \in Threads : target[u] = m /\ p \in Owed(u)
        BY <2>6 DEF OwedOn
      <3> QED  BY <2>2, <2>5, <3>1
    <2> QED  BY <2>1, <2>6
  (* The scheduler runs on only while the publisher's turn is to come. *)
  <1>11. ASSUME "publisher" \notin Faulty, "scheduler" \in open'[m]
         PROVE  head # "publisher" /\ Has(list, "publisher") /\ Has(left, "publisher")
    <2>1. "scheduler" \in open[m] /\ Has(list, "publisher")
      BY <1>6, <1>7, <1>11
    <2>2. head # "publisher"
      BY <1>2, <1>4, <1>6, <1>11, <2>1
    <2>3. left = rest
      BY <1>4, <2>2 DEF left
    <2> QED  BY <1>3, <2>1, <2>2, <2>3
  <1>12. ReleaseInv'
    <2>1. todo' \in [Threads -> Seq(Items)]
      BY <1>1, <1>4, <1>5
    <2>2. ASSUME NEW u \in Threads
          PROVE  /\ InOrder(todo'[u])
                 /\ pc'[u] \notin {"close", "cleanup"} => todo'[u] = <<>>
                 /\ pc'[u] = "close" => FlushFirst(todo'[u])
                 /\ pc'[u] = "cleanup" => "flush" \notin open'[target'[u]]
                 /\ pc'[u] \in {"close", "cleanup"} /\ "publisher" \notin Faulty
                    /\ "scheduler" \in open'[target'[u]] => Has(todo'[u], "publisher")
      <3>1. CASE u = t
        BY <1>1, <1>5, <1>6, <1>7, <1>11, <1>t, <3>1
      <3>2. CASE u # t
        <4>1. /\ pc'[u] = pc[u] /\ todo'[u] = todo[u] /\ target'[u] = target[u]
              /\ pc[u] \in {"close", "cleanup"} => open'[target[u]] \subseteq open[target[u]]
          BY <1>1, <1>6, <3>2, ReleasedTarget
        <4> QED  BY <4>1 DEF LeakInv, ReleaseInv
      <3> QED  BY <3>1, <3>2
    <2>3. ASSUME NEW c \in DOMAIN fate, Releasing(c)'
          PROVE  open'[c] \subseteq Spared \cup OwedOn(c)'
      <3>1. CASE c = m
        BY <1>10, <3>1
      <3>2. CASE c # m
        <4>1. Releasing(c)
          BY <1>1, <2>3 DEF Releasing
        <4>2. OwedOn(c) \subseteq OwedOn(c)'
          BY <1>1, <1>6, <1>t, <3>2, SameOwed
        <4> QED  BY <1>6, <3>2, <4>1, <4>2 DEF LeakInv, ReleaseInv
      <3> QED  BY <3>1, <3>2
    <2> QED  BY <1>1, <2>1, <2>2, <2>3 DEF ReleaseInv
  <1>13. FlushInv'
    <2> SUFFICES ASSUME "publisher" \notin Faulty, NEW c \in DOMAIN fate,
                        "flush" \in open'[c], "scheduler" \notin open'[c]
                 PROVE  \E u \in Threads : Waits(u, c)'
      BY <1>1 DEF FlushInv
    <2>1. CASE c = m /\ StopPublisher(t)
      <3>1. "flush" \in open[m]
        BY <1>6, <2>1
      <3>2. pc[t] = "close"
        BY <1>1, <1>7, <3>1
      <3>3. left = wait
        BY <2>1 DEF left
      <3> QED  BY <1>1, <1>3, <1>6, <1>t, <2>1, <3>2, <3>3 DEF Waits
    <2>2. CASE ~(c = m /\ StopPublisher(t))
      <3>1. "flush" \in open[c] /\ "scheduler" \notin open[c]
        BY <1>2, <1>3, <1>4, <1>6, <2>2, PartsFacts
      <3>2. PICK u \in Threads : Waits(u, c)
        BY <3>1 DEF LeakInv, FlushInv
      <3>3. CASE u # t
        BY <1>9, <3>2, <3>3
      <3>4. CASE u = t
        <4>1. c = m /\ head = "flush"
          BY <1>t, <3>2, <3>4 DEF Waits
        <4>2. Finish(t)
          BY <1>2, <1>4, <4>1, PartsFacts
        <4> QED  BY <1>6, <4>1, <4>2, PartsFacts
      <3> QED  BY <3>3, <3>4
    <2> QED  BY <2>1, <2>2
  <1>14. RaceInv'
    BY <1>1 DEF LeakInv, RaceInv, Closers
  <1>15. PublisherStopsFirst'
    <2> SUFFICES ASSUME "publisher" \notin Faulty, "sender" \notin open'[m]
                 PROVE  "scheduler" \notin open'[m] /\ ("flush" \in open'[m] => m \in raced)
      BY <1>1, <1>6 DEF LeakInv, PublisherStopsFirst
    <2>1. CASE "sender" \notin open[m]
      BY <1>1, <1>6, <2>1 DEF LeakInv, PublisherStopsFirst
    <2>2. CASE "sender" \in open[m]
      <3>1. head = "sender"
        BY <1>2, <1>3, <1>4, <1>6, <2>2, PartsFacts
      <3>2. "scheduler" \notin open'[m]
        BY <1>3, <1>11, <3>1
      <3>3. ASSUME "flush" \in open'[m]
            PROVE  m \in raced
        <4>1. "flush" \in open[m] /\ "scheduler" \notin open[m] /\ pc[t] = "close"
          <5>1. Finish(t) \/ PassOver(t)
            BY <1>2, <1>4, <3>1
          <5> QED  BY <1>1, <1>3, <1>6, <1>7, <3>1, <3>2, <3>3, <5>1, PartsFacts
        <4>2. PICK u \in Threads : Waits(u, m)
          BY <1>1, <4>1 DEF LeakInv, FlushInv
        <4>3. u # t
          BY <1>t, <3>1, <4>2 DEF Waits
        <4>4. u \in Closers(m) /\ t \in Closers(m)
          BY <1>t, <4>1, <4>2 DEF Waits, Closers
        <4> QED  BY <1>1, <4>3, <4>4 DEF LeakInv, RaceInv
      <3> QED  BY <3>2, <3>3
    <2> QED  BY <2>1, <2>2
  <1> QED  BY <1>12, <1>13, <1>14, <1>15 DEF LeakInv

(* The eviction hands all components to the close; a thread whose list is   *)
(* empty owes nothing more.                                                 *)
LEMMA ReleaseStep ==
    ASSUME CacheInv, OpenInv, LeakInv, NEW t \in Threads, Evict(t) \/ Raise(t) \/ Closed(t)
    PROVE  LeakInv'
  <1> USE RegistryConstants DEF Goto, Leave, Release, registry, clients, history
  <1>m. PICK m : m = target[t]
    OBVIOUS
  <1>1. /\ pc \in [Threads -> Stages] /\ target \in [Threads -> Nat \cup {None}]
        /\ todo \in [Threads -> Seq(Items)] /\ fate \in Seq(Fates)
        /\ open \in Seq(SUBSET Held) /\ Len(open) = Len(fate) /\ ThreadInv(t)
    BY DEF CacheInv, ClientInv, Typed, OpenInv, Shaped, LeakInv, ReleaseInv
  <1>2. /\ UNCHANGED <<open, raced>> /\ DOMAIN fate' = DOMAIN fate
        /\ \A u \in Threads \ {t} : UNCHANGED <<pc[u], target[u], todo[u]>>
        /\ todo[t] = <<>>
    BY <1>1 DEF Evict, Raise, Closed, LeakInv, ReleaseInv
  <1>3. PublisherStopsFirst'
    BY <1>2 DEF LeakInv, PublisherStopsFirst
  <1>4. FlushInv'
    <2> SUFFICES ASSUME "publisher" \notin Faulty, NEW c \in DOMAIN fate,
                        "flush" \in open[c], "scheduler" \notin open[c]
                 PROVE  \E u \in Threads : Waits(u, c)'
      BY <1>2 DEF FlushInv
    <2>1. PICK u \in Threads : Waits(u, c)
      BY DEF LeakInv, FlushInv
    <2>2. u # t
      BY <1>2, <2>1 DEF Waits
    <2> QED  BY <1>2, <2>1, <2>2 DEF Waits
  <1>5. RaceInv'
    <2>1. \A c \in DOMAIN fate : Closers(c)' \subseteq Closers(c)
      <3>1. /\ pc'[t] \in {"idle", "close"}
            /\ pc'[t] = "close" => pc[t] = "evict" /\ target'[t] = target[t]
        BY <1>1 DEF Evict, Raise, Closed
      <3> QED  BY <1>2, <3>1 DEF Closers
    <2> QED  BY <1>2, <2>1 DEF LeakInv, RaceInv
  <1>6. \A u \in Threads \ {t} :
           /\ InOrder(todo'[u])
           /\ pc'[u] \notin {"close", "cleanup"} => todo'[u] = <<>>
           /\ pc'[u] = "close" => FlushFirst(todo'[u])
           /\ pc'[u] = "cleanup" => "flush" \notin open'[target'[u]]
           /\ pc'[u] \in {"close", "cleanup"} /\ "publisher" \notin Faulty
              /\ "scheduler" \in open'[target'[u]] => Has(todo'[u], "publisher")
    BY <1>2 DEF LeakInv, ReleaseInv
  <1>7. \A c \in DOMAIN fate : OwedOn(c) \subseteq OwedOn(c)'
    BY <1>2, SameOwed
  <1>8. CASE Evict(t)
    <2>1. /\ UNCHANGED <<fate, target>> /\ todo' = [todo EXCEPT ![t] = CloseOrder]
          /\ pc[t] = "evict" /\ pc'[t] = "close" /\ todo'[t] = CloseOrder
      BY <1>1, <1>8 DEF Evict
    <2>2. m \in DOMAIN fate
      BY <1>1, <1>m, <2>1 DEF ThreadInv, Known
    <2>3. open[m] \subseteq OwedOn(m)'
      <3>1. open[m] \subseteq Owed(t)'
        BY <1>1, <1>m, <2>1, <2>2, CloseOrderReleases DEF Owed, OwedBy
      <3>2. target'[t] = m
        BY <1>m, <2>1
      <3> QED  BY <3>1, <3>2 DEF OwedOn
    <2>4. ASSUME NEW c \in DOMAIN fate, Releasing(c)'
          PROVE  open[c] \subseteq Spared \cup OwedOn(c)'
      <3>1. CASE c = m
        BY <2>3, <3>1
      <3>2. CASE c # m
        <4>1. Releasing(c)
          BY <1>m, <1>2, <2>1, <2>4, <3>2 DEF Releasing
        <4> QED  BY <1>7, <4>1 DEF LeakInv, ReleaseInv
      <3> QED  BY <3>1, <3>2
    <2>5. todo' \in [Threads -> Seq(Items)]
      BY <1>1, <2>1, CloseOrderReleases
    <2>6. ReleaseInv'
      BY <1>2, <1>6, <2>1, <2>4, <2>5, CloseOrderReleases DEF ReleaseInv
    <2> QED  BY <1>3, <1>4, <1>5, <2>6 DEF LeakInv
  <1>9. CASE Raise(t) \/ Closed(t)
    <2>1. /\ pc[t] \in {"cleanup", "close"} /\ pc'[t] = "idle"
          /\ todo' = [todo EXCEPT ![t] = <<>>] /\ todo'[t] = <<>>
          /\ \E f : fate' = [fate EXCEPT ![m] = f]
      BY <1>1, <1>m, <1>9 DEF Raise, Closed
    <2>2. todo' = todo
      BY <1>1, <1>2, <2>1
    <2>3. ASSUME NEW c \in DOMAIN fate, Releasing(c)'
          PROVE  open[c] \subseteq Spared \cup OwedOn(c)'
      <3>1. Releasing(c)
        BY <1>1, <1>m, <1>2, <2>1, <2>3 DEF Releasing
      <3> QED  BY <1>7, <3>1 DEF LeakInv, ReleaseInv
    <2>4. InOrder(todo'[t])
      BY <2>1 DEF InOrder
    <2>5. ReleaseInv'
      BY <1>1, <1>2, <1>6, <2>1, <2>2, <2>3, <2>4 DEF ReleaseInv
    <2> QED  BY <1>3, <1>4, <1>5, <2>5 DEF LeakInv
  <1> QED  BY <1>8, <1>9

(* What a flush opens again is closed once more by the thread that waits    *)
(* for it, or by one that has still to stop the scheduler.                  *)
LEMMA FlushLeakStep ==
    ASSUME CacheInv, OpenInv, LeakInv, NEW c \in DOMAIN open, FlushSends(c)
    PROVE  LeakInv'
  <1> USE DEF locals, history
  <1>1. /\ todo \in [Threads -> Seq(Items)] /\ DOMAIN open = DOMAIN fate
        /\ UNCHANGED <<fate, pc, target, todo, raced>> /\ "flush" \in open[c]
    BY DEF OpenInv, Shaped, LeakInv, ReleaseInv, FlushSends
  <1>2. PICK part \in FlushUses : open' = [open EXCEPT ![c] = @ \cup {part}]
    BY DEF FlushSends
  <1>3. /\ \A x \in DOMAIN fate \ {c} : open'[x] = open[x]
        /\ open'[c] = open[c] \cup {part}
        /\ part \in {"sender", "oauth"}
    BY <1>1, <1>2 DEF FlushUses
  <1>4. \A x \in DOMAIN fate : /\ "scheduler" \in open'[x] <=> "scheduler" \in open[x]
                               /\ "flush" \in open'[x] <=> "flush" \in open[x]
                               /\ "sender" \in open[x] => "sender" \in open'[x]
    BY <1>3
  <1>5. \A x : OwedOn(x)' = OwedOn(x) /\ (Releasing(x)' <=> Releasing(x))
               /\ \A u \in Threads : Waits(u, x)' <=> Waits(u, x)
    BY <1>1 DEF OwedOn, Owed, Releasing, Waits
  <1>6. ASSUME Releasing(c)
        PROVE  part \in Spared \cup OwedOn(c)
    <2>1. CASE "publisher" \in Faulty
      BY <2>1, PartsFacts
    <2>2. ASSUME NEW u \in Threads, target[u] = c, FlushFirst(todo[u]),
                 Has(todo[u], "publisher") \/ Has(todo[u], "flush")
          PROVE  part \in OwedOn(c)
      <3>1. Has(todo[u], "sender") /\ Has(todo[u], "token")
        BY <2>2 DEF FlushFirst, Has
      <3>2. part \in Owed(u)
        <4>1. "sender" \in Parts("sender") /\ "oauth" \in Parts("token")
          BY PartsFacts DEF Items, Components
        <4> QED  BY <1>3, <3>1, <4>1 DEF Has, Owed
      <3> QED  BY <2>2, <3>2 DEF OwedOn
    <2>3. CASE "publisher" \notin Faulty /\ "scheduler" \notin open[c]
      <3>1. PICK u \in Threads : Waits(u, c)
        BY <1>1, <2>3 DEF LeakInv, FlushInv
      <3>2. /\ todo[u] \in Seq(Items) /\ todo[u] # <<>> /\ Head(todo[u]) = "flush"
            /\ target[u] = c /\ FlushFirst(todo[u])
        BY <1>1, <3>1 DEF Waits, LeakInv, ReleaseInv
      <3>3. Has(todo[u], "flush")
        <4>1. 1 \in DOMAIN todo[u] /\ todo[u][1] = "flush"
          BY <3>2
        <4> QED  BY <4>1 DEF Has
      <3> QED  BY <2>2, <3>2, <3>3
    <2>4. CASE "publisher" \notin Faulty /\ "scheduler" \in open[c]
      <3>1. PICK u \in Threads : target[u] = c /\ "scheduler" \in Owed(u)
        BY <1>1, <1>6, <2>4, PartsFacts DEF LeakInv, ReleaseInv, OwedOn
      <3>2. PICK i \in DOMAIN todo[u] : "scheduler" \in Parts(todo[u][i])
        BY <3>1 DEF Owed
      <3>3. todo[u] \in Seq(Items) /\ todo[u][i] \in Items /\ todo[u] # <<>>
        BY <1>1, <3>2
      <3>4. Has(todo[u], "publisher")
        BY <3>2, <3>3, PartsFacts DEF Has
      <3>5. pc[u] = "close"
        BY <1>1, <3>1, <3>3 DEF LeakInv, ReleaseInv
      <3>6. FlushFirst(todo[u])
        BY <3>5 DEF LeakInv, ReleaseInv
      <3> QED  BY <2>2, <3>1, <3>4, <3>6
    <2> QED  BY <2>1, <2>3, <2>4
  <1>7. ReleaseInv'
    <2>1. ASSUME NEW x \in DOMAIN fate, Releasing(x)
          PROVE  open'[x] \subseteq Spared \cup OwedOn(x)
      <3>1. open[x] \subseteq Spared \cup OwedOn(x)
        BY <2>1 DEF LeakInv, ReleaseInv
      <3> QED  BY <1>3, <1>6, <2>1, <3>1
    <2>2. ASSUME NEW u \in Threads, pc[u] \in {"close", "cleanup"}
          PROVE  /\ "scheduler" \in open'[target[u]] <=> "scheduler" \in open[target[u]]
                 /\ "flush" \in open'[target[u]] <=> "flush" \in open[target[u]]
      BY <1>4, <2>2, ReleasedTarget
    <2> QED  BY <1>1, <1>5, <2>1, <2>2 DEF LeakInv, ReleaseInv
  <1>8. FlushInv'
    BY <1>1, <1>4, <1>5 DEF LeakInv, FlushInv
  <1>9. RaceInv'
    BY <1>1 DEF LeakInv, RaceInv, Closers
  <1>10. PublisherStopsFirst'
    BY <1>1, <1>4 DEF LeakInv, PublisherStopsFirst
  <1> QED  BY <1>7, <1>8, <1>9, <1>10 DEF LeakInv

(* Every step keeps what NothingLeaks and PublisherStopsFirst need. *)
LEMMA LeakStep ==
    ASSUME CacheInv, OpenInv, LeakInv, [Next]_vars
    PROVE  LeakInv'
  <1>1. CASE UNCHANGED vars
    BY <1>1 DEF vars, clients, locals, history, LeakInv, ReleaseInv, Owed, OwedOn, Releasing,
                FlushInv, Waits, RaceInv, Closers, PublisherStopsFirst
  <1>2. ASSUME NEW t \in Threads, Call(t) \/ Constructing(t) \/ Proceed(t)
        PROVE  LeakInv'
    BY <1>2, QuietStep, GivingUpStep, CloseNextStep, ReleaseStep DEF Constructing, Proceed
  <1> QED  BY <1>1, <1>2, FlushLeakStep DEF Next

(* At first there is nothing to release. *)
LEMMA LeakInit == Init => LeakInv
BY DEF Init, LeakInv, ReleaseInv, InOrder, FlushInv, RaceInv, PublisherStopsFirst

(* What is released when close returns, or a construction has failed.       *)
LEMMA LeakInvariant == Spec => []LeakInv
BY LifeInvariant, LeakInit, LeakStep, PTL DEF Spec

(* close, and the cleanup of __init__: however many threads close a client, *)
(* whichever step of a construction raises and whatever a flush in flight   *)
(* opens again, everything the client held has been told to stop or is let  *)
(* go, now or by a thread still closing it, except what belongs to a        *)
(* component whose own close raised.                                        *)
THEOREM AllReleased == Spec => []NothingLeaks
<1>1. LeakInv => NothingLeaks
  BY DEF LeakInv, ReleaseInv, Releasing, OwedOn, NothingLeaks
<1> QED  BY <1>1, LeakInvariant, PTL

(* close, and the cleanup of __init__: the scheduler that sends events has  *)
(* been told to stop before the session it sends through is closed; and if  *)
(* no two calls of close overlap on the client, its flush has ended, too.   *)
THEOREM PublisherBeforeSender == Spec => []PublisherStopsFirst
<1>1. LeakInv => PublisherStopsFirst
  BY DEF LeakInv
<1> QED  BY <1>1, LeakInvariant, PTL

-----------------------------------------------------------------------------
(* The registry is well typed: the calls bound the clients that exist.      *)

(* The calls of get_instance that may still construct a client. *)
Pending ==
    {t \in Threads : pc[t] \in {"lookup", "want", "acquire", "recheck"} /\ target[t] = None}

CountInv ==
    /\ calls \in Nat /\ calls <= MaxCalls
    /\ IsFiniteSet(Pending)
    /\ Len(keyOf) + Cardinality(Pending) <= calls
    /\ \A c \in DOMAIN built : built[c] <= Len(Steps)
    /\ raced \subseteq DOMAIN keyOf

(* No call has been made yet. *)
LEMMA CountInit == Init => CountInv
  <1> SUFFICES ASSUME Init PROVE CountInv
    OBVIOUS
  <1>1. Pending = {} /\ Len(keyOf) = 0 /\ DOMAIN built = {} /\ calls = 0 /\ raced = {}
    BY DEF Init, Pending
  <1> QED  BY <1>1, FS_EmptySet, RegistryConstants DEF CountInv

(* Whoever leaves get_instance, or begins to construct, is pending no more. *)
LEMMA CountStep ==
    ASSUME CacheInv, OpenInv, CountInv, [Next]_vars
    PROVE  CountInv'
  <1> USE RegistryConstants DEF Goto, Leave, Release, registry, clients, locals, history
  <1> DEFINE Waiting == {"lookup", "want", "acquire", "recheck"}
  <1>1. /\ pc \in [Threads -> Stages] /\ target \in [Threads -> Nat \cup {None}]
        /\ key \in [Threads -> Keys \cup {None}] /\ keyOf \in Seq(Keys)
        /\ Len(keyOf) \in Nat /\ calls \in Nat /\ MaxCalls \in Nat
        /\ built \in Seq(Nat) /\ \A t \in Threads : ThreadInv(t) /\ ThreadOpen(t)
        /\ IsFiniteSet(Pending) /\ Cardinality(Pending) \in Nat
    BY FS_CardinalityType DEF CacheInv, ClientInv, Typed, OpenInv, Shaped, CountInv
  (* A step of one thread moves at most that thread in or out. *)
  <1>2. ASSUME NEW t \in Threads, \A u \in Threads \ {t} : UNCHANGED <<pc[u], target[u]>>
        PROVE  /\ IsFiniteSet(Pending')
               /\ Cardinality(Pending') = Cardinality(Pending)
                     + (IF t \in Pending' THEN 1 ELSE 0) - (IF t \in Pending THEN 1 ELSE 0)
    <2>1. Pending' \in {Pending \cup {t}, Pending \ {t}}
      BY <1>2 DEF Pending
    <2>2. /\ IsFiniteSet(Pending \cup {t}) /\ IsFiniteSet(Pending \ {t})
          /\ Cardinality(Pending \cup {t})
               = IF t \in Pending THEN Cardinality(Pending) ELSE Cardinality(Pending) + 1
          /\ Cardinality(Pending \ {t})
               = IF t \in Pending THEN Cardinality(Pending) - 1 ELSE Cardinality(Pending)
      BY <1>1, FS_AddElement, FS_RemoveElement
    <2>3. CASE t \in Pending'
      <3>1. Pending' = Pending \cup {t}
        BY <2>1, <2>3
      <3> QED  BY <1>1, <2>2, <2>3, <3>1
    <2>4. CASE t \notin Pending'
      <3>1. Pending' = Pending \ {t}
        BY <2>1, <2>4
      <3> QED  BY <1>1, <2>2, <2>4, <3>1
    <2> QED  BY <2>3, <2>4
  <1>3. ASSUME NEW t \in Threads, Call(t)
        PROVE  CountInv'
    <2>1. /\ calls < MaxCalls /\ calls' = calls + 1 /\ UNCHANGED <<keyOf, built>>
          /\ \A u \in Threads \ {t} : UNCHANGED <<pc[u], target[u]>>
          /\ t \notin Pending
      BY <1>1, <1>3 DEF Call, GetInstance, Close, Pending
    <2>2. /\ IsFiniteSet(Pending')
          /\ Cardinality(Pending') \in {Cardinality(Pending), Cardinality(Pending) + 1}
      BY <1>1, <1>2, <2>1
    <2>3. Len(keyOf) + Cardinality(Pending) <= calls
      BY DEF CountInv
    <2>4. Len(keyOf) + Cardinality(Pending') <= calls + 1
      BY <1>1, <2>2, <2>3
    <2>5. /\ calls' \in Nat /\ calls' <= MaxCalls
          /\ Len(keyOf') + Cardinality(Pending') <= calls'
      BY <1>1, <2>1, <2>4
    <2>6. \A c \in DOMAIN built' : built'[c] <= Len(Steps)
      BY <2>1 DEF CountInv
    <2>7. raced' \subseteq DOMAIN keyOf
      <3>1. \A u \in Threads : got[u] # None => got[u] \in DOMAIN keyOf
        BY <1>1 DEF ThreadInv, Known, CacheInv, Typed
      <3> QED  BY <1>3, <3>1 DEF Call, GetInstance, Close, CountInv
    <2> QED  BY <2>1, <2>2, <2>5, <2>6, <2>7 DEF CountInv
  <1>4. ASSUME NEW t \in Threads, Miss(t)
        PROVE  CountInv'
    <2>1. /\ UNCHANGED calls /\ built' = Append(built, 0)
          /\ \A u \in Threads \ {t} : UNCHANGED <<pc[u], target[u]>>
          /\ t \notin Pending' /\ t \in Pending
      BY <1>1, <1>4 DEF Miss, NewClient, Pending, ThreadInv
    <2>2. Len(keyOf') = Len(keyOf) + 1
      BY <1>1, <1>4 DEF Miss, NewClient
    <2>3. \A c \in DOMAIN built' : built'[c] <= Len(Steps)
      BY <1>1, <2>1, StepsLength DEF CountInv
    <2>4. /\ IsFiniteSet(Pending') /\ Cardinality(Pending') = Cardinality(Pending) - 1
      BY <1>1, <1>2, <2>1
    <2>5. Len(keyOf) + Cardinality(Pending) <= calls /\ calls <= MaxCalls
      BY DEF CountInv
    <2>6. Len(keyOf') + Cardinality(Pending') <= calls'
      BY <1>1, <2>1, <2>2, <2>4, <2>5
    <2>7. calls' \in Nat /\ calls' <= MaxCalls
      BY <1>1, <2>1, <2>5
    <2>8. raced' \subseteq DOMAIN keyOf'
      BY <1>1, <1>4, <2>2 DEF Miss, NewClient, CountInv
    <2> QED  BY <2>3, <2>4, <2>6, <2>7, <2>8 DEF CountInv
  <1>5. ASSUME NEW t \in Threads, Build(t)
        PROVE  CountInv'
    <2>1. /\ UNCHANGED <<calls, keyOf, target, raced>> /\ pc[t] = "build"
          /\ built' = [built EXCEPT ![target[t]] = built[target[t]] + 1]
          /\ \A u \in Threads \ {t} : pc'[u] = pc[u]
          /\ pc'[t] \in {"build", "register"}
      BY <1>1, <1>5 DEF Build
    <2>2. \A c \in DOMAIN built' : built'[c] <= Len(Steps)
      BY <1>1, <2>1, StepsLength DEF CountInv, ThreadOpen
    <2>3. t \notin Pending /\ t \notin Pending'
      BY <2>1 DEF Pending
    <2> QED  BY <1>1, <1>2, <2>1, <2>2, <2>3 DEF CountInv
  <1>6. ASSUME NEW t \in Threads, BuildFails(t) \/ (Proceed(t) /\ ~Miss(t))
        PROVE  CountInv'
    <2>1. UNCHANGED <<calls, keyOf, built, raced>>
      BY <1>6 DEF BuildFails, Proceed, Lookup, GetKeyLock, Acquire, RecheckHit, Cleanup,
                  Raise, Register, Announce, Evict, Closing, Closed
    <2>2. \A u \in Threads \ {t} : UNCHANGED <<pc[u], target[u]>>
      BY <1>1, <1>6 DEF BuildFails, Proceed, Lookup, GetKeyLock, Acquire, RecheckHit, Cleanup,
                  Raise, Register, Announce, Evict, Closing, Closed
    <2>3. t \in Pending' => t \in Pending
      BY <1>1, <1>6 DEF BuildFails, Proceed, Lookup, GetKeyLock, Acquire, RecheckHit, Cleanup,
                  Raise, Register, Announce, Evict, Closing, Closed, Pending
    <2> QED  BY <1>1, <1>2, <2>1, <2>2, <2>3 DEF CountInv
  <1>7. CASE UNCHANGED vars \/ \E c \in DOMAIN open : FlushSends(c)
    BY <1>7 DEF vars, FlushSends, CountInv, Pending
  <1> QED  BY <1>3, <1>4, <1>5, <1>6, <1>7 DEF Next, Constructing, Proceed

(* The cache, the locks and the locals hold values of their types, however  *)
(* many calls there are: a call of get_instance makes one client at most.   *)
THEOREM RegistryTyped == Spec => []TypeOK
<1>1. ASSUME CacheInv, OpenInv, CountInv
      PROVE  TypeOK
  <2>1. /\ Len(keyOf) \in Nat /\ Len(keyOf) <= calls /\ calls \in 0 .. MaxCalls
    BY <1>1, FS_CardinalityType, RegistryConstants DEF CountInv, CacheInv, Typed
  <2>2. /\ DOMAIN keyOf = 1 .. Len(keyOf) /\ DOMAIN fate = 1 .. Len(keyOf)
        /\ DOMAIN built = 1 .. Len(keyOf) /\ DOMAIN open = 1 .. Len(keyOf)
        /\ DOMAIN keyOf \subseteq Clients
    BY <1>1, <2>1, RegistryConstants DEF CacheInv, Typed, OpenInv, Shaped, Clients
  <2>3. \A c : Known(c) => c \in DOMAIN keyOf
    BY <2>2 DEF Known
  <2>4. \A t \in Threads : ThreadInv(t) /\ ThreadOpen(t)
    BY <1>1 DEF CacheInv, ClientInv, OpenInv
  <2>5. target \in [Threads -> DOMAIN keyOf \cup {None}]
    <3>1. \A t \in Threads : pc[t] \in Stages /\ (target[t] = None \/ target[t] \in DOMAIN keyOf)
      BY <1>1, <2>2, <2>3, <2>4
         DEF CacheInv, Typed, ThreadInv, Stages, InLock, Making
    <3> QED  BY <1>1, <3>1 DEF CacheInv, Typed
  <2>6. got \in [Threads -> DOMAIN keyOf \cup {None}]
    BY <1>1, <2>3, <2>4 DEF CacheInv, Typed, ThreadInv
  <2>7. shut \in [Threads -> SUBSET (DOMAIN keyOf)]
    BY <1>1, <2>3, <2>4 DEF OpenInv, Shaped, ThreadOpen, Retired
  <2>8. cached \in [Keys -> Clients \cup {None}]
    BY <1>1, <2>2, <2>3 DEF CacheInv, Typed, ClientInv
  <2>9. built \in [DOMAIN keyOf -> 0 .. Len(Steps)]
    BY <1>1, <2>2, StepsLength DEF OpenInv, Shaped, CountInv
  <2>10. open \in [DOMAIN keyOf -> SUBSET Held]
    BY <1>1, <2>2 DEF OpenInv, Shaped
  <2>11. fate \in [DOMAIN keyOf -> {"new", "live", "closing", "closed", "dropped"}]
    <3>1. Fates = {"new", "live", "closing", "closed", "dropped"}
      BY DEF Fates, Public
    <3> QED  BY <1>1, <2>2, <3>1 DEF CacheInv, Typed
  <2>12. raced \subseteq DOMAIN keyOf
    BY <1>1 DEF CountInv
  <2>13. Stages = {"idle", "lookup", "want", "acquire", "recheck", "build",
                   "cleanup", "register", "announce", "evict", "close"}
    BY DEF Stages, InLock
  <2> QED
    BY <1>1, <2>1, <2>5, <2>6, <2>7, <2>8, <2>9, <2>10, <2>11, <2>12, <2>13
       DEF TypeOK, CacheInv, Typed
<1> QED  BY <1>1, LifeInvariant, CountInit, CountStep, PTL DEF Spec
=============================================================================
