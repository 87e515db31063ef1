------------------------- MODULE TokenServiceProofs -------------------------
(***************************************************************************)
(* Proofs about TokenService, for any number of threads, any lifetimes and *)
(* pacing constants, and any bounds.                                       *)
(***************************************************************************)
EXTENDS TokenService, TLAPS

(* Every token a fetch can store is a token, one version up. *)
LEMMA NewTokensTyped ==
    ASSUME TypeOK, NEW tok \in NewTokens
    PROVE  /\ tok \in Token
           /\ tok.id = cached.id + 1
           /\ ~Malformed => tok.ok
  <1>1. cached.id \in Nat /\ now \in Int
    BY DurationsOK DEF TypeOK, Token
  <1>2. CASE \E s \in Skews, l \in Lifetimes :
               tok = [id |-> cached.id + 1, iss |-> now + s, exp |-> now + s + l, ok |-> TRUE]
    BY <1>1, <1>2, DurationsOK DEF Token
  <1>3. CASE Malformed /\ tok = [id |-> cached.id + 1, iss |-> 0, exp |-> 0, ok |-> FALSE]
    BY <1>1, <1>3 DEF Token
  <1>4. QED
    BY <1>2, <1>3 DEF NewTokens

(* The refresher's waits are natural numbers of seconds. *)
LEMMA SleepForTyped ==
    ASSUME TypeOK, NEW iss \in Int, NEW exp \in Int
    PROVE  SleepFor(iss, exp) \in Nat
  <1>1. WakeTime(iss, exp) - now \in Int
    BY DurationsOK DEF WakeTime, TypeOK
  <1>2. QED
    BY <1>1, DurationsOK DEF SleepFor, Smaller, Larger

-----------------------------------------------------------------------------
(* The constructor leaves every attribute with a value of its type. *)
LEMMA TypeInit == Init => TypeOK
  <1> SUFFICES ASSUME Init PROVE TypeOK
    OBVIOUS
  <1>1. pc \in [Threads -> Stages]
    BY DEF Init, Stages
  <1>2. cached \in Token
    BY DEF Init, NoToken, Token
  <1>3. delay \in 0 .. MaxDelay /\ now \in 0 .. MaxTime
    BY DurationsOK DEF Init
  <1>4. /\ op \in [Callers -> {"get", "force"}]
        /\ prev \in [Workers -> Nat] /\ issued \in [Workers -> Int]
        /\ used \in [Callers -> Nat] /\ begun \in [Callers -> Nat]
    BY DEF Init
  <1>5. /\ lock \in Workers \cup {NoThread} /\ timer \in Nat
        /\ started \in {"no", "yes", "failed"}
        /\ stop \in BOOLEAN /\ wake \in BOOLEAN /\ lazily \in BOOLEAN
    BY DEF Init
  <1> QED
    BY <1>1, <1>2, <1>3, <1>4, <1>5 DEF TypeOK

(* Every step keeps the types; one case per group of actions. *)
LEMMA TypeStep ==
    ASSUME TypeOK, [Next]_vars
    PROVE  TypeOK'
  <1> USE DurationsOK, ThreadsDistinct DEF TypeOK, Goto, Workers, Threads, Stages
  <1>0. /\ \A c \in Callers : c # Bg
        /\ cached.id \in Nat /\ cached.iss \in Int /\ cached.exp \in Int
    BY DEF Token
  <1>1. CASE Start
    <2>1. CASE StartFetched
      BY <2>1, NewTokensTyped DEF StartFetched, StartRefresher, locals, pacing
    <2>2. CASE StartDeferred
      BY <2>2 DEF StartDeferred, StartRefresher, locals, pacing
    <2>3. CASE StartRejected
      BY <2>3 DEF StartRejected, shared, locals, pacing
    <2> QED
      BY <1>1, <2>1, <2>2, <2>3 DEF Start
  <1>2. ASSUME NEW t \in Workers, Fetching(t)
        PROVE  TypeOK'
    <2>1. CASE ReadIssued(t)
      BY <1>0, <2>1 DEF ReadIssued, Raise, shared
    <2>2. CASE ReadExpires(t)
      BY <1>0, <2>2 DEF ReadExpires, Raise, shared
    <2>3. CASE Snapshot(t)
      BY <1>0, <2>3 DEF Snapshot, shared, pacing
    <2>4. CASE AcquireToFetch(t)
      BY <1>0, <2>4 DEF AcquireToFetch, locals, pacing
    <2>5. CASE AcquireAndSkip(t)
      BY <1>0, <2>5 DEF AcquireAndSkip, Fetched, shared, pacing
    <2>6. CASE FetchStore(t)
      <3>1. cached' \in Token
        BY <2>6, NewTokensTyped DEF FetchStore
      <3> QED
        BY <1>0, <2>6, <3>1 DEF FetchStore, Fetched, Doing, pacing
    <2>7. CASE FetchFail(t)
      BY <1>0, <2>7 DEF FetchFail, Leave, Doing, pacing
    <2> QED
      BY <1>2, <2>1, <2>2, <2>3, <2>4, <2>5, <2>6, <2>7 DEF Fetching
  <1>3. ASSUME NEW c \in Callers, Calling(c)
        PROVE  TypeOK'
    <2>1. CASE Begin(c)
      BY <1>0, <2>1 DEF Begin, shared, pacing
    <2>2. CASE Catch(c)
      BY <1>0, <2>2 DEF Catch, shared, locals, pacing
    <2>3. CASE Format(c)
      BY <1>0, <2>3 DEF Format, shared, pacing
    <2>4. CASE Return(c)
      BY <1>0, <2>4 DEF Return, Leave, shared, pacing
    <2>5. CASE Unauthorized(c)
      BY <1>0, <2>5 DEF Unauthorized, shared, pacing
    <2>6. CASE Nudge(c)
      BY <1>0, <2>6 DEF Nudge, Leave, pacing
    <2> QED
      BY <1>3, <2>1, <2>2, <2>3, <2>4, <2>5, <2>6 DEF Calling
  <1>4. CASE Refreshing
    <2>1. CASE BgArm
      <3>1. SleepFor(issued[Bg], cached.exp) \in Nat
        BY <1>0, SleepForTyped
      <3> QED
        BY <1>0, <2>1, <3>1 DEF BgArm, Raise, shared
    <2>2. CASE BgFailed
      BY <1>0, <2>2 DEF BgFailed, Raise, Smaller, shared, locals
    <2>3. CASE BgSchedule
      BY <1>0, <2>3 DEF BgSchedule, Raise, shared
    <2>4. CASE BgLoop \/ BgRetry \/ BgBackoffOver \/ BgPauseOver
      BY <2>4 DEF BgLoop, BgRetry, BgBackoffOver, BgPauseOver, shared, locals, pacing
    <2>5. CASE BgWoken
      BY <2>5 DEF BgWoken, shared, locals
    <2>6. CASE BgTimedOut
      BY <2>6 DEF BgTimedOut, shared, locals, pacing
    <2>7. CASE BgClear
      BY <2>7 DEF BgClear, locals, pacing
    <2> QED
      BY <1>4, <2>1, <2>2, <2>3, <2>4, <2>5, <2>6, <2>7 DEF Refreshing
  <1>5. ASSUME NEW k \in Closers, Closing(k)
        PROVE  TypeOK'
    BY <1>5 DEF Closing, CloseStop, CloseWake, Joined, JoinTimeout, shared, locals, pacing
  <1>6. CASE Tick
    BY <1>6 DEF Tick, Smaller, Larger, shared, locals
  <1>7. CASE UNCHANGED vars
    BY <1>7 DEF vars, shared, locals, pacing
  <1> QED
    BY <1>1, <1>2, <1>3, <1>4, <1>5, <1>6, <1>7 DEF Next

(* The shared attributes and every thread's locals keep their types. *)
THEOREM TypeCorrect == Spec => []TypeOK
  BY TypeInit, TypeStep, PTL DEF Spec
-----------------------------------------------------------------------------
(* Nobody runs before start() is over, nor after it raised. *)
NotYetStarted ==
    started # "yes" => /\ pc[Bg] = "unstarted"
                       /\ \A c \in Callers : pc[c] = "idle"

LockInv == NotYetStarted /\ FetchUnderLock

(* Nobody holds the lock or fetches before start(). *)
LEMMA LockInit == Init => LockInv
  BY ThreadsDistinct
  DEF Init, LockInv, NotYetStarted, FetchUnderLock, Threads, Workers

(* Every step keeps the lock, the snapshot and the fetch in step. *)
LEMMA LockStep ==
    ASSUME TypeOK, LockInv, [Next]_vars
    PROVE  LockInv'
  <1> USE ThreadsDistinct
      DEF LockInv, NotYetStarted, FetchUnderLock, TypeOK, Goto, Workers, Threads
  <1>0. \A c \in Callers : c # Bg
    OBVIOUS
  <1>1. CASE Start
    BY <1>0, <1>1 DEF Start, StartFetched, StartDeferred, StartRejected,
                      StartRefresher, shared, locals, pacing
  <1>2. ASSUME NEW t \in Workers, Fetching(t)
        PROVE  LockInv'
    <2>0. started = "yes"
      BY <1>2 DEF Fetching, ReadIssued, ReadExpires, Snapshot, AcquireToFetch,
                  AcquireAndSkip, FetchStore, FetchFail
    <2>1. CASE ReadIssued(t)
      BY <1>0, <2>0, <2>1 DEF ReadIssued, Raise, shared
    <2>2. CASE ReadExpires(t)
      BY <1>0, <2>0, <2>2 DEF ReadExpires, Raise, shared
    <2>3. CASE Snapshot(t)
      BY <1>0, <2>0, <2>3 DEF Snapshot, shared, pacing
    <2>4. CASE AcquireToFetch(t)
      BY <1>0, <2>0, <2>4 DEF AcquireToFetch, locals, pacing
    <2>5. CASE AcquireAndSkip(t)
      BY <1>0, <2>0, <2>5 DEF AcquireAndSkip, Fetched, shared, pacing
    <2>6. CASE FetchStore(t)
      BY <1>0, <2>0, <2>6 DEF FetchStore, Fetched, pacing
    <2>7. CASE FetchFail(t)
      BY <1>0, <2>0, <2>7 DEF FetchFail, Leave, pacing
    <2> QED
      BY <1>2, <2>1, <2>2, <2>3, <2>4, <2>5, <2>6, <2>7 DEF Fetching
  <1>3. ASSUME NEW c \in Callers, Calling(c)
        PROVE  LockInv'
    BY <1>0, <1>3 DEF Calling, Begin, Catch, Format, Return, Unauthorized, Nudge,
                      Leave, shared, locals, pacing
  <1>4. CASE Refreshing
    BY <1>0, <1>4 DEF Refreshing, BgLoop, BgSchedule, BgArm, BgWoken, BgTimedOut,
                      BgClear, BgPauseOver, BgRetry, BgFailed, BgBackoffOver,
                      Raise, shared, locals, pacing
  <1>5. ASSUME NEW k \in Closers, Closing(k)
        PROVE  LockInv'
    BY <1>0, <1>5 DEF Closing, CloseStop, CloseWake, Joined, JoinTimeout,
                      shared, locals, pacing
  <1>6. CASE Tick
    BY <1>6 DEF Tick, shared, locals
  <1>7. CASE UNCHANGED vars
    BY <1>7 DEF vars, shared, locals, pacing
  <1> QED
    BY <1>1, <1>2, <1>3, <1>4, <1>5, <1>6, <1>7 DEF Next

(* Fetches exclude each other, and while one is in flight the cached token  *)
(* remains the one its thread had snapshotted.                              *)
THEOREM FetchesExclusive == Spec => []FetchUnderLock
  <1>1. LockInv => FetchUnderLock
    BY DEF LockInv
  <1> QED
    BY <1>1, TypeCorrect, LockInit, LockStep, PTL DEF Spec

(* The thundering-herd guard, as a property of every step: after start()    *)
(* only the lock holder replaces the token, and only the token it had seen. *)
THEOREM OverwritesAreSeen == Spec => NoBlindOverwrite
  <1>1. ASSUME TypeOK, LockInv, [Next]_vars, started # "no", cached' # cached
        PROVE  \E t \in Workers : prev[t] = cached.id /\ lock = t
    <2>1. PICK t \in Workers : FetchStore(t)
      BY <1>1 DEF Next, vars, Start, StartFetched, StartDeferred, StartRejected,
         StartRefresher, Fetching, ReadIssued, ReadExpires, Snapshot,
         AcquireToFetch, AcquireAndSkip, FetchFail, Calling, Begin, Catch, Format,
         Return, Unauthorized, Nudge, Refreshing, BgLoop, BgSchedule, BgArm,
         BgWoken, BgTimedOut, BgClear, BgPauseOver, BgRetry, BgFailed,
         BgBackoffOver, Closing, CloseStop, CloseWake, Joined, JoinTimeout, Tick,
         shared
    <2> QED
      BY <1>1, <2>1 DEF FetchStore, LockInv, FetchUnderLock
  <1>2. TypeOK /\ LockInv /\ [Next]_vars
          => [started # "no" /\ cached' # cached
                => \E t \in Workers : prev[t] = cached.id /\ lock = t]_vars
    BY <1>1
  <1> QED
    BY <1>2, TypeCorrect, LockInit, LockStep, PTL DEF Spec, NoBlindOverwrite
-----------------------------------------------------------------------------
(* The stop event is set before the wake event and never cleared. *)
StopInv ==
    /\ (\E k \in Closers : pc[k] # "idle") => stop
    /\ StopNotMissed

(* No close() has begun at first. *)
LEMMA StopInit == Init => StopInv
  BY ThreadsDistinct DEF Init, StopInv, StopNotMissed, Threads, Workers

(* Once set, the stop event stays set, and the wake event is cleared only   *)
(* by a refresher that then reads the stop event.                           *)
LEMMA StopStep ==
    ASSUME TypeOK, StopInv, [Next]_vars
    PROVE  StopInv'
  <1> USE ThreadsDistinct DEF StopInv, StopNotMissed, TypeOK, Goto, Workers, Threads
  <1>1. CASE Start
    BY <1>1 DEF Start, StartFetched, StartDeferred, StartRejected, StartRefresher,
                shared, locals, pacing
  <1>2. ASSUME NEW t \in Workers, Fetching(t)
        PROVE  StopInv'
    <2>1. CASE ReadIssued(t)
      BY <2>1 DEF ReadIssued, Raise, shared
    <2>2. CASE ReadExpires(t)
      BY <2>2 DEF ReadExpires, Raise, shared
    <2>3. CASE Snapshot(t) \/ AcquireToFetch(t)
      BY <2>3 DEF Snapshot, AcquireToFetch, shared, locals, pacing
    <2>4. CASE AcquireAndSkip(t) \/ FetchStore(t)
      BY <2>4 DEF AcquireAndSkip, FetchStore, Fetched, shared, pacing
    <2>5. CASE FetchFail(t)
      BY <2>5 DEF FetchFail, Leave, Doing, pacing
    <2> QED
      BY <1>2, <2>1, <2>2, <2>3, <2>4, <2>5 DEF Fetching
  <1>3. ASSUME NEW c \in Callers, Calling(c)
        PROVE  StopInv'
    BY <1>3 DEF Calling, Begin, Catch, Format, Return, Unauthorized, Nudge,
                Leave, shared, locals, pacing
  <1>4. CASE Refreshing
    <2>1. CASE BgLoop \/ BgClear
      BY <2>1 DEF BgLoop, BgClear, shared, locals, pacing
    <2>2. CASE BgSchedule \/ BgArm \/ BgFailed
      BY <2>2 DEF BgSchedule, BgArm, BgFailed, Raise, shared, locals
    <2>3. CASE BgWoken \/ BgTimedOut \/ BgPauseOver \/ BgRetry \/ BgBackoffOver
      BY <2>3 DEF BgWoken, BgTimedOut, BgPauseOver, BgRetry, BgBackoffOver,
                  shared, locals, pacing
    <2> QED
      BY <1>4, <2>1, <2>2, <2>3 DEF Refreshing
  <1>5. ASSUME NEW k \in Closers, Closing(k)
        PROVE  StopInv'
    BY <1>5 DEF Closing, CloseStop, CloseWake, Joined, JoinTimeout,
                shared, locals, pacing
  <1>6. CASE Tick
    BY <1>6 DEF Tick, shared, locals
  <1>7. CASE UNCHANGED vars
    BY <1>7 DEF vars, shared, locals, pacing
  <1> QED
    BY <1>1, <1>2, <1>3, <1>4, <1>5, <1>6, <1>7 DEF Next

(* Once close() has set both events the refresher is not left asleep. *)
THEOREM CloseIsHeard == Spec => []StopNotMissed
  <1>1. StopInv => StopNotMissed
    BY DEF StopInv
  <1> QED
    BY <1>1, TypeCorrect, StopInit, StopStep, PTL DEF Spec

(* At first the refresher has not ended, and it ends only where it reads    *)
(* the stop event: every exception takes it to a pause or a backoff.        *)
LEMMA SurviveStep ==
    ASSUME TypeOK, RefresherSurvives, [Next]_vars
    PROVE  RefresherSurvives'
  <1> USE ThreadsDistinct DEF RefresherSurvives, TypeOK, Goto, Workers, Threads
  <1>1. CASE Start
    BY <1>1 DEF Start, StartFetched, StartDeferred, StartRejected, StartRefresher, shared
  <1>2. ASSUME NEW t \in Workers, Fetching(t)
        PROVE  RefresherSurvives'
    <2>1. CASE ReadIssued(t) \/ ReadExpires(t) \/ Snapshot(t)
      BY <2>1 DEF ReadIssued, ReadExpires, Snapshot, Raise, shared
    <2>2. CASE AcquireToFetch(t) \/ AcquireAndSkip(t)
      BY <2>2 DEF AcquireToFetch, AcquireAndSkip, Fetched, shared
    <2>3. CASE FetchStore(t) \/ FetchFail(t)
      BY <2>3 DEF FetchStore, FetchFail, Fetched, Leave, Doing
    <2> QED
      BY <1>2, <2>1, <2>2, <2>3 DEF Fetching
  <1>3. ASSUME NEW c \in Callers, Calling(c)
        PROVE  RefresherSurvives'
    BY <1>3 DEF Calling, Begin, Catch, Format, Return, Unauthorized, Nudge,
                Leave, shared
  <1>4. CASE Refreshing
    BY <1>4 DEF Refreshing, BgLoop, BgSchedule, BgArm, BgWoken, BgTimedOut, BgClear,
                BgPauseOver, BgRetry, BgFailed, BgBackoffOver, Raise, shared
  <1>5. ASSUME NEW k \in Closers, Closing(k)
        PROVE  RefresherSurvives'
    BY <1>5 DEF Closing, CloseStop, CloseWake, Joined, JoinTimeout, shared
  <1>6. CASE Tick \/ UNCHANGED vars
    BY <1>6 DEF Tick, vars, shared
  <1> QED
    BY <1>1, <1>2, <1>3, <1>4, <1>5, <1>6 DEF Next

(* Nothing but close() ends the refresher thread, malformed tokens included. *)
THEOREM OnlyCloseEnds == Spec => []RefresherSurvives
  <1>1. Init => RefresherSurvives
    BY ThreadsDistinct DEF Init, RefresherSurvives, Threads, Workers
  <1> QED
    BY <1>1, TypeCorrect, SurviveStep, PTL DEF Spec

-----------------------------------------------------------------------------
(* What get_auth_token can rely on: ids only grow, so a snapshot or a       *)
(* history is never ahead of the cached token, and a caller that reached    *)
(* _format_token finds a token.                                             *)
CacheInv ==
    /\ cached.ok <=> cached.id # 0
    /\ \A t \in Workers : prev[t] <= cached.id
    /\ \A c \in Callers : begun[c] <= cached.id
    /\ \A c \in Callers : pc[c] = "format" => cached.id # 0
    /\ TokenNeverLost

(* No caller has begun a request before start(). *)
LEMMA CacheInit == Init => CacheInv
  BY ThreadsDistinct
  DEF Init, CacheInv, TokenNeverLost, NoToken, Threads, Workers

(* The version of the cached token only grows, so a caller that began with  *)
(* a token always finds one at least as new.                                *)
LEMMA CacheStep ==
    ASSUME ~Malformed, TypeOK, LockInv, CacheInv, [Next]_vars
    PROVE  CacheInv'
  <1> USE ThreadsDistinct
      DEF CacheInv, TokenNeverLost, TypeOK, Goto, Workers, Threads, IsMalformed
  <1>0. /\ \A c \in Callers : c # Bg
        /\ cached.id \in Nat
        /\ ~IsMalformed(cached)
        /\ \A tok \in NewTokens : tok.ok /\ tok.id = cached.id + 1
    BY NewTokensTyped DEF Token
  <1>1. CASE Start
    <2>1. CASE StartFetched
      BY <1>0, <2>1 DEF StartFetched, StartRefresher, locals, pacing
    <2>2. CASE StartDeferred \/ StartRejected
      BY <1>0, <2>2 DEF StartDeferred, StartRejected, StartRefresher,
                        shared, locals, pacing
    <2> QED
      BY <1>1, <2>1, <2>2 DEF Start
  <1>2. ASSUME NEW t \in Workers, Fetching(t)
        PROVE  CacheInv'
    <2>1. CASE ReadIssued(t)
      BY <1>0, <2>1 DEF ReadIssued, shared
    <2>2. CASE ReadExpires(t)
      BY <1>0, <2>2 DEF ReadExpires, JudgedValid, shared
    <2>3. CASE Snapshot(t)
      BY <1>0, <2>3 DEF Snapshot, shared, pacing
    <2>4. CASE AcquireToFetch(t)
      BY <1>0, <2>4 DEF AcquireToFetch, locals, pacing
    <2>5. CASE AcquireAndSkip(t)
      BY <1>0, <2>5 DEF AcquireAndSkip, Fetched, shared, pacing
    <2>6. CASE FetchStore(t)
      BY <1>0, <2>6 DEF FetchStore, Fetched, pacing
    <2>7. CASE FetchFail(t)
      BY <1>0, <2>7 DEF FetchFail, Leave, pacing
    <2> QED
      BY <1>2, <2>1, <2>2, <2>3, <2>4, <2>5, <2>6, <2>7 DEF Fetching
  <1>3. ASSUME NEW c \in Callers, Calling(c)
        PROVE  CacheInv'
    <2>1. CASE Begin(c) \/ Catch(c) \/ Unauthorized(c)
      BY <1>0, <2>1 DEF Begin, Catch, Unauthorized, shared, locals, pacing
    <2>2. CASE Format(c)
      BY <1>0, <2>2 DEF Format, shared, pacing
    <2>3. CASE Return(c) \/ Nudge(c)
      BY <1>0, <2>3 DEF Return, Nudge, Leave, shared, pacing
    <2> QED
      BY <1>3, <2>1, <2>2, <2>3 DEF Calling
  <1>4. CASE Refreshing
    BY <1>0, <1>4 DEF Refreshing, BgLoop, BgSchedule, BgArm, BgWoken, BgTimedOut,
                      BgClear, BgPauseOver, BgRetry, BgFailed, BgBackoffOver,
                      Raise, shared, locals, pacing
  <1>5. ASSUME NEW k \in Closers, Closing(k)
        PROVE  CacheInv'
    BY <1>0, <1>5 DEF Closing, CloseStop, CloseWake, Joined, JoinTimeout,
                      shared, locals, pacing
  <1>6. CASE Tick
    BY <1>6 DEF Tick, shared, locals
  <1>7. CASE UNCHANGED vars
    BY <1>7 DEF vars, shared, locals, pacing
  <1> QED
    BY <1>1, <1>2, <1>3, <1>4, <1>5, <1>6, <1>7 DEF Next

(* If every 200 response carries the token fields, get_auth_token raises    *)
(* only when no token was ever stored, and never hands out an older token   *)
(* than the one cached when it was called.                                  *)
THEOREM CachedTokenKept == ~Malformed => (Spec => []TokenNeverLost)
  <1> SUFFICES ASSUME ~Malformed PROVE Spec => []TokenNeverLost
    OBVIOUS
  <1>1. CacheInv => TokenNeverLost
    BY DEF CacheInv
  <1>2. TypeOK /\ LockInv /\ CacheInv /\ [Next]_vars => CacheInv'
    BY CacheStep
  <1> QED
    BY <1>1, <1>2, TypeCorrect, LockInit, LockStep, CacheInit, PTL DEF Spec
-----------------------------------------------------------------------------
(* The half-life of a mixed pair, an older issued_at with a newer           *)
(* expires_at, is never later than that of the newer token.                 *)
LEMMA HalfLifeMonotone ==
    ASSUME NEW a \in Int, NEW b \in Int, NEW exp \in Int, a <= b
    PROVE  HalfLife(a, exp) <= HalfLife(b, exp)
  BY SMT DEF HalfLife

(* With a constant offset between the server's clock and ours, issued_at    *)
(* never runs ahead of that offset, and grows from token to token.          *)
IssueInv(skew) ==
    /\ cached.ok => cached.iss <= now + skew
    /\ \A t \in Workers : pc[t] = "expires" =>
          /\ issued[t] <= now + skew
          /\ cached.ok => issued[t] <= cached.iss

(* No worker is between the two reads of the validity check at first. *)
LEMMA IssueInit ==
    ASSUME NEW skew \in Int
    PROVE  Init => IssueInv(skew)
  <1> SUFFICES ASSUME Init PROVE IssueInv(skew)
    OBVIOUS
  <1>1. ~cached.ok
    BY DEF Init, NoToken
  <1>2. \A t \in Workers : pc[t] # "expires"
    BY DEF Init, Threads, Workers
  <1> QED
    BY <1>1, <1>2 DEF IssueInv

(* The issued_at read first is never later than that of the token cached    *)
(* when expires_at is read.                                                 *)
LEMMA IssueStep ==
    ASSUME NEW skew \in Int, Skews = {skew}, TypeOK, IssueInv(skew), [Next]_vars
    PROVE  IssueInv(skew)'
  <1> USE ThreadsDistinct DEF IssueInv, TypeOK, Goto, Workers, Threads
  <1>0. /\ \A c \in Callers : c # Bg
        /\ cached.iss \in Int /\ now \in Int
        /\ \A tok \in NewTokens : tok.ok => tok.iss = now + skew
    <2>1. \A tok \in NewTokens : tok.ok => tok.iss = now + skew
      BY DEF NewTokens
    <2> QED
      BY <2>1 DEF Token
  <1>1. CASE Start
    <2>1. CASE StartFetched
      BY <1>0, <2>1 DEF StartFetched, StartRefresher, locals, pacing
    <2>2. CASE StartDeferred \/ StartRejected
      BY <1>0, <2>2 DEF StartDeferred, StartRejected, StartRefresher,
                        shared, locals, pacing
    <2> QED
      BY <1>1, <2>1, <2>2 DEF Start
  <1>2. ASSUME NEW t \in Workers, Fetching(t)
        PROVE  IssueInv(skew)'
    <2>1. CASE ReadIssued(t)
      BY <1>0, <2>1 DEF ReadIssued, Raise, shared
    <2>2. CASE ReadExpires(t)
      BY <1>0, <2>2 DEF ReadExpires, Raise, shared
    <2>3. CASE Snapshot(t) \/ AcquireToFetch(t)
      BY <1>0, <2>3 DEF Snapshot, AcquireToFetch, shared, locals, pacing
    <2>4. CASE AcquireAndSkip(t)
      BY <1>0, <2>4 DEF AcquireAndSkip, Fetched, shared, pacing
    <2>5. CASE FetchStore(t)
      BY <1>0, <2>5 DEF FetchStore, Fetched, pacing
    <2>6. CASE FetchFail(t)
      BY <1>0, <2>6 DEF FetchFail, Leave, pacing
    <2> QED
      BY <1>2, <2>1, <2>2, <2>3, <2>4, <2>5, <2>6 DEF Fetching
  <1>3. ASSUME NEW c \in Callers, Calling(c)
        PROVE  IssueInv(skew)'
    BY <1>0, <1>3 DEF Calling, Begin, Catch, Format, Return, Unauthorized, Nudge,
                      Leave, shared, locals, pacing
  <1>4. CASE Refreshing
    <2>1. CASE BgSchedule \/ BgArm
      BY <1>0, <2>1 DEF BgSchedule, BgArm, Raise, shared
    <2>2. CASE BgLoop \/ BgWoken \/ BgTimedOut \/ BgClear \/ BgPauseOver
               \/ BgRetry \/ BgFailed \/ BgBackoffOver
      BY <1>0, <2>2 DEF BgLoop, BgWoken, BgTimedOut, BgClear, BgPauseOver, BgRetry,
                        BgFailed, BgBackoffOver, Raise, shared, locals, pacing
    <2> QED
      BY <1>4, <2>1, <2>2 DEF Refreshing
  <1>5. ASSUME NEW k \in Closers, Closing(k)
        PROVE  IssueInv(skew)'
    BY <1>0, <1>5 DEF Closing, CloseStop, CloseWake, Joined, JoinTimeout,
                      shared, locals, pacing
  <1>6. CASE Tick
    <2>1. now <= now'
      BY <1>6, DurationsOK DEF Tick, Smaller
    <2>2. now' \in Int
      BY <1>6, DurationsOK DEF Tick, Smaller
    <2> QED
      BY <1>0, <1>6, <2>1, <2>2 DEF Tick, shared, locals
  <1>7. CASE UNCHANGED vars
    BY <1>7 DEF vars, shared, locals, pacing
  <1> QED
    BY <1>1, <1>2, <1>3, <1>4, <1>5, <1>6, <1>7 DEF Next

(* The lock-free validity check reads the cached token twice and may see    *)
(* two different tokens; when it answers "valid", the token cached at that  *)
(* moment is valid.                                                         *)
THEOREM TornReadsAreSafe ==
    ASSUME NEW skew \in Int, Skews = {skew}
    PROVE  Spec => TornReadIsSafe
  <1>1. ASSUME TypeOK, LockInv, IssueInv(skew), [Next]_vars,
               NEW t \in Workers, pc[t] = "expires", pc'[t] \in {"loop", "format"}
        PROVE  Valid(cached)
    <2>1. ReadExpires(t)
      <3> USE <1>1, ThreadsDistinct DEF Goto, TypeOK, Workers, Threads
      <3>1. CASE Start \/ Tick \/ UNCHANGED vars
        BY <3>1 DEF Start, StartFetched, StartDeferred, StartRejected,
                    StartRefresher, Tick, vars, LockInv, NotYetStarted
      <3>2. ASSUME NEW u \in Workers, Fetching(u)
            PROVE  ReadExpires(t)
        <4>1. CASE u = t
          BY <3>2, <4>1 DEF Fetching, ReadIssued, Snapshot, AcquireToFetch,
                            AcquireAndSkip, FetchStore, FetchFail
        <4>2. CASE u # t
          BY <3>2, <4>2 DEF Fetching, ReadIssued, ReadExpires, Raise, Snapshot,
                            AcquireToFetch, AcquireAndSkip, FetchStore, Fetched,
                            FetchFail, Leave
        <4> QED
          BY <4>1, <4>2
      <3>3. ASSUME NEW c \in Callers, Calling(c)
            PROVE  ReadExpires(t)
        BY <3>3 DEF Calling, Begin, Catch, Format, Return, Unauthorized, Nudge, Leave
      <3>4. CASE Refreshing
        BY <3>4 DEF Refreshing, BgLoop, BgSchedule, BgArm, BgWoken, BgTimedOut,
                    BgClear, BgPauseOver, BgRetry, BgFailed, BgBackoffOver, Raise
      <3>5. ASSUME NEW k \in Closers, Closing(k)
            PROVE  ReadExpires(t)
        BY <3>5 DEF Closing, CloseStop, CloseWake, Joined, JoinTimeout
      <3> QED
        BY <3>1, <3>2, <3>3, <3>4, <3>5 DEF Next
    <2>2. JudgedValid(t)
      BY <1>1, <2>1, ThreadsDistinct
      DEF ReadExpires, Raise, Goto, TypeOK, Workers, Threads
    <2>3. /\ issued[t] <= cached.iss
          /\ issued[t] \in Int /\ cached.iss \in Int /\ cached.exp \in Int
          /\ now \in Int
      BY <1>1, <2>2 DEF IssueInv, JudgedValid, TypeOK, Token
    <2>4. HalfLife(issued[t], cached.exp) <= HalfLife(cached.iss, cached.exp)
      BY <2>3, HalfLifeMonotone
    <2>5. /\ HalfLife(issued[t], cached.exp) \in Int
          /\ HalfLife(cached.iss, cached.exp) \in Int
      BY <2>3 DEF HalfLife
    <2> QED
      BY <2>2, <2>3, <2>4, <2>5 DEF JudgedValid, Valid
  <1>2. TypeOK /\ LockInv /\ IssueInv(skew) /\ [Next]_vars
          => [\A t \in Workers :
                pc[t] = "expires" /\ pc'[t] \in {"loop", "format"} => Valid(cached)]_vars
    BY <1>1
  <1>3. TypeOK /\ IssueInv(skew) /\ [Next]_vars => IssueInv(skew)'
    BY IssueStep
  <1>4. Init => IssueInv(skew)
    BY IssueInit
  <1> QED
    BY <1>2, <1>3, <1>4, TypeCorrect, LockInit, LockStep, PTL DEF Spec, TornReadIsSafe
-----------------------------------------------------------------------------
(* The refresher's sleep.  The wait is computed from two reads of the       *)
(* cached token; it may be too long only while something still has to wake  *)
(* the refresher, or get_auth_token stored the token.                       *)

Horizon(iss, exp) == Larger(MinPause, WakeTime(iss, exp) - now)

(* The refresher is about to be woken, or the claim does not cover it. *)
Excused == wake \/ lazily \/ \E c \in Callers : pc[c] = "nudge"

NapInv ==
    ~Excused =>
        /\ pc[Bg] = "arm" => issued[Bg] = cached.iss
        /\ pc[Bg] = "sleeping" /\ cached.ok => timer <= Horizon(cached.iss, cached.exp)

(* The refresher does not sleep before start(). *)
LEMMA NapInit == Init => NapInv
  BY ThreadsDistinct DEF Init, NapInv, NoToken, Threads, Workers

(* The wait that is armed is within the horizon of the pair it came from. *)
LEMMA ArmedWithin ==
    ASSUME TypeOK, NEW iss \in Int, NEW exp \in Int
    PROVE  SleepFor(iss, exp) <= Horizon(iss, exp)
  <1>1. WakeTime(iss, exp) - now \in Int
    BY DurationsOK DEF WakeTime, TypeOK
  <1> QED
    BY <1>1, DurationsOK DEF SleepFor, Horizon, Smaller, Larger

(* As the clock advances the wait and what is left until the half-life      *)
(* shrink together.                                                         *)
LEMMA TickWithin ==
    ASSUME TypeOK, Tick, NEW iss \in Int, NEW exp \in Int, timer <= Horizon(iss, exp)
    PROVE  timer' <= Horizon(iss, exp)'
  <1>1. PICK w \in Int : w = WakeTime(iss, exp)
    BY DEF WakeTime
  <1>2. /\ now \in Int /\ timer \in Nat /\ MinPause \in Nat /\ MaxTime \in Nat
        /\ now <= MaxTime
    BY DurationsOK DEF TypeOK
  <1>3. /\ now' \in Int /\ now' <= now + 1
        /\ timer' = IF timer - 1 >= 0 THEN timer - 1 ELSE 0
    BY <1>2 DEF Tick, Smaller, Larger
  <1>4. timer <= IF MinPause >= w - now THEN MinPause ELSE w - now
    BY <1>1 DEF Horizon, Larger
  <1>5. timer' <= IF MinPause >= w - now' THEN MinPause ELSE w - now'
    BY <1>1, <1>2, <1>3, <1>4
  <1>6. Horizon(iss, exp)' = IF MinPause >= w - now' THEN MinPause ELSE w - now'
    BY <1>1 DEF Horizon, WakeTime, Larger
  <1> QED  BY <1>5, <1>6

(* Whoever replaces the token while the refresher arms or sleeps is a       *)
(* caller: get_auth_token marks it, force_refresh_token has yet to nudge,   *)
(* and once the wake event is set only the refresher clears it.             *)
LEMMA NapStep ==
    ASSUME TypeOK, LockInv, NapInv, [Next]_vars
    PROVE  NapInv'
  <1>. cached.iss \in Int /\ cached.exp \in Int
    BY DEF TypeOK, Token
  <1>t. Tick /\ timer <= Horizon(cached.iss, cached.exp)
          => timer' <= Horizon(cached.iss, cached.exp)'
    <2> SUFFICES ASSUME Tick, timer <= Horizon(cached.iss, cached.exp)
                 PROVE  timer' <= Horizon(cached.iss, cached.exp)'
      OBVIOUS
    <2>1. PICK iss \in Int, exp \in Int : iss = cached.iss /\ exp = cached.exp
      OBVIOUS
    <2>2. timer' <= Horizon(iss, exp)'
      BY <2>1, TickWithin
    <2> QED  BY <2>1, <2>2 DEF Tick, shared, Horizon
  <1> USE ThreadsDistinct DEF NapInv, Excused, TypeOK, Goto, Workers, Threads
  <1>0. /\ \A c \in Callers : c # Bg
        /\ cached.iss \in Int /\ cached.exp \in Int
    BY DEF Token
  <1>1. CASE Start
    BY <1>0, <1>1 DEF Start, StartFetched, StartDeferred, StartRejected, StartRefresher,
                      LockInv, NotYetStarted, shared, locals, pacing
  <1>2. ASSUME NEW t \in Workers, Fetching(t)
        PROVE  NapInv'
    <2>1. CASE ReadIssued(t)
      BY <1>0, <2>1 DEF ReadIssued, Raise, Horizon, shared
    <2>2. CASE ReadExpires(t)
      BY <1>0, <2>2 DEF ReadExpires, Raise, Horizon, shared
    <2>3. CASE Snapshot(t) \/ AcquireToFetch(t)
      BY <1>0, <2>3 DEF Snapshot, AcquireToFetch, Horizon, shared, locals, pacing
    <2>4. CASE AcquireAndSkip(t)
      BY <1>0, <2>4 DEF AcquireAndSkip, Fetched, Horizon, shared, pacing
    <2>5. CASE FetchStore(t)
      <3>1. CASE t = Bg
        BY <1>0, <2>5, <3>1 DEF FetchStore, Fetched
      <3>2. CASE t \in Callers /\ op[t] = "get"
        BY <3>2, <2>5 DEF FetchStore, Doing
      <3>3. CASE t \in Callers /\ op[t] = "force"
        <4>1. pc'[t] = "nudge"
          BY <1>0, <2>5, <3>3 DEF FetchStore, Fetched, Doing
        <4> QED  BY <3>3, <4>1
      <3> QED  BY <1>2, <3>1, <3>2, <3>3
    <2>6. CASE FetchFail(t)
      BY <1>0, <2>6 DEF FetchFail, Leave, Doing, Horizon, pacing
    <2> QED
      BY <1>2, <2>1, <2>2, <2>3, <2>4, <2>5, <2>6 DEF Fetching
  <1>3. ASSUME NEW c \in Callers, Calling(c)
        PROVE  NapInv'
    <2>1. CASE Nudge(c)
      BY <2>1 DEF Nudge
    <2>2. CASE Begin(c) \/ Catch(c) \/ Format(c) \/ Return(c) \/ Unauthorized(c)
      BY <1>0, <2>2 DEF Begin, Catch, Format, Return, Unauthorized, Leave, Horizon,
                        shared, locals, pacing
    <2> QED
      BY <1>3, <2>1, <2>2 DEF Calling
  <1>4. CASE Refreshing
    <2>1. CASE BgSchedule
      <3>1. 0 <= Horizon(cached.iss, cached.exp)
        BY <1>0, DurationsOK DEF Horizon, Larger, WakeTime
      <3> QED  BY <1>0, <2>1, <3>1 DEF BgSchedule, Raise, NoToken, Horizon, shared
    <2>2. CASE BgArm
      <3>1. /\ pc[Bg] = "arm" /\ UNCHANGED <<now, shared, lazily>>
            /\ pc' = [pc EXCEPT ![Bg] = pc'[Bg]] /\ pc'[Bg] # "arm"
            /\ pc'[Bg] = "sleeping" => timer' = SleepFor(issued[Bg], cached.exp)
        BY <1>0, <2>2 DEF BgArm, Raise
      <3>2. SleepFor(issued[Bg], cached.exp) <= Horizon(issued[Bg], cached.exp)
        BY <1>0, ArmedWithin
      <3> QED  BY <1>0, <3>1, <3>2 DEF Horizon, shared
    <2>3. CASE BgLoop \/ BgWoken \/ BgTimedOut \/ BgClear \/ BgPauseOver
               \/ BgRetry \/ BgFailed \/ BgBackoffOver
      BY <1>0, <2>3 DEF BgLoop, BgWoken, BgTimedOut, BgClear, BgPauseOver, BgRetry,
                        BgFailed, BgBackoffOver, Raise, shared, locals, pacing
    <2> QED
      BY <1>4, <2>1, <2>2, <2>3 DEF Refreshing
  <1>5. ASSUME NEW k \in Closers, Closing(k)
        PROVE  NapInv'
    BY <1>0, <1>5 DEF Closing, CloseStop, CloseWake, Joined, JoinTimeout, Horizon,
                      shared, locals, pacing
  <1>6. CASE Tick
    BY <1>6, <1>t DEF Tick, shared, locals
  <1>7. CASE UNCHANGED vars
    BY <1>7 DEF vars, Horizon, shared, locals, pacing
  <1> QED
    BY <1>1, <1>2, <1>3, <1>4, <1>5, <1>6, <1>7 DEF Next

(* force_refresh_token replaces the token while the refresher computes its  *)
(* wait or already sleeps; unless the wake event is set or about to be, the *)
(* refresher never sleeps past the half-life of the token that is cached.   *)
THEOREM SleepsNotPastHalfLife == Spec => []NeverOversleeps
  <1>1. NapInv => NeverOversleeps
    BY DEF NapInv, Excused, NeverOversleeps, Horizon
  <1> QED
    BY <1>1, TypeCorrect, LockInit, LockStep, NapInit, NapStep, PTL DEF Spec
-----------------------------------------------------------------------------
(* The thundering-herd guard as it is documented.  What defeats it is only  *)
(* a snapshot that force_refresh_token takes late, when the rejected token  *)
(* has been replaced.                                                       *)
SnapshotsInTime ==
    \A c \in Callers : Doing(c, "force") /\ Snapshot(c) => used[c] = cached.id

(* What a caller that refreshes has snapshotted is the token it had used.   *)
HerdInv ==
    \A c \in Callers :
        pc[c] \in {"acquire", "fetch"} /\ op[c] = "force" => prev[c] = used[c]

(* Nobody refreshes yet. *)
LEMMA HerdInit == Init => HerdInv
  BY DEF Init, HerdInv

(* Between the snapshot and the end of the fetch neither changes. *)
LEMMA HerdStep ==
    ASSUME TypeOK, LockInv, HerdInv, [Next]_vars, [SnapshotsInTime]_vars
    PROVE  HerdInv'
  <1> USE ThreadsDistinct DEF HerdInv, TypeOK, Goto, Workers, Threads
  <1>0. \A c \in Callers : c # Bg
    OBVIOUS
  <1>1. CASE Start
    BY <1>0, <1>1 DEF Start, StartFetched, StartDeferred, StartRejected,
                      StartRefresher, LockInv, NotYetStarted, shared, locals, pacing
  <1>2. ASSUME NEW t \in Workers, Fetching(t)
        PROVE  HerdInv'
    <2>1. CASE ReadIssued(t)
      BY <1>0, <2>1 DEF ReadIssued, Raise, shared
    <2>2. CASE ReadExpires(t)
      BY <1>0, <2>2 DEF ReadExpires, Raise, shared
    <2>3. CASE Snapshot(t)
      <3>1. vars' # vars
        <4>1. pc'[t] # pc[t]
          BY <2>3 DEF Snapshot
        <4> QED
          BY <4>1 DEF vars
      <3>2. t \in Callers /\ op[t] = "force" => used[t] = cached.id
        BY <2>3, <3>1 DEF SnapshotsInTime, Doing
      <3> QED
        BY <1>0, <2>3, <3>2 DEF Snapshot, shared, pacing
    <2>4. CASE AcquireToFetch(t)
      BY <1>0, <2>4 DEF AcquireToFetch, locals, pacing
    <2>5. CASE AcquireAndSkip(t)
      BY <1>0, <2>5 DEF AcquireAndSkip, Fetched, shared, pacing
    <2>6. CASE FetchStore(t)
      BY <1>0, <2>6 DEF FetchStore, Fetched, pacing
    <2>7. CASE FetchFail(t)
      BY <1>0, <2>7 DEF FetchFail, Leave, pacing
    <2> QED
      BY <1>2, <2>1, <2>2, <2>3, <2>4, <2>5, <2>6, <2>7 DEF Fetching
  <1>3. ASSUME NEW c \in Callers, Calling(c)
        PROVE  HerdInv'
    BY <1>0, <1>3 DEF Calling, Begin, Catch, Format, Return, Unauthorized, Nudge,
                      Leave, shared, locals, pacing
  <1>4. CASE Refreshing
    BY <1>0, <1>4 DEF Refreshing, BgLoop, BgSchedule, BgArm, BgWoken, BgTimedOut,
                      BgClear, BgPauseOver, BgRetry, BgFailed, BgBackoffOver,
                      Raise, shared, locals, pacing
  <1>5. ASSUME NEW k \in Closers, Closing(k)
        PROVE  HerdInv'
    BY <1>0, <1>5 DEF Closing, CloseStop, CloseWake, Joined, JoinTimeout,
                      shared, locals, pacing
  <1>6. CASE Tick
    BY <1>6 DEF Tick, shared, locals
  <1>7. CASE UNCHANGED vars
    BY <1>7 DEF vars, shared, locals, pacing
  <1> QED
    BY <1>1, <1>2, <1>3, <1>4, <1>5, <1>6, <1>7 DEF Next

(* What the docstring of _fetch_and_store_token promises, that callers who  *)
(* saw the same token rejected fetch once between them, is true as long as  *)
(* no caller enters force_refresh_token after its token has been replaced.  *)
(* The run token_herd refutes it where one does.                            *)
THEOREM PromptSnapshotsCollapse ==
    Spec /\ [][SnapshotsInTime]_vars => []HerdCollapses
  <1>1. LockInv /\ HerdInv => HerdCollapses
    BY DEF LockInv, FetchUnderLock, HerdInv, HerdCollapses, Workers
  <1> QED
    BY <1>1, TypeCorrect, LockInit, LockStep, HerdInit, HerdStep, PTL DEF Spec
=============================================================================
