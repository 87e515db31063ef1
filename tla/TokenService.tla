---------------------------- MODULE TokenService ----------------------------
(***************************************************************************)
(* The OAuth token cache of common/token_handler/token_service.py and the  *)
(* threads that share it:                                                  *)
(*                                                                         *)
(*   - the constructing thread, which runs start() once;                   *)
(*   - Bg, the daemon thread "PhonePeTokenRefresher";                      *)
(*   - Callers, application threads inside                                 *)
(*     BaseClient._request_with_token_invalidation (get_auth_token, the    *)
(*     request, force_refresh_token after a 401);                          *)
(*   - Closers, threads that run close().                                  *)
(*                                                                         *)
(* One action reads or writes the shared attributes at most once where     *)
(* another thread could come in between; steps that touch only locals are  *)
(* folded into the action before them.  Only callers and the refresher     *)
(* contend for _token_lock, since nobody holds a reference to the service  *)
(* while start() runs.                                                     *)
(*                                                                         *)
(* A definition whose name ends in _Bug is a variant of the one after it   *)
(* with a plausible mistake; it is no part of the specification and serves *)
(* to show that a property would notice the mistake.                       *)
(***************************************************************************)
EXTENDS Integers

CONSTANTS
    Callers,        \* application threads that issue requests
    Closers,        \* threads that call close(), once each
    Bg,             \* the background refresh thread
    NoThread,       \* nobody holds the lock
    Lifetimes,      \* lifetimes (seconds) the server may give a token
    Skews,          \* issued_at of a new token, relative to the local clock
    Malformed,      \* TRUE iff a 200 may come without the token fields
    MinPause,       \* MIN_SECONDS_BETWEEN_PROACTIVE_ATTEMPTS
    MaxPause,       \* MAX_SECONDS_BETWEEN_PROACTIVE_ATTEMPTS
    BaseDelay,      \* PROACTIVE_REFRESH_BASE_RETRY_DELAY_SECONDS
    MaxDelay,       \* PROACTIVE_REFRESH_MAX_RETRY_DELAY_SECONDS
    MaxTime,        \* bound: the wall clock stops here (timers still run)
    MaxVersion      \* bound: number of tokens the server ever issues

ASSUME ThreadsDistinct ==
    /\ Callers \cap Closers = {}
    /\ Bg \notin Callers \cup Closers
    /\ NoThread \notin Callers \cup Closers \cup {Bg}

ASSUME DurationsOK ==
    /\ Lifetimes \subseteq Nat /\ Skews \subseteq Int
    /\ Malformed \in BOOLEAN
    /\ MinPause \in Nat /\ MaxPause \in Nat /\ MinPause <= MaxPause
    /\ BaseDelay \in Nat /\ MaxDelay \in Nat /\ BaseDelay <= MaxDelay
    /\ MaxTime \in Nat /\ MaxVersion \in Nat

Workers == Callers \cup {Bg}            \* threads that contend for the lock
Threads == Workers \cup Closers

VARIABLES
    now,        \* int(time())
    cached,     \* cached_token_data
    lock,       \* holder of _token_lock
    stop,       \* _stop_event
    wake,       \* _wake_event
    started,    \* "no" before start(), then "yes", or "failed" if it raised
    pc,         \* where each thread is
    op,         \* the caller's operation: "get" or "force"
    prev,       \* id of the previous_token_data snapshot of a worker
    issued,     \* the issued_at a worker has read, not yet used
    timer,      \* remaining seconds of the refresher's timed wait
    delay,      \* the refresher's next retry delay
    used,       \* id of the token a caller's request carries
    begun,      \* history: id cached when the caller's get_auth_token began
    lazily      \* history: the cached token was stored by get_auth_token

shared == <<cached, lock, stop, wake>>
locals == <<op, prev, issued, used, begun>>
pacing == <<timer, delay>>
vars == <<now, started, pc, shared, locals, pacing, lazily>>

-----------------------------------------------------------------------------
(* Token data.  Ids number the successful fetches: two token objects are    *)
(* the same Python object exactly when their ids are equal.  A body without *)
(* issued_at, expires_at, ... still yields an OauthResponse, all fields     *)
(* None, which is represented by ok = FALSE.                                *)

Token == [id : Nat, iss : Int, exp : Int, ok : BOOLEAN]

NoToken == [id |-> 0, iss |-> 0, exp |-> 0, ok |-> FALSE]

IsMalformed(tok) == tok.id # 0 /\ ~tok.ok

Larger(a, b)  == IF a >= b THEN a ELSE b
Smaller(a, b) == IF a <= b THEN a ELSE b

(* issued_at + int((expires_at - issued_at) // 2) *)
HalfLife(iss, exp) == iss + ((exp - iss) \div 2)

(* issued_at + (expires_at - issued_at) / 2 is a float; a wait that ends    *)
(* there has ended at the next whole second.                                *)
WakeTime(iss, exp) == iss + ((exp - iss + 1) \div 2)

SleepFor(iss, exp) ==
    Smaller(MaxPause, Larger(MinPause, WakeTime(iss, exp) - now))

(* _is_cached_token_valid of a consistent token *)
Valid(tok) == tok.ok /\ now < HalfLife(tok.iss, tok.exp)

-----------------------------------------------------------------------------
Init ==
    /\ now = 0
    /\ cached = NoToken
    /\ lock = NoThread
    /\ stop = FALSE /\ wake = FALSE
    /\ started = "no"
    /\ pc = [t \in Threads |-> IF t = Bg THEN "unstarted" ELSE "idle"]
    /\ op = [c \in Callers |-> "get"]
    /\ prev = [t \in Workers |-> 0]
    /\ issued = [t \in Workers |-> 0]
    /\ timer = 0 /\ delay = BaseDelay
    /\ used = [c \in Callers |-> 0]
    /\ begun = [c \in Callers |-> 0]
    /\ lazily = FALSE

Goto(t, where) == pc' = [pc EXCEPT ![t] = where]

(* t is a caller inside get_auth_token ("get") or force_refresh_token. *)
Doing(t, operation) == t \in Callers /\ op[t] = operation

(* A caller's request is over and its locals are gone. *)
Leave(c) ==
    /\ Goto(c, "idle")
    /\ op' = [op EXCEPT ![c] = "get"]
    /\ used' = [used EXCEPT ![c] = 0]
    /\ begun' = [begun EXCEPT ![c] = 0]

(* The tokens a fetch that succeeds now may store. *)
NewTokens ==
    {[id |-> cached.id + 1, iss |-> now + s, exp |-> now + s + l, ok |-> TRUE] :
        s \in Skews, l \in Lifetimes}
    \cup (IF Malformed
            THEN {[id |-> cached.id + 1, iss |-> 0, exp |-> 0, ok |-> FALSE]}
            ELSE {})

-----------------------------------------------------------------------------
(* start(): one synchronous attempt, then the background thread.            *)

StartRefresher ==
    /\ started' = "yes"
    /\ Goto(Bg, "loop")
    /\ UNCHANGED <<now, lock, stop, wake, locals, pacing, lazily>>

StartFetched ==
    /\ started = "no"
    /\ cached.id < MaxVersion
    /\ cached' \in NewTokens
    /\ StartRefresher

StartDeferred ==            \* transport error, 5xx, 429, unparsable body
    /\ started = "no"
    /\ StartRefresher
    /\ UNCHANGED cached

StartRejected ==            \* any other ClientError is raised to the owner
    /\ started = "no"
    /\ started' = "failed"
    /\ UNCHANGED <<now, shared, pc, locals, pacing, lazily>>

-----------------------------------------------------------------------------
(* _is_cached_token_valid, by a caller or by the refresher.  The attribute  *)
(* is read anew for issued_at and for expires_at, so a replacement between  *)
(* the two reads gives a mixed pair.                                        *)

(* Where a TypeError (None arithmetic) takes the thread: out of             *)
(* get_auth_token, or to the except clause of the background loop.          *)
Raise_Bug(t) ==                 \* the thread dies with the exception
    Goto(t, IF t = Bg THEN "done" ELSE "raised") /\ UNCHANGED timer

Raise(t) ==
    IF t = Bg THEN Goto(t, "pause") /\ timer' = MinPause
              ELSE Goto(t, "raised") /\ UNCHANGED timer

ReadIssued(t) ==
    /\ pc[t] = "issued"
    /\ \/ /\ cached.id = 0
          /\ Goto(t, "snapshot") /\ UNCHANGED <<issued, timer>>
       \/ /\ IsMalformed(cached)        \* raises once expires_at is read too
          /\ Raise(t) /\ UNCHANGED issued
       \/ /\ cached.ok
          /\ Goto(t, "expires")
          /\ issued' = [issued EXCEPT ![t] = cached.iss]
          /\ UNCHANGED timer
    /\ UNCHANGED <<now, shared, started, op, prev, delay, used, begun, lazily>>

JudgedValid_Bug(t) == cached.ok /\ now <= HalfLife(issued[t], cached.exp)

JudgedValid(t) == cached.ok /\ now < HalfLife(issued[t], cached.exp)

ReadExpires(t) ==
    /\ pc[t] = "expires"
    /\ \/ IsMalformed(cached) /\ Raise(t)
       \/ /\ JudgedValid(t)
          /\ Goto(t, IF t = Bg THEN "loop" ELSE "format")
          /\ UNCHANGED timer
       \/ /\ ~IsMalformed(cached) /\ ~JudgedValid(t)
          /\ Goto(t, "snapshot")
          /\ UNCHANGED timer
    /\ issued' = [issued EXCEPT ![t] = 0]
    /\ UNCHANGED <<now, shared, started, op, prev, delay, used, begun, lazily>>

-----------------------------------------------------------------------------
(* _fetch_and_store_token(previous_token_data=self.cached_token_data)       *)

Snapshot(t) ==
    /\ pc[t] = "snapshot"
    /\ prev' = [prev EXCEPT ![t] = cached.id]
    /\ Goto(t, "acquire")
    /\ UNCHANGED <<now, shared, started, op, issued, pacing, used, begun, lazily>>

(* Where the thread continues when the fetch was made or was skipped; the   *)
(* snapshot was an argument of the call that has returned.                  *)
Fetched(t) ==
    /\ Goto(t, IF t = Bg THEN "loop"
               ELSE IF Doing(t, "get") THEN "format" ELSE "nudge")
    /\ prev' = [prev EXCEPT ![t] = 0]

(* The lock is free and the token is still the one snapshotted. *)
AcquireToFetchUnlocked_Bug(t) ==    \* _token_lock is not taken
    /\ pc[t] = "acquire"
    /\ cached.id = prev[t]
    /\ lock' = t
    /\ Goto(t, "fetch")
    /\ UNCHANGED <<now, cached, stop, wake, started, locals, pacing, lazily>>

AcquireToFetch_Bug(t) ==        \* no thundering-herd guard
    /\ pc[t] = "acquire"
    /\ lock = NoThread
    /\ lock' = t
    /\ Goto(t, "fetch")
    /\ UNCHANGED <<now, cached, stop, wake, started, locals, pacing, lazily>>

AcquireToFetch(t) ==
    /\ pc[t] = "acquire"
    /\ lock = NoThread
    /\ cached.id = prev[t]
    /\ lock' = t
    /\ Goto(t, "fetch")
    /\ UNCHANGED <<now, cached, stop, wake, started, locals, pacing, lazily>>

(* The lock is free and another thread has replaced the token. *)
AcquireAndSkip(t) ==
    /\ pc[t] = "acquire"
    /\ lock = NoThread
    /\ cached.id # prev[t]
    /\ Fetched(t)
    /\ UNCHANGED <<now, shared, started, op, issued, pacing, used, begun, lazily>>

(* fetch_token_from_phonepe returned; the lock is held across the call. *)
FetchStore(t) ==
    /\ pc[t] = "fetch"
    /\ cached.id < MaxVersion
    /\ cached' \in NewTokens
    /\ lock' = NoThread
    /\ Fetched(t)
    /\ lazily' = Doing(t, "get")
    /\ UNCHANGED <<now, stop, wake, started, op, issued, pacing, used, begun>>

(* It raised: get_auth_token and the refresher catch, force_refresh_token   *)
(* lets it out without setting the wake event.                              *)
FetchFail_Bug(t) ==             \* the failed refresh drops the old token
    /\ pc[t] = "fetch"
    /\ lock' = NoThread
    /\ cached' = NoToken
    /\ prev' = [prev EXCEPT ![t] = 0]
    /\ \/ /\ ~Doing(t, "force")
          /\ Goto(t, IF t = Bg THEN "failed" ELSE "catch")
          /\ UNCHANGED <<op, used, begun>>
       \/ Doing(t, "force") /\ Leave(t)
    /\ UNCHANGED <<now, stop, wake, started, issued, pacing, lazily>>

FetchFailLocked_Bug(t) ==       \* the lock is not released on an exception
    /\ pc[t] = "fetch"
    /\ Goto(t, IF t = Bg THEN "failed"
               ELSE IF Doing(t, "get") THEN "catch" ELSE "idle")
    /\ UNCHANGED <<now, shared, started, locals, pacing, lazily>>

FetchFailSwallowed_Bug(t) ==    \* force_refresh_token catches it as well
    /\ pc[t] = "fetch"
    /\ lock' = NoThread
    /\ prev' = [prev EXCEPT ![t] = 0]
    /\ Goto(t, IF t = Bg THEN "failed"
               ELSE IF Doing(t, "force") THEN "nudge" ELSE "catch")
    /\ UNCHANGED <<now, cached, stop, wake, started, op, issued, pacing, used,
                   begun, lazily>>

FetchFail(t) ==
    /\ pc[t] = "fetch"
    /\ lock' = NoThread
    /\ prev' = [prev EXCEPT ![t] = 0]
    /\ \/ /\ ~Doing(t, "force")
          /\ Goto(t, IF t = Bg THEN "failed" ELSE "catch")
          /\ UNCHANGED <<op, used, begun>>
       \/ Doing(t, "force") /\ Leave(t)
    /\ UNCHANGED <<now, cached, stop, wake, started, issued, pacing, lazily>>

-----------------------------------------------------------------------------
(* get_auth_token and the request around it.                                *)

Begin(c) ==
    /\ pc[c] = "idle"
    /\ started = "yes"
    /\ Goto(c, "issued")
    /\ begun' = [begun EXCEPT ![c] = cached.id]
    /\ UNCHANGED <<now, shared, started, op, prev, issued, pacing, used, lazily>>

(* Without a token the exception leaves get_auth_token; it is "denied" if   *)
(* it is UnauthorizedAccess, for which the caller has an except clause.     *)
Catch(c) ==
    /\ pc[c] = "catch"
    /\ \/ cached.id = 0 /\ (Goto(c, "raised") \/ Goto(c, "denied"))
       \/ cached.id # 0 /\ Goto(c, "format")
    /\ UNCHANGED <<now, shared, started, locals, pacing, lazily>>

(* _format_token(self.cached_token_data) reads the attribute once more. *)
Format(c) ==
    /\ pc[c] = "format"
    /\ \/ /\ cached.ok
          /\ Goto(c, "sending")
          /\ used' = [used EXCEPT ![c] = cached.id]
       \/ /\ ~cached.ok
          /\ Goto(c, "raised")
          /\ UNCHANGED used
    /\ UNCHANGED <<now, shared, started, op, prev, issued, pacing, begun, lazily>>

Return(c) ==                    \* the request is answered, or the call raised
    /\ pc[c] \in {"sending", "raised"}
    /\ Leave(c)
    /\ UNCHANGED <<now, shared, started, prev, issued, pacing, lazily>>

Unauthorized(c) ==              \* 401 to either request: force_refresh_token
    /\ pc[c] \in {"sending", "denied"}
    /\ Goto(c, "snapshot")
    /\ op' = [op EXCEPT ![c] = "force"]
    /\ UNCHANGED <<now, shared, started, prev, issued, pacing, used, begun, lazily>>

Nudge_Bug(c) ==                 \* the refresher is not told
    /\ pc[c] = "nudge"
    /\ Leave(c)
    /\ UNCHANGED <<now, shared, started, prev, issued, pacing, lazily>>

Nudge(c) ==                     \* self._wake_event.set(); the 401 is re-raised
    /\ pc[c] = "nudge"
    /\ wake' = TRUE
    /\ Leave(c)
    /\ UNCHANGED <<now, cached, lock, stop, started, prev, issued, pacing, lazily>>

-----------------------------------------------------------------------------
(* _background_refresh_loop                                                 *)

BgLoop ==                       \* a new iteration: no attempt made yet
    /\ pc[Bg] = "loop"
    /\ Goto(Bg, IF stop THEN "done" ELSE "schedule")
    /\ timer' = 0 /\ delay' = BaseDelay
    /\ UNCHANGED <<now, shared, started, locals, lazily>>

(* _seconds_until_next_refresh: the two reads of cached_token_data *)
BgSchedule ==
    /\ pc[Bg] = "schedule"
    /\ \/ /\ cached.id = 0
          /\ Goto(Bg, "sleeping") /\ timer' = 0 /\ UNCHANGED issued
       \/ IsMalformed(cached) /\ Raise(Bg) /\ UNCHANGED issued
       \/ /\ cached.ok
          /\ Goto(Bg, "arm")
          /\ issued' = [issued EXCEPT ![Bg] = cached.iss]
          /\ UNCHANGED timer
    /\ UNCHANGED <<now, shared, started, op, prev, delay, used, begun, lazily>>

BgArm ==
    /\ pc[Bg] = "arm"
    /\ IF IsMalformed(cached)
         THEN Raise(Bg)
         ELSE /\ Goto(Bg, "sleeping")
              /\ timer' = SleepFor(issued[Bg], cached.exp)
    /\ issued' = [issued EXCEPT ![Bg] = 0]
    /\ UNCHANGED <<now, shared, started, op, prev, delay, used, begun, lazily>>

(* _wake_event.wait(timeout) returns True or False *)
BgWoken ==
    /\ pc[Bg] = "sleeping"
    /\ wake
    /\ Goto(Bg, "woken")
    /\ timer' = 0
    /\ UNCHANGED <<now, shared, started, locals, delay, lazily>>

BgTimedOut ==
    /\ pc[Bg] = "sleeping"
    /\ timer = 0 /\ ~wake
    /\ Goto(Bg, "timedOut")
    /\ UNCHANGED <<now, shared, started, locals, pacing, lazily>>

(* _wake_event.clear(), then _stop_event is read *)
BgClear ==
    /\ pc[Bg] \in {"woken", "timedOut"}
    /\ wake' = FALSE
    /\ Goto(Bg, IF stop THEN "done"
                ELSE IF pc[Bg] = "woken" THEN "loop" ELSE "retry")
    /\ UNCHANGED <<now, cached, lock, stop, started, locals, pacing, lazily>>

BgPauseOver ==                  \* _stop_event.wait(MIN_SECONDS...) in except
    /\ pc[Bg] = "pause"
    /\ stop \/ timer = 0
    /\ Goto(Bg, "loop")
    /\ UNCHANGED <<now, shared, started, locals, pacing, lazily>>

(* _proactive_refresh_with_retry_until_expiry *)
BgRetry ==
    /\ pc[Bg] = "retry"
    /\ Goto(Bg, IF stop THEN "loop" ELSE "issued")
    /\ UNCHANGED <<now, shared, started, locals, pacing, lazily>>

(* The except clause compares expires_at with the time, so a malformed      *)
(* token raises here too.                                                   *)
BgFailedUncapped_Bug ==         \* the backoff has no cap
    /\ pc[Bg] = "failed"
    /\ Goto(Bg, "backoff")
    /\ timer' = delay
    /\ delay' = 2 * delay
    /\ UNCHANGED <<now, shared, started, locals, lazily>>

BgFailedGivesUp_Bug ==          \* no attempt after the hard expiry
    /\ pc[Bg] = "failed"
    /\ Goto(Bg, IF now < cached.exp THEN "backoff" ELSE "done")
    /\ timer' = delay
    /\ delay' = Smaller(2 * delay, MaxDelay)
    /\ UNCHANGED <<now, shared, started, locals, lazily>>

BgFailed ==
    /\ pc[Bg] = "failed"
    /\ IF IsMalformed(cached)
         THEN Raise(Bg) /\ UNCHANGED delay
         ELSE /\ Goto(Bg, "backoff")
              /\ timer' = delay
              /\ delay' = Smaller(2 * delay, MaxDelay)
    /\ UNCHANGED <<now, shared, started, locals, lazily>>

BgBackoffOver ==                \* _stop_event.wait(delay)
    /\ pc[Bg] = "backoff"
    /\ stop \/ timer = 0
    /\ Goto(Bg, IF stop THEN "loop" ELSE "retry")
    /\ UNCHANGED <<now, shared, started, locals, pacing, lazily>>

-----------------------------------------------------------------------------
(* close()                                                                  *)

CloseStop(k) ==
    /\ pc[k] = "idle"
    /\ started # "no"
    /\ stop' = TRUE
    /\ Goto(k, "closeWake")
    /\ UNCHANGED <<now, cached, lock, wake, started, locals, pacing, lazily>>

CloseWake_Bug(k) ==             \* the wake event is forgotten
    /\ pc[k] = "closeWake"
    /\ Goto(k, "join")
    /\ UNCHANGED <<now, shared, started, locals, pacing, lazily>>

CloseWake(k) ==
    /\ pc[k] = "closeWake"
    /\ wake' = TRUE
    /\ Goto(k, "join")
    /\ UNCHANGED <<now, cached, lock, stop, started, locals, pacing, lazily>>

(* No thread to join, or it has ended; then the sockets are released. *)
Joined(k) ==
    /\ pc[k] = "join"
    /\ pc[Bg] \in {"unstarted", "done"}
    /\ Goto(k, "closed")
    /\ UNCHANGED <<now, shared, started, locals, pacing, lazily>>

(* join(timeout=5) gives up.  The refresher outlasts five seconds only      *)
(* where it waits for the network or for another thread's fetch.            *)
JoinTimeout(k) ==
    /\ pc[k] = "join"
    /\ pc[Bg] \in {"acquire", "fetch"}
    /\ Goto(k, "closed")
    /\ UNCHANGED <<now, shared, started, locals, pacing, lazily>>

-----------------------------------------------------------------------------
Tick ==
    /\ now < MaxTime \/ timer > 0
    /\ now' = Smaller(now + 1, MaxTime)
    /\ timer' = Larger(timer - 1, 0)
    /\ UNCHANGED <<shared, started, pc, locals, delay, lazily>>

Start == StartFetched \/ StartDeferred \/ StartRejected

Fetching(t) ==
    \/ ReadIssued(t) \/ ReadExpires(t) \/ Snapshot(t)
    \/ AcquireToFetch(t) \/ AcquireAndSkip(t) \/ FetchStore(t) \/ FetchFail(t)

Calling(c) ==
    \/ Begin(c) \/ Catch(c) \/ Format(c) \/ Return(c) \/ Unauthorized(c) \/ Nudge(c)

Refreshing ==
    \/ BgLoop \/ BgSchedule \/ BgArm \/ BgWoken \/ BgTimedOut \/ BgClear
    \/ BgPauseOver \/ BgRetry \/ BgFailed \/ BgBackoffOver

Closing(k) == CloseStop(k) \/ CloseWake(k) \/ Joined(k) \/ JoinTimeout(k)

Next ==
    \/ Start
    \/ \E t \in Workers : Fetching(t)
    \/ \E c \in Callers : Calling(c)
    \/ Refreshing
    \/ \E k \in Closers : Closing(k)
    \/ Tick

Spec == Init /\ [][Next]_vars

(* Every thread that is not blocked runs; a thread that waits for           *)
(* _token_lock gets it eventually if it is released again and again (the    *)
(* lock itself promises no order); time passes.  Nothing obliges a caller   *)
(* to start a request, nor anyone to call close().                          *)
RefresherFairness ==
    /\ WF_vars(Refreshing)
    /\ WF_vars(ReadIssued(Bg) \/ ReadExpires(Bg) \/ Snapshot(Bg))
    /\ SF_vars(AcquireToFetch(Bg) \/ AcquireAndSkip(Bg))

Fairness ==
    /\ RefresherFairness
    /\ \A t \in Workers : WF_vars(FetchStore(t) \/ FetchFail(t))
    /\ \A c \in Callers : WF_vars(Catch(c) \/ Format(c) \/ Nudge(c))
    /\ \A k \in Closers : WF_vars(CloseWake(k) \/ Joined(k) \/ JoinTimeout(k))
    /\ WF_vars(Tick)

FairSpec == Spec /\ Fairness

(* Besides, the server does not reject the refresher's fetches for ever. *)
ServerRecovers == SF_vars(FetchStore(Bg))

RecoveringSpec == FairSpec /\ ServerRecovers

-----------------------------------------------------------------------------
Stages == {"unstarted", "idle", "issued", "expires", "snapshot", "acquire",
           "fetch", "catch", "format", "sending", "raised", "denied", "nudge",
           "loop", "schedule", "arm", "sleeping", "woken", "timedOut", "retry",
           "failed", "backoff", "pause", "done", "closeWake", "join", "closed"}

(* The attributes and locals hold values of their types. *)
TypeOK ==
    /\ now \in 0 .. MaxTime
    /\ cached \in Token
    /\ lock \in Workers \cup {NoThread}
    /\ stop \in BOOLEAN /\ wake \in BOOLEAN
    /\ started \in {"no", "yes", "failed"}
    /\ pc \in [Threads -> Stages]
    /\ op \in [Callers -> {"get", "force"}]
    /\ prev \in [Workers -> Nat]
    /\ issued \in [Workers -> Int]
    /\ timer \in Nat
    /\ delay \in 0 .. MaxDelay
    /\ used \in [Callers -> Nat]
    /\ begun \in [Callers -> Nat]
    /\ lazily \in BOOLEAN

(* At most one fetch is in flight, and it is the lock holder's; the token   *)
(* it will replace is still the one its thread snapshotted, so nobody       *)
(* changed the cached token during the network call.                        *)
FetchUnderLock ==
    \A t \in Workers :
        /\ pc[t] = "fetch" <=> lock = t
        /\ pc[t] = "fetch" => prev[t] = cached.id

(* Once start() is over, a token is replaced only by a worker that had seen *)
(* exactly that token: two threads that saw the same token replace it once  *)
(* between them (the thundering-herd guard).                                *)
NoBlindOverwrite ==
    [][started # "no" /\ cached' # cached
         => \E t \in Workers : prev[t] = cached.id /\ lock = t]_vars

(* A request never carries a token older than the one its thread could have *)
(* used when it called get_auth_token, and with well-formed tokens the call *)
(* raises only when there was none yet: a failed refresh falls back on the  *)
(* cached token and never loses it.                                         *)
TokenNeverLost ==
    \A c \in Callers :
        /\ pc[c] = "sending" => begun[c] <= used[c] /\ used[c] # 0
        /\ pc[c] \in {"raised", "denied"} => begun[c] = 0

(* The two reads of the validity check may take issued_at from one token    *)
(* and expires_at from its replacement, yet the answer "valid" is always    *)
(* true of the token that is cached when it is given, as long as the skew   *)
(* between the server's clock and the local one does not jump back.         *)
TornReadIsSafe ==
    [][\A t \in Workers :
          pc[t] = "expires" /\ pc'[t] \in {"loop", "format"} => Valid(cached)]_vars

(* close() sets the stop event before the wake event: once it has set both, *)
(* the refresher is on its way out or will be woken, and never sleeps out   *)
(* its timer.                                                               *)
StopNotMissed ==
    (\E k \in Closers : pc[k] \in {"join", "closed"})
        => /\ stop
           /\ pc[Bg] \in {"schedule", "arm", "sleeping"} => wake

(* The refresher never sleeps past the half-life of the cached token (or    *)
(* the pacing floor) although force_refresh_token replaces the token while  *)
(* it sleeps.  Tokens stored by get_auth_token are left out: that path sets *)
(* no wake event, and its late snapshot lets it replace a fresh token.      *)
NeverOversleeps ==
    pc[Bg] = "sleeping" /\ ~wake /\ cached.ok /\ ~lazily
    /\ (\A c \in Callers : pc[c] # "nudge")
        => timer <= Larger(MinPause, WakeTime(cached.iss, cached.exp) - now)

(* Whatever goes wrong in an iteration, malformed token data included, the  *)
(* refresher thread ends only because close() asked it to.                  *)
RefresherSurvives == pc[Bg] = "done" => stop

(* After close() the refresher stops and every close() returns, whatever    *)
(* the refresher was waiting for and although close() joins it.             *)
CloseTerminates ==
    /\ stop ~> pc[Bg] \in {"unstarted", "done"}
    /\ \A k \in Closers : pc[k] = "closeWake" ~> pc[k] = "closed"

(* Transient failures never strand the client: as long as the service is    *)
(* open, the absence of a token and a token past its half-life are both     *)
(* temporary, however many attempts fail first.  Malformed tokens are left  *)
(* to MalformedTokenReplaced, below.                                        *)
StaleTokenReplaced ==
    \A i \in 0 .. MaxVersion - 1 :
        started = "yes" /\ cached.id = i /\ ~IsMalformed(cached) /\ ~Valid(cached)
            ~> cached.id # i \/ stop

(* What the service does, thread by thread and read by read, is what        *)
(* TokenContract promises: the caller's phase is its place in the code.     *)
Phase(c) ==
    CASE pc[c] = "sending" -> "holding"
      [] pc[c] \in {"raised", "denied"} -> "refused"
      [] pc[c] = "nudge" -> "refreshed"
      [] pc[c] = "idle" -> "idle"
      [] OTHER -> IF op[c] = "force" THEN "refreshing" ELSE "asking"

Promise ==
    INSTANCE TokenContract WITH
        version <- cached.id,
        usable  <- cached.ok,
        given   <- used,
        phase   <- [c \in Callers |-> Phase(c)]

(* Callers get the token that is stored when get_auth_token returns, are    *)
(* refused only if it is missing or unusable, and come back from            *)
(* force_refresh_token only once the token they saw rejected has been       *)
(* replaced, whoever replaced it.                                           *)
KeepsPromise == Promise!Spec

-----------------------------------------------------------------------------
(* What the documentation says and the code does not do.                    *)

(* A caller fetches only if the token it saw rejected is still the cached   *)
(* one.  The docstring of _fetch_and_store_token says that the fetch is     *)
(* skipped if another thread replaced the token the caller observed before  *)
(* deciding a fetch was needed; force_refresh_token takes its snapshot when *)
(* it is called, after the 401.                                             *)
HerdCollapses ==
    \A c \in Callers :
        pc[c] = "fetch" /\ op[c] = "force" => used[c] = cached.id

(* A token response without the token fields does not strand the client.    *)
(* The class docstring promises retries without end because giving up would *)
(* strand it; a body that parses is cached, and every later validity check  *)
(* raises before it could fetch.                                            *)
MalformedTokenReplaced ==
    IsMalformed(cached) /\ cached.id < MaxVersion
        ~> ~IsMalformed(cached) \/ stop
=============================================================================
