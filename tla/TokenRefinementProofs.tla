----------------------- MODULE TokenRefinementProofs -----------------------
(***************************************************************************)
(* TokenService implements TokenContract: the proof that every step of the *)
(* service is a step its callers were promised, or one they cannot see.    *)
(***************************************************************************)
EXTENDS TokenServiceProofs

(* Where a caller can be, and what its locals then hold: a request carries  *)
(* a token only once get_auth_token has returned, and whoever is about to   *)
(* return from force_refresh_token has seen a newer token than its own.     *)
Getting == {"idle", "issued", "expires", "catch", "format", "sending",
            "raised", "denied"}
Either == {"snapshot", "acquire", "fetch"}

CallerInv(c) ==
    /\ pc[c] \in Getting \cup Either \cup {"nudge"}
    /\ pc[c] \in Getting => op[c] = "get"
    /\ op[c] = "get" /\ pc[c] # "sending" => used[c] = 0
    /\ used[c] <= cached.id
    /\ pc[c] \in {"acquire", "fetch"} => used[c] <= prev[c] /\ prev[c] <= cached.id
    /\ pc[c] = "nudge" => op[c] = "force" /\ used[c] < cached.id

PromiseInv ==
    /\ cached.id = 0 => ~cached.ok
    /\ \A c \in Callers : CallerInv(c)

(* Nobody has a token before start(). *)
LEMMA PromiseInit == Init => PromiseInv
  BY ThreadsDistinct
  DEF Init, PromiseInv, CallerInv, Getting, Either, NoToken, Threads, Workers

(* A step that leaves a caller's place, operation, token and snapshot alone *)
(* and stores no older token leaves its part of the invariant alone.        *)
LEMMA CallerUnmoved ==
    ASSUME NEW c \in Callers, TypeOK, CallerInv(c), cached'.id \in Nat,
           pc'[c] = pc[c], op'[c] = op[c], used'[c] = used[c], prev'[c] = prev[c],
           cached.id <= cached'.id
    PROVE  CallerInv(c)'
  BY DEF CallerInv, TypeOK, Token, Workers

(* Every step keeps the invariant. *)
LEMMA PromiseStep ==
    ASSUME TypeOK, LockInv, PromiseInv, [Next]_vars
    PROVE  PromiseInv'
  <1> USE ThreadsDistinct DEF TypeOK, Goto, Workers, Threads
  <1>0. /\ \A c \in Callers : c # Bg
        /\ cached.id \in Nat
        /\ \A tok \in NewTokens : tok.id = cached.id + 1
    BY NewTokensTyped DEF Token
  <1>1. cached' = cached \/ cached' \in NewTokens
    BY DEF Next, vars, Start, StartFetched, StartDeferred, StartRejected,
           Fetching, ReadIssued, ReadExpires, Snapshot, AcquireToFetch,
           AcquireAndSkip, FetchStore, FetchFail, Calling, Begin, Catch, Format,
           Return, Unauthorized, Nudge, Refreshing, BgLoop, BgSchedule, BgArm,
           BgWoken, BgTimedOut, BgClear, BgPauseOver, BgRetry, BgFailed,
           BgBackoffOver, Closing, CloseStop, CloseWake, Joined, JoinTimeout, Tick,
           shared
  <1>2. /\ cached'.id \in Nat /\ cached.id <= cached'.id
        /\ cached'.id = 0 => ~cached'.ok
    BY <1>0, <1>1 DEF PromiseInv
  <1>3. SUFFICES ASSUME NEW c \in Callers PROVE CallerInv(c)'
    BY <1>2 DEF PromiseInv
  <1>4. CallerInv(c)
    BY DEF PromiseInv
  <1>5. CASE /\ pc'[c] = pc[c] /\ op'[c] = op[c]
             /\ used'[c] = used[c] /\ prev'[c] = prev[c]
    BY <1>2, <1>4, <1>5, CallerUnmoved
  <1>6. CASE Fetching(c)
    <2> USE <1>0, <1>2, <1>4 DEF CallerInv, Getting, Either
    <2>1. CASE ReadIssued(c) \/ ReadExpires(c)
      BY <2>1 DEF ReadIssued, ReadExpires, Raise, shared
    <2>2. CASE Snapshot(c)
      BY <2>2 DEF Snapshot, shared
    <2>3. CASE AcquireToFetch(c)
      BY <2>3 DEF AcquireToFetch, locals
    <2>4. CASE AcquireAndSkip(c)
      BY <2>4 DEF AcquireAndSkip, Fetched, Doing, shared
    <2>5. CASE FetchStore(c)
      BY <2>5 DEF FetchStore, Fetched, Doing
    <2>6. CASE FetchFail(c)
      BY <2>6 DEF FetchFail, Leave, Doing
    <2> QED
      BY <1>6, <2>1, <2>2, <2>3, <2>4, <2>5, <2>6 DEF Fetching
  <1>7. CASE Calling(c)
    BY <1>0, <1>2, <1>4, <1>7
    DEF Calling, Begin, Catch, Format, Return, Unauthorized, Nudge, Leave,
        CallerInv, Getting, Either, shared, locals
  <1>8. ASSUME ~Fetching(c), ~Calling(c)
        PROVE  /\ pc'[c] = pc[c] /\ op'[c] = op[c]
               /\ used'[c] = used[c] /\ prev'[c] = prev[c]
    <2> USE <1>0, <1>8
    <2>1. CASE Start
      BY <2>1 DEF Start, StartFetched, StartDeferred, StartRejected,
                  StartRefresher, locals
    <2>2. ASSUME NEW t \in Workers, Fetching(t)
          PROVE  /\ pc'[c] = pc[c] /\ op'[c] = op[c]
                 /\ used'[c] = used[c] /\ prev'[c] = prev[c]
      <3>1. t # c
        BY <2>2
      <3>2. CASE ReadIssued(t) \/ ReadExpires(t) \/ Snapshot(t)
        BY <3>1, <3>2 DEF ReadIssued, ReadExpires, Snapshot, Raise
      <3>3. CASE AcquireToFetch(t) \/ AcquireAndSkip(t)
        BY <3>1, <3>3 DEF AcquireToFetch, AcquireAndSkip, Fetched, locals
      <3>4. CASE FetchStore(t) \/ FetchFail(t)
        BY <3>1, <3>4 DEF FetchStore, FetchFail, Fetched, Leave, Doing
      <3> QED
        BY <2>2, <3>2, <3>3, <3>4 DEF Fetching
    <2>3. ASSUME NEW d \in Callers, Calling(d)
          PROVE  /\ pc'[c] = pc[c] /\ op'[c] = op[c]
                 /\ used'[c] = used[c] /\ prev'[c] = prev[c]
      BY <2>3 DEF Calling, Begin, Catch, Format, Return, Unauthorized, Nudge,
                  Leave, locals
    <2>4. CASE Refreshing
      BY <2>4 DEF Refreshing, BgLoop, BgSchedule, BgArm, BgWoken, BgTimedOut,
                  BgClear, BgPauseOver, BgRetry, BgFailed, BgBackoffOver, Raise, locals
    <2>5. ASSUME NEW k \in Closers, Closing(k)
          PROVE  /\ pc'[c] = pc[c] /\ op'[c] = op[c]
                 /\ used'[c] = used[c] /\ prev'[c] = prev[c]
      BY <2>5 DEF Closing, CloseStop, CloseWake, Joined, JoinTimeout, locals
    <2>6. CASE Tick \/ UNCHANGED vars
      BY <2>6 DEF Tick, vars, locals
    <2> QED
      BY <2>1, <2>2, <2>3, <2>4, <2>5, <2>6 DEF Next
  <1> QED
    BY <1>5, <1>6, <1>7, <1>8

-----------------------------------------------------------------------------
(* The constructor's state is the first one the contract allows. *)
LEMMA PromiseInitially == Init => Promise!Init
  BY ThreadsDistinct
  DEF Init, Promise!Init, Phase, NoToken, Threads, Workers

(* A step in which only the caller c moves, to another phase. *)
LEMMA PhaseMoves ==
    ASSUME TypeOK, NEW c \in Callers, NEW where,
           \A d \in Callers \ {c} : pc'[d] = pc[d] /\ op'[d] = op[d],
           Phase(c)' = where
    PROVE  [d \in Callers |-> Phase(d)]'
              = [[d \in Callers |-> Phase(d)] EXCEPT ![c] = where]
  BY DEF Phase

(* A step in which no caller changes its phase. *)
LEMMA PhasesStay ==
    ASSUME \A c \in Callers : Phase(c)' = Phase(c)
    PROVE  [c \in Callers |-> Phase(c)]' = [c \in Callers |-> Phase(c)]
  OBVIOUS

(* A fetch that stores a token stores the next one. *)
LEMMA StoresNext ==
    ASSUME TypeOK, cached.id < MaxVersion, cached' \in NewTokens
    PROVE  Promise!StoreNext
  BY NewTokensTyped DEF Promise!StoreNext, Token

(* Every step is a step of the contract, or leaves its variables alone. *)
LEMMA PromiseSimulated ==
    ASSUME TypeOK, PromiseInv, [Next]_vars
    PROVE  [Promise!Next]_<<Promise!tokens, Promise!callers>>
  <1> DEFINE Kept == UNCHANGED <<Promise!tokens, Promise!callers>>
             Simulated == Promise!Next \/ Kept
  <1> SUFFICES Simulated
    BY DEF Promise!tokens, Promise!callers
  <1> USE ThreadsDistinct DEF TypeOK, Goto, Workers, Threads
  <1>0. \A c \in Callers : c # Bg /\ CallerInv(c)
    BY DEF PromiseInv
  <1>1. ASSUME cached' = cached, used' = used,
               \A c \in Callers : Phase(c)' = Phase(c)
        PROVE  Kept
    BY <1>1, PhasesStay DEF Promise!tokens, Promise!callers
  <1>2. ASSUME cached.id < MaxVersion, cached' \in NewTokens, used' = used,
               \A c \in Callers : Phase(c)' = Phase(c)
        PROVE  Promise!Next
    BY <1>2, PhasesStay, StoresNext DEF Promise!Next, Promise!Store, Promise!callers
  <1>3. CASE Start
    BY <1>0, <1>1, <1>2, <1>3 DEF Start, StartFetched, StartDeferred, StartRejected,
                            StartRefresher, Phase, shared, locals
  <1>4. CASE Fetching(Bg)
    <2>1. CASE FetchStore(Bg)
      BY <1>0, <1>2, <2>1 DEF FetchStore, Fetched, Phase
    <2>2. CASE ReadIssued(Bg) \/ ReadExpires(Bg) \/ Snapshot(Bg)
      BY <1>0, <1>1, <2>2 DEF ReadIssued, ReadExpires, Snapshot, Raise, Phase, shared
    <2>3. CASE AcquireToFetch(Bg) \/ AcquireAndSkip(Bg) \/ FetchFail(Bg)
      BY <1>0, <1>1, <2>3 DEF AcquireToFetch, AcquireAndSkip, Fetched, FetchFail,
                              Doing, Leave, Phase, shared, locals
    <2> QED
      BY <1>4, <2>1, <2>2, <2>3 DEF Fetching
  <1>5. ASSUME NEW c \in Callers, Fetching(c)
        PROVE  Simulated
    <2>0. c # Bg /\ CallerInv(c)
      BY <1>0
    <2>1. CASE ReadIssued(c) \/ ReadExpires(c)
      <3>1. CASE pc'[c] = "raised"
        <4>1. Phase(c) = "asking" /\ Phase(c)' = "refused"
          BY <2>0, <2>1, <3>1 DEF ReadIssued, ReadExpires, Raise, Phase, CallerInv, Getting
        <4>2. ~cached.ok /\ UNCHANGED <<cached, used>>
          BY <2>0, <2>1, <3>1 DEF ReadIssued, ReadExpires, Raise, IsMalformed, shared
        <4>3. Promise!Refuse(c)
          BY <2>0, <2>1, <4>1, <4>2, PhaseMoves
          DEF ReadIssued, ReadExpires, Raise, Promise!Refuse, Promise!Goto, Promise!tokens
        <4> QED
          BY <4>3 DEF Promise!Next
      <3>2. CASE pc'[c] # "raised"
        BY <1>1, <2>0, <2>1, <3>2
        DEF ReadIssued, ReadExpires, Raise, Phase, CallerInv, Getting, shared
      <3> QED
        BY <3>1, <3>2
    <2>2. CASE Snapshot(c) \/ AcquireToFetch(c)
      BY <1>1, <2>0, <2>2 DEF Snapshot, AcquireToFetch, Phase, shared, locals
    <2>3. CASE AcquireAndSkip(c)
      <3>1. CASE op[c] = "get"
        BY <1>1, <2>0, <2>3, <3>1 DEF AcquireAndSkip, Fetched, Doing, Phase, shared
      <3>2. CASE op[c] = "force"
        <4>1. Phase(c) = "refreshing" /\ Phase(c)' = "refreshed"
          BY <2>0, <2>3, <3>2 DEF AcquireAndSkip, Fetched, Doing, Phase
        <4>2. cached.id > used[c] /\ UNCHANGED <<cached, used>>
          BY <2>0, <2>3 DEF AcquireAndSkip, CallerInv, Token, shared
        <4>3. Promise!Refreshed(c)
          BY <2>0, <2>3, <4>1, <4>2, PhaseMoves
          DEF AcquireAndSkip, Fetched, Promise!Refreshed, Promise!Goto, Promise!tokens
        <4> QED
          BY <4>3 DEF Promise!Next
      <3> QED
        BY <3>1, <3>2
    <2>4. CASE FetchStore(c)
      <3>1. CASE op[c] = "get"
        BY <1>2, <2>0, <2>4, <3>1 DEF FetchStore, Fetched, Doing, Phase
      <3>2. CASE op[c] = "force"
        <4>1. Phase(c) = "refreshing" /\ Phase(c)' = "refreshed"
          BY <2>0, <2>4, <3>2 DEF FetchStore, Fetched, Doing, Phase
        <4>2. Promise!StoreNext /\ UNCHANGED used
          BY <2>4, StoresNext DEF FetchStore
        <4>3. Promise!StoreAndRefreshed(c)
          BY <2>0, <2>4, <4>1, <4>2, PhaseMoves
          DEF FetchStore, Fetched, Promise!StoreAndRefreshed, Promise!Goto
        <4> QED
          BY <4>3 DEF Promise!Next
      <3> QED
        BY <3>1, <3>2
    <2>5. CASE FetchFail(c)
      <3>1. CASE op[c] = "get"
        BY <1>1, <2>0, <2>5, <3>1 DEF FetchFail, Doing, Phase
      <3>2. CASE op[c] = "force"
        <4>1. Phase(c) = "refreshing" /\ Phase(c)' = "idle"
          BY <2>0, <2>5, <3>2 DEF FetchFail, Doing, Leave, Phase
        <4>2. Promise!Leave(c)
          BY <2>0, <2>5, <3>2, <4>1, PhaseMoves
          DEF FetchFail, Doing, Leave, Promise!Leave, Promise!Goto, Promise!tokens
        <4> QED
          BY <4>2 DEF Promise!Next
      <3> QED
        BY <3>1, <3>2
    <2> QED
      BY <1>5, <2>1, <2>2, <2>3, <2>4, <2>5 DEF Fetching
  <1>6. ASSUME NEW c \in Callers, Calling(c)
        PROVE  Simulated
    <2>0. c # Bg /\ CallerInv(c) /\ (cached.id = 0 => ~cached.ok)
      BY <1>0 DEF PromiseInv
    <2>1. CASE Begin(c)
      <3>1. Phase(c) = "idle" /\ Phase(c)' = "asking"
        BY <2>0, <2>1 DEF Begin, Phase, CallerInv, Getting
      <3>2. Promise!Ask(c)
        BY <2>0, <2>1, <3>1, PhaseMoves
        DEF Begin, shared, Promise!Ask, Promise!Goto, Promise!tokens
      <3> QED
        BY <3>2 DEF Promise!Next
    <2>2. CASE Catch(c)
      <3>1. CASE cached.id = 0
        <4>1. Phase(c) = "asking" /\ Phase(c)' = "refused"
          BY <2>0, <2>2, <3>1 DEF Catch, Phase, CallerInv, Getting
        <4>2. Promise!Refuse(c)
          BY <2>0, <2>2, <3>1, <4>1, PhaseMoves
          DEF Catch, shared, locals, Promise!Refuse, Promise!Goto, Promise!tokens
        <4> QED
          BY <4>2 DEF Promise!Next
      <3>2. CASE cached.id # 0
        BY <1>1, <2>0, <2>2, <3>2 DEF Catch, Phase, CallerInv, Getting, shared, locals
      <3> QED
        BY <3>1, <3>2
    <2>3. CASE Format(c)
      <3>0. Phase(c) = "asking"
        BY <2>0, <2>3 DEF Format, Phase, CallerInv, Getting
      <3>1. CASE cached.ok
        <4>1. Phase(c)' = "holding"
          BY <2>0, <2>3, <3>1 DEF Format, Phase
        <4>2. Promise!Give(c)
          BY <2>0, <2>3, <3>0, <3>1, <4>1, PhaseMoves
          DEF Format, shared, Promise!Give, Promise!Goto, Promise!tokens
        <4> QED
          BY <4>2 DEF Promise!Next
      <3>2. CASE ~cached.ok
        <4>1. Phase(c)' = "refused"
          BY <2>0, <2>3, <3>2 DEF Format, Phase
        <4>2. Promise!Refuse(c)
          BY <2>0, <2>3, <3>0, <3>2, <4>1, PhaseMoves
          DEF Format, shared, Promise!Refuse, Promise!Goto, Promise!tokens
        <4> QED
          BY <4>2 DEF Promise!Next
      <3> QED
        BY <3>1, <3>2
    <2>4. CASE Return(c) \/ Nudge(c)
      <3>1. Phase(c) \in {"holding", "refused", "refreshed"} /\ Phase(c)' = "idle"
        BY <2>0, <2>4 DEF Return, Nudge, Leave, Phase
      <3>2. Promise!Leave(c)
        BY <2>0, <2>4, <3>1, PhaseMoves
        DEF Return, Nudge, Leave, shared, Promise!Leave, Promise!Goto, Promise!tokens
      <3> QED
        BY <3>2 DEF Promise!Next
    <2>5. CASE Unauthorized(c)
      <3>1. Phase(c) \in {"holding", "refused"} /\ Phase(c)' = "refreshing"
        BY <2>0, <2>5 DEF Unauthorized, Phase
      <3>2. Promise!Refresh(c)
        BY <2>0, <2>5, <3>1, PhaseMoves
        DEF Unauthorized, shared, Promise!Refresh, Promise!Goto, Promise!tokens
      <3> QED
        BY <3>2 DEF Promise!Next
    <2> QED
      BY <1>6, <2>1, <2>2, <2>3, <2>4, <2>5 DEF Calling
  <1>7. CASE Refreshing
    BY <1>0, <1>1, <1>7
    DEF Refreshing, BgLoop, BgSchedule, BgArm, BgWoken, BgTimedOut, BgClear,
        BgPauseOver, BgRetry, BgFailed, BgBackoffOver, Raise, Phase, shared, locals
  <1>8. ASSUME NEW k \in Closers, Closing(k)
        PROVE  Simulated
    BY <1>0, <1>1, <1>8
    DEF Closing, CloseStop, CloseWake, Joined, JoinTimeout, Phase, shared, locals
  <1>9. CASE Tick \/ UNCHANGED vars
    BY <1>1, <1>9 DEF Tick, Phase, vars, shared, locals
  <1> QED
    BY <1>3, <1>4, <1>5, <1>6, <1>7, <1>8, <1>9 DEF Next

(* For any number of threads and whatever the server does, the callers get  *)
(* what TokenContract promises: in particular force_refresh_token returns   *)
(* normally only when the rejected token has been replaced.                 *)
THEOREM PromiseKept == Spec => KeepsPromise
  <1>1. [Next]_vars /\ TypeOK /\ PromiseInv
          => [Promise!Next]_<<Promise!tokens, Promise!callers>>
    BY PromiseSimulated
  <1> QED
    BY <1>1, PromiseInitially, TypeCorrect, LockInit, LockStep, PromiseInit,
       PromiseStep, PTL DEF Spec, KeepsPromise, Promise!Spec
=============================================================================
