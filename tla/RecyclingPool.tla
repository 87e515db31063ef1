--------------------------- MODULE RecyclingPool ---------------------------
(***************************************************************************)
(* One connection pool of a RecyclingHTTPAdapter                           *)
(* (common/http_client_modules/recycling_http_adapter.py): the requests    *)
(* that check connections out and in, the sweeper thread that closes idle  *)
(* connections past keep_alive_seconds, and close().                       *)
(*                                                                         *)
(* urllib3's pool (a LIFO queue of connections and None placeholders, one  *)
(* per free slot) is external: GetPooled, Overflow, Finish, Break, Detach  *)
(* and Drain say what the adapter relies on.  Time is kept as ages, which  *)
(* stop growing once they exceed every limit the code compares them with.  *)
(* The sweeper is punctual: a tick waits for a sweep that is due or under  *)
(* way, since a sweep makes no blocking call.                              *)
(*                                                                         *)
(* A definition whose name ends in _Bug is a variant of the one after it   *)
(* with a plausible mistake; it is no part of the specification.           *)
(***************************************************************************)
EXTENDS Integers, SequencesExt

CONSTANTS
    Requests,       \* threads issuing requests through the pool
    Conns,          \* connection objects; a dead one's identity is reused
    NoConn,         \* None: a slot with no connection in it
    Size,           \* pool_size
    Block,          \* pool_block
    KeepAlive,      \* keep_alive_seconds
    Interval,       \* _sweep_interval_seconds
    MaxDrained      \* bound: no request begins once a sweep holds that many

ASSUME PoolConstants ==
    /\ NoConn \notin Conns
    /\ Size \in Nat \ {0} /\ KeepAlive \in Nat \ {0} /\ Interval \in Nat \ {0}
    /\ Block \in BOOLEAN /\ MaxDrained \in Nat

AgeCap == KeepAlive + Interval + 1      \* bound: ages stop growing here
Ages == 0 .. AgeCap
Untracked == AgeCap + 1                 \* no entry in _conn_opened_at

VARIABLES
    pool,       \* the LIFO queue, its top at the end
    detached,   \* self.pool is None: the pool was closed
    stage,      \* where each request is: "idle", "waiting" or "using"
    held,       \* the connection a request is using
    live,       \* the connections whose sock is not None
    tracked,    \* time since _conn_opened_at[c], or Untracked
    sweep,      \* the sweeper: "sleep", "drain", "restore" or "ended"
    items,      \* what the sweeper has drained and not yet put back
    untilSweep, \* time to the next sweep
    closing,    \* close(): "open", "stopping", "clearing", "draining", "closed"
    age,        \* history: time since the socket was connected
    idle        \* history: time since the connection was last used

conns == <<held, live, tracked, age, idle>>
sweeper == <<sweep, items, untilSweep>>
vars == <<pool, detached, stage, closing, conns, sweeper>>

-----------------------------------------------------------------------------
Init ==
    /\ pool = [i \in 1 .. Size |-> NoConn]
    /\ detached = FALSE
    /\ stage = [r \in Requests |-> "idle"]
    /\ held = [r \in Requests |-> NoConn]
    /\ live = {}
    /\ tracked = [c \in Conns |-> Untracked]
    /\ sweep = "sleep" /\ items = <<>> /\ untilSweep = Interval
    /\ closing = "open"
    /\ age = [c \in Conns |-> 0] /\ idle = [c \in Conns |-> 0]

InUse == {held[r] : r \in Requests} \ {NoConn}
Referenced == (InUse \cup Range(pool) \cup Range(items)) \ {NoConn}

(* put(item, block=False), when there is room *)
Full == Len(pool) >= Size

-----------------------------------------------------------------------------
(* Requests                                                                 *)

(* urlopen takes self.pool; a pool already closed raises ClosedPoolError    *)
(* and the request is over.  The bound is for pool_block=False: requests    *)
(* that overflow refill the queue while the sweeper drains it, and its loop *)
(* has no limit of its own.                                                 *)
Ask(r) ==
    /\ stage[r] = "idle"
    /\ ~detached
    /\ Len(items) < MaxDrained
    /\ stage' = [stage EXCEPT ![r] = "waiting"]
    /\ UNCHANGED <<pool, detached, closing, conns, sweeper>>

CheckedOut(r, c) ==
    /\ stage' = [stage EXCEPT ![r] = "using"]
    /\ held' = [held EXCEPT ![r] = c]
    /\ idle' = [idle EXCEPT ![c] = 0]

(* conn.close(): the object stays, its socket is gone. *)
Disconnect(c) ==
    /\ live' = live \ {c}
    /\ age' = [age EXCEPT ![c] = 0]

(* A new connection object: no socket yet, its age runs from now. *)
Mint(r) ==
    \E c \in Conns \ Referenced :
        /\ CheckedOut(r, c)
        /\ Disconnect(c)
        /\ tracked' = [tracked EXCEPT ![c] = 0]

(* _get_conn: a connection without a socket (urllib3 closes one that it     *)
(* finds dropped) counts as new; one past keep_alive_seconds is closed.     *)
Recycle_Bug(c, dropped) ==      \* one second too late
    IF c \notin live \/ dropped \/ (tracked[c] # Untracked /\ tracked[c] > KeepAlive + 1)
      THEN Disconnect(c) /\ tracked' = [tracked EXCEPT ![c] = 0]
      ELSE UNCHANGED <<live, age, tracked>>

Recycle(c, dropped) ==
    IF c \notin live \/ dropped \/ (tracked[c] # Untracked /\ tracked[c] > KeepAlive)
      THEN Disconnect(c) /\ tracked' = [tracked EXCEPT ![c] = 0]
      ELSE UNCHANGED <<live, age, tracked>>

(* The queue has an entry, whether or not the pool was closed meanwhile. *)
GetPooled(r) ==
    /\ stage[r] = "waiting"
    /\ pool # <<>>
    /\ pool' = Front(pool)
    /\ \/ Last(pool) = NoConn /\ Mint(r)
       \/ /\ Last(pool) # NoConn
          /\ CheckedOut(r, Last(pool))
          /\ \E dropped \in BOOLEAN : Recycle(Last(pool), dropped)
    /\ UNCHANGED <<detached, closing, sweeper>>

(* pool_block=False: an empty queue does not make the request wait. *)
Overflow(r) ==
    /\ stage[r] = "waiting"
    /\ pool = <<>> /\ ~Block
    /\ Mint(r)
    /\ UNCHANGED <<pool, detached, closing, sweeper>>

Connect(r) ==
    /\ stage[r] = "using" /\ held[r] \notin live
    /\ live' = live \cup {held[r]}
    /\ UNCHANGED <<pool, detached, stage, closing, held, tracked, age, idle, sweeper>>

(* Closed and no longer referenced: the weak dictionary drops its entry. *)
Discard(c) ==
    /\ Disconnect(c)
    /\ tracked' = [tracked EXCEPT ![c] = Untracked]

Released(r) ==
    /\ stage' = [stage EXCEPT ![r] = "idle"]
    /\ held' = [held EXCEPT ![r] = NoConn]

(* The response was read: _put_conn, which closes the connection instead    *)
(* when the pool is closed or full.                                         *)
Finish(r) ==
    /\ stage[r] = "using" /\ held[r] \in live
    /\ Released(r)
    /\ IF detached \/ Full
         THEN Discard(held[r]) /\ UNCHANGED pool
         ELSE pool' = Append(pool, held[r]) /\ UNCHANGED <<live, age, tracked>>
    /\ UNCHANGED <<detached, closing, idle, sweeper>>

(* The request failed: the connection is closed, its slot is returned. *)
Break_Bug(r) ==                 \* the slot of a broken connection is lost
    /\ stage[r] = "using"
    /\ Released(r)
    /\ Discard(held[r])
    /\ UNCHANGED <<pool, detached, closing, idle, sweeper>>

Break(r) ==
    /\ stage[r] = "using"
    /\ Released(r)
    /\ Discard(held[r])
    /\ pool' = IF detached \/ Full THEN pool ELSE Append(pool, NoConn)
    /\ UNCHANGED <<detached, closing, idle, sweeper>>

-----------------------------------------------------------------------------
(* The sweeper: _sweep_loop and _evict_idle_connections                     *)

SweepBegin ==                   \* nothing to do once the pool is closed
    /\ sweep = "sleep" /\ untilSweep = 0 /\ closing = "open"
    /\ sweep' = "drain"
    /\ UNCHANGED <<pool, detached, stage, closing, conns, items, untilSweep>>

SweepDrain_Bug ==               \* walks over a copy of the queue instead
    /\ sweep = "drain" /\ pool # <<>>
    /\ items' = pool
    /\ sweep' = "restore"
    /\ UNCHANGED <<pool, detached, stage, closing, conns, untilSweep>>

SweepDrain ==
    /\ sweep = "drain" /\ pool # <<>>
    /\ items' = Append(items, Last(pool))
    /\ pool' = Front(pool)
    /\ UNCHANGED <<detached, stage, closing, conns, sweep, untilSweep>>

SweepDrained ==
    /\ sweep = "drain" /\ pool = <<>>
    /\ sweep' = "restore"
    /\ UNCHANGED <<pool, detached, stage, closing, conns, items, untilSweep>>

Stale(c) == tracked[c] # Untracked /\ tracked[c] > KeepAlive

(* put of a placeholder, if there is room for it *)
PutSlot == pool' = IF Full THEN pool ELSE Append(pool, NoConn)

Evict_Bug(c) ==                 \* the slot is not freed
    /\ Discard(c)
    /\ UNCHANGED pool

(* The connection is closed, no longer tracked, and its slot freed.  The    *)
(* except branch does the same when close() raised (the sock attribute is   *)
(* cleared first) or the queue was full.                                    *)
Evict(c) ==
    /\ Discard(c)
    /\ PutSlot

SweepItem ==
    /\ sweep = "restore" /\ items # <<>>
    /\ LET c == Head(items) IN
         \/ c = NoConn /\ PutSlot /\ UNCHANGED <<live, age, tracked>>
         \/ c # NoConn /\ (Stale(c) \/ Full) /\ Evict(c)
         \/ /\ c # NoConn /\ ~Stale(c) /\ ~Full
            /\ pool' = Append(pool, c)
            /\ UNCHANGED <<live, age, tracked>>
    /\ items' = Tail(items)
    /\ UNCHANGED <<detached, stage, closing, held, idle, sweep, untilSweep>>

SweepEnd_Bug ==                 \* sweeps only once per keep-alive period
    /\ sweep = "restore" /\ items = <<>>
    /\ sweep' = "sleep" /\ untilSweep' = KeepAlive + 1
    /\ UNCHANGED <<pool, detached, stage, closing, conns, items>>

SweepEnd ==
    /\ sweep = "restore" /\ items = <<>>
    /\ sweep' = "sleep" /\ untilSweep' = Interval
    /\ UNCHANGED <<pool, detached, stage, closing, conns, items>>

(* The stop event interrupts the wait between sweeps. *)
SweepStops ==
    /\ sweep = "sleep" /\ closing # "open"
    /\ sweep' = "ended"
    /\ UNCHANGED <<pool, detached, stage, closing, conns, items, untilSweep>>

-----------------------------------------------------------------------------
(* close(): RecyclingHTTPAdapter.close, then urllib3's pool.close           *)

CloseStop ==
    /\ closing = "open"
    /\ closing' = "stopping"
    /\ UNCHANGED <<pool, detached, stage, conns, sweeper>>

CloseJoin_Bug ==                \* the sweeper is not joined
    /\ closing = "stopping"
    /\ closing' = "draining" /\ detached' = TRUE
    /\ UNCHANGED <<pool, stage, conns, sweeper>>

(* join(timeout=2), which a sweep never exhausts; then self.pool = None. *)
CloseJoin ==
    /\ closing = "stopping" /\ sweep = "ended"
    /\ closing' = "draining" /\ detached' = TRUE
    /\ UNCHANGED <<pool, stage, conns, sweeper>>

CloseDrain ==
    /\ closing = "draining"
    /\ \/ /\ pool # <<>>
          /\ pool' = Front(pool)
          /\ IF Last(pool) = NoConn THEN UNCHANGED <<live, age, tracked>>
                                    ELSE Discard(Last(pool))
          /\ UNCHANGED closing
       \/ pool = <<>> /\ closing' = "closed" /\ UNCHANGED <<pool, live, age, tracked>>
    /\ UNCHANGED <<detached, stage, held, idle, sweeper>>

-----------------------------------------------------------------------------
Older(a) == IF a < AgeCap THEN a + 1 ELSE a

Tick ==
    /\ sweep \in {"sleep", "ended"} /\ (sweep = "sleep" => untilSweep > 0)
    /\ tracked' = [c \in Conns |-> Older(tracked[c])]
    /\ age' = [c \in Conns |-> IF c \in live THEN Older(age[c]) ELSE 0]
    /\ idle' = [c \in Conns |-> IF c \in live \ InUse THEN Older(idle[c]) ELSE 0]
    /\ untilSweep' = IF untilSweep > 0 THEN untilSweep - 1 ELSE 0
    /\ UNCHANGED <<pool, detached, stage, closing, held, live, sweep, items>>

Requesting(r) ==
    \/ Ask(r) \/ GetPooled(r) \/ Overflow(r) \/ Connect(r) \/ Finish(r) \/ Break(r)

Sweeping == SweepBegin \/ SweepDrain \/ SweepDrained \/ SweepItem \/ SweepEnd \/ SweepStops

Closing == CloseStop \/ CloseJoin \/ CloseDrain

Next == (\E r \in Requests : Requesting(r)) \/ Sweeping \/ Closing \/ Tick

Spec == Init /\ [][Next]_vars

(* Requests end (read_timeout_seconds), the sweeper and close() run.  A     *)
(* waiter is woken whenever the queue keeps getting entries; that several   *)
(* waiters share them fairly is queue.Queue's business.                     *)
Fairness ==
    /\ \A r \in Requests : /\ SF_vars(GetPooled(r) \/ Overflow(r))
                           /\ WF_vars(Connect(r) \/ Finish(r) \/ Break(r))
    /\ WF_vars(Sweeping)
    /\ WF_vars(CloseJoin \/ CloseDrain)

FairSpec == Spec /\ Fairness

-----------------------------------------------------------------------------
(* Every variable holds a value of its type; the queue fits its capacity,   *)
(* and what a sweep holds is bounded by the slots and the requests.         *)
TypeOK ==
    /\ pool \in Seq(Conns \cup {NoConn}) /\ Len(pool) <= Size
    /\ items \in Seq(Conns \cup {NoConn})
    /\ Len(items) <= Size + MaxDrained + Cardinality(Requests)
    /\ detached \in BOOLEAN
    /\ stage \in [Requests -> {"idle", "waiting", "using"}]
    /\ held \in [Requests -> Conns \cup {NoConn}]
    /\ live \subseteq Conns
    /\ tracked \in [Conns -> Ages \cup {Untracked}]
    /\ sweep \in {"sleep", "drain", "restore", "ended"}
    /\ untilSweep \in 0 .. Interval
    /\ closing \in {"open", "stopping", "draining", "closed"}
    /\ age \in [Conns -> Ages] /\ idle \in [Conns -> Ages]

Holders == {r \in Requests : stage[r] = "using"}

(* While the pool is open, the sweep and failing requests lose no slot and, *)
(* when requests wait for slots, create none: the placeholders and          *)
(* connections queued, drained or in use always add up to pool_size.        *)
SlotsConserved ==
    ~detached =>
        LET slots == Len(pool) + Len(items) + Cardinality(Holders) IN
        /\ slots >= Size
        /\ Block => slots = Size

(* A connection is in one place: queued once, drained once, or used by one  *)
(* request.  No two requests share a socket, whatever the sweep does.       *)
OneOwner ==
    /\ \A r, s \in Holders : held[r] = held[s] => r = s
    /\ LET queued == pool \o items IN
         /\ \A i, j \in DOMAIN queued : queued[i] = queued[j] /\ i # j => queued[i] = NoConn
         /\ Range(queued) \cap InUse = {}

(* A request never starts on a socket that has been open for longer than    *)
(* keep_alive_seconds.                                                      *)
FreshCheckout ==
    [][\A r \in Requests :
          stage[r] = "waiting" /\ stage'[r] = "using" /\ held'[r] \in live'
            => age[held'[r]] <= KeepAlive]_vars

(* Without any traffic, no socket stays unused in the pool for longer than  *)
(* keep_alive_seconds and one sweep interval: the sweeper alone bounds it.  *)
IdleBounded ==
    closing = "open" =>
        \A c \in (Range(pool) \cup Range(items)) \cap live : idle[c] <= KeepAlive + Interval

(* After close() only requests still in flight own a socket: the sweeper    *)
(* cannot put one back behind close()'s back.                               *)
NothingLeftOpen == closing = "closed" => live \subseteq InUse

(* Until the client is closed, every request that waits for a connection    *)
(* gets one, although the sweep empties the queue again and again.          *)
WaitersServed ==
    \A r \in Requests : stage[r] = "waiting" ~> stage[r] # "waiting" \/ closing # "open"

(* What HttpClientConfig and the README promise of pool_block=True: waiting *)
(* cannot deadlock.  A request that waits while the pool is closed waits    *)
(* for an entry of a queue that nobody fills any more.                      *)
WaitingEnds == \A r \in Requests : stage[r] = "waiting" ~> stage[r] # "waiting"
=============================================================================
