--------------------------- MODULE ClientRegistry ---------------------------
(***************************************************************************)
(* The life of the clients that get_instance hands out: the per-class      *)
(* cache and its per-key locks, the construction of a client with its      *)
(* cleanup when a step fails, and close (common/base_client.py, with       *)
(* get_instance of the three client classes).                              *)
(*                                                                         *)
(* Application threads call get_instance and close, on clients that some   *)
(* call has returned, in any order.  A key stands for one calculate_hash   *)
(* of the arguments.  A component of a client is abstracted to what it     *)
(* holds that must be released: the sweep thread and pooled connections of *)
(* a BaseHttpCommand, the scheduler and the flush it may be running, the   *)
(* token refresher.  What a thread holds is gone when it has been told to  *)
(* stop, except the flush, which close waits for.                          *)
(*                                                                         *)
(* A definition whose name ends in _Bug is a variant of the one after it   *)
(* with a plausible mistake; it is no part of the specification.           *)
(***************************************************************************)
EXTENDS Integers, Sequences, FiniteSets, SequencesExt

CONSTANTS
    Threads,        \* application threads
    Keys,           \* cache keys of one client class
    None,           \* no thread, client or lock
    Faulty,         \* components whose close may raise and release nothing
    Hanging,        \* keys whose construction may take forever
    MaxCalls        \* bound: calls of get_instance and close

Components == {"http", "pci", "sender", "publisher", "token"}

ASSUME RegistryConstants ==
    /\ Faulty \subseteq Components /\ Hanging \subseteq Keys
    /\ MaxCalls \in Nat
    /\ None \notin Threads /\ None \notin Nat /\ None \notin Keys \X Threads

(* BaseClient.__init__, one step per statement that acquires something or   *)
(* makes a component known to the cleanup.                                  *)
Steps == <<"http", "pci", "sender", "publisher", "token", "start", "publish">>

(* What a step of the construction acquires. *)
Acquired(step) ==
    CASE step = "publisher" -> {}
      [] step = "token" -> {"oauth"}
      [] step = "start" -> {"refresher"}
      [] step = "publish" -> {"scheduler", "flush"}     \* a flush may be running
      [] OTHER -> {step}

Parts_Bug(component) ==         \* TokenService keeps its own session open
    CASE component = "publisher" -> {"scheduler", "flush"}
      [] component = "token" -> {"refresher"}
      [] OTHER -> {component}

(* What closing a component releases; "flush" is the second half of the     *)
(* publisher's close, the wait for a flush in flight.                       *)
Parts(component) ==
    CASE component = "publisher" -> {"scheduler", "flush"}
      [] component = "token" -> {"refresher", "oauth"}
      [] OTHER -> {component}

Held == UNION {Parts(x) : x \in Components}

(* The order in BaseClient.close, after the eviction. *)
CloseOrder == <<"publisher", "sender", "http", "pci", "token">>

(* The sessions a flush uses: the one it posts events through, and that of  *)
(* the token service, which its auth_token_supplier calls.                  *)
FlushUses == {"sender", "oauth"}

Clients == 1 .. MaxCalls            \* at most one construction per call
Locks == Keys \X Threads            \* a lock is known by its key and creator

VARIABLES
    cached,         \* _cached_instances: key -> client or None
    keyLocks,       \* _key_locks: key -> lock or None
    holder,         \* lock -> the thread that holds it, or None
    keyOf,          \* client -> key, one entry per client whose __init__ began
    built,          \* client -> number of steps of __init__ done
    open,           \* client -> what it holds
    fate,           \* client -> "new", "live", "closing", "closed", "dropped"
    pc, key, lock, target, todo,    \* of each thread: where it is, its locals
    got,            \* thread -> what its last get_instance returned
    shut,           \* thread -> clients already (partly) closed when it called
    raced,          \* clients that two calls of close overlapped on
    calls           \* calls made so far

registry == <<cached, keyLocks, holder>>
clients == <<keyOf, built, open, fate>>
locals == <<key, lock, target, todo>>
history == <<got, shut, raced, calls>>
vars == <<registry, clients, pc, locals, history>>

Init ==
    /\ cached = [k \in Keys |-> None] /\ keyLocks = [k \in Keys |-> None]
    /\ holder = [l \in Locks |-> None]
    /\ keyOf = <<>> /\ built = <<>> /\ open = <<>> /\ fate = <<>>
    /\ pc = [t \in Threads |-> "idle"]
    /\ key = [t \in Threads |-> None] /\ lock = [t \in Threads |-> None]
    /\ target = [t \in Threads |-> None] /\ todo = [t \in Threads |-> <<>>]
    /\ got = [t \in Threads |-> None] /\ shut = [t \in Threads |-> {}]
    /\ raced = {} /\ calls = 0

Goto(t, label) == pc' = [pc EXCEPT ![t] = label]

Release(t) == holder' = [holder EXCEPT ![lock[t]] = None]

(* The call ends; nothing of it is remembered. *)
Leave(t) ==
    /\ Goto(t, "idle")
    /\ key' = [key EXCEPT ![t] = None] /\ lock' = [lock EXCEPT ![t] = None]
    /\ target' = [target EXCEPT ![t] = None] /\ todo' = [todo EXCEPT ![t] = <<>>]
    /\ UNCHANGED <<shut, raced, calls>>

-----------------------------------------------------------------------------
(* get_instance                                                             *)

GetInstance(t, k) ==
    /\ pc[t] = "idle" /\ calls < MaxCalls
    /\ Goto(t, "lookup")
    /\ key' = [key EXCEPT ![t] = k]
    /\ got' = [got EXCEPT ![t] = None]
    /\ shut' = [shut EXCEPT ![t] =
                  {c \in DOMAIN fate : fate[c] \in {"closing", "closed"} /\ open[c] # Held}]
    /\ calls' = calls + 1
    /\ UNCHANGED <<registry, clients, lock, target, todo, raced>>

(* The lookup without a lock. *)
Lookup(t) ==
    /\ pc[t] = "lookup"
    /\ IF cached[key[t]] # None
         THEN Leave(t) /\ got' = [got EXCEPT ![t] = cached[key[t]]]
         ELSE Goto(t, "want") /\ UNCHANGED <<locals, history>>
    /\ UNCHANGED <<registry, clients>>

GetKeyLock_Bug(t) ==                    \* one lock for the whole class
    /\ pc[t] = "want"
    /\ LET k == CHOOSE x \in Keys : TRUE
           l == IF keyLocks[k] = None THEN <<k, t>> ELSE keyLocks[k]
       IN keyLocks' = [keyLocks EXCEPT ![k] = l] /\ lock' = [lock EXCEPT ![t] = l]
    /\ Goto(t, "acquire")
    /\ UNCHANGED <<cached, holder, clients, key, target, todo, history>>

(* _get_key_lock.  It runs under _instance_lock and waits for nothing. *)
GetKeyLock(t) ==
    /\ pc[t] = "want"
    /\ LET l == IF keyLocks[key[t]] = None THEN <<key[t], t>> ELSE keyLocks[key[t]]
       IN /\ keyLocks' = [keyLocks EXCEPT ![key[t]] = l]
          /\ lock' = [lock EXCEPT ![t] = l]
    /\ Goto(t, "acquire")
    /\ UNCHANGED <<cached, holder, clients, key, target, todo, history>>

Acquire(t) ==
    /\ pc[t] = "acquire" /\ holder[lock[t]] = None
    /\ holder' = [holder EXCEPT ![lock[t]] = t]
    /\ Goto(t, IF target[t] = None THEN "recheck" ELSE "evict")
    /\ UNCHANGED <<cached, keyLocks, clients, locals, history>>

(* The second lookup found a client. *)
RecheckHit(t) ==
    /\ pc[t] = "recheck" /\ cached[key[t]] # None
    /\ Release(t)
    /\ Leave(t) /\ got' = [got EXCEPT ![t] = cached[key[t]]]
    /\ UNCHANGED <<cached, keyLocks, clients>>

NewClient(t) ==
    /\ Goto(t, "build")
    /\ target' = [target EXCEPT ![t] = Len(fate) + 1]
    /\ keyOf' = Append(keyOf, key[t]) /\ built' = Append(built, 0)
    /\ open' = Append(open, {}) /\ fate' = Append(fate, "new")
    /\ UNCHANGED <<registry, key, lock, todo, history>>

Miss_Bug(t) == pc[t] = "recheck" /\ NewClient(t)    \* not looked up again

Miss(t) == pc[t] = "recheck" /\ cached[key[t]] = None /\ NewClient(t)

-----------------------------------------------------------------------------
(* BaseClient.__init__                                                      *)

Build(t) ==
    LET c == target[t] IN
    /\ pc[t] = "build"
    /\ built' = [built EXCEPT ![c] = @ + 1]
    /\ open' = [open EXCEPT ![c] = @ \cup Acquired(Steps[built[c] + 1])]
    /\ Goto(t, IF built'[c] = Len(Steps) THEN "register" ELSE "build")
    /\ UNCHANGED <<registry, keyOf, fate, locals, history>>

(* The components appended to closables before the given step; the last two *)
(* steps append nothing.                                                    *)
Closables(step) == SubSeq(Steps, 1, IF step <= 6 THEN step - 1 ELSE 5)

BuildFails_Bug(t) ==            \* the token service starts before it is listed
    LET c == target[t] IN
    /\ pc[t] = "build"
    /\ Goto(t, "cleanup")
    /\ todo' = [todo EXCEPT ![t] =
         Reverse(IF Steps[built[c] + 1] = "start" THEN Closables(built[c])
                                                  ELSE Closables(built[c] + 1))]
    /\ UNCHANGED <<registry, clients, key, lock, target, history>>

(* A step raises.  The last one may raise with the scheduler running, but   *)
(* with no job to flush.                                                    *)
BuildFails(t) ==
    LET c == target[t] IN
    /\ pc[t] = "build"
    /\ Goto(t, "cleanup")
    /\ todo' = [todo EXCEPT ![t] = Reverse(Closables(built[c] + 1))]
    /\ \/ UNCHANGED open
       \/ Steps[built[c] + 1] = "publish"
          /\ open' = [open EXCEPT ![c] = @ \cup {"scheduler"}]
    /\ UNCHANGED <<registry, keyOf, built, fate, key, lock, target, history>>

StopPublisher_Bug(t) ==         \* shutdown(wait=False)
    /\ Head(todo[t]) = "publisher" /\ "scheduler" \in open[target[t]]
    /\ open' = [open EXCEPT ![target[t]] = @ \ {"scheduler"}]
    /\ todo' = [todo EXCEPT ![t] = Tail(@)]

(* shutdown(wait=True) marks the scheduler stopped before it waits. *)
StopPublisher(t) ==
    /\ Head(todo[t]) = "publisher" /\ "scheduler" \in open[target[t]]
    /\ open' = [open EXCEPT ![target[t]] = @ \ {"scheduler"}]
    /\ todo' = [todo EXCEPT ![t] = <<"flush">> \o Tail(@)]

(* The publisher is found stopped, by another close even whose wait is not  *)
(* over (a shutdown that comes second raises, which is logged all the       *)
(* same), or the component's close raises.                                  *)
PassOver(t) ==
    /\ \/ Head(todo[t]) = "publisher" /\ "scheduler" \notin open[target[t]]
       \/ Head(todo[t]) \in Faulty
    /\ todo' = [todo EXCEPT ![t] = Tail(@)]
    /\ UNCHANGED open

(* The component is closed, or the flush is over. *)
Finish(t) ==
    /\ Head(todo[t]) # "publisher"
    /\ open' = [open EXCEPT ![target[t]] = @ \ Parts(Head(todo[t]))]
    /\ todo' = [todo EXCEPT ![t] = Tail(@)]

(* The next component in the list is closed. *)
CloseNext(t) ==
    /\ todo[t] # <<>>
    /\ StopPublisher(t) \/ PassOver(t) \/ Finish(t)

Cleanup(t) ==
    /\ pc[t] = "cleanup"
    /\ CloseNext(t)
    /\ UNCHANGED <<registry, keyOf, built, fate, pc, key, lock, target, history>>

(* The exception leaves get_instance, through the key's lock. *)
Raise(t) ==
    /\ pc[t] = "cleanup" /\ todo[t] = <<>>
    /\ fate' = [fate EXCEPT ![target[t]] = "dropped"]
    /\ Release(t)
    /\ Leave(t)
    /\ UNCHANGED <<cached, keyLocks, keyOf, built, open, got>>

-----------------------------------------------------------------------------
(* _build_and_register, after the construction: from here on other threads  *)
(* find the client, though its initialization event is not sent yet.        *)

Register(t) ==
    /\ pc[t] = "register"
    /\ cached' = [cached EXCEPT ![key[t]] = target[t]]
    /\ fate' = [fate EXCEPT ![target[t]] = "live"]
    /\ Goto(t, "announce")
    /\ UNCHANGED <<keyLocks, holder, keyOf, built, open, locals, history>>

Announce(t) ==
    /\ pc[t] = "announce"
    /\ Release(t)
    /\ Leave(t) /\ got' = [got EXCEPT ![t] = target[t]]
    /\ UNCHANGED <<cached, keyLocks, clients>>

-----------------------------------------------------------------------------
(* close, by any thread, of a client that some get_instance returned        *)

Closers(c) == {t \in Threads : target[t] = c /\ pc[t] \in {"want", "acquire", "evict", "close"}}

Close(t, c) ==
    /\ pc[t] = "idle" /\ calls < MaxCalls
    /\ Goto(t, "want")
    /\ key' = [key EXCEPT ![t] = keyOf[c]] /\ target' = [target EXCEPT ![t] = c]
    /\ fate' = [fate EXCEPT ![c] = IF @ = "live" THEN "closing" ELSE @]
    /\ raced' = IF Closers(c) = {} THEN raced ELSE raced \cup {c}
    /\ calls' = calls + 1
    /\ UNCHANGED <<registry, keyOf, built, open, lock, todo, got, shut>>

Evict_Bug(t) ==                 \* whatever the cache holds for the key
    /\ pc[t] = "evict"
    /\ cached' = [cached EXCEPT ![key[t]] = None]
    /\ Release(t)
    /\ todo' = [todo EXCEPT ![t] = CloseOrder]
    /\ Goto(t, "close")
    /\ UNCHANGED <<keyLocks, clients, key, lock, target, history>>

EvictNothing_Bug(t) ==          \* the client is left in the cache
    /\ pc[t] = "evict"
    /\ Release(t)
    /\ todo' = [todo EXCEPT ![t] = CloseOrder]
    /\ Goto(t, "close")
    /\ UNCHANGED <<cached, keyLocks, clients, key, lock, target, history>>

(* _evict_from_instance_cache: only the client itself is removed. *)
Evict(t) ==
    /\ pc[t] = "evict"
    /\ cached' = [cached EXCEPT ![key[t]] = IF @ = target[t] THEN None ELSE @]
    /\ Release(t)
    /\ todo' = [todo EXCEPT ![t] = CloseOrder]
    /\ Goto(t, "close")
    /\ UNCHANGED <<keyLocks, clients, key, lock, target, history>>

Closing(t) ==
    /\ pc[t] = "close"
    /\ CloseNext(t)
    /\ UNCHANGED <<registry, keyOf, built, fate, pc, key, lock, target, history>>

Closed(t) ==
    /\ pc[t] = "close" /\ todo[t] = <<>>
    /\ fate' = [fate EXCEPT ![target[t]] = "closed"]
    /\ Leave(t)
    /\ UNCHANGED <<registry, keyOf, built, open, got>>

-----------------------------------------------------------------------------
(* A flush in flight sends through sessions that a close has released in    *)
(* the meantime: they open connections again.                               *)
FlushSends(c) ==
    /\ "flush" \in open[c]
    /\ \E part \in FlushUses \ open[c] : open' = [open EXCEPT ![c] = @ \cup {part}]
    /\ UNCHANGED <<registry, keyOf, built, fate, pc, locals, history>>

-----------------------------------------------------------------------------
Call(t) ==
    \/ \E k \in Keys : GetInstance(t, k)
    \/ \E u \in Threads : got[u] # None /\ Close(t, got[u])

Constructing(t) == Build(t) \/ BuildFails(t)

Proceed(t) ==
    \/ Lookup(t) \/ GetKeyLock(t) \/ Acquire(t) \/ RecheckHit(t) \/ Miss(t)
    \/ Cleanup(t) \/ Raise(t) \/ Register(t) \/ Announce(t)
    \/ Evict(t) \/ Closing(t) \/ Closed(t)

Next ==
    \/ \E t \in Threads : Call(t) \/ Constructing(t) \/ Proceed(t)
    \/ \E c \in DOMAIN open : FlushSends(c)

Spec == Init /\ [][Next]_vars

(* Threads are scheduled, and a lock that is free is taken by somebody; a   *)
(* flush that a close waits for ends, as its requests have timeouts; no     *)
(* construction for a hanging key is ever sure to go on.                    *)
FairSpec ==
    /\ Spec
    /\ \A t \in Threads :
         WF_vars(Proceed(t)) /\ WF_vars(key[t] \notin Hanging /\ Constructing(t))

-----------------------------------------------------------------------------
(* Every variable holds a value of its type. *)
TypeOK ==
    /\ cached \in [Keys -> Clients \cup {None}]
    /\ keyLocks \in [Keys -> Locks \cup {None}]
    /\ holder \in [Locks -> Threads \cup {None}]
    /\ keyOf \in Seq(Keys) /\ Len(keyOf) <= calls
    /\ built \in [DOMAIN keyOf -> 0 .. Len(Steps)]
    /\ open \in [DOMAIN keyOf -> SUBSET Held]
    /\ fate \in [DOMAIN keyOf -> {"new", "live", "closing", "closed", "dropped"}]
    /\ pc \in [Threads -> {"idle", "lookup", "want", "acquire", "recheck", "build",
                           "cleanup", "register", "announce", "evict", "close"}]
    /\ key \in [Threads -> Keys \cup {None}]
    /\ lock \in [Threads -> Locks \cup {None}]
    /\ target \in [Threads -> DOMAIN keyOf \cup {None}]
    /\ got \in [Threads -> DOMAIN keyOf \cup {None}]
    /\ shut \in [Threads -> SUBSET (DOMAIN keyOf)] /\ raced \subseteq DOMAIN keyOf
    /\ calls \in 0 .. MaxCalls

(* No client is orphaned: one that nobody has begun to close is the one in  *)
(* the cache, however many threads get, build and close clients of the same *)
(* key, so at most one client per key is in use.                            *)
LiveIsCached == \A c \in DOMAIN fate : fate[c] = "live" => cached[keyOf[c]] = c

(* A get_instance that begins when close has already taken something from a *)
(* client does not return that client, even if another thread is building,  *)
(* getting or closing clients of the same key meanwhile.                    *)
NeverHandsOutClosed == \A t \in Threads : got[t] \notin shut[t]

(* What belongs to a component whose close may raise: it may live on, and   *)
(* what a flush that nobody stopped uses with it.                           *)
Spared ==
    (UNION {Parts(x) : x \in Faulty}) \cup (IF "publisher" \in Faulty THEN FlushUses ELSE {})

(* What a thread has still to release of the client it is closing. *)
Owed(t) == UNION {Parts(todo[t][i]) : i \in DOMAIN todo[t]}

(* When close returns, or a failed construction raises, every thread of the *)
(* client has been told to stop and every connection let go, except those   *)
(* of components whose own close raised, and those that another thread, not *)
(* done yet with closing the same client, is about to let go: what a flush  *)
(* in flight opens again behind a close is not left open.                   *)
NothingLeaks ==
    \A c \in DOMAIN fate :
        fate[c] \in {"closed", "dropped"} =>
            open[c] \subseteq Spared \cup UNION {Owed(t) : t \in {u \in Threads : target[u] = c}}

(* A client closed, any number of times but never by two threads at once,   *)
(* or cleaned up half-built: the scheduler has been stopped and the flush   *)
(* in flight has ended before the session they send through is closed.      *)
(* When two calls of close overlap, the scheduler has been told to stop,    *)
(* but the flush may still be sending.                                      *)
PublisherStopsFirst ==
    "publisher" \notin Faulty =>
        \A c \in DOMAIN fate :
            "sender" \notin open[c] =>
                "scheduler" \notin open[c] /\ ("flush" \in open[c] => c \in raced)

(* Every call for a key whose constructions end comes back, even while a    *)
(* construction for another key hangs with its lock held.                   *)
OthersNotBlocked ==
    \A t \in Threads :
        pc[t] # "idle" /\ key[t] \notin Hanging ~> pc[t] = "idle"
=============================================================================
