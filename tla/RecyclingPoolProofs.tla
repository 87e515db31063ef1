------------------------ MODULE RecyclingPoolProofs -------------------------
(***************************************************************************)
(* Theorems about RecyclingPool, for any number of requests, connections   *)
(* and slots, and whatever the order in which requests, sweep and close    *)
(* interleave: a connection has one owner, no slot is lost, and close      *)
(* leaves no socket open that no request is using.                         *)
(***************************************************************************)
EXTENDS RecyclingPool, FiniteSetTheorems, TLAPS

Slots == Conns \cup {NoConn}

(* No connection occurs twice in a sequence of slots. *)
Distinct(s) == \A i, j \in DOMAIN s : s[i] = s[j] /\ i # j => s[i] = NoConn

-----------------------------------------------------------------------------
(* The ends of a sequence: what taking and putting do to it.                *)

(* Taking the last slot, as urllib3 does. *)
LEMMA FrontParts ==
    ASSUME NEW s \in Seq(Slots), s # <<>>
    PROVE  /\ Front(s) \in Seq(Slots) /\ Len(Front(s)) = Len(s) - 1
           /\ Last(s) \in Slots
           /\ Range(s) = Range(Front(s)) \cup {Last(s)}
           /\ Distinct(s) => /\ Distinct(Front(s))
                             /\ Last(s) # NoConn => Last(s) \notin Range(Front(s))
  <1>1. /\ Len(s) \in Nat \ {0} /\ Last(s) = s[Len(s)] /\ Last(s) \in Slots
        /\ Front(s) \in Seq(Slots) /\ Len(Front(s)) = Len(s) - 1
        /\ \A i \in 1 .. Len(s) - 1 : Front(s)[i] = s[i]
    <2>1. Len(s) \in Nat \ {0} /\ \A i \in 1 .. Len(s) : s[i] \in Slots
      OBVIOUS
    <2>2. /\ SubSeq(s, 1, Len(s) - 1) \in Seq(Slots)
          /\ Len(SubSeq(s, 1, Len(s) - 1)) = Len(s) - 1
          /\ \A i \in 1 .. Len(s) - 1 : SubSeq(s, 1, Len(s) - 1)[i] = s[i]
      <3> DEFINE f == [i \in 1 .. Len(s) - 1 |-> s[i]]
      <3>1. SubSeq(s, 1, Len(s) - 1) = f
        BY <2>1
      <3>2. Len(s) - 1 \in Nat
        BY <2>1
      <3>3. f \in Seq(Slots) /\ \A i \in 1 .. Len(s) - 1 : f[i] = s[i]
        BY <2>1, <3>2
      <3>4. Len(f) = Len(s) - 1
        BY <3>2
      <3> HIDE DEF f
      <3> QED  BY <3>1, <3>3, <3>4
    <2> QED  BY <2>1, <2>2 DEF Front, Last
  <1>2. DOMAIN s = 1 .. Len(s) /\ DOMAIN Front(s) = 1 .. Len(s) - 1
    BY <1>1
  <1>3. Range(s) = Range(Front(s)) \cup {Last(s)}
    BY <1>1, <1>2 DEF Range
  <1> QED  BY <1>1, <1>2, <1>3 DEF Distinct, Range

(* Taking the first one, as the sweep does with its list. *)
LEMMA TailParts ==
    ASSUME NEW s \in Seq(Slots), s # <<>>
    PROVE  /\ Tail(s) \in Seq(Slots) /\ Len(Tail(s)) = Len(s) - 1
           /\ Head(s) \in Slots
           /\ Range(s) = Range(Tail(s)) \cup {Head(s)}
           /\ Distinct(s) => /\ Distinct(Tail(s))
                             /\ Head(s) # NoConn => Head(s) \notin Range(Tail(s))
  <1>1. /\ Len(s) \in Nat \ {0} /\ Head(s) = s[1] /\ Head(s) \in Slots
        /\ Tail(s) \in Seq(Slots) /\ Len(Tail(s)) = Len(s) - 1
        /\ \A i \in 1 .. Len(s) - 1 : Tail(s)[i] = s[i + 1]
    OBVIOUS
  <1>2. DOMAIN s = 1 .. Len(s) /\ DOMAIN Tail(s) = 1 .. Len(s) - 1
    BY <1>1
  <1>3. \A i \in DOMAIN s : i # 1 => i - 1 \in DOMAIN Tail(s) /\ Tail(s)[i - 1] = s[i]
    BY <1>1, <1>2
  <1>4. \A i \in DOMAIN Tail(s) : i + 1 \in DOMAIN s \ {1} /\ Tail(s)[i] = s[i + 1]
    BY <1>1, <1>2
  <1>5. 1 \in DOMAIN s
    BY <1>1, <1>2
  <1>6. Range(s) = Range(Tail(s)) \cup {Head(s)}
    <2>1. Range(s) \subseteq Range(Tail(s)) \cup {Head(s)}
      BY <1>1, <1>3 DEF Range
    <2>2. Range(Tail(s)) \cup {Head(s)} \subseteq Range(s)
      BY <1>1, <1>4, <1>5 DEF Range
    <2> QED  BY <2>1, <2>2
  <1>7. ASSUME Distinct(s)
        PROVE  /\ Distinct(Tail(s))
               /\ Head(s) # NoConn => Head(s) \notin Range(Tail(s))
    <2>1. \A i, j \in DOMAIN Tail(s) : i # j => i + 1 # j + 1
      BY <1>2, <1>1
    <2>2. Distinct(Tail(s))
      BY <1>4, <1>7, <2>1 DEF Distinct
    <2>3. Head(s) # NoConn => Head(s) \notin Range(Tail(s))
      BY <1>1, <1>4, <1>5, <1>7 DEF Distinct, Range
    <2> QED  BY <2>2, <2>3
  <1> QED  BY <1>1, <1>6, <1>7

(* Putting a slot back. *)
LEMMA AppendParts ==
    ASSUME NEW s \in Seq(Slots), NEW c \in Slots
    PROVE  /\ Append(s, c) \in Seq(Slots) /\ Len(Append(s, c)) = Len(s) + 1
           /\ Range(Append(s, c)) = Range(s) \cup {c}
           /\ Distinct(s) /\ (c # NoConn => c \notin Range(s)) => Distinct(Append(s, c))
  <1>1. /\ Len(s) \in Nat /\ Append(s, c) \in Seq(Slots) /\ Len(Append(s, c)) = Len(s) + 1
        /\ \A i \in 1 .. Len(s) : Append(s, c)[i] = s[i]
        /\ Append(s, c)[Len(s) + 1] = c
    OBVIOUS
  <1>2. DOMAIN s = 1 .. Len(s) /\ DOMAIN Append(s, c) = 1 .. Len(s) + 1
    BY <1>1
  <1>3. Range(Append(s, c)) = Range(s) \cup {c}
    BY <1>1, <1>2 DEF Range
  <1> QED  BY <1>1, <1>2, <1>3 DEF Distinct, Range

(* Two sequences that share no connection. *)
LEMMA ConcatParts ==
    ASSUME NEW s \in Seq(Slots), NEW t \in Seq(Slots)
    PROVE  /\ Range(s \o t) = Range(s) \cup Range(t)
           /\ Distinct(s) /\ Distinct(t) /\ Range(s) \cap Range(t) \subseteq {NoConn}
                => Distinct(s \o t)
  <1>1. /\ Len(s) \in Nat /\ Len(t) \in Nat /\ Len(s \o t) = Len(s) + Len(t)
        /\ \A i \in 1 .. Len(s) : (s \o t)[i] = s[i]
        /\ \A i \in 1 .. Len(t) : (s \o t)[Len(s) + i] = t[i]
    OBVIOUS
  <1>2. /\ DOMAIN s = 1 .. Len(s) /\ DOMAIN t = 1 .. Len(t)
        /\ DOMAIN (s \o t) = 1 .. Len(s) + Len(t)
    BY <1>1
  <1>3. \A i \in DOMAIN (s \o t) :
           \/ i \in DOMAIN s /\ (s \o t)[i] = s[i]
           \/ i - Len(s) \in DOMAIN t /\ (s \o t)[i] = t[i - Len(s)]
    <2> SUFFICES ASSUME NEW i \in DOMAIN (s \o t), i \notin DOMAIN s
                 PROVE  i - Len(s) \in DOMAIN t /\ (s \o t)[i] = t[i - Len(s)]
      BY <1>1, <1>2
    <2>1. i - Len(s) \in 1 .. Len(t) /\ i = Len(s) + (i - Len(s))
      BY <1>1, <1>2
    <2> QED  BY <1>1, <1>2, <2>1
  <1>4. Range(s \o t) = Range(s) \cup Range(t)
    <2>1. Range(s \o t) \subseteq Range(s) \cup Range(t)
      BY <1>3 DEF Range
    <2>2. Range(s) \subseteq Range(s \o t)
      <3>1. \A i \in DOMAIN s : i \in DOMAIN (s \o t) /\ s[i] = (s \o t)[i]
        BY <1>1, <1>2
      <3> QED  BY <3>1 DEF Range
    <2>3. Range(t) \subseteq Range(s \o t)
      <3>1. \A i \in DOMAIN t :
              Len(s) + i \in DOMAIN (s \o t) /\ t[i] = (s \o t)[Len(s) + i]
        BY <1>1, <1>2
      <3> QED  BY <3>1 DEF Range
    <2> QED  BY <2>1, <2>2, <2>3
  <1>5. ASSUME Distinct(s), Distinct(t), Range(s) \cap Range(t) \subseteq {NoConn},
               NEW i \in DOMAIN (s \o t), NEW j \in DOMAIN (s \o t),
               (s \o t)[i] = (s \o t)[j], i # j
        PROVE  (s \o t)[i] = NoConn
    <2>1. i \in DOMAIN s /\ j \in DOMAIN s => (s \o t)[i] = NoConn
      BY <1>1, <1>2, <1>5 DEF Distinct
    <2>2. i \notin DOMAIN s /\ j \notin DOMAIN s => (s \o t)[i] = NoConn
      <3>1. i - Len(s) # j - Len(s)
        BY <1>1, <1>2, <1>5
      <3> QED  BY <1>3, <1>5, <3>1 DEF Distinct
    <2>3. i \in DOMAIN s /\ j \notin DOMAIN s => (s \o t)[i] = NoConn
      BY <1>1, <1>2, <1>3, <1>5 DEF Range
    <2>4. i \notin DOMAIN s /\ j \in DOMAIN s => (s \o t)[i] = NoConn
      BY <1>1, <1>2, <1>3, <1>5 DEF Range
    <2> QED  BY <2>1, <2>2, <2>3, <2>4
  <1>6. Distinct(s) /\ Distinct(t) /\ Range(s) \cap Range(t) \subseteq {NoConn}
          => Distinct(s \o t)
    BY <1>5 DEF Distinct
  <1> QED  BY <1>4, <1>6

-----------------------------------------------------------------------------
(* Every connection is queued once, drained once, or used by one request.   *)

OwnInv ==
    /\ pool \in Seq(Slots) /\ items \in Seq(Slots)
    /\ stage \in [Requests -> {"idle", "waiting", "using"}]
    /\ held \in [Requests -> Slots]
    /\ \A r \in Requests : held[r] # NoConn <=> stage[r] = "using"
    /\ Distinct(pool) /\ Distinct(items) /\ Range(pool) \cap Range(items) \subseteq {NoConn}
    /\ \A r \in Requests : held[r] # NoConn => held[r] \notin Range(pool) \cup Range(items)
    /\ \A r, s \in Requests : held[r] = held[s] /\ held[r] # NoConn => r = s

(* All slots are empty at first. *)
LEMMA OwnInvInit == Init => OwnInv
  <1> SUFFICES ASSUME Init PROVE OwnInv
    OBVIOUS
  <1>1. pool \in Seq(Slots) /\ items \in Seq(Slots)
    BY PoolConstants DEF Init, Slots
  <1>2. Range(pool) \subseteq {NoConn} /\ Distinct(pool) /\ Range(items) = {} /\ Distinct(items)
    BY DEF Init, Range, Distinct
  <1> QED  BY <1>1, <1>2 DEF Init, OwnInv, Slots

(* What a request takes from the pool, or mints, is nobody else's; what it  *)
(* returns it no longer holds; a sweep moves each slot once each way.       *)
LEMMA OwnInvStep ==
    ASSUME OwnInv, [Next]_vars
    PROVE  OwnInv'
  <1> USE PoolConstants DEF OwnInv
  <1>s. NoConn \in Slots /\ Conns \subseteq Slots
    BY DEF Slots
  <1>1. ASSUME NEW r \in Requests, Requesting(r) PROVE OwnInv'
    <2>1. CASE Ask(r)
      BY <2>1 DEF Ask, conns, sweeper
    <2>2. ASSUME NEW c \in Conns \ Referenced, CheckedOut(r, c), stage[r] = "waiting",
                 UNCHANGED items, pool' = pool \/ (pool # <<>> /\ pool' = Front(pool))
          PROVE  OwnInv'
      <3>1. c \notin Range(pool) \cup Range(items) /\ c # NoConn
            /\ \A s \in Requests : held[s] # c
        BY <2>2 DEF Referenced, InUse
      <3>2. /\ pool' \in Seq(Slots) /\ Distinct(pool') /\ Range(pool') \subseteq Range(pool)
        BY <2>2, FrontParts
      <3> QED  BY <1>s, <2>2, <3>1, <3>2 DEF CheckedOut
    <2>3. CASE GetPooled(r)
      <3>1. ASSUME Last(pool) = NoConn, Mint(r) PROVE OwnInv'
        BY <2>2, <2>3, <3>1 DEF GetPooled, Mint, sweeper
      <3>2. ASSUME Last(pool) # NoConn, CheckedOut(r, Last(pool)) PROVE OwnInv'
        <4>1. /\ pool # <<>> /\ pool' = Front(pool) /\ UNCHANGED items
              /\ stage[r] = "waiting"
          BY <2>3 DEF GetPooled, sweeper
        <4>2. /\ pool' \in Seq(Slots) /\ Distinct(pool')
              /\ Range(pool) = Range(pool') \cup {Last(pool)}
              /\ Last(pool) \in Slots /\ Last(pool) \notin Range(pool')
          BY <4>1, <3>2, FrontParts
        <4> QED  BY <3>2, <4>1, <4>2 DEF CheckedOut
      <3> QED  BY <2>3, <3>1, <3>2 DEF GetPooled
    <2>4. CASE Overflow(r)
      <3>1. PICK c \in Conns \ Referenced : CheckedOut(r, c)
        BY <2>4 DEF Overflow, Mint
      <3>2. stage[r] = "waiting" /\ UNCHANGED items /\ pool' = pool
        BY <2>4 DEF Overflow, sweeper
      <3> QED  BY <2>2, <3>1, <3>2, Zenon
    <2>5. CASE Connect(r)
      BY <2>5 DEF Connect, sweeper
    <2>6. CASE Finish(r)
      <3>1. /\ held[r] # NoConn /\ UNCHANGED items /\ Released(r)
            /\ pool' = pool \/ pool' = Append(pool, held[r])
        BY <2>6 DEF Finish, sweeper
      <3>2. /\ pool' \in Seq(Slots) /\ Distinct(pool')
            /\ Range(pool') \subseteq Range(pool) \cup {held[r]}
        <4>1. held[r] \in Slots /\ held[r] \notin Range(pool)
          BY <3>1
        <4>2. CASE pool' = pool
          BY <4>2
        <4>3. CASE pool' = Append(pool, held[r])
          BY <4>1, <4>3, AppendParts
        <4> QED  BY <3>1, <4>2, <4>3
      <3> QED  BY <1>s, <3>1, <3>2 DEF Released
    <2>7. CASE Break(r)
      <3>1. /\ UNCHANGED items /\ Released(r)
            /\ pool' = pool \/ pool' = Append(pool, NoConn)
        BY <2>7 DEF Break, sweeper
      <3>2. /\ pool' \in Seq(Slots) /\ Distinct(pool')
            /\ Range(pool') \subseteq Range(pool) \cup {NoConn}
        <4>1. CASE pool' = pool
          BY <4>1
        <4>2. CASE pool' = Append(pool, NoConn)
          BY <1>s, <4>2, AppendParts
        <4> QED  BY <3>1, <4>1, <4>2
      <3> QED  BY <1>s, <3>1, <3>2 DEF Released
    <2> QED  BY <1>1, <2>1, <2>3, <2>4, <2>5, <2>6, <2>7 DEF Requesting
  <1>2. CASE SweepDrain
    <2>1. /\ pool # <<>> /\ pool' = Front(pool) /\ items' = Append(items, Last(pool))
          /\ UNCHANGED <<stage, held>>
      BY <1>2 DEF SweepDrain, conns
    <2>2. /\ pool' \in Seq(Slots) /\ Distinct(pool') /\ Last(pool) \in Slots
          /\ Range(pool) = Range(pool') \cup {Last(pool)}
          /\ Last(pool) # NoConn => Last(pool) \notin Range(pool')
      BY <2>1, FrontParts
    <2>3. /\ items' \in Seq(Slots) /\ Range(items') = Range(items) \cup {Last(pool)}
          /\ Distinct(items')
      <3>1. Last(pool) # NoConn => Last(pool) \notin Range(items)
        BY <2>2
      <3> QED  BY <2>1, <2>2, <3>1, AppendParts
    <2> QED  BY <2>1, <2>2, <2>3
  <1>3. CASE SweepItem
    <2>1. /\ items # <<>> /\ items' = Tail(items) /\ UNCHANGED <<stage, held>>
          /\ \/ pool' = pool
             \/ pool' = Append(pool, NoConn)
             \/ pool' = Append(pool, Head(items))
      BY <1>3 DEF SweepItem, PutSlot, Evict
    <2>2. /\ items' \in Seq(Slots) /\ Distinct(items') /\ Head(items) \in Slots
          /\ Range(items) = Range(items') \cup {Head(items)}
          /\ Head(items) # NoConn => Head(items) \notin Range(items')
      BY <2>1, TailParts
    <2>3. /\ pool' \in Seq(Slots) /\ Distinct(pool')
          /\ Range(pool') \subseteq Range(pool) \cup {NoConn, Head(items)}
      <3>1. Head(items) # NoConn => Head(items) \notin Range(pool)
        BY <2>2
      <3>2. CASE pool' = pool
        BY <3>2
      <3>3. CASE pool' = Append(pool, NoConn)
        BY <1>s, <3>3, AppendParts
      <3>4. CASE pool' = Append(pool, Head(items))
        BY <2>2, <3>1, <3>4, AppendParts
      <3> QED  BY <2>1, <3>2, <3>3, <3>4
    <2> QED  BY <2>1, <2>2, <2>3
  <1>4. CASE CloseDrain
    <2>1. /\ UNCHANGED <<stage, held, items>>
          /\ pool' = pool \/ (pool # <<>> /\ pool' = Front(pool))
      <3>1. UNCHANGED <<detached, stage, held, idle, sweeper>>
        BY <1>4, Zenon DEF CloseDrain
      <3>2. pool' = pool \/ (pool # <<>> /\ pool' = Front(pool))
        BY <1>4, Zenon DEF CloseDrain
      <3> QED  BY <3>1, <3>2 DEF sweeper
    <2>2. pool' \in Seq(Slots) /\ Distinct(pool') /\ Range(pool') \subseteq Range(pool)
      BY <2>1, FrontParts
    <2> QED  BY <2>1, <2>2
  <1>5. ASSUME \/ SweepBegin \/ SweepDrained \/ SweepEnd \/ SweepStops
               \/ CloseStop \/ CloseJoin \/ Tick \/ UNCHANGED vars
        PROVE  OwnInv'
    <2>1. UNCHANGED <<pool, items, stage, held>>
      BY <1>5 DEF SweepBegin, SweepDrained, SweepEnd, SweepStops, CloseStop, CloseJoin, Tick,
                  vars, conns, sweeper
    <2> QED  BY <2>1
  <1> QED  BY <1>1, <1>2, <1>3, <1>4, <1>5 DEF Next, Sweeping, Closing

(* _get_conn, _put_conn and _evict_idle_connections: no two requests ever   *)
(* share a connection, and none that is in use is queued or swept.          *)
THEOREM ConnectionsHaveOneOwner == Spec => []OneOwner
<1>1. OwnInv => OneOwner
  <2> SUFFICES ASSUME OwnInv PROVE OneOwner
    OBVIOUS
  <2>1. \A r, s \in Holders : held[r] = held[s] => r = s
    BY DEF OwnInv, Holders
  <2>2. Distinct(pool \o items) /\ Range(pool \o items) = Range(pool) \cup Range(items)
    BY ConcatParts DEF OwnInv
  <2>3. Range(pool \o items) \cap InUse = {}
    BY <2>2 DEF OwnInv, InUse
  <2> QED  BY <2>1, <2>2, <2>3 DEF OneOwner, Distinct
<1>2. OwnInv /\ [Next]_vars => OwnInv'
  BY OwnInvStep
<1> QED  BY <1>1, <1>2, OwnInvInit, PTL DEF Spec

-----------------------------------------------------------------------------
(* close(): nothing is left open behind it.                                 *)

PhaseInv ==
    /\ detached => closing \in {"draining", "closed"}
    /\ closing \in {"draining", "closed"} => detached /\ sweep = "ended"
    /\ sweep \in {"sleep", "ended"} => items = <<>>
    /\ closing = "closed" => pool = <<>>

(* Every socket belongs to a connection that is queued, drained or in use. *)
LiveInv ==
    /\ live \subseteq Conns
    /\ \A c \in live : c \in Range(pool) \cup Range(items) \/ \E r \in Requests : held[r] = c

(* The pool is open and holds no socket at first. *)
LEMMA PhaseInvInit == Init => PhaseInv /\ LiveInv
BY DEF Init, PhaseInv, LiveInv

(* close() waits for the sweeper before it detaches the pool, and a         *)
(* detached pool takes nothing back.                                        *)
LEMMA PhaseInvStep ==
    ASSUME OwnInv, PhaseInv, [Next]_vars
    PROVE  PhaseInv'
  <1> USE DEF PhaseInv
  <1>1. ASSUME NEW r \in Requests, Requesting(r) PROVE PhaseInv'
    <2>1. UNCHANGED <<detached, closing, sweep, items>>
      BY <1>1 DEF Requesting, Ask, GetPooled, Overflow, Connect, Finish, Break, sweeper
    <2>2. detached /\ pool = <<>> => pool' = <<>>
      BY <1>1 DEF Requesting, Ask, GetPooled, Overflow, Connect, Finish, Break, sweeper
    <2> QED  BY <2>1, <2>2
  <1>2. CASE SweepBegin
    BY <1>2 DEF SweepBegin
  <1>3. CASE SweepDrain \/ SweepDrained
    BY <1>3 DEF SweepDrain, SweepDrained
  <1>4. CASE SweepItem
    <2>1. sweep = "restore" /\ UNCHANGED <<detached, closing, sweep>>
      BY <1>4 DEF SweepItem
    <2> QED  BY <2>1
  <1>5. CASE SweepEnd \/ SweepStops
    BY <1>5 DEF SweepEnd, SweepStops
  <1>6. CASE CloseStop \/ CloseJoin
    BY <1>6 DEF CloseStop, CloseJoin, sweeper
  <1>7. CASE CloseDrain
    <2>1. closing = "draining" /\ UNCHANGED <<detached, sweep, items>>
      BY <1>7 DEF CloseDrain, sweeper
    <2>2. closing' = closing \/ (closing' = "closed" /\ pool' = <<>>)
      BY <1>7 DEF CloseDrain
    <2> QED  BY <2>1, <2>2
  <1>8. CASE Tick \/ UNCHANGED vars
    BY <1>8 DEF Tick, vars, sweeper
  <1> QED
    BY <1>1, <1>2, <1>3, <1>4, <1>5, <1>6, <1>7, <1>8 DEF Next, Sweeping, Closing

(* A connection leaves a place for another one, or is closed as it leaves.  *)
LEMMA LiveInvStep ==
    ASSUME OwnInv, LiveInv, [Next]_vars
    PROVE  LiveInv'
  <1> USE PoolConstants DEF OwnInv, LiveInv
  <1>1. ASSUME NEW r \in Requests, Requesting(r) PROVE LiveInv'
    <2>1. CASE Ask(r)
      BY <2>1 DEF Ask, conns, sweeper
    <2>2. CASE GetPooled(r)
      <3>1. /\ pool # <<>> /\ pool' = Front(pool) /\ UNCHANGED items
            /\ held[r] = NoConn
        BY <2>2 DEF GetPooled, sweeper
      <3>2. Range(pool) = Range(pool') \cup {Last(pool)}
        BY <3>1, FrontParts
      <3>3. CASE Last(pool) = NoConn /\ Mint(r)
        BY <3>1, <3>2, <3>3 DEF Mint, CheckedOut, Disconnect
      <3>4. ASSUME Last(pool) # NoConn, CheckedOut(r, Last(pool)),
                   \E dropped \in BOOLEAN : Recycle(Last(pool), dropped)
            PROVE  LiveInv'
        <4>1. live' \subseteq live
          BY <3>4 DEF Recycle, Disconnect
        <4> QED  BY <3>1, <3>2, <3>4, <4>1 DEF CheckedOut
      <3> QED  BY <2>2, <3>3, <3>4 DEF GetPooled
    <2>3. CASE Overflow(r)
      <3>1. UNCHANGED <<pool, items>> /\ held[r] = NoConn
        BY <2>3 DEF Overflow, sweeper
      <3> QED  BY <2>3, <3>1 DEF Overflow, Mint, CheckedOut, Disconnect
    <2>4. CASE Connect(r)
      <3>1. held[r] \in Conns
        BY <2>4 DEF Connect, Slots
      <3> QED  BY <2>4, <3>1 DEF Connect, sweeper
    <2>5. CASE Finish(r)
      <3>1. held' = [held EXCEPT ![r] = NoConn] /\ UNCHANGED items /\ held[r] \in Slots
        BY <2>5 DEF Finish, Released, sweeper
      <3>2. CASE live' = live \ {held[r]} /\ UNCHANGED pool
        BY <3>1, <3>2
      <3>3. CASE pool' = Append(pool, held[r]) /\ UNCHANGED live
        <4>1. Range(pool') = Range(pool) \cup {held[r]}
          BY <3>1, <3>3, AppendParts
        <4> QED  BY <3>1, <3>3, <4>1
      <3> QED  BY <2>5, <3>2, <3>3 DEF Finish, Discard, Disconnect
    <2>6. CASE Break(r)
      <3>1. /\ held' = [held EXCEPT ![r] = NoConn] /\ UNCHANGED items
            /\ live' = live \ {held[r]}
        BY <2>6 DEF Break, Released, Discard, Disconnect, sweeper
      <3>2. Range(pool) \subseteq Range(pool')
        BY <2>6, AppendParts DEF Break, Slots
      <3> QED  BY <3>1, <3>2
    <2> QED  BY <1>1, <2>1, <2>2, <2>3, <2>4, <2>5, <2>6 DEF Requesting
  <1>2. CASE SweepDrain
    <2>1. /\ pool # <<>> /\ pool' = Front(pool) /\ items' = Append(items, Last(pool))
          /\ UNCHANGED <<live, held>>
      BY <1>2 DEF SweepDrain, conns
    <2>2. Last(pool) \in Slots /\ Range(pool) = Range(pool') \cup {Last(pool)}
      BY <2>1, FrontParts
    <2>3. Range(items') = Range(items) \cup {Last(pool)}
      BY <2>1, <2>2, AppendParts
    <2> QED  BY <2>1, <2>2, <2>3
  <1>3. CASE SweepItem
    <2> DEFINE c == Head(items)
    <2>1. items # <<>> /\ items' = Tail(items) /\ UNCHANGED held
      BY <1>3 DEF SweepItem
    <2>2. c \in Slots /\ Range(items) = Range(items') \cup {c}
      BY <2>1, TailParts
    <2>3. \A x \in Slots : Range(Append(pool, x)) = Range(pool) \cup {x}
      BY AppendParts
    <2> HIDE DEF c
    <2>4. ASSUME PutSlot, live' \subseteq live, c = NoConn \/ c \notin live' PROVE LiveInv'
      <3>1. Range(pool) \subseteq Range(pool')
        BY <2>3, <2>4 DEF PutSlot, Slots
      <3> QED  BY <2>1, <2>2, <2>4, <3>1
    <2>5. ASSUME Evict(c) PROVE LiveInv'
      BY <2>4, <2>5 DEF Evict, Discard, Disconnect
    <2>6. ASSUME pool' = Append(pool, c), UNCHANGED live PROVE LiveInv'
      BY <2>1, <2>2, <2>3, <2>6
    <2> QED  BY <1>3, <2>4, <2>5, <2>6 DEF SweepItem, c
  <1>4. CASE CloseDrain
    <2>1. UNCHANGED <<items, held>>
      BY <1>4 DEF CloseDrain, sweeper
    <2>2. CASE UNCHANGED <<pool, live>>
      BY <2>1, <2>2
    <2>3. ASSUME pool # <<>>, pool' = Front(pool),
                 live' = live \ {Last(pool)} \/ (Last(pool) = NoConn /\ live' = live)
          PROVE  LiveInv'
      <3>1. Range(pool) = Range(pool') \cup {Last(pool)}
        BY <2>3, FrontParts
      <3> QED  BY <2>1, <2>3, <3>1
    <2> QED  BY <1>4, <2>2, <2>3 DEF CloseDrain, Discard, Disconnect
  <1>5. ASSUME \/ SweepBegin \/ SweepDrained \/ SweepEnd \/ SweepStops
               \/ CloseStop \/ CloseJoin \/ Tick \/ UNCHANGED vars
        PROVE  LiveInv'
    <2>1. UNCHANGED <<pool, items, live, held>>
      BY <1>5 DEF SweepBegin, SweepDrained, SweepEnd, SweepStops, CloseStop, CloseJoin, Tick,
                  vars, conns, sweeper
    <2> QED  BY <2>1
  <1> QED  BY <1>1, <1>2, <1>3, <1>4, <1>5 DEF Next, Sweeping, Closing

(* RecyclingHTTPAdapter.close: once it has returned, a socket is open only  *)
(* while a request that was in flight is still using it; the sweeper, which *)
(* holds connections outside the queue, cannot put one back too late.       *)
THEOREM CloseLeavesNothingOpen == Spec => []NothingLeftOpen
<1> DEFINE PInv == OwnInv /\ PhaseInv /\ LiveInv
<1>1. PInv => NothingLeftOpen
  <2> SUFFICES ASSUME PInv, closing = "closed", NEW c \in live PROVE c \in InUse
    BY DEF NothingLeftOpen
  <2>1. pool = <<>> /\ items = <<>> /\ Range(pool) = {} /\ Range(items) = {}
    BY DEF PhaseInv, Range
  <2> QED  BY <2>1, PoolConstants DEF LiveInv, InUse
<1>2. PInv /\ [Next]_vars => PInv'
  BY OwnInvStep, PhaseInvStep, LiveInvStep
<1>3. Init => PInv
  BY OwnInvInit, PhaseInvInit
<1> QED  BY <1>1, <1>2, <1>3, PTL DEF Spec

-----------------------------------------------------------------------------
(* The slots add up.                                                        *)

SlotCount == Len(pool) + Len(items) + Cardinality(Holders)

SlotInv == ~detached => SlotCount >= Size /\ (Block => SlotCount = Size)

(* One request more, or one less, is using a connection. *)
LEMMA HoldersCounted ==
    ASSUME IsFiniteSet(Requests), NEW r \in Requests,
           stage \in [Requests -> {"idle", "waiting", "using"}],
           NEW next \in {"idle", "waiting", "using"}, stage' = [stage EXCEPT ![r] = next]
    PROVE  /\ Cardinality(Holders) \in Nat
           /\ stage[r] # "using" /\ next = "using" =>
                 Cardinality(Holders') = Cardinality(Holders) + 1
           /\ stage[r] = "using" /\ next # "using" =>
                 /\ Cardinality(Holders') = Cardinality(Holders) - 1
                 /\ Cardinality(Holders) > 0
  <1>1. IsFiniteSet(Holders) /\ Cardinality(Holders) \in Nat
    <2>1. Holders \in SUBSET Requests
      BY DEF Holders
    <2>2. IsFiniteSet(Holders)
      BY <2>1, FS_Subset
    <2> QED  BY <2>2, FS_CardinalityType
  <1>2. ASSUME stage[r] # "using", next = "using"
        PROVE  Cardinality(Holders') = Cardinality(Holders) + 1
    <2>1. Holders' = Holders \cup {r} /\ r \notin Holders
      BY <1>2 DEF Holders
    <2>2. Cardinality(Holders \cup {r}) = Cardinality(Holders) + 1
      BY <1>1, <2>1, FS_AddElement
    <2> QED  BY <2>1, <2>2
  <1>3. ASSUME stage[r] = "using", next # "using"
        PROVE  /\ Cardinality(Holders') = Cardinality(Holders) - 1
               /\ Cardinality(Holders) > 0
    <2>1. Holders' = Holders \ {r} /\ r \in Holders
      BY <1>3 DEF Holders
    <2>2. Cardinality(Holders \ {r}) = Cardinality(Holders) - 1
      BY <1>1, <2>1, FS_RemoveElement
    <2>3. Cardinality(Holders) # 0
      BY <1>1, <2>1, FS_EmptySet
    <2> QED  BY <1>1, <2>1, <2>2, <2>3
  <1> QED  BY <1>1, <1>2, <1>3

(* At first every slot is in the queue. *)
LEMMA SlotInvInit == Init => SlotInv
  <1> SUFFICES ASSUME Init PROVE SlotInv
    OBVIOUS
  <1>1. Holders = {}
    BY DEF Init, Holders
  <1>2. Cardinality(Holders) = 0
    BY <1>1, FS_EmptySet
  <1>3. Len(pool) = Size /\ Len(items) = 0
    BY PoolConstants DEF Init
  <1> QED  BY <1>2, <1>3, PoolConstants DEF SlotInv, SlotCount

(* A slot changes its place.  It is only dropped when the queue is full, in *)
(* which case, if requests wait for slots, there is none to drop.           *)
LEMMA SlotInvStep ==
    ASSUME IsFiniteSet(Requests), OwnInv, PhaseInv, SlotInv, [Next]_vars
    PROVE  SlotInv'
  <1> USE PoolConstants DEF SlotInv, SlotCount
  <1>l. Len(pool) \in Nat /\ Len(items) \in Nat /\ NoConn \in Slots
    BY DEF OwnInv, Slots
  <1>a. \A c \in Slots : Len(Append(pool, c)) = Len(pool) + 1 /\ Len(Append(items, c)) = Len(items) + 1
    BY AppendParts DEF OwnInv
  <1>f. pool # <<>> => Len(Front(pool)) = Len(pool) - 1 /\ Len(pool) > 0
    BY FrontParts, <1>l DEF OwnInv
  <1>1. ASSUME NEW r \in Requests, Requesting(r) PROVE SlotInv'
    <2>1. UNCHANGED <<items, detached>>
      BY <1>1 DEF Requesting, Ask, GetPooled, Overflow, Connect, Finish, Break, sweeper
    <2>2. stage \in [Requests -> {"idle", "waiting", "using"}]
      BY DEF OwnInv
    <2>3. CASE Ask(r)
      <3>1. UNCHANGED <<pool, Holders>>
        BY <2>2, <2>3 DEF Ask, Holders
      <3> QED  BY <2>1, <3>1
    <2>4. CASE GetPooled(r)
      <3>1. /\ pool # <<>> /\ pool' = Front(pool) /\ stage[r] = "waiting"
            /\ stage' = [stage EXCEPT ![r] = "using"]
        BY <2>4 DEF GetPooled, Mint, CheckedOut
      <3>2. Cardinality(Holders') = Cardinality(Holders) + 1 /\ Cardinality(Holders) \in Nat
        BY <2>2, <3>1, HoldersCounted
      <3> QED  BY <1>l, <1>f, <2>1, <3>1, <3>2
    <2>5. CASE Overflow(r)
      <3>1. /\ ~Block /\ UNCHANGED pool /\ stage[r] = "waiting"
            /\ stage' = [stage EXCEPT ![r] = "using"]
        BY <2>5 DEF Overflow, Mint, CheckedOut
      <3>2. Cardinality(Holders') = Cardinality(Holders) + 1 /\ Cardinality(Holders) \in Nat
        BY <2>2, <3>1, HoldersCounted
      <3> QED  BY <1>l, <2>1, <3>1, <3>2
    <2>6. CASE Connect(r)
      <3>1. UNCHANGED <<pool, Holders>>
        BY <2>6 DEF Connect, Holders
      <3> QED  BY <2>1, <3>1
    <2>7. CASE Finish(r) \/ Break(r)
      <3>1. stage[r] = "using" /\ stage' = [stage EXCEPT ![r] = "idle"]
        BY <2>7 DEF Finish, Break, Released
      <3>2. /\ Cardinality(Holders') = Cardinality(Holders) - 1
            /\ Cardinality(Holders) \in Nat /\ Cardinality(Holders) > 0
        BY <2>2, <3>1, HoldersCounted
      <3>3. ~detached => \/ Full /\ pool' = pool
                         \/ \E c \in Slots : pool' = Append(pool, c)
        BY <1>l, <2>7 DEF Finish, Break, OwnInv
      <3>4. ~detached => \/ Len(pool) >= Size /\ Len(pool') = Len(pool)
                         \/ Len(pool') = Len(pool) + 1
        BY <3>3, <1>a DEF Full
      <3> QED  BY <1>l, <2>1, <3>2, <3>4
    <2> QED  BY <1>1, <2>3, <2>4, <2>5, <2>6, <2>7 DEF Requesting
  <1>c. Cardinality(Holders) \in Nat
    <2>1. Holders \in SUBSET Requests
      BY DEF Holders
    <2>2. IsFiniteSet(Holders)
      BY <2>1, FS_Subset
    <2> QED  BY <2>2, FS_CardinalityType
  <1>2. CASE SweepDrain
    <2>1. /\ pool # <<>> /\ pool' = Front(pool) /\ items' = Append(items, Last(pool))
          /\ UNCHANGED <<detached, Holders>>
      BY <1>2 DEF SweepDrain, Holders
    <2>2. Last(pool) \in Slots
      BY <2>1, FrontParts DEF OwnInv
    <2> QED  BY <1>l, <1>a, <1>f, <1>c, <2>1, <2>2
  <1>3. CASE SweepItem
    <2>1. /\ items # <<>> /\ items' = Tail(items) /\ UNCHANGED <<detached, Holders>>
      BY <1>3 DEF SweepItem, Holders
    <2>2. Head(items) \in Slots /\ Len(items') = Len(items) - 1 /\ Len(items) > 0
      BY <1>l, <2>1, TailParts DEF OwnInv
    <2>3. \/ Full /\ pool' = pool
          \/ \E c \in Slots : pool' = Append(pool, c)
      BY <1>l, <1>3, <2>2 DEF SweepItem, Evict, PutSlot
    <2>4. \/ Len(pool) >= Size /\ Len(pool') = Len(pool)
          \/ Len(pool') = Len(pool) + 1
      BY <2>3, <1>a DEF Full
    <2> QED  BY <1>l, <1>c, <2>1, <2>2, <2>4
  <1>4. CASE CloseJoin \/ CloseDrain
    <2>1. detached'
      BY <1>4 DEF CloseJoin, CloseDrain, PhaseInv
    <2> QED  BY <2>1
  <1>5. ASSUME \/ SweepBegin \/ SweepDrained \/ SweepEnd \/ SweepStops
               \/ CloseStop \/ Tick \/ UNCHANGED vars
        PROVE  SlotInv'
    <2>1. UNCHANGED <<pool, items, detached, Holders>>
      BY <1>5 DEF SweepBegin, SweepDrained, SweepEnd, SweepStops, CloseStop, Tick,
                  vars, conns, sweeper, Holders
    <2> QED  BY <2>1
  <1> QED  BY <1>1, <1>2, <1>3, <1>4, <1>5 DEF Next, Sweeping, Closing

(* _evict_idle_connections takes the whole queue apart while requests come  *)
(* and go: no slot is lost by it or by failing requests, so an open pool    *)
(* never starves, and with pool_block=True it never exceeds its size.       *)
THEOREM SlotsAddUp == ASSUME IsFiniteSet(Requests) PROVE Spec => []SlotsConserved
<1> DEFINE SInv == OwnInv /\ PhaseInv /\ SlotInv
<1>1. SInv => SlotsConserved
  BY DEF SlotInv, SlotCount, SlotsConserved
<1>2. SInv /\ [Next]_vars => SInv'
  BY OwnInvStep, PhaseInvStep, SlotInvStep
<1>3. Init => SInv
  BY OwnInvInit, PhaseInvInit, SlotInvInit
<1> QED  BY <1>1, <1>2, <1>3, PTL DEF Spec

-----------------------------------------------------------------------------
(* Ages.                                                                    *)

Placed(c) == c \in Range(pool) \cup Range(items) \/ \E r \in Requests : held[r] = c

AgesOf(c) ==
    /\ age[c] \in Nat /\ idle[c] \in Nat /\ tracked[c] \in Nat
    /\ age[c] <= AgeCap /\ idle[c] <= AgeCap
    /\ age[c] <= tracked[c] /\ idle[c] <= tracked[c]
    /\ Placed(c) => tracked[c] # Untracked

AgeInv ==
    /\ DOMAIN age = Conns /\ DOMAIN idle = Conns /\ DOMAIN tracked = Conns
    /\ \A c \in Conns : AgesOf(c)
    /\ \A r \in Requests : held[r] # NoConn => idle[held[r]] = 0

(* No connection has an age yet. *)
LEMMA AgeInvInit == Init => AgeInv
  <1> SUFFICES ASSUME Init PROVE AgeInv
    OBVIOUS
  <1>1. Range(pool) \subseteq {NoConn} /\ Range(items) = {}
    BY DEF Init, Range
  <1> QED  BY <1>1, PoolConstants DEF Init, AgeInv, AgesOf, Placed, Untracked, AgeCap

(* Whichever way a connection moves, it stays tracked while it is somewhere *)
(* and is forgotten when it is discarded.                                   *)
Kept(c) ==
    /\ age'[c] = age[c] /\ tracked'[c] = tracked[c] /\ idle'[c] \in {0, idle[c]}
    /\ Placed(c)' => Placed(c)

Minted(c) == age'[c] = 0 /\ tracked'[c] = 0 /\ idle'[c] = 0

Gone(c) ==
    age'[c] = 0 /\ tracked'[c] = Untracked /\ idle'[c] = idle[c] /\ ~Placed(c)'

(* Each of the three ways keeps what is known of the age. *)
LEMMA AgesCarried ==
    ASSUME NEW c \in Conns, AgesOf(c), Kept(c) \/ Minted(c) \/ Gone(c)
    PROVE  AgesOf(c)'
  <1>1. AgeCap \in Nat /\ Untracked = AgeCap + 1
    BY PoolConstants DEF AgeCap, Untracked
  <1> QED  BY <1>1 DEF AgesOf, Kept, Minted, Gone

(* The functions keep their domains. *)
LEMMA AgeDomains ==
    ASSUME AgeInv, [Next]_vars
    PROVE  DOMAIN age' = Conns /\ DOMAIN idle' = Conns /\ DOMAIN tracked' = Conns
  <1> USE DEF AgeInv, Discard, Disconnect, conns
  <1>1. ASSUME NEW r \in Requests, Requesting(r)
        PROVE  DOMAIN age' = Conns /\ DOMAIN idle' = Conns /\ DOMAIN tracked' = Conns
    <2>1. CASE Ask(r) \/ Connect(r)
      BY <2>1 DEF Ask, Connect
    <2>2. CASE GetPooled(r)
      BY <2>2 DEF GetPooled, Mint, CheckedOut, Recycle
    <2>3. CASE Overflow(r)
      BY <2>3 DEF Overflow, Mint, CheckedOut
    <2>4. CASE Finish(r)
      BY <2>4 DEF Finish
    <2>5. CASE Break(r)
      BY <2>5 DEF Break
    <2> QED  BY <1>1, <2>1, <2>2, <2>3, <2>4, <2>5 DEF Requesting
  <1>2. CASE SweepItem
    BY <1>2 DEF SweepItem, Evict
  <1>3. CASE CloseDrain
    BY <1>3 DEF CloseDrain
  <1>4. CASE Tick
    BY <1>4 DEF Tick
  <1>5. CASE \/ SweepBegin \/ SweepDrain \/ SweepDrained \/ SweepEnd \/ SweepStops
             \/ CloseStop \/ CloseJoin \/ UNCHANGED vars
    BY <1>5 DEF SweepBegin, SweepDrain, SweepDrained, SweepEnd, SweepStops, CloseStop,
                CloseJoin, vars
  <1> QED  BY <1>1, <1>2, <1>3, <1>4, <1>5 DEF Next, Sweeping, Closing

(* Only the connection that is discarded is forgotten. *)
LEMMA DiscardAges ==
    ASSUME AgeInv, NEW c \in Conns, Discard(c), UNCHANGED idle,
           c \notin Range(pool') \cup Range(items'), \A r \in Requests : held'[r] # c,
           Range(pool') \subseteq Range(pool) \cup {NoConn}, Range(items') \subseteq Range(items),
           \A r \in Requests : held'[r] \in {held[r], NoConn}
    PROVE  Gone(c) /\ \A x \in Conns \ {c} : Kept(x)
  <1>1. age' = [age EXCEPT ![c] = 0] /\ tracked' = [tracked EXCEPT ![c] = Untracked]
    BY DEF Discard, Disconnect
  <1>2. ~Placed(c)'
    BY DEF Placed
  <1>3. \A x \in Conns \ {c} : Placed(x)' => Placed(x)
    BY PoolConstants DEF Placed
  <1>4. Gone(c)
    BY <1>1, <1>2 DEF Gone, AgeInv
  <1>5. \A x \in Conns \ {c} : Kept(x)
    BY <1>1, <1>3 DEF Kept, AgeInv
  <1> QED  BY <1>4, <1>5

(* What a request does to the ages of the connections. *)
LEMMA RequestAges ==
    ASSUME OwnInv, AgeInv, NEW r \in Requests, Requesting(r)
    PROVE  /\ \A c \in Conns : Kept(c) \/ Minted(c) \/ Gone(c)
           /\ \A s \in Requests : held'[s] # NoConn => idle'[held'[s]] = 0
  <1> USE PoolConstants DEF OwnInv, AgeInv, AgesOf
  <1> DEFINE Goal == /\ \A c \in Conns : Kept(c) \/ Minted(c) \/ Gone(c)
                     /\ \A s \in Requests : held'[s] # NoConn => idle'[held'[s]] = 0
  <1>s. \A s \in Requests : held[s] # NoConn => held[s] \in Conns
    BY DEF Slots
  <1>1. CASE Ask(r) \/ Connect(r)
    <2>1. UNCHANGED <<pool, items, held, tracked, age, idle>>
      BY <1>1 DEF Ask, Connect, conns, sweeper
    <2> QED  BY <2>1 DEF Kept, Placed
  <1>2. ASSUME Mint(r), UNCHANGED items, Range(pool') \subseteq Range(pool), stage[r] = "waiting"
        PROVE  Goal
    <2>1. PICK c \in Conns \ Referenced : /\ held' = [held EXCEPT ![r] = c]
                                          /\ idle' = [idle EXCEPT ![c] = 0]
                                          /\ age' = [age EXCEPT ![c] = 0]
                                          /\ tracked' = [tracked EXCEPT ![c] = 0]
      BY <1>2 DEF Mint, CheckedOut, Disconnect
    <2>2. Minted(c) /\ \A x \in Conns \ {c} : Kept(x)
      BY <1>2, <2>1 DEF Minted, Kept, Placed
    <2> QED  BY <1>s, <2>1, <2>2
  <1>3. ASSUME GetPooled(r), Last(pool) # NoConn, CheckedOut(r, Last(pool)),
               \E dropped \in BOOLEAN : Recycle(Last(pool), dropped)
        PROVE  Goal
    <2> DEFINE c == Last(pool)
    <2>1. /\ Range(pool) = Range(pool') \cup {c} /\ UNCHANGED items /\ c \in Slots
      BY <1>3, FrontParts DEF GetPooled, sweeper
    <2>2. /\ held' = [held EXCEPT ![r] = c] /\ idle' = [idle EXCEPT ![c] = 0] /\ c \in Conns
      BY <1>3, <2>1 DEF CheckedOut, Slots
    <2>3. \/ UNCHANGED <<age, tracked>>
          \/ age' = [age EXCEPT ![c] = 0] /\ tracked' = [tracked EXCEPT ![c] = 0]
      BY <1>3 DEF Recycle, Disconnect
    <2> HIDE DEF c
    <2>4. \A x \in Conns \ {c} : Kept(x)
      BY <2>1, <2>2, <2>3 DEF Kept, Placed
    <2>5. Kept(c) \/ Minted(c)
      BY <2>1, <2>2, <2>3 DEF Kept, Minted, Placed
    <2> QED  BY <1>s, <2>2, <2>4, <2>5
  <1>4. CASE GetPooled(r)
    <2>1. Range(pool') \subseteq Range(pool) /\ UNCHANGED items /\ stage[r] = "waiting"
      BY <1>4, FrontParts DEF GetPooled, sweeper
    <2> QED  BY <1>2, <1>3, <1>4, <2>1 DEF GetPooled
  <1>5. CASE Overflow(r)
    BY <1>2, <1>5 DEF Overflow, sweeper
  <1>6. ASSUME held[r] \in Conns, Discard(held[r]), held' = [held EXCEPT ![r] = NoConn],
               UNCHANGED <<items, idle>>, Range(pool') \subseteq Range(pool) \cup {NoConn}
        PROVE  Goal
    <2>1. held[r] \notin Range(pool') \cup Range(items') /\ \A q \in Requests : held'[q] # held[r]
      BY <1>6
    <2>2. Gone(held[r]) /\ \A x \in Conns \ {held[r]} : Kept(x)
      BY <1>6, <2>1, DiscardAges
    <2> QED  BY <1>6, <2>2
  <1>7. CASE Finish(r)
    <2>1. /\ held[r] \in Conns /\ held' = [held EXCEPT ![r] = NoConn]
          /\ UNCHANGED <<items, idle>>
      BY <1>7, <1>s DEF Finish, Released, sweeper
    <2>2. CASE Discard(held[r]) /\ UNCHANGED pool
      BY <1>6, <2>1, <2>2
    <2>3. CASE pool' = Append(pool, held[r]) /\ UNCHANGED <<live, age, tracked>>
      <3>1. Range(pool') = Range(pool) \cup {held[r]}
        BY <2>1, <2>3, AppendParts DEF Slots
      <3>2. \A x \in Conns : Kept(x)
        BY <2>1, <2>3, <3>1 DEF Kept, Placed
      <3> QED  BY <2>1, <3>2
    <2> QED  BY <1>7, <2>2, <2>3 DEF Finish
  <1>8. CASE Break(r)
    <2>1. /\ held[r] \in Conns /\ held' = [held EXCEPT ![r] = NoConn]
          /\ UNCHANGED <<items, idle>> /\ Discard(held[r])
      BY <1>8, <1>s DEF Break, Released, sweeper
    <2>2. Range(pool') \subseteq Range(pool) \cup {NoConn}
      BY <1>8, AppendParts DEF Break, Slots
    <2> QED  BY <1>6, <2>1, <2>2
  <1> QED  BY <1>1, <1>4, <1>5, <1>7, <1>8 DEF Requesting

(* The sweep and close() move connections, or discard them for good. *)
LEMMA SweepAges ==
    ASSUME OwnInv, AgeInv, SweepDrain \/ SweepItem \/ CloseDrain
    PROVE  /\ \A c \in Conns : Kept(c) \/ Minted(c) \/ Gone(c)
           /\ UNCHANGED <<held, idle>>
  <1> USE PoolConstants DEF OwnInv, AgeInv, AgesOf
  <1>0. UNCHANGED <<held, idle>>
    BY DEF SweepDrain, SweepItem, CloseDrain, conns
  <1>1. CASE SweepDrain
    <2>1. /\ pool # <<>> /\ pool' = Front(pool) /\ items' = Append(items, Last(pool))
          /\ UNCHANGED <<age, tracked>>
      BY <1>1 DEF SweepDrain, conns
    <2>2. Last(pool) \in Slots /\ Range(pool) = Range(pool') \cup {Last(pool)}
      BY <2>1, FrontParts
    <2>3. Range(items') = Range(items) \cup {Last(pool)}
      BY <2>1, <2>2, AppendParts
    <2> QED  BY <1>0, <2>1, <2>2, <2>3 DEF Kept, Placed
  <1>2. CASE SweepItem
    <2> DEFINE c == Head(items)
    <2>1. items # <<>> /\ items' = Tail(items)
      BY <1>2 DEF SweepItem
    <2>2. /\ c \in Slots /\ Range(items) = Range(items') \cup {c}
          /\ c # NoConn => c \notin Range(items')
      BY <2>1, TailParts
    <2>3. \A x \in Slots : Range(Append(pool, x)) = Range(pool) \cup {x}
      BY AppendParts
    <2> HIDE DEF c
    <2>4. ASSUME PutSlot, UNCHANGED <<age, tracked>>
          PROVE  \A x \in Conns : Kept(x)
      <3>1. Range(pool') \subseteq Range(pool) \cup {NoConn}
        BY <2>3, <2>4 DEF PutSlot, Slots
      <3> QED  BY <1>0, <2>2, <2>4, <3>1 DEF Kept, Placed
    <2>5. ASSUME c # NoConn, Evict(c)
          PROVE  Gone(c) /\ c \in Conns /\ \A x \in Conns \ {c} : Kept(x)
      <3>1. Range(pool') \subseteq Range(pool) \cup {NoConn}
        BY <2>3, <2>5 DEF Evict, PutSlot, Slots
      <3>2. Discard(c) /\ c \in Conns
        BY <2>2, <2>5 DEF Evict, Slots
      <3>3. c \notin Range(pool') \cup Range(items') /\ \A q \in Requests : held'[q] # c
        BY <1>0, <2>2, <2>5, <3>1
      <3> QED  BY <1>0, <2>2, <3>1, <3>2, <3>3, DiscardAges
    <2>6. ASSUME pool' = Append(pool, c), UNCHANGED <<age, tracked>>
          PROVE  \A x \in Conns : Kept(x)
      BY <1>0, <2>2, <2>3, <2>6 DEF Kept, Placed
    <2> QED  BY <1>0, <1>2, <2>4, <2>5, <2>6 DEF SweepItem, c
  <1>3. CASE CloseDrain
    <2>1. UNCHANGED items
      BY <1>3 DEF CloseDrain, sweeper
    <2>2. ASSUME UNCHANGED <<pool, age, tracked>> PROVE \A x \in Conns : Kept(x)
      BY <1>0, <2>1, <2>2 DEF Kept, Placed
    <2>3. ASSUME pool # <<>>, pool' = Front(pool),
                 IF Last(pool) = NoConn THEN UNCHANGED <<live, age, tracked>>
                                        ELSE Discard(Last(pool))
          PROVE  \A x \in Conns : Kept(x) \/ Gone(x)
      <3>1. /\ Last(pool) \in Slots /\ Range(pool) = Range(pool') \cup {Last(pool)}
            /\ Last(pool) # NoConn => Last(pool) \notin Range(pool')
        BY <2>3, FrontParts
      <3>2. CASE Last(pool) = NoConn
        BY <1>0, <2>1, <2>3, <3>1, <3>2 DEF Kept, Placed
      <3>3. ASSUME Last(pool) # NoConn PROVE \A x \in Conns : Kept(x) \/ Gone(x)
        <4> DEFINE c == Last(pool)
        <4>1. Discard(c) /\ c \in Conns
          BY <2>3, <3>1, <3>3 DEF Slots
        <4>2. /\ c \notin Range(pool') /\ c \in Range(pool) /\ c # NoConn
              /\ Range(pool') \subseteq Range(pool)
          BY <3>1, <3>3
        <4> HIDE DEF c
        <4>3. c \notin Range(pool') \cup Range(items') /\ \A q \in Requests : held'[q] # c
          BY <1>0, <2>1, <4>2
        <4>4. Gone(c) /\ \A x \in Conns \ {c} : Kept(x)
          BY <1>0, <2>1, <4>1, <4>2, <4>3, DiscardAges
        <4> QED  BY <4>4
      <3> QED  BY <3>2, <3>3
    <2> QED  BY <1>0, <1>3, <2>2, <2>3 DEF CloseDrain
  <1> QED  BY <1>1, <1>2, <1>3

(* Every step keeps the ages: each connection goes one of the three ways. *)
LEMMA AgeInvStep ==
    ASSUME OwnInv, AgeInv, [Next]_vars
    PROVE  AgeInv'
  <1> USE PoolConstants
  <1>d. DOMAIN age' = Conns /\ DOMAIN idle' = Conns /\ DOMAIN tracked' = Conns
    BY AgeDomains
  <1>a. \A c \in Conns : AgesOf(c)
    BY DEF AgeInv
  <1>1. ASSUME \A c \in Conns : Kept(c) \/ Minted(c) \/ Gone(c),
               \A s \in Requests : held'[s] # NoConn => idle'[held'[s]] = 0
        PROVE  AgeInv'
    <2>1. \A c \in Conns : AgesOf(c)'
      BY <1>1, <1>a, AgesCarried
    <2> QED  BY <1>d, <1>1, <2>1 DEF AgeInv
  <1>2. ASSUME NEW r \in Requests, Requesting(r) PROVE AgeInv'
    BY <1>1, <1>2, RequestAges
  <1>3. CASE SweepDrain \/ SweepItem \/ CloseDrain
    BY <1>1, <1>3, SweepAges DEF AgeInv
  <1>4. CASE Tick
    <2>1. \A c \in Conns : AgesOf(c)'
      <3> SUFFICES ASSUME NEW c \in Conns PROVE AgesOf(c)'
        OBVIOUS
      <3>1. AgeCap \in Nat /\ Untracked = AgeCap + 1
        BY DEF AgeCap, Untracked
      <3>2. /\ tracked'[c] = Older(tracked[c])
            /\ age'[c] \in {Older(age[c]), 0} /\ idle'[c] \in {Older(idle[c]), 0}
        BY <1>4 DEF Tick
      <3>3. Placed(c)' <=> Placed(c)
        BY <1>4 DEF Tick, Placed
      <3> QED  BY <1>a, <3>1, <3>2, <3>3 DEF AgesOf, Older
    <2>2. \A r \in Requests : held'[r] # NoConn => idle'[held'[r]] = 0
      <3> SUFFICES ASSUME NEW r \in Requests, held[r] # NoConn PROVE idle'[held[r]] = 0
        BY <1>4 DEF Tick
      <3>1. held[r] \in InUse /\ held[r] \in Conns
        BY DEF InUse, OwnInv, Slots
      <3> QED  BY <1>4, <3>1 DEF Tick
    <2> QED  BY <1>d, <2>1, <2>2 DEF AgeInv
  <1>5. CASE \/ SweepBegin \/ SweepDrained \/ SweepEnd \/ SweepStops
             \/ CloseStop \/ CloseJoin \/ UNCHANGED vars
    <2>1. UNCHANGED <<pool, items, conns>>
      BY <1>5 DEF SweepBegin, SweepDrained, SweepEnd, SweepStops, CloseStop, CloseJoin,
                  vars, sweeper
    <2> QED  BY <2>1 DEF AgeInv, AgesOf, Placed, conns
  <1> QED  BY <1>2, <1>3, <1>4, <1>5 DEF Next, Sweeping, Closing

(* _get_conn: a request never starts on a socket that was opened more than  *)
(* keep_alive_seconds ago, since a socket is never older than the time      *)
(* recorded for its connection, and no connection in the queue lacks one.   *)
THEOREM CheckoutsAreFresh == Spec => FreshCheckout
<1> DEFINE Fresh == \A r \in Requests :
                       stage[r] = "waiting" /\ stage'[r] = "using" /\ held'[r] \in live'
                          => age[held'[r]] <= KeepAlive
<1>1. OwnInv /\ AgeInv /\ [Next]_vars => [Fresh]_vars
  <2> SUFFICES ASSUME OwnInv, AgeInv, [Next]_vars, NEW r \in Requests,
                      stage[r] = "waiting", stage'[r] = "using", held'[r] \in live'
               PROVE  age[held'[r]] <= KeepAlive
    OBVIOUS
  <2>1. GetPooled(r) \/ Overflow(r)
    <3>1. ASSUME NEW q \in Requests, Requesting(q) PROVE GetPooled(r) \/ Overflow(r)
      <4>1. \E label : stage' = [stage EXCEPT ![q] = label] \/ UNCHANGED stage
        BY <3>1 DEF Requesting, Ask, GetPooled, Overflow, Connect, Finish, Break, Mint,
                    CheckedOut, Released
      <4>2. q = r
        BY <4>1 DEF OwnInv
      <4>3. ~(Ask(r) \/ Connect(r) \/ Finish(r) \/ Break(r))
        BY DEF Ask, Connect, Finish, Break, OwnInv
      <4> QED  BY <3>1, <4>2, <4>3 DEF Requesting
    <3>2. CASE Sweeping \/ Closing \/ Tick \/ UNCHANGED vars
      BY <3>2 DEF Sweeping, SweepBegin, SweepDrain, SweepDrained, SweepItem, SweepEnd,
                  SweepStops, Closing, CloseStop, CloseJoin, CloseDrain, Tick, vars
    <3> QED  BY <3>1, <3>2 DEF Next
  <2>2. ~Mint(r)
    BY DEF Mint, CheckedOut, Disconnect, OwnInv
  <2>3. /\ pool # <<>> /\ Last(pool) # NoConn /\ CheckedOut(r, Last(pool))
        /\ \E dropped \in BOOLEAN : Recycle(Last(pool), dropped)
    BY <2>1, <2>2 DEF GetPooled, Overflow
  <2> DEFINE c == Last(pool)
  <2>4. c \in Range(pool) /\ c \in Conns
    BY <2>3, FrontParts DEF OwnInv, Slots
  <2>5. held'[r] = c
    BY <2>3 DEF CheckedOut, OwnInv
  <2>6. PICK dropped \in BOOLEAN : Recycle(c, dropped)
    BY <2>3
  <2> HIDE DEF c
  <2>7. AgesOf(c) /\ tracked[c] # Untracked
    BY <2>4 DEF AgeInv, AgesOf, Placed
  <2>8. tracked[c] <= KeepAlive
    BY <2>5, <2>6, <2>7, PoolConstants DEF Recycle, Disconnect, AgesOf
  <2> QED  BY <2>5, <2>7, <2>8, PoolConstants DEF AgesOf
<1>2. OwnInv /\ AgeInv /\ [Next]_vars => (OwnInv /\ AgeInv)'
  BY OwnInvStep, AgeInvStep
<1>3. Init => OwnInv /\ AgeInv
  BY OwnInvInit, AgeInvInit
<1> QED  BY <1>1, <1>2, <1>3, PTL DEF Spec, FreshCheckout

-----------------------------------------------------------------------------
(* What waits in the queue has survived the last sweep, at which it was at  *)
(* most keep_alive_seconds old, or was returned since, and then is idle for *)
(* no longer than the sweeper has slept.                                    *)
IdleInv ==
    closing = "open" =>
        /\ sweep \in {"sleep", "drain", "restore"}
        /\ untilSweep \in 0 .. Interval
        /\ sweep # "sleep" => untilSweep = 0
        /\ \A c \in Range(pool) \ {NoConn} :
              idle[c] + untilSweep <= KeepAlive + (IF sweep = "restore" THEN 0 ELSE Interval)
        /\ \A c \in Range(items) \ {NoConn} : idle[c] <= KeepAlive + Interval

(* Nothing is idle at first. *)
LEMMA IdleInvInit == Init => IdleInv
  <1> SUFFICES ASSUME Init PROVE IdleInv
    OBVIOUS
  <1>1. Range(pool) \subseteq {NoConn} /\ Range(items) = {}
    BY DEF Init, Range
  <1> QED  BY <1>1, PoolConstants DEF Init, IdleInv

(* Every step keeps the bound: a tick takes from the time to the next sweep *)
(* what it adds to the idle time, and a sweep closes what has aged.        *)
LEMMA IdleInvStep ==
    ASSUME OwnInv, PhaseInv, AgeInv, IdleInv, [Next]_vars
    PROVE  IdleInv'
  <1> SUFFICES ASSUME closing' = "open" PROVE IdleInv'
    BY DEF IdleInv
  <1> USE PoolConstants
  <1>o. closing = "open"
    BY DEF Next, Requesting, Ask, GetPooled, Overflow, Connect, Finish, Break, Sweeping,
           SweepBegin, SweepDrain, SweepDrained, SweepItem, SweepEnd, SweepStops, Closing,
           CloseStop, CloseJoin, CloseDrain, Tick, vars
  <1>i. /\ \A c \in Conns : idle[c] \in Nat /\ idle[c] <= tracked[c] /\ tracked[c] \in Nat
        /\ DOMAIN idle = Conns
    BY DEF AgeInv, AgesOf
  <1>p. \A c \in (Range(pool) \cup Range(items)) \ {NoConn} : c \in Conns
    BY DEF OwnInv, Slots, Range
  <1>1. ASSUME NEW r \in Requests, Requesting(r) PROVE IdleInv'
    <2>1. UNCHANGED <<items, sweep, untilSweep>>
      BY <1>1 DEF Requesting, Ask, GetPooled, Overflow, Connect, Finish, Break, sweeper
    <2>2. \A c \in Conns : idle'[c] \in {0, idle[c]}
      BY <1>1, <1>i, RequestAges DEF Kept, Minted, Gone
    <2>3. \A c \in Range(pool') \ {NoConn} : c \in Range(pool) \/ (c \in Conns /\ idle'[c] = 0)
      <3>1. CASE Finish(r)
        <4>1. held[r] \in Slots /\ UNCHANGED idle
          BY <3>1 DEF Finish, OwnInv
        <4>2. Range(Append(pool, held[r])) = Range(pool) \cup {held[r]}
          BY <4>1, AppendParts DEF OwnInv
        <4>3. held[r] # NoConn => held[r] \in Conns /\ idle[held[r]] = 0
          BY <4>1 DEF AgeInv, Slots
        <4>4. pool' = pool \/ pool' = Append(pool, held[r])
          BY <3>1 DEF Finish
        <4>5. Range(pool') \subseteq Range(pool) \cup {held[r]}
          BY <4>2, <4>4
        <4>6. \A c \in Range(pool') \ {NoConn} :
                 c \in Range(pool) \/ (c = held[r] /\ held[r] # NoConn)
          BY <4>5
        <4> QED  BY <4>1, <4>3, <4>6
      <3>2. CASE Break(r)
        <4>1. Range(Append(pool, NoConn)) = Range(pool) \cup {NoConn}
          BY AppendParts DEF OwnInv, Slots
        <4> QED  BY <3>2, <4>1 DEF Break
      <3>3. CASE Ask(r) \/ GetPooled(r) \/ Overflow(r) \/ Connect(r)
        <4>1. pool' = pool \/ (pool # <<>> /\ pool' = Front(pool))
          BY <3>3 DEF Ask, GetPooled, Overflow, Connect
        <4>2. pool # <<>> => Range(Front(pool)) \subseteq Range(pool)
          BY FrontParts DEF OwnInv
        <4> QED  BY <4>1, <4>2
      <3> QED  BY <1>1, <3>1, <3>2, <3>3 DEF Requesting
    <2> QED  BY <1>o, <1>i, <1>p, <2>1, <2>2, <2>3 DEF IdleInv
  <1>2. CASE SweepBegin
    BY <1>2, <1>o DEF SweepBegin, IdleInv, conns
  <1>3. CASE SweepDrain
    <2>1. /\ pool # <<>> /\ pool' = Front(pool) /\ items' = Append(items, Last(pool))
          /\ UNCHANGED <<sweep, untilSweep, idle>> /\ sweep = "drain"
      BY <1>3 DEF SweepDrain, conns
    <2>2. Last(pool) \in Slots /\ Range(pool) = Range(pool') \cup {Last(pool)}
      BY <2>1, FrontParts DEF OwnInv
    <2>3. Range(items') = Range(items) \cup {Last(pool)}
      BY <2>1, <2>2, AppendParts DEF OwnInv
    <2> QED  BY <1>o, <1>i, <1>p, <2>1, <2>2, <2>3 DEF IdleInv
  <1>4. CASE SweepDrained
    <2>1. Range(pool') = {}
      BY <1>4 DEF SweepDrained, Range
    <2> QED  BY <1>4, <1>o, <2>1 DEF SweepDrained, IdleInv, conns
  <1>5. CASE SweepItem
    <2> DEFINE c == Head(items)
    <2>1. /\ items # <<>> /\ items' = Tail(items) /\ UNCHANGED <<sweep, untilSweep, idle>>
          /\ sweep = "restore"
      BY <1>5 DEF SweepItem
    <2>2. c \in Slots /\ Range(items) = Range(items') \cup {c}
      BY <2>1, TailParts DEF OwnInv
    <2>3. \A x \in Slots : Range(Append(pool, x)) = Range(pool) \cup {x}
      BY AppendParts DEF OwnInv
    <2>4. /\ NoConn \in Slots
          /\ c # NoConn => c \in Conns /\ Placed(c)
      BY <2>2 DEF Slots, Placed
    <2>5. c # NoConn => tracked[c] # Untracked
      BY <2>4 DEF AgeInv, AgesOf
    <2> HIDE DEF c
    <2>6. ASSUME PutSlot PROVE IdleInv'
      <3>1. Range(pool') \subseteq Range(pool) \cup {NoConn}
        BY <2>3, <2>4, <2>6 DEF PutSlot
      <3> QED  BY <1>o, <2>1, <2>2, <3>1 DEF IdleInv
    <2>7. ASSUME c # NoConn, ~Stale(c), pool' = Append(pool, c) PROVE IdleInv'
      <3>1. idle[c] <= KeepAlive
        BY <1>i, <2>4, <2>5, <2>7 DEF Stale
      <3> QED  BY <1>o, <1>i, <2>1, <2>2, <2>3, <2>4, <2>7, <3>1 DEF IdleInv
    <2> QED  BY <1>5, <2>6, <2>7 DEF SweepItem, Evict, c
  <1>6. CASE SweepEnd
    <2>1. Range(items) = {}
      BY <1>6 DEF SweepEnd, Range
    <2> QED  BY <1>6, <1>o, <1>i, <1>p, <2>1 DEF SweepEnd, IdleInv, conns
  <1>7. CASE SweepStops \/ Closing
    BY <1>7, <1>o DEF SweepStops, Closing, CloseStop, CloseJoin, CloseDrain
  <1>8. CASE Tick
    <2>1. /\ UNCHANGED <<pool, items, sweep>> /\ sweep = "sleep" /\ untilSweep > 0
          /\ untilSweep' = untilSweep - 1
      BY <1>8, <1>o DEF Tick, IdleInv
    <2>2. Range(items) = {}
      BY <2>1 DEF PhaseInv, Range
    <2>3. \A c \in Conns : idle'[c] \in {0, idle[c], idle[c] + 1}
      BY <1>8 DEF Tick, Older
    <2> QED  BY <1>o, <1>i, <1>p, <2>1, <2>2, <2>3 DEF IdleInv
  <1>9. CASE UNCHANGED vars
    BY <1>9 DEF vars, IdleInv, conns, sweeper
  <1> QED
    BY <1>1, <1>2, <1>3, <1>4, <1>5, <1>6, <1>7, <1>8, <1>9 DEF Next, Sweeping

(* _sweep_loop: while the client is open, no socket is left unused in the   *)
(* pool for longer than keep_alive_seconds and one sweep interval, whatever *)
(* requests take from the queue and return to it during a sweep.            *)
THEOREM IdleSocketsAreSwept == Spec => []IdleBounded
<1> DEFINE AInv == OwnInv /\ PhaseInv /\ LiveInv /\ AgeInv /\ IdleInv
<1>1. AInv => IdleBounded
  <2> SUFFICES ASSUME AInv, closing = "open", NEW c \in Range(pool) \cup Range(items), c \in live
               PROVE  idle[c] <= KeepAlive + Interval
    BY DEF IdleBounded
  <2>0. c \in Conns
    BY DEF LiveInv
  <2>1. idle[c] \in Nat /\ c # NoConn
    BY <2>0, PoolConstants DEF AgeInv, AgesOf
  <2> QED  BY <2>1, PoolConstants DEF IdleInv
<1>2. AInv /\ [Next]_vars => AInv'
  BY OwnInvStep, PhaseInvStep, LiveInvStep, AgeInvStep, IdleInvStep
<1>3. Init => AInv
  BY OwnInvInit, PhaseInvInit, AgeInvInit, IdleInvInit
<1> QED  BY <1>1, <1>2, <1>3, PTL DEF Spec

-----------------------------------------------------------------------------
(* Types and sizes.  The queue never outgrows its slots, and a sweep holds  *)
(* no more than the slots and the requests that refilled the queue.         *)

Active == {r \in Requests : stage[r] # "idle"}

SizeInv ==
    /\ Len(pool) <= Size
    /\ Len(items) + Len(pool) + Cardinality(Active)
         <= Size + MaxDrained + Cardinality(Requests)

StateInv ==
    /\ detached \in BOOLEAN
    /\ sweep \in {"sleep", "drain", "restore", "ended"}
    /\ untilSweep \in 0 .. Interval
    /\ closing \in {"open", "stopping", "draining", "closed"}

(* The whole queue is there, the sweeper sleeps, no request is active. *)
LEMMA SizeInvInit == IsFiniteSet(Requests) /\ Init => SizeInv /\ StateInv
  <1> SUFFICES ASSUME IsFiniteSet(Requests), Init PROVE SizeInv /\ StateInv
    OBVIOUS
  <1>1. Active = {} /\ Len(pool) = Size /\ Len(items) = 0
    BY PoolConstants DEF Init, Active
  <1>2. Cardinality(Active) = 0 /\ Cardinality(Requests) \in Nat
    BY <1>1, FS_EmptySet, FS_CardinalityType
  <1>3. SizeInv
    BY <1>1, <1>2, PoolConstants DEF SizeInv
  <1>4. untilSweep \in 0 .. Interval
    BY PoolConstants DEF Init
  <1>5. /\ detached \in BOOLEAN /\ sweep \in {"sleep", "drain", "restore", "ended"}
        /\ closing \in {"open", "stopping", "draining", "closed"}
    BY DEF Init
  <1> QED  BY <1>3, <1>4, <1>5 DEF StateInv

(* Closing, sweeping and ticking keep the places they are at. *)
LEMMA StateInvStep == StateInv /\ [Next]_vars => StateInv'
  <1> SUFFICES ASSUME StateInv, [Next]_vars PROVE StateInv'
    OBVIOUS
  <1> USE PoolConstants DEF StateInv, sweeper
  <1>1. ASSUME NEW r \in Requests, Requesting(r) PROVE StateInv'
    BY <1>1 DEF Requesting, Ask, GetPooled, Overflow, Connect, Finish, Break
  <1>2. CASE Sweeping
    BY <1>2 DEF Sweeping, SweepBegin, SweepDrain, SweepDrained, SweepItem, SweepEnd, SweepStops
  <1>3. CASE Closing
    BY <1>3 DEF Closing, CloseStop, CloseJoin, CloseDrain
  <1>4. CASE Tick \/ UNCHANGED vars
    BY <1>4 DEF Tick, vars
  <1> QED  BY <1>1, <1>2, <1>3, <1>4 DEF Next

AgesTyped ==
    /\ age \in [Conns -> Ages] /\ idle \in [Conns -> Ages]
    /\ tracked \in [Conns -> Ages \cup {Untracked}]

(* Ages start anew or grow up to the cap. *)
LEMMA AgesTypedStep == AgesTyped /\ [Next]_vars => AgesTyped'
  <1> SUFFICES ASSUME AgesTyped, [Next]_vars PROVE AgesTyped'
    OBVIOUS
  <1>0. AgeCap \in Nat /\ Untracked = AgeCap + 1 /\ 0 \in Ages
    BY PoolConstants DEF AgeCap, Untracked, Ages
  <1>1. ASSUME NEW r \in Requests, Requesting(r) PROVE AgesTyped'
    <2> USE <1>0 DEF AgesTyped, Discard, Disconnect, conns
    <2>1. CASE Ask(r) \/ Connect(r)
      BY <2>1 DEF Ask, Connect
    <2>2. CASE GetPooled(r)
      BY <2>2 DEF GetPooled, Mint, CheckedOut, Recycle
    <2>3. CASE Overflow(r)
      BY <2>3 DEF Overflow, Mint, CheckedOut
    <2>4. CASE Finish(r) \/ Break(r)
      BY <2>4 DEF Finish, Break
    <2> QED  BY <1>1, <2>1, <2>2, <2>3, <2>4 DEF Requesting
  <1>2. CASE SweepItem \/ CloseDrain
    BY <1>0, <1>2 DEF AgesTyped, SweepItem, Evict, CloseDrain, Discard, Disconnect
  <1>3. CASE Tick
    <2>1. \A a \in Ages : Older(a) \in Ages
      BY <1>0 DEF Older, Ages
    <2>2. Older(Untracked) = Untracked
      BY <1>0 DEF Older
    <2> QED  BY <1>0, <1>3, <2>1, <2>2 DEF Tick, AgesTyped
  <1>4. CASE \/ SweepBegin \/ SweepDrain \/ SweepDrained \/ SweepEnd \/ SweepStops
             \/ CloseStop \/ CloseJoin \/ UNCHANGED vars
    BY <1>4 DEF AgesTyped, SweepBegin, SweepDrain, SweepDrained, SweepEnd, SweepStops,
                CloseStop, CloseJoin, vars, conns
  <1> QED  BY <1>1, <1>2, <1>3, <1>4 DEF Next, Sweeping, Closing

(* A request becomes active, stays active, or is over. *)
LEMMA ActiveCounted ==
    ASSUME IsFiniteSet(Requests), NEW r \in Requests,
           stage \in [Requests -> {"idle", "waiting", "using"}],
           NEW next \in {"idle", "waiting", "using"}, stage' = [stage EXCEPT ![r] = next]
    PROVE  /\ Cardinality(Active) \in Nat /\ Cardinality(Active') \in Nat
           /\ Cardinality(Active') <= Cardinality(Requests)
           /\ stage[r] # "idle" /\ next # "idle" => Cardinality(Active') = Cardinality(Active)
           /\ stage[r] # "idle" /\ next = "idle" => Cardinality(Active') = Cardinality(Active) - 1
  <1>1. /\ Active \in SUBSET Requests /\ Active' \in SUBSET Requests
    BY DEF Active
  <1>2. /\ IsFiniteSet(Active) /\ Cardinality(Active) \in Nat
        /\ Cardinality(Active') \in Nat /\ Cardinality(Active') <= Cardinality(Requests)
    BY <1>1, FS_Subset, FS_CardinalityType
  <1>3. stage[r] # "idle" /\ next # "idle" => Active' = Active
    BY DEF Active
  <1>4. ASSUME stage[r] # "idle", next = "idle"
        PROVE  Cardinality(Active') = Cardinality(Active) - 1
    <2>1. Active' = Active \ {r} /\ r \in Active
      BY <1>4 DEF Active
    <2> QED  BY <1>2, <2>1, FS_RemoveElement
  <1> QED  BY <1>2, <1>3, <1>4

(* A new request comes only while the sweep holds less than MaxDrained, and *)
(* an active one returns at most the one slot it counts for.                *)
LEMMA SizeInvStep ==
    ASSUME IsFiniteSet(Requests), OwnInv, SizeInv, [Next]_vars
    PROVE  SizeInv'
  <1> USE PoolConstants DEF SizeInv
  <1>l. /\ Len(pool) \in Nat /\ Len(items) \in Nat /\ NoConn \in Slots
        /\ Cardinality(Requests) \in Nat
    BY FS_CardinalityType DEF OwnInv, Slots
  <1>a. \A c \in Slots : Len(Append(pool, c)) = Len(pool) + 1 /\ Len(Append(items, c)) = Len(items) + 1
    BY AppendParts DEF OwnInv
  <1>f. pool # <<>> => Len(Front(pool)) = Len(pool) - 1 /\ Len(pool) > 0
    BY FrontParts, <1>l DEF OwnInv
  <1>c. Cardinality(Active) \in Nat
    <2>1. Active \in SUBSET Requests
      BY DEF Active
    <2>2. IsFiniteSet(Active)
      BY <2>1, FS_Subset
    <2> QED  BY <2>2, FS_CardinalityType
  <1>1. ASSUME NEW r \in Requests, Requesting(r) PROVE SizeInv'
    <2>1. UNCHANGED items
      BY <1>1 DEF Requesting, Ask, GetPooled, Overflow, Connect, Finish, Break, sweeper
    <2>2. stage \in [Requests -> {"idle", "waiting", "using"}]
      BY DEF OwnInv
    <2>3. CASE Ask(r)
      <3>1. /\ stage' = [stage EXCEPT ![r] = "waiting"] /\ UNCHANGED pool
            /\ Len(items) < MaxDrained
        BY <2>3 DEF Ask
      <3>2. Cardinality(Active') \in Nat /\ Cardinality(Active') <= Cardinality(Requests)
        BY <2>2, <3>1, ActiveCounted
      <3> QED  BY <1>l, <2>1, <3>1, <3>2
    <2>4. CASE GetPooled(r) \/ Overflow(r)
      <3>1. /\ pool' = pool \/ (pool # <<>> /\ pool' = Front(pool))
            /\ stage[r] = "waiting" /\ stage' = [stage EXCEPT ![r] = "using"]
        BY <2>4 DEF GetPooled, Overflow, Mint, CheckedOut
      <3>2. Cardinality(Active') = Cardinality(Active)
        BY <2>2, <3>1, ActiveCounted
      <3>3. Len(pool') <= Len(pool) /\ Len(pool') \in Nat
        BY <1>l, <1>f, <3>1
      <3> QED  BY <1>l, <1>c, <2>1, <3>2, <3>3
    <2>5. CASE Connect(r)
      <3>1. UNCHANGED <<pool, Active>>
        BY <2>5 DEF Connect, Active
      <3> QED  BY <2>1, <3>1
    <2>6. CASE Finish(r) \/ Break(r)
      <3>1. stage[r] = "using" /\ stage' = [stage EXCEPT ![r] = "idle"]
        BY <2>6 DEF Finish, Break, Released
      <3>2. Cardinality(Active') = Cardinality(Active) - 1
        BY <2>2, <3>1, ActiveCounted
      <3>3. \/ pool' = pool
            \/ ~Full /\ \E c \in Slots : pool' = Append(pool, c)
        BY <1>l, <2>6 DEF Finish, Break, OwnInv
      <3>4. \/ Len(pool') = Len(pool)
            \/ Len(pool) < Size /\ Len(pool') = Len(pool) + 1
        BY <3>3, <1>a, <1>l DEF Full
      <3> QED  BY <1>l, <1>c, <2>1, <3>2, <3>4
    <2> QED  BY <1>1, <2>3, <2>4, <2>5, <2>6 DEF Requesting
  <1>2. CASE SweepDrain
    <2>1. /\ pool # <<>> /\ pool' = Front(pool) /\ items' = Append(items, Last(pool))
          /\ UNCHANGED Active
      BY <1>2 DEF SweepDrain, Active
    <2>2. Last(pool) \in Slots
      BY <2>1, FrontParts DEF OwnInv
    <2> QED  BY <1>l, <1>a, <1>f, <1>c, <2>1, <2>2
  <1>3. CASE SweepItem
    <2>1. /\ items # <<>> /\ items' = Tail(items) /\ UNCHANGED Active
      BY <1>3 DEF SweepItem, Active
    <2>2. Head(items) \in Slots /\ Len(items') = Len(items) - 1 /\ Len(items) > 0
      BY <1>l, <2>1, TailParts DEF OwnInv
    <2>3. \/ pool' = pool
          \/ ~Full /\ \E c \in Slots : pool' = Append(pool, c)
      BY <1>l, <1>3, <2>2 DEF SweepItem, Evict, PutSlot
    <2>4. \/ Len(pool') = Len(pool)
          \/ Len(pool) < Size /\ Len(pool') = Len(pool) + 1
      BY <2>3, <1>a, <1>l DEF Full
    <2> QED  BY <1>l, <1>c, <2>1, <2>2, <2>4
  <1>4. CASE CloseDrain
    <2>1. UNCHANGED <<items, Active>>
      <3>1. UNCHANGED <<detached, stage, held, idle, sweeper>>
        BY <1>4, Zenon DEF CloseDrain
      <3> QED  BY <3>1 DEF sweeper, Active
    <2>2. pool' = pool \/ (pool # <<>> /\ pool' = Front(pool))
      BY <1>4, Zenon DEF CloseDrain
    <2>3. Len(pool') <= Len(pool) /\ Len(pool') \in Nat
      BY <1>l, <1>f, <2>2
    <2> QED  BY <1>l, <1>c, <2>1, <2>3
  <1>5. ASSUME \/ SweepBegin \/ SweepDrained \/ SweepEnd \/ SweepStops
               \/ CloseStop \/ CloseJoin \/ Tick \/ UNCHANGED vars
        PROVE  SizeInv'
    <2>1. UNCHANGED <<pool, items, Active>>
      BY <1>5 DEF SweepBegin, SweepDrained, SweepEnd, SweepStops, CloseStop, CloseJoin, Tick,
                  vars, conns, sweeper, Active
    <2> QED  BY <2>1
  <1> QED  BY <1>1, <1>2, <1>3, <1>4, <1>5 DEF Next, Sweeping, Closing

(* The pool, its requests and its sweeper are well typed; the queue never   *)
(* exceeds pool_size, and what a sweep takes out is bounded although        *)
(* requests refill the queue while it empties it.                           *)
THEOREM PoolTyped == ASSUME IsFiniteSet(Requests) PROVE Spec => []TypeOK
<1> DEFINE TInv == OwnInv /\ LiveInv /\ AgesTyped /\ SizeInv /\ StateInv
<1>1. TInv => TypeOK
  <2> SUFFICES ASSUME TInv PROVE TypeOK
    OBVIOUS
  <2>1. Len(items) <= Size + MaxDrained + Cardinality(Requests)
    <3>1. Active \in SUBSET Requests
      BY DEF Active
    <3>2. Cardinality(Active) \in Nat /\ Cardinality(Requests) \in Nat
      BY <3>1, FS_Subset, FS_CardinalityType
    <3>3. Len(items) \in Nat /\ Len(pool) \in Nat
      BY DEF OwnInv
    <3> QED  BY <3>2, <3>3, PoolConstants DEF SizeInv
  <2> QED  BY <2>1 DEF TypeOK, OwnInv, LiveInv, AgesTyped, SizeInv, StateInv, Slots
<1>2. TInv /\ [Next]_vars => TInv'
  BY OwnInvStep, LiveInvStep, AgesTypedStep, SizeInvStep, StateInvStep
<1>3. Init => AgesTyped
  BY PoolConstants DEF Init, AgesTyped, Ages, AgeCap
<1>4. Init => TInv
  BY <1>3, OwnInvInit, PhaseInvInit, SizeInvInit
<1> QED  BY <1>1, <1>2, <1>4, PTL DEF Spec
=============================================================================
