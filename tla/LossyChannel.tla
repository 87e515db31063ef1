---------------------------- MODULE LossyChannel ----------------------------
(***************************************************************************)
(* What the event pipeline promises the event backend: events arrive in    *)
(* the order in which they were queued, in batches of at most MaxBatch,    *)
(* and no event arrives twice.  Events may be lost.                        *)
(***************************************************************************)
EXTENDS Integers, Sequences

CONSTANT MaxBatch           \* MAX_EVENTS_IN_BATCH

VARIABLES
    accepted,               \* number of events queued so far: 1 .. accepted
    delivered               \* events received by the backend, in order

Init == accepted = 0 /\ delivered = <<>>

Accept == accepted' = accepted + 1 /\ UNCHANGED delivered

Latest == IF delivered = <<>> THEN 0 ELSE delivered[Len(delivered)]

(* A batch is a run of consecutive events, all later than those delivered. *)
Deliver ==
    \E first \in Latest + 1 .. accepted, size \in 1 .. MaxBatch :
        /\ first + size - 1 <= accepted
        /\ delivered' = delivered \o [i \in 1 .. size |-> first + i - 1]
        /\ UNCHANGED accepted

Next == Accept \/ Deliver

Spec == Init /\ [][Next]_<<accepted, delivered>>
=============================================================================
