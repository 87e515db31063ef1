---------------------------- MODULE CallContract ----------------------------
(***************************************************************************)
(* What a call of an API operation promises the merchant: the server runs  *)
(* the request at most once; the call returns only if it did, and a        *)
(* client that publishes events then reports success; else the call raises *)
(* and reports failure, or nothing, but never success.  ApiCalls           *)
(* implements it.                                                          *)
(***************************************************************************)
EXTENDS Integers

CONSTANT Threads        \* application threads

VARIABLES
    publishes,      \* whether the client publishes events
    progress,       \* of each thread's call; "none" if it is not in one
    runs,           \* how often the server has run its request
    outcome         \* what has been reported of it

vars == <<publishes, progress, runs, outcome>>

Init ==
    /\ publishes \in BOOLEAN
    /\ progress = [t \in Threads |-> "none"]
    /\ runs = [t \in Threads |-> 0]
    /\ outcome = [t \in Threads |-> "none"]

Progress(t, from, to) ==
    /\ progress[t] \in from
    /\ progress' = [progress EXCEPT ![t] = to]
    /\ UNCHANGED publishes

Begin(t) == Progress(t, {"none"}, "running") /\ UNCHANGED <<runs, outcome>>

Run(t) ==
    /\ runs[t] = 0
    /\ runs' = [runs EXCEPT ![t] = 1]
    /\ Progress(t, {"running"}, "running")
    /\ UNCHANGED outcome

Return(t) ==
    /\ runs[t] = 1
    /\ Progress(t, {"running"}, "returned")
    /\ outcome' = [outcome EXCEPT ![t] = IF publishes THEN "SUCCESS" ELSE "none"]
    /\ UNCHANGED runs

Raise(t) ==
    /\ Progress(t, {"running"}, "raised")
    /\ \E o \in {"none", "FAILED"} : outcome' = [outcome EXCEPT ![t] = o]
    /\ UNCHANGED runs

End(t) ==
    /\ Progress(t, {"returned", "raised"}, "none")
    /\ runs' = [runs EXCEPT ![t] = 0]
    /\ outcome' = [outcome EXCEPT ![t] = "none"]

Next == \E t \in Threads : Begin(t) \/ Run(t) \/ Return(t) \/ Raise(t) \/ End(t)

Spec == Init /\ [][Next]_vars
=============================================================================
