--------------------------- MODULE ApiCallsProofs ---------------------------
(***************************************************************************)
(* Proofs about ApiCalls, for any number of threads and operations, any    *)
(* responses and any bounds.                                               *)
(***************************************************************************)
EXTENDS ApiCalls, TLAPS

(* The variables TypeOK says nothing of have a value for each thread; a     *)
(* request is sent once and not run before; nobody holds a token that has   *)
(* not been stored.                                                         *)
PerThread(f) == f = [t \in Threads |-> f[t]]

Shape == PerThread(sent) /\ PerThread(answer) /\ PerThread(exception) /\ PerThread(reports)

SentOnce == \A t \in Threads : sent[t].times \in {0, 1}

TokensStored == \A t \in Threads : given[t] <= version

CallInv == TypeOK /\ Shape /\ SentOnce /\ TokensStored

(* At first there is no call and no token. *)
LEMMA CallInit == Init => CallInv
  <1> SUFFICES ASSUME Init PROVE CallInv
    OBVIOUS
  <1>1. Shape /\ SentOnce
    BY DEF Init, Shape, SentOnce, PerThread, NotSent
  <1>2. env \in {"PRODUCTION", "SANDBOX"} /\ usable \in BOOLEAN
    BY DEF Init, Token!Init
  <1>3. /\ version \in 0 .. MaxVersion /\ given \in [Threads -> 0 .. MaxVersion]
        /\ TokensStored
    BY ParametersOK DEF Init, Token!Init, TokensStored
  <1>4. /\ phase \in [Threads -> Token!Phases] /\ stage \in [Threads -> Stages]
        /\ call \in [Threads -> DOMAIN Operations \cup {NoCall}]
        /\ runs \in [Threads -> 0 .. 1]
        /\ calls \in 0 .. MaxCalls /\ rejected \in 0 .. MaxVersion
    BY ParametersOK DEF Init, Token!Init, Token!Phases, Stages
  <1>5. \A t \in Threads : phase[t] = "idle" /\ stage[t] = "idle" /\ call[t] = NoCall
    BY DEF Init, Token!Init
  <1> QED
    BY <1>1, <1>2, <1>3, <1>4, <1>5 DEF CallInv, TypeOK

(* A step between two stages at which a call has its token, or was refused  *)
(* it, leaves the rest of the invariant alone.                              *)
Underway == {"sent", "unauthorized", "refreshing", "succeeded", "failed",
             "returned", "raised"}

(* Such a step keeps the invariant. *)
LEMMA UnderwayStep ==
    ASSUME CallInv, NEW t \in Threads, NEW where \in Underway,
           stage[t] \in Underway, Goto(t, where), Shape',
           UNCHANGED <<env, token, call, sent, runs, calls, rejected>>
    PROVE  CallInv'
  BY DEF CallInv, TypeOK, SentOnce, TokensStored, Goto, Stages, Underway, token

(* Every step keeps the types and the requests sent in step with them. *)
LEMMA CallStep ==
    ASSUME CallInv, [Next]_vars
    PROVE  CallInv'
  <1> USE ParametersOK
  <1>0. /\ PerThread(sent) /\ PerThread(answer)
        /\ PerThread(exception) /\ PerThread(reports)
    BY DEF CallInv, Shape
  <1>1. CASE TokenStored
    BY <1>1 DEF TokenStored, Token!Store, Token!StoreNext, Token!callers,
                CallInv, TypeOK, Shape, SentOnce, TokensStored
  <1>2. ASSUME NEW t \in Threads, Begin(t)
        PROVE  CallInv'
    BY <1>2 DEF Begin, Token!Ask, Token!Goto, Token!tokens, Token!Phases, Goto, Stages,
                CallInv, TypeOK, Shape, SentOnce, TokensStored
  <1>3. ASSUME NEW t \in Threads, Send(t)
        PROVE  CallInv'
    BY <1>0, <1>3
    DEF PerThread, Send, Token!Give, Token!Goto, Token!tokens, Token!Phases, Goto, Stages,
        CallInv, TypeOK, Shape, SentOnce, TokensStored
  <1>4. ASSUME NEW t \in Threads, NoToken(t)
        PROVE  CallInv'
    BY <1>0, <1>4
    DEF PerThread, NoToken, Catch, Token!Refuse, Token!Goto, Token!tokens, Token!Phases, Goto,
        Stages, CallInv, TypeOK, Shape, SentOnce, TokensStored
  <1>5. ASSUME NEW t \in Threads, Run(t)
        PROVE  CallInv'
    BY <1>5 DEF Run, token, CallInv, TypeOK, Shape, SentOnce, TokensStored
  <1>6. ASSUME NEW t \in Threads, Accept(t) \/ Reject(t) \/ Lose(t)
        PROVE  CallInv'
    <2>1. /\ stage[t] \in Underway
          /\ \E where \in Underway : Goto(t, where)
          /\ UNCHANGED <<env, token, call, sent, runs, calls, rejected>>
      BY <1>6 DEF Accept, Reject, Lose, Underway
    <2>2. Shape'
      <3>1. /\ UNCHANGED <<sent, reports>>
            /\ UNCHANGED exception \/ \E e : Catch(t, e)
            /\ UNCHANGED answer \/ \E a : answer' = [answer EXCEPT ![t] = a]
        BY <1>6 DEF Accept, Reject, Lose
      <3> QED
        BY <1>0, <3>1 DEF PerThread, Shape, Catch
    <2> QED
      BY <2>1, <2>2, UnderwayStep
  <1>7. ASSUME NEW t \in Threads, ForceRefresh(t) \/ Refreshed(t) \/ RefreshFails(t)
        PROVE  CallInv'
    BY <1>0, <1>7
    DEF PerThread, ForceRefresh, Refreshed, RefreshFails, Catch, Token!Refresh, Token!Refreshed,
        Token!StoreAndRefreshed, Token!StoreNext, Token!Goto, Token!tokens, Token!Phases,
        token, Goto, Stages, CallInv, TypeOK, Shape, SentOnce, TokensStored
  <1>8. ASSUME NEW t \in Threads, Return(t) \/ Raise(t)
        PROVE  CallInv'
    <2>1. /\ stage[t] \in Underway
          /\ \E where \in Underway : Goto(t, where)
          /\ UNCHANGED <<env, token, call, sent, runs, calls, rejected>>
      BY <1>8 DEF Return, Raise, Underway
    <2>2. Shape'
      <3>1. /\ UNCHANGED <<sent, answer>>
            /\ UNCHANGED exception \/ \E e : Catch(t, e)
            /\ UNCHANGED reports \/ \E e : Publish(t, e)
        BY <1>8 DEF Return, Raise
      <3> QED
        BY <1>0, <3>1 DEF PerThread, Shape, Catch, Publish
    <2> QED
      BY <2>1, <2>2, UnderwayStep
  <1>9. ASSUME NEW t \in Threads, ValidateCallback(t)
        PROVE  CallInv'
    <2>1. Shape'
      <3>1. /\ UNCHANGED <<sent, answer>>
            /\ \E e : Catch(t, e)
            /\ UNCHANGED reports \/ \E e : Publish(t, e)
        BY <1>9 DEF ValidateCallback
      <3> QED
        BY <1>0, <3>1 DEF PerThread, Shape, Catch, Publish
    <2>2. /\ stage[t] = "idle" /\ Goto(t, "validated")
          /\ calls < MaxCalls /\ calls' = calls + 1
          /\ UNCHANGED <<env, token, call, sent, runs, rejected>>
      BY <1>9 DEF ValidateCallback
    <2> QED
      BY <2>1, <2>2
      DEF Goto, Stages, token, CallInv, TypeOK, SentOnce, TokensStored
  <1>10. ASSUME NEW t \in Threads, End(t) \/ EndCallback(t)
         PROVE  CallInv'
    <2>1. Shape' /\ SentOnce'
      BY <1>0, <1>10
      DEF PerThread, End, EndCallback, Forget, NotSent, Shape, CallInv, SentOnce
    <2>2. CASE End(t)
      BY <2>1, <2>2
      DEF End, Forget, Token!Leave, Token!Goto, Token!tokens, Token!Phases,
          Goto, Stages, CallInv, TypeOK, TokensStored
    <2>3. CASE EndCallback(t)
      BY <2>1, <2>3
      DEF EndCallback, Forget, token, Goto, Stages, CallInv, TypeOK, TokensStored
    <2> QED
      BY <1>10, <2>2, <2>3
  <1>11. CASE UNCHANGED vars
    BY <1>11 DEF vars, token, CallInv, TypeOK, Shape, PerThread, SentOnce, TokensStored
  <1> QED
    BY <1>1, <1>2, <1>3, <1>4, <1>5, <1>6, <1>7, <1>8, <1>9, <1>10, <1>11
    DEF Next

(* The calls are well typed and in step with the token service; a request   *)
(* is run at most once.                                                     *)
THEOREM CallsTyped == Spec => []TypeOK
  <1>1. CallInv => TypeOK
    BY DEF CallInv
  <1> QED
    BY <1>1, CallInit, CallStep, PTL DEF Spec
-----------------------------------------------------------------------------
(* From the moment an exception is on its way out: the 401 of a server is   *)
(* let out only after the token has been replaced.                          *)
Replaced(t) ==
    \/ exception[t].class # "UnauthorizedAccess"
    \/ exception[t] \in FetchErrors
    \/ version > given[t]

ReplacedInv == \A t \in Threads : stage[t] \in {"failed", "raised"} => Replaced(t)

(* The exceptions the SDK and Python raise on the way are no 401. *)
LEMMA OtherExceptions ==
    \A class, code, status : Exception(class, code, status).class = class
  BY DEF Exception

(* Every step keeps it: versions only grow. *)
LEMMA ReplacedStep ==
    ASSUME CallInv, ReplacedInv, [Next]_vars
    PROVE  ReplacedInv'
  <1> USE ParametersOK DEF CallInv, TypeOK, Shape, PerThread, TokensStored,
                           ReplacedInv, Replaced, Goto, Catch
  <1>1. CASE TokenStored
    BY <1>1 DEF TokenStored, Token!Store, Token!StoreNext, Token!callers
  <1>2. ASSUME NEW t \in Threads, Begin(t) \/ Send(t)
        PROVE  ReplacedInv'
    BY <1>2 DEF Begin, Send, Token!Ask, Token!Give, Token!tokens
  <1>3. ASSUME NEW t \in Threads, NoToken(t)
        PROVE  ReplacedInv'
    BY <1>3, OtherExceptions DEF NoToken, Token!Refuse, Token!tokens
  <1>4. ASSUME NEW t \in Threads, Run(t)
        PROVE  ReplacedInv'
    BY <1>4 DEF Run, token
  <1>5. ASSUME NEW t \in Threads, Accept(t)
        PROVE  ReplacedInv'
    <2>1. \/ Catch(t, Exception("ValueError", None, None)) /\ Goto(t, "failed")
          \/ Goto(t, "succeeded") /\ UNCHANGED exception
      BY <1>5 DEF Accept
    <2>2. UNCHANGED token
      BY <1>5 DEF Accept
    <2> QED
      BY <2>1, <2>2, OtherExceptions DEF token
  <1>6. ASSUME NEW t \in Threads, Reject(t) \/ Lose(t)
        PROVE  ReplacedInv'
    <2>1. \/ \E e : Catch(t, e) /\ Goto(t, IF e.class = "UnauthorizedAccess"
                                           THEN "unauthorized" ELSE "failed")
          \/ \E e : e.class # "UnauthorizedAccess" /\ Catch(t, e) /\ Goto(t, "failed")
      BY <1>6, OperationsOK DEF Reject, Lose
    <2>2. UNCHANGED token
      BY <1>6 DEF Reject, Lose
    <2> QED
      BY <2>1, <2>2 DEF token
  <1>7. ASSUME NEW t \in Threads, ForceRefresh(t) \/ Refreshed(t) \/ RefreshFails(t)
        PROVE  ReplacedInv'
    BY <1>7
    DEF ForceRefresh, Refreshed, RefreshFails, Token!Refresh, Token!Refreshed,
        Token!StoreAndRefreshed, Token!StoreNext, Token!tokens, token
  <1>8. ASSUME NEW t \in Threads, Return(t) \/ Raise(t)
        PROVE  ReplacedInv'
    <2>1. \/ Catch(t, Exception("AttributeError", None, None))
                /\ \E where \in {"failed", "raised"} : Goto(t, where)
          \/ /\ UNCHANGED exception
             /\ \/ Goto(t, "returned")
                \/ stage[t] = "failed" /\ Goto(t, "raised")
      BY <1>8 DEF Return, Raise
    <2>2. UNCHANGED token
      BY <1>8 DEF Return, Raise
    <2> QED
      BY <2>1, <2>2, OtherExceptions DEF token
  <1>9. ASSUME NEW t \in Threads, ValidateCallback(t) \/ EndCallback(t) \/ End(t)
        PROVE  ReplacedInv'
    <2>1. /\ \E where \in {"validated", "idle"} : Goto(t, where)
          /\ \E e : Catch(t, e)
      BY <1>9 DEF ValidateCallback, EndCallback, End, Forget
    <2>2. version' = version /\ (given' = given \/ given' = [given EXCEPT ![t] = 0])
      BY <1>9 DEF ValidateCallback, EndCallback, End, Token!Leave, Token!tokens, token
    <2> QED
      BY <2>1, <2>2
  <1>10. CASE UNCHANGED vars
    BY <1>10 DEF vars, token
  <1> QED
    BY <1>1, <1>2, <1>3, <1>4, <1>5, <1>6, <1>7, <1>8, <1>9, <1>10 DEF Next

(* Whoever sees the server's 401 may call again at once: the token it was   *)
(* refused with has been replaced.                                          *)
THEOREM RejectedIsReplaced == Spec => []RejectedTokenReplaced
  <1>1. Init => ReplacedInv
    BY DEF Init, ReplacedInv
  <1>2. ReplacedInv => RejectedTokenReplaced
    BY DEF ReplacedInv, Replaced, RejectedTokenReplaced
  <1> QED
    BY <1>1, <1>2, CallInit, CallStep, ReplacedStep, PTL DEF Spec
-----------------------------------------------------------------------------
(* Nothing is reported of a call before it ends, and one that has succeeded *)
(* was run by the server.                                                   *)
Unreported(t) ==
    /\ stage[t] \notin {"returned", "raised", "validated"} => reports[t] = <<>>
    /\ stage[t] = "succeeded" => runs[t] = 1
    /\ stage[t] \in {"idle", "validated"} => runs[t] = 0

UnreportedInv == \A t \in Threads : Unreported(t)

(* Nothing is reported of calls that have not begun. *)
LEMMA UnreportedInit == Init => UnreportedInv
  BY DEF Init, UnreportedInv, Unreported

(* A report is made only by the step that ends a call. *)
LEMMA UnreportedStep ==
    ASSUME CallInv, UnreportedInv, [Next]_vars
    PROVE  UnreportedInv'
  <1> USE DEF CallInv, TypeOK, Shape, PerThread, SentOnce, UnreportedInv, Unreported, Goto
  <1>1. CASE TokenStored \/ UNCHANGED vars
    BY <1>1 DEF TokenStored, vars
  <1>2. ASSUME NEW t \in Threads, Begin(t) \/ Send(t)
        PROVE  UnreportedInv'
    BY <1>2 DEF Begin, Send
  <1>3. ASSUME NEW t \in Threads, NoToken(t) \/ Reject(t) \/ Lose(t)
        PROVE  UnreportedInv'
    <2>1. /\ stage[t] \in {"header", "sent"} /\ UNCHANGED <<runs, reports>>
          /\ \E where \in {"failed", "unauthorized"} : Goto(t, where)
      BY <1>3 DEF NoToken, Reject, Lose
    <2> QED
      BY <2>1
  <1>4. ASSUME NEW t \in Threads, Run(t)
        PROVE  UnreportedInv'
    BY <1>4 DEF Run
  <1>5. ASSUME NEW t \in Threads, Accept(t)
        PROVE  UnreportedInv'
    <2>1. /\ stage[t] = "sent" /\ runs[t] > 0 /\ UNCHANGED <<runs, reports>>
          /\ \E where \in {"failed", "succeeded"} : Goto(t, where)
      BY <1>5 DEF Accept
    <2> QED
      BY <2>1
  <1>6. ASSUME NEW t \in Threads, ForceRefresh(t) \/ Refreshed(t) \/ RefreshFails(t)
        PROVE  UnreportedInv'
    BY <1>6 DEF ForceRefresh, Refreshed, RefreshFails
  <1>7. ASSUME NEW t \in Threads, Return(t) \/ Raise(t) \/ ValidateCallback(t)
        PROVE  UnreportedInv'
    <2>1. /\ UNCHANGED runs
          /\ UNCHANGED reports \/ \E event : Publish(t, event)
          /\ \/ stage[t] = "succeeded" /\ Goto(t, "returned")
             \/ stage[t] = "succeeded" /\ Goto(t, "failed") /\ UNCHANGED reports
             \/ stage[t] = "failed" /\ Goto(t, "raised")
             \/ stage[t] = "idle" /\ Goto(t, "validated")
      BY <1>7 DEF Return, Raise, ValidateCallback
    <2> QED
      BY <2>1 DEF Publish
  <1>8. ASSUME NEW t \in Threads, End(t) \/ EndCallback(t)
        PROVE  UnreportedInv'
    BY <1>8 DEF End, EndCallback, Forget
  <1> QED
    BY <1>1, <1>2, <1>3, <1>4, <1>5, <1>6, <1>7, <1>8 DEF Next

(* One event published of a call of which nothing had been reported. *)
LEMMA OneReport ==
    ASSUME NEW event
    PROVE  /\ Append(<<>>, event) # <<>>
           /\ Len(Append(<<>>, event)) = 1
           /\ DOMAIN Append(<<>>, event) = {1}
           /\ Append(<<>>, event)[1] = event
  <1>1. Append(<<>>, event) = <<event>>
    OBVIOUS
  <1> QED
    BY <1>1

(* The exception added to an event is found in it, and nothing else of it   *)
(* changes that a report is judged by.                                      *)
LEMMA Populated ==
    ASSUME NEW event, NEW state, NEW e, Tells(event, state), event # None
    PROVE  LET data == populate_phonepe_exception_fields(event, e).data
           IN  /\ data.event_state = state
               /\ data.exception_class = e.class
               /\ data.exception_code = e.code
               /\ data.exception_http_status_code = e.http_status_code
  BY DEF Tells, populate_phonepe_exception_fields, EventData, BaseEvent

(* Every step is a step of the contract, or leaves its variables alone. *)
LEMMA ContractSimulated ==
    ASSUME CallInv, UnreportedInv, [Next]_vars
    PROVE  [Contract!Next]_Contract!vars
  <1> DEFINE Simulated == Contract!Next \/ UNCHANGED Contract!vars
  <1> SUFFICES Simulated
    OBVIOUS
  <1> USE DEF CallInv, TypeOK, Shape, PerThread, Goto
  <1>0. ASSUME UNCHANGED <<env, runs>>,
               \A t \in Threads : Progress(t)' = Progress(t) /\ Outcome(t)' = Outcome(t)
        PROVE  Simulated
    BY <1>0 DEF Contract!vars, Publishing
  <1>1. CASE TokenStored \/ UNCHANGED vars
    BY <1>0, <1>1 DEF TokenStored, vars, Progress, Outcome
  <1>2. ASSUME NEW t \in Threads,
               \/ Send(t) \/ NoToken(t) \/ Accept(t) \/ Reject(t) \/ Lose(t)
               \/ ForceRefresh(t) \/ Refreshed(t) \/ RefreshFails(t)
        PROVE  Simulated
    <2>1. /\ stage[t] \in {"header", "sent", "unauthorized", "refreshing"}
          /\ \E where \in {"sent", "failed", "succeeded", "unauthorized", "refreshing"} :
                Goto(t, where)
          /\ UNCHANGED <<env, runs, call, reports>>
      BY <1>2 DEF Send, NoToken, Accept, Reject, Lose, ForceRefresh, Refreshed,
                  RefreshFails
    <2> QED
      BY <1>0, <2>1 DEF Progress, Outcome
  <1>3. ASSUME NEW t \in Threads, ValidateCallback(t) \/ EndCallback(t)
        PROVE  Simulated
    <2>1. call[t] = NoCall /\ runs[t] = 0 /\ stage[t] \in {"idle", "validated"}
      BY <1>3 DEF ValidateCallback, EndCallback, UnreportedInv, Unreported
    <2>2. /\ \E where \in {"idle", "validated"} : Goto(t, where)
          /\ call'[t] = NoCall /\ UNCHANGED env
          /\ runs' = runs \/ runs' = [runs EXCEPT ![t] = 0]
          /\ \A u \in Threads \ {t} : call'[u] = call[u] /\ reports'[u] = reports[u]
      BY <1>3, <2>1 DEF ValidateCallback, EndCallback, Forget, Publish
    <2>3. runs' = runs
      BY <2>1, <2>2
    <2> QED
      BY <1>0, <2>1, <2>2, <2>3 DEF Progress, Outcome
  (* Where a call's progress changes, or what is reported of it. *)
  <1>4. ASSUME NEW t \in Threads, NEW where, UNCHANGED env,
               \A u \in Threads \ {t} : /\ stage'[u] = stage[u] /\ call'[u] = call[u]
                                        /\ reports'[u] = reports[u],
               Progress(t)' = where
        PROVE  /\ [u \in Threads |-> Progress(u)]'
                     = [[u \in Threads |-> Progress(u)] EXCEPT ![t] = where]
               /\ [u \in Threads |-> Outcome(u)]'
                     = [[u \in Threads |-> Outcome(u)] EXCEPT ![t] = Outcome(t)']
               /\ Outcome(t)' = Outcome(t)
                     => UNCHANGED [u \in Threads |-> Outcome(u)]
               /\ Publishing' = Publishing
    <2>1. \A u \in Threads \ {t} : Progress(u)' = Progress(u)
      BY <1>4 DEF Progress
    <2>2. \A u \in Threads \ {t} : Outcome(u)' = Outcome(u)
      BY <1>4 DEF Outcome
    <2>3. Publishing' = Publishing
      BY <1>4 DEF Publishing
    <2>4. [u \in Threads |-> Progress(u)]'
            = [[u \in Threads |-> Progress(u)] EXCEPT ![t] = where]
      BY <1>4, <2>1
    <2>5. [u \in Threads |-> Outcome(u)]'
            = [[u \in Threads |-> Outcome(u)] EXCEPT ![t] = Outcome(t)']
      BY <1>4, <2>2
    <2>6. Outcome(t)' = Outcome(t) => UNCHANGED [u \in Threads |-> Outcome(u)]
      BY <1>4, <2>2
    <2> QED
      BY <2>3, <2>4, <2>5, <2>6
  <1>5. ASSUME NEW t \in Threads, Begin(t)
        PROVE  Simulated
    <2>1. Progress(t) = "none" /\ Progress(t)' = "running"
      BY <1>5 DEF Begin, Progress
    <2>2. Outcome(t) = "none" /\ Outcome(t)' = "none"
      BY <1>5 DEF Begin, Outcome, UnreportedInv, Unreported
    <2>3. Contract!Begin(t)
      <3>1. UNCHANGED <<env, runs, reports>> /\ Goto(t, "header")
            /\ \A u \in Threads \ {t} : call'[u] = call[u]
        BY <1>5 DEF Begin
      <3> QED
        BY <1>4, <2>1, <2>2, <3>1 DEF Contract!Begin, Contract!Progress
    <2> QED
      BY <2>3 DEF Contract!Next
  <1>6. ASSUME NEW t \in Threads, Run(t)
        PROVE  Simulated
    <2>0. runs[t] = 0
      BY <1>6 DEF Run, SentOnce
    <2>1. /\ runs[t] = 0 /\ runs' = [runs EXCEPT ![t] = 1]
          /\ UNCHANGED <<env, stage, call, reports>> /\ stage[t] = "sent"
      BY <1>6, <2>0 DEF Run
    <2>2. Progress(t) = "running" /\ Progress(t)' = "running"
      BY <2>1 DEF Progress
    <2>3. Outcome(t)' = Outcome(t)
      BY <2>1 DEF Outcome
    <2>4. Contract!Run(t)
      <3>1. \A u \in Threads \ {t} : /\ stage'[u] = stage[u] /\ call'[u] = call[u]
                                    /\ reports'[u] = reports[u]
        BY <2>1
      <3>2. /\ [u \in Threads |-> Progress(u)]'
                  = [[u \in Threads |-> Progress(u)] EXCEPT ![t] = "running"]
            /\ UNCHANGED [u \in Threads |-> Outcome(u)]
            /\ Publishing' = Publishing
        BY <1>4, <2>1, <2>2, <2>3, <3>1
      <3> QED
        BY <2>1, <2>2, <3>2 DEF Contract!Run, Contract!Progress
    <2> QED
      BY <2>4 DEF Contract!Next
  <1>7. ASSUME NEW t \in Threads, Return(t)
        PROVE  Simulated
    <2>0. /\ stage[t] = "succeeded" /\ reports[t] = <<>> /\ runs[t] = 1
          /\ call[t] # NoCall /\ call[t] \in DOMAIN Operations
          /\ UNCHANGED <<env, call, runs>>
      BY <1>7 DEF Return, UnreportedInv, Unreported
    <2>1. CASE Operations[call[t]].success = None
      <3>1. Goto(t, "failed") /\ UNCHANGED reports
        BY <1>7, <2>1 DEF Return
      <3> QED
        BY <1>0, <2>0, <3>1 DEF Progress, Outcome
    <2>2. CASE Operations[call[t]].success # None
      <3> DEFINE event == Operations[call[t]].success
      <3>1. Goto(t, "returned") /\ Publish(t, event)
        BY <1>7, <2>2 DEF Return
      <3>2. event.data.event_state = "SUCCESS"
        BY <2>0, <2>2, OperationsOK DEF Tells
      <3>3. Outcome(t)' = IF Publishing THEN "SUCCESS" ELSE "none"
        BY <2>0, <3>1, <3>2, OneReport DEF Publish, Outcome
      <3>4. Progress(t) = "running" /\ Progress(t)' = "returned"
        BY <2>0, <3>1 DEF Progress
      <3>5. Contract!Return(t)
        BY <1>4, <2>0, <3>1, <3>3, <3>4 DEF Publish, Contract!Return, Contract!Progress
      <3> QED
        BY <3>5 DEF Contract!Next
    <2> QED
      BY <2>1, <2>2
  <1>8. ASSUME NEW t \in Threads, Raise(t)
        PROVE  Simulated
    <2>0. /\ stage[t] = "failed" /\ reports[t] = <<>>
          /\ call[t] # NoCall /\ call[t] \in DOMAIN Operations
          /\ UNCHANGED <<env, call, runs>> /\ Goto(t, "raised")
      BY <1>8 DEF Raise, UnreportedInv, Unreported
    <2>1. /\ Outcome(t)' \in {"none", "FAILED"}
          /\ UNCHANGED reports \/ \E e : Publish(t, e)
      <3>1. CASE Operations[call[t]].failure = None
        BY <1>8, <2>0, <3>1 DEF Raise, Outcome
      <3>2. CASE Operations[call[t]].failure # None
        <4> DEFINE event == populate_phonepe_exception_fields(
                                Operations[call[t]].failure, exception[t])
        <4>1. Publish(t, event)
          BY <1>8, <3>2 DEF Raise
        <4>2. event.data.event_state = "FAILED"
          BY <2>0, <3>2, OperationsOK, Populated
        <4> HIDE DEF event
        <4>3. reports'[t] = reports[t] \/ reports'[t] = Append(<<>>, event)
          BY <2>0, <4>1 DEF Publish
        <4>4. reports'[t] = <<>> \/ (Len(reports'[t]) = 1 /\ reports'[t][1] = event)
          <5>1. Len(Append(<<>>, event)) = 1 /\ Append(<<>>, event)[1] = event
            BY OneReport
          <5> QED
            BY <2>0, <4>3, <5>1
        <4>5. Outcome(t)' \in {"none", "FAILED"}
          BY <4>2, <4>4 DEF Outcome
        <4> QED
          BY <4>1, <4>5
      <3> QED
        BY <3>1, <3>2
    <2>2. Progress(t) = "running" /\ Progress(t)' = "raised"
      BY <2>0 DEF Progress
    <2>3. Contract!Raise(t)
      BY <1>4, <2>0, <2>1, <2>2 DEF Publish, Contract!Raise, Contract!Progress
    <2> QED
      BY <2>3 DEF Contract!Next
  <1>9. ASSUME NEW t \in Threads, End(t)
        PROVE  Simulated
    <2>1. Progress(t) \in {"returned", "raised"} /\ Progress(t)' = "none"
      BY <1>9 DEF End, Forget, Progress
    <2>2. Outcome(t)' = "none"
      BY <1>9 DEF End, Forget, Outcome
    <2>3. Contract!End(t)
      BY <1>4, <1>9, <2>1, <2>2 DEF End, Forget, Contract!End, Contract!Progress
    <2> QED
      BY <2>3 DEF Contract!Next
  <1> QED
    BY <1>1, <1>2, <1>3, <1>5, <1>6, <1>7, <1>8, <1>9 DEF Next

(* At first no call is in progress. *)
LEMMA ContractInit == Init => Contract!Init
  BY ParametersOK DEF Init, Contract!Init, Progress, Outcome, Publishing

(* For any operations and any answers: a request is run at most once, a     *)
(* call that returns was run and is reported as a success by a client that  *)
(* publishes events, and one that raises is never reported as a success.    *)
THEOREM ContractKept == Spec => KeepsContract
  <1>1. CallInv /\ UnreportedInv /\ [Next]_vars => [Contract!Next]_Contract!vars
    BY ContractSimulated
  <1> QED
    BY <1>1, CallInit, CallStep, UnreportedInit, UnreportedStep, ContractInit,
       PTL DEF Spec, KeepsContract, Contract!Spec
-----------------------------------------------------------------------------
(* The class of every status: a client error for each 4xx, UnauthorizedAccess *)
(* for the 401 alone.                                                       *)
LEMMA ClassOfStatus ==
    ASSUME NEW status \in 300 .. 599
    PROVE  /\ status \in 400 .. 499 => IsA(ExceptionClass(status), "ClientError")
           /\ status \in 500 .. 599 => ExceptionClass(status) = "ServerError"
           /\ ExceptionClass(status) = "UnauthorizedAccess" => status = 401
  <1>1. CASE Mapped(status) = {}
    <2>1. status # 400 /\ status # 401
      BY <1>1 DEF Mapped
    <2>2. ExceptionClass(status) = IF status \in 401 .. 499 THEN "ClientError"
                                   ELSE IF status \in 500 .. 599 THEN "ServerError"
                                   ELSE "PhonePeException"
      BY <1>1 DEF ExceptionClass
    <2> QED
      BY <2>1, <2>2 DEF IsA
  <1>2. CASE Mapped(status) # {}
    <2>1. \E c \in {"BadRequest", "UnauthorizedAccess", "ForbiddenAccess",
                    "ResourceNotFound", "ResourceConflict", "ResourceGone",
                    "ResourceInvalid", "ExpectationFailed", "TooManyRequests"} :
             Mapped(status) = {c} /\ status < 500 /\ (c = "UnauthorizedAccess" => status = 401)
      BY <1>2 DEF Mapped
    <2>2. ExceptionClass(status) = CHOOSE c \in Mapped(status) : TRUE
      BY <1>2 DEF ExceptionClass
    <2>3. ExceptionClass(status) \in Mapped(status)
      BY <1>2, <2>2
    <2> QED
      BY <2>1, <2>3 DEF IsA, Superclass
  <1> QED
    BY <1>1, <1>2

(* What an error response is turned into. *)
LEMMA HandledResponse ==
    ASSUME NEW status \in 300 .. 599, NEW body
    PROVE  LET e == handle_response(status, body)
           IN  /\ e.class = ExceptionClass(status)
               /\ e.http_status_code = status
               /\ body # NotJson => e.code \in {Attr(body, "errorCode"), Attr(body, "code")}
  <1>1. handle_response(status, body) = PhonePeException(ExceptionClass(status), status, body)
    BY DEF handle_response
  <1> QED
    BY <1>1 DEF PhonePeException, Exception

(* The exception of a call that got an error response, at each stage on its *)
(* way out; and what the event of the call says of it.                      *)
Flowless(t) == Attr(Operations[call[t]].data, "payment_flow") = None

Cause(t) ==
    \/ answer[t].status < 300
    \/ /\ stage[t] \in {"unauthorized", "refreshing", "failed", "raised"}
       /\ exception[t] = handle_response(answer[t].status, answer[t].body)
       /\ stage[t] \in {"unauthorized", "refreshing"} => answer[t].status = 401
    \/ /\ stage[t] \in {"failed", "raised"}
       /\ answer[t].status = 401 /\ exception[t] \in FetchErrors
    \/ stage[t] = "raised" /\ exception[t].class = "AttributeError" /\ Flowless(t)

Reported(t) ==
    stage[t] = "raised" =>
        \A i \in DOMAIN reports[t] :
            LET data == reports[t][i].data
            IN  /\ data.exception_class = exception[t].class
                /\ data.exception_code = exception[t].code
                /\ data.exception_http_status_code = exception[t].http_status_code

AnswerOK(t) ==
    /\ answer[t].status \in {0, 200} \cup 300 .. 599
    /\ stage[t] \in {"idle", "header", "sent"} => answer[t].status < 300

CauseInv == \A t \in Threads : AnswerOK(t) /\ Cause(t) /\ Reported(t)

(* No call has failed yet. *)
LEMMA CauseInit == Init => CauseInv
  BY DEF Init, CauseInv, AnswerOK, Cause, Reported, NoAnswer

(* A step of a thread leaves the other threads' calls alone. *)
LEMMA OthersCauses ==
    ASSUME CauseInv, NEW t \in Threads,
           \A u \in Threads \ {t} :
              /\ stage'[u] = stage[u] /\ call'[u] = call[u] /\ answer'[u] = answer[u]
              /\ exception'[u] = exception[u] /\ reports'[u] = reports[u],
           (AnswerOK(t) /\ Cause(t) /\ Reported(t))'
    PROVE  CauseInv'
  BY DEF CauseInv, AnswerOK, Cause, Reported, Flowless

(* Every step keeps what is known of the cause. *)
LEMMA CauseStep ==
    ASSUME CallInv, UnreportedInv, CauseInv, [Next]_vars
    PROVE  CauseInv'
  <1> USE ParametersOK DEF CallInv, TypeOK, Shape, PerThread, Goto, Catch
  <1>0. \A t \in Threads : AnswerOK(t) /\ Cause(t) /\ Reported(t)
    BY DEF CauseInv
  <1>1. CASE TokenStored \/ UNCHANGED vars
    BY <1>1 DEF TokenStored, vars, CauseInv, AnswerOK, Cause, Reported, Flowless
  <1>2. ASSUME NEW t \in Threads,
               Begin(t) \/ Send(t) \/ Run(t) \/ NoToken(t) \/ Lose(t)
        PROVE  CauseInv'
    <2>1. /\ stage[t] \in {"idle", "header", "sent"}
          /\ \E where \in {"header", "sent", "failed", "unauthorized"} : Goto(t, where) \/ stage' = stage
          /\ UNCHANGED exception \/ \E e : Catch(t, e)
          /\ UNCHANGED call \/ \E name : call' = [call EXCEPT ![t] = name]
          /\ UNCHANGED <<answer, reports>>
      BY <1>2 DEF Begin, Send, Run, NoToken, Lose
    <2>2. (AnswerOK(t) /\ Cause(t) /\ Reported(t))'
      BY <1>0, <2>1 DEF AnswerOK, Cause, Reported
    <2> QED
      BY <2>1, <2>2, OthersCauses
  <1>3. ASSUME NEW t \in Threads, Accept(t)
        PROVE  CauseInv'
    <2>1. /\ \E where \in {"failed", "succeeded"} : Goto(t, where)
          /\ UNCHANGED exception \/ \E e : Catch(t, e)
          /\ \E body : answer' = [answer EXCEPT ![t] = [status |-> 200, body |-> body]]
          /\ UNCHANGED <<call, reports>>
      BY <1>3 DEF Accept
    <2>2. (AnswerOK(t) /\ Cause(t) /\ Reported(t))'
      BY <2>1 DEF AnswerOK, Cause, Reported
    <2> QED
      BY <2>1, <2>2, OthersCauses
  <1>4. ASSUME NEW t \in Threads, Reject(t)
        PROVE  CauseInv'
    <2>1. PICK error \in Errors :
             LET e == handle_response(error.status, error.body)
             IN  /\ answer' = [answer EXCEPT ![t] = error]
                 /\ Catch(t, e)
                 /\ Goto(t, IF e.class = "UnauthorizedAccess"
                            THEN "unauthorized" ELSE "failed")
      BY <1>4 DEF Reject
    <2>2. UNCHANGED <<call, reports>>
      BY <1>4 DEF Reject
    <2>3. error.status \in 300 .. 599
      OBVIOUS
    <2>4. handle_response(error.status, error.body).class = "UnauthorizedAccess"
             => error.status = 401
      <3> DEFINE status == error.status
                 body == error.body
      <3> HIDE DEF status, body
      <3>1. status \in 300 .. 599
        BY <2>3 DEF status
      <3>2. handle_response(status, body).class = ExceptionClass(status)
        BY <3>1, HandledResponse
      <3>3. ExceptionClass(status) = "UnauthorizedAccess" => status = 401
        BY <3>1, ClassOfStatus
      <3> QED
        BY <3>2, <3>3 DEF status, body
    <2>5. (AnswerOK(t) /\ Cause(t) /\ Reported(t))'
      BY <2>1, <2>3, <2>4 DEF AnswerOK, Cause, Reported
    <2> QED
      BY <2>1, <2>2, <2>5, OthersCauses
  <1>5. ASSUME NEW t \in Threads, ForceRefresh(t) \/ Refreshed(t) \/ RefreshFails(t)
        PROVE  CauseInv'
    <2>1. /\ stage[t] \in {"unauthorized", "refreshing"}
          /\ \/ \E where \in {"refreshing", "failed"} : Goto(t, where) /\ UNCHANGED exception
             \/ Goto(t, "failed") /\ \E e \in FetchErrors : Catch(t, e)
          /\ UNCHANGED <<answer, call, reports>>
      BY <1>5 DEF ForceRefresh, Refreshed, RefreshFails
    <2>2. (AnswerOK(t) /\ Cause(t) /\ Reported(t))'
      BY <1>0, <2>1 DEF AnswerOK, Cause, Reported
    <2> QED
      BY <2>1, <2>2, OthersCauses
  <1>6. ASSUME NEW t \in Threads, Return(t)
        PROVE  CauseInv'
    <2>1. /\ stage[t] = "succeeded" /\ \E where \in {"returned", "failed"} : Goto(t, where)
          /\ UNCHANGED exception \/ \E e : Catch(t, e)
          /\ UNCHANGED reports \/ \E event : Publish(t, event)
          /\ UNCHANGED <<answer, call>>
      BY <1>6 DEF Return
    <2>2. (AnswerOK(t) /\ Cause(t) /\ Reported(t))'
      BY <1>0, <2>1 DEF AnswerOK, Cause, Reported
    <2> QED
      BY <2>1, <2>2, OthersCauses DEF Publish
  <1>7. ASSUME NEW t \in Threads, Raise(t)
        PROVE  CauseInv'
    <2> DEFINE operation == Operations[call[t]]
    <2>0. /\ stage[t] = "failed" /\ reports[t] = <<>> /\ Goto(t, "raised")
          /\ call[t] \in DOMAIN Operations /\ UNCHANGED <<answer, call>>
      BY <1>7 DEF Raise, UnreportedInv, Unreported
    <2>1. CASE operation.failure = None
      <3>1. Catch(t, Exception("AttributeError", None, None)) /\ UNCHANGED reports
        BY <1>7, <2>1 DEF Raise
      <3>2. Flowless(t)
        BY <2>0, <2>1, OperationsOK DEF Flowless
      <3>3. (AnswerOK(t) /\ Cause(t) /\ Reported(t))'
        BY <1>0, <2>0, <3>1, <3>2, OtherExceptions DEF AnswerOK, Cause, Reported, Flowless
      <3> QED
        BY <2>0, <3>1, <3>3, OthersCauses
    <2>2. CASE operation.failure # None
      <3> DEFINE event == populate_phonepe_exception_fields(operation.failure, exception[t])
      <3>1. Publish(t, event) /\ UNCHANGED exception
        BY <1>7, <2>2 DEF Raise
      <3>2. /\ event.data.exception_class = exception[t].class
            /\ event.data.exception_code = exception[t].code
            /\ event.data.exception_http_status_code = exception[t].http_status_code
        BY <2>0, <2>2, OperationsOK, Populated
      <3> HIDE DEF event
      <3>3. DOMAIN Append(<<>>, event) = {1} /\ Append(<<>>, event)[1] = event
        BY OneReport
      <3>4. reports'[t] = <<>> \/ reports'[t] = Append(<<>>, event)
        BY <2>0, <3>1 DEF Publish
      <3>5. Reported(t)'
        BY <3>1, <3>2, <3>3, <3>4 DEF Reported
      <3>6. (AnswerOK(t) /\ Cause(t))'
        BY <1>0, <2>0, <3>1 DEF AnswerOK, Cause
      <3> QED
        BY <2>0, <3>1, <3>5, <3>6, OthersCauses DEF Publish
    <2> QED
      BY <2>1, <2>2
  <1>8. ASSUME NEW t \in Threads, ValidateCallback(t)
        PROVE  CauseInv'
    <2>1. /\ stage[t] = "idle" /\ Goto(t, "validated") /\ UNCHANGED <<answer, call>>
          /\ \E e : Catch(t, e)
          /\ UNCHANGED reports \/ \E event : Publish(t, event)
      BY <1>8 DEF ValidateCallback
    <2>2. (AnswerOK(t) /\ Cause(t) /\ Reported(t))'
      BY <1>0, <2>1 DEF AnswerOK, Cause, Reported
    <2> QED
      BY <2>1, <2>2, OthersCauses DEF Publish
  <1>9. ASSUME NEW t \in Threads, End(t) \/ EndCallback(t)
        PROVE  CauseInv'
    <2>1. Forget(t)
      BY <1>9 DEF End, EndCallback
    <2>2. (AnswerOK(t) /\ Cause(t) /\ Reported(t))'
      BY <2>1 DEF Forget, NoAnswer, AnswerOK, Cause, Reported
    <2> QED
      BY <2>1, <2>2, OthersCauses DEF Forget
  <1> QED
    BY <1>1, <1>2, <1>3, <1>4, <1>5, <1>6, <1>7, <1>8, <1>9 DEF Next

(* Whatever the server answers, the exception that leaves a call tells it,  *)
(* and the event of the call tells the exception.                           *)
THEOREM CausesKept == Spec => []CauseKept
  <1>1. ASSUME CallInv, CauseInv
        PROVE  CauseKept
    <2> SUFFICES ASSUME NEW t \in Threads, stage[t] = "raised"
                 PROVE  LET e == exception[t]
                            status == answer[t].status
                        IN  /\ \A event \in CallReports(t) :
                                  /\ event.data.exception_class = e.class
                                  /\ event.data.exception_code = e.code
                                  /\ event.data.exception_http_status_code = e.http_status_code
                            /\ \/ status < 300
                               \/ /\ e.http_status_code = status
                                  /\ answer[t].body # NotJson
                                        => e.code \in {Attr(answer[t].body, "errorCode"),
                                                       Attr(answer[t].body, "code")}
                                  /\ status \in 400 .. 499 => IsA(e.class, "ClientError")
                                  /\ status \in 500 .. 599 => e.class = "ServerError"
                               \/ status = 401 /\ e \in FetchErrors
                               \/ /\ e.class = "AttributeError"
                                  /\ Attr(Operations[call[t]].data, "payment_flow") = None
      BY DEF CauseKept
    <2>1. AnswerOK(t) /\ Cause(t) /\ Reported(t)
      BY <1>1 DEF CauseInv
    <2>2. \A event \in CallReports(t) :
             /\ event.data.exception_class = exception[t].class
             /\ event.data.exception_code = exception[t].code
             /\ event.data.exception_http_status_code = exception[t].http_status_code
      BY <2>1 DEF CallReports, Reported
    <2>3. CASE /\ answer[t].status >= 300
               /\ exception[t] = handle_response(answer[t].status, answer[t].body)
      <3>1. answer[t].status \in 300 .. 599
        BY <2>1, <2>3 DEF AnswerOK
      <3>2. LET e == exception[t]
                body == answer[t].body
                status == answer[t].status
            IN  /\ e.class = ExceptionClass(status) /\ e.http_status_code = status
                /\ body # NotJson => e.code \in {Attr(body, "errorCode"), Attr(body, "code")}
        <4> DEFINE status == answer[t].status
                   body == answer[t].body
        <4> HIDE DEF status, body
        <4>1. status \in 300 .. 599 /\ exception[t] = handle_response(status, body)
          BY <2>3, <3>1 DEF status, body
        <4>2. LET e == handle_response(status, body)
              IN  /\ e.class = ExceptionClass(status) /\ e.http_status_code = status
                  /\ body # NotJson
                        => e.code \in {Attr(body, "errorCode"), Attr(body, "code")}
          BY <4>1, HandledResponse
        <4> QED
          BY <4>1, <4>2 DEF status, body
      <3>3. /\ answer[t].status \in 400 .. 499
                  => IsA(ExceptionClass(answer[t].status), "ClientError")
            /\ answer[t].status \in 500 .. 599
                  => ExceptionClass(answer[t].status) = "ServerError"
        BY <3>1, ClassOfStatus
      <3> QED
        BY <2>2, <3>2, <3>3
    <2> QED
      BY <2>1, <2>2, <2>3 DEF AnswerOK, Cause, Flowless
  <1> QED
    BY <1>1, CallInit, CallStep, UnreportedInit, UnreportedStep, CauseInit, CauseStep,
       PTL DEF Spec
-----------------------------------------------------------------------------
(* As long as no refresh fails: a token that the server has rejected is     *)
(* replaced before its call lets the exception out, and so before the next  *)
(* token is taken.                                                          *)
Overtaken(t) ==
    answer[t].status = 401
        => /\ stage[t] \in {"unauthorized", "refreshing", "failed", "raised"}
           /\ stage[t] \in {"failed", "raised"} => version > given[t]

OvertakenInv ==
    /\ \A t \in Threads : Overtaken(t)
    /\ rejected > 0 => version > rejected

NoRefreshFails == \A t \in Threads : ~RefreshFails(t)

(* No token has been rejected yet. *)
LEMMA OvertakenInit == Init => OvertakenInv
  BY DEF Init, OvertakenInv, Overtaken, NoAnswer

(* Versions only grow, and a call keeps the version it was given. *)
LEMMA OvertakenOthers ==
    ASSUME CallInv, OvertakenInv, NEW t \in Threads,
           \A u \in Threads \ {t} :
              stage'[u] = stage[u] /\ answer'[u] = answer[u] /\ given'[u] = given[u],
           version' \in Nat, version' >= version, Overtaken(t)',
           rejected' = rejected \/ (rejected' > 0 => version' > rejected')
    PROVE  OvertakenInv'
  <1> USE ParametersOK DEF CallInv, TypeOK
  <1>1. \A u \in Threads \ {t} : Overtaken(u)'
    <2> SUFFICES ASSUME NEW u \in Threads \ {t}
                 PROVE  Overtaken(u)'
      OBVIOUS
    <2>1. Overtaken(u) /\ version \in Nat /\ given[u] \in Nat
      BY DEF OvertakenInv
    <2>2. stage'[u] = stage[u] /\ answer'[u] = answer[u] /\ given'[u] = given[u]
      OBVIOUS
    <2> QED
      BY <2>1, <2>2 DEF Overtaken
  <1>2. version \in Nat /\ rejected \in Nat
    OBVIOUS
  <1>3. rejected' > 0 => version' > rejected'
    BY <1>2 DEF OvertakenInv
  <1> QED
    BY <1>1, <1>3 DEF OvertakenInv

(* Every step but a failing refresh keeps it. *)
LEMMA OvertakenStep ==
    ASSUME CallInv, CallInv', OvertakenInv, [Next]_vars, [NoRefreshFails]_vars
    PROVE  OvertakenInv'
  <1> USE ParametersOK DEF CallInv, TypeOK, Shape, PerThread, Goto, Catch
  <1>0. /\ \A t \in Threads : Overtaken(t)
        /\ version \in Nat /\ version' \in Nat
    BY DEF OvertakenInv
  <1>1. CASE UNCHANGED vars
    BY <1>1 DEF vars, token, OvertakenInv, Overtaken
  <1>2. CASE TokenStored
    <2>1. /\ version' = version + 1
          /\ UNCHANGED <<given, stage, answer, rejected>>
      BY <1>2 DEF TokenStored, Token!Store, Token!StoreNext, Token!callers
    <2> QED
      BY <2>1, <1>0 DEF OvertakenInv, Overtaken
  <1>3. ASSUME NEW t \in Threads, Begin(t) \/ Send(t) \/ Run(t) \/ NoToken(t) \/ Lose(t)
        PROVE  OvertakenInv'
    <2>1. /\ stage[t] \in {"idle", "header", "sent"}
          /\ \A u \in Threads \ {t} : stage'[u] = stage[u] /\ given'[u] = given[u]
          /\ UNCHANGED <<answer, rejected, version>>
      BY <1>3 DEF Begin, Send, Run, NoToken, Lose, Token!Ask, Token!Give, Token!Refuse,
                  Token!tokens, token
    <2>2. answer[t].status # 401
      BY <1>0, <2>1 DEF Overtaken
    <2>3. Overtaken(t)'
      BY <2>1, <2>2 DEF Overtaken
    <2> QED
      BY <1>0, <2>1, <2>3, OvertakenOthers
  <1>4. ASSUME NEW t \in Threads, Accept(t)
        PROVE  OvertakenInv'
    <2>1. /\ \E where : Goto(t, where)
          /\ \E body : answer' = [answer EXCEPT ![t] = [status |-> 200, body |-> body]]
          /\ UNCHANGED <<rejected, version, given>>
      BY <1>4 DEF Accept, token
    <2>2. answer'[t].status = 200
      BY <2>1
    <2>3. Overtaken(t)'
      BY <2>2 DEF Overtaken
    <2> QED
      BY <1>0, <2>1, <2>3, OvertakenOthers
  <1>5. ASSUME NEW t \in Threads, Reject(t)
        PROVE  OvertakenInv'
    <2>1. PICK error \in Errors :
             LET e == handle_response(error.status, error.body)
             IN  /\ answer' = [answer EXCEPT ![t] = error]
                 /\ Goto(t, IF e.class = "UnauthorizedAccess"
                            THEN "unauthorized" ELSE "failed")
      BY <1>5 DEF Reject
    <2>2. UNCHANGED <<rejected, version, given>>
      BY <1>5 DEF Reject, token
    <2>3. error.status = 401
             => handle_response(error.status, error.body).class = "UnauthorizedAccess"
      <3> DEFINE status == error.status
                 body == error.body
      <3> HIDE DEF status, body
      <3>1. ASSUME status = 401
            PROVE  handle_response(status, body).class = "UnauthorizedAccess"
        <4>1. Mapped(status) = {"UnauthorizedAccess"}
          BY <3>1 DEF Mapped
        <4>2. handle_response(status, body).class = ExceptionClass(status)
          BY <3>1, HandledResponse
        <4>3. ExceptionClass(status) = CHOOSE c \in Mapped(status) : TRUE
          BY <4>1 DEF ExceptionClass
        <4> QED
          BY <4>1, <4>2, <4>3
      <3> QED
        BY <3>1 DEF status, body
    <2>4. answer'[t].status = 401 => stage'[t] = "unauthorized"
      BY <2>1, <2>3
    <2>5. Overtaken(t)'
      BY <2>4 DEF Overtaken
    <2> QED
      BY <1>0, <2>1, <2>2, <2>5, OvertakenOthers
  <1>6. ASSUME NEW t \in Threads, ForceRefresh(t)
        PROVE  OvertakenInv'
    <2>1. Goto(t, "refreshing") /\ UNCHANGED <<answer, rejected, version, given>>
      BY <1>6 DEF ForceRefresh, Token!Refresh, Token!tokens
    <2>2. Overtaken(t)'
      BY <2>1 DEF Overtaken
    <2> QED
      BY <1>0, <2>1, <2>2, OvertakenOthers
  <1>7. ASSUME NEW t \in Threads, Refreshed(t)
        PROVE  OvertakenInv'
    <2>1. /\ Goto(t, "failed") /\ UNCHANGED <<answer, rejected, given>>
          /\ version' >= version /\ version' > given[t]
      BY <1>7 DEF Refreshed, Token!Refreshed, Token!StoreAndRefreshed, Token!StoreNext,
                  Token!tokens, TokensStored
    <2>2. Overtaken(t)'
      BY <2>1 DEF Overtaken
    <2> QED
      BY <1>0, <2>1, <2>2, OvertakenOthers
  <1>8. ASSUME NEW t \in Threads, RefreshFails(t)
        PROVE  OvertakenInv'
    <2>1. stage'[t] # stage[t]
      BY <1>8 DEF RefreshFails
    <2>2. vars' # vars
      BY <2>1 DEF vars
    <2> QED
      BY <1>8, <2>2 DEF NoRefreshFails
  <1>9. ASSUME NEW t \in Threads, Return(t)
        PROVE  OvertakenInv'
    <2>1. /\ stage[t] = "succeeded" /\ \E where : Goto(t, where)
          /\ UNCHANGED <<answer, rejected, version, given>>
      BY <1>9 DEF Return, token
    <2>2. answer[t].status # 401
      BY <1>0, <2>1 DEF Overtaken
    <2>3. Overtaken(t)'
      BY <2>1, <2>2 DEF Overtaken
    <2> QED
      BY <1>0, <2>1, <2>3, OvertakenOthers
  <1>10. ASSUME NEW t \in Threads, Raise(t)
         PROVE  OvertakenInv'
    <2>1. /\ stage[t] = "failed" /\ Goto(t, "raised")
          /\ UNCHANGED <<answer, rejected, version, given>>
      BY <1>10 DEF Raise, token
    <2>2. Overtaken(t)'
      BY <1>0, <2>1 DEF Overtaken
    <2> QED
      BY <1>0, <2>1, <2>2, OvertakenOthers
  <1>11. ASSUME NEW t \in Threads, ValidateCallback(t) \/ EndCallback(t)
         PROVE  OvertakenInv'
    <2>1. /\ stage[t] \in {"idle", "validated"} /\ \E where : Goto(t, where)
          /\ answer' = answer \/ answer' = [answer EXCEPT ![t] = NoAnswer]
          /\ UNCHANGED <<rejected, version, given>>
      BY <1>11 DEF ValidateCallback, EndCallback, Forget, token
    <2>2. answer[t].status # 401 /\ NoAnswer.status # 401
      BY <1>0, <2>1 DEF Overtaken, NoAnswer
    <2>3. Overtaken(t)'
      BY <2>1, <2>2 DEF Overtaken
    <2> QED
      BY <1>0, <2>1, <2>3, OvertakenOthers
  <1>12. ASSUME NEW t \in Threads, End(t)
         PROVE  OvertakenInv'
    <2>1. /\ stage[t] \in {"returned", "raised"} /\ Goto(t, "idle")
          /\ answer' = [answer EXCEPT ![t] = NoAnswer]
          /\ version' = version /\ given' = [given EXCEPT ![t] = 0]
          /\ rejected' = IF answer[t].status = 401 /\ given[t] > rejected
                           THEN given[t] ELSE rejected
      BY <1>12 DEF End, Forget, Token!Leave, Token!tokens
    <2>2. NoAnswer.status # 401
      BY DEF NoAnswer
    <2>3. Overtaken(t)'
      BY <2>1, <2>2 DEF Overtaken
    <2>4. rejected' = rejected \/ version' > rejected'
      BY <1>0, <2>1 DEF Overtaken
    <2> QED
      BY <1>0, <2>1, <2>3, <2>4, OvertakenOthers
  <1> QED
    BY <1>1, <1>2, <1>3, <1>4, <1>5, <1>6, <1>7, <1>8, <1>9, <1>10, <1>11, <1>12 DEF Next

(* What the comment in _request_with_token_invalidation says is true as long *)
(* as no refresh after a 401 fails, whatever else does: a token the server  *)
(* has rejected is not sent by a later call.  The run api_rejected_token    *)
(* refutes it where a refresh fails.                                        *)
THEOREM RefreshedNotReused ==
    Spec /\ [][NoRefreshFails]_vars => RejectedTokenNotReused
  <1>1. ASSUME CallInv, OvertakenInv, [Next]_vars
        PROVE  [\A t \in Threads :
                  stage[t] = "header" /\ stage'[t] = "sent" /\ rejected > 0
                     => given'[t] # rejected]_vars
    <2> SUFFICES ASSUME NEW t \in Threads, stage[t] = "header", stage'[t] = "sent",
                        rejected > 0
                 PROVE  given'[t] # rejected
      OBVIOUS
    <2> USE DEF CallInv, TypeOK, Goto
    <2>1. version > rejected /\ version \in Nat /\ rejected \in Nat
      BY <1>1, ParametersOK DEF OvertakenInv
    <2>2. Send(t)
      <3>1. stage'[t] # stage[t]
        OBVIOUS
      <3>2. Next
        BY <1>1, <3>1 DEF vars
      <3>3. ~TokenStored
        BY <3>1 DEF TokenStored
      <3>4. PICK u \in Threads :
               \/ Begin(u) \/ Send(u) \/ NoToken(u) \/ Run(u) \/ Accept(u) \/ Reject(u)
               \/ Lose(u) \/ ForceRefresh(u) \/ Refreshed(u) \/ RefreshFails(u)
               \/ Return(u) \/ Raise(u) \/ End(u) \/ ValidateCallback(u) \/ EndCallback(u)
        BY <3>2, <3>3 DEF Next
      <3>5. u = t
        <4>1. UNCHANGED stage \/ \E where : Goto(u, where)
          BY <3>4 DEF Begin, Send, NoToken, Run, Accept, Reject, Lose, ForceRefresh,
                      Refreshed, RefreshFails, Return, Raise, End, ValidateCallback,
                      EndCallback, Forget
        <4> QED
          BY <1>1, <3>1, <4>1
      <3>6. NoToken(t) => stage'[t] \in {"unauthorized", "failed"}
        BY <1>1 DEF NoToken
      <3> QED
        BY <3>4, <3>5, <3>6
        DEF Begin, Run, Accept, Reject, Lose, ForceRefresh, Refreshed, RefreshFails,
            Return, Raise, End, ValidateCallback, EndCallback
    <2>3. given'[t] = version
      BY <1>1, <2>2 DEF Send, Token!Give
    <2> QED
      BY <2>1, <2>3
  <1>2. CallInv /\ CallInv' /\ OvertakenInv /\ [Next]_vars /\ [NoRefreshFails]_vars
          => OvertakenInv'
    BY OvertakenStep
  <1> QED
    BY <1>1, <1>2, CallInit, CallStep, OvertakenInit, PTL DEF Spec, RejectedTokenNotReused
=============================================================================
