------------------------------ MODULE ApiCalls ------------------------------
(***************************************************************************)
(* Calls of the API operations by application threads that share a client: *)
(* the operation's try and except clauses around                           *)
(* BaseClient._request_with_token_invalidation, the HTTP request, and the  *)
(* events that report what became of the call.  The token service appears  *)
(* as TokenContract, which TokenService implements.                        *)
(*                                                                         *)
(* An action ends where a call waits for the network or for the token      *)
(* service.  A request that times out may still be run by the server       *)
(* later; it then counts as run before the timeout, since the client       *)
(* cannot tell.                                                            *)
(***************************************************************************)
EXTENDS ResponseModels

CONSTANTS
    Threads,            \* application threads
    Menu,               \* the operations each thread calls, by name
    Operations,         \* their descriptions (see ApiOperations), by name
    Callbacks,          \* possible results of validate_callback
    Bodies,             \* bodies of 2xx responses, by response_obj
    Errors,             \* other responses: [status, body]
    TransportErrors,    \* exceptions of a request that gets no response
    FetchErrors,        \* exceptions of a failed token fetch
    should_publish_events,
    NoCall,
    MaxVersion,         \* bound: number of tokens
    MaxCalls            \* bound: number of calls

ASSUME ParametersOK ==
    /\ Menu \in [Threads -> SUBSET DOMAIN Operations]
    /\ NoCall \notin DOMAIN Operations
    /\ \A error \in Errors : error.status \in 300 .. 599
    /\ should_publish_events \in BOOLEAN
    /\ MaxVersion \in Nat /\ MaxCalls \in Nat

(* event is None, or tells event_state and can tell an exception. *)
Tells(event, event_state) ==
    \/ event = None
    \/ /\ event = BaseEvent(event.event_name, event.merchant_order_id, event.data)
       /\ event.data = [f \in DOMAIN EventData(None, None, None) |-> event.data[f]]
       /\ event.data.event_state = event_state

(* Every operation has events of its outcomes, and misses one only if its   *)
(* request has no payment flow.  A request that gets no response raises an  *)
(* exception of the transport, never one of the SDK.                        *)
ASSUME OperationsOK ==
    /\ \A name \in DOMAIN Operations :
          LET operation == Operations[name]
          IN  /\ Tells(operation.success, "SUCCESS")
              /\ Tells(operation.failure, "FAILED")
              /\ None \in {operation.success, operation.failure}
                    => Attr(operation.data, "payment_flow") = None
    /\ \A e \in TransportErrors : e.class # "UnauthorizedAccess"

VARIABLES
    env,            \* the client's environment
    version, usable, phase, given,      \* see TokenContract
    stage,          \* where each thread's call is
    call,           \* the operation it calls
    sent,           \* what it has sent: host, headers and the number of sends
    runs,           \* history: how often the server has run the request
    answer,         \* history: the response it got
    exception,      \* the exception it has caught
    reports,        \* history: events of the call, published by its operation
    calls,          \* number of calls begun
    rejected        \* history: newest token with which a call got 401

token == <<version, usable, phase, given>>
vars == <<env, token, stage, call, sent, runs, answer, exception, reports, calls, rejected>>

Token == INSTANCE TokenContract WITH Callers <- Threads

Publishing == should_publish_events /\ env = "PRODUCTION"

NoAnswer == [status |-> 0, body |-> None]
NotSent == [host |-> None, headers |-> <<>>, times |-> 0]

Init ==
    /\ env \in {"PRODUCTION", "SANDBOX"}
    /\ Token!Init
    /\ stage = [t \in Threads |-> "idle"]
    /\ call = [t \in Threads |-> NoCall]
    /\ sent = [t \in Threads |-> NotSent]
    /\ runs = [t \in Threads |-> 0]
    /\ answer = [t \in Threads |-> NoAnswer]
    /\ exception = [t \in Threads |-> None]
    /\ reports = [t \in Threads |-> <<>>]
    /\ calls = 0
    /\ rejected = 0

Goto(t, where) == stage' = [stage EXCEPT ![t] = where]

Catch(t, e) == exception' = [exception EXCEPT ![t] = e]

(* event_publisher.send; without publishing the publisher drops the event. *)
Publish(t, event) ==
    reports' = IF Publishing THEN [reports EXCEPT ![t] = Append(@, event)] ELSE reports

-----------------------------------------------------------------------------
(* The try clause: _prepare_headers, the request, the response.             *)

TokenStored ==          \* by another client thread, or by the refresher
    /\ Token!Store
    /\ UNCHANGED <<env, stage, call, sent, runs, answer, exception, reports, calls, rejected>>

Begin(t) ==
    /\ stage[t] = "idle"
    /\ calls < MaxCalls
    /\ calls' = calls + 1
    /\ \E name \in Menu[t] : call' = [call EXCEPT ![t] = name]
    /\ Token!Ask(t)
    /\ Goto(t, "header")
    /\ UNCHANGED <<env, sent, runs, answer, exception, reports, rejected>>

Host(operation) ==
    IF operation.pci THEN get_pci_pg_base_url(env) ELSE get_pg_base_url(env)

(* get_auth_token returns. *)
Send(t) ==
    /\ stage[t] = "header"
    /\ Token!Give(t)
    /\ LET operation == Operations[call[t]]
       IN  sent' = [sent EXCEPT ![t] =
                [host |-> Host(operation),
                 headers |-> merge_dict(prepare_headers(version), operation.headers),
                 times |-> 1]]
    /\ Goto(t, "sent")
    /\ UNCHANGED <<env, call, runs, answer, exception, reports, calls, rejected>>

(* get_auth_token raises what the fetch raised, if there is no token; only  *)
(* UnauthorizedAccess has an except clause of its own.  A token without its *)
(* fields raises TypeError.                                                 *)
NoToken(t) ==
    /\ stage[t] = "header"
    /\ Token!Refuse(t)
    /\ IF version = 0
         THEN \E e \in FetchErrors :
                /\ Catch(t, e)
                /\ Goto(t, IF e.class = "UnauthorizedAccess" THEN "unauthorized" ELSE "failed")
         ELSE /\ Catch(t, Exception("TypeError", None, None))
              /\ Goto(t, "failed")
    /\ UNCHANGED <<env, call, sent, runs, answer, reports, calls, rejected>>

Run(t) ==               \* the server runs the request
    /\ stage[t] = "sent"
    /\ runs[t] < sent[t].times
    /\ runs' = [runs EXCEPT ![t] = @ + 1]
    /\ UNCHANGED <<env, token, stage, call, sent, answer, exception, reports, calls, rejected>>

(* A response with a 2xx status answers a request that was run; one without *)
(* may as well.  The body is decoded if a response_obj is given.            *)
Accept(t) ==
    /\ stage[t] = "sent"
    /\ runs[t] > 0
    /\ LET response_obj == Operations[call[t]].response_obj
       IN  \E body \in Bodies[response_obj] :
            /\ handle_response(200, body) = None
            /\ answer' = [answer EXCEPT ![t] = [status |-> 200, body |-> body]]
            /\ IF response_obj # None /\ from_dict(response_obj, body) = Undecodable
                 THEN Catch(t, Exception("ValueError", None, None)) /\ Goto(t, "failed")
                 ELSE Goto(t, "succeeded") /\ UNCHANGED exception
    /\ UNCHANGED <<env, token, call, sent, runs, reports, calls, rejected>>

Reject(t) ==
    /\ stage[t] = "sent"
    /\ \E error \in Errors :
        /\ answer' = [answer EXCEPT ![t] = error]
        /\ LET e == handle_response(error.status, error.body)
           IN  /\ Catch(t, e)
               /\ Goto(t, IF e.class = "UnauthorizedAccess" THEN "unauthorized" ELSE "failed")
    /\ UNCHANGED <<env, token, call, sent, runs, reports, calls, rejected>>

LoseAndRetry_Bug(t) ==      \* the adapter sends the request again
    /\ stage[t] = "sent"
    /\ \/ /\ sent[t].times < 2
          /\ sent' = [sent EXCEPT ![t].times = 2]
          /\ UNCHANGED <<exception, stage>>
       \/ /\ \E e \in TransportErrors : Catch(t, e)
          /\ Goto(t, "failed")
          /\ UNCHANGED sent
    /\ UNCHANGED <<env, token, call, runs, answer, reports, calls, rejected>>

Lose(t) ==              \* refused, reset or timed out, run or not
    /\ stage[t] = "sent"
    /\ \E e \in TransportErrors : Catch(t, e)
    /\ Goto(t, "failed")
    /\ UNCHANGED <<env, token, call, sent, runs, answer, reports, calls, rejected>>

-----------------------------------------------------------------------------
(* except UnauthorizedAccess: force_refresh_token, then raise again.        *)

ForceRefresh(t) ==
    /\ stage[t] = "unauthorized"
    /\ Token!Refresh(t)
    /\ Goto(t, "refreshing")
    /\ UNCHANGED <<env, call, sent, runs, answer, exception, reports, calls, rejected>>

Refreshed(t) ==
    /\ stage[t] = "refreshing"
    /\ Token!Refreshed(t) \/ Token!StoreAndRefreshed(t)
    /\ Goto(t, "failed")
    /\ UNCHANGED <<env, call, sent, runs, answer, exception, reports, calls, rejected>>

RefreshFailsSilently_Bug(t) ==      \* the 401 is raised as if nothing happened
    /\ stage[t] = "refreshing"
    /\ Goto(t, "failed")
    /\ UNCHANGED <<env, token, call, sent, runs, answer, exception, reports, calls, rejected>>

(* What the fetch raises takes the place of the 401. *)
RefreshFails(t) ==
    /\ stage[t] = "refreshing"
    /\ \E e \in FetchErrors : Catch(t, e)
    /\ Goto(t, "failed")
    /\ UNCHANGED <<env, token, call, sent, runs, answer, reports, calls, rejected>>

-----------------------------------------------------------------------------
(* The end of the operation.  A success event that cannot be built takes    *)
(* the call to the except clause, and a failure event that cannot be built  *)
(* replaces the exception.                                                  *)

ReturnUnreported_Bug(t) ==      \* no event, no matter
    /\ stage[t] = "succeeded"
    /\ LET event == Operations[call[t]].success
       IN  IF event # None THEN Publish(t, event) ELSE UNCHANGED reports
    /\ Goto(t, "returned")
    /\ UNCHANGED <<env, token, call, sent, runs, answer, exception, calls, rejected>>

Return(t) ==
    /\ stage[t] = "succeeded"
    /\ LET event == Operations[call[t]].success
       IN  IF event # None
             THEN Publish(t, event) /\ Goto(t, "returned") /\ UNCHANGED exception
             ELSE /\ Catch(t, Exception("AttributeError", None, None))
                  /\ Goto(t, "failed")
                  /\ UNCHANGED reports
    /\ UNCHANGED <<env, token, call, sent, runs, answer, calls, rejected>>

Raise(t) ==
    /\ stage[t] = "failed"
    /\ LET event == Operations[call[t]].failure
       IN  IF event # None
             THEN /\ Publish(t, populate_phonepe_exception_fields(event, exception[t]))
                  /\ UNCHANGED exception
             ELSE /\ Catch(t, Exception("AttributeError", None, None))
                  /\ UNCHANGED reports
    /\ Goto(t, "raised")
    /\ UNCHANGED <<env, token, call, sent, runs, answer, calls, rejected>>

ValidateCallback(t) ==
    /\ stage[t] = "idle"
    /\ calls < MaxCalls
    /\ calls' = calls + 1
    /\ \E result \in Callbacks :
        /\ IF result.report = None THEN UNCHANGED reports ELSE Publish(t, result.report)
        /\ Catch(t, result.error)
        /\ Goto(t, "validated")
    /\ UNCHANGED <<env, token, call, sent, runs, answer, rejected>>

Forget(t) ==
    /\ Goto(t, "idle")
    /\ call' = [call EXCEPT ![t] = NoCall]
    /\ sent' = [sent EXCEPT ![t] = NotSent]
    /\ runs' = [runs EXCEPT ![t] = 0]
    /\ answer' = [answer EXCEPT ![t] = NoAnswer]
    /\ exception' = [exception EXCEPT ![t] = None]
    /\ reports' = [reports EXCEPT ![t] = <<>>]
    /\ UNCHANGED <<env, calls>>

End(t) ==
    /\ stage[t] \in {"returned", "raised"}
    /\ Token!Leave(t)
    /\ rejected' = IF answer[t].status = 401 /\ given[t] > rejected
                     THEN given[t] ELSE rejected
    /\ Forget(t)

EndCallback(t) ==
    /\ stage[t] = "validated"
    /\ Forget(t)
    /\ UNCHANGED <<token, rejected>>

Next ==
    \/ TokenStored
    \/ \E t \in Threads :
          \/ Begin(t) \/ Send(t) \/ NoToken(t)
          \/ Run(t) \/ Accept(t) \/ Reject(t) \/ Lose(t)
          \/ ForceRefresh(t) \/ Refreshed(t) \/ RefreshFails(t)
          \/ Return(t) \/ Raise(t) \/ End(t)
          \/ ValidateCallback(t) \/ EndCallback(t)

Spec == Init /\ [][Next]_vars

-----------------------------------------------------------------------------
Stages == {"idle", "header", "sent", "unauthorized", "refreshing", "succeeded",
           "failed", "returned", "raised", "validated"}

CallReports(t) == {reports[t][i] : i \in DOMAIN reports[t]}

(* The state of the calls is well typed, and in step with the token         *)
(* service: who is between two stages of a request holds, or waits for, a   *)
(* token.                                                                   *)
TypeOK ==
    /\ env \in {"PRODUCTION", "SANDBOX"}
    /\ version \in 0 .. MaxVersion /\ usable \in BOOLEAN
    /\ phase \in [Threads -> Token!Phases]
    /\ given \in [Threads -> 0 .. MaxVersion]
    /\ stage \in [Threads -> Stages]
    /\ call \in [Threads -> DOMAIN Operations \cup {NoCall}]
    /\ runs \in [Threads -> 0 .. 1]
    /\ calls \in 0 .. MaxCalls
    /\ rejected \in 0 .. MaxVersion
    /\ \A t \in Threads :
        /\ phase[t] = "idle" <=> stage[t] \in {"idle", "validated"}
        /\ phase[t] = "asking" <=> stage[t] = "header"
        /\ call[t] = NoCall <=> phase[t] = "idle"

CarriesCard(data) ==
    LET payment_mode == Attr(Attr(data, "payment_flow"), "payment_mode")
    IN  \E f \in {"card_details", "token_details"} : Attr(payment_mode, f) # None

(* In production, what goes to the PCI host is exactly the requests that    *)
(* carry data of a card, new or saved, whichever builder made them.         *)
CardDataStaysOnPciHost ==
    \A t \in Threads :
        sent[t].times > 0 /\ env = "PRODUCTION"
            => (sent[t].host = "cards.phonepe.com"
                    <=> CarriesCard(Operations[call[t]].data))

(* The ids a request mentions, in its url or in its body, and those that    *)
(* the event of the call mentions.                                          *)
RequestIds(operation) ==
    (IF Len(operation.url) > 1 THEN {operation.url[2]} ELSE {})
    \cup {Attr(operation.data, f) : f \in {"merchant_order_id", "merchant_refund_id",
                                           "original_merchant_order_id"}}
    \cup {Attr(Attr(operation.data, "payment_flow"), "merchant_subscription_id")}

EventIds(event) ==
    {event.merchant_order_id} \cup
    {event.data[f] : f \in {"merchant_refund_id", "original_merchant_order_id",
                            "transaction_id", "merchant_subscription_id"}}

(* The event of a call can be matched with its request: same url, the same  *)
(* orders, refunds, transactions and subscriptions, same amount and         *)
(* expiries.  The one exception is the subscription of a notify call, which *)
(* its event never mentions.                                                *)
EventTracesCall ==
    \A t \in Threads : stage[t] \in {"returned", "raised"} =>
        \A event \in CallReports(t) :
            LET operation == Operations[call[t]]
                unmentioned == RequestIds(operation) \ (EventIds(event) \cup {None})
            IN  /\ event.data.api_path = operation.url
                /\ EventIds(event) \ {None} \subseteq RequestIds(operation)
                /\ unmentioned # {} =>
                      /\ operation.url = <<"/subscriptions/v2/notify">>
                      /\ unmentioned = {operation.data.payment_flow.merchant_subscription_id}
                /\ event.data.amount = Attr(operation.data, "amount")
                /\ event.data.expire_after = Attr(operation.data, "expire_after")
                /\ event.data.order_expire_at = Attr(operation.data, "expire_at")

(* The exception that leaves a call is the one it reports, and tells what   *)
(* the server answered: a 4xx is a ClientError with its status and the code *)
(* of its body, a 5xx a ServerError; only a token refresh that fails may    *)
(* hide a 401, and only a request without a payment flow any of them.       *)
CauseKept ==
    \A t \in Threads : stage[t] = "raised" =>
        LET e == exception[t]
            status == answer[t].status
        IN  /\ \A event \in CallReports(t) :
                  /\ event.data.exception_class = e.class
                  /\ event.data.exception_code = e.code
                  /\ event.data.exception_http_status_code = e.http_status_code
            /\ \/ status < 300
               \/ /\ e.http_status_code = status
                  /\ answer[t].body # NotJson
                        => e.code \in {Attr(answer[t].body, "errorCode"),
                                       Attr(answer[t].body, "code")}
                  /\ status \in 400 .. 499 => IsA(e.class, "ClientError")
                  /\ status \in 500 .. 599 => e.class = "ServerError"
               \/ status = 401 /\ e \in FetchErrors
               \/ /\ e.class = "AttributeError"
                  /\ Attr(Operations[call[t]].data, "payment_flow") = None

(* A caller that sees the server's 401 may simply call again: by then the   *)
(* token that was rejected has been replaced, whoever replaced it.          *)
RejectedTokenReplaced ==
    \A t \in Threads : stage[t] = "raised" =>
        \/ exception[t].class # "UnauthorizedAccess"
        \/ exception[t] \in FetchErrors
        \/ version > given[t]

(* What a response must satisfy to be decoded, from the models' fields.     *)
Readable(body) ==
    /\ body # NotJson
    /\ LET meta_info == Attr(body, "meta_info")
           details == Attr(body, "payment_details")
           flow == Attr(body, "payment_flow")
       IN  /\ meta_info # None =>
                  \A i \in DOMAIN meta_info :
                     IF i <= 10 THEN meta_info[i].size < 257
                                ELSE meta_info[i].size < 51 /\ meta_info[i].plain
           /\ details # None =>
                  \A i \in DOMAIN details :
                     Attr(details[i], "payment_mode") \in PgV2InstrumentType \cup {None}
           /\ TermsKnown(body) /\ TermsKnown(flow) /\ RetryKnown(flow)

(* An operation that the server carried out is not turned into a failure by *)
(* anything in a well-formed response, such as an instrument, a rail or a   *)
(* flow the SDK does not know yet, nor by reporting it; the one exception   *)
(* is a notify request without a payment flow.                              *)
AcceptedCallsReturn ==
    \A t \in Threads :
        stage[t] = "raised" /\ answer[t].status \in 200 .. 299 /\ Readable(answer[t].body)
            => /\ Operations[call[t]].url = <<"/subscriptions/v2/notify">>
               /\ Operations[call[t]].data.payment_flow = None

(* The calls keep their contract: how far a call is, and what has been      *)
(* reported of it.                                                          *)
Progress(t) ==
    CASE stage[t] \in {"idle", "validated"} -> "none"
      [] stage[t] \in {"returned", "raised"} -> stage[t]
      [] OTHER -> "running"

Outcome(t) ==
    IF call[t] = NoCall \/ reports[t] = <<>> THEN "none"
    ELSE IF Len(reports[t]) = 1 THEN reports[t][1].data.event_state
    ELSE "several"

Contract ==
    INSTANCE CallContract WITH
        publishes <- Publishing,
        progress  <- [t \in Threads |-> Progress(t)],
        outcome   <- [t \in Threads |-> Outcome(t)]

(* The server runs a request at most once, a call returns only if it did,   *)
(* and what is reported of the call is what the caller saw, once.           *)
KeepsContract == Contract!Spec

-----------------------------------------------------------------------------
(* What a comment of the code says and the code does not do.                *)

(* After a call was rejected with a 401, a later call uses a newer token.   *)
(* The comment in _request_with_token_invalidation says that the token      *)
(* cache is invalidated, so the next call fetches a fresh token; when the   *)
(* refresh fails, the rejected token stays in the cache.                    *)
RejectedTokenNotReused ==
    [][\A t \in Threads :
          stage[t] = "header" /\ stage'[t] = "sent" /\ rejected > 0
              => given'[t] # rejected]_vars
=============================================================================
